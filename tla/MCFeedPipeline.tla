--------------------------- MODULE MCFeedPipeline ---------------------------
(***************************************************************************)
(* Instances of FeedPipeline for TLC: "passwall2" stands for the feeds     *)
(* whose Makefiles validate.yml looks at, "openclash" for those it does    *)
(* not (feeds/openclash/Makefile is one level too high for its find).      *)
(***************************************************************************)
EXTENDS FeedPipeline, TLC

CONSTANTS r1, r2

RunSymmetry == Permutations({r1, r2})

tree(mk, src, dot) == [mk |-> mk, src |-> src, dot |-> dot]

\* The trees upstream publishes.  Two successive commits that change one file make
\* overlapping branches conflict, changes of different files do not; a commit
\* deletes a file; the Makefile of one commit is bad.
Passwall(v) ==
    CASE v = 0 -> tree("a", "a", "none")
      [] v = 1 -> tree("bad", "b", "none")
      [] OTHER -> tree("b", "none", "none")
Openclash(v) ==
    CASE v = 0 -> tree("a", "a", "a")
      [] OTHER -> tree("bad", "b", "none")

History == [r \in Repos |-> [v \in Versions |->
              IF r = "passwall2" THEN Passwall(v) ELSE Openclash(v)]]

\* The same without the bad Makefile, whose pull requests could be reopened for
\* ever.
GoodHistory == [r \in Repos |-> [v \in Versions |->
              IF v = 0 THEN tree("a", "a", "none")
              ELSE IF v = 1 THEN tree("a", "b", "none") ELSE tree("b", "c", "none")]]

Scripts == SelectSeq(<<"openclash", "passwall2">>, LAMBDA r : r \in Repos)

PackageMakefile == [r \in Repos |-> "mk"]

AllFeeds == {"openclash", "passwall2"}

\* The trees are histories in which no file returns to an old content.
ASSUME NoRevert

EveryFeedValidated == AllFeedsValidated(AllFeeds)
=============================================================================
