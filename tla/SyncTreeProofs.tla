--------------------------- MODULE SyncTreeProofs ----------------------------
(***************************************************************************)
(* Facts about the operations on trees, for any files and any contents.    *)
(***************************************************************************)
EXTENDS SyncTree, TLAPS

\* Syncing, staging and merging trees gives trees (sync-repo.sh, git).
LEMMA TreeType ==
    ASSUME NEW r \in Repos, NEW a \in Tree, NEW b \in Tree, NEW c \in Tree
    PROVE  /\ SyncRepo(r, a, b) \in Tree
           /\ Staged(a, b) \in Tree
           /\ Merged(a, b, c) \in Tree
           /\ Clean(r, a) \in Tree
  BY TreeAssumption DEF SyncRepo, Copy, Clean, Staged, Merged, Tree

\* A sync leaves the upstream content in every exact file, whatever the
\* destination held (sync-repo.sh, clean then copy).
LEMMA SyncExact ==
    ASSUME NEW r \in Repos, NEW dest \in Tree, NEW src \in Tree, NEW f \in Exact(r)
    PROVE  SyncRepo(r, dest, src)[f] = src[f]
  <1>1. f \in Files /\ f \in Copied(r) /\ f \in Wiped(r)
    BY TreeAssumption DEF Exact, Copied, Files
  <1> QED
    BY <1>1 DEF SyncRepo, Copy, Clean

\* Staging keeps the content of every exact file: none of them is ignored.
LEMMA StagedExact ==
    ASSUME NEW r \in Repos, NEW a \in Tree, NEW b \in Tree, NEW f \in Exact(r)
    PROVE  Staged(a, b)[f] = b[f]
  <1>1. f \in Files /\ f \notin Ignored
    BY TreeAssumption DEF Exact, Copied, Files
  <1> QED
    BY <1>1 DEF Staged

LEMMA ExactFiles ==
    ASSUME NEW r \in Repos
    PROVE  Exact(r) \subseteq Files
  BY DEF Exact, Copied, Files

\* The clean step leaves none of the files a sync copies exactly (sync-repo.sh:64).
LEMMA CleanExact ==
    ASSUME NEW r \in Repos, NEW dest \in Tree, NEW f \in Exact(r)
    PROVE  f \in Files /\ f \in Copied(r) /\ Clean(r, dest)[f] = Absent
  <1>1. f \in Files /\ f \in Copied(r) /\ f \in Wiped(r)
    BY DEF Exact, Copied, Files
  <1> QED
    BY <1>1 DEF Clean
=============================================================================
