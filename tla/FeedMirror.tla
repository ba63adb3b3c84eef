----------------------------- MODULE FeedMirror -----------------------------
(***************************************************************************)
(* What the feed promises of the upstream repositories it mirrors: at any  *)
(* moment it holds one commit of each, one upstream has published, and it  *)
(* only ever moves on to later ones.  It promises nothing about the commits*)
(* of two repositories belonging together.                                 *)
(***************************************************************************)
EXTENDS Integers

CONSTANTS
    Repos,     \* upstream repositories
    MaxVer     \* commits upstream publishes after the initial one (a bound)

VARIABLES
    upstream,  \* upstream[r]: the commit HEAD of r points to
    mirror     \* mirror[r]: the commit of r the feed holds

Init ==
    /\ upstream = [r \in Repos |-> 0]
    /\ mirror = [r \in Repos |-> 0]

Publish(r) ==
    /\ upstream[r] < MaxVer
    /\ upstream' = [upstream EXCEPT ![r] = @ + 1]
    /\ UNCHANGED mirror

\* One merge may move several repositories on.
Advance ==
    /\ mirror' \in [Repos -> 0..MaxVer]
    /\ \A r \in Repos : mirror'[r] \in mirror[r]..upstream[r]
    /\ UNCHANGED upstream

Next == Advance \/ \E r \in Repos : Publish(r)

Spec == Init /\ [][Next]_<<upstream, mirror>>
=============================================================================
