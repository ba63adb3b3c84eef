--------------------------- MODULE MCSyncScripts ----------------------------
(***************************************************************************)
(* Instances of SyncScripts for TLC: one script like sync-passwall.sh, with*)
(* a repository that is wiped ("passwall") and one that is not ("deps"),   *)
(* both copied by subdirectories, and one like sync-argon.sh, which copies *)
(* a whole tree.                                                           *)
(***************************************************************************)
EXTENDS SyncScripts

tree(mk, src1, dot) == [mk |-> mk, src |-> src1, dot |-> dot]

\* The second commit changes one file and deletes the others.
History ==
    [r \in Repos |-> [v \in Versions |->
        IF v = 0 THEN tree("a", "a", "a") ELSE tree("b", "none", "none")]]

AllScripts == <<(<<"argon">>), (<<"passwall", "deps">>)>>
=============================================================================
