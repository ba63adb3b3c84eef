-------------------------- MODULE SyncScriptsProofs --------------------------
(***************************************************************************)
(* Proofs about SyncScripts for any repositories, files, upstream history  *)
(* and division of the repositories among scripts.                         *)
(***************************************************************************)
EXTENDS SyncScripts, SyncTreeProofs

\* Scripts the run has still to finish will sync r.
InScript(r, k, from) == \E p \in from..Len(Scripts[k]) : Scripts[k][p] = r
Later(r) == \E k \in (script + 1)..Len(Scripts) : InScript(r, k, 1)
Ahead(r) == InScript(r, script, part) \/ Later(r)

\* What is torn while no script has failed is still to be synced, or is being synced.
TornIsAhead == at # "idle" /\ failed = {} => \A r \in Repos : Whole(r, dest[r]) \/ Ahead(r)

\* What is torn was torn by a script, so some script will mend it.
TornIsSynced ==
    \A r \in Repos : Whole(r, dest[r]) \/ \E k \in 1..Len(Scripts) : InScript(r, k, 1)

\* The tarball is one commit ...
SourceIsCommit ==
    at \in {"clean", "copy"} =>
        \E v \in 0..upstream[current] : src = Snap[current][v]

\* ... and every file that has not to be copied any more is as it is there.
CopyGoesOn ==
    at = "copy" => \A f \in Exact(current) : f \in left \/ dest[current][f] = src[f]

PublishedIsWhole == pushedWith = "ok" => \A r \in Repos : Whole(r, published[r])

IInv ==
    /\ TypeOK /\ SuccessMeansWhole /\ TornIsAhead /\ TornIsSynced
    /\ SourceIsCommit /\ CopyGoesOn /\ PublishedIsWhole
-----------------------------------------------------------------------------
(* Repositories and trees. *)

LEMMA ScriptTypes ==
    /\ Len(Scripts) \in Nat \ {0}
    /\ \A k \in 1..Len(Scripts) :
         /\ Len(Scripts[k]) \in Nat \ {0}
         /\ \A p \in 1..Len(Scripts[k]) : Scripts[k][p] \in Repos
  BY ScriptsAssumption

LEMMA CurrentType ==
    ASSUME TypeOK
    PROVE  /\ current \in Repos /\ script \in Nat /\ part \in Nat
           /\ InScript(current, script, part) /\ InScript(current, script, 1)
  BY ScriptTypes DEF TypeOK, current, InScript

LEMMA SnapType ==
    ASSUME NEW r \in Repos, NEW v \in Versions
    PROVE  Snap[r][v] \in Tree
  BY ScriptsAssumption

LEMMA EmptyType == Empty \in Tree
  BY TreeAssumption DEF Empty, Tree

\* What holds one commit goes on to hold it when upstream goes on.
LEMMA WholeGrows ==
    ASSUME TypeOK, NEW r \in Repos, NEW t \in Tree, NEW u \in Versions, upstream[r] <= u,
           Whole(r, t)
    PROVE  \E v \in 0..u : Agree(r, t, v)
  BY ScriptsAssumption DEF Whole, TypeOK, Versions

\* Staging a whole tree gives a whole tree.
LEMMA StagedWhole ==
    ASSUME NEW r \in Repos, NEW a \in Tree, NEW b \in Tree, Whole(r, b)
    PROVE  Whole(r, Staged(a, b))
  BY StagedExact DEF Whole, Agree

\* A copy that has no file left has made the destination the commit.
LEMMA CopiedWhole ==
    ASSUME TypeOK, SourceIsCommit, CopyGoesOn, at = "copy", left = {}
    PROVE  Whole(current, dest[current])
  BY DEF SourceIsCommit, CopyGoesOn, Whole, Agree
-----------------------------------------------------------------------------
(* The end of a script. *)

\* If the scripts that failed so far are fs and, if none did, what is torn comes later,
\* then the end of a script leaves the invariant of the run intact.
LEMMA ScriptEnds ==
    ASSUME IInv, at # "idle", NEW fs \in SUBSET (1..Len(Scripts)), EndScript(fs),
           UNCHANGED <<upstream, dest, branch, flag>>, faults' \in 0..MaxFaults,
           fs = {} => \A r \in Repos : Whole(r, dest[r]) \/ Later(r)
    PROVE  IInv'
  <1> USE DEF IInv
  <1>1. CASE script < Len(Scripts)
    <2>1. /\ at' = "fetch" /\ script' = script + 1 /\ part' = 1 /\ failed' = fs
          /\ src' = Empty /\ left' = {} /\ UNCHANGED exit
      BY <1>1 DEF EndScript
    <2>2. script \in Nat /\ script' \in 1..Len(Scripts)
      BY <1>1, <2>1, ScriptTypes, CurrentType
    <2>3. TypeOK'
      BY <2>1, <2>2, EmptyType, ScriptTypes DEF TypeOK, branch
    <2>4. ASSUME NEW r \in Repos, Later(r) PROVE Ahead(r)'
      <3>1. PICK k \in (script + 1)..Len(Scripts) : InScript(r, k, 1)
        BY <2>4 DEF Later
      <3>2. CASE k = script + 1
        BY <2>1, <3>1, <3>2 DEF Ahead, InScript
      <3>3. CASE k # script + 1
        <4>1. k \in (script' + 1)..Len(Scripts)
          BY <2>1, <2>2, <3>3, ScriptTypes
        <4> QED
          BY <3>1, <4>1 DEF Ahead, Later, InScript
      <3> QED
        BY <3>2, <3>3
    <2>5. \A r \in Repos : Whole(r, dest[r])' = Whole(r, dest[r])
      BY DEF Whole
    <2>6. TornIsAhead'
      BY <2>1, <2>4, <2>5 DEF TornIsAhead
    <2>7. TornIsSynced'
      BY <2>5 DEF TornIsSynced, InScript
    <2>8. SuccessMeansWhole' /\ SourceIsCommit' /\ CopyGoesOn'
      BY <2>1 DEF SuccessMeansWhole, SourceIsCommit, CopyGoesOn
    <2>9. PublishedIsWhole'
      BY DEF PublishedIsWhole, Whole, branch
    <2> QED
      BY <2>3, <2>6, <2>7, <2>8, <2>9
  <1>2. CASE ~(script < Len(Scripts))
    <2>1. /\ at' = "idle" /\ script' = 1 /\ part' = 1 /\ failed' = fs
          /\ src' = Empty /\ left' = {} /\ exit' = IF fs = {} THEN "ok" ELSE "failed"
      BY <1>2 DEF EndScript
    <2>2. TypeOK'
      BY <2>1, EmptyType, ScriptTypes DEF TypeOK, branch
    <2>3. \A r \in Repos : ~Later(r)
      BY <1>2, ScriptTypes, CurrentType DEF Later
    <2>4. \A r \in Repos : Whole(r, dest[r])' = Whole(r, dest[r])
      BY DEF Whole
    <2>5. SuccessMeansWhole'
      BY <2>1, <2>3, <2>4 DEF SuccessMeansWhole
    <2>6. TornIsSynced'
      BY <2>4 DEF TornIsSynced, InScript
    <2>7. TornIsAhead' /\ SourceIsCommit' /\ CopyGoesOn'
      BY <2>1 DEF TornIsAhead, SourceIsCommit, CopyGoesOn
    <2>8. PublishedIsWhole'
      BY DEF PublishedIsWhole, Whole, branch
    <2> QED
      BY <2>2, <2>5, <2>6, <2>7, <2>8
  <1> QED
    BY <1>1, <1>2
-----------------------------------------------------------------------------
(* The invariant. *)

LEMMA InitInv == Init => IInv
  <1> SUFFICES ASSUME Init PROVE IInv
    OBVIOUS
  <1>1. /\ upstream \in [Repos -> Versions] /\ \A r \in Repos : upstream[r] = 0
        /\ 0 \in Versions
    BY ScriptsAssumption DEF Init, Versions
  <1>2. ASSUME NEW r \in Repos
        PROVE  /\ Snap[r][0] \in Tree /\ dest[r] = SyncRepo(r, Empty, Snap[r][0])
               /\ dest[r] \in Tree
               /\ published[r] = Staged(Empty, dest[r]) /\ published[r] \in Tree
               /\ committed[r] = published[r]
    <2>1. Snap[r][0] \in Tree
      BY <1>1, SnapType
    <2>2. dest[r] = SyncRepo(r, Empty, Snap[r][0])
      BY DEF Init
    <2>3. dest[r] \in Tree
      BY <2>1, <2>2, EmptyType, TreeType
    <2>4. published[r] = Staged(Empty, dest[r]) /\ committed[r] = published[r]
      BY DEF Init
    <2> QED
      BY <2>1, <2>2, <2>3, <2>4, EmptyType, TreeType
  <1>3. ASSUME NEW r \in Repos
        PROVE  Whole(r, dest[r]) /\ Whole(r, published[r])
    <2>1. Agree(r, dest[r], 0)
      BY <1>2, EmptyType, SyncExact DEF Agree
    <2>2. Whole(r, dest[r])
      BY <1>1, <2>1 DEF Whole
    <2> QED
      BY <1>2, <2>2, EmptyType, StagedWhole
  <1>4. TypeOK
    <2>1. dest \in [Repos -> Tree] /\ published \in [Repos -> Tree] /\ committed \in [Repos -> Tree]
      BY <1>2 DEF Init
    <2>2. faults \in 0..MaxFaults
      BY ScriptsAssumption DEF Init
    <2> QED
      BY <1>1, <2>1, <2>2, EmptyType, ScriptTypes DEF Init, TypeOK
  <1>5. SuccessMeansWhole /\ TornIsSynced /\ PublishedIsWhole
    BY <1>3 DEF SuccessMeansWhole, TornIsSynced, PublishedIsWhole
  <1>6. TornIsAhead /\ SourceIsCommit /\ CopyGoesOn
    BY DEF Init, TornIsAhead, SourceIsCommit, CopyGoesOn
  <1> QED
    BY <1>4, <1>5, <1>6 DEF IInv

LEMMA PublishInv ==
    ASSUME IInv, NEW r \in Repos, Publish(r)
    PROVE  IInv'
  <1> USE DEF IInv
  <1>1. /\ upstream' \in [Repos -> Versions]
        /\ \A q \in Repos : upstream[q] <= upstream'[q] /\ upstream'[q] \in Versions
    BY ScriptsAssumption DEF Publish, TypeOK, Versions
  <1>2. UNCHANGED <<dest, branch, run, exit, flag, faults>>
    BY DEF Publish
  <1>3. ASSUME NEW q \in Repos, NEW t \in Tree, Whole(q, t)
        PROVE  \E v \in 0..upstream'[q] : Agree(q, t, v)
    BY <1>1, <1>3, WholeGrows
  <1>4. ASSUME NEW q \in Repos
        PROVE  /\ Whole(q, dest[q]) => Whole(q, dest[q])'
               /\ Whole(q, published[q]) => Whole(q, published[q])'
    <2>1. dest[q] \in Tree /\ published[q] \in Tree
      BY DEF TypeOK
    <2>2. UNCHANGED <<dest, published>>
      BY <1>2 DEF branch
    <2> QED
      BY <1>3, <2>1, <2>2 DEF Whole, Agree
  <1>5. TypeOK'
    BY <1>1, <1>2 DEF TypeOK, branch, run
  <1>6. SuccessMeansWhole' /\ TornIsSynced' /\ PublishedIsWhole'
    BY <1>2, <1>4 DEF SuccessMeansWhole, TornIsSynced, PublishedIsWhole, branch, run, InScript
  <1>7. TornIsAhead'
    BY <1>2, <1>4 DEF TornIsAhead, run, Ahead, Later, InScript
  <1>8. SourceIsCommit'
    <2>1. current' = current /\ current \in Repos /\ at' = at /\ src' = src
      BY <1>2, CurrentType DEF current, run
    <2>2. ASSUME NEW v \in 0..upstream[current] PROVE v \in 0..upstream'[current]
      BY <1>1, <2>1, ScriptsAssumption DEF TypeOK, Versions
    <2> QED
      BY <2>1, <2>2 DEF SourceIsCommit
  <1>9. CopyGoesOn'
    BY <1>2 DEF CopyGoesOn, run, current
  <1> QED
    BY <1>5, <1>6, <1>7, <1>8, <1>9

LEMMA StartInv ==
    ASSUME IInv, Start
    PROVE  IInv'
  <1> USE DEF IInv
  <1>1. /\ at' = "fetch" /\ script' = 1 /\ part' = 1 /\ failed' = {}
        /\ UNCHANGED <<upstream, dest, branch, src, left, exit, flag, faults>>
    BY DEF Start
  <1>2. TypeOK'
    BY <1>1, ScriptTypes DEF TypeOK, branch
  <1>3. \A r \in Repos : /\ Whole(r, dest[r])' = Whole(r, dest[r])
                         /\ Whole(r, published[r])' = Whole(r, published[r])
    BY <1>1 DEF Whole, branch
  <1>4. TornIsAhead'
    <2> SUFFICES ASSUME NEW r \in Repos, ~Whole(r, dest[r])' PROVE Ahead(r)'
      BY DEF TornIsAhead
    <2>1. PICK k \in 1..Len(Scripts) : InScript(r, k, 1)
      BY <1>3 DEF TornIsSynced
    <2>2. CASE k = 1
      BY <1>1, <2>1, <2>2 DEF Ahead, InScript
    <2>3. CASE k # 1
      <3>1. k \in (script' + 1)..Len(Scripts)
        BY <1>1, <2>3, ScriptTypes
      <3> QED
        BY <2>1, <3>1 DEF Ahead, Later, InScript
    <2> QED
      BY <2>2, <2>3
  <1>5. SuccessMeansWhole' /\ SourceIsCommit' /\ CopyGoesOn'
    BY <1>1 DEF SuccessMeansWhole, SourceIsCommit, CopyGoesOn
  <1>6. TornIsSynced' /\ PublishedIsWhole'
    BY <1>1, <1>3 DEF TornIsSynced, PublishedIsWhole, InScript, branch
  <1> QED
    BY <1>2, <1>4, <1>5, <1>6

LEMMA FailsInv ==
    ASSUME IInv, Fails
    PROVE  IInv'
  <1>1. /\ at # "idle" /\ EndScript(failed \cup {script})
        /\ UNCHANGED <<upstream, dest, branch, flag>>
    BY DEF Fails
  <1>2. faults' \in 0..MaxFaults
    BY ScriptsAssumption DEF Fails, Fault, IInv, TypeOK
  <1>3. failed \cup {script} \in SUBSET (1..Len(Scripts)) /\ failed \cup {script} # {}
    BY DEF IInv, TypeOK
  <1> QED
    BY <1>1, <1>2, <1>3, ScriptEnds

LEMMA FetchInv ==
    ASSUME IInv, Fetch
    PROVE  IInv'
  <1> USE DEF IInv
  <1>1. /\ at = "fetch" /\ at' = "clean" /\ src' = Snap[current][upstream[current]]
        /\ UNCHANGED <<upstream, dest, branch, script, part, left, failed, exit, flag, faults>>
    BY DEF Fetch
  <1>2. current \in Repos /\ upstream[current] \in Versions /\ current' = current
    BY <1>1, CurrentType DEF TypeOK, current
  <1>3. TypeOK'
    BY <1>1, <1>2, SnapType DEF TypeOK, branch
  <1>4. \A r \in Repos : /\ Whole(r, dest[r])' = Whole(r, dest[r])
                         /\ Whole(r, published[r])' = Whole(r, published[r])
    BY <1>1 DEF Whole, branch
  <1>5. TornIsAhead' /\ TornIsSynced' /\ PublishedIsWhole'
    BY <1>1, <1>4 DEF TornIsAhead, TornIsSynced, PublishedIsWhole, Ahead, Later, InScript, branch
  <1>6. SuccessMeansWhole' /\ CopyGoesOn'
    BY <1>1 DEF SuccessMeansWhole, CopyGoesOn
  <1>7. SourceIsCommit'
    <2>1. upstream[current] \in 0..upstream[current]
      BY <1>2, ScriptsAssumption DEF Versions
    <2> QED
      BY <1>1, <1>2, <2>1 DEF SourceIsCommit
  <1> QED
    BY <1>3, <1>5, <1>6, <1>7

\* A step on the destination of the current repository disturbs no other.
LEMMA OthersKept ==
    ASSUME IInv, at # "idle", NEW t \in Tree, dest' = [dest EXCEPT ![current] = t],
           at' # "idle", UNCHANGED <<upstream, branch, script, part, failed, exit>>
    PROVE  /\ SuccessMeansWhole' /\ TornIsAhead' /\ TornIsSynced' /\ PublishedIsWhole'
           /\ dest' \in [Repos -> Tree] /\ dest'[current] = t
  <1> USE DEF IInv
  <1>1. /\ current \in Repos /\ InScript(current, script, part) /\ InScript(current, script, 1)
        /\ dest \in [Repos -> Tree] /\ script \in 1..Len(Scripts)
    BY CurrentType DEF TypeOK
  <1>2. /\ dest' \in [Repos -> Tree] /\ dest'[current] = t
        /\ \A r \in Repos \ {current} : dest'[r] = dest[r]
    BY <1>1
  <1>3. \A r \in Repos \ {current} : Whole(r, dest[r])' = Whole(r, dest[r])
    BY <1>2 DEF Whole
  <1>4. \A r \in Repos : Ahead(r)' = Ahead(r)
    BY DEF Ahead, Later, InScript
  <1>5. Ahead(current)
    BY <1>1 DEF Ahead
  <1>6. TornIsAhead'
    BY <1>3, <1>4, <1>5 DEF TornIsAhead
  <1>7. TornIsSynced'
    BY <1>1, <1>3 DEF TornIsSynced, InScript
  <1>8. PublishedIsWhole'
    BY DEF PublishedIsWhole, Whole, branch
  <1>9. SuccessMeansWhole'
    BY DEF SuccessMeansWhole
  <1> QED
    BY <1>2, <1>6, <1>7, <1>8, <1>9

LEMMA CleanInv ==
    ASSUME IInv, CleanDestination
    PROVE  IInv'
  <1> USE DEF IInv
  <1>1. /\ at = "clean" /\ at' = "copy"
        /\ dest' = [dest EXCEPT ![current] = Clean(current, dest[current])]
        /\ left' = {f \in Copied(current) : src[f] # Absent}
        /\ UNCHANGED <<upstream, branch, script, part, src, failed, exit, flag, faults>>
    BY DEF CleanDestination
  <1>2. current \in Repos /\ dest[current] \in Tree /\ current' = current
    BY <1>1, CurrentType DEF TypeOK, current
  <1>3. Clean(current, dest[current]) \in Tree
    BY <1>2, TreeType
  <1>4. /\ SuccessMeansWhole' /\ TornIsAhead' /\ TornIsSynced' /\ PublishedIsWhole'
        /\ dest' \in [Repos -> Tree] /\ dest'[current] = Clean(current, dest[current])
    BY <1>1, <1>3, OthersKept
  <1>5. left' \subseteq Files
    BY <1>1 DEF Copied, Files
  <1>6. TypeOK'
    BY <1>1, <1>4, <1>5 DEF TypeOK, branch
  <1>7. SourceIsCommit'
    BY <1>1, <1>2 DEF SourceIsCommit
  <1>8. CopyGoesOn'
    <2> SUFFICES ASSUME NEW f \in Exact(current) PROVE f \in left' \/ dest'[current][f] = src[f]
      BY <1>1, <1>2 DEF CopyGoesOn
    <2>1. f \in Copied(current) /\ Clean(current, dest[current])[f] = Absent
      BY <1>2, CleanExact
    <2> QED
      BY <1>1, <1>4, <2>1
  <1> QED
    BY <1>4, <1>6, <1>7, <1>8

LEMMA CopyInv ==
    ASSUME IInv, CopyFile
    PROVE  IInv'
  <1> USE DEF IInv
  <1>1. PICK f \in left : /\ dest' = [dest EXCEPT ![current][f] = src[f]]
                          /\ left' = left \ {f}
    BY DEF CopyFile
  <1>2. /\ at = "copy" /\ at' = "copy"
        /\ UNCHANGED <<upstream, branch, at, script, part, src, failed, exit, flag, faults>>
    BY DEF CopyFile
  <1>3. /\ current \in Repos /\ dest[current] \in Tree /\ current' = current
        /\ f \in Files /\ src \in Tree
    BY <1>2, CurrentType DEF TypeOK, current
  <1> DEFINE t == [dest[current] EXCEPT ![f] = src[f]]
  <1>4. t \in Tree /\ dest' = [dest EXCEPT ![current] = t]
    BY <1>1, <1>3 DEF Tree
  <1>5. \A g \in Files : t[g] = IF g = f THEN src[f] ELSE dest[current][g]
    BY <1>3 DEF Tree
  <1> HIDE DEF t
  <1>6. /\ SuccessMeansWhole' /\ TornIsAhead' /\ TornIsSynced' /\ PublishedIsWhole'
        /\ dest' \in [Repos -> Tree] /\ dest'[current] = t
    BY <1>2, <1>4, OthersKept
  <1>7. TypeOK'
    BY <1>1, <1>2, <1>6 DEF TypeOK, branch
  <1>8. SourceIsCommit'
    BY <1>2, <1>3 DEF SourceIsCommit
  <1>9. CopyGoesOn'
    <2> SUFFICES ASSUME NEW g \in Exact(current) PROVE g \in left' \/ dest'[current][g] = src[g]
      BY <1>2, <1>3 DEF CopyGoesOn
    <2>1. g \in Files /\ (g \in left \/ dest[current][g] = src[g])
      BY <1>2, <1>3, ExactFiles DEF CopyGoesOn
    <2> QED
      BY <1>1, <1>5, <1>6, <2>1
  <1> QED
    BY <1>6, <1>7, <1>8, <1>9

LEMMA SyncDoneInv ==
    ASSUME IInv, SyncDone
    PROVE  IInv'
  <1> USE DEF IInv
  <1>1. /\ at = "copy" /\ left = {} /\ UNCHANGED <<upstream, dest, branch, flag, faults>>
        /\ Whole(current, dest[current])
    BY CopiedWhole DEF SyncDone
  <1>2. script \in 1..Len(Scripts) /\ part \in 1..Len(Scripts[script]) /\ script \in Nat /\ part \in Nat
    BY CurrentType DEF TypeOK
  <1>3. \A r \in Repos : /\ Whole(r, dest[r])' = Whole(r, dest[r])
                         /\ Whole(r, published[r])' = Whole(r, published[r])
    BY <1>1 DEF Whole, branch
  <1>4. CASE part < Len(Scripts[script])
    <2>1. /\ at' = "fetch" /\ part' = part + 1 /\ src' = Empty
          /\ UNCHANGED <<script, left, failed, exit>>
      BY <1>4 DEF SyncDone
    <2>2. TypeOK'
      BY <1>1, <1>2, <1>4, <2>1, EmptyType, ScriptTypes DEF TypeOK, branch
    <2>3. ASSUME NEW r \in Repos, Ahead(r), r # current PROVE Ahead(r)'
      <3>1. CASE Later(r)
        BY <2>1, <3>1 DEF Ahead, Later, InScript
      <3>2. CASE InScript(r, script, part)
        <4>1. PICK p \in part..Len(Scripts[script]) : Scripts[script][p] = r
          BY <3>2 DEF InScript
        <4>2. p \in part'..Len(Scripts[script])
          BY <1>2, <2>1, <2>3, <4>1, ScriptTypes DEF current
        <4> QED
          BY <2>1, <4>1, <4>2 DEF Ahead, InScript
      <3> QED
        BY <2>3, <3>1, <3>2 DEF Ahead
    <2>4. TornIsAhead'
      BY <1>1, <1>3, <2>1, <2>3 DEF TornIsAhead
    <2>5. TornIsSynced' /\ PublishedIsWhole'
      BY <1>1, <1>3 DEF TornIsSynced, PublishedIsWhole, InScript, branch
    <2>6. SuccessMeansWhole' /\ SourceIsCommit' /\ CopyGoesOn'
      BY <2>1 DEF SuccessMeansWhole, SourceIsCommit, CopyGoesOn
    <2> QED
      BY <2>2, <2>4, <2>5, <2>6
  <1>5. CASE ~(part < Len(Scripts[script]))
    <2>1. EndScript(failed)
      BY <1>5 DEF SyncDone
    <2>2. part = Len(Scripts[script])
      BY <1>2, <1>5, ScriptTypes
    <2>3. ASSUME NEW r \in Repos, InScript(r, script, part) PROVE r = current
      BY <1>2, <2>2, <2>3 DEF InScript, current
    <2>4. failed = {} => \A r \in Repos : Whole(r, dest[r]) \/ Later(r)
      BY <1>1, <2>3 DEF TornIsAhead, Ahead
    <2>5. failed \in SUBSET (1..Len(Scripts)) /\ faults' \in 0..MaxFaults /\ at # "idle"
      BY <1>1 DEF TypeOK
    <2> QED
      BY <1>1, <2>1, <2>4, <2>5, ScriptEnds
  <1> QED
    BY <1>4, <1>5

LEMMA InterruptInv ==
    ASSUME IInv, Interrupt
    PROVE  IInv'
  <1> USE DEF IInv
  <1>1. /\ at' = "idle" /\ script' = 1 /\ part' = 1 /\ src' = Empty /\ left' = {}
        /\ failed' = {} /\ exit' = "failed" /\ UNCHANGED <<upstream, dest, branch, flag>>
    BY DEF Interrupt
  <1>2. faults' \in 0..MaxFaults
    BY ScriptsAssumption DEF Interrupt, Fault, TypeOK
  <1>3. TypeOK'
    BY <1>1, <1>2, EmptyType, ScriptTypes DEF TypeOK, branch
  <1>4. TornIsSynced' /\ PublishedIsWhole'
    BY <1>1 DEF TornIsSynced, PublishedIsWhole, InScript, Whole, branch
  <1>5. SuccessMeansWhole' /\ TornIsAhead' /\ SourceIsCommit' /\ CopyGoesOn'
    BY <1>1 DEF SuccessMeansWhole, TornIsAhead, SourceIsCommit, CopyGoesOn
  <1> QED
    BY <1>3, <1>4, <1>5

LEMMA CommitPushInv ==
    ASSUME IInv, NEW force \in BOOLEAN, CommitPush(force)
    PROVE  IInv'
  <1> USE DEF IInv
  <1>1. /\ at = "idle" /\ committed' = Index /\ UNCHANGED <<upstream, dest, run, exit, flag>>
    BY DEF CommitPush
  <1>2. ASSUME NEW r \in Repos
        PROVE  /\ Index[r] = Staged(committed[r], dest[r]) /\ Index[r] \in Tree
               /\ Whole(r, dest[r]) => Whole(r, Index[r])
    <2>1. committed[r] \in Tree /\ dest[r] \in Tree
      BY DEF TypeOK
    <2>2. Index[r] = Staged(committed[r], dest[r])
      BY DEF Index
    <2> QED
      BY <2>1, <2>2, TreeType, StagedWhole
  <1>3. Index \in [Repos -> Tree]
    BY <1>2 DEF Index
  <1>4. CASE published' = Index /\ pushedWith' = exit /\ UNCHANGED faults
    <2>1. TypeOK'
      BY <1>1, <1>3, <1>4 DEF TypeOK, run
    <2>2. PublishedIsWhole'
      BY <1>1, <1>2, <1>4 DEF PublishedIsWhole, SuccessMeansWhole, Whole, run
    <2> QED
      BY <1>1, <2>1, <2>2 DEF SuccessMeansWhole, TornIsAhead, TornIsSynced, SourceIsCommit,
                              CopyGoesOn, Whole, InScript, run
  <1>5. CASE Fault /\ UNCHANGED <<published, pushedWith>>
    <2>1. faults' \in 0..MaxFaults
      BY <1>5, ScriptsAssumption DEF Fault, TypeOK
    <2>2. TypeOK'
      BY <1>1, <1>3, <1>5, <2>1 DEF TypeOK, run
    <2>3. PublishedIsWhole'
      BY <1>1, <1>5 DEF PublishedIsWhole, Whole
    <2> QED
      BY <1>1, <2>2, <2>3 DEF SuccessMeansWhole, TornIsAhead, TornIsSynced, SourceIsCommit,
                              CopyGoesOn, Whole, InScript, run
  <1> QED
    BY <1>4, <1>5 DEF CommitPush

LEMMA NextInv == IInv /\ [Next]_vars => IInv'
  <1> SUFFICES ASSUME IInv, [Next]_vars PROVE IInv'
    OBVIOUS
  <1>1. CASE CheckChanges \/ UNCHANGED vars
    <2>1. flag' \in {"missing", "true", "false"} /\ UNCHANGED <<upstream, dest, branch, run, exit, faults>>
      BY <1>1 DEF CheckChanges, vars, IInv, TypeOK
    <2>2. TypeOK'
      BY <2>1 DEF IInv, TypeOK, branch, run
    <2>3. SuccessMeansWhole' /\ TornIsSynced' /\ PublishedIsWhole'
      BY <2>1 DEF IInv, SuccessMeansWhole, TornIsSynced, PublishedIsWhole, Whole, InScript, branch, run
    <2>4. TornIsAhead' /\ SourceIsCommit' /\ CopyGoesOn'
      BY <2>1 DEF IInv, TornIsAhead, SourceIsCommit, CopyGoesOn, Ahead, Later, Whole, InScript,
                  current, run
    <2> QED
      BY <2>2, <2>3, <2>4 DEF IInv
  <1> QED
    BY <1>1, PublishInv, StartInv, FailsInv, FetchInv, CleanInv, CopyInv, SyncDoneInv,
       InterruptInv, CommitPushInv DEF Next

LEMMA AlwaysInv == Spec => []IInv
  BY InitInv, NextInv, PTL DEF Spec
-----------------------------------------------------------------------------
(* The theorems. *)

\* However runs failed and were killed before, a run of run-sync-all.sh that exits 0 leaves
\* every destination a whole upstream commit.
THEOREM SuccessMeansWholeHolds == Spec => []SuccessMeansWhole
  <1>1. IInv => SuccessMeansWhole
    BY DEF IInv
  <1> QED
    BY <1>1, AlwaysInv, PTL

\* What commit-push.sh publishes after such a run is whole.
THEOREM PublishedWholeHolds == Spec => []PublishedWhole
  <1>1. IInv => PublishedWhole
    BY DEF IInv, PublishedIsWhole, PublishedWhole
  <1> QED
    BY <1>1, AlwaysInv, PTL

\* No step tears a destination but one of the script that is at it (run-sync-all.sh).
THEOREM DamageIsContainedHolds == Spec => DamageIsContained
  <1>1. TypeOK /\ [Next]_vars =>
          [\A r \in Repos :
             Whole(r, dest[r]) /\ ~Whole(r, dest'[r]) => at # "idle" /\ r = current]_vars
    <2> SUFFICES ASSUME TypeOK, Next, NEW r \in Repos, dest'[r] # dest[r]
                 PROVE  at # "idle" /\ r = current
      OBVIOUS
    <2>1. UNCHANGED dest \/ CleanDestination \/ CopyFile
      BY DEF Next, Publish, Start, Fails, Fetch, SyncDone, Interrupt, CheckChanges, CommitPush
    <2>2. CASE CleanDestination
      BY <2>2 DEF CleanDestination, TypeOK
    <2>3. CASE CopyFile
      BY <2>3 DEF CopyFile, TypeOK
    <2> QED
      BY <2>1, <2>2, <2>3
  <1>2. IInv => TypeOK
    BY DEF IInv
  <1> QED
    BY <1>1, <1>2, AlwaysInv, PTL DEF Spec, DamageIsContained
=============================================================================
