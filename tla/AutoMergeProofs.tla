--------------------------- MODULE AutoMergeProofs ---------------------------
(***************************************************************************)
(* Proofs about AutoMerge for any number of commits on the branch, events, *)
(* failures and good heads.                                                *)
(***************************************************************************)
EXTENDS AutoMerge, FiniteSetTheorems, TLAPS

Run == [sha : Commits, at : Steps, green : BOOLEAN]

\* The runs that have triggered a firmware build.
Built == {i \in 1..Len(runs) : runs[i].at = "done"}

\* Each run triggers one build at most, and none triggers two.
OneBuildEach == dispatched = Cardinality(Built)

\* What a run has been through is so: it is of a head the branch has had, it passed if
\* it got past the condition of auto-merge.yml, and something was merged if it got past
\* "Merge PR via PAT".
RunsAreHonest ==
    \A i \in 1..Len(runs) :
        /\ runs[i].sha <= head
        /\ runs[i].green => runs[i].sha \in Good /\ runs[i].at # "validating"
        /\ runs[i].at \in {"found", "merged", "done"} => runs[i].green
        /\ runs[i].at \in {"merged", "done"} => merged # 0

\* A merged pull request holds its last head, and a run of it passed.
MergedIsLast ==
    /\ pr = "merged" <=> merged # 0
    /\ pr = "merged" => merged = head /\ \E i \in 1..Len(runs) : runs[i].green

IInv == TypeOK /\ OneBuildEach /\ RunsAreHonest /\ MergedIsLast
-----------------------------------------------------------------------------
(* What happens to the runs. *)

LEMMA RunsType ==
    ASSUME TypeOK
    PROVE  /\ runs \in Seq(Run) /\ Len(runs) \in Nat
           /\ \A j \in 1..Len(runs) : runs[j] \in Run /\ runs[j].sha \in Nat
  <1>1. runs \in Seq(Run)
    BY DEF TypeOK, Run
  <1>2. \A j \in 1..Len(runs) : runs[j] \in Run
    BY <1>1
  <1>3. \A run \in Run : run.sha \in Nat
    BY AutoMergeAssumption DEF Run, Commits
  <1> QED
    BY <1>1, <1>2, <1>3

\* A run that has changed has changed alone.
LEMMA OneChanges ==
    ASSUME TypeOK, NEW i \in 1..Len(runs), NEW run \in Run, runs' = [runs EXCEPT ![i] = run]
    PROVE  /\ runs' \in Seq(Run) /\ Len(runs') = Len(runs)
           /\ \A j \in 1..Len(runs) : runs'[j] = IF j = i THEN run ELSE runs[j]
  BY RunsType

\* Going on to the next step changes the step alone.
LEMMA GotoRun ==
    ASSUME TypeOK, NEW i \in 1..Len(runs), NEW step \in Steps, Goto(i, step)
    PROVE  /\ runs' \in Seq(Run) /\ Len(runs') = Len(runs)
           /\ \A j \in 1..Len(runs) :
                /\ runs'[j] \in Run
                /\ runs'[j].sha = runs[j].sha /\ runs'[j].green = runs[j].green
                /\ runs'[j].at = IF j = i THEN step ELSE runs[j].at
  <1>1. runs[i] \in Run
    BY RunsType
  <1>2. [runs[i] EXCEPT !.at = step] \in Run
    BY <1>1 DEF Run
  <1>3. runs' = [runs EXCEPT ![i] = [runs[i] EXCEPT !.at = step]]
    BY DEF Goto
  <1>4. \A j \in 1..Len(runs) : runs[j] \in Run
    BY RunsType
  <1>5. /\ runs' \in Seq(Run) /\ Len(runs') = Len(runs)
        /\ \A j \in 1..Len(runs) :
             runs'[j] = IF j = i THEN [runs[i] EXCEPT !.at = step] ELSE runs[j]
    BY <1>2, <1>3, OneChanges
  <1>6. ASSUME NEW j \in 1..Len(runs)
        PROVE  /\ runs'[j] \in Run
               /\ runs'[j].sha = runs[j].sha /\ runs'[j].green = runs[j].green
               /\ runs'[j].at = IF j = i THEN step ELSE runs[j].at
    <2>1. CASE j = i
      BY <1>1, <1>2, <1>5, <2>1 DEF Run
    <2>2. CASE j # i
      BY <1>4, <1>5, <2>2
    <2> QED
      BY <2>1, <2>2
  <1> QED
    BY <1>5, <1>6

\* An event adds a run and leaves the others alone.
LEMMA StartedRun ==
    ASSUME TypeOK, NEW commit \in Commits, runs' = Started(commit)
    PROVE  /\ runs' \in Seq(Run) /\ Len(runs') = Len(runs) + 1
           /\ \A j \in 1..Len(runs) : runs'[j] = runs[j]
           /\ runs'[Len(runs) + 1] = [sha |-> commit, at |-> "validating", green |-> FALSE]
  BY RunsType DEF Started, Run, Steps
-----------------------------------------------------------------------------
(* Builds. *)

\* The numbers up to n are n.
LEMMA Upto ==
    ASSUME NEW n \in Nat
    PROVE  IsFiniteSet(1..n) /\ Cardinality(1..n) = n
  <1>1. 1 \in Int /\ n \in Int
    OBVIOUS
  <1>2. IsFiniteSet(1..n) /\ Cardinality(1..n) = IF 1 > n THEN 0 ELSE n - 1 + 1
    BY <1>1, FS_Interval
  <1>3. (IF 1 > n THEN 0 ELSE n - 1 + 1) = n
    OBVIOUS
  <1> QED
    BY <1>2, <1>3

\* The runs are finitely many, and so are those that have triggered a build.
LEMMA BuiltFinite ==
    ASSUME TypeOK
    PROVE  IsFiniteSet(Built) /\ Cardinality(Built) \in Nat /\ Cardinality(Built) <= Len(runs)
  <1>1. Len(runs) \in Nat
    BY RunsType
  <1>2. IsFiniteSet(1..Len(runs)) /\ Cardinality(1..Len(runs)) = Len(runs)
    BY <1>1, Upto
  <1>3. Built \in SUBSET (1..Len(runs))
    BY DEF Built
  <1>4. IsFiniteSet(Built) /\ Cardinality(Built) <= Cardinality(1..Len(runs))
    BY <1>2, <1>3, FS_Subset
  <1> QED
    BY <1>2, <1>4, FS_CardinalityType

\* A step that is not a build changes nothing about who has built.
LEMMA NoBuild ==
    ASSUME TypeOK, OneBuildEach, NEW i \in 1..Len(runs), NEW step \in Steps, Goto(i, step),
           runs[i].at # "done", step # "done", UNCHANGED dispatched
    PROVE  OneBuildEach'
  <1>1. Built' = Built
    BY GotoRun DEF Built
  <1> QED
    BY <1>1 DEF OneBuildEach

\* Neither does an event.
LEMMA EventBuildsNothing ==
    ASSUME TypeOK, OneBuildEach, NEW commit \in Commits, runs' = Started(commit),
           UNCHANGED dispatched
    PROVE  OneBuildEach'
  <1>1. Built' = Built
    <2>1. /\ Len(runs') = Len(runs) + 1 /\ Len(runs) \in Nat
          /\ \A j \in 1..Len(runs) : runs'[j] = runs[j]
          /\ runs'[Len(runs) + 1] = [sha |-> commit, at |-> "validating", green |-> FALSE]
      BY StartedRun, RunsType
    <2>2. runs'[Len(runs) + 1].at # "done"
      BY <2>1
    <2>3. 1..Len(runs') = (1..Len(runs)) \cup {Len(runs) + 1}
      BY <2>1
    <2> QED
      BY <2>1, <2>2, <2>3 DEF Built
  <1> QED
    BY <1>1 DEF OneBuildEach

\* A build is triggered by a run that has not triggered one.
LEMMA OneMoreBuild ==
    ASSUME TypeOK, OneBuildEach, NEW i \in 1..Len(runs), Goto(i, "done"), runs[i].at # "done",
           dispatched' = dispatched + 1
    PROVE  OneBuildEach' /\ dispatched' \in 0..MaxRuns
  <1>1. "done" \in Steps
    BY DEF Steps
  <1>2. /\ runs' \in Seq(Run) /\ Len(runs') = Len(runs)
        /\ \A j \in 1..Len(runs) : runs'[j].at = IF j = i THEN "done" ELSE runs[j].at
    BY <1>1, GotoRun
  <1>3. Built' = Built \cup {i} /\ i \notin Built
    BY <1>2 DEF Built
  <1>4. IsFiniteSet(Built) /\ Cardinality(Built') = Cardinality(Built) + 1
    BY <1>3, BuiltFinite, FS_AddElement
  <1>5. OneBuildEach'
    BY <1>4 DEF OneBuildEach
  <1>6. Cardinality(Built') <= Len(runs)
    <2>1. Len(runs) \in Nat /\ IsFiniteSet(1..Len(runs)) /\ Cardinality(1..Len(runs)) = Len(runs)
      BY RunsType, Upto
    <2>2. Built' \in SUBSET (1..Len(runs))
      BY <1>2 DEF Built
    <2> QED
      BY <2>1, <2>2, FS_Subset
  <1> QED
    BY <1>4, <1>5, <1>6, BuiltFinite, AutoMergeAssumption DEF OneBuildEach, TypeOK
-----------------------------------------------------------------------------
(* The invariant. *)

LEMMA InitInv == Init => IInv
  <1> SUFFICES ASSUME Init PROVE IInv
    OBVIOUS
  <1>1. TypeOK
    <2>1. [sha |-> 1, at |-> "validating", green |-> FALSE] \in Run
      BY AutoMergeAssumption DEF Run, Commits, Steps
    <2>2. runs \in Seq(Run) /\ Len(runs) = 1
      BY <2>1 DEF Init
    <2> QED
      BY <2>2, AutoMergeAssumption DEF Init, TypeOK, Run, Commits
  <1>2. Len(runs) = 1 /\ runs[1] = [sha |-> 1, at |-> "validating", green |-> FALSE]
    BY DEF Init
  <1>3. OneBuildEach
    <2>1. Built = {}
      BY <1>2 DEF Built
    <2> QED
      BY <2>1, FS_EmptySet DEF Init, OneBuildEach
  <1>4. RunsAreHonest
    BY <1>2 DEF Init, RunsAreHonest
  <1>5. MergedIsLast
    BY DEF Init, MergedIsLast
  <1> QED
    BY <1>1, <1>3, <1>4, <1>5 DEF IInv

\* validate.yml: a run that passes is of a good head.
LEMMA ValidateInv ==
    ASSUME IInv, NEW i \in 1..Len(runs), Validate(i)
    PROVE  IInv'
  <1> USE DEF IInv
  <1>1. PICK green \in BOOLEAN :
          /\ runs' = [runs EXCEPT ![i].at = "completed", ![i].green = green]
          /\ IF green = (runs[i].sha \in Good) THEN UNCHANGED faults ELSE ~green /\ Fault
    BY DEF Validate
  <1> DEFINE run == [runs[i] EXCEPT !.at = "completed", !.green = green]
  <1>2. run \in Run /\ run.sha = runs[i].sha /\ run.at = "completed" /\ run.green = green
    <2>1. runs[i] \in Run
      BY RunsType
    <2> QED
      BY <2>1 DEF Run, Steps
  <1>3. runs' = [runs EXCEPT ![i] = run]
    BY <1>1
  <1>4. /\ runs' \in Seq(Run) /\ Len(runs') = Len(runs)
        /\ \A j \in 1..Len(runs) : runs'[j] = IF j = i THEN run ELSE runs[j]
    BY <1>2, <1>3, OneChanges
  <1> HIDE DEF run
  <1>5. green => runs[i].sha \in Good
    BY <1>1
  <1>6. faults' \in 0..MaxFaults
    BY <1>1, AutoMergeAssumption DEF Fault, TypeOK
  <1>7. TypeOK'
    BY <1>4, <1>6 DEF Validate, TypeOK, Run
  <1>8. OneBuildEach'
    <2>1. Built' = Built
      BY <1>2, <1>4 DEF Validate, Built
    <2> QED
      BY <2>1 DEF Validate, OneBuildEach
  <1>9. RunsAreHonest'
    BY <1>2, <1>4, <1>5 DEF Validate, RunsAreHonest
  <1>10. MergedIsLast'
    <2>1. ASSUME pr = "merged" PROVE \E j \in 1..Len(runs') : runs'[j].green
      <3>1. PICK j \in 1..Len(runs) : runs[j].green
        BY <2>1 DEF MergedIsLast
      <3>2. j # i
        BY <3>1 DEF Validate, RunsAreHonest
      <3> QED
        BY <1>4, <3>1, <3>2
    <2> QED
      BY <2>1 DEF Validate, MergedIsLast
  <1> QED
    BY <1>7, <1>8, <1>9, <1>10

\* What a step of auto-merge.yml that only goes on leaves as it was.
LEMMA GoneOn ==
    ASSUME IInv, NEW i \in 1..Len(runs), NEW step \in Steps, Goto(i, step),
           UNCHANGED head, merged' = merged \/ merged' # 0,
           runs[i].at # "validating", step \notin {"validating", "done"}, runs[i].at # "done",
           UNCHANGED dispatched,
           step = "found" => runs[i].green,
           step = "merged" => runs[i].green /\ merged' # 0
    PROVE  /\ OneBuildEach' /\ RunsAreHonest'
           /\ \A j \in 1..Len(runs) : runs[j].green => j \in 1..Len(runs') /\ runs'[j].green
  <1> USE DEF IInv
  <1>1. /\ runs' \in Seq(Run) /\ Len(runs') = Len(runs)
        /\ \A j \in 1..Len(runs) :
             /\ runs'[j] \in Run
             /\ runs'[j].sha = runs[j].sha /\ runs'[j].green = runs[j].green
             /\ runs'[j].at = IF j = i THEN step ELSE runs[j].at
    BY GotoRun
  <1>2. OneBuildEach'
    BY NoBuild
  <1>3. RunsAreHonest'
    BY <1>1 DEF RunsAreHonest
  <1> QED
    BY <1>1, <1>2, <1>3

\* "Find open PR for validated branch": only a run that passed gets past it.
LEMMA FindInv ==
    ASSUME IInv, NEW i \in 1..Len(runs), FindPR(i)
    PROVE  IInv'
  <1> USE DEF IInv
  <1>1. PICK step \in {"found", "skipped", "failed"} : Goto(i, step)
    BY DEF FindPR
  <1>2. step \in Steps /\ runs[i].at = "completed" /\ runs[i].green
    BY DEF Steps, FindPR
  <1>3. UNCHANGED <<pr, head, merged, dispatched>>
    BY DEF FindPR
  <1>4. /\ OneBuildEach' /\ RunsAreHonest'
        /\ \A j \in 1..Len(runs) : runs[j].green => j \in 1..Len(runs') /\ runs'[j].green
    BY <1>1, <1>2, <1>3, GoneOn
  <1>5. runs' \in Seq(Run) /\ Len(runs') = Len(runs)
    BY <1>1, <1>2, GotoRun
  <1>6. faults' \in 0..MaxFaults
    BY AutoMergeAssumption DEF FindPR, Fault, TypeOK
  <1>7. TypeOK'
    BY <1>3, <1>5, <1>6 DEF TypeOK, Run
  <1>8. MergedIsLast'
    BY <1>3, <1>4 DEF MergedIsLast
  <1> QED
    BY <1>4, <1>7, <1>8

\* "Merge PR via PAT": what is merged is the head of the branch, by a run that passed.
LEMMA MergeInv ==
    ASSUME IInv, NEW i \in 1..Len(runs), MergePR(i)
    PROVE  IInv'
  <1> USE DEF IInv
  <1>1. /\ runs[i].at = "found" /\ runs[i].green /\ UNCHANGED <<head, dispatched>>
        /\ head \in Commits /\ head # 0 /\ head \in 0..MaxHead
    BY AutoMergeAssumption DEF MergePR, RunsAreHonest, TypeOK, Commits
  <1>2. PICK step \in {"merged", "failed"} :
          /\ Goto(i, step)
          /\ \/ pr = "open" /\ pr' = "merged" /\ merged' = head
             \/ UNCHANGED <<pr, merged>>
          /\ step = "merged" => pr' = "merged"
    BY DEF MergePR
  <1>3. step \in Steps /\ step \notin {"validating", "done", "found"}
    BY <1>2 DEF Steps
  <1>4. (merged' = merged \/ merged' # 0) /\ (step = "merged" => merged' # 0)
    BY <1>1, <1>2 DEF MergedIsLast
  <1>5. /\ OneBuildEach' /\ RunsAreHonest'
        /\ \A j \in 1..Len(runs) : runs[j].green => j \in 1..Len(runs') /\ runs'[j].green
    BY <1>1, <1>2, <1>3, <1>4, GoneOn
  <1>6. runs' \in Seq(Run) /\ Len(runs') = Len(runs)
    BY <1>2, <1>3, GotoRun
  <1>7. faults' \in 0..MaxFaults
    BY AutoMergeAssumption DEF MergePR, Fault, TypeOK
  <1>8. pr' \in {"open", "closed", "merged"} /\ merged' \in 0..MaxHead
    BY <1>1, <1>2 DEF TypeOK
  <1>9. TypeOK'
    BY <1>1, <1>6, <1>7, <1>8 DEF TypeOK, Run
  <1>10. MergedIsLast'
    BY <1>1, <1>2, <1>5 DEF MergedIsLast
  <1> QED
    BY <1>5, <1>9, <1>10

\* "Trigger ZyntaWRT firmware build": the run ends.
LEMMA DispatchInv ==
    ASSUME IInv, NEW i \in 1..Len(runs), Dispatch(i)
    PROVE  IInv'
  <1> USE DEF IInv
  <1>1. /\ runs[i].at = "merged" /\ runs[i].green /\ merged # 0
        /\ UNCHANGED <<pr, head, merged>>
    BY DEF Dispatch, RunsAreHonest
  <1>2. CASE dispatched' = dispatched + 1 /\ Goto(i, "done") /\ UNCHANGED faults
    <2>1. OneBuildEach' /\ dispatched' \in 0..MaxRuns
      BY <1>1, <1>2, OneMoreBuild
    <2>2. "done" \in Steps
      BY DEF Steps
    <2>3. /\ runs' \in Seq(Run) /\ Len(runs') = Len(runs)
          /\ \A j \in 1..Len(runs) :
               /\ runs'[j] \in Run
               /\ runs'[j].sha = runs[j].sha /\ runs'[j].green = runs[j].green
               /\ runs'[j].at = IF j = i THEN "done" ELSE runs[j].at
      BY <1>2, <2>2, GotoRun
    <2>4. TypeOK'
      BY <1>1, <1>2, <2>1, <2>3 DEF TypeOK, Run
    <2>5. RunsAreHonest'
      BY <1>1, <2>3 DEF RunsAreHonest
    <2>6. MergedIsLast'
      BY <1>1, <2>3 DEF MergedIsLast
    <2> QED
      BY <2>1, <2>4, <2>5, <2>6
  <1>3. CASE Fault /\ Goto(i, "failed") /\ UNCHANGED dispatched
    <2>1. "failed" \in Steps
      BY DEF Steps
    <2>2. /\ OneBuildEach' /\ RunsAreHonest'
          /\ \A j \in 1..Len(runs) : runs[j].green => j \in 1..Len(runs') /\ runs'[j].green
      BY <1>1, <1>3, <2>1, GoneOn
    <2>3. runs' \in Seq(Run) /\ Len(runs') = Len(runs)
      BY <1>3, <2>1, GotoRun
    <2>4. faults' \in 0..MaxFaults
      BY <1>3, AutoMergeAssumption DEF Fault, TypeOK
    <2>5. TypeOK'
      BY <1>1, <1>3, <2>3, <2>4 DEF TypeOK, Run
    <2>6. MergedIsLast'
      BY <1>1, <2>2 DEF MergedIsLast
    <2> QED
      BY <2>2, <2>5, <2>6
  <1> QED
    BY <1>2, <1>3 DEF Dispatch

LEMMA NextInv == IInv /\ [Next]_vars => IInv'
  <1> SUFFICES ASSUME IInv, [Next]_vars PROVE IInv'
    OBVIOUS
  <1> USE DEF IInv
  <1>1. CASE Push
    <2>1. head' \in Commits /\ head' = head + 1 /\ head \in Nat
      BY <1>1, AutoMergeAssumption DEF Push, TypeOK, Commits
    <2>2. /\ runs' \in Seq(Run) /\ Len(runs') = Len(runs) + 1 /\ Len(runs) \in Nat
          /\ \A j \in 1..Len(runs) : runs'[j] = runs[j]
          /\ runs'[Len(runs) + 1] = [sha |-> head', at |-> "validating", green |-> FALSE]
      BY <1>1, <2>1, StartedRun, RunsType DEF Push
    <2>3. TypeOK'
      BY <1>1, <2>1, <2>2, AutoMergeAssumption DEF Push, TypeOK, Run
    <2>4. OneBuildEach'
      BY <1>1, <2>1, EventBuildsNothing DEF Push
    <2>5. \A j \in 1..Len(runs) : runs[j].sha \in Nat
      BY RunsType
    <2>6. RunsAreHonest'
      BY <1>1, <2>1, <2>2, <2>5 DEF Push, RunsAreHonest
    <2>7. MergedIsLast'
      BY <1>1 DEF Push, MergedIsLast
    <2> QED
      BY <2>3, <2>4, <2>6, <2>7
  <1>2. CASE Close
    <2>1. TypeOK' /\ RunsAreHonest' /\ MergedIsLast'
      BY <1>2 DEF Close, TypeOK, RunsAreHonest, MergedIsLast
    <2>2. OneBuildEach'
      BY <1>2 DEF Close, OneBuildEach, Built
    <2> QED
      BY <2>1, <2>2
  <1>3. CASE Reopen
    <2>1. head \in Commits /\ head \in Nat
      BY DEF TypeOK, Commits
    <2>2. /\ runs' \in Seq(Run) /\ Len(runs') = Len(runs) + 1 /\ Len(runs) \in Nat
          /\ \A j \in 1..Len(runs) : runs'[j] = runs[j]
          /\ runs'[Len(runs) + 1] = [sha |-> head, at |-> "validating", green |-> FALSE]
      BY <1>3, <2>1, StartedRun, RunsType DEF Reopen
    <2>3. TypeOK'
      BY <1>3, <2>2, AutoMergeAssumption DEF Reopen, TypeOK, Run
    <2>4. OneBuildEach'
      BY <1>3, <2>1, EventBuildsNothing DEF Reopen
    <2>5. RunsAreHonest'
      BY <1>3, <2>1, <2>2 DEF Reopen, RunsAreHonest
    <2>6. MergedIsLast'
      BY <1>3 DEF Reopen, MergedIsLast
    <2> QED
      BY <2>3, <2>4, <2>5, <2>6
  <1>4. ASSUME NEW i \in 1..Len(runs), RunStep(i) PROVE IInv'
    BY <1>4, ValidateInv, FindInv, MergeInv, DispatchInv DEF RunStep
  <1>5. CASE UNCHANGED vars
    <2>1. TypeOK' /\ RunsAreHonest' /\ MergedIsLast'
      BY <1>5 DEF vars, TypeOK, RunsAreHonest, MergedIsLast
    <2>2. OneBuildEach'
      BY <1>5 DEF vars, OneBuildEach, Built
    <2> QED
      BY <2>1, <2>2
  <1> QED
    BY <1>1, <1>2, <1>3, <1>4, <1>5 DEF Next

LEMMA AlwaysInv == Spec => []IInv
  BY InitInv, NextInv, PTL DEF Spec
-----------------------------------------------------------------------------
(* The theorems. *)

\* Whatever pushes, closings and reopenings race with the runs, nothing is merged before
\* a head that the branch has had passed validate.yml (auto-merge.yml:14, :27, :37).
THEOREM SomeHeadPassedHolds == Spec => []SomeHeadPassed
  <1>1. IInv => SomeHeadPassed
    BY DEF IInv, RunsAreHonest, MergedIsLast, SomeHeadPassed
  <1> QED
    BY <1>1, AlwaysInv, PTL

\* No firmware build without a merge, whichever runs lost the race to merge
\* (auto-merge.yml:37 and :56).
THEOREM BuildsAreOfMergesHolds == Spec => []BuildsAreOfMerges
  <1>1. IInv => BuildsAreOfMerges
    <2> SUFFICES ASSUME IInv, dispatched > 0 PROVE merged # 0
      BY DEF BuildsAreOfMerges
    <2>1. Built # {}
      BY FS_EmptySet DEF IInv, OneBuildEach
    <2> QED
      BY <2>1 DEF Built, IInv, RunsAreHonest
  <1> QED
    BY <1>1, AlwaysInv, PTL
=============================================================================
