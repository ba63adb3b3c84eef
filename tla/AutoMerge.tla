----------------------------- MODULE AutoMerge ------------------------------
(***************************************************************************)
(* One pull request against main while its branch is still being pushed to *)
(* and the pull request may be closed and reopened: every event starts a   *)
(* run of validate.yml, every run that passes starts one of auto-merge.yml,*)
(* and the runs proceed in any order.                                      *)
(***************************************************************************)
EXTENDS Naturals, Sequences

CONSTANTS
    MaxHead,    \* commits pushed to the branch (a bound)
    MaxRuns,    \* events that start a validation (a bound)
    MaxFaults,  \* failures of jobs and of the API (a bound)
    Good        \* the commits whose merge preview passes validate.yml

Commits == 1..MaxHead

ASSUME AutoMergeAssumption ==
    /\ MaxHead \in Nat \ {0} /\ MaxRuns \in Nat \ {0} /\ MaxFaults \in Nat
    /\ Good \subseteq Commits

VARIABLES
    pr,          \* the state of the pull request
    head,        \* the commit its branch points to
    runs,        \* the chains validate.yml -> auto-merge.yml, in order of events
    merged,      \* the head that was squashed into main, 0 before
    dispatched,  \* firmware builds triggered
    faults       \* failures so far

vars == <<pr, head, runs, merged, dispatched, faults>>

Fault == faults < MaxFaults /\ faults' = faults + 1

Goto(i, step) == runs' = [runs EXCEPT ![i].at = step]
-----------------------------------------------------------------------------
\* A pull_request event: a run that checks out the preview of the present head.
Started(commit) ==
    Append(runs, [sha |-> commit, at |-> "validating", green |-> FALSE])

Init ==
    /\ pr = "open" /\ head = 1
    /\ runs = <<[sha |-> 1, at |-> "validating", green |-> FALSE]>>
    /\ merged = 0 /\ dispatched = 0 /\ faults = 0

Push ==
    /\ pr = "open" /\ head < MaxHead /\ Len(runs) < MaxRuns
    /\ head' = head + 1
    /\ runs' = Started(head')
    /\ UNCHANGED <<pr, merged, dispatched, faults>>

Close ==
    /\ pr = "open"
    /\ pr' = "closed"
    /\ UNCHANGED <<head, runs, merged, dispatched, faults>>

\* Mutant of Reopen: validate.yml does not run on "reopened".
ReopenSilently ==
    /\ pr = "closed" /\ pr' = "open"
    /\ UNCHANGED <<head, runs, merged, dispatched, faults>>

Reopen ==
    /\ pr = "closed" /\ Len(runs) < MaxRuns
    /\ pr' = "open"
    /\ runs' = Started(head)
    /\ UNCHANGED <<head, merged, dispatched, faults>>

\* validate.yml on the preview of the commit its event named, with its conclusion.
Validate(i) ==
    /\ runs[i].at = "validating"
    /\ \E green \in BOOLEAN :
         /\ runs' = [runs EXCEPT ![i].at = "completed", ![i].green = green]
         /\ IF green = (runs[i].sha \in Good) THEN UNCHANGED faults ELSE ~green /\ Fault
    /\ UNCHANGED <<pr, head, merged, dispatched>>

\* Mutant of FindPR: the condition on the conclusion is dropped.
FindPRAnyway(i) ==
    /\ runs[i].at = "completed"
    /\ Goto(i, IF pr = "open" THEN "found" ELSE "skipped")
    /\ UNCHANGED <<pr, head, merged, dispatched, faults>>

\* "Find open PR for validated branch": by the name of the branch, and only if
\* the run of validate.yml concluded with success.
FindPR(i) ==
    /\ runs[i].at = "completed" /\ runs[i].green
    /\ \/ pr = "open" /\ Goto(i, "found") /\ UNCHANGED faults
       \/ pr # "open" /\ Goto(i, "skipped") /\ UNCHANGED faults
       \/ Fault /\ Goto(i, "failed")
    /\ UNCHANGED <<pr, head, merged, dispatched>>

\* Mutant of MergePR: a merge that fails does not stop the job.
MergeOrNot(i) ==
    /\ runs[i].at = "found" /\ Goto(i, "merged")
    /\ \/ pr = "open" /\ pr' = "merged" /\ merged' = head
       \/ UNCHANGED <<pr, merged>>
    /\ UNCHANGED <<head, dispatched, faults>>

\* "Merge PR via PAT": gh merges what the branch holds by now; it is content with
\* a pull request that is merged already and fails on a closed one.
MergePR(i) ==
    /\ runs[i].at = "found"
    /\ \/ /\ pr = "open"
          /\ pr' = "merged" /\ merged' = head
          /\ Goto(i, "merged") /\ UNCHANGED faults
       \/ /\ pr = "merged"
          /\ Goto(i, "merged") /\ UNCHANGED <<pr, merged, faults>>
       \/ /\ pr = "closed"
          /\ Goto(i, "failed") /\ UNCHANGED <<pr, merged, faults>>
       \/ Fault /\ Goto(i, "failed") /\ UNCHANGED <<pr, merged>>
    /\ UNCHANGED <<head, dispatched>>

\* Mutant of Dispatch: the job ends without the request ("PAT not configured").
DispatchSkipped(i) ==
    /\ runs[i].at = "merged" /\ Goto(i, "done")
    /\ UNCHANGED <<pr, head, merged, dispatched, faults>>

\* "Trigger ZyntaWRT firmware build".
Dispatch(i) ==
    /\ runs[i].at = "merged"
    /\ \/ dispatched' = dispatched + 1 /\ Goto(i, "done") /\ UNCHANGED faults
       \/ Fault /\ Goto(i, "failed") /\ UNCHANGED dispatched
    /\ UNCHANGED <<pr, head, merged>>

RunStep(i) == Validate(i) \/ FindPR(i) \/ MergePR(i) \/ Dispatch(i)

Next ==
    \/ Push \/ Close \/ Reopen
    \/ \E i \in 1..Len(runs) : RunStep(i)

Spec == Init /\ [][Next]_vars

\* GitHub runs every job it has started; nobody has to push, close or reopen.
LiveSpec ==
    Spec /\ \A i \in 1..MaxRuns : WF_vars(i <= Len(runs) /\ RunStep(i))
-----------------------------------------------------------------------------
Steps == {"validating", "completed", "found", "merged", "done", "skipped", "failed"}

\* Type invariant of the pull request and its runs.
TypeOK ==
    /\ pr \in {"open", "closed", "merged"}
    /\ head \in Commits
    /\ runs \in Seq([sha : Commits, at : Steps, green : BOOLEAN]) /\ Len(runs) \in 1..MaxRuns
    /\ merged \in 0..MaxHead
    /\ dispatched \in 0..MaxRuns
    /\ faults \in 0..MaxFaults

\* auto-merge.yml:13 "Only proceed when validation passed": what is merged is a
\* head that passed validate.yml.
MergedHeadPassed == merged # 0 => merged \in Good

\* What the code does guarantee: the pull request is not merged before one of the
\* heads it has had, the last or an earlier one, passed (auto-merge.yml:14); and the
\* state is well typed.
SomeHeadPassed ==
    /\ TypeOK
    /\ pr = "merged" =>
        \E i \in 1..Len(runs) :
            runs[i].green /\ runs[i].sha \in Good /\ runs[i].sha <= merged

\* No firmware build is triggered by a pull request that was never merged, whatever
\* runs found it open and lost the race to merge or to close it.
BuildsAreOfMerges == dispatched > 0 => merged # 0

\* A pull request whose head is good and that nobody closes does not stay open for
\* ever, unless a job failed (sync.yml: "Auto-merges after Validate Packages").
GoodHeadIsMerged == ~<>[](pr = "open" /\ head \in Good /\ faults = 0)

\* What was merged gets its firmware build, unless a job failed.
MergeIsBuilt == merged # 0 ~> dispatched > 0 \/ faults > 0
=============================================================================
