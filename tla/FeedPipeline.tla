---------------------------- MODULE FeedPipeline ----------------------------
(***************************************************************************)
(* The life of an upstream commit in the feed: monitor.yml records the     *)
(* upstream SHAs on main, sync.yml runs every sync script on a fresh       *)
(* checkout and opens a pull request, validate.yml checks the merge        *)
(* preview, auto-merge.yml squash-merges the pull request and dispatches   *)
(* the firmware build.                                                     *)
(*                                                                         *)
(* No workflow has a `concurrency:` group, so several sync runs, with      *)
(* their pull requests, are in flight at once; each element of Runs is one *)
(* such chain, from the checkout to the dispatch or to a red job.          *)
(***************************************************************************)
EXTENDS Integers, Sequences, SyncTree

CONSTANTS
    Runs,        \* sync runs that may be in flight at the same time (a bound)
    MaxVer,      \* commits upstream publishes after the initial one (a bound)
    MaxFaults,   \* failures of jobs and of the services they call (a bound)
    MaxQueued,   \* push events waiting for a sync run to start (a bound)
    Snap,        \* Snap[r][v]: the tree of r at its v-th commit
    Order,       \* the repositories in the order run-sync-all.sh visits them
    Makefile,    \* Makefile[r]: the package Makefile of r
    Bad,         \* the Makefile contents the grep of validate.yml rejects
    Checked,     \* repositories with a Makefile at the depth find looks at
    PAT,         \* whether the secret PAT is configured
    Unknown      \* what monitor.yml records when the API gave no SHA

Versions == 0..MaxVer

ASSUME PipelineAssumption ==
    /\ MaxVer \in Nat /\ MaxFaults \in Nat /\ MaxQueued \in Nat
    /\ Snap \in [Repos -> [Versions -> Tree]]
    /\ Order \in Seq(Repos)
    /\ Makefile \in [Repos -> Files]
    /\ Bad \subseteq Contents
    /\ Checked \subseteq Repos
    /\ PAT \in BOOLEAN
    /\ Unknown \notin Versions

VARIABLES
    upstream,    \* upstream[r]: the commit HEAD of r points to
    main,        \* main[r]: the destination tree of r on the branch main
    recorded,    \* .github/upstream-shas.json on main
    monPc,       \* the monitor run: idle, or the repository it polls next
    seen,        \* NEW_SHAS of the monitor run
    behind,      \* main has moved since the monitor run checked it out
    queued,      \* pushes to main that will start a sync run
    pc,          \* where each chain stands
    base,        \* the commit of main a sync run checked out
    work,        \* its working tree, then the head of its pull request
    next,        \* the sync script it runs next
    failed,      \* the runs some script of which failed
    force,       \* the runs dispatched with force_sync
    verdict,     \* the runs whose merge preview has Makefiles validate.yml accepts
    shipped,     \* main as the last firmware dispatch found it
    unbuilt,     \* a dispatch failed and no later one succeeded
    leftOpen,    \* a pull request that got stuck was left open for good
    faults       \* failures so far

monitorVars  == <<recorded, monPc, seen>>
shipVars     == <<shipped, unbuilt>>
workspace    == <<base, work, next, failed, force>>
vars == <<upstream, main, monitorVars, behind, queued, pc, workspace, verdict,
          shipVars, leftOpen, faults>>

Recordable == Versions \cup {Unknown}

Feed  == [Repos -> Tree]
Empty == [r \in Repos |-> [f \in Files |-> Absent]]

Fault == faults < MaxFaults /\ faults' = faults + 1
-----------------------------------------------------------------------------
\* The feed was synced from the initial upstream commits before.
Init ==
    /\ upstream = [r \in Repos |-> 0]
    /\ main = [r \in Repos |-> Staged(Empty[r], SyncRepo(r, Empty[r], Snap[r][0]))]
    /\ recorded = upstream
    /\ monPc = 0 /\ seen = recorded /\ behind = FALSE
    /\ queued = 0
    /\ pc = [s \in Runs |-> "idle"]
    /\ base = [s \in Runs |-> Empty]
    /\ work = [s \in Runs |-> Empty]
    /\ next = [s \in Runs |-> 1]
    /\ failed = {}
    /\ force = {}
    /\ verdict = {}
    /\ shipped = main /\ unbuilt = FALSE /\ leftOpen = FALSE
    /\ faults = 0

\* Upstream moves on its own.
Publish(r) ==
    /\ upstream[r] < MaxVer
    /\ upstream' = [upstream EXCEPT ![r] = @ + 1]
    /\ UNCHANGED <<main, monitorVars, behind, queued, pc, workspace, verdict,
                   shipVars, leftOpen, faults>>
-----------------------------------------------------------------------------
(* monitor.yml *)

MonitorCheckout ==
    /\ monPc = 0
    /\ monPc' = 1 /\ seen' = recorded /\ behind' = FALSE
    /\ UNCHANGED <<upstream, main, recorded, queued, pc, workspace, verdict,
                   shipVars, leftOpen, faults>>

\* One turn of the loop over UPSTREAMS.  curl runs without --fail and the step
\* without pipefail, so a failed call yields no SHA and the loop goes on.
MonitorPoll ==
    /\ monPc \in 1..Len(Order)
    /\ monPc' = monPc + 1
    /\ LET r == Order[monPc] IN
         \/ seen' = [seen EXCEPT ![r] = upstream[r]] /\ UNCHANGED faults
         \/ seen' = [seen EXCEPT ![r] = Unknown] /\ Fault
    /\ UNCHANGED <<upstream, main, recorded, behind, queued, pc, workspace,
                   verdict, shipVars, leftOpen>>

\* A reply that is not JSON makes jq fail, and with it the step and the job.
MonitorFails ==
    /\ monPc \in 1..Len(Order)
    /\ monPc' = 0 /\ behind' = FALSE /\ Fault
    /\ UNCHANGED <<upstream, main, recorded, seen, queued, pc, workspace, verdict,
                   shipVars, leftOpen>>

\* Mutant of MonitorPush: the checkout is made with github.token, whose pushes
\* start no workflow.
MonitorPushSilently ==
    /\ monPc = Len(Order) + 1
    /\ monPc' = 0 /\ behind' = FALSE
    /\ recorded' = IF ~behind THEN seen ELSE recorded
    /\ UNCHANGED <<upstream, main, seen, queued, pc, workspace, verdict, shipVars,
                   leftOpen, faults>>

\* Mutant of MonitorPush: a file with an unknown SHA in it is left alone.
MonitorPushUnlessUnknown ==
    /\ monPc = Len(Order) + 1
    /\ monPc' = 0 /\ behind' = FALSE
    /\ IF seen # recorded /\ ~behind /\ \A r \in Repos : recorded[r] # Unknown
       THEN queued < MaxQueued /\ recorded' = seen /\ queued' = queued + 1
       ELSE UNCHANGED <<recorded, queued>>
    /\ UNCHANGED <<upstream, main, seen, pc, workspace, verdict, shipVars, leftOpen, faults>>

\* "Commit and push updated SHAs", with the push that git rejects when main has
\* moved.  Only a push made with the PAT starts sync.yml.
MonitorPush ==
    /\ monPc = Len(Order) + 1
    /\ monPc' = 0 /\ behind' = FALSE
    /\ IF seen # recorded /\ ~behind
       THEN /\ PAT => queued < MaxQueued
            /\ recorded' = seen
            /\ queued' = IF PAT THEN queued + 1 ELSE queued
       ELSE UNCHANGED <<recorded, queued>>
    /\ UNCHANGED <<upstream, main, seen, pc, workspace, verdict, shipVars, leftOpen, faults>>
-----------------------------------------------------------------------------
(* sync.yml *)

Checkout(s, forced) ==
    /\ pc[s] = "idle"
    /\ pc' = [pc EXCEPT ![s] = "sync"]
    /\ base' = [base EXCEPT ![s] = main]
    /\ work' = [work EXCEPT ![s] = main]
    /\ next' = [next EXCEPT ![s] = 1]
    /\ failed' = failed \ {s}
    /\ force' = IF forced THEN force \cup {s} ELSE force
    /\ UNCHANGED <<upstream, main, monitorVars, behind, verdict, shipVars, leftOpen, faults>>

\* Mutants: there is no daily run; a run starts without a push.
NoCron(s)      == FALSE
UnpushedRun(s) == queued' = queued - 1 /\ Checkout(s, FALSE)

CronSync(s)   == Checkout(s, FALSE) /\ UNCHANGED queued
PushSync(s)   == queued > 0 /\ queued' = queued - 1 /\ Checkout(s, FALSE)
ManualSync(s) == Checkout(s, TRUE) /\ UNCHANGED queued

\* One script of run-sync-all.sh.  It reads the upstream HEAD of this moment;
\* a failure is noted and the loop goes on with the next script.
SyncScript(s) ==
    /\ pc[s] = "sync" /\ next[s] \in 1..Len(Order)
    /\ next' = [next EXCEPT ![s] = @ + 1]
    /\ LET r == Order[next[s]] IN
         \/ /\ work' = [work EXCEPT ![s][r] = SyncRepo(r, @, Snap[r][upstream[r]])]
            /\ UNCHANGED <<failed, faults>>
         \/ Fault /\ failed' = failed \cup {s} /\ UNCHANGED work
    /\ UNCHANGED <<upstream, main, monitorVars, behind, queued, pc, base, force,
                   verdict, shipVars, leftOpen>>

SyncDone(s) == pc[s] = "sync" /\ next[s] = Len(Order) + 1

\* The runner is gone: nothing of the chain is left but, perhaps, an open PR.
End(s) ==
    /\ pc' = [pc EXCEPT ![s] = "idle"]
    /\ base' = [base EXCEPT ![s] = Empty]
    /\ work' = [work EXCEPT ![s] = Empty]
    /\ next' = [next EXCEPT ![s] = 1]
    /\ failed' = failed \ {s}
    /\ force' = force \ {s}
    /\ verdict' = verdict \ {s}

\* run-sync-all.sh exits 1, the step fails and the job stops.
SyncFails(s) ==
    /\ SyncDone(s) /\ s \in failed
    /\ End(s)
    /\ UNCHANGED <<upstream, main, monitorVars, behind, queued, shipVars, leftOpen, faults>>

Commit(s)  == [r \in Repos |-> Staged(base[s][r], work[s][r])]
Changed(s) == Commit(s) # base[s]

NoChanges(s) ==
    /\ SyncDone(s) /\ s \notin failed /\ ~Changed(s) /\ s \notin force
    /\ End(s)
    /\ UNCHANGED <<upstream, main, monitorVars, behind, queued, shipVars, leftOpen, faults>>

\* Mutant of FeedMerged: the head of the pull request replaces main.
TakeHead(b, h) == h

FeedMergeable(b, h) == \A r \in Repos : Mergeable(b[r], h[r], main[r])
FeedMerged(b, h)    == [r \in Repos |-> Merged(b[r], h[r], main[r])]

\* validate.yml sees the Makefiles of the feed directories at depth 3 only.
Valid(feed) == \A r \in Checked : feed[r][Makefile[r]] \notin Bad

\* A pull_request event: GitHub prepares the merge preview validate.yml checks
\* out, and starts no run when there is a conflict.
PullRequestEvent(s, head) ==
    LET clean == FeedMergeable(base[s], head) IN
    /\ pc' = [pc EXCEPT ![s] = IF clean THEN "checking" ELSE "stuck"]
    /\ verdict' = IF clean /\ Valid(FeedMerged(base[s], head))
                   THEN verdict \cup {s} ELSE verdict \ {s}

\* "Create PR with package updates": commit, push the branch, gh pr create.
OpenPR(s) ==
    /\ SyncDone(s) /\ s \notin failed /\ (Changed(s) \/ s \in force)
    /\ PAT
    /\ work' = [work EXCEPT ![s] = Commit(s)]
    /\ PullRequestEvent(s, Commit(s))
    /\ UNCHANGED <<upstream, main, monitorVars, behind, queued, base, next,
                   failed, force, shipVars, leftOpen, faults>>

\* The branch name is taken (two runs in one minute) or the API refuses; gh
\* always refuses when there is no PAT.
OpenPRFails(s) ==
    /\ SyncDone(s) /\ s \notin failed /\ (Changed(s) \/ s \in force)
    /\ IF PAT THEN Fault ELSE UNCHANGED faults
    /\ End(s)
    /\ UNCHANGED <<upstream, main, monitorVars, behind, queued, shipVars, leftOpen>>
-----------------------------------------------------------------------------
(* validate.yml and auto-merge.yml *)

\* Mutant of Validate: the check does not fail the job.
ValidateAnyway(s) ==
    /\ pc[s] = "checking"
    /\ pc' = [pc EXCEPT ![s] = "approved"]
    /\ UNCHANGED <<upstream, main, monitorVars, behind, queued, workspace,
                   verdict, shipVars, leftOpen, faults>>

Validate(s) ==
    /\ pc[s] = "checking"
    /\ \/ s \in verdict /\ pc' = [pc EXCEPT ![s] = "approved"] /\ UNCHANGED faults
       \/ s \notin verdict /\ pc' = [pc EXCEPT ![s] = "stuck"] /\ UNCHANGED faults
       \/ Fault /\ pc' = [pc EXCEPT ![s] = "stuck"]
    /\ UNCHANGED <<upstream, main, monitorVars, behind, queued, workspace,
                   verdict, shipVars, leftOpen>>

\* `gh pr merge --squash` into whatever main is now.
MergePR(s) ==
    /\ pc[s] = "approved"
    /\ \/ /\ FeedMergeable(base[s], work[s])
          /\ main' = FeedMerged(base[s], work[s])
          /\ behind' = TRUE
          /\ pc' = [pc EXCEPT ![s] = "merged"]
          /\ UNCHANGED faults
       \/ /\ ~FeedMergeable(base[s], work[s])
          /\ pc' = [pc EXCEPT ![s] = "stuck"]
          /\ UNCHANGED <<main, behind, faults>>
       \/ /\ Fault
          /\ pc' = [pc EXCEPT ![s] = "stuck"]
          /\ UNCHANGED <<main, behind>>
    /\ UNCHANGED <<upstream, monitorVars, queued, workspace, verdict, shipVars, leftOpen>>

\* Mutant of Dispatch: a dispatch that fails leaves the job green.
DispatchQuietly(s) ==
    /\ pc[s] = "merged"
    /\ \/ shipped' = main /\ unbuilt' = FALSE /\ UNCHANGED faults
       \/ Fault /\ UNCHANGED shipVars
    /\ End(s)
    /\ UNCHANGED <<upstream, main, monitorVars, behind, queued, leftOpen>>

\* "Trigger ZyntaWRT firmware build"; a failure is not retried.
Dispatch(s) ==
    /\ pc[s] = "merged"
    /\ \/ shipped' = main /\ unbuilt' = FALSE /\ UNCHANGED faults
       \/ Fault /\ unbuilt' = TRUE /\ UNCHANGED shipped
    /\ End(s)
    /\ UNCHANGED <<upstream, main, monitorVars, behind, queued, leftOpen>>

\* Somebody reopens a pull request that got stuck, or leaves it alone for good.
Reopen(s) ==
    /\ pc[s] = "stuck"
    /\ PullRequestEvent(s, work[s])
    /\ pc' # pc
    /\ UNCHANGED <<upstream, main, monitorVars, behind, queued, workspace,
                   shipVars, leftOpen, faults>>

Abandon(s) ==
    /\ pc[s] = "stuck"
    /\ End(s) /\ leftOpen' = TRUE
    /\ UNCHANGED <<upstream, main, monitorVars, behind, queued, shipVars, faults>>
-----------------------------------------------------------------------------
RunStep(s) ==
    \/ SyncScript(s) \/ SyncFails(s) \/ NoChanges(s) \/ OpenPR(s) \/ OpenPRFails(s)
    \/ Validate(s) \/ MergePR(s) \/ Dispatch(s) \/ Abandon(s)

Next ==
    \/ \E r \in Repos : Publish(r)
    \/ MonitorCheckout \/ MonitorPoll \/ MonitorFails \/ MonitorPush
    \/ \E s \in Runs : CronSync(s) \/ PushSync(s) \/ ManualSync(s)
    \/ \E s \in Runs : RunStep(s) \/ Reopen(s)

Spec == Init /\ [][Next]_vars

\* GitHub runs the jobs it has started, the two cron schedules keep firing and a
\* push event gets its run in the end, however many cron runs come before it;
\* nobody is obliged to dispatch, to reopen, or upstream to publish.
LiveSpec ==
    /\ Spec
    /\ WF_vars(\E s \in Runs : CronSync(s))
    /\ SF_vars(\E s \in Runs : PushSync(s))
    /\ \A s \in Runs : WF_vars(RunStep(s))
    /\ WF_vars(MonitorCheckout) /\ WF_vars(MonitorPoll) /\ WF_vars(MonitorPush)
-----------------------------------------------------------------------------
(* What the feed promises. *)

Pcs == {"idle", "sync", "checking", "approved", "stuck", "merged"}

FeedsTypeOK ==
    /\ upstream \in [Repos -> Versions]
    /\ main \in Feed
    /\ shipped \in Feed

MonitorTypeOK ==
    /\ recorded \in [Repos -> Recordable]
    /\ monPc \in 0..Len(Order) + 1
    /\ seen \in [Repos -> Recordable]

ChainsTypeOK ==
    /\ pc \in [Runs -> Pcs]
    /\ base \in [Runs -> Feed]
    /\ work \in [Runs -> Feed]
    /\ next \in [Runs -> 1..Len(Order) + 1]
    /\ failed \subseteq Runs
    /\ force \subseteq Runs
    /\ verdict \subseteq Runs

BoundsOK ==
    /\ queued \in 0..MaxQueued
    /\ faults \in 0..MaxFaults

FlagsTypeOK == behind \in BOOLEAN /\ unbuilt \in BOOLEAN /\ leftOpen \in BOOLEAN

\* Type invariant of the pipeline's state.
TypeOK == FeedsTypeOK /\ MonitorTypeOK /\ ChainsTypeOK /\ BoundsOK /\ FlagsTypeOK

\* Tree t holds the v-th commit of r, on the files a sync copies exactly.
Agree(r, t, v) == \A f \in Exact(r) : t[f] = Snap[r][v][f]

\* No file of the exact part goes back to a content it had given up.
NoRevert ==
    \A r \in Repos : \A i, j, k \in Versions : \A f \in Exact(r) :
        i <= j /\ j <= k /\ Snap[r][i][f] = Snap[r][k][f]
            => Snap[r][j][f] = Snap[r][i][f]

\* However sync runs overlap and in whatever order their pull requests are
\* merged, main holds one upstream commit of each repository, never a mix of
\* two (sync.yml's branches merged by auto-merge.yml).
OneSnapshot ==
    \A r \in Repos : \E v \in 0..upstream[r] : Agree(r, main[r], v)

\* The oldest commit of r a tree may be said to hold, for each repository's main.
Oldest(r, t) ==
    CHOOSE v \in Versions :
        Agree(r, t, v) /\ \A u \in Versions : Agree(r, t, u) => v <= u

held == [r \in Repos |-> Oldest(r, main[r])]

Mirror == INSTANCE FeedMirror WITH mirror <- held

\* The pipeline implements the abstract mirror: a pull request made from an older
\* upstream HEAD than the one already merged never takes main back, whatever the
\* order in which auto-merge.yml merges ("Merge PR via PAT").
ImplementsMirror == Mirror!Spec

\* The feed starts with Makefiles validate.yml accepts; it ignores an absent one.
FirstValid ==
    Absent \notin Bad /\ \A r \in Checked : Snap[r][0][Makefile[r]] \notin Bad

\* auto-merge.yml, "Only proceed when validation passed": although the preview
\* validate.yml saw may be older than the main the merge lands on, no Makefile
\* that validate.yml looks at is ever bad on main.
CheckedStayValid == Valid(main)

\* The firmware lags the feed only while an auto-merge job has its dispatch
\* still to make, or after a dispatch job that failed visibly.
NoSilentStaleness ==
    shipped # main => unbuilt \/ \E s \in Runs : pc[s] = "merged"

\* validate.yml ends with "All feeds validated": every directory of feeds/ that
\* reaches main has Makefiles that pass the check.
AllFeedsValidated(feeds) == \A r \in feeds : main[r][Makefile[r]] \notin Bad

\* Once monitor.yml has recorded a commit on main, and as long as nothing has
\* failed and no stuck pull request was left open, the feed lags that commit only
\* while a sync is queued or in flight: an upstream change that was noticed is not
\* forgotten.
Lags(r) ==
    /\ recorded[r] # Unknown
    /\ ~\E v \in recorded[r]..upstream[r] : Agree(r, main[r], v)
NoticedNotForgotten ==
    PAT /\ faults = 0 /\ ~leftOpen /\ (\E r \in Repos : Lags(r))
        => queued > 0 \/ \E s \in Runs : pc[s] # "idle"

\* When upstream has come to rest, main comes to hold its last commits for good,
\* though runs overlap, conflict, fail (MaxFaults times) or are abandoned.
Converges == <>[](\A r \in Repos : Agree(r, main[r], upstream[r]))

\* upstream-shas.json comes to record those commits too, unless forced syncs, whose
\* merges make git reject the monitor's push, are dispatched for ever.
RecordsHeads == <>[](\A s \in Runs : s \notin force) => <>[](recorded = upstream)
=============================================================================
