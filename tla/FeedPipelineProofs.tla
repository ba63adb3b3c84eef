------------------------- MODULE FeedPipelineProofs -------------------------
(***************************************************************************)
(* Proofs about FeedPipeline for every set of repositories, every history  *)
(* of their trees and every number of overlapping runs.                    *)
(***************************************************************************)
EXTENDS FeedPipeline, SyncTreeProofs, WellFoundedInduction

-----------------------------------------------------------------------------
(* Merges of trees of one history. *)

\* A branch that goes from commit b to commit h merges into a main that holds i,
\* b being not newer than either, only to give the newer of i and h.
LEMMA MergeAgrees ==
    ASSUME NoRevert, NEW r \in Repos,
           NEW t \in Tree, NEW u \in Tree, NEW m \in Tree,
           NEW b \in Versions, NEW h \in Versions, NEW i \in Versions,
           b <= h, b <= i,
           Agree(r, t, b), Agree(r, u, h), Agree(r, m, i), Mergeable(t, u, m)
    PROVE  Agree(r, Merged(t, u, m), IF h <= i THEN i ELSE h)
  <1>1. SUFFICES ASSUME NEW f \in Exact(r)
                 PROVE  Merged(t, u, m)[f] = Snap[r][IF h <= i THEN i ELSE h][f]
    BY DEF Agree
  <1>2. f \in Files
    BY ExactFiles
  <1>3. /\ t[f] = Snap[r][b][f] /\ u[f] = Snap[r][h][f] /\ m[f] = Snap[r][i][f]
        /\ Merged(t, u, m)[f] = IF u[f] = t[f] THEN m[f] ELSE u[f]
        /\ u[f] = t[f] \/ m[f] = t[f] \/ m[f] = u[f]
    BY <1>2 DEF Agree, Merged, Mergeable
  <1>4. CASE h <= i
    <2>1. Snap[r][b][f] = Snap[r][i][f] => Snap[r][h][f] = Snap[r][b][f]
      BY <1>4 DEF NoRevert
    <2> QED
      BY <1>3, <1>4, <2>1
  <1>5. CASE ~(h <= i)
    <2>1. i <= h
      BY <1>5, PipelineAssumption DEF Versions
    <2>2. Snap[r][b][f] = Snap[r][h][f] => Snap[r][i][f] = Snap[r][b][f]
      BY <2>1 DEF NoRevert
    <2> QED
      BY <1>3, <1>5, <2>2
  <1> QED
    BY <1>4, <1>5

-----------------------------------------------------------------------------
(* Type correctness. *)

LEMMA OrderType ==
    /\ Len(Order) \in Nat
    /\ \A k \in 1..Len(Order) : Order[k] \in Repos
  BY PipelineAssumption

LEMMA FeedType ==
    /\ Empty \in Feed
    /\ \A b \in Feed, h \in Feed, m \in Feed :
           [r \in Repos |-> Merged(b[r], h[r], m[r])] \in Feed
    /\ \A b \in Feed, w \in Feed : [r \in Repos |-> Staged(b[r], w[r])] \in Feed
  <1>1. Empty \in Feed
    BY TreeAssumption DEF Empty, Feed, Tree
  <1>2. ASSUME NEW b \in Feed, NEW h \in Feed, NEW m \in Feed, NEW r \in Repos
        PROVE  Merged(b[r], h[r], m[r]) \in Tree /\ Staged(b[r], h[r]) \in Tree
    BY TreeType DEF Feed
  <1> QED
    BY <1>1, <1>2 DEF Feed

LEMMA InitType == Init => TypeOK
  <1> SUFFICES ASSUME Init PROVE TypeOK
    OBVIOUS
  <1>1. FeedsTypeOK
    <2>1. ASSUME NEW r \in Repos
          PROVE  Staged(Empty[r], SyncRepo(r, Empty[r], Snap[r][0])) \in Tree
      <3>1. Empty[r] \in Tree /\ Snap[r][0] \in Tree
        BY FeedType, PipelineAssumption DEF Feed, Versions
      <3> QED
        BY <3>1, TreeType
    <2> QED
      BY <2>1, PipelineAssumption DEF Init, FeedsTypeOK, Feed, Versions
  <1>2. MonitorTypeOK
    BY OrderType, PipelineAssumption DEF Init, MonitorTypeOK, Recordable, Versions
  <1>3. ChainsTypeOK
    <2>1. pc \in [Runs -> Pcs] /\ next \in [Runs -> 1..Len(Order) + 1]
      BY OrderType DEF Init, Pcs
    <2>2. base \in [Runs -> Feed] /\ work \in [Runs -> Feed]
      BY FeedType DEF Init
    <2> QED
      BY <2>1, <2>2 DEF Init, ChainsTypeOK
  <1>4. BoundsOK
    BY PipelineAssumption DEF Init, BoundsOK
  <1>5. FlagsTypeOK
    BY DEF Init, FlagsTypeOK
  <1> QED
    BY <1>1, <1>2, <1>3, <1>4, <1>5 DEF TypeOK

\* Each part of the type invariant speaks of its own variables only.
LEMMA PartsKept ==
    /\ FeedsTypeOK /\ UNCHANGED <<upstream, main, shipped>> => FeedsTypeOK'
    /\ MonitorTypeOK /\ UNCHANGED monitorVars => MonitorTypeOK'
    /\ ChainsTypeOK /\ UNCHANGED <<pc, workspace, verdict>> => ChainsTypeOK'
    /\ BoundsOK /\ UNCHANGED <<queued, faults>> => BoundsOK'
    /\ FlagsTypeOK /\ UNCHANGED <<behind, unbuilt, leftOpen>> => FlagsTypeOK'
  <1>1. FeedsTypeOK /\ UNCHANGED <<upstream, main, shipped>> => FeedsTypeOK'
    BY DEF FeedsTypeOK
  <1>2. MonitorTypeOK /\ UNCHANGED monitorVars => MonitorTypeOK'
    BY DEF MonitorTypeOK, monitorVars
  <1>3. ChainsTypeOK /\ UNCHANGED <<pc, workspace, verdict>> => ChainsTypeOK'
    BY DEF ChainsTypeOK, workspace
  <1>4. BoundsOK /\ UNCHANGED <<queued, faults>> => BoundsOK'
    BY DEF BoundsOK
  <1>5. FlagsTypeOK /\ UNCHANGED <<behind, unbuilt, leftOpen>> => FlagsTypeOK'
    BY DEF FlagsTypeOK
  <1> QED
    BY <1>1, <1>2, <1>3, <1>4, <1>5

LEMMA FaultType == BoundsOK /\ UNCHANGED queued /\ (Fault \/ UNCHANGED faults) => BoundsOK'
  BY PipelineAssumption DEF BoundsOK, Fault

LEMMA EndType ==
    ASSUME ChainsTypeOK, NEW s \in Runs, End(s)
    PROVE  ChainsTypeOK'
  BY FeedType, OrderType DEF ChainsTypeOK, End, Pcs

LEMMA EventType ==
    ASSUME ChainsTypeOK, NEW s \in Runs, NEW head \in Feed, PullRequestEvent(s, head)
    PROVE  pc' \in [Runs -> Pcs] /\ verdict' \subseteq Runs
  BY DEF PullRequestEvent, ChainsTypeOK, Pcs

LEMMA NextType == TypeOK /\ [Next]_vars => TypeOK'
  <1> SUFFICES ASSUME TypeOK, [Next]_vars PROVE TypeOK'
    OBVIOUS
  <1> USE PartsKept DEF TypeOK, monitorVars, shipVars, workspace
  <1>1. ASSUME NEW r \in Repos, Publish(r) PROVE TypeOK'
    <2>1. FeedsTypeOK'
      BY <1>1, PipelineAssumption DEF Publish, FeedsTypeOK, Versions
    <2> QED
      BY <1>1, <2>1 DEF Publish
  <1>2. CASE MonitorCheckout
    <2>1. MonitorTypeOK'
      BY <1>2, OrderType DEF MonitorCheckout, MonitorTypeOK
    <2>2. FlagsTypeOK'
      BY <1>2 DEF MonitorCheckout, FlagsTypeOK
    <2> QED
      BY <1>2, <2>1, <2>2 DEF MonitorCheckout
  <1>3. CASE MonitorPoll
    <2>1. upstream[Order[monPc]] \in Recordable /\ Unknown \in Recordable
      BY <1>3, OrderType DEF MonitorPoll, FeedsTypeOK, Recordable
    <2>2. MonitorTypeOK'
      BY <1>3, <2>1, OrderType DEF MonitorPoll, MonitorTypeOK
    <2>3. BoundsOK'
      BY <1>3, FaultType DEF MonitorPoll
    <2> QED
      BY <1>3, <2>2, <2>3 DEF MonitorPoll
  <1>4. CASE MonitorFails
    <2>1. MonitorTypeOK'
      BY <1>4, OrderType DEF MonitorFails, MonitorTypeOK
    <2>2. FlagsTypeOK'
      BY <1>4 DEF MonitorFails, FlagsTypeOK
    <2>3. BoundsOK'
      BY <1>4, FaultType DEF MonitorFails
    <2> QED
      BY <1>4, <2>1, <2>2, <2>3 DEF MonitorFails
  <1>5. CASE MonitorPush
    <2>1. MonitorTypeOK'
      BY <1>5, OrderType DEF MonitorPush, MonitorTypeOK
    <2>2. FlagsTypeOK'
      BY <1>5 DEF MonitorPush, FlagsTypeOK
    <2>3. BoundsOK'
      BY <1>5, PipelineAssumption DEF MonitorPush, BoundsOK
    <2> QED
      BY <1>5, <2>1, <2>2, <2>3 DEF MonitorPush
  <1>6. ASSUME NEW s \in Runs, CronSync(s) \/ PushSync(s) \/ ManualSync(s)
        PROVE  TypeOK'
    <2>1. PICK forced \in BOOLEAN : Checkout(s, forced)
      BY <1>6 DEF CronSync, PushSync, ManualSync
    <2>2. ChainsTypeOK'
      BY <2>1, OrderType DEF Checkout, ChainsTypeOK, FeedsTypeOK, Pcs
    <2>3. BoundsOK'
      BY <1>6, PipelineAssumption
      DEF CronSync, PushSync, ManualSync, Checkout, BoundsOK
    <2> QED
      BY <2>1, <2>2, <2>3 DEF Checkout
  <1>7. ASSUME NEW s \in Runs, SyncScript(s) PROVE TypeOK'
    <2> DEFINE r == Order[next[s]]
    <2>1. r \in Repos /\ next[s] \in 1..Len(Order)
      BY <1>7, OrderType DEF SyncScript
    <2>2. SyncRepo(r, work[s][r], Snap[r][upstream[r]]) \in Tree
      <3>1. work[s] \in Feed /\ upstream[r] \in Versions
        BY <2>1 DEF ChainsTypeOK, FeedsTypeOK
      <3>2. work[s][r] \in Tree /\ Snap[r][upstream[r]] \in Tree
        BY <2>1, <3>1, PipelineAssumption DEF Feed
      <3> QED
        BY <2>1, <3>2, TreeType
    <2>3. work' \in [Runs -> Feed]
      <3>1. [work[s] EXCEPT ![r] = SyncRepo(r, work[s][r], Snap[r][upstream[r]])] \in Feed
        BY <2>1, <2>2 DEF ChainsTypeOK, Feed
      <3> QED
        BY <1>7, <3>1 DEF SyncScript, ChainsTypeOK
    <2>4. next' \in [Runs -> 1..Len(Order) + 1]
      BY <1>7, <2>1, OrderType DEF SyncScript, ChainsTypeOK
    <2>5. failed' \subseteq Runs
      BY <1>7 DEF SyncScript, ChainsTypeOK
    <2>6. ChainsTypeOK'
      BY <1>7, <2>3, <2>4, <2>5 DEF SyncScript, ChainsTypeOK
    <2>7. BoundsOK'
      BY <1>7, FaultType DEF SyncScript
    <2> QED
      BY <1>7, <2>6, <2>7 DEF SyncScript
  <1>8. ASSUME NEW s \in Runs, SyncFails(s) \/ NoChanges(s) PROVE TypeOK'
    BY <1>8, EndType DEF SyncFails, NoChanges
  <1>9. ASSUME NEW s \in Runs, OpenPR(s) PROVE TypeOK'
    <2>1. Commit(s) \in Feed
      BY FeedType DEF Commit, ChainsTypeOK
    <2>2. pc' \in [Runs -> Pcs] /\ verdict' \subseteq Runs
      BY <1>9, <2>1, EventType DEF OpenPR
    <2>3. ChainsTypeOK'
      BY <1>9, <2>1, <2>2 DEF OpenPR, ChainsTypeOK
    <2> QED
      BY <1>9, <2>3 DEF OpenPR
  <1>10. ASSUME NEW s \in Runs, OpenPRFails(s) PROVE TypeOK'
    <2>1. BoundsOK'
      BY <1>10, FaultType DEF OpenPRFails
    <2> QED
      BY <1>10, <2>1, EndType DEF OpenPRFails
  <1>11. ASSUME NEW s \in Runs, Validate(s) PROVE TypeOK'
    <2>1. ChainsTypeOK'
      BY <1>11 DEF Validate, ChainsTypeOK, Pcs
    <2>2. BoundsOK'
      BY <1>11, FaultType DEF Validate
    <2> QED
      BY <1>11, <2>1, <2>2 DEF Validate
  <1>12. ASSUME NEW s \in Runs, MergePR(s) PROVE TypeOK'
    <2>1. FeedMerged(base[s], work[s]) \in Feed
      <3>1. base[s] \in Feed /\ work[s] \in Feed /\ main \in Feed
        BY DEF ChainsTypeOK, FeedsTypeOK
      <3> QED
        BY <3>1, FeedType DEF FeedMerged
    <2>2. FeedsTypeOK'
      BY <1>12, <2>1 DEF MergePR, FeedsTypeOK
    <2>3. ChainsTypeOK'
      BY <1>12 DEF MergePR, ChainsTypeOK, Pcs
    <2>4. BoundsOK'
      BY <1>12, FaultType DEF MergePR
    <2>5. FlagsTypeOK'
      BY <1>12 DEF MergePR, FlagsTypeOK
    <2> QED
      BY <1>12, <2>2, <2>3, <2>4, <2>5 DEF MergePR
  <1>13. ASSUME NEW s \in Runs, Dispatch(s) PROVE TypeOK'
    <2>1. FeedsTypeOK'
      BY <1>13 DEF Dispatch, FeedsTypeOK
    <2>2. BoundsOK'
      BY <1>13, FaultType DEF Dispatch
    <2>3. FlagsTypeOK'
      BY <1>13 DEF Dispatch, FlagsTypeOK
    <2> QED
      BY <1>13, <2>1, <2>2, <2>3, EndType DEF Dispatch
  <1>14. ASSUME NEW s \in Runs, Reopen(s) PROVE TypeOK'
    <2>1. pc' \in [Runs -> Pcs] /\ verdict' \subseteq Runs
      BY <1>14, EventType DEF Reopen, ChainsTypeOK
    <2>2. ChainsTypeOK'
      BY <1>14, <2>1 DEF Reopen, ChainsTypeOK
    <2> QED
      BY <1>14, <2>2 DEF Reopen
  <1>15. ASSUME NEW s \in Runs, Abandon(s) PROVE TypeOK'
    <2>1. FlagsTypeOK'
      BY <1>15 DEF Abandon, FlagsTypeOK
    <2> QED
      BY <1>15, <2>1, EndType DEF Abandon
  <1>16. CASE UNCHANGED vars
    BY <1>16 DEF vars
  <1> QED
    BY <1>1, <1>2, <1>3, <1>4, <1>5, <1>6, <1>7, <1>8, <1>9, <1>10, <1>11, <1>12,
       <1>13, <1>14, <1>15, <1>16 DEF Next, RunStep

\* Every state the pipeline reaches has the types its declarations give.
THEOREM TypeCorrect == Spec => []TypeOK
  BY InitType, NextType, PTL DEF Spec

-----------------------------------------------------------------------------
(* The validation gate and the firmware dispatch, for every number of      *)
(* overlapping pull requests.                                              *)

\* The Makefiles that pull request s changes are good ones.
ChangesGood(s) ==
    \A r \in Checked : \/ work[s][r][Makefile[r]] = base[s][r][Makefile[r]]
                       \/ work[s][r][Makefile[r]] \notin Bad

\* CheckedStayValid, made inductive: an approval was given to a head whose
\* changed Makefiles are good, so that it does not matter which main it meets.
Gate ==
    /\ Valid(main)
    /\ \A s \in Runs : pc[s] = "approved" => s \in verdict
    /\ \A s \in Runs : pc[s] \in {"checking", "approved"} /\ s \in verdict => ChangesGood(s)

LEMMA MakefileFile == \A r \in Checked : r \in Repos /\ Makefile[r] \in Files
  BY PipelineAssumption

LEMMA InitGate == FirstValid /\ Init => Gate
  <1> SUFFICES ASSUME FirstValid, Init PROVE Gate
    OBVIOUS
  <1>1. ASSUME NEW r \in Checked PROVE main[r][Makefile[r]] \notin Bad
    <2> DEFINE f == Makefile[r]
    <2>1. r \in Repos /\ f \in Files
      BY MakefileFile
    <2>2. main[r] = Staged(Empty[r], SyncRepo(r, Empty[r], Snap[r][0])) /\ Empty[r][f] = Absent
      BY <2>1 DEF Init, Empty
    <2>3. SyncRepo(r, Empty[r], Snap[r][0])[f] \in {Absent, Snap[r][0][f]}
      BY <2>1, <2>2 DEF SyncRepo, Copy, Clean
    <2>4. main[r][f] \in {Absent, Snap[r][0][f]}
      BY <2>1, <2>2, <2>3 DEF Staged
    <2> QED
      BY <2>4 DEF FirstValid
  <1>2. \A s \in Runs : pc[s] = "idle"
    BY DEF Init
  <1> QED
    BY <1>1, <1>2 DEF Gate, Valid

\* A good preview means that the head's own changes are good.
LEMMA EventGate ==
    ASSUME NEW s \in Runs, NEW head, PullRequestEvent(s, head), s \in verdict'
    PROVE  \A r \in Checked : \/ head[r][Makefile[r]] = base[s][r][Makefile[r]]
                              \/ head[r][Makefile[r]] \notin Bad
  <1>1. Valid(FeedMerged(base[s], head))
    BY DEF PullRequestEvent
  <1> QED
    BY <1>1, MakefileFile DEF Valid, FeedMerged, Merged

LEMMA MergeGate ==
    ASSUME NEW s \in Runs, Valid(main), ChangesGood(s)
    PROVE  Valid(FeedMerged(base[s], work[s]))
  BY MakefileFile DEF Valid, ChangesGood, FeedMerged, Merged

\* A step that leaves main alone endangers the gate only through the one run it moves.
LEMMA RunStepGate ==
    ASSUME Gate, NEW s \in Runs, UNCHANGED main,
           \A t \in Runs \ {s} :
               /\ pc'[t] = pc[t] /\ base'[t] = base[t] /\ work'[t] = work[t]
               /\ t \in verdict' <=> t \in verdict,
           pc'[s] = "approved" => s \in verdict',
           pc'[s] \in {"checking", "approved"} /\ s \in verdict' => ChangesGood(s)'
    PROVE  Gate'
  <1>1. ASSUME NEW t \in Runs, t # s PROVE ChangesGood(t) <=> ChangesGood(t)'
    BY <1>1 DEF ChangesGood
  <1>2. ASSUME NEW t \in Runs
        PROVE  /\ pc'[t] = "approved" => t \in verdict'
               /\ pc'[t] \in {"checking", "approved"} /\ t \in verdict' => ChangesGood(t)'
    <2>1. CASE t = s
      BY <2>1
    <2>2. CASE t # s
      BY <1>1, <2>2 DEF Gate
    <2> QED
      BY <2>1, <2>2
  <1>3. Valid(main')
    BY DEF Gate
  <1> QED
    BY <1>2, <1>3 DEF Gate, Valid

LEMMA NextGate == TypeOK /\ Gate /\ [Next]_vars => Gate'
  <1> SUFFICES ASSUME TypeOK, Gate, [Next]_vars PROVE Gate'
    OBVIOUS
  <1> USE DEF monitorVars, shipVars, workspace
  <1> DEFINE Others(s) == \A t \in Runs \ {s} :
                 /\ pc'[t] = pc[t] /\ base'[t] = base[t] /\ work'[t] = work[t]
                 /\ t \in verdict' <=> t \in verdict
  <1>1. CASE UNCHANGED <<main, pc, base, work, verdict>>
    BY <1>1 DEF Gate, Valid, ChangesGood
  <1>2. ASSUME NEW s \in Runs, NEW forced, Checkout(s, forced) PROVE Gate'
    <2>1. Others(s) /\ UNCHANGED main /\ pc'[s] = "sync"
      BY <1>2 DEF Checkout, TypeOK, ChainsTypeOK
    <2> QED
      BY <2>1, RunStepGate
  <1>3. ASSUME NEW s \in Runs, SyncScript(s) PROVE Gate'
    <2>1. Others(s) /\ UNCHANGED main /\ pc'[s] = "sync"
      BY <1>3 DEF SyncScript, TypeOK, ChainsTypeOK
    <2> QED
      BY <2>1, RunStepGate
  <1>4. ASSUME NEW s \in Runs, End(s), UNCHANGED main PROVE Gate'
    <2>1. Others(s) /\ pc'[s] = "idle"
      BY <1>4 DEF End, TypeOK, ChainsTypeOK
    <2> QED
      BY <1>4, <2>1, RunStepGate
  <1>5. ASSUME NEW s \in Runs, NEW head, PullRequestEvent(s, head), work'[s] = head,
               UNCHANGED <<main, base>>, \A t \in Runs \ {s} : work'[t] = work[t]
        PROVE  Gate'
    <2>1. Others(s) /\ pc'[s] # "approved"
      BY <1>5 DEF PullRequestEvent, TypeOK, ChainsTypeOK
    <2>2. s \in verdict' => ChangesGood(s)'
      BY <1>5, EventGate DEF ChangesGood
    <2> QED
      BY <1>5, <2>1, <2>2, RunStepGate
  <1>6. ASSUME NEW s \in Runs, OpenPR(s) PROVE Gate'
    BY <1>5, <1>6 DEF OpenPR, TypeOK, ChainsTypeOK
  <1>7. ASSUME NEW s \in Runs, Reopen(s) PROVE Gate'
    BY <1>5, <1>7 DEF Reopen
  <1>8. ASSUME NEW s \in Runs, Validate(s) PROVE Gate'
    <2>1. /\ Others(s) /\ UNCHANGED <<main, base, work, verdict>>
          /\ pc[s] = "checking" /\ (pc'[s] = "approved" => s \in verdict)
      BY <1>8 DEF Validate, TypeOK, ChainsTypeOK
    <2>2. s \in verdict => ChangesGood(s)'
      BY <2>1 DEF Gate, ChangesGood
    <2> QED
      BY <2>1, <2>2, RunStepGate
  <1>9. ASSUME NEW s \in Runs, MergePR(s) PROVE Gate'
    <2>1. /\ UNCHANGED <<base, work, verdict>> /\ pc[s] = "approved"
          /\ pc'[s] \in {"merged", "stuck"}
          /\ \A t \in Runs \ {s} : pc'[t] = pc[t]
          /\ main' = main \/ main' = FeedMerged(base[s], work[s])
      BY <1>9 DEF MergePR, TypeOK, ChainsTypeOK
    <2>2. Valid(main')
      BY <2>1, MergeGate DEF Gate
    <2>3. \A t \in Runs : ChangesGood(t) => ChangesGood(t)'
      BY <2>1 DEF ChangesGood
    <2> QED
      BY <2>1, <2>2, <2>3 DEF Gate, Valid
  <1>10. ASSUME NEW s \in Runs,
                SyncFails(s) \/ NoChanges(s) \/ OpenPRFails(s) \/ Dispatch(s) \/ Abandon(s)
         PROVE  Gate'
    BY <1>4, <1>10 DEF SyncFails, NoChanges, OpenPRFails, Dispatch, Abandon
  <1>11. ASSUME NEW r \in Repos, Publish(r) PROVE Gate'
    BY <1>1, <1>11 DEF Publish
  <1>12. CASE MonitorCheckout \/ MonitorPoll \/ MonitorFails \/ MonitorPush
    BY <1>1, <1>12 DEF MonitorCheckout, MonitorPoll, MonitorFails, MonitorPush
  <1>13. ASSUME NEW s \in Runs, CronSync(s) \/ PushSync(s) \/ ManualSync(s) PROVE Gate'
    BY <1>2, <1>13 DEF CronSync, PushSync, ManualSync
  <1>14. CASE UNCHANGED vars
    BY <1>1, <1>14 DEF vars
  <1> QED
    BY <1>3, <1>6, <1>7, <1>8, <1>9, <1>10, <1>11, <1>12, <1>13, <1>14 DEF Next, RunStep

\* No Makefile validate.yml looks at is ever bad on main, though a merge may land
\* on a main that its validation has not seen (auto-merge.yml).
THEOREM CheckedStayValidHolds == FirstValid => (Spec => []CheckedStayValid)
  <1> SUFFICES ASSUME FirstValid PROVE Spec => []CheckedStayValid
    OBVIOUS
  <1>1. Init => Gate
    BY InitGate
  <1>2. Gate => CheckedStayValid
    BY DEF Gate, CheckedStayValid
  <1> QED
    BY <1>1, <1>2, NextGate, TypeCorrect, PTL DEF Spec

-----------------------------------------------------------------------------
\* The firmware lags main only between a merge and its dispatch, or after a
\* dispatch job that failed (auto-merge.yml, "Trigger ZyntaWRT firmware build").
THEOREM NoSilentStalenessHolds == Spec => []NoSilentStaleness
  <1> USE DEF monitorVars, shipVars, workspace
  <1>1. Init => NoSilentStaleness
    BY DEF Init, NoSilentStaleness
  <1>2. TypeOK /\ NoSilentStaleness /\ [Next]_vars => NoSilentStaleness'
    <2> SUFFICES ASSUME TypeOK, NoSilentStaleness, [Next]_vars PROVE NoSilentStaleness'
      OBVIOUS
    <2>1. ASSUME UNCHANGED <<main, shipVars>>,
                 \A t \in Runs : pc[t] = "merged" => pc'[t] = "merged"
          PROVE  NoSilentStaleness'
      BY <2>1 DEF NoSilentStaleness
    <2>2. ASSUME NEW s \in Runs, MergePR(s) PROVE NoSilentStaleness'
      <3>1. CASE pc' = [pc EXCEPT ![s] = "merged"]
        BY <3>1 DEF NoSilentStaleness, TypeOK, ChainsTypeOK
      <3>2. CASE pc' = [pc EXCEPT ![s] = "stuck"] /\ UNCHANGED main
        BY <2>1, <2>2, <3>2 DEF MergePR, TypeOK, ChainsTypeOK
      <3> QED
        BY <2>2, <3>1, <3>2 DEF MergePR
    <2>3. ASSUME NEW s \in Runs, Dispatch(s) PROVE NoSilentStaleness'
      BY <2>3 DEF Dispatch, NoSilentStaleness
    <2>4. ASSUME NEW s \in Runs, End(s), pc[s] # "merged", UNCHANGED <<main, shipVars>>
          PROVE  NoSilentStaleness'
      BY <2>1, <2>4 DEF End, TypeOK, ChainsTypeOK
    <2>5. ASSUME NEW s \in Runs, SyncFails(s) \/ NoChanges(s) \/ OpenPRFails(s) \/ Abandon(s)
          PROVE  NoSilentStaleness'
      BY <2>4, <2>5 DEF SyncFails, NoChanges, OpenPRFails, Abandon, SyncDone
    <2>6. ASSUME NEW s \in Runs, OpenPR(s) \/ Validate(s) \/ Reopen(s) \/ SyncScript(s)
          PROVE  NoSilentStaleness'
      BY <2>1, <2>6 DEF OpenPR, SyncDone, Validate, Reopen, PullRequestEvent, SyncScript,
                        TypeOK, ChainsTypeOK
    <2>7. ASSUME NEW s \in Runs, CronSync(s) \/ PushSync(s) \/ ManualSync(s)
          PROVE  NoSilentStaleness'
      BY <2>1, <2>7 DEF CronSync, PushSync, ManualSync, Checkout, TypeOK, ChainsTypeOK
    <2>8. CASE MonitorCheckout \/ MonitorPoll \/ MonitorFails \/ MonitorPush
      BY <2>1, <2>8 DEF MonitorCheckout, MonitorPoll, MonitorFails, MonitorPush
    <2>9. ASSUME NEW r \in Repos, Publish(r) PROVE NoSilentStaleness'
      BY <2>1, <2>9 DEF Publish
    <2>10. CASE UNCHANGED vars
      BY <2>1, <2>10 DEF vars
    <2> QED
      BY <2>2, <2>3, <2>5, <2>6, <2>7, <2>8, <2>9, <2>10 DEF Next, RunStep
  <1> QED
    BY <1>1, <1>2, TypeCorrect, PTL DEF Spec

-----------------------------------------------------------------------------
(* However sync runs overlap, main holds one upstream commit of each       *)
(* repository, and the pipeline implements the abstract mirror of          *)
(* FeedMirror, provided no upstream file returns to an old content         *)
(* (NoRevert).  OneSnapshot is not inductive: what keeps a late merge from *)
(* mixing two commits is that the branch of every run started from a       *)
(* commit main has held (b) and moved to one not older than it (h).        *)

Descends(r, s, i) ==
    \E b, h \in Versions :
        /\ b <= i /\ b <= h /\ h <= upstream[r]
        /\ Agree(r, base[s][r], b) /\ Agree(r, work[s][r], h)

LineageAt(r, i) ==
    /\ Agree(r, main[r], i)
    /\ \A s \in Runs : pc[s] # "idle" => Descends(r, s, i)

Lineage == \A r \in Repos : \E i \in 0..upstream[r] : LineageAt(r, i)

-----------------------------------------------------------------------------
LEMMA Ranges ==
    ASSUME TypeOK, NEW r \in Repos
    PROVE  /\ upstream[r] \in Versions
           /\ 0..upstream[r] \subseteq Versions
           /\ main[r] \in Tree
           /\ \A s \in Runs : base[s][r] \in Tree /\ work[s][r] \in Tree
  BY PipelineAssumption DEF TypeOK, FeedsTypeOK, ChainsTypeOK, Feed, Versions

\* The snapshot of the initial commits is what the first sync left on main.
LEMMA InitLineage == Init => Lineage
  <1> SUFFICES ASSUME Init, NEW r \in Repos PROVE LineageAt(r, 0) /\ 0 \in 0..upstream[r]
    BY DEF Lineage
  <1>1. upstream[r] = 0 /\ \A s \in Runs : pc[s] = "idle"
    BY DEF Init
  <1>2. Agree(r, main[r], 0)
    <2>1. Empty[r] \in Tree /\ Snap[r][0] \in Tree
      BY FeedType, PipelineAssumption DEF Feed, Versions
    <2>2. SyncRepo(r, Empty[r], Snap[r][0]) \in Tree
      BY <2>1, TreeType
    <2>3. ASSUME NEW f \in Exact(r)
          PROVE  Staged(Empty[r], SyncRepo(r, Empty[r], Snap[r][0]))[f] = Snap[r][0][f]
      BY <2>1, <2>2, SyncExact, StagedExact
    <2>4. main[r] = Staged(Empty[r], SyncRepo(r, Empty[r], Snap[r][0]))
      BY DEF Init
    <2> QED
      BY <2>3, <2>4 DEF Agree
  <1> QED
    BY <1>1, <1>2 DEF LineageAt

\* A step that leaves main alone and changes at most the trees of one run keeps
\* the lineage if that run, unless it ended, still descends from what main held.
LEMMA RunStepLineage ==
    ASSUME TypeOK, Lineage, NEW s \in Runs, UNCHANGED <<upstream, main>>,
           \A t \in Runs \ {s} : pc'[t] = pc[t] /\ base'[t] = base[t] /\ work'[t] = work[t],
           \A r \in Repos : \A i \in 0..upstream[r] :
               pc'[s] # "idle" /\ LineageAt(r, i) => Descends(r, s, i)'
    PROVE  Lineage'
  <1> SUFFICES ASSUME NEW r \in Repos PROVE \E i \in 0..upstream'[r] : LineageAt(r, i)'
    BY DEF Lineage
  <1>1. PICK i \in 0..upstream[r] : LineageAt(r, i)
    BY DEF Lineage
  <1>2. ASSUME NEW t \in Runs, pc'[t] # "idle" PROVE Descends(r, t, i)'
    <2>1. CASE t = s
      BY <1>1, <1>2, <2>1
    <2>2. CASE t # s
      BY <1>1, <1>2, <2>2 DEF LineageAt, Descends
    <2> QED
      BY <2>1, <2>2
  <1>3. Agree(r, main'[r], i)
    BY <1>1 DEF LineageAt
  <1> QED
    BY <1>2, <1>3 DEF LineageAt

\* A merge moves main to the newer of its commit and the branch's, and every
\* other run still started from a commit main has held.
LEMMA MergeLineage ==
    ASSUME NoRevert, TypeOK, NEW s \in Runs, pc[s] = "approved",
           FeedMergeable(base[s], work[s]), NEW r \in Repos,
           NEW i \in 0..upstream[r], LineageAt(r, i)
    PROVE  \E j \in i..upstream[r] :
               /\ Agree(r, Merged(base[s][r], work[s][r], main[r]), j)
               /\ \A t \in Runs : pc[t] # "idle" => Descends(r, t, j)
  <1>1. PICK b \in Versions, h \in Versions :
            /\ b <= i /\ b <= h /\ h <= upstream[r]
            /\ Agree(r, base[s][r], b) /\ Agree(r, work[s][r], h)
    BY DEF LineageAt, Descends
  <1> DEFINE j == IF h <= i THEN i ELSE h
  <1>2. /\ b \in Versions /\ h \in Versions /\ i \in Versions
        /\ b <= h /\ b <= i /\ i <= j /\ j \in i..upstream[r] /\ j \in Nat
    BY <1>1, Ranges, PipelineAssumption DEF Versions
  <1>3. Agree(r, Merged(base[s][r], work[s][r], main[r]), j)
    <2>1. /\ base[s][r] \in Tree /\ work[s][r] \in Tree /\ main[r] \in Tree
          /\ Agree(r, main[r], i) /\ Mergeable(base[s][r], work[s][r], main[r])
      BY Ranges DEF LineageAt, FeedMergeable
    <2> QED
      BY <1>1, <1>2, <2>1, MergeAgrees
  <1>4. \A t \in Runs : pc[t] # "idle" => Descends(r, t, j)
    <2>1. \A c \in Versions : c <= i => c <= j
      BY <1>2, PipelineAssumption DEF Versions
    <2> QED
      BY <2>1 DEF LineageAt, Descends
  <1> QED
    BY <1>2, <1>3, <1>4

LEMMA NextLineage == NoRevert /\ TypeOK /\ Lineage /\ [Next]_vars => Lineage'
  <1> SUFFICES ASSUME NoRevert, TypeOK, Lineage, [Next]_vars PROVE Lineage'
    OBVIOUS
  <1> USE DEF monitorVars, shipVars, workspace
  <1>1. CASE UNCHANGED <<upstream, main, pc, base, work>>
    BY <1>1 DEF Lineage, LineageAt, Descends
  <1>2. ASSUME NEW r \in Repos, Publish(r) PROVE Lineage'
    <2>1. ASSUME NEW q \in Repos PROVE 0..upstream[q] \subseteq 0..upstream'[q]
      BY <1>2, Ranges, PipelineAssumption DEF Publish, TypeOK, FeedsTypeOK, Versions
    <2>2. ASSUME NEW q \in Repos PROVE \E i \in 0..upstream'[q] : LineageAt(q, i)'
      <3>1. PICK i \in 0..upstream[q] : LineageAt(q, i)
        BY DEF Lineage
      <3>2. i \in 0..upstream'[q] /\ Agree(q, main'[q], i)
        BY <1>2, <2>1, <3>1 DEF LineageAt, Publish
      <3>3. ASSUME NEW s \in Runs, pc'[s] # "idle" PROVE Descends(q, s, i)'
        <4>1. PICK b \in Versions, h \in Versions :
                  /\ b <= i /\ b <= h /\ h <= upstream[q]
                  /\ Agree(q, base[s][q], b) /\ Agree(q, work[s][q], h)
          BY <1>2, <3>1, <3>3 DEF LineageAt, Descends, Publish
        <4>2. h <= upstream'[q]
          BY <2>1, <4>1, Ranges, PipelineAssumption DEF Versions
        <4> QED
          BY <1>2, <4>1, <4>2 DEF Descends, Publish
      <3> QED
        BY <3>2, <3>3 DEF LineageAt
    <2> QED
      BY <2>2 DEF Lineage
  <1>3. ASSUME NEW s \in Runs, NEW forced, Checkout(s, forced) PROVE Lineage'
    <2>1. ASSUME NEW r \in Repos, NEW i \in 0..upstream[r], LineageAt(r, i)
          PROVE  Descends(r, s, i)'
      <3>1. base'[s] = main /\ work'[s] = main /\ upstream' = upstream
        BY <1>3 DEF Checkout, TypeOK, ChainsTypeOK
      <3>2. Agree(r, main[r], i) /\ i \in Versions /\ i <= i /\ i <= upstream[r]
        BY <2>1, Ranges, PipelineAssumption DEF LineageAt, Versions
      <3> QED
        BY <3>1, <3>2 DEF Descends
    <2>2. \A t \in Runs \ {s} : pc'[t] = pc[t] /\ base'[t] = base[t] /\ work'[t] = work[t]
      BY <1>3 DEF Checkout, TypeOK, ChainsTypeOK
    <2>3. UNCHANGED <<upstream, main>>
      BY <1>3 DEF Checkout
    <2> QED
      BY <2>1, <2>2, <2>3, RunStepLineage
  <1>4. ASSUME NEW s \in Runs, SyncScript(s) PROVE Lineage'
    <2> DEFINE q == Order[next[s]]
    <2>1. /\ q \in Repos /\ UNCHANGED <<upstream, main, pc, base>>
          /\ \/ work' = [work EXCEPT ![s][q] = SyncRepo(q, @, Snap[q][upstream[q]])]
             \/ UNCHANGED work
          /\ pc[s] # "idle"
      BY <1>4, OrderType DEF SyncScript
    <2>2. ASSUME NEW r \in Repos, NEW i \in 0..upstream[r], LineageAt(r, i)
          PROVE  Descends(r, s, i)'
      <3>1. PICK b \in Versions, h \in Versions :
                /\ b <= i /\ b <= h /\ h <= upstream[r]
                /\ Agree(r, base[s][r], b) /\ Agree(r, work[s][r], h)
        BY <2>1, <2>2 DEF LineageAt, Descends
      <3>2. CASE work'[s][r] = work[s][r]
        BY <2>1, <3>1, <3>2 DEF Descends
      <3>3. CASE r = q /\ work'[s][r] = SyncRepo(q, work[s][q], Snap[q][upstream[q]])
        <4>1. work[s][q] \in Tree /\ Snap[q][upstream[q]] \in Tree
          BY <2>1, Ranges, PipelineAssumption
        <4>2. Agree(r, work'[s][r], upstream[r])
          BY <3>3, <4>1, SyncExact DEF Agree
        <4>3. upstream[r] \in Versions /\ b <= upstream[r] /\ upstream[r] <= upstream[r]
          BY <3>1, Ranges, PipelineAssumption DEF Versions
        <4> QED
          BY <2>1, <3>1, <4>2, <4>3 DEF Descends
      <3> QED
        BY <2>1, <3>2, <3>3 DEF TypeOK, ChainsTypeOK, Feed
    <2>3. \A t \in Runs \ {s} : pc'[t] = pc[t] /\ base'[t] = base[t] /\ work'[t] = work[t]
      BY <2>1 DEF TypeOK, ChainsTypeOK
    <2> QED
      BY <2>1, <2>2, <2>3, RunStepLineage
  <1>5. ASSUME NEW s \in Runs, End(s), UNCHANGED <<upstream, main>> PROVE Lineage'
    <2>1. \A t \in Runs \ {s} : pc'[t] = pc[t] /\ base'[t] = base[t] /\ work'[t] = work[t]
      BY <1>5 DEF End, TypeOK, ChainsTypeOK
    <2>2. pc'[s] = "idle"
      BY <1>5 DEF End, TypeOK, ChainsTypeOK
    <2> QED
      BY <1>5, <2>1, <2>2, RunStepLineage
  <1>6. ASSUME NEW s \in Runs, OpenPR(s) PROVE Lineage'
    <2>1. /\ UNCHANGED <<upstream, main, base>> /\ pc[s] # "idle"
          /\ work' = [work EXCEPT ![s] = Commit(s)]
      BY <1>6 DEF OpenPR, SyncDone
    <2>2. ASSUME NEW r \in Repos, NEW i \in 0..upstream[r], LineageAt(r, i)
          PROVE  Descends(r, s, i)'
      <3>1. PICK b \in Versions, h \in Versions :
                /\ b <= i /\ b <= h /\ h <= upstream[r]
                /\ Agree(r, base[s][r], b) /\ Agree(r, work[s][r], h)
        BY <2>1, <2>2 DEF LineageAt, Descends
      <3>2. work'[s][r] = Staged(base[s][r], work[s][r])
        BY <2>1 DEF Commit, TypeOK, ChainsTypeOK
      <3>3. base[s][r] \in Tree /\ work[s][r] \in Tree
        BY Ranges
      <3>4. Agree(r, work'[s][r], h)
        BY <3>1, <3>2, <3>3, StagedExact DEF Agree
      <3> QED
        BY <2>1, <3>1, <3>4 DEF Descends
    <2>3. \A t \in Runs \ {s} : pc'[t] = pc[t] /\ base'[t] = base[t] /\ work'[t] = work[t]
      BY <1>6, <2>1 DEF OpenPR, PullRequestEvent, TypeOK, ChainsTypeOK
    <2> QED
      BY <2>1, <2>2, <2>3, RunStepLineage
  <1>7. ASSUME NEW s \in Runs, pc[s] # "idle", UNCHANGED <<upstream, main, base, work>>,
               \A t \in Runs \ {s} : pc'[t] = pc[t]
        PROVE  Lineage'
    <2>1. \A r \in Repos : \A i \in 0..upstream[r] :
              LineageAt(r, i) => Descends(r, s, i)'
      BY <1>7 DEF LineageAt, Descends
    <2> QED
      BY <1>7, <2>1, RunStepLineage
  <1>8. ASSUME NEW s \in Runs, MergePR(s), main' # main PROVE Lineage'
    <2>1. /\ pc[s] = "approved" /\ FeedMergeable(base[s], work[s])
          /\ main' = FeedMerged(base[s], work[s])
          /\ UNCHANGED <<upstream, base, work>>
          /\ \A t \in Runs : pc'[t] # "idle" => pc[t] # "idle"
      BY <1>8 DEF MergePR, TypeOK, ChainsTypeOK
    <2>2. ASSUME NEW r \in Repos PROVE \E j \in 0..upstream'[r] : LineageAt(r, j)'
      <3>1. PICK i \in 0..upstream[r] : LineageAt(r, i)
        BY DEF Lineage
      <3>2. PICK j \in i..upstream[r] :
                /\ Agree(r, Merged(base[s][r], work[s][r], main[r]), j)
                /\ \A t \in Runs : pc[t] # "idle" => Descends(r, t, j)
        BY <2>1, <3>1, MergeLineage
      <3>3. j \in 0..upstream'[r] /\ Agree(r, main'[r], j)
        BY <2>1, <3>2, Ranges, PipelineAssumption DEF FeedMerged, Versions
      <3>4. \A t \in Runs : pc'[t] # "idle" => Descends(r, t, j)'
        BY <2>1, <3>2 DEF Descends
      <3> QED
        BY <3>3, <3>4 DEF LineageAt
    <2> QED
      BY <2>2 DEF Lineage
  <1>9. ASSUME NEW s \in Runs, MergePR(s), main' = main PROVE Lineage'
    BY <1>7, <1>9 DEF MergePR, TypeOK, ChainsTypeOK
  <1>10. ASSUME NEW s \in Runs, RunStep(s) \/ Reopen(s) PROVE Lineage'
    <2>1. CASE Validate(s)
      BY <1>7, <2>1 DEF Validate, TypeOK, ChainsTypeOK
    <2>2. CASE Reopen(s)
      BY <1>7, <2>2 DEF Reopen, PullRequestEvent, TypeOK, ChainsTypeOK
    <2>3. CASE SyncFails(s) \/ NoChanges(s) \/ OpenPRFails(s) \/ Dispatch(s) \/ Abandon(s)
      BY <1>5, <2>3 DEF SyncFails, NoChanges, OpenPRFails, Dispatch, Abandon
    <2> QED
      BY <1>4, <1>6, <1>8, <1>9, <1>10, <2>1, <2>2, <2>3 DEF RunStep
  <1>11. CASE MonitorCheckout \/ MonitorPoll \/ MonitorFails \/ MonitorPush
    BY <1>1, <1>11 DEF MonitorCheckout, MonitorPoll, MonitorFails, MonitorPush
  <1>12. ASSUME NEW s \in Runs, CronSync(s) \/ PushSync(s) \/ ManualSync(s)
         PROVE  Lineage'
    BY <1>3, <1>12 DEF CronSync, PushSync, ManualSync
  <1>13. CASE UNCHANGED vars
    BY <1>1, <1>13 DEF vars
  <1> QED
    BY <1>2, <1>10, <1>11, <1>12, <1>13 DEF Next

\* main holds one upstream commit of every repository, on the files a sync copies
\* exactly, in every reachable state (sync.yml's branches, auto-merge.yml's merges).
THEOREM OneSnapshotHolds == NoRevert => (Spec => []OneSnapshot)
  <1> SUFFICES ASSUME NoRevert PROVE Spec => []OneSnapshot
    OBVIOUS
  <1>1. Lineage => OneSnapshot
    BY DEF Lineage, LineageAt, OneSnapshot
  <1>2. TypeOK /\ Lineage /\ [Next]_vars => Lineage'
    BY NextLineage
  <1> QED
    BY <1>1, <1>2, InitLineage, TypeCorrect, PTL DEF Spec

-----------------------------------------------------------------------------
(* Refinement of FeedMirror. *)

LEMMA LeastElement ==
    \A T \in SUBSET Nat : T # {} => \E m \in T : \A n \in T : m <= n
  <1> SUFFICES ASSUME NEW T \in SUBSET Nat, T # {} PROVE \E m \in T : \A n \in T : m <= n
    OBVIOUS
  <1> DEFINE lt == {p \in Nat \X Nat : p[1] < p[2]}
  <1>1. IsWellFoundedOn(lt, Nat)
    BY NatLessThanWellFounded DEF OpToRel
  <1>2. \E m \in T : \A n \in T : <<n, m>> \notin lt
    <2> HIDE DEF lt
    <2> QED
      BY <1>1, WFMin
  <1>3. PICK m \in T : \A n \in T : <<n, m>> \notin lt
    BY <1>2
  <1>4. ASSUME NEW n \in T PROVE m <= n
    <2>1. m \in Nat /\ n \in Nat
      OBVIOUS
    <2>2. ~ (n < m)
      BY <1>3, <2>1
    <2> QED
      BY <2>1, <2>2
  <1> QED
    BY <1>4

\* Oldest gives the oldest commit a tree agrees with, when there is one.
LEMMA OldestIsLeast ==
    ASSUME NEW r \in Repos, NEW t, NEW v \in Versions, Agree(r, t, v)
    PROVE  /\ Oldest(r, t) \in Versions /\ Agree(r, t, Oldest(r, t)) /\ Oldest(r, t) <= v
           /\ \A u \in Versions : Agree(r, t, u) => Oldest(r, t) <= u
  <1> DEFINE T == {u \in Versions : Agree(r, t, u)}
  <1>1. T \in SUBSET Nat /\ T # {}
    <2>1. Versions \subseteq Nat
      BY PipelineAssumption DEF Versions
    <2>2. v \in T
      OBVIOUS
    <2> QED
      BY <2>1, <2>2
  <1>2. \E m \in T : \A n \in T : m <= n
    <2> HIDE DEF T
    <2> QED
      BY <1>1, LeastElement
  <1>3. \E m \in Versions : Agree(r, t, m) /\ \A u \in Versions : Agree(r, t, u) => m <= u
    BY <1>2
  <1> QED
    BY <1>3 DEF Oldest

\* A tree that moves from commit i to a newer j has not moved to an older one.
LEMMA HeldAdvances ==
    ASSUME NoRevert, NEW r \in Repos, NEW old, NEW new,
           NEW i \in Versions, NEW j \in Versions, NEW v \in Versions, NEW w \in Versions,
           i <= j, v <= i,
           Agree(r, old, v), \A u \in Versions : Agree(r, old, u) => v <= u,
           Agree(r, new, j), Agree(r, new, w)
    PROVE  v <= w
  <1>1. SUFFICES ASSUME w < v PROVE FALSE
    BY PipelineAssumption DEF Versions
  <1>2. w <= v /\ v <= j
    BY <1>1, PipelineAssumption DEF Versions
  <1>3. ASSUME NEW f \in Exact(r) PROVE old[f] = Snap[r][w][f]
    <2>1. Snap[r][w][f] = Snap[r][j][f] /\ old[f] = Snap[r][v][f]
      BY DEF Agree
    <2>2. Snap[r][v][f] = Snap[r][w][f]
      BY <1>2, <2>1 DEF NoRevert
    <2> QED
      BY <2>1, <2>2
  <1>4. Agree(r, old, w)
    BY <1>3 DEF Agree
  <1> QED
    BY <1>1, <1>4, PipelineAssumption DEF Versions

LEMMA InitRefines == Init => Mirror!Init
  <1> SUFFICES ASSUME Init PROVE Mirror!Init
    OBVIOUS
  <1>1. ASSUME NEW r \in Repos PROVE held[r] = 0
    <2>1. Agree(r, main[r], 0) /\ 0 \in Versions
      <3>1. PICK i \in 0..upstream[r] : LineageAt(r, i)
        BY InitLineage DEF Lineage
      <3>2. i = 0
        BY <3>1 DEF Init
      <3> QED
        BY <3>1, <3>2, PipelineAssumption DEF LineageAt, Versions
    <2> QED
      BY <2>1, OldestIsLeast, PipelineAssumption DEF Versions, held
  <1>2. held = [r \in Repos |-> 0]
    BY <1>1 DEF held
  <1> QED
    BY <1>2 DEF Init, Mirror!Init

LEMMA MergeRefines ==
    ASSUME NoRevert, TypeOK, Lineage, NEW s \in Runs, MergePR(s), main' # main
    PROVE  Mirror!Advance
  <1>1. /\ pc[s] = "approved" /\ FeedMergeable(base[s], work[s])
        /\ main' = FeedMerged(base[s], work[s]) /\ UNCHANGED upstream
    BY DEF MergePR
  <1>3. ASSUME NEW r \in Repos 
        PROVE  held'[r] \in held[r]..upstream[r] /\ held'[r] \in Versions
    <2>1. PICK i \in 0..upstream[r] : LineageAt(r, i)
      BY DEF Lineage
    <2>2. PICK j \in i..upstream[r] : Agree(r, main'[r], j)
      BY <1>1, <2>1, MergeLineage DEF FeedMerged
    <2>3. i \in Versions /\ j \in Versions /\ i <= j /\ j <= upstream[r] /\ upstream[r] \in Nat
      BY <2>1, <2>2, Ranges, PipelineAssumption DEF Versions
    <2>4. held[r] = Oldest(r, main[r]) /\ held'[r] = Oldest(r, main'[r])
      BY DEF held
    <2>5. /\ held[r] \in Versions /\ Agree(r, main[r], held[r]) /\ held[r] <= i
          /\ \A u \in Versions : Agree(r, main[r], u) => held[r] <= u
      BY <2>1, <2>3, <2>4, OldestIsLeast DEF LineageAt
    <2>6. held'[r] \in Versions /\ Agree(r, main'[r], held'[r]) /\ held'[r] <= j
      BY <2>2, <2>3, <2>4, OldestIsLeast
    <2>7. held[r] <= held'[r]
      <3>1. PICK v \in Versions, w \in Versions : v = held[r] /\ w = held'[r]
        BY <2>5, <2>6
      <3>2. /\ Agree(r, main[r], v) /\ v <= i /\ \A u \in Versions : Agree(r, main[r], u) => v <= u
            /\ Agree(r, main'[r], j) /\ Agree(r, main'[r], w)
        BY <2>2, <2>5, <2>6, <3>1
      <3>3. v <= w
        BY Zenon, <2>3, <3>2, HeldAdvances
      <3> QED
        BY <3>1, <3>3
    <2> QED
      BY <2>3, <2>5, <2>6, <2>7, PipelineAssumption DEF Versions
  <1>4. held' \in [Repos -> 0..MaxVer]
    BY <1>3 DEF held, Versions
  <1> QED
    BY <1>1, <1>3, <1>4 DEF Mirror!Advance

LEMMA NextRefines ==
    ASSUME NoRevert, TypeOK, Lineage, [Next]_vars
    PROVE  [Mirror!Next]_<<upstream, held>>
  <1> USE DEF monitorVars, shipVars, workspace
  <1>1. ASSUME UNCHANGED <<upstream, main>> PROVE UNCHANGED <<upstream, held>>
    BY <1>1 DEF held
  <1>2. ASSUME NEW r \in Repos, Publish(r) PROVE Mirror!Publish(r)
    <2>1. UNCHANGED held
      BY <1>2 DEF Publish, held
    <2> QED
      BY <1>2, <2>1 DEF Publish, Mirror!Publish
  <1>3. ASSUME NEW s \in Runs, RunStep(s), ~MergePR(s) PROVE UNCHANGED <<upstream, main>>
    BY <1>3 DEF RunStep, SyncScript, SyncFails, NoChanges, OpenPR, OpenPRFails,
                Validate, Dispatch, Abandon
  <1>4. ASSUME NEW s \in Runs, MergePR(s) PROVE [Mirror!Next]_<<upstream, held>>
    BY <1>1, <1>4, MergeRefines DEF MergePR, Mirror!Next
  <1>5. CASE MonitorCheckout \/ MonitorPoll \/ MonitorFails \/ MonitorPush
    BY <1>1, <1>5 DEF MonitorCheckout, MonitorPoll, MonitorFails, MonitorPush
  <1>6. ASSUME NEW s \in Runs, CronSync(s) \/ PushSync(s) \/ ManualSync(s) \/ Reopen(s)
        PROVE  UNCHANGED <<upstream, main>>
    BY <1>6 DEF CronSync, PushSync, ManualSync, Checkout, Reopen
  <1>7. CASE UNCHANGED vars
    BY <1>1, <1>7 DEF vars
  <1> QED
    BY <1>1, <1>2, <1>3, <1>4, <1>5, <1>6, <1>7 DEF Next, Mirror!Next

\* Every behaviour of the pipeline is one of the abstract mirror: no merge, however
\* late, takes main back to an older commit of any repository.
THEOREM PipelineImplementsMirror == NoRevert => (Spec => ImplementsMirror)
  <1> SUFFICES ASSUME NoRevert PROVE Spec => ImplementsMirror
    OBVIOUS
  <1>1. TypeOK /\ Lineage /\ [Next]_vars => Lineage'
    BY NextLineage
  <1>2. TypeOK /\ Lineage /\ [Next]_vars => [Mirror!Next]_<<upstream, held>>
    BY NextRefines
  <1> QED
    BY <1>1, <1>2, InitLineage, InitRefines, TypeCorrect, PTL
    DEF Spec, ImplementsMirror, Mirror!Spec

-----------------------------------------------------------------------------
(* An upstream commit that was noticed is not forgotten.                   *)

Visited(r) == \E k \in 1..Len(Order) : Order[k] = r

\* What monitor.yml writes down is a commit upstream has published; of a repository
\* it does not poll it only ever carries the first entry along.
NoteOK(r, note) == (note # Unknown => note <= upstream[r]) /\ (~Visited(r) => note = 0)

Notes ==
    /\ \A r \in Repos : NoteOK(r, recorded[r]) /\ NoteOK(r, seen[r])
    /\ faults = 0 => failed = {}

\* Tree t holds a commit of r not older than the recorded one.
Holds(r, t) == \E v \in recorded[r]..upstream[r] : Agree(r, t, v)

\* Run s will bring such a tree to main: it has still to sync r, or its head holds one.
Covers(s, r) ==
    \/ /\ pc[s] = "sync"
       /\ (\E k \in next[s]..Len(Order) : Order[k] = r) \/ Holds(r, work[s][r])
    \/ pc[s] \in {"checking", "approved", "stuck"} /\ Holds(r, work[s][r])

Cared(r) ==
    recorded[r] # Unknown => Holds(r, main[r]) \/ queued > 0 \/ \E s \in Runs : Covers(s, r)

\* NoticedNotForgotten, made inductive: not any run in flight will do, but one that
\* covers the repository that lags.
Notice == PAT /\ faults = 0 /\ ~leftOpen => \A r \in Repos : Cared(r)

LEMMA FaultCounts ==
    ASSUME TypeOK, Fault
    PROVE  faults' # 0
  BY DEF TypeOK, BoundsOK, Fault

LEMMA InitNotes == Init => Notes
  BY OrderType, PipelineAssumption DEF Init, Notes, NoteOK, Versions

LEMMA NextNotes == TypeOK /\ Notes /\ [Next]_vars => Notes'
  <1> SUFFICES ASSUME TypeOK, Notes, [Next]_vars PROVE Notes'
    OBVIOUS
  <1> USE DEF monitorVars, shipVars, workspace
  <1>1. ASSUME UNCHANGED <<upstream, recorded, seen>>, faults' = 0 => failed' = {}
        PROVE  Notes'
    BY <1>1 DEF Notes, NoteOK
  <1>2. ASSUME NEW q \in Repos, Publish(q) PROVE Notes'
    <2>1. ASSUME NEW r \in Repos, NEW note \in Recordable, NoteOK(r, note) PROVE NoteOK(r, note)'
      <3>1. upstream[r] <= upstream'[r] /\ upstream[r] \in Int /\ upstream'[r] \in Int
        BY <1>2, Ranges, PipelineAssumption DEF Publish, TypeOK, FeedsTypeOK, Versions
      <3>2. note # Unknown => note \in Int
        BY PipelineAssumption DEF Recordable, Versions
      <3> QED
        BY <2>1, <3>1, <3>2 DEF NoteOK
    <2>2. \A r \in Repos : recorded[r] \in Recordable /\ seen[r] \in Recordable
      BY DEF TypeOK, MonitorTypeOK
    <2>3. UNCHANGED <<recorded, seen, faults, failed>>
      BY <1>2 DEF Publish
    <2> QED
      BY <2>1, <2>2, <2>3 DEF Notes, NoteOK
  <1>3. CASE MonitorCheckout
    BY <1>3 DEF MonitorCheckout, Notes, NoteOK
  <1>4. CASE MonitorPoll
    <2>1. PICK q \in Repos : q = Order[monPc] /\ Visited(q)
      BY <1>4, OrderType DEF MonitorPoll, Visited
    <2>2. NoteOK(q, upstream[q]) /\ NoteOK(q, Unknown)
      <3>1. upstream[q] <= upstream[q]
        BY Ranges, PipelineAssumption DEF Versions
      <3> QED
        BY <2>1, <3>1 DEF NoteOK
    <2>3. seen' = [seen EXCEPT ![q] = upstream[q]] \/ seen' = [seen EXCEPT ![q] = Unknown]
      BY <1>4, <2>1 DEF MonitorPoll
    <2>4. \A r \in Repos : NoteOK(r, seen[r])'
      BY <1>4, <2>2, <2>3 DEF Notes, NoteOK, TypeOK, MonitorTypeOK, MonitorPoll
    <2>5. faults' = 0 => failed' = {}
      BY <1>4, FaultCounts DEF MonitorPoll, Notes
    <2> QED
      BY <1>4, <2>4, <2>5 DEF Notes, NoteOK, MonitorPoll
  <1>5. CASE MonitorPush
    BY <1>5 DEF MonitorPush, Notes, NoteOK
  <1>6. CASE MonitorFails
    BY <1>1, <1>6, FaultCounts DEF MonitorFails
  <1>7. ASSUME NEW s \in Runs, RunStep(s) \/ Reopen(s) PROVE Notes'
    <2>1. UNCHANGED <<upstream, recorded, seen>>
      BY <1>7 DEF RunStep, SyncScript, SyncFails, NoChanges, OpenPR, OpenPRFails,
                  Validate, MergePR, Dispatch, Abandon, Reopen
    <2>2. \/ Fault
          \/ UNCHANGED faults /\ (failed' = failed \/ failed' = failed \ {s})
      BY <1>7 DEF RunStep, SyncScript, SyncFails, NoChanges, OpenPR, OpenPRFails,
                  Validate, MergePR, Dispatch, Abandon, Reopen, End
    <2> QED
      BY <1>1, <2>1, <2>2, FaultCounts DEF Notes
  <1>8. ASSUME NEW s \in Runs, CronSync(s) \/ PushSync(s) \/ ManualSync(s) PROVE Notes'
    BY <1>1, <1>8 DEF CronSync, PushSync, ManualSync, Checkout, Notes
  <1>9. CASE UNCHANGED vars
    BY <1>1, <1>9 DEF vars, Notes
  <1> QED
    BY <1>2, <1>3, <1>4, <1>5, <1>6, <1>7, <1>8, <1>9 DEF Next

\* The commits a tree may hold to be up to date are versions.
LEMMA RecordedRange ==
    ASSUME TypeOK, NEW r \in Repos, recorded[r] # Unknown
    PROVE  recorded[r] \in Versions /\ recorded[r]..upstream[r] \subseteq Versions
  BY Ranges, PipelineAssumption DEF TypeOK, MonitorTypeOK, Recordable, Versions

\* When the branch is what it was opened from, main holds what the branch holds, or
\* something newer.
LEMMA UnchangedHolds ==
    ASSUME NoRevert, TypeOK, Lineage, NEW s \in Runs, pc[s] # "idle", NEW r \in Repos,
           recorded[r] # Unknown, Holds(r, work[s][r]),
           Staged(base[s][r], work[s][r]) = base[s][r]
    PROVE  Holds(r, main[r])
  <1>1. PICK w \in recorded[r]..upstream[r] : Agree(r, work[s][r], w)
    BY DEF Holds
  <1>2. PICK i \in 0..upstream[r], b \in Versions :
            b <= i /\ Agree(r, main[r], i) /\ Agree(r, base[s][r], b)
    BY DEF Lineage, LineageAt, Descends
  <1>3. w \in Versions /\ i \in Versions /\ recorded[r] \in Versions
    BY <1>1, <1>2, Ranges, RecordedRange
  <1>4. Agree(r, base[s][r], w)
    BY <1>1, StagedExact, Ranges DEF Agree
  <1>5. CASE w <= i
    <2>1. i \in recorded[r]..upstream[r]
      BY <1>1, <1>2, <1>3, <1>5, PipelineAssumption DEF Versions
    <2> QED
      BY <1>2, <2>1 DEF Holds
  <1>6. CASE ~(w <= i)
    <2>1. i <= w
      BY <1>3, <1>6, PipelineAssumption DEF Versions
    <2>2. ASSUME NEW f \in Exact(r) PROVE main[r][f] = Snap[r][w][f]
      <3>1. Snap[r][b][f] = Snap[r][w][f] /\ main[r][f] = Snap[r][i][f]
        BY <1>2, <1>4 DEF Agree
      <3>2. Snap[r][i][f] = Snap[r][b][f]
        BY <1>2, <1>3, <2>1, <3>1 DEF NoRevert
      <3> QED
        BY <3>1, <3>2
    <2> QED
      BY <1>1, <2>2 DEF Holds, Agree
  <1> QED
    BY <1>5, <1>6

\* A merge into a main, or of a branch, that holds the recorded commit or a newer one
\* gives a main that does.
LEMMA MergeHolds ==
    ASSUME NoRevert, TypeOK, Lineage, NEW s \in Runs, pc[s] = "approved",
           FeedMergeable(base[s], work[s]), NEW r \in Repos, recorded[r] # Unknown,
           Holds(r, main[r]) \/ Holds(r, work[s][r])
    PROVE  Holds(r, Merged(base[s][r], work[s][r], main[r]))
  <1>1. PICK i \in 0..upstream[r], b \in Versions, h \in Versions :
            /\ b <= i /\ b <= h /\ h <= upstream[r] /\ Agree(r, main[r], i)
            /\ Agree(r, base[s][r], b) /\ Agree(r, work[s][r], h)
    BY DEF Lineage, LineageAt, Descends
  <1> DEFINE m == Merged(base[s][r], work[s][r], main[r])
             low == recorded[r]
  <1>2. /\ i \in Versions /\ low \in Versions /\ upstream[r] \in Versions
        /\ i <= upstream[r]
    BY <1>1, Ranges, RecordedRange, PipelineAssumption DEF Versions
  <1>3. /\ base[s][r] \in Tree /\ work[s][r] \in Tree /\ main[r] \in Tree
        /\ Mergeable(base[s][r], work[s][r], main[r])
    BY Ranges DEF FeedMergeable
  <1>4. ASSUME NEW x \in Versions, NEW y \in Versions, x <= upstream[r], y <= upstream[r],
               b <= x, b <= y, Agree(r, work[s][r], x), Agree(r, main[r], y),
               low <= x \/ low <= y
        PROVE  Holds(r, m)
    <2>1. Agree(r, m, IF x <= y THEN y ELSE x)
      BY <1>1, <1>3, <1>4, MergeAgrees
    <2>2. (IF x <= y THEN y ELSE x) \in low..upstream[r]
      BY <1>2, <1>4, PipelineAssumption DEF Versions
    <2> QED
      BY <2>1, <2>2 DEF Holds
  <1>5. CASE low <= b
    <2>1. low <= i
      BY <1>1, <1>2, <1>5, PipelineAssumption DEF Versions
    <2> QED
      BY <1>1, <1>2, <1>4, <2>1
  <1>6. ASSUME ~(low <= b), NEW v \in low..upstream[r]
        PROVE  v \in Versions /\ b <= v /\ low <= v /\ v <= upstream[r]
    BY <1>1, <1>2, <1>6, PipelineAssumption DEF Versions
  <1>7. CASE ~(low <= b) /\ Holds(r, main[r])
    BY <1>1, <1>4, <1>6, <1>7 DEF Holds
  <1>8. CASE ~(low <= b) /\ Holds(r, work[s][r])
    BY <1>1, <1>2, <1>4, <1>6, <1>8 DEF Holds
  <1> QED
    BY <1>5, <1>7, <1>8

\* A step that moves one run and leaves the notes alone loses no repository, if it
\* does not lose those that run, main or the queue answered for.
LEMMA RunStepCared ==
    ASSUME NEW s \in Runs, NEW r \in Repos, Cared(r), UNCHANGED <<upstream, recorded>>,
           \A t \in Runs \ {s} : pc'[t] = pc[t] /\ work'[t] = work[t] /\ next'[t] = next[t],
           recorded[r] # Unknown /\ (Holds(r, main[r]) \/ queued > 0 \/ Covers(s, r))
               => Holds(r, main[r])' \/ queued' > 0 \/ Covers(s, r)'
    PROVE  Cared(r)'
  <1>1. \A t \in Runs \ {s} : Covers(t, r) => Covers(t, r)'
    BY DEF Covers, Holds
  <1> QED
    BY <1>1 DEF Cared

LEMMA NextNotice == NoRevert /\ TypeOK /\ Lineage /\ Notes /\ Notice /\ [Next]_vars => Notice'
  <1> SUFFICES ASSUME NoRevert, TypeOK, Lineage, Notes, Notice, [Next]_vars,
                      PAT, faults' = 0, ~leftOpen', NEW r \in Repos
               PROVE  Cared(r)'
    BY DEF Notice
  <1> USE DEF monitorVars, shipVars, workspace
  <1>1. ~Fault
    BY FaultCounts
  <1>2. faults = 0 /\ ~leftOpen
    BY <1>1 DEF Next, vars, Publish, MonitorCheckout, MonitorPoll, MonitorFails, MonitorPush,
                CronSync, PushSync, ManualSync, Checkout, RunStep, SyncScript, SyncFails,
                NoChanges, OpenPR, OpenPRFails, Validate, MergePR, Dispatch, Abandon, Reopen
  <1>3. Cared(r)
    BY <1>2 DEF Notice
  <1>4. CASE UNCHANGED <<upstream, recorded, main, queued, pc, work, next>>
    BY <1>3, <1>4 DEF Cared, Covers, Holds
  <1>5. ASSUME NEW q \in Repos, Publish(q) PROVE Cared(r)'
    <2>1. ASSUME recorded[r] # Unknown, NEW t, Holds(r, t) PROVE Holds(r, t)'
      <3>1. recorded[r]..upstream[r] \subseteq recorded'[r]..upstream'[r]
        BY <1>5, <2>1, Ranges, RecordedRange, PipelineAssumption
        DEF Publish, TypeOK, FeedsTypeOK, Versions
      <3> QED
        BY <2>1, <3>1 DEF Holds
    <2>2. UNCHANGED <<recorded, main, queued, pc, work, next>>
      BY <1>5 DEF Publish
    <2>3. recorded[r] # Unknown => \A s \in Runs : Covers(s, r) => Covers(s, r)'
      BY <2>1, <2>2 DEF Covers
    <2>4. recorded[r] # Unknown /\ Holds(r, main[r]) => Holds(r, main[r])'
      BY <2>1, <2>2 DEF Holds
    <2> QED
      BY <1>3, <2>2, <2>3, <2>4 DEF Cared
  <1>6. CASE MonitorPush
    BY <1>4, <1>6 DEF MonitorPush, Cared, TypeOK, BoundsOK
  <1>7. ASSUME NEW s \in Runs, NEW forced, Checkout(s, forced) PROVE Cared(r)'
    <2>1. /\ UNCHANGED <<upstream, recorded, main>> /\ pc[s] = "idle"
          /\ pc'[s] = "sync" /\ next'[s] = 1
          /\ \A t \in Runs \ {s} : pc'[t] = pc[t] /\ work'[t] = work[t] /\ next'[t] = next[t]
      BY <1>7 DEF Checkout, TypeOK, ChainsTypeOK
    <2>2. ~Covers(s, r)
      BY <2>1 DEF Covers
    <2>3. CASE Visited(r)
      <3>1. Covers(s, r)'
        BY <2>1, <2>3 DEF Covers, Visited
      <3> QED
        BY <1>3, <2>1, <3>1, RunStepCared
    <2>4. CASE ~Visited(r)
      <3>1. Holds(r, main[r])
        BY <2>4 DEF Notes, NoteOK, Lineage, LineageAt, Holds
      <3>2. Holds(r, main[r])'
        BY <2>1, <3>1 DEF Holds
      <3> QED
        BY <1>3, <2>1, <3>2, RunStepCared
    <2> QED
      BY <2>3, <2>4
  <1>8. ASSUME NEW s \in Runs, SyncScript(s) PROVE Cared(r)'
    <2> DEFINE q == Order[next[s]]
    <2>1. /\ q \in Repos /\ UNCHANGED <<upstream, recorded, main, queued, pc>>
          /\ work' = [work EXCEPT ![s][q] = SyncRepo(q, @, Snap[q][upstream[q]])]
          /\ next' = [next EXCEPT ![s] = @ + 1] /\ pc[s] = "sync"
      BY <1>1, <1>8, OrderType DEF SyncScript
    <2>2. /\ \A t \in Runs \ {s} : pc'[t] = pc[t] /\ work'[t] = work[t] /\ next'[t] = next[t]
          /\ next'[s] = next[s] + 1
          /\ r # q => work'[s][r] = work[s][r]
          /\ r = q => work'[s][r] = SyncRepo(r, work[s][r], Snap[r][upstream[r]])
      BY <2>1 DEF TypeOK, ChainsTypeOK, Feed
    <2>3. CASE r = q /\ recorded[r] # Unknown
      <3>1. work[s][r] \in Tree /\ Snap[r][upstream[r]] \in Tree
        BY Ranges, PipelineAssumption
      <3>2. Agree(r, work'[s][r], upstream[r])
        BY <2>2, <2>3, <3>1, SyncExact DEF Agree
      <3>3. upstream[r] \in recorded[r]..upstream[r]
        BY <2>3, Ranges, RecordedRange, PipelineAssumption DEF Notes, NoteOK, Versions
      <3>4. Covers(s, r)'
        BY <2>1, <3>2, <3>3 DEF Covers, Holds, Agree
      <3> QED
        BY <1>3, <2>1, <2>2, <3>4, RunStepCared
    <2>4. CASE r # q
      <3>1. ASSUME NEW k \in next[s]..Len(Order), Order[k] = r
            PROVE  k \in next'[s]..Len(Order)
        BY <2>2, <2>4, <3>1, OrderType DEF TypeOK, ChainsTypeOK
      <3>2. Covers(s, r) => Covers(s, r)'
        BY <2>1, <2>2, <2>4, <3>1 DEF Covers, Holds
      <3>3. Holds(r, main[r]) => Holds(r, main[r])'
        BY <2>1 DEF Holds
      <3> QED
        BY <1>3, <2>1, <2>2, <3>2, <3>3, RunStepCared
    <2>5. CASE recorded[r] = Unknown
      BY <2>1, <2>5 DEF Cared
    <2> QED
      BY <2>3, <2>4, <2>5
  <1>9. ASSUME NEW s \in Runs, End(s), UNCHANGED <<upstream, recorded, main, queued>>,
               recorded[r] # Unknown /\ Covers(s, r) => Holds(r, main[r])
        PROVE  Cared(r)'
    <2>1. \A t \in Runs \ {s} : pc'[t] = pc[t] /\ work'[t] = work[t] /\ next'[t] = next[t]
      BY <1>9 DEF End, TypeOK, ChainsTypeOK
    <2>2. Holds(r, main[r]) => Holds(r, main[r])'
      BY <1>9 DEF Holds
    <2> QED
      BY <1>3, <1>9, <2>1, <2>2, RunStepCared
  <1>10. ASSUME NEW s \in Runs, NoChanges(s) PROVE Cared(r)'
    <2>1. /\ End(s) /\ UNCHANGED <<upstream, recorded, main, queued>> /\ ~Changed(s)
          /\ pc[s] = "sync" /\ next[s] = Len(Order) + 1
      BY <1>10 DEF NoChanges, SyncDone
    <2>2. Staged(base[s][r], work[s][r]) = base[s][r]
      BY <2>1 DEF Changed, Commit
    <2>3. Covers(s, r) => Holds(r, work[s][r])
      BY <2>1, OrderType DEF Covers
    <2> QED
      BY <1>9, <2>1, <2>2, <2>3, UnchangedHolds
  <1>11. ASSUME NEW s \in Runs, UNCHANGED <<upstream, recorded, main, queued, next>>,
                \A t \in Runs \ {s} : pc'[t] = pc[t] /\ work'[t] = work[t],
                pc'[s] \in {"checking", "approved", "stuck"},
                Covers(s, r) => Holds(r, work'[s][r])
         PROVE  Cared(r)'
    <2>1. Covers(s, r) => Covers(s, r)'
      BY <1>11 DEF Covers, Holds
    <2>2. Holds(r, main[r]) => Holds(r, main[r])'
      BY <1>11 DEF Holds
    <2> QED
      BY <1>3, <1>11, <2>1, <2>2, RunStepCared
  <1>12. ASSUME NEW s \in Runs, OpenPR(s) PROVE Cared(r)'
    <2>1. /\ pc[s] = "sync" /\ next[s] = Len(Order) + 1 /\ pc'[s] \in {"checking", "stuck"}
          /\ UNCHANGED <<upstream, recorded, main, queued, next>>
          /\ \A t \in Runs \ {s} : pc'[t] = pc[t] /\ work'[t] = work[t]
          /\ work'[s][r] = Staged(base[s][r], work[s][r])
      BY <1>12 DEF OpenPR, SyncDone, PullRequestEvent, Commit, TypeOK, ChainsTypeOK
    <2>2. Covers(s, r) => Holds(r, work[s][r])
      BY <2>1, OrderType DEF Covers
    <2>3. ASSUME NEW v, Agree(r, work[s][r], v) PROVE Agree(r, work'[s][r], v)
      BY <2>1, <2>3, Ranges, StagedExact DEF Agree
    <2>4. Covers(s, r) => Holds(r, work'[s][r])
      BY <2>2, <2>3 DEF Holds
    <2> QED
      BY <1>11, <2>1, <2>4
  <1>13. ASSUME NEW s \in Runs, Validate(s) \/ Reopen(s) PROVE Cared(r)'
    <2>1. /\ pc[s] \in {"checking", "stuck"} /\ pc'[s] \in {"checking", "approved", "stuck"}
          /\ UNCHANGED <<upstream, recorded, main, queued, next, work>>
          /\ \A t \in Runs \ {s} : pc'[t] = pc[t]
      BY <1>13 DEF Validate, Reopen, PullRequestEvent, TypeOK, ChainsTypeOK
    <2> QED
      BY <1>11, <2>1 DEF Covers
  <1>14. ASSUME NEW s \in Runs, MergePR(s) PROVE Cared(r)'
    <2>1. /\ pc[s] = "approved" /\ UNCHANGED <<upstream, recorded, queued, next, work>>
          /\ \A t \in Runs \ {s} : pc'[t] = pc[t]
          /\ \/ /\ FeedMergeable(base[s], work[s]) /\ main' = FeedMerged(base[s], work[s])
             \/ pc'[s] = "stuck" /\ UNCHANGED main
      BY <1>1, <1>14 DEF MergePR, TypeOK, ChainsTypeOK
    <2>2. Covers(s, r) => Holds(r, work[s][r])
      BY <2>1 DEF Covers
    <2>3. CASE pc'[s] = "stuck" /\ UNCHANGED main
      BY <1>11, <2>1, <2>2, <2>3
    <2>4. CASE FeedMergeable(base[s], work[s]) /\ main' = FeedMerged(base[s], work[s])
      <3>1. main'[r] = Merged(base[s][r], work[s][r], main[r])
        BY <2>4 DEF FeedMerged
      <3>2. recorded[r] # Unknown /\ (Holds(r, main[r]) \/ Covers(s, r)) => Holds(r, main'[r])
        BY <2>1, <2>2, <2>4, <3>1, MergeHolds
      <3>3. Holds(r, main'[r]) => Holds(r, main[r])'
        BY <2>1 DEF Holds
      <3> QED
        BY <1>3, <2>1, <3>2, <3>3, RunStepCared
    <2> QED
      BY <2>1, <2>3, <2>4
  <1>15. ASSUME NEW s \in Runs, Dispatch(s) PROVE Cared(r)'
    <2>1. ~Covers(s, r) /\ End(s) /\ UNCHANGED <<upstream, recorded, main, queued>>
      BY <1>15 DEF Dispatch, Covers
    <2> QED
      BY <1>9, <2>1
  <1>16. ASSUME NEW s \in Runs PROVE ~SyncFails(s) /\ ~OpenPRFails(s) /\ ~Abandon(s)
    BY <1>1, <1>2 DEF SyncFails, OpenPRFails, Abandon, Notes
  <1>17. CASE MonitorCheckout \/ MonitorPoll \/ MonitorFails
    BY <1>4, <1>17 DEF MonitorCheckout, MonitorPoll, MonitorFails
  <1>18. ASSUME NEW s \in Runs, CronSync(s) \/ PushSync(s) \/ ManualSync(s) PROVE Cared(r)'
    BY <1>7, <1>18 DEF CronSync, PushSync, ManualSync
  <1>19. CASE UNCHANGED vars
    BY <1>4, <1>19 DEF vars
  <1> QED
    BY <1>5, <1>6, <1>8, <1>10, <1>12, <1>13, <1>14, <1>15, <1>16, <1>17, <1>18, <1>19
    DEF Next, RunStep

\* Without a failure or an abandoned pull request, a commit monitor.yml has recorded is
\* on main, or a run that will bring it there is queued or in flight.
THEOREM NoticedNotForgottenHolds == NoRevert => (Spec => []NoticedNotForgotten)
  <1> SUFFICES ASSUME NoRevert PROVE Spec => []NoticedNotForgotten
    OBVIOUS
  <1>1. Init => Notice
    <2> SUFFICES ASSUME Init, NEW r \in Repos PROVE Cared(r)
      BY DEF Notice
    <2>1. PICK i \in 0..upstream[r] : LineageAt(r, i)
      BY InitLineage DEF Lineage
    <2> QED
      BY <2>1, PipelineAssumption DEF Init, LineageAt, Cared, Holds
  <1>2. Notice => NoticedNotForgotten
    BY DEF Notice, NoticedNotForgotten, Cared, Lags, Holds, Covers
  <1>3. TypeOK /\ Lineage /\ [Next]_vars => Lineage'
    BY NextLineage
  <1>4. TypeOK /\ Lineage /\ Notes /\ Notice /\ [Next]_vars => Notice'
    BY NextNotice
  <1> QED
    BY <1>1, <1>2, <1>3, <1>4, InitLineage, InitNotes, NextNotes, TypeCorrect, PTL DEF Spec
=============================================================================
