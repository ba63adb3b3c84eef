---------------------------- MODULE SyncScripts -----------------------------
(***************************************************************************)
(* The shell scripts on one checkout that is kept between runs:            *)
(* scripts/run-sync-all.sh with the scripts/sync/sync-*.sh it runs, step by*)
(* step, then scripts/check-changes.sh and scripts/commit-push.sh.  A      *)
(* command may fail and a run may be interrupted between any two steps;    *)
(* what it has done to the working tree stays there.                       *)
(***************************************************************************)
EXTENDS Integers, Sequences, SyncTree

CONSTANTS
    MaxVer,     \* commits upstream publishes after the initial one (a bound)
    MaxFaults,  \* commands that fail and runs that are interrupted (a bound)
    Snap,       \* Snap[r][v]: the tree of r at its v-th commit
    Scripts     \* the repositories each sync-*.sh handles, in order of the scripts

Versions == 0..MaxVer

ASSUME ScriptsAssumption ==
    /\ MaxVer \in Nat /\ MaxFaults \in Nat
    /\ Snap \in [Repos -> [Versions -> Tree]]
    /\ Scripts \in Seq(Seq(Repos)) /\ Scripts # <<>>
    /\ \A k \in 1..Len(Scripts) : Scripts[k] # <<>>

VARIABLES
    upstream,   \* upstream[r]: the commit HEAD of r points to
    dest,       \* the destination directories in the working tree
    committed,  \* the same at HEAD of the checked out branch
    published,  \* the same at the branch on origin
    at,         \* the step a sync script is at, "idle" outside run-sync-all.sh
    script,     \* the script that runs
    part,       \* the repository of the script that it syncs
    src,        \* the tarball unpacked in TEMP_DIR
    left,       \* files cp has still to copy
    failed,     \* the scripts that failed
    exit,       \* the status of the last run: "ok", or "failed" (killed included)
    flag,       \* .changes-detected: "missing", "true" or "false"
    pushedWith, \* the value of exit when the published tree was committed
    faults      \* failures so far

run    == <<at, script, part, src, left, failed>>
branch == <<committed, published, pushedWith>>
vars   == <<upstream, dest, branch, run, exit, flag, faults>>

Empty   == [f \in Files |-> Absent]
Fault   == faults < MaxFaults /\ faults' = faults + 1
current == Scripts[script][part]

\* Everything was synced, committed and pushed at the initial commits.
Init ==
    /\ upstream = [r \in Repos |-> 0]
    /\ dest = [r \in Repos |-> SyncRepo(r, Empty, Snap[r][0])]
    /\ committed = [r \in Repos |-> Staged(Empty, dest[r])]
    /\ published = committed
    /\ at = "idle" /\ script = 1 /\ part = 1
    /\ src = Empty /\ left = {} /\ failed = {}
    /\ exit = "ok" /\ flag = "missing" /\ pushedWith = "ok"
    /\ faults = 0

Publish(r) ==
    /\ upstream[r] < MaxVer
    /\ upstream' = [upstream EXCEPT ![r] = @ + 1]
    /\ UNCHANGED <<dest, branch, run, exit, flag, faults>>
-----------------------------------------------------------------------------
(* run-sync-all.sh and the scripts it runs *)

\* Mutant of Start: all the wiped destinations are wiped before the loop.
StartFresh ==
    /\ at = "idle"
    /\ dest' = [r \in Repos |-> Clean(r, dest[r])]
    /\ at' = "fetch" /\ script' = 1 /\ part' = 1 /\ failed' = {}
    /\ UNCHANGED <<upstream, branch, src, left, exit, flag, faults>>

Start ==
    /\ at = "idle"
    /\ at' = "fetch" /\ script' = 1 /\ part' = 1 /\ failed' = {}
    /\ UNCHANGED <<upstream, dest, branch, src, left, exit, flag, faults>>

\* Mutant of EndScript: only the last script decides the exit status.
EndWithLastStatus(fs) ==
    /\ failed' = fs /\ src' = Empty /\ left' = {}
    /\ IF script < Len(Scripts)
       THEN at' = "fetch" /\ script' = script + 1 /\ part' = 1 /\ UNCHANGED exit
       ELSE /\ at' = "idle" /\ script' = 1 /\ part' = 1
            /\ exit' = IF script \in fs THEN "failed" ELSE "ok"

\* The script is over, with the set of failed scripts now fs: the loop goes on
\* with the next one or the run ends.  The trap removes TEMP_DIR.
EndScript(fs) ==
    /\ failed' = fs /\ src' = Empty /\ left' = {}
    /\ IF script < Len(Scripts)
       THEN at' = "fetch" /\ script' = script + 1 /\ part' = 1 /\ UNCHANGED exit
       ELSE /\ at' = "idle" /\ script' = 1 /\ part' = 1
            /\ exit' = IF fs = {} THEN "ok" ELSE "failed"

\* A command fails under `set -e`: the script stops where it is.
Fails ==
    /\ at # "idle"
    /\ Fault /\ EndScript(failed \cup {script})
    /\ UNCHANGED <<upstream, dest, branch, flag>>

\* curl | tar into TEMP_DIR, with `--fail` and pipefail.
Fetch ==
    /\ at = "fetch"
    /\ src' = Snap[current][upstream[current]]
    /\ at' = "clean"
    /\ UNCHANGED <<upstream, dest, branch, script, part, left, failed, exit, flag, faults>>

CleanDestination ==
    /\ at = "clean"
    /\ dest' = [dest EXCEPT ![current] = Clean(current, @)]
    /\ left' = {f \in Copied(current) : src[f] # Absent}
    /\ at' = "copy"
    /\ UNCHANGED <<upstream, branch, script, part, src, failed, exit, flag, faults>>

CopyFile ==
    /\ at = "copy"
    /\ \E f \in left :
         /\ dest' = [dest EXCEPT ![current][f] = src[f]]
         /\ left' = left \ {f}
    /\ UNCHANGED <<upstream, branch, at, script, part, src, failed, exit, flag, faults>>

\* sync-passwall.sh syncs two repositories, one after the other.
SyncDone ==
    /\ at = "copy" /\ left = {}
    /\ IF part < Len(Scripts[script])
       THEN /\ at' = "fetch" /\ part' = part + 1 /\ src' = Empty
            /\ UNCHANGED <<script, left, failed, exit>>
       ELSE EndScript(failed)
    /\ UNCHANGED <<upstream, dest, branch, flag, faults>>

\* The run is killed.
Interrupt ==
    /\ at # "idle"
    /\ Fault
    /\ at' = "idle" /\ script' = 1 /\ part' = 1 /\ src' = Empty /\ left' = {}
    /\ failed' = {} /\ exit' = "failed"
    /\ UNCHANGED <<upstream, dest, branch, flag>>
-----------------------------------------------------------------------------
(* check-changes.sh and commit-push.sh *)

Index == [r \in Repos |-> Staged(committed[r], dest[r])]

CheckChanges ==
    /\ at = "idle"
    /\ flag' = IF Index # committed THEN "true" ELSE "false"
    /\ UNCHANGED <<upstream, dest, branch, run, exit, faults>>

\* git commit fails, and nothing is pushed, when there is nothing to commit, even
\* if an earlier push failed after its commit.
CommitPush(force) ==
    /\ at = "idle"
    /\ flag = "true" \/ (flag = "false" /\ force)
    /\ Index # committed
    /\ committed' = Index
    /\ \/ published' = Index /\ pushedWith' = exit /\ UNCHANGED faults
       \/ Fault /\ UNCHANGED <<published, pushedWith>>
    /\ UNCHANGED <<upstream, dest, run, exit, flag>>

Next ==
    \/ \E r \in Repos : Publish(r)
    \/ Start \/ Fails \/ Fetch \/ CleanDestination \/ CopyFile \/ SyncDone \/ Interrupt
    \/ CheckChanges \/ \E force \in BOOLEAN : CommitPush(force)

Spec == Init /\ [][Next]_vars
-----------------------------------------------------------------------------
\* Type invariant of the checkout and of the run on it.
TypeOK ==
    /\ upstream \in [Repos -> Versions]
    /\ dest \in [Repos -> Tree] /\ committed \in [Repos -> Tree]
    /\ published \in [Repos -> Tree]
    /\ at \in {"idle", "fetch", "clean", "copy"}
    /\ script \in 1..Len(Scripts) /\ part \in 1..Len(Scripts[script])
    /\ src \in Tree /\ left \subseteq Files
    /\ failed \subseteq 1..Len(Scripts)
    /\ exit \in {"ok", "failed"} /\ pushedWith \in {"ok", "failed"}
    /\ flag \in {"missing", "true", "false"}
    /\ faults \in 0..MaxFaults

\* Tree t holds one commit of r on the files a sync copies exactly.
Agree(r, t, v) == \A f \in Exact(r) : t[f] = Snap[r][v][f]
Whole(r, t) == \E v \in 0..upstream[r] : Agree(r, t, v)

\* When run-sync-all.sh has exited 0, every destination is a whole upstream commit,
\* whatever earlier runs that failed or were killed had left there.
SuccessMeansWhole == at = "idle" /\ exit = "ok" => \A r \in Repos : Whole(r, dest[r])

\* A destination is torn only by the script that is at it, or by one that failed or
\* was killed: a failure leaves the other repositories as they were, whole
\* (run-sync-all.sh goes on with the next script).
DamageIsContained ==
    [][\A r \in Repos :
          Whole(r, dest[r]) /\ ~Whole(r, dest'[r]) => at # "idle" /\ r = current]_vars

\* In every well-typed state, what commit-push.sh has published is whole, unless it was
\* run, and nothing in it prevents that, after a sync run that had failed.
PublishedWhole == TypeOK /\ (pushedWith = "ok" => \A r \in Repos : Whole(r, published[r]))
=============================================================================
