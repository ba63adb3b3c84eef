------------------------------ MODULE SyncTree ------------------------------
(***************************************************************************)
(* File trees of the feed and the three operations that move them:         *)
(*   - scripts/sync-repo.sh and scripts/sync/sync-qmodem.sh copy one       *)
(*     upstream snapshot over one destination directory;                   *)
(*   - "git add ." in sync.yml stages the result;                          *)
(*   - a squash merge on GitHub combines a sync branch with main.          *)
(*                                                                         *)
(* A "file" is the unit git merges as a whole, named by its path below the *)
(* destination of a repository.  Where it sits decides what the scripts do *)
(* to it: at the root of the destination, below a visible top-level        *)
(* directory, or under a name that begins with a dot at the root (which no *)
(* shell glob of the scripts matches).                                     *)
(***************************************************************************)
CONSTANTS
    Repos,        \* upstream repositories, one destination directory each
    RootFiles,    \* files at the root of an upstream tree
    SubFiles,     \* files below a visible top-level directory
    DotFiles,     \* files that are, or lie below, a dot entry of the root
    Ignored,      \* files a .gitignore that is in force matches
    Contents,     \* what a file may hold
    Absent,       \* the content of a path that does not exist
    CleanDest,    \* repositories synced with SYNC_CLEAN_DEST=true
    CopySubdirs   \* repositories synced with SYNC_COPY_SUBDIRS=true

Files == RootFiles \cup SubFiles \cup DotFiles

ASSUME TreeAssumption ==
    /\ Absent \in Contents
    /\ Ignored \subseteq Files
    /\ CleanDest \subseteq Repos
    /\ CopySubdirs \subseteq Repos
    /\ RootFiles \cap SubFiles = {}
    /\ RootFiles \cap DotFiles = {}
    /\ SubFiles \cap DotFiles = {}

Tree == [Files -> Contents]

-----------------------------------------------------------------------------
\* `for dir in "$SOURCE"/*/` copies visible top-level directories only;
\* `cp -r "$SOURCE"/. "$DEST/"` copies everything, dot entries included.
Copied(r) == IF r \in CopySubdirs THEN SubFiles ELSE Files

\* `rm -rf "${DEST:?}"/*`: the glob leaves the dot entries of the root alone.
Wiped(r) == IF r \in CleanDest THEN Files \ DotFiles ELSE {}

\* Mutant of Clean: the wipe is forgotten.
CleanNothing(r, dest) == dest

\* The destination after the clean and the copy steps of a script.
Clean(r, dest) == [f \in Files |-> IF f \in Wiped(r) THEN Absent ELSE dest[f]]

Copy(r, dest, src) ==
    [f \in Files |-> IF f \in Copied(r) /\ src[f] # Absent THEN src[f] ELSE dest[f]]

SyncRepo(r, dest, src) == Copy(r, Clean(r, dest), src)

\* `git add .`: an ignored path enters the index only if it is tracked already.
Staged(base, work) ==
    [f \in Files |-> IF f \in Ignored /\ base[f] = Absent THEN Absent ELSE work[f]]

-----------------------------------------------------------------------------
\* GitHub's three-way merge of a branch (base -> head) into main.
Mergeable(base, head, main) ==
    \A f \in Files : \/ head[f] = base[f]
                     \/ main[f] = base[f]
                     \/ main[f] = head[f]

Merged(base, head, main) ==
    [f \in Files |-> IF head[f] = base[f] THEN main[f] ELSE head[f]]

-----------------------------------------------------------------------------
\* The files of r whose content after a sync is the upstream content, whatever
\* the destination held before: copied, wiped and not ignored.
Exact(r) == (Copied(r) \cap Wiped(r)) \ Ignored
=============================================================================
