------------------------------ MODULE Migrator ------------------------------
(***************************************************************************)
(* Moving a VRChat cache directory to another drive and leaving an NTFS    *)
(* junction behind (src/src/core/Migrator.cpp, JunctionUtil.cpp), as it is *)
(* driven by the Migrate page (src/web/src/pages/Migrate.tsx).             *)
(*                                                                         *)
(* A path of the file system holds nothing, a plain directory with a set   *)
(* of files, or a junction to a target path.  The copy, the cleanup and    *)
(* the creation of the junction are sequences of system calls, so VRChat,  *)
(* a crash of VRCSM and a second operation can come between any two.       *)
(* Nested directories are abstracted: a cache is the set of its files.     *)
(***************************************************************************)
EXTENDS Naturals, FiniteSets

CONSTANTS
  Runs,        \* operations the user starts: migrations and junction repairs
  Targets,     \* target directories the user may pick
  Files,       \* files of the original cache
  Writes,      \* files VRChat may add to the cache while it runs
  OneAtATime,  \* TRUE: the user starts an operation only when none is running
  Unreadable   \* TRUE: a directory may be closed to its readers, or in part

None   == "none"
Source == "source"                 \* the cache root VRChat uses
Backup == "backup"                 \* the same path with the suffix .vrcsm-bak
Paths  == {Source, Backup} \cup Targets

ASSUME MigratorAssumption ==
  /\ OneAtATime \in BOOLEAN /\ Unreadable \in BOOLEAN
  /\ {None, Source, Backup} \cap Targets = {}
  /\ IsFiniteSet(Files \cup Writes) /\ Files # {}

VARIABLES
  fs,       \* what each path holds
  vrc,      \* VRChat is running
  busy,     \* migrateBusyRef of the mounted Migrate page
  pc,       \* next step of each run
  tgt,      \* target path of each run
  repair,   \* the run is a junction repair, not a migration
  report,   \* target of the cache's junction as the last scan of the page had it
  todo,     \* files the copy's directory iterator lists for sure
  skipped,  \* history: files that were there and that the iterator left out
  seen,     \* files the run copied
  result    \* error code or outcome the run ended with

vars == <<fs, vrc, busy, pc, tgt, repair, report, todo, skipped, seen, result>>

------------------------------------------------------------------------------
(* The file system                                                         *)

Absent  == [kind |-> "absent", files |-> {}, to |-> None]
Dir(F)  == [kind |-> "dir",    files |-> F,  to |-> None]
Link(t) == [kind |-> "link",   files |-> {}, to |-> t]

\* The directory a path reaches when the system follows junctions.
Resolve(p) == IF fs[p].kind = "link" THEN fs[p].to ELSE p
Exists(p)  == fs[Resolve(p)].kind # "absent"
FilesAt(p) == fs[Resolve(p)].files

\* A directory of that path can be deleted without recursion.
Removable(p) == fs[p].kind = "link" \/ fs[p] = Dir({})

------------------------------------------------------------------------------
(* Bookkeeping of a run                                                    *)

Active(r) == pc[r] \notin {"idle", "ended"}
AllQuiet  == \A r \in Runs : ~Active(r)
MayStart  == OneAtATime => AllQuiet

Goto(r, label) == pc' = [pc EXCEPT ![r] = label] /\ UNCHANGED <<busy, result>>

\* Mutant: the page keeps its flag when it stops on a blocker.
FinishLocked(r, code) ==
  /\ pc' = [pc EXCEPT ![r] = "ended"]
  /\ result' = [result EXCEPT ![r] = code]
  /\ busy' = IF repair[r] \/ code = "refused" THEN busy ELSE FALSE

\* Ending a migration clears the busy flag of whichever page is mounted: the
\* result of the call does so, and so does the migrate.done event.
Finish(r, code) ==
  /\ pc' = [pc EXCEPT ![r] = "ended"]
  /\ result' = [result EXCEPT ![r] = code]
  /\ busy' = IF repair[r] THEN busy ELSE FALSE

Quiet == UNCHANGED <<vrc, tgt, repair, report, todo, skipped, seen>>

\* What an iterator may list of a directory: all of it, nothing when it cannot
\* be opened, and not the subdirectories that are closed to it
\* (skip_permission_denied).  Its users take none of this for an error.
Listings(p) == IF Unreadable THEN SUBSET FilesAt(p) ELSE {FilesAt(p)}

\* preflight: the blockers that can change while the page is open, besides
\* the free space of the target's volume.
Blocked(r, listed) == ~Exists(Source) \/ vrc \/ listed # {}

\* A scan shows a category as a junction when its path resolves to a place
\* outside the base directory, where the targets are.
Scanned == IF fs[Source].kind = "link" /\ Exists(Source) THEN fs[Source].to ELSE None

\* The cache as VRChat made it, and a cache moved earlier, before or after the
\* scan that the page shows.
Fresh    == [p \in Paths |-> IF p = Source THEN Dir(Files) ELSE Absent]
Moved(t) == [p \in Paths |-> CASE p = Source -> Link(t)
                              [] p = t -> Dir(Files) [] OTHER -> Absent]

Init ==
  /\ fs = Fresh \/ \E t \in Targets : fs = Moved(t)
  /\ vrc \in BOOLEAN
  /\ busy = FALSE
  /\ pc = [r \in Runs |-> "idle"]
  /\ tgt = [r \in Runs |-> None]
  /\ repair = [r \in Runs |-> FALSE]
  /\ report \in {None, Scanned}
  /\ todo = [r \in Runs |-> {}]
  /\ skipped = [r \in Runs |-> {}]
  /\ seen = [r \in Runs |-> {}]
  /\ result = [r \in Runs |-> None]

------------------------------------------------------------------------------
(* A migration                                                             *)

\* migrateOneClick.  The button is hidden for a cache that the report shows as
\* a junction.  The flags that disable it, planLoading and running, are set and
\* cleared with the busy flag.
MigrateOneClick(r, t) ==
  /\ pc[r] = "idle" /\ ~busy /\ report = None /\ MayStart
  /\ pc' = [pc EXCEPT ![r] = "preflight"]
  /\ tgt' = [tgt EXCEPT ![r] = t]
  /\ busy' = TRUE
  /\ UNCHANGED <<fs, vrc, repair, report, todo, skipped, seen, result>>

\* The page stops on a source that is a junction already, and on a blocker,
\* which want of free space may be at any time.
Preflight(r) ==
  /\ pc[r] = "preflight"
  /\ IF fs[Source].kind = "link"
       THEN Finish(r, "is_junction")
       ELSE \/ /\ \E listed \in Listings(tgt[r]) : ~Blocked(r, listed)
               /\ Goto(r, "execute")
            \/ Finish(r, "refused")
  /\ UNCHANGED fs /\ Quiet

\* Execute runs preflight again; a junction is no blocker there.
ExecutePreflight(r) ==
  /\ pc[r] = "execute"
  /\ \/ /\ \E listed \in Listings(tgt[r]) : ~Blocked(r, listed)
        /\ Goto(r, "check")
     \/ Finish(r, "preflight_blocked")
  /\ UNCHANGED fs /\ Quiet

\* The last look at VRChat, the test for a leftover backup, and the target
\* directory, whose creation may fail.
ExecuteCheck(r) ==
  /\ pc[r] = "check"
  /\ \/ /\ vrc
        /\ Finish(r, "vrchat_running") /\ UNCHANGED fs
     \/ /\ ~vrc /\ Exists(Backup)
        /\ Finish(r, "backup_exists") /\ UNCHANGED fs
     \/ /\ ~vrc /\ ~Exists(Backup)
        /\ Finish(r, "target_create_failed") /\ UNCHANGED fs
     \/ /\ ~vrc /\ ~Exists(Backup)
        /\ fs' = IF fs[tgt[r]] = Absent
                   THEN [fs EXCEPT ![tgt[r]] = Dir({})] ELSE fs
        /\ Goto(r, "open")
  /\ Quiet

\* The error code of the iterator's constructor is read inside the loop only:
\* a source that cannot be opened, or not to its depth, gives a shorter loop.
OpenSource(r) ==
  /\ pc[r] = "open"
  /\ \E listed \in Listings(Source) :
       /\ todo' = [todo EXCEPT ![r] = listed]
       /\ skipped' = [skipped EXCEPT ![r] = @ \cup (FilesAt(Source) \ listed)]
  /\ Goto(r, "copy")
  /\ UNCHANGED <<fs, vrc, tgt, repair, report, seen>>

\* One turn of the loop.  The iterator lists the files it found when it was
\* opened and may list later ones; the copy resolves the source path anew.
\* Any error, an exception of the iterator's increment among them, ends it.
CopyFile(r, f) ==
  /\ pc[r] = "copy"
  /\ f \in (todo[r] \cup (FilesAt(Source) \ skipped[r])) \ seen[r]
  /\ \/ /\ f \in FilesAt(Source) /\ Resolve(Source) # tgt[r]
        /\ fs' = [fs EXCEPT ![tgt[r]].files = @ \cup {f}]
        /\ seen' = [seen EXCEPT ![r] = @ \cup {f}]
        /\ Goto(r, "copy")
     \/ /\ Finish(r, "copy_failed")
        /\ UNCHANGED <<fs, seen>>
  /\ UNCHANGED <<vrc, tgt, repair, report, todo, skipped>>

\* Mutant: the loop ends early, without an error.
CopyDoneEarly(r) == pc[r] = "copy" /\ Goto(r, "verify") /\ UNCHANGED fs /\ Quiet

CopyDone(r) ==
  /\ pc[r] = "copy"
  /\ todo[r] \subseteq seen[r]
  /\ Goto(r, "verify")
  /\ UNCHANGED fs /\ Quiet

\* What the target lists is counted against what was copied, not against the
\* source.  A file that changed size between its copy and its stat fails here.
Verify(r) ==
  /\ pc[r] = "verify"
  /\ \/ /\ \E listed \in Listings(tgt[r]) : Cardinality(listed) = Cardinality(seen[r])
        /\ Goto(r, "swap")
     \/ Finish(r, "verify_failed")
  /\ UNCHANGED fs /\ Quiet

\* While a junction is being written its directory is held open exclusively.
SourceLocked == \E r \in Runs : pc[r] = "junction_write"

\* rename(source, backup) moves the entry, junction or directory, and never
\* replaces a directory.
Swap(r) ==
  /\ pc[r] = "swap"
  /\ \/ /\ fs[Source] # Absent /\ fs[Backup] = Absent /\ ~SourceLocked
        /\ fs' = [fs EXCEPT ![Backup] = fs[Source], ![Source] = Absent]
        /\ Goto(r, "junction")
     \/ Finish(r, "source_rename_failed") /\ UNCHANGED fs
  /\ Quiet

\* Mutant: the failure of the junction is reported and nothing is restored.
RestoreSkipped(r) ==
  pc[r] = "restore" /\ Finish(r, "junction_failed") /\ UNCHANGED fs /\ Quiet

\* Mutant: a failed restore leaves the run in a state nobody handles.
RestoreUnhandled(r) ==
  /\ pc[r] = "restore"
  /\ Goto(r, "restore_failed") /\ UNCHANGED fs /\ Quiet

\* rename(backup, source) after the junction could not be made or read.
Restore(r) ==
  /\ pc[r] = "restore"
  /\ \/ /\ fs[Backup] # Absent /\ fs[Source] = Absent
        /\ fs' = [fs EXCEPT ![Source] = fs[Backup], ![Backup] = Absent]
        /\ Finish(r, "junction_failed")
     \/ Finish(r, "restore_failed") /\ UNCHANGED fs
  /\ Quiet

\* is_directory(source); a junction that does not resolve is removed again.
ProbeJunction(r) ==
  /\ pc[r] = "probe"
  /\ \/ Exists(Source) /\ Goto(r, "cleanup") /\ UNCHANGED fs
     \/ /\ fs' = IF Removable(Source)
                   THEN [fs EXCEPT ![Source] = Absent] ELSE fs
        /\ Goto(r, "restore")
  /\ Quiet

\* removeTreeNoFollow(backup): children that are junctions are unlinked, the
\* top of the tree is opened as it is.
CleanupFile(r, f) ==
  /\ pc[r] = "cleanup"
  /\ f \in FilesAt(Backup)
  /\ fs' = [fs EXCEPT ![Resolve(Backup)].files = @ \ {f}]
  /\ Goto(r, "cleanup")
  /\ Quiet

\* Any failure leaves the rest of the backup; the migration is still a success.
CleanupDone(r) ==
  /\ pc[r] = "cleanup"
  /\ \/ /\ Exists(Backup) /\ FilesAt(Backup) = {}
        /\ fs' = [fs EXCEPT ![Backup] = Absent]
        /\ Finish(r, "done")
     \/ Finish(r, "done_backup_left") /\ UNCHANGED fs
  /\ Quiet

------------------------------------------------------------------------------
(* JunctionUtil::createJunction, used by a migration and by a repair       *)

JunctionFailed(r) ==
  IF repair[r] THEN Finish(r, "repair_failed") ELSE Goto(r, "restore")

JunctionMkdir(r) ==
  /\ pc[r] = "junction"
  /\ \/ /\ fs[Source] = Absent
        /\ fs' = [fs EXCEPT ![Source] = Dir({})]
        /\ Goto(r, "junction_open")
     \/ JunctionFailed(r) /\ UNCHANGED fs
  /\ Quiet

\* A failed open returns at once: the directory just made stays.
JunctionOpen(r) ==
  /\ pc[r] = "junction_open"
  /\ \/ fs[Source] # Absent /\ ~SourceLocked /\ Goto(r, "junction_write")
     \/ JunctionFailed(r)
  /\ UNCHANGED fs /\ Quiet

\* Mutant: the result of the ioctl is ignored.
JunctionWriteIgnored(r) ==
  /\ pc[r] = "junction_write"
  /\ fs' \in {fs, [fs EXCEPT ![Source] = Link(tgt[r])]}
  /\ IF repair[r] THEN Finish(r, "repaired") ELSE Goto(r, "probe")
  /\ Quiet

\* FSCTL_SET_REPARSE_POINT wants an empty directory; when it fails the
\* directory is removed.
JunctionWrite(r) ==
  /\ pc[r] = "junction_write"
  /\ \/ /\ Removable(Source)
        /\ fs' = [fs EXCEPT ![Source] = Link(tgt[r])]
        /\ IF repair[r] THEN Finish(r, "repaired") ELSE Goto(r, "probe")
     \/ /\ fs' = IF Removable(Source)
                   THEN [fs EXCEPT ![Source] = Absent] ELSE fs
        /\ JunctionFailed(r)
  /\ Quiet

------------------------------------------------------------------------------
(* JunctionUtil::Repair                                                    *)

\* The page's running flag: a migration is past its preflight.
Running == busy /\ \E r \in Runs : Active(r) /\ ~repair[r] /\ pc[r] # "preflight"

\* The page offers the repair of a cache that the report shows as a junction,
\* to the target the report has, and where a preflight met a junction, to the
\* target the user typed.
RepairJunction(r, t) ==
  /\ pc[r] = "idle" /\ ~Running /\ MayStart
  /\ \/ report = t
     \/ report = None /\ \E q \in Runs : result[q] = "is_junction"
  /\ tgt' = [tgt EXCEPT ![r] = t]
  /\ repair' = [repair EXCEPT ![r] = TRUE]
  /\ IF vrc
       THEN /\ pc' = [pc EXCEPT ![r] = "ended"]
            /\ result' = [result EXCEPT ![r] = "vrchat_running"]
       ELSE pc' = [pc EXCEPT ![r] = "unlink"] /\ UNCHANGED result
  /\ UNCHANGED <<fs, vrc, busy, report, todo, skipped, seen>>

\* Mutant: remove_all follows the junction.
RepairRemoveAll(r) ==
  /\ pc[r] = "unlink"
  /\ fs' = [fs EXCEPT ![Resolve(Source)].files = {}, ![Source] = Absent]
  /\ Goto(r, "junction")
  /\ Quiet

\* The target directory is created if missing; then the old junction, or an
\* empty directory, makes room.
RepairUnlink(r) ==
  /\ pc[r] = "unlink"
  /\ LET made == IF fs[tgt[r]] = Absent
                   THEN [fs EXCEPT ![tgt[r]] = Dir({})] ELSE fs
     IN \/ /\ (Removable(Source) /\ ~SourceLocked) \/ fs[Source] = Absent
           /\ fs' = [made EXCEPT ![Source] = Absent]
           /\ Goto(r, "junction")
        \/ /\ fs' = made
           /\ Finish(r, "repair_failed")
  /\ Quiet

------------------------------------------------------------------------------
(* The environment                                                         *)

\* The user opens or closes VRChat.
ToggleVRChat ==
  /\ vrc' = ~vrc
  /\ UNCHANGED <<fs, busy, pc, tgt, repair, report, todo, skipped, seen, result>>

\* VRChat adds a file to its cache, creating the directory if it is gone.
VRChatWrite(f) ==
  /\ vrc
  /\ fs[Source] = Absent \/ Exists(Source)
  /\ f \notin FilesAt(Source)
  /\ fs' = IF fs[Source] = Absent
             THEN [fs EXCEPT ![Source] = Dir({f})]
             ELSE [fs EXCEPT ![Resolve(Source)].files = @ \cup {f}]
  /\ UNCHANGED <<vrc, busy, pc, tgt, repair, report, todo, skipped, seen, result>>

\* Messages that say a leftover backup can be, or has to be, deleted by hand.
DeleteAdvice == {"done_backup_left", "backup_exists"}

UserDeletesBackup ==
  /\ \E r \in Runs : result[r] \in DeleteAdvice
  /\ fs[Backup] # Absent
  /\ fs' = [fs EXCEPT ![Backup] = Absent]
  /\ UNCHANGED <<vrc, busy, pc, tgt, repair, report, todo, skipped, seen, result>>

\* VRCSM dies: every run stops where it is.
Crash ==
  /\ ~AllQuiet
  /\ pc' = [r \in Runs |-> IF Active(r) THEN "ended" ELSE pc[r]]
  /\ result' = [r \in Runs |-> IF Active(r) THEN "killed" ELSE result[r]]
  /\ busy' = FALSE
  /\ UNCHANGED <<fs, vrc, tgt, repair, report, todo, skipped, seen>>

\* The flag is cleared under a running migration: leaving the Migrate page and
\* coming back mounts a page with a fresh flag, and the reset of the session
\* (cancelAll) rejects the call the page awaits.
Remount ==
  /\ busy
  /\ busy' = FALSE
  /\ UNCHANGED <<fs, vrc, pc, tgt, repair, report, todo, skipped, seen, result>>

\* The Rescan button; a migration or a repair leaves the report as it was.
Rescan ==
  /\ report' = Scanned
  /\ UNCHANGED <<fs, vrc, busy, pc, tgt, repair, todo, skipped, seen, result>>

------------------------------------------------------------------------------

RunStep(r) ==
  \/ Preflight(r) \/ ExecutePreflight(r) \/ ExecuteCheck(r)
  \/ OpenSource(r) \/ CopyDone(r) \/ Verify(r) \/ Swap(r)
  \/ JunctionMkdir(r) \/ JunctionOpen(r) \/ JunctionWrite(r)
  \/ Restore(r) \/ ProbeJunction(r) \/ CleanupDone(r) \/ RepairUnlink(r)
  \/ \E f \in Files \cup Writes : CopyFile(r, f) \/ CleanupFile(r, f)

Start(r) == \E t \in Targets : MigrateOneClick(r, t) \/ RepairJunction(r, t)

Environment ==
  \/ ToggleVRChat \/ UserDeletesBackup \/ Crash \/ Remount \/ Rescan
  \/ \E f \in Writes : VRChatWrite(f)

Next == Environment \/ \E r \in Runs : Start(r) \/ RunStep(r)

Spec == Init /\ [][Next]_vars

\* A worker thread of the host goes on with the run it was given, and the
\* listing of a directory that is being emptied comes to its end.
FairSpec ==
  /\ Spec
  /\ \A r \in Runs : WF_vars(RunStep(r)) /\ WF_vars(CleanupDone(r))

------------------------------------------------------------------------------
(* Properties                                                              *)

Nodes == {Absent} \cup {Dir(F) : F \in SUBSET (Files \cup Writes)}
                  \cup {Link(t) : t \in Targets}

Labels == {"idle", "preflight", "execute", "check", "open", "copy", "verify",
           "swap", "junction", "junction_open", "junction_write", "restore",
           "probe", "cleanup", "unlink", "ended"}

Outcomes == {"refused", "is_junction", "preflight_blocked", "vrchat_running",
             "backup_exists",
             "target_create_failed", "copy_failed", "verify_failed",
             "source_rename_failed", "junction_failed", "restore_failed",
             "done", "done_backup_left", "repaired", "repair_failed", "killed"}

\* Every variable keeps its type: the shapes of the file system, the steps of
\* a run and the codes it may end with.
TypeOK ==
  /\ fs \in [Paths -> Nodes]
  /\ vrc \in BOOLEAN /\ busy \in BOOLEAN
  /\ pc \in [Runs -> Labels]
  /\ tgt \in [Runs -> Targets \cup {None}]
  /\ repair \in [Runs -> BOOLEAN]
  /\ report \in Targets \cup {None}
  /\ todo \in [Runs -> SUBSET (Files \cup Writes)]
  /\ skipped \in [Runs -> SUBSET (Files \cup Writes)]
  /\ seen \in [Runs -> SUBSET (Files \cup Writes)]
  /\ result \in [Runs -> Outcomes \cup {None}]

\* The files of the original cache that no run's iterator left out.
Kept == Files \ UNION {skipped[r] : r \in Runs}

Whole(p) == Kept \subseteq fs[p].files

\* Whatever fails and whenever VRCSM dies, one directory other than the backup
\* holds every file of the original cache that the iterator of execute
\* (Migrator.cpp) did not leave out: execute loses no other file, and the
\* advice to delete a leftover backup costs none.
CacheSurvives == Whole(Source) \/ \E t \in Targets : Whole(t)

\* A file that was moved to a target directory is never deleted there: the
\* cleanup of removeTreeNoFollow only works on the backup.
TargetsNeverShrink ==
  [][\A t \in Targets : fs[t].files \subseteq fs'[t].files]_fs

\* A run of execute that reports success has left a junction to its target,
\* and the target holds every file that the run read from the source.
DoneMeansServed ==
  [][\A r \in Runs :
       /\ pc[r] # "ended"
       /\ pc'[r] = "ended" /\ result'[r] \in {"done", "done_backup_left"}
       => fs'[Source] = Link(tgt[r]) /\ seen[r] \subseteq fs'[tgt[r]].files]_vars

\* When nothing runs, a leftover .vrcsm-bak has been reported: to the user as
\* an outcome of execute, or it is the trace of a crash.
BackupExplained ==
  AllQuiet /\ fs[Backup] # Absent =>
    \E r \in Runs : result[r] \in {"killed", "restore_failed", "done_backup_left"}

\* The Migrate page never stays locked: each way out of migrateOneClick and of
\* execute clears migrateBusyRef.
PageUnlocks == busy ~> ~busy

\* "comparing counts as well catches dropped/extra files before the source is
\* renamed to backup" (Migrator.cpp): a run that passed verify left nothing out.
VerifyCatchesDropped == \A r \in Runs : pc[r] = "swap" => skipped[r] = {}

\* "VRChat process detection blocks delete/migrate while the game is running"
\* (src/README.md): a file VRChat wrote to its cache is still on disk.
WritesSurvive ==
  [][\A f \in Writes :
       (\E p \in Paths : f \in fs[p].files) =>
       (\E p \in Paths : f \in fs'[p].files)]_fs

\* "never descends through NTFS reparse points (junctions/symlinks)"
\* (src/src/core/Migrator.cpp): the cleanup deletes files of a plain directory.
NeverDescends ==
  [][\A r \in Runs, f \in Files \cup Writes :
       CleanupFile(r, f) => fs[Backup].kind = "dir"]_vars

\* createJunction rolls back on failure and deletes the empty directory it made
\* (src/docs/reference/core/safedelete-migrate.md).
FailedJunctionLeavesNothing ==
  [][\A r \in Runs :
       /\ pc[r] \in {"junction_open", "junction_write"}
       /\ pc'[r] \in {"restore", "ended"} /\ result'[r] \notin {"repaired", "killed"}
       => fs'[Source] # Dir({})]_vars
==============================================================================
