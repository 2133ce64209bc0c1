------------------------------ MODULE DatabaseBackups ------------------------------
(***************************************************************************)
(* Backup and restore of a participant's database by the operator's        *)
(* scripts (app/services/beta_backup.py), while the instance runs, stops   *)
(* or dies, files are damaged and the script dies between two steps.       *)
(*                                                                         *)
(* A database file is what it holds, a number that every commit raises,    *)
(* and whether it passes the integrity checks.  The database keeps a       *)
(* rollback journal: one that is left by an instance that died makes the   *)
(* read-only checks fail until the instance has run again.                 *)
(***************************************************************************)
EXTENDS Naturals, Sequences

CONSTANTS
    MaxCommits,        \* bound: commits of the instance
    MaxBackups,        \* bound: backups, those made by restores included
    MaxFileFaults      \* bound: steps that fail and files that are damaged

ASSUME BackupBounds == MaxCommits \in Nat /\ MaxBackups \in Nat /\ MaxFileFaults \in Nat

VARIABLES
    live,              \* the participant's database file
    instance,          \* whether the instance runs
    backups,           \* backup directories: file and manifest
    script,            \* the running script
    before,            \* history: what the database held when the last restore began
    outcome,           \* history: how the last restore ended
    commits, fileFaults \* counts, up to MaxCommits and MaxFileFaults

backupVars == <<live, instance, backups, script, before, outcome, commits, fileFaults>>

-------------------------------------------------------------------------------

File == [holds : Nat, intact : BOOLEAN, hot : BOOLEAN]    \* hot: beside a journal

Backup == [file : File, manifest : BOOLEAN]

Script == [step   : {"idle", "backup", "checked", "saving", "saved", "copied", "verified",
                     "replaced", "failing", "returning"},
           source : Nat,                \* the backup that is restored
           saved  : Nat,                \* the backup made before
           file   : SUBSET File]        \* the temporary file

NoScript == [step |-> "idle", source |-> 0, saved |-> 0, file |-> {}]

BackupTypeOK ==
    /\ live \in File
    /\ instance \in BOOLEAN
    /\ backups \in Seq(Backup) /\ Len(backups) <= MaxBackups
    /\ script \in Script
    /\ before \in Nat
    /\ outcome \in {"none", "running", "restored", "rolled_back", "failed", "lost"}
    /\ commits \in 0 .. MaxCommits /\ fileFaults \in 0 .. MaxFileFaults

BackupInit ==
    /\ live = [holds |-> 0, intact |-> TRUE, hot |-> FALSE]
    /\ instance = TRUE
    /\ backups = <<>>
    /\ script = NoScript
    /\ before = 0
    /\ outcome = "none"
    /\ commits = 0 /\ fileFaults = 0

\* _database_checks opens the file read-only.
PassesChecks(file) == file.intact /\ ~file.hot

Fault == fileFaults < MaxFileFaults /\ fileFaults' = fileFaults + 1

Step(step) == script' = [script EXCEPT !.step = step]

-------------------------------------------------------------------------------
(* The instance *)

Commit ==
    /\ instance /\ live.intact /\ commits < MaxCommits
    /\ commits' = commits + 1
    /\ live' = [live EXCEPT !.holds = commits + 1]
    /\ UNCHANGED <<instance, backups, script, before, outcome, fileFaults>>

\* A clean stop, or a death within a transaction, which leaves a journal.
InstanceStops ==
    /\ instance
    /\ instance' = FALSE
    /\ \E hot \in BOOLEAN : live' = [live EXCEPT !.hot = hot]
    /\ UNCHANGED <<backups, script, before, outcome, commits, fileFaults>>

\* The operator starts it again; the journal is rolled back.
InstanceStarts ==
    /\ ~instance /\ script.step \in {"idle", "backup"}
    /\ instance' = TRUE
    /\ live' = [live EXCEPT !.hot = FALSE]
    /\ outcome' = "none"
    /\ UNCHANGED <<backups, script, before, commits, fileFaults>>

-------------------------------------------------------------------------------
(* backup_participant *)

\* The online backup is a transaction of SQLite's; its file may be damaged.
CopyDatabase(next) ==
    /\ Len(backups) < MaxBackups
    /\ PassesChecks(live)
    /\ \/ /\ backups' = Append(backups, [file |-> live, manifest |-> FALSE])
          /\ UNCHANGED fileFaults
       \/ /\ backups' = Append(backups, [file |-> [live EXCEPT !.intact = FALSE],
                                         manifest |-> FALSE])
          /\ Fault
    /\ script' = [script EXCEPT !.step = next, !.saved = Len(backups) + 1]
    /\ UNCHANGED <<live, instance, before, outcome, commits>>

BackupCopies == script.step = "idle" /\ CopyDatabase("backup")

\* Mutant of Recordable: the copy is not checked.
RecordableUnchecked(b) == TRUE

Recordable(b) == PassesChecks(backups[b].file)

\* The copy is checked, and then gets its manifest.
RecordManifest(from, to) ==
    /\ script.step = from
    /\ Recordable(script.saved)
    /\ backups' = [backups EXCEPT ![script.saved].manifest = TRUE]
    /\ Step(to)
    /\ UNCHANGED <<live, instance, before, outcome, commits, fileFaults>>

BackupRecords == RecordManifest("backup", "idle")

-------------------------------------------------------------------------------
(* restore_participant *)

\* Only a stopped instance, and only a backup with a manifest whose checksum still is
\* that of its file.
RestoreChecks(b) ==
    /\ script.step = "idle" /\ ~instance
    /\ backups[b].manifest /\ PassesChecks(backups[b].file)
    /\ PassesChecks(live)
    /\ script' = [NoScript EXCEPT !.step = "checked", !.source = b]
    /\ before' = live.holds
    /\ outcome' = "running"
    /\ UNCHANGED <<live, instance, backups, commits, fileFaults>>

RestoreSaves == script.step = "checked" /\ CopyDatabase("saving")

RestoreRecords == RecordManifest("saving", "saved")

\* A temporary copy of a file, which may be damaged.
CopyFile(b, next) ==
    /\ \/ /\ script' = [script EXCEPT !.step = next, !.file = {backups[b].file}]
          /\ UNCHANGED fileFaults
       \/ /\ script' = [script EXCEPT !.step = next,
                          !.file = {[backups[b].file EXCEPT !.intact = FALSE]}]
          /\ Fault
    /\ UNCHANGED <<live, instance, backups, before, outcome, commits>>

RestoreCopies == script.step = "saved" /\ CopyFile(script.source, "copied")

\* The copy is checked and moved into place; what is there then may be damaged.
Replace(next) ==
    /\ \E file \in script.file :
         /\ PassesChecks(file)
         /\ \/ live' = file /\ UNCHANGED fileFaults
            \/ live' = [file EXCEPT !.intact = FALSE] /\ Fault
    /\ script' = [script EXCEPT !.step = next, !.file = {}]
    /\ UNCHANGED <<instance, backups, before, outcome, commits>>

RestoreReplaces == script.step = "copied" /\ Replace("replaced")

ScriptEnds(result) ==
    /\ script' = NoScript
    /\ outcome' = result
    /\ UNCHANGED <<live, instance, backups, before, commits>>

RestoreReturns ==
    /\ script.step = "replaced"
    /\ PassesChecks(live)
    /\ ScriptEnds("restored")
    /\ UNCHANGED fileFaults

\* A failed check, a full disk, any other exception: before the file was replaced the
\* database is as it was.
RestoreFails ==
    /\ script.step \in {"checked", "saving", "saved", "copied"}
    /\ \/ /\ script.step = "saving" /\ ~Recordable(script.saved)
          /\ UNCHANGED fileFaults
       \/ /\ \E file \in script.file : ~PassesChecks(file)
          /\ UNCHANGED fileFaults
       \/ Fault
    /\ ScriptEnds("failed")

\* Mutant of RollbackSource: the backup that was to be restored is taken once more.
RollbackFromBackup == script.source

RollbackSource == script.saved

\* The final check fails: the copy made before is copied ...
RollbackCopies ==
    /\ script.step = "replaced"
    /\ ~PassesChecks(live)
    /\ CopyFile(RollbackSource, "failing")

\* ... checked and moved into place ...
RollbackReplaces == script.step = "failing" /\ Replace("returning")

\* ... and the result is checked.
RollbackReturns ==
    /\ script.step = "returning"
    /\ PassesChecks(live)
    /\ ScriptEnds("rolled_back")
    /\ UNCHANGED fileFaults

\* RESTORE_ROLLBACK_FAILED
RollbackFails ==
    /\ \/ /\ script.step = "failing"
          /\ \E file \in script.file : ~PassesChecks(file)
          /\ UNCHANGED fileFaults
       \/ script.step = "returning" /\ ~PassesChecks(live) /\ UNCHANGED fileFaults
       \/ script.step \in {"failing", "returning"} /\ Fault
    /\ ScriptEnds("lost")

\* The script dies, or a backup fails.
ScriptDies ==
    /\ script.step # "idle"
    /\ Fault
    /\ script' = NoScript
    /\ UNCHANGED <<live, instance, backups, before, outcome, commits>>

BackupNext ==
    \/ Commit \/ InstanceStops \/ InstanceStarts
    \/ BackupCopies \/ BackupRecords
    \/ \E b \in DOMAIN backups : RestoreChecks(b)
    \/ RestoreSaves \/ RestoreRecords \/ RestoreCopies \/ RestoreReplaces
    \/ RestoreReturns \/ RestoreFails
    \/ RollbackCopies \/ RollbackReplaces \/ RollbackReturns \/ RollbackFails
    \/ ScriptDies

-------------------------------------------------------------------------------
(* Properties *)

(* A restore loses nothing: whichever step of it fails and whenever the script dies, until
   the instance runs again, the database holds what it held before, or a checked backup
   with a manifest does.  A restore that returns leaves an intact database; one that fails
   or is rolled back leaves the database it found ("RESTORE_ROLLED_BACK",
   beta_backup.py:222). *)
NothingIsLost ==
    outcome # "none" =>
        /\ \/ live.holds = before /\ live.intact
           \/ \E b \in DOMAIN backups : backups[b].file.holds = before
                                        /\ backups[b].file.intact /\ backups[b].manifest
        /\ outcome = "restored" => live.intact
        /\ outcome \in {"failed", "rolled_back"} => live.holds = before /\ live.intact

================================================================================
