--------------------------- MODULE HostedWorkspaceProofs ---------------------------
(***************************************************************************)
(* Proofs about the parts of HostedWorkspace, for any number of threads,   *)
(* accounts, names and keys and every value of the bounds.  Each part has  *)
(* its own inductive invariant; since the parts share no state, a step of  *)
(* the composition is a step of each part or leaves it alone.              *)
(***************************************************************************)
EXTENDS HostedWorkspace, ModelProfilesProofs, FiniteSetTheorems, TLAPS

-------------------------------------------------------------------------------
(* Sequences *)

LEMMA SeqElement ==
  ASSUME NEW S, NEW s \in Seq(S), NEW i \in DOMAIN s
  PROVE  s[i] \in S /\ i \in Nat
OBVIOUS

LEMMA SeqUpdate ==
  ASSUME NEW S, NEW s \in Seq(S), NEW i \in DOMAIN s, NEW v \in S
  PROVE  /\ [s EXCEPT ![i] = v] \in Seq(S)
         /\ DOMAIN [s EXCEPT ![i] = v] = DOMAIN s
         /\ \A j \in DOMAIN s : [s EXCEPT ![i] = v][j] = IF j = i THEN v ELSE s[j]
OBVIOUS

LEMMA SeqAppend ==
  ASSUME NEW S, NEW s \in Seq(S), NEW v \in S
  PROVE  /\ Append(s, v) \in Seq(S)
         /\ Len(s) \in Nat /\ Len(Append(s, v)) = Len(s) + 1
         /\ DOMAIN Append(s, v) = DOMAIN s \cup {Len(s) + 1}
         /\ \A i \in DOMAIN s : Append(s, v)[i] = s[i]
         /\ Append(s, v)[Len(s) + 1] = v
OBVIOUS

-------------------------------------------------------------------------------
(* The composition *)

\* A step of the composition, seen by its parts.
LEMMA PartsStep ==
  ASSUME [Next]_vars
  PROVE  /\ [AccountNext]_accountVars
         /\ [DraftNext]_draftVars
         /\ [CopyNext]_copyVars
         /\ [BackupNext]_backupVars
         /\ [InceptionNext]_inceptionVars
         /\ [GuidedNext]_guidedVars
         /\ [ProfileNext]_profileVars
BY DEF Next, vars

-------------------------------------------------------------------------------
(* Drafts: what a client writes is what it has seen, or it has named no base *)

DraftInv ==
    /\ draft.revision \in Nat
    /\ editors \in [Editors -> Editor]
    /\ \A e \in Editors :
         editors[e].op = "save" => editors[e].blind \/ editors[e].seen = editors[e].read

LEMMA DraftInitInv == DraftInit => DraftInv
BY DEF DraftInit, DraftInv, Editor

LEMMA DraftNextInv == DraftInv /\ [DraftNext]_draftVars => DraftInv'
<1> SUFFICES ASSUME DraftInv, [DraftNext]_draftVars PROVE DraftInv'
  OBVIOUS
<1> USE DEF DraftInv
<1>1. ASSUME NEW e \in Editors, Load(e) PROVE DraftInv'
  BY <1>1 DEF Load, Editor
<1>2. ASSUME NEW e \in Editors, NEW blind \in BOOLEAN, SaveReads(e, blind) PROVE DraftInv'
  BY <1>2 DEF SaveReads, Editor
<1>3. ASSUME NEW e \in Editors, SaveWrites(e) PROVE DraftInv'
  BY <1>3 DEF SaveWrites, Editor
<1>4. ASSUME NEW e \in Editors, Reply(e) PROVE DraftInv'
  BY <1>4 DEF Reply, Editor
<1>5. ASSUME NEW e \in Editors, Conflict(e) PROVE DraftInv'
  BY <1>5 DEF Conflict, Editor
<1>6. ASSUME NEW e \in Editors, AnswerLost(e) PROVE DraftInv'
  BY <1>6 DEF AnswerLost, Editor
<1>7. CASE UNCHANGED draftVars
  BY <1>7 DEF draftVars
<1>8. QED
  BY <1>1, <1>2, <1>3, <1>4, <1>5, <1>6, <1>7 DEF DraftNext

(* Whatever is saved, lost and answered in whatever order, no save that names a base
   replaces a revision its client has not seen (drafts.py:72). *)
THEOREM DraftsAreSeen == Spec => NoUnseenOverwrite
<1>1. Init => DraftInv
  BY DraftInitInv DEF Init
<1>2. DraftInv /\ [Next]_vars => DraftInv'
  BY DraftNextInv, PartsStep
<1>3. ASSUME DraftInv, [Next]_vars
      PROVE  [draft' # draft =>
                /\ draft'.revision = draft.revision + 1
                /\ \E e \in Editors : /\ draft'.author = {e}
                                      /\ editors[e].blind
                                         \/ editors[e].seen = draft.revision]_draftVars
  <2>1. [DraftNext]_draftVars
    BY <1>3, PartsStep
  <2>2. ASSUME NEW e \in Editors, SaveWrites(e)
        PROVE  /\ draft'.revision = draft.revision + 1
               /\ draft'.author = {e}
               /\ editors[e].blind \/ editors[e].seen = draft.revision
    BY <1>3, <2>2 DEF SaveWrites, Unchanged, DraftInv
  <2>3. QED
    BY <2>1, <2>2 DEF DraftNext, draftVars, Load, SaveReads, Reply, Conflict, AnswerLost
<1>4. QED
  BY <1>1, <1>2, <1>3, PTL DEF Spec, NoUnseenOverwrite

-------------------------------------------------------------------------------
(* Backups: until the instance runs again, what the database held is somewhere *)

\* The database is as the restore found it.
LiveKept == live.holds = before /\ live.intact

\* A backup that was checked holds what the database held.
KeptIn(b) ==
    /\ b \in DOMAIN backups
    /\ backups[b].file.holds = before
    /\ backups[b].file.intact /\ backups[b].manifest

Restoring == {"checked", "saving", "saved", "copied", "verified", "replaced", "failing",
              "returning"}

\* Up to the replacement the database is as it was; from the manifest of the backup made
\* before on, that backup has what it was.
RestoreByStep ==
    /\ outcome # "none" => ~instance
    /\ script.step \in Restoring =>
         outcome = "running" /\ script.source \in DOMAIN backups
    /\ script.step \in {"checked", "saving", "saved", "copied"} => LiveKept
    /\ script.step \in {"backup", "saving"} => script.saved \in DOMAIN backups
    /\ script.step = "saving" => backups[script.saved].file.holds = before
    /\ script.step \in {"saved", "copied", "replaced", "failing", "returning"}
         => KeptIn(script.saved)
    /\ script.step = "failing" => \A file \in script.file : file.holds = before
    /\ script.step = "returning" => live.holds = before
    /\ script.step # "verified"

BackupTypes ==
    /\ live \in File
    /\ instance \in BOOLEAN
    /\ backups \in Seq(Backup)
    /\ script \in Script
    /\ before \in Nat /\ commits \in Nat

BackupInv == BackupTypes /\ RestoreByStep /\ NothingIsLost

LEMMA BackupInitInv == BackupInit => BackupInv
BY DEF BackupInit, BackupInv, BackupTypes, RestoreByStep, NothingIsLost, NoScript, Script,
       File, Restoring, LiveKept, KeptIn

\* Backups are only added, and get manifests.
LEMMA BackupsGrow ==
  ASSUME BackupTypes, NEW next, CopyDatabase(next)
  PROVE  /\ Len(backups') = Len(backups) + 1
         /\ backups' \in Seq(Backup)
         /\ \A b \in DOMAIN backups : b \in DOMAIN backups' /\ backups'[b] = backups[b]
         /\ script' = [script EXCEPT !.step = next, !.saved = Len(backups) + 1]
         /\ Len(backups) + 1 \in DOMAIN backups' /\ Len(backups) + 1 \in Nat
         /\ backups'[Len(backups) + 1].file.holds = live.holds
         /\ UNCHANGED <<live, instance, before, outcome, commits>>
<1>1. PICK file \in File : /\ file.holds = live.holds
                           /\ backups' = Append(backups, [file |-> file, manifest |-> FALSE])
  BY DEF CopyDatabase, BackupTypes, File
<1>2. [file |-> file, manifest |-> FALSE] \in Backup
  BY DEF Backup
<1>3. backups \in Seq(Backup)
  BY DEF BackupTypes
<1>4. QED
  BY <1>1, <1>2, <1>3, SeqAppend DEF CopyDatabase

LEMMA ManifestsGrow ==
  ASSUME BackupTypes, NEW from, NEW to, RecordManifest(from, to),
         script.saved \in DOMAIN backups
  PROVE  /\ backups' \in Seq(Backup)
         /\ DOMAIN backups' = DOMAIN backups
         /\ \A b \in DOMAIN backups :
              /\ backups'[b].file = backups[b].file
              /\ backups[b].manifest => backups'[b].manifest
         /\ backups'[script.saved].manifest
         /\ backups[script.saved].file.intact
         /\ script.step = from /\ script' = [script EXCEPT !.step = to]
         /\ UNCHANGED <<live, instance, before, outcome, commits>>
<1> DEFINE old == backups[script.saved]
<1>1. backups \in Seq(Backup)
  BY DEF BackupTypes
<1>2. old \in Backup /\ [old EXCEPT !.manifest = TRUE] \in Backup
  <2>1. old \in Backup
    BY <1>1, SeqElement
  <2>2. QED
    BY <2>1 DEF Backup
<1>3. backups' = [backups EXCEPT ![script.saved] = [old EXCEPT !.manifest = TRUE]]
  BY DEF RecordManifest
<1>4. /\ backups' \in Seq(Backup)
      /\ DOMAIN backups' = DOMAIN backups
      /\ \A b \in DOMAIN backups :
           backups'[b] = IF b = script.saved THEN [old EXCEPT !.manifest = TRUE]
                                             ELSE backups[b]
  BY <1>1, <1>2, <1>3, SeqUpdate
<1>5. /\ backups'[script.saved].manifest /\ old.file.intact
      /\ \A b \in DOMAIN backups :
           /\ backups'[b].file = backups[b].file
           /\ backups[b].manifest => backups'[b].manifest
  BY <1>2, <1>4 DEF Backup, RecordManifest, Recordable, PassesChecks
<1>6. QED
  BY <1>4, <1>5 DEF RecordManifest, Step

\* A temporary copy of a backup: as it is, or damaged.
LEMMA CopiesHold ==
  ASSUME BackupTypes, NEW b \in DOMAIN backups, NEW next \in {"copied", "failing"},
         CopyFile(b, next)
  PROVE  /\ script' \in Script /\ script'.step = next
         /\ script'.source = script.source /\ script'.saved = script.saved
         /\ \A file \in script'.file : file.holds = backups[b].file.holds
         /\ UNCHANGED <<live, instance, backups, before, outcome, commits>>
<1>1. backups[b].file \in File
  <2>1. backups[b] \in Backup
    BY SeqElement DEF BackupTypes
  <2>2. QED
    BY <2>1 DEF Backup
<1>2. PICK file \in File : /\ file.holds = backups[b].file.holds
                           /\ script' = [script EXCEPT !.step = next, !.file = {file}]
  BY <1>1 DEF CopyFile, File
<1>3. QED
  BY <1>2 DEF CopyFile, BackupTypes, Script

LEMMA BackupNextInv == BackupInv /\ [BackupNext]_backupVars => BackupInv'
<1> SUFFICES ASSUME BackupInv, [BackupNext]_backupVars PROVE BackupInv'
  OBVIOUS
<1>1. BackupTypes /\ RestoreByStep /\ NothingIsLost
  BY DEF BackupInv
<1>2. CASE Commit
  <2>1. outcome = "none" /\ script.step \in {"idle", "backup"}
    BY <1>1, <1>2 DEF Commit, RestoreByStep, BackupTypes, Script, Restoring
  <2>2. BackupTypes'
    BY <1>1, <1>2 DEF Commit, BackupTypes, File
  <2>3. RestoreByStep' /\ NothingIsLost'
    BY <1>1, <1>2, <2>1 DEF Commit, RestoreByStep, NothingIsLost, LiveKept, KeptIn, Restoring
  <2>4. QED
    BY <2>2, <2>3 DEF BackupInv
<1>3. CASE InstanceStops
  BY <1>1, <1>3 DEF InstanceStops, BackupInv, BackupTypes, RestoreByStep, NothingIsLost, File,
                    LiveKept, KeptIn, Restoring
<1>4. CASE InstanceStarts
  BY <1>1, <1>4 DEF InstanceStarts, BackupInv, BackupTypes, RestoreByStep, NothingIsLost, File,
                    LiveKept, KeptIn, Restoring
<1>5. CASE BackupCopies
  <2>1. script.step = "idle" /\ CopyDatabase("backup")
    BY <1>5 DEF BackupCopies
  <2>2. /\ script' \in Script
        /\ script'.step = "backup" /\ script'.saved = Len(backups) + 1
        /\ script'.source = script.source
    <3>1. /\ script' = [script EXCEPT !.step = "backup", !.saved = Len(backups) + 1]
          /\ Len(backups) + 1 \in Nat
      BY <1>1, <2>1, BackupsGrow
    <3>2. script \in Script
      BY <1>1 DEF BackupTypes
    <3>3. QED
      BY <3>1, <3>2 DEF Script
  <2>3. /\ backups' \in Seq(Backup)
        /\ \A b \in DOMAIN backups : b \in DOMAIN backups' /\ backups'[b] = backups[b]
        /\ Len(backups) + 1 \in DOMAIN backups'
        /\ backups'[Len(backups) + 1].file.holds = live.holds
        /\ UNCHANGED <<live, instance, before, outcome, commits>>
    BY <1>1, <2>1, BackupsGrow
  <2>4. BackupTypes'
    BY <1>1, <2>2, <2>3 DEF BackupTypes
  <2>5. RestoreByStep'
    BY <1>1, <2>1, <2>2, <2>3 DEF RestoreByStep, LiveKept, Restoring
  <2>6. NothingIsLost'
    BY <1>1, <2>3 DEF NothingIsLost
  <2>7. QED
    BY <2>4, <2>5, <2>6 DEF BackupInv
<1>6. CASE BackupRecords
  <2>1. script.step = "backup" /\ script.saved \in DOMAIN backups
    BY <1>1, <1>6 DEF BackupRecords, RecordManifest, RestoreByStep
  <2>2. /\ script' \in Script /\ script'.step = "idle"
        /\ script'.saved = script.saved /\ script'.source = script.source
    BY <1>1, <1>6, <2>1, ManifestsGrow DEF BackupRecords, BackupTypes, Script
  <2>3. /\ backups' \in Seq(Backup) /\ DOMAIN backups' = DOMAIN backups
        /\ \A b \in DOMAIN backups :
             /\ backups'[b].file = backups[b].file
             /\ backups[b].manifest => backups'[b].manifest
        /\ backups'[script.saved].manifest /\ backups[script.saved].file.intact
        /\ UNCHANGED <<live, instance, before, outcome, commits>>
    BY <1>1, <1>6, <2>1, ManifestsGrow DEF BackupRecords
  <2>4. BackupTypes'
    BY <1>1, <2>2, <2>3 DEF BackupTypes
  <2>5. RestoreByStep'
    BY <1>1, <2>1, <2>2, <2>3 DEF RestoreByStep, LiveKept, KeptIn, Restoring
  <2>6. NothingIsLost'
    BY <1>1, <2>3 DEF NothingIsLost
  <2>7. QED
    BY <2>4, <2>5, <2>6 DEF BackupInv
<1>7. ASSUME NEW b \in DOMAIN backups, RestoreChecks(b) PROVE BackupInv'
  <2>1. b \in Nat
    BY <1>1 DEF BackupTypes
  <2>2. script' \in Script /\ script'.step = "checked" /\ script'.source = b
    BY <1>7, <2>1 DEF RestoreChecks, NoScript, Script
  <2>3. live.holds = before' /\ live.intact /\ before' \in Nat
    BY <1>1, <1>7 DEF RestoreChecks, PassesChecks, BackupTypes, File
  <2>4. BackupTypes'
    BY <1>1, <1>7, <2>2, <2>3 DEF RestoreChecks, BackupTypes
  <2>5. RestoreByStep'
    BY <1>7, <2>2, <2>3 DEF RestoreChecks, RestoreByStep, LiveKept, Restoring
  <2>6. NothingIsLost'
    BY <1>7, <2>3 DEF RestoreChecks, NothingIsLost
  <2>7. QED
    BY <2>4, <2>5, <2>6 DEF BackupInv
<1>8. CASE RestoreSaves
  <2>1. script.step = "checked" /\ CopyDatabase("saving")
    BY <1>8 DEF RestoreSaves
  <2>2. /\ script' \in Script
        /\ script'.step = "saving" /\ script'.saved = Len(backups) + 1
        /\ script'.source = script.source
    <3>1. /\ script' = [script EXCEPT !.step = "saving", !.saved = Len(backups) + 1]
          /\ Len(backups) + 1 \in Nat
      BY <1>1, <2>1, BackupsGrow
    <3>2. script \in Script
      BY <1>1 DEF BackupTypes
    <3>3. QED
      BY <3>1, <3>2 DEF Script
  <2>3. /\ backups' \in Seq(Backup)
        /\ \A b \in DOMAIN backups : b \in DOMAIN backups' /\ backups'[b] = backups[b]
        /\ Len(backups) + 1 \in DOMAIN backups'
        /\ backups'[Len(backups) + 1].file.holds = live.holds
        /\ UNCHANGED <<live, instance, before, outcome, commits>>
    BY <1>1, <2>1, BackupsGrow
  <2>4. BackupTypes'
    BY <1>1, <2>2, <2>3 DEF BackupTypes
  <2>5. RestoreByStep'
    BY <1>1, <2>1, <2>2, <2>3 DEF RestoreByStep, LiveKept, Restoring
  <2>6. NothingIsLost'
    BY <1>1, <2>3 DEF NothingIsLost
  <2>7. QED
    BY <2>4, <2>5, <2>6 DEF BackupInv
<1>9. CASE RestoreRecords
  <2>1. script.step = "saving" /\ script.saved \in DOMAIN backups
    BY <1>1, <1>9 DEF RestoreRecords, RecordManifest, RestoreByStep
  <2>2. /\ script' \in Script /\ script'.step = "saved"
        /\ script'.saved = script.saved /\ script'.source = script.source
    BY <1>1, <1>9, <2>1, ManifestsGrow DEF RestoreRecords, BackupTypes, Script
  <2>3. /\ backups' \in Seq(Backup) /\ DOMAIN backups' = DOMAIN backups
        /\ \A b \in DOMAIN backups :
             /\ backups'[b].file = backups[b].file
             /\ backups[b].manifest => backups'[b].manifest
        /\ backups'[script.saved].manifest /\ backups[script.saved].file.intact
        /\ UNCHANGED <<live, instance, before, outcome, commits>>
    BY <1>1, <1>9, <2>1, ManifestsGrow DEF RestoreRecords
  <2>4. BackupTypes'
    BY <1>1, <2>2, <2>3 DEF BackupTypes
  <2>5. RestoreByStep'
    BY <1>1, <2>1, <2>2, <2>3 DEF RestoreByStep, LiveKept, KeptIn, Restoring
  <2>6. NothingIsLost'
    BY <1>1, <2>3 DEF NothingIsLost
  <2>7. QED
    BY <2>4, <2>5, <2>6 DEF BackupInv
<1>10. CASE RestoreCopies
  <2>1. script.step = "saved" /\ script.source \in DOMAIN backups
    BY <1>1, <1>10 DEF RestoreCopies, RestoreByStep, Restoring
  <2>2. BackupTypes' /\ script'.step = "copied"
    BY <1>1, <1>10, <2>1, CopiesHold DEF RestoreCopies, BackupTypes
  <2>3. RestoreByStep'
    BY <1>1, <1>10, <2>1, CopiesHold DEF RestoreCopies, RestoreByStep, LiveKept, KeptIn,
         Restoring
  <2>4. NothingIsLost'
    BY <1>1, <1>10, <2>1, CopiesHold DEF RestoreCopies, NothingIsLost
  <2>5. QED
    BY <2>2, <2>3, <2>4 DEF BackupInv
<1>11. CASE RestoreReplaces
  BY <1>1, <1>11 DEF RestoreReplaces, Replace, BackupInv, BackupTypes, RestoreByStep,
       NothingIsLost, LiveKept, KeptIn, Restoring, Script, File
<1>12. CASE RestoreReturns
  BY <1>1, <1>12 DEF RestoreReturns, ScriptEnds, BackupInv, BackupTypes, RestoreByStep,
       NothingIsLost, LiveKept, KeptIn, Restoring, Script, NoScript, PassesChecks
<1>13. CASE RestoreFails
  BY <1>1, <1>13 DEF RestoreFails, ScriptEnds, BackupInv, BackupTypes, RestoreByStep,
       NothingIsLost, LiveKept, KeptIn, Restoring, Script, NoScript
<1>14. CASE RollbackCopies
  <2>1. script.step = "replaced" /\ KeptIn(script.saved)
    BY <1>1, <1>14 DEF RollbackCopies, RestoreByStep
  <2>2. CopyFile(script.saved, "failing") /\ script.saved \in DOMAIN backups
    BY <1>14, <2>1 DEF RollbackCopies, RollbackSource, KeptIn
  <2>3. BackupTypes' /\ script'.step = "failing"
    BY <1>1, <2>2, CopiesHold DEF BackupTypes
  <2>4. RestoreByStep'
    BY <1>1, <2>1, <2>2, CopiesHold DEF RestoreByStep, LiveKept, KeptIn, Restoring
  <2>5. NothingIsLost'
    BY <1>1, <2>2, CopiesHold DEF NothingIsLost
  <2>6. QED
    BY <2>3, <2>4, <2>5 DEF BackupInv
<1>15. CASE RollbackReplaces
  BY <1>1, <1>15 DEF RollbackReplaces, Replace, BackupInv, BackupTypes, RestoreByStep,
       NothingIsLost, LiveKept, KeptIn, Restoring, Script, File
<1>16. CASE RollbackReturns
  BY <1>1, <1>16 DEF RollbackReturns, ScriptEnds, BackupInv, BackupTypes, RestoreByStep,
       NothingIsLost, LiveKept, KeptIn, Restoring, Script, NoScript, PassesChecks
<1>17. CASE RollbackFails
  BY <1>1, <1>17 DEF RollbackFails, ScriptEnds, BackupInv, BackupTypes, RestoreByStep,
       NothingIsLost, LiveKept, KeptIn, Restoring, Script, NoScript
<1>18. CASE ScriptDies
  BY <1>1, <1>18 DEF ScriptDies, BackupInv, BackupTypes, RestoreByStep,
       NothingIsLost, LiveKept, KeptIn, Restoring, Script, NoScript
<1>19. CASE UNCHANGED backupVars
  BY <1>1, <1>19 DEF backupVars, BackupInv, BackupTypes, RestoreByStep,
       NothingIsLost, LiveKept, KeptIn, Restoring
<1>20. QED
  BY <1>2, <1>3, <1>4, <1>5, <1>6, <1>7, <1>8, <1>9, <1>10, <1>11, <1>12, <1>13, <1>14,
     <1>15, <1>16, <1>17, <1>18, <1>19 DEF BackupNext

(* Whichever step of a restore fails, whatever is damaged and whenever the script dies,
   the database or a checked backup holds what the database held when the restore began
   (beta_backup.py:222). *)
THEOREM RestoresLoseNothing == Spec => []NothingIsLost
<1>1. Init => BackupInv
  BY BackupInitInv DEF Init
<1>2. BackupInv /\ [Next]_vars => BackupInv'
  BY BackupNextInv, PartsStep
<1>3. BackupInv => NothingIsLost
  BY DEF BackupInv
<1>4. QED
  BY <1>1, <1>2, <1>3, PTL DEF Spec

\* Backups are only added, their files stay, and a manifest is not withdrawn.
BackupsRemain ==
    /\ DOMAIN backups \subseteq DOMAIN backups'
    /\ \A b \in DOMAIN backups : /\ backups'[b].file = backups[b].file
                                 /\ backups[b].manifest => backups'[b].manifest

\* Only its instance changes the database file, or a restore that has a checked backup
\* of what there was when it began.
ReplacedOnceSaved ==
    live' # live => instance \/ instance' \/ \E b \in DOMAIN backups : KeptIn(b)

LEMMA BackupsRemainNext ==
  BackupInv /\ [BackupNext]_backupVars => [BackupsRemain /\ ReplacedOnceSaved]_backupVars
<1> SUFFICES ASSUME BackupInv, BackupNext PROVE BackupsRemain /\ ReplacedOnceSaved
  OBVIOUS
<1>1. BackupTypes /\ RestoreByStep
  BY DEF BackupInv
<1>2. ASSUME UNCHANGED backups PROVE BackupsRemain
  BY <1>2 DEF BackupsRemain
<1>3. ASSUME NEW next, CopyDatabase(next) PROVE BackupsRemain /\ UNCHANGED live
  BY <1>1, <1>3, BackupsGrow DEF BackupsRemain
<1>4. ASSUME NEW from \in {"backup", "saving"}, NEW to, RecordManifest(from, to)
      PROVE  BackupsRemain /\ UNCHANGED live
  <2>1. script.saved \in DOMAIN backups
    BY <1>1, <1>4 DEF RecordManifest, RestoreByStep
  <2>2. QED
    BY <1>1, <1>4, <2>1, ManifestsGrow DEF BackupsRemain
<1>5. ASSUME UNCHANGED live PROVE ReplacedOnceSaved
  BY <1>5 DEF ReplacedOnceSaved
<1>6. CASE Commit \/ InstanceStops \/ InstanceStarts
  BY <1>2, <1>6 DEF Commit, InstanceStops, InstanceStarts, ReplacedOnceSaved
<1>7. CASE RestoreReplaces \/ RollbackReplaces
  <2>1. KeptIn(script.saved) /\ UNCHANGED backups
    BY <1>1, <1>7 DEF RestoreReplaces, RollbackReplaces, Replace, RestoreByStep
  <2>2. QED
    BY <1>2, <2>1 DEF ReplacedOnceSaved, KeptIn
<1>8. CASE \/ BackupCopies \/ RestoreSaves \/ BackupRecords \/ RestoreRecords
  BY <1>3, <1>4, <1>5, <1>8 DEF BackupCopies, RestoreSaves, BackupRecords, RestoreRecords
<1>9. CASE \/ \E b \in DOMAIN backups : RestoreChecks(b)
           \/ RestoreCopies \/ RollbackCopies \/ ScriptDies
           \/ RestoreReturns \/ RestoreFails \/ RollbackReturns \/ RollbackFails
  BY <1>2, <1>5, <1>9
     DEF RestoreChecks, RestoreCopies, RollbackCopies, CopyFile, ScriptDies,
         RestoreReturns, RestoreFails, RollbackReturns, RollbackFails, ScriptEnds
<1>10. QED
  BY <1>6, <1>7, <1>8, <1>9 DEF BackupNext

(* The scripts only add to the backups, and replace the database of a participant when a
   checked backup of it has a manifest, in a restore as in its rollback
   (beta_backup.py restore_participant). *)
THEOREM RestoresFollowBackups == Spec => [][BackupsRemain /\ ReplacedOnceSaved]_backupVars
<1>1. Init => BackupInv
  BY BackupInitInv DEF Init
<1>2. BackupInv /\ [Next]_vars => BackupInv'
  BY BackupNextInv, PartsStep
<1>3. BackupInv /\ [Next]_vars => [BackupsRemain /\ ReplacedOnceSaved]_backupVars
  BY BackupsRemainNext, PartsStep
<1>4. QED
  BY <1>1, <1>2, <1>3, PTL DEF Spec

-------------------------------------------------------------------------------
(* Accounts: what is in use stays open *)

\* An account has its own database, or that of its invitation.
RegistryInv ==
    /\ invites \in [Invites -> Invite]
    /\ accounts \in [Accounts -> SUBSET Databases]
    /\ \A a \in Accounts : accounts[a] \subseteq {a} \cup Legacies
    /\ \A a, b \in Accounts : accounts[a] \cap accounts[b] # {} => a = b

LEMMA RegistryInitInv == AccountInit => RegistryInv
BY DEF AccountInit, RegistryInv, Invite

LEMMA RegistryNextInv == RegistryInv /\ [AccountNext]_accountVars => RegistryInv'
<1> SUFFICES ASSUME RegistryInv, [AccountNext]_accountVars PROVE RegistryInv'
  OBVIOUS
<1>1. CASE UNCHANGED <<invites, accounts>>
  BY <1>1 DEF RegistryInv
<1>2. ASSUME NEW i \in Invites, NEW binds \in {{}} \cup {{l} : l \in Legacies},
             IssueInvite(i, binds)
      PROVE  RegistryInv'
  <2>1. [status |-> "open", binds |-> binds] \in Invite
    BY DEF Invite
  <2>2. QED
    BY <1>2, <2>1 DEF IssueInvite, RegistryInv
<1>3. ASSUME NEW i \in Invites, VoidInvite(i) PROVE RegistryInv'
  BY <1>3 DEF VoidInvite, RegistryInv, Invite
<1>4. ASSUME NEW i \in Invites, NEW a \in Accounts, Claim(i, a) PROVE RegistryInv'
  <2> DEFINE database == IF invites[i].binds = {} THEN {a} ELSE invites[i].binds
  <2>1. invites[i].binds \subseteq Legacies
    BY DEF RegistryInv, Invite
  <2>2. invites' \in [Invites -> Invite]
    BY <1>4 DEF Claim, RegistryInv, Invite
  <2>3. accounts' = [accounts EXCEPT ![a] = database]
    BY <1>4 DEF Claim
  <2>4. database \subseteq {a} \cup Legacies /\ database \subseteq Databases
    BY <2>1 DEF Databases
  <2>5. ASSUME NEW b \in Accounts, b # a PROVE database \cap accounts[b] = {}
    <3>1. invites[i].binds \cap accounts[b] = {}
      BY <1>4 DEF Claim, Unbound
    <3>2. {a} \cap accounts[b] = {}
      BY <2>5, AccountNames DEF RegistryInv
    <3>3. QED
      BY <3>1, <3>2
  <2>6. accounts' \in [Accounts -> SUBSET Databases]
    BY <2>3, <2>4 DEF RegistryInv
  <2>7. \A b \in Accounts : accounts'[b] = IF b = a THEN database ELSE accounts[b]
    BY <2>3 DEF RegistryInv
  <2> HIDE DEF database
  <2>8. \A b \in Accounts : accounts'[b] \subseteq {b} \cup Legacies
    BY <2>4, <2>7 DEF RegistryInv
  <2>9. \A b, c \in Accounts : accounts'[b] \cap accounts'[c] # {} => b = c
    BY <2>5, <2>7 DEF RegistryInv
  <2>10. QED
    BY <2>2, <2>6, <2>8, <2>9 DEF RegistryInv
<1>5. QED
  BY <1>1, <1>2, <1>3, <1>4 DEF AccountNext, accountVars, registryVars, Login, SessionEnds,
     ProcessEnds, WorkerClaims, WorkerFinishes, TimePasses, SweepInspects, SweepSpares,
     SweepCloses, CloseFails, Route, Lease, Enqueue, Release

Leased(a) == {r \in Requests : requests[r] = [op |-> "leased", account |-> {a}]}

Served == [op : {"idle", "routed", "leased"}, account : {{}} \cup {{a} : a \in Accounts}]

\* An entry counts its leases, and one that a sweep has found idle gets none.
PoolInv ==
    /\ pool \in [Accounts -> Entry]
    /\ sweeping \subseteq Accounts
    /\ jobs \in [Accounts -> {"none", "PENDING", "RUNNING", "ORPHAN"}]
    /\ requests \in [Requests -> Served]
    /\ \A a \in Accounts : pool[a].leases = Cardinality(Leased(a))
    /\ \A a \in sweeping : pool[a].leases = 0
    /\ \A a \in Accounts : pool[a].app = "none" => pool[a].leases = 0 /\ jobs[a] # "RUNNING"

LEMMA PoolInitInv == AccountInit => PoolInv
<1> SUFFICES ASSUME AccountInit PROVE PoolInv
  OBVIOUS
<1>1. \A a \in Accounts : Leased(a) = {}
  BY DEF AccountInit, Leased, NoRequest
<1>2. QED
  BY <1>1, FS_EmptySet DEF AccountInit, PoolInv, NoEntry, Entry, NoRequest, Served

\* A request that is leased is counted.
LEMMA LeasedAreCounted ==
  ASSUME PoolInv, NEW a \in Accounts
  PROVE  /\ IsFiniteSet(Leased(a)) /\ Cardinality(Leased(a)) \in Nat
         /\ \A r \in Leased(a) : pool[a].leases > 0 /\ pool[a].app # "none"
<1>1. IsFiniteSet(Leased(a)) /\ Cardinality(Leased(a)) \in Nat
  <2>1. Leased(a) \subseteq Requests
    BY DEF Leased
  <2>2. QED
    BY <2>1, AccountNames, FS_Subset, FS_CardinalityType
<1>2. ASSUME NEW r \in Leased(a) PROVE Cardinality(Leased(a)) # 0
  BY <1>1, FS_EmptySet
<1>3. QED
  BY <1>1, <1>2 DEF PoolInv

\* Where requests with a lease neither come nor go, the counts stay.
LEMMA SameLeases ==
  ASSUME PoolInv, \A a \in Accounts : Leased(a)' = Leased(a),
         \A a \in Accounts : pool'[a].leases = pool[a].leases
  PROVE  \A a \in Accounts : pool'[a].leases = Cardinality(Leased(a)')
BY DEF PoolInv

LEMMA PoolNextInv == PoolInv /\ [AccountNext]_accountVars => PoolInv'
<1> SUFFICES ASSUME PoolInv, [AccountNext]_accountVars PROVE PoolInv'
  OBVIOUS
<1>1. CASE UNCHANGED <<pool, sweeping, jobs, requests>>
  <2>1. \A a \in Accounts : Leased(a)' = Leased(a)
    BY <1>1 DEF Leased
  <2>2. QED
    BY <1>1, <2>1 DEF PoolInv
<1>2. ASSUME NEW r \in Requests, NEW a \in Accounts, Route(r, a) PROVE PoolInv'
  <2>1. requests' \in [Requests -> Served]
    BY <1>2 DEF Route, PoolInv, Served
  <2>2. \A b \in Accounts : Leased(b)' = Leased(b)
    BY <1>2 DEF Route, PoolInv, Served, Leased
  <2>3. QED
    BY <1>2, <2>1, <2>2 DEF Route, PoolInv
<1>3. ASSUME NEW r \in Requests, NEW a \in Accounts, Lease(r, a) PROVE PoolInv'
  <2>1. requests' \in [Requests -> Served]
    BY <1>3 DEF Lease, PoolInv, Served
  <2>2. requests[r].op = "routed" /\ r \notin Leased(a)
    BY <1>3 DEF Lease, Leased
  <2> DEFINE lease == [op |-> "leased", account |-> {a}]
  <2>3. /\ Leased(a)' = Leased(a) \cup {r}
        /\ \A b \in Accounts \ {a} : Leased(b)' = Leased(b)
    <3>1. requests' = [requests EXCEPT ![r] = lease]
      <4>1. [requests[r] EXCEPT !.op = "leased"] = lease
        BY <1>3 DEF Lease
      <4>2. requests' = [requests EXCEPT ![r] = [requests[r] EXCEPT !.op = "leased"]]
        BY <1>3 DEF Lease
      <4>3. QED
        BY <4>1, <4>2
    <3>2. \A q \in Requests : requests'[q] = IF q = r THEN lease ELSE requests[q]
      BY <3>1 DEF PoolInv
    <3>3. \A b \in Accounts \ {a} : lease # [op |-> "leased", account |-> {b}]
      <4>1. ASSUME NEW b \in Accounts \ {a} PROVE {a} # {b}
        OBVIOUS
      <4>2. QED
        BY <4>1
    <3>4. \A b \in Accounts : r \notin Leased(b)
      BY <2>2 DEF Leased
    <3>5. QED
      BY <3>2, <3>3, <3>4 DEF Leased
  <2>5. Cardinality(Leased(a)') = Cardinality(Leased(a)) + 1
    BY <2>2, <2>3, LeasedAreCounted, FS_AddElement
  <2>6. /\ pool' \in [Accounts -> Entry]
        /\ pool'[a].leases = pool[a].leases + 1 /\ pool'[a].app # "none"
        /\ \A b \in Accounts \ {a} : pool'[b] = pool[b]
    <3>1. pool[a] \in Entry /\ (pool[a].app = "none" => pool[a].leases = 0)
      BY DEF PoolInv
    <3>2. CASE pool[a].app = "none"
      <4>1. pool' = [pool EXCEPT ![a] = [app |-> "open", leases |-> 1, idle |-> FALSE]]
        BY <1>3, <3>2 DEF Lease
      <4>2. QED
        BY <3>1, <3>2, <4>1 DEF PoolInv, Entry
    <3>3. CASE pool[a].app # "none"
      <4>1. pool' = [pool EXCEPT ![a].leases = pool[a].leases + 1]
        BY <1>3, <3>3 DEF Lease
      <4>2. QED
        BY <3>1, <3>3, <4>1 DEF PoolInv, Entry
    <3>4. QED
      BY <3>2, <3>3
  <2>7. \A b \in Accounts : pool'[b].leases = Cardinality(Leased(b)')
    BY <2>3, <2>5, <2>6 DEF PoolInv
  <2>8. QED
    BY <1>3, <2>1, <2>6, <2>7 DEF Lease, PoolInv
<1>4. ASSUME NEW r \in Requests, NEW a \in Accounts, Enqueue(r, a) PROVE PoolInv'
  <2>1. \A b \in Accounts : Leased(b)' = Leased(b)
    BY <1>4 DEF Enqueue, Leased
  <2>2. QED
    BY <1>4, <2>1 DEF Enqueue, PoolInv
<1>5. ASSUME NEW r \in Requests, NEW a \in Accounts, Release(r, a) PROVE PoolInv'
  <2>1. requests' \in [Requests -> Served]
    BY <1>5 DEF Release, PoolInv, Served, NoRequest
  <2>2. r \in Leased(a)
    BY <1>5 DEF Release, Leased
  <2>3. Leased(a)' = Leased(a) \ {r}
    BY <1>5 DEF Release, PoolInv, Served, Leased, NoRequest
  <2>4. \A b \in Accounts \ {a} : Leased(b)' = Leased(b)
    <3>1. \A q \in Requests : requests'[q] = IF q = r THEN NoRequest ELSE requests[q]
      BY <1>5 DEF Release, PoolInv
    <3>2. \A b \in Accounts \ {a} : r \notin Leased(b)
      <4>1. ASSUME NEW b \in Accounts \ {a} PROVE {a} # {b}
        OBVIOUS
      <4>2. QED
        BY <1>5, <4>1 DEF Release, Leased
    <3>3. QED
      BY <3>1, <3>2 DEF Leased, NoRequest
  <2>5. /\ Cardinality(Leased(a)') = Cardinality(Leased(a)) - 1
        /\ pool[a].leases > 0 /\ pool[a].app # "none"
    BY <2>2, <2>3, LeasedAreCounted, FS_RemoveElement
  <2>6. /\ pool' \in [Accounts -> Entry]
        /\ pool'[a].leases = pool[a].leases - 1 /\ pool'[a].app = pool[a].app
        /\ \A b \in Accounts \ {a} : pool'[b] = pool[b]
    <3>1. pool[a] \in Entry
      BY DEF PoolInv
    <3>2. pool[a].leases - 1 \in Nat
      BY <2>5, <3>1 DEF Entry
    <3>3. pool' = [pool EXCEPT ![a] = [pool[a] EXCEPT !.leases = pool[a].leases - 1,
                                                      !.idle = FALSE]]
      BY <1>5 DEF Release
    <3>4. QED
      BY <3>1, <3>2, <3>3 DEF PoolInv, Entry
  <2>7. \A b \in Accounts : pool'[b].leases = Cardinality(Leased(b)')
    BY <2>4, <2>5, <2>6 DEF PoolInv
  <2>8. QED
    BY <1>5, <2>1, <2>5, <2>6, <2>7 DEF Release, PoolInv
<1>6. ASSUME NEW a \in Accounts, WorkerClaims(a) \/ WorkerFinishes(a) PROVE PoolInv'
  <2>1. \A b \in Accounts : Leased(b)' = Leased(b)
    BY <1>6 DEF WorkerClaims, WorkerFinishes, Leased
  <2>2. QED
    BY <1>6, <2>1 DEF WorkerClaims, WorkerFinishes, PoolInv
<1>7. ASSUME NEW a \in Accounts, TimePasses(a) PROVE PoolInv'
  <2>1. \A b \in Accounts : Leased(b)' = Leased(b)
    BY <1>7 DEF TimePasses, Leased
  <2>2. QED
    BY <1>7, <2>1 DEF TimePasses, PoolInv, Entry
<1>8. ASSUME NEW a \in Accounts, SweepInspects(a) \/ SweepSpares(a) PROVE PoolInv'
  <2>1. \A b \in Accounts : Leased(b)' = Leased(b)
    BY <1>8 DEF SweepInspects, SweepSpares, Leased
  <2>2. QED
    BY <1>8, <2>1 DEF SweepInspects, SweepSpares, PoolInv
<1>9. ASSUME NEW a \in Accounts, SweepCloses(a) PROVE PoolInv'
  <2>1. \A b \in Accounts : Leased(b)' = Leased(b)
    BY <1>9 DEF SweepCloses, Leased
  <2>2. pool[a].leases = 0 /\ jobs[a] = "none"
    BY <1>9 DEF SweepCloses, HasWork, PoolInv
  <2>3. QED
    BY <1>9, <2>1, <2>2 DEF SweepCloses, PoolInv, Entry, NoEntry
<1>10. ASSUME NEW a \in Accounts, CloseFails(a) PROVE PoolInv'
  <2>1. \A b \in Accounts : Leased(b)' = Leased(b)
    BY <1>10 DEF CloseFails, Leased
  <2>2. QED
    BY <1>10, <2>1 DEF CloseFails, PoolInv, Entry
<1>11. CASE ProcessEnds
  <2>1. \A b \in Accounts : Leased(b)' = {}
    BY <1>11 DEF ProcessEnds, Leased, NoRequest
  <2>2. QED
    BY <1>11, <2>1, FS_EmptySet DEF ProcessEnds, PoolInv, Entry, NoEntry, NoRequest, Served
<1>12. QED
  BY <1>1, <1>2, <1>3, <1>4, <1>5, <1>6, <1>7, <1>8, <1>9, <1>10, <1>11 DEF AccountNext,
     accountVars, poolVars, IssueInvite, VoidInvite, Claim, Login, SessionEnds

(* For any number of accounts and requests, and any number of sweeps, failed shutdowns and
   ends of the process: what is leased or runs a job is open, and no two accounts share a
   database (accounts.py:26). *)
THEOREM ApplicationsStayOpen == Spec => []UsedApplicationsStayOpen
<1>1. Init => RegistryInv /\ PoolInv
  BY RegistryInitInv, PoolInitInv DEF Init
<1>2. RegistryInv /\ PoolInv /\ [Next]_vars => (RegistryInv /\ PoolInv)'
  BY RegistryNextInv, PoolNextInv, PartsStep
<1>3. RegistryInv /\ PoolInv => UsedApplicationsStayOpen
  <2> SUFFICES ASSUME RegistryInv, PoolInv PROVE UsedApplicationsStayOpen
    OBVIOUS
  <2>1. ASSUME NEW r \in Requests, NEW a \in requests[r].account, requests[r].op = "leased"
        PROVE  pool[a].app # "none" /\ pool[a].leases > 0
    <3>1. requests[r] \in Served
      BY DEF PoolInv
    <3>2. a \in Accounts /\ requests[r] = [op |-> "leased", account |-> {a}]
      BY <2>1, <3>1 DEF Served
    <3>3. r \in Leased(a)
      BY <3>2 DEF Leased
    <3>4. QED
      BY <3>2, <3>3, LeasedAreCounted
  <2>2. QED
    BY <2>1 DEF UsedApplicationsStayOpen, RegistryInv, PoolInv
<1>4. QED
  BY <1>1, <1>2, <1>3, PTL DEF Spec

-------------------------------------------------------------------------------
(* Copies: what is copied from a moving original holds together *)

\* Every proposal starts from one of the first snapshots.
StartFrom(proposals, last) == \A proposal \in proposals : proposal[1] \in 1 .. last

\* The canvas is that of the current snapshot, or its edit was proposed.
Shown(project) ==
    \/ project.current \in {0, project.shows}
    \/ <<project.current, project.edits>> \in project.proposals

Whole(project) ==
    /\ project.current <= project.last
    /\ project.open \subseteq project.proposals
    /\ StartFrom(project.proposals, project.last)
    /\ ~project.torn => project.current = project.last /\ Shown(project)

\* What a copy has read: of an original that is still there no snapshot has gone, and of
\* one that has not changed it is what there is.
InStep(copier) ==
    LET original == projects[copier.project] IN
    copier.op # "idle" =>
        /\ copier.project \in Ids
        /\ Exists(copier.project) =>
             /\ copier.current <= original.last
             /\ copier.op \in {"proposals", "write"} => copier.current <= copier.last
        /\ copier.op = "write" => copier.open \subseteq copier.proposals
        /\ copier.op = "write" /\ copier.resolved => StartFrom(copier.proposals, copier.last)
        /\ ~copier.torn =>
             /\ Exists(copier.project)
             /\ copier.current = original.current
             /\ copier.op \in {"proposals", "write"} => copier.last = original.last
             /\ copier.op = "write" => copier.proposals = original.proposals

HoldsTogether(p) ==
    Exists(p) => /\ Whole(projects[p])
                 /\ projects[p].parent # 0 => Exists(projects[p].parent)

CopyInv ==
    /\ projects \in Seq(Project)
    /\ copiers \in [Copiers -> Copier]
    /\ \A p \in Ids : HoldsTogether(p)
    /\ \A t \in Copiers : InStep(copiers[t])

LEMMA NoCopierIsCopier == NoCopier \in Copier /\ InStep(NoCopier)
BY DEF NoCopier, Copier, InStep

LEMMA CopyInitInv == CopyInit => CopyInv
<1> SUFFICES ASSUME CopyInit PROVE CopyInv
  OBVIOUS
<1>1. PICK status \in {"example", "active"} : projects = <<EmptyProject(status)>>
  BY DEF CopyInit
<1> DEFINE project == EmptyProject(status)
<1>2. /\ project \in Project /\ project.parent = 0 /\ project.open = {}
      /\ project.proposals = {} /\ project.current = 0 /\ project.last = 0
  BY DEF Project, EmptyProject
<1>3. projects = <<project>>
  BY <1>1
<1> HIDE DEF project
<1>4. projects \in Seq(Project) /\ Ids = {1} /\ projects[1] = project
  BY <1>2, <1>3 DEF Ids
<1>5. HoldsTogether(1)
  BY <1>2, <1>4 DEF HoldsTogether, Whole, StartFrom, Shown
<1>6. QED
  BY <1>4, <1>5, NoCopierIsCopier DEF CopyInit, CopyInv

\* A project goes on: it keeps its snapshots and its parent, and either tears the copies
\* in the making or changes nothing they read.
LEMMA ProjectGoesOn ==
  ASSUME CopyInv, NEW p \in Ids, NEW project \in Project, Exists(p),
         projects' = [projects EXCEPT ![p] = project],
         project.status # "purged", project.parent = projects[p].parent,
         Whole(project), projects[p].last <= project.last,
         \/ Tears(p)
         \/ /\ UNCHANGED copiers
            /\ project.current = projects[p].current
            /\ project.last = projects[p].last
            /\ project.proposals = projects[p].proposals
  PROVE  CopyInv'
<1>1. projects \in Seq(Project) /\ copiers \in [Copiers -> Copier]
  BY DEF CopyInv
<1>2. /\ projects' \in Seq(Project) /\ Ids' = Ids
      /\ \A q \in Ids : projects'[q] = IF q = p THEN project ELSE projects[q]
  BY <1>1, SeqUpdate DEF Ids
<1>3. \A q : /\ q \in Ids' /\ projects'[q].status # "purged" <=> Exists(q)
             /\ Exists(q)' <=> Exists(q)
  BY <1>2 DEF Exists
<1>4. ASSUME NEW q \in Ids PROVE HoldsTogether(q)'
  <2>1. HoldsTogether(q) /\ HoldsTogether(p)
    BY DEF CopyInv
  <2>2. QED
    BY <1>2, <1>3, <2>1 DEF HoldsTogether, Exists
<1>5. copiers' \in [Copiers -> Copier]
  <2>1. \A t \in Copiers : [copiers[t] EXCEPT !.torn = TRUE] \in Copier
    BY <1>1 DEF Copier
  <2>2. QED
    BY <1>1, <2>1 DEF Tears
<1>6. ASSUME NEW t \in Copiers PROVE InStep(copiers[t])'
  <2>1. InStep(copiers[t]) /\ copiers[t] \in Copier
    BY <1>1 DEF CopyInv
  <2>2. CASE copiers[t].project # p
    <3>1. copiers'[t] = copiers[t]
      BY <1>1, <2>2 DEF Tears
    <3>2. copiers[t].project \in Ids => projects'[copiers[t].project] = projects[copiers[t].project]
      BY <1>2, <2>2
    <3>3. QED
      BY <1>2, <1>3, <2>1, <3>1, <3>2 DEF InStep
  <2>3. CASE copiers[t].project = p /\ Tears(p)
    <3>1. copiers'[t] = [copiers[t] EXCEPT !.torn = TRUE]
      BY <1>1, <2>3 DEF Tears
    <3>2. /\ copiers'[t].torn
          /\ copiers'[t].op = copiers[t].op /\ copiers'[t].project = p
          /\ copiers'[t].current = copiers[t].current /\ copiers'[t].last = copiers[t].last
          /\ copiers'[t].proposals = copiers[t].proposals
          /\ copiers'[t].open = copiers[t].open /\ copiers'[t].resolved = copiers[t].resolved
      BY <2>1, <2>3, <3>1 DEF Copier
    <3>3. /\ copiers[t].current \in Nat
          /\ projects[p].last \in Nat /\ project.last \in Nat /\ projects'[p].last = project.last
      <4>1. projects[p] \in Project
        BY <1>1, SeqElement DEF Ids
      <4>2. QED
        BY <1>2, <2>1, <4>1 DEF Copier, Project
    <3>4. QED
      BY <1>2, <1>3, <2>1, <2>3, <3>2, <3>3 DEF InStep
  <2>4. CASE copiers[t].project = p /\ ~Tears(p)
    BY <1>2, <1>3, <2>1, <2>4 DEF InStep
  <2>5. QED
    BY <2>2, <2>3, <2>4
<1>7. QED
  BY <1>2, <1>4, <1>5, <1>6 DEF CopyInv

\* A copy goes on, and what it has read is in step.
LEMMA CopierGoesOn ==
  ASSUME CopyInv, NEW t \in Copiers, NEW copier \in Copier, InStep(copier),
         UNCHANGED projects, CopierIs(t, copier)
  PROVE  CopyInv'
<1>1. copiers' \in [Copiers -> Copier]
  BY DEF CopyInv, CopierIs
<1>2. \A u \in Copiers : copiers'[u] = IF u = t THEN copier ELSE copiers[u]
  BY DEF CopyInv, CopierIs
<1>3. ASSUME NEW u \in Copiers PROVE InStep(copiers[u])'
  BY <1>2 DEF CopyInv, InStep, Exists, Ids
<1>4. QED
  BY <1>1, <1>3 DEF CopyInv, Exists, Ids, HoldsTogether, Whole

\* What invariant and type say of one project.
LEMMA ProjectIs ==
  ASSUME CopyInv, NEW p \in Ids, Exists(p)
  PROVE  /\ projects[p] \in Project /\ Whole(projects[p])
         /\ p \in Nat
         /\ projects[p].parent # 0 => Exists(projects[p].parent)
BY SeqElement DEF CopyInv, Ids, HoldsTogether

LEMMA CopyNextInv == CopyInv /\ [CopyNext]_copyVars => CopyInv'
<1> SUFFICES ASSUME CopyInv, [CopyNext]_copyVars PROVE CopyInv'
  OBVIOUS
<1>1. ASSUME NEW p \in Ids, NEW claims \in Nat, NEW open \in SUBSET projects[p].open,
             Exists(p), Replaces(p, claims, open)
      PROVE  CopyInv'
  <2> DEFINE old == projects[p]
             new == [old EXCEPT !.current = old.current + 1, !.last = old.current + 1,
                       !.claims = claims, !.open = open, !.shows = old.current + 1]
  <2>1. old \in Project /\ Whole(old)
    BY <1>1, ProjectIs
  <2>2. /\ old.current \in Nat /\ old.last \in Nat /\ old.open \subseteq Proposal
        /\ old.current = old.last
    BY <1>1, <2>1 DEF Replaces, Whole, Project
  <2>3. /\ new \in Project
        /\ new.status = old.status /\ new.parent = old.parent /\ new.torn = old.torn
        /\ new.current = old.current + 1 /\ new.last = old.current + 1
        /\ new.shows = old.current + 1 /\ new.open = open
        /\ new.proposals = old.proposals
    <3>1. old.current + 1 \in Nat /\ open \in SUBSET Proposal
      BY <2>2
    <3>2. QED
      BY <2>1, <3>1 DEF Project
  <2>4. StartFrom(old.proposals, old.current + 1)
    BY <2>1, <2>2 DEF Whole, StartFrom
  <2>5. Whole(new)
    BY <2>1, <2>2, <2>3, <2>4 DEF Whole, Shown
  <2>6. /\ new.status # "purged" /\ old.last <= new.last /\ Tears(p)
        /\ projects' = [projects EXCEPT ![p] = new]
    BY <1>1, <2>2, <2>3 DEF Replaces, Exists
  <2> HIDE DEF new
  <2>7. QED
    BY <1>1, <2>3, <2>5, <2>6, ProjectGoesOn
<1>1a. ASSUME NEW p \in Ids, ConfirmFirst(p) PROVE CopyInv'
  <2>1. projects[p].claims + 1 \in Nat
    BY <1>1a, ProjectIs DEF ConfirmFirst, Project
  <2>2. QED
    BY <1>1, <1>1a, <2>1 DEF ConfirmFirst
<1>1b. ASSUME NEW p \in Ids, NEW proposal \in projects[p].open, Accept(p, proposal)
       PROVE  CopyInv'
  <2>1. projects[p].claims \in Nat
    BY <1>1b, ProjectIs DEF Accept, Project
  <2>2. PICK claims \in {projects[p].claims, projects[p].claims + 1} :
          Replaces(p, claims, projects[p].open \ {proposal})
    BY <1>1b DEF Accept
  <2>3. claims \in Nat /\ projects[p].open \ {proposal} \in SUBSET projects[p].open
    BY <2>1
  <2>4. QED
    BY <1>1, <1>1b, <2>2, <2>3 DEF Accept
<1>2. ASSUME NEW p \in Ids, Exists(p), Tears(p), NEW added \in SUBSET Proposal,
             StartFrom(added, projects[p].last), NEW open \in SUBSET Proposal,
             open \subseteq projects[p].proposals \cup added,
             NEW shows \in Nat, NEW edits \in Nat,
             \/ shows = projects[p].shows /\ edits = projects[p].edits
             \/ projects[p].current = 0
             \/ <<projects[p].current, edits>> \in added,
             projects' = [projects EXCEPT
               ![p] = [projects[p] EXCEPT !.proposals = projects[p].proposals \cup added,
                         !.open = open, !.shows = shows, !.edits = edits]]
      PROVE  CopyInv'
  <2> DEFINE old == projects[p]
             new == [old EXCEPT !.proposals = old.proposals \cup added, !.open = open,
                                !.shows = shows, !.edits = edits]
  <2>1. old \in Project /\ Whole(old)
    BY <1>2, ProjectIs
  <2>2. /\ new \in Project
        /\ new.status = old.status /\ new.parent = old.parent /\ new.torn = old.torn
        /\ new.current = old.current /\ new.last = old.last /\ old.last \in Nat
        /\ new.shows = shows /\ new.edits = edits /\ new.open = open
        /\ new.proposals = old.proposals \cup added
    <3>1. old.proposals \cup added \in SUBSET Proposal
      BY <2>1 DEF Project
    <3>2. QED
      BY <2>1, <3>1 DEF Project
  <2>3. StartFrom(new.proposals, new.last)
    BY <1>2, <2>1, <2>2 DEF Whole, StartFrom
  <2>4. Shown(old) => Shown(new)
    BY <1>2, <2>2 DEF Shown
  <2>5. Whole(new)
    BY <1>2, <2>1, <2>2, <2>3, <2>4 DEF Whole
  <2>6. /\ new.status # "purged" /\ old.last <= new.last
        /\ projects' = [projects EXCEPT ![p] = new]
    BY <1>2, <2>2 DEF Exists
  <2> HIDE DEF new
  <2>7. QED
    BY <1>2, <2>2, <2>5, <2>6, ProjectGoesOn
<1>2a. ASSUME NEW p \in Ids, ProposeChange(p) PROVE CopyInv'
  <2> DEFINE old      == projects[p]
             proposal == <<old.current, 0>>
  <2>1. old \in Project /\ Whole(old) /\ Exists(p)
    BY <1>2a, ProjectIs DEF ProposeChange
  <2>2. /\ old.current \in Nat /\ old.last \in Nat /\ old.current # 0
        /\ old.shows \in Nat /\ old.edits \in Nat
        /\ old.open \in SUBSET Proposal /\ old.open \subseteq old.proposals
        /\ old.current <= old.last
    BY <1>2a, <2>1 DEF ProposeChange, Project, Whole
  <2>3. {proposal} \in SUBSET Proposal /\ old.open \cup {proposal} \in SUBSET Proposal
    BY <2>2 DEF Proposal
  <2>4. StartFrom({proposal}, old.last)
    BY <2>2 DEF StartFrom
  <2>5. [old EXCEPT !.proposals = @ \cup {proposal}, !.open = @ \cup {proposal}]
          = [old EXCEPT !.proposals = old.proposals \cup {proposal},
                        !.open = old.open \cup {proposal}, !.shows = old.shows,
                        !.edits = old.edits]
    BY <2>1 DEF Project
  <2>6. projects' = [projects EXCEPT
          ![p] = [old EXCEPT !.proposals = @ \cup {proposal}, !.open = @ \cup {proposal}]]
    BY <1>2a DEF ProposeChange
  <2>7. old.open \cup {proposal} \subseteq old.proposals \cup {proposal} /\ Tears(p)
    BY <1>2a, <2>2 DEF ProposeChange
  <2>8. projects' = [projects EXCEPT
          ![p] = [projects[p] EXCEPT !.proposals = projects[p].proposals \cup {proposal},
                    !.open = old.open \cup {proposal}, !.shows = old.shows,
                    !.edits = old.edits]]
    BY <2>5, <2>6
  <2> HIDE DEF proposal
  <2>9. QED
    BY <1>2, <2>1, <2>2, <2>3, <2>4, <2>7, <2>8
<1>2b. ASSUME NEW p \in Ids, NEW proposal \in projects[p].open, Decide(p, proposal)
       PROVE  CopyInv'
  <2> DEFINE old == projects[p]
  <2>1. old \in Project /\ Whole(old) /\ Exists(p) /\ Tears(p)
    BY <1>2b, ProjectIs DEF Decide
  <2>2. /\ old.shows \in Nat /\ old.edits \in Nat
        /\ old.open \ {proposal} \in SUBSET Proposal
        /\ old.open \ {proposal} \subseteq old.proposals \cup {}
        /\ {} \in SUBSET Proposal
    BY <2>1 DEF Project, Whole
  <2>3. StartFrom({}, old.last)
    BY DEF StartFrom
  <2>4. [old EXCEPT !.open = @ \ {proposal}]
          = [old EXCEPT !.proposals = old.proposals \cup {}, !.open = old.open \ {proposal},
                        !.shows = old.shows, !.edits = old.edits]
    BY <2>1 DEF Project
  <2>5. projects' = [projects EXCEPT ![p] = [old EXCEPT !.open = @ \ {proposal}]]
    BY <1>2b DEF Decide
  <2>6. projects' = [projects EXCEPT
          ![p] = [projects[p] EXCEPT !.proposals = projects[p].proposals \cup {},
                    !.open = old.open \ {proposal}, !.shows = old.shows,
                    !.edits = old.edits]]
    BY <2>4, <2>5
  <2>7. QED
    BY <1>2, <2>1, <2>2, <2>3, <2>6
<1>2c. ASSUME NEW p \in Ids, UpdateCanvas(p) PROVE CopyInv'
  <2> DEFINE old   == projects[p]
             added == Reconciliation(old)
  <2>1. old \in Project /\ Whole(old) /\ Exists(p) /\ Tears(p)
    BY <1>2c, ProjectIs DEF UpdateCanvas
  <2>2. /\ old.current \in Nat /\ old.last \in Nat /\ old.edits + 1 \in Nat
        /\ old.open \in SUBSET Proposal /\ old.open \subseteq old.proposals
        /\ old.current <= old.last /\ 0 \in Nat
    BY <2>1 DEF Project, Whole
  <2>3. added \in SUBSET Proposal /\ StartFrom(added, old.last)
    <3>1. CASE old.current = 0
      BY <3>1 DEF Reconciliation, StartFrom
    <3>2. CASE old.current # 0
      BY <2>2, <3>2 DEF Reconciliation, StartFrom, Proposal
    <3>3. QED
      BY <3>1, <3>2
  <2>4. old.current = 0 \/ <<old.current, old.edits + 1>> \in added
    BY DEF Reconciliation
  <2>5. [old EXCEPT !.edits = @ + 1, !.shows = 0, !.proposals = @ \cup added,
                    !.open = @ \cup added]
          = [old EXCEPT !.proposals = old.proposals \cup added,
                        !.open = old.open \cup added, !.shows = 0, !.edits = old.edits + 1]
    BY <2>1 DEF Project
  <2>6. projects' = [projects EXCEPT
          ![p] = [old EXCEPT !.edits = @ + 1, !.shows = 0, !.proposals = @ \cup added,
                             !.open = @ \cup added]]
    BY <1>2c DEF UpdateCanvas
  <2> HIDE DEF added
  <2>7. /\ old.open \cup added \in SUBSET Proposal
        /\ old.open \cup added \subseteq old.proposals \cup added
    BY <2>2, <2>3
  <2>8. projects' = [projects EXCEPT
          ![p] = [projects[p] EXCEPT !.proposals = projects[p].proposals \cup added,
                    !.open = old.open \cup added, !.shows = 0, !.edits = old.edits + 1]]
    BY <2>5, <2>6
  <2>9. QED
    BY <1>2, <2>1, <2>2, <2>3, <2>4, <2>7, <2>8
<1>3. ASSUME NEW p \in Ids, NEW kept \in BOOLEAN,
             NEW status \in {"example", "active", "trashed"}, Exists(p),
             projects' = [projects EXCEPT ![p] = [projects[p] EXCEPT !.status = status,
                                                                     !.kept = kept]],
             UNCHANGED copiers
      PROVE  CopyInv'
  <2> DEFINE old == projects[p]
             new == [old EXCEPT !.status = status, !.kept = kept]
  <2>1. old \in Project /\ Whole(old)
    BY <1>3, ProjectIs
  <2>2. /\ new \in Project
        /\ new.status = status /\ new.parent = old.parent /\ new.torn = old.torn
        /\ new.current = old.current /\ new.last = old.last
        /\ new.shows = old.shows /\ new.edits = old.edits
        /\ new.proposals = old.proposals /\ new.open = old.open /\ old.last \in Nat
    BY <2>1 DEF Project
  <2>3. Whole(new) /\ old.last <= new.last /\ new.status # "purged"
    BY <2>1, <2>2 DEF Whole, Shown
  <2>4. projects' = [projects EXCEPT ![p] = new]
    BY <1>3
  <2> HIDE DEF new
  <2>5. QED
    BY <1>3, <2>2, <2>3, <2>4, ProjectGoesOn
<1>3a. ASSUME NEW p \in Ids, KeepRows(p) PROVE CopyInv'
  <2>1. projects[p] \in Project /\ Exists(p)
    BY <1>3a, ProjectIs DEF KeepRows
  <2>2. projects[p].status \in {"example", "active", "trashed"}
    BY <2>1 DEF Project, Exists
  <2>3. [projects[p] EXCEPT !.kept = TRUE]
          = [projects[p] EXCEPT !.status = projects[p].status, !.kept = TRUE]
    BY <2>1 DEF Project
  <2>4. projects' = [projects EXCEPT ![p] = [projects[p] EXCEPT !.kept = TRUE]]
    BY <1>3a DEF KeepRows
  <2>5. QED
    BY <1>3, <1>3a, <2>1, <2>2, <2>3, <2>4 DEF KeepRows
<1>3b. ASSUME NEW p \in Ids, NEW status \in {"active", "trashed"}, Exists(p),
              projects' = [projects EXCEPT ![p].status = status], UNCHANGED copiers
       PROVE  CopyInv'
  <2>1. projects[p] \in Project
    BY <1>3b, ProjectIs
  <2>2. projects[p].kept \in BOOLEAN
    BY <2>1 DEF Project
  <2>3. [projects[p] EXCEPT !.status = status]
          = [projects[p] EXCEPT !.status = status, !.kept = projects[p].kept]
    BY <2>1 DEF Project
  <2>4. projects' = [projects EXCEPT ![p] = [projects[p] EXCEPT !.status = status]]
    BY <1>3b
  <2>5. QED
    BY <1>3, <1>3b, <2>2, <2>3, <2>4
<1>3c. ASSUME NEW p \in Ids, Trash(p) \/ TakeBack(p) PROVE CopyInv'
  BY <1>3b, <1>3c DEF Trash, TakeBack
<1>4. ASSUME NEW t \in Copiers, NEW p \in Ids, CopyReadsProject(t, p) PROVE CopyInv'
  <2> DEFINE new == [NoCopier EXCEPT !.op = "claims", !.project = p,
                                     !.current = projects[p].current]
  <2>1. Exists(p) /\ projects[p] \in Project /\ Whole(projects[p]) /\ p \in Nat
    BY <1>4, ProjectIs DEF CopyReadsProject
  <2>2. new \in Copier
    BY <2>1 DEF Copier, NoCopier, Project
  <2>3. InStep(new)
    BY <2>1 DEF InStep, NoCopier, Whole
  <2>4. QED
    BY <1>4, <2>2, <2>3, CopierGoesOn DEF CopyReadsProject
<1>5. ASSUME NEW t \in Copiers, CopyReadsClaims(t) PROVE CopyInv'
  <2> DEFINE p   == copiers[t].project
             new == [copiers[t] EXCEPT !.op = "snapshots",
                       !.claims = IF Exists(p) THEN projects[p].claims ELSE 0]
  <2>1. copiers[t] \in Copier /\ InStep(copiers[t])
    BY DEF CopyInv
  <2>2. Exists(p) => projects[p].claims \in Nat
    BY ProjectIs DEF Exists, Project
  <2>3. new \in Copier
    BY <2>1, <2>2 DEF Copier
  <2>4. InStep(new)
    BY <1>5, <2>1 DEF CopyReadsClaims, InStep, Copier
  <2>5. QED
    BY <1>5, <2>3, <2>4, CopierGoesOn DEF CopyReadsClaims
<1>6. ASSUME NEW t \in Copiers, CopyReadsSnapshots(t) PROVE CopyInv'
  <2> DEFINE p   == copiers[t].project
             new == [copiers[t] EXCEPT !.op = "proposals",
                       !.last = IF Exists(p) THEN projects[p].last ELSE 0,
                       !.resolved = Exists(p) => projects[p].claims <= copiers[t].claims]
  <2>1. copiers[t] \in Copier /\ InStep(copiers[t])
    BY DEF CopyInv
  <2>2. Exists(p) => projects[p].last \in Nat
    BY ProjectIs DEF Exists, Project
  <2>3. (Exists(p) => projects[p].claims <= copiers[t].claims) \in BOOLEAN
    OBVIOUS
  <2>4. new \in Copier
    BY <2>1, <2>2, <2>3 DEF Copier
  <2>5. InStep(new)
    BY <1>6, <2>1 DEF CopyReadsSnapshots, InStep, Copier
  <2>6. QED
    BY <1>6, <2>4, <2>5, CopierGoesOn DEF CopyReadsSnapshots
<1>7. ASSUME NEW t \in Copiers, CopyReadsProposals(t) PROVE CopyInv'
  <2> DEFINE p         == copiers[t].project
             proposals == IF Exists(p) THEN projects[p].proposals ELSE {}
             open      == IF Exists(p) THEN projects[p].open ELSE {}
             new       == [copiers[t] EXCEPT !.op = "write", !.proposals = proposals,
                             !.open = open, !.resolved = Resolved(copiers[t], proposals)]
  <2>1. copiers[t] \in Copier /\ InStep(copiers[t])
    BY DEF CopyInv
  <2>2. proposals \in SUBSET Proposal /\ open \in SUBSET Proposal /\ open \subseteq proposals
    <3>1. CASE Exists(p)
      <4>1. p \in Ids
        BY <3>1 DEF Exists
      <4>2. QED
        BY <3>1, <4>1, ProjectIs DEF Project, Whole
    <3>2. CASE ~Exists(p)
      BY <3>2
    <3>3. QED
      BY <3>1, <3>2
  <2>3. /\ Resolved(copiers[t], proposals) \in BOOLEAN
        /\ Resolved(copiers[t], proposals) => StartFrom(proposals, copiers[t].last)
    BY <2>1 DEF Resolved, Copier, StartFrom
  <2>4. Exists(p) => proposals = projects[p].proposals
    OBVIOUS
  <2>5. CopierIs(t, new) /\ copiers[t].op = "proposals" /\ UNCHANGED projects
    BY <1>7 DEF CopyReadsProposals
  <2> HIDE DEF proposals, open
  <2>6. /\ new \in Copier
        /\ new.op = "write" /\ new.proposals = proposals /\ new.open = open
        /\ new.resolved = Resolved(copiers[t], proposals)
        /\ new.project = p /\ new.current = copiers[t].current
        /\ new.last = copiers[t].last /\ new.torn = copiers[t].torn
    BY <2>1, <2>2, <2>3 DEF Copier
  <2>7. InStep(new)
    BY <2>1, <2>2, <2>3, <2>4, <2>5, <2>6 DEF InStep
  <2> HIDE DEF new
  <2>8. QED
    BY <2>5, <2>6, <2>7, CopierGoesOn
<1>8. ASSUME NEW t \in Copiers, CopyWrites(t) PROVE CopyInv'
  <2> DEFINE copier == copiers[t]
             p      == copier.project
             copy   == Copied(copier)
  <2>1. copier \in Copier /\ InStep(copier) /\ Exists(p) /\ p \in Ids
    BY <1>8 DEF CopyWrites, CopyInv, Exists
  <2>2. projects[p] \in Project /\ Whole(projects[p]) /\ p \in Nat
    BY <2>1, ProjectIs
  <2>3. /\ copy \in Project
        /\ copy.status = "active" /\ copy.parent = p
        /\ copy.current = copier.current /\ copy.last = copier.last
        /\ copy.open = copier.open /\ copy.proposals = copier.proposals
        /\ copy.shows = projects[p].shows /\ copy.edits = projects[p].edits
        /\ copy.torn = (copier.torn \/ projects[p].torn)
    BY <2>1, <2>2 DEF Copied, Project, Copier
  <2>4. copier.op = "write" /\ copier.resolved
    BY <1>8 DEF CopyWrites
  <2>5. Whole(copy)
    BY <2>1, <2>2, <2>3, <2>4 DEF InStep, Whole, Shown
  <2>6. /\ projects' = Append(projects, copy)
        /\ copiers' = [copiers EXCEPT ![t] = NoCopier]
    BY <1>8 DEF CopyWrites, CopierIs
  <2> HIDE DEF copy
  <2>7. /\ projects' \in Seq(Project)
        /\ Len(projects) + 1 \notin Ids /\ Ids' = Ids \cup {Len(projects) + 1}
        /\ \A q \in Ids : projects'[q] = projects[q]
        /\ projects'[Len(projects) + 1] = copy
    BY <2>3, <2>6, SeqAppend DEF CopyInv, Ids
  <2>8. \A q \in Ids : /\ q \in Ids' /\ projects'[q].status # "purged" <=> Exists(q)
                       /\ Exists(q)' <=> Exists(q)
    BY <2>7 DEF Exists
  <2>9. ASSUME NEW q \in Ids' PROVE HoldsTogether(q)'
    <3>1. CASE q \in Ids
      <4>1. HoldsTogether(q) /\ (Exists(q) /\ projects[q].parent # 0 => projects[q].parent \in Ids)
        BY <3>1 DEF CopyInv, HoldsTogether, Exists
      <4>2. QED
        BY <2>7, <2>8, <3>1, <4>1 DEF HoldsTogether, Exists
    <3>2. CASE q = Len(projects) + 1
      BY <2>1, <2>3, <2>5, <2>7, <2>8, <3>2 DEF HoldsTogether, Exists
    <3>3. QED
      BY <2>7, <3>1, <3>2
  <2>10. copiers' \in [Copiers -> Copier]
    BY <2>6, NoCopierIsCopier DEF CopyInv
  <2>11. ASSUME NEW u \in Copiers PROVE InStep(copiers[u])'
    <3>1. copiers'[u] = NoCopier \/ copiers'[u] = copiers[u]
      BY <2>6 DEF CopyInv
    <3>2. InStep(copiers[u])
      BY DEF CopyInv
    <3>3. QED
      BY <2>7, <2>8, <3>1, <3>2 DEF InStep, NoCopier
  <2>12. QED
    BY <2>7, <2>9, <2>10, <2>11 DEF CopyInv
<1>9. ASSUME NEW t \in Copiers, CopyFails(t) PROVE CopyInv'
  BY <1>9, NoCopierIsCopier, CopierGoesOn DEF CopyFails
<1>10. ASSUME NEW p \in Ids, PurgeReads(p) PROVE CopyInv'
  BY <1>10 DEF PurgeReads, CopyInv, InStep, Exists, Ids, HoldsTogether, Whole
<1>11. ASSUME NEW p \in Ids, PurgeWrites(p) PROVE CopyInv'
  <2> DEFINE gone == EmptyProject("purged")
  <2>1. projects' = [Unrelated(p) EXCEPT ![p] = gone] /\ Tears(p)
    BY <1>11 DEF PurgeWrites
  <2>2. projects \in Seq(Project) /\ copiers \in [Copiers -> Copier]
    BY DEF CopyInv
  <2>3. ASSUME NEW q \in Ids PROVE projects[q] \in Project
    BY <2>2, SeqElement DEF Ids
  <2>4. gone \in Project /\ gone.status = "purged"
    BY DEF Project, EmptyProject
  <2> HIDE DEF gone
  <2>5. Ids = 1 .. Len(projects) /\ Len(projects) \in Nat
    BY <2>2 DEF Ids
  <2>6. Unrelated(p) \in [Ids -> Project]
    BY <2>3 DEF Unrelated, Project
  <2>7. /\ projects' \in [Ids -> Project]
        /\ \A q \in Ids : projects'[q] = IF q = p THEN gone ELSE Unrelated(p)[q]
    BY <2>1, <2>4, <2>6
  <2>8. projects' \in Seq(Project) /\ Ids' = Ids
    BY <2>5, <2>7 DEF Ids
  <2>9. ASSUME NEW q \in Ids \ {p}
        PROVE  /\ projects'[q].status = projects[q].status
               /\ projects'[q].current = projects[q].current
               /\ projects'[q].last = projects[q].last
               /\ projects'[q].open = projects[q].open
               /\ projects'[q].proposals = projects[q].proposals
               /\ projects'[q].shows = projects[q].shows
               /\ projects'[q].edits = projects[q].edits
               /\ projects'[q].torn = projects[q].torn
               /\ projects'[q].parent \in {0, projects[q].parent} \ {p}
    <3>1. projects[q] \in Project /\ p \in Nat /\ p # 0
      BY <2>3, <2>5
    <3>2. projects'[q] = IF projects[q].parent = p THEN [projects[q] EXCEPT !.parent = 0]
                                                   ELSE projects[q]
      BY <2>7 DEF Unrelated
    <3>3. QED
      BY <3>1, <3>2 DEF Project
  <2>10. \A q : /\ q \in Ids' /\ projects'[q].status # "purged" <=> Exists(q) /\ q # p
                /\ Exists(q)' <=> Exists(q) /\ q # p
    BY <2>4, <2>7, <2>8, <2>9 DEF Exists
  <2>11. ASSUME NEW q \in Ids PROVE HoldsTogether(q)'
    <3>1. HoldsTogether(q)
      BY DEF CopyInv
    <3>2. CASE q = p
      BY <2>10, <3>2 DEF HoldsTogether
    <3>3. CASE q # p
      BY <2>8, <2>9, <2>10, <3>1, <3>3 DEF HoldsTogether, Whole, Shown,
         Exists
    <3>4. QED
      BY <3>2, <3>3
  <2>12. copiers' \in [Copiers -> Copier]
    BY <2>1, <2>2 DEF Tears, Copier
  <2>13. ASSUME NEW u \in Copiers PROVE InStep(copiers[u])'
    <3>1. copiers[u] \in Copier /\ InStep(copiers[u])
      BY DEF CopyInv
    <3>2. CASE copiers[u].project = p
      <4>1. copiers'[u] = [copiers[u] EXCEPT !.torn = TRUE]
        BY <2>1, <2>2, <3>2 DEF Tears
      <4>2. /\ copiers'[u].torn /\ copiers'[u].op = copiers[u].op
            /\ copiers'[u].project = p /\ copiers'[u].last = copiers[u].last
            /\ copiers'[u].open = copiers[u].open
            /\ copiers'[u].proposals = copiers[u].proposals
            /\ copiers'[u].resolved = copiers[u].resolved
        BY <3>1, <3>2, <4>1 DEF Copier
      <4>3. QED
        BY <2>8, <2>10, <3>1, <3>2, <4>2 DEF InStep
    <3>3. CASE copiers[u].project # p
      <4>1. copiers'[u] = copiers[u]
        BY <2>1, <2>2, <3>3 DEF Tears
      <4>2. QED
        BY <2>8, <2>9, <2>10, <3>1, <3>3, <4>1 DEF InStep
    <3>4. QED
      BY <3>2, <3>3
  <2>14. QED
    BY <2>8, <2>11, <2>12, <2>13 DEF CopyInv
<1>12. CASE UNCHANGED copyVars
  BY <1>12 DEF copyVars, CopyInv, InStep, Exists, Ids, HoldsTogether, Whole
<1>13. QED
  BY <1>1a, <1>1b, <1>2a, <1>2b, <1>2c, <1>3a, <1>3c, <1>4, <1>5, <1>6, <1>7, <1>8, <1>9,
     <1>10, <1>11, <1>12 DEF CopyNext

(* For any number of projects, snapshots and copying threads: a copy put together from
   reads of many moments refers to rows of its own only, and one of a whole project that
   did not change meanwhile is whole, its canvas that of its current snapshot or an edit
   that was proposed for it (example_copies.py:33). *)
THEOREM CopiesHoldTogether == Spec => []CopiesAreWhole
<1>1. Init => CopyInv
  BY CopyInitInv DEF Init
<1>2. CopyInv /\ [Next]_vars => CopyInv'
  BY CopyNextInv, PartsStep
<1>3. CopyInv => CopiesAreWhole
  BY DEF CopyInv, HoldsTogether, Whole, StartFrom, Shown, CopiesAreWhole
<1>4. QED
  BY <1>1, <1>2, <1>3, PTL DEF Spec

-------------------------------------------------------------------------------
(* The start of a project: what is chosen was confirmed, and every run is accounted for *)

\* A brief that a human has confirmed and nothing is unclear about.
Sound(v) == v \in DOMAIN briefs /\ briefs[v].confirmed /\ ~briefs[v].unclear

Working == {"begun", "design", "validate", "list", "empty", "answer"}
Owning  == {"validate", "list", "empty"}

\* A handler that has claimed a key holds it alone, and its intent is in progress.
OwnKeys ==
    /\ \A h \in Handlers : IF handlers[h].op \in Working
                           THEN \E k \in Keys : handlers[h].key = {k}
                           ELSE handlers[h].key = {}
    /\ \A g, h \in Handlers : handlers[g].key = handlers[h].key /\ handlers[g].key # {}
                              => g = h
    /\ \A h \in Handlers : \A k \in handlers[h].key : intents[k].status = "IN_PROGRESS"

\* A key that has a run is used up.
KeysRunOnce ==
    /\ \A r, s \in DOMAIN runs : runs[r].key = runs[s].key => r = s
    /\ \A r \in DOMAIN runs : intents[runs[r].key].status # "none"
    /\ \A h \in Handlers : handlers[h].op \in {"begun", "design"}
                           => \A r \in DOMAIN runs : runs[r].key \notin handlers[h].key

\* The run a handler works on, by its phase.
RunByPhase ==
    \A h \in Handlers :
        LET run == handlers[h].run IN
        /\ handlers[h].op \in Owning => run \in DOMAIN runs /\ handlers[h].key = {runs[run].key}
        /\ handlers[h].op = "validate" => runs[run].status = "validating"
        /\ handlers[h].op = "list" => runs[run].status = "completed" /\ runs[run].candidates
        /\ handlers[h].op = "empty" => runs[run].status = "completed" /\ runs[run].overtaken
        /\ handlers[h].op = "answer" /\ run # 0 => run \in DOMAIN runs /\ runs[run].candidates

Answered ==
    /\ \A k \in Keys : intents[k].status = "SUCCEEDED" =>
         intents[k].answer \in DOMAIN runs /\ runs[intents[k].answer].candidates
    /\ \A r \in DOMAIN runs : runs[r].status = "empty" /\ runs[r].candidates
                              => runs[r].overtaken

\* Whatever rests on a brief rests on a sound one.
BriefsConfirmed ==
    /\ \A v \in DOMAIN briefs : briefs[v].status = "confirmed" => briefs[v].confirmed
    /\ \A h \in Handlers : handlers[h].op \in {"confirm", "refine"}
                           => handlers[h].brief \in DOMAIN briefs
    /\ \A h \in Handlers : handlers[h].op \in {"design", "select"} => Sound(handlers[h].brief)
    /\ \A r \in DOMAIN runs : Sound(runs[r].brief)
    /\ chosen.run # 0 => Sound(chosen.brief) /\ chosen.run \in DOMAIN runs

InceptionTypes ==
    /\ briefs \in Seq(Brief)
    /\ intents \in [Keys -> Intent]
    /\ runs \in Seq(Run)
    /\ chosen \in Chosen
    /\ handlers \in [Handlers -> Handler]

InceptionInv ==
    /\ InceptionTypes
    /\ OwnKeys /\ KeysRunOnce /\ RunByPhase /\ Answered
    /\ BriefsConfirmed

LEMMA InceptionInitInv == InceptionInit => InceptionInv
<1> SUFFICES ASSUME InceptionInit PROVE InceptionInv
  OBVIOUS
<1>1. Free \in Handler /\ \A unclear \in BOOLEAN : Inferred(unclear) \in Brief
  BY DEF Free, Handler, Inferred, Brief
<1>2. briefs \in Seq(Brief) /\ \A v \in DOMAIN briefs : briefs[v].status = "inferred"
  <2>1. CASE briefs = <<>>
    BY <2>1
  <2>2. ASSUME NEW unclear \in BOOLEAN, briefs = <<Inferred(unclear)>>
        PROVE  briefs \in Seq(Brief) /\ \A v \in DOMAIN briefs : briefs[v].status = "inferred"
    <3>1. Inferred(unclear) \in Brief /\ Inferred(unclear).status = "inferred"
      BY DEF Inferred, Brief
    <3>2. QED
      BY <2>2, <3>1
  <2>3. QED
    BY <2>1, <2>2 DEF InceptionInit
<1>3. InceptionTypes
  BY <1>1, <1>2 DEF InceptionInit, InceptionTypes, Intent, Chosen
<1>4. runs = <<>> /\ DOMAIN runs = {}
  BY DEF InceptionInit
<1>5. OwnKeys /\ KeysRunOnce /\ RunByPhase /\ Answered
  BY <1>4 DEF InceptionInit, OwnKeys, KeysRunOnce, RunByPhase, Answered, Free, Working, Owning
<1>6. BriefsConfirmed
  BY <1>2, <1>4 DEF InceptionInit, BriefsConfirmed, Free
<1>7. QED
  BY <1>3, <1>5, <1>6 DEF InceptionInv

\* Only a handler goes on, without a key or with the one it has.
LEMMA HandlerGoesOn ==
  ASSUME InceptionInv, NEW h \in Handlers, NEW handler \in Handler, Becomes(h, handler),
         UNCHANGED <<briefs, intents, runs, chosen>>,
         \/ handler.key = {} /\ handler.op \notin Working
         \/ /\ handler.op = "design" /\ handlers[h].op = "begun"
            /\ handler.key = handlers[h].key,
         handler.op \in {"confirm", "refine"} => handler.brief \in DOMAIN briefs,
         handler.op \in {"design", "select"} => Sound(handler.brief)
  PROVE  InceptionInv'
<1>1. handlers \in [Handlers -> Handler]
  BY DEF InceptionInv, InceptionTypes
<1>2. \A g \in Handlers : handlers'[g] = IF g = h THEN handler ELSE handlers[g]
  BY <1>1 DEF Becomes
<1>3. InceptionTypes'
  BY <1>1 DEF InceptionInv, InceptionTypes, Becomes
<1>4. OwnKeys'
  BY <1>2 DEF InceptionInv, OwnKeys, Working
<1>5. KeysRunOnce'
  BY <1>2 DEF InceptionInv, KeysRunOnce, Working
<1>6. RunByPhase'
  BY <1>2 DEF InceptionInv, RunByPhase, Working, Owning
<1>7. Answered'
  BY DEF InceptionInv, Answered
<1>8. BriefsConfirmed'
  BY <1>2 DEF InceptionInv, BriefsConfirmed, Sound
<1>9. QED
  BY <1>3, <1>4, <1>5, <1>6, <1>7, <1>8 DEF InceptionInv

\* Briefs change, and what was sound stays so.
LEMMA BriefsGoOn ==
  ASSUME InceptionInv, NEW h \in Handlers, Becomes(h, Free), UNCHANGED <<intents, runs, chosen>>,
         briefs' \in Seq(Brief), DOMAIN briefs \subseteq DOMAIN briefs',
         \A v \in DOMAIN briefs : Sound(v) => Sound(v)',
         \A v \in DOMAIN briefs' : briefs'[v].status = "confirmed" => briefs'[v].confirmed
  PROVE  InceptionInv'
<1>1. handlers \in [Handlers -> Handler] /\ Free \in Handler
  BY DEF InceptionInv, InceptionTypes, Free, Handler
<1>2. \A g \in Handlers : handlers'[g] = IF g = h THEN Free ELSE handlers[g]
  BY <1>1 DEF Becomes
<1>3. InceptionTypes'
  BY <1>1 DEF InceptionInv, InceptionTypes, Becomes
<1>4. OwnKeys'
  BY <1>2 DEF InceptionInv, OwnKeys, Working, Free
<1>5. KeysRunOnce'
  BY <1>2 DEF InceptionInv, KeysRunOnce, Working, Free
<1>6. RunByPhase'
  BY <1>2 DEF InceptionInv, RunByPhase, Working, Owning, Free
<1>7. Answered'
  BY DEF InceptionInv, Answered
<1>8. \A v : Sound(v) => Sound(v)'
  BY DEF Sound
<1>9. BriefsConfirmed'
  <2>1. BriefsConfirmed
    BY DEF InceptionInv
  <2>2. \A g \in Handlers : handlers'[g].op \in {"confirm", "refine"}
                            => handlers'[g].brief \in DOMAIN briefs'
    BY <1>2, <2>1 DEF BriefsConfirmed, Free
  <2>3. \A g \in Handlers : handlers'[g].op \in {"design", "select"}
                            => Sound(handlers[g].brief) /\ handlers'[g].brief = handlers[g].brief
    BY <1>2, <2>1 DEF BriefsConfirmed, Free
  <2>4. QED
    BY <1>8, <2>1, <2>2, <2>3 DEF BriefsConfirmed, Sound
<1>10. QED
  BY <1>3, <1>4, <1>5, <1>6, <1>7, <1>9 DEF InceptionInv

\* A handler changes the run it works on, which keeps its key, its brief and its candidates.
LEMMA OwnRunGoesOn ==
  ASSUME InceptionInv, NEW h \in Handlers, NEW handler \in Handler, Becomes(h, handler),
         handlers[h].op \in Owning, NEW run \in Run,
         runs' = [runs EXCEPT ![handlers[h].run] = run],
         UNCHANGED <<briefs, intents, chosen>>,
         run.key = runs[handlers[h].run].key, run.brief = runs[handlers[h].run].brief,
         runs[handlers[h].run].candidates => run.candidates,
         run.status = "empty" /\ run.candidates => run.overtaken,
         handler.key = handlers[h].key, handler.op \in {"list", "empty", "answer"},
         handler.op \in {"list", "empty"} => handler.run = handlers[h].run,
         handler.op = "list" => run.status = "completed" /\ run.candidates,
         handler.op = "empty" => run.status = "completed" /\ run.overtaken,
         handler.op = "answer" /\ handler.run # 0 =>
             handler.run \in DOMAIN runs /\ runs[handler.run].candidates
  PROVE  InceptionInv'
<1> DEFINE own == handlers[h].run
<1>1. /\ handlers \in [Handlers -> Handler] /\ runs \in Seq(Run)
      /\ own \in DOMAIN runs /\ handlers[h].key = {runs[own].key}
  BY DEF InceptionInv, InceptionTypes, RunByPhase
<1>2. \A g \in Handlers : handlers'[g] = IF g = h THEN handler ELSE handlers[g]
  BY <1>1 DEF Becomes
<1>3. /\ runs' \in Seq(Run) /\ DOMAIN runs' = DOMAIN runs
      /\ \A r \in DOMAIN runs : runs'[r] = IF r = own THEN run ELSE runs[r]
  BY <1>1, SeqUpdate
<1>4. \A r \in DOMAIN runs : /\ runs'[r].key = runs[r].key /\ runs'[r].brief = runs[r].brief
                             /\ runs[r].candidates => runs'[r].candidates
  BY <1>3
<1>5. ASSUME NEW g \in Handlers \ {h}, handlers[g].op \in Owning
      PROVE  handlers[g].run # own
  <2>1. handlers[g].key = {runs[handlers[g].run].key}
    BY <1>5 DEF InceptionInv, RunByPhase
  <2>2. handlers[g].key # handlers[h].key \/ handlers[g].key = {}
    BY DEF InceptionInv, OwnKeys
  <2>3. QED
    BY <1>1, <2>1, <2>2
<1>6. InceptionTypes'
  BY <1>1, <1>3 DEF InceptionInv, InceptionTypes, Becomes
<1>7. OwnKeys'
  BY <1>2 DEF InceptionInv, OwnKeys, Working, Owning
<1>8. KeysRunOnce'
  BY <1>2, <1>3, <1>4 DEF InceptionInv, KeysRunOnce
<1>9. RunByPhase'
  BY <1>1, <1>2, <1>3, <1>4, <1>5 DEF InceptionInv, RunByPhase, Owning
<1>10. Answered'
  BY <1>3, <1>4 DEF InceptionInv, Answered
<1>11. BriefsConfirmed'
  BY <1>2, <1>3, <1>4 DEF InceptionInv, BriefsConfirmed, Sound
<1>12. QED
  BY <1>6, <1>7, <1>8, <1>9, <1>10, <1>11 DEF InceptionInv

LEMMA InceptionNextInv == InceptionInv /\ [InceptionNext]_inceptionVars => InceptionInv'
<1> SUFFICES ASSUME InceptionInv, [InceptionNext]_inceptionVars PROVE InceptionInv'
  OBVIOUS
<1>1. /\ briefs \in Seq(Brief) /\ intents \in [Keys -> Intent] /\ runs \in Seq(Run)
      /\ chosen \in Chosen /\ handlers \in [Handlers -> Handler]
      /\ Latest \in Nat /\ (Latest # 0 => Latest \in DOMAIN briefs)
  BY DEF InceptionInv, InceptionTypes, Latest
<1>2. /\ OwnKeys /\ KeysRunOnce /\ RunByPhase /\ Answered /\ BriefsConfirmed
      /\ Free \in Handler
  BY DEF InceptionInv, Free, Handler
<1>3. ASSUME NEW h \in Handlers, ConfirmBriefReads(h) \/ RefineBriefReads(h)
      PROVE  InceptionInv'
  <2>1. PICK op \in {"confirm", "refine"} : Becomes(h, [Free EXCEPT !.op = op, !.brief = Latest])
    BY <1>3 DEF ConfirmBriefReads, RefineBriefReads
  <2>2. [Free EXCEPT !.op = op, !.brief = Latest] \in Handler /\ Latest \in DOMAIN briefs
    BY <1>1, <1>3 DEF Free, Handler, ConfirmBriefReads, RefineBriefReads
  <2>3. QED
    BY <1>3, <2>1, <2>2, HandlerGoesOn
       DEF ConfirmBriefReads, RefineBriefReads, Free, Working
<1>4. ASSUME NEW h \in Handlers, ConfirmBriefWrites(h) PROVE InceptionInv'
  <2> DEFINE v   == handlers[h].brief
             new == [briefs[v] EXCEPT !.status = "confirmed", !.confirmed = TRUE]
  <2>1. v \in DOMAIN briefs
    BY <1>2, <1>4 DEF ConfirmBriefWrites, BriefsConfirmed
  <2>2. briefs[v] \in Brief
    BY <1>1, <2>1, SeqElement
  <2>3. new \in Brief /\ new.confirmed /\ new.unclear = briefs[v].unclear
    BY <2>2 DEF Brief
  <2>4. briefs' = [briefs EXCEPT ![v] = new]
    BY <1>4 DEF ConfirmBriefWrites
  <2> HIDE DEF new
  <2>5. /\ briefs' \in Seq(Brief) /\ DOMAIN briefs' = DOMAIN briefs
        /\ \A u \in DOMAIN briefs : briefs'[u] = IF u = v THEN new ELSE briefs[u]
    BY <1>1, <2>1, <2>3, <2>4, SeqUpdate
  <2>6. QED
    BY <1>2, <1>4, <2>3, <2>5, BriefsGoOn DEF ConfirmBriefWrites, Sound, BriefsConfirmed
<1>5. ASSUME NEW h \in Handlers, RefineBriefWrites(h) PROVE InceptionInv'
  <2> DEFINE v   == handlers[h].brief
             old == [briefs[v] EXCEPT !.status = "superseded"]
             all == [briefs EXCEPT ![v] = old]
  <2>1. v \in DOMAIN briefs
    BY <1>2, <1>5 DEF RefineBriefWrites, BriefsConfirmed
  <2>2. briefs[v] \in Brief
    BY <1>1, <2>1, SeqElement
  <2>3. /\ old \in Brief /\ old.confirmed = briefs[v].confirmed
        /\ old.unclear = briefs[v].unclear /\ old.status = "superseded"
    BY <2>2 DEF Brief
  <2>4. PICK unclear \in BOOLEAN : briefs' = Append(all, Inferred(unclear))
    BY <1>5 DEF RefineBriefWrites
  <2>5. Inferred(unclear) \in Brief /\ Inferred(unclear).status = "inferred"
    BY DEF Inferred, Brief
  <2> HIDE DEF old
  <2>6. /\ all \in Seq(Brief) /\ DOMAIN all = DOMAIN briefs
        /\ \A u \in DOMAIN briefs : all[u] = IF u = v THEN old ELSE briefs[u]
    BY <1>1, <2>1, <2>3, SeqUpdate
  <2> HIDE DEF all
  <2>7. /\ briefs' \in Seq(Brief) /\ DOMAIN briefs' = DOMAIN briefs \cup {Len(all) + 1}
        /\ \A u \in DOMAIN briefs : briefs'[u] = all[u]
        /\ briefs'[Len(all) + 1] = Inferred(unclear)
    BY <2>4, <2>5, <2>6, SeqAppend
  <2>8. QED
    BY <1>2, <1>5, <2>3, <2>5, <2>6, <2>7, BriefsGoOn
       DEF RefineBriefWrites, Sound, BriefsConfirmed
<1>6. ASSUME NEW h \in Handlers, NEW k \in Keys, Begin(h, k) PROVE InceptionInv'
  <2> DEFINE new == [Free EXCEPT !.op = "begun", !.key = {k}]
  <2>1. new \in Handler /\ new.op = "begun" /\ new.key = {k}
    BY DEF Free, Handler
  <2>2. \A g \in Handlers : handlers'[g] = IF g = h THEN new ELSE handlers[g]
    BY <1>1, <1>6 DEF Begin, Becomes
  <2>3. intents[k].status = "none" /\ intents[k] \in Intent
    BY <1>1, <1>6 DEF Begin, Claimable
  <2>4. /\ intents' \in [Keys -> Intent]
        /\ intents'[k].status = "IN_PROGRESS"
        /\ \A j \in Keys \ {k} : intents'[j] = intents[j]
    BY <1>1, <1>6, <2>3 DEF Begin, Intent
  <2>5. /\ \A g \in Handlers : k \notin handlers[g].key
        /\ \A r \in DOMAIN runs : runs[r].key # k
    BY <1>2, <2>3 DEF OwnKeys, KeysRunOnce
  <2>6. \A r \in DOMAIN runs : runs[r].key \in Keys
    <3>1. \A r \in DOMAIN runs : runs[r] \in Run
      BY <1>1, SeqElement
    <3>2. QED
      BY <3>1 DEF Run
  <2>7. InceptionTypes'
    BY <1>1, <1>6, <2>1, <2>4 DEF Begin, InceptionTypes, Becomes
  <2>8. \A g \in Handlers : handlers[g].key \subseteq Keys
    BY <1>1 DEF Handler
  <2> HIDE DEF new
  <2>9. OwnKeys'
    BY <1>2, <2>1, <2>2, <2>4, <2>5, <2>8 DEF OwnKeys, Working
  <2>10. KeysRunOnce'
    BY <1>2, <1>6, <2>1, <2>2, <2>4, <2>5, <2>6 DEF Begin, KeysRunOnce
  <2>11. RunByPhase'
    BY <1>2, <1>6, <2>1, <2>2 DEF Begin, RunByPhase, Owning
  <2>12. Answered'
    BY <1>2, <1>6, <2>4 DEF Begin, Answered
  <2>13. BriefsConfirmed'
    BY <1>2, <1>6, <2>1, <2>2 DEF Begin, BriefsConfirmed, Sound
  <2>14. QED
    BY <2>7, <2>9, <2>10, <2>11, <2>12, <2>13 DEF InceptionInv
<1>7. ASSUME NEW h \in Handlers, DesignReads(h) PROVE InceptionInv'
  <2> DEFINE new == [handlers[h] EXCEPT !.op = "design", !.brief = Latest]
  <2>1. Sound(Latest)
    BY <1>1, <1>2, <1>7 DEF DesignReads, MayDesign, Sound, BriefsConfirmed
  <2>2. new \in Handler /\ new.op = "design" /\ new.key = handlers[h].key /\ new.brief = Latest
    BY <1>1 DEF Handler
  <2>3. Becomes(h, new) /\ handlers[h].op = "begun"
    BY <1>7 DEF DesignReads
  <2> HIDE DEF new
  <2>4. QED
    BY <1>7, <2>1, <2>2, <2>3, HandlerGoesOn DEF DesignReads
<1>8. ASSUME NEW h \in Handlers, NEW k \in Keys, InsertRun(h, k) PROVE InceptionInv'
  <2> DEFINE run == [key |-> k, brief |-> handlers[h].brief, status |-> "validating",
                     candidates |-> FALSE, overtaken |-> FALSE]
             new == [handlers[h] EXCEPT !.op = "validate", !.run = Len(runs) + 1]
  <2>1. handlers[h].op = "design" /\ handlers[h].key = {k} /\ handlers[h] \in Handler
    BY <1>1, <1>8 DEF InsertRun
  <2>2. /\ run \in Run /\ run.key = k /\ run.brief = handlers[h].brief
        /\ run.status = "validating" /\ ~run.candidates
    BY <2>1 DEF Run, Handler
  <2>3. runs' = Append(runs, run)
    BY <1>8 DEF InsertRun
  <2> HIDE DEF run
  <2>4. /\ runs' \in Seq(Run) /\ Len(runs) \in Nat
        /\ DOMAIN runs' = DOMAIN runs \cup {Len(runs) + 1} /\ Len(runs) + 1 \notin DOMAIN runs
        /\ \A r \in DOMAIN runs : runs'[r] = runs[r]
        /\ runs'[Len(runs) + 1] = run
    <3>1. Len(runs) + 1 \notin DOMAIN runs
      BY <1>1
    <3>2. QED
      BY <1>1, <2>2, <2>3, <3>1, SeqAppend
  <2>5. /\ new \in Handler /\ new.op = "validate" /\ new.key = {k} /\ new.run = Len(runs) + 1
    <3>1. Len(runs) + 1 \in Nat
      BY <2>4
    <3>2. QED
      BY <2>1, <3>1 DEF Handler
  <2>6. \A g \in Handlers : handlers'[g] = IF g = h THEN new ELSE handlers[g]
    BY <1>1, <1>8 DEF InsertRun, Becomes
  <2>7. InceptionTypes'
    BY <1>1, <1>8, <2>4, <2>5 DEF InsertRun, InceptionTypes, Becomes
  <2>8. \A g \in Handlers \ {h} : k \notin handlers[g].key
    BY <1>2, <2>1 DEF OwnKeys
  <2> HIDE DEF new
  <2>9. OwnKeys'
    <3>1. UNCHANGED intents
      BY <1>8 DEF InsertRun
    <3>2. intents[k].status = "IN_PROGRESS"
      BY <1>2, <2>1 DEF OwnKeys
    <3>3. \A g \in Handlers : IF handlers'[g].op \in Working
                             THEN \E j \in Keys : handlers'[g].key = {j}
                             ELSE handlers'[g].key = {}
      BY <1>2, <2>5, <2>6 DEF OwnKeys, Working
    <3>4. \A g, i \in Handlers : handlers'[g].key = handlers'[i].key /\ handlers'[g].key # {}
                                => g = i
      BY <1>2, <2>5, <2>6, <2>8 DEF OwnKeys
    <3>5. \A g \in Handlers : \A j \in handlers'[g].key : intents'[j].status = "IN_PROGRESS"
      BY <1>2, <2>5, <2>6, <3>1, <3>2 DEF OwnKeys
    <3>6. QED
      BY <3>3, <3>4, <3>5 DEF OwnKeys
  <2>10. KeysRunOnce'
    <3>1. \A r \in DOMAIN runs : runs[r].key # k
      BY <1>2, <2>1 DEF KeysRunOnce
    <3>2. intents[k].status = "IN_PROGRESS"
      BY <1>2, <2>1 DEF OwnKeys
    <3>3. QED
      BY <1>2, <1>8, <2>2, <2>4, <2>5, <2>6, <2>8, <3>1, <3>2 DEF InsertRun, KeysRunOnce
  <2>11. RunByPhase'
    BY <1>2, <2>2, <2>4, <2>5, <2>6 DEF RunByPhase, Owning
  <2>12. Answered'
    BY <1>2, <1>8, <2>2, <2>4 DEF InsertRun, Answered
  <2>13. BriefsConfirmed'
    <3>1. Sound(run.brief)
      BY <1>2, <2>1, <2>2 DEF BriefsConfirmed
    <3>2. QED
      BY <1>2, <1>8, <2>4, <2>5, <2>6, <3>1 DEF InsertRun, BriefsConfirmed, Sound
  <2>14. QED
    BY <2>7, <2>9, <2>10, <2>11, <2>12, <2>13 DEF InceptionInv
<1>9. ASSUME NEW h \in Handlers, handlers[h].op \in Owning
      PROVE  /\ handlers[h].run \in DOMAIN runs /\ runs[handlers[h].run] \in Run
             /\ handlers[h] \in Handler
  BY <1>1, <1>2, <1>9, SeqElement DEF RunByPhase
<1>10. ASSUME NEW h \in Handlers, RejectCandidates(h) PROVE InceptionInv'
  <2> DEFINE old == runs[handlers[h].run]
             run == [old EXCEPT !.status = "failed"]
             new == [handlers[h] EXCEPT !.op = "answer", !.run = 0]
  <2>1. old \in Run /\ handlers[h] \in Handler /\ handlers[h].op \in Owning
    BY <1>9, <1>10 DEF RejectCandidates, Owning
  <2>2. /\ run \in Run /\ run.key = old.key /\ run.brief = old.brief /\ run.status = "failed"
        /\ old.candidates => run.candidates
    BY <2>1 DEF Run
  <2>3. new \in Handler /\ new.op = "answer" /\ new.run = 0 /\ new.key = handlers[h].key
    BY <2>1 DEF Handler
  <2>4. /\ runs' = [runs EXCEPT ![handlers[h].run] = run] /\ Becomes(h, new)
        /\ UNCHANGED <<briefs, intents, chosen>>
    BY <1>10 DEF RejectCandidates
  <2> HIDE DEF run, new
  <2>5. QED
    BY <2>1, <2>2, <2>3, <2>4, OwnRunGoesOn
<1>11. ASSUME NEW h \in Handlers, StoreCandidates(h) PROVE InceptionInv'
  <2> DEFINE old == runs[handlers[h].run]
             run == [old EXCEPT !.status = "completed", !.candidates = TRUE]
             new == [handlers[h] EXCEPT !.op = "list"]
  <2>1. old \in Run /\ handlers[h] \in Handler /\ handlers[h].op \in Owning
    BY <1>9, <1>11 DEF StoreCandidates, Owning
  <2>2. /\ run \in Run /\ run.key = old.key /\ run.brief = old.brief
        /\ run.status = "completed" /\ run.candidates
    BY <2>1 DEF Run
  <2>3. /\ new \in Handler /\ new.op = "list" /\ new.run = handlers[h].run
        /\ new.key = handlers[h].key
    BY <2>1 DEF Handler
  <2>4. runs' = [runs EXCEPT ![handlers[h].run] = run] /\ Becomes(h, new)
    BY <1>11 DEF StoreCandidates
  <2> HIDE DEF run, new
  <2>5. QED
    BY <1>11, <2>1, <2>2, <2>3, <2>4, OwnRunGoesOn DEF StoreCandidates
<1>12. ASSUME NEW h \in Handlers, ListCandidates(h) PROVE InceptionInv'
  <2> DEFINE old == runs[handlers[h].run]
             run == [old EXCEPT !.overtaken = Len(runs) > handlers[h].run]
             new == IF runs[ListedRun].candidates
                    THEN [handlers[h] EXCEPT !.op = "answer", !.run = ListedRun]
                    ELSE [handlers[h] EXCEPT !.op = "empty"]
  <2>1. /\ old \in Run /\ handlers[h] \in Handler /\ handlers[h].op \in Owning
        /\ handlers[h].op = "list" /\ handlers[h].run \in DOMAIN runs
    BY <1>9, <1>12 DEF ListCandidates, Owning
  <2>2. old.status = "completed" /\ old.candidates
    BY <1>2, <2>1 DEF RunByPhase
  <2>3. (Len(runs) > handlers[h].run) \in BOOLEAN
    OBVIOUS
  <2>4. /\ run \in Run /\ run.key = old.key /\ run.brief = old.brief
        /\ run.status = "completed" /\ run.candidates
        /\ run.overtaken = (Len(runs) > handlers[h].run)
    BY <2>1, <2>2, <2>3 DEF Run
  <2>5. /\ ListedRun \in DOMAIN runs /\ ListedRun \in Nat
        /\ ListedRun # handlers[h].run => Len(runs) > handlers[h].run
    BY <1>1, <2>1 DEF ListedRun
  <2>6. /\ new \in Handler /\ new.key = handlers[h].key
        /\ \/ new.op = "answer" /\ new.run = ListedRun /\ runs[ListedRun].candidates
           \/ new.op = "empty" /\ new.run = handlers[h].run /\ run.overtaken
    BY <2>1, <2>2, <2>4, <2>5 DEF Handler
  <2>7. /\ runs' = [runs EXCEPT ![handlers[h].run] = run] /\ Becomes(h, new)
        /\ UNCHANGED <<briefs, intents, chosen>>
    BY <1>12 DEF ListCandidates
  <2> HIDE DEF run, new
  <2>8. CASE new.op = "answer" /\ new.run = ListedRun /\ runs[ListedRun].candidates
    BY <2>1, <2>4, <2>5, <2>6, <2>7, <2>8, OwnRunGoesOn
  <2>9. CASE new.op = "empty" /\ new.run = handlers[h].run /\ run.overtaken
    BY <2>1, <2>4, <2>6, <2>7, <2>9, OwnRunGoesOn
  <2>10. QED
    BY <2>6, <2>8, <2>9
<1>13. ASSUME NEW h \in Handlers, MarkEmpty(h) PROVE InceptionInv'
  <2> DEFINE old == runs[handlers[h].run]
             run == [old EXCEPT !.status = "empty"]
             new == [handlers[h] EXCEPT !.op = "answer", !.run = 0]
  <2>1. /\ old \in Run /\ handlers[h] \in Handler /\ handlers[h].op \in Owning
        /\ old.overtaken
    BY <1>2, <1>9, <1>13 DEF MarkEmpty, Owning, RunByPhase
  <2>2. /\ run \in Run /\ run.key = old.key /\ run.brief = old.brief /\ run.overtaken
        /\ old.candidates => run.candidates
    BY <2>1 DEF Run
  <2>3. new \in Handler /\ new.op = "answer" /\ new.run = 0 /\ new.key = handlers[h].key
    BY <2>1 DEF Handler
  <2>4. /\ runs' = [runs EXCEPT ![handlers[h].run] = run] /\ Becomes(h, new)
        /\ UNCHANGED <<briefs, intents, chosen>>
    BY <1>13 DEF MarkEmpty
  <2> HIDE DEF run, new
  <2>5. QED
    BY <2>1, <2>2, <2>3, <2>4, OwnRunGoesOn
<1>14. ASSUME NEW h \in Handlers, NEW k \in Keys, handlers[h].key = {k},
              NEW status \in {"FAILED", "SUCCEEDED"}, NEW answer \in Nat,
              Settles(k, status, answer), Becomes(h, Free), UNCHANGED <<briefs, runs, chosen>>,
              status = "SUCCEEDED" => answer \in DOMAIN runs /\ runs[answer].candidates
       PROVE  InceptionInv'
  <2>1. [status |-> status, answer |-> answer] \in Intent
    BY DEF Intent
  <2>2. /\ intents' \in [Keys -> Intent]
        /\ intents'[k].status = status /\ intents'[k].answer = answer
        /\ \A j \in Keys \ {k} : intents'[j] = intents[j]
    BY <1>1, <1>14, <2>1 DEF Settles
  <2>3. \A g \in Handlers : handlers'[g] = IF g = h THEN Free ELSE handlers[g]
    BY <1>1, <1>14 DEF Becomes
  <2>4. \A g \in Handlers \ {h} : k \notin handlers[g].key
    BY <1>2, <1>14 DEF OwnKeys
  <2>5. InceptionTypes'
    BY <1>1, <1>2, <1>14, <2>2 DEF InceptionTypes, Becomes
  <2>6. \A g \in Handlers : handlers[g].key \subseteq Keys
    BY <1>1 DEF Handler
  <2>7. OwnKeys'
    BY <1>2, <2>2, <2>3, <2>4, <2>6 DEF OwnKeys, Working, Free
  <2>8. KeysRunOnce'
    <3>1. \A r \in DOMAIN runs : runs[r] \in Run
      BY <1>1, SeqElement
    <3>2. \A r \in DOMAIN runs : runs[r].key \in Keys
      BY <3>1 DEF Run
    <3>3. QED
      BY <1>2, <1>14, <2>2, <2>3, <3>2 DEF KeysRunOnce, Free
  <2>9. RunByPhase'
    BY <1>2, <1>14, <2>3 DEF RunByPhase, Owning, Free
  <2>10. Answered'
    BY <1>2, <1>14, <2>2 DEF Answered
  <2>11. BriefsConfirmed'
    BY <1>2, <1>14, <2>3 DEF BriefsConfirmed, Sound, Free
  <2>12. QED
    BY <2>5, <2>7, <2>8, <2>9, <2>10, <2>11 DEF InceptionInv
<1>15. ASSUME NEW h \in Handlers, NEW k \in Keys, Complete(h, k) \/ FailIntent(h, k)
       PROVE  InceptionInv'
  <2>1. handlers[h].run \in Nat
    BY <1>1 DEF Handler
  <2>2. CASE FailIntent(h, k) \/ handlers[h].run = 0
    BY <1>14, <1>15, <2>2 DEF Complete, FailIntent
  <2>3. CASE Complete(h, k) /\ handlers[h].run # 0
    <3>1. handlers[h].run \in DOMAIN runs /\ runs[handlers[h].run].candidates
      BY <1>2, <2>3 DEF Complete, RunByPhase
    <3>2. QED
      BY <1>14, <2>1, <2>3, <3>1 DEF Complete
  <2>4. QED
    BY <1>15, <2>2, <2>3
<1>16. ASSUME NEW h \in Handlers, SelectReads(h) PROVE InceptionInv'
  <2>1. Sound(Latest)
    BY <1>1, <1>2, <1>16 DEF SelectReads, Sound, BriefsConfirmed
  <2>2. [Free EXCEPT !.op = "select", !.brief = Latest] \in Handler
    BY <1>1 DEF Free, Handler
  <2>3. QED
    BY <1>16, <2>1, <2>2, HandlerGoesOn DEF SelectReads, Free, Working
<1>17. ASSUME NEW h \in Handlers, SelectWrites(h) PROVE InceptionInv'
  <2>1. PICK r \in DOMAIN runs : chosen' = [brief |-> handlers[h].brief, run |-> r]
    BY <1>17 DEF SelectWrites, Selectable
  <2>2. /\ handlers[h] \in Handler /\ Sound(handlers[h].brief) /\ r \in Nat
    BY <1>1, <1>2, <1>17, <2>1, SeqElement DEF SelectWrites, BriefsConfirmed
  <2>3. chosen' \in Chosen /\ chosen'.brief = handlers[h].brief /\ chosen'.run = r
    BY <2>1, <2>2 DEF Chosen, Handler
  <2>4. \A g \in Handlers : handlers'[g] = IF g = h THEN Free ELSE handlers[g]
    BY <1>1, <1>17 DEF SelectWrites, Becomes
  <2>5. InceptionTypes'
    BY <1>1, <1>2, <1>17, <2>3 DEF SelectWrites, InceptionTypes, Becomes
  <2>6. OwnKeys'
    BY <1>2, <1>17, <2>4 DEF SelectWrites, OwnKeys, Working, Free
  <2>7. KeysRunOnce' /\ RunByPhase' /\ Answered'
    BY <1>2, <1>17, <2>4 DEF SelectWrites, KeysRunOnce, RunByPhase, Answered, Owning, Free
  <2>8. BriefsConfirmed'
    BY <1>2, <1>17, <2>2, <2>3, <2>4 DEF SelectWrites, BriefsConfirmed, Sound, Free
  <2>9. QED
    BY <2>5, <2>6, <2>7, <2>8 DEF InceptionInv
<1>18. ASSUME NEW h \in Handlers, HandlerStops(h) PROVE InceptionInv'
  BY <1>2, <1>18, HandlerGoesOn DEF HandlerStops, Free, Working
<1>19. CASE EditCanvas \/ UNCHANGED inceptionVars
  <2>1. UNCHANGED <<briefs, intents, runs, chosen, handlers>>
    BY <1>19 DEF EditCanvas, inceptionVars
  <2>2. InceptionTypes' /\ OwnKeys' /\ KeysRunOnce'
    BY <1>1, <1>2, <2>1 DEF InceptionTypes, OwnKeys, KeysRunOnce
  <2>3. RunByPhase' /\ Answered' /\ BriefsConfirmed'
    BY <1>2, <2>1 DEF RunByPhase, Answered, BriefsConfirmed, Sound
  <2>4. QED
    BY <2>2, <2>3 DEF InceptionInv
<1>20. CASE Restart
  <2>1. handlers' = [h \in Handlers |-> Free] /\ UNCHANGED <<intents, runs>>
    BY <1>20 DEF Restart
  <2>2. /\ briefs' \in Seq(Brief) /\ DOMAIN briefs \subseteq DOMAIN briefs'
        /\ \A v \in DOMAIN briefs : briefs'[v] = briefs[v]
        /\ \A v \in DOMAIN briefs' : briefs'[v].status = "confirmed" => briefs'[v].confirmed
    <3>1. CASE briefs' = briefs
      BY <1>1, <1>2, <3>1 DEF BriefsConfirmed
    <3>2. CASE briefs' = <<Inferred(FALSE)>> /\ Latest = 0
      <4>1. Inferred(FALSE) \in Brief /\ Inferred(FALSE).status = "inferred"
        BY DEF Inferred, Brief
      <4>2. DOMAIN briefs = {}
        BY <1>1, <3>2 DEF Latest
      <4>3. /\ briefs' \in Seq(Brief)
            /\ \A v \in DOMAIN briefs' : briefs'[v].status = "inferred"
        <5> DEFINE brief == Inferred(FALSE)
        <5>1. brief \in Brief /\ brief.status = "inferred" /\ briefs' = <<brief>>
          BY <3>2, <4>1
        <5> HIDE DEF brief
        <5>2. QED
          BY <5>1
      <4>4. QED
        BY <4>2, <4>3
    <3>3. QED
      BY <1>20, <3>1, <3>2 DEF Restart, Migrate, WithBrief
  <2>3. /\ chosen' \in Chosen
        /\ chosen' = chosen \/ chosen'.run = 0
    BY <1>1, <1>20, <2>2 DEF Restart, Migrate, Chosen
  <2>4. \A v : Sound(v) => Sound(v)'
    BY <2>2 DEF Sound
  <2>5. InceptionTypes' /\ OwnKeys' /\ KeysRunOnce' /\ RunByPhase' /\ Answered'
    BY <1>1, <1>2, <2>1, <2>2, <2>3 DEF InceptionTypes, OwnKeys, KeysRunOnce, RunByPhase,
       Answered, Working, Owning, Free
  <2>6. BriefsConfirmed'
    BY <1>2, <2>1, <2>2, <2>3, <2>4 DEF BriefsConfirmed, Sound, Free
  <2>7. QED
    BY <2>5, <2>6 DEF InceptionInv
<1>21. QED
  BY <1>3, <1>4, <1>5, <1>6, <1>7, <1>8, <1>10, <1>11, <1>12, <1>13, <1>15, <1>16, <1>17,
     <1>18, <1>19, <1>20 DEF InceptionNext

(* For any number of handlers, keys, briefs and runs: a first snapshot that was chosen rests
   on briefs that were confirmed and clear (quick_start.py:172). *)
THEOREM SnapshotsRestOnConfirmed == Spec => []SnapshotRestsOnConfirmed
<1>1. Init => InceptionInv
  BY InceptionInitInv DEF Init
<1>2. InceptionInv /\ [Next]_vars => InceptionInv'
  BY InceptionNextInv, PartsStep
<1>3. InceptionInv => SnapshotRestsOnConfirmed
  BY DEF InceptionInv, BriefsConfirmed, Sound, SnapshotRestsOnConfirmed
<1>4. QED
  BY <1>1, <1>2, <1>3, PTL DEF Spec

(* An idempotency key starts one run at most and succeeds only with stored candidates, and a
   run that has candidates is marked as empty only if a later one was there
   (solution_design.py:463). *)
THEOREM EveryRunIsAccountedFor == Spec => []RunsAreAccountedFor
<1>1. Init => InceptionInv
  BY InceptionInitInv DEF Init
<1>2. InceptionInv /\ [Next]_vars => InceptionInv'
  BY InceptionNextInv, PartsStep
<1>3. InceptionInv => RunsAreAccountedFor
  BY DEF InceptionInv, KeysRunOnce, Answered, RunsAreAccountedFor
<1>4. QED
  BY <1>1, <1>2, <1>3, PTL DEF Spec

\* A key's intent is claimed, settled, and stays as it was settled.
IntentsSettle ==
    \A k \in Keys :
        /\ intents[k].status = "none" => intents'[k].status \in {"none", "IN_PROGRESS"}
        /\ intents[k].status = "IN_PROGRESS" => intents'[k].status # "none"
        /\ intents[k].status \in {"SUCCEEDED", "FAILED"} => intents'[k] = intents[k]

MayBecome(status) ==
    CASE status = "validating" -> {"validating", "completed", "failed"}
      [] status = "completed"  -> {"completed", "empty"}
      [] OTHER                 -> {status}

\* A run keeps its key, its brief and its candidates, and its result.
RunsRemain ==
    /\ DOMAIN runs \subseteq DOMAIN runs'
    /\ \A r \in DOMAIN runs : /\ runs'[r].key = runs[r].key
                              /\ runs'[r].brief = runs[r].brief
                              /\ runs[r].candidates => runs'[r].candidates
                              /\ runs'[r].status \in MayBecome(runs[r].status)

\* What is unclear about a version of the brief, and that it was confirmed, stays.
BriefsRemain ==
    /\ DOMAIN briefs \subseteq DOMAIN briefs'
    /\ \A v \in DOMAIN briefs : /\ briefs'[v].unclear <=> briefs[v].unclear
                                /\ briefs[v].confirmed => briefs'[v].confirmed

InceptionRemains ==
    /\ IntentsSettle /\ RunsRemain /\ BriefsRemain
    /\ chosen.brief # 0 => UNCHANGED chosen

LEMMA SameRemain ==
  /\ UNCHANGED intents => IntentsSettle
  /\ UNCHANGED runs => RunsRemain
  /\ UNCHANGED briefs => BriefsRemain
BY DEF IntentsSettle, RunsRemain, BriefsRemain, MayBecome

\* Whoever settles an intent holds its key, so that it is in progress.
LEMMA SettlesInProgress ==
  ASSUME InceptionInv, NEW h \in Handlers, NEW k \in Keys, handlers[h].key = {k},
         NEW status \in {"SUCCEEDED", "FAILED"}, NEW answer, Settles(k, status, answer)
  PROVE  IntentsSettle
<1>1. intents \in [Keys -> Intent] /\ intents[k].status = "IN_PROGRESS"
  BY DEF InceptionInv, InceptionTypes, OwnKeys
<1> DEFINE settled == [status |-> status, answer |-> answer]
<1>2. settled.status = status
  OBVIOUS
<1>3. /\ intents'[k] = settled
      /\ \A j \in Keys : j # k => intents'[j] = intents[j]
  BY <1>1 DEF Settles
<1> HIDE DEF settled
<1>4. QED
  BY <1>1, <1>2, <1>3 DEF IntentsSettle

\* A handler writes the run it works on.
LEMMA OwnRunRemains ==
  ASSUME InceptionInv, NEW h \in Handlers, handlers[h].op \in Owning, NEW run \in Run,
         runs' = [runs EXCEPT ![handlers[h].run] = run],
         run.key = runs[handlers[h].run].key, run.brief = runs[handlers[h].run].brief,
         runs[handlers[h].run].candidates => run.candidates,
         run.status \in MayBecome(runs[handlers[h].run].status)
  PROVE  RunsRemain
<1> DEFINE own == handlers[h].run
<1>1. runs \in Seq(Run) /\ own \in DOMAIN runs
  BY DEF InceptionInv, InceptionTypes, RunByPhase
<1>2. /\ DOMAIN runs' = DOMAIN runs
      /\ \A r \in DOMAIN runs : runs'[r] = IF r = own THEN run ELSE runs[r]
  BY <1>1, SeqUpdate
<1>3. QED
  BY <1>2 DEF RunsRemain, MayBecome

LEMMA InceptionRemainsNext ==
  ASSUME InceptionInv, InceptionNext
  PROVE  InceptionRemains
<1>1. /\ briefs \in Seq(Brief) /\ intents \in [Keys -> Intent] /\ runs \in Seq(Run)
      /\ chosen \in Chosen /\ handlers \in [Handlers -> Handler]
      /\ OwnKeys /\ RunByPhase /\ BriefsConfirmed
  BY DEF InceptionInv, InceptionTypes
<1>2. CASE EditCanvas
  BY <1>2, SameRemain DEF EditCanvas, InceptionRemains
<1>3. CASE Restart
  <2>1. UNCHANGED <<intents, runs>> /\ (chosen.brief # 0 => UNCHANGED chosen)
    BY <1>3 DEF Restart, Migratable
  <2>2. UNCHANGED briefs \/ Latest = 0
    BY <1>3 DEF Restart, Migrate, WithBrief
  <2>3. Latest = 0 => DOMAIN briefs = {}
    BY <1>1 DEF Latest
  <2>4. BriefsRemain
    BY <2>2, <2>3, SameRemain DEF BriefsRemain
  <2>5. QED
    BY <2>1, <2>4, SameRemain DEF InceptionRemains
<1>4. ASSUME NEW h \in Handlers,
             \/ ConfirmBriefReads(h) \/ RefineBriefReads(h) \/ DesignReads(h)
             \/ SelectReads(h) \/ HandlerStops(h)
      PROVE  InceptionRemains
  BY <1>4, SameRemain DEF ConfirmBriefReads, RefineBriefReads, DesignReads, SelectReads,
     HandlerStops, InceptionRemains
<1>5. ASSUME NEW h \in Handlers, ConfirmBriefWrites(h) PROVE InceptionRemains
  <2> DEFINE v   == handlers[h].brief
             new == [briefs[v] EXCEPT !.status = "confirmed", !.confirmed = TRUE]
  <2>1. v \in DOMAIN briefs /\ briefs[v] \in Brief
    BY <1>1, <1>5, SeqElement DEF ConfirmBriefWrites, BriefsConfirmed
  <2>2. new \in Brief /\ new.confirmed /\ (new.unclear <=> briefs[v].unclear)
    BY <2>1 DEF Brief
  <2>3. briefs' = [briefs EXCEPT ![v] = new]
    BY <1>5 DEF ConfirmBriefWrites
  <2> HIDE DEF new
  <2>4. BriefsRemain
    BY <1>1, <2>1, <2>2, <2>3, SeqUpdate DEF BriefsRemain
  <2>5. QED
    BY <1>5, <2>4, SameRemain DEF ConfirmBriefWrites, InceptionRemains
<1>6. ASSUME NEW h \in Handlers, RefineBriefWrites(h) PROVE InceptionRemains
  <2> DEFINE v   == handlers[h].brief
             old == [briefs[v] EXCEPT !.status = "superseded"]
             all == [briefs EXCEPT ![v] = old]
  <2>1. v \in DOMAIN briefs /\ briefs[v] \in Brief
    BY <1>1, <1>6, SeqElement DEF RefineBriefWrites, BriefsConfirmed
  <2>2. /\ old \in Brief /\ (old.confirmed <=> briefs[v].confirmed)
        /\ (old.unclear <=> briefs[v].unclear)
    BY <2>1 DEF Brief
  <2>3. PICK unclear \in BOOLEAN : briefs' = Append(all, Inferred(unclear))
    BY <1>6 DEF RefineBriefWrites
  <2>4. Inferred(unclear) \in Brief
    BY DEF Inferred, Brief
  <2> HIDE DEF old
  <2>5. /\ all \in Seq(Brief) /\ DOMAIN all = DOMAIN briefs
        /\ \A u \in DOMAIN briefs : all[u] = IF u = v THEN old ELSE briefs[u]
    BY <1>1, <2>1, <2>2, SeqUpdate
  <2> HIDE DEF all
  <2>6. BriefsRemain
    BY <2>2, <2>3, <2>4, <2>5, SeqAppend DEF BriefsRemain
  <2>7. QED
    BY <1>6, <2>6, SameRemain DEF RefineBriefWrites, InceptionRemains
<1>7. ASSUME NEW h \in Handlers, NEW k \in Keys, Begin(h, k) PROVE InceptionRemains
  <2>1. intents[k].status = "none" /\ intents[k] \in Intent
    BY <1>1, <1>7 DEF Begin, Claimable
  <2>2. /\ intents'[k].status = "IN_PROGRESS"
        /\ \A j \in Keys : j # k => intents'[j] = intents[j]
    BY <1>1, <1>7, <2>1 DEF Begin, Intent
  <2>3. IntentsSettle
    BY <2>1, <2>2 DEF IntentsSettle
  <2>4. QED
    BY <1>7, <2>3, SameRemain DEF Begin, InceptionRemains
<1>8. ASSUME NEW h \in Handlers, NEW k \in Keys, InsertRun(h, k) PROVE InceptionRemains
  <2> DEFINE run == [key |-> k, brief |-> handlers[h].brief, status |-> "validating",
                     candidates |-> FALSE, overtaken |-> FALSE]
  <2>1. run \in Run /\ runs' = Append(runs, run)
    BY <1>1, <1>8 DEF InsertRun, Run, Handler
  <2> HIDE DEF run
  <2>2. RunsRemain
    BY <1>1, <2>1, SeqAppend DEF RunsRemain, MayBecome
  <2>3. QED
    BY <1>8, <2>2, SameRemain DEF InsertRun, InceptionRemains
<1>9. ASSUME NEW h \in Handlers,
             \/ RejectCandidates(h) \/ StoreCandidates(h)
             \/ ListCandidates(h) \/ MarkEmpty(h)
      PROVE  RunsRemain
  <2> DEFINE old == runs[handlers[h].run]
  <2>1. handlers[h].op \in Owning
    BY <1>9 DEF RejectCandidates, StoreCandidates, ListCandidates, MarkEmpty, Owning
  <2>2. old \in Run
    BY <1>1, <2>1, SeqElement DEF RunByPhase
  <2>3. CASE RejectCandidates(h)
    <3> DEFINE run == [old EXCEPT !.status = "failed"]
    <3>1. /\ run \in Run /\ run.key = old.key /\ run.brief = old.brief
          /\ (run.candidates <=> old.candidates) /\ run.status = "failed"
      BY <2>2 DEF Run
    <3>2. runs' = [runs EXCEPT ![handlers[h].run] = run] /\ old.status = "validating"
      BY <1>1, <2>3 DEF RejectCandidates, RunByPhase
    <3> HIDE DEF run
    <3>3. QED
      BY <2>1, <3>1, <3>2, OwnRunRemains DEF MayBecome
  <2>4. CASE StoreCandidates(h)
    <3> DEFINE run == [old EXCEPT !.status = "completed", !.candidates = TRUE]
    <3>1. /\ run \in Run /\ run.key = old.key /\ run.brief = old.brief
          /\ run.candidates /\ run.status = "completed"
      BY <2>2 DEF Run
    <3>2. runs' = [runs EXCEPT ![handlers[h].run] = run] /\ old.status = "validating"
      BY <1>1, <2>4 DEF StoreCandidates, RunByPhase
    <3> HIDE DEF run
    <3>3. QED
      BY <2>1, <3>1, <3>2, OwnRunRemains DEF MayBecome
  <2>5. CASE ListCandidates(h)
    <3> DEFINE overtaken == Len(runs) > handlers[h].run
               run == [old EXCEPT !.overtaken = overtaken]
    <3>0. overtaken \in BOOLEAN
      OBVIOUS
    <3>1. runs' = [runs EXCEPT ![handlers[h].run] = run] /\ old.status = "completed"
      BY <1>1, <2>5 DEF ListCandidates, RunByPhase
    <3> HIDE DEF overtaken
    <3>2. /\ run \in Run /\ run.key = old.key /\ run.brief = old.brief
          /\ (run.candidates <=> old.candidates) /\ run.status = old.status
      BY <2>2, <3>0 DEF Run
    <3> HIDE DEF run
    <3>3. QED
      BY <2>1, <3>1, <3>2, OwnRunRemains DEF MayBecome
  <2>6. CASE MarkEmpty(h)
    <3> DEFINE run == [old EXCEPT !.status = "empty"]
    <3>1. /\ run \in Run /\ run.key = old.key /\ run.brief = old.brief
          /\ (run.candidates <=> old.candidates) /\ run.status = "empty"
      BY <2>2 DEF Run
    <3>2. runs' = [runs EXCEPT ![handlers[h].run] = run] /\ old.status = "completed"
      BY <1>1, <2>6 DEF MarkEmpty, RunByPhase
    <3> HIDE DEF run
    <3>3. QED
      BY <2>1, <3>1, <3>2, OwnRunRemains DEF MayBecome
  <2>7. QED
    BY <1>9, <2>3, <2>4, <2>5, <2>6
<1>10. ASSUME NEW h \in Handlers,
              \/ RejectCandidates(h) \/ StoreCandidates(h)
              \/ ListCandidates(h) \/ MarkEmpty(h)
       PROVE  InceptionRemains
  BY <1>9, <1>10, SameRemain DEF RejectCandidates, StoreCandidates, ListCandidates, MarkEmpty,
     InceptionRemains
<1>11. ASSUME NEW h \in Handlers, NEW k \in Keys, Complete(h, k) \/ FailIntent(h, k)
       PROVE  InceptionRemains
  <2>1. IntentsSettle
    BY <1>11, SettlesInProgress DEF Complete, FailIntent
  <2>2. QED
    BY <1>11, <2>1, SameRemain DEF Complete, FailIntent, InceptionRemains
<1>12. ASSUME NEW h \in Handlers, SelectWrites(h) PROVE InceptionRemains
  BY <1>12, SameRemain DEF SelectWrites, InceptionRemains
<1>13. QED
  BY <1>2, <1>3, <1>4, <1>5, <1>6, <1>7, <1>8, <1>10, <1>11, <1>12 DEF InceptionNext

(* A key is answered once. complete() and fail() name the key alone
   (solution_generation_guard.py), and still a settled intent keeps its status and its
   answer, through later requests, failures and restarts, which may leave an intent in
   progress for ever; a run keeps its key, its brief, its candidates and its result, a
   completed one that is found to be empty excepted; and once there is a first snapshot, no
   selection and no migration replaces it. *)
THEOREM KeysAreAnsweredOnce == Spec => [][InceptionRemains]_inceptionVars
<1>1. Init => InceptionInv
  BY InceptionInitInv DEF Init
<1>2. InceptionInv /\ [Next]_vars => InceptionInv'
  BY InceptionNextInv, PartsStep
<1>3. InceptionInv /\ [Next]_vars => [InceptionRemains]_inceptionVars
  BY InceptionRemainsNext, PartsStep
<1>4. QED
  BY <1>1, <1>2, <1>3, PTL DEF Spec

-------------------------------------------------------------------------------
(* Profiles *)

LEMMA ProfilesStayInv == Spec => []ProfileInv
<1>1. Init => ProfileInv
  BY ProfileInitInv DEF Init
<1>2. ProfileInv /\ [Next]_vars => ProfileInv'
  BY ProfileNextInv, PartsStep
<1>3. QED
  BY <1>1, <1>2, PTL DEF Spec

(* "A selected model profile cannot be disabled" (model_profiles.py:324): whatever is
   created, updated, deleted and chosen at the same time, a request is routed to one
   profile that exists and is enabled, or to none. *)
THEOREM SelectionsAreUsable == Spec => []SelectedProfilesAreUsable
<1>1. ProfileInv => SelectedProfilesAreUsable
  BY SelectionUsable
<1>2. QED
  BY <1>1, ProfilesStayInv, PTL

(* The keyring holds the key of the last committed change of a profile once nobody is
   changing it, a change that failed after writing the keyring included
   (model_profiles.py:371), and the results of a test are of that key, but for what
   overlapping requests, the end of the process or a put-back that failed have left. *)
THEOREM TheStoresAgree == Spec => []ProfileStoresAgree
<1>1. ProfileInv => ProfileStoresAgree
  BY StoresAgree
<1>2. QED
  BY <1>1, ProfilesStayInv, PTL

\* Requests that change the key of a profile come one after the other, ...
OneChanges == \A p \in Profiles : \A c, d \in Changing(p) : c = d

\* ... and the process does not end within one.
NoneIsCut == ProfileProcessEnds => \A p \in Profiles : Changing(p) = {}

\* A change that fails can put the key back.
AllArePutBack == \A c \in Clients, p \in Profiles : ~PutBackFails(c, p)

LEMMA NothingUnsettled ==
  ASSUME ProfileInv, OneChanges', ProfileNext, NoneIsCut, AllArePutBack, unsettled = {}
  PROVE  unsettled' = {}
<1>1. ProfileTypes /\ scope.profiles \subseteq Profiles /\ scope.secrets \subseteq Secrets
  BY ProfileBounds DEF ProfileInv, ProfileTypes
<1>2. ASSUME NEW c \in Clients, NEW p \in Profiles, clients[c].op = "idle",
             NEW client \in Client, client.op \in {"update", "delete"},
             client.profile = {p}, Disturbs(c, client, p)
      PROVE  Changing(p) = {}
  <2>1. SUFFICES ASSUME NEW d \in Changing(p) PROVE FALSE
    OBVIOUS
  <2>2. d \in Clients /\ d # c /\ clients[d].op \in {"update", "delete", "undo"}
        /\ clients[d].profile = {p}
    BY <1>2, <2>1 DEF Changing
  <2>3. clients'[d] = clients[d] /\ clients'[c] = client
    BY <1>2, <2>2 DEF Disturbs
  <2>4. c \in Changing(p)' /\ d \in Changing(p)'
    BY <1>2, <2>2, <2>3 DEF Changing
  <2>5. QED
    BY <2>2, <2>4 DEF OneChanges
<1>3. ASSUME NEW c \in Clients, NEW p \in Profiles, NEW secret \in Secrets,
             UpdateBegins(c, p, secret)
      PROVE  unsettled' = {}
  <2>1. PICK config \in Configurations :
          Disturbs(c, [NoClient EXCEPT !.op = "update", !.profile = {p},
                         !.config = {config}, !.secret = {secret},
                         !.old = IF profiles[p].key THEN keyring[p] ELSE {},
                         !.raced = Changing(p) # {}], p)
    BY <1>3 DEF UpdateBegins
  <2> DEFINE client == [NoClient EXCEPT !.op = "update", !.profile = {p},
                         !.config = {config}, !.secret = {secret},
                         !.old = IF profiles[p].key THEN keyring[p] ELSE {},
                         !.raced = Changing(p) # {}]
  <2>2. client \in Client /\ client.op = "update" /\ client.profile = {p}
    BY <1>1 DEF ProfileTypes, NoClient, Client
  <2>3. clients[c].op = "idle" /\ unsettled' = Overlaps(p)
    BY <1>3 DEF UpdateBegins
  <2>4. Changing(p) = {}
    BY <1>2, <2>1, <2>2, <2>3
  <2>5. QED
    BY <2>3, <2>4 DEF Overlaps
<1>4. ASSUME NEW c \in Clients, NEW p \in Profiles, DeleteBegins(c, p)
      PROVE  unsettled' = {}
  <2> DEFINE client == [NoClient EXCEPT !.op = "delete", !.profile = {p},
                         !.old = IF profiles[p].key THEN keyring[p] ELSE {}]
  <2>1. client \in Client /\ client.op = "delete" /\ client.profile = {p}
    BY <1>1 DEF ProfileTypes, NoClient, Client
  <2>2. clients[c].op = "idle" /\ unsettled' = Overlaps(p) /\ Disturbs(c, client, p)
    BY <1>4 DEF DeleteBegins
  <2>3. Changing(p) = {}
    BY <1>2, <2>1, <2>2
  <2>4. QED
    BY <2>2, <2>3 DEF Overlaps
<1>5. CASE ProfileProcessEnds
  BY <1>5 DEF ProfileProcessEnds, NoneIsCut
<1>6. ASSUME NEW c \in Clients, NEW p \in Profiles, UpdateCommits(c, p)
      PROVE  unsettled' = {}
  BY <1>6 DEF UpdateCommits
<1>7. CASE ClearOverride \/ \E c \in Clients : RollsBack(c) \/ TestFails(c)
  BY <1>7 DEF ClearOverride, RollsBack, TestFails
<1>8. ASSUME NEW p \in Profiles, UpdateSettings(p) \/ SetDefault(p) \/ SetOverride(p)
      PROVE  unsettled' = {}
  BY <1>8 DEF UpdateSettings, SetDefault, SetOverride
<1>9. ASSUME NEW c \in Clients, NEW p \in Profiles,
             \/ CreateInserts(c, p) \/ CreateFails(c, p) \/ DeleteCommits(c, p)
             \/ PutsBack(c, p) \/ TestReads(c, p) \/ ProviderProbed(c, p)
             \/ TestRecords(c, p) \/ \E secret : CreateStarts(c, p, secret)
      PROVE  unsettled' = {}
  BY <1>9 DEF CreateInserts, CreateFails, DeleteCommits, PutsBack, TestReads,
         ProviderProbed, TestRecords, CreateStarts
<1>10. QED
  BY <1>1, <1>3, <1>4, <1>5, <1>6, <1>7, <1>8, <1>9 DEF ProfileNext, AllArePutBack

(* Where the changes of a key come one after the other, the process does not end within
   one, and one that fails can put the key back (model_profiles.py:371), the keyring has
   the key that the database tells of for every profile: the exemptions of TheStoresAgree
   are the overlapping changes, that end and the put-back that raises, and nothing else. *)
THEOREM KeysAgreeInTurn ==
  Spec /\ []OneChanges /\ [][NoneIsCut /\ AllArePutBack]_profileVars
    => [](\A p \in Profiles : Holds(p) /\ Changing(p) = {} =>
             keyring[p] = meant[p] /\ profiles[p].key = (meant[p] # {}))
<1>1. Init => unsettled = {}
  BY DEF Init, ProfileInit
<1>2. /\ ProfileInv /\ OneChanges' /\ [Next]_vars
      /\ [NoneIsCut /\ AllArePutBack]_profileVars
      /\ unsettled = {}
      => (unsettled = {})'
  <2> SUFFICES ASSUME ProfileInv, OneChanges', [Next]_vars,
                      [NoneIsCut /\ AllArePutBack]_profileVars, unsettled = {}
               PROVE  unsettled' = {}
    OBVIOUS
  <2>1. CASE UNCHANGED profileVars
    BY <2>1 DEF profileVars
  <2>2. CASE ~UNCHANGED profileVars
    BY <2>2, NothingUnsettled, PartsStep
  <2>3. QED
    BY <2>1, <2>2
<1>3. ProfileInv /\ unsettled = {}
        => \A p \in Profiles : Holds(p) /\ Changing(p) = {} =>
             keyring[p] = meant[p] /\ profiles[p].key = (meant[p] # {})
  BY StoresAgree DEF ProfileStoresAgree
<1>4. QED
  BY <1>1, <1>2, <1>3, ProfilesStayInv, PTL DEF Spec

-------------------------------------------------------------------------------
(* The guided conversation.  That there are no more confirmed solutions than canvases
   holds in any order of requests: a request that has written a canvas can confirm one
   decision.  That the confirmed solution is the one of the canvas rests on requests
   that come one after the other: then the newest proposal is the option of a session
   that is ready. *)

GuidedTypes ==
    /\ session \in Session
    /\ decisions \in Seq(Decision)
    /\ canvases \in Seq(Options)
    /\ callers \in [Callers -> Caller]
    /\ overlapped \in BOOLEAN
    /\ made \in Nat

ConfirmedOnes == {d \in DOMAIN decisions : decisions[d].status = "confirmed"}

\* The requests that have written a canvas and may yet confirm a decision.
MayConfirm == {c \in Callers : callers[c].op \in {"finish", "confirm"}}

CanvasForEach ==
    /\ IsFiniteSet(MayConfirm)
    /\ Cardinality(ConfirmedOnes) + Cardinality(MayConfirm) <= Len(canvases)

\* The newest proposal is of this option.
NewestIs(options) == \E d \in Pending : options = {decisions[d].option}

Drawn(options) == \E n \in DOMAIN canvases : options = {canvases[n]}

Quiet == \A c \in Callers : callers[c].op = "idle"

\* What a request that nobody overlaps has read, and what it has done so far.
Alone(c) ==
    LET call == callers[c] IN
    /\ \A d \in Callers : callers[d].op # "idle" => d = c
    /\ call.op # "create" => call.session.id = session.id
    /\ call.op = "record" => session.step # Ready /\ call.session.step = Ready
    /\ call.op = "respond" => /\ session.step # Ready
                              /\ call.session.step = Ready => NewestIs(call.session.option)
    /\ call.op \in {"canvas", "finish"} => /\ session = call.session
                                           /\ session.step = Ready
    /\ call.op \in {"finish", "confirm"} => Drawn(call.session.option)
    /\ call.op = "confirm" => session.step = Finished /\ NewestIs(call.session.option)
    /\ call.op \in {"supersede", "back"} => call.session.step <= Solution
    /\ session.step = Ready /\ call.op # "back" => NewestIs(session.option)

OneByOne ==
    ~overlapped =>
        /\ Quiet /\ session.step = Ready => NewestIs(session.option)
        /\ \A c \in Callers : callers[c].op # "idle" => Alone(c)
        /\ \A d \in ConfirmedOnes : Drawn({decisions[d].option})

GuidedInv == GuidedTypes /\ CanvasForEach /\ OneByOne

LEMMA GuidedRecords ==
  /\ Questions \in Nat /\ Solution \in Nat
  /\ Solution = Questions /\ Ready = Questions + 1 /\ Finished = Questions + 2
  /\ NoSession \in Session /\ NoSession.step = 0 /\ NoSession.id = 0
  /\ NoCall \in Caller /\ NoCall.op = "idle"
<1>1. /\ Questions \in Nat /\ Solution \in Nat /\ 0 \in 0 .. Finished
      /\ Solution = Questions /\ Ready = Questions + 1 /\ Finished = Questions + 2
  BY GuidedBounds DEF Solution, Ready, Finished
<1>2. NoSession \in Session /\ NoSession.step = 0 /\ NoSession.id = 0
  BY <1>1 DEF NoSession, Session
<1>3. NoCall \in Caller /\ NoCall.op = "idle"
  BY <1>2 DEF NoCall, Caller
<1>4. QED
  BY <1>1, <1>2, <1>3

LEMMA SessionMoves ==
  ASSUME NEW s \in Session, NEW step \in 0 .. Finished, NEW options \in SUBSET Options
  PROVE  /\ [s EXCEPT !.step = step] \in Session
         /\ [s EXCEPT !.step = step].id = s.id
         /\ [s EXCEPT !.step = step].step = step
         /\ [s EXCEPT !.step = step].option = s.option
         /\ [s EXCEPT !.step = step, !.option = options] \in Session
         /\ [s EXCEPT !.step = step, !.option = options].id = s.id
         /\ [s EXCEPT !.step = step, !.option = options].step = step
         /\ [s EXCEPT !.step = step, !.option = options].option = options
BY DEF Session

LEMMA StepsOfSession ==
  /\ Ready \in 0 .. Finished /\ Finished \in 0 .. Finished
  /\ \A step \in 0 .. Finished : /\ step \in Nat
                                 /\ step < Solution => step + 1 \in 0 .. Finished
                                                    /\ step + 1 # Ready
                                 /\ step \in 1 .. Ready => step - 1 \in 0 .. Finished
                                                        /\ step - 1 <= Solution
  /\ Ready # Solution /\ Ready # Finished /\ Ready # 0
  /\ \A step \in 0 .. Finished : step <= Solution => step # Ready
BY GuidedRecords

LEMMA SessionReturns ==
  ASSUME NEW s \in Session, NEW step \in 0 .. Finished
  PROVE  /\ [s EXCEPT !.step = step, !.option = {}] \in Session
         /\ [s EXCEPT !.step = step, !.option = {}].id = s.id
         /\ [s EXCEPT !.step = step, !.option = {}].step = step
BY DEF Session

LEMMA SessionGoesBack ==
  ASSUME NEW s \in Session, s.step \in 1 .. Ready
  PROVE  /\ [s EXCEPT !.step = s.step - 1, !.option = {}] \in Session
         /\ [s EXCEPT !.step = s.step - 1, !.option = {}].id = s.id
         /\ [s EXCEPT !.step = s.step - 1, !.option = {}].step = s.step - 1
<1>1. s.step - 1 \in 0 .. Finished
  BY StepsOfSession DEF Session
<1>2. QED
  BY <1>1, SessionReturns, Zenon

LEMMA ConfirmedFinite ==
  ASSUME GuidedTypes
  PROVE  IsFiniteSet(ConfirmedOnes) /\ Cardinality(ConfirmedOnes) \in Nat
<1>1. Len(decisions) \in Nat /\ ConfirmedOnes \subseteq 1 .. Len(decisions)
  BY DEF GuidedTypes, ConfirmedOnes
<1>2. IsFiniteSet(1 .. Len(decisions))
  BY <1>1, FS_Interval
<1>3. IsFiniteSet(ConfirmedOnes)
  BY <1>1, <1>2, FS_Subset
<1>4. QED
  BY <1>3, FS_CardinalityType

LEMMA GuidedInvImplies == GuidedInv => ConfirmedIsApplied
<1> SUFFICES ASSUME GuidedInv PROVE ConfirmedIsApplied
  OBVIOUS
<1>1. /\ Cardinality(MayConfirm) \in Nat /\ Len(canvases) \in Nat
      /\ Cardinality(ConfirmedOnes) \in Nat
  BY ConfirmedFinite, FS_CardinalityType DEF GuidedInv, CanvasForEach, GuidedTypes
<1>2. Cardinality(ConfirmedOnes) <= Len(canvases)
  BY <1>1 DEF GuidedInv, CanvasForEach
<1>3. ASSUME ~overlapped, NEW d \in ConfirmedOnes
      PROVE  \E n \in DOMAIN canvases : canvases[n] = decisions[d].option
  BY <1>3 DEF GuidedInv, OneByOne, Drawn
<1>4. QED
  BY <1>2, <1>3 DEF ConfirmedIsApplied, ConfirmedOnes

LEMMA GuidedInitInv == GuidedInit => GuidedInv
<1> SUFFICES ASSUME GuidedInit PROVE GuidedInv
  OBVIOUS
<1>0. Questions \in Nat /\ 0 \in 0 .. Finished
  BY GuidedBounds DEF Finished
<1>1. GuidedTypes
  <2>1. [NoSession EXCEPT !.id = 1] \in Session
    BY <1>0 DEF NoSession, Session
  <2>2. <<>> \in Seq(Decision) /\ <<>> \in Seq(Options)
    OBVIOUS
  <2>3. QED
    BY <2>1, <2>2, GuidedRecords DEF GuidedInit, GuidedTypes
<1>2. ConfirmedOnes = {} /\ MayConfirm = {} /\ Len(canvases) = 0 /\ session.step = 0
  BY DEF GuidedInit, ConfirmedOnes, MayConfirm, NoCall, NoSession
<1>3. CanvasForEach
  BY <1>2, FS_EmptySet DEF CanvasForEach
<1>4. OneByOne
  BY <1>2, GuidedBounds DEF GuidedInit, OneByOne, NoCall, Ready
<1>5. QED
  BY <1>1, <1>3, <1>4 DEF GuidedInv

-------------------------------------------------------------------------------
(* Counting *)

LEMMA OnePending ==
  ASSUME GuidedTypes
  PROVE  /\ \A d, e \in Pending : d = e
         /\ Pending \subseteq DOMAIN decisions
<1>1. \A d \in DOMAIN decisions : d \in Nat
  BY DEF GuidedTypes
<1>2. QED
  BY <1>1 DEF Pending, Proposed

LEMMA CallerIs ==
  ASSUME GuidedTypes, NEW c \in Callers, NEW call \in Caller,
         callers' = [callers EXCEPT ![c] = call]
  PROVE  /\ callers' \in [Callers -> Caller]
         /\ callers'[c] = call
         /\ \A d \in Callers : d # c => callers'[d] = callers[d]
BY DEF GuidedTypes

\* A step that confirms nothing and writes no canvas.
LEMMA CanvasesSuffice ==
  ASSUME GuidedTypes, CanvasForEach,
         ConfirmedOnes' \subseteq ConfirmedOnes, MayConfirm' \subseteq MayConfirm,
         UNCHANGED canvases
  PROVE  CanvasForEach'
<1>1. IsFiniteSet(ConfirmedOnes) /\ IsFiniteSet(MayConfirm)
  BY ConfirmedFinite DEF CanvasForEach
<1>2. /\ IsFiniteSet(ConfirmedOnes') /\ IsFiniteSet(MayConfirm')
      /\ Cardinality(ConfirmedOnes') <= Cardinality(ConfirmedOnes)
      /\ Cardinality(MayConfirm') <= Cardinality(MayConfirm)
  BY <1>1, FS_Subset
<1>3. /\ Cardinality(ConfirmedOnes) \in Nat /\ Cardinality(MayConfirm) \in Nat
      /\ Cardinality(ConfirmedOnes') \in Nat /\ Cardinality(MayConfirm') \in Nat
      /\ Len(canvases) \in Nat /\ Len(canvases') = Len(canvases)
  BY <1>1, <1>2, FS_CardinalityType DEF GuidedTypes
<1>4. Cardinality(ConfirmedOnes') + Cardinality(MayConfirm') <= Len(canvases')
  BY <1>2, <1>3 DEF CanvasForEach
<1>5. QED
  BY <1>2, <1>4 DEF CanvasForEach

\* What a change of the newest proposal does.
LEMMA NewestResolved ==
  ASSUME GuidedTypes, NEW status \in {"confirmed", "superseded"}, Resolve(status)
  PROVE  /\ decisions' \in Seq(Decision)
         /\ DOMAIN decisions' = DOMAIN decisions
         /\ \A d \in DOMAIN decisions :
              /\ decisions'[d].option = decisions[d].option
              /\ decisions'[d].status = IF d \in Pending THEN status
                                                         ELSE decisions[d].status
<1>1. \A d \in DOMAIN decisions : decisions[d] \in Decision
  BY DEF GuidedTypes
<1>2. \A d \in DOMAIN decisions : [decisions[d] EXCEPT !.status = status] \in Decision
  BY <1>1 DEF Decision
<1>3. /\ DOMAIN decisions' = DOMAIN decisions /\ Len(decisions) \in Nat
      /\ DOMAIN decisions = 1 .. Len(decisions)
  BY DEF Resolve, GuidedTypes
<1>4. \A d \in DOMAIN decisions :
        decisions'[d] = IF d \in Pending THEN [decisions[d] EXCEPT !.status = status]
                                         ELSE decisions[d]
  BY DEF Resolve
<1>5. decisions' \in Seq(Decision)
  <2>1. \A d \in DOMAIN decisions : decisions'[d] \in Decision
    BY <1>1, <1>2, <1>4
  <2>2. decisions' \in [1 .. Len(decisions) -> Decision]
    BY <1>3, <2>1 DEF Resolve
  <2>3. QED
    BY <1>3, <2>2
<1>6. ASSUME NEW d \in DOMAIN decisions
      PROVE  /\ decisions'[d].option = decisions[d].option
             /\ decisions'[d].status = IF d \in Pending THEN status
                                                        ELSE decisions[d].status
  <2>1. CASE d \in Pending
    BY <1>1, <1>4, <2>1 DEF Decision
  <2>2. CASE d \notin Pending
    BY <1>4, <2>2
  <2>3. QED
    BY <2>1, <2>2
<1>7. QED
  BY <1>3, <1>5, <1>6

-------------------------------------------------------------------------------
(* The steps *)

Operations == {"record", "respond", "canvas", "finish", "confirm", "create", "supersede",
               "back"}

LEMMA CallStarts ==
  ASSUME GuidedTypes, NEW c \in Callers, NEW op \in Operations, NEW read \in Session,
         Calls(c, op, read)
  PROVE  /\ callers' \in [Callers -> Caller]
         /\ callers'[c].op = op /\ callers'[c].session = read
         /\ \A d \in Callers : d # c => callers'[d] = callers[d]
         /\ callers[c].op = "idle"
         /\ overlapped' \in BOOLEAN
         /\ ~overlapped' => ~overlapped /\ Quiet
         /\ UNCHANGED <<session, decisions, canvases, made>>
<1>1. [op |-> op, session |-> read] \in Caller
  BY DEF Caller, Operations
<1>2. callers' = [callers EXCEPT ![c] = [op |-> op, session |-> read]]
  BY DEF Calls
<1>3. /\ callers' \in [Callers -> Caller]
      /\ callers'[c] = [op |-> op, session |-> read]
      /\ \A d \in Callers : d # c => callers'[d] = callers[d]
  BY <1>1, <1>2, CallerIs
<1>4. overlapped' \in BOOLEAN /\ (~overlapped' => ~overlapped /\ Quiet)
  BY DEF Calls, Quiet, GuidedTypes
<1>5. QED
  BY <1>3, <1>4 DEF Calls

LEMMA CallGoesOn ==
  ASSUME GuidedTypes, NEW c \in Callers, NEW op \in Operations, Goes(c, op)
  PROVE  /\ callers' \in [Callers -> Caller]
         /\ callers'[c].op = op /\ callers'[c].session = callers[c].session
         /\ \A d \in Callers : d # c => callers'[d] = callers[d]
<1>1. callers[c] \in Caller
  BY DEF GuidedTypes
<1>2. [callers[c] EXCEPT !.op = op] \in Caller
  BY <1>1 DEF Caller, Operations
<1>3. callers' = [callers EXCEPT ![c] = [callers[c] EXCEPT !.op = op]]
  BY DEF Goes
<1>4. QED
  BY <1>1, <1>2, <1>3, CallerIs DEF Caller

LEMMA CallEnds ==
  ASSUME GuidedTypes, NEW c \in Callers, Ends(c)
  PROVE  /\ callers' \in [Callers -> Caller]
         /\ callers'[c].op = "idle"
         /\ \A d \in Callers : d # c => callers'[d] = callers[d]
BY GuidedRecords, CallerIs DEF Ends

\* As long as nothing has overlapped, a request that is on its way is the only one.
LEMMA OthersIdle ==
  ASSUME OneByOne, ~overlapped, NEW c \in Callers, callers[c].op # "idle"
  PROVE  Alone(c) /\ \A d \in Callers : d # c => callers[d].op = "idle"
BY DEF OneByOne, Alone

\* A request that reads: nobody else is on its way, or the step overlaps.
LEMMA ReadsKeep ==
  ASSUME GuidedInv, NEW c \in Callers, NEW op \in Operations \ {"finish", "confirm", "create"},
         NEW read \in Session, Calls(c, op, read), read.id = session.id,
         op = "record" => session.step # Ready /\ read.step = Ready,
         op = "respond" => session.step # Ready /\ read.step # Ready,
         op = "canvas" => read = session /\ session.step = Ready,
         op \in {"supersede", "back"} => read.step <= Solution,
         op = "back" => session.step # Ready
  PROVE  GuidedInv'
<1>1. GuidedTypes /\ CanvasForEach /\ OneByOne
  BY DEF GuidedInv
<1>2. /\ callers' \in [Callers -> Caller]
      /\ callers'[c].op = op /\ callers'[c].session = read
      /\ \A d \in Callers : d # c => callers'[d] = callers[d]
      /\ callers[c].op = "idle"
      /\ overlapped' \in BOOLEAN
      /\ ~overlapped' => ~overlapped /\ Quiet
      /\ UNCHANGED <<session, decisions, canvases, made>>
  BY <1>1, CallStarts
<1>3. GuidedTypes'
  BY <1>1, <1>2 DEF GuidedTypes
<1>4. CanvasForEach'
  BY <1>1, <1>2, CanvasesSuffice DEF ConfirmedOnes, MayConfirm, Operations
<1>5. OneByOne'
  <2> SUFFICES ASSUME ~overlapped' PROVE OneByOne'
    BY DEF OneByOne
  <2>1. Pending' = Pending /\ ConfirmedOnes' = ConfirmedOnes
    BY <1>2 DEF Pending, Proposed, ConfirmedOnes
  <2>2. /\ ~Quiet' /\ \A d \in Callers : callers'[d].op # "idle" => d = c
        /\ session.step = Ready => NewestIs(session.option)
        /\ \A d \in ConfirmedOnes : Drawn({decisions[d].option})
    BY <1>1, <1>2 DEF OneByOne, Quiet, Operations
  <2>3. Alone(c)'
    BY <1>2, <2>1, <2>2 DEF Alone, NewestIs, Operations
  <2>4. QED
    BY <1>2, <2>1, <2>2, <2>3 DEF OneByOne, Drawn
<1>6. QED
  BY <1>3, <1>4, <1>5 DEF GuidedInv

LEMMA GuidedNextInv == GuidedInv /\ [GuidedNext]_guidedVars => GuidedInv'
<1> SUFFICES ASSUME GuidedInv, [GuidedNext]_guidedVars PROVE GuidedInv'
  OBVIOUS
<1>0. GuidedTypes /\ CanvasForEach /\ OneByOne
  BY DEF GuidedInv
<1>1. ASSUME NEW c \in Callers, AnswerReads(c) PROVE GuidedInv'
  <2> DEFINE read == [session EXCEPT !.step = session.step + 1]
  <2>1. /\ session \in Session /\ session.step \in 0 .. Finished
        /\ session.step < Solution
    BY <1>0, <1>1 DEF AnswerReads, GuidedTypes, Session
  <2>2. session.step + 1 \in 0 .. Finished /\ session.step + 1 # Ready /\ session.step # Ready
    BY <2>1, StepsOfSession, GuidedRecords
  <2>3. read \in Session /\ read.id = session.id /\ read.step = session.step + 1
    BY <2>1, <2>2, SessionMoves
  <2>4. Calls(c, "respond", read)
    BY <1>1 DEF AnswerReads
  <2> HIDE DEF read
  <2>5. QED
    BY <2>2, <2>3, <2>4, ReadsKeep DEF Operations
<1>2. ASSUME NEW c \in Callers, NEW o \in Options, ChooseReads(c, o) PROVE GuidedInv'
  <2> DEFINE read == [session EXCEPT !.step = Ready, !.option = {o}]
  <2>1. /\ session \in Session /\ session.step # Ready
    BY <1>0, <1>2, StepsOfSession DEF ChooseReads, GuidedTypes
  <2>2. read \in Session /\ read.id = session.id /\ read.step = Ready
    <3>1. {o} \in SUBSET Options /\ Ready \in 0 .. Finished
      BY StepsOfSession
    <3>2. QED
      BY <2>1, <3>1, SessionMoves
  <2>3. Calls(c, "record", read)
    BY <1>2 DEF ChooseReads
  <2> HIDE DEF read
  <2>4. QED
    BY <2>1, <2>2, <2>3, ReadsKeep DEF Operations
<1>3. ASSUME NEW c \in Callers, ApplyReads(c) PROVE GuidedInv'
  BY <1>0, <1>3, ReadsKeep DEF ApplyReads, GuidedTypes, Operations
<1>4. ASSUME NEW c \in Callers, BackReads(c) PROVE GuidedInv'
  <2> DEFINE op == IF session.step = Ready THEN "supersede" ELSE "back"
             read == [session EXCEPT !.step = session.step - 1, !.option = {}]
  <2>0. session \in Session /\ session.step \in 0 .. Finished /\ session.step \in 1 .. Ready
    BY <1>0, <1>4 DEF BackReads, GuidedTypes, Session
  <2>1. /\ read \in Session /\ read.id = session.id /\ read.step <= Solution
        /\ op \in {"supersede", "back"}
        /\ op = "back" => session.step # Ready
    <3>1. /\ {} \in SUBSET Options /\ session.step - 1 \in 0 .. Finished
          /\ session.step - 1 <= Solution
      BY <2>0, StepsOfSession
    <3>2. read \in Session /\ read.id = session.id /\ read.step = session.step - 1
      BY <2>0, SessionGoesBack
    <3>3. op \in {"supersede", "back"} /\ (op = "back" => session.step # Ready)
      OBVIOUS
    <3>4. QED
      BY <3>1, <3>2, <3>3
  <2>2. Calls(c, op, read)
    BY <1>4 DEF BackReads
  <2> HIDE DEF op, read
  <2>3. QED
    BY <2>1, <2>2, ReadsKeep DEF Operations
<1>5. ASSUME NEW c \in Callers, RespondWrites(c) PROVE GuidedInv'
  <2>1. /\ callers' \in [Callers -> Caller]
        /\ callers'[c].op = "idle"
        /\ \A d \in Callers : d # c => callers'[d] = callers[d]
    BY <1>0, <1>5, CallEnds DEF RespondWrites, Operations
  <2>2. /\ callers[c].op = "respond" /\ Updates(callers[c].session)
        /\ UNCHANGED <<decisions, canvases, overlapped, made>>
    BY <1>5 DEF RespondWrites
  <2>3. GuidedTypes'
    BY <1>0, <2>1, <2>2, <1>5 DEF GuidedTypes, Updates, Caller
  <2>4. CanvasForEach'
    BY <1>0, <2>1, <2>2, CanvasesSuffice DEF ConfirmedOnes, MayConfirm
  <2>5. OneByOne'
    <3> SUFFICES ASSUME ~overlapped' PROVE OneByOne'
      BY DEF OneByOne
    <3>1. /\ Alone(c) /\ \A d \in Callers : d # c => callers[d].op = "idle"
          /\ \A d \in ConfirmedOnes : Drawn({decisions[d].option})
      BY <1>0, <2>2, OthersIdle DEF OneByOne
    <3>2. Pending' = Pending /\ ConfirmedOnes' = ConfirmedOnes
      BY <2>2 DEF Pending, Proposed, ConfirmedOnes
    <3>3. session'.step = Ready => NewestIs(session'.option)
      BY <1>0, <2>2, <3>1, GuidedRecords DEF Alone, Updates, GuidedTypes, Caller, Session
    <3>4. QED
      BY <2>1, <2>2, <3>1, <3>2, <3>3 DEF OneByOne, NewestIs, Drawn
  <2>6. QED
    BY <2>3, <2>4, <2>5 DEF GuidedInv
<1>6. ASSUME NEW c \in Callers, BackWrites(c) PROVE GuidedInv'
  <2>1. /\ callers' \in [Callers -> Caller]
        /\ callers'[c].op = "idle"
        /\ \A d \in Callers : d # c => callers'[d] = callers[d]
    BY <1>0, <1>6, CallEnds DEF BackWrites, Operations
  <2>2. /\ callers[c].op = "back" /\ Updates(callers[c].session)
        /\ UNCHANGED <<decisions, canvases, overlapped, made>>
    BY <1>6 DEF BackWrites
  <2>3. GuidedTypes'
    BY <1>0, <2>1, <2>2, <1>6 DEF GuidedTypes, Updates, Caller
  <2>4. CanvasForEach'
    BY <1>0, <2>1, <2>2, CanvasesSuffice DEF ConfirmedOnes, MayConfirm
  <2>5. OneByOne'
    <3> SUFFICES ASSUME ~overlapped' PROVE OneByOne'
      BY DEF OneByOne
    <3>1. /\ Alone(c) /\ \A d \in Callers : d # c => callers[d].op = "idle"
          /\ \A d \in ConfirmedOnes : Drawn({decisions[d].option})
      BY <1>0, <2>2, OthersIdle DEF OneByOne
    <3>2. Pending' = Pending /\ ConfirmedOnes' = ConfirmedOnes
      BY <2>2 DEF Pending, Proposed, ConfirmedOnes
    <3>3. session'.step = Ready => NewestIs(session'.option)
      BY <1>0, <2>2, <3>1, GuidedRecords DEF Alone, Updates, GuidedTypes, Caller, Session
    <3>4. QED
      BY <2>1, <2>2, <3>1, <3>2, <3>3 DEF OneByOne, NewestIs, Drawn
  <2>6. QED
    BY <2>3, <2>4, <2>5 DEF GuidedInv
<1>7. ASSUME NEW c \in Callers, ResetCreates(c) PROVE GuidedInv'
  <2>1. /\ callers' \in [Callers -> Caller]
        /\ callers'[c].op = "idle"
        /\ \A d \in Callers : d # c => callers'[d] = callers[d]
    BY <1>0, <1>7, CallEnds DEF ResetCreates, Operations
  <2>2. /\ callers[c].op = "create" /\ session' \in Session /\ session'.step = 0
        /\ made' \in Nat /\ UNCHANGED <<decisions, canvases, overlapped>>
    BY <1>0, <1>7, GuidedRecords DEF ResetCreates, GuidedTypes, NoSession, Session
  <2>3. GuidedTypes'
    BY <1>0, <2>1, <2>2, <1>7 DEF GuidedTypes, Updates, Caller
  <2>4. CanvasForEach'
    BY <1>0, <2>1, <2>2, CanvasesSuffice DEF ConfirmedOnes, MayConfirm
  <2>5. OneByOne'
    <3> SUFFICES ASSUME ~overlapped' PROVE OneByOne'
      BY DEF OneByOne
    <3>1. /\ Alone(c) /\ \A d \in Callers : d # c => callers[d].op = "idle"
          /\ \A d \in ConfirmedOnes : Drawn({decisions[d].option})
      BY <1>0, <2>2, OthersIdle DEF OneByOne
    <3>2. Pending' = Pending /\ ConfirmedOnes' = ConfirmedOnes
      BY <2>2 DEF Pending, Proposed, ConfirmedOnes
    <3>3. session'.step = Ready => NewestIs(session'.option)
      BY <1>0, <2>2, <3>1, GuidedRecords DEF Alone, Updates, GuidedTypes, Caller, Session
    <3>4. QED
      BY <2>1, <2>2, <3>1, <3>2, <3>3 DEF OneByOne, NewestIs, Drawn
  <2>6. QED
    BY <2>3, <2>4, <2>5 DEF GuidedInv
<1>8. ASSUME NEW c \in Callers, FinishSession(c) PROVE GuidedInv'
  <2>1. /\ callers' \in [Callers -> Caller]
        /\ callers'[c].op = "confirm" /\ callers'[c].session = callers[c].session
        /\ \A d \in Callers : d # c => callers'[d] = callers[d]
    BY <1>0, <1>8, CallGoesOn DEF FinishSession, Operations
  <2>2. /\ callers[c].op = "finish" /\ callers[c].session \in Session
        /\ \E written \in Session : /\ Updates(written)
                                     /\ written.id = callers[c].session.id
                                     /\ written.step = Finished
        /\ UNCHANGED <<decisions, canvases, overlapped, made>>
    <3>1. callers[c] \in Caller /\ callers[c].session \in Session
      BY <1>0 DEF GuidedTypes, Caller
    <3>2. /\ [callers[c].session EXCEPT !.step = Finished] \in Session
          /\ [callers[c].session EXCEPT !.step = Finished].id = callers[c].session.id
          /\ [callers[c].session EXCEPT !.step = Finished].step = Finished
      BY <3>1, StepsOfSession, SessionMoves
    <3>3. QED
      BY <1>8, <3>1, <3>2 DEF FinishSession
  <2>3. GuidedTypes'
    BY <1>0, <2>1, <2>2, GuidedRecords DEF GuidedTypes, Updates, Caller
  <2>4. CanvasForEach'
    BY <1>0, <2>1, <2>2, CanvasesSuffice DEF ConfirmedOnes, MayConfirm
  <2>5. OneByOne'
    <3> SUFFICES ASSUME ~overlapped' PROVE OneByOne'
      BY DEF OneByOne
    <3>1. /\ Alone(c) /\ \A d \in Callers : d # c => callers[d].op = "idle"
          /\ \A d \in ConfirmedOnes : Drawn({decisions[d].option})
      BY <1>0, <2>2, OthersIdle DEF OneByOne
    <3>2. Pending' = Pending /\ ConfirmedOnes' = ConfirmedOnes
      BY <2>2 DEF Pending, Proposed, ConfirmedOnes
    <3>3. /\ session = callers[c].session /\ session.step = Ready
          /\ Drawn(callers[c].session.option) /\ NewestIs(session.option)
      BY <2>2, <3>1 DEF Alone
    <3>4. session'.id = callers[c].session.id /\ session'.step = Finished
      BY <2>2, <3>3 DEF Updates
    <3>5. NewestIs(callers[c].session.option)' /\ Drawn(callers[c].session.option)'
      BY <2>1, <2>2, <3>2, <3>3 DEF NewestIs, Drawn
    <3>6. /\ callers'[c].op = "confirm" /\ callers'[c].session = callers[c].session
          /\ \A d \in Callers : callers'[d].op # "idle" => d = c
          /\ Finished # Ready
      BY <2>1, <3>1, StepsOfSession
    <3>7. Alone(c)'
      BY <3>3, <3>4, <3>5, <3>6 DEF Alone, NewestIs, Drawn
    <3>8. QED
      BY <2>1, <2>2, <3>1, <3>2, <3>4, <3>6, <3>7 DEF OneByOne, Drawn
  <2>6. QED
    BY <2>3, <2>4, <2>5 DEF GuidedInv
<1>9. ASSUME NEW c \in Callers, NEW o \in Options, RecordDecision(c, o) PROVE GuidedInv'
  <2> DEFINE last == Len(decisions) + 1
  <2>1. /\ callers' \in [Callers -> Caller]
        /\ callers'[c].op = "respond" /\ callers'[c].session = callers[c].session
        /\ \A d \in Callers : d # c => callers'[d] = callers[d]
    BY <1>0, <1>9, CallGoesOn DEF RecordDecision, Operations
  <2>2. /\ callers[c].op = "record" /\ callers[c].session.option = {o}
        /\ UNCHANGED <<session, canvases, overlapped, made>>
    BY <1>9 DEF RecordDecision
  <2>3. /\ decisions' \in Seq(Decision) /\ DOMAIN decisions' = 1 .. last
        /\ DOMAIN decisions = 1 .. Len(decisions) /\ last \in Nat /\ Len(decisions) \in Nat
        /\ \A d \in DOMAIN decisions : decisions'[d] = decisions[d]
        /\ decisions'[last].option = o /\ decisions'[last].status = "proposed"
    <3>1. [option |-> o, status |-> "proposed"] \in Decision
      BY DEF Decision
    <3>2. QED
      BY <1>0, <1>9, <3>1 DEF RecordDecision, GuidedTypes
  <2> HIDE DEF last
  <2>4. ConfirmedOnes' = ConfirmedOnes
    <3>1. \A d \in DOMAIN decisions' : d \in DOMAIN decisions \/ d = last
      BY <2>3 DEF last
    <3>2. DOMAIN decisions \subseteq DOMAIN decisions'
      BY <2>3 DEF last
    <3>3. QED
      BY <2>3, <3>1, <3>2 DEF ConfirmedOnes
  <2>5. last \in Pending'
    <3>1. last \in DOMAIN decisions' /\ \A e \in DOMAIN decisions' : e <= last
      <4>1. 1 <= last
        BY <2>3 DEF last
      <4>2. QED
        BY <2>3, <4>1
    <3>2. last \in Proposed' /\ \A e \in Proposed' : e <= last
      BY <2>3, <3>1 DEF Proposed
    <3>3. QED
      BY <3>2 DEF Pending
  <2>6. GuidedTypes'
    BY <1>0, <2>1, <2>2, <2>3 DEF GuidedTypes
  <2>7. CanvasForEach'
    BY <1>0, <2>1, <2>2, <2>4, CanvasesSuffice DEF MayConfirm
  <2>8. OneByOne'
    <3> SUFFICES ASSUME ~overlapped' PROVE OneByOne'
      BY DEF OneByOne
    <3>1. /\ Alone(c) /\ \A d \in Callers : d # c => callers[d].op = "idle"
          /\ \A d \in ConfirmedOnes : Drawn({decisions[d].option})
      BY <1>0, <2>2, OthersIdle DEF OneByOne
    <3>2. session.step # Ready /\ callers[c].session.id = session.id
      BY <2>2, <3>1 DEF Alone
    <3>3. NewestIs(callers[c].session.option)'
      BY <2>2, <2>3, <2>5, <2>1 DEF NewestIs
    <3>4. Alone(c)'
      BY <2>1, <2>2, <3>1, <3>2, <3>3 DEF Alone, NewestIs
    <3>5. \A d \in ConfirmedOnes' : Drawn({decisions[d].option})'
      BY <2>2, <2>3, <2>4, <3>1 DEF ConfirmedOnes, Drawn
    <3>6. QED
      BY <2>1, <2>2, <3>1, <3>2, <3>4, <3>5 DEF OneByOne
  <2>9. QED
    BY <2>6, <2>7, <2>8 DEF GuidedInv
<1>10. ASSUME NEW c \in Callers, NEW o \in Options, WriteCanvas(c, o) PROVE GuidedInv'
  <2>1. /\ callers' \in [Callers -> Caller]
        /\ callers'[c].op = "finish" /\ callers'[c].session = callers[c].session
        /\ \A d \in Callers : d # c => callers'[d] = callers[d]
    BY <1>0, <1>10, CallGoesOn DEF WriteCanvas, Operations
  <2>2. /\ callers[c].op = "canvas" /\ callers[c].session.option = {o}
        /\ UNCHANGED <<session, decisions, overlapped, made>>
    BY <1>10 DEF WriteCanvas
  <2>3. /\ canvases' \in Seq(Options) /\ Len(canvases) \in Nat
        /\ Len(canvases') = Len(canvases) + 1
        /\ \A n \in DOMAIN canvases : n \in DOMAIN canvases' /\ canvases'[n] = canvases[n]
        /\ Len(canvases) + 1 \in DOMAIN canvases' /\ canvases'[Len(canvases) + 1] = o
    BY <1>0, <1>10 DEF WriteCanvas, GuidedTypes
  <2>4. GuidedTypes'
    BY <1>0, <2>1, <2>2, <2>3 DEF GuidedTypes
  <2>5. ConfirmedOnes' = ConfirmedOnes /\ Pending' = Pending
    BY <2>2 DEF ConfirmedOnes, Pending, Proposed
  <2>6. CanvasForEach'
    <3>1. MayConfirm' = MayConfirm \cup {c} /\ c \notin MayConfirm
      BY <2>1, <2>2 DEF MayConfirm
    <3>2. IsFiniteSet(MayConfirm) /\ Cardinality(MayConfirm) \in Nat
      BY <1>0, FS_CardinalityType DEF CanvasForEach
    <3>3. /\ IsFiniteSet(MayConfirm \cup {c})
          /\ Cardinality(MayConfirm \cup {c}) = Cardinality(MayConfirm) + 1
      BY <3>1, <3>2, FS_AddElement
    <3>4. Cardinality(ConfirmedOnes) \in Nat
      BY <1>0, ConfirmedFinite
    <3>5. Cardinality(ConfirmedOnes) + Cardinality(MayConfirm) <= Len(canvases)
      BY <1>0 DEF CanvasForEach
    <3>6. Cardinality(ConfirmedOnes) + Cardinality(MayConfirm \cup {c}) <= Len(canvases')
      BY <2>3, <3>2, <3>3, <3>4, <3>5
    <3>7. QED
      BY <2>5, <3>1, <3>3, <3>6 DEF CanvasForEach
  <2>7. OneByOne'
    <3> SUFFICES ASSUME ~overlapped' PROVE OneByOne'
      BY DEF OneByOne
    <3>1. /\ Alone(c) /\ \A d \in Callers : d # c => callers[d].op = "idle"
          /\ \A d \in ConfirmedOnes : Drawn({decisions[d].option})
      BY <1>0, <2>2, OthersIdle DEF OneByOne
    <3>2. /\ session = callers[c].session /\ session.step = Ready
          /\ NewestIs(session.option)
      BY <2>2, <3>1 DEF Alone
    <3>3. Drawn(callers[c].session.option)'
      BY <2>1, <2>2, <2>3 DEF Drawn
    <3>4. Alone(c)'
      BY <2>1, <2>2, <2>5, <3>1, <3>2, <3>3 DEF Alone, NewestIs, Drawn
    <3>5. \A d \in ConfirmedOnes' : Drawn({decisions[d].option})'
      BY <2>2, <2>3, <2>5, <3>1 DEF Drawn
    <3>6. QED
      BY <2>1, <2>2, <3>1, <3>4, <3>5 DEF OneByOne, Quiet
  <2>8. QED
    BY <2>4, <2>6, <2>7 DEF GuidedInv
<1>11. ASSUME NEW c \in Callers, ConfirmDecision(c) PROVE GuidedInv'
  <2>1. /\ callers' \in [Callers -> Caller]
        /\ callers'[c].op = "idle"
        /\ \A d \in Callers : d # c => callers'[d] = callers[d]
    BY <1>0, <1>11, CallEnds DEF ConfirmDecision
  <2>2. /\ callers[c].op = "confirm" /\ Resolve("confirmed")
        /\ UNCHANGED <<session, canvases, overlapped, made>>
    BY <1>11 DEF ConfirmDecision
  <2>3. /\ decisions' \in Seq(Decision) /\ DOMAIN decisions' = DOMAIN decisions
        /\ \A d \in DOMAIN decisions :
             /\ decisions'[d].option = decisions[d].option
             /\ decisions'[d].status = IF d \in Pending THEN "confirmed"
                                                        ELSE decisions[d].status
    BY <1>0, <2>2, NewestResolved
  <2>4. ConfirmedOnes' \subseteq ConfirmedOnes \cup Pending
    BY <2>3 DEF ConfirmedOnes
  <2>5. GuidedTypes'
    BY <1>0, <2>1, <2>2, <2>3 DEF GuidedTypes
  <2>6. CanvasForEach'
    <3>1. MayConfirm' = MayConfirm \ {c} /\ c \in MayConfirm
      BY <2>1, <2>2 DEF MayConfirm
    <3>2. IsFiniteSet(MayConfirm) /\ Cardinality(MayConfirm) \in Nat
      BY <1>0, FS_CardinalityType DEF CanvasForEach
    <3>3. /\ IsFiniteSet(MayConfirm \ {c})
          /\ Cardinality(MayConfirm \ {c}) = Cardinality(MayConfirm) - 1
      BY <3>1, <3>2, FS_RemoveElement
    <3>4. /\ IsFiniteSet(ConfirmedOnes) /\ Cardinality(ConfirmedOnes) \in Nat
          /\ IsFiniteSet(ConfirmedOnes') /\ Cardinality(ConfirmedOnes') \in Nat
          /\ Len(canvases') = Len(canvases) /\ Len(canvases) \in Nat
      <4>1. IsFiniteSet(ConfirmedOnes') /\ Cardinality(ConfirmedOnes') \in Nat
        <5>1. Len(decisions) \in Nat /\ ConfirmedOnes' \subseteq 1 .. Len(decisions)
          BY <1>0, <2>3 DEF ConfirmedOnes, GuidedTypes
        <5>2. IsFiniteSet(1 .. Len(decisions))
          BY <5>1, FS_Interval
        <5>3. IsFiniteSet(ConfirmedOnes')
          BY <5>1, <5>2, FS_Subset
        <5>4. QED
          BY <5>3, FS_CardinalityType
      <4>2. QED
        BY <1>0, <2>2, <4>1, ConfirmedFinite DEF GuidedTypes
    <3>5. Cardinality(ConfirmedOnes') <= Cardinality(ConfirmedOnes) + 1
      <4>1. CASE Pending = {}
        <5>1. Cardinality(ConfirmedOnes') <= Cardinality(ConfirmedOnes)
          BY <2>4, <3>4, <4>1, FS_Subset
        <5>2. QED
          BY <3>4, <5>1
      <4>2. ASSUME NEW p \in Pending PROVE Cardinality(ConfirmedOnes') <= Cardinality(ConfirmedOnes) + 1
        <5>1. ConfirmedOnes' \subseteq ConfirmedOnes \cup {p}
          BY <1>0, <2>4, OnePending
        <5>2. /\ IsFiniteSet(ConfirmedOnes \cup {p})
              /\ Cardinality(ConfirmedOnes \cup {p}) = Cardinality(ConfirmedOnes)
                 \/ Cardinality(ConfirmedOnes \cup {p}) = Cardinality(ConfirmedOnes) + 1
          BY <3>4, FS_AddElement
        <5>3. Cardinality(ConfirmedOnes') <= Cardinality(ConfirmedOnes \cup {p})
          BY <5>1, <5>2, FS_Subset
        <5>4. QED
          BY <3>4, <5>2, <5>3
      <4>3. QED
        BY <4>1, <4>2
    <3>6. Cardinality(ConfirmedOnes) + Cardinality(MayConfirm) <= Len(canvases)
      BY <1>0 DEF CanvasForEach
    <3>7. Cardinality(ConfirmedOnes') + Cardinality(MayConfirm \ {c}) <= Len(canvases')
      BY <3>2, <3>3, <3>4, <3>5, <3>6
    <3>8. QED
      BY <3>1, <3>3, <3>7 DEF CanvasForEach
  <2>7. OneByOne'
    <3> SUFFICES ASSUME ~overlapped' PROVE OneByOne'
      BY DEF OneByOne
    <3>1. /\ Alone(c) /\ \A d \in Callers : d # c => callers[d].op = "idle"
          /\ \A d \in ConfirmedOnes : Drawn({decisions[d].option})
      BY <1>0, <2>2, OthersIdle DEF OneByOne
    <3>2. /\ session.step = Finished /\ NewestIs(callers[c].session.option)
          /\ Drawn(callers[c].session.option) /\ Finished # Ready
      BY <2>2, <3>1, StepsOfSession DEF Alone
    <3>3. ASSUME NEW d \in ConfirmedOnes' PROVE Drawn({decisions[d].option})'
      <4>1. d \in DOMAIN decisions /\ decisions'[d].option = decisions[d].option
        BY <2>3, <3>3 DEF ConfirmedOnes
      <4>2. Drawn({decisions[d].option})
        BY <1>0, <2>4, <3>1, <3>2, <3>3, OnePending DEF NewestIs
      <4>3. QED
        BY <2>2, <4>1, <4>2 DEF Drawn
    <3>4. QED
      BY <2>1, <2>2, <3>1, <3>2, <3>3 DEF OneByOne
  <2>8. QED
    BY <2>5, <2>6, <2>7 DEF GuidedInv
<1>12. ASSUME NEW c \in Callers, SupersedeDecision(c) PROVE GuidedInv'
  <2>1. /\ callers' \in [Callers -> Caller]
        /\ callers'[c].op = "back" /\ callers'[c].session = callers[c].session
        /\ \A d \in Callers : d # c => callers'[d] = callers[d]
    BY <1>0, <1>12, CallGoesOn DEF SupersedeDecision, Operations
  <2>2. /\ callers[c].op = "supersede" /\ Resolve("superseded")
        /\ UNCHANGED <<session, canvases, overlapped, made>>
    BY <1>12 DEF SupersedeDecision
  <2>3. /\ decisions' \in Seq(Decision) /\ DOMAIN decisions' = DOMAIN decisions
        /\ \A d \in DOMAIN decisions :
             /\ decisions'[d].option = decisions[d].option
             /\ decisions'[d].status = IF d \in Pending THEN "superseded"
                                                        ELSE decisions[d].status
    BY <1>0, <2>2, NewestResolved
  <2>4. ConfirmedOnes' \subseteq ConfirmedOnes
    BY <2>3 DEF ConfirmedOnes
  <2>5. GuidedTypes'
    BY <1>0, <2>1, <2>2, <2>3 DEF GuidedTypes
  <2>6. CanvasForEach'
    BY <1>0, <2>1, <2>2, <2>4, CanvasesSuffice DEF MayConfirm
  <2>7. OneByOne'
    <3> SUFFICES ASSUME ~overlapped' PROVE OneByOne'
      BY DEF OneByOne
    <3>1. /\ Alone(c) /\ \A d \in Callers : d # c => callers[d].op = "idle"
          /\ \A d \in ConfirmedOnes : Drawn({decisions[d].option})
      BY <1>0, <2>2, OthersIdle DEF OneByOne
    <3>2. callers[c].session.id = session.id /\ callers[c].session.step <= Solution
      BY <2>2, <3>1 DEF Alone
    <3>3. Alone(c)'
      BY <2>1, <2>2, <3>1, <3>2 DEF Alone
    <3>4. \A d \in ConfirmedOnes' : Drawn({decisions[d].option})'
      BY <2>2, <2>3, <2>4, <3>1 DEF Drawn, ConfirmedOnes
    <3>5. QED
      BY <2>1, <2>2, <3>1, <3>3, <3>4 DEF OneByOne, Quiet
  <2>8. QED
    BY <2>5, <2>6, <2>7 DEF GuidedInv
<1>13. ASSUME NEW c \in Callers, ResetDeletes(c) PROVE GuidedInv'
  <2>1. /\ callers[c].op = "idle" /\ session' = NoSession
        /\ callers' = [callers EXCEPT ![c].op = "create"]
        /\ UNCHANGED <<decisions, canvases, made>>
        /\ overlapped' \in BOOLEAN /\ (~overlapped' => ~overlapped /\ Quiet)
    BY <1>0, <1>13 DEF ResetDeletes, Quiet, GuidedTypes
  <2>2. /\ callers' \in [Callers -> Caller] /\ callers'[c].op = "create"
        /\ \A d \in Callers : d # c => callers'[d] = callers[d]
    <3>1. callers[c] \in Caller /\ [callers[c] EXCEPT !.op = "create"] \in Caller
      BY <1>0 DEF GuidedTypes, Caller
    <3>2. callers' = [callers EXCEPT ![c] = [callers[c] EXCEPT !.op = "create"]]
      BY <2>1
    <3>3. QED
      BY <1>0, <3>1, <3>2, CallerIs DEF Caller
  <2>3. GuidedTypes'
    BY <1>0, <2>1, <2>2, GuidedRecords DEF GuidedTypes
  <2>4. CanvasForEach'
    BY <1>0, <2>1, <2>2, CanvasesSuffice DEF ConfirmedOnes, MayConfirm
  <2>5. OneByOne'
    <3> SUFFICES ASSUME ~overlapped' PROVE OneByOne'
      BY DEF OneByOne
    <3>1. /\ session'.step # Ready
          /\ \A d \in Callers : callers'[d].op # "idle" => d = c
          /\ \A d \in ConfirmedOnes : Drawn({decisions[d].option})
      BY <1>0, <2>1, <2>2, GuidedRecords, StepsOfSession DEF OneByOne, Quiet
    <3>2. Alone(c)'
      BY <2>2, <3>1 DEF Alone
    <3>3. QED
      BY <2>1, <2>2, <3>1, <3>2 DEF OneByOne, Drawn, ConfirmedOnes
  <2>6. QED
    BY <2>3, <2>4, <2>5 DEF GuidedInv
<1>14. ASSUME NEW c \in Callers, CallStops(c) PROVE GuidedInv'
  <2>1. /\ callers' \in [Callers -> Caller] /\ callers'[c].op = "idle"
        /\ \A d \in Callers : d # c => callers'[d] = callers[d]
    BY <1>0, <1>14, CallEnds DEF CallStops
  <2>2. overlapped' = TRUE /\ UNCHANGED <<session, decisions, canvases, made>>
    BY <1>14 DEF CallStops
  <2>3. GuidedTypes'
    BY <1>0, <2>1, <2>2 DEF GuidedTypes
  <2>4. CanvasForEach'
    BY <1>0, <2>1, <2>2, CanvasesSuffice DEF ConfirmedOnes, MayConfirm
  <2>5. QED
    BY <2>2, <2>3, <2>4 DEF GuidedInv, OneByOne
<1>15. CASE UNCHANGED guidedVars
  BY <1>0, <1>15 DEF guidedVars, GuidedInv, GuidedTypes, CanvasForEach, OneByOne, Alone,
     ConfirmedOnes, MayConfirm, NewestIs, Drawn, Quiet, Pending, Proposed
<1>16. QED
  BY <1>1, <1>2, <1>3, <1>4, <1>5, <1>6, <1>7, <1>8, <1>9, <1>10, <1>11, <1>12, <1>13,
     <1>14, <1>15 DEF GuidedNext

-------------------------------------------------------------------------------
(* A confirmed solution had its canvas written, once for each; and requests that come one
   after the other confirm the solution their canvas was built from (apply_canvas writes
   the canvas, the session and the decision in transactions of their own,
   guided_project.py). *)
THEOREM ConfirmedWasApplied == Spec => []ConfirmedIsApplied
<1>1. Init => GuidedInv
  BY GuidedInitInv DEF Init
<1>2. GuidedInv /\ [Next]_vars => GuidedInv'
  <2>1. [Next]_vars => [GuidedNext]_guidedVars
    BY PartsStep
  <2>2. QED
    BY <2>1, GuidedNextInv
<1>3. GuidedInv => ConfirmedIsApplied
  BY GuidedInvImplies
<1>4. QED
  BY <1>1, <1>2, <1>3, PTL DEF Spec

-------------------------------------------------------------------------------
(* Types.  What the invariants above leave open is that the counts keep to their bounds, and
   what is only added to or taken out of a set *)

LEMMA SameLength ==
  ASSUME NEW S, NEW T, NEW s \in Seq(S), NEW t \in Seq(T), DOMAIN s = DOMAIN t
  PROVE  Len(s) = Len(t)
<1>1. Len(s) \in Nat /\ Len(t) \in Nat /\ 1 .. Len(s) = 1 .. Len(t)
  OBVIOUS
<1>2. QED
  BY <1>1

AccountCounts ==
    /\ sessions \subseteq Accounts
    /\ stops \in 0 .. MaxStops
    /\ closeFaults \in 0 .. MaxCloseFaults

LEMMA AccountCountsNext == AccountCounts /\ [AccountNext]_accountVars => AccountCounts'
<1> SUFFICES ASSUME AccountCounts, [AccountNext]_accountVars PROVE AccountCounts'
  OBVIOUS
<1> USE AccountBounds DEF AccountCounts
<1>1. CASE UNCHANGED <<sessions, stops, closeFaults>>
  BY <1>1
<1>2. CASE ProcessEnds
  BY <1>2 DEF ProcessEnds, registryVars
<1>3. ASSUME NEW a \in Accounts, Login(a) PROVE AccountCounts'
  BY <1>3 DEF Login, poolVars
<1>4. ASSUME NEW a \in Accounts, SessionEnds(a) PROVE AccountCounts'
  BY <1>4 DEF SessionEnds, poolVars
<1>5. ASSUME NEW a \in Accounts, CloseFails(a) PROVE AccountCounts'
  BY <1>5 DEF CloseFails, registryVars
<1>6. ASSUME NEW a \in Accounts,
             \/ WorkerClaims(a) \/ WorkerFinishes(a) \/ TimePasses(a) \/ SweepInspects(a)
             \/ SweepSpares(a) \/ SweepCloses(a)
      PROVE  UNCHANGED <<sessions, stops, closeFaults>>
  BY <1>6 DEF WorkerClaims, WorkerFinishes, TimePasses, SweepInspects, SweepSpares,
     SweepCloses, registryVars
<1>7. ASSUME NEW a \in Accounts, NEW r \in Requests,
             Route(r, a) \/ Lease(r, a) \/ Enqueue(r, a) \/ Release(r, a)
      PROVE  UNCHANGED <<sessions, stops, closeFaults>>
  BY <1>7 DEF Route, Lease, Enqueue, Release, registryVars
<1>8. ASSUME NEW i \in Invites,
             \/ VoidInvite(i) \/ \E a \in Accounts : Claim(i, a)
             \/ \E binds \in {{}} \cup {{l} : l \in Legacies} : IssueInvite(i, binds)
      PROVE  UNCHANGED <<sessions, stops, closeFaults>>
  BY <1>8 DEF VoidInvite, Claim, IssueInvite, poolVars
<1>9. CASE UNCHANGED accountVars
  BY <1>9, <1>1 DEF accountVars, registryVars, poolVars
<1>10. QED
  BY <1>1, <1>2, <1>3, <1>4, <1>5, <1>6, <1>7, <1>8, <1>9 DEF AccountNext

LEMMA AccountsTyped ==
  ASSUME RegistryInv, PoolInv, AccountCounts
  PROVE  AccountTypeOK
<1>1. requests \in [Requests -> [op : {"idle", "routed", "leased"}, account : SUBSET Accounts]]
  BY DEF PoolInv, Served
<1>2. QED
  BY <1>1 DEF RegistryInv, PoolInv, AccountCounts, AccountTypeOK

InceptionCounts ==
    /\ Len(briefs) <= MaxBriefs
    /\ Len(runs) <= MaxRuns
    /\ canvas \in BOOLEAN
    /\ \A h \in Handlers : handlers[h].op = "refine" => handlers[h].brief < MaxBriefs

LEMMA InceptionCountsNext ==
  ASSUME InceptionCounts, InceptionTypes, InceptionTypes', BriefsConfirmed,
         [InceptionNext]_inceptionVars
  PROVE  InceptionCounts'
<1> USE InceptionBounds DEF InceptionCounts, InceptionTypes
<1>1. ASSUME NEW h \in Handlers, NEW handler, handler.op # "refine", Becomes(h, handler)
      PROVE  \A g \in Handlers : handlers'[g].op = "refine" => handlers'[g].brief < MaxBriefs
  BY <1>1 DEF Becomes
<1>2. ASSUME DOMAIN briefs' = DOMAIN briefs PROVE Len(briefs') = Len(briefs)
  BY <1>2, SameLength
<1>3. ASSUME DOMAIN runs' = DOMAIN runs PROVE Len(runs') = Len(runs)
  BY <1>3, SameLength
<1>4. CASE EditCanvas
  BY <1>4 DEF EditCanvas
<1>5. CASE Restart
  <2>1. \A h \in Handlers : handlers'[h].op = "idle"
    BY <1>5 DEF Restart, Free
  <2>2. Len(briefs') <= MaxBriefs
    <3>1. CASE UNCHANGED briefs
      BY <3>1
    <3>2. CASE briefs' = <<Inferred(FALSE)>>
      <4>1. Len(briefs') = 1
        BY <3>2
      <4>2. QED
        BY <4>1
    <3>3. QED
      BY <1>5, <3>1, <3>2 DEF Restart, Migrate, WithBrief
  <2>3. QED
    BY <1>5, <2>1, <2>2 DEF Restart
<1>6. ASSUME NEW h \in Handlers, ConfirmBriefReads(h) PROVE InceptionCounts'
  BY <1>6, <1>1 DEF ConfirmBriefReads, Free
<1>7. ASSUME NEW h \in Handlers, ConfirmBriefWrites(h) PROVE InceptionCounts'
  <2>1. DOMAIN briefs' = DOMAIN briefs
    BY <1>7 DEF ConfirmBriefWrites
  <2>2. QED
    BY <1>7, <1>1, <1>2, <2>1 DEF ConfirmBriefWrites, Free
<1>8. ASSUME NEW h \in Handlers, RefineBriefReads(h) PROVE InceptionCounts'
  BY <1>8 DEF RefineBriefReads, Becomes, Free, Latest
<1>9. ASSUME NEW h \in Handlers, RefineBriefWrites(h) PROVE InceptionCounts'
  <2>1. PICK unclear \in BOOLEAN :
           briefs' = Append([briefs EXCEPT ![handlers[h].brief].status = "superseded"],
                            Inferred(unclear))
    BY <1>9 DEF RefineBriefWrites
  <2>2. handlers[h].brief = Len(briefs) /\ handlers[h].brief < MaxBriefs
    BY <1>9 DEF RefineBriefWrites, Latest
  <2>3. [briefs EXCEPT ![handlers[h].brief].status = "superseded"] \in Seq(Brief)
    <3>1. handlers[h].brief \in DOMAIN briefs
      BY <1>9 DEF RefineBriefWrites, BriefsConfirmed
    <3>2. briefs[handlers[h].brief] \in Brief
      BY <3>1, SeqElement
    <3>3. [briefs[handlers[h].brief] EXCEPT !.status = "superseded"] \in Brief
      BY <3>2 DEF Brief
    <3>4. QED
      BY <3>1, <3>3, SeqUpdate
  <2>4. Len([briefs EXCEPT ![handlers[h].brief].status = "superseded"]) = Len(briefs)
    BY <2>3, SameLength
  <2>5. Len(briefs') = Len(briefs) + 1
    BY <2>1, <2>3, <2>4, SeqAppend DEF Inferred, Brief
  <2>6. QED
    BY <1>9, <1>1, <2>2, <2>5 DEF RefineBriefWrites, Free
<1>10. ASSUME NEW h \in Handlers, DesignReads(h) PROVE InceptionCounts'
  BY <1>10 DEF DesignReads, Becomes, Handler
<1>11. ASSUME NEW h \in Handlers, RejectCandidates(h) PROVE InceptionCounts'
  <2>1. DOMAIN runs' = DOMAIN runs
    BY <1>11 DEF RejectCandidates
  <2>2. QED
    BY <1>11, <1>3, <2>1 DEF RejectCandidates, Becomes, Handler
<1>12. ASSUME NEW h \in Handlers, StoreCandidates(h) PROVE InceptionCounts'
  <2>1. DOMAIN runs' = DOMAIN runs
    BY <1>12 DEF StoreCandidates
  <2>2. QED
    BY <1>12, <1>3, <2>1 DEF StoreCandidates, Becomes, Handler
<1>13. ASSUME NEW h \in Handlers, ListCandidates(h) PROVE InceptionCounts'
  <2>1. DOMAIN runs' = DOMAIN runs
    BY <1>13 DEF ListCandidates
  <2>2. QED
    BY <1>13, <1>3, <2>1 DEF ListCandidates, Becomes, Handler
<1>14. ASSUME NEW h \in Handlers, MarkEmpty(h) PROVE InceptionCounts'
  <2>1. DOMAIN runs' = DOMAIN runs
    BY <1>14 DEF MarkEmpty
  <2>2. QED
    BY <1>14, <1>3, <2>1 DEF MarkEmpty, Becomes, Handler
<1>15. ASSUME NEW h \in Handlers, SelectReads(h) PROVE InceptionCounts'
  BY <1>15, <1>1 DEF SelectReads, Free
<1>16. ASSUME NEW h \in Handlers, SelectWrites(h) PROVE InceptionCounts'
  BY <1>16, <1>1 DEF SelectWrites, Free
<1>17. ASSUME NEW h \in Handlers, HandlerStops(h) PROVE InceptionCounts'
  BY <1>17, <1>1 DEF HandlerStops, Free
<1>18. ASSUME NEW h \in Handlers, NEW k \in Keys, Begin(h, k) PROVE InceptionCounts'
  BY <1>18, <1>1 DEF Begin, Free
<1>19. ASSUME NEW h \in Handlers, NEW k \in Keys, InsertRun(h, k) PROVE InceptionCounts'
  <2>1. Len(runs') = Len(runs) + 1
    BY <1>19 DEF InsertRun
  <2>2. QED
    BY <1>19, <2>1 DEF InsertRun, Becomes, Handler
<1>20. ASSUME NEW h \in Handlers, NEW k \in Keys, Complete(h, k) PROVE InceptionCounts'
  BY <1>20, <1>1 DEF Complete, Free
<1>21. ASSUME NEW h \in Handlers, NEW k \in Keys, FailIntent(h, k) PROVE InceptionCounts'
  BY <1>21, <1>1 DEF FailIntent, Free
<1>22. CASE UNCHANGED inceptionVars
  BY <1>22 DEF inceptionVars
<1>23. QED
  BY <1>4, <1>5, <1>6, <1>7, <1>8, <1>9, <1>10, <1>11, <1>12, <1>13, <1>14, <1>15, <1>16,
     <1>17, <1>18, <1>19, <1>20, <1>21, <1>22 DEF InceptionNext

LEMMA InceptionTyped ==
  ASSUME InceptionTypes, InceptionCounts
  PROVE  InceptionTypeOK
BY DEF InceptionTypes, InceptionCounts, InceptionTypeOK

GuidedCounts ==
    /\ Len(decisions) <= MaxDecisions
    /\ Len(canvases) <= MaxCanvases
    /\ made \in 1 .. MaxSessions
    /\ session.id = 0 => made < MaxSessions

LEMMA GuidedCountsNext ==
  ASSUME GuidedCounts, GuidedTypes, GuidedTypes', [GuidedNext]_guidedVars
  PROVE  GuidedCounts'
<1> USE GuidedBounds DEF GuidedCounts
<1>1. CASE UNCHANGED <<session, decisions, canvases, made>>
  BY <1>1
<1>2. ASSUME NEW written, Updates(written) PROVE session'.id = session.id
  BY <1>2 DEF Updates
<1>3. ASSUME NEW status, Resolve(status) PROVE Len(decisions') = Len(decisions)
  <2>1. DOMAIN decisions' = DOMAIN decisions
    BY <1>3 DEF Resolve
  <2>2. QED
    BY <2>1, SameLength DEF GuidedTypes
<1>4. ASSUME NEW c \in Callers, NEW o \in Options, RecordDecision(c, o)
      PROVE  GuidedCounts'
  <2>1. Len(decisions') = Len(decisions) + 1
    BY <1>4 DEF RecordDecision, GuidedTypes
  <2>2. QED
    BY <1>4, <2>1 DEF RecordDecision, GuidedTypes
<1>5. ASSUME NEW c \in Callers, NEW o \in Options, WriteCanvas(c, o)
      PROVE  GuidedCounts'
  <2>1. Len(canvases') = Len(canvases) + 1
    BY <1>5 DEF WriteCanvas, GuidedTypes
  <2>2. QED
    BY <1>5, <2>1 DEF WriteCanvas, GuidedTypes
<1>6. ASSUME NEW c \in Callers, RespondWrites(c) \/ FinishSession(c) \/ BackWrites(c)
      PROVE  GuidedCounts'
  BY <1>6, <1>2 DEF RespondWrites, FinishSession, BackWrites
<1>7. ASSUME NEW c \in Callers, ConfirmDecision(c) \/ SupersedeDecision(c)
      PROVE  GuidedCounts'
  BY <1>7, <1>3 DEF ConfirmDecision, SupersedeDecision
<1>8. ASSUME NEW c \in Callers, ResetDeletes(c) PROVE GuidedCounts'
  BY <1>8 DEF ResetDeletes
<1>9. ASSUME NEW c \in Callers, ResetCreates(c) PROVE GuidedCounts'
  <2>1. made' = made + 1 /\ session'.id = made + 1 /\ made < MaxSessions
    BY <1>9 DEF ResetCreates, NoSession
  <2>2. QED
    BY <1>9, <2>1 DEF ResetCreates
<1>10. ASSUME NEW c \in Callers, AnswerReads(c) \/ ApplyReads(c) \/ BackReads(c) \/ CallStops(c)
       PROVE  UNCHANGED <<session, decisions, canvases, made>>
  BY <1>10 DEF AnswerReads, ApplyReads, BackReads, CallStops, Calls
<1>11. ASSUME NEW c \in Callers, NEW o \in Options, ChooseReads(c, o)
       PROVE  UNCHANGED <<session, decisions, canvases, made>>
  BY <1>11 DEF ChooseReads, Calls
<1>12. CASE UNCHANGED guidedVars
  BY <1>12, <1>1 DEF guidedVars
<1>13. QED
  BY <1>1, <1>4, <1>5, <1>6, <1>7, <1>8, <1>9, <1>10, <1>11, <1>12 DEF GuidedNext

LEMMA GuidedTyped ==
  ASSUME GuidedTypes, GuidedCounts
  PROVE  GuidedTypeOK
BY DEF GuidedTypes, GuidedCounts, GuidedTypeOK

DraftCounts == draft \in Draft /\ draft.revision <= MaxRevision

LEMMA DraftCountsNext ==
  ASSUME DraftCounts, DraftInv, [DraftNext]_draftVars
  PROVE  DraftCounts'
<1> USE DraftBounds DEF DraftCounts
<1>1. CASE UNCHANGED draft
  BY <1>1
<1>2. ASSUME NEW e \in Editors, SaveWrites(e) PROVE DraftCounts'
  <2>1. /\ draft.revision \in Nat /\ draft.revision < MaxRevision
        /\ draft' = [revision |-> draft.revision + 1, author |-> {e}]
    BY <1>2 DEF SaveWrites, Unchanged, DraftInv
  <2>2. QED
    BY <2>1 DEF Draft, Author
<1>3. QED
  BY <1>1, <1>2 DEF DraftNext, draftVars, Load, SaveReads, Reply, Conflict, AnswerLost

LEMMA DraftsTyped ==
  ASSUME DraftInv, DraftCounts
  PROVE  DraftTypeOK
BY DEF DraftInv, DraftCounts, DraftTypeOK

ProfileCounts ==
    /\ override \subseteq Profiles
    /\ writer \subseteq Clients
    /\ unsettled \subseteq Profiles /\ raced \subseteq Profiles
    /\ profileFaults \in [stops : 0 .. MaxProfileStops, rollbacks : 0 .. MaxProfileFaults]

LEMMA ProfileCountsNext ==
  ASSUME ProfileCounts, ProfileTypes, [ProfileNext]_profileVars
  PROVE  ProfileCounts'
<1> USE ProfileBounds DEF ProfileCounts
<1>1. CASE ClearOverride
  BY <1>1 DEF ClearOverride
<1>2. CASE ProfileProcessEnds
  BY <1>2 DEF ProfileProcessEnds
<1>3. ASSUME NEW c \in Clients, RollsBack(c) PROVE ProfileCounts'
  BY <1>3 DEF RollsBack
<1>4. ASSUME NEW c \in Clients, TestFails(c) PROVE ProfileCounts'
  BY <1>4 DEF TestFails
<1>5. ASSUME NEW p \in Profiles, UpdateSettings(p) \/ SetDefault(p) \/ SetOverride(p)
      PROVE  ProfileCounts'
  BY <1>5 DEF UpdateSettings, SetDefault, SetOverride
<1>6. ASSUME NEW p \in Profiles, NEW c \in Clients,
             \/ CreateInserts(c, p) \/ CreateFails(c, p) \/ UpdateCommits(c, p)
             \/ DeleteCommits(c, p) \/ PutsBack(c, p)
             \/ TestReads(c, p) \/ ProviderProbed(c, p) \/ TestRecords(c, p)
      PROVE  ProfileCounts'
  BY <1>6 DEF CreateInserts, CreateFails, UpdateCommits, DeleteCommits, PutsBack, TestReads,
     ProviderProbed, TestRecords
<1>7. ASSUME NEW p \in Profiles, NEW c \in Clients, DeleteBegins(c, p) \/ PutBackFails(c, p)
      PROVE  ProfileCounts'
  BY <1>7 DEF DeleteBegins, Overlaps, PutBackFails
<1>8. ASSUME NEW p \in Profiles, NEW c \in Clients, NEW secret, CreateStarts(c, p, secret)
      PROVE  ProfileCounts'
  BY <1>8 DEF CreateStarts
<1>9. ASSUME NEW p \in Profiles, NEW c \in Clients, NEW secret, UpdateBegins(c, p, secret)
      PROVE  ProfileCounts'
  BY <1>9 DEF UpdateBegins, Overlaps
<1>10. CASE UNCHANGED profileVars
  BY <1>10 DEF profileVars
<1>11. scope.profiles \subseteq Profiles
  BY DEF ProfileTypes
<1>12. QED
  BY <1>1, <1>2, <1>3, <1>4, <1>5, <1>6, <1>7, <1>8, <1>9, <1>10, <1>11 DEF ProfileNext

LEMMA ProfilesTyped ==
  ASSUME ProfileTypes, ProfileCounts
  PROVE  ProfileTypeOK
BY DEF ProfileTypes, ProfileCounts, ProfileTypeOK

CopyCounts == Len(projects) <= MaxProjects /\ purging \subseteq Ids

LEMMA CopyCountsNext ==
  ASSUME CopyCounts, CopyInv, CopyInv', [CopyNext]_copyVars
  PROVE  CopyCounts'
<1> USE CopyBounds DEF CopyCounts, Ids
<1>1. projects \in Seq(Project) /\ projects' \in Seq(Project)
  BY DEF CopyInv
<1>2. ASSUME DOMAIN projects' = DOMAIN projects, purging' \subseteq purging \cup Ids
      PROVE  CopyCounts'
  BY <1>1, <1>2, SameLength
<1>3. ASSUME NEW p \in Ids,
             \/ ConfirmFirst(p) \/ \E proposal : Accept(p, proposal) \/ Decide(p, proposal)
             \/ ProposeChange(p) \/ UpdateCanvas(p) \/ KeepRows(p) \/ Trash(p) \/ TakeBack(p)
             \/ PurgeReads(p)
      PROVE  CopyCounts'
  <2>1. DOMAIN projects' = DOMAIN projects /\ purging' \subseteq purging \cup Ids
    BY <1>3 DEF ConfirmFirst, Accept, Replaces, Decide, ProposeChange, UpdateCanvas, KeepRows,
       Trash, TakeBack, PurgeReads
  <2>2. QED
    BY <1>2, <2>1
<1>4. ASSUME NEW p \in Ids, PurgeWrites(p) PROVE CopyCounts'
  <2>1. DOMAIN projects' = DOMAIN projects /\ purging' \subseteq purging \cup Ids
    BY <1>4 DEF PurgeWrites, Unrelated
  <2>2. QED
    BY <1>2, <2>1
<1>5. ASSUME NEW t \in Copiers, CopyWrites(t) PROVE CopyCounts'
  <2>1. projects' = Append(projects, Copied(copiers[t])) /\ Len(projects) < MaxProjects
    BY <1>5 DEF CopyWrites
  <2>2. Len(projects') = Len(projects) + 1 /\ DOMAIN projects \subseteq DOMAIN projects'
    BY <1>1, <2>1
  <2>3. QED
    BY <1>1, <1>5, <2>1, <2>2 DEF CopyWrites
<1>6. ASSUME NEW t \in Copiers,
             \/ CopyReadsClaims(t) \/ CopyReadsSnapshots(t) \/ CopyReadsProposals(t)
             \/ CopyFails(t) \/ \E p \in Ids : CopyReadsProject(t, p)
      PROVE  CopyCounts'
  BY <1>6 DEF CopyReadsClaims, CopyReadsSnapshots, CopyReadsProposals, CopyFails,
     CopyReadsProject
<1>7. CASE UNCHANGED copyVars
  BY <1>7 DEF copyVars
<1>8. QED
  BY <1>3, <1>4, <1>5, <1>6, <1>7 DEF CopyNext

LEMMA CopiesTyped ==
  ASSUME CopyInv, CopyCounts
  PROVE  CopyTypeOK
BY DEF CopyInv, CopyCounts, CopyTypeOK, Ids

BackupCounts ==
    /\ Len(backups) <= MaxBackups
    /\ outcome \in {"none", "running", "restored", "rolled_back", "failed", "lost"}
    /\ commits \in 0 .. MaxCommits /\ fileFaults \in 0 .. MaxFileFaults

LEMMA BackupCountsNext ==
  ASSUME BackupCounts, BackupTypes, BackupTypes', [BackupNext]_backupVars
  PROVE  BackupCounts'
<1> USE BackupBounds DEF BackupCounts
<1>1. ASSUME Fault PROVE fileFaults' \in 0 .. MaxFileFaults
  BY <1>1 DEF Fault
<1>2. ASSUME NEW next, CopyDatabase(next) PROVE BackupCounts'
  <2>1. fileFaults' \in 0 .. MaxFileFaults
    BY <1>1, <1>2 DEF CopyDatabase
  <2>2. PICK backup : backups' = Append(backups, backup)
    BY <1>2 DEF CopyDatabase
  <2>3. Len(backups') = Len(backups) + 1
    BY <2>2 DEF BackupTypes
  <2>4. QED
    BY <1>2, <2>1, <2>3 DEF CopyDatabase, BackupTypes
<1>3. ASSUME NEW from, NEW to, RecordManifest(from, to) PROVE BackupCounts'
  <2>1. DOMAIN backups' = DOMAIN backups
    BY <1>3 DEF RecordManifest
  <2>2. Len(backups') = Len(backups)
    BY <2>1, SameLength DEF BackupTypes
  <2>3. QED
    BY <1>3, <2>2 DEF RecordManifest
<1>4. CASE Commit
  BY <1>4 DEF Commit, BackupTypes
<1>5. CASE InstanceStops \/ InstanceStarts
  BY <1>5 DEF InstanceStops, InstanceStarts
<1>6. ASSUME NEW b, RestoreChecks(b) PROVE BackupCounts'
  BY <1>6 DEF RestoreChecks
<1>7. ASSUME NEW b, NEW next, CopyFile(b, next) PROVE BackupCounts'
  BY <1>1, <1>7 DEF CopyFile
<1>8. ASSUME NEW next, Replace(next) PROVE BackupCounts'
  BY <1>1, <1>8 DEF Replace
<1>9. CASE RestoreReturns \/ RollbackReturns
  BY <1>9 DEF RestoreReturns, RollbackReturns, ScriptEnds
<1>10. CASE RestoreFails
  BY <1>1, <1>10 DEF RestoreFails, ScriptEnds
<1>11. CASE RollbackFails
  BY <1>1, <1>11 DEF RollbackFails, ScriptEnds
<1>12. CASE ScriptDies
  BY <1>1, <1>12 DEF ScriptDies
<1>13. CASE UNCHANGED backupVars
  BY <1>13 DEF backupVars
<1>14. CASE \/ BackupCopies \/ BackupRecords \/ RestoreSaves \/ RestoreRecords
            \/ RestoreCopies \/ RestoreReplaces \/ RollbackCopies \/ RollbackReplaces
  BY <1>2, <1>3, <1>7, <1>8, <1>14 DEF BackupCopies, BackupRecords, RestoreSaves,
     RestoreRecords, RestoreCopies, RestoreReplaces, RollbackCopies, RollbackReplaces
<1>15. QED
  BY <1>4, <1>5, <1>6, <1>9, <1>10, <1>11, <1>12, <1>13, <1>14 DEF BackupNext

LEMMA BackupsTyped ==
  ASSUME BackupTypes, BackupCounts
  PROVE  BackupTypeOK
BY DEF BackupTypes, BackupCounts, BackupTypeOK

Counts == /\ AccountCounts /\ InceptionCounts /\ GuidedCounts /\ DraftCounts
          /\ ProfileCounts /\ CopyCounts /\ BackupCounts

Invs == /\ RegistryInv /\ PoolInv /\ InceptionInv /\ GuidedInv /\ DraftInv
        /\ ProfileInv /\ CopyInv /\ BackupInv

LEMMA CountsInit == Init => Counts
<1> SUFFICES ASSUME Init PROVE Counts
  OBVIOUS
<1>1. AccountCounts
  BY AccountBounds DEF Init, AccountInit, AccountCounts
<1>2. InceptionCounts
  <2>1. briefs = <<>> \/ \E unclear \in BOOLEAN : briefs = <<Inferred(unclear)>>
    BY DEF Init, InceptionInit
  <2>2. Len(briefs) <= MaxBriefs
    BY <2>1, InceptionBounds
  <2>3. Len(runs) = 0 /\ \A h \in Handlers : handlers[h].op = "idle"
    BY DEF Init, InceptionInit, Free
  <2>4. Len(runs) <= MaxRuns
    BY <2>3, InceptionBounds
  <2>5. canvas \in BOOLEAN
    BY DEF Init, InceptionInit
  <2>6. \A h \in Handlers : handlers[h].op # "refine"
    BY <2>3
  <2>7. QED
    BY <2>2, <2>4, <2>5, <2>6 DEF InceptionCounts
<1>3. GuidedCounts
  BY GuidedBounds DEF Init, GuidedInit, GuidedCounts, NoSession
<1>4. DraftCounts
  BY DraftBounds DEF Init, DraftInit, DraftCounts, Draft, Author
<1>5. ProfileCounts
  BY ProfileBounds DEF Init, ProfileInit, ProfileCounts
<1>6. CopyCounts
  BY CopyBounds DEF Init, CopyInit, CopyCounts
<1>7. BackupCounts
  BY BackupBounds DEF Init, BackupInit, BackupCounts
<1>8. QED
  BY <1>1, <1>2, <1>3, <1>4, <1>5, <1>6, <1>7 DEF Counts

(* Every part of a hosted installation keeps to its types, whatever runs at the same time:
   each reference is to what it should be, and a conversation whose session a reset has
   deleted (guided_project.py) gets one within the bound. *)
THEOREM TypeCorrect == Spec => []TypeOK
<1>1. Init => Invs /\ Counts
  BY CountsInit, RegistryInitInv, PoolInitInv, InceptionInitInv, GuidedInitInv, DraftInitInv,
     ProfileInitInv, CopyInitInv, BackupInitInv DEF Init, Invs
<1>2. Invs /\ [Next]_vars => Invs'
  BY PartsStep, RegistryNextInv, PoolNextInv, InceptionNextInv, GuidedNextInv, DraftNextInv,
     ProfileNextInv, CopyNextInv, BackupNextInv DEF Invs
<1>3. Invs /\ Invs' /\ Counts /\ [Next]_vars => Counts'
  <2> SUFFICES ASSUME Invs, Invs', Counts, [Next]_vars PROVE Counts'
    OBVIOUS
  <2>1. /\ InceptionTypes /\ InceptionTypes' /\ BriefsConfirmed
        /\ GuidedTypes /\ GuidedTypes' /\ ProfileTypes /\ BackupTypes /\ BackupTypes'
        /\ DraftInv /\ CopyInv /\ CopyInv'
    BY DEF Invs, InceptionInv, GuidedInv, ProfileInv, BackupInv
  <2>2. AccountCounts' /\ InceptionCounts'
    BY <2>1, PartsStep, AccountCountsNext, InceptionCountsNext DEF Counts
  <2>3. GuidedCounts' /\ DraftCounts' /\ ProfileCounts'
    BY <2>1, PartsStep, GuidedCountsNext, DraftCountsNext, ProfileCountsNext DEF Counts
  <2>4. CopyCounts' /\ BackupCounts'
    BY <2>1, PartsStep, CopyCountsNext, BackupCountsNext DEF Counts
  <2>5. QED
    BY <2>2, <2>3, <2>4 DEF Counts
<1>4. Invs /\ Counts => TypeOK
  <2> SUFFICES ASSUME Invs, Counts PROVE TypeOK
    OBVIOUS
  <2>1. AccountTypeOK /\ DraftTypeOK /\ CopyTypeOK
    BY AccountsTyped, DraftsTyped, CopiesTyped DEF Invs, Counts
  <2>2. InceptionTypeOK /\ GuidedTypeOK
    BY InceptionTyped, GuidedTyped DEF Invs, Counts, InceptionInv, GuidedInv
  <2>3. ProfileTypeOK /\ BackupTypeOK
    BY ProfilesTyped, BackupsTyped DEF Invs, Counts, ProfileInv, BackupInv
  <2>4. QED
    BY <2>1, <2>2, <2>3 DEF TypeOK
<1>5. QED
  BY <1>1, <1>2, <1>3, <1>4, PTL DEF Spec

================================================================================
