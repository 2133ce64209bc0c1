------------------------------ MODULE HostedWorkspace ------------------------------
(***************************************************************************)
(* A hosted installation: accounts and their applications                  *)
(* (AccountWorkspaces) and the backups of their databases                  *)
(* (DatabaseBackups); in an application the models of its user             *)
(* (ModelProfiles) and the projects (ProjectCopies); and in a project its  *)
(* start (ProjectInception), the older guided conversation (GuidedSession) *)
(* and the drafts of its pages (WorkspaceDrafts).                          *)
(*                                                                         *)
(* They share no state: their tables are disjoint, or abstracted apart (a  *)
(* backup sees a database as a whole, and a copy the rows of a project),   *)
(* and a request keeps its application for as long as it lasts.  A         *)
(* behaviour therefore lets one of them act, and the behaviours of all are *)
(* explored.                                                               *)
(***************************************************************************)
EXTENDS AccountWorkspaces, ProjectInception, GuidedSession, WorkspaceDrafts,
        ModelProfiles, ProjectCopies, DatabaseBackups

CONSTANT Parts

ASSUME PartsAssumption ==
    Parts \subseteq {"accounts", "inception", "guided", "drafts", "profiles", "copies",
                     "backups"}

VARIABLE part          \* the component that acts; never changes

vars == <<part, accountVars, inceptionVars, guidedVars, draftVars, profileVars, copyVars,
          backupVars>>

\* A component that does not act has no need to start in each of its initial states.
OneStartOfTheOthers ==
    /\ part # "inception" => briefs = <<>>
    /\ part # "profiles" => scope.secrets = {}
    /\ part # "copies" => projects[1].status = "active"

Init ==
    /\ part \in Parts
    /\ AccountInit
    /\ InceptionInit
    /\ GuidedInit
    /\ DraftInit
    /\ ProfileInit
    /\ CopyInit
    /\ BackupInit
    /\ OneStartOfTheOthers

Next ==
    /\ UNCHANGED part
    /\ IF part = "accounts" THEN AccountNext ELSE UNCHANGED accountVars
    /\ IF part = "inception" THEN InceptionNext ELSE UNCHANGED inceptionVars
    /\ IF part = "guided" THEN GuidedNext ELSE UNCHANGED guidedVars
    /\ IF part = "drafts" THEN DraftNext ELSE UNCHANGED draftVars
    /\ IF part = "profiles" THEN ProfileNext ELSE UNCHANGED profileVars
    /\ IF part = "copies" THEN CopyNext ELSE UNCHANGED copyVars
    /\ IF part = "backups" THEN BackupNext ELSE UNCHANGED backupVars

Spec == Init /\ [][Next]_vars

TypeOK == AccountTypeOK /\ InceptionTypeOK /\ GuidedTypeOK /\ DraftTypeOK
          /\ ProfileTypeOK /\ CopyTypeOK /\ BackupTypeOK

================================================================================
