--------------------------------- MODULE Handoff ---------------------------------
(***************************************************************************)
(* The handoff package of a project (app/services/handoff.py) and the next *)
(* action the program recommends once there is a snapshot (guidance.py),   *)
(* over the document versions of DocumentVersions.                         *)
(*                                                                         *)
(* An export first asks whether the project is ready, and then reads the   *)
(* project and its documents again: one action for each of these reads.    *)
(***************************************************************************)
EXTENDS DocumentVersions

CONSTANTS
    Exporters          \* threads that serve handoff requests

VARIABLES
    packages,          \* handoff_runs
    acknowledged,      \* handoff_unresolved_acknowledgements: sets of claims
    exports            \* what each exporter has read

handoffVars == <<packages, acknowledged, exports>>
vars == <<docVars, handoffVars>>

-------------------------------------------------------------------------------
(* Rows *)

Selection == [workload.types -> Nat]        \* a version of each type; 0: none

\* The unresolved claims of a version; the first `stored` of them are in the database.
Claims(v)       == {v} \X (1 .. versions[v].claims)
StoredClaims(v) == {v} \X (1 .. versions[v].stored)

Package == [snapshot  : Nat,                \* 0: a project without snapshots
            docs      : Selection,
            listed    : SUBSET (Nat \X Nat), \* the unresolved claims it lists
            healthy   : BOOLEAN,            \* history: its documents were, when built
            disturbed : BOOLEAN]            \* history: documents changed meanwhile

Export == [op        : {"idle", "checking", "ready", "building"},
           snapshot  : Nat,
           listed    : SUBSET (Nat \X Nat),
           disturbed : BOOLEAN]

NoExport == [op |-> "idle", snapshot |-> 0, listed |-> {}, disturbed |-> FALSE]

TypeOK ==
    /\ DocTypeOK
    /\ packages \subseteq Package
    /\ acknowledged \subseteq SUBSET UNION {Claims(v) : v \in DOMAIN versions}
    /\ exports \in [Exporters -> Export]

-------------------------------------------------------------------------------
(* Readiness *)

\* Mutant of Eligible: any confirmed version will do.
EligibleForAny(d, s) ==
    {v \in DOMAIN versions : /\ IsActive(v) /\ versions[v].doc = d
                             /\ versions[v].approved /\ versions[v].passed}

\* _latest_confirmed_for_snapshot and, without a snapshot, _latest_approved.
Eligible(d, s) ==
    {v \in DOMAIN versions : /\ IsActive(v) /\ versions[v].doc = d
                             /\ versions[v].approved /\ versions[v].passed
                             /\ s # 0 => versions[v].base = s}

Latest(d, s) ==
    IF Eligible(d, s) = {} THEN 0
    ELSE CHOOSE v \in Eligible(d, s) :
           \A u \in Eligible(d, s) : versions[u].number <= versions[v].number

Selected(s) == [d \in workload.types |-> Latest(d, s)]

Complete(docs) == \A d \in workload.types : docs[d] # 0
Healthy(docs)  == \A d \in workload.types : versions[docs[d]].health = "current"

\* The claims of type "unresolved" that are to be acknowledged.
Unresolved(docs) ==
    UNION {StoredClaims(docs[d]) : d \in {e \in workload.types : docs[e] # 0}}

\* A project without any source has something to acknowledge as well.
Acknowledged(docs) ==
    \/ Unresolved(docs) = {} /\ Sources # {}
    \/ Unresolved(docs) \in acknowledged

Ready(s) ==
    LET docs == Selected(s) IN
    /\ Complete(docs)
    /\ s # 0 => Healthy(docs)
    /\ Acknowledged(docs)

-------------------------------------------------------------------------------
(* Requests *)

Advance(x, export) == exports' = [exports EXCEPT ![x] = export]

\* What readiness reports now is acknowledged, whatever the user was shown.
Acknowledge ==
    /\ workload.packages > 0
    /\ ~Acknowledged(Selected(snapshot))
    /\ acknowledged' = acknowledged \cup {Unresolved(Selected(snapshot))}
    /\ UNCHANGED <<docVars, packages, exports>>

\* The project and the health of its snapshot ...
CheckSnapshot(x) ==
    /\ exports[x].op = "idle" /\ Cardinality(packages) < workload.packages
    /\ snapshot # 0 => sound
    /\ Advance(x, [NoExport EXCEPT !.op = "checking", !.snapshot = snapshot])
    /\ UNCHANGED <<docVars, packages, acknowledged>>

\* ... and its documents and acknowledgements.
CheckDocuments(x) ==
    /\ exports[x].op = "checking"
    /\ Ready(exports[x].snapshot)
    /\ Advance(x, [exports[x] EXCEPT !.op = "ready",
                     !.listed = Unresolved(Selected(exports[x].snapshot))])
    /\ UNCHANGED <<docVars, packages, acknowledged>>

\* build_zip reads the project once more ...
ReadProject(x) ==
    /\ exports[x].op = "ready"
    /\ Advance(x, [exports[x] EXCEPT !.op = "building", !.snapshot = snapshot])
    /\ UNCHANGED <<docVars, packages, acknowledged>>

\* ... and its documents, asserts that they are there and records the package.
BuildPackage(x) ==
    LET docs == Selected(exports[x].snapshot) IN
    /\ exports[x].op = "building"
    /\ Complete(docs)
    /\ packages' = packages \cup {[snapshot |-> exports[x].snapshot, docs |-> docs,
                                   listed |-> exports[x].listed,
                                   healthy |-> Healthy(docs),
                                   disturbed |-> exports[x].disturbed]}
    /\ Advance(x, NoExport)
    /\ UNCHANGED <<docVars, acknowledged>>

\* Not ready, a document gone, or the end of the process.
ExportFails(x) ==
    /\ exports[x].op # "idle"
    /\ Advance(x, NoExport)
    /\ UNCHANGED <<docVars, packages, acknowledged>>

\* Every other request, seen by the exports in flight.
DocumentStep ==
    /\ DocNext
    /\ exports' = [x \in Exporters |->
         IF exports[x].op # "idle" /\ <<versions, snapshot>>' # <<versions, snapshot>>
         THEN [exports[x] EXCEPT !.disturbed = TRUE] ELSE exports[x]]
    /\ UNCHANGED <<packages, acknowledged>>

Init ==
    /\ DocInit
    /\ packages = {}
    /\ acknowledged = {}
    /\ exports = [x \in Exporters |-> NoExport]

Next ==
    \/ DocumentStep
    \/ Acknowledge
    \/ \E x \in Exporters :
         \/ CheckSnapshot(x) \/ CheckDocuments(x) \/ ReadProject(x)
         \/ BuildPackage(x) \/ ExportFails(x)

Spec == Init /\ [][Next]_vars

-------------------------------------------------------------------------------
(* project_next_action, for a project with a snapshot that no open proposal concerns
   and whose claims are verified: the answers that come before those are left out. *)

\* Mutant of HasHealthy: the recorded health is not looked at.
HasValidated(d) ==
    \E v \in DOMAIN versions : /\ IsActive(v) /\ versions[v].doc = d
                               /\ versions[v].base = snapshot
                               /\ versions[v].passed

HasHealthy(d) ==
    \E v \in DOMAIN versions : /\ IsActive(v) /\ versions[v].doc = d
                               /\ versions[v].base = snapshot
                               /\ versions[v].passed
                               /\ versions[v].health = "current"

HasConfirmed(d) ==
    \E v \in Eligible(d, snapshot) : versions[v].health = "current"

\* _has_current_handoff_export: unresolved claims are compared by their number.
Exported ==
    \E p \in packages :
        /\ p.snapshot = snapshot /\ p.docs = Selected(snapshot)
        /\ Cardinality(p.listed) = Cardinality(Unresolved(Selected(snapshot)))

NextAction ==
    LET docs == Selected(snapshot) IN
    CASE ~sound                                -> "reconfirm_project_snapshot"
      [] sound /\ \E d \in workload.types : ~HasHealthy(d)
                                               -> "generate_or_update"
      [] sound /\ (\A d \in workload.types : HasHealthy(d))
           /\ \E d \in workload.types : ~HasConfirmed(d)
                                               -> "confirm_document_versions"
      [] sound /\ (\A d \in workload.types : HasConfirmed(d)) /\ ~Healthy(docs)
                                               -> "generate_or_update"
      [] OTHER -> IF Ready(snapshot) /\ Exported THEN "ready" ELSE "export_handoff"

-------------------------------------------------------------------------------
(* Properties *)

(* "The service fails closed until a validation-passed approved PRD and TechDoc exist"
   (handoff.py:42): although a package is built from other reads than its readiness,
   each of its documents was confirmed, depends on the very snapshot packed with it, and
   shares its number with no other version of its type.
   If no document and no snapshot changed while it was made, its documents were healthy,
   it lists what they leave unresolved, and that was acknowledged.  Without a snapshot
   nothing holds a version back while the loop is still storing its claims, so that a
   package may lack those of a version confirmed that early. *)
PackagesAreConfirmed ==
    \A p \in packages :
        /\ \A d \in workload.types :
             LET v == p.docs[d] IN
             /\ versions[v].approved /\ versions[v].doc = d
             /\ p.snapshot # 0 => versions[v].base = p.snapshot
             /\ Stored(v) => \A u \in DOMAIN versions :
                               /\ Stored(u) /\ versions[u].doc = d
                               /\ versions[u].number = versions[v].number
                               => u = v
        /\ ~p.disturbed =>
             /\ p.snapshot # 0 => p.healthy
             /\ p.listed \subseteq UNION {Claims(p.docs[d]) : d \in workload.types}
             /\ \A d \in workload.types : \/ Claims(p.docs[d]) \subseteq p.listed
                                          \/ p.snapshot = 0 /\ p.docs[d] \in hasty
             /\ p.listed \in acknowledged \/ (p.listed = {} /\ Sources # {})

(* The recommended action can be taken: "confirm" only if confirm() would accept a
   version made for the current snapshot, "export" only if no more than an
   acknowledgement is missing, "ready" only if the documents that readiness finds now
   are those of a package of the current snapshot. *)
AdviceIsPossible ==
    snapshot # 0 =>
        /\ NextAction = "confirm_document_versions" =>
             \E v \in DOMAIN versions : /\ Confirmable(v) /\ ~versions[v].approved
                                        /\ versions[v].base = snapshot
        /\ NextAction \in {"export_handoff", "ready"} =>
             Complete(Selected(snapshot)) /\ Healthy(Selected(snapshot))
        /\ NextAction = "ready" =>
             \E p \in packages : p.docs = Selected(snapshot) /\ p.snapshot = snapshot

================================================================================
