---------------------------- MODULE DocumentVersions ----------------------------
(***************************************************************************)
(* The PRD and TechDoc versions of one project: the generation loop        *)
(* (app/services/loop.py, validation.py, claims.py), edits of a version    *)
(* (document_workspace.py), the validator (tools.py), confirmation, trash  *)
(* and purge (document_versions.py), with what changes under them: the     *)
(* sources, the claims and the snapshot (sources.py, impact.py,            *)
(* snapshots.py), each in one step.                                        *)
(*                                                                         *)
(* Database.execute and fetch_* are transactions of their own, so that a   *)
(* handler is interrupted between any two of them.  Reads that commute     *)
(* with every other step are merged with the read that follows.            *)
(***************************************************************************)
EXTENDS Naturals, Sequences, FiniteSets

CONSTANTS
    Handlers,          \* threads that serve document requests
    Sources,           \* ids of the project's sources
    DocTypes,          \* "prd" and "techdoc"
    Workloads          \* bounds: the sizes of behaviour that are explored

\* A behaviour keeps to one workload: the types of document there are, how many document
\* requests are served at a time, whether versions are edited and thrown away, how many
\* versions and snapshots there will be, how many packages are exported, and how many
\* unresolved claims a text without citations leaves.
ASSUME WorkloadsAssumption ==
    Workloads \subseteq [types : SUBSET DocTypes, requests : Nat, edits : BOOLEAN,
                         discards : BOOLEAN, versions : Nat, snapshots : Nat,
                         packages : Nat, claims : Nat]

VARIABLES
    workload,          \* the bounds of this behaviour; never changes
    sources,           \* the sources that are active
    snapshot,          \* version of the current snapshot; 0: none yet
    sound,             \* the health of the current snapshot is "current"
    versions,          \* document_versions, dependencies and health, by age
    drafts,            \* document_edit_drafts: the version each one edits; 0: none
    requests,          \* what each handler has read and not yet used
    raced,             \* history: versions recorded after a source they cite went
    hasty              \* history: versions confirmed before their claims were stored

docVars ==
    <<workload, sources, snapshot, sound, versions, drafts, requests, raced, hasty>>

-------------------------------------------------------------------------------
(* Rows *)

Version == [doc        : DocTypes,
            number     : Nat \ {0},
            base       : Nat,           \* the snapshot it depends on; 0: none recorded
            cites      : SUBSET Sources,
            claims     : Nat,           \* the unresolved claims its text leaves ...
            stored     : Nat,           \* ... and those in document_claims so far
            passed     : BOOLEAN,       \* validation_status is "passed"
            approved   : BOOLEAN,
            lifecycle  : {"active", "trashed", "purged"},
            health     : {"none", "current", "review"},
            from       : Nat]           \* restored_from_version_id; 0: none

Ops == {"idle", "collected", "numbered", "inserted", "confirm", "purge", "validate",
        "create"}

Request == [op       : Ops,
            doc      : SUBSET DocTypes,        \* at most one
            snapshot : Nat,
            cites    : SUBSET Sources,
            lost     : BOOLEAN,                \* a source it cites was archived
            passed   : BOOLEAN,
            number   : Nat,
            version  : Nat,
            restores : BOOLEAN]

Idle == [op |-> "idle", doc |-> {}, snapshot |-> 0, cites |-> {}, lost |-> FALSE,
         passed |-> FALSE, number |-> 0, version |-> 0,
         restores |-> FALSE]

DocTypeOK ==
    /\ workload \in Workloads
    /\ sources \subseteq Sources
    /\ snapshot \in 0 .. workload.snapshots
    /\ sound \in BOOLEAN
    /\ versions \in Seq(Version) /\ Len(versions) <= workload.versions
    /\ drafts \in [workload.types -> 0 .. Len(versions)]
    /\ requests \in [Handlers -> Request]
    /\ raced \subseteq DOMAIN versions /\ hasty \subseteq DOMAIN versions

DocInit ==
    /\ workload \in Workloads
    /\ sources = Sources
    /\ snapshot = 0
    /\ sound = TRUE
    /\ versions = <<>>
    /\ drafts = [d \in workload.types |-> 0]
    /\ requests = [h \in Handlers |-> Idle]
    /\ raced = {} /\ hasty = {}

Stored(v)   == v \in DOMAIN versions /\ versions[v].lifecycle # "purged"
IsActive(v) == v \in DOMAIN versions /\ versions[v].lifecycle = "active"

Busy == {h \in Handlers : requests[h].op # "idle"}

Start(h, request) ==
    /\ h \notin Busy /\ Cardinality(Busy) < workload.requests
    /\ requests' = [requests EXCEPT ![h] = request]

Done(h) == requests' = [requests EXCEPT ![h] = Idle]

Reads ==
    UNCHANGED <<workload, sources, snapshot, sound, versions, drafts, raced, hasty>>

\* UNIQUE(document_id, version)
Numbers(d)  == {versions[v].number : v \in {u \in DOMAIN versions :
                                              Stored(u) /\ versions[u].doc = d}}
NextNumber(d) == CHOOSE n \in 1 .. Len(versions) + 1 :
                   /\ \A m \in Numbers(d) : m < n
                   /\ n = 1 \/ n - 1 \in Numbers(d)

-------------------------------------------------------------------------------
(* DocumentLoop.run *)

\* The snapshot is read, and then evidence of every type of source there is; 3.0
\* requests insist on a snapshot, those of the older tool do not.
Collect(h, d) ==
    /\ \E cites \in SUBSET sources :
         /\ (cites = {}) = (sources = {})
         /\ Start(h, [Idle EXCEPT !.op = "collected", !.doc = {d},
                                  !.snapshot = snapshot, !.cites = cites])
    /\ Reads

\* The validator: what a text without citations leaves unresolved is a warning, a
\* citation of an archived source blocks, and whether the rest of the text does is open.
Verdicts(cites) == {passed \in BOOLEAN : passed => cites \subseteq sources}

\* The rounds of validation and repair, then the number of the new version.
RunRounds(h, d) ==
    /\ requests[h].op = "collected" /\ requests[h].doc = {d}
    /\ \E passed \in Verdicts(requests[h].cites) :
         requests' = [requests EXCEPT ![h].op = "numbered", ![h].passed = passed,
                                      ![h].number = NextNumber(d)]
    /\ Reads

InsertVersion(h, d) ==
    LET request == requests[h]
        claims  == IF request.cites = {} THEN workload.claims ELSE 0 IN
    /\ request.op = "numbered" /\ request.doc = {d}
    /\ Len(versions) < workload.versions
    /\ request.number \notin Numbers(d)
    /\ versions' = Append(versions,
         [doc |-> d, number |-> request.number, base |-> 0, cites |-> request.cites,
          claims |-> claims, stored |-> 0, passed |-> request.passed,
          approved |-> FALSE, lifecycle |-> "active", health |-> "none", from |-> 0])
    /\ requests' = IF request.snapshot = 0 /\ claims = 0
                   THEN [requests EXCEPT ![h] = Idle]
                   ELSE [requests EXCEPT ![h] =
                           [Idle EXCEPT !.op = "inserted", !.version = Len(versions) + 1,
                              !.snapshot = request.snapshot, !.cites = request.cites,
                              !.lost = request.lost]]
    /\ UNCHANGED <<workload, sources, snapshot, sound, drafts, raced, hasty>>

\* ClaimService.persist: every claim is committed on its own, to a version that may have
\* been confirmed or thrown away since.
StoreClaim(h) ==
    LET v      == requests[h].version
        stored == versions[v].stored + 1 IN
    /\ requests[h].op = "inserted"
    /\ Stored(v) /\ versions[v].stored < versions[v].claims
    /\ versions' = [versions EXCEPT ![v].stored = stored]
    /\ IF requests[h].snapshot = 0 /\ stored = versions[v].claims
       THEN Done(h) ELSE UNCHANGED requests
    /\ UNCHANGED <<workload, sources, snapshot, sound, drafts, raced, hasty>>

\* _persist_v3_dependencies, of a loop that read a snapshot: whatever happened since the
\* evidence was collected, the version is recorded as current.
PersistDependencies(h) ==
    LET v == requests[h].version IN
    /\ requests[h].op = "inserted" /\ requests[h].snapshot # 0
    /\ versions[v].stored = versions[v].claims
    /\ versions' = [versions EXCEPT ![v].base = requests[h].snapshot,
                                    ![v].health = "current"]
    /\ raced' = IF requests[h].lost THEN raced \cup {v} ELSE raced
    /\ Done(h)
    /\ UNCHANGED <<workload, sources, snapshot, sound, drafts, hasty>>

-------------------------------------------------------------------------------
(* Edits *)

\* The upsert fails when its base has been purged.
SaveDraft(v) ==
    /\ workload.edits
    /\ IsActive(v)
    /\ drafts' = [drafts EXCEPT ![versions[v].doc] = v]
    /\ UNCHANGED <<workload, sources, snapshot, sound, versions, requests, raced, hasty>>

CommitReads(h, d) ==
    /\ drafts[d] # 0
    /\ Start(h, [Idle EXCEPT !.op = "create", !.doc = {d}, !.version = drafts[d],
                             !.number = NextNumber(d)])
    /\ Reads

RestoreReads(h, v) ==
    /\ workload.edits
    /\ Stored(v)
    /\ Start(h, [Idle EXCEPT !.op = "create", !.doc = {versions[v].doc}, !.version = v,
                             !.number = NextNumber(versions[v].doc), !.restores = TRUE])
    /\ Reads

\* A new version with the source's citations and its dependencies of this moment.
Edited(v, number, restores) ==
    [versions[v] EXCEPT !.number = number, !.claims = 0, !.stored = 0,
                        !.passed = FALSE, !.approved = FALSE, !.lifecycle = "active",
                        !.health = "review", !.from = IF restores THEN v ELSE 0]

\* _create_version_from_source_tx.  The draft goes, the one saved meanwhile included.
CreateFromSource(h, d) ==
    LET request == requests[h] IN
    /\ request.op = "create" /\ request.doc = {d}
    /\ Len(versions) < workload.versions
    /\ request.number \notin Numbers(d)
    /\ request.restores => Stored(request.version)
    /\ versions' = Append(versions, Edited(request.version, request.number,
                                           request.restores))
    /\ drafts' = IF request.restores THEN drafts ELSE [drafts EXCEPT ![d] = 0]
    /\ Done(h)
    /\ UNCHANGED <<workload, sources, snapshot, sound, raced, hasty>>

-------------------------------------------------------------------------------
(* run_document_validator *)

ValidateReads(h, v) ==
    /\ IsActive(v)
    /\ \E passed \in Verdicts(versions[v].cites) :
         Start(h, [Idle EXCEPT !.op = "validate", !.version = v, !.passed = passed])
    /\ Reads

\* The dependencies are read inside the transaction, the validation was not.
HealthNow(version, passed) ==
    IF /\ passed
       /\ version.base \in {0, snapshot}
       /\ version.base # 0 => version.cites \subseteq sources
    THEN "current" ELSE "review"

ValidateWrites(h) ==
    LET v      == requests[h].version
        passed == requests[h].passed IN
    /\ requests[h].op = "validate"
    /\ versions' = [versions EXCEPT ![v].health = HealthNow(versions[v], passed),
                                    ![v].passed = passed]
    /\ raced' = raced \ {v}
    /\ Done(h)
    /\ UNCHANGED <<workload, sources, snapshot, sound, drafts, hasty>>

-------------------------------------------------------------------------------
(* Confirmation, trash and purge *)

Confirmable(v) ==
    /\ IsActive(v)
    /\ versions[v].passed
    /\ versions[v].health \in {"none", "current"}

ConfirmReads(h, v) ==
    /\ Confirmable(v)
    /\ ~versions[v].approved
    /\ Start(h, [Idle EXCEPT !.op = "confirm", !.version = v])
    /\ Reads

\* The UPDATE names the id alone.
ConfirmWrites(h) ==
    LET v == requests[h].version IN
    /\ requests[h].op = "confirm"
    /\ versions' = [versions EXCEPT ![v].approved = TRUE]
    /\ hasty' = IF versions[v].stored < versions[v].claims THEN hasty \cup {v} ELSE hasty
    /\ Done(h)
    /\ UNCHANGED <<workload, sources, snapshot, sound, drafts, raced>>

Trash(v) ==
    /\ workload.discards
    /\ IsActive(v)
    /\ versions' = [versions EXCEPT ![v].lifecycle = "trashed"]
    /\ UNCHANGED <<workload, sources, snapshot, sound, drafts, requests, raced, hasty>>

Untrash(v) ==
    /\ Stored(v) /\ ~IsActive(v)
    /\ versions' = [versions EXCEPT ![v].lifecycle = "active"]
    /\ UNCHANGED <<workload, sources, snapshot, sound, drafts, requests, raced, hasty>>

PurgeReads(h, v) ==
    /\ Stored(v) /\ ~IsActive(v)
    /\ Start(h, [Idle EXCEPT !.op = "purge", !.version = v])
    /\ Reads

\* The DELETE names the id alone; foreign keys protect the base of a draft and the
\* version another one was restored from.
PurgeWrites(h) ==
    LET v == requests[h].version IN
    /\ requests[h].op = "purge"
    /\ \A d \in workload.types : drafts[d] # v
    /\ \A u \in DOMAIN versions : Stored(u) => versions[u].from # v
    /\ versions' = [versions EXCEPT ![v].lifecycle = "purged"]
    /\ Done(h)
    /\ UNCHANGED <<workload, sources, snapshot, sound, drafts, raced, hasty>>

\* A request ends early: a failed constraint, a row that is gone, an error, or the
\* end of the process.  What it has committed stays.
Drops(h) == requests[h].op # "idle" /\ Done(h) /\ Reads

-------------------------------------------------------------------------------
(* What documents depend on *)

\* Those of the given versions that have recorded dependencies are to be reviewed.
Marked(which) ==
    [v \in DOMAIN versions |->
        IF v \in which /\ versions[v].base # 0
        THEN [versions[v] EXCEPT !.health = "review"] ELSE versions[v]]

Citing(s)      == {v \in DOMAIN versions : s \in versions[v].cites}
MadeSince(n)   == {v \in DOMAIN versions : versions[v].base >= n}

\* A claim that changed materially has been there since some snapshot.
Since == IF snapshot = 0 THEN {} ELSE {1, snapshot}

\* Mutant of Archive: a source is taken to matter through claims only.
ArchiveByClaims(s) ==
    /\ s \in sources
    /\ sources' = sources \ {s}
    /\ \/ UNCHANGED <<workload, sound, versions, hasty>>
       \/ \E since \in Since :
            /\ sound' = FALSE
            /\ versions' = Marked(MadeSince(since))
    /\ requests' = [h \in Handlers |-> IF s \in requests[h].cites
                                       THEN [requests[h] EXCEPT !.lost = TRUE]
                                       ELSE requests[h]]
    /\ UNCHANGED <<workload, snapshot, drafts, raced, hasty>>

\* Every artifact that depends on the source is marked and, if a claim lost its
\* support, those that depend on the claim, the current snapshot included.
Archive(s) ==
    /\ s \in sources
    /\ sources' = sources \ {s}
    /\ \/ versions' = Marked(Citing(s)) /\ UNCHANGED sound
       \/ \E since \in Since :
            /\ sound' = FALSE
            /\ versions' = Marked(Citing(s) \cup MadeSince(since))
    /\ requests' = [h \in Handlers |-> IF s \in requests[h].cites
                                       THEN [requests[h] EXCEPT !.lost = TRUE]
                                       ELSE requests[h]]
    /\ UNCHANGED <<workload, snapshot, drafts, raced, hasty>>

Restore(s) ==
    /\ s \in Sources \ sources
    /\ sources' = sources \cup {s}
    /\ UNCHANGED <<workload, snapshot, sound, versions, drafts, requests, raced, hasty>>

\* resolve_claim_change_tx
ClaimChanges ==
    /\ \E since \in Since :
         /\ sound' = FALSE
         /\ versions' = Marked(MadeSince(since))
    /\ UNCHANGED <<workload, sources, snapshot, drafts, requests, raced, hasty>>

\* The first solution is confirmed, or a change proposal accepted.
NewSnapshot ==
    /\ snapshot < workload.snapshots
    /\ snapshot' = snapshot + 1
    /\ sound' = TRUE
    /\ UNCHANGED <<workload, sources, versions, drafts, requests, raced, hasty>>

Reconfirm ==
    /\ ~sound
    /\ sound' = TRUE
    /\ UNCHANGED <<workload, sources, snapshot, versions, drafts, requests, raced, hasty>>

DocNext ==
    \/ ClaimChanges \/ NewSnapshot \/ Reconfirm
    \/ \E s \in Sources : Archive(s) \/ Restore(s)
    \/ \E v \in DOMAIN versions : SaveDraft(v) \/ Trash(v) \/ Untrash(v)
    \/ \E h \in Handlers :
         \/ StoreClaim(h) \/ PersistDependencies(h) \/ ValidateWrites(h)
         \/ ConfirmWrites(h) \/ PurgeWrites(h) \/ Drops(h)
         \/ \E d \in workload.types :
              \/ Collect(h, d) \/ RunRounds(h, d) \/ InsertVersion(h, d)
              \/ CommitReads(h, d) \/ CreateFromSource(h, d)
         \/ \E v \in DOMAIN versions :
              \/ RestoreReads(h, v) \/ ValidateReads(h, v) \/ ConfirmReads(h, v)
              \/ PurgeReads(h, v)

-------------------------------------------------------------------------------
(* Properties *)

(* A version whose health is "current" and whose dependencies are recorded cites only
   active sources (loop.py:393, "generated from current confirmed Snapshot and active
   dependencies"), through archives and restores of sources, edits, revalidations and
   crashes, unless a source it cites was archived after the loop had collected its
   evidence and before it recorded it, and the version was not validated since. *)
CurrentRestsOnActive ==
    \A v \in DOMAIN versions \ raced :
        Stored(v) /\ versions[v].base # 0 /\ versions[v].health = "current"
            => versions[v].cites \subseteq sources

================================================================================
