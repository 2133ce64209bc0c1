-------------------------- MODULE SnapshotGovernance --------------------------
(***************************************************************************)
(* The governance of one project's confirmed product definition: snapshots *)
(* (app/services/snapshots.py), change proposals (change_proposals.py),    *)
(* artifact health and the impact of evidence (artifact_health.py,         *)
(* impact.py), and direct edits of the canvas (projects.py).               *)
(*                                                                         *)
(* Requests run concurrently.  Inside Database.connect() the statements up *)
(* to the first write each see the database of their own moment; from the  *)
(* first write on the request holds the write lock.  A handler is therefore*)
(* a "Reads" action and a "Writes" action; the constraint                  *)
(* UNIQUE(project_id, version) is a guard of the writes, and a request it  *)
(* fails rolls back.                                                       *)
(***************************************************************************)
EXTENDS Naturals, Sequences, FiniteSets, ClaimImpact

CONSTANTS
    Handlers,          \* threads that serve requests
    Claims,            \* ids of project claims
    TypeOf,            \* the type of a claim
    InitialClaims,     \* the claims made with the first snapshot
    Observed,          \* verification statuses that evidence leads to
    MaxSnapshots,      \* bound: snapshots of the project
    MaxProposals       \* bound: change proposals of the project

ClaimTypes    == {"target_user", "user_problem", "value", "feasibility"}

ASSUME ClaimsAssumption ==
    /\ TypeOf \in [Claims -> ClaimTypes]
    /\ InitialClaims \subseteq Claims
    /\ IsFiniteSet(Claims)
ASSUME ObservedAssumption == Observed \subseteq Verifications
ASSUME GovernanceBounds   == MaxSnapshots \in Nat /\ MaxProposals \in Nat

VARIABLES
    snapshots,         \* project_snapshots, with their claim links, in order
    current,           \* projects.current_snapshot_id; 0 before the first
    health,            \* artifact_health of each snapshot
    proposals,         \* change_proposals, in order
    claims,            \* project_claims
    canvas,            \* what the canvas holds
    requests           \* what each handler has read, between its two steps

vars == <<snapshots, current, health, proposals, claims, canvas, requests>>

-------------------------------------------------------------------------------
(* Rows *)

Healths == {"current", "needs_review", "stale_evidence", "superseded"}

Snapshot == [version    : Nat,
             supersedes : Nat,
             claims     : SUBSET Claims,       \* snapshot_claim_links
             proposal   : Nat]                 \* 0: the first confirmation

Proposal == [from     : Nat,
             kind     : {"evidence", "canvas", "suggested"},
             affected : SUBSET Claims,
             replaces : SUBSET Claims,         \* claim_replacements
             status   : {"open", "accepted", "rejected", "deferred"}]

Claim == [status : {"absent", "active", "superseded"}, verified : Verifications]

Ops == {"idle", "confirm", "accept", "decide", "reconfirm", "restore health",
        "analyse", "assess", "impact", "source", "suggest"}

Request == [op       : Ops,
            proposal : Nat,
            decision : {"none", "rejected", "deferred"},
            base     : Nat,                    \* the current snapshot it read
            claim    : SUBSET Claims,          \* at most one
            before   : Verifications,
            after    : Verifications]

Idle == [op |-> "idle", proposal |-> 0, decision |-> "none", base |-> 0,
         claim |-> {}, before |-> "unverified", after |-> "unverified"]

TypeOK ==
    /\ snapshots \in Seq(Snapshot)
    /\ current \in 0 .. Len(snapshots)
    /\ health \in Seq(Healths)
    /\ Len(health) = Len(snapshots)
    /\ proposals \in Seq(Proposal)
    /\ claims \in [Claims -> Claim]
    /\ canvas \in {"draft", "projected", "edited"}
    /\ requests \in [Handlers -> Request]

Active  == {c \in Claims : claims[c].status = "active"}
Absent  == {c \in Claims : claims[c].status = "absent"}
Open(p) == proposals[p].status = "open"

OpenOn(s) == {p \in DOMAIN proposals : Open(p) /\ proposals[p].from = s}

\* Mutant of VersionTaken: the table has no such constraint.
NeverTaken(v) == FALSE

\* UNIQUE(project_id, version): an insert of a taken version fails.
VersionTaken(v) == \E i \in DOMAIN snapshots : snapshots[i].version = v

Start(h, request) ==
    /\ requests[h].op = "idle"
    /\ requests' = [requests EXCEPT ![h] = request]

Done(h) == requests' = [requests EXCEPT ![h] = Idle]

\* A conflict, a missing row or a failed constraint: nothing is written.
GiveUp(h) ==
    Done(h) /\ UNCHANGED <<snapshots, current, health, proposals, claims, canvas>>

Reads == UNCHANGED <<snapshots, current, health, proposals, claims, canvas>>

\* Mutant of ProjectCanvas: only the first snapshot is projected.
ProjectCanvasOnce == canvas' = IF current = 0 THEN "projected" ELSE canvas

ProjectCanvas == canvas' = "projected"

Init ==
    /\ snapshots = <<>>
    /\ current = 0
    /\ health = <<>>
    /\ proposals = <<>>
    /\ claims = [c \in Claims |-> [status |-> "absent", verified |-> "unverified"]]
    /\ canvas = "draft"
    /\ requests = [h \in Handlers |-> Idle]

-------------------------------------------------------------------------------
(* confirm_initial_solution *)

ConfirmReads(h) ==
    /\ current = 0
    /\ MaxSnapshots > 0
    /\ Start(h, [Idle EXCEPT !.op = "confirm"])
    /\ Reads

ConfirmWrites(h) ==
    /\ requests[h].op = "confirm"
    /\ ~VersionTaken(1)
    /\ snapshots' = Append(snapshots, [version |-> 1, supersedes |-> 0,
                                       claims |-> InitialClaims, proposal |-> 0])
    /\ current' = Len(snapshots) + 1
    /\ health' = Append(health, "current")
    /\ claims' = [c \in Claims |-> IF c \in InitialClaims
                    THEN [status |-> "active", verified |-> "unverified"]
                    ELSE claims[c]]
    /\ ProjectCanvas
    /\ Done(h)
    /\ UNCHANGED proposals

ConfirmFails(h) ==
    requests[h].op = "confirm" /\ VersionTaken(1) /\ GiveUp(h)

-------------------------------------------------------------------------------
(* accept: the proposal is open and its snapshot is the current one when they
   are read; what is written numbers the new snapshot after the old one. *)

AcceptReads(h, p) ==
    /\ Open(p)
    /\ proposals[p].from = current
    /\ proposals[p].replaces \subseteq Active
    /\ Len(snapshots) < MaxSnapshots
    /\ Start(h, [Idle EXCEPT !.op = "accept", !.proposal = p])
    /\ Reads

\* Each replaced claim gets one new claim of its type.
Replacement(replaced, fresh) ==
    /\ fresh \subseteq Absent
    /\ Cardinality(fresh) = Cardinality(replaced)
    /\ \A t \in ClaimTypes : Cardinality({c \in fresh : TypeOf[c] = t})
                             = Cardinality({c \in replaced : TypeOf[c] = t})

\* Mutant of Replaced: the old claims stay in force.
ReplacedByAddition(replaced, fresh) ==
    [c \in Claims |->
        IF c \in fresh THEN [status |-> "active", verified |-> "unverified"]
        ELSE claims[c]]

Replaced(replaced, fresh) ==
    [c \in Claims |->
        IF c \in replaced THEN [claims[c] EXCEPT !.status = "superseded"]
        ELSE IF c \in fresh THEN [status |-> "active", verified |-> "unverified"]
        ELSE claims[c]]

\* Mutant of NextVersion: the highest version of the project plus one.
NextVersionByMax(base) == Len(snapshots) + 1

NextVersion(base) == snapshots[base].version + 1

\* Mutant of Insert: the old snapshot is patched in place.
InsertInPlace(base, p, linked) ==
    [snapshots EXCEPT ![base].version = NextVersion(base),
                      ![base].claims = linked, ![base].proposal = p]

Insert(base, p, linked) ==
    Append(snapshots, [version |-> NextVersion(base), supersedes |-> base,
                       claims |-> linked, proposal |-> p])

AcceptWrites(h) ==
    LET p == requests[h].proposal
        base == proposals[p].from
        replaced == proposals[p].replaces IN
    /\ requests[h].op = "accept"
    /\ ~VersionTaken(NextVersion(base))
    /\ \E fresh \in SUBSET Absent :
         /\ Replacement(replaced, fresh)
         /\ claims' = Replaced(replaced, fresh)
         /\ snapshots' = Insert(base, p,
              ((snapshots[base].claims \cap Active) \ replaced) \cup fresh)
    /\ current' = Len(snapshots) + 1
    /\ health' = Append([health EXCEPT ![base] = "superseded"], "current")
    /\ proposals' = [proposals EXCEPT ![p].status = "accepted"]
    /\ ProjectCanvas
    /\ Done(h)

AcceptFails(h) ==
    /\ requests[h].op = "accept"
    /\ VersionTaken(NextVersion(proposals[requests[h].proposal].from))
    /\ GiveUp(h)

(* reject and defer: the UPDATE that follows the check names the id only *)

DecideReads(h, p, d) ==
    /\ Open(p)
    /\ Start(h, [Idle EXCEPT !.op = "decide", !.proposal = p, !.decision = d])
    /\ Reads

\* Mutant of DecideWrites: the decision also clears the snapshot's mark.
DecideWritesAndClears(h) ==
    /\ requests[h].op = "decide"
    /\ proposals' = [proposals EXCEPT
                       ![requests[h].proposal].status = requests[h].decision]
    /\ health' = [health EXCEPT ![proposals[requests[h].proposal].from] = "current"]
    /\ Done(h)
    /\ UNCHANGED <<snapshots, current, claims, canvas>>

DecideWrites(h) ==
    /\ requests[h].op = "decide"
    /\ proposals' = [proposals EXCEPT
                       ![requests[h].proposal].status = requests[h].decision]
    /\ Done(h)
    /\ UNCHANGED <<snapshots, current, health, claims, canvas>>

-------------------------------------------------------------------------------
(* reconfirm_current_health *)

ReconfirmReads(h) ==
    /\ current # 0
    /\ Start(h, [Idle EXCEPT !.op = "reconfirm", !.base = current])
    /\ Reads

ReconfirmChecks(h) ==
    /\ requests[h].op = "reconfirm"
    /\ requests' = [requests EXCEPT ![h] =
         IF OpenOn(@.base) = {} /\ health[@.base] # "current"
         THEN [@ EXCEPT !.op = "restore health"] ELSE Idle]
    /\ Reads

ReconfirmWrites(h) ==
    /\ requests[h].op = "restore health"
    /\ health' = [health EXCEPT ![requests[h].base] = "current"]
    /\ Done(h)
    /\ UNCHANGED <<snapshots, current, proposals, claims, canvas>>

-------------------------------------------------------------------------------
(* The impact of a claim whose verification status changed *)

Dependent(c) == \E i \in DOMAIN snapshots : c \in snapshots[i].claims

MaterialChange(c, before, after) ==
    before # after /\ IsMaterial(TypeOf[c], before, after, Dependent(c))

\* Every snapshot with a recorded dependency on the claim is marked, the
\* superseded ones included.
Mark(base, c, status) ==
    health' = [i \in DOMAIN health |->
                 IF i = base \/ c \in snapshots[i].claims THEN status
                                                          ELSE health[i]]

\* Mutant of AlreadyProposed: nobody looks.
NotLookedUp(base, c) == FALSE

AlreadyProposed(base, c) ==
    \E p \in OpenOn(base) : /\ proposals[p].kind = "evidence"
                            /\ c \in proposals[p].affected

Propose(base, kind, affected, replaces) ==
    proposals' = Append(proposals, [from |-> base, kind |-> kind,
                   affected |-> affected, replaces |-> replaces, status |-> "open"])

ResolveImpact(base, c, status) ==
    /\ Mark(base, c, status)
    /\ IF AlreadyProposed(base, c) THEN UNCHANGED proposals
       ELSE Len(proposals) < MaxProposals /\ Propose(base, "evidence", {c}, {})

(* analyze_project_evidence: the claim is read and the provider asked; then, one
   relation after the other, the relation is persisted with the claim's new status
   and the impact is resolved in a transaction of its own. *)

Analysing(c, before) ==
    [Idle EXCEPT !.op = "analyse", !.claim = {c}, !.before = before]

AnalyseReads(h, c) ==
    /\ c \in Active
    /\ Start(h, Analysing(c, claims[c].verified))
    /\ Reads

PersistRelation(h, c, after) ==
    /\ requests[h].op = "analyse" /\ requests[h].claim = {c}
    /\ c \in Active
    /\ claims' = [claims EXCEPT ![c].verified = after]
    /\ requests' = [requests EXCEPT ![h] =
         IF @.before = after THEN @ ELSE [@ EXCEPT !.op = "assess", !.after = after]]
    /\ UNCHANGED <<snapshots, current, health, proposals, canvas>>

ImpactReads(h, c) ==
    /\ requests[h].op = "assess" /\ requests[h].claim = {c}
    /\ requests' = [requests EXCEPT ![h] =
         IF c \notin Active THEN Idle
         ELSE IF current # 0 /\ MaterialChange(c, @.before, @.after)
         THEN [@ EXCEPT !.op = "impact", !.base = current]
         ELSE Analysing(c, @.after)]
    /\ Reads

ImpactWrites(h, c) ==
    /\ requests[h].op = "impact" /\ requests[h].claim = {c}
    /\ ResolveImpact(requests[h].base, c, "needs_review")
    /\ requests' = [requests EXCEPT ![h] = Analysing(c, @.after)]
    /\ UNCHANGED <<snapshots, current, claims, canvas>>

\* No relation is left, or the provider failed.
AnalysisEnds(h) == requests[h].op = "analyse" /\ GiveUp(h)

HealthAfter(after, archived) ==
    IF archived /\ after = "stale" THEN "stale_evidence" ELSE "needs_review"

(* Archiving or restoring a source that bears on the claim: the statuses are read
   first, then everything is one transaction. *)

SourceReads(h, c) ==
    /\ c \in Active
    /\ Start(h, [Idle EXCEPT !.op = "source", !.claim = {c},
                             !.before = claims[c].verified])
    /\ Reads

SourceWrites(h, c, after, archived) ==
    /\ requests[h].op = "source" /\ requests[h].claim = {c}
    /\ c \in Active
    /\ claims' = [claims EXCEPT ![c].verified = after]
    /\ IF current # 0 /\ MaterialChange(c, requests[h].before, after)
       THEN ResolveImpact(current, c, HealthAfter(after, archived))
       ELSE UNCHANGED <<health, proposals>>
    /\ Done(h)
    /\ UNCHANGED <<snapshots, current, canvas>>

\* The claim was superseded while the handler worked on it.
ClaimGone(h, c) ==
    /\ requests[h].op = "source" /\ requests[h].claim = {c}
    /\ c \notin Active
    /\ GiveUp(h)

-------------------------------------------------------------------------------
(* update_canvas: one transaction; the key of project_canvas_versions gives every
   edit a version of its own, hence a proposal of its own. *)

EditCanvas(replaced) ==
    /\ canvas' = IF current = 0 THEN "draft" ELSE "edited"
    /\ replaced \subseteq {c \in Active : TypeOf[c] \in {"target_user", "user_problem"}}
    /\ \A c, d \in replaced : TypeOf[c] = TypeOf[d] => c = d
    /\ IF current = 0
       THEN UNCHANGED <<health, proposals>>
       ELSE /\ Len(proposals) < MaxProposals
            /\ health' = [health EXCEPT ![current] = "needs_review"]
            /\ Propose(current, "canvas", replaced, replaced)
    /\ UNCHANGED <<snapshots, current, claims, requests>>

(* create_change_proposal, a tool: reads the current snapshot, then inserts *)

SuggestReads(h) ==
    /\ current # 0
    /\ Start(h, [Idle EXCEPT !.op = "suggest", !.base = current])
    /\ Reads

SuggestWrites(h) ==
    /\ requests[h].op = "suggest"
    /\ Len(proposals) < MaxProposals
    /\ Propose(requests[h].base, "suggested", {}, {})
    /\ Done(h)
    /\ UNCHANGED <<snapshots, current, health, claims, canvas>>

-------------------------------------------------------------------------------

\* The process dies: requests are lost, the database stays.
Crash ==
    /\ requests' = [h \in Handlers |-> Idle]
    /\ UNCHANGED <<snapshots, current, health, proposals, claims, canvas>>

DecisionStep(h) ==
    \/ ConfirmReads(h) \/ ConfirmWrites(h) \/ ConfirmFails(h)
    \/ \E p \in DOMAIN proposals :
          \/ AcceptReads(h, p)
          \/ \E d \in {"rejected", "deferred"} : DecideReads(h, p, d)
    \/ AcceptWrites(h) \/ AcceptFails(h) \/ DecideWrites(h)
    \/ ReconfirmReads(h) \/ ReconfirmChecks(h) \/ ReconfirmWrites(h)

EvidenceStep(h, c) ==
    \/ AnalyseReads(h, c) \/ ImpactReads(h, c) \/ ImpactWrites(h, c)
    \/ AnalysisEnds(h) \/ SourceReads(h, c) \/ ClaimGone(h, c)
    \/ \E after \in Observed :
          \/ PersistRelation(h, c, after)
          \/ \E archived \in BOOLEAN : SourceWrites(h, c, after, archived)

Next ==
    \/ \E h \in Handlers :
          \/ DecisionStep(h)
          \/ \E c \in Claims : EvidenceStep(h, c)
          \/ SuggestReads(h) \/ SuggestWrites(h)
    \/ \E replaced \in SUBSET Claims : EditCanvas(replaced)
    \/ Crash

Spec == Init /\ [][Next]_vars

-------------------------------------------------------------------------------
(* Properties *)

\* Whatever proposals are accepted at the same time, the snapshots form one chain:
\* each has the next version, supersedes the one before it, and the project points
\* at the last.
HistoryIsLinear ==
    /\ \A i \in DOMAIN snapshots : /\ snapshots[i].version = i
                                   /\ snapshots[i].supersedes = i - 1
    /\ current = Len(snapshots)

\* Each snapshot after the first was made by one proposal, computed against the
\* snapshot it supersedes; no proposal makes two, and an accepted one made one.
OneSnapshotPerProposal ==
    /\ \A i \in DOMAIN snapshots : i > 1 =>
         /\ snapshots[i].proposal \in DOMAIN proposals
         /\ proposals[snapshots[i].proposal].from = snapshots[i].supersedes
    /\ \A i, j \in DOMAIN snapshots :
         snapshots[i].proposal = snapshots[j].proposal => i = j
    /\ \A p \in DOMAIN proposals : proposals[p].status = "accepted" =>
         \E i \in DOMAIN snapshots : snapshots[i].proposal = p

\* The claims in force are exactly those of the current snapshot: no acceptance
\* leaves it with a superseded claim or with two versions of the same judgement.
ActiveClaimsAreCurrent ==
    current # 0 =>
        /\ Active = snapshots[current].claims
        /\ \A t \in {"target_user", "user_problem"} :
              Cardinality({c \in Active : TypeOf[c] = t})
                = Cardinality({c \in InitialClaims : TypeOf[c] = t})

\* However many analyses and source changes hit a claim at once, it has at most one
\* open evidence proposal against a snapshot.
OneOpenProposalPerClaim ==
    \A p, q \in DOMAIN proposals :
        (/\ Open(p) /\ Open(q)
         /\ proposals[p].kind = "evidence" /\ proposals[q].kind = "evidence"
         /\ proposals[p].from = proposals[q].from
         /\ proposals[p].affected \cap proposals[q].affected # {}) => p = q

\* A canvas that no longer is the projection of the current snapshot is the subject
\* of a reconciliation proposal against that snapshot.
EditedCanvasIsProposed ==
    canvas = "edited" =>
        \E p \in DOMAIN proposals : /\ proposals[p].kind = "canvas"
                                    /\ proposals[p].from = current

\* Deciding on proposals never clears the review mark of a snapshot: only the
\* human reconfirmation does.
MarkClearedByHuman ==
    \A i \in DOMAIN health :
        (health[i] # "current" /\ health'[i] = "current") =>
            \E h \in Handlers : /\ requests[h].op = "restore health"
                                /\ requests[h].base = i
                                /\ requests'[h].op = "idle"

ReviewEndsWithHuman == [][MarkClearedByHuman]_vars

\* The snapshots implement the abstract history of the project: versions are only
\* added, each adopting one proposal, and what is recorded stays as it is.
History == INSTANCE ProjectHistory
             WITH history <- [i \in 1 .. Len(snapshots) |-> snapshots[i].proposal]

ImplementsHistory == History!HistorySpec

\* docs/superpowers/specs/...-design.md: "Accepting the proposal creates a new
\* Snapshot; rejecting/defer does not."
RejectedMadeNoSnapshot ==
    \A i \in DOMAIN snapshots : i > 1 =>
        proposals[snapshots[i].proposal].status = "accepted"
===============================================================================
