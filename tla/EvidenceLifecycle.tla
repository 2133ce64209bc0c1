--------------------------- MODULE EvidenceLifecycle ---------------------------
(***************************************************************************)
(* From a source to the verification status of a claim: adding, archiving  *)
(* and restoring sources (app/services/sources.py, source_guidance.py),    *)
(* retrieval (retrieval_service.py), and the analysis that links chunks to *)
(* claims and recomputes what they are worth (project_claims.py).          *)
(*                                                                         *)
(* A source is one chunk: support is counted per source.  Inside           *)
(* Database.connect() the reads before the first write are unprotected;    *)
(* from that write on the request holds the write lock.  Hence one action  *)
(* for what a handler reads and one for what it then writes.  The recency  *)
(* of a link is left out: a stale relation is refused before it is stored. *)
(***************************************************************************)
EXTENDS Naturals, FiniteSets, ClaimImpact

CONSTANTS
    Handlers,          \* threads that serve requests
    Sources,           \* ids of sources: project, title, filename and content
    Claims,            \* ids of project claims
    TypeOf,            \* the type of a claim
    InitialClaims,     \* the claims of the current snapshot
    Offers,            \* how a source may be described when it is added
    Answers            \* what the analyzer may say of a chunk

ClaimTypes    == {"target_user", "user_problem", "behavior", "value", "feasibility"}
SourceTypes   == {"real_user_research", "simulated_research", "public_source",
                  "user_input", "model_hypothesis", "implementation_evidence"}
Origins       == {"real_interview", "official_page", "public_report", "owner_input",
                  "simulation", "model_output", "implementation", "unknown"}
Relations     == {"supports", "contradicts", "contextualizes"}
Directness    == {"direct", "indirect"}

Offer  == [origin : Origins, synthetic : BOOLEAN, url : BOOLEAN]
Answer == [relation : Relations, directness : Directness]

ASSUME ClaimsAssumption ==
    /\ TypeOf \in [Claims -> ClaimTypes]
    /\ InitialClaims \subseteq Claims
    /\ IsFiniteSet(Claims) /\ IsFiniteSet(Sources)
ASSUME InputsAssumption == Offers \subseteq Offer /\ Answers \subseteq Answer

VARIABLES
    sources,           \* sources
    links,             \* project_claim_evidence_links, by claim, source and relation
    claims,            \* project_claims
    health,            \* artifact_health of the current snapshot
    requests,          \* what each handler has read and not yet used
    overlapped,        \* history: sources written under a handler that had read them
    owed               \* history: claims that lost support, no mark set yet

vars == <<sources, links, claims, health, requests, overlapped, owed>>

-------------------------------------------------------------------------------
(* Rows *)

Source == [status : {"absent", "active", "archived"}, type : SourceTypes \cup {"none"}]
Link   == [directness : Directness \cup {"none"}, active : BOOLEAN]
Claim  == [status : {"absent", "active", "superseded"}, verified : Verifications]

NoLink == [directness |-> "none", active |-> FALSE]

Ops == {"idle", "listed", "retrieved", "insert", "impact", "archive", "restore"}

Request == [op     : Ops,
            claim  : SUBSET Claims,                  \* at most one
            before : [Claims -> Verifications],      \* statuses it has read
            chunks : SUBSET Sources,                 \* hits of its retrieval run
            source : SUBSET Sources,                 \* at most one
            answer : Answer,
            after  : Verifications,                  \* what its last relation led to
            found  : SUBSET (Claims \X Sources \X Relations),
            reread : SUBSET Claims]                  \* claims it will recompute

Unread == [c \in Claims |-> "unverified"]

Idle == [op |-> "idle", claim |-> {}, before |-> Unread, chunks |-> {}, source |-> {},
         answer |-> [relation |-> "supports", directness |-> "direct"],
         after |-> "unverified", found |-> {}, reread |-> {}]

TypeOK ==
    /\ sources \in [Sources -> Source]
    /\ links \in [Claims -> [Sources -> [Relations -> Link]]]
    /\ claims \in [Claims -> Claim]
    /\ health \in {"current", "needs_review", "stale_evidence"}
    /\ requests \in [Handlers -> Request]
    /\ overlapped \subseteq Sources
    /\ owed \subseteq Claims

Active       == {c \in Claims : claims[c].status = "active"}
\* The statuses a handler reads of some claims.
Statuses(of) == [c \in Claims |-> IF c \in of THEN claims[c].verified
                                               ELSE "unverified"]
Linked(k)    == links[k[1]][k[2]][k[3]]
LinkKeys     == Claims \X Sources \X Relations

Init ==
    /\ sources = [s \in Sources |-> [status |-> "absent", type |-> "none"]]
    /\ links = [c \in Claims |-> [s \in Sources |-> [r \in Relations |-> NoLink]]]
    /\ claims = [c \in Claims |->
                   [status |-> IF c \in InitialClaims THEN "active" ELSE "absent",
                    verified |-> "unverified"]]
    /\ health = "current"
    /\ requests = [h \in Handlers |-> Idle]
    /\ overlapped = {}
    /\ owed = {}

-------------------------------------------------------------------------------
(* What a source may prove *)

\* The type recorded for each description of a source.
CategoryType ==
    [real_interview |-> "real_user_research", official_page |-> "public_source",
     public_report |-> "public_source", owner_input |-> "user_input",
     simulation |-> "simulated_research", model_output |-> "model_hypothesis",
     implementation |-> "implementation_evidence", unknown |-> "user_input"]

\* An interview whose text calls itself synthetic is simulated; an unknown text
\* with a URL is public.
Classify(offer) ==
    IF offer.origin = "real_interview" /\ offer.synthetic THEN "simulated_research"
    ELSE IF offer.origin = "unknown" /\ offer.url THEN "public_source"
    ELSE CategoryType[offer.origin]

ADMISSIBILITY ==
    [real_user_research |-> ClaimTypes, public_source |-> ClaimTypes,
     implementation_evidence |-> {"feasibility"},
     user_input |-> {}, model_hypothesis |-> {}, simulated_research |-> {}]

Admissible(s, c) == TypeOf[c] \in ADMISSIBILITY[sources[s].type]

\* INSERT OR IGNORE: a source that is there, archived or not, stays as it is.
AddSource(s, offer) ==
    /\ sources[s].status = "absent"
    /\ sources' = [sources EXCEPT ![s] = [status |-> "active", type |-> Classify(offer)]]
    /\ UNCHANGED <<links, claims, health, requests, overlapped, owed>>

-------------------------------------------------------------------------------
(* The status of a claim *)

Counted(ls, ss, c, relation, kinds) ==
    {s \in Sources : /\ ss[s].status = "active"
                     /\ ls[c][s][relation].active
                     /\ ls[c][s][relation].directness \in kinds}

\* recompute_status_tx, over the rows it finds inside the transaction.
Derive(ls, ss, c) ==
    LET for     == Counted(ls, ss, c, "supports", {"direct"})
        any     == Counted(ls, ss, c, "supports", Directness)
        against == Counted(ls, ss, c, "contradicts", {"direct"})
        before  == {s \in Sources : /\ ls[c][s]["supports"].directness # "none"
                                    /\ ~ls[c][s]["supports"].active} IN
    CASE \E s \in for, t \in against : s # t               -> "conflict"
      [] against # {} /\ for = {}                          -> "contradicted"
      [] against = {} /\ Cardinality(for) >= 2             -> "supported"
      [] against = {} /\ any # {} /\ Cardinality(for) < 2  -> "limited_support"
      [] against = {} /\ any = {} /\ before # {}           -> "stale"
      [] OTHER                                             -> "unverified"

-------------------------------------------------------------------------------
(* What a change of status means *)

\* A write on a source that another handler, about to archive, to restore or to link
\* it, has read.
Overlapped(h, s, ops) ==
    overlapped \cup {t \in {s} : \E g \in Handlers \ {h} :
                                   requests[g].op \in ops /\ requests[g].source = {s}}

\* Claims that lose the support the handler knows of.
LostSupport(known, after) ==
    {c \in Active : /\ known[c] \in Backed /\ claims[c].verified \in Backed
                    /\ after[c].verified \in Lost}

\* Mutant of Material: only what contradicts a claim matters.
MaterialIfRefuted(c, before, after) == before # after /\ after = "contradicted"

\* Every active claim belongs to the current snapshot, which depends on it.
Material(c, before, after) ==
    before # after /\ IsMaterial(TypeOf[c], before, after, TRUE)

-------------------------------------------------------------------------------
(* analyze_project_evidence *)

\* list_claims: all statuses are read at once, before the first provider call.
AnalyseReads(h, c) ==
    /\ requests[h].op = "idle"
    /\ c \in Active
    /\ requests' = [requests EXCEPT ![h] =
         [Idle EXCEPT !.op = "listed", !.claim = {c}, !.before = Statuses({c})]]
    /\ UNCHANGED <<sources, links, claims, health, overlapped, owed>>

\* execute_retrieval: chunks of the active sources of the admissible types.
Retrieve(h, c) ==
    /\ requests[h].op = "listed" /\ requests[h].claim = {c}
    /\ requests' = [requests EXCEPT ![h].op = "retrieved",
         ![h].chunks = {s \in Sources : sources[s].status = "active" /\ Admissible(s, c)}]
    /\ UNCHANGED <<sources, links, claims, health, overlapped, owed>>

\* Mutant of Valid: the trace of the retrieval is enough.
ValidIfRetrieved(h, c, s) == s \in requests[h].chunks /\ c \in Active

\* _validate_relation_tx, for a span the chunk contains.
Valid(h, c, s) ==
    /\ c \in Active
    /\ sources[s].status = "active"
    /\ Admissible(s, c)
    /\ s \in requests[h].chunks

\* A relation that fails the checks is reported and the loop goes on.
ValidateRelation(h, c, s, answer) ==
    /\ requests[h].op = "retrieved" /\ requests[h].claim = {c}
    /\ Valid(h, c, s)
    /\ requests' = [requests EXCEPT ![h].op = "insert", ![h].source = {s},
                                    ![h].answer = answer]
    /\ UNCHANGED <<sources, links, claims, health, overlapped, owed>>

Upsert(c, s, answer) ==
    [links EXCEPT ![c][s][answer.relation] =
        [directness |-> answer.directness, active |-> TRUE]]

PersistRelation(h, c, s) ==
    LET stored == Upsert(c, s, requests[h].answer)
        after  == [claims EXCEPT ![c].verified = Derive(stored, sources, c)] IN
    /\ requests[h].op = "insert" /\ requests[h].claim = {c} /\ requests[h].source = {s}
    /\ c \in Active
    /\ links' = stored
    /\ claims' = after
    /\ requests' = [requests EXCEPT ![h].source = {}, ![h].answer = Idle.answer,
         ![h].after = IF requests[h].before[c] # after[c].verified
                      THEN after[c].verified ELSE @,
         ![h].op = IF requests[h].before[c] # after[c].verified
                   THEN "impact" ELSE "retrieved"]
    /\ overlapped' = Overlapped(h, s, {"archive", "restore"})
    /\ owed' = owed \cup LostSupport(requests[h].before, after)
    /\ UNCHANGED <<sources, health>>

\* The claim is gone: recompute_status_tx raises and the transaction rolls back.
PersistFails(h) ==
    /\ requests[h].op = "insert"
    /\ requests[h].claim \cap Active = {}
    /\ requests' = [requests EXCEPT ![h] = Idle]
    /\ UNCHANGED <<sources, links, claims, health, overlapped, owed>>

\* The impact is a transaction of its own, about the status that one returned.
ResolveImpact(h, c) ==
    /\ requests[h].op = "impact" /\ requests[h].claim = {c}
    /\ c \in Active
    /\ IF Material(c, requests[h].before[c], requests[h].after)
       THEN health' = "needs_review" /\ owed' = owed \ {c}
       ELSE UNCHANGED <<health, owed>>
    /\ requests' = [requests EXCEPT ![h].op = "retrieved", ![h].before[c] = requests[h].after,
                                    ![h].after = Idle.after]
    /\ UNCHANGED <<sources, links, claims, overlapped>>

ImpactFails(h) ==
    /\ requests[h].op = "impact"
    /\ requests[h].claim \cap Active = {}
    /\ requests' = [requests EXCEPT ![h] = Idle]
    /\ UNCHANGED <<sources, links, claims, health, overlapped, owed>>

\* No relation is left, or the provider failed, or refused for the day.
AnalysisEnds(h) ==
    /\ requests[h].op \in {"listed", "retrieved"}
    /\ requests' = [requests EXCEPT ![h] = Idle]
    /\ UNCHANGED <<sources, links, claims, health, overlapped, owed>>

-------------------------------------------------------------------------------
(* archive and restore: status and links are read, then written in one transaction *)

Affected(s) == {c \in Active : \E r \in Relations : links[c][s][r].active}

ArchiveReads(h, s) ==
    /\ requests[h].op = "idle"
    /\ sources[s].status = "active"
    /\ requests' = [requests EXCEPT ![h] =
         [Idle EXCEPT !.op = "archive", !.source = {s}, !.reread = Affected(s),
                      !.before = Statuses(Affected(s))]]
    /\ UNCHANGED <<sources, links, claims, health, overlapped, owed>>

Inactive(s) == {k \in LinkKeys : /\ k[1] \in Active /\ k[2] = s
                                 /\ Linked(k).directness # "none" /\ ~Linked(k).active}

RestoreReads(h, s) ==
    /\ requests[h].op = "idle"
    /\ sources[s].status # "absent"
    /\ requests' = [requests EXCEPT ![h] =
         LET of == {k[1] : k \in Inactive(s)} IN
         [Idle EXCEPT !.op = "restore", !.source = {s}, !.found = Inactive(s),
                      !.reread = of, !.before = Statuses(of)]]
    /\ UNCHANGED <<sources, links, claims, health, overlapped, owed>>

Deactivated(s) ==
    [c \in Claims |-> [links[c] EXCEPT ![s] = [r \in Relations |->
                                                 [@[r] EXCEPT !.active = FALSE]]]]

\* Every link that was found inactive is checked once more: its claim is active
\* (or the transaction fails) and the source, active again, keeps its type.
Reactivated(found) ==
    [c \in Claims |-> [s \in Sources |-> [r \in Relations |->
        IF <<c, s, r>> \in found THEN [links[c][s][r] EXCEPT !.active = TRUE]
                                 ELSE links[c][s][r]]]]

Recomputed(reread, ls, ss) ==
    [c \in Claims |-> IF c \in reread
                      THEN [claims[c] EXCEPT !.verified = Derive(ls, ss, c)]
                      ELSE claims[c]]

HealthFor(archived, after) ==
    IF archived /\ after = "stale" THEN "stale_evidence" ELSE "needs_review"

LifecycleWrites(h, s, archived) ==
    LET request == requests[h]
        ls      == IF archived THEN Deactivated(s) ELSE Reactivated(request.found)
        ss      == [sources EXCEPT ![s].status = IF archived THEN "archived" ELSE "active"]
        after   == Recomputed(request.reread, ls, ss)
        material == {c \in request.reread :
                       Material(c, request.before[c], after[c].verified)} IN
    /\ request.source = {s}
    /\ request.reread \subseteq Active
    /\ sources' = ss
    /\ links' = ls
    /\ claims' = after
    /\ \/ /\ \E c \in material : health' = HealthFor(archived, after[c].verified)
       \/ material = {} /\ UNCHANGED health
    /\ requests' = [requests EXCEPT ![h] = Idle]
    /\ overlapped' = Overlapped(h, s, {"insert", "archive", "restore"})
    /\ owed' = (owed \cup LostSupport(request.before, after)) \ material

Archive(h, s) == requests[h].op = "archive" /\ LifecycleWrites(h, s, TRUE)
Restore(h, s) == requests[h].op = "restore" /\ LifecycleWrites(h, s, FALSE)

\* A claim it read has been superseded since: everything is rolled back.
LifecycleFails(h) ==
    /\ requests[h].op \in {"archive", "restore"}
    /\ ~(requests[h].reread \subseteq Active)
    /\ requests' = [requests EXCEPT ![h] = Idle]
    /\ UNCHANGED <<sources, links, claims, health, overlapped, owed>>

-------------------------------------------------------------------------------
(* The rest of the project *)

\* A change proposal that replaces a claim is accepted: a new snapshot, current,
\* links the new claim, which no evidence bears on.  No request reads the links of a
\* superseded claim again: they are dropped, with its status.
Supersede(c, d) ==
    /\ c \in Active /\ claims[d].status = "absent" /\ TypeOf[d] = TypeOf[c]
    /\ claims' = [claims EXCEPT ![c] = [status |-> "superseded", verified |-> "unverified"],
                                ![d].status = "active"]
    /\ links' = [links EXCEPT ![c] = [s \in Sources |-> [r \in Relations |-> NoLink]]]
    /\ health' = "current"
    /\ owed' = owed \ {c}
    /\ UNCHANGED <<sources, requests, overlapped>>

\* The process dies: requests are lost, the database stays.
Crash ==
    /\ requests' = [h \in Handlers |-> Idle]
    /\ owed' = {}
    /\ UNCHANGED <<sources, links, claims, health, overlapped>>

Next ==
    \/ Crash
    \/ \E s \in Sources, offer \in Offers : AddSource(s, offer)
    \/ \E c, d \in Claims : Supersede(c, d)
    \/ \E h \in Handlers :
         \/ PersistFails(h) \/ ImpactFails(h) \/ AnalysisEnds(h) \/ LifecycleFails(h)
         \/ \E s \in Sources :
              ArchiveReads(h, s) \/ RestoreReads(h, s) \/ Archive(h, s) \/ Restore(h, s)
         \/ \E c \in Claims :
              \/ AnalyseReads(h, c) \/ Retrieve(h, c) \/ ResolveImpact(h, c)
              \/ \E s \in Sources :
                   \/ PersistRelation(h, c, s)
                   \/ \E answer \in Answers : ValidateRelation(h, c, s, answer)

Spec == Init /\ [][Next]_vars

-------------------------------------------------------------------------------
(* Properties *)

(* The status of a claim is the one its evidence gives (docs/superpowers/specs/
   2026-08-27-insightforge-3-0-quick-value-evidence-depth-design.md, 12.5 and 13),
   across archives, restores, relations added one by one by several analyses,
   replaced claims, rolled back transactions and crashes, unless the claim is linked
   to a source that was archived or restored while another request, having read it,
   had yet to write. *)
StatusFollowsEvidence ==
    \A c \in Active :
        (\A s \in overlapped, r \in Relations : links[c][s][r] = NoLink)
            => claims[c].verified = Derive(links, sources, c)

(* A handler that takes a claim's support away marks the snapshot in the same
   transaction or, in an analysis, in its next step: only a crash in between makes
   the project forget it. *)
LossIsReported ==
    \A c \in owed :
        \E h \in Handlers : /\ requests[h].op = "impact" /\ requests[h].claim = {c}
                            /\ Material(c, requests[h].before[c], requests[h].after)

================================================================================
