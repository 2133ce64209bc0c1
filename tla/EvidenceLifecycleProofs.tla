----------------------- MODULE EvidenceLifecycleProofs -----------------------
(***************************************************************************)
(* Proofs about EvidenceLifecycle, for any number of handlers, sources and *)
(* claims, any descriptions of sources and any answers of the analyzer.    *)
(*                                                                         *)
(* A handler that writes has read what it rests on in another step.  Who   *)
(* writes a source under it is on record (overlapped); of all other        *)
(* sources a handler's knowledge is complete, and no claim is forgotten    *)
(* when their support comes or goes.                                       *)
(***************************************************************************)
EXTENDS EvidenceLifecycle, FiniteSetTheorems, TLAPS

-------------------------------------------------------------------------------
(* The invariant *)

EvidenceTypes ==
    /\ sources \in [Sources -> Source]
    /\ links \in [Claims -> [Sources -> [Relations -> Link]]]
    /\ claims \in [Claims -> Claim]
    /\ requests \in [Handlers -> Request]
    /\ overlapped \in SUBSET Sources
    /\ owed \in SUBSET Active

\* Links are of claims in force and of sources there are; a link that counts has a source
\* that is active, unless the source was archived under the handler that linked it.
LinksRest ==
    /\ \A c \in Claims \ Active, s \in Sources, r \in Relations : links[c][s][r] = NoLink
    /\ \A c \in Claims : claims[c].status = "absent" => claims[c].verified = "unverified"
    /\ \A c \in Claims, s \in Sources, r \in Relations :
         /\ sources[s].status = "absent" => links[c][s][r] = NoLink
         /\ links[c][s][r].active => /\ links[c][s][r].directness # "none"
                                     /\ sources[s].status = "active" \/ s \in overlapped

\* What a request knows.
RequestRests(q) ==
    /\ q.op \in {"insert", "archive", "restore"} =>
         \A s \in q.source : sources[s].status # "absent"
    /\ q.op = "insert" =>
         \A s \in q.source : sources[s].status = "active" \/ s \in overlapped
    /\ q.op = "archive" =>
         \A s \in q.source, c \in Active \ q.reread, r \in Relations :
            links[c][s][r].active => s \in overlapped
    /\ q.op = "restore" =>
         \A k \in q.found : /\ k \in LinkKeys /\ k[1] \in q.reread /\ k[2] \in q.source
                            /\ claims[k[1]].status # "absent"
                            /\ k[1] \in Active => Linked(k).directness # "none"
    /\ q.op \in {"archive", "restore"} =>
         /\ \E s \in Sources : q.source = {s}
         /\ \A c \in Claims \ q.reread : q.before[c] = "unverified"
    /\ q.op = "insert" => \E s \in Sources : q.source = {s}

\* The request that will report that a claim has lost its support.
Reports(q, c) ==
    q.op = "impact" /\ q.claim = {c} /\ Material(c, q.before[c], q.after)

EvidenceInv ==
    /\ EvidenceTypes
    /\ LinksRest
    /\ \A h \in Handlers : RequestRests(requests[h])
    /\ \A c \in owed : \E h \in Handlers : Reports(requests[h], c)
    /\ StatusFollowsEvidence

LEMMA IdleIs ==
  /\ Idle \in Request /\ Idle.op = "idle" /\ Idle.claim = {} /\ Idle.source = {}
BY DEF Idle, Request, Ops, Unread, Verifications, Answer, Relations, Directness

LEMMA EvidenceInvImplies == EvidenceInv => StatusFollowsEvidence /\ LossIsReported
BY DEF EvidenceInv, LossIsReported, Reports

\* A claim keeps its worth if its links stay, and the sources of those that count.
LEMMA SameWorth ==
  ASSUME NEW ls, NEW ss, NEW lt, NEW st, NEW c,
         \A s \in Sources, r \in Relations :
            /\ lt[c][s][r] = ls[c][s][r]
            /\ ls[c][s][r].active => (st[s].status = "active" <=> ss[s].status = "active")
  PROVE  Derive(lt, st, c) = Derive(ls, ss, c)
<1>1. "supports" \in Relations /\ "contradicts" \in Relations
  BY DEF Relations
<1>2. \A relation \in Relations : \A kinds :
        Counted(lt, st, c, relation, kinds) = Counted(ls, ss, c, relation, kinds)
  BY DEF Counted
<1>3. {s \in Sources : /\ lt[c][s]["supports"].directness # "none"
                       /\ ~lt[c][s]["supports"].active}
      = {s \in Sources : /\ ls[c][s]["supports"].directness # "none"
                         /\ ~ls[c][s]["supports"].active}
  BY <1>1
<1>4. /\ Counted(lt, st, c, "supports", {"direct"}) = Counted(ls, ss, c, "supports", {"direct"})
      /\ Counted(lt, st, c, "supports", Directness) = Counted(ls, ss, c, "supports", Directness)
      /\ Counted(lt, st, c, "contradicts", {"direct"})
           = Counted(ls, ss, c, "contradicts", {"direct"})
  BY <1>1, <1>2
<1>5. QED
  BY <1>3, <1>4 DEF Derive

\* Without links there is nothing to say of a claim.
LEMMA NoWorth ==
  ASSUME NEW ls, NEW ss, NEW c,
         \A s \in Sources, r \in Relations : ls[c][s][r] = NoLink
  PROVE  Derive(ls, ss, c) = "unverified"
<1>1. "supports" \in Relations /\ "contradicts" \in Relations
  BY DEF Relations
<1>2. \A s \in Sources, r \in Relations : /\ ~ls[c][s][r].active
                                          /\ ls[c][s][r].directness = "none"
  BY DEF NoLink
<1>3. /\ Counted(ls, ss, c, "supports", {"direct"}) = {}
      /\ Counted(ls, ss, c, "supports", Directness) = {}
      /\ Counted(ls, ss, c, "contradicts", {"direct"}) = {}
  BY <1>1, <1>2 DEF Counted
<1>4. {s \in Sources : /\ ls[c][s]["supports"].directness # "none"
                       /\ ~ls[c][s]["supports"].active} = {}
  BY <1>1, <1>2
<1>5. ~(Cardinality({}) >= 2)
  BY FS_EmptySet
<1>6. QED
  BY <1>3, <1>4, <1>5, Zenon DEF Derive

LEMMA WorthIs ==
  ASSUME NEW ls, NEW ss, NEW c
  PROVE  Derive(ls, ss, c) \in Verifications
BY DEF Derive, Verifications

-------------------------------------------------------------------------------
(* Requests that read, or go on, or end *)

LEMMA RequestIs ==
  ASSUME EvidenceTypes, NEW h \in Handlers, NEW q \in Request,
         requests' = [requests EXCEPT ![h] = q]
  PROVE  /\ requests' \in [Handlers -> Request] /\ requests'[h] = q
         /\ \A g \in Handlers : g # h => requests'[g] = requests[g]
BY DEF EvidenceTypes

\* The claims that a handler owes a report are reported by others, or by it again.
LEMMA RequestChanges ==
  ASSUME EvidenceInv, NEW h \in Handlers, NEW q \in Request,
         requests' = [requests EXCEPT ![h] = q], RequestRests(q),
         UNCHANGED <<sources, links, claims, overlapped>>, owed' \subseteq owed,
         \A c \in owed' : Reports(requests[h], c) => Reports(q, c)
  PROVE  EvidenceInv'
<1>1. /\ requests' \in [Handlers -> Request] /\ requests'[h] = q
      /\ \A g \in Handlers : g # h => requests'[g] = requests[g]
  BY RequestIs DEF EvidenceInv
<1>2. Active' = Active
  BY DEF Active
<1>3. EvidenceTypes' /\ LinksRest'
  BY <1>1, <1>2 DEF EvidenceInv, EvidenceTypes, LinksRest
<1>4. ASSUME NEW g \in Handlers PROVE RequestRests(requests[g])'
  <2>1. RequestRests(requests'[g])
    BY <1>1 DEF EvidenceInv
  <2>2. QED
    BY <1>2, <2>1 DEF RequestRests, Linked
<1>5. ASSUME NEW c \in owed' PROVE \E g \in Handlers : Reports(requests[g], c)'
  <2>1. PICK g \in Handlers : Reports(requests[g], c)
    BY DEF EvidenceInv
  <2>2. Reports(requests'[g], c)
    BY <1>1, <2>1
  <2>3. QED
    BY <2>2 DEF Reports
<1>6. StatusFollowsEvidence'
  BY <1>2 DEF EvidenceInv, StatusFollowsEvidence
<1>7. QED
  BY <1>3, <1>4, <1>5, <1>6 DEF EvidenceInv

LEMMA IdleRests == RequestRests(Idle)
BY IdleIs DEF RequestRests

\* A request that has nothing to report ends.
LEMMA RequestEnds ==
  ASSUME EvidenceInv, NEW h \in Handlers, requests' = [requests EXCEPT ![h] = Idle],
         UNCHANGED <<sources, links, claims, overlapped, owed>>,
         requests[h].op = "impact" => requests[h].claim \cap Active = {}
  PROVE  EvidenceInv'
<1>1. \A c \in owed : ~Reports(requests[h], c)
  BY DEF Reports, EvidenceInv, EvidenceTypes
<1>2. QED
  BY <1>1, IdleIs, IdleRests, RequestChanges

LEMMA EndsInv ==
  ASSUME EvidenceInv, NEW h \in Handlers,
         PersistFails(h) \/ ImpactFails(h) \/ AnalysisEnds(h) \/ LifecycleFails(h)
  PROVE  EvidenceInv'
BY RequestEnds DEF PersistFails, ImpactFails, AnalysisEnds, LifecycleFails

\* A request that was not about to report reads.
LEMMA RequestReads ==
  ASSUME EvidenceInv, NEW h \in Handlers, NEW q \in Request,
         requests' = [requests EXCEPT ![h] = q], RequestRests(q),
         UNCHANGED <<sources, links, claims, overlapped, owed>>,
         requests[h].op # "impact"
  PROVE  EvidenceInv'
<1>1. \A c \in owed : ~Reports(requests[h], c)
  BY DEF Reports
<1>2. QED
  BY <1>1, RequestChanges

LEMMA StatusesAre ==
  ASSUME EvidenceTypes, NEW of
  PROVE  /\ Statuses(of) \in [Claims -> Verifications]
         /\ \A c \in Claims : /\ c \in of => Statuses(of)[c] = claims[c].verified
                              /\ c \notin of => Statuses(of)[c] = "unverified"
<1>1. \A c \in Claims : claims[c].verified \in Verifications
  BY DEF EvidenceTypes, Claim
<1>2. "unverified" \in Verifications
  BY DEF Verifications
<1>3. QED
  BY <1>1, <1>2 DEF Statuses

LEMMA AnalysisInv ==
  ASSUME EvidenceInv, NEW h \in Handlers, NEW c \in Claims,
         AnalyseReads(h, c) \/ Retrieve(h, c)
  PROVE  EvidenceInv'
<1>0. EvidenceTypes /\ requests[h] \in Request
  BY DEF EvidenceInv, EvidenceTypes
<1>1. CASE AnalyseReads(h, c)
  <2> DEFINE before == Statuses({c})
             q == [Idle EXCEPT !.op = "listed", !.claim = {c}, !.before = before]
  <2>1. before \in [Claims -> Verifications]
    BY <1>0, StatusesAre
  <2>2. /\ requests' = [requests EXCEPT ![h] = q] /\ requests[h].op # "impact"
        /\ UNCHANGED <<sources, links, claims, overlapped, owed>>
    BY <1>1 DEF AnalyseReads
  <2> HIDE DEF before
  <2>3. q \in Request /\ q.op = "listed"
    BY <2>1, IdleIs DEF Request, Ops
  <2> HIDE DEF q
  <2>4. QED
    BY <2>2, <2>3, RequestReads DEF RequestRests
<1>2. CASE Retrieve(h, c)
  <2> DEFINE chunks == {s \in Sources : sources[s].status = "active" /\ Admissible(s, c)}
             q == [requests[h] EXCEPT !.op = "retrieved", !.chunks = chunks]
  <2>1. chunks \in SUBSET Sources
    OBVIOUS
  <2>2. /\ requests' = [requests EXCEPT ![h] = q] /\ requests[h].op # "impact"
        /\ UNCHANGED <<sources, links, claims, overlapped, owed>>
    BY <1>0, <1>2 DEF Retrieve, EvidenceTypes
  <2> HIDE DEF chunks
  <2>3. q \in Request /\ q.op = "retrieved"
    BY <1>0, <2>1 DEF Request, Ops
  <2> HIDE DEF q
  <2>4. QED
    BY <2>2, <2>3, RequestReads DEF RequestRests
<1>3. QED
  BY <1>1, <1>2

LEMMA ValidateInv ==
  ASSUME EvidenceInv, NEW h \in Handlers, NEW c \in Claims, NEW s \in Sources,
         NEW answer \in Answers, ValidateRelation(h, c, s, answer)
  PROVE  EvidenceInv'
<1> DEFINE q == [requests[h] EXCEPT !.op = "insert", !.source = {s}, !.answer = answer]
<1>1. /\ EvidenceTypes /\ requests[h] \in Request /\ answer \in Answer
      /\ sources[s].status = "active"
  BY InputsAssumption DEF EvidenceInv, EvidenceTypes, ValidateRelation, Valid
<1>2. /\ requests' = [requests EXCEPT ![h] = q] /\ requests[h].op # "impact"
      /\ UNCHANGED <<sources, links, claims, overlapped, owed>>
  BY <1>1 DEF ValidateRelation, EvidenceTypes
<1>3. q \in Request /\ q.op = "insert" /\ q.source = {s}
  BY <1>1 DEF Request, Ops
<1> HIDE DEF q
<1>4. RequestRests(q)
  BY <1>1, <1>3 DEF RequestRests
<1>5. QED
  BY <1>2, <1>3, <1>4, RequestReads

LEMMA LifecycleReadsInv ==
  ASSUME EvidenceInv, NEW h \in Handlers, NEW s \in Sources,
         ArchiveReads(h, s) \/ RestoreReads(h, s)
  PROVE  EvidenceInv'
<1>0. EvidenceTypes /\ requests[h] \in Request
  BY DEF EvidenceInv, EvidenceTypes
<1>1. CASE ArchiveReads(h, s)
  <2> DEFINE reread == Affected(s)
             before == Statuses(reread)
             q == [Idle EXCEPT !.op = "archive", !.source = {s}, !.reread = reread,
                               !.before = before]
  <2>1. /\ reread \in SUBSET Claims
        /\ \A c \in Active \ reread, r \in Relations : ~links[c][s][r].active
    BY DEF Affected, Active
  <2>2. /\ before \in [Claims -> Verifications]
        /\ \A c \in Claims \ reread : before[c] = "unverified"
    BY <1>0, StatusesAre
  <2>3. /\ requests' = [requests EXCEPT ![h] = q] /\ requests[h].op # "impact"
        /\ UNCHANGED <<sources, links, claims, overlapped, owed>>
        /\ sources[s].status = "active"
    BY <1>1 DEF ArchiveReads
  <2> HIDE DEF reread, before
  <2>4. /\ q \in Request /\ q.op = "archive" /\ q.source = {s} /\ q.reread = reread
        /\ q.before = before
    BY <2>1, <2>2, IdleIs DEF Request, Ops
  <2> HIDE DEF q
  <2>5. RequestRests(q)
    BY <2>1, <2>2, <2>3, <2>4 DEF RequestRests
  <2>6. QED
    BY <2>3, <2>4, <2>5, RequestReads
<1>2. CASE RestoreReads(h, s)
  <2> DEFINE found == Inactive(s)
             reread == {k[1] : k \in found}
             before == Statuses(reread)
             q == [Idle EXCEPT !.op = "restore", !.source = {s}, !.found = found,
                               !.reread = reread, !.before = before]
  <2>1. /\ found \in SUBSET (Claims \X Sources \X Relations)
        /\ \A k \in found : /\ k \in LinkKeys /\ k[1] \in reread /\ k[2] = s
                            /\ k[1] \in Active /\ Linked(k).directness # "none"
    BY DEF Inactive, LinkKeys
  <2>2. reread \in SUBSET Claims
    BY <2>1 DEF Active
  <2>3. /\ before \in [Claims -> Verifications]
        /\ \A c \in Claims \ reread : before[c] = "unverified"
    BY <1>0, StatusesAre
  <2>4. /\ requests' = [requests EXCEPT ![h] = q] /\ requests[h].op # "impact"
        /\ UNCHANGED <<sources, links, claims, overlapped, owed>>
        /\ sources[s].status # "absent"
    BY <1>2 DEF RestoreReads
  <2> HIDE DEF found, reread, before
  <2>5. /\ q \in Request /\ q.op = "restore" /\ q.source = {s} /\ q.reread = reread
        /\ q.before = before /\ q.found = found
    BY <2>1, <2>2, <2>3, IdleIs DEF Request, Ops
  <2> HIDE DEF q
  <2>6. RequestRests(q)
    BY <2>1, <2>3, <2>4, <2>5 DEF RequestRests, Active
  <2>7. QED
    BY <2>4, <2>5, <2>6, RequestReads
<1>3. QED
  BY <1>1, <1>2

\* The loss is reported, or was none.
LEMMA ImpactInv ==
  ASSUME EvidenceInv, NEW h \in Handlers, NEW c \in Claims, ResolveImpact(h, c)
  PROVE  EvidenceInv'
<1> DEFINE read == requests[h]
           before == [read.before EXCEPT ![c] = read.after]
           q == [read EXCEPT !.op = "retrieved", !.before = before, !.after = Idle.after]
<1>1. EvidenceTypes /\ read \in Request
  BY DEF EvidenceInv, EvidenceTypes
<1>2. requests' = [requests EXCEPT ![h] = q]
  BY <1>1 DEF ResolveImpact, EvidenceTypes
<1>3. /\ read.op = "impact" /\ read.claim = {c}
      /\ UNCHANGED <<sources, links, claims, overlapped>>
      /\ owed' \subseteq owed
      /\ Material(c, read.before[c], read.after) => c \notin owed'
  BY DEF ResolveImpact
<1>4. before \in [Claims -> Verifications] /\ Idle.after \in Verifications
  BY <1>1, IdleIs DEF Request
<1>5. \A d \in owed' : ~Reports(read, d)
  BY <1>3 DEF Reports
<1> HIDE DEF before, read
<1>6. q \in Request /\ q.op = "retrieved"
  BY <1>1, <1>4 DEF Request, Ops
<1> HIDE DEF q
<1>7. RequestRests(q)
  BY <1>6 DEF RequestRests
<1>8. QED
  BY <1>2, <1>3, <1>5, <1>6, <1>7, RequestChanges DEF read

-------------------------------------------------------------------------------
(* Evidence is added *)

LEMMA EvidenceInitInv == Init => EvidenceInv
<1> SUFFICES ASSUME Init PROVE EvidenceInv
  OBVIOUS
<1>1. /\ NoLink \in Link /\ ~NoLink.active
      /\ \A c \in Claims, s \in Sources, r \in Relations : links[c][s][r] = NoLink
  BY DEF Init, NoLink, Link
<1>2. links \in [Claims -> [Sources -> [Relations -> Link]]]
  BY <1>1 DEF Init
<1>3. claims \in [Claims -> Claim] /\ \A c \in Claims : claims[c].verified = "unverified"
  BY DEF Init, Claim, Verifications
<1>4. sources \in [Sources -> Source]
  BY DEF Init, Source
<1>5. EvidenceTypes
  BY <1>2, <1>3, <1>4, IdleIs DEF Init, EvidenceTypes
<1>6. LinksRest
  BY <1>1, <1>3 DEF LinksRest
<1>7. \A h \in Handlers : RequestRests(requests[h])
  BY IdleRests DEF Init
<1>8. StatusFollowsEvidence
  <2>1. \A c \in Claims : Derive(links, sources, c) = "unverified"
    BY <1>1, NoWorth
  <2>2. QED
    BY <1>3, <2>1 DEF StatusFollowsEvidence, Active
<1>9. QED
  BY <1>5, <1>6, <1>7, <1>8 DEF EvidenceInv, Init

LEMMA CrashInv ==
  ASSUME EvidenceInv, Crash
  PROVE  EvidenceInv'
<1>1. \A h \in Handlers : requests'[h] = Idle
  BY DEF Crash
<1>2. Active' = Active
  BY DEF Crash, Active
<1>3. EvidenceTypes' /\ LinksRest'
  BY <1>2, IdleIs DEF EvidenceInv, EvidenceTypes, LinksRest, Crash
<1>4. \A h \in Handlers : RequestRests(requests[h])'
  BY <1>1, IdleIs DEF RequestRests
<1>5. StatusFollowsEvidence'
  BY <1>2 DEF EvidenceInv, StatusFollowsEvidence, Crash
<1>6. QED
  BY <1>3, <1>4, <1>5 DEF EvidenceInv, Crash

LEMMA StutterInv ==
  ASSUME EvidenceInv, UNCHANGED vars
  PROVE  EvidenceInv'
<1>1. Active' = Active
  BY DEF vars, Active
<1>2. EvidenceTypes' /\ LinksRest'
  BY <1>1 DEF EvidenceInv, EvidenceTypes, LinksRest, vars
<1>3. \A h \in Handlers : RequestRests(requests[h])'
  BY <1>1 DEF EvidenceInv, RequestRests, Linked, vars
<1>4. \A c \in owed' : \E h \in Handlers : Reports(requests[h], c)'
  BY DEF EvidenceInv, Reports, vars
<1>5. StatusFollowsEvidence'
  BY <1>1 DEF EvidenceInv, StatusFollowsEvidence, vars
<1>6. QED
  BY <1>2, <1>3, <1>4, <1>5 DEF EvidenceInv

\* No link leads to a source that was not there.
LEMMA AddInv ==
  ASSUME EvidenceInv, NEW s \in Sources, NEW offer \in Offers, AddSource(s, offer)
  PROVE  EvidenceInv'
<1> USE DEF EvidenceInv
<1>1. /\ sources[s].status = "absent"
      /\ UNCHANGED <<links, claims, requests, overlapped, owed>>
      /\ Active' = Active
  BY DEF AddSource, Active
<1>2. Classify(offer) \in SourceTypes
  BY InputsAssumption DEF Classify, CategoryType, Offer, Origins, SourceTypes
<1>3. /\ sources' \in [Sources -> Source]
      /\ sources'[s].status = "active"
      /\ \A t \in Sources : t # s => sources'[t] = sources[t]
  BY <1>2 DEF AddSource, EvidenceTypes, Source
<1>4. \A c \in Claims, r \in Relations : ~links[c][s][r].active
  BY <1>1 DEF LinksRest, NoLink
<1>5. EvidenceTypes'
  BY <1>1, <1>3 DEF EvidenceTypes
<1>6. LinksRest'
  BY <1>1, <1>3, <1>4 DEF LinksRest
<1>7. ASSUME NEW h \in Handlers PROVE RequestRests(requests[h])'
  <2>1. RequestRests(requests[h])
    OBVIOUS
  <2>2. requests[h].source \subseteq Sources
    BY DEF EvidenceTypes, Request
  <2>3. QED
    BY <1>1, <1>3, <2>1, <2>2 DEF RequestRests, Linked
<1>8. ASSUME NEW c \in Claims PROVE Derive(links', sources', c) = Derive(links, sources, c)
  BY <1>1, <1>3, <1>4, SameWorth
<1>9. StatusFollowsEvidence'
  BY <1>1, <1>8 DEF StatusFollowsEvidence, Active
<1>10. QED
  BY <1>1, <1>5, <1>6, <1>7, <1>9 DEF Reports

\* What makes a claim lose its support is material.
LEMMA LossIsMaterial ==
  ASSUME NEW c, NEW before \in Backed, NEW after \in Lost
  PROVE  Material(c, before, after)
BY DEF Material, IsMaterial, Backed, Lost

LEMMA OverlappedIs ==
  ASSUME EvidenceTypes, NEW h \in Handlers, NEW s \in Sources, NEW ops,
         overlapped' = Overlapped(h, s, ops)
  PROVE  /\ overlapped \subseteq overlapped' /\ overlapped' \in SUBSET Sources
         /\ \A g \in Handlers :
              (g # h /\ requests[g].op \in ops /\ requests[g].source = {s})
                => s \in overlapped'
<1> DEFINE late == {t \in {s} : \E g \in Handlers \ {h} :
                                  requests[g].op \in ops /\ requests[g].source = {s}}
<1>1. overlapped' = overlapped \cup late
  BY DEF Overlapped
<1>2. late \subseteq {s}
  OBVIOUS
<1>3. \A g \in Handlers :
        (g # h /\ requests[g].op \in ops /\ requests[g].source = {s}) => s \in late
  OBVIOUS
<1> HIDE DEF late
<1>4. QED
  BY <1>1, <1>2, <1>3 DEF EvidenceTypes

LEMMA PersistInv ==
  ASSUME EvidenceInv, NEW h \in Handlers, NEW c \in Claims, NEW s \in Sources,
         PersistRelation(h, c, s)
  PROVE  EvidenceInv'
<1> DEFINE read == requests[h]
           rel == read.answer.relation
           worth == Derive(links', sources, c)
           changed == read.before[c] # worth
           later == IF changed THEN worth ELSE read.after
           op == IF changed THEN "impact" ELSE "retrieved"
           q == [read EXCEPT !.source = {}, !.answer = Idle.answer, !.after = later,
                             !.op = op]
<1>1. /\ EvidenceTypes /\ LinksRest /\ StatusFollowsEvidence /\ read \in Request
      /\ RequestRests(read)
  BY DEF EvidenceInv, EvidenceTypes
<1>2. /\ read.op = "insert" /\ read.claim = {c} /\ read.source = {s} /\ c \in Active
      /\ UNCHANGED sources
      /\ rel \in Relations /\ read.answer.directness \in Directness
  BY <1>1 DEF PersistRelation, Request, Answer
<1>3. links' = [links EXCEPT ![c][s][rel] = [directness |-> read.answer.directness,
                                              active |-> TRUE]]
  BY DEF PersistRelation, Upsert
<1>4. /\ links' \in [Claims -> [Sources -> [Relations -> Link]]]
      /\ links'[c][s][rel].directness # "none"
      /\ \A d \in Claims, t \in Sources, r \in Relations :
           <<d, t, r>> # <<c, s, rel>> => links'[d][t][r] = links[d][t][r]
  <2> DEFINE new == [directness |-> read.answer.directness, active |-> TRUE]
  <2>1. new \in Link /\ new.directness # "none"
    BY <1>2 DEF Link, Directness
  <2> HIDE DEF new
  <2>2. links' = [links EXCEPT ![c][s][rel] = new]
    BY <1>3 DEF new
  <2> HIDE DEF rel
  <2>3. links \in [Claims -> [Sources -> [Relations -> Link]]]
    BY <1>1 DEF EvidenceTypes
  <2>4. QED
    BY <1>2, <2>1, <2>2, <2>3
<1>5. worth \in Verifications
  BY WorthIs
<1>6. /\ claims' = [claims EXCEPT ![c].verified = worth]
      /\ requests' = [requests EXCEPT ![h] = q]
      /\ overlapped' = Overlapped(h, s, {"archive", "restore"})
      /\ owed' = owed \cup LostSupport(read.before, claims')
  <2>1. links' = Upsert(c, s, read.answer)
    BY DEF PersistRelation
  <2>2. claims' = [claims EXCEPT ![c].verified = worth]
    BY <2>1 DEF PersistRelation
  <2>3. claims'[c].verified = worth
    BY <1>1, <1>5, <2>2 DEF EvidenceTypes, Claim
  <2> HIDE DEF worth
  <2>4. requests' = [requests EXCEPT ![h].source = {}, ![h].answer = Idle.answer,
         ![h].after = IF requests[h].before[c] # worth THEN worth ELSE @,
         ![h].op = IF requests[h].before[c] # worth THEN "impact" ELSE "retrieved"]
    <3> DEFINE after == [claims EXCEPT ![c].verified =
                            Derive(Upsert(c, s, requests[h].answer), sources, c)]
    <3>1. requests' = [requests EXCEPT ![h].source = {}, ![h].answer = Idle.answer,
           ![h].after = IF requests[h].before[c] # after[c].verified
                        THEN after[c].verified ELSE @,
           ![h].op = IF requests[h].before[c] # after[c].verified
                     THEN "impact" ELSE "retrieved"]
      BY DEF PersistRelation
    <3>2. after = claims'
      BY DEF PersistRelation
    <3> HIDE DEF after
    <3>3. after[c].verified = worth
      BY <2>3, <3>2
    <3>4. QED
      BY <3>1, <3>3, Zenon
  <2>5. requests \in [Handlers -> Request]
    BY <1>1 DEF EvidenceTypes
  <2>6. QED
    BY <2>1, <2>2, <2>4, <2>5 DEF PersistRelation
<1> HIDE DEF worth
<1>7. /\ claims' \in [Claims -> Claim]
      /\ claims'[c].verified = worth /\ claims'[c].status = claims[c].status
      /\ \A d \in Claims : d # c => claims'[d] = claims[d]
  BY <1>1, <1>5, <1>6 DEF EvidenceTypes, Claim
<1>8. Active' = Active
  BY <1>7 DEF Active
<1>9. /\ later \in Verifications /\ op \in {"impact", "retrieved"}
      /\ changed => op = "impact" /\ later = worth
  BY <1>1, <1>5 DEF Request
<1> HIDE DEF changed, later, op
<1>10. /\ q \in Request /\ q.op = op /\ q.after = later /\ q.claim = read.claim
       /\ q.before = read.before
  <2>1. Idle.answer \in Answer
    BY IdleIs DEF Request
  <2>2. QED
    BY <1>1, <1>9, <2>1 DEF Request, Ops
<1> HIDE DEF q
<1>11. /\ requests' \in [Handlers -> Request] /\ requests'[h] = q
       /\ \A g \in Handlers : g # h => requests'[g] = requests[g]
  BY <1>1, <1>6, <1>10, RequestIs
<1>12. /\ overlapped \subseteq overlapped' /\ overlapped' \in SUBSET Sources
       /\ \A g \in Handlers :
            (g # h /\ requests[g].op \in {"archive", "restore"} /\ requests[g].source = {s})
              => s \in overlapped'
  BY <1>1, <1>6, OverlappedIs
<1> HIDE DEF rel
<1>13. ASSUME NEW d \in owed'
       PROVE  d \in owed \/ (d = c /\ Reports(q, c))
  <2>1. CASE d \in LostSupport(read.before, claims')
    <3>1. /\ d \in Claims /\ read.before[d] \in Backed /\ claims[d].verified \in Backed
          /\ claims'[d].verified \in Lost
      BY <2>1 DEF LostSupport, Active
    <3>2. d = c
      BY <1>7, <3>1 DEF Backed, Lost
    <3>3. read.before[c] \in Backed /\ worth \in Lost
      BY <1>7, <3>1, <3>2
    <3>4. changed
      BY <3>3 DEF changed, Backed, Lost
    <3>5. QED
      BY <1>2, <1>9, <1>10, <3>2, <3>3, <3>4, LossIsMaterial DEF Reports
  <2>2. QED
    BY <1>6, <2>1
<1>14. EvidenceTypes'
  BY <1>1, <1>2, <1>4, <1>7, <1>8, <1>11, <1>12, <1>13 DEF EvidenceTypes
<1>15. LinksRest'
  <2>1. sources[s].status # "absent" /\ (sources[s].status = "active" \/ s \in overlapped)
    <3>1. s \in read.source
      BY <1>2
    <3>2. /\ \A t \in read.source : sources[t].status # "absent"
          /\ \A t \in read.source : sources[t].status = "active" \/ t \in overlapped
      BY <1>1, <1>2, Zenon DEF RequestRests
    <3>3. QED
      BY <3>1, <3>2
  <2>2. \A d \in Claims \ Active, t \in Sources, r \in Relations : links'[d][t][r] = NoLink
    <3>1. \A d \in Claims \ Active, t \in Sources, r \in Relations :
            links'[d][t][r] = links[d][t][r]
      BY <1>2, <1>4
    <3>2. QED
      BY <1>1, <3>1 DEF LinksRest
  <2>3. \A d \in Claims : claims'[d].status = "absent" => claims'[d].verified = "unverified"
    BY <1>1, <1>2, <1>7 DEF LinksRest, Active
  <2>4. \A d \in Claims, t \in Sources, r \in Relations :
          /\ sources[t].status = "absent" => links'[d][t][r] = NoLink
          /\ links'[d][t][r].active =>
               /\ links'[d][t][r].directness # "none"
               /\ sources[t].status = "active" \/ t \in overlapped'
    <3> SUFFICES ASSUME NEW d \in Claims, NEW t \in Sources, NEW r \in Relations
                 PROVE  /\ sources[t].status = "absent" => links'[d][t][r] = NoLink
                        /\ links'[d][t][r].active =>
                             /\ links'[d][t][r].directness # "none"
                             /\ sources[t].status = "active" \/ t \in overlapped'
      OBVIOUS
    <3>1. CASE <<d, t, r>> = <<c, s, rel>>
      BY <1>4, <1>12, <2>1, <3>1
    <3>2. CASE <<d, t, r>> # <<c, s, rel>>
      <4>1. links'[d][t][r] = links[d][t][r]
        BY <1>4, <3>2
      <4>2. /\ sources[t].status = "absent" => links[d][t][r] = NoLink
            /\ links[d][t][r].active =>
                 /\ links[d][t][r].directness # "none"
                 /\ sources[t].status = "active" \/ t \in overlapped
        BY <1>1 DEF LinksRest
      <4>3. QED
        BY <1>12, <4>1, <4>2
    <3>3. QED
      BY <3>1, <3>2
  <2>5. QED
    BY <1>2, <1>8, <2>2, <2>3, <2>4 DEF LinksRest
<1>16. ASSUME NEW g \in Handlers PROVE RequestRests(requests[g])'
  <2>1. CASE g = h
    <3>1. requests'[g].op \in {"impact", "retrieved"}
      BY <1>9, <1>10, <1>11, <2>1
    <3>2. QED
      BY <3>1 DEF RequestRests
  <2>2. CASE g # h
    <3> DEFINE p == requests[g]
    <3>1. /\ requests'[g] = p /\ p \in Request /\ RequestRests(p)
          /\ (p.op \in {"archive", "restore"} /\ p.source = {s} => s \in overlapped')
      BY <1>1, <1>11, <1>12, <2>2 DEF EvidenceInv, EvidenceTypes
    <3> HIDE DEF p
    <3>2. p.source \subseteq Sources /\ p.found \subseteq LinkKeys
      BY <3>1 DEF Request, LinkKeys
    <3>3. p.op = "archive" =>
            \A t \in p.source, d \in Active \ p.reread, r \in Relations :
               links'[d][t][r].active => t \in overlapped'
      <4> SUFFICES ASSUME p.op = "archive", NEW t \in p.source,
                          NEW d \in Active \ p.reread, NEW r \in Relations,
                          links'[d][t][r].active
                   PROVE  t \in overlapped'
        OBVIOUS
      <4>1. /\ links[d][t][r].active => t \in overlapped
            /\ \E u \in Sources : p.source = {u}
        BY <3>1 DEF RequestRests
      <4>2. CASE t = s
        <5>1. p.source = {s}
          BY <4>1, <4>2
        <5>2. QED
          BY <3>1, <4>2, <5>1
      <4>3. CASE t # s
        <5>1. d \in Claims /\ t \in Sources
          BY <3>2 DEF Active
        <5>2. <<d, t, r>> # <<c, s, rel>>
          BY <4>3
        <5>3. links'[d][t][r] = links[d][t][r]
          BY <1>4, <5>1, <5>2
        <5>4. QED
          BY <1>12, <4>1, <5>3
      <4>4. QED
        BY <4>2, <4>3
    <3>4. p.op = "restore" =>
            \A k \in p.found : /\ k \in LinkKeys /\ k[1] \in p.reread /\ k[2] \in p.source
                               /\ claims'[k[1]].status # "absent"
                               /\ k[1] \in Active => links'[k[1]][k[2]][k[3]].directness # "none"
      <4> SUFFICES ASSUME p.op = "restore", NEW k \in p.found
                   PROVE  /\ k \in LinkKeys /\ k[1] \in p.reread /\ k[2] \in p.source
                          /\ claims'[k[1]].status # "absent"
                          /\ k[1] \in Active => links'[k[1]][k[2]][k[3]].directness # "none"
        OBVIOUS
      <4>1. /\ k \in LinkKeys /\ k[1] \in p.reread /\ k[2] \in p.source
            /\ claims[k[1]].status # "absent"
            /\ k[1] \in Active => links[k[1]][k[2]][k[3]].directness # "none"
        BY <3>1 DEF RequestRests, Linked
      <4>2. k[1] \in Claims /\ k[2] \in Sources /\ k[3] \in Relations
        BY <4>1 DEF LinkKeys
      <4>3. QED
        BY <1>4, <1>7, <4>1, <4>2
    <3>5. QED
      BY <1>2, <1>8, <1>12, <3>1, <3>3, <3>4 DEF RequestRests, Linked
  <2>3. QED
    BY <2>1, <2>2
<1>17. ASSUME NEW d \in owed' PROVE \E g \in Handlers : Reports(requests[g], d)'
  <2>1. CASE d \in owed
    <3>1. PICK g \in Handlers : Reports(requests[g], d)
      BY <2>1 DEF EvidenceInv
    <3>2. g # h
      BY <1>2, <3>1 DEF Reports
    <3>3. QED
      BY <1>11, <3>1, <3>2 DEF Reports
  <2>2. QED
    BY <1>11, <1>13, <2>1 DEF Reports
<1>18. StatusFollowsEvidence'
  <2> SUFFICES ASSUME NEW d \in Active,
                      \A t \in overlapped', r \in Relations : links'[d][t][r] = NoLink
               PROVE  claims'[d].verified = Derive(links', sources, d)
    BY <1>2, <1>8 DEF StatusFollowsEvidence
  <2>0. d \in Claims
    BY DEF Active
  <2>1. CASE d = c
    BY <1>7, <2>1 DEF worth
  <2>2. CASE d # c
    <3>1. \A t \in Sources, r \in Relations : links'[d][t][r] = links[d][t][r]
      BY <1>4, <2>0, <2>2
    <3>2. \A t \in overlapped, r \in Relations : links[d][t][r] = NoLink
      BY <1>1, <1>12, <3>1 DEF EvidenceTypes
    <3>3. claims[d].verified = Derive(links, sources, d)
      BY <1>1, <3>2 DEF StatusFollowsEvidence
    <3>4. Derive(links', sources, d) = Derive(links, sources, d)
      BY <3>1, SameWorth
    <3>5. QED
      BY <1>7, <2>0, <2>2, <3>3, <3>4
  <2>3. QED
    BY <2>1, <2>2
<1>19. QED
  BY <1>14, <1>15, <1>16, <1>17, <1>18 DEF EvidenceInv

-------------------------------------------------------------------------------
(* A source is archived or restored *)

\* A link without directness was never made.
LEMMA NoLinkIs ==
  ASSUME NEW link \in Link, link.active => link.directness # "none"
  PROVE  link = NoLink <=> link.directness = "none"
BY DEF Link, NoLink

\* Only links of the source change, and only in whether they count.
LEMMA LinksChange ==
  ASSUME EvidenceInv, NEW h \in Handlers, NEW s \in Sources, NEW archived \in BOOLEAN,
         requests[h].op = IF archived THEN "archive" ELSE "restore",
         LifecycleWrites(h, s, archived)
  PROVE  /\ links' \in [Claims -> [Sources -> [Relations -> Link]]]
         /\ \A c \in Claims, t \in Sources, r \in Relations :
              /\ links'[c][t][r].directness = links[c][t][r].directness
              /\ t # s => links'[c][t][r] = links[c][t][r]
              /\ links'[c][t][r] = NoLink <=> links[c][t][r] = NoLink
              /\ links'[c][t][r].active => links'[c][t][r].directness # "none"
              /\ archived /\ t = s => ~links'[c][t][r].active
              /\ ~archived /\ c \notin requests[h].reread =>
                   links'[c][t][r] = links[c][t][r]
<1> DEFINE read == requests[h]
<1>1. /\ EvidenceTypes /\ LinksRest /\ RequestRests(read)
      /\ links \in [Claims -> [Sources -> [Relations -> Link]]]
      /\ read.source = {s} /\ read.reread \subseteq Active
  BY DEF EvidenceInv, EvidenceTypes, LifecycleWrites
<1>2. \A c \in Claims, t \in Sources, r \in Relations :
        /\ links[c][t][r] \in Link
        /\ links[c][t][r].active => links[c][t][r].directness # "none"
  BY <1>1 DEF LinksRest
<1>3. \A link \in Link, b \in BOOLEAN :
        /\ [link EXCEPT !.active = b] \in Link
        /\ [link EXCEPT !.active = b].directness = link.directness
        /\ [link EXCEPT !.active = b].active = b
  BY DEF Link
<1>4. CASE archived
  <2>1. links' = Deactivated(s)
    BY <1>4 DEF LifecycleWrites
  <2>2. /\ links' \in [Claims -> [Sources -> [Relations -> Link]]]
        /\ \A c \in Claims, t \in Sources, r \in Relations :
             /\ t # s => links'[c][t][r] = links[c][t][r]
             /\ t = s => links'[c][t][r] = [links[c][t][r] EXCEPT !.active = FALSE]
    BY <1>1, <1>2, <1>3, <2>1 DEF Deactivated
  <2> SUFFICES ASSUME NEW c \in Claims, NEW t \in Sources, NEW r \in Relations
               PROVE  /\ links'[c][t][r].directness = links[c][t][r].directness
                      /\ t # s => links'[c][t][r] = links[c][t][r]
                      /\ links'[c][t][r] = NoLink <=> links[c][t][r] = NoLink
                      /\ links'[c][t][r].active => links'[c][t][r].directness # "none"
                      /\ t = s => ~links'[c][t][r].active
    BY <1>4, <2>2
  <2>3. CASE t # s
    <3> DEFINE old == links[c][t][r]
               new == links'[c][t][r]
    <3>1. new = old /\ (old.active => old.directness # "none")
      BY <1>2, <2>2, <2>3
    <3> HIDE DEF old, new
    <3>2. /\ new.directness = old.directness /\ (new = NoLink <=> old = NoLink)
          /\ new.active => new.directness # "none"
      BY <3>1, Zenon
    <3>3. QED
      BY <2>3, <3>1, <3>2 DEF old, new
  <2>4. CASE t = s
    <3> DEFINE old == links[c][t][r]
               new == links'[c][t][r]
    <3>1. /\ old \in Link /\ (old.active => old.directness # "none")
          /\ new = [old EXCEPT !.active = FALSE]
      BY <1>2, <2>2, <2>4
    <3> HIDE DEF old, new
    <3>2. new \in Link /\ new.directness = old.directness /\ ~new.active
      BY <1>3, <3>1
    <3>3. new = NoLink <=> old = NoLink
      BY <3>1, <3>2, NoLinkIs
    <3>4. QED
      BY <2>4, <3>2, <3>3 DEF old, new
  <2>5. QED
    BY <2>3, <2>4
<1>5. CASE ~archived
  <2> DEFINE found == read.found
  <2>1. links' = Reactivated(found)
    BY <1>5 DEF LifecycleWrites
  <2>2. \A c \in Claims, t \in Sources, r \in Relations :
          <<c, t, r>> \in found =>
            c \in read.reread /\ t = s /\ links[c][t][r].directness # "none"
    <3> SUFFICES ASSUME NEW c \in Claims, NEW t \in Sources, NEW r \in Relations,
                        <<c, t, r>> \in found
                 PROVE  c \in read.reread /\ t = s /\ links[c][t][r].directness # "none"
      OBVIOUS
    <3> DEFINE k == <<c, t, r>>
    <3>1. /\ k[1] \in read.reread /\ k[2] \in read.source
          /\ (k[1] \in Active => Linked(k).directness # "none")
      BY <1>1, <1>5 DEF RequestRests
    <3>2. QED
      BY <1>1, <3>1 DEF Linked
  <2> HIDE DEF found
  <2>3. /\ links' \in [Claims -> [Sources -> [Relations -> Link]]]
        /\ \A c \in Claims, t \in Sources, r \in Relations :
             links'[c][t][r] = IF <<c, t, r>> \in found
                               THEN [links[c][t][r] EXCEPT !.active = TRUE]
                               ELSE links[c][t][r]
    BY <1>2, <1>3, <2>1 DEF Reactivated
  <2> SUFFICES ASSUME NEW c \in Claims, NEW t \in Sources, NEW r \in Relations
               PROVE  /\ links'[c][t][r].directness = links[c][t][r].directness
                      /\ t # s => links'[c][t][r] = links[c][t][r]
                      /\ links'[c][t][r] = NoLink <=> links[c][t][r] = NoLink
                      /\ links'[c][t][r].active => links'[c][t][r].directness # "none"
                      /\ c \notin read.reread => links'[c][t][r] = links[c][t][r]
    BY <1>5, <2>3
  <2>4. CASE <<c, t, r>> \notin found
    <3> DEFINE old == links[c][t][r]
               new == links'[c][t][r]
    <3>1. new = old /\ (old.active => old.directness # "none")
      BY <1>2, <2>3, <2>4
    <3> HIDE DEF old, new
    <3>2. /\ new.directness = old.directness /\ (new = NoLink <=> old = NoLink)
          /\ new.active => new.directness # "none"
      BY <3>1, Zenon
    <3>3. QED
      BY <2>4, <3>1, <3>2 DEF old, new
  <2>5. CASE <<c, t, r>> \in found
    <3> DEFINE old == links[c][t][r]
               new == links'[c][t][r]
    <3>1. /\ old \in Link /\ old.directness # "none"
          /\ new = [old EXCEPT !.active = TRUE]
      BY <1>2, <2>2, <2>3, <2>5
    <3> HIDE DEF old, new
    <3>2. new \in Link /\ new.directness = old.directness
      BY <1>3, <3>1
    <3>3. new # NoLink /\ old # NoLink
      BY <3>1, <3>2 DEF NoLink
    <3>4. QED
      BY <2>2, <2>5, <3>1, <3>2, <3>3 DEF old, new
  <2>6. QED
    BY <2>4, <2>5
<1>6. QED
  BY <1>4, <1>5

LEMMA WritesInv ==
  ASSUME EvidenceInv, NEW h \in Handlers, NEW s \in Sources, NEW archived \in BOOLEAN,
         requests[h].op = IF archived THEN "archive" ELSE "restore",
         LifecycleWrites(h, s, archived)
  PROVE  EvidenceInv'
<1> DEFINE read == requests[h]
           status == IF archived THEN "archived" ELSE "active"
           material == {c \in read.reread :
                          Material(c, read.before[c], claims'[c].verified)}
<1>1. /\ EvidenceTypes /\ LinksRest /\ StatusFollowsEvidence /\ read \in Request
      /\ RequestRests(read) /\ read.op \in {"archive", "restore"}
      /\ archived <=> read.op = "archive"
  BY DEF EvidenceInv, EvidenceTypes
<1>2. /\ read.source = {s} /\ read.reread \subseteq Active
      /\ sources' = [sources EXCEPT ![s].status = status]
      /\ claims' = Recomputed(read.reread, links', sources')
      /\ requests' = [requests EXCEPT ![h] = Idle]
      /\ overlapped' = Overlapped(h, s, {"insert", "archive", "restore"})
      /\ owed' = (owed \cup LostSupport(read.before, claims')) \ material
  BY DEF LifecycleWrites
<1>3. /\ links' \in [Claims -> [Sources -> [Relations -> Link]]]
      /\ \A c \in Claims, t \in Sources, r \in Relations :
           /\ links'[c][t][r].directness = links[c][t][r].directness
           /\ t # s => links'[c][t][r] = links[c][t][r]
           /\ links'[c][t][r] = NoLink <=> links[c][t][r] = NoLink
           /\ links'[c][t][r].active => links'[c][t][r].directness # "none"
           /\ archived /\ t = s => ~links'[c][t][r].active
           /\ ~archived /\ c \notin read.reread => links'[c][t][r] = links[c][t][r]
  BY LinksChange
<1>4. /\ sources' \in [Sources -> Source]
      /\ sources'[s].status = status
      /\ \A t \in Sources : t # s => sources'[t] = sources[t]
  BY <1>1, <1>2 DEF EvidenceTypes, Source
<1>5. sources[s].status # "absent"
  BY <1>1, <1>2 DEF RequestRests
<1>6. /\ claims' \in [Claims -> Claim]
      /\ \A c \in Claims : /\ claims'[c].status = claims[c].status
                           /\ c \notin read.reread => claims'[c] = claims[c]
                           /\ c \in read.reread =>
                                claims'[c].verified = Derive(links', sources', c)
  <2>1. \A c \in Claims : Derive(links', sources', c) \in Verifications
    BY WorthIs
  <2>2. claims \in [Claims -> Claim]
    BY <1>1 DEF EvidenceTypes
  <2> DEFINE worth == [c \in Claims |-> Derive(links', sources', c)]
  <2>3. /\ worth \in [Claims -> Verifications]
        /\ claims' = [c \in Claims |-> IF c \in read.reread
                                       THEN [claims[c] EXCEPT !.verified = worth[c]]
                                       ELSE claims[c]]
    BY <1>2, <2>1 DEF Recomputed
  <2>4. \A c \in Claims : worth[c] = Derive(links', sources', c)
    OBVIOUS
  <2> HIDE DEF worth, read
  <2>5. QED
    BY <2>2, <2>3, <2>4 DEF Claim
<1>7. Active' = Active
  BY <1>6 DEF Active
<1>8. /\ requests' \in [Handlers -> Request] /\ requests'[h] = Idle
      /\ \A g \in Handlers : g # h => requests'[g] = requests[g]
  BY <1>1, <1>2, RequestIs, IdleIs
<1>9. /\ overlapped \subseteq overlapped' /\ overlapped' \in SUBSET Sources
      /\ \A g \in Handlers :
           (/\ g # h /\ requests[g].op \in {"insert", "archive", "restore"}
            /\ requests[g].source = {s}) => s \in overlapped'
  BY <1>1, <1>2, OverlappedIs
<1>10. owed' \subseteq owed
  <2> SUFFICES ASSUME NEW c \in LostSupport(read.before, claims') PROVE c \in material
    BY <1>2
  <2>1. /\ c \in Claims /\ read.before[c] \in Backed /\ claims'[c].verified \in Lost
    BY DEF LostSupport, Active
  <2>2. read.before[c] # "unverified"
    BY <2>1 DEF Backed
  <2>3. c \in read.reread
    BY <1>1, <2>1, <2>2 DEF RequestRests
  <2>4. QED
    BY <2>1, <2>3, LossIsMaterial
<1> HIDE DEF material
<1>11. EvidenceTypes'
  BY <1>1, <1>3, <1>4, <1>6, <1>7, <1>8, <1>9, <1>10 DEF EvidenceTypes
<1>12. LinksRest'
  <2>1. \A c \in Claims \ Active, t \in Sources, r \in Relations : links'[c][t][r] = NoLink
    BY <1>1, <1>3 DEF LinksRest
  <2>2. \A c \in Claims : claims'[c].status = "absent" => claims'[c].verified = "unverified"
    BY <1>1, <1>2, <1>6 DEF LinksRest, Active
  <2>3. ASSUME NEW c \in Claims, NEW t \in Sources, NEW r \in Relations
        PROVE  /\ sources'[t].status = "absent" => links'[c][t][r] = NoLink
               /\ links'[c][t][r].active =>
                    /\ links'[c][t][r].directness # "none"
                    /\ sources'[t].status = "active" \/ t \in overlapped'
    <3>1. /\ sources[t].status = "absent" => links[c][t][r] = NoLink
          /\ links[c][t][r].active => sources[t].status = "active" \/ t \in overlapped
      BY <1>1 DEF LinksRest
    <3>2. CASE t = s
      BY <1>3, <1>4, <3>2
    <3>3. CASE t # s
      BY <1>3, <1>4, <1>9, <3>1, <3>3
    <3>4. QED
      BY <3>2, <3>3
  <2>4. QED
    BY <1>7, <2>1, <2>2, <2>3 DEF LinksRest
<1>13. ASSUME NEW g \in Handlers PROVE RequestRests(requests[g])'
  <2>1. CASE g = h
    <3>1. requests'[g].op = "idle"
      BY <1>8, <2>1, IdleIs
    <3>2. QED
      BY <3>1 DEF RequestRests
  <2>2. CASE g # h
    <3> DEFINE p == requests[g]
    <3>1. /\ requests'[g] = p /\ p \in Request /\ RequestRests(p)
          /\ (p.op \in {"insert", "archive", "restore"} /\ p.source = {s}
                => s \in overlapped')
      BY <1>1, <1>8, <1>9, <2>2 DEF EvidenceInv, EvidenceTypes
    <3> HIDE DEF p
    <3>2. p.source \subseteq Sources /\ p.found \subseteq LinkKeys
      BY <3>1 DEF Request, LinkKeys
    <3>3. p.op \in {"insert", "archive", "restore"} =>
            \A t \in p.source : /\ sources'[t].status # "absent"
                                /\ t = s => s \in overlapped'
      <4> SUFFICES ASSUME p.op \in {"insert", "archive", "restore"}, NEW t \in p.source
                   PROVE  sources'[t].status # "absent" /\ (t = s => s \in overlapped')
        OBVIOUS
      <4>1. /\ \E u \in Sources : p.source = {u}
            /\ sources[t].status # "absent"
        BY <3>1 DEF RequestRests
      <4>2. t = s => p.source = {s}
        BY <4>1
      <4>3. QED
        BY <1>4, <3>1, <3>2, <4>1, <4>2
    <3>4. p.op = "insert" =>
            \A t \in p.source : sources'[t].status = "active" \/ t \in overlapped'
      <4>1. p.op = "insert" =>
              \A t \in p.source : sources[t].status = "active" \/ t \in overlapped
        BY <3>1 DEF RequestRests
      <4>2. QED
        BY <1>4, <1>9, <3>2, <3>3, <4>1
    <3>5. p.op = "archive" =>
            \A t \in p.source, c \in Active \ p.reread, r \in Relations :
               links'[c][t][r].active => t \in overlapped'
      <4> SUFFICES ASSUME p.op = "archive", NEW t \in p.source,
                          NEW c \in Active \ p.reread, NEW r \in Relations,
                          links'[c][t][r].active
                   PROVE  t \in overlapped'
        OBVIOUS
      <4>1. links[c][t][r].active => t \in overlapped
        BY <3>1 DEF RequestRests
      <4>2. c \in Claims /\ t \in Sources
        BY <3>2 DEF Active
      <4>3. t # s => links'[c][t][r] = links[c][t][r]
        BY <1>3, <4>2
      <4>4. QED
        BY <1>9, <3>3, <4>1, <4>3
    <3>6. p.op = "restore" =>
            \A k \in p.found : /\ k \in LinkKeys /\ k[1] \in p.reread /\ k[2] \in p.source
                               /\ claims'[k[1]].status # "absent"
                               /\ k[1] \in Active => links'[k[1]][k[2]][k[3]].directness # "none"
      <4> SUFFICES ASSUME p.op = "restore", NEW k \in p.found
                   PROVE  /\ k \in LinkKeys /\ k[1] \in p.reread /\ k[2] \in p.source
                          /\ claims'[k[1]].status # "absent"
                          /\ k[1] \in Active => links'[k[1]][k[2]][k[3]].directness # "none"
        OBVIOUS
      <4>1. /\ k \in LinkKeys /\ k[1] \in p.reread /\ k[2] \in p.source
            /\ claims[k[1]].status # "absent"
            /\ k[1] \in Active => links[k[1]][k[2]][k[3]].directness # "none"
        BY <3>1 DEF RequestRests, Linked
      <4>2. k[1] \in Claims /\ k[2] \in Sources /\ k[3] \in Relations
        BY <4>1 DEF LinkKeys
      <4>3. QED
        BY <1>3, <1>6, <4>1, <4>2
    <3>7. /\ p.op \in {"archive", "restore"} =>
               /\ \E t \in Sources : p.source = {t}
               /\ \A c \in Claims \ p.reread : p.before[c] = "unverified"
          /\ p.op = "insert" => \E t \in Sources : p.source = {t}
      BY <3>1 DEF RequestRests
    <3>8. RequestRests(p)'
      BY <1>7, <3>1, <3>3, <3>4, <3>5, <3>6, <3>7 DEF RequestRests, Linked, p
    <3>9. QED
      BY <3>8 DEF p
  <2>3. QED
    BY <2>1, <2>2
<1>14. ASSUME NEW c \in owed' PROVE \E g \in Handlers : Reports(requests[g], c)'
  <2>1. PICK g \in Handlers : Reports(requests[g], c)
    BY <1>10 DEF EvidenceInv
  <2>2. g # h
    BY <1>1, <2>1 DEF Reports
  <2>3. QED
    BY <1>8, <2>1, <2>2 DEF Reports
<1>15. StatusFollowsEvidence'
  <2> SUFFICES ASSUME NEW c \in Active,
                      \A t \in overlapped', r \in Relations : links'[c][t][r] = NoLink
               PROVE  claims'[c].verified = Derive(links', sources', c)
    BY <1>7 DEF StatusFollowsEvidence
  <2>0. c \in Claims
    BY DEF Active
  <2>1. CASE c \in read.reread
    BY <1>6, <2>0, <2>1
  <2>2. CASE c \notin read.reread
    <3>1. \A t \in overlapped, r \in Relations : links[c][t][r] = NoLink
      BY <1>1, <1>3, <1>9, <2>0 DEF EvidenceTypes
    <3>2. \A t \in overlapped, r \in Relations : ~links[c][t][r].active
      BY <3>1 DEF NoLink
    <3>3. \A t \in Sources, r \in Relations :
            /\ links[c][t][r] \in Link
            /\ links[c][t][r].active => sources[t].status = "active"
      BY <1>1, <2>0, <3>2 DEF LinksRest, EvidenceTypes
    <3>4. archived => \A r \in Relations : ~links[c][s][r].active
      BY <1>1, <1>2, <2>2, <3>2 DEF RequestRests
    <3>5. \A t \in Sources, r \in Relations : links'[c][t][r] = links[c][t][r]
      <4>1. CASE archived
        <5>1. \A r \in Relations : links'[c][s][r] = links[c][s][r]
          <6> SUFFICES ASSUME NEW r \in Relations PROVE links'[c][s][r] = links[c][s][r]
            OBVIOUS
          <6>1. /\ links[c][s][r] \in Link /\ links'[c][s][r] \in Link
                /\ links'[c][s][r].directness = links[c][s][r].directness
                /\ ~links'[c][s][r].active /\ ~links[c][s][r].active
            BY <1>3, <2>0, <3>3, <3>4, <4>1
          <6>2. QED
            BY <6>1 DEF Link
        <5>2. QED
          BY <1>3, <2>0, <5>1
      <4>2. CASE ~archived
        BY <1>3, <2>0, <2>2, <4>2
      <4>3. QED
        BY <4>1, <4>2
    <3>6. \A t \in Sources, r \in Relations :
            links[c][t][r].active => (sources'[t].status = "active"
                                        <=> sources[t].status = "active")
      BY <1>4, <3>3, <3>4
    <3>7. Derive(links', sources', c) = Derive(links, sources, c)
      BY <3>5, <3>6, SameWorth
    <3>8. claims[c].verified = Derive(links, sources, c)
      BY <1>1, <3>1 DEF StatusFollowsEvidence
    <3>9. QED
      BY <1>6, <2>0, <2>2, <3>7, <3>8
  <2>3. QED
    BY <2>1, <2>2
<1>16. QED
  BY <1>11, <1>12, <1>13, <1>14, <1>15 DEF EvidenceInv

-------------------------------------------------------------------------------
(* A claim is replaced *)

\* No link leads to the new claim, and none is left of the old one.
LEMMA SupersedeInv ==
  ASSUME EvidenceInv, NEW c \in Claims, NEW d \in Claims, Supersede(c, d)
  PROVE  EvidenceInv'
<1>1. /\ EvidenceTypes /\ LinksRest /\ StatusFollowsEvidence
      /\ c \in Active /\ claims[d].status = "absent" /\ c # d /\ d \notin Active
      /\ UNCHANGED <<sources, requests, overlapped>>
      /\ owed' = owed \ {c}
  BY DEF EvidenceInv, Supersede, Active
<1>2. /\ claims' \in [Claims -> Claim]
      /\ claims'[c].status = "superseded"
      /\ claims'[d].status = "active" /\ claims'[d].verified = "unverified"
      /\ \A e \in Claims \ {c, d} : claims'[e] = claims[e]
  <2>1. claims[d].verified = "unverified" /\ claims[d] \in Claim
    BY <1>1 DEF LinksRest, EvidenceTypes
  <2>2. [status |-> "superseded", verified |-> "unverified"] \in Claim
    BY DEF Claim, Verifications
  <2>3. [claims[d] EXCEPT !.status = "active"] \in Claim
    BY <2>1 DEF Claim
  <2> DEFINE gone == [status |-> "superseded", verified |-> "unverified"]
  <2>4. gone.status = "superseded"
    OBVIOUS
  <2> HIDE DEF gone
  <2>5. claims' = [claims EXCEPT ![c] = gone, ![d].status = "active"]
    BY DEF Supersede, gone
  <2>6. QED
    BY <1>1, <2>1, <2>2, <2>3, <2>4, <2>5 DEF EvidenceTypes, Claim, gone
<1>3. Active' = (Active \ {c}) \cup {d}
  BY <1>1, <1>2 DEF Active
<1>4. /\ links' \in [Claims -> [Sources -> [Relations -> Link]]]
      /\ \A s \in Sources, r \in Relations : links'[c][s][r] = NoLink
      /\ \A e \in Claims, s \in Sources, r \in Relations :
           e # c => links'[e][s][r] = links[e][s][r]
  <2>1. NoLink \in Link
    BY DEF NoLink, Link
  <2> DEFINE none == [s \in Sources |-> [r \in Relations |-> NoLink]]
  <2>2. /\ none \in [Sources -> [Relations -> Link]]
        /\ \A s \in Sources, r \in Relations : none[s][r] = NoLink
    BY <2>1
  <2> HIDE DEF none
  <2>3. links' = [links EXCEPT ![c] = none]
    BY DEF Supersede, none
  <2>4. QED
    BY <1>1, <2>2, <2>3 DEF EvidenceTypes
<1>5. \A s \in Sources, r \in Relations : links[d][s][r] = NoLink
  BY <1>1 DEF LinksRest
<1>6. EvidenceTypes'
  BY <1>1, <1>2, <1>3, <1>4 DEF EvidenceTypes
<1>7. LinksRest'
  <2>1. ASSUME NEW e \in Claims \ Active', NEW s \in Sources, NEW r \in Relations
        PROVE  links'[e][s][r] = NoLink
    <3>1. e = c \/ (e # c /\ e \notin Active)
      BY <1>3
    <3>2. e \notin Active => links[e][s][r] = NoLink
      BY <1>1 DEF LinksRest
    <3>3. QED
      BY <1>4, <3>1, <3>2
  <2>2. \A e \in Claims : claims'[e].status = "absent" => claims'[e].verified = "unverified"
    BY <1>1, <1>2 DEF LinksRest
  <2>3. \A e \in Claims, s \in Sources, r \in Relations :
          /\ sources[s].status = "absent" => links'[e][s][r] = NoLink
          /\ links'[e][s][r].active =>
               /\ links'[e][s][r].directness # "none"
               /\ sources[s].status = "active" \/ s \in overlapped
    <3> SUFFICES ASSUME NEW e \in Claims, NEW s \in Sources, NEW r \in Relations
                 PROVE  /\ sources[s].status = "absent" => links'[e][s][r] = NoLink
                        /\ links'[e][s][r].active =>
                             /\ links'[e][s][r].directness # "none"
                             /\ sources[s].status = "active" \/ s \in overlapped
      OBVIOUS
    <3>1. CASE e = c
      BY <1>4, <3>1 DEF NoLink
    <3>2. CASE e # c
      <4>1. links'[e][s][r] = links[e][s][r]
        BY <1>4, <3>2
      <4>2. /\ sources[s].status = "absent" => links[e][s][r] = NoLink
            /\ links[e][s][r].active =>
                 /\ links[e][s][r].directness # "none"
                 /\ sources[s].status = "active" \/ s \in overlapped
        BY <1>1 DEF LinksRest
      <4>3. QED
        BY <4>1, <4>2
    <3>3. QED
      BY <3>1, <3>2
  <2>4. QED
    BY <1>1, <2>1, <2>2, <2>3 DEF LinksRest
<1>8. ASSUME NEW h \in Handlers PROVE RequestRests(requests[h])'
  <2> DEFINE p == requests[h]
  <2>1. requests'[h] = p /\ p \in Request /\ RequestRests(p)
    BY <1>1 DEF EvidenceInv, EvidenceTypes
  <2> HIDE DEF p
  <2>2. p.source \subseteq Sources
    BY <2>1 DEF Request
  <2>3. p.op = "archive" =>
          \A s \in p.source, e \in Active' \ p.reread, r \in Relations :
             links'[e][s][r].active => s \in overlapped
    <3> SUFFICES ASSUME p.op = "archive", NEW s \in p.source,
                        NEW e \in Active' \ p.reread, NEW r \in Relations,
                        links'[e][s][r].active
                 PROVE  s \in overlapped
      OBVIOUS
    <3>1. CASE e = d
      <4>1. links'[d][s][r] = NoLink
        <5>1. s \in Sources /\ d # c
          BY <1>1, <2>2
        <5>2. links'[d][s][r] = links[d][s][r]
          BY <1>4, <5>1
        <5>3. QED
          BY <1>5, <5>1, <5>2
      <4>2. ~NoLink.active
        BY DEF NoLink
      <4>3. QED
        BY <3>1, <4>1, <4>2
    <3>2. CASE e # d
      <4>1. e \in Active \ p.reread /\ e # c
        BY <1>1, <1>3, <3>2
      <4>2. links'[e][s][r] = links[e][s][r]
        BY <1>4, <2>2, <4>1 DEF Active
      <4>3. QED
        BY <2>1, <4>1, <4>2 DEF RequestRests
    <3>3. QED
      BY <3>1, <3>2
  <2>4. p.op = "restore" =>
          \A k \in p.found : /\ k \in LinkKeys /\ k[1] \in p.reread /\ k[2] \in p.source
                             /\ claims'[k[1]].status # "absent"
                             /\ k[1] \in Active' => links'[k[1]][k[2]][k[3]].directness # "none"
    <3> SUFFICES ASSUME p.op = "restore", NEW k \in p.found
                 PROVE  /\ k \in LinkKeys /\ k[1] \in p.reread /\ k[2] \in p.source
                        /\ claims'[k[1]].status # "absent"
                        /\ k[1] \in Active' => links'[k[1]][k[2]][k[3]].directness # "none"
      OBVIOUS
    <3>1. /\ k \in LinkKeys /\ k[1] \in p.reread /\ k[2] \in p.source
          /\ claims[k[1]].status # "absent"
          /\ k[1] \in Active => links[k[1]][k[2]][k[3]].directness # "none"
      BY <2>1 DEF RequestRests, Linked
    <3>2. k[1] \in Claims /\ k[2] \in Sources /\ k[3] \in Relations /\ k[1] # d
      BY <1>1, <3>1 DEF LinkKeys
    <3>3. claims'[k[1]].status # "absent"
      BY <1>2, <3>1, <3>2
    <3>4. k[1] \in Active' => k[1] \in Active /\ k[1] # c
      BY <1>1, <1>3, <3>2
    <3>5. QED
      BY <1>4, <3>1, <3>2, <3>3, <3>4
  <2>5. RequestRests(p)'
    BY <1>1, <2>1, <2>3, <2>4 DEF RequestRests, Linked, p
  <2>6. QED
    BY <2>5 DEF p
<1>9. \A e \in owed' : \E h \in Handlers : Reports(requests[h], e)'
  BY <1>1 DEF EvidenceInv, Reports
<1>10. StatusFollowsEvidence'
  <2> SUFFICES ASSUME NEW e \in Active',
                      \A s \in overlapped, r \in Relations : links'[e][s][r] = NoLink
               PROVE  claims'[e].verified = Derive(links', sources, e)
    BY <1>1 DEF StatusFollowsEvidence
  <2>1. CASE e = d
    <3>1. \A s \in Sources, r \in Relations : links'[e][s][r] = NoLink
      BY <1>1, <1>4, <1>5, <2>1
    <3>2. Derive(links', sources, e) = "unverified"
      BY <3>1, NoWorth
    <3>3. QED
      BY <1>2, <2>1, <3>2
  <2>2. CASE e # d
    <3>1. e \in Active /\ e # c /\ e \in Claims
      BY <1>1, <1>3, <2>2 DEF Active
    <3>2. \A s \in Sources, r \in Relations : links'[e][s][r] = links[e][s][r]
      BY <1>4, <3>1
    <3>3. \A s \in overlapped, r \in Relations : links[e][s][r] = NoLink
      BY <1>1, <3>2 DEF EvidenceTypes
    <3>4. claims[e].verified = Derive(links, sources, e)
      BY <1>1, <3>1, <3>3 DEF StatusFollowsEvidence
    <3>5. Derive(links', sources, e) = Derive(links, sources, e)
      BY <3>2, SameWorth
    <3>6. QED
      BY <1>2, <2>2, <3>1, <3>4, <3>5
  <2>3. QED
    BY <2>1, <2>2
<1>11. QED
  BY <1>6, <1>7, <1>8, <1>9, <1>10 DEF EvidenceInv

-------------------------------------------------------------------------------
(* The theorems *)

LEMMA EvidenceNextInv == EvidenceInv /\ [Next]_vars => EvidenceInv'
<1> SUFFICES ASSUME EvidenceInv, [Next]_vars PROVE EvidenceInv'
  OBVIOUS
<1>1. CASE UNCHANGED vars
  BY <1>1, StutterInv
<1>2. CASE Crash
  BY <1>2, CrashInv
<1>3. ASSUME NEW s \in Sources, NEW offer \in Offers, AddSource(s, offer)
      PROVE  EvidenceInv'
  BY <1>3, AddInv
<1>4. ASSUME NEW c \in Claims, NEW d \in Claims, Supersede(c, d)
      PROVE  EvidenceInv'
  BY <1>4, SupersedeInv
<1>5. ASSUME NEW h \in Handlers,
             PersistFails(h) \/ ImpactFails(h) \/ AnalysisEnds(h) \/ LifecycleFails(h)
      PROVE  EvidenceInv'
  BY <1>5, EndsInv
<1>6. ASSUME NEW h \in Handlers, NEW s \in Sources,
             ArchiveReads(h, s) \/ RestoreReads(h, s)
      PROVE  EvidenceInv'
  BY <1>6, LifecycleReadsInv
<1>7. ASSUME NEW h \in Handlers, NEW s \in Sources, Archive(h, s)
      PROVE  EvidenceInv'
  BY <1>7, WritesInv DEF Archive
<1>8. ASSUME NEW h \in Handlers, NEW s \in Sources, Restore(h, s)
      PROVE  EvidenceInv'
  BY <1>8, WritesInv DEF Restore
<1>9. ASSUME NEW h \in Handlers, NEW c \in Claims, AnalyseReads(h, c) \/ Retrieve(h, c)
      PROVE  EvidenceInv'
  BY <1>9, AnalysisInv
<1>10. ASSUME NEW h \in Handlers, NEW c \in Claims, ResolveImpact(h, c)
       PROVE  EvidenceInv'
  BY <1>10, ImpactInv
<1>11. ASSUME NEW h \in Handlers, NEW c \in Claims, NEW s \in Sources,
              PersistRelation(h, c, s)
       PROVE  EvidenceInv'
  BY <1>11, PersistInv
<1>12. ASSUME NEW h \in Handlers, NEW c \in Claims, NEW s \in Sources,
              NEW answer \in Answers, ValidateRelation(h, c, s, answer)
       PROVE  EvidenceInv'
  BY <1>12, ValidateInv
<1>13. QED
  BY <1>1, <1>2, <1>3, <1>4, <1>5, <1>6, <1>7, <1>8, <1>9, <1>10, <1>11, <1>12 DEF Next

LEMMA EvidenceInvAlways == Spec => []EvidenceInv
BY EvidenceInitInv, EvidenceNextInv, PTL DEF Spec

(* Whatever analyses, archives, restores, replacements and crashes interleave, the
   status of a claim is the one its evidence gives, as long as no source it is linked
   to was archived or restored under another request (sources.py, source_guidance.py,
   project_claims.py). *)
THEOREM StatusFollows == Spec => []StatusFollowsEvidence
BY EvidenceInvAlways, EvidenceInvImplies, PTL

(* Who takes a claim's support away marks the snapshot at once, or has the report of it
   as its next step (source_guidance.py, project_claims.py, impact.py). *)
THEOREM LossesAreReported == Spec => []LossIsReported
BY EvidenceInvAlways, EvidenceInvImplies, PTL

-------------------------------------------------------------------------------
(* What a status rests on *)

(* A source bears only on claims its type is admissible for: whatever a handler has read,
   and whatever has become of the source since, a simulated interview, the output of a model
   or the user's own words are linked to no claim (project_claims.py, ADMISSIBILITY). *)
OnlyAdmissibleBears ==
    \A c \in Claims, s \in Sources, r \in Relations :
        links[c][s][r] # NoLink => /\ sources[s].status # "absent"
                                   /\ Admissible(s, c)

\* An active source of an admissible type says so of the claim.
Bears(s, c, relation, kinds) ==
    s \in Counted(links, sources, c, relation, kinds) /\ Admissible(s, c)

\* No request overlapped another on a source the claim is linked to.
Undisturbed(c) == \A s \in overlapped, r \in Relations : links[c][s][r] = NoLink

(* What a status promises its reader: "supported" is two different admissible sources that
   are active and say so directly, with none that contradicts; "limited_support" is at
   least one; "contradicted" and "conflict" are a direct contradiction by a source of that
   kind; unless requests overlapped on a source the claim is linked to
   (recompute_status_tx in project_claims.py). *)
StatusHasItsEvidence ==
    \A c \in Active : Undisturbed(c) =>
        /\ claims[c].verified = "supported" =>
             /\ \E s, t \in Sources : /\ s # t
                                      /\ Bears(s, c, "supports", {"direct"})
                                      /\ Bears(t, c, "supports", {"direct"})
             /\ \A s \in Sources : ~Bears(s, c, "contradicts", {"direct"})
        /\ claims[c].verified = "limited_support" =>
             \E s \in Sources : Bears(s, c, "supports", Directness)
        /\ claims[c].verified \in {"contradicted", "conflict"} =>
             \E s \in Sources : Bears(s, c, "contradicts", {"direct"})

\* Links, and what a handler is about to link.
AdmissibleInv ==
    /\ \A c \in Claims, s \in Sources, r \in Relations :
         links[c][s][r].directness # "none" => Admissible(s, c)
    /\ \A h \in Handlers : requests[h].op = "insert" =>
         \A c \in requests[h].claim, s \in requests[h].source : Admissible(s, c)
    /\ health \in {"current", "needs_review", "stale_evidence"}

\* A source that is there keeps its type, whatever is done with it.
LEMMA TypesStay ==
  ASSUME EvidenceInv, [Next]_vars, NEW s \in Sources, sources[s].status # "absent"
  PROVE  sources'[s].type = sources[s].type /\ sources'[s].status # "absent"
<1>1. sources \in [Sources -> Source]
  BY DEF EvidenceInv, EvidenceTypes
<1>2. ASSUME NEW t \in Sources, NEW offer \in Offers, AddSource(t, offer)
      PROVE  sources'[s] = sources[s]
  BY <1>1, <1>2 DEF AddSource
<1>3. ASSUME NEW h \in Handlers, NEW t \in Sources, NEW archived \in BOOLEAN,
             LifecycleWrites(h, t, archived)
      PROVE  sources'[s].type = sources[s].type /\ sources'[s].status # "absent"
  BY <1>1, <1>3 DEF LifecycleWrites, Source
<1>4. CASE UNCHANGED sources
  BY <1>4
<1>5. ASSUME NEW h \in Handlers, NEW t \in Sources,
             Archive(h, t) \/ Restore(h, t)
      PROVE  sources'[s].type = sources[s].type /\ sources'[s].status # "absent"
  BY <1>3, <1>5 DEF Archive, Restore
<1>6. ASSUME NEW h \in Handlers,
             \/ PersistFails(h) \/ ImpactFails(h) \/ AnalysisEnds(h) \/ LifecycleFails(h)
             \/ \E t \in Sources : ArchiveReads(h, t) \/ RestoreReads(h, t)
      PROVE  UNCHANGED sources
  BY <1>6 DEF PersistFails, ImpactFails, AnalysisEnds, LifecycleFails, ArchiveReads,
     RestoreReads
<1>7. ASSUME NEW h \in Handlers, NEW c \in Claims,
             \/ AnalyseReads(h, c) \/ Retrieve(h, c) \/ ResolveImpact(h, c)
             \/ \E t \in Sources :
                  \/ PersistRelation(h, c, t)
                  \/ \E answer \in Answers : ValidateRelation(h, c, t, answer)
      PROVE  UNCHANGED sources
  BY <1>7 DEF AnalyseReads, Retrieve, ResolveImpact, PersistRelation, ValidateRelation
<1>8. CASE UNCHANGED vars
  BY <1>4, <1>8 DEF vars
<1>9. CASE Crash \/ \E c, d \in Claims : Supersede(c, d)
  BY <1>4, <1>9 DEF Crash, Supersede
<1>10. QED
  BY <1>2, <1>4, <1>5, <1>6, <1>7, <1>8, <1>9 DEF Next

\* A link that is there has a source that is.
LEMMA LinkedIsThere ==
  ASSUME EvidenceInv, NEW c \in Claims, NEW s \in Sources, NEW r \in Relations,
         links[c][s][r].directness # "none"
  PROVE  sources[s].status # "absent"
BY DEF EvidenceInv, LinksRest, NoLink

\* Handlers whose request is not "insert" after the step, or is as before.
LEMMA RequestsStayAdmissible ==
  ASSUME EvidenceInv, AdmissibleInv, [Next]_vars, NEW h \in Handlers, NEW q \in Request,
         requests' = [requests EXCEPT ![h] = q],
         q.op = "insert" => \A c \in q.claim, s \in q.source :
                              /\ s \in Sources /\ sources[s].status # "absent"
                              /\ Admissible(s, c)
  PROVE  \A g \in Handlers : requests'[g].op = "insert" =>
           \A c \in requests'[g].claim, s \in requests'[g].source : Admissible(s, c)'
<1> SUFFICES ASSUME NEW g \in Handlers, requests'[g].op = "insert",
                    NEW c \in requests'[g].claim, NEW s \in requests'[g].source
             PROVE  Admissible(s, c)'
  OBVIOUS
<1>1. EvidenceTypes /\ requests[g] \in Request /\ RequestRests(requests[g])
  BY DEF EvidenceInv, EvidenceTypes
<1>2. s \in Sources /\ sources[s].status # "absent" /\ Admissible(s, c)
  <2>1. CASE g = h
    BY <1>1, <2>1, RequestIs
  <2>2. CASE g # h
    <3>1. requests'[g] = requests[g]
      BY <1>1, <2>2, RequestIs
    <3>2. QED
      BY <1>1, <3>1 DEF AdmissibleInv, RequestRests, Request
  <2>3. QED
    BY <2>1, <2>2
<1>3. sources'[s].type = sources[s].type
  BY <1>2, TypesStay
<1>4. QED
  BY <1>2, <1>3 DEF Admissible

LEMMA AdmissibleInitInv == Init => AdmissibleInv
BY DEF Init, AdmissibleInv, NoLink, Idle

\* Links that are made or kept: their sources keep their types.
LEMMA LinksStayAdmissible ==
  ASSUME EvidenceInv, AdmissibleInv, [Next]_vars,
         \A c \in Claims, s \in Sources, r \in Relations :
            links'[c][s][r].directness # "none" =>
              \/ links[c][s][r].directness # "none"
              \/ sources[s].status # "absent" /\ Admissible(s, c)
  PROVE  \A c \in Claims, s \in Sources, r \in Relations :
            links'[c][s][r].directness # "none" => Admissible(s, c)'
<1> SUFFICES ASSUME NEW c \in Claims, NEW s \in Sources, NEW r \in Relations,
                    links'[c][s][r].directness # "none"
             PROVE  Admissible(s, c)'
  OBVIOUS
<1>1. sources[s].status # "absent" /\ Admissible(s, c)
  BY LinkedIsThere DEF AdmissibleInv
<1>2. sources'[s].type = sources[s].type
  BY <1>1, TypesStay
<1>3. QED
  BY <1>1, <1>2 DEF Admissible

LEMMA AdmissibleNextInv ==
  EvidenceInv /\ AdmissibleInv /\ [Next]_vars => AdmissibleInv'
<1> SUFFICES ASSUME EvidenceInv, AdmissibleInv, [Next]_vars PROVE AdmissibleInv'
  OBVIOUS
<1> DEFINE RequestsOK == \A g \in Handlers : requests'[g].op = "insert" =>
              \A c \in requests'[g].claim, s \in requests'[g].source : Admissible(s, c)'
           LinksOK == \A c \in Claims, s \in Sources, r \in Relations :
                         links'[c][s][r].directness # "none" => Admissible(s, c)'
           HealthOK == health' \in {"current", "needs_review", "stale_evidence"}
<1>0. /\ EvidenceTypes
      /\ RequestsOK /\ LinksOK /\ HealthOK => AdmissibleInv'
      /\ UNCHANGED health => HealthOK
      /\ UNCHANGED links => LinksOK
  <2>1. EvidenceTypes
    BY DEF EvidenceInv
  <2>2. RequestsOK /\ LinksOK /\ HealthOK => AdmissibleInv'
    BY DEF AdmissibleInv
  <2>3. UNCHANGED health => HealthOK
    BY DEF AdmissibleInv
  <2>4. UNCHANGED links => LinksOK
    BY LinksStayAdmissible
  <2>5. QED
    BY <2>1, <2>2, <2>3, <2>4
\* A request that goes on, or ends, and is not about to link anything.
<1>1. ASSUME NEW h \in Handlers, NEW q \in Request,
             requests' = [requests EXCEPT ![h] = q], q.op # "insert"
      PROVE  RequestsOK
  BY <1>1, RequestsStayAdmissible
<1>2. ASSUME UNCHANGED requests
      PROVE  RequestsOK
  <2>1. ASSUME NEW g \in Handlers, requests[g].op = "insert",
               NEW c \in requests[g].claim, NEW s \in requests[g].source
        PROVE  Admissible(s, c)'
    <3>1. s \in Sources /\ sources[s].status # "absent" /\ Admissible(s, c)
      BY <1>0, <2>1 DEF EvidenceInv, RequestRests, AdmissibleInv, EvidenceTypes, Request
    <3>2. sources'[s].type = sources[s].type
      BY <3>1, TypesStay
    <3>3. QED
      BY <3>1, <3>2 DEF Admissible
  <2>2. QED
    BY <1>2, <2>1
<1>3. CASE UNCHANGED vars
  BY <1>0, <1>2, <1>3 DEF vars
<1>4. CASE Crash
  <2>1. RequestsOK
    BY <1>4, IdleIs DEF Crash
  <2>2. QED
    BY <1>0, <1>4, <2>1 DEF Crash
<1>5. ASSUME NEW s \in Sources, NEW offer \in Offers, AddSource(s, offer)
      PROVE  AdmissibleInv'
  BY <1>0, <1>2, <1>5 DEF AddSource
<1>6. ASSUME NEW c \in Claims, NEW d \in Claims, Supersede(c, d)
      PROVE  AdmissibleInv'
  <2> DEFINE none == [s \in Sources |-> [r \in Relations |-> NoLink]]
  <2>1. \A s \in Sources, r \in Relations : none[s][r].directness = "none"
    BY DEF NoLink
  <2> HIDE DEF none
  <2>2. links' = [links EXCEPT ![c] = none]
    BY <1>6 DEF Supersede, none
  <2>3. LinksOK
    <3> HIDE DEF LinksOK
    <3>1. \A e \in Claims, s \in Sources, r \in Relations :
            links'[e][s][r].directness # "none" => links[e][s][r].directness # "none"
      BY <1>0, <2>1, <2>2 DEF EvidenceTypes
    <3>2. QED
      BY <3>1, LinksStayAdmissible DEF LinksOK
  <2>4. HealthOK /\ UNCHANGED requests
    BY <1>6 DEF Supersede
  <2>5. QED
    BY <1>0, <1>2, <2>3, <2>4
<1>7. ASSUME NEW h \in Handlers,
             PersistFails(h) \/ ImpactFails(h) \/ AnalysisEnds(h) \/ LifecycleFails(h)
      PROVE  AdmissibleInv'
  <2>1. /\ requests' = [requests EXCEPT ![h] = Idle]
        /\ UNCHANGED <<links, health>>
    BY <1>7 DEF PersistFails, ImpactFails, AnalysisEnds, LifecycleFails
  <2>2. QED
    BY <1>0, <1>1, <2>1, IdleIs
<1>8. ASSUME NEW h \in Handlers, NEW s \in Sources, ArchiveReads(h, s) \/ RestoreReads(h, s)
      PROVE  AdmissibleInv'
  <2>1. /\ \E q : requests' = [requests EXCEPT ![h] = q] /\ q.op # "insert"
        /\ UNCHANGED <<links, health>>
    <3>1. CASE ArchiveReads(h, s)
      <4> DEFINE reread == Affected(s)
                 before == Statuses(reread)
                 q == [Idle EXCEPT !.op = "archive", !.source = {s}, !.reread = reread,
                                   !.before = before]
      <4>1. requests' = [requests EXCEPT ![h] = q] /\ UNCHANGED <<links, health>>
        BY <3>1 DEF ArchiveReads
      <4> HIDE DEF reread, before
      <4>2. q.op = "archive"
        BY DEF Idle
      <4> HIDE DEF q
      <4>3. QED
        BY <4>1, <4>2
    <3>2. CASE RestoreReads(h, s)
      <4> DEFINE found == Inactive(s)
                 reread == {k[1] : k \in found}
                 before == Statuses(reread)
                 q == [Idle EXCEPT !.op = "restore", !.source = {s}, !.found = found,
                                   !.reread = reread, !.before = before]
      <4>1. requests' = [requests EXCEPT ![h] = q] /\ UNCHANGED <<links, health>>
        BY <3>2 DEF RestoreReads
      <4> HIDE DEF found, reread, before
      <4>2. q.op = "restore"
        BY DEF Idle
      <4> HIDE DEF q
      <4>3. QED
        BY <4>1, <4>2
    <3>3. QED
      BY <1>8, <3>1, <3>2
  <2>2. PICK q : requests' = [requests EXCEPT ![h] = q] /\ q.op # "insert"
    BY <2>1
  <2>3. requests' \in [Handlers -> Request] /\ requests'[h] = q
    BY <1>0, <1>8, <2>2, LifecycleReadsInv DEF EvidenceInv, EvidenceTypes
  <2>4. q \in Request
    BY <2>3
  <2>5. QED
    BY <1>0, <1>1, <2>1, <2>2, <2>4
<1>9. ASSUME NEW h \in Handlers, NEW s \in Sources, NEW archived \in BOOLEAN,
             requests[h].op = IF archived THEN "archive" ELSE "restore",
             LifecycleWrites(h, s, archived)
      PROVE  AdmissibleInv'
  <2>1. LinksOK
    <3> HIDE DEF LinksOK
    <3>1. \A c \in Claims, t \in Sources, r \in Relations :
            links'[c][t][r].directness = links[c][t][r].directness
      BY <1>9, LinksChange
    <3>2. QED
      BY <3>1, LinksStayAdmissible DEF LinksOK
  <2>2. requests' = [requests EXCEPT ![h] = Idle]
    BY <1>9 DEF LifecycleWrites
  <2>3. HealthOK
    BY <1>0, <1>9 DEF LifecycleWrites, HealthFor
  <2>4. QED
    BY <1>0, <1>1, <2>1, <2>2, <2>3, IdleIs
<1>10. ASSUME NEW h \in Handlers, NEW c \in Claims,
              AnalyseReads(h, c) \/ Retrieve(h, c) \/ ResolveImpact(h, c)
       PROVE  AdmissibleInv'
  <2>1. \E q : requests' = [requests EXCEPT ![h] = q] /\ q.op # "insert"
    <3>1. CASE AnalyseReads(h, c)
      <4> DEFINE before == Statuses({c})
                 q == [Idle EXCEPT !.op = "listed", !.claim = {c}, !.before = before]
      <4>1. requests' = [requests EXCEPT ![h] = q]
        BY <3>1 DEF AnalyseReads
      <4> HIDE DEF before
      <4>2. q.op = "listed"
        BY DEF Idle
      <4> HIDE DEF q
      <4>3. QED
        BY <4>1, <4>2
    <3>2. CASE Retrieve(h, c)
      <4> DEFINE chunks == {s \in Sources : sources[s].status = "active" /\ Admissible(s, c)}
                 q == [requests[h] EXCEPT !.op = "retrieved", !.chunks = chunks]
      <4>1. requests' = [requests EXCEPT ![h] = q] /\ requests[h] \in Request
        BY <1>0, <3>2 DEF Retrieve, EvidenceTypes
      <4> HIDE DEF chunks
      <4>2. q.op = "retrieved"
        BY <4>1 DEF Request
      <4>3. QED
        BY <4>1, <4>2
    <3>3. CASE ResolveImpact(h, c)
      <4> DEFINE before == [requests[h].before EXCEPT ![c] = requests[h].after]
                 q == [requests[h] EXCEPT !.op = "retrieved", !.before = before,
                                          !.after = Idle.after]
      <4>1. requests' = [requests EXCEPT ![h] = q] /\ requests[h] \in Request
        BY <1>0, <3>3 DEF ResolveImpact, EvidenceTypes
      <4> HIDE DEF before
      <4>2. q.op = "retrieved"
        BY <4>1 DEF Request
      <4>3. QED
        BY <4>1, <4>2
    <3>4. QED
      BY <1>10, <3>1, <3>2, <3>3
  <2>2. PICK q : requests' = [requests EXCEPT ![h] = q] /\ q.op # "insert"
    BY <2>1
  <2>3. requests' \in [Handlers -> Request]
    <3>1. EvidenceInv'
      BY <1>10, AnalysisInv, ImpactInv
    <3>2. QED
      BY <3>1 DEF EvidenceInv, EvidenceTypes
  <2>4. q \in Request
    BY <1>0, <2>2, <2>3 DEF EvidenceTypes
  <2>5. RequestsOK
    BY <1>1, <2>2, <2>4
  <2>6. UNCHANGED links /\ HealthOK
    BY <1>0, <1>10 DEF AnalyseReads, Retrieve, ResolveImpact
  <2>7. QED
    BY <1>0, <2>5, <2>6
<1>11. ASSUME NEW h \in Handlers, NEW c \in Claims, NEW s \in Sources,
              NEW answer \in Answers, ValidateRelation(h, c, s, answer)
       PROVE  AdmissibleInv'
  <2> DEFINE q == [requests[h] EXCEPT !.op = "insert", !.source = {s}, !.answer = answer]
  <2>1. /\ requests[h] \in Request /\ answer \in Answer /\ requests[h].claim = {c}
        /\ sources[s].status = "active" /\ Admissible(s, c)
        /\ UNCHANGED <<links, health>>
    BY <1>0, <1>11, InputsAssumption DEF EvidenceTypes, ValidateRelation, Valid
  <2>2. requests' = [requests EXCEPT ![h] = q]
    BY <1>0, <1>11, <2>1 DEF ValidateRelation, EvidenceTypes
  <2>3. q \in Request /\ q.claim = {c} /\ q.source = {s}
    BY <2>1 DEF Request, Ops
  <2> HIDE DEF q
  <2>4. RequestsOK
    BY <2>1, <2>2, <2>3, RequestsStayAdmissible
  <2>5. QED
    BY <1>0, <2>1, <2>4
<1>12. ASSUME NEW h \in Handlers, NEW c \in Claims, NEW s \in Sources,
              PersistRelation(h, c, s)
       PROVE  AdmissibleInv'
  <2> DEFINE rel == requests[h].answer.relation
             new == [directness |-> requests[h].answer.directness, active |-> TRUE]
  <2>1. /\ requests[h] \in Request /\ RequestRests(requests[h])
        /\ requests[h].op = "insert" /\ requests[h].claim = {c}
        /\ requests[h].source = {s} /\ UNCHANGED health
    BY <1>0, <1>12 DEF PersistRelation, EvidenceInv, EvidenceTypes
  <2>2. sources[s].status # "absent" /\ Admissible(s, c)
    BY <2>1 DEF RequestRests, AdmissibleInv
  <2>3. links' = [links EXCEPT ![c][s][rel] = new]
    BY <1>12 DEF PersistRelation, Upsert
  <2> HIDE DEF rel, new
  <2>4. \A d \in Claims, t \in Sources, r \in Relations :
           (d # c \/ t # s) => links'[d][t][r] = links[d][t][r]
    BY <1>0, <2>3 DEF EvidenceTypes
  <2>5. LinksOK
    <3> HIDE DEF LinksOK
    <3>1. \A d \in Claims, t \in Sources, r \in Relations :
            links'[d][t][r].directness # "none" =>
              \/ links[d][t][r].directness # "none"
              \/ sources[t].status # "absent" /\ Admissible(t, d)
      BY <2>2, <2>4
    <3>2. QED
      BY <3>1, LinksStayAdmissible DEF LinksOK
  <2>6. requests' \in [Handlers -> Request]
    <3>1. EvidenceInv'
      BY <1>12, PersistInv
    <3>2. QED
      BY <3>1 DEF EvidenceInv, EvidenceTypes
  <2>7. /\ \A g \in Handlers : g # h => requests'[g] = requests[g]
        /\ requests'[h].op # "insert"
    BY <1>0, <1>12 DEF PersistRelation, EvidenceTypes, Request
  <2>8. requests' = [requests EXCEPT ![h] = requests'[h]] /\ requests'[h] \in Request
    BY <1>0, <2>6, <2>7 DEF EvidenceTypes
  <2>9. RequestsOK
    BY <1>1, <2>7, <2>8
  <2>10. QED
    BY <1>0, <2>1, <2>5, <2>9
<1>13. ASSUME NEW h \in Handlers, NEW s \in Sources, Archive(h, s) \/ Restore(h, s)
       PROVE  AdmissibleInv'
  BY <1>9, <1>13 DEF Archive, Restore
<1> HIDE DEF RequestsOK, LinksOK, HealthOK
<1>14. QED
  BY <1>3, <1>4, <1>5, <1>6, <1>7, <1>8, <1>10, <1>11, <1>12, <1>13 DEF Next

LEMMA AdmissibleInvAlways == Spec => [](EvidenceInv /\ AdmissibleInv)
<1>1. Init => EvidenceInv /\ AdmissibleInv
  BY EvidenceInitInv, AdmissibleInitInv
<1>2. (EvidenceInv /\ AdmissibleInv) /\ [Next]_vars => (EvidenceInv /\ AdmissibleInv)'
  BY EvidenceNextInv, AdmissibleNextInv
<1>3. QED
  BY <1>1, <1>2, PTL DEF Spec

\* Rows of links that were made, and sources that count.
LEMMA AdmissibleImplies == EvidenceInv /\ AdmissibleInv => OnlyAdmissibleBears
<1> SUFFICES ASSUME EvidenceInv, AdmissibleInv, NEW c \in Claims, NEW s \in Sources,
                    NEW r \in Relations, links[c][s][r] # NoLink
             PROVE  sources[s].status # "absent" /\ Admissible(s, c)
  BY DEF OnlyAdmissibleBears
<1>1. /\ links[c][s][r] \in Link
      /\ links[c][s][r].active => links[c][s][r].directness # "none"
  BY DEF EvidenceInv, EvidenceTypes, LinksRest
<1>2. links[c][s][r].directness # "none"
  BY <1>1, NoLinkIs
<1>3. QED
  BY <1>2, LinkedIsThere DEF AdmissibleInv

LEMMA TwoElements ==
  ASSUME NEW S, Cardinality(S) >= 2
  PROVE  \E s, t \in S : s # t
<1> SUFFICES ASSUME \A s, t \in S : s = t PROVE FALSE
  OBVIOUS
<1>1. CASE S = {}
  BY <1>1, FS_EmptySet
<1>2. CASE S # {}
  <2>1. PICK s \in S : TRUE
    BY <1>2
  <2>2. S = {s}
    BY <2>1
  <2>3. Cardinality({s}) = 1
    BY FS_Singleton
  <2>4. QED
    BY <2>2, <2>3
<1>3. QED
  BY <1>1, <1>2

\* What Derive has found when it says so.
LEMMA WorthMeans ==
  ASSUME NEW ls, NEW ss, NEW c
  PROVE  LET for     == Counted(ls, ss, c, "supports", {"direct"})
             any     == Counted(ls, ss, c, "supports", Directness)
             against == Counted(ls, ss, c, "contradicts", {"direct"}) IN
         /\ Derive(ls, ss, c) = "supported" =>
              against = {} /\ \E s, t \in for : s # t
         /\ Derive(ls, ss, c) = "limited_support" => any # {}
         /\ Derive(ls, ss, c) \in {"contradicted", "conflict"} => against # {}
<1> DEFINE for     == Counted(ls, ss, c, "supports", {"direct"})
           any     == Counted(ls, ss, c, "supports", Directness)
           against == Counted(ls, ss, c, "contradicts", {"direct"})
           before  == {s \in Sources : /\ ls[c][s]["supports"].directness # "none"
                                       /\ ~ls[c][s]["supports"].active}
<1>1. Derive(ls, ss, c) =
        CASE \E s \in for, t \in against : s # t               -> "conflict"
          [] against # {} /\ for = {}                          -> "contradicted"
          [] against = {} /\ Cardinality(for) >= 2             -> "supported"
          [] against = {} /\ any # {} /\ Cardinality(for) < 2  -> "limited_support"
          [] against = {} /\ any = {} /\ before # {}           -> "stale"
          [] OTHER                                             -> "unverified"
  BY DEF Derive
<1> HIDE DEF for, any, against, before
<1>2. /\ Derive(ls, ss, c) = "supported" => against = {} /\ Cardinality(for) >= 2
      /\ Derive(ls, ss, c) = "limited_support" => any # {}
      /\ Derive(ls, ss, c) \in {"contradicted", "conflict"} => against # {}
  BY <1>1
<1>3. QED
  BY <1>2, TwoElements DEF for, any, against

LEMMA StatusEvidence ==
  EvidenceInv /\ OnlyAdmissibleBears => StatusHasItsEvidence
<1> SUFFICES ASSUME EvidenceInv, OnlyAdmissibleBears, NEW c \in Active, Undisturbed(c)
             PROVE  /\ claims[c].verified = "supported" =>
                         /\ \E s, t \in Sources : /\ s # t
                                                  /\ Bears(s, c, "supports", {"direct"})
                                                  /\ Bears(t, c, "supports", {"direct"})
                         /\ \A s \in Sources : ~Bears(s, c, "contradicts", {"direct"})
                    /\ claims[c].verified = "limited_support" =>
                         \E s \in Sources : Bears(s, c, "supports", Directness)
                    /\ claims[c].verified \in {"contradicted", "conflict"} =>
                         \E s \in Sources : Bears(s, c, "contradicts", {"direct"})
  BY DEF StatusHasItsEvidence
<1> DEFINE for     == Counted(links, sources, c, "supports", {"direct"})
           any     == Counted(links, sources, c, "supports", Directness)
           against == Counted(links, sources, c, "contradicts", {"direct"})
<1>1. claims[c].verified = Derive(links, sources, c)
  BY DEF EvidenceInv, StatusFollowsEvidence, Undisturbed
<1>2. /\ claims[c].verified = "supported" => against = {} /\ \E s, t \in for : s # t
      /\ claims[c].verified = "limited_support" => any # {}
      /\ claims[c].verified \in {"contradicted", "conflict"} => against # {}
  BY <1>1, WorthMeans
<1>3. \A relation \in {"supports", "contradicts"} : \A kinds :
         \A s \in Counted(links, sources, c, relation, kinds) :
            s \in Sources /\ Bears(s, c, relation, kinds)
  <2> SUFFICES ASSUME NEW relation \in {"supports", "contradicts"}, NEW kinds,
                      NEW s \in Counted(links, sources, c, relation, kinds)
               PROVE  s \in Sources /\ Admissible(s, c)
    BY DEF Bears
  <2>1. s \in Sources /\ links[c][s][relation].active /\ relation \in Relations
    BY DEF Counted, Relations
  <2>2. links[c][s][relation] # NoLink
    BY <2>1 DEF NoLink
  <2>3. QED
    BY <2>1, <2>2 DEF OnlyAdmissibleBears, Active
<1>4. \A s \in Sources : Bears(s, c, "contradicts", {"direct"}) => s \in against
  BY DEF Bears
<1> HIDE DEF for, any, against
<1>5. /\ \A s \in for : s \in Sources /\ Bears(s, c, "supports", {"direct"})
      /\ \A s \in any : s \in Sources /\ Bears(s, c, "supports", Directness)
      /\ \A s \in against : s \in Sources /\ Bears(s, c, "contradicts", {"direct"})
  BY <1>3 DEF for, any, against
<1>6. QED
  BY <1>2, <1>4, <1>5

(* Simulated interviews, model output and the user's own words bear on no claim, whatever
   interleaves; what is admitted is checked when the relation is validated, in a transaction
   before the one that stores it (_validate_relation_tx in project_claims.py). *)
THEOREM EvidenceIsAdmissible == Spec => []OnlyAdmissibleBears
BY AdmissibleInvAlways, AdmissibleImplies, PTL

(* A claim that reads "supported" has two different sources that say so, active and of an
   admissible type, and none against it; and so for the other statuses, wherever requests
   have not overlapped on a source of the claim (recompute_status_tx in
   project_claims.py). *)
THEOREM StatusesHaveEvidence == Spec => []StatusHasItsEvidence
BY AdmissibleInvAlways, AdmissibleImplies, StatusEvidence, PTL

(* Every reachable state of the evidence model is well typed. *)
THEOREM TypeCorrect == Spec => []TypeOK
<1>1. EvidenceInv /\ AdmissibleInv => TypeOK
  BY DEF EvidenceInv, EvidenceTypes, AdmissibleInv, TypeOK, Active
<1>2. QED
  BY <1>1, AdmissibleInvAlways, PTL

-------------------------------------------------------------------------------
(* One request at a time *)

NothingOverlaps == overlapped = {}

\* Only another handler's write overlaps.
LEMMA NothingOverlapsNext ==
  ASSUME \A g, h \in Handlers : g = h
  PROVE  NothingOverlaps /\ [Next]_vars => NothingOverlaps'
<1> SUFFICES ASSUME overlapped = {}, [Next]_vars PROVE overlapped' = {}
  BY DEF NothingOverlaps
<1>1. ASSUME NEW h \in Handlers, NEW s \in Sources, NEW ops
      PROVE  Overlapped(h, s, ops) = {}
  BY DEF Overlapped
<1>2. ASSUME NEW h \in Handlers, NEW s \in Sources, Archive(h, s) \/ Restore(h, s)
      PROVE  overlapped' = {}
  BY <1>1, <1>2 DEF Archive, Restore, LifecycleWrites
<1>3. ASSUME NEW h \in Handlers, NEW c \in Claims, NEW s \in Sources,
             PersistRelation(h, c, s)
      PROVE  overlapped' = {}
  BY <1>1, <1>3 DEF PersistRelation
<1>4. ASSUME NEW h \in Handlers,
             \/ PersistFails(h) \/ ImpactFails(h) \/ AnalysisEnds(h) \/ LifecycleFails(h)
             \/ \E t \in Sources : ArchiveReads(h, t) \/ RestoreReads(h, t)
      PROVE  UNCHANGED overlapped
  BY <1>4 DEF PersistFails, ImpactFails, AnalysisEnds, LifecycleFails, ArchiveReads,
     RestoreReads
<1>5. ASSUME NEW h \in Handlers, NEW c \in Claims,
             \/ AnalyseReads(h, c) \/ Retrieve(h, c) \/ ResolveImpact(h, c)
             \/ \E t \in Sources, answer \in Answers : ValidateRelation(h, c, t, answer)
      PROVE  UNCHANGED overlapped
  BY <1>5 DEF AnalyseReads, Retrieve, ResolveImpact, ValidateRelation
<1>6. ASSUME \/ UNCHANGED vars \/ Crash
             \/ \E s \in Sources, offer \in Offers : AddSource(s, offer)
             \/ \E c, d \in Claims : Supersede(c, d)
      PROVE  UNCHANGED overlapped
  BY <1>6 DEF vars, Crash, AddSource, Supersede
<1>7. QED
  BY <1>2, <1>3, <1>4, <1>5, <1>6 DEF Next

(* What the exemption of StatusFollowsEvidence is worth: if requests come one at a time
   (one thread serves them), the status of every claim in force is the one its evidence
   gives, in every reachable state, crashes and replaced claims included
   (recompute_status_tx in project_claims.py). *)
THEOREM OneAtATimeStatusFollows ==
  ASSUME \A g, h \in Handlers : g = h
  PROVE  Spec => [](\A c \in Active : claims[c].verified = Derive(links, sources, c))
<1>1. Init => NothingOverlaps
  BY DEF Init, NothingOverlaps
<1>2. NothingOverlaps /\ [Next]_vars => NothingOverlaps'
  BY NothingOverlapsNext
<1>3. EvidenceInv /\ NothingOverlaps =>
        \A c \in Active : claims[c].verified = Derive(links, sources, c)
  BY DEF EvidenceInv, StatusFollowsEvidence, NothingOverlaps
<1>4. QED
  BY <1>1, <1>2, <1>3, EvidenceInvAlways, PTL DEF Spec

================================================================================
