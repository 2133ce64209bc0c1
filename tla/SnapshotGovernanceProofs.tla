------------------------ MODULE SnapshotGovernanceProofs ------------------------
(***************************************************************************)
(* Proofs about SnapshotGovernance, for every finite set of claims, every  *)
(* set of handlers and every bound.                                        *)
(***************************************************************************)
EXTENDS SnapshotGovernance, FiniteSetTheorems, TLAPS

-------------------------------------------------------------------------------
(* The inductive invariant *)

\* What a handler remembers exists, and while an acceptance may still succeed the
\* claims it replaces are in force.
ValidRequest(r) ==
    /\ r.op \in {"accept", "decide"} => r.proposal \in DOMAIN proposals
    /\ r.op = "decide" => r.decision # "none"
    /\ r.op \in {"reconfirm", "restore health", "impact", "suggest"} =>
         r.base \in DOMAIN snapshots
    /\ (r.op = "accept" /\ proposals[r.proposal].from = current) =>
         proposals[r.proposal].replaces \subseteq Active

RequestsRead == \A h \in Handlers : ValidRequest(requests[h])

\* Proposals are computed against snapshots that exist, and each snapshot comes
\* from a proposal against the one before it.
BasesExist == \A p \in DOMAIN proposals : proposals[p].from \in DOMAIN snapshots

Origins ==
    \A i \in DOMAIN snapshots :
        IF i = 1 THEN snapshots[i].proposal = 0
        ELSE /\ snapshots[i].proposal \in DOMAIN proposals
             /\ proposals[snapshots[i].proposal].from = i - 1

AcceptedMadeOne ==
    \A p \in DOMAIN proposals : proposals[p].status = "accepted" =>
        \E i \in DOMAIN snapshots : snapshots[i].proposal = p

NoClaimsBefore == current = 0 => Active = {}

IInv ==
    /\ TypeOK
    /\ HistoryIsLinear
    /\ BasesExist
    /\ Origins
    /\ AcceptedMadeOne
    /\ RequestsRead
    /\ NoClaimsBefore
    /\ ActiveClaimsAreCurrent
    /\ OneOpenProposalPerClaim
    /\ EditedCanvasIsProposed

-------------------------------------------------------------------------------
(* Sequences *)

LEMMA AppendFacts ==
  ASSUME NEW S, NEW s \in Seq(S), NEW e \in S
  PROVE  /\ Append(s, e) \in Seq(S)
         /\ Len(Append(s, e)) = Len(s) + 1
         /\ DOMAIN Append(s, e) = 1 .. (Len(s) + 1)
         /\ \A i \in 1 .. Len(s) : Append(s, e)[i] = s[i]
         /\ Append(s, e)[Len(s) + 1] = e
OBVIOUS

LEMMA SeqOfFunction ==
  ASSUME NEW S, NEW n \in Nat, NEW f \in [1 .. n -> S]
  PROVE  f \in Seq(S) /\ Len(f) = n
OBVIOUS

LEMMA SeqDomain ==
  ASSUME NEW S, NEW s \in Seq(S)
  PROVE  /\ Len(s) \in Nat
         /\ DOMAIN s = 1 .. Len(s)
         /\ s \in [1 .. Len(s) -> S]
OBVIOUS

LEMMA ExceptFacts ==
  ASSUME NEW S, NEW s \in Seq(S), NEW i \in DOMAIN s, NEW e \in S
  PROVE  /\ [s EXCEPT ![i] = e] \in Seq(S)
         /\ Len([s EXCEPT ![i] = e]) = Len(s)
<1>1. [s EXCEPT ![i] = e] \in [1 .. Len(s) -> S]
  BY SeqDomain
<1>2. QED
  BY <1>1, SeqDomain, SeqOfFunction

\* The domains of the four sequences.
LEMMA Domains ==
  ASSUME TypeOK
  PROVE  /\ DOMAIN snapshots = 1 .. Len(snapshots) /\ Len(snapshots) \in Nat
         /\ DOMAIN proposals = 1 .. Len(proposals) /\ Len(proposals) \in Nat
         /\ DOMAIN health = 1 .. Len(snapshots)
         /\ snapshots \in [1 .. Len(snapshots) -> Snapshot]
         /\ proposals \in [1 .. Len(proposals) -> Proposal]
         /\ health \in [1 .. Len(snapshots) -> Healths]
BY SeqDomain DEF TypeOK

LEMMA SameCount ==
  ASSUME NEW A, NEW R, NEW F, IsFiniteSet(A), IsFiniteSet(F),
         R \subseteq A, F \cap A = {}, Cardinality(F) = Cardinality(R)
  PROVE  Cardinality((A \ R) \cup F) = Cardinality(A)
<1>1. IsFiniteSet(R) /\ IsFiniteSet(A \ R) /\ A \cap R = R /\ (A \ R) \cap F = {}
  BY FS_Subset
<1>2. Cardinality(A \ R) = Cardinality(A) - Cardinality(R)
  BY <1>1, FS_Difference
<1>3. Cardinality((A \ R) \cup F) = Cardinality(A \ R) + Cardinality(F) - 0
  BY <1>1, FS_Union, FS_EmptySet
<1>4. QED
  BY <1>1, <1>2, <1>3, FS_CardinalityType

-------------------------------------------------------------------------------
(* Requests *)

\* A request that refers to no proposal and no snapshot.
Unbound(r) == r \in Request /\ r.op \in {"idle", "confirm", "analyse", "assess", "source"}

LEMMA UnboundIsValid == \A r : Unbound(r) => ValidRequest(r)
BY DEF Unbound, ValidRequest

LEMMA IdleIsUnbound == Unbound(Idle)
BY DEF Idle, Unbound, Request, Ops, Verifications

LEMMA IdleIsValid == Idle \in Request /\ ValidRequest(Idle)
BY IdleIsUnbound, UnboundIsValid DEF Unbound

LEMMA AnalysingIsUnbound ==
  ASSUME NEW c \in Claims, NEW before \in Verifications
  PROVE  Unbound(Analysing(c, before))
BY DEF Analysing, Idle, Unbound, Request, Ops, Verifications

LEMMA InitIInv == Init => IInv
<1> SUFFICES ASSUME Init PROVE IInv
  OBVIOUS
<1>1. snapshots = <<>> /\ health = <<>> /\ proposals = <<>> /\ Active = {}
  BY DEF Init, Active
<1>2. TypeOK
  <2>1. claims \in [Claims -> Claim]
    BY DEF Init, Claim, Verifications
  <2>2. requests \in [Handlers -> Request]
    BY IdleIsValid DEF Init
  <2>3. QED
    BY <1>1, <2>1, <2>2 DEF Init, TypeOK
<1>3. DOMAIN snapshots = {} /\ DOMAIN proposals = {}
  BY <1>1
<1>4. HistoryIsLinear /\ BasesExist /\ Origins /\ AcceptedMadeOne
  BY <1>1, <1>3 DEF Init, HistoryIsLinear, BasesExist, Origins, AcceptedMadeOne
<1>5. RequestsRead
  BY IdleIsValid DEF Init, RequestsRead
<1>6. NoClaimsBefore /\ ActiveClaimsAreCurrent
  BY <1>1 DEF Init, NoClaimsBefore, ActiveClaimsAreCurrent
<1>7. OneOpenProposalPerClaim /\ EditedCanvasIsProposed
  BY <1>3 DEF Init, OneOpenProposalPerClaim, EditedCanvasIsProposed
<1>8. QED
  BY <1>2, <1>4, <1>5, <1>6, <1>7 DEF IInv

\* A step that adds no row, changes no claim's place and gives every handler a
\* valid request.
LEMMA QuietKeeps ==
  ASSUME IInv, UNCHANGED <<snapshots, current, proposals, canvas>>, Active' = Active,
         claims' \in [Claims -> Claim],
         health' \in Seq(Healths), Len(health') = Len(health),
         requests' \in [Handlers -> Request],
         \A h \in Handlers : requests'[h] = requests[h] \/ ValidRequest(requests'[h])
  PROVE  IInv'
<1>1. \A r : ValidRequest(r)' <=> ValidRequest(r)
  BY DEF ValidRequest
<1>2. RequestsRead'
  BY <1>1 DEF IInv, RequestsRead
<1>3. TypeOK' /\ HistoryIsLinear' /\ BasesExist' /\ Origins' /\ AcceptedMadeOne'
  BY DEF IInv, TypeOK, HistoryIsLinear, BasesExist, Origins, AcceptedMadeOne
<1>4. NoClaimsBefore' /\ ActiveClaimsAreCurrent'
  BY DEF IInv, NoClaimsBefore, ActiveClaimsAreCurrent
<1>5. OneOpenProposalPerClaim' /\ EditedCanvasIsProposed'
  BY DEF IInv, OneOpenProposalPerClaim, EditedCanvasIsProposed, Open
<1>6. QED
  BY <1>2, <1>3, <1>4, <1>5 DEF IInv

\* A step that leaves the database alone.
LEMMA ReadsKeep ==
  ASSUME IInv, Reads, requests' \in [Handlers -> Request],
         \A h \in Handlers : requests'[h] = requests[h] \/ ValidRequest(requests'[h])
  PROVE  IInv'
BY QuietKeeps DEF Reads, Active, IInv, TypeOK

LEMMA StartKeeps ==
  ASSUME IInv, NEW h \in Handlers, NEW r \in Request, ValidRequest(r), Reads,
         requests' = [requests EXCEPT ![h] = r]
  PROVE  IInv'
BY ReadsKeep DEF IInv, TypeOK

LEMMA GiveUpKeeps ==
  ASSUME IInv, NEW h \in Handlers, GiveUp(h)
  PROVE  IInv'
BY StartKeeps, IdleIsValid DEF GiveUp, Done, Reads

LEMMA CrashKeeps ==
  ASSUME IInv, Crash
  PROVE  IInv'
BY ReadsKeep, IdleIsValid DEF Crash, Reads

\* After a write the handler refers to no row; the others' requests stay valid when
\* rows are only added and, if the current snapshot changes, it is a new one.
LEMMA RequestsKept ==
  ASSUME IInv, NEW h \in Handlers, NEW r, Unbound(r),
         requests' = [requests EXCEPT ![h] = r],
         DOMAIN snapshots \subseteq DOMAIN snapshots',
         DOMAIN proposals \subseteq DOMAIN proposals',
         \A p \in DOMAIN proposals :
            /\ proposals'[p].from = proposals[p].from
            /\ proposals'[p].replaces = proposals[p].replaces,
         \/ current' = current /\ Active' = Active
         \/ current' \notin DOMAIN snapshots
  PROVE  RequestsRead' /\ requests' \in [Handlers -> Request]
<1>1. requests' \in [Handlers -> Request]
  BY DEF IInv, TypeOK, Unbound
<1>2. ASSUME NEW g \in Handlers
      PROVE  ValidRequest(requests[g])'
  <2>1. CASE g = h
    BY <2>1 DEF IInv, TypeOK, ValidRequest, Unbound
  <2>2. CASE g # h
    <3>1. requests'[g] = requests[g] /\ ValidRequest(requests[g])
      BY <2>2 DEF IInv, RequestsRead
    <3>2. ASSUME requests[g].op = "accept",
                 proposals'[requests[g].proposal].from = current'
          PROVE  proposals'[requests[g].proposal].replaces \subseteq Active'
      <4>1. requests[g].proposal \in DOMAIN proposals
        BY <3>1, <3>2 DEF ValidRequest
      <4>2. proposals[requests[g].proposal].from \in DOMAIN snapshots
        BY <4>1 DEF IInv, BasesExist
      <4>3. current' = current /\ Active' = Active
        BY <3>2, <4>1, <4>2
      <4>4. QED
        BY <3>1, <3>2, <4>1, <4>3 DEF ValidRequest
    <3>3. QED
      BY <3>1, <3>2 DEF ValidRequest
  <2>3. QED
    BY <2>1, <2>2
<1>3. QED
  BY <1>1, <1>2 DEF RequestsRead

-------------------------------------------------------------------------------
(* Writes to the proposals *)

\* A proposal that is made.
LEMMA ProposeFacts ==
  ASSUME TypeOK, NEW base \in DOMAIN snapshots,
         NEW kind \in {"evidence", "canvas", "suggested"},
         NEW affected \in SUBSET Claims, NEW replaces \in SUBSET Claims,
         Propose(base, kind, affected, replaces)
  PROVE  /\ proposals' \in Seq(Proposal)
         /\ DOMAIN proposals' = 1 .. (Len(proposals) + 1)
         /\ \A p \in DOMAIN proposals : proposals'[p] = proposals[p]
         /\ proposals'[Len(proposals) + 1] =
               [from |-> base, kind |-> kind, affected |-> affected,
                replaces |-> replaces, status |-> "open"]
<1> DEFINE new == [from |-> base, kind |-> kind, affected |-> affected,
                   replaces |-> replaces, status |-> "open"]
<1>1. new \in Proposal
  BY Domains DEF Proposal
<1>2. proposals' = Append(proposals, new) /\ proposals \in Seq(Proposal)
  BY DEF Propose, TypeOK
<1> HIDE DEF new
<1>3. /\ proposals' \in Seq(Proposal)
      /\ DOMAIN proposals' = 1 .. (Len(proposals) + 1)
      /\ \A p \in 1 .. Len(proposals) : proposals'[p] = proposals[p]
      /\ proposals'[Len(proposals) + 1] = new
  BY <1>1, <1>2, AppendFacts
<1>4. QED
  BY <1>3, Domains DEF new

\* A proposal whose status changes.
Decided(p, s) == [proposals EXCEPT ![p].status = s]

LEMMA StatusFacts ==
  ASSUME TypeOK, NEW p \in DOMAIN proposals,
         NEW s \in {"open", "accepted", "rejected", "deferred"},
         proposals' = Decided(p, s)
  PROVE  /\ proposals' \in Seq(Proposal)
         /\ DOMAIN proposals' = DOMAIN proposals
         /\ \A q \in DOMAIN proposals :
              /\ proposals'[q].from = proposals[q].from
              /\ proposals'[q].kind = proposals[q].kind
              /\ proposals'[q].affected = proposals[q].affected
              /\ proposals'[q].replaces = proposals[q].replaces
              /\ proposals'[q].status = IF q = p THEN s ELSE proposals[q].status
<1> DEFINE decided == [proposals[p] EXCEPT !.status = s]
<1>1. proposals[p] \in Proposal
  BY Domains
<1>2. decided \in Proposal
  BY <1>1 DEF Proposal
<1>3. proposals' = [proposals EXCEPT ![p] = decided]
  BY DEF Decided
<1>4. proposals' \in Seq(Proposal) /\ DOMAIN proposals' = DOMAIN proposals
  <2> HIDE DEF decided
  <2>1. QED
    BY <1>2, <1>3, ExceptFacts DEF TypeOK
<1>5. \A q \in DOMAIN proposals : q # p => proposals'[q] = proposals[q]
  BY <1>3
<1>6. proposals'[p] = decided
  BY <1>3
<1>7. /\ decided.from = proposals[p].from /\ decided.kind = proposals[p].kind
      /\ decided.affected = proposals[p].affected
      /\ decided.replaces = proposals[p].replaces /\ decided.status = s
  BY <1>1 DEF Proposal
<1> HIDE DEF decided
<1>8. QED
  BY <1>4, <1>5, <1>6, <1>7

\* Steps that only add proposals, or mark snapshots, or change what is known of
\* the claims, keep the history and the sets of claims as they are.
LEMMA HistoryKept ==
  ASSUME IInv, UNCHANGED <<snapshots, current>>, Active' = Active,
         DOMAIN proposals \subseteq DOMAIN proposals',
         \A p \in DOMAIN proposals : proposals'[p].from = proposals[p].from
  PROVE  /\ HistoryIsLinear' /\ Origins'
         /\ NoClaimsBefore' /\ ActiveClaimsAreCurrent'
<1>1. HistoryIsLinear'
  BY DEF IInv, HistoryIsLinear
<1>2. Origins'
  BY DEF IInv, Origins
<1>3. NoClaimsBefore' /\ ActiveClaimsAreCurrent'
  BY DEF IInv, NoClaimsBefore, ActiveClaimsAreCurrent
<1>4. QED
  BY <1>1, <1>2, <1>3

\* A decision that is not an acceptance keeps what is said of proposals.
LEMMA DecideKeeps ==
  ASSUME IInv, NEW h \in Handlers, DecideWrites(h)
  PROVE  IInv'
<1> DEFINE p == requests[h].proposal
           d == requests[h].decision
<1>1. p \in DOMAIN proposals /\ d \in {"rejected", "deferred"}
  BY DEF DecideWrites, IInv, TypeOK, RequestsRead, ValidRequest, Request
<1>2. /\ proposals' = Decided(p, d)
      /\ requests' = [requests EXCEPT ![h] = Idle]
      /\ UNCHANGED <<snapshots, current, health, claims, canvas>>
  BY DEF DecideWrites, Done, Decided
<1> HIDE DEF p, d
<1>3. /\ proposals' \in Seq(Proposal)
      /\ DOMAIN proposals' = DOMAIN proposals
      /\ \A q \in DOMAIN proposals :
           /\ proposals'[q].from = proposals[q].from
           /\ proposals'[q].kind = proposals[q].kind
           /\ proposals'[q].affected = proposals[q].affected
           /\ proposals'[q].replaces = proposals[q].replaces
           /\ proposals'[q].status = IF q = p THEN d ELSE proposals[q].status
  BY <1>1, <1>2, StatusFacts DEF IInv
<1>4. Active' = Active
  BY <1>2 DEF Active
<1>5. RequestsRead' /\ requests' \in [Handlers -> Request]
  BY <1>2, <1>3, <1>4, RequestsKept, IdleIsUnbound
<1>6. TypeOK'
  BY <1>2, <1>3, <1>5 DEF IInv, TypeOK
<1>7. HistoryIsLinear' /\ Origins' /\ NoClaimsBefore' /\ ActiveClaimsAreCurrent'
  BY <1>2, <1>3, <1>4, HistoryKept
<1>8. BasesExist'
  BY <1>2, <1>3 DEF IInv, BasesExist
<1>9. AcceptedMadeOne'
  BY <1>1, <1>2, <1>3 DEF IInv, AcceptedMadeOne
<1>10. OneOpenProposalPerClaim'
  BY <1>1, <1>2, <1>3 DEF IInv, OneOpenProposalPerClaim, Open
<1>11. EditedCanvasIsProposed'
  BY <1>2, <1>3 DEF IInv, EditedCanvasIsProposed
<1>12. QED
  BY <1>5, <1>6, <1>7, <1>8, <1>9, <1>10, <1>11 DEF IInv

\* A proposal against the current snapshot or an earlier one is added; an evidence
\* proposal only if none is open for its claims.
LEMMA ProposeKeeps ==
  ASSUME IInv, NEW base \in DOMAIN snapshots,
         NEW kind \in {"evidence", "canvas", "suggested"},
         NEW affected \in SUBSET Claims, NEW replaces \in SUBSET Claims,
         Propose(base, kind, affected, replaces),
         kind = "evidence" => \A c \in affected : ~AlreadyProposed(base, c),
         UNCHANGED <<snapshots, current>>
  PROVE  BasesExist' /\ AcceptedMadeOne' /\ OneOpenProposalPerClaim'
<1> DEFINE n == Len(proposals) + 1
<1>1. /\ DOMAIN proposals' = 1 .. n
      /\ DOMAIN proposals = 1 .. Len(proposals) /\ Len(proposals) \in Nat
      /\ \A p \in DOMAIN proposals : proposals'[p] = proposals[p]
      /\ proposals'[n] =
            [from |-> base, kind |-> kind, affected |-> affected,
             replaces |-> replaces, status |-> "open"]
  BY ProposeFacts, Domains DEF IInv
<1>2. \A p \in DOMAIN proposals' : p \in DOMAIN proposals \/ p = n
  BY <1>1
<1>3. /\ proposals'[n].from = base /\ proposals'[n].kind = kind
      /\ proposals'[n].affected = affected /\ proposals'[n].status = "open"
  BY <1>1
<1>4. n \notin DOMAIN proposals
  BY <1>1
<1> HIDE DEF n
<1>5. BasesExist'
  BY <1>1, <1>2, <1>3 DEF IInv, BasesExist
<1>6. AcceptedMadeOne'
  BY <1>1, <1>2, <1>3 DEF IInv, AcceptedMadeOne
<1>7. OneOpenProposalPerClaim'
  <2> SUFFICES ASSUME NEW p \in DOMAIN proposals', NEW q \in DOMAIN proposals',
                      proposals'[p].status = "open", proposals'[q].status = "open",
                      proposals'[p].kind = "evidence",
                      proposals'[q].kind = "evidence",
                      proposals'[p].from = proposals'[q].from,
                      proposals'[p].affected \cap proposals'[q].affected # {}
               PROVE  p = q
    BY DEF OneOpenProposalPerClaim, Open
  <2>1. CASE p \in DOMAIN proposals /\ q \in DOMAIN proposals
    BY <1>1, <2>1 DEF IInv, OneOpenProposalPerClaim, Open
  <2>2. ASSUME NEW o \in DOMAIN proposals, kind = "evidence",
               proposals[o].status = "open", proposals[o].kind = "evidence",
               proposals[o].from = base, proposals[o].affected \cap affected # {}
        PROVE  FALSE
    BY <2>2 DEF AlreadyProposed, OpenOn, Open
  <2>3. CASE p = n /\ q \in DOMAIN proposals
    BY <1>1, <1>3, <2>2, <2>3
  <2>4. CASE q = n /\ p \in DOMAIN proposals
    BY <1>1, <1>3, <2>2, <2>4
  <2>5. QED
    BY <1>2, <2>1, <2>3, <2>4
<1>8. QED
  BY <1>5, <1>6, <1>7

-------------------------------------------------------------------------------
(* Evidence *)

LEMMA MarkFacts ==
  ASSUME TypeOK, NEW base, NEW c, NEW status \in Healths, Mark(base, c, status)
  PROVE  /\ health' \in Seq(Healths)
         /\ Len(health') = Len(health)
         /\ \A i \in DOMAIN health : health'[i] \in {health[i], status}
<1>1. /\ DOMAIN health = 1 .. Len(health) /\ Len(health) \in Nat
      /\ health \in [1 .. Len(health) -> Healths]
  BY SeqDomain DEF TypeOK
<1>2. health' \in [1 .. Len(health) -> Healths]
  BY <1>1 DEF Mark
<1>3. health' \in Seq(Healths) /\ Len(health') = Len(health)
  BY <1>1, <1>2, SeqOfFunction
<1>4. QED
  BY <1>1, <1>3 DEF Mark

LEMMA ImpactKeeps ==
  ASSUME IInv, NEW h \in Handlers, NEW base \in DOMAIN snapshots, NEW c \in Claims,
         NEW status \in {"needs_review", "stale_evidence"},
         ResolveImpact(base, c, status),
         NEW r, Unbound(r), requests' = [requests EXCEPT ![h] = r],
         claims' \in [Claims -> Claim], Active' = Active,
         UNCHANGED <<snapshots, current, canvas>>
  PROVE  IInv'
<1>1. health' \in Seq(Healths) /\ Len(health') = Len(health)
  BY MarkFacts DEF ResolveImpact, Healths, IInv
<1>2. requests' \in [Handlers -> Request]
  BY DEF Unbound, IInv, TypeOK
<1>3. CASE AlreadyProposed(base, c)
  <2>1. proposals' = proposals
    BY <1>3 DEF ResolveImpact
  <2>2. \A g \in Handlers : requests'[g] = requests[g] \/ ValidRequest(requests'[g])
    BY UnboundIsValid DEF IInv, TypeOK
  <2>3. QED
    BY <1>1, <1>2, <2>1, <2>2, QuietKeeps
<1>4. CASE ~AlreadyProposed(base, c)
  <2>1. Propose(base, "evidence", {c}, {})
    BY <1>4 DEF ResolveImpact
  <2>2. BasesExist' /\ AcceptedMadeOne' /\ OneOpenProposalPerClaim'
    BY <1>4, <2>1, ProposeKeeps
  <2>3. /\ proposals' \in Seq(Proposal)
        /\ DOMAIN proposals' = 1 .. (Len(proposals) + 1)
        /\ \A p \in DOMAIN proposals : proposals'[p] = proposals[p]
    <3>1. /\ TypeOK
          /\ "evidence" \in {"evidence", "canvas", "suggested"}
          /\ {c} \in SUBSET Claims /\ {} \in SUBSET Claims
      BY DEF IInv
    <3>2. QED
      BY <2>1, <3>1, ProposeFacts
  <2>4. DOMAIN proposals \subseteq DOMAIN proposals'
    BY <2>3, Domains DEF IInv
  <2>5. RequestsRead'
    BY <2>3, <2>4, RequestsKept
  <2>6. TypeOK'
    BY <1>1, <1>2, <2>3 DEF IInv, TypeOK
  <2>7. HistoryIsLinear' /\ Origins' /\ NoClaimsBefore' /\ ActiveClaimsAreCurrent'
    BY <2>3, <2>4, HistoryKept
  <2>8. EditedCanvasIsProposed'
    BY <2>3, <2>4 DEF IInv, EditedCanvasIsProposed
  <2>9. QED
    BY <2>2, <2>5, <2>6, <2>7, <2>8 DEF IInv
<1>5. QED
  BY <1>3, <1>4

\* What is known of a claim changes; whether it is in force does not.
LEMMA ObservationFacts ==
  ASSUME TypeOK, NEW c \in Claims, NEW after \in Observed,
         claims' = [claims EXCEPT ![c].verified = after]
  PROVE  claims' \in [Claims -> Claim] /\ Active' = Active
<1>1. after \in Verifications
  BY ObservedAssumption
<1>2. claims' \in [Claims -> Claim]
  BY <1>1 DEF TypeOK, Claim
<1>3. \A d \in Claims : claims'[d].status = claims[d].status
  BY DEF TypeOK, Claim
<1>4. QED
  BY <1>2, <1>3 DEF Active

LEMMA CurrentExists ==
  ASSUME IInv, current # 0
  PROVE  current \in DOMAIN snapshots
BY Domains DEF IInv, TypeOK

LEMMA EvidenceStepKeeps ==
  ASSUME IInv, NEW h \in Handlers, NEW c \in Claims, EvidenceStep(h, c)
  PROVE  IInv'
<1> USE DEF Verifications
<1>0. \A g \in Handlers : requests[g] \in Request
  BY DEF IInv, TypeOK
<1>1. CASE AnalyseReads(h, c) \/ SourceReads(h, c)
  <2>1. claims[c].verified \in Verifications
    BY DEF IInv, TypeOK, Claim
  <2> DEFINE r == [Idle EXCEPT !.op = "source", !.claim = {c},
                               !.before = claims[c].verified]
             q == Analysing(c, claims[c].verified)
  <2>2. Unbound(r)
    BY <2>1 DEF Idle, Unbound, Request, Ops
  <2>3. Unbound(q)
    BY <2>1, AnalysingIsUnbound
  <2> HIDE DEF r, q
  <2>4. requests' = [requests EXCEPT ![h] = r] \/ requests' = [requests EXCEPT ![h] = q]
    BY <1>1 DEF AnalyseReads, SourceReads, Start, r, q
  <2>5. QED
    BY <1>1, <2>2, <2>3, <2>4, UnboundIsValid, StartKeeps
    DEF AnalyseReads, SourceReads, Unbound
<1>2. CASE ImpactReads(h, c)
  <2> DEFINE r == [requests[h] EXCEPT !.op = "impact", !.base = current]
             q == Analysing(c, requests[h].after)
  <2>1. Unbound(q)
    BY <1>0, AnalysingIsUnbound DEF Request
  <2>2. CASE requests' = [requests EXCEPT ![h] = Idle]
    BY <1>2, <2>2, StartKeeps, IdleIsValid DEF ImpactReads
  <2>3. CASE requests' = [requests EXCEPT ![h] = q]
    <3> HIDE DEF q
    <3>1. QED
      BY <1>2, <2>1, <2>3, StartKeeps, UnboundIsValid DEF ImpactReads, Unbound
  <2>4. CASE requests' = [requests EXCEPT ![h] = r] /\ current # 0
    <3>1. current \in DOMAIN snapshots /\ current \in Nat
      BY <2>4, CurrentExists, Domains DEF IInv, TypeOK
    <3>2. r \in Request /\ ValidRequest(r)
      BY <1>0, <3>1 DEF Request, Ops, ValidRequest
    <3> HIDE DEF r
    <3>3. QED
      BY <1>2, <2>4, <3>2, StartKeeps DEF ImpactReads
  <2>5. QED
    BY <1>2, <2>2, <2>3, <2>4 DEF ImpactReads
<1>3. CASE ImpactWrites(h, c)
  <2> DEFINE q == Analysing(c, requests[h].after)
  <2>1. requests[h].base \in DOMAIN snapshots
    BY <1>3 DEF ImpactWrites, IInv, RequestsRead, ValidRequest
  <2>2. claims' \in [Claims -> Claim] /\ Active' = Active
    BY <1>3 DEF ImpactWrites, IInv, TypeOK, Active
  <2>3. Unbound(q)
    BY <1>0, AnalysingIsUnbound DEF Request
  <2>4. /\ ResolveImpact(requests[h].base, c, "needs_review")
        /\ requests' = [requests EXCEPT ![h] = q]
        /\ UNCHANGED <<snapshots, current, canvas>>
    BY <1>3 DEF ImpactWrites
  <2> HIDE DEF q
  <2>5. QED
    BY <2>1, <2>2, <2>3, <2>4, ImpactKeeps
<1>4. CASE ClaimGone(h, c) \/ AnalysisEnds(h)
  BY <1>4, GiveUpKeeps DEF ClaimGone, AnalysisEnds
<1>5. ASSUME NEW after \in Observed, PersistRelation(h, c, after)
      PROVE  IInv'
  <2> DEFINE r == [requests[h] EXCEPT !.op = "assess", !.after = after]
  <2>1. after \in Verifications
    BY ObservedAssumption
  <2>2. r \in Request /\ ValidRequest(r)
    BY <1>0, <2>1 DEF Request, Ops, ValidRequest
  <2> HIDE DEF r
  <2>3. requests' = requests \/ requests' = [requests EXCEPT ![h] = r]
    BY <1>0, <1>5 DEF PersistRelation, IInv, TypeOK, r
  <2>4. /\ requests' \in [Handlers -> Request]
        /\ \A g \in Handlers : requests'[g] = requests[g] \/ ValidRequest(requests'[g])
    BY <2>2, <2>3 DEF IInv, TypeOK
  <2>5. claims' \in [Claims -> Claim] /\ Active' = Active
    BY <1>5, ObservationFacts DEF PersistRelation, IInv
  <2>6. QED
    BY <1>5, <2>4, <2>5, QuietKeeps DEF PersistRelation, IInv, TypeOK
<1>6. ASSUME NEW after \in Observed, NEW archived \in BOOLEAN,
             SourceWrites(h, c, after, archived)
      PROVE  IInv'
  <2>1. claims' \in [Claims -> Claim] /\ Active' = Active
    BY <1>6, ObservationFacts DEF SourceWrites, IInv
  <2>2. HealthAfter(after, archived) \in {"needs_review", "stale_evidence"}
    BY DEF HealthAfter
  <2>3. CASE ResolveImpact(current, c, HealthAfter(after, archived)) /\ current # 0
    <3>1. current \in DOMAIN snapshots
      BY <2>3, CurrentExists
    <3>2. /\ requests' = [requests EXCEPT ![h] = Idle]
          /\ UNCHANGED <<snapshots, current, canvas>>
      BY <1>6 DEF SourceWrites, Done
    <3>3. QED
      BY <2>1, <2>2, <2>3, <3>1, <3>2, ImpactKeeps, IdleIsUnbound
  <2>4. CASE UNCHANGED <<health, proposals>>
    <3>1. /\ requests' \in [Handlers -> Request]
          /\ \A g \in Handlers : requests'[g] = requests[g] \/ ValidRequest(requests'[g])
      BY <1>6, IdleIsValid DEF SourceWrites, Done, IInv, TypeOK
    <3>2. QED
      BY <1>6, <2>1, <2>4, <3>1, QuietKeeps DEF SourceWrites, IInv, TypeOK
  <2>5. QED
    BY <1>6, <2>3, <2>4 DEF SourceWrites
<1>7. QED
  BY <1>1, <1>2, <1>3, <1>4, <1>5, <1>6 DEF EvidenceStep

-------------------------------------------------------------------------------
(* Edits and suggestions *)

LEMMA EditKeeps ==
  ASSUME IInv, NEW replaced \in SUBSET Claims, EditCanvas(replaced)
  PROVE  IInv'
<1>1. UNCHANGED <<snapshots, current, claims, requests>> /\ Active' = Active
  BY DEF EditCanvas, Active
<1>2. CASE current = 0
  <2>1. canvas' = "draft" /\ UNCHANGED <<health, proposals>>
    BY <1>2 DEF EditCanvas
  <2>2. RequestsRead'
    BY <1>1, <2>1 DEF IInv, RequestsRead, ValidRequest
  <2>3. TypeOK' /\ HistoryIsLinear' /\ BasesExist' /\ Origins' /\ AcceptedMadeOne'
    BY <1>1, <2>1 DEF IInv, TypeOK, HistoryIsLinear, BasesExist, Origins, AcceptedMadeOne
  <2>4. NoClaimsBefore' /\ ActiveClaimsAreCurrent'
    BY <1>1 DEF IInv, NoClaimsBefore, ActiveClaimsAreCurrent
  <2>5. OneOpenProposalPerClaim' /\ EditedCanvasIsProposed'
    BY <2>1 DEF IInv, OneOpenProposalPerClaim, EditedCanvasIsProposed, Open
  <2>6. QED
    BY <2>2, <2>3, <2>4, <2>5 DEF IInv
<1>3. CASE current # 0
  <2>1. /\ Propose(current, "canvas", replaced, replaced)
        /\ health' = [health EXCEPT ![current] = "needs_review"]
        /\ canvas' = "edited"
    BY <1>3 DEF EditCanvas
  <2>2. /\ TypeOK
        /\ current \in DOMAIN snapshots
        /\ "canvas" \in {"evidence", "canvas", "suggested"}
    BY <1>3, CurrentExists DEF IInv
  <2>3. /\ proposals' \in Seq(Proposal)
        /\ DOMAIN proposals' = 1 .. (Len(proposals) + 1)
        /\ \A p \in DOMAIN proposals : proposals'[p] = proposals[p]
        /\ proposals'[Len(proposals) + 1] =
              [from |-> current, kind |-> "canvas", affected |-> replaced,
               replaces |-> replaced, status |-> "open"]
    BY <2>1, <2>2, ProposeFacts
  <2>4. DOMAIN proposals \subseteq DOMAIN proposals'
    BY <2>2, <2>3, Domains
  <2>5. BasesExist' /\ AcceptedMadeOne' /\ OneOpenProposalPerClaim'
    BY <1>1, <2>1, <2>2, ProposeKeeps
  <2>6. health' \in Seq(Healths) /\ Len(health') = Len(health)
    <3>1. current \in DOMAIN health /\ "needs_review" \in Healths
      BY <2>2, Domains DEF Healths
    <3>2. QED
      BY <2>1, <3>1, ExceptFacts DEF IInv, TypeOK
  <2>7. TypeOK'
    BY <1>1, <2>1, <2>3, <2>6 DEF IInv, TypeOK
  <2>8. RequestsRead'
    <3>1. ASSUME NEW g \in Handlers
          PROVE  ValidRequest(requests[g])'
      BY <1>1, <2>3, <2>4 DEF IInv, RequestsRead, ValidRequest
    <3>2. QED
      BY <3>1 DEF RequestsRead
  <2>9. HistoryIsLinear' /\ Origins' /\ NoClaimsBefore' /\ ActiveClaimsAreCurrent'
    BY <1>1, <2>3, <2>4, HistoryKept
  <2>10. EditedCanvasIsProposed'
    <3>1. Len(proposals) + 1 \in DOMAIN proposals'
      BY <2>2, <2>3, Domains
    <3>2. /\ proposals'[Len(proposals) + 1].kind = "canvas"
          /\ proposals'[Len(proposals) + 1].from = current'
      BY <1>1, <2>3
    <3>3. QED
      BY <3>1, <3>2 DEF EditedCanvasIsProposed
  <2>11. QED
    BY <2>5, <2>7, <2>8, <2>9, <2>10 DEF IInv
<1>4. QED
  BY <1>2, <1>3

LEMMA SuggestKeeps ==
  ASSUME IInv, NEW h \in Handlers, SuggestWrites(h)
  PROVE  IInv'
<1> DEFINE base == requests[h].base
<1>1. base \in DOMAIN snapshots
  BY DEF SuggestWrites, IInv, RequestsRead, ValidRequest
<1>2. /\ Propose(base, "suggested", {}, {})
      /\ requests' = [requests EXCEPT ![h] = Idle]
      /\ UNCHANGED <<snapshots, current, health, claims, canvas>>
      /\ Active' = Active
  BY DEF SuggestWrites, Done, Active
<1> HIDE DEF base
<1>3. /\ TypeOK
      /\ "suggested" \in {"evidence", "canvas", "suggested"}
      /\ {} \in SUBSET Claims
  BY DEF IInv
<1>4. /\ proposals' \in Seq(Proposal)
      /\ DOMAIN proposals' = 1 .. (Len(proposals) + 1)
      /\ \A p \in DOMAIN proposals : proposals'[p] = proposals[p]
  BY <1>1, <1>2, <1>3, ProposeFacts
<1>5. DOMAIN proposals \subseteq DOMAIN proposals'
  BY <1>3, <1>4, Domains
<1>6. BasesExist' /\ AcceptedMadeOne' /\ OneOpenProposalPerClaim'
  BY <1>1, <1>2, <1>3, ProposeKeeps
<1>7. RequestsRead' /\ requests' \in [Handlers -> Request]
  BY <1>2, <1>4, <1>5, RequestsKept, IdleIsUnbound
<1>8. TypeOK'
  BY <1>2, <1>4, <1>7 DEF IInv, TypeOK
<1>9. HistoryIsLinear' /\ Origins' /\ NoClaimsBefore' /\ ActiveClaimsAreCurrent'
  BY <1>2, <1>4, <1>5, HistoryKept
<1>10. EditedCanvasIsProposed'
  BY <1>2, <1>4, <1>5 DEF IInv, EditedCanvasIsProposed
<1>11. QED
  BY <1>6, <1>7, <1>8, <1>9, <1>10 DEF IInv

-------------------------------------------------------------------------------
(* A new snapshot *)

LEMMA ConfirmKeeps ==
  ASSUME IInv, NEW h \in Handlers, ConfirmWrites(h)
  PROVE  IInv'
<1> DEFINE first == [version |-> 1, supersedes |-> 0,
                     claims |-> InitialClaims, proposal |-> 0]
<1>1. TypeOK /\ ~VersionTaken(1)
  BY DEF IInv, ConfirmWrites
<1>2. Len(snapshots) = 0 /\ current = 0 /\ DOMAIN snapshots = {}
  <2>1. 1 \notin DOMAIN snapshots
    BY <1>1 DEF IInv, HistoryIsLinear, VersionTaken
  <2>2. QED
    BY <1>1, <2>1, Domains DEF IInv, HistoryIsLinear
<1>3. /\ snapshots' = Append(snapshots, first)
      /\ current' = 1
      /\ health' = Append(health, "current")
      /\ claims' = [c \in Claims |-> IF c \in InitialClaims
                       THEN [status |-> "active", verified |-> "unverified"]
                       ELSE claims[c]]
      /\ canvas' = "projected"
      /\ requests' = [requests EXCEPT ![h] = Idle]
      /\ proposals' = proposals
  BY <1>2 DEF ConfirmWrites, ProjectCanvas, Done
<1>4. first \in Snapshot
  BY ClaimsAssumption DEF Snapshot
<1> HIDE DEF first
<1>5. /\ snapshots' \in Seq(Snapshot) /\ Len(snapshots') = 1
      /\ DOMAIN snapshots' = {1} /\ snapshots'[1] = first
  <2>1. /\ snapshots' \in Seq(Snapshot)
        /\ Len(snapshots') = Len(snapshots) + 1
        /\ DOMAIN snapshots' = 1 .. (Len(snapshots) + 1)
        /\ snapshots'[Len(snapshots) + 1] = first
    BY <1>1, <1>3, <1>4, AppendFacts DEF TypeOK
  <2>2. QED
    BY <1>2, <2>1
<1>6. health' \in Seq(Healths) /\ Len(health') = 1
  <2>1. "current" \in Healths
    BY DEF Healths
  <2>2. health' \in Seq(Healths) /\ Len(health') = Len(health) + 1
    BY <1>1, <1>3, <2>1, AppendFacts DEF TypeOK
  <2>3. QED
    BY <1>1, <1>2, <2>2 DEF TypeOK
<1>7. DOMAIN proposals = {}
  BY <1>2 DEF IInv, BasesExist
<1>8. Active = {}
  BY <1>2 DEF IInv, NoClaimsBefore
<1>9. Active' = InitialClaims
  BY <1>3, <1>8, ClaimsAssumption DEF Active
<1>10. claims' \in [Claims -> Claim]
  BY <1>1, <1>3 DEF TypeOK, Claim, Verifications
<1>11. RequestsRead' /\ requests' \in [Handlers -> Request]
  BY <1>2, <1>3, <1>5, <1>7, RequestsKept, IdleIsUnbound
<1>12. TypeOK'
  BY <1>1, <1>3, <1>5, <1>6, <1>10, <1>11 DEF TypeOK
<1>13. /\ first.version = 1 /\ first.supersedes = 0 /\ first.proposal = 0
       /\ first.claims = InitialClaims
  BY DEF first
<1>14. HistoryIsLinear' /\ Origins'
  BY <1>3, <1>5, <1>13 DEF HistoryIsLinear, Origins
<1>15. BasesExist' /\ AcceptedMadeOne' /\ OneOpenProposalPerClaim'
  BY <1>3, <1>7 DEF BasesExist, AcceptedMadeOne, OneOpenProposalPerClaim
<1>16. NoClaimsBefore' /\ ActiveClaimsAreCurrent'
  BY <1>3, <1>5, <1>9, <1>13 DEF NoClaimsBefore, ActiveClaimsAreCurrent
<1>17. EditedCanvasIsProposed'
  BY <1>3 DEF EditedCanvasIsProposed
<1>18. QED
  BY <1>11, <1>12, <1>14, <1>15, <1>16, <1>17 DEF IInv

\* The version of a snapshot that is accepted is free only where the proposal is
\* against the last snapshot, which is the current one.
LEMMA AcceptedAgainstCurrent ==
  ASSUME IInv, NEW h \in Handlers, AcceptWrites(h)
  PROVE  /\ requests[h].proposal \in DOMAIN proposals
         /\ current \in DOMAIN snapshots /\ current = Len(snapshots)
         /\ proposals[requests[h].proposal].from = current
         /\ NextVersion(current) = current + 1
         /\ proposals[requests[h].proposal].replaces \subseteq Active
<1> DEFINE p == requests[h].proposal
           base == proposals[p].from
<1>1. p \in DOMAIN proposals /\ ~VersionTaken(NextVersion(base))
  BY DEF AcceptWrites, IInv, RequestsRead, ValidRequest
<1>2. base \in DOMAIN snapshots
  BY <1>1 DEF IInv, BasesExist
<1>3. NextVersion(base) = base + 1
  BY <1>2 DEF IInv, HistoryIsLinear, NextVersion
<1>4. base + 1 \notin DOMAIN snapshots
  BY <1>1, <1>3 DEF IInv, HistoryIsLinear, VersionTaken
<1>5. base = Len(snapshots) /\ base = current
  BY <1>2, <1>4, Domains DEF IInv, HistoryIsLinear
<1>6. proposals[p].replaces \subseteq Active
  BY <1>5 DEF AcceptWrites, IInv, RequestsRead, ValidRequest
<1>7. QED
  BY <1>1, <1>2, <1>3, <1>5, <1>6

\* Replacing claims by as many of the same type keeps the number of each type.
LEMMA ReplacementFacts ==
  ASSUME IInv, NEW replaced \in SUBSET Active, NEW fresh \in SUBSET Absent,
         Replacement(replaced, fresh), claims' = Replaced(replaced, fresh)
  PROVE  /\ claims' \in [Claims -> Claim]
         /\ Active' = (Active \ replaced) \cup fresh
         /\ \A t \in ClaimTypes : Cardinality({c \in Active' : TypeOf[c] = t})
                                  = Cardinality({c \in Active : TypeOf[c] = t})
<1>1. claims' \in [Claims -> Claim]
  BY DEF IInv, TypeOK, Claim, Verifications, Replaced
<1>2. Active \subseteq Claims /\ Absent \subseteq Claims /\ Active \cap Absent = {}
  BY DEF Active, Absent
<1>3. ASSUME NEW c \in Claims
      PROVE  claims'[c].status = IF c \in replaced THEN "superseded"
                                 ELSE IF c \in fresh THEN "active"
                                 ELSE claims[c].status
  BY DEF Replaced, IInv, TypeOK, Claim
<1>4. Active' = (Active \ replaced) \cup fresh
  BY <1>2, <1>3 DEF Active
<1>5. ASSUME NEW t \in ClaimTypes
      PROVE  Cardinality({c \in Active' : TypeOf[c] = t})
             = Cardinality({c \in Active : TypeOf[c] = t})
  <2> DEFINE A == {c \in Active : TypeOf[c] = t}
             R == {c \in replaced : TypeOf[c] = t}
             F == {c \in fresh : TypeOf[c] = t}
  <2>1. {c \in Active' : TypeOf[c] = t} = (A \ R) \cup F
    BY <1>4
  <2>2. A \subseteq Claims /\ F \subseteq Claims /\ R \subseteq A /\ F \cap A = {}
    BY <1>2
  <2>3. Cardinality(F) = Cardinality(R)
    BY DEF Replacement
  <2>4. IsFiniteSet(A) /\ IsFiniteSet(F)
    BY <2>2, ClaimsAssumption, FS_Subset
  <2> HIDE DEF A, R, F
  <2>5. Cardinality((A \ R) \cup F) = Cardinality(A)
    BY <2>2, <2>3, <2>4, SameCount
  <2>6. QED
    BY <2>1, <2>5 DEF A
<1>6. QED
  BY <1>1, <1>4, <1>5

LEMMA AcceptKeeps ==
  ASSUME IInv, NEW h \in Handlers, AcceptWrites(h)
  PROVE  IInv'
<1> DEFINE p == requests[h].proposal
           replaced == proposals[p].replaces
           n == Len(snapshots) + 1
<1>1. /\ p \in DOMAIN proposals /\ p # 0
      /\ current \in DOMAIN snapshots /\ current = Len(snapshots)
      /\ Len(snapshots) \in Nat /\ current # 0 /\ n \notin DOMAIN snapshots
      /\ proposals[p].from = current
      /\ NextVersion(current) = n
      /\ replaced \in SUBSET Active
  BY AcceptedAgainstCurrent, Domains DEF IInv
<1>2. PICK fresh \in SUBSET Absent :
        /\ Replacement(replaced, fresh)
        /\ claims' = Replaced(replaced, fresh)
        /\ snapshots' = Insert(current, p,
             ((snapshots[current].claims \cap Active) \ replaced) \cup fresh)
  BY <1>1 DEF AcceptWrites
<1>3. /\ current' = n
      /\ health' = Append([health EXCEPT ![current] = "superseded"], "current")
      /\ proposals' = Decided(p, "accepted")
      /\ canvas' = "projected"
      /\ requests' = [requests EXCEPT ![h] = Idle]
  BY <1>1 DEF AcceptWrites, ProjectCanvas, Done, Decided
<1> DEFINE linked == ((snapshots[current].claims \cap Active) \ replaced) \cup fresh
           new == [version |-> n, supersedes |-> current,
                   claims |-> linked, proposal |-> p]
<1>4. snapshots' = Append(snapshots, new)
  BY <1>1, <1>2 DEF Insert
<1>5. new \in Snapshot
  <2>1. linked \subseteq Claims
    BY DEF Active, Absent
  <2>2. p \in Nat /\ n \in Nat /\ current \in Nat
    BY <1>1, Domains DEF IInv
  <2> HIDE DEF linked, n, p
  <2>3. QED
    BY <2>1, <2>2 DEF Snapshot
<1>6. /\ claims' \in [Claims -> Claim]
      /\ Active' = (Active \ replaced) \cup fresh
      /\ \A t \in ClaimTypes : Cardinality({c \in Active' : TypeOf[c] = t})
                               = Cardinality({c \in Active : TypeOf[c] = t})
  BY <1>1, <1>2, ReplacementFacts
<1>7. new.claims = Active'
  <2>1. snapshots[current].claims = Active
    BY <1>1 DEF IInv, ActiveClaimsAreCurrent
  <2>2. QED
    BY <1>6, <2>1
<1>8. /\ new.version = n /\ new.supersedes = current /\ new.proposal = p
  OBVIOUS
<1> HIDE DEF new, linked, replaced, p
<1>9. /\ snapshots' \in Seq(Snapshot) /\ Len(snapshots') = n
      /\ DOMAIN snapshots' = 1 .. n
      /\ \A i \in DOMAIN snapshots : snapshots'[i] = snapshots[i]
      /\ snapshots'[n] = new
  <2>1. snapshots \in Seq(Snapshot) /\ DOMAIN snapshots = 1 .. Len(snapshots)
    BY Domains DEF IInv, TypeOK
  <2>2. QED
    BY <1>4, <1>5, <2>1, AppendFacts
<1>10. \A i \in DOMAIN snapshots' : i \in DOMAIN snapshots \/ i = n
  BY <1>9, Domains DEF IInv
<1>11. DOMAIN snapshots \subseteq DOMAIN snapshots' /\ n \in DOMAIN snapshots'
  BY <1>9, <1>1, Domains DEF IInv
<1>12. /\ proposals' \in Seq(Proposal)
       /\ DOMAIN proposals' = DOMAIN proposals
       /\ \A q \in DOMAIN proposals :
            /\ proposals'[q].from = proposals[q].from
            /\ proposals'[q].kind = proposals[q].kind
            /\ proposals'[q].affected = proposals[q].affected
            /\ proposals'[q].replaces = proposals[q].replaces
            /\ proposals'[q].status = IF q = p THEN "accepted" ELSE proposals[q].status
  <2>1. TypeOK /\ "accepted" \in {"open", "accepted", "rejected", "deferred"}
    BY DEF IInv
  <2>2. QED
    BY <1>1, <1>3, <2>1, StatusFacts
<1>13. health' \in Seq(Healths) /\ Len(health') = n
  <2>1. /\ current \in DOMAIN health
        /\ "superseded" \in Healths /\ "current" \in Healths
        /\ health \in Seq(Healths) /\ Len(health) = Len(snapshots)
    BY <1>1, Domains DEF IInv, TypeOK, Healths
  <2> DEFINE old == [health EXCEPT ![current] = "superseded"]
  <2>2. old \in Seq(Healths) /\ Len(old) = Len(snapshots)
    BY <2>1, ExceptFacts
  <2>3. health' = Append(old, "current")
    BY <1>3
  <2> HIDE DEF old
  <2>4. QED
    BY <2>1, <2>2, <2>3, AppendFacts
<1>14. RequestsRead' /\ requests' \in [Handlers -> Request]
  BY <1>1, <1>3, <1>11, <1>12, RequestsKept, IdleIsUnbound
<1>15. TypeOK'
  <2>1. current' \in 0 .. Len(snapshots')
    BY <1>1, <1>3, <1>9
  <2>2. QED
    BY <2>1, <1>3, <1>6, <1>9, <1>12, <1>13, <1>14 DEF TypeOK
<1>16. HistoryIsLinear'
  <2>1. ASSUME NEW i \in DOMAIN snapshots'
        PROVE  snapshots'[i].version = i /\ snapshots'[i].supersedes = i - 1
    BY <1>1, <1>8, <1>9, <1>10 DEF IInv, HistoryIsLinear
  <2>2. QED
    BY <1>3, <1>9, <2>1 DEF HistoryIsLinear
<1>17. BasesExist'
  BY <1>11, <1>12 DEF IInv, BasesExist
<1>18. Origins'
  <2>1. ASSUME NEW i \in DOMAIN snapshots
        PROVE  IF i = 1 THEN snapshots'[i].proposal = 0
               ELSE /\ snapshots'[i].proposal \in DOMAIN proposals'
                    /\ proposals'[snapshots'[i].proposal].from = i - 1
    BY <1>9, <1>12 DEF IInv, Origins
  <2>2. n # 1 /\ snapshots'[n].proposal = p /\ proposals'[p].from = n - 1
    BY <1>1, <1>8, <1>9, <1>12
  <2>3. QED
    BY <1>1, <1>10, <1>12, <2>1, <2>2 DEF Origins
<1>19. AcceptedMadeOne'
  BY <1>8, <1>9, <1>11, <1>12 DEF IInv, AcceptedMadeOne
<1>20. NoClaimsBefore'
  BY <1>1, <1>3 DEF NoClaimsBefore
<1>21. ActiveClaimsAreCurrent'
  <2>1. Active' = snapshots'[current'].claims
    BY <1>3, <1>7, <1>9
  <2>2. \A t \in {"target_user", "user_problem"} :
           Cardinality({c \in Active : TypeOf[c] = t})
             = Cardinality({c \in InitialClaims : TypeOf[c] = t})
    BY <1>1 DEF IInv, ActiveClaimsAreCurrent
  <2>3. QED
    BY <1>6, <2>1, <2>2 DEF ActiveClaimsAreCurrent, ClaimTypes
<1>22. OneOpenProposalPerClaim'
  BY <1>12 DEF IInv, OneOpenProposalPerClaim, Open
<1>23. EditedCanvasIsProposed'
  BY <1>3 DEF EditedCanvasIsProposed
<1>24. QED
  BY <1>14, <1>15, <1>16, <1>17, <1>18, <1>19, <1>20, <1>21, <1>22, <1>23 DEF IInv

-------------------------------------------------------------------------------
(* Decisions *)

LEMMA DecisionStepKeeps ==
  ASSUME IInv, NEW h \in Handlers, DecisionStep(h)
  PROVE  IInv'
<1>0. requests[h] \in Request
  BY DEF IInv, TypeOK
<1>1. CASE ConfirmReads(h)
  <2> DEFINE r == [Idle EXCEPT !.op = "confirm"]
  <2>1. r \in Request /\ ValidRequest(r)
    BY DEF Idle, Request, Ops, Verifications, ValidRequest
  <2> HIDE DEF r
  <2>2. QED
    BY <1>1, <2>1, StartKeeps DEF ConfirmReads, Start, r
<1>2. CASE ConfirmWrites(h)
  BY <1>2, ConfirmKeeps
<1>3. CASE ConfirmFails(h) \/ AcceptFails(h)
  BY <1>3, GiveUpKeeps DEF ConfirmFails, AcceptFails
<1>4. ASSUME NEW p \in DOMAIN proposals, AcceptReads(h, p)
      PROVE  IInv'
  <2> DEFINE r == [Idle EXCEPT !.op = "accept", !.proposal = p]
  <2>1. p \in Nat
    BY Domains DEF IInv
  <2>2. r \in Request
    BY <2>1 DEF Idle, Request, Ops, Verifications
  <2>3. ValidRequest(r)
    BY <1>4 DEF AcceptReads, Idle, ValidRequest
  <2> HIDE DEF r
  <2>4. QED
    BY <1>4, <2>2, <2>3, StartKeeps DEF AcceptReads, Start, r
<1>5. ASSUME NEW p \in DOMAIN proposals, NEW d \in {"rejected", "deferred"},
             DecideReads(h, p, d)
      PROVE  IInv'
  <2> DEFINE r == [Idle EXCEPT !.op = "decide", !.proposal = p, !.decision = d]
  <2>1. p \in Nat
    BY Domains DEF IInv
  <2>2. r \in Request /\ ValidRequest(r)
    BY <2>1 DEF Idle, Request, Ops, Verifications, ValidRequest
  <2> HIDE DEF r
  <2>3. QED
    BY <1>5, <2>2, StartKeeps DEF DecideReads, Start, r
<1>6. CASE AcceptWrites(h)
  BY <1>6, AcceptKeeps
<1>7. CASE DecideWrites(h)
  BY <1>7, DecideKeeps
<1>8. CASE ReconfirmReads(h)
  <2> DEFINE r == [Idle EXCEPT !.op = "reconfirm", !.base = current]
  <2>1. current \in DOMAIN snapshots /\ current \in Nat
    BY <1>8, CurrentExists, Domains DEF IInv, ReconfirmReads
  <2>2. r \in Request /\ ValidRequest(r)
    BY <2>1 DEF Idle, Request, Ops, Verifications, ValidRequest
  <2> HIDE DEF r
  <2>3. QED
    BY <1>8, <2>2, StartKeeps DEF ReconfirmReads, Start, r
<1>9. CASE ReconfirmChecks(h)
  <2> DEFINE r == [requests[h] EXCEPT !.op = "restore health"]
  <2>1. r \in Request /\ ValidRequest(r)
    BY <1>0, <1>9
    DEF ReconfirmChecks, IInv, RequestsRead, ValidRequest, Request, Ops
  <2> HIDE DEF r
  <2>2. \/ requests' = [requests EXCEPT ![h] = r]
        \/ requests' = [requests EXCEPT ![h] = Idle]
    BY <1>9 DEF ReconfirmChecks, r
  <2>3. QED
    BY <1>9, <2>1, <2>2, StartKeeps, IdleIsValid DEF ReconfirmChecks
<1>10. CASE ReconfirmWrites(h)
  <2>1. requests[h].base \in DOMAIN health /\ "current" \in Healths
    BY <1>10, Domains
    DEF ReconfirmWrites, IInv, RequestsRead, ValidRequest, Healths
  <2>2. health' \in Seq(Healths) /\ Len(health') = Len(health)
    <3>1. health \in Seq(Healths)
      BY DEF IInv, TypeOK
    <3>2. health' = [health EXCEPT ![requests[h].base] = "current"]
      BY <1>10 DEF ReconfirmWrites
    <3>3. QED
      BY <2>1, <3>1, <3>2, ExceptFacts
  <2>3. /\ requests' \in [Handlers -> Request]
        /\ \A g \in Handlers : requests'[g] = requests[g] \/ ValidRequest(requests'[g])
    BY <1>10, IdleIsValid DEF ReconfirmWrites, Done, IInv, TypeOK
  <2>4. Active' = Active /\ claims' \in [Claims -> Claim]
    BY <1>10 DEF ReconfirmWrites, Active, IInv, TypeOK
  <2>5. QED
    BY <1>10, <2>2, <2>3, <2>4, QuietKeeps DEF ReconfirmWrites
<1>11. QED
  BY <1>1, <1>2, <1>3, <1>4, <1>5, <1>6, <1>7, <1>8, <1>9, <1>10 DEF DecisionStep

-------------------------------------------------------------------------------
(* The theorems *)

LEMMA NextKeeps == IInv /\ [Next]_vars => IInv'
<1> SUFFICES ASSUME IInv, [Next]_vars PROVE IInv'
  OBVIOUS
<1>1. ASSUME NEW h \in Handlers, DecisionStep(h)
      PROVE  IInv'
  BY <1>1, DecisionStepKeeps
<1>2. ASSUME NEW h \in Handlers, NEW c \in Claims, EvidenceStep(h, c)
      PROVE  IInv'
  BY <1>2, EvidenceStepKeeps
<1>3. ASSUME NEW h \in Handlers, SuggestReads(h)
      PROVE  IInv'
  <2> DEFINE r == [Idle EXCEPT !.op = "suggest", !.base = current]
  <2>1. current \in DOMAIN snapshots /\ current \in Nat
    BY <1>3, CurrentExists, Domains DEF IInv, SuggestReads
  <2>2. r \in Request /\ ValidRequest(r)
    BY <2>1 DEF Idle, Request, Ops, Verifications, ValidRequest
  <2> HIDE DEF r
  <2>3. QED
    BY <1>3, <2>2, StartKeeps DEF SuggestReads, Start, r
<1>4. ASSUME NEW h \in Handlers, SuggestWrites(h)
      PROVE  IInv'
  BY <1>4, SuggestKeeps
<1>5. ASSUME NEW replaced \in SUBSET Claims, EditCanvas(replaced)
      PROVE  IInv'
  BY <1>5, EditKeeps
<1>6. CASE Crash
  BY <1>6, CrashKeeps
<1>7. CASE UNCHANGED vars
  <2>1. Reads /\ requests' = requests
    BY <1>7 DEF vars, Reads
  <2>2. QED
    BY <2>1, ReadsKeep DEF IInv, TypeOK
<1>8. QED
  BY <1>1, <1>2, <1>3, <1>4, <1>5, <1>6, <1>7 DEF Next

LEMMA IInvariant == Spec => []IInv
BY InitIInv, NextKeeps, PTL DEF Spec

\* The variables keep their types.
THEOREM TypeCorrect == Spec => []TypeOK
<1>1. IInv => TypeOK
  BY DEF IInv
<1>2. QED
  BY <1>1, IInvariant, PTL

\* However many confirmations and acceptances race, the snapshots are one chain
\* that ends at the current one.
THEOREM OneChain == Spec => []HistoryIsLinear
<1>1. IInv => HistoryIsLinear
  BY DEF IInv
<1>2. QED
  BY <1>1, IInvariant, PTL

\* No proposal is turned into two snapshots, and no snapshot comes from a proposal
\* computed against another base.
THEOREM ProposalsMakeOneSnapshot == Spec => []OneSnapshotPerProposal
<1>1. IInv => OneSnapshotPerProposal
  <2> SUFFICES ASSUME IInv PROVE OneSnapshotPerProposal
    OBVIOUS
  <2>1. ASSUME NEW i \in DOMAIN snapshots
        PROVE  /\ i \in Nat \ {0}
               /\ snapshots[i].supersedes = i - 1
               /\ IF i = 1 THEN snapshots[i].proposal = 0
                  ELSE /\ snapshots[i].proposal \in DOMAIN proposals
                       /\ proposals[snapshots[i].proposal].from = i - 1
    BY Domains DEF IInv, HistoryIsLinear, Origins
  <2>2. 0 \notin DOMAIN proposals
    BY Domains DEF IInv
  <2>3. ASSUME NEW i \in DOMAIN snapshots, NEW j \in DOMAIN snapshots,
               snapshots[i].proposal = snapshots[j].proposal
        PROVE  i = j
    BY <2>1, <2>2, <2>3
  <2>4. QED
    BY <2>1, <2>3 DEF IInv, AcceptedMadeOne, OneSnapshotPerProposal
<1>2. QED
  BY <1>1, IInvariant, PTL

\* The claims in force are those of the current snapshot.
THEOREM ClaimsFollowSnapshot == Spec => []ActiveClaimsAreCurrent
<1>1. IInv => ActiveClaimsAreCurrent
  BY DEF IInv
<1>2. QED
  BY <1>1, IInvariant, PTL

\* Concurrent analyses never open two evidence proposals for one claim.
THEOREM NoDuplicateProposal == Spec => []OneOpenProposalPerClaim
<1>1. IInv => OneOpenProposalPerClaim
  BY DEF IInv
<1>2. QED
  BY <1>1, IInvariant, PTL

\* An edited canvas always has its reconciliation proposal.
THEOREM EditsAreProposed == Spec => []EditedCanvasIsProposed
<1>1. IInv => EditedCanvasIsProposed
  BY DEF IInv
<1>2. QED
  BY <1>1, IInvariant, PTL

LEMMA MarksStay ==
  ASSUME IInv, [Next]_vars
  PROVE  MarkClearedByHuman \/ UNCHANGED vars
<1>1. ASSUME health' = health
      PROVE  MarkClearedByHuman
  BY <1>1 DEF MarkClearedByHuman
<1>2. ASSUME NEW base, NEW c, NEW status \in {"needs_review", "stale_evidence"},
             Mark(base, c, status)
      PROVE  MarkClearedByHuman
  <2>1. \A i \in DOMAIN health : health'[i] \in {health[i], status}
    BY <1>2, MarkFacts DEF IInv, Healths
  <2>2. QED
    BY <2>1 DEF MarkClearedByHuman
<1>3. ASSUME NEW h \in Handlers, DecisionStep(h)
      PROVE  MarkClearedByHuman
  <2>1. CASE ConfirmWrites(h)
    <3>1. health' = Append(health, "current") /\ health \in Seq(Healths)
          /\ "current" \in Healths
      BY <2>1 DEF ConfirmWrites, IInv, TypeOK, Healths
    <3>2. \A i \in DOMAIN health : health'[i] = health[i]
      BY <3>1, AppendFacts, SeqDomain
    <3>3. QED
      BY <3>2 DEF MarkClearedByHuman
  <2>2. CASE AcceptWrites(h)
    <3> DEFINE old == [health EXCEPT ![current] = "superseded"]
    <3>1. /\ current \in DOMAIN health /\ health \in Seq(Healths)
          /\ "current" \in Healths /\ "superseded" \in Healths
      BY <2>2, AcceptedAgainstCurrent, Domains DEF IInv, TypeOK, Healths
    <3>2. health' = Append(old, "current")
      BY <2>2, AcceptedAgainstCurrent DEF AcceptWrites
    <3>3. old \in Seq(Healths) /\ Len(old) = Len(health)
      BY <3>1, ExceptFacts
    <3>4. \A i \in DOMAIN health : old[i] \in {health[i], "superseded"}
      BY <3>1
    <3> HIDE DEF old
    <3>5. \A i \in DOMAIN health : health'[i] = old[i]
      BY <3>1, <3>2, <3>3, AppendFacts, SeqDomain
    <3>6. QED
      BY <3>4, <3>5 DEF MarkClearedByHuman
  <2>3. CASE ReconfirmWrites(h)
    <3>1. requests[h].op = "restore health" /\ requests'[h].op = "idle"
      BY <2>3 DEF ReconfirmWrites, Done, Idle, IInv, TypeOK
    <3>2. \A i \in DOMAIN health : i # requests[h].base => health'[i] = health[i]
      BY <2>3 DEF ReconfirmWrites
    <3>3. QED
      BY <3>1, <3>2 DEF MarkClearedByHuman
  <2>4. CASE \/ ConfirmReads(h) \/ ConfirmFails(h) \/ AcceptFails(h) \/ DecideWrites(h)
             \/ ReconfirmReads(h) \/ ReconfirmChecks(h)
             \/ \E p \in DOMAIN proposals :
                   \/ AcceptReads(h, p)
                   \/ \E d \in {"rejected", "deferred"} : DecideReads(h, p, d)
    BY <1>1, <2>4 DEF ConfirmReads, ConfirmFails, AcceptFails, DecideWrites,
      ReconfirmReads, ReconfirmChecks, AcceptReads, DecideReads, Reads, GiveUp
  <2>5. QED
    BY <1>3, <2>1, <2>2, <2>3, <2>4 DEF DecisionStep
<1>4. ASSUME NEW h \in Handlers, NEW c \in Claims, EvidenceStep(h, c)
      PROVE  MarkClearedByHuman
  <2>1. CASE AnalyseReads(h, c) \/ ImpactReads(h, c) \/ SourceReads(h, c) \/ ClaimGone(h, c)
             \/ AnalysisEnds(h)
             \/ \E after \in Observed : PersistRelation(h, c, after)
    BY <1>1, <2>1 DEF AnalyseReads, ImpactReads, SourceReads, ClaimGone,
      AnalysisEnds, PersistRelation, Reads, GiveUp
  <2>2. CASE ImpactWrites(h, c)
    BY <1>2, <2>2 DEF ImpactWrites, ResolveImpact
  <2>3. ASSUME NEW after \in Observed, NEW archived \in BOOLEAN,
               SourceWrites(h, c, after, archived)
        PROVE  MarkClearedByHuman
    <3>1. HealthAfter(after, archived) \in {"needs_review", "stale_evidence"}
      BY DEF HealthAfter
    <3>2. QED
      BY <1>1, <1>2, <2>3, <3>1 DEF SourceWrites, ResolveImpact
  <2>4. QED
    BY <1>4, <2>1, <2>2, <2>3 DEF EvidenceStep
<1>5. ASSUME NEW replaced \in SUBSET Claims, EditCanvas(replaced)
      PROVE  MarkClearedByHuman
  <2>1. CASE health' = [health EXCEPT ![current] = "needs_review"]
    <3>1. \A i \in DOMAIN health : health'[i] \in {health[i], "needs_review"}
      BY <2>1
    <3>2. QED
      BY <3>1 DEF MarkClearedByHuman
  <2>2. QED
    BY <1>1, <1>5, <2>1 DEF EditCanvas
<1>6. ASSUME NEW h \in Handlers, SuggestReads(h) \/ SuggestWrites(h)
      PROVE  MarkClearedByHuman
  BY <1>1, <1>6 DEF SuggestReads, SuggestWrites, Reads
<1>7. CASE Crash
  BY <1>1, <1>7 DEF Crash
<1>8. QED
  BY <1>3, <1>4, <1>5, <1>6, <1>7 DEF Next

\* No decision on a proposal and no evidence takes a snapshot out of review: only
\* the human reconfirmation does.
THEOREM OnlyHumansClear == Spec => ReviewEndsWithHuman
<1>1. IInv /\ [Next]_vars => [MarkClearedByHuman]_vars
  BY MarksStay
<1>2. QED
  BY <1>1, IInvariant, PTL DEF Spec, ReviewEndsWithHuman

-------------------------------------------------------------------------------
(* Refinement *)

\* The history that the refinement mapping computes.
Hist == [i \in 1 .. Len(snapshots) |-> snapshots[i].proposal]

LEMMA HistFacts ==
  ASSUME IInv
  PROVE  /\ Hist \in Seq(Nat) /\ Len(Hist) = Len(snapshots)
         /\ DOMAIN Hist = DOMAIN snapshots
         /\ \A i \in DOMAIN snapshots : Hist[i] = snapshots[i].proposal
<1>1. /\ DOMAIN snapshots = 1 .. Len(snapshots) /\ Len(snapshots) \in Nat
      /\ \A i \in 1 .. Len(snapshots) : snapshots[i].proposal \in Nat
  BY Domains DEF IInv, Snapshot
<1>2. Hist \in [1 .. Len(snapshots) -> Nat]
  BY <1>1 DEF Hist
<1>3. QED
  BY <1>1, <1>2, SeqOfFunction DEF Hist

\* Only a confirmation or an acceptance touches the snapshots.
LEMMA SnapshotsChange ==
  ASSUME [Next]_vars
  PROVE  \/ UNCHANGED snapshots
         \/ \E h \in Handlers : ConfirmWrites(h) \/ AcceptWrites(h)
<1>1. ASSUME NEW h \in Handlers, DecisionStep(h)
      PROVE  UNCHANGED snapshots \/ ConfirmWrites(h) \/ AcceptWrites(h)
  BY <1>1 DEF DecisionStep, ConfirmReads, ConfirmFails, AcceptFails, DecideWrites,
    ReconfirmReads, ReconfirmChecks, ReconfirmWrites, AcceptReads, DecideReads,
    Reads, GiveUp
<1>2. ASSUME NEW h \in Handlers, NEW c \in Claims, EvidenceStep(h, c)
      PROVE  UNCHANGED snapshots
  BY <1>2 DEF EvidenceStep, AnalyseReads, ImpactReads, ImpactWrites, SourceReads,
    SourceWrites, ClaimGone, AnalysisEnds, PersistRelation, Reads, GiveUp
<1>3. ASSUME NEW h \in Handlers, SuggestReads(h) \/ SuggestWrites(h)
      PROVE  UNCHANGED snapshots
  BY <1>3 DEF SuggestReads, SuggestWrites, Reads
<1>4. ASSUME NEW replaced \in SUBSET Claims, EditCanvas(replaced)
      PROVE  UNCHANGED snapshots
  BY <1>4 DEF EditCanvas
<1>5. CASE Crash \/ UNCHANGED vars
  BY <1>5 DEF Crash, vars
<1>6. QED
  BY <1>1, <1>2, <1>3, <1>4, <1>5 DEF Next

LEMMA ConfirmIsConfirm ==
  ASSUME IInv, IInv', NEW h \in Handlers, ConfirmWrites(h)
  PROVE  Hist = <<>> /\ Hist' = <<0>>
<1> DEFINE first == [version |-> 1, supersedes |-> 0,
                     claims |-> InitialClaims, proposal |-> 0]
<1>1. Len(snapshots) = 0
  <2>1. 1 \notin DOMAIN snapshots
    BY DEF ConfirmWrites, IInv, HistoryIsLinear, VersionTaken
  <2>2. QED
    BY <2>1, Domains DEF IInv
<1>2. snapshots' = Append(snapshots, first) /\ first.proposal = 0
  BY DEF ConfirmWrites
<1>3. first \in Snapshot
  BY ClaimsAssumption DEF Snapshot
<1> HIDE DEF first
<1>4. Len(snapshots') = 1 /\ snapshots'[1] = first
  BY <1>1, <1>2, <1>3, AppendFacts DEF IInv, TypeOK
<1>5. Hist = <<>>
  BY <1>1 DEF Hist
<1>6. Hist' = <<0>>
  BY <1>2, <1>4 DEF Hist
<1>7. QED
  BY <1>5, <1>6

LEMMA AcceptIsAdopt ==
  ASSUME IInv, IInv', NEW h \in Handlers, AcceptWrites(h)
  PROVE  /\ Hist # <<>>
         /\ \E p \in History!Origins(Hist') \ History!Origins(Hist) :
               Hist' = Append(Hist, p)
<1> DEFINE p == requests[h].proposal
           n == Len(snapshots) + 1
<1>1. /\ p \in DOMAIN proposals /\ proposals[p].from = current
      /\ current \in DOMAIN snapshots /\ current = Len(snapshots)
      /\ NextVersion(current) = n
      /\ Len(snapshots) \in Nat /\ p \in Nat \ {0}
      /\ DOMAIN snapshots = 1 .. Len(snapshots)
  BY AcceptedAgainstCurrent, Domains DEF IInv
<1>2. PICK linked : snapshots' = Insert(current, p, linked)
  BY <1>1 DEF AcceptWrites
<1> DEFINE new == [version |-> n, supersedes |-> current,
                   claims |-> linked, proposal |-> p]
<1>3. snapshots' = Append(snapshots, new) /\ new.proposal = p
  BY <1>1, <1>2 DEF Insert
<1> HIDE DEF new, p
<1>4. /\ Len(snapshots') = n /\ snapshots'[n] = new
      /\ \A i \in DOMAIN snapshots : snapshots'[i] = snapshots[i]
  BY <1>1, <1>3 DEF IInv, TypeOK
<1>5. /\ Hist \in Seq(Nat) /\ Len(Hist) = Len(snapshots)
      /\ DOMAIN Hist = DOMAIN snapshots
      /\ \A i \in DOMAIN snapshots : Hist[i] = snapshots[i].proposal
  BY HistFacts
<1>6. Hist' = Append(Hist, p)
  <2>1. /\ Append(Hist, p) \in Seq(Nat) /\ Len(Append(Hist, p)) = n
        /\ \A i \in 1 .. Len(Hist) : Append(Hist, p)[i] = Hist[i]
        /\ Append(Hist, p)[n] = p
    BY <1>1, <1>5, AppendFacts
  <2>2. Hist' = [i \in 1 .. n |-> snapshots'[i].proposal]
    BY <1>4 DEF Hist
  <2>3. \A i \in 1 .. n : snapshots'[i].proposal = Append(Hist, p)[i]
    BY <1>1, <1>3, <1>4, <1>5, <2>1
  <2>4. Append(Hist, p) = [i \in 1 .. n |-> Append(Hist, p)[i]]
    BY <2>1, SeqDomain
  <2>5. QED
    BY <2>2, <2>3, <2>4
<1>7. p \in History!Origins(Hist')
  <2>1. n \in DOMAIN Hist' /\ Hist'[n] = p
    BY <1>1, <1>3, <1>4 DEF Hist
  <2>2. QED
    BY <2>1 DEF History!Origins
<1>8. p \notin History!Origins(Hist)
  <2>1. ASSUME NEW i \in DOMAIN snapshots
        PROVE  snapshots[i].proposal # p
    <3>1. CASE i = 1
      BY <1>1, <3>1 DEF IInv, Origins
    <3>2. CASE i # 1
      BY <1>1, <3>2 DEF IInv, Origins
    <3>3. QED
      BY <3>1, <3>2
  <2>2. QED
    BY <1>5, <2>1 DEF History!Origins
<1>9. Hist # <<>>
  BY <1>1, <1>5
<1>10. QED
  BY <1>6, <1>7, <1>8, <1>9

\* The snapshots of a project implement the abstract history: every behaviour of the
\* requests is a confirmation followed by adoptions of distinct proposals.
THEOREM SnapshotsImplementHistory == Spec => ImplementsHistory
<1>1. Init => History!HistoryInit
  BY DEF Init, History!HistoryInit
<1>2. ASSUME IInv, IInv', [Next]_vars
      PROVE  [History!HistoryNext]_Hist
  <2>1. CASE UNCHANGED snapshots
    BY <2>1 DEF Hist
  <2>2. ASSUME NEW h \in Handlers, ConfirmWrites(h)
        PROVE  History!HistoryNext
    BY <1>2, <2>2, ConfirmIsConfirm DEF History!HistoryNext, History!Confirm, Hist
  <2>3. ASSUME NEW h \in Handlers, AcceptWrites(h)
        PROVE  History!HistoryNext
    BY <1>2, <2>3, AcceptIsAdopt DEF History!HistoryNext, History!Adopt, Hist
  <2>4. QED
    BY <1>2, <2>1, <2>2, <2>3, SnapshotsChange
<1>3. QED
  BY <1>1, <1>2, IInvariant, PTL DEF Spec, ImplementsHistory, History!HistorySpec, Hist

-------------------------------------------------------------------------------
(* What is recorded stands *)

\* Snapshots are added, as one whole, and never rewritten.
SnapshotsStand ==
    \A i \in DOMAIN snapshots : i \in DOMAIN snapshots' /\ snapshots'[i] = snapshots[i]

\* What a proposal says is never edited, and one that is decided is not open again.
ProposalsStand ==
    \A p \in DOMAIN proposals :
        /\ p \in DOMAIN proposals'
        /\ proposals'[p].from = proposals[p].from
        /\ proposals'[p].kind = proposals[p].kind
        /\ proposals'[p].affected = proposals[p].affected
        /\ proposals'[p].replaces = proposals[p].replaces
        /\ proposals[p].status # "open" => proposals'[p].status # "open"

\* Claims come into force, and are superseded, and do not come back.
ClaimsAge ==
    \A c \in Claims :
        <<claims[c].status, claims'[c].status>> \in
            {<<"absent", "absent">>, <<"absent", "active">>, <<"active", "active">>,
             <<"active", "superseded">>, <<"superseded", "superseded">>}

(* The definition of a product is auditable: no request, whatever it read and however late
   it writes, edits a snapshot or the text of a proposal, opens a decided proposal again,
   brings a superseded claim back into force, or supersedes one that never was (snapshots.py;
   change_proposals.py, whose UPDATEs name an id and check nothing). *)
RecordsStand == [][SnapshotsStand /\ ProposalsStand /\ ClaimsAge]_vars

\* Before the first snapshot there are no claims, not even superseded ones.
NoneBefore == current = 0 => \A c \in Claims : claims[c].status = "absent"

ProposalStays(p) ==
    /\ p \in DOMAIN proposals' /\ proposals'[p] = proposals[p]

LEMMA StaysStands ==
  ASSUME \A p \in DOMAIN proposals : ProposalStays(p)
  PROVE  ProposalsStand
BY DEF ProposalStays, ProposalsStand

\* A proposal is added.
LEMMA AddedStands ==
  ASSUME IInv, NEW base \in DOMAIN snapshots, NEW kind \in {"evidence", "canvas", "suggested"},
         NEW affected \in SUBSET Claims, NEW replaces \in SUBSET Claims,
         Propose(base, kind, affected, replaces)
  PROVE  ProposalsStand
<1>1. /\ DOMAIN proposals' = 1 .. (Len(proposals) + 1)
      /\ \A p \in DOMAIN proposals : proposals'[p] = proposals[p]
  BY ProposeFacts DEF IInv
<1>2. DOMAIN proposals = 1 .. Len(proposals) /\ Len(proposals) \in Nat
  BY Domains DEF IInv
<1>3. QED
  BY <1>1, <1>2, StaysStands DEF ProposalStays

LEMMA ImpactStands ==
  ASSUME IInv, NEW base \in DOMAIN snapshots, NEW c \in Claims, NEW status,
         ResolveImpact(base, c, status)
  PROVE  ProposalsStand
<1>1. CASE UNCHANGED proposals
  BY <1>1, StaysStands DEF ProposalStays
<1>2. CASE Propose(base, "evidence", {c}, {})
  BY <1>2, AddedStands
<1>3. QED
  BY <1>1, <1>2 DEF ResolveImpact

\* A proposal is decided, and not by opening it.
LEMMA DecidedStands ==
  ASSUME IInv, NEW p \in DOMAIN proposals, NEW s \in {"accepted", "rejected", "deferred"},
         proposals' = Decided(p, s)
  PROVE  ProposalsStand
BY StatusFacts DEF IInv, ProposalsStand

\* What is known of a claim changes, not whether it is in force.
LEMMA ObservedAge ==
  ASSUME IInv, NEW c \in Claims, NEW after \in Observed,
         claims' = [claims EXCEPT ![c].verified = after]
  PROVE  ClaimsAge /\ \A d \in Claims : claims'[d].status = claims[d].status
<1>1. \A d \in Claims : claims'[d].status = claims[d].status
  BY DEF IInv, TypeOK, Claim
<1>2. QED
  BY <1>1 DEF ClaimsAge, IInv, TypeOK, Claim

LEMMA RecordsNext ==
  ASSUME IInv, IInv', NoneBefore, [Next]_vars
  PROVE  SnapshotsStand /\ ProposalsStand /\ ClaimsAge /\ NoneBefore'
<1>1. ASSUME UNCHANGED snapshots PROVE SnapshotsStand
  BY <1>1 DEF SnapshotsStand
<1>2. ASSUME UNCHANGED proposals PROVE ProposalsStand
  BY <1>2, StaysStands DEF ProposalStays
<1>3. ASSUME UNCHANGED claims PROVE ClaimsAge
  <2>1. \A c \in Claims : claims[c].status \in {"absent", "active", "superseded"}
    BY DEF IInv, TypeOK, Claim
  <2>2. QED
    BY <1>3, <2>1 DEF ClaimsAge
<1>4. ASSUME UNCHANGED current, \A c \in Claims : claims'[c].status = claims[c].status
      PROVE  NoneBefore'
  BY <1>4 DEF NoneBefore
<1>5. ASSUME UNCHANGED <<snapshots, current, proposals, claims>>
      PROVE  SnapshotsStand /\ ProposalsStand /\ ClaimsAge /\ NoneBefore'
  BY <1>1, <1>2, <1>3, <1>4, <1>5
<1>6. ASSUME NEW h \in Handlers, ConfirmWrites(h)
      PROVE  SnapshotsStand /\ ProposalsStand /\ ClaimsAge /\ NoneBefore'
  <2>1. 1 \notin DOMAIN snapshots
    BY <1>6 DEF ConfirmWrites, IInv, HistoryIsLinear, VersionTaken
  <2>2. Len(snapshots) = 0 /\ current = 0 /\ DOMAIN snapshots = {}
    BY <2>1, Domains DEF IInv, HistoryIsLinear
  <2>3. \A c \in Claims : claims[c].status = "absent"
    BY <2>2 DEF NoneBefore
  <2>4. \A c \in Claims : claims'[c].status \in {"absent", "active"}
    BY <1>6, <2>3 DEF ConfirmWrites
  <2>5. ClaimsAge
    BY <2>3, <2>4 DEF ClaimsAge
  <2>6. UNCHANGED proposals /\ current' = 1
    BY <1>6, <2>2 DEF ConfirmWrites
  <2>7. QED
    BY <1>2, <2>2, <2>5, <2>6 DEF SnapshotsStand, NoneBefore
<1>7. ASSUME NEW h \in Handlers, AcceptWrites(h)
      PROVE  SnapshotsStand /\ ProposalsStand /\ ClaimsAge /\ NoneBefore'
  <2> DEFINE p == requests[h].proposal
             replaced == proposals[p].replaces
  <2>1. /\ p \in DOMAIN proposals /\ current \in DOMAIN snapshots
        /\ current = Len(snapshots) /\ replaced \subseteq Active
        /\ proposals[p].from = current
    BY <1>7, AcceptedAgainstCurrent
  <2>2. proposals' = Decided(p, "accepted") /\ current' = Len(snapshots) + 1
    BY <1>7 DEF AcceptWrites, Decided
  <2>3. ProposalsStand
    BY <2>1, <2>2, DecidedStands
  <2>4. PICK fresh \in SUBSET Absent :
          /\ claims' = Replaced(replaced, fresh)
          /\ snapshots' = Insert(current, p,
               ((snapshots[current].claims \cap Active) \ replaced) \cup fresh)
    BY <1>7, <2>1 DEF AcceptWrites
  <2>5. ClaimsAge
    <3>1. claims \in [Claims -> Claim] /\ claims' \in [Claims -> Claim]
      BY DEF IInv, TypeOK
    <3>2. ASSUME NEW c \in Claims
          PROVE  claims'[c].status = IF c \in replaced THEN "superseded"
                                     ELSE IF c \in fresh THEN "active"
                                     ELSE claims[c].status
      BY <2>4, <3>1 DEF Replaced, Claim
    <3>3. /\ \A c \in replaced : claims[c].status = "active"
          /\ \A c \in fresh : claims[c].status = "absent"
      BY <2>1, <2>4 DEF Active, Absent
    <3>4. \A c \in Claims : claims[c].status \in {"absent", "active", "superseded"}
      BY <3>1 DEF Claim
    <3> HIDE DEF replaced
    <3>5. QED
      BY <3>2, <3>3, <3>4 DEF ClaimsAge
  <2>6. SnapshotsStand
    <3> DEFINE linked == ((snapshots[current].claims \cap Active) \ replaced) \cup fresh
               new == [version |-> NextVersion(current), supersedes |-> current,
                       claims |-> linked, proposal |-> p]
    <3>1. snapshots' = Append(snapshots, new)
      BY <2>4 DEF Insert
    <3> HIDE DEF new
    <3>2. snapshots \in Seq(Snapshot)
      BY DEF IInv, TypeOK
    <3>3. \A i \in DOMAIN snapshots : /\ i \in DOMAIN Append(snapshots, new)
                                      /\ Append(snapshots, new)[i] = snapshots[i]
      BY <3>2
    <3>4. QED
      BY <3>1, <3>3 DEF SnapshotsStand
  <2>7. current' # 0
    BY <2>2, Domains DEF IInv
  <2>8. QED
    BY <2>3, <2>5, <2>6, <2>7 DEF NoneBefore
<1>8. ASSUME NEW h \in Handlers, DecideWrites(h)
      PROVE  SnapshotsStand /\ ProposalsStand /\ ClaimsAge /\ NoneBefore'
  <2> DEFINE p == requests[h].proposal
             d == requests[h].decision
  <2>1. /\ p \in DOMAIN proposals /\ d \in {"rejected", "deferred"}
    BY <1>8 DEF DecideWrites, IInv, RequestsRead, ValidRequest, TypeOK, Request
  <2>2. proposals' = Decided(p, d) /\ UNCHANGED <<snapshots, current, claims>>
    BY <1>8 DEF DecideWrites, Decided
  <2>3. ProposalsStand
    BY <2>1, <2>2, DecidedStands
  <2>4. QED
    BY <1>1, <1>3, <1>4, <2>2, <2>3
<1>9. ASSUME NEW h \in Handlers, DecisionStep(h)
      PROVE  SnapshotsStand /\ ProposalsStand /\ ClaimsAge /\ NoneBefore'
  <2>1. \/ ConfirmWrites(h) \/ AcceptWrites(h) \/ DecideWrites(h)
        \/ UNCHANGED <<snapshots, current, proposals, claims>>
    BY <1>9 DEF DecisionStep, ConfirmReads, ConfirmFails, AcceptFails, ReconfirmReads,
      ReconfirmChecks, ReconfirmWrites, AcceptReads, DecideReads, Reads, GiveUp
  <2>2. QED
    BY <1>5, <1>6, <1>7, <1>8, <2>1
<1>10. ASSUME NEW h \in Handlers, NEW c \in Claims, EvidenceStep(h, c)
       PROVE  SnapshotsStand /\ ProposalsStand /\ ClaimsAge /\ NoneBefore'
  <2>1. CASE \/ AnalyseReads(h, c) \/ ImpactReads(h, c) \/ SourceReads(h, c)
             \/ ClaimGone(h, c) \/ AnalysisEnds(h)
    BY <1>5, <2>1 DEF AnalyseReads, ImpactReads, SourceReads, ClaimGone, AnalysisEnds,
      Reads, GiveUp
  <2>2. CASE ImpactWrites(h, c)
    <3>1. requests[h].base \in DOMAIN snapshots
      BY <2>2 DEF ImpactWrites, IInv, RequestsRead, ValidRequest
    <3>2. ProposalsStand
      BY <2>2, <3>1, ImpactStands DEF ImpactWrites
    <3>3. QED
      BY <1>1, <1>3, <1>4, <2>2, <3>2 DEF ImpactWrites
  <2>3. ASSUME NEW after \in Observed, PersistRelation(h, c, after)
        PROVE  SnapshotsStand /\ ProposalsStand /\ ClaimsAge /\ NoneBefore'
    BY <1>1, <1>2, <1>4, <2>3, ObservedAge DEF PersistRelation
  <2>4. ASSUME NEW after \in Observed, NEW archived \in BOOLEAN,
               SourceWrites(h, c, after, archived)
        PROVE  SnapshotsStand /\ ProposalsStand /\ ClaimsAge /\ NoneBefore'
    <3>1. ProposalsStand
      <4>1. CASE current # 0 /\ MaterialChange(c, requests[h].before, after)
        <5>1. current \in DOMAIN snapshots
          BY <4>1, CurrentExists
        <5>2. ResolveImpact(current, c, HealthAfter(after, archived))
          BY <2>4, <4>1 DEF SourceWrites
        <5>3. QED
          BY <5>1, <5>2, ImpactStands
      <4>2. CASE ~(current # 0 /\ MaterialChange(c, requests[h].before, after))
        BY <1>2, <2>4, <4>2 DEF SourceWrites
      <4>3. QED
        BY <4>1, <4>2
    <3>2. QED
      BY <1>1, <1>4, <2>4, <3>1, ObservedAge DEF SourceWrites
  <2>5. QED
    BY <1>10, <2>1, <2>2, <2>3, <2>4 DEF EvidenceStep
<1>11. ASSUME NEW replaced \in SUBSET Claims, EditCanvas(replaced)
       PROVE  SnapshotsStand /\ ProposalsStand /\ ClaimsAge /\ NoneBefore'
  <2>1. ProposalsStand
    <3>1. CASE current = 0
      BY <1>2, <1>11, <3>1 DEF EditCanvas
    <3>2. CASE current # 0
      BY <1>11, <3>2, CurrentExists, AddedStands DEF EditCanvas
    <3>3. QED
      BY <3>1, <3>2
  <2>2. QED
    BY <1>1, <1>3, <1>4, <1>11, <2>1 DEF EditCanvas
<1>12. ASSUME NEW h \in Handlers, SuggestReads(h) \/ SuggestWrites(h)
       PROVE  SnapshotsStand /\ ProposalsStand /\ ClaimsAge /\ NoneBefore'
  <2>1. CASE SuggestReads(h)
    BY <1>5, <2>1 DEF SuggestReads, Reads
  <2>2. CASE SuggestWrites(h)
    <3>1. requests[h].base \in DOMAIN snapshots
      BY <2>2 DEF SuggestWrites, IInv, RequestsRead, ValidRequest
    <3>2. ProposalsStand
      BY <2>2, <3>1, AddedStands DEF SuggestWrites
    <3>3. QED
      BY <1>1, <1>3, <1>4, <2>2, <3>2 DEF SuggestWrites
  <2>3. QED
    BY <1>12, <2>1, <2>2
<1>13. CASE Crash \/ UNCHANGED vars
  BY <1>5, <1>13 DEF Crash, vars
<1>14. QED
  BY <1>9, <1>10, <1>11, <1>12, <1>13 DEF Next

(* Snapshots and the text of proposals are never edited, decided proposals are not opened
   again, and claims only ever go from absent to in force to superseded, whatever requests
   write on the strength of what they read earlier (snapshots.py, change_proposals.py). *)
THEOREM RecordsAreKept == Spec => RecordsStand
<1>1. Init => NoneBefore
  BY DEF Init, NoneBefore
<1>2. IInv /\ IInv' /\ NoneBefore /\ [Next]_vars =>
        NoneBefore' /\ [SnapshotsStand /\ ProposalsStand /\ ClaimsAge]_vars
  BY RecordsNext
<1>3. QED
  BY <1>1, <1>2, IInvariant, PTL DEF Spec, RecordsStand

===============================================================================
