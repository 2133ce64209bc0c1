------------------------------ MODULE HandoffProofs ------------------------------
(***************************************************************************)
(* Proofs about Handoff and the DocumentVersions it extends, for any       *)
(* workload: any number of document requests and exports at a time, of     *)
(* versions, snapshots, sources and types of document.                     *)
(*                                                                         *)
(* What a document depends on and cites is fixed once it is recorded, and  *)
(* approval is never taken back: that is why packages built from reads of  *)
(* different moments rest on confirmed documents of their own snapshot.    *)
(***************************************************************************)
EXTENDS Handoff, WellFoundedInduction, TLAPS

-------------------------------------------------------------------------------
(* Greatest elements *)

LEMMA LeastExists ==
  ASSUME NEW T, T \subseteq Nat, T # {}
  PROVE  \E x \in T : \A y \in T : x <= y
<1>1. IsWellFoundedOn(OpToRel(<, Nat), Nat)
  BY NatLessThanWellFounded
<1>2. PICK x \in T : \A y \in T : ~(<<y, x>> \in OpToRel(<, Nat))
  BY <1>1, WFMin
<1>3. \A y \in T : ~(y < x)
  BY <1>2 DEF OpToRel
<1>4. QED
  BY <1>3

LEMMA GreatestExists ==
  ASSUME NEW n \in Nat, NEW T, T \subseteq 0 .. n, T # {}
  PROVE  \E x \in T : \A y \in T : y <= x
<1> DEFINE U == {m \in Nat : n - m \in T}
<1>1. U # {}
  <2>1. PICK x \in T : TRUE
    OBVIOUS
  <2>2. n - x \in Nat /\ n - (n - x) = x
    BY <2>1
  <2>3. QED
    BY <2>1, <2>2
<1>2. PICK m \in U : \A k \in U : m <= k
  BY <1>1, LeastExists
<1>3. ASSUME NEW y \in T PROVE y <= n - m
  <2>1. n - y \in Nat /\ n - (n - y) = y
    OBVIOUS
  <2>2. n - y \in U
    BY <2>1
  <2>3. QED
    BY <1>2, <2>1, <2>2
<1>4. QED
  BY <1>2, <1>3

-------------------------------------------------------------------------------
(* The invariant of the documents *)

DocumentTypes ==
    /\ workload \in Workloads
    /\ sources \in SUBSET Sources
    /\ snapshot \in Nat
    /\ versions \in Seq(Version)
    /\ \A v \in DOMAIN versions : versions[v].number <= Len(versions)
    /\ drafts \in [workload.types -> Nat]
    /\ \A d \in workload.types : drafts[d] # 0 => drafts[d] \in DOMAIN versions
    /\ requests \in [Handlers -> Request]

\* What a request has read is still so.
Holds(request) ==
    /\ request.op \in {"inserted", "confirm", "purge", "validate", "create"} =>
         request.version \in DOMAIN versions
    /\ request.op \in {"numbered", "create"} => request.number \in 1 .. Len(versions) + 1
    /\ request.op \in {"collected", "numbered", "inserted"} /\ ~request.lost =>
         request.cites \subseteq sources
    /\ request.op = "inserted" => /\ versions[request.version].base = 0
                                  /\ versions[request.version].cites = request.cites

\* A version whose dependencies are not recorded yet is with the request that made it.
OneEach ==
    \A g, h \in Handlers :
        /\ requests[g].op = "inserted" /\ requests[h].op = "inserted"
        /\ requests[g].version = requests[h].version
        => g = h

CurrentRests ==
    \A v \in DOMAIN versions \ raced :
        versions[v].base # 0 /\ versions[v].health = "current"
            => versions[v].cites \subseteq sources

DocInv ==
    /\ DocumentTypes
    /\ \A h \in Handlers : Holds(requests[h])
    /\ OneEach
    /\ CurrentRests

\* What no step changes in a version.
Remains(before, after) ==
    /\ after.doc = before.doc /\ after.number = before.number
    /\ after.cites = before.cites
    /\ after.claims = before.claims
    /\ before.approved => after.approved
    /\ before.base # 0 => after.base = before.base

VersionsRemain ==
    /\ DOMAIN versions \subseteq DOMAIN versions'
    /\ \A v \in DOMAIN versions : Remains(versions[v], versions'[v])

LEMMA IdleHolds ==
  /\ Idle \in Request /\ Idle.op = "idle" /\ Idle.cites = {} /\ Idle.version = 0
  /\ Idle.lost = FALSE
BY DEF Idle, Request, Ops

LEMMA TypesAreDocTypes == workload \in Workloads => workload.types \subseteq DocTypes
BY WorkloadsAssumption

LEMMA VersionFields ==
  ASSUME DocumentTypes, NEW v \in DOMAIN versions
  PROVE  versions[v] \in Version /\ v \in Nat /\ v # 0 /\ v \in 1 .. Len(versions)
BY DEF DocumentTypes

LEMMA DocInvImplies == DocInv => CurrentRestsOnActive
BY DEF DocInv, CurrentRests, CurrentRestsOnActive

LEMMA DocInitInv == DocInit => DocInv
<1> SUFFICES ASSUME DocInit PROVE DocInv
  OBVIOUS
<1>1. /\ versions = <<>> /\ versions \in Seq(Version) /\ DOMAIN versions = {}
      /\ \A h \in Handlers : requests[h] = Idle
      /\ requests \in [Handlers -> Request]
  BY IdleHolds DEF DocInit
<1>2. DocumentTypes
  BY <1>1 DEF DocInit, DocumentTypes
<1>3. QED
  BY <1>1, <1>2, IdleHolds DEF DocInv, Holds, OneEach, CurrentRests

LEMMA RequestIs ==
  ASSUME DocumentTypes, NEW h \in Handlers, NEW request \in Request,
         requests' = [requests EXCEPT ![h] = request]
  PROVE  /\ requests' \in [Handlers -> Request]
         /\ requests'[h] = request
         /\ \A g \in Handlers : g # h => requests'[g] = requests[g]
BY DEF DocumentTypes

\* A number that UNIQUE(document_id, version) will accept, as long as nobody takes it.
LEMMA NextNumberIs ==
  ASSUME DocumentTypes, NEW d
  PROVE  NextNumber(d) \in 1 .. Len(versions) + 1
<1>1. Len(versions) \in Nat /\ Numbers(d) \subseteq 1 .. Len(versions)
  BY VersionFields DEF Numbers, DocumentTypes, Version
<1>2. \E n \in 1 .. Len(versions) + 1 : /\ \A m \in Numbers(d) : m < n
                                        /\ n = 1 \/ n - 1 \in Numbers(d)
  <2>1. CASE Numbers(d) = {}
    BY <1>1, <2>1
  <2>2. CASE Numbers(d) # {}
    <3>1. Numbers(d) \subseteq 0 .. Len(versions)
      BY <1>1
    <3>2. PICK x \in Numbers(d) : \A y \in Numbers(d) : y <= x
      BY <1>1, <2>2, <3>1, GreatestExists
    <3>3. /\ x + 1 \in 1 .. Len(versions) + 1 /\ (x + 1) - 1 \in Numbers(d)
          /\ \A m \in Numbers(d) : m < x + 1
      BY <1>1, <3>2
    <3>4. QED
      BY <3>3
  <2>3. QED
    BY <2>1, <2>2
<1>3. QED
  BY <1>2 DEF NextNumber

-------------------------------------------------------------------------------
(* Steps of the documents *)

\* A request reads, or gives up.
LEMMA ReadsKeep ==
  ASSUME DocInv, NEW h \in Handlers, NEW request \in Request, Reads,
         requests' = [requests EXCEPT ![h] = request],
         Holds(request), request.op # "inserted"
  PROVE  DocInv' /\ VersionsRemain
<1>1. /\ requests' \in [Handlers -> Request]
      /\ requests'[h] = request
      /\ \A g \in Handlers : g # h => requests'[g] = requests[g]
  BY RequestIs DEF DocInv
<1>2. UNCHANGED <<workload, sources, snapshot, versions, drafts, raced>>
  BY DEF Reads
<1>3. DocumentTypes'
  BY <1>1, <1>2 DEF DocInv, DocumentTypes
<1>4. ASSUME NEW g \in Handlers PROVE Holds(requests[g])'
  <2>1. CASE g = h
    BY <1>1, <1>2, <2>1 DEF Holds
  <2>2. CASE g # h
    BY <1>1, <1>2, <2>2 DEF Holds, DocInv
  <2>3. QED
    BY <2>1, <2>2
<1>5. OneEach'
  BY <1>1 DEF OneEach, DocInv
<1>6. CurrentRests' /\ VersionsRemain
  BY <1>2 DEF CurrentRests, DocInv, VersionsRemain, Remains
<1>7. QED
  BY <1>3, <1>4, <1>5, <1>6 DEF DocInv

\* A step that changes neither what versions depend on nor what they cite; requests go
\* on as they were, are done, or learn that a source has gone.
LEMMA VersionsChange ==
  ASSUME DocInv,
         versions' \in Seq(Version), DOMAIN versions' = DOMAIN versions,
         \A v \in DOMAIN versions : /\ Remains(versions[v], versions'[v])
                                    /\ versions'[v].base = versions[v].base,
         requests' \in [Handlers -> Request],
         \A h \in Handlers :
            \/ requests'[h] = Idle
            \/ /\ requests'[h].op = requests[h].op
               /\ requests'[h].version = requests[h].version
               /\ requests'[h].number = requests[h].number
               /\ requests'[h].cites = requests[h].cites
               /\ requests[h].lost => requests'[h].lost
               /\ ~requests'[h].lost /\ requests[h].cites \subseteq sources
                    => requests[h].cites \subseteq sources',
         sources' \in SUBSET Sources, snapshot' \in Nat, CurrentRests',
         drafts' \in [workload.types -> Nat],
         \A d \in workload.types : drafts'[d] # 0 => drafts'[d] \in DOMAIN versions,
         UNCHANGED workload
  PROVE  DocInv' /\ VersionsRemain
<1>1. Len(versions') = Len(versions) /\ Len(versions) \in Nat
  BY DEF DocInv, DocumentTypes
<1>2. DocumentTypes'
  BY <1>1 DEF DocInv, DocumentTypes, Remains
<1>3. ASSUME NEW h \in Handlers PROVE Holds(requests[h])'
  <2>1. CASE requests'[h] = Idle
    BY <2>1, IdleHolds DEF Holds
  <2>2. CASE requests'[h] # Idle
    <3>1. /\ requests'[h].op = requests[h].op
          /\ requests'[h].version = requests[h].version
          /\ requests'[h].number = requests[h].number
          /\ requests'[h].cites = requests[h].cites
          /\ requests[h].lost => requests'[h].lost
          /\ ~requests'[h].lost /\ requests[h].cites \subseteq sources
               => requests[h].cites \subseteq sources'
      BY <2>2
    <3>2. Holds(requests[h])
      BY DEF DocInv
    <3>3. requests'[h].op \in {"collected", "numbered", "inserted"} /\ ~requests'[h].lost
            => requests'[h].cites \subseteq sources'
      BY <3>1, <3>2 DEF Holds
    <3>4. requests'[h].op = "inserted" =>
            /\ versions'[requests'[h].version].base = 0
            /\ versions'[requests'[h].version].cites = requests'[h].cites
      BY <3>1, <3>2 DEF Holds, Remains
    <3>5. QED
      BY <1>1, <3>1, <3>2, <3>3, <3>4 DEF Holds
  <2>3. QED
    BY <2>1, <2>2
<1>4. OneEach'
  BY IdleHolds DEF OneEach, DocInv
<1>5. VersionsRemain
  BY DEF VersionsRemain
<1>6. QED
  BY <1>2, <1>3, <1>4, <1>5 DEF DocInv

LEMMA VersionIs ==
  ASSUME DocumentTypes, NEW v \in DOMAIN versions, NEW version \in Version,
         versions' = [versions EXCEPT ![v] = version]
  PROVE  /\ versions' \in Seq(Version) /\ DOMAIN versions' = DOMAIN versions
         /\ versions'[v] = version
         /\ \A u \in DOMAIN versions : u # v => versions'[u] = versions[u]
<1>1. versions \in [1 .. Len(versions) -> Version] /\ Len(versions) \in Nat
  BY DEF DocumentTypes
<1>2. versions' \in [1 .. Len(versions) -> Version]
  BY <1>1
<1>3. QED
  BY <1>1, <1>2

LEMMA RemainsAsItIs == \A version : Remains(version, version)
BY DEF Remains

\* A step that writes one version.
LEMMA OneIsWritten ==
  ASSUME DocInv, NEW v \in DOMAIN versions, NEW version \in Version,
         versions' = [versions EXCEPT ![v] = version],
         Remains(versions[v], version), version.base = versions[v].base,
         UNCHANGED requests \/ \E h \in Handlers : Done(h),
         UNCHANGED <<workload, sources, snapshot, drafts>>,
         raced \ {v} \subseteq raced',
         v \notin raced' /\ version.base # 0 /\ version.health = "current"
            => version.cites \subseteq sources
  PROVE  DocInv' /\ VersionsRemain
<1>1. /\ versions' \in Seq(Version) /\ DOMAIN versions' = DOMAIN versions
      /\ versions'[v] = version
      /\ \A u \in DOMAIN versions : u # v => versions'[u] = versions[u]
  BY VersionIs DEF DocInv
<1>2. \A u \in DOMAIN versions : /\ Remains(versions[u], versions'[u])
                                 /\ versions'[u].base = versions[u].base
  BY <1>1, RemainsAsItIs
<1>3. /\ requests' \in [Handlers -> Request]
      /\ \A h \in Handlers : requests'[h] = requests[h] \/ requests'[h] = Idle
  <2>1. CASE UNCHANGED requests
    BY <2>1 DEF DocInv, DocumentTypes
  <2>2. ASSUME NEW h \in Handlers, Done(h)
        PROVE  /\ requests' \in [Handlers -> Request]
               /\ \A g \in Handlers : requests'[g] = requests[g] \/ requests'[g] = Idle
    BY <2>2, IdleHolds, RequestIs DEF Done, DocInv
  <2>3. QED
    BY <2>1, <2>2
<1>4. CurrentRests'
  BY <1>1 DEF CurrentRests, DocInv
<1>5. /\ sources' \in SUBSET Sources /\ snapshot' \in Nat
      /\ drafts' \in [workload.types -> Nat]
      /\ \A d \in workload.types : drafts'[d] # 0 => drafts'[d] \in DOMAIN versions
  BY DEF DocInv, DocumentTypes
<1>6. QED
  BY <1>1, <1>2, <1>3, <1>4, <1>5, VersionsChange

\* The versions that are marked keep all but their health.
LEMMA MarkedRemain ==
  ASSUME DocumentTypes, NEW which, versions' = Marked(which)
  PROVE  /\ versions' \in Seq(Version) /\ DOMAIN versions' = DOMAIN versions
         /\ \A v \in DOMAIN versions :
              /\ Remains(versions[v], versions'[v])
              /\ versions'[v].base = versions[v].base
              /\ versions'[v].health = IF v \in which /\ versions[v].base # 0
                                       THEN "review" ELSE versions[v].health
<1>1. ASSUME NEW v \in DOMAIN versions
      PROVE  /\ versions'[v] \in Version
             /\ Remains(versions[v], versions'[v])
             /\ versions'[v].base = versions[v].base
             /\ versions'[v].health = IF v \in which /\ versions[v].base # 0
                                      THEN "review" ELSE versions[v].health
  <2> DEFINE marked == [versions[v] EXCEPT !.health = "review"]
  <2>1. versions[v] \in Version
    BY VersionFields
  <2>2. /\ marked \in Version /\ Remains(versions[v], marked)
        /\ marked.base = versions[v].base /\ marked.health = "review"
    BY <2>1 DEF Version, Remains
  <2>3. versions'[v] = IF v \in which /\ versions[v].base # 0 THEN marked ELSE versions[v]
    BY DEF Marked
  <2> HIDE DEF marked
  <2>4. QED
    BY <2>1, <2>2, <2>3, RemainsAsItIs
<1>2. /\ DOMAIN versions = 1 .. Len(versions) /\ Len(versions) \in Nat
      /\ DOMAIN versions' = DOMAIN versions
  BY DEF DocumentTypes, Marked
<1>3. versions' \in [1 .. Len(versions) -> Version]
  BY <1>1, <1>2 DEF Marked
<1>4. QED
  BY <1>1, <1>2, <1>3

LEMMA Marking ==
  ASSUME DocInv, NEW which, versions' = Marked(which),
         UNCHANGED <<workload, sources, snapshot, drafts, requests, raced>>
  PROVE  DocInv' /\ VersionsRemain
<1>1. /\ versions' \in Seq(Version) /\ DOMAIN versions' = DOMAIN versions
      /\ \A v \in DOMAIN versions :
           /\ Remains(versions[v], versions'[v])
           /\ versions'[v].base = versions[v].base
           /\ versions'[v].health = IF v \in which /\ versions[v].base # 0
                                    THEN "review" ELSE versions[v].health
  BY MarkedRemain DEF DocInv
<1>2. CurrentRests'
  BY <1>1 DEF CurrentRests, DocInv, Remains
<1>3. /\ sources' \in SUBSET Sources /\ snapshot' \in Nat
      /\ drafts' \in [workload.types -> Nat]
      /\ \A d \in workload.types : drafts'[d] # 0 => drafts'[d] \in DOMAIN versions
      /\ requests' \in [Handlers -> Request]
  BY DEF DocInv, DocumentTypes
<1>4. QED
  BY <1>1, <1>2, <1>3, VersionsChange

\* A step that leaves versions and requests alone.
LEMMA OthersKeep ==
  ASSUME DocInv, UNCHANGED <<workload, versions, requests, raced>>,
         sources \subseteq sources', sources' \in SUBSET Sources, snapshot' \in Nat,
         drafts' \in [workload.types -> Nat],
         \A d \in workload.types : drafts'[d] # 0 => drafts'[d] \in DOMAIN versions
  PROVE  DocInv' /\ VersionsRemain
<1>1. /\ versions' \in Seq(Version) /\ DOMAIN versions' = DOMAIN versions
      /\ \A v \in DOMAIN versions : /\ Remains(versions[v], versions'[v])
                                    /\ versions'[v].base = versions[v].base
      /\ requests' \in [Handlers -> Request]
  BY RemainsAsItIs DEF DocInv, DocumentTypes
<1>2. CurrentRests'
  BY DEF CurrentRests, DocInv
<1>3. QED
  BY <1>1, <1>2, VersionsChange

\* A version is added, whose dependencies are not to be relied on yet.
LEMMA VersionAdded ==
  ASSUME DocInv, NEW version \in Version, NEW h \in Handlers, NEW request \in Request,
         versions' = Append(versions, version),
         requests' = [requests EXCEPT ![h] = request],
         version.number <= Len(versions) + 1,
         version.base = 0 \/ version.health # "current",
         request.op \in {"idle", "inserted"},
         request.op = "inserted" =>
            /\ request.version = Len(versions) + 1
            /\ version.base = 0 /\ version.cites = request.cites
            /\ ~request.lost => request.cites \subseteq sources,
         UNCHANGED <<workload, sources, snapshot, raced>>,
         drafts' \in [workload.types -> Nat],
         \A d \in workload.types : drafts'[d] # 0 => drafts'[d] \in DOMAIN versions
  PROVE  DocInv' /\ VersionsRemain
<1> DEFINE last == Len(versions) + 1
<1>1. /\ versions' \in Seq(Version) /\ Len(versions') = last /\ Len(versions) \in Nat
      /\ DOMAIN versions = 1 .. Len(versions) /\ DOMAIN versions' = 1 .. last
      /\ \A v \in DOMAIN versions : versions'[v] = versions[v]
      /\ versions'[last] = version
  BY DEF DocInv, DocumentTypes
<1>2. /\ last \in Nat /\ last \in DOMAIN versions' /\ last \notin DOMAIN versions
      /\ DOMAIN versions \subseteq DOMAIN versions'
      /\ \A v \in DOMAIN versions' : v \in DOMAIN versions \/ v = last
      /\ last = Len(versions) + 1
  BY <1>1
<1> HIDE DEF last
<1>3. /\ requests' \in [Handlers -> Request]
      /\ requests'[h] = request
      /\ \A g \in Handlers : g # h => requests'[g] = requests[g]
  BY RequestIs DEF DocInv
<1>4. DocumentTypes'
  <2>1. \A v \in DOMAIN versions' : versions'[v].number <= Len(versions')
    <3>1. \A v \in DOMAIN versions : versions[v].number \in Nat
                                     /\ versions[v].number <= Len(versions)
      BY VersionFields DEF DocInv, DocumentTypes, Version
    <3>2. version.number \in Nat
      BY DEF Version
    <3>3. QED
      BY <1>1, <1>2, <3>1, <3>2
  <2>2. QED
    BY <1>1, <1>2, <1>3, <2>1 DEF DocInv, DocumentTypes
<1>5. ASSUME NEW g \in Handlers PROVE Holds(requests[g])'
  <2>1. CASE g = h
    BY <1>1, <1>2, <1>3, <2>1 DEF Holds
  <2>2. CASE g # h
    <3>1. Holds(requests[g]) /\ requests'[g] = requests[g]
      BY <1>3, <2>2 DEF DocInv
    <3>2. \A n \in 1 .. Len(versions) + 1 : n \in 1 .. Len(versions') + 1
      BY <1>1, <1>2
    <3>3. QED
      BY <1>1, <1>2, <3>1, <3>2 DEF Holds
  <2>3. QED
    BY <2>1, <2>2
<1>6. OneEach'
  <2>1. \A g \in Handlers : requests[g].op = "inserted" => requests[g].version # last
    BY <1>2 DEF DocInv, Holds
  <2>2. QED
    BY <1>2, <1>3, <2>1 DEF DocInv, OneEach
<1>7. CurrentRests'
  BY <1>1, <1>2 DEF DocInv, CurrentRests
<1>8. VersionsRemain
  BY <1>1, <1>2, RemainsAsItIs DEF VersionsRemain
<1>9. QED
  BY <1>4, <1>5, <1>6, <1>7, <1>8 DEF DocInv

LEMMA LoopInv ==
  ASSUME DocInv, NEW h \in Handlers, NEW d \in workload.types,
         Collect(h, d) \/ RunRounds(h, d) \/ InsertVersion(h, d)
  PROVE  DocInv' /\ VersionsRemain
<1>0. d \in DocTypes /\ DocumentTypes
  BY TypesAreDocTypes DEF DocInv, DocumentTypes
<1>1. CASE Collect(h, d)
  <2>1. PICK cites \in SUBSET sources :
          Start(h, [Idle EXCEPT !.op = "collected", !.doc = {d}, !.snapshot = snapshot,
                                !.cites = cites])
    BY <1>1 DEF Collect
  <2> DEFINE request == [Idle EXCEPT !.op = "collected", !.doc = {d},
                                     !.snapshot = snapshot, !.cites = cites]
  <2>2. /\ request \in Request /\ request.op = "collected" /\ request.cites = cites
        /\ request.lost = FALSE
    BY <1>0, <2>1 DEF Idle, Request, Ops, DocumentTypes
  <2>3. requests' = [requests EXCEPT ![h] = request] /\ Reads
    BY <1>1, <2>1 DEF Collect, Start
  <2> HIDE DEF request
  <2>4. QED
    BY <2>1, <2>2, <2>3, ReadsKeep DEF Holds
<1>2. CASE RunRounds(h, d)
  <2>1. PICK passed \in BOOLEAN :
          requests' = [requests EXCEPT ![h].op = "numbered", ![h].passed = passed,
                                       ![h].number = NextNumber(d)]
    BY <1>2 DEF RunRounds, Verdicts
  <2> DEFINE number == NextNumber(d)
             request == [requests[h] EXCEPT !.op = "numbered", !.passed = passed,
                                            !.number = number]
  <2>2. number \in 1 .. Len(versions) + 1 /\ number \in Nat
    BY <1>0, NextNumberIs
  <2>3. requests[h] \in Request /\ requests[h].op = "collected" /\ Holds(requests[h])
    BY <1>0, <1>2 DEF RunRounds, DocumentTypes, DocInv
  <2>4. requests' = [requests EXCEPT ![h] = request]
    BY <1>0, <2>1 DEF DocumentTypes
  <2> HIDE DEF number
  <2>5. /\ request \in Request /\ request.op = "numbered" /\ request.number = number
        /\ request.cites = requests[h].cites /\ request.lost = requests[h].lost
    BY <2>1, <2>2, <2>3 DEF Request, Ops
  <2> HIDE DEF request
  <2>6. Holds(request)
    BY <2>2, <2>3, <2>5 DEF Holds
  <2>7. QED
    BY <1>2, <2>4, <2>5, <2>6, ReadsKeep DEF RunRounds
<1>3. CASE InsertVersion(h, d)
  <2> DEFINE read == requests[h]
             claims == IF read.cites = {} THEN workload.claims ELSE 0
             version == [doc |-> d, number |-> read.number, base |-> 0,
                         cites |-> read.cites, claims |-> claims, stored |-> 0,
                         passed |-> read.passed, approved |-> FALSE,
                         lifecycle |-> "active", health |-> "none", from |-> 0]
             last == Len(versions) + 1
             recorded == [Idle EXCEPT !.op = "inserted", !.version = last,
                            !.snapshot = read.snapshot, !.cites = read.cites,
                            !.lost = read.lost]
             request == IF read.snapshot = 0 /\ claims = 0 THEN Idle ELSE recorded
  <2>1. /\ read \in Request /\ Holds(read) /\ read.op = "numbered"
        /\ versions' = Append(versions, version)
        /\ UNCHANGED <<workload, sources, snapshot, drafts, raced>>
    BY <1>0, <1>3 DEF InsertVersion, DocumentTypes, DocInv
  <2>2. requests' = [requests EXCEPT ![h] = request]
    BY <1>3 DEF InsertVersion
  <2> HIDE DEF read
  <2>3. read.number \in 1 .. Len(versions) + 1 /\ Len(versions) \in Nat
    BY <1>0, <2>1 DEF Holds, DocumentTypes
  <2>4. claims \in Nat
    BY <1>0, WorkloadsAssumption DEF claims, DocumentTypes
  <2> HIDE DEF claims
  <2>5. /\ version \in Version /\ version.base = 0 /\ version.cites = read.cites
        /\ version.number = read.number
    BY <1>0, <2>1, <2>3, <2>4 DEF Version, Request
  <2> HIDE DEF version
  <2>6. /\ recorded \in Request /\ recorded.op = "inserted"
        /\ recorded.version = last
        /\ recorded.cites = read.cites /\ recorded.lost = read.lost
    <3>1. /\ read.snapshot \in Nat /\ read.cites \in SUBSET Sources
          /\ read.lost \in BOOLEAN /\ last \in Nat
      BY <2>1, <2>3 DEF Request
    <3>2. PICK snap \in Nat, cites \in SUBSET Sources, lost \in BOOLEAN, l \in Nat :
            /\ snap = read.snapshot /\ cites = read.cites /\ lost = read.lost
            /\ l = last
      BY <3>1
    <3> HIDE DEF last
    <3> DEFINE made == [Idle EXCEPT !.op = "inserted", !.version = l, !.snapshot = snap,
                                    !.cites = cites, !.lost = lost]
    <3>3. /\ made \in Request /\ made.op = "inserted" /\ made.version = l
          /\ made.cites = cites /\ made.lost = lost
      BY DEF Request, Idle, Ops
    <3>4. recorded = made
      BY <3>2
    <3> HIDE DEF made, recorded
    <3>5. QED
      BY <3>2, <3>3, <3>4
  <2> HIDE DEF recorded
  <2>7. /\ request \in Request /\ request.op \in {"idle", "inserted"}
        /\ request.op = "inserted" =>
             /\ request.version = Len(versions) + 1
             /\ version.base = 0 /\ version.cites = request.cites
             /\ ~request.lost => request.cites \subseteq sources
    BY <2>1, <2>5, <2>6, IdleHolds DEF Holds
  <2> HIDE DEF request
  <2>8. /\ drafts' \in [workload.types -> Nat]
        /\ \A e \in workload.types : drafts'[e] # 0 => drafts'[e] \in DOMAIN versions
    BY <1>0, <2>1 DEF DocumentTypes
  <2>9. QED
    <3>1. version.number <= Len(versions) + 1
      BY <2>3, <2>5
    <3>2. QED
      BY <2>1, <2>2, <2>5, <2>7, <2>8, <3>1, VersionAdded
<1>4. QED
  BY <1>1, <1>2, <1>3

\* Storing a claim changes neither what a version depends on nor what it is.
LEMMA StoredClaim ==
  ASSUME DocumentTypes, NEW v \in DOMAIN versions
  PROVE  LET version == [versions[v] EXCEPT !.stored = versions[v].stored + 1] IN
         /\ version \in Version /\ Remains(versions[v], version)
         /\ version.base = versions[v].base /\ version.health = versions[v].health
         /\ version.from = versions[v].from /\ version.lifecycle = versions[v].lifecycle
         /\ version.stored = versions[v].stored + 1
         /\ version.approved <=> versions[v].approved
<1> DEFINE stored == versions[v].stored + 1
<1>1. versions[v] \in Version /\ stored \in Nat
  BY VersionFields DEF Version
<1> HIDE DEF stored
<1>2. LET version == [versions[v] EXCEPT !.stored = stored] IN
        /\ version \in Version /\ Remains(versions[v], version)
        /\ version.base = versions[v].base /\ version.health = versions[v].health
        /\ version.from = versions[v].from /\ version.lifecycle = versions[v].lifecycle
        /\ version.stored = stored
        /\ version.approved <=> versions[v].approved
  BY <1>1 DEF Version, Remains
<1>3. QED
  BY <1>2 DEF stored

LEMMA StoreInv ==
  ASSUME DocInv, NEW h \in Handlers, StoreClaim(h)
  PROVE  DocInv' /\ VersionsRemain
<1> DEFINE v == requests[h].version
           version == [versions[v] EXCEPT !.stored = versions[v].stored + 1]
<1>1. /\ DocumentTypes /\ v \in DOMAIN versions
  BY DEF StoreClaim, DocInv, Stored
<1>2. versions' = [versions EXCEPT ![v] = version]
  BY <1>1 DEF StoreClaim, DocumentTypes
<1>3. /\ version \in Version /\ Remains(versions[v], version)
      /\ version.base = versions[v].base /\ version.health = versions[v].health
  BY <1>1, StoredClaim
<1>4. version.cites = versions[v].cites
  BY <1>3 DEF Remains
<1>5. UNCHANGED requests \/ \E g \in Handlers : Done(g)
  BY DEF StoreClaim
<1>6. UNCHANGED <<workload, sources, snapshot, drafts, raced>>
  BY DEF StoreClaim
<1> HIDE DEF version, v
<1>7. v \notin raced' /\ version.base # 0 /\ version.health = "current"
        => version.cites \subseteq sources
  BY <1>1, <1>3, <1>4, <1>6 DEF DocInv, CurrentRests
<1>8. QED
  BY <1>1, <1>2, <1>3, <1>5, <1>6, <1>7, OneIsWritten

LEMMA PersistInv ==
  ASSUME DocInv, NEW h \in Handlers, PersistDependencies(h)
  PROVE  DocInv' /\ VersionsRemain
<1> DEFINE v == requests[h].version
           base == requests[h].snapshot
           version == [versions[v] EXCEPT !.base = base, !.health = "current"]
<1>1. /\ DocumentTypes /\ requests[h] \in Request /\ Holds(requests[h])
      /\ requests[h].op = "inserted" /\ requests[h].snapshot \in Nat
  BY DEF PersistDependencies, DocInv, DocumentTypes, Request
<1>2. /\ v \in DOMAIN versions /\ versions[v].base = 0 /\ versions[v].cites = requests[h].cites
      /\ versions[v] \in Version /\ base \in Nat
  BY <1>1, VersionFields DEF Holds
<1>3. versions' = [versions EXCEPT ![v] = version]
  BY <1>1, <1>2 DEF PersistDependencies, DocumentTypes
<1> HIDE DEF base
<1>4. /\ version \in Version /\ Remains(versions[v], version)
      /\ version.cites = versions[v].cites /\ version.number = versions[v].number
  BY <1>2 DEF Version, Remains
<1> HIDE DEF version
<1>5. /\ versions' \in Seq(Version) /\ DOMAIN versions' = DOMAIN versions
      /\ versions'[v] = version
      /\ \A u \in DOMAIN versions : u # v => versions'[u] = versions[u]
  BY <1>1, <1>2, <1>3, <1>4, VersionIs
<1>6. /\ requests' \in [Handlers -> Request] /\ requests'[h] = Idle
      /\ \A g \in Handlers : g # h => requests'[g] = requests[g]
  BY <1>1, IdleHolds, RequestIs DEF PersistDependencies, Done
<1>7. /\ raced \subseteq raced'
      /\ requests[h].lost => v \in raced'
      /\ UNCHANGED <<workload, sources, snapshot, drafts>>
  BY DEF PersistDependencies
<1>8. \A u \in DOMAIN versions : Remains(versions[u], versions'[u])
  BY <1>4, <1>5, RemainsAsItIs
<1>9. Len(versions') = Len(versions)
  BY <1>1, <1>5 DEF DocumentTypes
<1>10. DocumentTypes'
  BY <1>1, <1>5, <1>6, <1>7, <1>8, <1>9 DEF DocumentTypes, Remains
<1>11. ASSUME NEW g \in Handlers PROVE Holds(requests[g])'
  <2>1. CASE g = h
    BY <1>6, <2>1, IdleHolds DEF Holds
  <2>2. CASE g # h
    <3>1. requests'[g] = requests[g] /\ Holds(requests[g])
      BY <1>6, <2>2 DEF DocInv
    <3>2. requests[g].op = "inserted" => requests[g].version # v
      BY <1>1, <2>2 DEF DocInv, OneEach
    <3>3. requests[g].op = "inserted" =>
            versions'[requests[g].version] = versions[requests[g].version]
      BY <1>5, <3>1, <3>2 DEF Holds
    <3>4. QED
      BY <1>5, <1>7, <1>9, <3>1, <3>3 DEF Holds
  <2>3. QED
    BY <2>1, <2>2
<1>12. OneEach'
  BY <1>6, IdleHolds DEF DocInv, OneEach
<1>13. CurrentRests'
  <2>1. ~requests[h].lost => version.cites \subseteq sources
    BY <1>1, <1>2, <1>4 DEF Holds
  <2>2. ASSUME NEW u \in DOMAIN versions' \ raced', versions'[u].base # 0,
               versions'[u].health = "current"
        PROVE  versions'[u].cites \subseteq sources'
    <3>1. CASE u = v
      BY <1>5, <1>7, <2>1, <2>2, <3>1
    <3>2. CASE u # v
      BY <1>5, <1>7, <2>2, <3>2 DEF DocInv, CurrentRests
    <3>3. QED
      BY <3>1, <3>2
  <2>3. QED
    BY <2>2 DEF CurrentRests
<1>14. VersionsRemain
  BY <1>5, <1>8 DEF VersionsRemain
<1>15. QED
  BY <1>10, <1>11, <1>12, <1>13, <1>14 DEF DocInv

\* What a version is made of when it is edited or restored from another one.
Copy(source, number, from) ==
    [source EXCEPT !.number = number, !.claims = 0, !.stored = 0, !.passed = FALSE,
                   !.approved = FALSE, !.lifecycle = "active", !.health = "review",
                   !.from = from]

LEMMA CopyIs ==
  ASSUME NEW source \in Version, NEW number \in Nat \ {0}, NEW from \in Nat
  PROVE  /\ Copy(source, number, from) \in Version
         /\ Copy(source, number, from).number = number
         /\ Copy(source, number, from).health = "review"
BY DEF Version, Copy

LEMMA EditsInv ==
  ASSUME DocInv, NEW h \in Handlers, NEW d \in workload.types,
         CommitReads(h, d) \/ CreateFromSource(h, d)
  PROVE  DocInv' /\ VersionsRemain
<1>0. d \in DocTypes /\ DocumentTypes
  BY TypesAreDocTypes DEF DocInv, DocumentTypes
<1>1. CASE CommitReads(h, d)
  <2> DEFINE number == NextNumber(d)
             base == drafts[d]
             request == [Idle EXCEPT !.op = "create", !.doc = {d}, !.version = base,
                                     !.number = number]
  <2>1. number \in 1 .. Len(versions) + 1 /\ number \in Nat
    BY <1>0, NextNumberIs
  <2>2. base \in DOMAIN versions /\ base \in Nat
    BY <1>0, <1>1 DEF CommitReads, DocumentTypes
  <2>3. requests' = [requests EXCEPT ![h] = request] /\ Reads
    BY <1>1 DEF CommitReads, Start
  <2> HIDE DEF number, base
  <2>4. /\ request \in Request /\ request.op = "create" /\ request.version = base
        /\ request.number = number
    BY <1>0, <2>1, <2>2 DEF Idle, Request, Ops
  <2> HIDE DEF request
  <2>5. QED
    BY <2>1, <2>2, <2>3, <2>4, ReadsKeep DEF Holds
<1>2. CASE CreateFromSource(h, d)
  <2> DEFINE source == requests[h].version
             number == requests[h].number
             from == IF requests[h].restores THEN source ELSE 0
             version == Copy(versions[source], number, from)
  <2>1. /\ requests[h] \in Request /\ Holds(requests[h]) /\ requests[h].op = "create"
        /\ UNCHANGED <<workload, sources, snapshot, raced>>
    BY <1>0, <1>2 DEF CreateFromSource, DocumentTypes, DocInv
  <2>2. /\ source \in DOMAIN versions /\ versions[source] \in Version /\ source \in Nat
        /\ number \in 1 .. Len(versions) + 1 /\ Len(versions) \in Nat
    BY <1>0, <2>1, VersionFields DEF Holds, DocumentTypes
  <2>3. from \in Nat
    BY <2>2
  <2>4. versions' = Append(versions, version)
    BY <1>2 DEF CreateFromSource, Edited, Copy
  <2>5. requests' = [requests EXCEPT ![h] = Idle]
    BY <1>2 DEF CreateFromSource, Done
  <2>6. /\ drafts' \in [workload.types -> Nat]
        /\ \A e \in workload.types : drafts'[e] # 0 => drafts'[e] \in DOMAIN versions
    BY <1>0, <1>2 DEF CreateFromSource, DocumentTypes
  <2>7. /\ version \in Version /\ version.number = number /\ version.health = "review"
    <3>1. number \in Nat \ {0}
      BY <2>2
    <3>2. versions[source] \in Version /\ from \in Nat
      BY <2>2, <2>3
    <3> HIDE DEF source, from, number
    <3>3. QED
      BY <3>1, <3>2, CopyIs
  <2> HIDE DEF version
  <2>8. version.number <= Len(versions) + 1
    BY <2>2, <2>7
  <2>9. QED
    BY <2>1, <2>4, <2>5, <2>6, <2>7, <2>8, IdleHolds, VersionAdded
<1>3. QED
  BY <1>1, <1>2

LEMMA RequestsReadInv ==
  ASSUME DocInv, NEW h \in Handlers, NEW v \in DOMAIN versions,
         RestoreReads(h, v) \/ ValidateReads(h, v) \/ ConfirmReads(h, v) \/ PurgeReads(h, v)
  PROVE  DocInv' /\ VersionsRemain
<1>0. DocumentTypes /\ v \in Nat /\ versions[v] \in Version /\ versions[v].doc \in DocTypes
  BY VersionFields DEF DocInv, Version
<1>1. CASE RestoreReads(h, v)
  <2> DEFINE doc == versions[v].doc
             number == NextNumber(doc)
             request == [Idle EXCEPT !.op = "create", !.doc = {doc}, !.version = v,
                                     !.number = number, !.restores = TRUE]
  <2>1. number \in 1 .. Len(versions) + 1 /\ number \in Nat
    BY <1>0, NextNumberIs
  <2>2. requests' = [requests EXCEPT ![h] = request] /\ Reads
    BY <1>1 DEF RestoreReads, Start
  <2> HIDE DEF number, doc
  <2>3. doc \in DocTypes
    BY <1>0 DEF doc
  <2>4. /\ request \in Request /\ request.op = "create" /\ request.version = v
        /\ request.number = number
    BY <1>0, <2>1, <2>3 DEF Idle, Request, Ops
  <2> HIDE DEF request
  <2>5. QED
    BY <2>1, <2>2, <2>4, ReadsKeep DEF Holds
<1>2. CASE ValidateReads(h, v)
  <2>1. PICK passed \in BOOLEAN :
          Start(h, [Idle EXCEPT !.op = "validate", !.version = v, !.passed = passed])
    BY <1>2 DEF ValidateReads, Verdicts
  <2> DEFINE request == [Idle EXCEPT !.op = "validate", !.version = v, !.passed = passed]
  <2>2. request \in Request /\ request.op = "validate" /\ request.version = v
    BY <1>0, <2>1 DEF Idle, Request, Ops
  <2>3. requests' = [requests EXCEPT ![h] = request] /\ Reads
    BY <1>2, <2>1 DEF ValidateReads, Start
  <2> HIDE DEF request
  <2>4. QED
    BY <2>2, <2>3, ReadsKeep DEF Holds
<1>3. CASE ConfirmReads(h, v)
  <2> DEFINE request == [Idle EXCEPT !.op = "confirm", !.version = v]
  <2>1. request \in Request /\ request.op = "confirm" /\ request.version = v
    BY <1>0 DEF Idle, Request, Ops
  <2>2. requests' = [requests EXCEPT ![h] = request] /\ Reads
    BY <1>3 DEF ConfirmReads, Start
  <2> HIDE DEF request
  <2>3. QED
    BY <2>1, <2>2, ReadsKeep DEF Holds
<1>4. CASE PurgeReads(h, v)
  <2> DEFINE request == [Idle EXCEPT !.op = "purge", !.version = v]
  <2>1. request \in Request /\ request.op = "purge" /\ request.version = v
    BY <1>0 DEF Idle, Request, Ops
  <2>2. requests' = [requests EXCEPT ![h] = request] /\ Reads
    BY <1>4 DEF PurgeReads, Start
  <2> HIDE DEF request
  <2>3. QED
    BY <2>1, <2>2, ReadsKeep DEF Holds
<1>5. QED
  BY <1>1, <1>2, <1>3, <1>4

LEMMA RequestsWriteInv ==
  ASSUME DocInv, NEW h \in Handlers,
         ValidateWrites(h) \/ ConfirmWrites(h) \/ PurgeWrites(h) \/ Drops(h)
  PROVE  DocInv' /\ VersionsRemain
<1> DEFINE v == requests[h].version
<1>0. DocumentTypes /\ requests[h] \in Request /\ Holds(requests[h])
  BY DEF DocInv, DocumentTypes
<1>1. CASE ValidateWrites(h)
  <2> DEFINE passed == requests[h].passed
             health == HealthNow(versions[v], passed)
             version == [versions[v] EXCEPT !.health = health, !.passed = passed]
  <2>1. v \in DOMAIN versions /\ versions[v] \in Version /\ passed \in BOOLEAN
    BY <1>0, <1>1, VersionFields DEF ValidateWrites, Holds, Request
  <2>2. health \in {"current", "review"}
    BY DEF HealthNow
  <2>3. health = "current" /\ versions[v].base # 0 => versions[v].cites \subseteq sources
    BY DEF HealthNow
  <2>4. versions' = [versions EXCEPT ![v] = version]
    BY <1>0, <1>1, <2>1 DEF ValidateWrites, DocumentTypes
  <2> HIDE DEF health, passed
  <2>5. /\ version \in Version /\ Remains(versions[v], version)
        /\ version.base = versions[v].base /\ version.health = health
        /\ version.cites = versions[v].cites
    BY <2>1, <2>2 DEF Version, Remains
  <2> HIDE DEF version
  <2>6. /\ UNCHANGED <<workload, sources, snapshot, drafts>> /\ Done(h)
        /\ raced' = raced \ {v}
    BY <1>1 DEF ValidateWrites
  <2> HIDE DEF v
  <2>7. QED
    BY <2>1, <2>3, <2>4, <2>5, <2>6, OneIsWritten
<1>2. CASE ConfirmWrites(h)
  <2> DEFINE version == [versions[v] EXCEPT !.approved = TRUE]
  <2>1. v \in DOMAIN versions /\ versions[v] \in Version
    BY <1>0, <1>2, VersionFields DEF ConfirmWrites, Holds
  <2>2. versions' = [versions EXCEPT ![v] = version]
    BY <1>0, <1>2, <2>1 DEF ConfirmWrites, DocumentTypes
  <2>3. /\ version \in Version /\ Remains(versions[v], version)
        /\ version.base = versions[v].base /\ version.health = versions[v].health
        /\ version.cites = versions[v].cites
    BY <2>1 DEF Version, Remains
  <2> HIDE DEF version
  <2>4. UNCHANGED <<workload, sources, snapshot, drafts, raced>> /\ Done(h)
    BY <1>2 DEF ConfirmWrites
  <2>5. v \notin raced' /\ version.base # 0 /\ version.health = "current"
          => version.cites \subseteq sources
    BY <2>1, <2>3, <2>4 DEF DocInv, CurrentRests
  <2> HIDE DEF v
  <2>6. QED
    BY <2>1, <2>2, <2>3, <2>4, <2>5, OneIsWritten
<1>3. CASE PurgeWrites(h)
  <2> DEFINE version == [versions[v] EXCEPT !.lifecycle = "purged"]
  <2>1. v \in DOMAIN versions /\ versions[v] \in Version
    BY <1>0, <1>3, VersionFields DEF PurgeWrites, Holds
  <2>2. versions' = [versions EXCEPT ![v] = version]
    BY <1>0, <1>3, <2>1 DEF PurgeWrites, DocumentTypes
  <2>3. /\ version \in Version /\ Remains(versions[v], version)
        /\ version.base = versions[v].base /\ version.health = versions[v].health
        /\ version.cites = versions[v].cites
    BY <2>1 DEF Version, Remains
  <2> HIDE DEF version
  <2>4. UNCHANGED <<workload, sources, snapshot, drafts, raced>> /\ Done(h)
    BY <1>3 DEF PurgeWrites
  <2>5. v \notin raced' /\ version.base # 0 /\ version.health = "current"
          => version.cites \subseteq sources
    BY <2>1, <2>3, <2>4 DEF DocInv, CurrentRests
  <2> HIDE DEF v
  <2>6. QED
    BY <2>1, <2>2, <2>3, <2>4, <2>5, OneIsWritten
<1>4. CASE Drops(h)
  BY <1>4, IdleHolds, ReadsKeep DEF Drops, Done, Holds
<1>5. QED
  BY <1>1, <1>2, <1>3, <1>4

LEMMA LifecycleInv ==
  ASSUME DocInv, NEW v \in DOMAIN versions, SaveDraft(v) \/ Trash(v) \/ Untrash(v)
  PROVE  DocInv' /\ VersionsRemain
<1>0. DocumentTypes /\ v \in Nat /\ versions[v] \in Version
  BY VersionFields DEF DocInv
<1>1. CASE SaveDraft(v)
  <2>1. /\ drafts' = [drafts EXCEPT ![versions[v].doc] = v]
        /\ UNCHANGED <<workload, sources, snapshot, versions, requests, raced>>
    BY <1>1 DEF SaveDraft
  <2>2. /\ drafts' \in [workload.types -> Nat]
        /\ \A d \in workload.types : drafts'[d] # 0 => drafts'[d] \in DOMAIN versions
    BY <1>0, <2>1 DEF DocumentTypes
  <2>3. sources' \in SUBSET Sources /\ snapshot' \in Nat
    BY <1>0, <2>1 DEF DocumentTypes
  <2>4. QED
    BY <2>1, <2>2, <2>3, OthersKeep
<1>2. ASSUME NEW lifecycle \in {"active", "trashed"},
             versions' = [versions EXCEPT ![v].lifecycle = lifecycle],
             UNCHANGED <<workload, sources, snapshot, drafts, requests, raced>>
      PROVE  DocInv' /\ VersionsRemain
  <2> DEFINE version == [versions[v] EXCEPT !.lifecycle = lifecycle]
  <2>1. versions' = [versions EXCEPT ![v] = version]
    BY <1>0, <1>2 DEF DocumentTypes
  <2>2. /\ version \in Version /\ Remains(versions[v], version)
        /\ version.base = versions[v].base /\ version.health = versions[v].health
        /\ version.cites = versions[v].cites
    BY <1>0, <1>2 DEF Version, Remains
  <2> HIDE DEF version
  <2>3. v \notin raced' /\ version.base # 0 /\ version.health = "current"
          => version.cites \subseteq sources
    BY <1>2, <2>2 DEF DocInv, CurrentRests
  <2>4. QED
    BY <1>2, <2>1, <2>2, <2>3, OneIsWritten
<1>3. QED
  BY <1>1, <1>2 DEF Trash, Untrash

LEMMA SourcesInv ==
  ASSUME DocInv, NEW s \in Sources, Archive(s) \/ Restore(s)
  PROVE  DocInv' /\ VersionsRemain
<1>0. DocumentTypes
  BY DEF DocInv
<1>1. CASE Archive(s)
  <2>1. PICK which : Citing(s) \subseteq which /\ versions' = Marked(which)
    BY <1>1 DEF Archive
  <2>2. /\ versions' \in Seq(Version) /\ DOMAIN versions' = DOMAIN versions
        /\ \A v \in DOMAIN versions :
             /\ Remains(versions[v], versions'[v])
             /\ versions'[v].base = versions[v].base
             /\ versions'[v].health = IF v \in which /\ versions[v].base # 0
                                      THEN "review" ELSE versions[v].health
    BY <1>0, <2>1, MarkedRemain
  <2>3. /\ sources' = sources \ {s} /\ UNCHANGED <<workload, snapshot, drafts, raced>>
        /\ requests' = [h \in Handlers |-> IF s \in requests[h].cites
                                           THEN [requests[h] EXCEPT !.lost = TRUE]
                                           ELSE requests[h]]
    BY <1>1 DEF Archive
  <2>4. CurrentRests'
    BY <2>1, <2>2, <2>3 DEF CurrentRests, DocInv, Remains, Citing
  <2>5. ASSUME NEW h \in Handlers
        PROVE  /\ requests'[h] \in Request
               /\ requests'[h].op = requests[h].op
               /\ requests'[h].version = requests[h].version
               /\ requests'[h].number = requests[h].number
               /\ requests'[h].cites = requests[h].cites
               /\ requests[h].lost => requests'[h].lost
               /\ ~requests'[h].lost /\ requests[h].cites \subseteq sources
                    => requests[h].cites \subseteq sources'
    <3> DEFINE told == [requests[h] EXCEPT !.lost = TRUE]
    <3>1. requests[h] \in Request
      BY <1>0 DEF DocumentTypes
    <3>2. /\ told \in Request /\ told.op = requests[h].op
          /\ told.version = requests[h].version /\ told.number = requests[h].number
          /\ told.cites = requests[h].cites /\ told.lost
      BY <3>1 DEF Request
    <3>3. requests'[h] = IF s \in requests[h].cites THEN told ELSE requests[h]
      BY <2>3
    <3> HIDE DEF told
    <3>4. CASE s \in requests[h].cites
      BY <3>2, <3>3, <3>4
    <3>5. CASE s \notin requests[h].cites
      BY <2>3, <3>1, <3>3, <3>5
    <3>6. QED
      BY <3>4, <3>5
  <2>6. requests' \in [Handlers -> Request]
    BY <2>3, <2>5
  <2>7. /\ sources' \in SUBSET Sources /\ snapshot' \in Nat
        /\ drafts' \in [workload.types -> Nat]
        /\ \A d \in workload.types : drafts'[d] # 0 => drafts'[d] \in DOMAIN versions
    BY <1>0, <2>3 DEF DocumentTypes
  <2>8. QED
    BY <2>2, <2>3, <2>4, <2>5, <2>6, <2>7, VersionsChange
<1>2. CASE Restore(s)
  BY <1>0, <1>2, OthersKeep DEF Restore, DocumentTypes
<1>3. QED
  BY <1>1, <1>2

LEMMA WorkloadStays == DocNext => UNCHANGED workload
BY DEF DocNext, ClaimChanges, NewSnapshot, Reconfirm, Archive, Restore, SaveDraft, Trash,
   Untrash, StoreClaim, PersistDependencies, ValidateWrites, ConfirmWrites, PurgeWrites,
   Drops, Reads, Collect, RunRounds, InsertVersion, CommitReads, CreateFromSource, RestoreReads,
   ValidateReads, ConfirmReads, PurgeReads

LEMMA DocNextInv == DocInv /\ DocNext => DocInv' /\ VersionsRemain
<1> SUFFICES ASSUME DocInv, DocNext PROVE DocInv' /\ VersionsRemain
  OBVIOUS
<1>0. DocumentTypes
  BY DEF DocInv
<1>1. CASE ClaimChanges
  <2>1. PICK which : versions' = Marked(which)
    BY <1>1 DEF ClaimChanges
  <2>2. UNCHANGED <<workload, sources, snapshot, drafts, requests, raced>>
    BY <1>1 DEF ClaimChanges
  <2>3. QED
    BY <2>1, <2>2, Marking
<1>2. CASE NewSnapshot
  BY <1>0, <1>2, OthersKeep DEF NewSnapshot, DocumentTypes
<1>3. CASE Reconfirm
  BY <1>0, <1>3, OthersKeep DEF Reconfirm, DocumentTypes
<1>4. ASSUME NEW s \in Sources, Archive(s) \/ Restore(s)
      PROVE  DocInv' /\ VersionsRemain
  BY <1>4, SourcesInv
<1>5. ASSUME NEW v \in DOMAIN versions, SaveDraft(v) \/ Trash(v) \/ Untrash(v)
      PROVE  DocInv' /\ VersionsRemain
  BY <1>5, LifecycleInv
<1>6. ASSUME NEW h \in Handlers, StoreClaim(h) \/ PersistDependencies(h)
      PROVE  DocInv' /\ VersionsRemain
  BY <1>6, StoreInv, PersistInv
<1>7. ASSUME NEW h \in Handlers,
             ValidateWrites(h) \/ ConfirmWrites(h) \/ PurgeWrites(h) \/ Drops(h)
      PROVE  DocInv' /\ VersionsRemain
  BY <1>7, RequestsWriteInv
<1>8. ASSUME NEW h \in Handlers, NEW d \in workload.types,
             Collect(h, d) \/ RunRounds(h, d) \/ InsertVersion(h, d)
      PROVE  DocInv' /\ VersionsRemain
  BY <1>8, LoopInv
<1>9. ASSUME NEW h \in Handlers, NEW d \in workload.types,
             CommitReads(h, d) \/ CreateFromSource(h, d)
      PROVE  DocInv' /\ VersionsRemain
  BY <1>9, EditsInv
<1>10. ASSUME NEW h \in Handlers, NEW v \in DOMAIN versions,
              RestoreReads(h, v) \/ ValidateReads(h, v) \/ ConfirmReads(h, v)
                \/ PurgeReads(h, v)
       PROVE  DocInv' /\ VersionsRemain
  BY <1>10, RequestsReadInv
<1>11. QED
  BY <1>1, <1>2, <1>3, <1>4, <1>5, <1>6, <1>7, <1>8, <1>9, <1>10 DEF DocNext

-------------------------------------------------------------------------------
(* What documents refer to *)

\* A draft edits a version of its own type that is still stored.
DraftsRest ==
    \A d \in workload.types : drafts[d] # 0 =>
        Stored(drafts[d]) /\ versions[drafts[d]].doc = d

\* A stored version that was restored has its original, an older one of its type.
RestoredRest ==
    \A v \in DOMAIN versions : Stored(v) /\ versions[v].from # 0 =>
        /\ Stored(versions[v].from) /\ versions[versions[v].from].doc = versions[v].doc
        /\ versions[v].from < v

\* Two stored versions of a type have different numbers.
NumbersAreUnique ==
    \A u, v \in DOMAIN versions :
        /\ Stored(u) /\ Stored(v) /\ versions[u].doc = versions[v].doc
        /\ versions[u].number = versions[v].number
        => u = v

\* A version is made of one of its own type.
CopiesTheirType ==
    \A h \in Handlers : requests[h].op = "create" =>
        requests[h].doc = {versions[requests[h].version].doc}

ReferencesKept == DraftsRest /\ RestoredRest /\ NumbersAreUnique

ReferenceInv == ReferencesKept /\ CopiesTheirType

\* What a version is, and whether it is still stored.
SameRow(before, after) ==
    /\ after.doc = before.doc /\ after.number = before.number
    /\ after.from = before.from
    /\ after.lifecycle = "purged" <=> before.lifecycle = "purged"

\* No step undoes a purge or changes where a version came from.
RowsKept ==
    \A v \in DOMAIN versions :
        /\ versions'[v].from = versions[v].from
        /\ versions[v].lifecycle = "purged" => versions'[v].lifecycle = "purged"

LEMMA SameRowAsItIs == \A version : SameRow(version, version)
BY DEF SameRow

LEMMA ReferenceInitInv == DocInit => ReferenceInv
<1> SUFFICES ASSUME DocInit PROVE ReferenceInv
  OBVIOUS
<1>1. /\ DOMAIN versions = {} /\ \A d \in workload.types : drafts[d] = 0
      /\ \A h \in Handlers : requests[h].op = "idle"
  BY IdleHolds DEF DocInit
<1>2. QED
  BY <1>1 DEF ReferenceInv, ReferencesKept, DraftsRest, RestoredRest, NumbersAreUnique,
     CopiesTheirType

\* A step that adds no version and purges none.
LEMMA RowsStay ==
  ASSUME DocInv, ReferenceInv, UNCHANGED workload,
         DOMAIN versions' = DOMAIN versions,
         \A v \in DOMAIN versions : SameRow(versions[v], versions'[v]),
         \A d \in workload.types : \/ drafts'[d] = 0 \/ drafts'[d] = drafts[d]
                                   \/ /\ Stored(drafts'[d])
                                      /\ versions[drafts'[d]].doc = d,
         \A h \in Handlers : requests'[h].op = "create" =>
            \/ requests'[h] = requests[h]
            \/ /\ requests[h].op = "create"
               /\ requests'[h].doc = requests[h].doc
               /\ requests'[h].version = requests[h].version
            \/ /\ requests'[h].version \in DOMAIN versions
               /\ requests'[h].doc = {versions[requests'[h].version].doc}
  PROVE  ReferenceInv' /\ RowsKept
<1>1. \A v : Stored(v)' <=> Stored(v)
  BY DEF Stored, SameRow
<1>2. \A v \in DOMAIN versions : /\ versions'[v].doc = versions[v].doc
                                 /\ versions'[v].number = versions[v].number
                                 /\ versions'[v].from = versions[v].from
  BY DEF SameRow
<1>3. DraftsRest'
  <2>1. ASSUME NEW d \in workload.types, drafts'[d] # 0
        PROVE  Stored(drafts'[d]) /\ versions[drafts'[d]].doc = d
    BY <2>1 DEF ReferenceInv, ReferencesKept, DraftsRest
  <2>2. \A v : Stored(v) => v \in DOMAIN versions
    BY DEF Stored
  <2>3. QED
    BY <1>1, <1>2, <2>1, <2>2 DEF DraftsRest
<1>4. RestoredRest'
  BY <1>1, <1>2 DEF ReferenceInv, ReferencesKept, RestoredRest, Stored
<1>5. NumbersAreUnique'
  BY <1>1, <1>2 DEF ReferenceInv, ReferencesKept, NumbersAreUnique
<1>6. ASSUME NEW h \in Handlers, requests'[h].op = "create"
      PROVE  requests'[h].doc = {versions'[requests'[h].version].doc}
  <2>1. \/ requests[h].op = "create" /\ requests'[h].doc = requests[h].doc
           /\ requests'[h].version = requests[h].version
        \/ /\ requests'[h].version \in DOMAIN versions
           /\ requests'[h].doc = {versions[requests'[h].version].doc}
    BY <1>6
  <2>2. requests[h].op = "create" => /\ requests[h].version \in DOMAIN versions
                                     /\ requests[h].doc = {versions[requests[h].version].doc}
    BY DEF DocInv, Holds, ReferenceInv, CopiesTheirType
  <2>3. QED
    BY <1>2, <2>1, <2>2
<1>7. RowsKept
  BY <1>2 DEF RowsKept, SameRow
<1>8. QED
  BY <1>3, <1>4, <1>5, <1>6, <1>7 DEF ReferenceInv, ReferencesKept, CopiesTheirType

\* A version is added, under a number of its type that no stored one has.
LEMMA RowAdded ==
  ASSUME DocInv, ReferenceInv, UNCHANGED workload, NEW version,
         versions' = Append(versions, version),
         version.number \notin Numbers(version.doc),
         version.lifecycle = "active",
         version.from # 0 => /\ Stored(version.from)
                             /\ versions[version.from].doc = version.doc,
         \A d \in workload.types : drafts'[d] = 0 \/ drafts'[d] = drafts[d],
         \A h \in Handlers : requests'[h].op = "create" => requests'[h] = requests[h]
  PROVE  ReferenceInv' /\ RowsKept
<1> DEFINE last == Len(versions) + 1
<1>1. /\ DOMAIN versions = 1 .. Len(versions) /\ DOMAIN versions' = 1 .. last
      /\ Len(versions) \in Nat
      /\ \A v \in DOMAIN versions : versions'[v] = versions[v]
      /\ versions'[last] = version
  BY DEF DocInv, DocumentTypes
<1>2. /\ last \notin DOMAIN versions /\ last \in DOMAIN versions'
      /\ DOMAIN versions \subseteq DOMAIN versions'
      /\ \A v \in DOMAIN versions' : v \in DOMAIN versions \/ v = last
      /\ \A v \in DOMAIN versions : v \in Nat /\ v < last
  BY <1>1
<1> HIDE DEF last
<1>3. /\ \A v \in DOMAIN versions : Stored(v)' <=> Stored(v)
      /\ \A v : Stored(v) => v \in DOMAIN versions /\ Stored(v)'
  BY <1>1, <1>2 DEF Stored
<1>4. DraftsRest'
  BY <1>1, <1>3 DEF ReferenceInv, ReferencesKept, DraftsRest
<1>5. RestoredRest'
  <2>1. ASSUME NEW v \in DOMAIN versions', Stored(v)', versions'[v].from # 0
        PROVE  /\ Stored(versions[v].from)'
               /\ versions'[versions'[v].from].doc = versions'[v].doc
               /\ versions'[v].from < v
    <3>1. CASE v \in DOMAIN versions
      BY <1>1, <1>3, <2>1, <3>1 DEF ReferenceInv, ReferencesKept, RestoredRest
    <3>2. CASE v = last
      BY <1>1, <1>2, <1>3, <2>1, <3>2
    <3>3. QED
      BY <1>2, <3>1, <3>2
  <2>2. QED
    BY <2>1 DEF RestoredRest
<1>6. NumbersAreUnique'
  <2>1. ASSUME NEW u \in DOMAIN versions, Stored(u)', versions'[u].doc = version.doc
        PROVE  versions'[u].number # version.number
    BY <1>1, <1>3, <2>1 DEF Numbers
  <2>2. ASSUME NEW u \in DOMAIN versions', NEW v \in DOMAIN versions',
               Stored(u)', Stored(v)', versions'[u].doc = versions'[v].doc,
               versions'[u].number = versions'[v].number
        PROVE  u = v
    <3>1. CASE u \in DOMAIN versions /\ v \in DOMAIN versions
      BY <1>1, <1>3, <2>2, <3>1 DEF ReferenceInv, ReferencesKept, NumbersAreUnique
    <3>2. CASE u = last \/ v = last
      BY <1>1, <1>2, <2>1, <2>2, <3>2
    <3>3. QED
      BY <1>2, <3>1, <3>2
  <2>3. QED
    BY <2>2 DEF NumbersAreUnique
<1>7. CopiesTheirType'
  <2>1. \A h \in Handlers : requests[h].op = "create" => requests[h].version \in DOMAIN versions
    BY DEF DocInv, Holds
  <2>2. QED
    BY <1>1, <2>1 DEF ReferenceInv, CopiesTheirType
<1>8. RowsKept
  BY <1>1 DEF RowsKept
<1>9. QED
  BY <1>4, <1>5, <1>6, <1>7, <1>8 DEF ReferenceInv, ReferencesKept

\* A version is purged that nothing refers to.
LEMMA RowPurged ==
  ASSUME DocInv, ReferenceInv, NEW h \in Handlers, PurgeWrites(h)
  PROVE  ReferenceInv' /\ RowsKept
<1> DEFINE v == requests[h].version
           version == [versions[v] EXCEPT !.lifecycle = "purged"]
<1>1. /\ DocumentTypes /\ v \in DOMAIN versions /\ versions[v] \in Version
  BY VersionFields DEF PurgeWrites, DocInv, Holds
<1>2. versions' = [versions EXCEPT ![v] = version]
  BY <1>1 DEF PurgeWrites, DocumentTypes
<1>3. /\ version \in Version /\ version.doc = versions[v].doc
      /\ version.number = versions[v].number /\ version.from = versions[v].from
      /\ version.lifecycle = "purged"
  BY <1>1 DEF Version
<1> HIDE DEF version
<1>4. /\ DOMAIN versions' = DOMAIN versions /\ versions'[v] = version
      /\ \A u \in DOMAIN versions : u # v => versions'[u] = versions[u]
  BY <1>1, <1>2, <1>3, VersionIs
<1>5. /\ UNCHANGED <<workload, drafts>>
      /\ \A d \in workload.types : drafts[d] # v
      /\ \A u \in DOMAIN versions : Stored(u) => versions[u].from # v
      /\ Done(h)
  BY DEF PurgeWrites
<1> HIDE DEF v
<1>6. \A u : Stored(u)' <=> Stored(u) /\ u # v
  BY <1>3, <1>4 DEF Stored
<1>7. \A u \in DOMAIN versions : /\ versions'[u].doc = versions[u].doc
                                 /\ versions'[u].number = versions[u].number
                                 /\ versions'[u].from = versions[u].from
  BY <1>3, <1>4
<1>8. DraftsRest'
  BY <1>5, <1>6, <1>7 DEF ReferenceInv, ReferencesKept, DraftsRest, Stored
<1>9. RestoredRest'
  BY <1>4, <1>5, <1>6, <1>7 DEF ReferenceInv, ReferencesKept, RestoredRest, Stored
<1>10. NumbersAreUnique'
  BY <1>4, <1>6, <1>7 DEF ReferenceInv, ReferencesKept, NumbersAreUnique
<1>11. CopiesTheirType'
  <2>1. /\ requests'[h] = Idle
        /\ \A g \in Handlers : g # h => requests'[g] = requests[g]
    BY <1>1, <1>5, IdleHolds, RequestIs DEF Done
  <2>2. \A g \in Handlers : requests[g].op = "create" => requests[g].version \in DOMAIN versions
    BY DEF DocInv, Holds
  <2>3. QED
    BY <1>7, <2>1, <2>2, IdleHolds DEF ReferenceInv, CopiesTheirType
<1>12. RowsKept
  BY <1>3, <1>4, <1>7 DEF RowsKept
<1>13. QED
  BY <1>8, <1>9, <1>10, <1>11, <1>12 DEF ReferenceInv, ReferencesKept

LEMMA MarkedRows ==
  ASSUME DocumentTypes, NEW which, versions' = Marked(which)
  PROVE  /\ DOMAIN versions' = DOMAIN versions
         /\ \A v \in DOMAIN versions : SameRow(versions[v], versions'[v])
<1>1. ASSUME NEW v \in DOMAIN versions PROVE SameRow(versions[v], versions'[v])
  <2> DEFINE marked == [versions[v] EXCEPT !.health = "review"]
  <2>1. SameRow(versions[v], marked)
    BY VersionFields DEF Version, SameRow
  <2>2. versions'[v] = IF v \in which /\ versions[v].base # 0 THEN marked ELSE versions[v]
    BY DEF Marked
  <2> HIDE DEF marked
  <2>3. QED
    BY <2>1, <2>2, SameRowAsItIs
<1>2. QED
  BY <1>1 DEF Marked

\* A step that writes one version, and lets a request be done at most.
LEMMA OneRowIsWritten ==
  ASSUME DocInv, ReferenceInv, NEW v \in DOMAIN versions, NEW version \in Version,
         versions' = [versions EXCEPT ![v] = version], SameRow(versions[v], version),
         UNCHANGED requests \/ \E h \in Handlers : Done(h),
         UNCHANGED <<workload, drafts>>
  PROVE  ReferenceInv' /\ RowsKept
<1>1. /\ DOMAIN versions' = DOMAIN versions
      /\ \A u \in DOMAIN versions : SameRow(versions[u], versions'[u])
  BY VersionIs, SameRowAsItIs DEF DocInv
<1>2. \A h \in Handlers : requests'[h].op = "create" => requests'[h] = requests[h]
  BY IdleHolds, RequestIs DEF Done, DocInv
<1>3. QED
  BY <1>1, <1>2, RowsStay

\* A step of one request that writes no version.
LEMMA RequestReadsRows ==
  ASSUME DocInv, ReferenceInv, NEW h \in Handlers, NEW request \in Request, Reads,
         requests' = [requests EXCEPT ![h] = request],
         request.op = "create" => /\ request.version \in DOMAIN versions
                                  /\ request.doc = {versions[request.version].doc}
  PROVE  ReferenceInv' /\ RowsKept
<1>1. /\ UNCHANGED <<workload, versions, drafts>>
      /\ \A v \in DOMAIN versions : SameRow(versions[v], versions'[v])
  BY SameRowAsItIs DEF Reads
<1>2. /\ requests'[h] = request
      /\ \A g \in Handlers : g # h => requests'[g] = requests[g]
  BY RequestIs DEF DocInv
<1>3. QED
  BY <1>1, <1>2, RowsStay

LEMMA RequestRows ==
  ASSUME DocInv, ReferenceInv, NEW h \in Handlers,
         \/ StoreClaim(h) \/ PersistDependencies(h) \/ ValidateWrites(h)
         \/ ConfirmWrites(h) \/ Drops(h)
  PROVE  ReferenceInv' /\ RowsKept
<1> DEFINE v == requests[h].version
<1>0. DocumentTypes /\ requests[h] \in Request /\ Holds(requests[h])
  BY DEF DocInv, DocumentTypes
<1>1. CASE PersistDependencies(h)
  <2> DEFINE base == requests[h].snapshot
             version == [versions[v] EXCEPT !.base = base, !.health = "current"]
  <2>1. v \in DOMAIN versions /\ versions[v] \in Version /\ base \in Nat
    BY <1>0, <1>1, VersionFields DEF PersistDependencies, Holds, Request
  <2>2. versions' = [versions EXCEPT ![v] = version]
    BY <1>0, <1>1, <2>1 DEF PersistDependencies, DocumentTypes
  <2> HIDE DEF base
  <2>3. version \in Version /\ SameRow(versions[v], version)
    BY <2>1 DEF Version, SameRow
  <2>4. UNCHANGED <<workload, drafts>> /\ Done(h)
    BY <1>1 DEF PersistDependencies
  <2> HIDE DEF version, v
  <2>5. QED
    BY <2>1, <2>2, <2>3, <2>4, OneRowIsWritten
<1>2. CASE ValidateWrites(h)
  <2> DEFINE passed == requests[h].passed
             health == HealthNow(versions[v], passed)
             version == [versions[v] EXCEPT !.health = health, !.passed = passed]
  <2>1. v \in DOMAIN versions /\ versions[v] \in Version /\ passed \in BOOLEAN
    BY <1>0, <1>2, VersionFields DEF ValidateWrites, Holds, Request
  <2>2. health \in {"current", "review"}
    BY DEF HealthNow
  <2>3. versions' = [versions EXCEPT ![v] = version]
    BY <1>0, <1>2, <2>1 DEF ValidateWrites, DocumentTypes
  <2> HIDE DEF health, passed
  <2>4. version \in Version /\ SameRow(versions[v], version)
    BY <2>1, <2>2 DEF Version, SameRow
  <2>5. UNCHANGED <<workload, drafts>> /\ Done(h)
    BY <1>2 DEF ValidateWrites
  <2> HIDE DEF version, v
  <2>6. QED
    BY <2>1, <2>3, <2>4, <2>5, OneRowIsWritten
<1>3. CASE ConfirmWrites(h)
  <2> DEFINE version == [versions[v] EXCEPT !.approved = TRUE]
  <2>1. v \in DOMAIN versions /\ versions[v] \in Version
    BY <1>0, <1>3, VersionFields DEF ConfirmWrites, Holds
  <2>2. versions' = [versions EXCEPT ![v] = version]
    BY <1>0, <1>3, <2>1 DEF ConfirmWrites, DocumentTypes
  <2>3. version \in Version /\ SameRow(versions[v], version)
    BY <2>1 DEF Version, SameRow
  <2>4. UNCHANGED <<workload, drafts>> /\ Done(h)
    BY <1>3 DEF ConfirmWrites
  <2> HIDE DEF version, v
  <2>5. QED
    BY <2>1, <2>2, <2>3, <2>4, OneRowIsWritten
<1>4. CASE Drops(h)
  BY <1>4, IdleHolds, RequestReadsRows DEF Drops, Done
<1>5. CASE StoreClaim(h)
  <2> DEFINE version == [versions[v] EXCEPT !.stored = versions[v].stored + 1]
  <2>1. v \in DOMAIN versions
    BY <1>5 DEF StoreClaim, Stored
  <2>2. versions' = [versions EXCEPT ![v] = version]
    BY <1>0, <1>5, <2>1 DEF StoreClaim, DocumentTypes
  <2>3. version \in Version /\ SameRow(versions[v], version)
    BY <1>0, <2>1, StoredClaim DEF SameRow, Remains
  <2>4. /\ UNCHANGED <<workload, drafts>>
        /\ UNCHANGED requests \/ \E g \in Handlers : Done(g)
    BY <1>5 DEF StoreClaim
  <2> HIDE DEF version, v
  <2>5. QED
    BY <2>1, <2>2, <2>3, <2>4, OneRowIsWritten
<1>6. QED
  BY <1>1, <1>2, <1>3, <1>4, <1>5

LEMMA LoopRows ==
  ASSUME DocInv, ReferenceInv, NEW h \in Handlers, NEW d \in workload.types,
         Collect(h, d) \/ RunRounds(h, d) \/ InsertVersion(h, d)
  PROVE  ReferenceInv' /\ RowsKept
<1>0. DocumentTypes /\ requests[h] \in Request
  BY DEF DocInv, DocumentTypes
<1>1. CASE Collect(h, d) \/ RunRounds(h, d)
  <2>1. /\ UNCHANGED <<workload, versions, drafts>>
        /\ \A v \in DOMAIN versions : SameRow(versions[v], versions'[v])
    BY <1>1, SameRowAsItIs DEF Collect, RunRounds, Reads
  <2>2. \A g \in Handlers : requests'[g].op = "create" => requests'[g] = requests[g]
    <3>1. CASE Collect(h, d)
      <4>1. PICK cites \in SUBSET sources :
              requests' = [requests EXCEPT ![h] =
                 [Idle EXCEPT !.op = "collected", !.doc = {d}, !.snapshot = snapshot,
                              !.cites = cites]]
        BY <3>1 DEF Collect, Start
      <4>2. QED
        BY <1>0, <4>1 DEF Idle, DocumentTypes
    <3>2. CASE RunRounds(h, d)
      <4>1. PICK passed \in BOOLEAN :
              requests' = [requests EXCEPT ![h].op = "numbered", ![h].passed = passed,
                                           ![h].number = NextNumber(d)]
        BY <3>2 DEF RunRounds, Verdicts
      <4>2. requests'[h].op = "numbered" /\ \A g \in Handlers : g # h => requests'[g] = requests[g]
        BY <1>0, <4>1 DEF Request, DocumentTypes
      <4>3. QED
        BY <4>2
    <3>3. QED
      BY <1>1, <3>1, <3>2
  <2>3. QED
    BY <2>1, <2>2, RowsStay
<1>2. CASE InsertVersion(h, d)
  <2> DEFINE read == requests[h]
             claims == IF read.cites = {} THEN workload.claims ELSE 0
             version == [doc |-> d, number |-> read.number, base |-> 0,
                         cites |-> read.cites, claims |-> claims, stored |-> 0,
                         passed |-> read.passed, approved |-> FALSE,
                         lifecycle |-> "active", health |-> "none", from |-> 0]
  <2>1. /\ versions' = Append(versions, version) /\ read.number \notin Numbers(d)
        /\ UNCHANGED <<workload, drafts>>
    BY <1>2 DEF InsertVersion
  <2>2. \A g \in Handlers : requests'[g].op = "create" => requests'[g] = requests[g]
    <3> DEFINE recorded == [Idle EXCEPT !.op = "inserted", !.version = Len(versions) + 1,
                              !.snapshot = read.snapshot, !.cites = read.cites,
                              !.lost = read.lost]
               request == IF read.snapshot = 0 /\ claims = 0 THEN Idle ELSE recorded
    <3>1. requests' = [requests EXCEPT ![h] = request]
      BY <1>2 DEF InsertVersion
    <3>2. recorded.op = "inserted"
      BY DEF Idle
    <3> HIDE DEF recorded
    <3>3. request.op # "create"
      BY <3>2, IdleHolds
    <3> HIDE DEF request
    <3>4. QED
      BY <1>0, <3>1, <3>3 DEF DocumentTypes
  <2> HIDE DEF read, claims
  <2>3. /\ version.doc = d /\ version.number = read.number
        /\ version.lifecycle = "active" /\ version.from = 0
    OBVIOUS
  <2> HIDE DEF version
  <2>4. QED
    BY <2>1, <2>2, <2>3, RowAdded
<1>3. QED
  BY <1>1, <1>2

LEMMA EditRows ==
  ASSUME DocInv, ReferenceInv, NEW h \in Handlers, NEW d \in workload.types,
         CommitReads(h, d) \/ CreateFromSource(h, d)
  PROVE  ReferenceInv' /\ RowsKept
<1>0. DocumentTypes /\ requests[h] \in Request /\ d \in DocTypes
  BY TypesAreDocTypes DEF DocInv, DocumentTypes
<1>1. CASE CommitReads(h, d)
  <2> DEFINE number == NextNumber(d)
             base == drafts[d]
             request == [Idle EXCEPT !.op = "create", !.doc = {d}, !.version = base,
                                     !.number = number]
  <2>1. number \in Nat
    BY <1>0, NextNumberIs
  <2>2. base \in DOMAIN versions /\ base \in Nat /\ versions[base].doc = d
    BY <1>0, <1>1 DEF CommitReads, DocumentTypes, ReferenceInv, ReferencesKept, DraftsRest
  <2>3. requests' = [requests EXCEPT ![h] = request] /\ Reads
    BY <1>1 DEF CommitReads, Start
  <2> HIDE DEF number, base
  <2>4. request \in Request /\ request.doc = {d} /\ request.version = base
    BY <1>0, <2>1, <2>2 DEF Idle, Request, Ops
  <2> HIDE DEF request
  <2>5. QED
    BY <2>2, <2>3, <2>4, RequestReadsRows
<1>2. CASE CreateFromSource(h, d)
  <2> DEFINE source == requests[h].version
             number == requests[h].number
             from == IF requests[h].restores THEN source ELSE 0
             version == Copy(versions[source], number, from)
  <2>1. /\ versions' = Append(versions, version) /\ number \notin Numbers(d)
        /\ requests[h].op = "create" /\ requests[h].doc = {d} /\ UNCHANGED workload
        /\ requests[h].restores => Stored(source)
        /\ requests' = [requests EXCEPT ![h] = Idle]
        /\ drafts' = IF requests[h].restores THEN drafts ELSE [drafts EXCEPT ![d] = 0]
    BY <1>2 DEF CreateFromSource, Edited, Copy, Done
  <2>2. source \in DOMAIN versions /\ versions[source] \in Version /\ versions[source].doc = d
    BY <1>0, <2>1, VersionFields DEF DocInv, Holds, ReferenceInv, CopiesTheirType
  <2>3. from # 0 => Stored(from) /\ versions[from].doc = d
    BY <2>1, <2>2
  <2>4. \A e \in workload.types : drafts'[e] = 0 \/ drafts'[e] = drafts[e]
    BY <1>0, <2>1 DEF DocumentTypes
  <2>5. \A g \in Handlers : requests'[g].op = "create" => requests'[g] = requests[g]
    BY <1>0, <2>1, IdleHolds DEF DocumentTypes
  <2> HIDE DEF from, source, number
  <2>6. /\ version.doc = d /\ version.number = number
        /\ version.lifecycle = "active" /\ version.from = from
    BY <2>2 DEF Copy, Version
  <2> HIDE DEF version
  <2>7. QED
    BY <2>1, <2>3, <2>4, <2>5, <2>6, RowAdded
<1>3. QED
  BY <1>1, <1>2

LEMMA ReadRows ==
  ASSUME DocInv, ReferenceInv, NEW h \in Handlers, NEW v \in DOMAIN versions,
         RestoreReads(h, v) \/ ValidateReads(h, v) \/ ConfirmReads(h, v) \/ PurgeReads(h, v)
  PROVE  ReferenceInv' /\ RowsKept
<1>0. DocumentTypes /\ v \in Nat /\ versions[v] \in Version /\ versions[v].doc \in DocTypes
  BY VersionFields DEF DocInv, Version
<1>1. CASE RestoreReads(h, v)
  <2> DEFINE doc == versions[v].doc
             number == NextNumber(doc)
             request == [Idle EXCEPT !.op = "create", !.doc = {doc}, !.version = v,
                                     !.number = number, !.restores = TRUE]
  <2>1. number \in Nat
    BY <1>0, NextNumberIs
  <2>2. requests' = [requests EXCEPT ![h] = request] /\ Reads
    BY <1>1 DEF RestoreReads, Start
  <2> HIDE DEF number, doc
  <2>3. doc \in DocTypes
    BY <1>0 DEF doc
  <2>4. request \in Request /\ request.version = v /\ request.doc = {doc}
    BY <1>0, <2>1, <2>3 DEF Idle, Request, Ops
  <2> HIDE DEF request
  <2>5. QED
    BY <2>2, <2>4, RequestReadsRows DEF doc
<1>2. CASE ValidateReads(h, v)
  <2>1. PICK passed \in BOOLEAN :
          Start(h, [Idle EXCEPT !.op = "validate", !.version = v, !.passed = passed])
    BY <1>2 DEF ValidateReads, Verdicts
  <2> DEFINE request == [Idle EXCEPT !.op = "validate", !.version = v, !.passed = passed]
  <2>2. request \in Request /\ request.op = "validate"
    BY <1>0, <2>1 DEF Idle, Request, Ops
  <2>3. requests' = [requests EXCEPT ![h] = request] /\ Reads
    BY <1>2, <2>1 DEF ValidateReads, Start
  <2> HIDE DEF request
  <2>4. QED
    BY <2>2, <2>3, RequestReadsRows
<1>3. CASE ConfirmReads(h, v) \/ PurgeReads(h, v)
  <2>1. PICK op \in {"confirm", "purge"} :
          Start(h, [Idle EXCEPT !.op = op, !.version = v])
    BY <1>3 DEF ConfirmReads, PurgeReads
  <2> DEFINE request == [Idle EXCEPT !.op = op, !.version = v]
  <2>2. request \in Request /\ request.op = op
    BY <1>0, <2>1 DEF Idle, Request, Ops
  <2>3. requests' = [requests EXCEPT ![h] = request] /\ Reads
    BY <1>3, <2>1 DEF ConfirmReads, PurgeReads, Start
  <2> HIDE DEF request
  <2>4. QED
    BY <2>1, <2>2, <2>3, RequestReadsRows
<1>4. QED
  BY <1>1, <1>2, <1>3

LEMMA SourceRows ==
  ASSUME DocInv, ReferenceInv, NEW s \in Sources, Archive(s) \/ Restore(s)
  PROVE  ReferenceInv' /\ RowsKept
<1>0. DocumentTypes
  BY DEF DocInv
<1>1. /\ DOMAIN versions' = DOMAIN versions
      /\ \A v \in DOMAIN versions : SameRow(versions[v], versions'[v])
  <2>1. \/ UNCHANGED versions \/ \E which : versions' = Marked(which)
    BY DEF Archive, Restore
  <2>2. QED
    BY <1>0, <2>1, MarkedRows, SameRowAsItIs
<1>2. ASSUME NEW h \in Handlers, requests'[h].op = "create"
      PROVE  /\ requests[h].op = "create" /\ requests'[h].doc = requests[h].doc
             /\ requests'[h].version = requests[h].version
  <2> DEFINE told == [requests[h] EXCEPT !.lost = TRUE]
  <2>1. /\ told.op = requests[h].op /\ told.version = requests[h].version
        /\ told.doc = requests[h].doc
    BY <1>0 DEF Request, DocumentTypes
  <2>2. requests'[h] = requests[h] \/ requests'[h] = told
    BY DEF Archive, Restore
  <2> HIDE DEF told
  <2>3. QED
    BY <1>2, <2>1, <2>2
<1>3. UNCHANGED <<workload, drafts>>
  BY DEF Archive, Restore
<1>4. QED
  BY <1>1, <1>2, <1>3, RowsStay

LEMMA LifecycleRows ==
  ASSUME DocInv, ReferenceInv, NEW v \in DOMAIN versions,
         SaveDraft(v) \/ Trash(v) \/ Untrash(v)
  PROVE  ReferenceInv' /\ RowsKept
<1>0. DocumentTypes /\ v \in Nat /\ versions[v] \in Version
  BY VersionFields DEF DocInv
<1>1. CASE SaveDraft(v)
  <2>1. /\ UNCHANGED <<workload, versions, requests>> /\ Stored(v)
        /\ \A u \in DOMAIN versions : SameRow(versions[u], versions'[u])
    BY <1>1, SameRowAsItIs DEF SaveDraft, IsActive, Stored
  <2>2. ASSUME NEW d \in workload.types
        PROVE  drafts'[d] = drafts[d] \/ (drafts'[d] = v /\ versions[v].doc = d)
    BY <1>0, <1>1 DEF SaveDraft, DocumentTypes
  <2>3. QED
    BY <2>1, <2>2, RowsStay
<1>2. ASSUME NEW lifecycle \in {"active", "trashed"}, Stored(v),
             versions' = [versions EXCEPT ![v].lifecycle = lifecycle],
             UNCHANGED <<workload, drafts, requests>>
      PROVE  ReferenceInv' /\ RowsKept
  <2> DEFINE version == [versions[v] EXCEPT !.lifecycle = lifecycle]
  <2>1. versions' = [versions EXCEPT ![v] = version]
    BY <1>0, <1>2 DEF DocumentTypes
  <2>2. version \in Version /\ SameRow(versions[v], version)
    BY <1>0, <1>2 DEF Version, SameRow, Stored
  <2> HIDE DEF version
  <2>3. QED
    BY <1>2, <2>1, <2>2, OneRowIsWritten
<1>3. QED
  BY <1>1, <1>2 DEF Trash, Untrash, IsActive, Stored

LEMMA ReferenceNextInv == DocInv /\ ReferenceInv /\ DocNext => ReferenceInv' /\ RowsKept
<1> SUFFICES ASSUME DocInv, ReferenceInv, DocNext PROVE ReferenceInv' /\ RowsKept
  OBVIOUS
<1>0. DocumentTypes
  BY DEF DocInv
<1>1. CASE ClaimChanges \/ NewSnapshot \/ Reconfirm
  <2>1. UNCHANGED <<workload, drafts, requests>>
    BY <1>1 DEF ClaimChanges, NewSnapshot, Reconfirm
  <2>2. UNCHANGED versions \/ \E which : versions' = Marked(which)
    BY <1>1 DEF ClaimChanges, NewSnapshot, Reconfirm
  <2>3. /\ DOMAIN versions' = DOMAIN versions
        /\ \A v \in DOMAIN versions : SameRow(versions[v], versions'[v])
    BY <1>0, <2>2, MarkedRows, SameRowAsItIs
  <2>4. QED
    BY <2>1, <2>3, RowsStay
<1>2. ASSUME NEW s \in Sources, Archive(s) \/ Restore(s)
      PROVE  ReferenceInv' /\ RowsKept
  BY <1>2, SourceRows
<1>3. ASSUME NEW v \in DOMAIN versions, SaveDraft(v) \/ Trash(v) \/ Untrash(v)
      PROVE  ReferenceInv' /\ RowsKept
  BY <1>3, LifecycleRows
<1>4. ASSUME NEW h \in Handlers,
             \/ StoreClaim(h) \/ PersistDependencies(h) \/ ValidateWrites(h)
             \/ ConfirmWrites(h) \/ Drops(h)
      PROVE  ReferenceInv' /\ RowsKept
  BY <1>4, RequestRows
<1>5. ASSUME NEW h \in Handlers, PurgeWrites(h) PROVE ReferenceInv' /\ RowsKept
  BY <1>5, RowPurged
<1>6. ASSUME NEW h \in Handlers, NEW d \in workload.types,
             Collect(h, d) \/ RunRounds(h, d) \/ InsertVersion(h, d)
      PROVE  ReferenceInv' /\ RowsKept
  BY <1>6, LoopRows
<1>7. ASSUME NEW h \in Handlers, NEW d \in workload.types,
             CommitReads(h, d) \/ CreateFromSource(h, d)
      PROVE  ReferenceInv' /\ RowsKept
  BY <1>7, EditRows
<1>8. ASSUME NEW h \in Handlers, NEW v \in DOMAIN versions,
             RestoreReads(h, v) \/ ValidateReads(h, v) \/ ConfirmReads(h, v)
               \/ PurgeReads(h, v)
      PROVE  ReferenceInv' /\ RowsKept
  BY <1>8, ReadRows
<1>9. QED
  BY <1>1, <1>2, <1>3, <1>4, <1>5, <1>6, <1>7, <1>8 DEF DocNext

-------------------------------------------------------------------------------
(* Claims *)

\* Dependencies are recorded after the last claim, and nothing but that keeps a version
\* from being confirmed before.
ClaimsInv ==
    \A v \in DOMAIN versions :
        /\ versions[v].stored <= versions[v].claims
        /\ versions[v].base # 0 => versions[v].stored = versions[v].claims
        /\ versions[v].approved => versions[v].stored = versions[v].claims \/ v \in hasty

SameClaims(before, after) ==
    /\ after.claims = before.claims /\ after.stored = before.stored
    /\ after.base = before.base
    /\ after.approved <=> before.approved

LEMMA SameClaimsAsItIs == \A version : SameClaims(version, version)
BY DEF SameClaims

LEMMA ClaimsStay ==
  ASSUME ClaimsInv, DOMAIN versions' = DOMAIN versions, hasty \subseteq hasty',
         \A v \in DOMAIN versions : SameClaims(versions[v], versions'[v])
  PROVE  ClaimsInv'
BY DEF ClaimsInv, SameClaims

\* A step that writes one version.
LEMMA OneKeepsClaims ==
  ASSUME DocInv, ClaimsInv, NEW v \in DOMAIN versions, NEW version \in Version,
         versions' = [versions EXCEPT ![v] = version], hasty \subseteq hasty',
         version.stored <= version.claims,
         version.base # 0 => version.stored = version.claims,
         version.approved => version.stored = version.claims \/ v \in hasty'
  PROVE  ClaimsInv'
<1>1. /\ DOMAIN versions' = DOMAIN versions /\ versions'[v] = version
      /\ \A u \in DOMAIN versions : u # v => versions'[u] = versions[u]
  BY VersionIs DEF DocInv
<1>2. QED
  BY <1>1 DEF ClaimsInv

LEMMA ClaimsOfAdded ==
  ASSUME DocInv, ClaimsInv, NEW version \in Version, UNCHANGED hasty,
         versions' = Append(versions, version),
         version.stored = 0, version.base # 0 => version.claims = 0, ~version.approved
  PROVE  ClaimsInv'
<1>1. /\ DOMAIN versions = 1 .. Len(versions) /\ Len(versions) \in Nat
      /\ DOMAIN versions' = 1 .. Len(versions) + 1
      /\ \A v \in DOMAIN versions : versions'[v] = versions[v]
      /\ versions'[Len(versions) + 1] = version
  BY DEF DocInv, DocumentTypes
<1>2. \A v \in DOMAIN versions' : v \in DOMAIN versions \/ v = Len(versions) + 1
  BY <1>1
<1>3. 0 <= version.claims
  BY DEF Version
<1>4. QED
  BY <1>1, <1>2, <1>3 DEF ClaimsInv

LEMMA MarkedClaims ==
  ASSUME DocumentTypes, NEW which, versions' = Marked(which)
  PROVE  /\ DOMAIN versions' = DOMAIN versions
         /\ \A v \in DOMAIN versions : SameClaims(versions[v], versions'[v])
<1>1. ASSUME NEW v \in DOMAIN versions PROVE SameClaims(versions[v], versions'[v])
  <2> DEFINE marked == [versions[v] EXCEPT !.health = "review"]
  <2>1. SameClaims(versions[v], marked)
    BY VersionFields DEF Version, SameClaims
  <2>2. versions'[v] = IF v \in which /\ versions[v].base # 0 THEN marked ELSE versions[v]
    BY DEF Marked
  <2> HIDE DEF marked
  <2>3. QED
    BY <2>1, <2>2, SameClaimsAsItIs
<1>2. QED
  BY <1>1 DEF Marked

\* The writes of a request whose version is there already.
LEMMA RequestClaims ==
  ASSUME DocInv, ClaimsInv, NEW h \in Handlers,
         \/ StoreClaim(h) \/ PersistDependencies(h) \/ ValidateWrites(h)
         \/ ConfirmWrites(h) \/ PurgeWrites(h)
  PROVE  ClaimsInv' /\ hasty \subseteq hasty'
<1> DEFINE v == requests[h].version
<1>1. /\ DocumentTypes /\ requests[h] \in Request /\ Holds(requests[h])
      /\ v \in DOMAIN versions /\ versions[v] \in Version
  BY VersionFields DEF DocInv, DocumentTypes, Holds, StoreClaim, PersistDependencies,
     ValidateWrites, ConfirmWrites, PurgeWrites
<1>2. /\ versions[v].stored <= versions[v].claims
      /\ versions[v].base # 0 => versions[v].stored = versions[v].claims
      /\ versions[v].approved => versions[v].stored = versions[v].claims \/ v \in hasty
      /\ versions[v].stored \in Nat /\ versions[v].claims \in Nat
  BY <1>1 DEF ClaimsInv, Version
<1>3. hasty \subseteq hasty'
  BY DEF StoreClaim, PersistDependencies, ValidateWrites, ConfirmWrites, PurgeWrites
<1>4. CASE StoreClaim(h)
  <2> DEFINE version == [versions[v] EXCEPT !.stored = versions[v].stored + 1]
  <2>1. /\ versions' = [versions EXCEPT ![v] = version] /\ UNCHANGED hasty
        /\ versions[v].stored < versions[v].claims /\ requests[h].op = "inserted"
    BY <1>1, <1>4 DEF StoreClaim, DocumentTypes
  <2>2. versions[v].base = 0
    BY <1>1, <2>1 DEF Holds
  <2>3. /\ version \in Version /\ version.base = 0
        /\ version.stored = versions[v].stored + 1 /\ version.claims = versions[v].claims
        /\ version.approved <=> versions[v].approved
    BY <1>1, <2>2, StoredClaim DEF Remains
  <2> HIDE DEF version
  <2>4. version.stored <= version.claims /\ versions[v].stored # versions[v].claims
    BY <1>2, <2>1, <2>3
  <2>5. version.approved => v \in hasty'
    BY <1>2, <2>1, <2>3, <2>4
  <2> HIDE DEF v
  <2>6. QED
    BY <1>1, <1>3, <2>1, <2>3, <2>4, <2>5, OneKeepsClaims
<1>5. CASE PersistDependencies(h)
  <2> DEFINE base == requests[h].snapshot
             version == [versions[v] EXCEPT !.base = base, !.health = "current"]
  <2>1. /\ versions' = [versions EXCEPT ![v] = version]
        /\ versions[v].stored = versions[v].claims /\ base \in Nat
    BY <1>1, <1>5 DEF PersistDependencies, DocumentTypes, Request
  <2> HIDE DEF base
  <2>2. /\ version \in Version
        /\ version.stored = versions[v].stored /\ version.claims = versions[v].claims
    BY <1>1, <2>1 DEF Version
  <2> HIDE DEF version, v
  <2>3. QED
    BY <1>1, <1>2, <1>3, <2>1, <2>2, OneKeepsClaims
<1>6. CASE ValidateWrites(h)
  <2> DEFINE passed == requests[h].passed
             health == HealthNow(versions[v], passed)
             version == [versions[v] EXCEPT !.health = health, !.passed = passed]
  <2>1. versions' = [versions EXCEPT ![v] = version]
    BY <1>1, <1>6 DEF ValidateWrites, DocumentTypes
  <2>2. health \in {"current", "review"} /\ passed \in BOOLEAN
    BY <1>1 DEF HealthNow, Request
  <2> HIDE DEF health, passed
  <2>3. version \in Version /\ SameClaims(versions[v], version)
    BY <1>1, <2>2 DEF Version, SameClaims
  <2> HIDE DEF version, v
  <2>4. QED
    BY <1>1, <1>2, <1>3, <2>1, <2>3, OneKeepsClaims DEF SameClaims
<1>7. CASE ConfirmWrites(h)
  <2> DEFINE version == [versions[v] EXCEPT !.approved = TRUE]
  <2>1. versions' = [versions EXCEPT ![v] = version]
    BY <1>1, <1>7 DEF ConfirmWrites, DocumentTypes
  <2>2. versions[v].stored < versions[v].claims => v \in hasty'
    BY <1>7 DEF ConfirmWrites
  <2>3. /\ version \in Version /\ version.base = versions[v].base
        /\ version.stored = versions[v].stored /\ version.claims = versions[v].claims
    BY <1>1 DEF Version
  <2> HIDE DEF version, v
  <2>4. versions[v].stored = versions[v].claims \/ v \in hasty'
    BY <1>2, <2>2
  <2>5. QED
    BY <1>1, <1>2, <1>3, <2>1, <2>3, <2>4, OneKeepsClaims
<1>8. CASE PurgeWrites(h)
  <2> DEFINE version == [versions[v] EXCEPT !.lifecycle = "purged"]
  <2>1. versions' = [versions EXCEPT ![v] = version]
    BY <1>1, <1>8 DEF PurgeWrites, DocumentTypes
  <2>2. version \in Version /\ SameClaims(versions[v], version)
    BY <1>1 DEF Version, SameClaims
  <2> HIDE DEF version, v
  <2>3. QED
    BY <1>1, <1>2, <1>3, <2>1, <2>2, OneKeepsClaims DEF SameClaims
<1>9. QED
  BY <1>3, <1>4, <1>5, <1>6, <1>7, <1>8

\* A new version comes without claims, and without anything that rests on them.
LEMMA AddedClaims ==
  ASSUME DocInv, ClaimsInv, NEW h \in Handlers, NEW d \in workload.types,
         InsertVersion(h, d) \/ CreateFromSource(h, d)
  PROVE  ClaimsInv' /\ UNCHANGED hasty
<1>0. /\ d \in DocTypes /\ DocumentTypes /\ requests[h] \in Request
      /\ Holds(requests[h])
  BY TypesAreDocTypes DEF DocInv, DocumentTypes
<1>1. CASE InsertVersion(h, d)
  <2> DEFINE read == requests[h]
             claims == IF read.cites = {} THEN workload.claims ELSE 0
             version == [doc |-> d, number |-> read.number, base |-> 0,
                         cites |-> read.cites, claims |-> claims, stored |-> 0,
                         passed |-> read.passed, approved |-> FALSE,
                         lifecycle |-> "active", health |-> "none", from |-> 0]
  <2>1. /\ versions' = Append(versions, version) /\ UNCHANGED hasty
        /\ read.op = "numbered"
    BY <1>1 DEF InsertVersion
  <2>2. claims \in Nat
    BY <1>0, WorkloadsAssumption DEF DocumentTypes
  <2>3. read.number \in Nat \ {0}
    BY <1>0, <2>1 DEF Holds, DocumentTypes
  <2>4. read.cites \in SUBSET Sources /\ read.passed \in BOOLEAN
    BY <1>0 DEF Request
  <2> HIDE DEF claims, read
  <2>5. /\ version \in Version /\ version.stored = 0 /\ version.base = 0
        /\ ~version.approved
    BY <1>0, <2>2, <2>3, <2>4 DEF Version
  <2> HIDE DEF version
  <2>6. QED
    BY <2>1, <2>5, ClaimsOfAdded
<1>2. CASE CreateFromSource(h, d)
  <2> DEFINE source == requests[h].version
             number == requests[h].number
             from == IF requests[h].restores THEN source ELSE 0
             version == Copy(versions[source], number, from)
  <2>1. /\ versions' = Append(versions, version) /\ UNCHANGED hasty
        /\ requests[h].op = "create"
    BY <1>2 DEF CreateFromSource, Edited, Copy
  <2>2. /\ versions[source] \in Version /\ number \in Nat \ {0} /\ from \in Nat
    BY <1>0, <2>1, VersionFields DEF Holds, DocumentTypes, Request
  <2> HIDE DEF source, number, from
  <2>3. /\ version \in Version
        /\ version.stored = 0 /\ version.claims = 0 /\ ~version.approved
    BY <2>2 DEF Version, Copy
  <2> HIDE DEF version
  <2>4. QED
    BY <2>1, <2>3, ClaimsOfAdded
<1>3. QED
  BY <1>1, <1>2

LEMMA ClaimsNextInv ==
  ASSUME DocInv, ClaimsInv, DocNext
  PROVE  ClaimsInv' /\ hasty \subseteq hasty'
<1>0. DocumentTypes
  BY DEF DocInv
<1>1. ASSUME UNCHANGED <<versions, hasty>> PROVE ClaimsInv' /\ hasty \subseteq hasty'
  BY <1>1 DEF ClaimsInv
<1>2. ASSUME NEW which, versions' = Marked(which), UNCHANGED hasty
      PROVE  ClaimsInv' /\ hasty \subseteq hasty'
  BY <1>0, <1>2, MarkedClaims, ClaimsStay
<1>3. CASE ClaimChanges \/ NewSnapshot \/ Reconfirm
  BY <1>1, <1>2, <1>3 DEF ClaimChanges, NewSnapshot, Reconfirm
<1>4. ASSUME NEW s \in Sources, Archive(s) \/ Restore(s)
      PROVE  ClaimsInv' /\ hasty \subseteq hasty'
  BY <1>1, <1>2, <1>4 DEF Archive, Restore
<1>5. ASSUME NEW v \in DOMAIN versions, SaveDraft(v) \/ Trash(v) \/ Untrash(v)
      PROVE  ClaimsInv' /\ hasty \subseteq hasty'
  <2>1. CASE SaveDraft(v)
    BY <1>1, <2>1 DEF SaveDraft
  <2>2. CASE Trash(v) \/ Untrash(v)
    <3>1. PICK lifecycle \in {"active", "trashed"} :
            versions' = [versions EXCEPT ![v].lifecycle = lifecycle]
      BY <2>2 DEF Trash, Untrash
    <3> DEFINE version == [versions[v] EXCEPT !.lifecycle = lifecycle]
    <3>2. versions' = [versions EXCEPT ![v] = version] /\ versions[v] \in Version
      BY <1>0, <3>1, VersionFields DEF DocumentTypes
    <3>3. version \in Version /\ SameClaims(versions[v], version)
      BY <3>1, <3>2 DEF Version, SameClaims
    <3>4. UNCHANGED hasty
      BY <2>2 DEF Trash, Untrash
    <3> HIDE DEF version
    <3>5. QED
      BY <3>2, <3>3, <3>4, OneKeepsClaims DEF ClaimsInv, SameClaims
  <2>3. QED
    BY <1>5, <2>1, <2>2
<1>6. ASSUME NEW h \in Handlers,
             \/ StoreClaim(h) \/ PersistDependencies(h) \/ ValidateWrites(h)
             \/ ConfirmWrites(h) \/ PurgeWrites(h)
      PROVE  ClaimsInv' /\ hasty \subseteq hasty'
  BY <1>6, RequestClaims
<1>7. ASSUME NEW h \in Handlers, Drops(h)
      PROVE  ClaimsInv' /\ hasty \subseteq hasty'
  BY <1>1, <1>7 DEF Drops, Reads
<1>8. ASSUME NEW h \in Handlers, NEW d \in workload.types,
             Collect(h, d) \/ RunRounds(h, d) \/ CommitReads(h, d)
      PROVE  ClaimsInv' /\ hasty \subseteq hasty'
  BY <1>1, <1>8 DEF Collect, RunRounds, CommitReads, Reads
<1>9. ASSUME NEW h \in Handlers, NEW d \in workload.types,
             InsertVersion(h, d) \/ CreateFromSource(h, d)
      PROVE  ClaimsInv' /\ hasty \subseteq hasty'
  BY <1>9, AddedClaims
<1>10. ASSUME NEW h \in Handlers, NEW v \in DOMAIN versions,
              RestoreReads(h, v) \/ ValidateReads(h, v) \/ ConfirmReads(h, v)
                \/ PurgeReads(h, v)
       PROVE  ClaimsInv' /\ hasty \subseteq hasty'
  BY <1>1, <1>10 DEF RestoreReads, ValidateReads, ConfirmReads, PurgeReads, Reads
<1>11. QED
  BY <1>3, <1>4, <1>5, <1>6, <1>7, <1>8, <1>9, <1>10 DEF DocNext

-------------------------------------------------------------------------------
(* Packages *)

\* The latest of the versions that are eligible is one of them.
LEMMA LatestIsEligible ==
  ASSUME DocumentTypes, NEW d, NEW s, Eligible(d, s) # {}
  PROVE  /\ Latest(d, s) \in Eligible(d, s)
         /\ Latest(d, s) # 0
<1> DEFINE Found == Eligible(d, s)
           Given == {versions[v].number : v \in Found}
<1>1. Len(versions) \in Nat /\ Found \subseteq DOMAIN versions /\ Found # {}
  BY DEF DocumentTypes, Eligible
<1>2. ASSUME NEW v \in Found PROVE versions[v].number \in 0 .. Len(versions)
  <2>1. v \in DOMAIN versions /\ versions[v] \in Version
    BY <1>1, VersionFields
  <2>2. versions[v].number \in Nat
    BY <2>1 DEF Version
  <2>3. versions[v].number <= Len(versions)
    BY <2>1 DEF DocumentTypes
  <2>4. QED
    BY <1>1, <2>2, <2>3
<1> HIDE DEF Found
<1>3. Given \subseteq 0 .. Len(versions) /\ Given # {}
  BY <1>1, <1>2
<1>4. PICK x \in Given : \A y \in Given : y <= x
  BY <1>1, <1>3, GreatestExists
<1>5. \E v \in Found : \A u \in Found : versions[u].number <= versions[v].number
  BY <1>4
<1>6. Latest(d, s) = CHOOSE v \in Found : \A u \in Found :
                                            versions[u].number <= versions[v].number
  BY DEF Latest, Found
<1>7. Latest(d, s) \in Found
  BY <1>5, <1>6
<1>8. 0 \notin Found
  BY <1>1, VersionFields
<1>9. QED
  BY <1>7, <1>8 DEF Found

LEMMA LatestIs ==
  ASSUME DocumentTypes, NEW d, NEW s, Latest(d, s) # 0
  PROVE  Latest(d, s) \in Eligible(d, s)
BY LatestIsEligible DEF Latest

\* What a package was built from stays as it was when it was built.
PackageRests(p) ==
    /\ \A d \in workload.types :
         /\ p.docs[d] \in DOMAIN versions
         /\ versions[p.docs[d]].approved /\ versions[p.docs[d]].doc = d
         /\ p.snapshot # 0 => versions[p.docs[d]].base = p.snapshot
    /\ ~p.disturbed =>
         /\ p.snapshot # 0 => p.healthy
         /\ p.listed \subseteq UNION {Claims(p.docs[d]) : d \in workload.types}
         /\ \A d \in workload.types : \/ Claims(p.docs[d]) \subseteq p.listed
                                      \/ p.snapshot = 0 /\ p.docs[d] \in hasty
         /\ p.listed \in acknowledged \/ (p.listed = {} /\ Sources # {})

\* As long as nothing changes, an export has found the snapshot and the documents that
\* there are.
ExportRests(export) ==
    export.op # "idle" /\ ~export.disturbed =>
        /\ export.snapshot = snapshot
        /\ export.op \in {"ready", "building"} =>
             Ready(snapshot) /\ export.listed = Unresolved(Selected(snapshot))

HandoffInv ==
    /\ DocInv /\ ClaimsInv
    /\ exports \in [Exporters -> Export]
    /\ \A p \in packages : PackageRests(p)
    /\ \A x \in Exporters : ExportRests(exports[x])

LEMMA HandoffInvImplies == HandoffInv /\ NumbersAreUnique => PackagesAreConfirmed
BY DEF HandoffInv, PackageRests, PackagesAreConfirmed, NumbersAreUnique, Stored

LEMMA NoExportIs ==
  NoExport \in Export /\ NoExport.op = "idle" /\ NoExport.disturbed = FALSE
BY DEF NoExport, Export

LEMMA HandoffInitInv == Init => HandoffInv
BY DocInitInv, NoExportIs DEF Init, DocInit, HandoffInv, ExportRests, ClaimsInv

LEMMA PackagesRemain ==
  ASSUME HandoffInv, VersionsRemain, UNCHANGED workload, hasty \subseteq hasty',
         acknowledged \subseteq acknowledged', NEW p \in packages
  PROVE  PackageRests(p)'
<1>1. PackageRests(p)
  BY DEF HandoffInv
<1>2. \A d \in workload.types : Claims(p.docs[d])' = Claims(p.docs[d])
  BY <1>1 DEF PackageRests, VersionsRemain, Remains, Claims
<1>3. ASSUME NEW d \in workload.types
      PROVE  /\ p.docs[d] \in DOMAIN versions'
             /\ versions'[p.docs[d]].approved /\ versions'[p.docs[d]].doc = d
             /\ p.snapshot # 0 => versions'[p.docs[d]].base = p.snapshot
  BY <1>1 DEF PackageRests, VersionsRemain, Remains
<1>4. ASSUME ~p.disturbed
      PROVE  /\ p.snapshot # 0 => p.healthy
             /\ p.listed \subseteq UNION {Claims(p.docs[d])' : d \in workload.types}
             /\ \A d \in workload.types : \/ Claims(p.docs[d])' \subseteq p.listed
                                          \/ p.snapshot = 0 /\ p.docs[d] \in hasty'
             /\ p.listed \in acknowledged' \/ (p.listed = {} /\ Sources # {})
  <2>1. {Claims(p.docs[d])' : d \in workload.types} = {Claims(p.docs[d]) : d \in workload.types}
    BY <1>2
  <2>2. QED
    BY <1>1, <1>2, <1>4, <2>1 DEF PackageRests
<1>5. QED
  BY <1>3, <1>4 DEF PackageRests

LEMMA SameDocuments ==
  ASSUME UNCHANGED docVars
  PROVE  VersionsRemain /\ (DocInv => DocInv') /\ (ClaimsInv => ClaimsInv') /\ UNCHANGED hasty
<1>1. VersionsRemain /\ UNCHANGED <<versions, hasty>>
  BY RemainsAsItIs DEF docVars, VersionsRemain
<1>2. DocInv => DocInv'
  BY DEF docVars, DocInv, DocumentTypes, Holds, OneEach, CurrentRests
<1>3. ClaimsInv => ClaimsInv'
  BY <1>1 DEF ClaimsInv
<1>4. QED
  BY <1>1, <1>2, <1>3

LEMMA ReadyRemains ==
  ASSUME UNCHANGED docVars, acknowledged \subseteq acknowledged', NEW s
  PROVE  /\ Selected(s)' = Selected(s)
         /\ Unresolved(Selected(s))' = Unresolved(Selected(s))
         /\ Ready(s) => Ready(s)'
<1>1. UNCHANGED <<workload, versions>>
  BY DEF docVars
<1>2. Selected(s)' = Selected(s)
  BY <1>1 DEF Selected, Latest, Eligible, IsActive
<1>3. Unresolved(Selected(s))' = Unresolved(Selected(s))
  BY <1>1, <1>2 DEF Unresolved, StoredClaims
<1>4. Ready(s) => Ready(s)'
  BY <1>1, <1>2, <1>3 DEF Ready, Complete, Healthy, Acknowledged
<1>5. QED
  BY <1>2, <1>3, <1>4

\* A step of one export.
LEMMA ExportStep ==
  ASSUME HandoffInv, UNCHANGED <<docVars, acknowledged>>, NEW x \in Exporters,
         NEW export \in Export, exports' = [exports EXCEPT ![x] = export],
         ExportRests(export), \A p \in packages' : p \in packages \/ PackageRests(p)
  PROVE  HandoffInv'
<1>1. /\ exports' \in [Exporters -> Export] /\ exports'[x] = export
      /\ \A y \in Exporters : y # x => exports'[y] = exports[y]
  BY DEF HandoffInv
<1>2. /\ DocInv' /\ ClaimsInv' /\ VersionsRemain
      /\ UNCHANGED <<workload, versions, snapshot, hasty>>
  BY SameDocuments DEF HandoffInv, docVars
<1>3. \A e : ExportRests(e) => ExportRests(e)'
  BY <1>2, ReadyRemains DEF ExportRests
<1>4. \A y \in Exporters : ExportRests(exports[y])'
  BY <1>1, <1>3 DEF HandoffInv
<1>5. ASSUME NEW p \in packages' PROVE PackageRests(p)'
  <2>1. CASE p \in packages
    BY <1>2, <2>1, PackagesRemain
  <2>2. CASE PackageRests(p)
    BY <1>2, <2>2 DEF PackageRests, Claims
  <2>3. QED
    BY <2>1, <2>2
<1>6. QED
  BY <1>1, <1>2, <1>4, <1>5 DEF HandoffInv

\* What an export reads is typed, and the claims it lists are those of versions.
LEMMA UnresolvedAre ==
  ASSUME DocumentTypes, ClaimsInv, NEW s
  PROVE  /\ Unresolved(Selected(s)) \subseteq UNION {Claims(v) : v \in DOMAIN versions}
         /\ Unresolved(Selected(s)) \in SUBSET (Nat \X Nat)
         /\ Selected(s) \in Selection
<1>1. ASSUME NEW d \in workload.types PROVE Latest(d, s) \in Nat /\ (Latest(d, s) # 0 => Latest(d, s) \in DOMAIN versions)
  <2>1. CASE Latest(d, s) = 0
    BY <2>1
  <2>2. CASE Latest(d, s) # 0
    BY <2>2, LatestIs, VersionFields DEF Eligible
  <2>3. QED
    BY <2>1, <2>2
<1>2. ASSUME NEW v \in DOMAIN versions
      PROVE  StoredClaims(v) \subseteq Claims(v) /\ Claims(v) \subseteq Nat \X Nat
  <2>1. /\ v \in Nat /\ versions[v].stored \in Nat /\ versions[v].claims \in Nat
        /\ versions[v].stored <= versions[v].claims
    BY VersionFields DEF ClaimsInv, Version
  <2>2. /\ 1 .. versions[v].stored \subseteq 1 .. versions[v].claims
        /\ 1 .. versions[v].claims \subseteq Nat
    BY <2>1
  <2>3. QED
    BY <2>1, <2>2 DEF Claims, StoredClaims
<1>3. Selected(s) \in Selection
  BY <1>1 DEF Selected, Selection
<1>4. ASSUME NEW c \in Unresolved(Selected(s))
      PROVE  \E v \in DOMAIN versions : c \in Claims(v) /\ c \in Nat \X Nat
  <2>1. PICK d \in workload.types : /\ Selected(s)[d] # 0
                                   /\ c \in StoredClaims(Selected(s)[d])
    BY DEF Unresolved
  <2>2. Selected(s)[d] \in DOMAIN versions
    BY <1>1, <2>1 DEF Selected
  <2>3. QED
    BY <1>2, <2>1, <2>2
<1>5. QED
  BY <1>3, <1>4

LEMMA HandoffNextInv == HandoffInv /\ [Next]_vars => HandoffInv'
<1> SUFFICES ASSUME HandoffInv, [Next]_vars PROVE HandoffInv'
  OBVIOUS
<1>0. DocInv /\ ClaimsInv /\ DocumentTypes /\ snapshot \in Nat
  BY DEF HandoffInv, DocInv, DocumentTypes
<1>1. CASE DocumentStep
  <2>1. /\ DocInv' /\ VersionsRemain /\ ClaimsInv' /\ hasty \subseteq hasty'
        /\ UNCHANGED <<packages, acknowledged>>
        /\ exports' = [x \in Exporters |->
             IF exports[x].op # "idle" /\ <<versions, snapshot>>' # <<versions, snapshot>>
             THEN [exports[x] EXCEPT !.disturbed = TRUE] ELSE exports[x]]
    BY <1>0, <1>1, DocNextInv, ClaimsNextInv DEF DocumentStep
  <2>2. UNCHANGED workload
    BY <1>1, WorkloadStays DEF DocumentStep
  <2>3. \A p \in packages' : PackageRests(p)'
    BY <2>1, <2>2, PackagesRemain
  <2>4. ASSUME NEW x \in Exporters
        PROVE  exports'[x] \in Export /\ ExportRests(exports[x])'
    <3> DEFINE told == [exports[x] EXCEPT !.disturbed = TRUE]
    <3>1. exports[x] \in Export /\ ExportRests(exports[x])
      BY DEF HandoffInv
    <3>2. told \in Export /\ told.disturbed = TRUE
      BY <3>1 DEF Export
    <3>3. CASE exports[x].op # "idle" /\ <<versions, snapshot>>' # <<versions, snapshot>>
      <4>1. exports'[x] = told
        BY <2>1, <3>3
      <4> HIDE DEF told
      <4>2. QED
        BY <3>2, <4>1 DEF ExportRests
    <3>4. CASE exports[x].op # "idle" /\ <<versions, snapshot>>' = <<versions, snapshot>>
      <4>1. exports'[x] = exports[x] /\ UNCHANGED <<workload, versions, snapshot, acknowledged>>
        BY <2>1, <2>2, <3>4
      <4>2. Selected(snapshot)' = Selected(snapshot)
        BY <4>1 DEF Selected, Latest, Eligible, IsActive
      <4>3. Unresolved(Selected(snapshot))' = Unresolved(Selected(snapshot))
        BY <4>1, <4>2 DEF Unresolved, StoredClaims
      <4>4. Ready(snapshot) => Ready(snapshot)'
        BY <4>1, <4>2, <4>3 DEF Ready, Complete, Healthy, Acknowledged
      <4>5. QED
        BY <3>1, <4>1, <4>3, <4>4 DEF ExportRests
    <3>5. CASE exports[x].op = "idle"
      BY <2>1, <3>1, <3>5 DEF ExportRests
    <3>6. QED
      BY <3>3, <3>4, <3>5
  <2>5. exports' \in [Exporters -> Export]
    BY <2>1, <2>4
  <2>6. QED
    BY <2>1, <2>3, <2>4, <2>5 DEF HandoffInv
<1>2. CASE Acknowledge
  <2>1. /\ acknowledged \subseteq acknowledged'
        /\ UNCHANGED <<docVars, packages, exports>>
    BY <1>2 DEF Acknowledge
  <2>2. /\ DocInv' /\ ClaimsInv' /\ VersionsRemain
        /\ UNCHANGED <<workload, versions, snapshot, hasty>>
    BY <1>0, <2>1, SameDocuments DEF docVars
  <2>3. \A p \in packages' : PackageRests(p)'
    BY <2>1, <2>2, PackagesRemain
  <2>4. \A x \in Exporters : ExportRests(exports[x])'
    BY <2>1, <2>2, ReadyRemains DEF HandoffInv, ExportRests
  <2>5. QED
    BY <2>1, <2>2, <2>3, <2>4 DEF HandoffInv
<1>3. ASSUME NEW x \in Exporters, CheckSnapshot(x) PROVE HandoffInv'
  <2> DEFINE export == [NoExport EXCEPT !.op = "checking", !.snapshot = snapshot]
  <2>1. /\ export \in Export /\ export.op = "checking" /\ export.snapshot = snapshot
    BY <1>0 DEF NoExport, Export
  <2>2. /\ exports' = [exports EXCEPT ![x] = export]
        /\ UNCHANGED <<docVars, packages, acknowledged>>
    BY <1>3 DEF CheckSnapshot, Advance
  <2> HIDE DEF export
  <2>3. QED
    BY <2>1, <2>2, ExportStep DEF ExportRests
<1>4. ASSUME NEW x \in Exporters, CheckDocuments(x) PROVE HandoffInv'
  <2> DEFINE s == exports[x].snapshot
             listed == Unresolved(Selected(s))
             export == [exports[x] EXCEPT !.op = "ready", !.listed = listed]
  <2>1. /\ exports[x] \in Export /\ ExportRests(exports[x]) /\ exports[x].op = "checking"
        /\ Ready(s) /\ Complete(Selected(s))
    BY <1>4 DEF CheckDocuments, HandoffInv, Ready
  <2>2. listed \in SUBSET (Nat \X Nat)
    BY <1>0, UnresolvedAre
  <2>3. /\ exports' = [exports EXCEPT ![x] = export]
        /\ UNCHANGED <<docVars, packages, acknowledged>>
    BY <1>4 DEF CheckDocuments, Advance
  <2> HIDE DEF listed
  <2>4. /\ export \in Export /\ export.op = "ready" /\ export.listed = listed
        /\ export.snapshot = s /\ (export.disturbed <=> exports[x].disturbed)
    BY <2>1, <2>2 DEF Export
  <2> HIDE DEF export
  <2>5. ExportRests(export)
    BY <2>1, <2>4 DEF ExportRests, listed
  <2>6. QED
    BY <2>3, <2>4, <2>5, ExportStep
<1>5. ASSUME NEW x \in Exporters, ReadProject(x) PROVE HandoffInv'
  <2> DEFINE export == [exports[x] EXCEPT !.op = "building", !.snapshot = snapshot]
  <2>1. exports[x] \in Export /\ ExportRests(exports[x]) /\ exports[x].op = "ready"
    BY <1>5 DEF ReadProject, HandoffInv
  <2>2. /\ exports' = [exports EXCEPT ![x] = export]
        /\ UNCHANGED <<docVars, packages, acknowledged>>
    BY <1>5 DEF ReadProject, Advance
  <2>3. /\ export \in Export /\ export.op = "building" /\ export.snapshot = snapshot
        /\ export.listed = exports[x].listed
        /\ (export.disturbed <=> exports[x].disturbed)
    BY <1>0, <2>1 DEF Export
  <2> HIDE DEF export
  <2>4. ExportRests(export)
    BY <2>1, <2>3 DEF ExportRests
  <2>5. QED
    BY <2>2, <2>3, <2>4, ExportStep
<1>6. ASSUME NEW x \in Exporters, BuildPackage(x) PROVE HandoffInv'
  <2> DEFINE s == exports[x].snapshot
             docs == Selected(s)
             healthy == Healthy(docs)
             package == [snapshot |-> s, docs |-> docs, listed |-> exports[x].listed,
                         healthy |-> healthy, disturbed |-> exports[x].disturbed]
  <2>1. /\ exports[x] \in Export /\ ExportRests(exports[x]) /\ exports[x].op = "building"
        /\ Complete(docs)
    BY <1>6 DEF BuildPackage, HandoffInv
  <2>2. /\ exports' = [exports EXCEPT ![x] = NoExport]
        /\ packages' = packages \cup {package}
        /\ UNCHANGED <<docVars, acknowledged>>
    BY <1>6 DEF BuildPackage, Advance
  <2>3. ASSUME NEW d \in workload.types
        PROVE  /\ docs[d] \in DOMAIN versions
               /\ versions[docs[d]].approved /\ versions[docs[d]].doc = d
               /\ s # 0 => versions[docs[d]].base = s
    <3>1. docs[d] = Latest(d, s) /\ Latest(d, s) # 0
      BY <2>1 DEF Complete, Selected
    <3>2. docs[d] \in Eligible(d, s)
      BY <1>0, <3>1, LatestIs
    <3>3. QED
      BY <3>2 DEF Eligible
  <2>4. ASSUME ~exports[x].disturbed
        PROVE  /\ s # 0 => healthy
               /\ exports[x].listed \subseteq UNION {Claims(docs[d]) : d \in workload.types}
               /\ \A d \in workload.types : \/ Claims(docs[d]) \subseteq exports[x].listed
                                            \/ s = 0 /\ docs[d] \in hasty
               /\ exports[x].listed \in acknowledged
                    \/ (exports[x].listed = {} /\ Sources # {})
    <3>1. /\ s # 0 => healthy
          /\ exports[x].listed = Unresolved(docs) /\ Acknowledged(docs)
      BY <2>1, <2>4 DEF ExportRests, Ready
    <3>2. \A d \in workload.types : docs[d] # 0
      BY <2>1 DEF Complete
    <3> HIDE DEF docs, healthy, s
    <3>3. exports[x].listed = UNION {StoredClaims(docs[d]) : d \in workload.types}
      BY <3>1, <3>2 DEF Unresolved
    <3>4. ASSUME NEW d \in workload.types
          PROVE  /\ StoredClaims(docs[d]) \subseteq Claims(docs[d])
                 /\ StoredClaims(docs[d]) = Claims(docs[d]) \/ (s = 0 /\ docs[d] \in hasty)
      <4>1. /\ docs[d] \in DOMAIN versions /\ versions[docs[d]] \in Version
            /\ versions[docs[d]].approved
            /\ s # 0 => versions[docs[d]].base = s
        BY <1>0, <2>3, VersionFields
      <4>2. /\ versions[docs[d]].stored \in Nat /\ versions[docs[d]].claims \in Nat
            /\ versions[docs[d]].stored <= versions[docs[d]].claims
        BY <1>0, <4>1 DEF ClaimsInv, Version
      <4>3. \/ versions[docs[d]].stored = versions[docs[d]].claims
            \/ s = 0 /\ docs[d] \in hasty
        BY <1>0, <4>1 DEF ClaimsInv
      <4>4. 1 .. versions[docs[d]].stored \subseteq 1 .. versions[docs[d]].claims
        BY <4>2
      <4>5. QED
        BY <4>3, <4>4 DEF Claims, StoredClaims
    <3>5. QED
      BY <3>1, <3>3, <3>4 DEF Acknowledged
  <2>5. PackageRests(package)
    <3> HIDE DEF docs, healthy
    <3>1. /\ package.snapshot = s /\ package.docs = docs
          /\ package.listed = exports[x].listed
          /\ package.healthy <=> healthy
          /\ package.disturbed <=> exports[x].disturbed
      OBVIOUS
    <3> HIDE DEF package
    <3>2. QED
      BY <2>3, <2>4, <3>1 DEF PackageRests
  <2> HIDE DEF package
  <2>6. ExportRests(NoExport) /\ \A p \in packages' : p \in packages \/ PackageRests(p)
    BY <2>2, <2>5, NoExportIs DEF ExportRests
  <2>7. QED
    BY <2>2, <2>6, NoExportIs, ExportStep
<1>7. ASSUME NEW x \in Exporters, ExportFails(x) PROVE HandoffInv'
  <2>1. ExportRests(NoExport)
    BY NoExportIs DEF ExportRests
  <2>2. QED
    BY <1>7, <2>1, NoExportIs, ExportStep DEF ExportFails, Advance
<1>8. CASE UNCHANGED vars
  <2>1. UNCHANGED <<docVars, acknowledged, packages, exports>>
    BY <1>8 DEF vars, handoffVars
  <2>2. /\ DocInv' /\ ClaimsInv' /\ VersionsRemain
        /\ UNCHANGED <<workload, versions, snapshot, hasty>>
    BY <1>0, <2>1, SameDocuments DEF docVars
  <2>3. \A p \in packages' : PackageRests(p)'
    BY <2>1, <2>2, PackagesRemain
  <2>4. \A x \in Exporters : ExportRests(exports[x])'
    BY <2>1, <2>2, ReadyRemains DEF HandoffInv, ExportRests
  <2>5. QED
    BY <2>1, <2>2, <2>3, <2>4 DEF HandoffInv
<1>9. QED
  BY <1>1, <1>2, <1>3, <1>4, <1>5, <1>6, <1>7, <1>8 DEF Next

LEMMA HandoffInvariant == Spec => []HandoffInv
BY HandoffInitInv, HandoffNextInv, PTL DEF Spec

-------------------------------------------------------------------------------
(* Types *)

AllClaims == UNION {Claims(v) : v \in DOMAIN versions}

\* The part of the type invariant that the other invariants do without.
BoundsInv ==
    /\ snapshot <= workload.snapshots /\ sound \in BOOLEAN
    /\ Len(versions) <= workload.versions
    /\ raced \subseteq DOMAIN versions /\ hasty \subseteq DOMAIN versions
    /\ packages \subseteq Package
    /\ acknowledged \subseteq SUBSET AllClaims

LEMMA BoundsImplyTypes == HandoffInv /\ BoundsInv => TypeOK
<1> SUFFICES ASSUME HandoffInv, BoundsInv PROVE TypeOK
  OBVIOUS
<1>1. DocumentTypes /\ exports \in [Exporters -> Export] /\ Len(versions) \in Nat
  BY DEF HandoffInv, DocInv, DocumentTypes
<1>2. workload.snapshots \in Nat /\ workload.versions \in Nat
  BY <1>1, WorkloadsAssumption DEF DocumentTypes
<1>3. drafts \in [workload.types -> 0 .. Len(versions)]
  BY <1>1 DEF DocumentTypes
<1>4. QED
  BY <1>1, <1>2, <1>3 DEF DocumentTypes, BoundsInv, TypeOK, DocTypeOK, AllClaims

LEMMA BoundsInitInv == Init => BoundsInv
<1> SUFFICES ASSUME Init PROVE BoundsInv
  OBVIOUS
<1>1. workload.snapshots \in Nat /\ workload.versions \in Nat
  BY WorkloadsAssumption DEF Init, DocInit
<1>2. QED
  BY <1>1 DEF Init, DocInit, BoundsInv

LEMMA DocumentBounds ==
  ASSUME DocInv, BoundsInv, DocNext
  PROVE  /\ snapshot' <= workload.snapshots /\ sound' \in BOOLEAN
         /\ Len(versions') <= workload.versions
         /\ raced' \subseteq DOMAIN versions' /\ hasty' \subseteq DOMAIN versions'
         /\ DOMAIN versions \subseteq DOMAIN versions'
         /\ AllClaims \subseteq AllClaims'
<1>0. /\ DocumentTypes /\ Len(versions) \in Nat /\ snapshot \in Nat
      /\ DOMAIN versions = 1 .. Len(versions) /\ versions \in Seq(Version)
      /\ workload.snapshots \in Nat /\ workload.versions \in Nat
  BY WorkloadsAssumption DEF DocInv, DocumentTypes
<1>1. /\ versions' \in Seq(Version) /\ DOMAIN versions \subseteq DOMAIN versions'
      /\ Len(versions') \in Nat /\ DOMAIN versions' = 1 .. Len(versions')
  BY DocNextInv DEF DocInv, DocumentTypes, VersionsRemain
<1>2. snapshot' <= workload.snapshots
  <2>1. UNCHANGED snapshot \/ NewSnapshot
    BY DEF DocNext, ClaimChanges, Reconfirm, Archive, Restore, SaveDraft, Trash, Untrash,
       StoreClaim, PersistDependencies, ValidateWrites, ConfirmWrites, PurgeWrites, Drops,
       Reads,
       Collect, RunRounds, InsertVersion, CommitReads, CreateFromSource, RestoreReads,
       ValidateReads, ConfirmReads, PurgeReads
  <2>2. QED
    BY <1>0, <2>1 DEF BoundsInv, NewSnapshot
<1>3. sound' \in BOOLEAN
  <2>1. UNCHANGED sound \/ sound' = TRUE \/ sound' = FALSE
    BY DEF DocNext, ClaimChanges, NewSnapshot, Reconfirm, Archive, Restore, SaveDraft,
       Trash, Untrash, StoreClaim, PersistDependencies, ValidateWrites, ConfirmWrites,
       PurgeWrites,
       Drops, Reads, Collect, RunRounds, InsertVersion, CommitReads, CreateFromSource,
       RestoreReads, ValidateReads, ConfirmReads, PurgeReads
  <2>2. QED
    BY <2>1 DEF BoundsInv
<1>4. Len(versions') <= workload.versions
  <2>1. \/ DOMAIN versions' = DOMAIN versions
        \/ Len(versions) < workload.versions /\ \E version : versions' = Append(versions, version)
    <3>1. \A h \in Handlers, d \in workload.types :
            InsertVersion(h, d) \/ CreateFromSource(h, d) =>
              Len(versions) < workload.versions /\ \E version : versions' = Append(versions, version)
      BY DEF InsertVersion, CreateFromSource
    <3>2. \A which : versions' = Marked(which) => DOMAIN versions' = DOMAIN versions
      BY DEF Marked
    <3>3. ClaimChanges => \E which : versions' = Marked(which)
      BY DEF ClaimChanges
    <3>4. \A s \in Sources : Archive(s) => \E which : versions' = Marked(which)
      BY DEF Archive
    <3>5. \A h \in Handlers :
            StoreClaim(h) \/ PersistDependencies(h) \/ ValidateWrites(h) \/ ConfirmWrites(h) \/ PurgeWrites(h)
              => DOMAIN versions' = DOMAIN versions
      BY DEF StoreClaim, PersistDependencies, ValidateWrites, ConfirmWrites, PurgeWrites
    <3>6. \A v : Trash(v) \/ Untrash(v) => DOMAIN versions' = DOMAIN versions
      BY DEF Trash, Untrash
    <3>7. QED
      BY <3>1, <3>2, <3>3, <3>4, <3>5, <3>6
         DEF DocNext, NewSnapshot, Reconfirm, Restore, SaveDraft, Drops, Reads, Collect,
             RunRounds, CommitReads, RestoreReads, ValidateReads, ConfirmReads, PurgeReads
  <2>2. ASSUME Len(versions) < workload.versions, NEW version,
               versions' = Append(versions, version)
        PROVE  Len(versions') <= workload.versions
    BY <1>0, <2>2
  <2>3. DOMAIN versions' = DOMAIN versions => Len(versions') = Len(versions)
    <3>1. versions' \in Seq(Version) /\ versions \in Seq(Version)
      BY <1>0, <1>1
    <3>2. QED
      BY <3>1
  <2>4. QED
    BY <2>1, <2>2, <2>3 DEF BoundsInv
<1>5. raced' \subseteq DOMAIN versions
  <2>1. \A h \in Handlers : requests[h].op = "inserted" => requests[h].version \in DOMAIN versions
    BY DEF DocInv, Holds
  <2>2. raced' \subseteq raced \/ \E h \in Handlers : /\ requests[h].op = "inserted"
                                                      /\ raced' = raced \cup {requests[h].version}
    BY DEF DocNext, ClaimChanges, NewSnapshot, Reconfirm, Archive, Restore, SaveDraft,
       Trash, Untrash, StoreClaim, PersistDependencies, ValidateWrites, ConfirmWrites,
       PurgeWrites,
       Drops, Reads, Collect, RunRounds, InsertVersion, CommitReads, CreateFromSource,
       RestoreReads, ValidateReads, ConfirmReads, PurgeReads
  <2>3. QED
    BY <2>1, <2>2 DEF BoundsInv
<1>6. hasty' \subseteq DOMAIN versions
  <2>1. \A h \in Handlers : requests[h].op = "confirm" => requests[h].version \in DOMAIN versions
    BY DEF DocInv, Holds
  <2>2. hasty' \subseteq hasty \/ \E h \in Handlers : /\ requests[h].op = "confirm"
                                                      /\ hasty' = hasty \cup {requests[h].version}
    BY DEF DocNext, ClaimChanges, NewSnapshot, Reconfirm, Archive, Restore, SaveDraft,
       Trash, Untrash, StoreClaim, PersistDependencies, ValidateWrites, ConfirmWrites,
       PurgeWrites, Drops, Reads, Collect, RunRounds, InsertVersion, CommitReads,
       CreateFromSource, RestoreReads, ValidateReads, ConfirmReads, PurgeReads
  <2>3. QED
    BY <2>1, <2>2 DEF BoundsInv
<1>7. AllClaims \subseteq AllClaims'
  <2>1. VersionsRemain
    BY DocNextInv
  <2>2. ASSUME NEW v \in DOMAIN versions PROVE v \in DOMAIN versions' /\ Claims(v)' = Claims(v)
    BY <2>1 DEF VersionsRemain, Remains, Claims
  <2>3. QED
    BY <2>2 DEF AllClaims
<1>8. QED
  BY <1>1, <1>2, <1>3, <1>4, <1>5, <1>6, <1>7

LEMMA BoundsNextInv == HandoffInv /\ BoundsInv /\ [Next]_vars => BoundsInv'
<1> SUFFICES ASSUME HandoffInv, BoundsInv, [Next]_vars PROVE BoundsInv'
  OBVIOUS
<1>0. DocInv /\ ClaimsInv /\ DocumentTypes /\ snapshot \in Nat /\ exports \in [Exporters -> Export]
  BY DEF HandoffInv, DocInv, DocumentTypes
<1>1. CASE DocumentStep
  <2>1. DocNext /\ UNCHANGED <<workload, packages, acknowledged>>
    BY <1>1, WorkloadStays DEF DocumentStep
  <2>2. Package' = Package
    BY <2>1 DEF Package, Selection
  <2>3. QED
    BY <1>0, <2>1, <2>2, DocumentBounds DEF BoundsInv
<1>2. ASSUME UNCHANGED docVars, acknowledged' \subseteq SUBSET AllClaims,
             \A p \in packages' : p \in Package
      PROVE  BoundsInv'
  <2>1. UNCHANGED <<workload, snapshot, sound, versions, raced, hasty, AllClaims>>
    BY <1>2 DEF docVars, AllClaims, Claims
  <2>2. Package' = Package
    BY <2>1 DEF Package, Selection
  <2>3. QED
    BY <1>2, <2>1, <2>2 DEF BoundsInv
<1>3. CASE Acknowledge
  <2>1. /\ UNCHANGED <<docVars, packages>>
        /\ acknowledged' = acknowledged \cup {Unresolved(Selected(snapshot))}
    BY <1>3 DEF Acknowledge
  <2>2. acknowledged' \subseteq SUBSET AllClaims
    BY <1>0, <2>1, UnresolvedAre DEF BoundsInv, AllClaims
  <2>3. QED
    BY <1>2, <2>1, <2>2 DEF BoundsInv
<1>4. ASSUME NEW x \in Exporters,
             CheckSnapshot(x) \/ CheckDocuments(x) \/ ReadProject(x) \/ ExportFails(x)
      PROVE  BoundsInv'
  <2>1. UNCHANGED <<docVars, packages, acknowledged>>
    BY <1>4 DEF CheckSnapshot, CheckDocuments, ReadProject, ExportFails
  <2>2. QED
    BY <1>2, <2>1 DEF BoundsInv
<1>5. ASSUME NEW x \in Exporters, BuildPackage(x) PROVE BoundsInv'
  <2> DEFINE s == exports[x].snapshot
             docs == Selected(s)
             healthy == Healthy(docs)
             package == [snapshot |-> s, docs |-> docs, listed |-> exports[x].listed,
                         healthy |-> healthy, disturbed |-> exports[x].disturbed]
  <2>1. packages' = packages \cup {package} /\ UNCHANGED <<docVars, acknowledged>>
    BY <1>5 DEF BuildPackage
  <2>2. /\ s \in Nat /\ exports[x].listed \in SUBSET (Nat \X Nat) /\ exports[x].disturbed \in BOOLEAN
        /\ docs \in Selection
    BY <1>0, UnresolvedAre DEF Export
  <2>3. healthy \in BOOLEAN
    BY DEF Healthy
  <2> HIDE DEF docs, healthy, s
  <2>4. package \in Package
    BY <2>2, <2>3 DEF Package
  <2>5. QED
    BY <1>2, <2>1, <2>4 DEF BoundsInv
<1>6. CASE UNCHANGED vars
  BY <1>2, <1>6 DEF vars, handoffVars, BoundsInv
<1>7. QED
  BY <1>1, <1>3, <1>4, <1>5, <1>6 DEF Next

LEMMA RecordsInvariant == Spec => [](HandoffInv /\ ReferenceInv /\ BoundsInv)
<1>1. Init => HandoffInv /\ ReferenceInv /\ BoundsInv
  BY HandoffInitInv, ReferenceInitInv, BoundsInitInv DEF Init
<1>2. ASSUME HandoffInv, ReferenceInv, [Next]_vars PROVE ReferenceInv'
  <2>1. CASE DocumentStep
    BY <1>2, <2>1, ReferenceNextInv DEF HandoffInv, DocumentStep
  <2>2. CASE UNCHANGED docVars
    BY <1>2, <2>2 DEF docVars, ReferenceInv, ReferencesKept, DraftsRest, RestoredRest,
       NumbersAreUnique, CopiesTheirType, Stored
  <2>3. QED
    BY <1>2, <2>1, <2>2 DEF Next, Acknowledge, CheckSnapshot, CheckDocuments, ReadProject,
       BuildPackage, ExportFails, vars
<1>3. HandoffInv /\ ReferenceInv /\ BoundsInv /\ [Next]_vars
        => (HandoffInv /\ ReferenceInv /\ BoundsInv)'
  BY <1>2, HandoffNextInv, BoundsNextInv
<1>4. QED
  BY <1>1, <1>3, PTL DEF Spec

-------------------------------------------------------------------------------
(* Theorems *)

\* A version that is "current" cites only active sources, unless a source went between
\* the loop's collection of its evidence and the record of what it depends on (loop.py,
\* _persist_v3_dependencies; sources.py, archive and restore).
THEOREM CurrentVersionsRest == Spec => []CurrentRestsOnActive
<1>1. HandoffInv => CurrentRestsOnActive
  BY DocInvImplies DEF HandoffInv
<1>2. QED
  BY <1>1, HandoffInvariant, PTL

\* A package holds confirmed documents of its own snapshot, although it is built from
\* other reads than its readiness was found by (handoff.py, build_zip); undisturbed, it
\* was ready as a whole.
THEOREM PackagesRestOnConfirmed == Spec => []PackagesAreConfirmed
<1>1. HandoffInv /\ ReferenceInv => PackagesAreConfirmed
  BY HandoffInvImplies DEF ReferenceInv, ReferencesKept
<1>2. QED
  BY <1>1, RecordsInvariant, PTL

\* What the program recommends next can be done (guidance.py, project_next_action).
THEOREM TheAdviceIsPossible == Spec => []AdviceIsPossible
<1>1. ASSUME DocumentTypes, snapshot # 0 PROVE AdviceIsPossible
  <2>1. ASSUME NextAction = "confirm_document_versions"
        PROVE  \E v \in DOMAIN versions : /\ Confirmable(v) /\ ~versions[v].approved
                                          /\ versions[v].base = snapshot
    <3>1. /\ \A d \in workload.types : HasHealthy(d)
          /\ \E d \in workload.types : ~HasConfirmed(d)
      BY <2>1 DEF NextAction
    <3>2. PICK d \in workload.types : HasHealthy(d) /\ ~HasConfirmed(d)
      BY <3>1
    <3>3. PICK v \in DOMAIN versions : /\ IsActive(v) /\ versions[v].doc = d
                                       /\ versions[v].base = snapshot
                                       /\ versions[v].passed
                                       /\ versions[v].health = "current"
      BY <3>2 DEF HasHealthy
    <3>4. ~versions[v].approved
      BY <3>2, <3>3 DEF HasConfirmed, Eligible
    <3>5. QED
      BY <3>3, <3>4 DEF Confirmable
  <2>2. ASSUME NextAction \in {"export_handoff", "ready"}
        PROVE  Complete(Selected(snapshot)) /\ Healthy(Selected(snapshot))
    <3>1. /\ \A d \in workload.types : HasConfirmed(d)
          /\ Healthy(Selected(snapshot))
      BY <2>2 DEF NextAction
    <3>2. \A d \in workload.types : Latest(d, snapshot) # 0
      BY <1>1, <3>1, LatestIsEligible DEF HasConfirmed
    <3>3. QED
      BY <3>1, <3>2 DEF Complete, Selected
  <2>3. ASSUME NextAction = "ready"
        PROVE  \E p \in packages : p.docs = Selected(snapshot) /\ p.snapshot = snapshot
    <3>1. Exported
      BY <2>3 DEF NextAction
    <3>2. QED
      BY <3>1 DEF Exported
  <2>4. QED
    BY <2>1, <2>2, <2>3 DEF AdviceIsPossible
<1>2. HandoffInv => AdviceIsPossible
  BY <1>1 DEF HandoffInv, DocInv, AdviceIsPossible
<1>3. QED
  BY <1>2, HandoffInvariant, PTL

\* The model is typed: however many requests interleave, a draft and the history of a
\* version name versions there are, and an acknowledgement names documents of the project
\* (document_edit_drafts, document_versions and handoff_runs in db.py).
THEOREM TypeCorrect == Spec => []TypeOK
BY BoundsImplyTypes, RecordsInvariant, PTL

\* What documents refer to is there. A purge deletes by the id alone and a copy is inserted
\* under a number read before its transaction (document_versions.py, document_workspace.py):
\* a draft still edits a stored version of its type, a restored version has its original,
\* and no two stored versions of a type bear the same number.
THEOREM ReferencesAreKept == Spec => []ReferencesKept
BY RecordsInvariant, PTL DEF ReferenceInv

\* What is recorded stays: no step changes what a version depends on once that is recorded,
\* what it cites, its number or where it came from, takes its approval back or undoes its
\* purge; packages and acknowledgements are only added (handoff_runs and
\* handoff_unresolved_acknowledgements in handoff.py).
THEOREM HistoryIsKept ==
  Spec => [][/\ VersionsRemain /\ RowsKept
             /\ packages \subseteq packages' /\ acknowledged \subseteq acknowledged']_vars
<1>1. ASSUME HandoffInv, ReferenceInv, Next
      PROVE  /\ VersionsRemain /\ RowsKept
             /\ packages \subseteq packages' /\ acknowledged \subseteq acknowledged'
  <2>1. CASE DocumentStep
    BY <1>1, <2>1, DocNextInv, ReferenceNextInv DEF HandoffInv, DocumentStep
  <2>2. ASSUME UNCHANGED docVars PROVE VersionsRemain /\ RowsKept
    BY <2>2, SameDocuments DEF docVars, RowsKept
  <2>3. QED
    BY <1>1, <2>1, <2>2 DEF Next, Acknowledge, CheckSnapshot, CheckDocuments, ReadProject,
       BuildPackage, ExportFails
<1>2. HandoffInv /\ ReferenceInv /\ [Next]_vars
        => [/\ VersionsRemain /\ RowsKept
            /\ packages \subseteq packages' /\ acknowledged \subseteq acknowledged']_vars
  BY <1>1
<1>3. QED
  BY <1>2, RecordsInvariant, PTL DEF Spec

================================================================================
