---------------------------- MODULE ModelProfilesProofs ----------------------------
(***************************************************************************)
(* Proofs about ModelProfiles, for any number of profiles, clients,        *)
(* configurations and keys.  The selection rests on the write lock, which  *)
(* a deletion holds from its check to its commit.  The agreement of the    *)
(* two stores rests on what is true of one profile at a time: who changes  *)
(* its key, what each of them will put back, and which tests see it.       *)
(***************************************************************************)
EXTENDS ModelProfiles, FiniteSetTheorems, TLAPS

-------------------------------------------------------------------------------
(* The selection *)

\* Inside its transaction a client holds the write lock.
WritersLock ==
    \A c \in Clients : clients[c].op \in {"update", "delete"} => writer = {c}

\* A profile that is being deleted is not in use.
DeletedAreFree ==
    \A c \in Clients, p \in Profiles : Does(c, "delete", p) => ~InUse(p)

OneDefault ==
    /\ \A p \in Profiles : profiles[p].default => Holds(p) /\ profiles[p].enabled
    /\ \A p, q \in Profiles : profiles[p].default /\ profiles[q].default => p = q

OneOverride ==
    override = {} \/ \E p \in Profiles : /\ override = {p}
                                         /\ Holds(p) /\ profiles[p].enabled

ProfileTypes ==
    /\ profiles \in [Profiles -> Profile]
    /\ keyring \in [Profiles -> SUBSET Secrets]
    /\ clients \in [Clients -> Client]
    /\ meant \in [Profiles -> SUBSET Secrets]
    /\ scope \in ProfileScopes

\* A profile that is being created has no row yet, and the key it will have.
CreateOf(c, p) ==
    Does(c, "create", p) =>
        /\ profiles[p].row = "none" /\ keyring[p] = clients[c].secret
        /\ \A d \in Clients : Does(d, "create", p) => d = c

\* Who changes the key, and has not been overlapped, would put back the one that is meant.
ChangeOf(c, p) ==
    c \in Changing(p) =>
        /\ profiles[p].row # "none"
        /\ p \notin unsettled => /\ \A d \in Changing(p) : d = c
                                 /\ clients[c].old = meant[p]
                                 /\ clients[c].op = "delete" => keyring[p] = {}

\* An update that overlaps no other commits the key that is in the keyring.
UpdateOf(c, p) ==
    Does(c, "update", p) =>
        /\ clients[c].secret # {}
        /\ clients[c].raced => p \in unsettled
        /\ ~clients[c].raced => /\ \A d \in Changing(p) : d = c
                                /\ keyring[p] = clients[c].secret

\* A test that nothing has disturbed has seen the profile as it is.
TestOf(c, p) ==
    Does(c, "probing", p) \/ Does(c, "tested", p) =>
        /\ profiles[p].row # "none"
        /\ ~clients[c].raced =>
             /\ Changing(p) = {}
             /\ clients[c].config = {profiles[p].config}
             /\ clients[c].op = "tested" => clients[c].secret = keyring[p]

\* What the row says of the key, and of its tests, is true of the key that is meant.
RowOf(p) ==
    Holds(p) /\ p \notin unsettled =>
        /\ profiles[p].key <=> meant[p] # {}
        /\ Changing(p) = {} => keyring[p] = meant[p]
        /\ p \notin raced => profiles[p].found \subseteq {profiles[p].config} \X meant[p]

KeysOf(p) ==
    /\ \A c \in Clients : CreateOf(c, p) /\ ChangeOf(c, p) /\ UpdateOf(c, p) /\ TestOf(c, p)
    /\ RowOf(p)

ProfileInv ==
    /\ ProfileTypes
    /\ WritersLock
    /\ DeletedAreFree
    /\ OneDefault
    /\ OneOverride
    /\ \A p \in Profiles : KeysOf(p)

LEMMA SelectionUsable == ProfileInv => SelectedProfilesAreUsable
<1> SUFFICES ASSUME ProfileInv PROVE SelectedProfilesAreUsable
  OBVIOUS
<1>1. override # {} => Selected = override
  BY DEF ProfileInv, OneOverride, Selected
<1>2. Selected = {} \/ \E p \in Profiles : Selected = {p}
  BY DEF ProfileInv, OneOverride, OneDefault, Selected
<1>3. Cardinality(Selected) <= 1
  <2>1. CASE Selected = {}
    BY <2>1, FS_EmptySet
  <2>2. ASSUME NEW p \in Profiles, Selected = {p} PROVE Cardinality(Selected) <= 1
    <3>1. Cardinality({p}) = 1
      BY FS_Singleton
    <3>2. QED
      BY <2>2, <3>1
  <2>3. QED
    BY <1>2, <2>1, <2>2
<1>4. QED
  BY <1>1, <1>3 DEF ProfileInv, OneDefault, SelectedProfilesAreUsable

LEMMA StoresAgree == ProfileInv => ProfileStoresAgree
<1> SUFFICES ASSUME ProfileInv, NEW p \in Profiles,
                    Holds(p), Changing(p) = {}, p \notin unsettled
             PROVE  /\ keyring[p] = meant[p]
                    /\ profiles[p].key = (meant[p] # {})
                    /\ p \notin raced =>
                         profiles[p].found \subseteq {profiles[p].config} \X meant[p]
  BY DEF ProfileStoresAgree
<1>1. RowOf(p) /\ profiles[p].key \in BOOLEAN
  BY DEF ProfileInv, KeysOf, ProfileTypes, Profile
<1>2. profiles[p].key <=> meant[p] # {}
  BY <1>1 DEF RowOf
<1>3. profiles[p].key = (meant[p] # {})
  BY <1>1, <1>2
<1>4. QED
  BY <1>1, <1>3 DEF RowOf

LEMMA ProfileInitInv == ProfileInit => ProfileInv
<1> SUFFICES ASSUME ProfileInit PROVE ProfileInv
  OBVIOUS
<1>1. (CHOOSE config \in Configurations : TRUE) \in Configurations
  BY ProfileBounds
<1>2. ProfileTypes
  BY <1>1 DEF ProfileInit, ProfileTypes, Profile, Client, NoClient
<1>3. /\ \A c \in Clients : clients[c].op = "idle"
      /\ \A p \in Profiles : profiles[p].row = "none" /\ ~profiles[p].default
  BY DEF ProfileInit, NoClient
<1>4. WritersLock /\ DeletedAreFree /\ OneDefault /\ OneOverride
  BY <1>3 DEF ProfileInit, WritersLock, DeletedAreFree, OneDefault, OneOverride, Does
<1>5. \A p \in Profiles : KeysOf(p)
  BY <1>3 DEF KeysOf, CreateOf, ChangeOf, UpdateOf, TestOf, RowOf, Does, Changing, Holds
<1>6. QED
  BY <1>2, <1>4, <1>5 DEF ProfileInv

-------------------------------------------------------------------------------

Tests(d, p) == clients[d].profile = {p} /\ clients[d].op \in {"probing", "tested"}

\* What the others do goes on as it was, but for their tests of p.
GoesOn(d, p) ==
    /\ clients'[d].op = clients[d].op /\ clients'[d].profile = clients[d].profile
    /\ clients'[d].config = clients[d].config /\ clients'[d].secret = clients[d].secret
    /\ clients'[d].old = clients[d].old
    /\ Tests(d, p) => clients'[d].raced
    /\ ~Tests(d, p) => clients'[d].raced = clients[d].raced

LEMMA ClientDisturbs ==
  ASSUME ProfileTypes, NEW c \in Clients, NEW client \in Client, NEW p \in Profiles,
         Disturbs(c, client, p)
  PROVE  /\ clients' \in [Clients -> Client]
         /\ clients'[c] = client
         /\ \A d \in Clients : d # c => /\ GoesOn(d, p)
                                        /\ clients[d].profile # {p}
                                             => clients'[d] = clients[d]
<1>1. \A d \in Clients : clients[d] \in Client
  BY DEF ProfileTypes
<1>2. \A d \in Clients : [clients[d] EXCEPT !.raced = TRUE] \in Client
  BY <1>1 DEF Client
<1>3. clients' \in [Clients -> Client]
  BY <1>1, <1>2 DEF Disturbs
<1>4. clients'[c] = client
  BY DEF Disturbs
<1>5. ASSUME NEW d \in Clients, d # c
      PROVE  /\ GoesOn(d, p)
             /\ clients[d].profile # {p} => clients'[d] = clients[d]
  <2>1. clients'[d] = IF clients[d].profile = {p} /\ clients[d].op \in {"probing", "tested"}
                      THEN [clients[d] EXCEPT !.raced = TRUE] ELSE clients[d]
    BY <1>5 DEF Disturbs
  <2>2. QED
    BY <1>1, <2>1 DEF GoesOn, Tests, Client
<1>6. QED
  BY <1>3, <1>4, <1>5

LEMMA ClientGoesOn ==
  ASSUME ProfileTypes, NEW c \in Clients, NEW client \in Client, ClientIs(c, client)
  PROVE  /\ clients' \in [Clients -> Client]
         /\ clients'[c] = client
         /\ \A d \in Clients : d # c => clients'[d] = clients[d]
BY DEF ProfileTypes, ClientIs

LEMMA NoClientIsClient == NoClient \in Client /\ NoClient.op = "idle" /\ NoClient.profile = {}
BY DEF NoClient, Client

\* The row of p is changed, and the defaults of the others perhaps.
RowIs(p, row) ==
    /\ profiles' \in [Profiles -> Profile]
    /\ profiles'[p] = row
    /\ \A q \in Profiles : q # p => profiles'[q] = profiles[q]

LEMMA RowChanges ==
  ASSUME ProfileTypes, NEW p \in Profiles, NEW row \in Profile,
         profiles' = [profiles EXCEPT ![p] = row]
  PROVE  RowIs(p, row)
BY DEF ProfileTypes, RowIs

LEMMA SettingsChange ==
  ASSUME ProfileTypes, NEW p \in Profiles, UpdateSettings(p)
  PROVE  /\ Holds(p) /\ writer = {}
         /\ \E config \in Configurations, enabled \in BOOLEAN :
              /\ ~enabled => ~InUse(p)
              /\ RowIs(p, [profiles[p] EXCEPT !.config = config, !.enabled = enabled,
                                              !.found = Found(p, config, FALSE)])
              /\ clients' \in [Clients -> Client]
              /\ \A d \in Clients : \/ /\ GoesOn(d, p)
                                       /\ clients[d].profile # {p}
                                            => clients'[d] = clients[d]
                                    \/ (config = profiles[p].config /\ clients'[d] = clients[d])
         /\ UNCHANGED <<override, keyring, writer, meant, unsettled, raced>>
<1>1. PICK config \in Configurations, enabled \in BOOLEAN :
         /\ ~enabled => ~InUse(p)
         /\ profiles' = [profiles EXCEPT ![p].config = config, ![p].enabled = enabled,
                                         ![p].found = Found(p, config, FALSE)]
         /\ IF config = profiles[p].config THEN UNCHANGED clients
            ELSE clients' = [d \in Clients |->
                   IF clients[d].profile = {p} /\ clients[d].op \in {"probing", "tested"}
                   THEN [clients[d] EXCEPT !.raced = TRUE] ELSE clients[d]]
  BY DEF UpdateSettings
<1> DEFINE row == [profiles[p] EXCEPT !.config = config, !.enabled = enabled,
                                      !.found = Found(p, config, FALSE)]
<1>2. profiles[p] \in Profile /\ row \in Profile
  BY DEF ProfileTypes, Profile, Found
<1>3. profiles' = [profiles EXCEPT ![p] = row]
  BY <1>1
<1>4. RowIs(p, row)
  BY <1>2, <1>3, RowChanges
<1>5. \A d \in Clients : clients[d] \in Client /\ [clients[d] EXCEPT !.raced = TRUE] \in Client
  BY DEF ProfileTypes, Client
<1>6. clients' \in [Clients -> Client]
  BY <1>1, <1>5 DEF ProfileTypes
<1>7. ASSUME NEW d \in Clients
      PROVE  \/ GoesOn(d, p) /\ (clients[d].profile # {p} => clients'[d] = clients[d])
             \/ (config = profiles[p].config /\ clients'[d] = clients[d])
  <2>1. CASE config = profiles[p].config
    BY <1>1, <2>1
  <2>2. CASE config # profiles[p].config
    <3>1. clients'[d] = IF clients[d].profile = {p} /\ clients[d].op \in {"probing", "tested"}
                        THEN [clients[d] EXCEPT !.raced = TRUE] ELSE clients[d]
      BY <1>1, <2>2
    <3>2. CASE clients[d].profile = {p} /\ clients[d].op \in {"probing", "tested"}
      BY <1>5, <3>1, <3>2 DEF GoesOn, Tests, Client
    <3>3. CASE ~(clients[d].profile = {p} /\ clients[d].op \in {"probing", "tested"})
      BY <1>5, <3>1, <3>3 DEF GoesOn, Tests, Client
    <3>4. QED
      BY <3>2, <3>3
  <2>3. QED
    BY <2>1, <2>2
<1>8. QED
  BY <1>1, <1>4, <1>6, <1>7 DEF UpdateSettings

LEMMA DefaultsChange ==
  ASSUME ProfileTypes, NEW p \in Profiles
  PROVE  /\ OnlyDefault(p) \in [Profiles -> Profile]
         /\ \A q \in Profiles : OnlyDefault(p)[q] = [profiles[q] EXCEPT !.default = q = p]
         /\ \A q \in Profiles : /\ OnlyDefault(p)[q].row = profiles[q].row
                                /\ OnlyDefault(p)[q].config = profiles[q].config
                                /\ OnlyDefault(p)[q].key = profiles[q].key
                                /\ OnlyDefault(p)[q].enabled = profiles[q].enabled
                                /\ OnlyDefault(p)[q].found = profiles[q].found
                                /\ (OnlyDefault(p)[q].default <=> q = p)
<1>1. \A q \in Profiles : profiles[q] \in Profile
                            /\ [profiles[q] EXCEPT !.default = q = p] \in Profile
  BY DEF ProfileTypes, Profile
<1>2. \A q \in Profiles : OnlyDefault(p)[q] = [profiles[q] EXCEPT !.default = q = p]
  BY DEF OnlyDefault
<1>3. OnlyDefault(p) \in [Profiles -> Profile]
  BY <1>1 DEF OnlyDefault
<1>4. ASSUME NEW q \in Profiles
      PROVE  /\ OnlyDefault(p)[q].row = profiles[q].row
             /\ OnlyDefault(p)[q].config = profiles[q].config
             /\ OnlyDefault(p)[q].key = profiles[q].key
             /\ OnlyDefault(p)[q].enabled = profiles[q].enabled
             /\ OnlyDefault(p)[q].found = profiles[q].found
             /\ (OnlyDefault(p)[q].default <=> q = p)
  <2>1. CASE q = p
    BY <1>1, <1>2, <2>1 DEF Profile
  <2>2. CASE q # p
    <3>1. (q = p) = FALSE
      BY <2>2
    <3>2. OnlyDefault(p)[q] = [profiles[q] EXCEPT !.default = FALSE]
      BY <1>2, <3>1, Zenon
    <3>3. QED
      BY <1>1, <2>2, <3>2 DEF Profile
  <2>3. QED
    BY <2>1, <2>2
<1>5. QED
  BY <1>2, <1>3, <1>4

\* What client c does is not about q.
Apart(c, q) == clients[c].op = "idle" \/ clients[c].profile # {q}

\* The row of q and its key are as they were.
SameKeys(q) ==
    /\ profiles'[q].row = profiles[q].row /\ profiles'[q].config = profiles[q].config
    /\ profiles'[q].key = profiles[q].key /\ profiles'[q].found = profiles[q].found
    /\ keyring'[q] = keyring[q] /\ meant'[q] = meant[q]
    /\ q \in unsettled' <=> q \in unsettled
    /\ q \in raced' <=> q \in raced

\* A step that leaves q, its key and who works on it as they were.
LEMMA ElsewhereKeys ==
  ASSUME NEW q \in Profiles, KeysOf(q), SameKeys(q),
         \A c \in Clients : \/ Apart(c, q) /\ Apart(c, q)'
                            \/ clients'[c] = clients[c]
  PROVE  KeysOf(q)'
<1> USE DEF SameKeys
<1>1. \A c \in Clients :
        \/ /\ \A op \in {"create", "update", "delete", "undo", "probing", "tested"} :
                ~Does(c, op, q) /\ ~Does(c, op, q)'
           /\ c \notin Changing(q) /\ c \notin Changing(q)'
        \/ clients'[c] = clients[c]
  BY DEF Apart, Does, Changing
<1>2. Changing(q)' = Changing(q)
  BY <1>1 DEF Changing
<1>3. ASSUME NEW c \in Clients PROVE CreateOf(c, q)' /\ ChangeOf(c, q)'
  BY <1>1, <1>2 DEF KeysOf, CreateOf, ChangeOf, Does, Changing
<1>4. ASSUME NEW c \in Clients PROVE UpdateOf(c, q)' /\ TestOf(c, q)'
  BY <1>1, <1>2 DEF KeysOf, UpdateOf, TestOf, Does
<1>5. RowOf(q)'
  BY <1>2 DEF KeysOf, RowOf, Holds
<1>6. QED
  BY <1>3, <1>4, <1>5 DEF KeysOf

-------------------------------------------------------------------------------
(* The steps *)

LEMMA ProfileNextInv == ProfileInv /\ [ProfileNext]_profileVars => ProfileInv'
<1> SUFFICES ASSUME ProfileInv, [ProfileNext]_profileVars PROVE ProfileInv'
  OBVIOUS
<1>0. /\ ProfileTypes /\ WritersLock /\ DeletedAreFree /\ OneDefault /\ OneOverride
      /\ \A p \in Profiles : KeysOf(p)
      /\ UNCHANGED scope
  BY DEF ProfileInv, ProfileNext, profileVars
<1>1. ASSUME NEW c \in Clients, NEW p \in Profiles,
             NEW secret \in SUBSET Secrets, CreateStarts(c, p, secret) PROVE ProfileInv'
  <2> DEFINE client == [NoClient EXCEPT !.op = "create", !.profile = {p}, !.secret = secret]
  <2>1. /\ client \in Client
        /\ client.op = "create"
        /\ client.profile = {p}
        /\ client.secret = secret
    BY <1>0, <1>1 DEF CreateStarts, NoClient, Client, ProfileTypes, Profile, Does
  <2>2. ClientIs(c, client)
    BY <1>1 DEF CreateStarts
  <2>3. /\ clients' \in [Clients -> Client]
        /\ clients'[c] = client
        /\ \A d \in Clients : d # c => clients'[d] = clients[d]
    BY <1>0, <2>1, <2>2, ClientGoesOn
  <2> HIDE DEF client
  <2>4. /\ clients[c].op = "idle"
        /\ profiles[p].row = "none"
        /\ \A d \in Clients : ~Does(d, "create", p)
        /\ keyring' \in [Profiles -> SUBSET Secrets]
        /\ keyring'[p] = secret
        /\ \A q \in Profiles : q # p => keyring'[q] = keyring[q]
        /\ UNCHANGED <<profiles, override, writer, meant, unsettled, raced, scope>>
    BY <1>0, <1>1 DEF CreateStarts, ProfileTypes, Profile, Client, Does, Holds
  <2>5. Changing(p)' = Changing(p)
    BY <1>1, <2>1, <2>3 DEF Changing, Does, CreateStarts
  <2>6. ProfileTypes' /\ WritersLock'
    BY <1>0, <2>1, <2>3, <2>4 DEF ProfileTypes, WritersLock, Does
  <2>7. DeletedAreFree' /\ OneDefault' /\ OneOverride'
    BY <1>0, <2>1, <2>3, <2>4
       DEF WritersLock, DeletedAreFree, OneDefault, OneOverride, InUse, Does, Holds
  <2>8. ASSUME NEW q \in Profiles, q # p PROVE KeysOf(q)'
    <3>1. SameKeys(q)
      BY <2>4, <2>8 DEF SameKeys, CreateStarts
    <3>2. \A d \in Clients : \/ Apart(d, q) /\ Apart(d, q)'
                            \/ clients'[d] = clients[d]
      BY <2>1, <2>3, <2>4, <2>8 DEF Apart, Does
    <3>3. QED
      BY <1>0, <3>1, <3>2, ElsewhereKeys
  <2>9. KeysOf(p)'
    <3>1. KeysOf(p)
      BY <1>0
    <3>2. ASSUME NEW d \in Clients
          PROVE  CreateOf(d, p)' /\ ChangeOf(d, p)' /\ UpdateOf(d, p)' /\ TestOf(d, p)'
      <4>1. CreateOf(d, p)'
        <5>1. CASE d = c
          BY <2>1, <2>3, <2>4, <2>5, <3>1, <5>1 DEF KeysOf, CreateOf, Does
        <5>2. CASE d # c
          BY <2>1, <2>3, <2>4, <2>5, <3>1, <5>2 DEF KeysOf, CreateOf, Does
        <5>3. QED
          BY <5>1, <5>2
      <4>2. ChangeOf(d, p)'
        <5>1. CASE d = c
          BY <2>1, <2>3, <5>1 DEF ChangeOf, Does, Changing
        <5>2. CASE d # c
          BY <2>1, <2>3, <2>4, <2>5, <3>1, <5>2
             DEF KeysOf, ChangeOf, RowOf, Holds, Changing, Does
        <5>3. QED
          BY <5>1, <5>2
      <4>3. UpdateOf(d, p)'
        <5>1. CASE d = c
          BY <2>1, <2>3, <5>1 DEF UpdateOf, Does
        <5>2. CASE d # c
          BY <2>1, <2>3, <2>4, <2>5, <3>1, <5>2
             DEF KeysOf, UpdateOf, ChangeOf, Changing, Does
        <5>3. QED
          BY <5>1, <5>2
      <4>4. TestOf(d, p)'
        <5>1. CASE d = c
          BY <2>1, <2>3, <5>1 DEF TestOf, Does
        <5>2. CASE d # c
          BY <2>1, <2>3, <2>4, <2>5, <3>1, <5>2 DEF KeysOf, TestOf, Holds, Changing, Does
        <5>3. QED
          BY <5>1, <5>2
      <4>5. QED
        BY <4>1, <4>2, <4>3, <4>4
    <3>3. RowOf(p)'
      BY <2>1, <2>3, <2>4, <2>5, <3>1
         DEF KeysOf, ChangeOf, UpdateOf, TestOf, CreateOf, RowOf, Holds, Does, Changing
    <3>4. QED
      BY <3>2, <3>3 DEF KeysOf
  <2>10. QED
    BY <2>6, <2>7, <2>8, <2>9 DEF ProfileInv
<1>2. ASSUME NEW c \in Clients, NEW p \in Profiles, CreateFails(c, p) PROVE ProfileInv'
  <2>1. NoClient \in Client /\ NoClient.op = "idle"
    BY NoClientIsClient
  <2>2. ClientIs(c, NoClient)
    BY <1>2 DEF CreateFails
  <2>3. /\ clients' \in [Clients -> Client]
        /\ clients'[c] = NoClient
        /\ \A d \in Clients : d # c => clients'[d] = clients[d]
    BY <1>0, <2>1, <2>2, ClientGoesOn
  <2>4. /\ Does(c, "create", p)
        /\ keyring' \in [Profiles -> SUBSET Secrets]
        /\ \A q \in Profiles : q # p => keyring'[q] = keyring[q]
        /\ UNCHANGED <<profiles, override, writer, meant, unsettled, raced, scope>>
    BY <1>0, <1>2 DEF CreateFails, ProfileTypes, Profile, Client, Does, Holds
  <2>5. Changing(p)' = Changing(p)
    BY <1>2, <2>1, <2>3 DEF Changing, Does, CreateFails
  <2>6. ProfileTypes' /\ WritersLock'
    BY <1>0, <2>1, <2>3, <2>4 DEF ProfileTypes, WritersLock, Does
  <2>7. DeletedAreFree' /\ OneDefault' /\ OneOverride'
    BY <1>0, <2>1, <2>3, <2>4
       DEF WritersLock, DeletedAreFree, OneDefault, OneOverride, InUse, Does, Holds
  <2>8. ASSUME NEW q \in Profiles, q # p PROVE KeysOf(q)'
    <3>1. SameKeys(q)
      BY <2>4, <2>8 DEF SameKeys, CreateFails
    <3>2. \A d \in Clients : \/ Apart(d, q) /\ Apart(d, q)'
                            \/ clients'[d] = clients[d]
      BY <2>1, <2>3, <2>4, <2>8 DEF Apart, Does
    <3>3. QED
      BY <1>0, <3>1, <3>2, ElsewhereKeys
  <2>9. KeysOf(p)'
    <3>1. KeysOf(p)
      BY <1>0
    <3>2. ASSUME NEW d \in Clients
          PROVE  CreateOf(d, p)' /\ ChangeOf(d, p)' /\ UpdateOf(d, p)' /\ TestOf(d, p)'
      <4>1. CreateOf(d, p)'
        <5>1. CASE d = c
          BY <2>1, <2>3, <5>1 DEF CreateOf, Does
        <5>2. CASE d # c
          BY <2>1, <2>3, <2>4, <2>5, <3>1, <5>2 DEF KeysOf, CreateOf, Does
        <5>3. QED
          BY <5>1, <5>2
      <4>2. ChangeOf(d, p)'
        <5>1. CASE d = c
          BY <2>1, <2>3, <5>1 DEF ChangeOf, Does, Changing
        <5>2. CASE d # c
          BY <2>1, <2>3, <2>4, <2>5, <3>1, <5>2
             DEF KeysOf, ChangeOf, RowOf, Holds, Changing, CreateOf, Does
        <5>3. QED
          BY <5>1, <5>2
      <4>3. UpdateOf(d, p)'
        <5>1. CASE d = c
          BY <2>1, <2>3, <5>1 DEF UpdateOf, Does
        <5>2. CASE d # c
          BY <2>1, <2>3, <2>4, <2>5, <3>1, <5>2
             DEF KeysOf, UpdateOf, ChangeOf, Changing, CreateOf, Does
        <5>3. QED
          BY <5>1, <5>2
      <4>4. TestOf(d, p)'
        <5>1. CASE d = c
          BY <2>1, <2>3, <5>1 DEF TestOf, Does
        <5>2. CASE d # c
          BY <2>1, <2>3, <2>4, <2>5, <3>1, <5>2
             DEF KeysOf, TestOf, Holds, Changing, CreateOf, ChangeOf, Does
        <5>3. QED
          BY <5>1, <5>2
      <4>5. QED
        BY <4>1, <4>2, <4>3, <4>4
    <3>3. RowOf(p)'
      BY <2>1, <2>3, <2>4, <2>5, <3>1
         DEF KeysOf, ChangeOf, UpdateOf, TestOf, CreateOf, RowOf, Holds, Does, Changing
    <3>4. QED
      BY <3>2, <3>3 DEF KeysOf
  <2>10. QED
    BY <2>6, <2>7, <2>8, <2>9 DEF ProfileInv
<1>3. ASSUME NEW c \in Clients, NEW p \in Profiles, TestReads(c, p) PROVE ProfileInv'
  <2> DEFINE client == [NoClient EXCEPT !.op = "probing", !.profile = {p},
                         !.config = {profiles[p].config}, !.raced = Changing(p) # {}]
  <2>1. /\ client \in Client
        /\ client.op = "probing"
        /\ client.profile = {p}
        /\ client.config = {profiles[p].config}
        /\ Changing(p) # {} => client.raced
        /\ Changing(p) = {} => ~client.raced
    BY <1>0, <1>3 DEF TestReads, NoClient, Client, ProfileTypes, Profile, Does
  <2>2. ClientIs(c, client)
    BY <1>3 DEF TestReads
  <2>3. /\ clients' \in [Clients -> Client]
        /\ clients'[c] = client
        /\ \A d \in Clients : d # c => clients'[d] = clients[d]
    BY <1>0, <2>1, <2>2, ClientGoesOn
  <2> HIDE DEF client
  <2>4. /\ clients[c].op = "idle"
        /\ Holds(p)
        /\ UNCHANGED <<profiles, override, writer, keyring, meant, unsettled, raced, scope>>
    BY <1>0, <1>3 DEF TestReads, ProfileTypes, Profile, Client, Does, Holds
  <2>5. Changing(p)' = Changing(p)
    BY <1>3, <2>1, <2>3 DEF Changing, Does, TestReads
  <2>6. ProfileTypes' /\ WritersLock'
    BY <1>0, <2>1, <2>3, <2>4 DEF ProfileTypes, WritersLock, Does
  <2>7. DeletedAreFree' /\ OneDefault' /\ OneOverride'
    BY <1>0, <2>1, <2>3, <2>4
       DEF WritersLock, DeletedAreFree, OneDefault, OneOverride, InUse, Does, Holds
  <2>8. ASSUME NEW q \in Profiles, q # p PROVE KeysOf(q)'
    <3>1. SameKeys(q)
      BY <2>4, <2>8 DEF SameKeys, TestReads
    <3>2. \A d \in Clients : \/ Apart(d, q) /\ Apart(d, q)'
                            \/ clients'[d] = clients[d]
      BY <2>1, <2>3, <2>4, <2>8 DEF Apart, Does
    <3>3. QED
      BY <1>0, <3>1, <3>2, ElsewhereKeys
  <2>9. KeysOf(p)'
    <3>1. KeysOf(p)
      BY <1>0
    <3>2. ASSUME NEW d \in Clients
          PROVE  CreateOf(d, p)' /\ ChangeOf(d, p)' /\ UpdateOf(d, p)' /\ TestOf(d, p)'
      <4>1. CreateOf(d, p)'
        <5>1. CASE d = c
          BY <2>1, <2>3, <5>1 DEF CreateOf, Does
        <5>2. CASE d # c
          BY <2>1, <2>3, <2>4, <2>5, <3>1, <5>2 DEF KeysOf, CreateOf, Does
        <5>3. QED
          BY <5>1, <5>2
      <4>2. ChangeOf(d, p)'
        <5>1. CASE d = c
          BY <2>1, <2>3, <5>1 DEF ChangeOf, Does, Changing
        <5>2. CASE d # c
          BY <2>1, <2>3, <2>4, <2>5, <3>1, <5>2
             DEF KeysOf, ChangeOf, RowOf, Holds, Changing, Does
        <5>3. QED
          BY <5>1, <5>2
      <4>3. UpdateOf(d, p)'
        <5>1. CASE d = c
          BY <2>1, <2>3, <5>1 DEF UpdateOf, Does
        <5>2. CASE d # c
          BY <2>1, <2>3, <2>4, <2>5, <3>1, <5>2
             DEF KeysOf, UpdateOf, ChangeOf, Changing, Does
        <5>3. QED
          BY <5>1, <5>2
      <4>4. TestOf(d, p)'
        <5>1. CASE d = c
          BY <2>1, <2>3, <2>4, <2>5, <3>1, <5>1 DEF KeysOf, TestOf, Holds, Does
        <5>2. CASE d # c
          BY <2>1, <2>3, <2>4, <2>5, <3>1, <5>2 DEF KeysOf, TestOf, Holds, Changing, Does
        <5>3. QED
          BY <5>1, <5>2
      <4>5. QED
        BY <4>1, <4>2, <4>3, <4>4
    <3>3. RowOf(p)'
      BY <2>1, <2>3, <2>4, <2>5, <3>1
         DEF KeysOf, ChangeOf, UpdateOf, TestOf, CreateOf, RowOf, Holds, Does, Changing
    <3>4. QED
      BY <3>2, <3>3 DEF KeysOf
  <2>10. QED
    BY <2>6, <2>7, <2>8, <2>9 DEF ProfileInv
<1>4. ASSUME NEW c \in Clients, NEW p \in Profiles, ProviderProbed(c, p) PROVE ProfileInv'
  <2> DEFINE client == [clients[c] EXCEPT !.op = "tested", !.secret = keyring[p]]
  <2>1. /\ client \in Client
        /\ client.op = "tested"
        /\ client.profile = {p}
        /\ client.config = clients[c].config
        /\ client.secret = keyring[p]
        /\ client.raced = clients[c].raced
    BY <1>0, <1>4 DEF ProviderProbed, NoClient, Client, ProfileTypes, Profile, Does
  <2>2. ClientIs(c, client)
    BY <1>4 DEF ProviderProbed
  <2>3. /\ clients' \in [Clients -> Client]
        /\ clients'[c] = client
        /\ \A d \in Clients : d # c => clients'[d] = clients[d]
    BY <1>0, <2>1, <2>2, ClientGoesOn
  <2> HIDE DEF client
  <2>4. /\ Does(c, "probing", p)
        /\ UNCHANGED <<profiles, override, writer, keyring, meant, unsettled, raced, scope>>
    BY <1>0, <1>4 DEF ProviderProbed, ProfileTypes, Profile, Client, Does, Holds
  <2>5. Changing(p)' = Changing(p)
    BY <1>4, <2>1, <2>3 DEF Changing, Does, ProviderProbed
  <2>6. ProfileTypes' /\ WritersLock'
    BY <1>0, <2>1, <2>3, <2>4 DEF ProfileTypes, WritersLock, Does
  <2>7. DeletedAreFree' /\ OneDefault' /\ OneOverride'
    BY <1>0, <2>1, <2>3, <2>4
       DEF WritersLock, DeletedAreFree, OneDefault, OneOverride, InUse, Does, Holds
  <2>8. ASSUME NEW q \in Profiles, q # p PROVE KeysOf(q)'
    <3>1. SameKeys(q)
      BY <2>4, <2>8 DEF SameKeys, ProviderProbed
    <3>2. \A d \in Clients : \/ Apart(d, q) /\ Apart(d, q)'
                            \/ clients'[d] = clients[d]
      BY <2>1, <2>3, <2>4, <2>8 DEF Apart, Does
    <3>3. QED
      BY <1>0, <3>1, <3>2, ElsewhereKeys
  <2>9. KeysOf(p)'
    <3>1. KeysOf(p)
      BY <1>0
    <3>2. ASSUME NEW d \in Clients
          PROVE  CreateOf(d, p)' /\ ChangeOf(d, p)' /\ UpdateOf(d, p)' /\ TestOf(d, p)'
      <4>1. CreateOf(d, p)'
        <5>1. CASE d = c
          BY <2>1, <2>3, <5>1 DEF CreateOf, Does
        <5>2. CASE d # c
          BY <2>1, <2>3, <2>4, <2>5, <3>1, <5>2 DEF KeysOf, CreateOf, Does
        <5>3. QED
          BY <5>1, <5>2
      <4>2. ChangeOf(d, p)'
        <5>1. CASE d = c
          BY <2>1, <2>3, <5>1 DEF ChangeOf, Does, Changing
        <5>2. CASE d # c
          BY <2>1, <2>3, <2>4, <2>5, <3>1, <5>2
             DEF KeysOf, ChangeOf, RowOf, Holds, Changing, Does
        <5>3. QED
          BY <5>1, <5>2
      <4>3. UpdateOf(d, p)'
        <5>1. CASE d = c
          BY <2>1, <2>3, <5>1 DEF UpdateOf, Does
        <5>2. CASE d # c
          BY <2>1, <2>3, <2>4, <2>5, <3>1, <5>2
             DEF KeysOf, UpdateOf, ChangeOf, Changing, Does
        <5>3. QED
          BY <5>1, <5>2
      <4>4. TestOf(d, p)'
        <5>1. CASE d = c
          BY <2>1, <2>3, <2>4, <2>5, <3>1, <5>1 DEF KeysOf, TestOf, Holds, Does
        <5>2. CASE d # c
          BY <2>1, <2>3, <2>4, <2>5, <3>1, <5>2 DEF KeysOf, TestOf, Holds, Changing, Does
        <5>3. QED
          BY <5>1, <5>2
      <4>5. QED
        BY <4>1, <4>2, <4>3, <4>4
    <3>3. RowOf(p)'
      BY <2>1, <2>3, <2>4, <2>5, <3>1
         DEF KeysOf, ChangeOf, UpdateOf, TestOf, CreateOf, RowOf, Holds, Does, Changing
    <3>4. QED
      BY <3>2, <3>3 DEF KeysOf
  <2>10. QED
    BY <2>6, <2>7, <2>8, <2>9 DEF ProfileInv
<1>5. ASSUME NEW c \in Clients, NEW p \in Profiles,
             NEW secret \in Secrets, UpdateBegins(c, p, secret) PROVE ProfileInv'
  <2>0. PICK config \in Configurations :
           Disturbs(c, [NoClient EXCEPT !.op = "update", !.profile = {p}, !.config = {config},
                          !.secret = {secret},
                          !.old = IF profiles[p].key THEN keyring[p] ELSE {},
                          !.raced = Changing(p) # {}], p)
    BY <1>5 DEF UpdateBegins
  <2> DEFINE client == [NoClient EXCEPT !.op = "update", !.profile = {p}, !.config = {config},
                         !.secret = {secret},
                         !.old = IF profiles[p].key THEN keyring[p] ELSE {},
                         !.raced = Changing(p) # {}]
  <2>1. /\ client \in Client
        /\ client.op = "update"
        /\ client.profile = {p}
        /\ client.secret = {secret}
        /\ client.old = IF profiles[p].key THEN keyring[p] ELSE {}
        /\ Changing(p) # {} => client.raced
        /\ Changing(p) = {} => ~client.raced
    BY <1>0, <1>5 DEF UpdateBegins, NoClient, Client, ProfileTypes, Profile, Does
  <2>2. Disturbs(c, client, p)
    BY <2>0
  <2>3. /\ clients' \in [Clients -> Client]
        /\ clients'[c] = client
        /\ \A d \in Clients : d # c => /\ GoesOn(d, p)
                                       /\ clients[d].profile # {p}
                                            => clients'[d] = clients[d]
    BY <1>0, <2>1, <2>2, ClientDisturbs
  <2> HIDE DEF client
  <2>4. /\ clients[c].op = "idle"
        /\ Holds(p)
        /\ writer = {}
        /\ writer' = {c}
        /\ \A d \in Clients : ~Does(d, "update", p)
        /\ keyring' \in [Profiles -> SUBSET Secrets]
        /\ keyring'[p] = {secret}
        /\ \A q \in Profiles : q # p => keyring'[q] = keyring[q]
        /\ unsettled' = IF Changing(p) # {} THEN unsettled \cup {p} ELSE unsettled
        /\ UNCHANGED <<profiles, override, meant, raced, scope>>
    BY <1>0, <1>5
       DEF UpdateBegins, ProfileTypes, Profile, Client, Does, Holds, Overlaps, WritersLock
  <2>5. Changing(p)' = Changing(p) \cup {c}
    BY <1>5, <2>1, <2>3 DEF Changing, GoesOn, Does, UpdateBegins
  <2>6. ProfileTypes' /\ WritersLock'
    BY <1>0, <2>1, <2>3, <2>4 DEF ProfileTypes, WritersLock, GoesOn, Does
  <2>7. DeletedAreFree' /\ OneDefault' /\ OneOverride'
    BY <1>0, <2>1, <2>3, <2>4
       DEF WritersLock, DeletedAreFree, OneDefault, OneOverride, InUse, Does, Holds,
        GoesOn
  <2>8. ASSUME NEW q \in Profiles, q # p PROVE KeysOf(q)'
    <3>1. SameKeys(q)
      BY <2>4, <2>8 DEF SameKeys, UpdateBegins
    <3>2. \A d \in Clients : \/ Apart(d, q) /\ Apart(d, q)'
                            \/ clients'[d] = clients[d]
      BY <2>1, <2>3, <2>4, <2>8 DEF Apart, GoesOn, Does
    <3>3. QED
      BY <1>0, <3>1, <3>2, ElsewhereKeys
  <2>9. KeysOf(p)'
    <3>1. KeysOf(p)
      BY <1>0
    <3>2. ASSUME NEW d \in Clients
          PROVE  CreateOf(d, p)' /\ ChangeOf(d, p)' /\ UpdateOf(d, p)' /\ TestOf(d, p)'
      <4>1. CreateOf(d, p)'
        <5>1. CASE d = c
          BY <2>1, <2>3, <5>1 DEF CreateOf, Does
        <5>2. CASE d # c
          BY <2>1, <2>3, <2>4, <2>5, <3>1, <5>2
             DEF KeysOf, CreateOf, ChangeOf, Changing, Holds, Does, GoesOn, Tests
        <5>3. QED
          BY <5>1, <5>2
      <4>2. ChangeOf(d, p)'
        <5>1. CASE d = c
          BY <2>1, <2>3, <2>4, <2>5, <3>1, <5>1
             DEF KeysOf, ChangeOf, RowOf, Holds, Changing, Does, GoesOn, Tests
        <5>2. CASE d # c
          BY <2>1, <2>3, <2>4, <2>5, <3>1, <5>2
             DEF KeysOf, ChangeOf, RowOf, Holds, Changing, Does, GoesOn, Tests
        <5>3. QED
          BY <5>1, <5>2
      <4>3. UpdateOf(d, p)'
        <5>1. CASE d = c
          BY <2>1, <2>3, <2>4, <2>5, <3>1, <5>1
             DEF KeysOf, UpdateOf, ChangeOf, Changing, Does, GoesOn, Tests
        <5>2. CASE d # c
          BY <2>1, <2>3, <2>4, <2>5, <3>1, <5>2
             DEF KeysOf, UpdateOf, ChangeOf, Changing, Does, GoesOn, Tests
        <5>3. QED
          BY <5>1, <5>2
      <4>4. TestOf(d, p)'
        <5>1. CASE d = c
          BY <2>1, <2>3, <5>1 DEF TestOf, Does
        <5>2. CASE d # c
          BY <2>1, <2>3, <2>4, <2>5, <3>1, <5>2
             DEF KeysOf, TestOf, Holds, Changing, Does, GoesOn, Tests
        <5>3. QED
          BY <5>1, <5>2
      <4>5. QED
        BY <4>1, <4>2, <4>3, <4>4
    <3>3. RowOf(p)'
      BY <2>1, <2>3, <2>4, <2>5, <3>1
         DEF KeysOf, ChangeOf, UpdateOf, TestOf, CreateOf, RowOf, Holds, Does, Changing,
          GoesOn, Tests
    <3>4. QED
      BY <3>2, <3>3 DEF KeysOf
  <2>10. QED
    BY <2>6, <2>7, <2>8, <2>9 DEF ProfileInv
<1>6. ASSUME NEW c \in Clients, NEW p \in Profiles, DeleteBegins(c, p) PROVE ProfileInv'
  <2> DEFINE client == [NoClient EXCEPT !.op = "delete", !.profile = {p},
                         !.old = IF profiles[p].key THEN keyring[p] ELSE {}]
  <2>1. /\ client \in Client
        /\ client.op = "delete"
        /\ client.profile = {p}
        /\ client.old = IF profiles[p].key THEN keyring[p] ELSE {}
    BY <1>0, <1>6 DEF DeleteBegins, NoClient, Client, ProfileTypes, Profile, Does
  <2>2. Disturbs(c, client, p)
    BY <1>6 DEF DeleteBegins
  <2>3. /\ clients' \in [Clients -> Client]
        /\ clients'[c] = client
        /\ \A d \in Clients : d # c => /\ GoesOn(d, p)
                                       /\ clients[d].profile # {p}
                                            => clients'[d] = clients[d]
    BY <1>0, <2>1, <2>2, ClientDisturbs
  <2> HIDE DEF client
  <2>4. /\ clients[c].op = "idle"
        /\ Holds(p)
        /\ ~InUse(p)
        /\ writer = {}
        /\ writer' = {c}
        /\ \A d \in Clients : ~Does(d, "update", p)
        /\ keyring' \in [Profiles -> SUBSET Secrets]
        /\ keyring'[p] = IF profiles[p].key THEN {} ELSE keyring[p]
        /\ \A q \in Profiles : q # p => keyring'[q] = keyring[q]
        /\ unsettled' = IF Changing(p) # {} THEN unsettled \cup {p} ELSE unsettled
        /\ UNCHANGED <<profiles, override, meant, raced, scope>>
    BY <1>0, <1>6
       DEF DeleteBegins, ProfileTypes, Profile, Client, Does, Holds, Overlaps, WritersLock
  <2>5. Changing(p)' = Changing(p) \cup {c}
    BY <1>6, <2>1, <2>3 DEF Changing, GoesOn, Does, DeleteBegins
  <2>6. ProfileTypes' /\ WritersLock'
    BY <1>0, <2>1, <2>3, <2>4 DEF ProfileTypes, WritersLock, GoesOn, Does
  <2>7. DeletedAreFree' /\ OneDefault' /\ OneOverride'
    BY <1>0, <2>1, <2>3, <2>4
       DEF WritersLock, DeletedAreFree, OneDefault, OneOverride, InUse, Does, Holds,
        GoesOn
  <2>8. ASSUME NEW q \in Profiles, q # p PROVE KeysOf(q)'
    <3>1. SameKeys(q)
      BY <2>4, <2>8 DEF SameKeys, DeleteBegins
    <3>2. \A d \in Clients : \/ Apart(d, q) /\ Apart(d, q)'
                            \/ clients'[d] = clients[d]
      BY <2>1, <2>3, <2>4, <2>8 DEF Apart, GoesOn, Does
    <3>3. QED
      BY <1>0, <3>1, <3>2, ElsewhereKeys
  <2>9. KeysOf(p)'
    <3>1. KeysOf(p)
      BY <1>0
    <3>2. ASSUME NEW d \in Clients
          PROVE  CreateOf(d, p)' /\ ChangeOf(d, p)' /\ UpdateOf(d, p)' /\ TestOf(d, p)'
      <4>1. CreateOf(d, p)'
        <5>1. CASE d = c
          BY <2>1, <2>3, <5>1 DEF CreateOf, Does
        <5>2. CASE d # c
          BY <2>1, <2>3, <2>4, <2>5, <3>1, <5>2
             DEF KeysOf, CreateOf, ChangeOf, Changing, Holds, Does, GoesOn, Tests
        <5>3. QED
          BY <5>1, <5>2
      <4>2. ChangeOf(d, p)'
        <5>1. CASE d = c
          BY <2>1, <2>3, <2>4, <2>5, <3>1, <5>1
             DEF KeysOf, ChangeOf, RowOf, Holds, Changing, Does, GoesOn, Tests
        <5>2. CASE d # c
          BY <2>1, <2>3, <2>4, <2>5, <3>1, <5>2
             DEF KeysOf, ChangeOf, RowOf, Holds, Changing, Does, GoesOn, Tests
        <5>3. QED
          BY <5>1, <5>2
      <4>3. UpdateOf(d, p)'
        <5>1. CASE d = c
          BY <2>1, <2>3, <5>1 DEF UpdateOf, Does
        <5>2. CASE d # c
          BY <2>1, <2>3, <2>4, <2>5, <3>1, <5>2
             DEF KeysOf, UpdateOf, ChangeOf, Changing, Does, GoesOn, Tests
        <5>3. QED
          BY <5>1, <5>2
      <4>4. TestOf(d, p)'
        <5>1. CASE d = c
          BY <2>1, <2>3, <5>1 DEF TestOf, Does
        <5>2. CASE d # c
          BY <2>1, <2>3, <2>4, <2>5, <3>1, <5>2
             DEF KeysOf, TestOf, Holds, Changing, Does, GoesOn, Tests
        <5>3. QED
          BY <5>1, <5>2
      <4>5. QED
        BY <4>1, <4>2, <4>3, <4>4
    <3>3. RowOf(p)'
      BY <2>1, <2>3, <2>4, <2>5, <3>1
         DEF KeysOf, ChangeOf, UpdateOf, TestOf, CreateOf, RowOf, Holds, Does, Changing,
          GoesOn, Tests
    <3>4. QED
      BY <3>2, <3>3 DEF KeysOf
  <2>10. QED
    BY <2>6, <2>7, <2>8, <2>9 DEF ProfileInv
<1>7. ASSUME NEW c \in Clients, NEW p \in Profiles, UpdateCommits(c, p) PROVE ProfileInv'
  <2>0. PICK config \in clients[c].config, enabled \in BOOLEAN :
         /\ ~enabled => ~InUse(p)
         /\ profiles' = [profiles EXCEPT ![p].config = config, ![p].key = TRUE,
                                         ![p].enabled = enabled,
                                         ![p].found = Found(p, config, TRUE)]
    BY <1>7 DEF UpdateCommits
  <2> DEFINE row == [profiles[p] EXCEPT !.config = config, !.key = TRUE, !.enabled = enabled,
                                        !.found = {}]
  <2>1. NoClient \in Client /\ NoClient.op = "idle"
    BY NoClientIsClient
  <2>2. Disturbs(c, NoClient, p)
    BY <1>7 DEF UpdateCommits
  <2>3. /\ clients' \in [Clients -> Client]
        /\ clients'[c] = NoClient
        /\ \A d \in Clients : d # c => /\ GoesOn(d, p)
                                       /\ clients[d].profile # {p}
                                            => clients'[d] = clients[d]
    BY <1>0, <2>1, <2>2, ClientDisturbs
  <2>4. /\ Does(c, "update", p)
        /\ ~enabled => ~InUse(p)
        /\ RowIs(p, row)
        /\ row.row = profiles[p].row /\ row.config = config /\ row.key
        /\ row.enabled = enabled /\ row.default = profiles[p].default /\ row.found = {}
        /\ writer' = {}
        /\ meant' \in [Profiles -> SUBSET Secrets]
        /\ meant'[p] = clients[c].secret
        /\ \A q \in Profiles : q # p => meant'[q] = meant[q]
        /\ unsettled' = IF clients[c].raced THEN unsettled ELSE unsettled \ {p}
        /\ UNCHANGED <<override, keyring, raced, scope>>
    <3>0. profiles[p] \in Profile /\ config \in Configurations
      BY <1>0, <2>0 DEF ProfileTypes, Client
    <3>1. row \in Profile
      BY <2>0, <3>0 DEF Profile
    <3>2. RowIs(p, row)
      BY <1>0, <2>0, <3>1, RowChanges DEF Found
    <3>3. QED
      BY <1>0, <1>7, <2>0, <3>0, <3>1, <3>2 DEF UpdateCommits, ProfileTypes, Profile, Client
  <2> HIDE DEF row
  <2>5. Changing(p)' = Changing(p) \ {c}
    BY <1>7, <2>1, <2>3 DEF Changing, GoesOn, Does, UpdateCommits
  <2>6. ProfileTypes' /\ WritersLock'
    BY <1>0, <2>1, <2>3, <2>4 DEF ProfileTypes, WritersLock, RowIs, GoesOn, Does
  <2>7. DeletedAreFree' /\ OneDefault' /\ OneOverride'
    BY <1>0, <2>1, <2>3, <2>4
       DEF WritersLock, DeletedAreFree, OneDefault, OneOverride, InUse, Does, Holds, RowIs,
        GoesOn
  <2>8. ASSUME NEW q \in Profiles, q # p PROVE KeysOf(q)'
    <3>1. SameKeys(q)
      BY <2>4, <2>8 DEF SameKeys, RowIs
    <3>2. \A d \in Clients : \/ Apart(d, q) /\ Apart(d, q)'
                            \/ clients'[d] = clients[d]
      BY <2>1, <2>3, <2>4, <2>8 DEF Apart, GoesOn, Does
    <3>3. QED
      BY <1>0, <3>1, <3>2, ElsewhereKeys
  <2>9. KeysOf(p)'
    <3>1. KeysOf(p)
      BY <1>0
    <3>2. ASSUME NEW d \in Clients
          PROVE  CreateOf(d, p)' /\ ChangeOf(d, p)' /\ UpdateOf(d, p)' /\ TestOf(d, p)'
      <4>1. CreateOf(d, p)'
        <5>1. CASE d = c
          BY <2>1, <2>3, <5>1 DEF CreateOf, Does
        <5>2. CASE d # c
          BY <2>1, <2>3, <2>4, <2>5, <3>1, <5>2
             DEF KeysOf, CreateOf, ChangeOf, Changing, Holds, Does, GoesOn, Tests, RowIs
        <5>3. QED
          BY <5>1, <5>2
      <4>2. ChangeOf(d, p)'
        <5>1. CASE d = c
          BY <2>1, <2>3, <5>1 DEF ChangeOf, Does, Changing
        <5>2. CASE d # c
          BY <2>1, <2>3, <2>4, <2>5, <3>1, <5>2 DEF KeysOf, ChangeOf, RowOf, Holds,
             Changing, UpdateOf, Does, GoesOn, Tests, RowIs
        <5>3. QED
          BY <5>1, <5>2
      <4>3. UpdateOf(d, p)'
        <5>1. CASE d = c
          BY <2>1, <2>3, <5>1 DEF UpdateOf, Does
        <5>2. CASE d # c
          BY <2>1, <2>3, <2>4, <2>5, <3>1, <5>2
             DEF KeysOf, UpdateOf, ChangeOf, Changing, Does, GoesOn, Tests, RowIs
        <5>3. QED
          BY <5>1, <5>2
      <4>4. TestOf(d, p)'
        <5>1. CASE d = c
          BY <2>1, <2>3, <5>1 DEF TestOf, Does
        <5>2. CASE d # c
          BY <2>1, <2>3, <2>4, <2>5, <3>1, <5>2
             DEF KeysOf, TestOf, Holds, Changing, Does, GoesOn, Tests, RowIs
        <5>3. QED
          BY <5>1, <5>2
      <4>5. QED
        BY <4>1, <4>2, <4>3, <4>4
    <3>3. RowOf(p)'
      BY <2>1, <2>3, <2>4, <2>5, <3>1
         DEF KeysOf, ChangeOf, UpdateOf, TestOf, CreateOf, RowOf, Holds, Does, Changing,
          GoesOn, Tests, RowIs
    <3>4. QED
      BY <3>2, <3>3 DEF KeysOf
  <2>10. QED
    BY <2>6, <2>7, <2>8, <2>9 DEF ProfileInv
<1>8. ASSUME NEW c \in Clients, NEW p \in Profiles, DeleteCommits(c, p) PROVE ProfileInv'
  <2> DEFINE row == [profiles[p] EXCEPT !.row = "deleted", !.key = FALSE, !.enabled = FALSE,
                                        !.found = {}]
  <2>1. NoClient \in Client /\ NoClient.op = "idle"
    BY NoClientIsClient
  <2>2. ClientIs(c, NoClient)
    BY <1>8 DEF DeleteCommits
  <2>3. /\ clients' \in [Clients -> Client]
        /\ clients'[c] = NoClient
        /\ \A d \in Clients : d # c => clients'[d] = clients[d]
    BY <1>0, <2>1, <2>2, ClientGoesOn
  <2>4. /\ Does(c, "delete", p)
        /\ RowIs(p, row)
        /\ row.row = "deleted" /\ ~row.enabled /\ row.default = profiles[p].default
        /\ writer' = {}
        /\ meant' \in [Profiles -> SUBSET Secrets]
        /\ meant'[p] = {}
        /\ \A q \in Profiles : q # p => meant'[q] = meant[q]
        /\ UNCHANGED <<override, keyring, unsettled, raced, scope>>
    <3>0. profiles[p] \in Profile /\ clients[c] \in Client
      BY <1>0 DEF ProfileTypes
    <3>1. row \in Profile
      BY <3>0 DEF Profile, Client
    <3>2. RowIs(p, row)
      BY <1>0, <1>8, <3>1, RowChanges DEF DeleteCommits
    <3>3. QED
      BY <1>0, <1>8, <3>0, <3>1, <3>2 DEF DeleteCommits, ProfileTypes, Profile, Client
  <2> HIDE DEF row
  <2>5. Changing(p)' = Changing(p) \ {c}
    BY <1>8, <2>1, <2>3 DEF Changing, Does, DeleteCommits
  <2>6. ProfileTypes' /\ WritersLock'
    BY <1>0, <2>1, <2>3, <2>4 DEF ProfileTypes, WritersLock, RowIs, Does
  <2>7. DeletedAreFree' /\ OneDefault' /\ OneOverride'
    BY <1>0, <2>1, <2>3, <2>4
       DEF WritersLock, DeletedAreFree, OneDefault, OneOverride, InUse, Does, Holds, RowIs
  <2>8. ASSUME NEW q \in Profiles, q # p PROVE KeysOf(q)'
    <3>1. SameKeys(q)
      BY <2>4, <2>8 DEF SameKeys, RowIs
    <3>2. \A d \in Clients : \/ Apart(d, q) /\ Apart(d, q)'
                            \/ clients'[d] = clients[d]
      BY <2>1, <2>3, <2>4, <2>8 DEF Apart, Does
    <3>3. QED
      BY <1>0, <3>1, <3>2, ElsewhereKeys
  <2>9. KeysOf(p)'
    <3>1. KeysOf(p)
      BY <1>0
    <3>2. ASSUME NEW d \in Clients
          PROVE  CreateOf(d, p)' /\ ChangeOf(d, p)' /\ UpdateOf(d, p)' /\ TestOf(d, p)'
      <4>1. CreateOf(d, p)'
        <5>1. CASE d = c
          BY <2>1, <2>3, <5>1 DEF CreateOf, Does
        <5>2. CASE d # c
          BY <2>1, <2>3, <2>4, <2>5, <3>1, <5>2
             DEF KeysOf, CreateOf, ChangeOf, Changing, Holds, Does, RowIs
        <5>3. QED
          BY <5>1, <5>2
      <4>2. ChangeOf(d, p)'
        <5>1. CASE d = c
          BY <2>1, <2>3, <5>1 DEF ChangeOf, Does, Changing
        <5>2. CASE d # c
          BY <2>1, <2>3, <2>4, <2>5, <3>1, <5>2
             DEF KeysOf, ChangeOf, RowOf, Holds, Changing, Does, RowIs
        <5>3. QED
          BY <5>1, <5>2
      <4>3. UpdateOf(d, p)'
        <5>1. CASE d = c
          BY <2>1, <2>3, <5>1 DEF UpdateOf, Does
        <5>2. CASE d # c
          BY <2>1, <2>3, <2>4, <2>5, <3>1, <5>2
             DEF KeysOf, UpdateOf, ChangeOf, Changing, Does, RowIs
        <5>3. QED
          BY <5>1, <5>2
      <4>4. TestOf(d, p)'
        <5>1. CASE d = c
          BY <2>1, <2>3, <5>1 DEF TestOf, Does
        <5>2. CASE d # c
          BY <2>1, <2>3, <2>4, <2>5, <3>1, <5>2
             DEF KeysOf, TestOf, Holds, Changing, Does, RowIs
        <5>3. QED
          BY <5>1, <5>2
      <4>5. QED
        BY <4>1, <4>2, <4>3, <4>4
    <3>3. RowOf(p)'
      BY <2>1, <2>3, <2>4, <2>5, <3>1 DEF KeysOf, ChangeOf, UpdateOf, TestOf, CreateOf,
         RowOf, Holds, Does, Changing, RowIs
    <3>4. QED
      BY <3>2, <3>3 DEF KeysOf
  <2>10. QED
    BY <2>6, <2>7, <2>8, <2>9 DEF ProfileInv
<1>9. ASSUME NEW c \in Clients, NEW p \in Profiles, TestRecords(c, p) PROVE ProfileInv'
  <2> DEFINE row == [profiles[p] EXCEPT !.found = clients[c].config \X clients[c].secret]
  <2>1. NoClient \in Client /\ NoClient.op = "idle"
    BY NoClientIsClient
  <2>2. ClientIs(c, NoClient)
    BY <1>9 DEF TestRecords
  <2>3. /\ clients' \in [Clients -> Client]
        /\ clients'[c] = NoClient
        /\ \A d \in Clients : d # c => clients'[d] = clients[d]
    BY <1>0, <2>1, <2>2, ClientGoesOn
  <2>4. /\ Does(c, "tested", p)
        /\ Holds(p)
        /\ RowIs(p, row)
        /\ row.row = profiles[p].row /\ row.config = profiles[p].config
        /\ row.key = profiles[p].key /\ row.enabled = profiles[p].enabled
        /\ row.default = profiles[p].default
        /\ row.found = clients[c].config \X clients[c].secret
        /\ raced' = IF clients[c].raced THEN raced \cup {p} ELSE raced \ {p}
        /\ UNCHANGED <<override, keyring, writer, meant, unsettled, scope>>
    <3>0. profiles[p] \in Profile /\ clients[c] \in Client
      BY <1>0 DEF ProfileTypes
    <3>1. row \in Profile
      BY <3>0 DEF Profile, Client
    <3>2. RowIs(p, row)
      BY <1>0, <1>9, <3>1, RowChanges DEF TestRecords
    <3>3. QED
      BY <1>0, <1>9, <3>0, <3>1, <3>2 DEF TestRecords, ProfileTypes, Profile, Client
  <2> HIDE DEF row
  <2>5. Changing(p)' = Changing(p)
    BY <1>9, <2>1, <2>3 DEF Changing, Does, TestRecords
  <2>6. ProfileTypes' /\ WritersLock'
    BY <1>0, <2>1, <2>3, <2>4 DEF ProfileTypes, WritersLock, RowIs, Does
  <2>7. DeletedAreFree' /\ OneDefault' /\ OneOverride'
    BY <1>0, <2>1, <2>3, <2>4
       DEF WritersLock, DeletedAreFree, OneDefault, OneOverride, InUse, Does, Holds, RowIs
  <2>8. ASSUME NEW q \in Profiles, q # p PROVE KeysOf(q)'
    <3>1. SameKeys(q)
      BY <2>4, <2>8 DEF SameKeys, RowIs
    <3>2. \A d \in Clients : \/ Apart(d, q) /\ Apart(d, q)'
                            \/ clients'[d] = clients[d]
      BY <2>1, <2>3, <2>4, <2>8 DEF Apart, Does
    <3>3. QED
      BY <1>0, <3>1, <3>2, ElsewhereKeys
  <2>9. KeysOf(p)'
    <3>1. KeysOf(p)
      BY <1>0
    <3>2. ASSUME NEW d \in Clients
          PROVE  CreateOf(d, p)' /\ ChangeOf(d, p)' /\ UpdateOf(d, p)' /\ TestOf(d, p)'
      <4>1. CreateOf(d, p)'
        <5>1. CASE d = c
          BY <2>1, <2>3, <5>1 DEF CreateOf, Does
        <5>2. CASE d # c
          BY <2>1, <2>3, <2>4, <2>5, <3>1, <5>2 DEF KeysOf, CreateOf, Does, RowIs
        <5>3. QED
          BY <5>1, <5>2
      <4>2. ChangeOf(d, p)'
        <5>1. CASE d = c
          BY <2>1, <2>3, <5>1 DEF ChangeOf, Does, Changing
        <5>2. CASE d # c
          BY <2>1, <2>3, <2>4, <2>5, <3>1, <5>2
             DEF KeysOf, ChangeOf, RowOf, Holds, Changing, Does, RowIs
        <5>3. QED
          BY <5>1, <5>2
      <4>3. UpdateOf(d, p)'
        <5>1. CASE d = c
          BY <2>1, <2>3, <5>1 DEF UpdateOf, Does
        <5>2. CASE d # c
          BY <2>1, <2>3, <2>4, <2>5, <3>1, <5>2
             DEF KeysOf, UpdateOf, ChangeOf, Changing, Does, RowIs
        <5>3. QED
          BY <5>1, <5>2
      <4>4. TestOf(d, p)'
        <5>1. CASE d = c
          BY <2>1, <2>3, <5>1 DEF TestOf, Does
        <5>2. CASE d # c
          BY <2>1, <2>3, <2>4, <2>5, <3>1, <5>2
             DEF KeysOf, TestOf, Holds, Changing, Does, RowIs
        <5>3. QED
          BY <5>1, <5>2
      <4>5. QED
        BY <4>1, <4>2, <4>3, <4>4
    <3>3. RowOf(p)'
      BY <2>1, <2>3, <2>4, <2>5, <3>1 DEF KeysOf, ChangeOf, UpdateOf, TestOf, CreateOf,
         RowOf, Holds, Does, Changing, RowIs
    <3>4. QED
      BY <3>2, <3>3 DEF KeysOf
  <2>10. QED
    BY <2>6, <2>7, <2>8, <2>9 DEF ProfileInv
<1>10. ASSUME NEW c \in Clients, NEW p \in Profiles, PutsBack(c, p) PROVE ProfileInv'
  <2>1. NoClient \in Client /\ NoClient.op = "idle"
    BY NoClientIsClient
  <2>2. Disturbs(c, NoClient, p)
    BY <1>10 DEF PutsBack
  <2>3. /\ clients' \in [Clients -> Client]
        /\ clients'[c] = NoClient
        /\ \A d \in Clients : d # c => /\ GoesOn(d, p)
                                       /\ clients[d].profile # {p}
                                            => clients'[d] = clients[d]
    BY <1>0, <2>1, <2>2, ClientDisturbs
  <2>4. /\ Does(c, "undo", p)
        /\ keyring' \in [Profiles -> SUBSET Secrets]
        /\ keyring'[p] = clients[c].old
        /\ \A q \in Profiles : q # p => keyring'[q] = keyring[q]
        /\ UNCHANGED <<profiles, override, writer, meant, unsettled, raced, scope>>
    BY <1>0, <1>10 DEF PutsBack, ProfileTypes, Profile, Client, Does, Holds, Restored
  <2>5. Changing(p)' = Changing(p) \ {c}
    BY <1>10, <2>1, <2>3 DEF Changing, GoesOn, Does, PutsBack
  <2>6. ProfileTypes' /\ WritersLock'
    BY <1>0, <2>1, <2>3, <2>4 DEF ProfileTypes, WritersLock, GoesOn, Does
  <2>7. DeletedAreFree' /\ OneDefault' /\ OneOverride'
    BY <1>0, <2>1, <2>3, <2>4
       DEF WritersLock, DeletedAreFree, OneDefault, OneOverride, InUse, Does, Holds,
        GoesOn
  <2>8. ASSUME NEW q \in Profiles, q # p PROVE KeysOf(q)'
    <3>1. SameKeys(q)
      BY <2>4, <2>8 DEF SameKeys, PutsBack
    <3>2. \A d \in Clients : \/ Apart(d, q) /\ Apart(d, q)'
                            \/ clients'[d] = clients[d]
      BY <2>1, <2>3, <2>4, <2>8 DEF Apart, GoesOn, Does
    <3>3. QED
      BY <1>0, <3>1, <3>2, ElsewhereKeys
  <2>9. KeysOf(p)'
    <3>1. KeysOf(p)
      BY <1>0
    <3>2. ASSUME NEW d \in Clients
          PROVE  CreateOf(d, p)' /\ ChangeOf(d, p)' /\ UpdateOf(d, p)' /\ TestOf(d, p)'
      <4>1. CreateOf(d, p)'
        <5>1. CASE d = c
          BY <2>1, <2>3, <5>1 DEF CreateOf, Does
        <5>2. CASE d # c
          BY <2>1, <2>3, <2>4, <2>5, <3>1, <5>2
             DEF KeysOf, CreateOf, ChangeOf, Changing, Holds, Does, GoesOn, Tests
        <5>3. QED
          BY <5>1, <5>2
      <4>2. ChangeOf(d, p)'
        <5>1. CASE d = c
          BY <2>1, <2>3, <5>1 DEF ChangeOf, Does, Changing
        <5>2. CASE d # c
          BY <2>1, <2>3, <2>4, <2>5, <3>1, <5>2
             DEF KeysOf, ChangeOf, RowOf, Holds, Changing, Does, GoesOn, Tests
        <5>3. QED
          BY <5>1, <5>2
      <4>3. UpdateOf(d, p)'
        <5>1. CASE d = c
          BY <2>1, <2>3, <5>1 DEF UpdateOf, Does
        <5>2. CASE d # c
          BY <2>1, <2>3, <2>4, <2>5, <3>1, <5>2
             DEF KeysOf, UpdateOf, ChangeOf, Changing, Does, GoesOn, Tests
        <5>3. QED
          BY <5>1, <5>2
      <4>4. TestOf(d, p)'
        <5>1. CASE d = c
          BY <2>1, <2>3, <5>1 DEF TestOf, Does
        <5>2. CASE d # c
          BY <2>1, <2>3, <2>4, <2>5, <3>1, <5>2
             DEF KeysOf, TestOf, Holds, Changing, Does, GoesOn, Tests
        <5>3. QED
          BY <5>1, <5>2
      <4>5. QED
        BY <4>1, <4>2, <4>3, <4>4
    <3>3. RowOf(p)'
      BY <2>1, <2>3, <2>4, <2>5, <3>1
         DEF KeysOf, ChangeOf, UpdateOf, TestOf, CreateOf, RowOf, Holds, Does, Changing,
          GoesOn, Tests
    <3>4. QED
      BY <3>2, <3>3 DEF KeysOf
  <2>10. QED
    BY <2>6, <2>7, <2>8, <2>9 DEF ProfileInv
<1>10a. ASSUME NEW c \in Clients, NEW p \in Profiles, PutBackFails(c, p) PROVE ProfileInv'
  <2>1. NoClient \in Client /\ NoClient.op = "idle"
    BY NoClientIsClient
  <2>2. ClientIs(c, NoClient)
    BY <1>10a DEF PutBackFails
  <2>3. /\ clients' \in [Clients -> Client]
        /\ clients'[c] = NoClient
        /\ \A d \in Clients : d # c => clients'[d] = clients[d]
    BY <1>0, <2>1, <2>2, ClientGoesOn
  <2>4. /\ Does(c, "undo", p)
        /\ unsettled' = unsettled \cup {p}
        /\ UNCHANGED <<profiles, override, keyring, writer, meant, raced, scope>>
    BY <1>0, <1>10a DEF PutBackFails, ProfileTypes, Profile, Client, Does, Holds
  <2>5. Changing(p)' = Changing(p) \ {c}
    BY <1>10a, <2>1, <2>3 DEF Changing, Does, PutBackFails
  <2>6. ProfileTypes' /\ WritersLock'
    BY <1>0, <2>1, <2>3, <2>4 DEF ProfileTypes, WritersLock, Does
  <2>7. DeletedAreFree' /\ OneDefault' /\ OneOverride'
    BY <1>0, <2>1, <2>3, <2>4
       DEF WritersLock, DeletedAreFree, OneDefault, OneOverride, InUse, Does, Holds
  <2>8. ASSUME NEW q \in Profiles, q # p PROVE KeysOf(q)'
    <3>1. SameKeys(q)
      BY <2>4, <2>8 DEF SameKeys, PutBackFails
    <3>2. \A d \in Clients : \/ Apart(d, q) /\ Apart(d, q)'
                            \/ clients'[d] = clients[d]
      BY <2>1, <2>3, <2>4, <2>8 DEF Apart, Does
    <3>3. QED
      BY <1>0, <3>1, <3>2, ElsewhereKeys
  <2>9. KeysOf(p)'
    <3>1. KeysOf(p)
      BY <1>0
    <3>2. ASSUME NEW d \in Clients
          PROVE  CreateOf(d, p)' /\ ChangeOf(d, p)' /\ UpdateOf(d, p)' /\ TestOf(d, p)'
      <4>1. CreateOf(d, p)'
        <5>1. CASE d = c
          BY <2>1, <2>3, <5>1 DEF CreateOf, Does
        <5>2. CASE d # c
          BY <2>1, <2>3, <2>4, <2>5, <3>1, <5>2
             DEF KeysOf, CreateOf, ChangeOf, Changing, Holds, Does
        <5>3. QED
          BY <5>1, <5>2
      <4>2. ChangeOf(d, p)'
        <5>1. CASE d = c
          BY <2>1, <2>3, <5>1 DEF ChangeOf, Does, Changing
        <5>2. CASE d # c
          BY <2>1, <2>3, <2>4, <2>5, <3>1, <5>2
             DEF KeysOf, ChangeOf, RowOf, Holds, Changing, Does
        <5>3. QED
          BY <5>1, <5>2
      <4>3. UpdateOf(d, p)'
        <5>1. CASE d = c
          BY <2>1, <2>3, <5>1 DEF UpdateOf, Does
        <5>2. CASE d # c
          BY <2>1, <2>3, <2>4, <2>5, <3>1, <5>2
             DEF KeysOf, UpdateOf, ChangeOf, Changing, Does
        <5>3. QED
          BY <5>1, <5>2
      <4>4. TestOf(d, p)'
        <5>1. CASE d = c
          BY <2>1, <2>3, <5>1 DEF TestOf, Does
        <5>2. CASE d # c
          BY <2>1, <2>3, <2>4, <2>5, <3>1, <5>2
             DEF KeysOf, TestOf, Holds, Changing, Does
        <5>3. QED
          BY <5>1, <5>2
      <4>5. QED
        BY <4>1, <4>2, <4>3, <4>4
    <3>3. RowOf(p)'
      BY <2>1, <2>3, <2>4, <2>5, <3>1
         DEF KeysOf, ChangeOf, UpdateOf, TestOf, CreateOf, RowOf, Holds, Does, Changing
    <3>4. QED
      BY <3>2, <3>3 DEF KeysOf
  <2>10. QED
    BY <2>6, <2>7, <2>8, <2>9 DEF ProfileInv
<1>11. ASSUME NEW c \in Clients, NEW p \in Profiles, CreateInserts(c, p) PROVE ProfileInv'
  <2>0. PICK config \in Configurations, enabled \in BOOLEAN, default \in BOOLEAN :
           /\ default => enabled
           /\ profiles' = [(IF default THEN OnlyDefault(p) ELSE profiles) EXCEPT
                            ![p] = [row |-> "stored", config |-> config,
                                    key |-> clients[c].secret # {}, enabled |-> enabled,
                                    default |-> default, found |-> {}]]
    BY <1>11 DEF CreateInserts
  <2> DEFINE new == [row |-> "stored", config |-> config, key |-> clients[c].secret # {},
                     enabled |-> enabled, default |-> default, found |-> {}]
             base == IF default THEN OnlyDefault(p) ELSE profiles
  <2>1. NoClient \in Client /\ NoClient.op = "idle"
    BY NoClientIsClient
  <2>2. ClientIs(c, NoClient)
    BY <1>11 DEF CreateInserts
  <2>3. /\ clients' \in [Clients -> Client]
        /\ clients'[c] = NoClient
        /\ \A d \in Clients : d # c => clients'[d] = clients[d]
    BY <1>0, <2>1, <2>2, ClientGoesOn
  <2>4. /\ Does(c, "create", p)
        /\ writer = {}
        /\ profiles' \in [Profiles -> Profile]
        /\ profiles'[p] = new
        /\ new.row = "stored" /\ new.found = {}
        /\ new.key <=> clients[c].secret # {}
        /\ new.default => new.enabled
        /\ \A q \in Profiles : q # p =>
             /\ profiles'[q].row = profiles[q].row /\ profiles'[q].config = profiles[q].config
             /\ profiles'[q].key = profiles[q].key /\ profiles'[q].found = profiles[q].found
             /\ profiles'[q].enabled = profiles[q].enabled
             /\ profiles'[q].default => profiles[q].default /\ ~new.default
        /\ meant' \in [Profiles -> SUBSET Secrets]
        /\ meant'[p] = clients[c].secret
        /\ \A q \in Profiles : q # p => meant'[q] = meant[q]
        /\ UNCHANGED <<override, keyring, writer, unsettled, raced, scope>>
    <3>1. /\ new \in Profile /\ new.row = "stored" /\ new.found = {}
          /\ new.default = default /\ new.enabled = enabled
      BY DEF Profile
    <3>2. new.key <=> clients[c].secret # {}
      OBVIOUS
    <3>3. /\ base \in [Profiles -> Profile]
          /\ \A q \in Profiles :
               /\ base[q].row = profiles[q].row /\ base[q].config = profiles[q].config
               /\ base[q].key = profiles[q].key /\ base[q].found = profiles[q].found
               /\ base[q].enabled = profiles[q].enabled
               /\ q # p /\ base[q].default => profiles[q].default /\ ~default
      <4>1. CASE default
        BY <1>0, <4>1, DefaultsChange
      <4>2. CASE ~default
        BY <1>0, <4>2 DEF ProfileTypes
      <4>3. QED
        BY <4>1, <4>2
    <3>4. profiles' = [base EXCEPT ![p] = new]
      BY <2>0
    <3>5. Does(c, "create", p) /\ writer = {} /\ clients[c] \in Client
      BY <1>0, <1>11 DEF CreateInserts, ProfileTypes
    <3>6. /\ meant' = [meant EXCEPT ![p] = clients[c].secret]
          /\ UNCHANGED <<override, keyring, writer, unsettled, raced, scope>>
      BY <1>0, <1>11 DEF CreateInserts
    <3> HIDE DEF new, base
    <3>7. /\ profiles' \in [Profiles -> Profile] /\ profiles'[p] = new
          /\ \A q \in Profiles : q # p => profiles'[q] = base[q]
      BY <3>1, <3>3, <3>4
    <3>8. /\ meant' \in [Profiles -> SUBSET Secrets] /\ meant'[p] = clients[c].secret
          /\ \A q \in Profiles : q # p => meant'[q] = meant[q]
      BY <1>0, <3>5, <3>6 DEF ProfileTypes, Client
    <3>9. QED
      BY <2>0, <3>1, <3>2, <3>3, <3>5, <3>6, <3>7, <3>8
  <2> HIDE DEF new, base
  <2>5. Changing(p)' = Changing(p)
    BY <1>11, <2>1, <2>3 DEF Changing, Does, CreateInserts
  <2>6. ProfileTypes' /\ WritersLock'
    BY <1>0, <2>1, <2>3, <2>4 DEF ProfileTypes, WritersLock, Does
  <2>7. DeletedAreFree' /\ OneDefault' /\ OneOverride'
    <3>1. DeletedAreFree'
      BY <1>0, <2>1, <2>3, <2>4 DEF WritersLock, DeletedAreFree, InUse, Does
    <3>2. OneDefault'
      BY <1>0, <2>4 DEF OneDefault, Holds
    <3>3. OneOverride'
      BY <1>0, <1>1, <2>4 DEF OneOverride, Does, Holds, KeysOf, CreateOf
    <3>4. QED
      BY <3>1, <3>2, <3>3
  <2>8. ASSUME NEW q \in Profiles, q # p PROVE KeysOf(q)'
    <3>1. SameKeys(q)
      BY <2>4, <2>8 DEF SameKeys, CreateInserts
    <3>2. \A d \in Clients : \/ Apart(d, q) /\ Apart(d, q)'
                            \/ clients'[d] = clients[d]
      BY <2>1, <2>3, <2>4, <2>8 DEF Apart, Does
    <3>3. QED
      BY <1>0, <3>1, <3>2, ElsewhereKeys
  <2>9. KeysOf(p)'
    <3>1. KeysOf(p)
      BY <1>0
    <3>2. ASSUME NEW d \in Clients
          PROVE  CreateOf(d, p)' /\ ChangeOf(d, p)' /\ UpdateOf(d, p)' /\ TestOf(d, p)'
      <4>1. CreateOf(d, p)'
        <5>1. CASE d = c
          BY <2>1, <2>3, <5>1 DEF CreateOf, Does
        <5>2. CASE d # c
          BY <2>1, <2>3, <2>4, <2>5, <3>1, <5>2 DEF KeysOf, CreateOf, Does
        <5>3. QED
          BY <5>1, <5>2
      <4>2. ChangeOf(d, p)'
        <5>1. CASE d = c
          BY <2>1, <2>3, <5>1 DEF ChangeOf, Does, Changing
        <5>2. CASE d # c
          BY <2>1, <2>3, <2>4, <2>5, <3>1, <5>2
             DEF KeysOf, ChangeOf, RowOf, Holds, Changing, CreateOf, Does
        <5>3. QED
          BY <5>1, <5>2
      <4>3. UpdateOf(d, p)'
        <5>1. CASE d = c
          BY <2>1, <2>3, <5>1 DEF UpdateOf, Does
        <5>2. CASE d # c
          BY <2>1, <2>3, <2>4, <2>5, <3>1, <5>2
             DEF KeysOf, UpdateOf, ChangeOf, Changing, CreateOf, Does
        <5>3. QED
          BY <5>1, <5>2
      <4>4. TestOf(d, p)'
        <5>1. CASE d = c
          BY <2>1, <2>3, <5>1 DEF TestOf, Does
        <5>2. CASE d # c
          BY <2>1, <2>3, <2>4, <2>5, <3>1, <5>2
             DEF KeysOf, TestOf, Holds, Changing, CreateOf, ChangeOf, Does
        <5>3. QED
          BY <5>1, <5>2
      <4>5. QED
        BY <4>1, <4>2, <4>3, <4>4
    <3>3. RowOf(p)'
      BY <2>1, <2>3, <2>4, <2>5, <3>1
         DEF KeysOf, ChangeOf, UpdateOf, TestOf, CreateOf, RowOf, Holds, Does, Changing
    <3>4. QED
      BY <3>2, <3>3 DEF KeysOf
  <2>10. QED
    BY <2>6, <2>7, <2>8, <2>9 DEF ProfileInv
<1>12. ASSUME NEW p \in Profiles, UpdateSettings(p) PROVE ProfileInv'
  <2>1. PICK config \in Configurations, enabled \in BOOLEAN :
              /\ ~enabled => ~InUse(p)
              /\ RowIs(p, [profiles[p] EXCEPT !.config = config, !.enabled = enabled,
                                              !.found = Found(p, config, FALSE)])
              /\ clients' \in [Clients -> Client]
              /\ \A d \in Clients :
                   \/ /\ GoesOn(d, p)
                      /\ clients[d].profile # {p} => clients'[d] = clients[d]
                   \/ (config = profiles[p].config /\ clients'[d] = clients[d])
    BY <1>0, <1>12, SettingsChange
  <2> DEFINE row == [profiles[p] EXCEPT !.config = config, !.enabled = enabled,
                                        !.found = Found(p, config, FALSE)]
  <2>2. /\ row.row = profiles[p].row /\ row.config = config /\ row.key = profiles[p].key
        /\ row.enabled = enabled /\ row.default = profiles[p].default
        /\ row.found = IF config # profiles[p].config THEN {} ELSE profiles[p].found
    BY <1>0 DEF ProfileTypes, Profile, Found
  <2>3. RowIs(p, row)
    BY <2>1
  <2> HIDE DEF row
  <2>4. /\ Holds(p) /\ writer = {}
        /\ UNCHANGED <<override, keyring, writer, meant, unsettled, raced, scope>>
    BY <1>0, <1>12, SettingsChange
  <2>5. \A d \in Clients : /\ clients'[d].op = clients[d].op
                           /\ clients'[d].profile = clients[d].profile
                           /\ clients'[d].config = clients[d].config
                           /\ clients'[d].secret = clients[d].secret
                           /\ clients'[d].old = clients[d].old
                           /\ ~Tests(d, p) => clients'[d].raced = clients[d].raced
                           /\ Tests(d, p) => \/ clients'[d].raced
                                             \/ /\ config = profiles[p].config
                                                /\ clients'[d].raced = clients[d].raced
    BY <2>1 DEF GoesOn
  <2>6. Changing(p)' = Changing(p)
    BY <2>5 DEF Changing
  <2>7. ProfileTypes' /\ WritersLock'
    BY <1>0, <2>1, <2>3, <2>4, <2>5 DEF ProfileTypes, WritersLock, RowIs
  <2>8. DeletedAreFree' /\ OneDefault' /\ OneOverride'
    BY <1>0, <2>1, <2>2, <2>3, <2>4, <2>5
       DEF DeletedAreFree, OneDefault, OneOverride, InUse,
        Does, Holds, RowIs
  <2>9. ASSUME NEW q \in Profiles, q # p PROVE KeysOf(q)'
    <3>1. SameKeys(q)
      BY <2>3, <2>4, <2>9 DEF SameKeys, RowIs
    <3>2. \A d \in Clients : (Apart(d, q) /\ Apart(d, q)') \/ clients'[d] = clients[d]
      BY <2>1, <2>5, <2>9 DEF Apart
    <3>3. QED
      BY <1>0, <3>1, <3>2, ElsewhereKeys
  <2>10. KeysOf(p)'
    <3>1. KeysOf(p)
      BY <1>0
    <3>2. ASSUME NEW d \in Clients
          PROVE  CreateOf(d, p)' /\ ChangeOf(d, p)' /\ UpdateOf(d, p)' /\ TestOf(d, p)'
      <4>1. CreateOf(d, p)' /\ ChangeOf(d, p)'
        BY <2>2, <2>3, <2>4, <2>5, <2>6, <3>1
           DEF KeysOf, CreateOf, ChangeOf, RowIs, Does, Changing
      <4>2. UpdateOf(d, p)'
        BY <2>4, <2>5, <2>6, <3>1 DEF KeysOf, UpdateOf, Tests, Does, Changing
      <4>3. TestOf(d, p)'
        BY <2>2, <2>3, <2>4, <2>5, <2>6, <3>1 DEF KeysOf, TestOf, Tests, RowIs, Does
      <4>4. QED
        BY <4>1, <4>2, <4>3
    <3>3. RowOf(p)'
      BY <2>2, <2>3, <2>4, <2>6, <3>1 DEF KeysOf, RowOf, RowIs, Holds
    <3>4. QED
      BY <3>2, <3>3 DEF KeysOf
  <2>11. QED
    BY <2>7, <2>8, <2>9, <2>10 DEF ProfileInv
<1>13. ASSUME NEW p \in Profiles, SetDefault(p) PROVE ProfileInv'
  <2>1. /\ profiles' \in [Profiles -> Profile]
        /\ \A q \in Profiles : /\ profiles'[q].row = profiles[q].row
                                /\ profiles'[q].config = profiles[q].config
                                /\ profiles'[q].key = profiles[q].key
                                /\ profiles'[q].enabled = profiles[q].enabled
                                /\ profiles'[q].found = profiles[q].found
                                /\ (profiles'[q].default <=> q = p)
        /\ Holds(p) /\ profiles[p].enabled /\ writer = {}
        /\ UNCHANGED <<override, keyring, writer, clients, meant, unsettled, raced>>
    BY <1>0, <1>13, DefaultsChange DEF SetDefault
  <2>2. ProfileTypes' /\ WritersLock'
    BY <1>0, <1>13, <2>1 DEF ProfileTypes, WritersLock
  <2>3. DeletedAreFree' /\ OneDefault' /\ OneOverride'
    <3>1. DeletedAreFree'
      BY <1>0, <2>1 DEF WritersLock, DeletedAreFree, Does
    <3>2. OneDefault'
      BY <1>0, <2>1 DEF OneDefault, Holds
    <3>3. OneOverride'
      BY <1>0, <2>1 DEF OneOverride, Holds
    <3>4. QED
      BY <3>1, <3>2, <3>3
  <2>4. ASSUME NEW q \in Profiles PROVE KeysOf(q)'
    <3>1. SameKeys(q)
      BY <1>13, <2>1 DEF SameKeys
    <3>2. UNCHANGED clients
      BY <1>13, <2>1 DEF SetDefault
    <3>3. QED
      BY <1>0, <3>1, <3>2, ElsewhereKeys
  <2>5. QED
    BY <2>2, <2>3, <2>4 DEF ProfileInv
<1>14. ASSUME NEW p \in Profiles, SetOverride(p) PROVE ProfileInv'
  <2>1. Holds(p) /\ profiles[p].enabled /\ writer = {} /\ override' = {p}
    BY <1>14 DEF SetOverride
  <2>2. ProfileTypes' /\ WritersLock'
    BY <1>0, <1>14, <2>1 DEF SetOverride, ProfileTypes, WritersLock
  <2>3. DeletedAreFree' /\ OneDefault' /\ OneOverride'
    BY <1>0, <1>14, <2>1
       DEF SetOverride, WritersLock, DeletedAreFree, OneDefault, OneOverride, InUse, Does,
        Holds
  <2>4. ASSUME NEW q \in Profiles PROVE KeysOf(q)'
    <3>1. SameKeys(q)
      BY <1>14, <2>1 DEF SetOverride, SameKeys
    <3>2. UNCHANGED clients
      BY <1>14, <2>1 DEF SetOverride
    <3>3. QED
      BY <1>0, <3>1, <3>2, ElsewhereKeys
  <2>5. QED
    BY <2>2, <2>3, <2>4 DEF ProfileInv
<1>15. CASE ClearOverride
  <2>1. writer = {} /\ override' = {}
    BY <1>15 DEF ClearOverride
  <2>2. ProfileTypes' /\ WritersLock'
    BY <1>0, <1>15, <2>1 DEF ClearOverride, ProfileTypes, WritersLock
  <2>3. DeletedAreFree' /\ OneDefault' /\ OneOverride'
    BY <1>0, <1>15, <2>1 DEF ClearOverride, WritersLock, DeletedAreFree, OneDefault,
       OneOverride, InUse, Does,
        Holds
  <2>4. ASSUME NEW q \in Profiles PROVE KeysOf(q)'
    <3>1. SameKeys(q)
      BY <1>15, <2>1 DEF ClearOverride, SameKeys
    <3>2. UNCHANGED clients
      BY <1>15, <2>1 DEF ClearOverride
    <3>3. QED
      BY <1>0, <3>1, <3>2, ElsewhereKeys
  <2>5. QED
    BY <2>2, <2>3, <2>4 DEF ProfileInv
<1>16. ASSUME NEW c \in Clients, RollsBack(c) PROVE ProfileInv'
  <2> DEFINE client == IF clients[c].op = "delete" /\ clients[c].old = {} THEN NoClient
                       ELSE [clients[c] EXCEPT !.op = "undo"]
  <2>1. /\ client \in Client
        /\ \/ /\ client.op = "idle" /\ clients[c].op = "delete" /\ clients[c].old = {}
           \/ /\ client.op = "undo" /\ client.profile = clients[c].profile
              /\ client.old = clients[c].old
        /\ clients[c].op \in {"update", "delete"}
    BY <1>0, <1>16 DEF RollsBack, NoClient, Client, ProfileTypes
  <2>2. ClientIs(c, client)
    BY <1>16 DEF RollsBack
  <2>3. /\ clients' \in [Clients -> Client]
        /\ clients'[c] = client
        /\ \A d \in Clients : d # c => clients'[d] = clients[d]
    BY <1>0, <2>1, <2>2, ClientGoesOn
  <2> HIDE DEF client
  <2>4. /\ writer = {c} /\ writer' = {}
        /\ UNCHANGED <<profiles, override, keyring, meant, unsettled, raced, scope>>
    BY <1>0, <1>16 DEF RollsBack, WritersLock
  <2>5. ~Does(c, "probing", c) /\ ~Does(c, "tested", c)
    BY <2>1 DEF Does
  <2>6. ProfileTypes' /\ WritersLock' /\ DeletedAreFree' /\ OneDefault' /\ OneOverride'
    BY <1>0, <2>1, <2>3, <2>4 DEF ProfileTypes, WritersLock, DeletedAreFree, OneDefault,
        OneOverride, InUse, Does, Holds
  <2>7. ASSUME NEW q \in Profiles PROVE KeysOf(q)'
    <3>1. KeysOf(q)
      BY <1>0
    <3>2. CASE clients[c].profile # {q}
      <4>1. SameKeys(q)
        BY <2>4 DEF SameKeys
      <4>2. \A d \in Clients : (Apart(d, q) /\ Apart(d, q)') \/ clients'[d] = clients[d]
        BY <2>1, <2>3, <3>2 DEF Apart
      <4>3. QED
        BY <3>1, <4>1, <4>2, ElsewhereKeys
    <3>3. CASE clients[c].profile = {q}
      <4>1. ASSUME NEW d \in Clients
            PROVE  CreateOf(d, q)' /\ ChangeOf(d, q)' /\ UpdateOf(d, q)' /\ TestOf(d, q)'
        <5>1. CASE d = c
          BY <2>1, <2>3, <2>4, <2>5, <3>1, <3>3, <5>1
             DEF KeysOf, CreateOf, ChangeOf, UpdateOf,
            TestOf, Does, Changing
        <5>2. CASE d # c
          <6>1. clients'[d] = clients[d] /\ \A e \in Changing(q)' : e \in Changing(q)
            BY <2>1, <2>3, <2>4, <5>2 DEF Changing
          <6>2. CreateOf(d, q)'
            BY <2>1, <2>3, <2>4, <3>1, <6>1 DEF KeysOf, CreateOf, Does
          <6>3. ChangeOf(d, q)' /\ UpdateOf(d, q)'
            BY <2>4, <3>1, <6>1 DEF KeysOf, ChangeOf, UpdateOf, Does, Changing
          <6>4. TestOf(d, q)'
            BY <2>4, <3>1, <6>1 DEF KeysOf, TestOf, Does
          <6>5. QED
            BY <6>2, <6>3, <6>4
        <5>3. QED
          BY <5>1, <5>2
      <4>2. RowOf(q)'
        BY <2>1, <2>3, <2>4, <3>1, <3>3 DEF KeysOf, RowOf, ChangeOf, Holds, Changing
      <4>3. QED
        BY <4>1, <4>2 DEF KeysOf
    <3>4. QED
      BY <3>2, <3>3
  <2>8. QED
    BY <2>6, <2>7 DEF ProfileInv
<1>17. ASSUME NEW c \in Clients, TestFails(c) PROVE ProfileInv'
  <2>1. /\ NoClient \in Client /\ NoClient.op = "idle"
        /\ clients[c].op \in {"probing", "tested"}
    BY <1>17, NoClientIsClient DEF TestFails
  <2>2. ClientIs(c, NoClient)
    BY <1>17 DEF TestFails
  <2>3. /\ clients' \in [Clients -> Client]
        /\ clients'[c] = NoClient
        /\ \A d \in Clients : d # c => clients'[d] = clients[d]
    BY <1>0, <2>1, <2>2, ClientGoesOn
  <2>4. UNCHANGED <<profiles, override, writer, keyring, meant, unsettled, raced, scope>>
    BY <1>0, <1>17 DEF TestFails
  <2>5. \A q \in Profiles : Changing(q)' = Changing(q)
    BY <2>1, <2>3 DEF Changing
  <2>6. ProfileTypes' /\ WritersLock' /\ DeletedAreFree' /\ OneDefault' /\ OneOverride'
    BY <1>0, <2>1, <2>3, <2>4 DEF ProfileTypes, WritersLock, DeletedAreFree, OneDefault,
        OneOverride, InUse, Does, Holds
  <2>7. ASSUME NEW q \in Profiles PROVE KeysOf(q)'
    <3>1. KeysOf(q)
      BY <1>0
    <3>2. CASE clients[c].profile # {q}
      <4>1. SameKeys(q)
        BY <2>4 DEF SameKeys
      <4>2. \A d \in Clients : (Apart(d, q) /\ Apart(d, q)') \/ clients'[d] = clients[d]
        BY <2>1, <2>3, <3>2 DEF Apart
      <4>3. QED
        BY <3>1, <4>1, <4>2, ElsewhereKeys
    <3>3. CASE clients[c].profile = {q}
      <4>1. ASSUME NEW d \in Clients
            PROVE  CreateOf(d, q)' /\ ChangeOf(d, q)' /\ UpdateOf(d, q)' /\ TestOf(d, q)'
        <5>1. CASE d = c
          BY <2>1, <2>3, <2>4, <2>5, <3>1, <3>3, <5>1
             DEF KeysOf, CreateOf, ChangeOf, UpdateOf,
            TestOf, Does, Changing
        <5>2. CASE d # c
          <6>1. clients'[d] = clients[d] /\ \A e \in Changing(q)' : e \in Changing(q)
            BY <2>1, <2>3, <2>4, <5>2 DEF Changing
          <6>2. CreateOf(d, q)'
            BY <2>1, <2>3, <2>4, <3>1, <6>1 DEF KeysOf, CreateOf, Does
          <6>3. ChangeOf(d, q)' /\ UpdateOf(d, q)'
            BY <2>4, <3>1, <6>1 DEF KeysOf, ChangeOf, UpdateOf, Does, Changing
          <6>4. TestOf(d, q)'
            BY <2>4, <3>1, <6>1 DEF KeysOf, TestOf, Does
          <6>5. QED
            BY <6>2, <6>3, <6>4
        <5>3. QED
          BY <5>1, <5>2
      <4>2. RowOf(q)'
        BY <2>1, <2>3, <2>4, <3>1, <3>3 DEF KeysOf, RowOf, ChangeOf, Holds, Changing
      <4>3. QED
        BY <4>1, <4>2 DEF KeysOf
    <3>4. QED
      BY <3>2, <3>3
  <2>8. QED
    BY <2>6, <2>7 DEF ProfileInv
<1>18. CASE ProfileProcessEnds
  <2>1. /\ clients' \in [Clients -> Client]
        /\ \A c \in Clients : clients'[c].op = "idle"
        /\ UNCHANGED <<profiles, override, keyring, meant, raced, scope>>
        /\ \A p \in Profiles : p \notin unsettled' => p \notin unsettled /\ Changing(p) = {}
    BY <1>0, <1>18, NoClientIsClient DEF ProfileProcessEnds
  <2>2. ProfileTypes' /\ WritersLock' /\ DeletedAreFree' /\ OneDefault' /\ OneOverride'
    BY <1>0, <2>1
       DEF ProfileTypes, WritersLock, DeletedAreFree, OneDefault, OneOverride, Does,
        Holds
  <2>3. ASSUME NEW q \in Profiles PROVE KeysOf(q)'
    <3>1. \A d \in Clients : CreateOf(d, q)' /\ ChangeOf(d, q)' /\ UpdateOf(d, q)' /\ TestOf(d, q)'
      BY <2>1 DEF CreateOf, ChangeOf, UpdateOf, TestOf, Does, Changing
    <3>2. RowOf(q)'
      BY <1>0, <2>1 DEF KeysOf, RowOf, Holds
    <3>3. QED
      BY <3>1, <3>2 DEF KeysOf
  <2>4. QED
    BY <2>2, <2>3 DEF ProfileInv
<1>19. CASE UNCHANGED profileVars
  <2>1. UNCHANGED <<profiles, override, writer, keyring, clients, meant, unsettled, raced, scope>>
    BY <1>19 DEF profileVars
  <2>2. ProfileTypes' /\ WritersLock' /\ DeletedAreFree' /\ OneDefault' /\ OneOverride'
    BY <1>0, <2>1
       DEF ProfileTypes, WritersLock, DeletedAreFree, OneDefault, OneOverride, InUse,
        Does, Holds
  <2>3. ASSUME NEW q \in Profiles PROVE KeysOf(q)'
    BY <1>0, <2>1, ElsewhereKeys DEF SameKeys
  <2>4. QED
    BY <2>2, <2>3 DEF ProfileInv
<1>20. QED
  BY <1>0, <1>1, <1>2, <1>3, <1>4, <1>5, <1>6, <1>7, <1>8, <1>9, <1>10, <1>10a, <1>11, <1>12, <1>13,
      <1>14, <1>15, <1>16, <1>17, <1>18, <1>19, ProfileBounds DEF ProfileNext, ProfileTypes

================================================================================
