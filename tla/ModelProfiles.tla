------------------------------- MODULE ModelProfiles -------------------------------
(***************************************************************************)
(* The user's own models: profiles, the default and the choice of a        *)
(* project (app/services/model_profiles.py, hybrid_runtime.py), and the    *)
(* API keys, which are kept outside of the database in a keyring           *)
(* (credential_store.py).                                                  *)
(*                                                                         *)
(* Every change of a profile is an IMMEDIATE transaction, but the keyring  *)
(* takes no part in it: a key is written while the transaction is open and *)
(* put back after it has been rolled back.  A connection test holds no     *)
(* lock at all while it waits for the provider.                            *)
(***************************************************************************)
EXTENDS FiniteSets, Naturals

CONSTANTS
    Profiles,          \* ids of model profiles; an id is used once
    Configurations,    \* what a profile may be set to: provider, protocol, address, model
    Secrets,           \* API keys
    Clients,           \* threads that serve requests for profiles
    ProfileScopes,     \* bound: the profiles and keys that a behaviour uses
    MaxProfileStops,   \* bound: ends of the process
    MaxProfileFaults   \* bound: transactions that fail after the keyring was written

ASSUME ProfileBounds ==
    /\ Configurations # {}
    /\ MaxProfileStops \in Nat /\ MaxProfileFaults \in Nat
    /\ ProfileScopes \subseteq [profiles : SUBSET Profiles, secrets : SUBSET Secrets]

VARIABLES
    scope,             \* the bounds of this behaviour; never changes
    profiles,          \* model_profiles
    override,          \* the profile the project has chosen; {}: none
    keyring,           \* the key stored for each profile; {}: none
    writer,            \* the client in whose transaction the database is; {}: none
    clients,           \* what each client does and has read
    meant,             \* history: the key of the last committed change of each profile
    unsettled,         \* history: profiles whose key was changed by overlapping requests,
                       \* by one the process ended in, or by one that could not put it back
    raced,             \* history: profiles whose test results come from a raced test
    profileFaults      \* counts: ends of the process, failed transactions

profileVars == <<scope, profiles, override, keyring, writer, clients, meant, unsettled,
                 raced, profileFaults>>

-------------------------------------------------------------------------------
(* Rows *)

Profile == [row     : {"none", "stored", "deleted"},
            config  : Configurations,
            key     : BOOLEAN,                  \* it has a credential_ref
            enabled : BOOLEAN,
            default : BOOLEAN,
            found   : SUBSET (Configurations \X Secrets)]  \* capabilities, and what they
                                                           \* were found with; {}: none
Client == [op      : {"idle", "create", "update", "delete", "undo", "probing", "tested"},
           profile : SUBSET Profiles,           \* at most one
           config  : SUBSET Configurations,     \* at most one
           secret  : SUBSET Secrets,            \* the new key, or the one tested with
           old     : SUBSET Secrets,            \* the key to put back
           raced   : BOOLEAN]                   \* history: another request changes it

NoClient == [op |-> "idle", profile |-> {}, config |-> {}, secret |-> {}, old |-> {},
             raced |-> FALSE]

ProfileTypeOK ==
    /\ scope \in ProfileScopes
    /\ profiles \in [Profiles -> Profile]
    /\ override \subseteq Profiles
    /\ keyring \in [Profiles -> SUBSET Secrets]
    /\ writer \subseteq Clients
    /\ clients \in [Clients -> Client]
    /\ meant \in [Profiles -> SUBSET Secrets]
    /\ unsettled \subseteq Profiles /\ raced \subseteq Profiles
    /\ profileFaults \in [stops : 0 .. MaxProfileStops, rollbacks : 0 .. MaxProfileFaults]

ProfileInit ==
    /\ scope \in ProfileScopes
    /\ profiles = [p \in Profiles |-> [row |-> "none",
                       config |-> CHOOSE config \in Configurations : TRUE,
                       key |-> FALSE, enabled |-> FALSE, default |-> FALSE,
                       found |-> {}]]
    /\ override = {}
    /\ keyring = [p \in Profiles |-> {}]
    /\ writer = {}
    /\ clients = [c \in Clients |-> NoClient]
    /\ meant = [p \in Profiles |-> {}]
    /\ unsettled = {} /\ raced = {}
    /\ profileFaults = [stops |-> 0, rollbacks |-> 0]

Holds(p) == profiles[p].row = "stored"

Does(c, op, p) == clients[c].op = op /\ clients[c].profile = {p}

\* Who changes the key of p, or has yet to put it back.
Changing(p) == {c \in Clients : clients[c].op \in {"update", "delete", "undo"}
                                  /\ clients[c].profile = {p}}

\* Client c goes on as given, and the tests of p that wait for a provider are raced.
Disturbs(c, client, p) ==
    clients' = [d \in Clients |->
        IF d = c THEN client
        ELSE IF clients[d].profile = {p} /\ clients[d].op \in {"probing", "tested"}
        THEN [clients[d] EXCEPT !.raced = TRUE] ELSE clients[d]]

ClientIs(c, client) == clients' = [clients EXCEPT ![c] = client]

-------------------------------------------------------------------------------
(* create *)

\* The key is stored before the transaction of the row begins.
CreateStarts(c, p, secret) ==
    /\ clients[c].op = "idle"
    /\ profiles[p].row = "none" /\ \A d \in Clients : ~Does(d, "create", p)
    /\ keyring' = [keyring EXCEPT ![p] = secret]
    /\ ClientIs(c, [NoClient EXCEPT !.op = "create", !.profile = {p}, !.secret = secret])
    /\ UNCHANGED <<profiles, override, writer, meant, unsettled, raced, profileFaults>>

\* _clear_other_defaults_tx
OnlyDefault(p) == [q \in Profiles |-> [profiles[q] EXCEPT !.default = q = p]]

CreateInserts(c, p) ==
    /\ Does(c, "create", p)
    /\ writer = {}
    /\ \E config \in Configurations, enabled, default \in BOOLEAN :
         /\ default => enabled
         /\ profiles' = [(IF default THEN OnlyDefault(p) ELSE profiles) EXCEPT
                          ![p] = [row |-> "stored", config |-> config,
                                  key |-> clients[c].secret # {}, enabled |-> enabled,
                                  default |-> default, found |-> {}]]
    /\ meant' = [meant EXCEPT ![p] = clients[c].secret]
    /\ ClientIs(c, NoClient)
    /\ UNCHANGED <<override, keyring, writer, unsettled, raced, profileFaults>>

\* The key is deleted, unless the keyring fails: then it stays behind without a row.
CreateFails(c, p) ==
    /\ Does(c, "create", p)
    /\ keyring' \in {keyring, [keyring EXCEPT ![p] = {}]}
    /\ ClientIs(c, NoClient)
    /\ UNCHANGED <<profiles, override, writer, meant, unsettled, raced, profileFaults>>

-------------------------------------------------------------------------------
(* update *)

\* Mutant of InUse: only the default is.
InUseByDefault(p) == profiles[p].default

\* A profile that is in use is neither disabled nor deleted.
InUse(p) == profiles[p].default \/ p \in override

\* Mutant of Found: the old results are kept for a new key.
FoundBefore(p, config, replaced) ==
    IF config # profiles[p].config THEN {} ELSE profiles[p].found

\* capability_inputs_changed
Found(p, config, replaced) ==
    IF replaced \/ config # profiles[p].config THEN {} ELSE profiles[p].found

\* Without a new key the update is the transaction.
UpdateSettings(p) ==
    /\ Holds(p) /\ writer = {}
    /\ \E config \in Configurations, enabled \in BOOLEAN :
         /\ ~enabled => ~InUse(p)
         /\ profiles' = [profiles EXCEPT ![p].config = config, ![p].enabled = enabled,
                                         ![p].found = Found(p, config, FALSE)]
         /\ IF config = profiles[p].config THEN UNCHANGED clients
            ELSE clients' = [d \in Clients |->
                   IF clients[d].profile = {p} /\ clients[d].op \in {"probing", "tested"}
                   THEN [clients[d] EXCEPT !.raced = TRUE] ELSE clients[d]]
    /\ UNCHANGED <<override, keyring, writer, meant, unsettled, raced, profileFaults>>

\* A change of the key while another client has yet to put a key back.
Overlaps(p) == IF Changing(p) # {} THEN unsettled \cup {p} ELSE unsettled

\* The transaction takes the write lock, and the new key goes into the keyring.
UpdateBegins(c, p, secret) ==
    /\ clients[c].op = "idle"
    /\ Holds(p) /\ writer = {}
    /\ writer' = {c}
    /\ keyring' = [keyring EXCEPT ![p] = {secret}]
    /\ unsettled' = Overlaps(p)
    /\ \E config \in Configurations :
         Disturbs(c, [NoClient EXCEPT !.op = "update", !.profile = {p},
                        !.config = {config}, !.secret = {secret},
                        !.old = IF profiles[p].key THEN keyring[p] ELSE {},
                        !.raced = Changing(p) # {}], p)
    /\ UNCHANGED <<profiles, override, meant, raced, profileFaults>>

UpdateCommits(c, p) ==
    /\ Does(c, "update", p)
    /\ \E config \in clients[c].config, enabled \in BOOLEAN :
         /\ ~enabled => ~InUse(p)
         /\ profiles' = [profiles EXCEPT ![p].config = config, ![p].key = TRUE,
                                         ![p].enabled = enabled,
                                         ![p].found = Found(p, config, TRUE)]
    /\ meant' = [meant EXCEPT ![p] = clients[c].secret]
    /\ unsettled' = IF clients[c].raced THEN unsettled ELSE unsettled \ {p}
    /\ writer' = {}
    /\ Disturbs(c, NoClient, p)
    /\ UNCHANGED <<override, keyring, raced, profileFaults>>

-------------------------------------------------------------------------------
(* delete *)

DeleteBegins(c, p) ==
    /\ clients[c].op = "idle"
    /\ Holds(p) /\ ~InUse(p) /\ writer = {}
    /\ writer' = {c}
    /\ keyring' = IF profiles[p].key THEN [keyring EXCEPT ![p] = {}] ELSE keyring
    /\ unsettled' = Overlaps(p)
    /\ Disturbs(c, [NoClient EXCEPT !.op = "delete", !.profile = {p},
                      !.old = IF profiles[p].key THEN keyring[p] ELSE {}], p)
    /\ UNCHANGED <<profiles, override, meant, raced, profileFaults>>

DeleteCommits(c, p) ==
    /\ Does(c, "delete", p)
    /\ profiles' = [profiles EXCEPT ![p].row = "deleted", ![p].key = FALSE,
                                    ![p].enabled = FALSE, ![p].found = {}]
    /\ meant' = [meant EXCEPT ![p] = {}]
    /\ writer' = {}
    /\ ClientIs(c, NoClient)
    /\ UNCHANGED <<override, keyring, unsettled, raced, profileFaults>>

-------------------------------------------------------------------------------
(* A transaction that fails after the keyring was written *)

\* The transaction is rolled back and gives up the lock ...
RollsBack(c) ==
    /\ clients[c].op \in {"update", "delete"}
    /\ profileFaults.rollbacks < MaxProfileFaults
    /\ profileFaults' = [profileFaults EXCEPT !.rollbacks = @ + 1]
    /\ writer' = {}
    /\ ClientIs(c, IF clients[c].op = "delete" /\ clients[c].old = {} THEN NoClient
                   ELSE [clients[c] EXCEPT !.op = "undo"])
    /\ UNCHANGED <<profiles, override, keyring, meant, unsettled, raced>>

\* Mutant of Restored: the new key is taken out, the old one is not put back.
Withdrawn(c) == {}

\* The key there was; without one, a new key is deleted.
Restored(c) == clients[c].old

\* ... and then the exception handler puts the key back.
PutsBack(c, p) ==
    /\ Does(c, "undo", p)
    /\ keyring' = [keyring EXCEPT ![p] = Restored(c)]
    /\ Disturbs(c, NoClient, p)
    /\ UNCHANGED <<profiles, override, writer, meant, unsettled, raced, profileFaults>>

\* The keyring fails a second time: what was written to it stays.
PutBackFails(c, p) ==
    /\ Does(c, "undo", p)
    /\ unsettled' = unsettled \cup {p}
    /\ ClientIs(c, NoClient)
    /\ UNCHANGED <<profiles, override, keyring, writer, meant, raced, profileFaults>>

-------------------------------------------------------------------------------
(* set_default and set_project_override *)

SetDefault(p) ==
    /\ Holds(p) /\ profiles[p].enabled /\ writer = {}
    /\ profiles' = OnlyDefault(p)
    /\ UNCHANGED <<override, keyring, writer, clients, meant, unsettled, raced,
                   profileFaults>>

SetOverride(p) ==
    /\ Holds(p) /\ profiles[p].enabled /\ writer = {}
    /\ override' = {p}
    /\ UNCHANGED <<profiles, keyring, writer, clients, meant, unsettled, raced,
                   profileFaults>>

ClearOverride ==
    /\ writer = {}
    /\ override' = {}
    /\ UNCHANGED <<profiles, keyring, writer, clients, meant, unsettled, raced,
                   profileFaults>>

\* HybridStructuredRuntime._selected_profile
Selected ==
    IF override # {} THEN {p \in override : Holds(p) /\ profiles[p].enabled}
    ELSE {p \in Profiles : Holds(p) /\ profiles[p].default /\ profiles[p].enabled}

-------------------------------------------------------------------------------
(* test_connection *)

TestReads(c, p) ==
    /\ clients[c].op = "idle"
    /\ Holds(p) /\ profiles[p].key
    /\ ClientIs(c, [NoClient EXCEPT !.op = "probing", !.profile = {p},
                      !.config = {profiles[p].config}, !.raced = Changing(p) # {}])
    /\ UNCHANGED <<profiles, override, keyring, writer, meant, unsettled, raced,
                   profileFaults>>

\* The key is resolved, and the provider answers.
ProviderProbed(c, p) ==
    /\ Does(c, "probing", p)
    /\ keyring[p] # {}
    /\ ClientIs(c, [clients[c] EXCEPT !.op = "tested", !.secret = keyring[p]])
    /\ UNCHANGED <<profiles, override, keyring, writer, meant, unsettled, raced,
                   profileFaults>>

\* The UPDATE names the id alone: the profile may be another one by now.
TestRecords(c, p) ==
    /\ Does(c, "tested", p)
    /\ Holds(p) /\ writer = {}
    /\ profiles' = [profiles EXCEPT ![p].found = clients[c].config \X clients[c].secret]
    /\ raced' = IF clients[c].raced THEN raced \cup {p} ELSE raced \ {p}
    /\ ClientIs(c, NoClient)
    /\ UNCHANGED <<override, keyring, writer, meant, unsettled, profileFaults>>

\* No key, no answer, or no profile any more.
TestFails(c) ==
    /\ clients[c].op \in {"probing", "tested"}
    /\ ClientIs(c, NoClient)
    /\ UNCHANGED <<profiles, override, keyring, writer, meant, unsettled, raced,
                   profileFaults>>

-------------------------------------------------------------------------------

\* Transactions are rolled back; the keyring keeps what was written to it.
ProfileProcessEnds ==
    /\ profileFaults.stops < MaxProfileStops
    /\ profileFaults' = [profileFaults EXCEPT !.stops = @ + 1]
    /\ unsettled' = unsettled \cup {p \in Profiles : Changing(p) # {}}
    /\ writer' = {}
    /\ clients' = [c \in Clients |-> NoClient]
    /\ UNCHANGED <<profiles, override, keyring, meant, raced>>

ProfileNext ==
    /\ UNCHANGED scope
    /\ \/ ClearOverride \/ ProfileProcessEnds
       \/ \E c \in Clients : RollsBack(c) \/ TestFails(c)
       \/ \E p \in scope.profiles :
            \/ UpdateSettings(p) \/ SetDefault(p) \/ SetOverride(p)
            \/ \E c \in Clients :
                 \/ CreateInserts(c, p) \/ CreateFails(c, p) \/ UpdateCommits(c, p)
                 \/ DeleteBegins(c, p) \/ DeleteCommits(c, p)
                 \/ PutsBack(c, p) \/ PutBackFails(c, p)
                 \/ TestReads(c, p) \/ ProviderProbed(c, p) \/ TestRecords(c, p)
                 \/ CreateStarts(c, p, {})
                 \/ \E s \in scope.secrets : CreateStarts(c, p, {s}) \/ UpdateBegins(c, p, s)

-------------------------------------------------------------------------------
(* Properties *)

(* "A selected model profile cannot be disabled" (model_profiles.py:324): whatever is
   created, updated, chosen and deleted, and in whatever order, there is at most one
   default, and a project's choice leads to exactly one profile that exists and is
   enabled. *)
SelectedProfilesAreUsable ==
    /\ Cardinality(Selected) <= 1
    /\ override # {} => Selected = override
    /\ \A p \in Profiles : profiles[p].default => Holds(p) /\ profiles[p].enabled

(* The two stores agree: when no request is changing a profile, the key in the keyring is
   that of the last committed change of the profile, a failed update or deletion having
   left no trace, and recorded capabilities were found with the configuration and the
   key the profile has.  Exempt are profiles whose key was changed by overlapping requests,
   by one the process died in, or by one that failed and could not put the key back (the
   put-back at :371-377 and :420-423 may raise in turn), until the next change, and
   results of a test during which the profile was changed. *)
ProfileStoresAgree ==
    \A p \in Profiles : Holds(p) /\ Changing(p) = {} /\ p \notin unsettled =>
            /\ keyring[p] = meant[p]
            /\ profiles[p].key = (meant[p] # {})
            /\ p \notin raced =>
                 profiles[p].found \subseteq {profiles[p].config} \X meant[p]

================================================================================
