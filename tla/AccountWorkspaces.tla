----------------------------- MODULE AccountWorkspaces ----------------------------
(***************************************************************************)
(* Accounts and the applications that serve them: the invitations and      *)
(* accounts of app/account_registry.py, and the pool of app/accounts.py    *)
(* that opens one application per account, leases it to every request and  *)
(* closes it when it has been idle.                                        *)
(*                                                                         *)
(* A registry method is one IMMEDIATE transaction.  The pool is guarded by *)
(* an asyncio lock, which a sweep holds while it looks for unfinished jobs *)
(* in a thread and while it closes an application.                         *)
(***************************************************************************)
EXTENDS Naturals, FiniteSets

CONSTANTS
    Accounts,          \* the accounts there may be
    Invites,           \* the invitations an operator issues
    Legacies,          \* databases of older installations
    Requests,          \* concurrent requests to the workspaces
    MaxStops,          \* bound: ends of the process
    MaxCloseFaults     \* bound: applications that fail to shut down

ASSUME AccountBounds == MaxStops \in Nat /\ MaxCloseFaults \in Nat
\* A new database has a path of its own, and a server serves finitely many requests.
ASSUME AccountNames == Accounts \cap Legacies = {} /\ IsFiniteSet(Requests)

VARIABLES
    invites,           \* invites, and the legacy database each one binds
    accounts,          \* the database of each account; {}: no such account
    sessions,          \* accounts with a session that has not expired
    pool,              \* WorkspacePool.entries
    sweeping,          \* the account whose entry a sweep inspects
    jobs,              \* the durable generation job of each account
    requests,          \* the account each request has been routed or leased to
    stops, closeFaults \* counts, up to MaxStops and MaxCloseFaults

registryVars == <<invites, accounts, sessions>>
poolVars     == <<pool, sweeping, jobs, requests, stops, closeFaults>>
accountVars  == <<registryVars, poolVars>>

-------------------------------------------------------------------------------
(* Rows *)

Invite == [status : {"none", "open", "void", "claimed"}, binds : SUBSET Legacies]

Entry == [app    : {"none", "open", "broken"},   \* broken: its shutdown has failed
          leases : Nat,
          idle   : BOOLEAN]                      \* idle_seconds have passed

NoEntry == [app |-> "none", leases |-> 0, idle |-> FALSE]

\* An account without a legacy database has one of its own.
Databases == Accounts \cup Legacies

AccountTypeOK ==
    /\ invites \in [Invites -> Invite]
    /\ accounts \in [Accounts -> SUBSET Databases]
    /\ sessions \subseteq Accounts
    /\ pool \in [Accounts -> Entry]
    /\ sweeping \subseteq Accounts
    /\ jobs \in [Accounts -> {"none", "PENDING", "RUNNING", "ORPHAN"}]
    /\ requests \in [Requests -> [op : {"idle", "routed", "leased"},
                                  account : SUBSET Accounts]]
    /\ stops \in 0 .. MaxStops
    /\ closeFaults \in 0 .. MaxCloseFaults

NoRequest == [op |-> "idle", account |-> {}]

AccountInit ==
    /\ invites = [i \in Invites |-> [status |-> "none", binds |-> {}]]
    /\ accounts = [a \in Accounts |-> {}]
    /\ sessions = {}
    /\ pool = [a \in Accounts |-> NoEntry]
    /\ sweeping = {}
    /\ jobs = [a \in Accounts |-> "none"]
    /\ requests = [r \in Requests |-> NoRequest]
    /\ stops = 0
    /\ closeFaults = 0

-------------------------------------------------------------------------------
(* AccountRegistry *)

\* ensure_unbound: a revoked or expired invitation binds its database for good.
Unbound(binds, others) ==
    /\ \A a \in Accounts : accounts[a] \cap binds = {}
    /\ \A i \in others : invites[i].binds \cap binds = {}

IssueInvite(i, binds) ==
    /\ invites[i].status = "none"
    /\ Unbound(binds, Invites)
    /\ invites' = [invites EXCEPT ![i] = [status |-> "open", binds |-> binds]]
    /\ UNCHANGED <<accounts, sessions, poolVars>>

\* revoke_invite, or a day has passed.
VoidInvite(i) ==
    /\ invites[i].status = "open"
    /\ invites' = [invites EXCEPT ![i].status = "void"]
    /\ UNCHANGED <<accounts, sessions, poolVars>>

\* A claim makes a new account.
Claim(i, a) ==
    /\ invites[i].status = "open"
    /\ accounts[a] = {}
    /\ Unbound(invites[i].binds, Invites \ {i})
    /\ accounts' = [accounts EXCEPT ![a] = IF invites[i].binds = {} THEN {a}
                                                                  ELSE invites[i].binds]
    /\ invites' = [invites EXCEPT ![i].status = "claimed"]
    /\ UNCHANGED <<sessions, poolVars>>

Login(a) ==
    /\ accounts[a] # {}
    /\ sessions' = sessions \cup {a}
    /\ UNCHANGED <<invites, accounts, poolVars>>

\* logout, or thirty minutes without a request.
SessionEnds(a) ==
    /\ a \in sessions
    /\ sessions' = sessions \ {a}
    /\ UNCHANGED <<invites, accounts, poolVars>>

-------------------------------------------------------------------------------
(* Requests *)

\* route_workspace reads the session ...
Route(r, a) ==
    /\ requests[r].op = "idle"
    /\ a \in sessions
    /\ requests' = [requests EXCEPT ![r] = [op |-> "routed", account |-> {a}]]
    /\ UNCHANGED <<registryVars, pool, sweeping, jobs, stops, closeFaults>>

\* ... and the mounted application is leased.  An entry whose shutdown has failed is
\* still there and is leased as it is.
Lease(r, a) ==
    /\ requests[r] = [op |-> "routed", account |-> {a}]
    /\ sweeping = {}
    /\ pool' = IF pool[a].app = "none"
               THEN [pool EXCEPT ![a] = [app |-> "open", leases |-> 1, idle |-> FALSE]]
               ELSE [pool EXCEPT ![a].leases = pool[a].leases + 1]
    /\ requests' = [requests EXCEPT ![r].op = "leased"]
    /\ UNCHANGED <<registryVars, sweeping, jobs, stops, closeFaults>>

Enqueue(r, a) ==
    /\ requests[r] = [op |-> "leased", account |-> {a}]
    /\ jobs[a] = "none"
    /\ jobs' = [jobs EXCEPT ![a] = "PENDING"]
    /\ UNCHANGED <<registryVars, pool, sweeping, requests, stops, closeFaults>>

\* The response is complete.
Release(r, a) ==
    /\ requests[r] = [op |-> "leased", account |-> {a}]
    /\ sweeping = {}
    /\ pool' = [pool EXCEPT ![a].leases = pool[a].leases - 1, ![a].idle = FALSE]
    /\ requests' = [requests EXCEPT ![r] = NoRequest]
    /\ UNCHANGED <<registryVars, sweeping, jobs, stops, closeFaults>>

-------------------------------------------------------------------------------
(* The worker of an open application *)

WorkerClaims(a) ==
    /\ pool[a].app = "open" /\ jobs[a] = "PENDING"
    /\ jobs' = [jobs EXCEPT ![a] = "RUNNING"]
    /\ UNCHANGED <<registryVars, pool, sweeping, requests, stops, closeFaults>>

WorkerFinishes(a) ==
    /\ pool[a].app = "open" /\ jobs[a] = "RUNNING"
    /\ jobs' = [jobs EXCEPT ![a] = "none"]
    /\ UNCHANGED <<registryVars, pool, sweeping, requests, stops, closeFaults>>

-------------------------------------------------------------------------------
(* Sweeps *)

\* Thirty minutes since the entry was made or a lease of it ended.
TimePasses(a) ==
    /\ pool[a].app # "none" /\ ~pool[a].idle
    /\ pool' = [pool EXCEPT ![a].idle = TRUE]
    /\ UNCHANGED <<registryVars, sweeping, jobs, requests, stops, closeFaults>>

\* Mutant of HasWork: only what waits is work.
HasQueuedWork(a) == jobs[a] = "PENDING"

\* An orphan of a former process is RUNNING too, and keeps its application for good.
HasWork(a) == jobs[a] # "none"

SweepInspects(a) ==
    /\ sweeping = {}
    /\ pool[a].app # "none" /\ pool[a].idle /\ pool[a].leases = 0
    /\ sweeping' = {a}
    /\ UNCHANGED <<registryVars, pool, jobs, requests, stops, closeFaults>>

SweepSpares(a) ==
    /\ sweeping = {a}
    /\ HasWork(a)
    /\ sweeping' = {}
    /\ UNCHANGED <<registryVars, pool, jobs, requests, stops, closeFaults>>

SweepCloses(a) ==
    /\ sweeping = {a}
    /\ ~HasWork(a)
    /\ pool' = [pool EXCEPT ![a] = NoEntry]
    /\ sweeping' = {}
    /\ UNCHANGED <<registryVars, jobs, requests, stops, closeFaults>>

\* The shutdown raises: the entry stays, and the reaper goes on ("cleanup deferred").
CloseFails(a) ==
    /\ sweeping = {a}
    /\ ~HasWork(a)
    /\ closeFaults < MaxCloseFaults
    /\ closeFaults' = closeFaults + 1
    /\ pool' = [pool EXCEPT ![a].app = "broken"]
    /\ sweeping' = {}
    /\ UNCHANGED <<registryVars, jobs, requests, stops>>

\* The process ends; nobody recovers the jobs its workers were running.
ProcessEnds ==
    /\ stops < MaxStops
    /\ stops' = stops + 1
    /\ pool' = [a \in Accounts |-> NoEntry]
    /\ sweeping' = {}
    /\ jobs' = [a \in Accounts |-> IF jobs[a] = "RUNNING" THEN "ORPHAN" ELSE jobs[a]]
    /\ requests' = [r \in Requests |-> NoRequest]
    /\ UNCHANGED <<registryVars, closeFaults>>

AccountNext ==
    \/ ProcessEnds
    \/ \E i \in Invites :
         \/ VoidInvite(i)
         \/ \E a \in Accounts : Claim(i, a)
         \/ \E binds \in {{}} \cup {{l} : l \in Legacies} : IssueInvite(i, binds)
    \/ \E a \in Accounts :
         \/ Login(a) \/ SessionEnds(a) \/ WorkerClaims(a) \/ WorkerFinishes(a)
         \/ TimePasses(a) \/ SweepInspects(a) \/ SweepSpares(a) \/ SweepCloses(a)
         \/ CloseFails(a)
         \/ \E r \in Requests : Route(r, a) \/ Lease(r, a) \/ Enqueue(r, a) \/ Release(r, a)

-------------------------------------------------------------------------------
(* Properties *)

(* "leased until the ASGI response completes", and idle means "no request for 30 minutes
   AND no pending/running durable task" (accounts.py:26): whatever sweeps, shutdown
   failures and restarts come between, a request in flight holds an application of its
   own account that has not been closed under it, a running job has the worker of an
   open application, and no two accounts work on one database. *)
UsedApplicationsStayOpen ==
    /\ \A r \in Requests : \A a \in requests[r].account :
         requests[r].op = "leased" => pool[a].app # "none" /\ pool[a].leases > 0
    /\ \A a \in Accounts : jobs[a] = "RUNNING" => pool[a].app # "none"
    /\ \A a, b \in Accounts : accounts[a] \cap accounts[b] # {} => a = b

================================================================================
