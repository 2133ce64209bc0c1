----------------------------- MODULE ProjectInception -----------------------------
(***************************************************************************)
(* How a project gets from an idea to its first snapshot: the idea briefs  *)
(* (app/services/quick_start.py), the synchronous solution generation with *)
(* the intents that make it idempotent (solution_design.py,                *)
(* solution_generation_guard.py and the route in app/main.py) and the      *)
(* choice of a candidate (snapshots.py).  A project that has a canvas and  *)
(* no snapshot when the application starts is taken for one of an earlier  *)
(* release, and gets its first snapshot there (legacy_migration.py).       *)
(*                                                                         *)
(* Handlers run in threads; what they read is read outside the transaction *)
(* that uses it, except where a transaction begins IMMEDIATE.              *)
(***************************************************************************)
EXTENDS Naturals, Sequences, FiniteSets

CONSTANTS
    Handlers,          \* threads that serve requests for the project
    Keys,              \* values of the X-Idempotency-Key header
    MaxBriefs,         \* bound: versions of the brief
    MaxRuns            \* bound: solution runs

ASSUME InceptionBounds == MaxBriefs \in Nat \ {0} /\ MaxRuns \in Nat

VARIABLES
    briefs,            \* idea_briefs by version
    intents,           \* solution_generation_intents by key
    runs,              \* solution_runs with their candidates, by age
    chosen,            \* the first snapshot: its brief and the run of its candidate
    canvas,            \* there is a canvas with a problem, target users and goals
    handlers           \* what each handler does and has read

inceptionVars == <<briefs, intents, runs, chosen, canvas, handlers>>

-------------------------------------------------------------------------------
(* Rows *)

Brief == [status    : {"inferred", "confirmed", "superseded"},
          unclear   : BOOLEAN,               \* clarification_required
          confirmed : BOOLEAN]               \* history: a human has confirmed it

Intent == [status : {"none", "IN_PROGRESS", "SUCCEEDED", "FAILED"},
           answer : Nat]                     \* the run response_json shows; 0: none

Run == [key        : Keys,
        brief      : Nat,
        status     : {"validating", "completed", "failed", "empty"},
        candidates : BOOLEAN,                \* it has rows in solution_candidates
        overtaken  : BOOLEAN]                \* history: a later run was there when listed

Chosen == [brief : Nat, run : Nat]           \* brief 0: no snapshot; run 0: migrated

Handler == [op    : {"idle", "confirm", "refine", "begun", "design", "validate", "list",
                     "empty", "answer", "select"},
            key   : SUBSET Keys,             \* at most one
            brief : Nat,
            run   : Nat]

Free == [op |-> "idle", key |-> {}, brief |-> 0, run |-> 0]

InceptionTypeOK ==
    /\ briefs \in Seq(Brief) /\ Len(briefs) <= MaxBriefs
    /\ intents \in [Keys -> Intent]
    /\ runs \in Seq(Run) /\ Len(runs) <= MaxRuns
    /\ chosen \in Chosen
    /\ canvas \in BOOLEAN
    /\ handlers \in [Handlers -> Handler]

Inferred(unclear) == [status |-> "inferred", unclear |-> unclear, confirmed |-> FALSE]

\* quick_start has interpreted the idea: the first brief.  POST /api/projects makes a
\* project without one.
InceptionInit ==
    /\ briefs \in {<<>>} \cup {<<Inferred(unclear)>> : unclear \in BOOLEAN}
    /\ intents = [k \in Keys |-> [status |-> "none", answer |-> 0]]
    /\ runs = <<>>
    /\ chosen = [brief |-> 0, run |-> 0]
    /\ canvas = FALSE
    /\ handlers = [h \in Handlers |-> Free]

Becomes(h, handler) == handlers' = [handlers EXCEPT ![h] = handler]

Latest == Len(briefs)

-------------------------------------------------------------------------------
(* confirm_brief and refine_brief *)

ConfirmBriefReads(h) ==
    /\ handlers[h].op = "idle"
    /\ Latest # 0 /\ briefs[Latest].status = "inferred"
    /\ Becomes(h, [Free EXCEPT !.op = "confirm", !.brief = Latest])
    /\ UNCHANGED <<briefs, intents, runs, chosen, canvas>>

\* The UPDATE names the id alone: a brief superseded meanwhile is confirmed again.
ConfirmBriefWrites(h) ==
    /\ handlers[h].op = "confirm"
    /\ briefs' = [briefs EXCEPT ![handlers[h].brief].status = "confirmed",
                                ![handlers[h].brief].confirmed = TRUE]
    /\ Becomes(h, Free)
    /\ UNCHANGED <<intents, runs, chosen, canvas>>

RefineBriefReads(h) ==
    /\ handlers[h].op = "idle"
    /\ Latest # 0 /\ Latest < MaxBriefs
    /\ Becomes(h, [Free EXCEPT !.op = "refine", !.brief = Latest])
    /\ UNCHANGED <<briefs, intents, runs, chosen, canvas>>

\* UNIQUE(project_id, version) refuses the second of two.  An answer to the question of
\* the interpreter clears it; nothing raises it again.
RefineBriefWrites(h) ==
    LET base == handlers[h].brief IN
    /\ handlers[h].op = "refine"
    /\ base = Latest
    /\ \E unclear \in BOOLEAN :
         /\ unclear => briefs[base].unclear
         /\ briefs' = Append([briefs EXCEPT ![base].status = "superseded"],
                                  Inferred(unclear))
    /\ Becomes(h, Free)
    /\ UNCHANGED <<intents, runs, chosen, canvas>>

-------------------------------------------------------------------------------
(* POST /api/projects/{id}/solutions/generate without the asynchronous worker *)

\* Mutant of Claimable: a failed intent may be claimed again.
ClaimableAgain(k) == intents[k].status \in {"none", "FAILED"}

Claimable(k) == intents[k].status = "none"

\* begin() in an IMMEDIATE transaction.  Every other claim of the key is a replay.
Begin(h, k) ==
    /\ handlers[h].op = "idle"
    /\ Claimable(k)
    /\ intents' = [intents EXCEPT ![k].status = "IN_PROGRESS"]
    /\ Becomes(h, [Free EXCEPT !.op = "begun", !.key = {k}])
    /\ UNCHANGED <<briefs, runs, chosen, canvas>>

\* complete() and fail() name the key alone.
Settles(k, status, answer) ==
    intents' = [intents EXCEPT ![k] = [status |-> status, answer |-> answer]]

\* Mutant of MayDesign: only the clarification is asked for.
MayDesignClear(v) == ~briefs[v].unclear

MayDesign(v) == ~briefs[v].unclear /\ briefs[v].status = "confirmed"

\* _confirmed_brief_row; then the provider is asked.
DesignReads(h) ==
    /\ handlers[h].op = "begun"
    /\ Latest # 0 /\ MayDesign(Latest)
    /\ Becomes(h, [handlers[h] EXCEPT !.op = "design", !.brief = Latest])
    /\ UNCHANGED <<briefs, intents, runs, chosen, canvas>>

InsertRun(h, k) ==
    /\ handlers[h].op = "design" /\ handlers[h].key = {k}
    /\ Len(runs) < MaxRuns
    /\ runs' = Append(runs, [key |-> k, brief |-> handlers[h].brief,
                             status |-> "validating", candidates |-> FALSE,
                             overtaken |-> FALSE])
    /\ Becomes(h, [handlers[h] EXCEPT !.op = "validate", !.run = Len(runs) + 1])
    /\ UNCHANGED <<briefs, intents, chosen, canvas>>

\* Neither the candidates nor those of the one regeneration are valid: a recovery answer
\* or an exception follows.
RejectCandidates(h) ==
    /\ handlers[h].op = "validate"
    /\ runs' = [runs EXCEPT ![handlers[h].run].status = "failed"]
    /\ Becomes(h, [handlers[h] EXCEPT !.op = "answer", !.run = 0])
    /\ UNCHANGED <<briefs, intents, chosen, canvas>>

StoreCandidates(h) ==
    /\ handlers[h].op = "validate"
    /\ runs' = [runs EXCEPT ![handlers[h].run].status = "completed",
                            ![handlers[h].run].candidates = TRUE]
    /\ Becomes(h, [handlers[h] EXCEPT !.op = "list"])
    /\ UNCHANGED <<briefs, intents, chosen, canvas>>

\* list_candidates: the latest run of the project, whatever its status and whosever it is.
ListedRun == Len(runs)

ListCandidates(h) ==
    LET listed == ListedRun IN
    /\ handlers[h].op = "list"
    /\ runs' = [runs EXCEPT ![handlers[h].run].overtaken = Len(runs) > handlers[h].run]
    /\ Becomes(h, IF runs[listed].candidates
                  THEN [handlers[h] EXCEPT !.op = "answer", !.run = listed]
                  ELSE [handlers[h] EXCEPT !.op = "empty"])
    /\ UNCHANGED <<briefs, intents, chosen, canvas>>

\* "A completed run without persisted candidates is never a successful generation"
MarkEmpty(h) ==
    /\ handlers[h].op = "empty"
    /\ runs' = [runs EXCEPT ![handlers[h].run].status = "empty"]
    /\ Becomes(h, [handlers[h] EXCEPT !.op = "answer", !.run = 0])
    /\ UNCHANGED <<briefs, intents, chosen, canvas>>

Complete(h, k) ==
    /\ handlers[h].op = "answer" /\ handlers[h].key = {k}
    /\ IF handlers[h].run = 0 THEN Settles(k, "FAILED", 0)
                              ELSE Settles(k, "SUCCEEDED", handlers[h].run)
    /\ Becomes(h, Free)
    /\ UNCHANGED <<briefs, runs, chosen, canvas>>

\* No confirmed brief, a provider that fails, or any other exception: fail().
FailIntent(h, k) ==
    /\ handlers[h].op \notin {"idle", "confirm", "refine", "select"}
    /\ handlers[h].key = {k}
    /\ Settles(k, "FAILED", 0)
    /\ Becomes(h, Free)
    /\ UNCHANGED <<briefs, runs, chosen, canvas>>

-------------------------------------------------------------------------------
(* confirm_initial_solution *)

SelectReads(h) ==
    /\ handlers[h].op = "idle"
    /\ chosen.brief = 0
    /\ Latest # 0 /\ briefs[Latest].status = "confirmed" /\ ~briefs[Latest].unclear
    /\ Becomes(h, [Free EXCEPT !.op = "select", !.brief = Latest])
    /\ UNCHANGED <<briefs, intents, runs, chosen, canvas>>

\* _latest_solution_candidates_tx
Selectable ==
    {r \in DOMAIN runs : /\ runs[r].status = "completed"
                         /\ \A s \in DOMAIN runs : runs[s].status = "completed" => s <= r}

\* UNIQUE(project_id, version) of project_snapshots refuses a second first snapshot.
SelectWrites(h) ==
    /\ handlers[h].op = "select"
    /\ chosen.brief = 0
    /\ \E r \in Selectable : chosen' = [brief |-> handlers[h].brief, run |-> r]
    /\ canvas' = TRUE
    /\ Becomes(h, Free)
    /\ UNCHANGED <<briefs, intents, runs>>

\* The process stops, or a request that has not claimed a key fails: what the handler has
\* committed stays, an intent in progress included.
HandlerStops(h) ==
    /\ handlers[h].op # "idle"
    /\ Becomes(h, Free)
    /\ UNCHANGED <<briefs, intents, runs, chosen, canvas>>

-------------------------------------------------------------------------------
(* The canvas, and the start of the application *)

\* PUT .../canvas, or an applied guided proposal (GuidedSession); nothing asks whether the
\* project has a snapshot.
EditCanvas ==
    /\ ~canvas
    /\ canvas' = TRUE
    /\ UNCHANGED <<briefs, intents, runs, chosen, handlers>>

Migratable == canvas /\ chosen.brief = 0

\* _ensure_idea_brief_tx infers a brief from the canvas if there is none.
WithBrief == IF Latest = 0 THEN <<Inferred(FALSE)>> ELSE briefs

\* migrate_project, in one transaction: the snapshot rests on the latest brief, whatever its
\* status; no candidate is chosen.
Migrate ==
    /\ briefs' = WithBrief
    /\ chosen' = [brief |-> Len(briefs'), run |-> 0]

\* The process has ended, and starts: migrate_all precedes every request.
Restart ==
    /\ handlers' = [h \in Handlers |-> Free]
    /\ IF Migratable THEN Migrate ELSE UNCHANGED <<briefs, chosen>>
    /\ UNCHANGED <<intents, runs, canvas>>

InceptionNext ==
    \/ EditCanvas \/ Restart
    \/ \E h \in Handlers :
         \/ ConfirmBriefReads(h) \/ ConfirmBriefWrites(h)
         \/ RefineBriefReads(h) \/ RefineBriefWrites(h)
         \/ DesignReads(h) \/ RejectCandidates(h) \/ StoreCandidates(h)
         \/ ListCandidates(h) \/ MarkEmpty(h)
         \/ SelectReads(h) \/ SelectWrites(h) \/ HandlerStops(h)
         \/ \E k \in Keys : Begin(h, k) \/ InsertRun(h, k) \/ Complete(h, k)
                            \/ FailIntent(h, k)

-------------------------------------------------------------------------------
(* Properties *)

(* A first snapshot that was chosen rests on an idea a human has confirmed and clarified,
   twice over: its brief was, and so was the brief its candidate was generated from, which
   need not be the same one.  Briefs are refined and confirmed again between the reads of a
   generation or of a selection and the writes that rest on them.  A migrated snapshot has
   no candidate and may rest on a brief nobody has confirmed. *)
SnapshotRestsOnConfirmed ==
    chosen.run # 0 =>
        \A v \in {chosen.brief, runs[chosen.run].brief} :
            briefs[v].confirmed /\ ~briefs[v].unclear

(* "keep the run auditable but prevent a false success" (solution_design.py:463): an
   idempotency key starts one run at most, a key recorded as SUCCEEDED answers with
   candidates that are stored, and a run with stored candidates is recorded as
   failed_empty_result only if a later run of the project was there when it was listed. *)
RunsAreAccountedFor ==
    /\ \A r, s \in DOMAIN runs : runs[r].key = runs[s].key => r = s
    /\ \A k \in Keys : intents[k].status = "SUCCEEDED" => runs[intents[k].answer].candidates
    /\ \A r \in DOMAIN runs : runs[r].status = "empty" /\ runs[r].candidates
                              => runs[r].overtaken

================================================================================
