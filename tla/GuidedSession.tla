------------------------------- MODULE GuidedSession -------------------------------
(***************************************************************************)
(* The guided conversation of a project (app/services/guided_project.py):  *)
(* one question after the other, the choice of a solution, and the canvas  *)
(* that is written when the user applies it.                               *)
(*                                                                         *)
(* Every request reads the session, and then writes the decision, the      *)
(* canvas and the session in transactions of their own; the writes of a    *)
(* session name its id alone.                                              *)
(***************************************************************************)
EXTENDS Naturals, Sequences, FiniteSets

CONSTANTS
    Callers,           \* threads that serve requests of the conversation
    Options,           \* the solutions that are offered
    Questions,         \* number of questions before the solution is chosen
    MaxDecisions,      \* bound: decisions recorded
    MaxCanvases,       \* bound: canvases written by the conversation
    MaxSessions        \* bound: sessions, one and one per reset

ASSUME GuidedBounds ==
    {Questions, MaxDecisions, MaxCanvases} \subseteq Nat /\ MaxSessions \in Nat \ {0}

VARIABLES
    session,           \* the row of guided_sessions
    decisions,         \* project_decisions of type guided_solution, by age
    canvases,          \* history: the option of each canvas that was applied
    callers,           \* what each request has read
    made,              \* sessions made so far
    overlapped         \* history: two requests overlapped, or one ended half-way

guidedVars == <<session, decisions, canvases, callers, made, overlapped>>

-------------------------------------------------------------------------------
(* Rows *)

Solution == Questions          \* current_step, as the number of steps taken
Ready    == Questions + 1      \* "canvas_ready"
Finished == Questions + 2      \* "complete"

\* The answers are those of the steps taken: each write replaces the whole state.
Session == [id : Nat, step : 0 .. Finished, option : SUBSET Options]

NoSession == [id |-> 0, step |-> 0, option |-> {}]

Decision == [option : Options, status : {"proposed", "confirmed", "superseded"}]

Caller == [op      : {"idle", "record", "respond", "canvas", "finish", "confirm", "create",
                      "supersede", "back"},
           session : Session]          \* as it was read, or as it will be written

NoCall == [op |-> "idle", session |-> NoSession]

GuidedTypeOK ==
    /\ session \in Session
    /\ decisions \in Seq(Decision) /\ Len(decisions) <= MaxDecisions
    /\ canvases \in Seq(Options) /\ Len(canvases) <= MaxCanvases
    /\ callers \in [Callers -> Caller]
    /\ made \in 1 .. MaxSessions
    /\ overlapped \in BOOLEAN

GuidedInit ==
    /\ session = [NoSession EXCEPT !.id = 1]
    /\ decisions = <<>>
    /\ canvases = <<>>
    /\ callers = [c \in Callers |-> NoCall]
    /\ made = 1
    /\ overlapped = FALSE

\* A request reads the session, which is gone between the two steps of a reset.
Calls(c, op, read) ==
    /\ callers[c].op = "idle"
    /\ session.id # 0
    /\ callers' = [callers EXCEPT ![c] = [op |-> op, session |-> read]]
    /\ overlapped' = (overlapped \/ \E d \in Callers : callers[d].op # "idle")
    /\ UNCHANGED <<session, decisions, canvases, made>>

Goes(c, op) == callers' = [callers EXCEPT ![c].op = op]
Ends(c)     == callers' = [callers EXCEPT ![c] = NoCall]

\* UPDATE guided_sessions ... WHERE id = ?
Updates(written) == session' = IF session.id = written.id THEN written ELSE session

-------------------------------------------------------------------------------
(* respond *)

AnswerReads(c) ==
    /\ session.step < Solution
    /\ Calls(c, "respond", [session EXCEPT !.step = session.step + 1])

ChooseReads(c, o) ==
    /\ session.step = Solution
    /\ Calls(c, "record", [session EXCEPT !.step = Ready, !.option = {o}])

\* The decision is recorded before the transaction that moves the session.
RecordDecision(c, o) ==
    /\ callers[c].op = "record" /\ callers[c].session.option = {o}
    /\ Len(decisions) < MaxDecisions
    /\ decisions' = Append(decisions, [option |-> o, status |-> "proposed"])
    /\ Goes(c, "respond")
    /\ UNCHANGED <<session, canvases, made, overlapped>>

\* The messages of a session that has been reset violate their foreign key.
RespondWrites(c) ==
    /\ callers[c].op = "respond"
    /\ Updates(callers[c].session)
    /\ Ends(c)
    /\ UNCHANGED <<decisions, canvases, made, overlapped>>

-------------------------------------------------------------------------------
(* apply_canvas *)

ApplyReads(c) ==
    /\ session.step = Ready
    /\ Calls(c, "canvas", session)

WriteCanvas(c, o) ==
    /\ callers[c].op = "canvas" /\ callers[c].session.option = {o}
    /\ Len(canvases) < MaxCanvases
    /\ canvases' = Append(canvases, o)
    /\ Goes(c, "finish")
    /\ UNCHANGED <<session, decisions, made, overlapped>>

FinishSession(c) ==
    /\ callers[c].op = "finish"
    /\ Updates([callers[c].session EXCEPT !.step = Finished])
    /\ Goes(c, "confirm")
    /\ UNCHANGED <<decisions, canvases, made, overlapped>>

Proposed == {d \in DOMAIN decisions : decisions[d].status = "proposed"}

\* Mutant of Pending: the oldest proposal is taken.
OldestPending == {d \in Proposed : \A e \in Proposed : d <= e}

\* ORDER BY created_at DESC, id DESC LIMIT 1
Pending == {d \in Proposed : \A e \in Proposed : e <= d}

Resolve(status) ==
    decisions' = [d \in DOMAIN decisions |-> IF d \in Pending
                                             THEN [decisions[d] EXCEPT !.status = status]
                                             ELSE decisions[d]]

ConfirmDecision(c) ==
    /\ callers[c].op = "confirm"
    /\ Resolve("confirmed")
    /\ Ends(c)
    /\ UNCHANGED <<session, canvases, made, overlapped>>

-------------------------------------------------------------------------------
(* go_back and reset *)

BackReads(c) ==
    /\ session.step \in 1 .. Ready
    /\ Calls(c, IF session.step = Ready THEN "supersede" ELSE "back",
             [session EXCEPT !.step = session.step - 1, !.option = {}])

SupersedeDecision(c) ==
    /\ callers[c].op = "supersede"
    /\ Resolve("superseded")
    /\ Goes(c, "back")
    /\ UNCHANGED <<session, canvases, made, overlapped>>

BackWrites(c) ==
    /\ callers[c].op = "back"
    /\ Updates(callers[c].session)
    /\ Ends(c)
    /\ UNCHANGED <<decisions, canvases, made, overlapped>>

\* The session is deleted in one transaction and made anew in another; the proposals of
\* the old one stay.  A request that is in flight finds its session gone.
ResetDeletes(c) ==
    /\ callers[c].op = "idle" /\ session.id # 0
    /\ made < MaxSessions
    /\ session' = NoSession
    /\ callers' = [callers EXCEPT ![c].op = "create"]
    /\ overlapped' = (overlapped \/ \E d \in Callers : callers[d].op # "idle")
    /\ UNCHANGED <<decisions, canvases, made>>

\* UNIQUE(project_id)
ResetCreates(c) ==
    /\ callers[c].op = "create"
    /\ session.id = 0
    /\ made' = made + 1
    /\ session' = [NoSession EXCEPT !.id = made + 1]
    /\ Ends(c)
    /\ UNCHANGED <<decisions, canvases, overlapped>>

\* An error, a constraint or the end of the process.  Without its session a project
\* refuses every request of the conversation, a reset included.
CallStops(c) ==
    /\ callers[c].op # "idle"
    /\ Ends(c)
    /\ overlapped' = TRUE
    /\ UNCHANGED <<session, decisions, canvases, made>>

GuidedNext ==
    \E c \in Callers :
       \/ AnswerReads(c) \/ RespondWrites(c) \/ ApplyReads(c) \/ FinishSession(c)
       \/ ConfirmDecision(c) \/ BackReads(c) \/ SupersedeDecision(c) \/ BackWrites(c)
       \/ ResetDeletes(c) \/ ResetCreates(c) \/ CallStops(c)
       \/ \E o \in Options : ChooseReads(c, o) \/ RecordDecision(c, o) \/ WriteCanvas(c, o)

-------------------------------------------------------------------------------
(* Properties *)

(* The user's explicit confirmation keeps system suggestions from becoming requirements
   without the user's knowledge (the prompt at guided_project.py:713): a solution is confirmed only after a
   canvas was written for it, once per canvas, in any order of requests and with any of
   them cut short; and as long as requests come one after the other, going back, resets
   and new choices included, a confirmed solution is the one its canvas was built from. *)
ConfirmedIsApplied ==
    LET confirmed == {d \in DOMAIN decisions : decisions[d].status = "confirmed"} IN
    /\ Cardinality(confirmed) <= Len(canvases)
    /\ ~overlapped => \A d \in confirmed :
                         \E n \in DOMAIN canvases : canvases[n] = decisions[d].option

================================================================================
