------------------------------ MODULE WorkspaceDrafts ------------------------------
(***************************************************************************)
(* The drafts a browser saves while the user types                         *)
(* (app/services/drafts.py): a row with a revision, read in one            *)
(* transaction and written in another.  A client that has seen a revision  *)
(* sends it as the base of what it saves; one that has not sends none.     *)
(***************************************************************************)
EXTENDS Naturals, FiniteSets

CONSTANTS
    Editors,           \* clients that edit the same draft
    MaxRevision        \* bound: revisions of the draft

ASSUME DraftBounds == MaxRevision \in Nat

VARIABLES
    draft,             \* the row of unified_drafts: revision, 0 without a row, and author
    editors            \* what each client knows, and the request it waits for

draftVars == <<draft, editors>>

-------------------------------------------------------------------------------
(* Rows *)

Author == {{}} \cup {{e} : e \in Editors}

Draft == [revision : Nat, author : Author]

Editor == [seen   : Nat,               \* the revision the client shows; 0: none
           blind  : BOOLEAN,           \* its request names no base
           op     : {"idle", "save", "reply"},
           read   : Nat]               \* the revision the handler has read

DraftTypeOK ==
    /\ draft \in Draft /\ draft.revision <= MaxRevision
    /\ editors \in [Editors -> Editor]

DraftInit ==
    /\ draft = [revision |-> 0, author |-> {}]
    /\ editors = [e \in Editors |-> [seen |-> 0, blind |-> FALSE, op |-> "idle",
                                     read |-> 0]]

Load(e) ==
    /\ editors[e].op = "idle" /\ draft.revision # 0
    /\ editors' = [editors EXCEPT ![e].seen = draft.revision]
    /\ UNCHANGED draft

\* The base is compared with the revision that is read ...
SaveReads(e, blind) ==
    /\ editors[e].op = "idle"
    /\ blind \/ editors[e].seen = draft.revision
    /\ editors' = [editors EXCEPT ![e].op = "save", ![e].blind = blind,
                                  ![e].read = draft.revision]
    /\ UNCHANGED draft

\* Mutant of Unchanged: the UPDATE names the id alone.
UnchangedRow(read) == read = 0 => draft.revision = 0

\* ... and that one with the row: WHERE id=? AND revision=?, or UNIQUE for a first row.
Unchanged(read) == draft.revision = read

SaveWrites(e) ==
    /\ editors[e].op = "save"
    /\ draft.revision < MaxRevision
    /\ Unchanged(editors[e].read)
    /\ draft' = [revision |-> editors[e].read + 1, author |-> {e}]
    /\ editors' = [editors EXCEPT ![e].op = "reply"]

\* The answer is a read of its own: it may show what another client has saved since.
Reply(e) ==
    /\ editors[e].op = "reply"
    /\ editors' = [editors EXCEPT ![e].op = "idle", ![e].seen = draft.revision]
    /\ UNCHANGED draft

\* A conflict answers with the row; an error or a lost answer shows nothing new.
Conflict(e) ==
    /\ editors[e].op = "save" /\ ~Unchanged(editors[e].read)
    /\ editors' = [editors EXCEPT ![e].op = "reply"]
    /\ UNCHANGED draft

AnswerLost(e) ==
    /\ editors[e].op # "idle"
    /\ editors' = [editors EXCEPT ![e].op = "idle"]
    /\ UNCHANGED draft

DraftNext ==
    \E e \in Editors :
       \/ Load(e) \/ SaveWrites(e) \/ Reply(e) \/ Conflict(e) \/ AnswerLost(e)
       \/ \E blind \in BOOLEAN : SaveReads(e, blind)

-------------------------------------------------------------------------------
(* Properties *)

(* A save that names the revision it was made from never replaces another one, not even
   one that is committed between its handler's read and its write: revisions grow one by
   one, and whoever writes has seen what is replaced or has named no base (drafts.py:72). *)
NoUnseenOverwrite ==
    [][draft' # draft =>
          /\ draft'.revision = draft.revision + 1
          /\ \E e \in Editors : /\ draft'.author = {e}
                                /\ editors[e].blind \/ editors[e].seen = draft.revision]_draftVars

================================================================================
