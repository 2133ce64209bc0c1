---------------------------- MODULE ProjectHistory ----------------------------
(***************************************************************************)
(* What the history of a project's definition promises, whatever happens   *)
(* to proposals in between: it starts with one human confirmation, every   *)
(* later version adopts one change proposal, a proposal is adopted at most *)
(* once, and what was recorded is never rewritten.                         *)
(***************************************************************************)
EXTENDS Naturals, Sequences

VARIABLE history       \* the origin of each version: 0, or a proposal

Origins(versions) == {versions[i] : i \in DOMAIN versions}

HistoryInit == history = <<>>

Confirm == history = <<>> /\ history' = <<0>>

Adopt ==
    /\ history # <<>>
    /\ \E p \in Origins(history') \ Origins(history) : history' = Append(history, p)

HistoryNext == Confirm \/ Adopt

HistorySpec == HistoryInit /\ [][HistoryNext]_history
===============================================================================
