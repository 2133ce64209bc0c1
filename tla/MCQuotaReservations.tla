------------------------ MODULE MCQuotaReservations ------------------------
(* Three calls: two evidence analyses and one evidence guidance share the
   allowance of one operation type. *)
EXTENDS QuotaReservations, TLC

CONSTANTS c1, c2, c3

MCCalls      == {c1, c2, c3}
MCCommitters == {c1, c2}
MCOperations == {"evidence_analysis"}
MCOperation  == [c \in MCCalls |-> "evidence_analysis"]
MCLimit      == [o \in MCOperations |-> 2]
==============================================================================
