------------------------------ MODULE ClaimImpact ------------------------------
(***************************************************************************)
(* What a change of a claim's verification status means for the project:   *)
(* the rule of app/services/impact.py, shared by the modules that change   *)
(* such statuses.                                                          *)
(***************************************************************************)

Verifications == {"unverified", "limited_support", "supported", "conflict",
                  "contradicted", "stale"}

\* Criticality and role follow from the type, for a replacement as well.
Critical    == {"user_problem", "feasibility"}
Assumptions == {"feasibility"}
Backed      == {"supported", "limited_support"}
Lost        == {"conflict", "contradicted", "stale"}

IsMaterial(type, before, after, dependent) ==
    \/ type \in Critical \cap Assumptions /\ after \in Lost
    \/ /\ type = "feasibility" /\ before = "unverified"
       /\ after \in {"supported", "contradicted"}
    \/ /\ type \in {"user_problem", "value"}
       /\ \/ before \in Backed /\ after \in Lost
          \/ before = "unverified" /\ after = "contradicted"
    \/ dependent /\ before \in Backed /\ after \in Lost

================================================================================
