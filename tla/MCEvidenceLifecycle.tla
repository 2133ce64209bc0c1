-------------------------- MODULE MCEvidenceLifecycle --------------------------
EXTENDS EvidenceLifecycle, TLC

CONSTANTS h1, h2, s1, s2, c1, c2

MCHandlers      == {h1, h2}
MCSources       == {s1, s2}
MCClaims        == {c1, c2}
MCTypeOf        == [c \in MCClaims |-> "user_problem"]
MCInitialClaims == {c1}

MCOffers == {[origin |-> "real_interview", synthetic |-> FALSE, url |-> FALSE]}
MCAnswers == {[relation |-> "supports", directness |-> "direct"],
              [relation |-> "contradicts", directness |-> "direct"]}

\* Handlers and sources are interchangeable.
MCSymmetry == Permutations(MCHandlers) \cup Permutations(MCSources)

================================================================================
