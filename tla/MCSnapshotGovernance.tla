------------------------- MODULE MCSnapshotGovernance -------------------------
EXTENDS SnapshotGovernance, TLC

CONSTANTS h1, h2, problem, problem2

MCHandlers      == {h1, h2}
MCClaims        == {problem, problem2}
MCTypeOf        == [c \in MCClaims |-> "user_problem"]
MCInitialClaims == {problem}
MCObserved      == {"supported", "stale"}

\* Handlers differ in nothing but their name, and no property is a liveness one.
MCSymmetry == Permutations(MCHandlers)

===============================================================================
