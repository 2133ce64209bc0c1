\* One claim and its replacement, two sources, two requests at a time.
SPECIFICATION Spec
CONSTANTS
    h1 = h1  h2 = h2  s1 = s1  s2 = s2  c1 = c1  c2 = c2
    Handlers <- MCHandlers
    Sources <- MCSources
    Claims <- MCClaims
    TypeOf <- MCTypeOf
    InitialClaims <- MCInitialClaims
    Offers <- MCOffers
    Answers <- MCAnswers
INVARIANT StatusFollowsEvidence
INVARIANT LossIsReported
SYMMETRY MCSymmetry
\* A request always can start or end: the system never stops.
