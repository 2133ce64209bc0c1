-------------------------------- MODULE MCHandoff --------------------------------
EXTENDS Handoff, TLC

CONSTANTS h1, h2, x1, s1

MCHandlers  == {h1, h2}
MCExporters == {x1}
MCSources   == {s1}
MCDocTypes  == {"prd", "techdoc"}

Workload(types, atonce, edits, discards, made, snapshots, exported, claims) ==
    [types |-> types, requests |-> atonce, edits |-> edits, discards |-> discards,
     versions |-> made, snapshots |-> snapshots, packages |-> exported,
     claims |-> claims]

MCWorkloads ==
    {\* a package of two documents; one that lists what both leave unresolved
     Workload({"prd", "techdoc"}, 1, FALSE, FALSE, 2, 1, 1, 0),
     Workload({"prd", "techdoc"}, 1, FALSE, FALSE, 2, 0, 1, 1),
     \* a package of the one or the other of two versions, with the same distinction
     Workload({"prd"}, 1, FALSE, FALSE, 2, 1, 1, 0),
     Workload({"prd"}, 1, FALSE, FALSE, 2, 0, 1, 1),
     \* a package while the snapshot changes and its document is thrown away
     Workload({"prd"}, 1, FALSE, TRUE, 1, 2, 1, 1),
     \* a package while the claims of its document are stored; one while two generations
     \* ask for a number
     Workload({"prd"}, 2, FALSE, FALSE, 1, 1, 1, 2),
     Workload({"prd"}, 2, FALSE, FALSE, 2, 0, 1, 0),
     \* two requests on one version; a version edited from another
     Workload({"prd"}, 2, TRUE, TRUE, 1, 1, 0, 1),
     Workload({"prd"}, 1, TRUE, FALSE, 2, 1, 0, 0)}

\* Handlers are interchangeable.
MCSymmetry == Permutations(MCHandlers)

================================================================================
