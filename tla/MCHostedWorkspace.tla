----------------------------- MODULE MCHostedWorkspace -----------------------------
EXTENDS HostedWorkspace, TLC

CONSTANTS t1, t2, x1, x2, l1

\* The components share no state, and so may share the names of what is interchangeable:
\* their threads and clients, and their accounts, invitations, keys, options and profiles.
\* One thread copies: what a copy adds is no part of what another copy reads.
MCThreads  == {t1, t2}
MCNames    == {x1, x2}
MCLegacies == {l1}
MCCopiers  == {l1}

MCConfigurations == {"A", "B"}
MCSecrets        == {"k1", "k2"}

\* One profile with keys, or two without: a key belongs to one profile.
MCProfileScopes == {[profiles |-> {x}, secrets |-> MCSecrets] : x \in MCNames}
                   \cup {[profiles |-> MCNames, secrets |-> {}]}

MCParts == {"accounts", "inception", "guided", "drafts", "profiles", "copies", "backups"}

MCSymmetry == Permutations(MCThreads) \cup Permutations(MCNames)

================================================================================
