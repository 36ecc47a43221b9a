----------------------- MODULE MCDeploymentOperations -----------------------
EXTENDS DeploymentOperations, TLC, FiniteSets

CONSTANTS e1, e2, d1, d2, k1, k2, r1, s1

Alike == Permutations(Drives) \cup Permutations(Exec)

\* Bound: calls and operations in progress at the same time.
TwoAtATime ==
    Cardinality({d \in Drives : drive[d] # None}
                \cup {o \in Ops : op[o] # None}) <= 2

\* Bound: the awaits behind a successful simulation, which nothing that is
\* done with the lock depends on, are left to the runs without operations.
BeforeSimulation == \A e \in Exec : req[e] = None \/ req[e].sim = None
=============================================================================
