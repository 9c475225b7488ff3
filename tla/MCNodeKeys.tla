----------------------------- MODULE MCNodeKeys -----------------------------
EXTENDS NodeKeys

Both == [p \in {1, 2} |-> TRUE]

Neither == [p \in {1, 2} |-> FALSE]

Packets(first, second) == [p \in {1, 2} |-> IF p = 1 THEN first ELSE second]

Scenario(path, pub, kex, data, age, faults, kinds) ==
    [path |-> path, pub |-> pub, kex |-> kex, data |-> data, age |-> age,
     faults |-> faults, kinds |-> kinds]

\* Crossing requests; unknown public keys; a broken connection or a restart at
\* one end of it; a restart behind relays, with a packet of the old session on its
\* way; renewals, and a lost request; renewals that UDP packets overtake, by less
\* and by more than the window.
MCScenarios ==
    {Scenario("direct", Both, 3, Packets(0, 0), 2, 0, {}),
     Scenario("relay", Neither, 3, Packets(0, 0), 2, 0, {}),
     Scenario("direct", Both, 2, Packets(0, 0), 2, 1, {"break", "restart"}),
     Scenario("relay", Both, 2, Packets(1, 1), 2, 1, {"restart"}),
     Scenario("relay", Both, 2, Packets(0, 0), 3, 1, {"lose"}),
     Scenario("relay", Both, 2, Packets(2, 0), 3, 0, {})}
=============================================================================
