--------------------------- MODULE MCKeyRotation ----------------------------
EXTENDS KeyRotation, TLC

K1 == [kid |-> "k1", mat |-> "m1"]
K2 == [kid |-> "k2", mat |-> "m2"]

\* The runbook of the README: prepend the new key, wait, drop the old one.
PrependDrop == << <<K1>>, <<K2, K1>>, <<K2>> >>
\* The same with a stage in which every replica learns the new key before any
\* replica signs with it.
LearnPrependDrop == << <<K1>>, <<K1, K2>>, <<K2, K1>>, <<K2>> >>

InStep   == [r \in Replicas |-> 0]
OneAhead == [r \in Replicas |-> IF r = 1 THEN 1 ELSE 0]
MCKIDs == {"k1", "k2"}
MCMaterials == {"m1", "m2"}
=============================================================================
