---------------------------- MODULE MCAccountAuth ----------------------------
\* Instances of AccountAuth for TLC.
EXTENDS AccountAuth, TLC

\* Nothing tells one driver instance from another.
InstanceSymmetry == Permutations(Instances)
=============================================================================
