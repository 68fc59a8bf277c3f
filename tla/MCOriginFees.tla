---------------------------- MODULE MCOriginFees ----------------------------
EXTENDS OriginFeesProperties, TLC

Symmetry == Permutations(Accounts)

=============================================================================
