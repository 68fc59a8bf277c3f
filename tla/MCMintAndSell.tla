---------------------------- MODULE MCMintAndSell ----------------------------
EXTENDS MintAndSellProperties, TLC

CONSTANTS c1, c2, t1, t2

\* the same id or two of them; which one the first call gets makes no difference
MCIds == (c1 :> {t1}) @@ (c2 :> {t1, t2})

=============================================================================
