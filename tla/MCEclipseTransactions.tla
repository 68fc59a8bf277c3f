----------------------- MODULE MCEclipseTransactions -----------------------
(***************************************************************************)
(* Small instances of EclipseTransactions.                                 *)
(***************************************************************************)
EXTENDS EclipseTransactionsProperties, TLC

=============================================================================
