----------------------------- MODULE MCTxStore ------------------------------
(***************************************************************************)
(* Instances of TxStore with two clients.                                  *)
(***************************************************************************)
EXTENDS TxStore
CONSTANTS c1, c2
=============================================================================
