--------------------------- MODULE MCReceiptLedger ---------------------------
(* Which runs meet on one scope.                                              *)
EXTENDS ReceiptLedger, TLC

(* A pruning run whose uuid sorts before the formation run's.                 *)
Pair == 1 :> "sweep" @@ 2 :> "formation"
==============================================================================
