-------------------------- MODULE MCFileReceiptStore --------------------------
(* Instance of FileReceiptStore for TLC.                                   *)
EXTENDS FileStoreRefinement

CONSTANTS Fitting, Oversize   \* references to a checkpoint

(* A captured receipt meets the limit exactly or exceeds it by one.        *)
Length(receipt) ==
  CASE receipt.checkpoint = Fitting -> 2
    [] receipt.checkpoint = Oversize -> 3
    [] OTHER -> 1
=============================================================================
