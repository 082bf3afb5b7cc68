------------------------- MODULE MCCostumTranReceive -------------------------
(* Short records: a header of two bytes, a body of one or more, a tail.    *)
(* All values are in the .cfg files.                                       *)
EXTENDS CostumTranReceive
=============================================================================
