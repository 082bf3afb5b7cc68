---------------------------- MODULE MCYmodemLink ----------------------------
(* The link for the model checker.  The packets are 1 and 2 or 3 bytes, so *)
(* that a file takes a short last packet, a long one, or both kinds; the   *)
(* numbers wrap at 3 or 4, so that the largest file wraps them.  With      *)
(* faults a packet of SOH, the header among them, takes three units: when  *)
(* the first is lost, the other two are read as codes.                     *)
EXTENDS YmodemLink
=============================================================================
