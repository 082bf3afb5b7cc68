---------------------------- MODULE MCInfoDisplay ----------------------------
(* Few contexts and few ticks, of which every interleaving of the two      *)
(* threads is explored.  All values are in the .cfg files.                 *)
EXTENDS InfoDisplay
=============================================================================
