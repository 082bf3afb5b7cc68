------------------------- MODULE MCYmodemFileReceive ------------------------
(* Small values for the model checker: headers that announce an empty and  *)
(* a non-empty file, short and long data packets with the first numbers,   *)
(* the closing packet, a long packet of which a part is missing, and every *)
(* control code that the stage functions tell apart.                       *)
EXTENDS YmodemFileReceive

P(kind, num, what, from, n) ==
  [kind |-> kind, num |-> num, what |-> what, from |-> from, n |-> n]

MCPackets == {P("Soh", 0, "info", 0, 0), P("Soh", 0, "info", 0, 3),
              P("Soh", 0, "data", 6, 1),
              P("Soh", 1, "data", 0, 1), P("Stx", 1, "data", 0, 2),
              P("Stx", 2, "data", 2, 2), P("Soh", 0, "zero", 0, 0)}
MCUnits(packets) ==
  UNION {{Wire(p)[i] : i \in DOMAIN Wire(p)} : p \in packets}
MCHeard == MCUnits(MCPackets) \cup {Ctl(c)[1] : c \in {"Eot", "Can"}}
=============================================================================
