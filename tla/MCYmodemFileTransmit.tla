------------------------ MODULE MCYmodemFileTransmit ------------------------
(* Small values for the model checker: the peer may say anything that the  *)
(* stage functions tell apart, and a packet that is cut short.             *)
EXTENDS YmodemFileTransmit

MCHeard == {Ctl(c)[1] : c \in {"C", "Ack", "Nak", "Can", "Soh"}}
=============================================================================
