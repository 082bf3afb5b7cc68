---------------------------- MODULE MCSerialPorts ----------------------------
(* Two ports, one of them with the longer name; or one port.               *)
EXTENDS SerialPorts

COM3  == <<3>>
COM10 == <<1, 0>>

MCNames   == {COM3, COM10}
MCOneName == {COM3}
=============================================================================
