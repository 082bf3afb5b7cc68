---------------------------- MODULE FileTransfer ----------------------------
(***************************************************************************)
(* What a transfer promises the person at the receiving end: the file that *)
(* grows on disk is at every moment a beginning of the file that is sent,  *)
(* it is reported as received only when it is all there, and a report is   *)
(* not changed any more except by cancelling.  YmodemLink keeps the        *)
(* promise over a cable that delivers what it is given, however late.      *)
(***************************************************************************)
EXTENDS Naturals, Sequences

CONSTANT FileSizes   \* the sizes of the files that are sent

VARIABLES
  size,       \* the size of the file
  delivered,  \* what is on disk at the receiving end, byte by byte
  outcome     \* what the receiving end reports

vars == <<size, delivered, outcome>>

FirstBytes(n) == [i \in 1 .. n |-> i]
Outcomes      == {"Open", "Received", "Failed"}

Init == size = 0 /\ delivered = <<>> /\ outcome = "Open"

\* The sending side opens its file: before any of it arrives, but perhaps after
\* the receiving side has given up.
Announce == /\ delivered = <<>> /\ outcome # "Received"
            /\ size' \in FileSizes
            /\ UNCHANGED <<delivered, outcome>>

Deliver == /\ outcome = "Open"
           /\ \E n \in Len(delivered) + 1 .. size : delivered' = FirstBytes(n)
           /\ UNCHANGED <<size, outcome>>

ReportReceived == /\ outcome = "Open"
                  /\ delivered = FirstBytes(size)
                  /\ outcome' = "Received"
                  /\ UNCHANGED <<size, delivered>>

\* The transfer fails, or is cancelled; even a report may be cancelled while
\* it is not on the screen yet.
Fail == /\ outcome # "Failed"
        /\ outcome' = "Failed"
        /\ UNCHANGED <<size, delivered>>

Next == Announce \/ Deliver \/ ReportReceived \/ Fail

Spec == Init /\ [][Next]_vars
=============================================================================
