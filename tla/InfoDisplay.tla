----------------------------- MODULE InfoDisplay -----------------------------
(***************************************************************************)
(* The live display: InfoDispaly (src/info_display/infodisplay.cpp) on the *)
(* GUI thread and ModbusHelper (modbushelper.cpp) on a thread of its own.  *)
(*                                                                         *)
(* The two share, without a lock, the static pointer ModbusHelper::mb and  *)
(* the worker's buffer; requests and refreshes travel through the threads' *)
(* event queues.  Every read or write of what is shared, and every call of *)
(* libmodbus, is a step of its own.                                        *)
(*                                                                         *)
(* A context is a number; 0 is NULL.  The data is abstracted to the number *)
(* of the round of reading it comes from.                                  *)
(***************************************************************************)
EXTENDS Integers

CONSTANTS
  MaxPlays,   \* bound: contexts made in a behaviour
  MaxTicks    \* bound: ticks of the 1.5 s timer in a behaviour

ASSUME DisplayAssumption == MaxPlays \in Nat /\ MaxTicks \in Nat

VARIABLES
  mb,           \* ModbusHelper::mb
  live,         \* the contexts made and not freed
  connected,    \* those of them that hold a port open
  plays,        \* contexts made so far
  timer,        \* the 1.5 s timer is active
  connections,  \* how often its timeout() is connected to rtuReadSig()
  gui,          \* what the GUI thread is doing
  closing,      \* the destructor runs
  requests,     \* rtuReadSig() in the queue of the worker
  ticks,        \* ticks so far
  worker,       \* what the worker is doing: nothing, or which read of a round
  ctx,          \* the context the read in progress was given
  buffer,       \* [part -> round its data is from]
  round,        \* rounds begun
  refreshes,    \* refreshCorePortectSig() in the GUI's queue
  shown,        \* [part -> round its data on the screen is from]
  clean,        \* history: all reads of the last round succeeded so far
  lateUses,     \* history: freed contexts used since mb was last cleared
  orphanUses,   \* history: reads that used the worker's object once deleted
  crashed       \* and the process died of it

shared   == <<mb, live, connected>>
timing   == <<timer, connections, ticks, plays, closing>>
screen   == <<refreshes, shown>>
working  == <<worker, ctx, buffer, round, clean>>
uses     == <<lateUses, orphanUses>>
vars     == <<shared, timing, gui, requests, screen, working, uses, crashed>>

NULL   == 0
NoCall == -1
Part   == {"bits", "registers", "id"}
Busy   == worker # "idle"

Init ==
  /\ mb = NULL /\ live = {} /\ connected = {} /\ plays = 0
  /\ timer = FALSE /\ connections = 0 /\ ticks = 0 /\ closing = FALSE
  /\ gui = "idle" /\ requests = 0
  /\ worker = "idle" /\ ctx = NoCall /\ round = 0 /\ clean = TRUE
  /\ buffer = [p \in Part |-> 0]
  /\ refreshes = 0 /\ shown = [p \in Part |-> 0]
  /\ lateUses = 0 /\ orphanUses = 0 /\ crashed = FALSE

-----------------------------------------------------------------------------
(* The GUI thread *)

At(g) == gui = g /\ ~crashed

\* play(), unless there is a context already: createModbus() makes one, and
\* the worker can see it before it is connected.  (When modbus_new_rtu()
\* fails nothing changes.)
play ==
  /\ At("idle") /\ mb = NULL /\ plays < MaxPlays
  /\ plays' = plays + 1
  /\ mb' = plays + 1 /\ live' = live \cup {plays + 1}
  /\ gui' = "connect"
  /\ UNCHANGED <<connected, timer, connections, ticks, closing, requests, screen, working,
                 uses, crashed>>

\* modbus_connect() succeeds: the timer starts and is connected.
connectModbus ==
  /\ At("connect") /\ gui' = "idle"
  /\ connected' = connected \cup {mb}
  /\ timer' = TRUE /\ connections' = connections + 1
  /\ UNCHANGED <<mb, live, ticks, plays, closing, requests, screen, working, uses, crashed>>

\* modbus_connect() fails: the context is freed again.
connectFails ==
  /\ At("connect") /\ gui' = "free"
  /\ UNCHANGED <<shared, timing, requests, screen, working, uses, crashed>>

\* Mutated form of stop: the timer is stopped but stays connected.
stopStaysConnected(quit) ==
  /\ At("idle") /\ closing' = quit
  /\ timer' = FALSE /\ UNCHANGED connections
  /\ gui' = IF mb # NULL THEN "close" ELSE IF quit THEN "delete" ELSE "idle"
  /\ UNCHANGED <<shared, ticks, plays, requests, screen, working, uses, crashed>>

\* Mutated form of stop: one connection is undone, whether there is one or not.
stopUndoesOne(quit) ==
  /\ At("idle") /\ closing' = quit
  /\ timer' = FALSE /\ connections' = connections - 1
  /\ gui' = IF mb # NULL THEN "close" ELSE IF quit THEN "delete" ELSE "idle"
  /\ UNCHANGED <<shared, ticks, plays, requests, screen, working, uses, crashed>>

\* stop(), from the menu or (quit) from the destructor.  disconnect() undoes
\* every connection there is.
stop(quit) ==
  /\ At("idle") /\ closing' = quit
  /\ timer' = FALSE /\ connections' = 0
  /\ gui' = IF mb # NULL THEN "close" ELSE IF quit THEN "delete" ELSE "idle"
  /\ UNCHANGED <<shared, ticks, plays, requests, screen, working, uses, crashed>>

\* destroyModbus(): modbus_close(mb), modbus_free(mb), mb = NULL.
closeModbus ==
  /\ At("close") /\ gui' = "free"
  /\ connected' = connected \ {mb}
  /\ UNCHANGED <<mb, live, timing, requests, screen, working, uses, crashed>>

\* Mutated form of freeModbus: what was closed is not freed.
freeModbusLeaks ==
  /\ At("free") /\ gui' = "null"
  /\ UNCHANGED <<shared, timing, requests, screen, working, uses, crashed>>

freeModbus ==
  /\ At("free") /\ gui' = "null"
  /\ live' = live \ {mb}
  /\ UNCHANGED <<mb, connected, timing, requests, screen, working, uses, crashed>>

\* Mutated form of clearModbus: the pointer is left as it is.
clearModbusDangling ==
  /\ At("null") /\ gui' = IF closing THEN "delete" ELSE "idle"
  /\ lateUses' = 0
  /\ UNCHANGED <<shared, timing, requests, screen, working, orphanUses, crashed>>

clearModbus ==
  /\ At("null") /\ gui' = IF closing THEN "delete" ELSE "idle"
  /\ mb' = NULL
  /\ lateUses' = 0
  /\ UNCHANGED <<live, connected, timing, requests, screen, working, orphanUses, crashed>>

\* The destructor deletes the worker's object, and with it what is queued for
\* it; the thread is not stopped.
deleteHelper ==
  /\ At("delete") /\ gui' = "gone"
  /\ requests' = 0
  /\ UNCHANGED <<shared, timing, screen, working, uses, crashed>>

\* A tick: one rtuReadSig() for each connection.
tick ==
  /\ At("idle") /\ timer /\ ticks < MaxTicks
  /\ ticks' = ticks + 1
  /\ requests' = requests + connections
  /\ UNCHANGED <<shared, timer, connections, plays, closing, gui, screen, working,
                 uses, crashed>>

\* refreshCoreProtect(): the registers and the id are copied out of the
\* worker's buffer, then the bits are read in it.
refreshCopy ==
  /\ At("idle") /\ refreshes > 0 /\ gui' = "refresh"
  /\ shown' = [shown EXCEPT !["registers"] = buffer["registers"], !["id"] = buffer["id"]]
  /\ UNCHANGED <<shared, timing, requests, refreshes, working, uses, crashed>>

refreshBits ==
  /\ At("refresh") /\ gui' = "idle"
  /\ shown' = [shown EXCEPT !["bits"] = buffer["bits"]]
  /\ refreshes' = refreshes - 1
  /\ UNCHANGED <<shared, timing, requests, working, uses, crashed>>

-----------------------------------------------------------------------------
(* The worker's thread *)

\* A request is taken: rtuRead() goes on only if there is a context.
rtuRead ==
  /\ ~crashed /\ ~Busy /\ requests > 0
  /\ requests' = requests - 1
  /\ IF mb = NULL THEN UNCHANGED working
     ELSE /\ worker' = "bits" /\ round' = round + 1 /\ clean' = TRUE
          /\ UNCHANGED <<ctx, buffer>>
  /\ UNCHANGED <<shared, timing, gui, screen, uses, crashed>>

\* One of the three reads begins: mb is read once more for it.
beginRead ==
  /\ ~crashed /\ Busy /\ ctx = NoCall
  /\ ctx' = mb
  /\ UNCHANGED <<shared, timing, gui, requests, screen, worker, buffer, round, clean,
                 uses, crashed>>

\* Mutated form of NextRead: a read that failed is tried again.
NextReadRetries(read, ok) ==
  IF ~ok THEN read
  ELSE CASE read = "bits" -> "registers" [] read = "registers" -> "id" [] OTHER -> "idle"

\* Mutated form of NextRead: the id is not waited for.
NextReadSkipsId(read, ok) == IF read = "bits" THEN "registers" ELSE "idle"

\* The reads in their order, whatever the one before returned.
NextRead(read, ok) ==
  CASE read = "bits" -> "registers" [] read = "registers" -> "id" [] OTHER -> "idle"

\* It returns: with data, only through a connected context; or with -1, which
\* is ignored.  The last one emits the refresh.
Return(ok) ==
  /\ ok => ctx \in connected
  /\ worker' = NextRead(worker, ok) /\ ctx' = NoCall
  /\ buffer' = IF ok THEN [buffer EXCEPT ![worker] = round] ELSE buffer
  /\ clean' = (clean /\ ok)
  /\ refreshes' = IF worker' = "idle" THEN refreshes + 1 ELSE refreshes
  /\ UNCHANGED <<round, shown>>

\* The read uses its context, if it has one, and the worker's object.
FreedContext  == ctx \notin live \cup {NULL}
DeletedWorker == gui = "gone"

CountUses ==
  /\ lateUses' = IF FreedContext /\ gui # "null" THEN lateUses + 1 ELSE lateUses
  /\ orphanUses' = IF DeletedWorker THEN orphanUses + 1 ELSE orphanUses

endRead ==
  /\ ~crashed /\ Busy /\ ctx # NoCall
  /\ \E ok \in BOOLEAN : Return(ok)
  /\ CountUses
  /\ UNCHANGED <<shared, timing, gui, requests, crashed>>

\* A freed object was used, and it ended the process.
crash ==
  /\ ~crashed /\ Busy /\ ctx # NoCall /\ (FreedContext \/ DeletedWorker)
  /\ crashed' = TRUE
  /\ CountUses
  /\ UNCHANGED <<shared, timing, gui, requests, screen, working>>

-----------------------------------------------------------------------------

User   == play \/ stop(FALSE) \/ stop(TRUE)
Gui    == connectModbus \/ connectFails \/ closeModbus \/ freeModbus \/ clearModbus
          \/ deleteHelper \/ refreshCopy \/ refreshBits
Worker == rtuRead \/ beginRead \/ endRead \/ crash
Next   == User \/ Gui \/ tick \/ Worker

Spec == Init /\ [][Next]_vars

\* Both threads go on working: the event loops run, and every call of
\* libmodbus returns, at the latest after its response timeout.
FairSpec == Spec /\ WF_vars(Gui) /\ WF_vars(Worker)

-----------------------------------------------------------------------------
(* Properties *)

\* Every variable has its type.
TypeOK ==
  /\ mb \in Nat /\ live \subseteq 1 .. plays /\ connected \subseteq 1 .. plays
  /\ plays \in Nat /\ timer \in BOOLEAN /\ connections \in Nat /\ ticks \in Nat
  /\ gui \in {"idle", "connect", "close", "free", "null", "refresh", "delete", "gone"}
  /\ closing \in BOOLEAN /\ requests \in Nat
  /\ worker \in Part \cup {"idle"} /\ ctx \in Nat \cup {NoCall}
  /\ buffer \in [Part -> Nat] /\ round \in Nat /\ clean \in BOOLEAN
  /\ refreshes \in Nat /\ shown \in [Part -> Nat]
  /\ lateUses \in Nat /\ orphanUses \in Nat /\ crashed \in BOOLEAN

\* However play and stop are pressed, a tick sends one request and never
\* more, and ticks come only while there is a context (play, stop).
OneRequestPerTick ==
  /\ connections = IF timer THEN 1 ELSE 0
  /\ timer => mb # NULL

\* No context is lost: what exists is what mb points to, so that a port that
\* is open can be closed, and is opened only once, as createModbus() says it
\* must be (createModbus, destroyModbus).
NoContextLost == live \subseteq {mb} /\ connected \subseteq live

\* How long what is freed goes on being used, without a lock: once mb is NULL,
\* by the read in progress and no other; and the worker's object, once deleted,
\* by the round in progress and no other (destroyModbus, rtuRead, ~InfoDispaly).
\* Between modbus_free() and mb = NULL (infodisplay.cpp:254-255) nothing bounds
\* the uses: rounds that begin there use the freed context as well, and are not
\* counted.
FreedUseIsBounded == lateUses <= 1 /\ orphanUses <= 3

\* When no round runs and no refresh waits, the screen shows what the worker
\* holds, and if the last round's reads succeeded that is this round, all of
\* it.  Before, it may show parts of two rounds: the window copies from the
\* buffer that the worker writes (rtuRead, refreshCoreProtect).
ScreenSettles ==
  ~Busy /\ refreshes = 0 => shown = buffer /\ (clean => \A p \in Part : buffer[p] = round)

\* When the display is stopped for good it comes to rest: the requests and
\* refreshes left are worked off, whether the device answers or not, unless a
\* freed context ended the process.
StoppedComesToRest ==
  <>[]~timer => <>(crashed \/ [](requests = 0 /\ ~Busy /\ (refreshes = 0 \/ gui = "gone")))
=============================================================================
