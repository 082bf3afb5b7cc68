-------------------------- MODULE InfoDisplayProofs --------------------------
(***************************************************************************)
(* Proofs about the live display, for any number of contexts and ticks and *)
(* every interleaving of the two threads.                                  *)
(***************************************************************************)
EXTENDS InfoDisplay, TLAPS

\* What the GUI thread is doing fixes what exists: outside its event loop the
\* timer is off, and each step of destroyModbus() has undone its part.
ContextOfPhase ==
  /\ gui \notin {"idle", "refresh"} => ~timer
  /\ gui \in {"connect", "close", "free"} => mb \in live
  /\ gui \in {"connect", "free", "null", "delete", "gone"} => connected = {}
  /\ gui = "null" => live = {} /\ mb # NULL
  /\ gui \in {"delete", "gone"} => mb = NULL
  /\ mb # NULL /\ gui # "null" => mb \in live
  /\ gui = "refresh" => refreshes > 0

\* The reads of the round in progress that have not returned.
Left == CASE worker = "bits" -> 3 [] worker = "registers" -> 2
          [] worker = "id" -> 1 [] worker = "idle" -> 0

\* A read that knows a context that is gone has used none since mb was cleared,
\* and the next one will not know it.  Nothing new begins once the worker's
\* object is deleted.
UsesLeft ==
  /\ ~Busy => ctx = NoCall
  /\ lateUses <= 1
  /\ ~crashed /\ lateUses > 0 /\ gui # "null" => ctx \in live \cup {NULL, NoCall}
  /\ gui # "gone" => orphanUses = 0
  /\ gui = "gone" => requests = 0 /\ (~crashed => orphanUses + Left <= 3)
  /\ orphanUses <= 3

\* The shared part of the invariant: types, contexts, what is freed.
ContextInv == /\ TypeOK /\ OneRequestPerTick /\ NoContextLost
              /\ ContextOfPhase /\ UsesLeft

\* The parts of a round that were read are in the buffer, and what the screen
\* does not show of it a refresh will bring.
DataInv ==
  /\ worker \in {"registers", "id"} /\ clean => buffer["bits"] = round
  /\ worker = "id" /\ clean => buffer["registers"] = round
  /\ ~Busy /\ clean => \A p \in Part : buffer[p] = round
  /\ ~Busy /\ refreshes = 0 => shown = buffer
  /\ gui = "refresh" /\ ~Busy /\ refreshes = 1 =>
       shown["registers"] = buffer["registers"] /\ shown["id"] = buffer["id"]

Inductive == ContextInv /\ DataInv

-----------------------------------------------------------------------------

\* The display starts in it.
LEMMA InitOK == Init => Inductive
<1> SUFFICES ASSUME Init PROVE Inductive
  OBVIOUS
<1> USE DEF Init, Busy, NULL, NoCall, Part
<1>1. buffer \in [Part -> Nat] /\ shown \in [Part -> Nat]
  OBVIOUS
<1>2. TypeOK
  BY <1>1 DEF TypeOK
<1>3. OneRequestPerTick /\ NoContextLost /\ ContextOfPhase /\ UsesLeft
  BY DEF OneRequestPerTick, NoContextLost, ContextOfPhase, UsesLeft
<1>4. DataInv
  BY DEF DataInv
<1> QED BY <1>2, <1>3, <1>4 DEF Inductive, ContextInv

-----------------------------------------------------------------------------
(* Contexts, and what is freed *)

\* The user's steps keep the contexts in order.
LEMMA UserContext == ContextInv /\ User => ContextInv'
<1> SUFFICES ASSUME ContextInv, User PROVE ContextInv'
  OBVIOUS
<1> USE DEF ContextInv, Busy, NULL, NoCall, Part, At, screen, working, shared
<1>1. CASE play
  <2>1. TypeOK'
    BY <1>1 DEF play, TypeOK, ContextOfPhase, UsesLeft, uses
  <2>2. OneRequestPerTick' /\ NoContextLost' /\ ContextOfPhase'
    BY <1>1 DEF play, TypeOK, OneRequestPerTick, NoContextLost, ContextOfPhase
  <2>3. UsesLeft'
    BY <1>1 DEF play, TypeOK, UsesLeft, Left, NoContextLost, ContextOfPhase, uses
  <2> QED BY <2>1, <2>2, <2>3
<1>2. CASE stop(FALSE)
  <2>1. TypeOK'
    BY <1>2 DEF stop, TypeOK, ContextOfPhase, UsesLeft, uses
  <2>2. OneRequestPerTick' /\ NoContextLost' /\ ContextOfPhase'
    BY <1>2 DEF stop, TypeOK, OneRequestPerTick, NoContextLost, ContextOfPhase
  <2>3. UsesLeft'
    BY <1>2 DEF stop, TypeOK, UsesLeft, Left, NoContextLost, ContextOfPhase, uses
  <2> QED BY <2>1, <2>2, <2>3
<1>3. CASE stop(TRUE)
  <2>1. TypeOK'
    BY <1>3 DEF stop, TypeOK, ContextOfPhase, UsesLeft, uses
  <2>2. OneRequestPerTick' /\ NoContextLost' /\ ContextOfPhase'
    BY <1>3 DEF stop, TypeOK, OneRequestPerTick, NoContextLost, ContextOfPhase
  <2>3. UsesLeft'
    BY <1>3 DEF stop, TypeOK, UsesLeft, Left, NoContextLost, ContextOfPhase, uses
  <2> QED BY <2>1, <2>2, <2>3
<1> QED BY <1>1, <1>2, <1>3 DEF User

\* So do the GUI thread's own.
LEMMA GuiContext == ContextInv /\ Gui => ContextInv'
<1> SUFFICES ASSUME ContextInv, Gui PROVE ContextInv'
  OBVIOUS
<1> USE DEF ContextInv, Busy, NULL, NoCall, Part, At, screen,
            working, shared, timing
<1>1. CASE connectModbus
  <2>1. TypeOK'
    BY <1>1 DEF connectModbus, TypeOK, ContextOfPhase, UsesLeft, uses
  <2>2. OneRequestPerTick' /\ NoContextLost' /\ ContextOfPhase'
    BY <1>1 DEF connectModbus, TypeOK, OneRequestPerTick, NoContextLost, ContextOfPhase
  <2>3. UsesLeft'
    BY <1>1 DEF connectModbus, TypeOK, UsesLeft, Left, NoContextLost, ContextOfPhase, uses
  <2> QED BY <2>1, <2>2, <2>3
<1>2. CASE connectFails
  <2>1. TypeOK'
    BY <1>2 DEF connectFails, TypeOK, ContextOfPhase, UsesLeft, uses
  <2>2. OneRequestPerTick' /\ NoContextLost' /\ ContextOfPhase'
    BY <1>2 DEF connectFails, TypeOK, OneRequestPerTick, NoContextLost, ContextOfPhase
  <2>3. UsesLeft'
    BY <1>2 DEF connectFails, TypeOK, UsesLeft, Left, NoContextLost, ContextOfPhase, uses
  <2> QED BY <2>1, <2>2, <2>3
<1>3. CASE closeModbus
  <2>1. TypeOK'
    BY <1>3 DEF closeModbus, TypeOK, ContextOfPhase, UsesLeft, uses
  <2>2. OneRequestPerTick' /\ NoContextLost' /\ ContextOfPhase'
    BY <1>3 DEF closeModbus, TypeOK, OneRequestPerTick, NoContextLost, ContextOfPhase
  <2>3. UsesLeft'
    BY <1>3 DEF closeModbus, TypeOK, UsesLeft, Left, NoContextLost, ContextOfPhase, uses
  <2> QED BY <2>1, <2>2, <2>3
<1>4. CASE freeModbus
  <2>1. TypeOK'
    BY <1>4 DEF freeModbus, TypeOK, ContextOfPhase, UsesLeft, uses
  <2>2. OneRequestPerTick' /\ NoContextLost' /\ ContextOfPhase'
    BY <1>4 DEF freeModbus, TypeOK, OneRequestPerTick, NoContextLost, ContextOfPhase
  <2>3. UsesLeft'
    BY <1>4 DEF freeModbus, TypeOK, UsesLeft, Left, NoContextLost, ContextOfPhase, uses
  <2> QED BY <2>1, <2>2, <2>3
<1>5. CASE clearModbus
  <2>1. TypeOK'
    BY <1>5 DEF clearModbus, TypeOK, ContextOfPhase, UsesLeft, uses
  <2>2. OneRequestPerTick' /\ NoContextLost' /\ ContextOfPhase'
    BY <1>5 DEF clearModbus, TypeOK, OneRequestPerTick, NoContextLost, ContextOfPhase
  <2>3. UsesLeft'
    BY <1>5 DEF clearModbus, TypeOK, UsesLeft, Left, NoContextLost, ContextOfPhase, uses
  <2> QED BY <2>1, <2>2, <2>3
<1>6. CASE deleteHelper
  <2>1. TypeOK'
    BY <1>6 DEF deleteHelper, TypeOK, ContextOfPhase, UsesLeft, uses
  <2>2. OneRequestPerTick' /\ NoContextLost' /\ ContextOfPhase'
    BY <1>6 DEF deleteHelper, TypeOK, OneRequestPerTick, NoContextLost, ContextOfPhase
  <2>3. UsesLeft'
    BY <1>6 DEF deleteHelper, TypeOK, UsesLeft, Left, NoContextLost, ContextOfPhase, uses
  <2> QED BY <2>1, <2>2, <2>3
<1>7. CASE refreshCopy
  <2>1. TypeOK'
    BY <1>7 DEF refreshCopy, TypeOK, ContextOfPhase, UsesLeft, uses
  <2>2. OneRequestPerTick' /\ NoContextLost' /\ ContextOfPhase'
    BY <1>7 DEF refreshCopy, TypeOK, OneRequestPerTick, NoContextLost, ContextOfPhase
  <2>3. UsesLeft'
    BY <1>7 DEF refreshCopy, TypeOK, UsesLeft, Left, NoContextLost, ContextOfPhase, uses
  <2> QED BY <2>1, <2>2, <2>3
<1>8. CASE refreshBits
  <2>1. TypeOK'
    BY <1>8 DEF refreshBits, TypeOK, ContextOfPhase, UsesLeft, uses
  <2>2. OneRequestPerTick' /\ NoContextLost' /\ ContextOfPhase'
    BY <1>8 DEF refreshBits, TypeOK, OneRequestPerTick, NoContextLost, ContextOfPhase
  <2>3. UsesLeft'
    BY <1>8 DEF refreshBits, TypeOK, UsesLeft, Left, NoContextLost, ContextOfPhase, uses
  <2> QED BY <2>1, <2>2, <2>3
<1> QED BY <1>1, <1>2, <1>3, <1>4, <1>5, <1>6, <1>7, <1>8 DEF Gui

\* So do the ticks and the worker.
LEMMA WorkerContext == ContextInv /\ (tick \/ Worker) => ContextInv'
<1> SUFFICES ASSUME ContextInv, tick \/ Worker PROVE ContextInv'
  OBVIOUS
<1> USE DEF ContextInv, Busy, NULL, NoCall, Part, At, screen,
            working, shared, timing
<1>1. CASE tick
  <2>1. TypeOK'
    BY <1>1 DEF tick, TypeOK, ContextOfPhase, UsesLeft, uses
  <2>2. OneRequestPerTick' /\ NoContextLost' /\ ContextOfPhase'
    BY <1>1 DEF tick, TypeOK, OneRequestPerTick, NoContextLost, ContextOfPhase
  <2>3. UsesLeft'
    BY <1>1 DEF tick, TypeOK, UsesLeft, Left, NoContextLost, ContextOfPhase, uses
  <2> QED BY <2>1, <2>2, <2>3
<1>2. CASE rtuRead
  <2>1. TypeOK'
    <3>1. requests' \in Nat /\ UNCHANGED <<shared, timing, gui, screen, uses, crashed>>
      BY <1>2 DEF rtuRead, TypeOK
    <3>2. worker' \in Part \cup {"idle"} /\ ctx' \in Nat \cup {NoCall}
          /\ buffer' \in [Part -> Nat] /\ round' \in Nat /\ clean' \in BOOLEAN
      <4>1. CASE mb = NULL
        <5>1. UNCHANGED working
          BY <1>2, <4>1 DEF rtuRead
        <5> QED BY <5>1 DEF TypeOK
      <4>2. CASE mb # NULL
        BY <1>2, <4>2 DEF rtuRead, TypeOK
      <4> QED BY <4>1, <4>2
    <3> QED BY <3>1, <3>2 DEF TypeOK, uses
  <2>2. OneRequestPerTick' /\ NoContextLost' /\ ContextOfPhase'
    BY <1>2 DEF rtuRead, TypeOK, OneRequestPerTick, NoContextLost, ContextOfPhase
  <2>3. UsesLeft'
    BY <1>2 DEF rtuRead, TypeOK, UsesLeft, Left, NoContextLost, ContextOfPhase, uses
  <2> QED BY <2>1, <2>2, <2>3
<1>3. CASE beginRead
  <2>1. TypeOK'
    BY <1>3 DEF beginRead, TypeOK, ContextOfPhase, UsesLeft, uses
  <2>2. OneRequestPerTick' /\ NoContextLost' /\ ContextOfPhase'
    BY <1>3 DEF beginRead, TypeOK, OneRequestPerTick, NoContextLost, ContextOfPhase
  <2>3. UsesLeft'
    BY <1>3 DEF beginRead, TypeOK, UsesLeft, Left, NoContextLost, ContextOfPhase, uses
  <2> QED BY <2>1, <2>2, <2>3
<1>4. CASE endRead
  <2>1. PICK ok \in BOOLEAN : Return(ok)
    BY <1>4 DEF endRead
  <2>2. NextRead(worker, ok) \in Part \cup {"idle"}
    BY DEF NextRead
  <2>3. TypeOK'
    BY <1>4, <2>1, <2>2 DEF endRead, Return, CountUses, TypeOK
  <2>4. OneRequestPerTick' /\ NoContextLost' /\ ContextOfPhase'
    BY <1>4, <2>1
       DEF endRead, Return, TypeOK, OneRequestPerTick, NoContextLost, ContextOfPhase
  <2>5. UsesLeft'
    BY <1>4, <2>1 DEF endRead, Return, NextRead, CountUses, FreedContext, DeletedWorker,
       UsesLeft, Left, TypeOK
  <2> QED BY <2>3, <2>4, <2>5
<1>5. CASE crash
  <2>1. TypeOK'
    BY <1>5 DEF crash, CountUses, TypeOK, ContextOfPhase, UsesLeft, uses
  <2>2. OneRequestPerTick' /\ NoContextLost' /\ ContextOfPhase'
    BY <1>5 DEF crash, TypeOK, OneRequestPerTick, NoContextLost, ContextOfPhase
  <2>3. UsesLeft'
    BY <1>5 DEF crash, CountUses, FreedContext, DeletedWorker, TypeOK, UsesLeft, Left, NoContextLost, ContextOfPhase, uses
  <2> QED BY <2>1, <2>2, <2>3
<1> QED BY <1>1, <1>2, <1>3, <1>4, <1>5 DEF Worker

\* Every step keeps the contexts in order.
LEMMA ContextStep == ContextInv /\ [Next]_vars => ContextInv'
<1> SUFFICES ASSUME ContextInv, [Next]_vars PROVE ContextInv'
  OBVIOUS
<1>1. CASE UNCHANGED vars
  <2> USE <1>1 DEF ContextInv, Busy, vars, shared, timing, screen, working, uses
  <2>1. TypeOK' /\ OneRequestPerTick'
    BY DEF TypeOK, OneRequestPerTick
  <2>2. NoContextLost' /\ ContextOfPhase'
    BY DEF NoContextLost, ContextOfPhase
  <2>3. UsesLeft'
    BY DEF UsesLeft, Left
  <2> QED BY <2>1, <2>2, <2>3
<1> QED BY <1>1, UserContext, GuiContext, WorkerContext DEF Next

-----------------------------------------------------------------------------
(* Data *)

\* A step that leaves the data alone, and does not begin a refresh.
LEMMA DataKept ==
  ASSUME DataInv, UNCHANGED <<screen, working>>, gui' # "refresh"
  PROVE  DataInv'
BY DEF DataInv, screen, working, Busy

\* Every step brings a round on.
LEMMA DataStep == ContextInv /\ DataInv /\ [Next]_vars => DataInv'
<1> SUFFICES ASSUME ContextInv, DataInv, [Next]_vars PROVE DataInv'
  OBVIOUS
<1>0. /\ refreshes \in Nat /\ buffer \in [Part -> Nat] /\ shown \in [Part -> Nat]
      /\ worker \in Part \cup {"idle"} /\ (gui = "refresh" => refreshes > 0)
      /\ clean \in BOOLEAN
  BY DEF ContextInv, TypeOK, ContextOfPhase
<1>1. CASE UNCHANGED vars
  BY <1>1 DEF DataInv, vars, screen, working, Busy
<1>2. CASE User
  BY <1>2, DataKept DEF User, play, stop
<1>3. CASE connectModbus \/ connectFails \/ closeModbus \/ freeModbus \/ clearModbus
           \/ deleteHelper
  BY <1>3, DataKept
     DEF connectModbus, connectFails, closeModbus, freeModbus, clearModbus, deleteHelper
<1>4. CASE tick
  BY <1>4, DataKept DEF tick, At
<1>5. CASE crash \/ beginRead
  BY <1>5 DEF crash, beginRead, DataInv, screen, working, Busy
<1>6. CASE refreshCopy
  BY <1>0, <1>6 DEF refreshCopy, DataInv, working, Busy, Part
<1>7. CASE refreshBits
  <2>1. UNCHANGED working /\ refreshes' = refreshes - 1 /\ gui' = "idle"
        /\ gui = "refresh" /\ shown' = [shown EXCEPT !["bits"] = buffer["bits"]]
    BY <1>7 DEF refreshBits, At
  <2>2. ~Busy /\ refreshes' = 0 => shown' = buffer
    <3> SUFFICES ASSUME ~Busy, refreshes' = 0 PROVE shown' = buffer
      OBVIOUS
    <3>1. refreshes = 1
      BY <1>0, <2>1
    <3>2. shown["registers"] = buffer["registers"] /\ shown["id"] = buffer["id"]
      BY <2>1, <3>1 DEF DataInv
    <3>3. \A p \in Part : shown'[p] = buffer[p]
      BY <1>0, <2>1, <3>2 DEF Part
    <3>4. shown' \in [Part -> Nat]
      BY <1>0, <2>1 DEF Part
    <3> QED BY <1>0, <3>3, <3>4
  <2> QED BY <2>1, <2>2 DEF DataInv, working, Busy
<1>8. CASE rtuRead
  BY <1>8 DEF rtuRead, DataInv, screen, working, Busy
<1>9. CASE endRead
  <2>1. PICK ok \in BOOLEAN : Return(ok)
    BY <1>9 DEF endRead
  <2>2. /\ \/ worker = "bits" /\ worker' = "registers"
           \/ worker = "registers" /\ worker' = "id"
           \/ worker = "id" /\ worker' = "idle"
        /\ UNCHANGED <<round, shown, gui>> /\ clean' = (clean /\ ok)
        /\ refreshes' = IF worker' = "idle" THEN refreshes + 1 ELSE refreshes
    BY <1>0, <1>9, <2>1 DEF endRead, Return, NextRead, Busy, Part
  <2>3. clean' => buffer' = [buffer EXCEPT ![worker] = round]
    BY <2>1, <2>2 DEF Return
  <2>4. /\ worker' \in {"registers", "id"} /\ clean' => buffer'["bits"] = round
        /\ worker' = "id" /\ clean' => buffer'["registers"] = round
        /\ worker' = "idle" /\ clean' => \A p \in Part : buffer'[p] = round
    BY <1>0, <2>2, <2>3 DEF DataInv, Part
  <2>5. /\ worker' = "idle" => refreshes' # 0
        /\ worker' = "idle" /\ gui' = "refresh" => refreshes' # 1
    BY <1>0, <2>2
  <2> QED BY <2>2, <2>4, <2>5 DEF DataInv, Busy
<1> QED BY <1>1, <1>2, <1>3, <1>4, <1>5, <1>6, <1>7, <1>8, <1>9 DEF Next, Gui, Worker

-----------------------------------------------------------------------------
(* Theorems *)

\* Every step keeps the invariant.
LEMMA InductiveStep == Inductive /\ [Next]_vars => Inductive'
BY ContextStep, DataStep DEF Inductive

\* The inductive invariant holds in every state of the display.
THEOREM DisplayInvariant == Spec => []Inductive
<1> QED BY InitOK, InductiveStep, PTL DEF Spec

\* The types hold in every state.
THEOREM DisplayTypes == Spec => []TypeOK
<1>1. Inductive => TypeOK
  BY DEF Inductive, ContextInv
<1> QED BY <1>1, DisplayInvariant, PTL

\* A tick sends one request, however the buttons are pressed.
THEOREM TickSendsOne == Spec => []OneRequestPerTick
<1>1. Inductive => OneRequestPerTick
  BY DEF Inductive, ContextInv
<1> QED BY <1>1, DisplayInvariant, PTL

\* Every context that exists is the one that the next stop frees.
THEOREM ContextsAreFreed == Spec => []NoContextLost
<1>1. Inductive => NoContextLost
  BY DEF Inductive, ContextInv
<1> QED BY <1>1, DisplayInvariant, PTL

\* A freed context is used by one read at most after mb was cleared, however the
\* threads interleave, and the deleted worker by the three reads of one round at
\* most.  (Between modbus_free() and mb = NULL the uses have no bound.)
THEOREM FreedUseEnds == Spec => []FreedUseIsBounded
<1>1. Inductive => FreedUseIsBounded
  BY DEF Inductive, ContextInv, UsesLeft, FreedUseIsBounded
<1> QED BY <1>1, DisplayInvariant, PTL

\* When no refresh is left to handle, the screen shows one reading.
THEOREM RefreshesComplete == Spec => []ScreenSettles
<1>1. Inductive => ScreenSettles
  BY DEF Inductive, DataInv, ScreenSettles
<1> QED BY <1>1, DisplayInvariant, PTL
=============================================================================
