# A verification of bms_tool_alpha in TLA+

`bms_tool_alpha` is a Qt program for a battery management system on a serial
port: it updates the device's firmware and receives files with YMODEM, exports
alarm and data records with a protocol of its own, and shows live values that it
reads with Modbus. This directory holds the TLA+ model of the program, the TLC
configurations that check it and the TLAPS proofs about it.

## 1. The system

| Component | Source | State | Operations |
|---|---|---|---|
| YMODEM engine | `ymodem/Ymodem.*` | `stage`, `code`, `rxBuffer`/`rxLength`, `txBuffer`/`txLength`, `timeCount`, `errorCount`, `dataCount` | `receive()`, `transmit()`, `abort()`; `receivePacket()` and six stage functions for each direction |
| File transmitter | `ymodem/YmodemFileTransmit.*` | `file`, `fileSize`, `fileCount`, `status`, `readTimer` (10 ms), `writeTimer` (100 ms), its own serial port | `startTransmit()`, `stopTransmit()`, `readTimeOut()`, `writeTimeOut()`, `callback()` |
| File receiver | `ymodem/YmodemFileReceive.*` | the same, for a file that is written | `startReceive()`, `stopReceive()`, `readTimeOut()`, `writeTimeOut()`, `callback()` |
| YMODEM page | `ymodem/ymodem_ui.*` | `transmitButtonStatus`, `receiveButtonStatus`, a port, the 100 ms restart timer | the two buttons, `transmitStatus()`, `receiveStatus()`, the restart sequence of `on_btn_start_update_clicked()` |
| Custom transfer engine | `costum_tran/CostumTran.*` | the engine's fields, `mode`, `controlNumCount` | `receive()`, `abort()`, `receivePacket()`; a `transmit()` that nobody calls |
| Custom transfer sessions | `costum_tran/CostumTranReceive.*`, `costum_tran_ui.*` | `status`, two timers, a port, the flags of the two export buttons and which buttons are locked | export, cancel, browse, `readTimeOut()`, `writeTimeOut()`, `receiveStatus()` |
| Live display | `info_display/*` | the Modbus context `mb` (static), a 1.5 s timer, a worker thread with a buffer, the two threads' event queues | `play()`, `stop()`, the destructor, the tick, `rtuRead()`, `refreshCoreProtect()` |
| Serial port helper | `serialport_helper/*` | one `QSerialPort` per object | `initPort()`, `openPort()`, `closePort()`, `setPort()` |
| Options, preferences | `options/*`, `preference/*` | `tool.ini`, the fields of the dialog | show, `updateOptions()`, reject |
| Main window | `widget.*`, `main.cpp` | the status line, the pages, the worker's thread | the options dialog, the three reporters of port states |

How they interact. Everything but `rtuRead()` runs on the GUI thread, so that a
timer slot or a click is one atomic step, except where the worker can look in
between (section 2, `InfoDisplay`). While a transfer lasts its adapter's
`readTimer` calls `transmit()` or `receive()` every 10 ms; the engine reads the
port, runs one stage function and calls back: `callback(StatusTransmit)` reads
the next block from the file or writes one to it, `callback(StatusFinish)` and
its like close the file, set `status` and arm `writeTimer`; `readTimer` is armed
again only while `status` says that the session goes on. 100 ms later
`writeTimeOut()` closes the port and signals the status to the page, which
unlocks its buttons and shows the message. An export works in the same way, with
records instead of packets. The display's timer sends a request to the worker's
thread, which makes three blocking reads and sends a refresh back. Options travel
by signals from the dialog to the pages, and from a page to its sessions.

What is hard. Each end of a YMODEM transfer runs its own retransmission clock, so
that an answer which is late is answered twice; ACK, NAK and C carry no number;
packets arrive in parts over many polls; the engine's state survives a session; a
cancel comes between any two timer events and leaves `readTimer` armed; a byte may
be lost or damaged and the rest of its packet is then read as control codes. A
record of the device has neither length nor checksum. The worker and the window
share a pointer and a buffer without a lock. Five objects own a port of their own
and learn of new options by different signals, or not at all. `PROJECT.json` lists
the hazards at their lines.

What makes each component correct:

* engine: its counters keep to the limits its parameters set, and start anew only
  when the session gets on or the peer asks for the header or EOT again; what is
  sent again is what the peer is to answer next; a packet read in part is never
  mixed with another; `stage + dataCount` is a stage;
* transmitter: success only after the whole file was read; file, port and timers
  belong to a session and end with it; an outcome is not overwritten;
* receiver: the file is a beginning of the file that is sent, each byte once and
  in order; never longer than announced; reported when it is complete;
* page: it is unlocked by every session in the end;
* export: what is accepted is one record of the kind that was asked for; a gap
  costs little; the record fits the buffer; a time out is told only when nothing
  came; the two buttons never share an engine;
* live display: one request per tick; no context is lost; once the pointer to a freed
  context is cleared one read at most still uses it; when no round runs and no refresh
  waits, the screen shows what was read last; a stop comes to rest;
* ports and options: what a page reports is what its session opens; accepted options
  are stored and set on both pages; a line that says open is true.

Not all of this holds of the program everywhere: section 3 says what does not, and where.

## 2. The modules

| Module | Models | Source |
|---|---|---|
| `Ymodem` | what both directions share: `receivePacket()`, the clock, the error counter, the ways to give up, and the life of a session (start, cancel, closing the port) | `Ymodem.cpp`, both adapters, `ymodem_ui.cpp` |
| `YmodemFileTransmit` | `transmit()` with its stage functions and the transmitter | `Ymodem.cpp:178-222, 1178-1760`, `YmodemFileTransmit.cpp` |
| `YmodemFileReceive` | `receive()` with its stage functions and the receiver, on a disk of limited room | `Ymodem.cpp:127-171, 347-1171`, `YmodemFileReceive.cpp` |
| `FileTransfer` | what a transfer promises to its user | the abstract specification |
| `YmodemLink` | a transmitter and a receiver joined by a cable | composes the two by INSTANCE |
| `CostumTran` | the engine of the export: packet reader, clock, the stages that are reached, `abort()` | `CostumTran.cpp` |
| `CostumTranReceive` | an export session with its page and the device | `CostumTranReceive.cpp`, `costum_tran_ui.cpp` |
| `InfoDisplay` | the window's thread and the Modbus worker | `infodisplay.cpp`, `modbushelper.cpp` |
| `SerialPorts` | who opens which port, with which parameters, and what the window says of it | `optionsdialog.cpp`, `preference.cpp`, `widget.cpp`, `serialporthelper.cpp`, the port functions of the pages |
| `YmodemProofs` | lemmas about what both directions share | |
| `YmodemFileTransmitProofs`, `YmodemFileReceiveProofs`, `CostumTranReceiveProofs`, `InfoDisplayProofs`, `SerialPortsProofs` | the theorems about the module of that name | |
| `YmodemLinkProofs` | the theorems about the link, whatever the cable does | |
| `YmodemLinkReliableProofs` | the refinement of `FileTransfer` on a cable that loses nothing | |
| `MC...` | small values for TLC | |

**YMODEM.** The variables carry the names of the fields. One call of
`readTimeOut()` is one action, `ReadTimeOut`: the packet is read, one stage
function runs with what was read, the adapter's `callback()` included, and the
timer is armed again or not. A stage function is an operator of the same name
that takes what `receivePacket()` returned; its disjuncts are the cases of the
`switch`. The parts the functions share are named once: `CountError` is every
`errorCount++; if(errorCount > errorMax) ... else ...`, `Tick` is every `default:`
branch, `Fail`, `Aborted` and `Reset` are the resets with and without CAN codes,
`Report` is `callback()` with a status that ends the session. `Start`, `Stop` and
`WriteTimeOut` are the clicks and the closing of the port, together with the slots
of the page. `ReadTimeOut` re-arms, `Arrive` and `Drain` are the outside.

A control code is one unit on the wire, a packet a few units (`SohUnits`,
`StxUnits`), of which the first is its SOH or STX; the constants of the cfgs make
packets whole (1 unit) or cut (2 and 3). A packet is a record of its number and
what it carries; the bytes of a file are their positions, so that order,
duplicates and padding can be told. crc16 is taken to tell damaged packets from
good ones. A data byte that is read as a code may be any of `StrayCodes`; `misread`
counts, as history of the link, those that the receiver took for EOT. The
divisions are kept where they decide something: the clock's, and
`fileCount * 100 / fileSize`, which kills the receiver for a data packet after a
header that announces 0 bytes (`Crash`, `Relaunch`). `DiskSize` is the room on the
receiver's disk; `file->write()` writes what fits and nobody asks how much it was.

*Late bytes.* `receivePacket` may find any number of the units on their way
arrived; units that are not there yet stay. That covers every delay, and every
way a packet can be split over polls. The one bound on it: while more than `OutMax`
units of a side's own are on the wire, the model lets no poll find nothing, nor a
cancel happen, nor another unit arrive. A clock therefore runs out at most
`OutMax + 1` units ahead of the peer; this keeps the channels finite.

*The order of the timers.* `WriteTimeOut` waits for `readTimer`: a timer of 10 ms
that was armed first is not overtaken by one of 100 ms. Without this order a
cancelled session could close the port before its last poll. The same holds for an
export.

**Export.** A record is a header of `!`, a body and a tail of `?`; a byte is the
kind and the number of its record and its position, so that a mixture of two
records can be told from one. `receivePacket` counts marks across polls and reads
`LEN - rxLength` bytes, with the wrap of the unsigned difference: what is read
behind the buffers (`Overruns`) ends the process. The device (external) sends records of the
kind it was asked for until it has no more, and may leave out up to `GapMax` bytes
of one. `taken`, `bad`, `whole` and `cut` are history: what was read since a header,
how many packets in a row were refused that held nothing but the kind that was asked
for, whether the last record that was accepted
was one of the device's, whether an export began on marks left from the one before.

**Live display.** `InfoDisplay` has steps as fine as the races need: `play()` makes
the context, then connects it; `destroyModbus()` closes, frees and clears it in three
steps; a read fetches `mb`, then runs. `gui` and `worker` say where each thread is. A
context is a number, data is the number of the round of reads it is from. A read that
uses something freed may go on or end the process (`crash`); such reads are counted as
history, `lateUses` for a context once `mb` was cleared and `orphanUses` for the
worker's own object once the window deleted it.

**Ports.** `SerialPorts` abstracts baud rate, data bits and parity to one value and
keeps what the code treats specially: the stop bits, which are stored and decoded
by different tables, the port's name, which is a sequence (it is copied without its
end), and the limits. `report` is history: what a page said when a session opened a
port, and what was opened. Stop bits and names are numbers and not strings because
the code compares or indexes them. The constant `Refuse` says whether a driver may
refuse a parameter of an open port.

## 3. What is checked

The runs are in `PROJECT.json`. All but `display` check for deadlock, which a
session that nobody ends would be; the display's program ends with its window.

| Run | Shows | Bounds |
|---|---|---|
| `transmit` | against any peer and any clicks: nothing of a session outlives it, the file is open when it is read, the counters keep to their limits and start anew only when the session gets on or the header or EOT is asked for again, what is sent again is current, success means read to the end, an outcome is final; the window is unlocked when the peer falls silent, and when it goes on talking without asking for those two | files of 0, 1, 2 and 9 bytes in packets of 1 and 2, numbers mod 4 (so they wrap), 2 periods of 2 polls, 1 error, 2 units in flight, packets in 2 and 3 units |
| `receive` | the same for the receiver, whose counters keep to their limits, and that what it counts is in the file as far as the disk takes it | headers of 0 and 3 bytes, a disk of 2, data packets of both lengths, with right and wrong numbers, a data packet numbered 0, STX packets that are cut |
| `link_late` | over a cable that loses nothing but is as late as it likes the receiver implements `FileTransfer`; with answers within a period every transfer past the header succeeds at both ends with the whole file | files of 0, 1, 5 and 10 bytes in packets of 1 and 3, numbers mod 3 (they wrap), 2 errors, 2 periods of 2 polls |
| `link_faults` | with a unit lost or damaged, packets that are cut and read out of frame, bytes that look like CAN and EOT, and cancels on both sides: no byte is written twice or out of order, the receiver is not killed, success at the receiver before the transmitter has read all takes two bytes of data that were read as EOT, every session ends | files of 0 and 7 bytes in packets of 1 and 3, SOH packets (the header among them) in 3 units, numbers mod 3, `MaxFaults` 1 |
| `export` | exports of both kinds, cancelled at any moment: the two buttons share one session that owns its resources exactly while it runs, waits a bounded time, keeps its outcome and ends when the device falls silent | records of 6 and 5 bytes with 2 marks, every poll a period, a buffer of 6 bytes (so that a read behind it happens) |
| `export_records` | without a cancel: the record being read fits the packet, what is accepted is one record, a gap costs at most two and marks left by a time out one, a time out means that no whole record followed a header | records of 9 and 6 bytes with 2 marks, one gap of up to 2 bytes anywhere, a record waiting behind the one that is read, two record numbers, both kinds, a clock of 10 polls |
| `display` | in every order of the two threads: one request per tick, no context is lost, what was freed is used by one read more at most once the pointer to it is cleared, and the deleted worker by the three of its round, a screen to which nothing is on its way shows what was read last, a stop comes to rest | 2 contexts, 3 ticks |
| `ports` | options taken or refused while ports are plugged, sessions run and the display plays: pages follow the options, the receiver and the exporter open what is reported, a line that says open is true | one port, two limits, all stop bits |
| `sent_incomplete` | a counterexample, see below | no fault |
| `received_incomplete` | a counterexample | one fault |
| `export_cancelled` | a counterexample | no gap |
| `ports_transmit` | a counterexample | two ports |

Why the bounds are enough. The stage functions compare packet numbers, counters
and sizes, never bytes. Two poll counts per period and two periods reach all
outcomes of `Tick`; one or two tolerated errors both outcomes of `CountError`; the
sizes reach an empty file, a short last packet, a long last packet that is padded,
both kinds one after the other, and more packets than there are numbers. Three units of a
header are what `link_faults` needs: with the first one lost, the other two may both
be read as EOT. In that run a counter `timeDivide = 0` makes every empty poll a period: the clocks
run out as early as they can. The lengths in `export_records` (9 and 6) keep what the
theorems of section 4 assume of the code's (270 and 88), as tightly as they can: a
longer gap, or lengths of 7 and 6, and TLC finds a mixture that is accepted. The clock
of that run is as long as it takes to skip the body of a record in search of the next
header: with a shorter one the export times out first, and a gap never costs what it may.
Two contexts are
the one that was freed and the one made after it; three ticks queue a request behind
a round that runs and behind one that waits. `ports` has
`Refuse` false, which `ReceivesAsReported` needs; the proofs of `OptionsInForce`
and `OpenLabelIsTrue` hold for both values.

Fairness. An armed timer fires (`WF` of `ReadTimeOut`, `WriteTimeOut`, `readTimeOut`,
`writeTimeOut`: the Qt event loop delivers timer events), and the port sends what it
is given (`Drain`, `Discard`). In `InfoDisplay` both threads go on working (`WF` of
`Gui` and `Worker`): both run an event loop, and a call of libmodbus returns at the
latest after its response timeout. Nothing is assumed of the user, the peer or the
device. Their silence, that a peer asks for the header or EOT again only so often, the
promptness of the cable and the stop of the display are hypotheses in the properties,
not fairness.

Mutants. Next to the definitions stand mutated forms of a few of them (`TooManyLate`,
`StopKeepsEngine`, `clearModbusDangling` ...): plausible bugs, one for each property of
each run, with which TLC finds that property violated.

### Findings

1. *"Firmware Update Successful." for a transfer that failed at the device*
   (`sent_incomplete`, `SentMeansComplete`). The header is out and its answer, ACK C,
   takes longer than a period (5 s with the program's values: a device that erases
   its flash first). The header is sent again, and the receiver answers again. The
   transmitter takes ACK C, sends block 1, takes the second ACK as that of block 1
   and from then on runs one answer ahead. It sends EOT while the last block is
   still to be acknowledged, takes an old C for the request of the closing header
   and an old ACK for its answer, and reports success. Nothing was lost. The
   receiver refuses the first EOT as always, but nobody is left to repeat it: its
   session ends with an error.
2. *"File Received Successfully." for a file that is not complete*
   (`received_incomplete`, `ReceivedMeansComplete`). EOT is not compared with the
   announced size. With the transmitter one answer ahead, or with a C lost between
   two ACKs, a lost packet is never sent again, and the receiver finishes without it.
3. *"Communication Time Out, Export Finished." while records arrive*
   (`export_cancelled`, `TimedOutMeansNothingCame`). `abort()` resets neither
   `rxLength` nor `controlNumCount`. A cancel in the middle of a record leaves them;
   the next export reads its header behind the old bytes, and when `rxLength` has
   passed the length of a record `LEN - rxLength` wraps, so that no record is complete
   any more.
4. *An update opens the port of the program's start* (`ports_transmit`,
   `TransmitsAsReported`). `serialPortUpdated()` is connected to the receiver twice
   (`ymodem_ui.cpp:37-38`) and to the transmitter never, while the page reports the
   new port as opened.

Met while modelling, and part of the model without a run that expects a violation:

* A full disk is not noticed: `file->write()`'s result is ignored
  (`YmodemFileReceive.cpp:168`), the packet is acknowledged and the file reported as
  received. `CountMatchesFile` says how much of it is there.
* An export tolerates any number of bad records: every header resets `errorCount`
  (`CostumTran.cpp:383`), so the limit that the comment at line 44 describes is never
  reached. `GapCostsTwoRecords` says what a fault costs all the same.
* Stop bits are stored as `QSerialPort::StopBits` and decoded by their order
  (`serialporthelper.cpp:22`): two and one and a half are swapped at the next start,
  against the comment at `ymodem_ui.cpp:22`, "restore serial port properties set last
  time". The model decodes as the code does (`DecodeStop`); no property is about it.
* A peer can keep the transmitter in a stage for ever without any progress: C after the
  header (`Ymodem.cpp:1333`), NAK after EOT (`Ymodem.cpp:1593`) and ACK after an EOT sent
  in `StageEstablished` (`Ymodem.cpp:1369`) set both counters to 0. These are the
  exceptions in `CountersRestartOnProgress` and `BabblingPeerEndsSession`.
* A data byte that looks like EOT can end a reception early. When the first byte of a
  packet is lost the rest is read as codes; a byte 0x04 in it is answered with NAK, a
  second one is taken, and then the header of zeros need only be a packet of number 0
  (`receiveStageFinished()`), such as the header that the sender repeats: the receiver
  reports success with an empty file. `EarlyEndTakesTwoMisreads` says that it takes no
  less than two.
* `memcpy()` of `strlen()` bytes keeps the end of a longer port name
  (`infodisplay.cpp:299`), which a stop then reports.
* The YMODEM page never reports its port as closed (`ymodem_ui.cpp:140`), which is
  why `OpenLabelMeansOpen` is about the other two reporters.
* Closing the display frees the context, and the window's end deletes the worker's
  object, while the worker may be reading (`infodisplay.cpp:32, 332`). Between
  `modbus_free()` and `mb = NULL` (`infodisplay.cpp:254`) rounds may even begin and use
  the freed context, as many as are queued. `FreedUseIsBounded` says what is left of it
  afterwards: one read of a context and the reads of one round.
* The screen may show parts of two readings: the window copies the buffer that the
  worker is filling for the next round, and nobody looks at whether a read failed
  (`modbushelper.cpp:36`). `ScreenSettles` says when that is over: no round runs, no
  refresh waits, and the reads of the last round succeeded.
* An OK in the dialog while the stored port is unplugged stores an empty port name
  (`optionsdialog.cpp:138`), which no session can open.

`link_late` shows that the receiver's own report is right as long as no byte is
lost, and that with prompt answers both reports are right.

## 4. What is proved

All theorems hold for every value of the constants that satisfies the assumptions
beside their declarations.

**The transmitter** (`YmodemFileTransmitProofs`), for every set `Heard` of units a
peer may send and every length `InMax` of the channel: `InductiveInvariant`;
`TypeCorrect`, `ResourcesOwned`, `FileOwned`, `WholeFileRead` and `ResendCurrent`, every
invariant of the run; `OutcomeFinal` and `CountersRestart`, its action properties.

**The receiver** (`YmodemFileReceiveProofs`), for every peer and every disk:
`ReceiverInvariant`; `ReceiverTypes`, `ReceiverOwnsResources`, `ReceiverFileOwned`,
`ReceiverWaitBounded`, `ReceiverCountTrue`, every invariant of the run; and
`ReceiverOutcomeFinal`.

The assumptions of both: `timeDivide`, `timeMax` and `errorMax` are natural numbers
(they are `uint32_t`; the model's counters are not cut at 2^32, which the bounds on
waiting justify for the program's values); a long packet carries more than a short
one, which carries something; there are more than 2 packet numbers; a packet has at
least one unit.

The argument. None of the invariants is inductive alone. `SessionOwnsResources`
needs to know that `writeTimer` is armed only for an outcome, and that an outcome
leaves the engine without a transfer (`OutcomePending`): otherwise a cancelled
session's last poll could open the file again. The file's ownership needs it for
`StatusTimeout`, which does not close the file. `FinishMeansWholeFileRead` needs
`EndOfFileSeen`: `StageFinishing` and `StageFinished`, and `StageEstablished` with
`dataCount = 2`, are entered only with `fileCount = fileSize`. `PartialPacket` says
that a packet read in part has something missing, without which what
`receivePacket()` returns has no type. The receiver needs `CrashedInSession`, so that
starting the program again replaces no outcome. The conjunction is called
`Inductive` in both modules. Both proofs first show what a read returns (`ReceiveOK`
in `YmodemProofs`), then treat the steps by what they do to the session: they end it
(`EndsOK`), stay in the stage (`StaysOK`), or go on with the transfer (`MovesOK`). Each
stage function is then split into its cases, each of which is one of the three.
`ResendCurrent` is proved on top of that, from `ResendIsCurrent` itself and `Inductive`:
the stages without a transfer need nothing, errors and empty polls keep `txBuffer`, and
the four places that prepare a packet are looked at one by one. `CountersRestart` goes
through the cases of the stage functions once more: each keeps the counters or adds to
them (`CountersKept`), or gets on, or is one of the three answers that send the header
or EOT again.

**An export** (`CostumTranReceiveProofs`): `ExportInvariant`, `ExportTypes`,
`ExportOwnsResources`, `ExportWaitBounded` and `ExportOutcomeFinal` along the same
line; and, for a user who never cancels, `RecordAlwaysFits` and `TimeOutIsTrue`, from a
second invariant (`Fitting`) that relates the count of marks, the length of what was
read and the stage. Without that hypothesis `TimeOutIsTrue` is false (finding 3).

`GapCostsFewRecords` and `AcceptedRecordIsWhole` follow the bytes, for exports that nobody
cancels while one record at most arrives with a gap (`MaxFaults <= 1`). The engine looks
at three marks and three tail bytes and at nothing between them, so what it takes for a
record depends on where records can lie in what it reads:

* `Line`: the bytes that were read since the last mark of a header, and those on their
  way, are what one gap of up to `GapMax` bytes leaves of whole records, one behind the
  other. Records that arrive, bytes that are skipped and packets that are taken keep it
  (`RecordArrives`, `GapArrives`, `DropBefore`, `DropBehind`).
* `Distance`: two places where records begin are a number of alarms apart, or at least a
  record of data. `ControlsApart` says that a record of data is no such number, not even
  less a part of a header: `DataLen % AlarmLen >= ControlNumber`, in the code
  270 % 88 = 6 and 3. So a packet that begins on a whole header never ends within one
  (`BehindPacket`), and one that began on a part of a header finds the next one whole.
* `Tracked`: what was refused, and what will be, is paid for: one record for a header
  that was begun in the wrong place, two for a gap that is still on the line, against two
  for each gap and one for marks that a time out left (`Budget`). That is
  `GapCostsTwoRecords`, for gaps of any length.
* `PacketIsRecord`: a packet with a good tail ends where a record ends, and with
  `ShortGaps` the packet is that record. `ShortGaps` bounds a gap by the difference of
  the two lengths (182 bytes in the code) and by what a record of data lacks to a whole
  number of alarms (82): in the code a gap of 81 bytes is short enough, and one of 82
  bytes makes four alarms as long as a record of data.

`ControlsApart` and `ShortGaps` are hypotheses on the lengths and on the fault, not on the
program, and hold for the code's lengths and gaps of up to 81 bytes; both are needed (see
the bounds above). The run and the theorems have one gap; `GapCostsTwoRecords` says two
records for each, and more than one is not looked at.

**The display** (`InfoDisplayProofs`): `DisplayInvariant`, `DisplayTypes`,
`TickSendsOne`, `ContextsAreFreed`, `FreedUseEnds`, `RefreshesComplete`, for any
number of contexts and ticks. The invariant says what exists in each phase of the
window's thread (`ContextOfPhase`), that a read which has used a freed context since `mb`
was cleared is the last that knew it, and that a deleted worker has no more reads left
than its round (`UsesLeft`), and which parts of the last round are in the buffer and
which of them a refresh has still to bring to the screen (`DataInv`).

**Ports** (`SerialPortsProofs`): `OptionsInForce` and `OpenLabelIsTrue`; and
`ReportIsTrue`, which assumes that no driver refuses a
parameter (`Refuse = FALSE`): `setPort()` stops at the first refusal and nobody asks.

**The link** (`YmodemLinkProofs`), for every number of lost
or damaged units, with users who may cancel: `ProgramsKeepInvariants` (each program keeps
its invariant with the other as its peer, which is what makes the theorems above say
something about the pair); `FileIsReceivedInOrder`, `EarlyEndNeedsTwo` and
`ReceiverIsNotKilled`, every invariant of the run with faults.

No proof looks into the peer: a step of the link is what the end that moves does to its
own state and to the two channels (`SenderMoves`, `ReceiverMoves`, `CableMoves`), and what
the cable, a poll or a closed port does to a channel is that it leaves some of it, in
order (`Left`). What is said of "everything that is coming" survives that for free; the
work is in the steps that write. The invariants:

* `OrderInv`: units come in the order header, blocks, EOT, header of zeros, cancel codes
  (`Rank`), blocks in the order of the file, and none after the packet that a timeout or
  a NAK would send again (`Item`). What is coming is `Fresh`: a block begins behind what
  is on disk already, or has the number that makes the receiver answer it and write
  nothing. That is why a repeated block is never written twice, although the numbers wrap
  at 256: a block that differs from the last one is in the order after it, whatever its
  number is.
* `EndInv`: once an EOT or the header of zeros is on its way, or was (`EndWasThere`: the
  receiver is further on than the bytes that it misread brought it), the transmitter has
  read its file to the end and sends no block again. `EarlyEndNeedsTwo` follows for every
  `StrayCodes`, EOT among them: one misread byte brings the receiver to
  `StageFinishing` at most, and what the transmitter sends again on the NAK is a packet.
  The proof rests on the count of misread bytes (`TakenIsCounted`); that two bytes
  are enough is said in section 3.
* `HeaderInv`: ACK means that the receiver has a size, and it is the sender's; with
  `Fresh` and the order, a block is of a file of that size, so that the division by it
  (`YmodemFileReceive.cpp:179`) is not by 0.

**The promise** (`YmodemLinkReliableProofs`). `TransferIsReliable`: on a cable without
faults (`MaxFaults = 0`), every step of the link is a step of `FileTransfer` or changes
nothing that `FileTransfer` sees, however late the answers are, whenever either side is
started or cancelled, and although the numbers of the packets wrap. The transmitter's
opening of its file maps to `Announce`, a block that is taken to `Deliver`, the closing
header to `ReportReceived`, every other outcome to `Fail`. `ReceivedFileIsComplete` draws
the conclusion for the message to the user; `received_incomplete` shows that one lost unit
is enough to make it wrong. Both theorems assume `FitsDisk`, that the disk has room for
every file that is sent: without it `write()` loses bytes and nobody notices.

The order of units (`OrderInv`) does not suffice for this, as it allows gaps. The
invariant is `Lossless`: what the theorems above rest on, and `LosslessInv`. Its core
(`OnTrack`) is said of a receiver whose session has no outcome yet:

* `AllThere`: what waits in the receiver is whole packets and codes, each of which
  `Follows` the one before: it is the same again, or what an answer to that one makes
  the transmitter send next. A read never cuts a packet that is all there
  (`ReadWhole` in `YmodemProofs`).
* `EndsInItem`: the last of them is what the transmitter wrote last; `NextFollows`: the
  first of them follows what the receiver took last. If nothing waits, both are the same.
* `CFollows`: the ACK of the header comes with a C, so that the first block, which the
  ACK prepares and the C sends, is not replaced by the second. A header that is
  sent twice is answered twice; the pairs stay pairs, since what the transmitter reads is
  one answer at a time (`AnswersTaken`).
* `Progress`: what is on disk is the first `fileCount` bytes of the file, all of it after
  the EOT. A block with the number that is due is then the one that begins at `fileCount`
  (`DueBlock`): the numbers of two blocks that follow each other differ, and no other
  block can come.
* `NotStarted`: while the receiver's port is closed nothing was sent, so that what is
  discarded there is not missed.

Only model-checked: liveness, since fairness and ENABLED are outside the prover's reach.
Every invariant and every action property that a passing run checks is stated by a theorem.

## 5. Not modelled

* The sending half of the custom transfer (`CostumTranTransmit`, `transmit()` and its
  stage functions, `transmitStatus()`): `startTransmit()` has no caller. The stages
  Established, Finishing and Finished of its `receive()`: `receivePacket()` returns no
  code that leads to them.
* The restart sequence of `on_btn_start_update_clicked()`, `ss_timer_irq()` and
  `ReadData()`: it writes to the page's own port, which no code of the page opens, so
  that its first tick stops the timer.
* `crc16` as an algorithm; a damaged packet that passes it.
* A file that changes while it is sent: nothing in the program changes it.
* The names of files, the text of messages, progress, the widgets and their layout,
  how a value looks on the screen, the third-party headers. `infodisplay.cpp:167` copies
  13 of the 26 bytes of the id; the model copies all of it, as no property is about
  its text.
* Several transfers over one cable: `YmodemLink` has one session per side. What one
  session leaves to the next is in `transmit`, `receive` and `export`, against a peer
  that says anything.

The plan is done: the YMODEM core, the export, the live display, ports and options and
the link, with the proofs above.
