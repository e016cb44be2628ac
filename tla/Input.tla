------------------------------- MODULE Input --------------------------------
(***************************************************************************)
(* The input manager (Kernel/Source/src/input/input_manager.cpp) and its   *)
(* event ring (event_ring.hpp).  Drivers push reports from worker threads; *)
(* the raw input thread and readers of \Device\Input pop events and sleep  *)
(* on a manual-reset header when the ring is empty.  The critical sections *)
(* of g_eventLock are single steps; the signal follows the unlock.         *)
(* Motion is one-dimensional and positions are counted modulo Span.        *)
(***************************************************************************)
EXTENDS Integers, SequencesExt, FiniteSetsExt

CONSTANTS
    Keyboard, Pointer, Gamepad,   \* the devices that push each kind of report
    Producer, Reader,
    Buffer,               \* events a read of a Reader has room for
    kCapacity, kMaxInputDevices, kMaxGamepads,
    Span                  \* bound: positions and gamepad sequence numbers

Device == Keyboard \cup Pointer
NoDevice == "nullptr"

VARIABLES
    g_eventRing,     \* queued events, oldest first
    g_eventHeader,   \* signalled, and the readers waiting
    g_units, g_gamepads,
    producer,        \* a producer that pushed has still to signal
    inputReader,     \* a reader: pc and events transferred so far
    seen,            \* what the consumers made of the events they popped
    ideal,           \* what they would have made of everything pushed
    displaced        \* something was displaced or replaced in the ring; "seen"
                     \* is not followed from then on

inputVars == <<g_eventRing, g_eventHeader, g_units, g_gamepads, producer,
               inputReader, seen, ideal, displaced>>

InputView == [at : 0..Span - 1, held : SUBSET (1..kMaxInputDevices)]

InputInit ==
    /\ g_eventRing = <<>> /\ g_eventHeader = [signalled |-> FALSE, waiters |-> {}]
    /\ g_units = [i \in 1..kMaxInputDevices |-> [device |-> NoDevice, previousButtons |-> FALSE]]
    /\ g_gamepads = [i \in 1..kMaxGamepads |-> [device |-> NoDevice, sequence |-> 0]]
    /\ producer = [p \in Producer |-> "idle"]
    /\ inputReader = [r \in Reader |-> [pc |-> "dequeue", transferred |-> 0]]
    /\ seen = [at |-> 0, held |-> {}] /\ ideal = seen /\ displaced = FALSE

-----------------------------------------------------------------------------
(* What a consumer does with an event: buttons change, the pointer moves.  *)
Consume(view, e) ==
    [at   |-> IF e.type # "mouse" THEN view.at
              ELSE IF e.isMovementAbsolute THEN e.last ELSE (view.at + e.last) % Span,
     held |-> CASE e.buttonFlags = "down" -> view.held \cup {e.unit}
                [] e.buttonFlags = "up"   -> view.held \ {e.unit}
                [] OTHER                  -> view.held]

IsPureMotionMouseEvent(e) == e.type = "mouse" /\ e.buttonFlags = "none"

Coalesce(target, e) ==
    IF e.isMovementAbsolute
    THEN [target EXCEPT !.isMovementAbsolute = TRUE, !.last = e.last]
    ELSE IF ~target.isMovementAbsolute
    THEN [target EXCEPT !.last = (@ + e.last) % Span]
    ELSE e

Coalesces(e) == IsPureMotionMouseEvent(e) /\ IsPureMotionMouseEvent(Last(g_eventRing))

(* EventRing::Push: append while there is room; a full ring folds motion   *)
(* into a newest entry that is motion, and displaces the oldest otherwise. *)
Pushed(e) ==
    IF Len(g_eventRing) < kCapacity THEN Append(g_eventRing, e)
    ELSE IF Coalesces(e) THEN [g_eventRing EXCEPT ![kCapacity] = Coalesce(@, e)]
    ELSE Append(Tail(g_eventRing), e)
RingPush(e) ==
    /\ g_eventRing' = Pushed(e)
    /\ ideal' = Consume(ideal, e)
    /\ displaced' = (displaced \/ /\ Len(g_eventRing) = kCapacity
                                  /\ Coalesces(e) => /\ Last(g_eventRing).isMovementAbsolute
                                                     /\ ~e.isMovementAbsolute)

(* FindOrClaimUnit: the device's slot, else the first free one, else none. *)
FindOrClaimUnit(d) ==
    LET own  == {i \in 1..kMaxInputDevices : g_units[i].device = d}
        free == {i \in 1..kMaxInputDevices : g_units[i].device = NoDevice}
    IN  IF own # {} THEN own ELSE {i \in free : \A j \in free : i <= j}

PushQueued(p, i, d, down, e) ==
    /\ producer' = [producer EXCEPT ![p] = "signal"]
    /\ g_units' = [g_units EXCEPT ![i] = [device |-> d, previousButtons |-> down]]
    /\ RingPush(e) /\ UNCHANGED <<g_eventHeader, g_gamepads, inputReader, seen>>

(* KE_INPUT_PushEvent by report kind; a full table drops the report.       *)
PushKey(p, d) ==
    /\ producer[p] = "idle"
    /\ \E i \in FindOrClaimUnit(d) :
         PushQueued(p, i, d, g_units[i].previousButtons,
                [type |-> "key", unit |-> i, isMovementAbsolute |-> FALSE, last |-> 0,
                 buttonFlags |-> "none"])

ButtonFlags(was, down) == CASE down /\ ~was -> "down" [] was /\ ~down -> "up" [] OTHER -> "none"

(* BuildMouseEvent: the button state is diffed against the unit's last.    *)
PushPointer(p, d, down, dx, absolute) ==
    /\ producer[p] = "idle"
    /\ \E i \in FindOrClaimUnit(d) :
         PushQueued(p, i, d, down,
                [type |-> "mouse", unit |-> i, isMovementAbsolute |-> absolute, last |-> dx,
                 buttonFlags |-> ButtonFlags(g_units[i].previousButtons, down)])

PushGamepad(p, d) ==
    LET own  == {i \in 1..kMaxGamepads : g_gamepads[i].device = d}
        free == {i \in 1..kMaxGamepads : g_gamepads[i].device = NoDevice}
        slot == IF own # {} THEN own ELSE {i \in free : \A j \in free : i <= j}
    IN  /\ producer[p] = "idle"
        /\ \E i \in slot : g_gamepads' = [g_gamepads EXCEPT
               ![i] = [device |-> d, sequence |-> (@.sequence + 1) % Span]]
        /\ UNCHANGED <<g_eventRing, g_eventHeader, g_units, producer, inputReader, seen,
                       ideal, displaced>>

(* ... and, the lock released, KE_EVENT_Signal of the manual-reset header. *)
PushSignal(p) ==
    /\ producer[p] = "signal" /\ producer' = [producer EXCEPT ![p] = "idle"]
    /\ g_eventHeader' = [signalled |-> TRUE, waiters |-> {}]
    /\ inputReader' = [r \in Reader |-> IF r \in g_eventHeader.waiters
                          THEN [inputReader[r] EXCEPT !.pc = "dequeue"] ELSE inputReader[r]]
    /\ UNCHANGED <<g_eventRing, g_units, g_gamepads, seen, ideal, displaced>>

-----------------------------------------------------------------------------
ReaderGoes(r, pc, n) == inputReader' = [inputReader EXCEPT ![r] = [pc |-> pc, transferred |-> n]]

(* InputRead and KE_INPUT_WaitEvent (a buffer of one): pop until the       *)
(* buffer is full or the ring is empty, and return if anything came.       *)
Dequeue(r) ==
    /\ inputReader[r].pc = "dequeue"
    /\ LET n == inputReader[r].transferred
       IN  \/ /\ g_eventRing # <<>> /\ n < Buffer[r]
              /\ g_eventRing' = Tail(g_eventRing)
              /\ seen' = IF displaced THEN seen ELSE Consume(seen, Head(g_eventRing))
              /\ ReaderGoes(r, "dequeue", n + 1)
           \/ /\ g_eventRing = <<>> \/ n = Buffer[r]
              /\ ReaderGoes(r, IF n > 0 THEN "dequeue" ELSE "reset", 0)
              /\ UNCHANGED <<g_eventRing, seen>>
    /\ UNCHANGED <<g_eventHeader, g_units, g_gamepads, producer, ideal, displaced>>

(* Faulty variant: the header is reset whatever the ring holds.            *)
RingEmptyAssumed == TRUE
RingEmpty == g_eventRing = <<>>

ResetIfEmpty(r) ==
    /\ inputReader[r].pc = "reset"
    /\ g_eventHeader' = [g_eventHeader EXCEPT !.signalled = @ /\ ~RingEmpty]
    /\ ReaderGoes(r, IF RingEmpty THEN "wait" ELSE "dequeue", 0)
    /\ UNCHANGED <<g_eventRing, g_units, g_gamepads, producer, seen, ideal, displaced>>

WaitForEvents(r) ==
    /\ inputReader[r].pc = "wait"
    /\ IF g_eventHeader.signalled
       THEN ReaderGoes(r, "dequeue", 0) /\ UNCHANGED g_eventHeader
       ELSE /\ ReaderGoes(r, "asleep", 0)
            /\ g_eventHeader' = [g_eventHeader EXCEPT !.waiters = @ \cup {r}]
    /\ UNCHANGED <<g_eventRing, g_units, g_gamepads, producer, seen, ideal, displaced>>

(* The raw input thread's wait times out and it calls again.               *)
WaitTimeout(r) ==
    /\ inputReader[r].pc = "asleep" /\ ReaderGoes(r, "dequeue", 0)
    /\ g_eventHeader' = [g_eventHeader EXCEPT !.waiters = @ \ {r}]
    /\ UNCHANGED <<g_eventRing, g_units, g_gamepads, producer, seen, ideal, displaced>>

PushEvent(p) ==
    \/ \E d \in Keyboard : PushKey(p, d)
    \/ \E d \in Pointer, down \in BOOLEAN, dx \in 0..1, absolute \in BOOLEAN :
          PushPointer(p, d, down, dx, absolute)
InputRead(r) == Dequeue(r) \/ ResetIfEmpty(r) \/ WaitForEvents(r)

EventNext ==
    \/ \E p \in Producer : PushEvent(p) \/ PushSignal(p)
    \/ \E r \in Reader : InputRead(r) \/ WaitTimeout(r)
GamepadNext == \E p \in Producer, d \in Gamepad : PushGamepad(p, d)

InputNext == EventNext \/ GamepadNext

InputSpec == InputInit /\ [][InputNext]_inputVars

-----------------------------------------------------------------------------
InputTypeOK ==
    /\ Len(g_eventRing) <= kCapacity
    /\ \A k \in DOMAIN g_eventRing : /\ g_eventRing[k].unit \in 1..kMaxInputDevices
                                     /\ g_eventRing[k].last \in 0..Span - 1
    /\ g_eventHeader \in [signalled : BOOLEAN, waiters : SUBSET Reader]
    /\ g_units \in [1..kMaxInputDevices -> [device : Device \cup {NoDevice}, previousButtons : BOOLEAN]]
    /\ producer \in [Producer -> {"idle", "signal"}]
    /\ \A r \in Reader : inputReader[r].transferred \in 0..Buffer[r]
    /\ seen \in InputView /\ ideal \in InputView /\ displaced \in BOOLEAN

(* "a push that lands in between cannot be lost": a reader only sleeps     *)
(* while the ring is empty or the push that filled it has yet to signal.   *)
NoReaderSleepsOnEvents ==
    /\ \A r \in Reader : inputReader[r].pc = "asleep" <=> r \in g_eventHeader.waiters
    /\ (g_eventHeader.waiters # {} /\ g_eventRing # <<>>)
         => \E p \in Producer : producer[p] = "signal"

(* "the total displacement survives the coalesce": unless an entry was     *)
(* displaced, what is queued still leads to the pointer position and the   *)
(* buttons that all pushed reports describe.                               *)
CoalescingKeepsTheInput == ~displaced => FoldLeft(Consume, seen, g_eventRing) = ideal

(* The button state a unit is diffed against is the one the pushed events  *)
(* add up to: transitions alternate, whichever device produced them.       *)
TransitionsAlternate ==
    \A i \in 1..kMaxInputDevices : g_units[i].previousButtons <=> i \in ideal.held

(* A device keeps one unit for ever: unitId identifies it to consumers.    *)
OneUnitPerDevice ==
    /\ \A i, j \in 1..kMaxInputDevices :
         (g_units[i].device = g_units[j].device /\ i # j) => g_units[i].device = NoDevice
    /\ \A i \in 1..kMaxInputDevices : g_units[i].device = NoDevice =>
         \A j \in i..kMaxInputDevices : g_units[j].device = NoDevice

(* No reader of events sleeps while there is one for it, and events name   *)
(* one device each and report every change of its buttons once.            *)
EventsDelivered ==
    InputTypeOK /\ NoReaderSleepsOnEvents /\ TransitionsAlternate /\ OneUnitPerDevice

(* "Clicks and keystrokes are therefore never lost in favour of motion."   *)
ClicksNeverLostToMotion ==
    [][(/\ Len(g_eventRing) = kCapacity /\ Len(g_eventRing') = kCapacity
        /\ Tail(g_eventRing) = Front(g_eventRing')
        /\ IsPureMotionMouseEvent(Last(g_eventRing')))
         => IsPureMotionMouseEvent(Head(g_eventRing))]_inputVars

-----------------------------------------------------------------------------
(***************************************************************************)
(* The virtual terminal (Kernel/Source/src/tty/tty.cpp): a source (the     *)
(* terminal) and a sink (the program) joined by two byte rings and a line  *)
(* discipline, every call under m_lock, with readers that sleep on a       *)
(* manual-reset header; and the table that pairs terminals with serial     *)
(* devices (tty_device.cpp).  Bytes are the classes the discipline tells   *)
(* apart: "x" typed text, "p" program text, and the control characters;    *)
(* of what waits for the program only the amount is kept.                  *)
(***************************************************************************)
CONSTANTS
    Flags,                \* the flag sets SetConfig may install
    Typed,                \* the chunks a source may write
    Output,               \* the chunks a sink may write
    TtyReader,
    kDefaultBufferSize, kMaxEditBufferSize,
    MaxLine,              \* bound: characters of one line handed over by Ctrl-D
    TxSize                \* bytes DrainSourceToDevice moves at a time

VARIABLES
    tty,          \* the KVtty; "full" and "kept" are history: an echo did not fit,
                  \* and characters of this line already handed over by Ctrl-D
    ttyReader,    \* pc of each thread in sink_read_wait
    ttyAttached,     \* the device s_attachedPairs pairs this terminal with
    shown,        \* typed characters of this line the terminal displays,
                  \* followed while echoIntact
    echoIntact    \* no echo was cut short, flushed away or written over

ttyVars == <<tty, ttyReader, ttyAttached, shown, echoIntact>>

TtyInit ==
    /\ \E f \in Flags :
         tty = [sinkIn |-> 0, sourceOut |-> <<>>, editLen |-> 0, flags |-> f, eof |-> FALSE,
                sourceClosed |-> FALSE, sinkClosed |-> FALSE, inputReady |-> FALSE,
                full |-> FALSE, kept |-> 0]
    /\ ttyReader = [r \in TtyReader |-> "idle"]
    /\ ttyAttached = FALSE /\ shown = 0 /\ echoIntact = TRUE

-----------------------------------------------------------------------------
OutRoom(t) == kDefaultBufferSize - Len(t.sourceOut)

(* RingBuffer::write: as much as fits.                                     *)
EchoOut(t, bytes) ==
    [t EXCEPT !.sourceOut = @ \o SubSeq(bytes, 1, Min({Len(bytes), OutRoom(t)})),
              !.full = @ \/ Len(bytes) > OutRoom(t)]
EchoIf(t, on, bytes) == IF on THEN EchoOut(t, bytes) ELSE t
Deliver(t, kept) ==
    [t EXCEPT !.sinkIn = Min({@ + t.editLen, kDefaultBufferSize}), !.editLen = 0, !.kept = kept]

EraseSeq == <<"b", " ", "b">>
NewLine(t) == IF "NL_TO_CRNL" \in t.flags THEN <<"r", "n">> ELSE <<"n">>

(* Faulty variant: erasing is echoed on an empty line too.                 *)
EraseUnchecked(t) ==
    EchoIf([t EXCEPT !.editLen = Max({@ - 1, 0})], "ECHO" \in t.flags, EraseSeq)
EraseOne(t) == IF t.editLen = 0 THEN t ELSE
    EchoIf([t EXCEPT !.editLen = @ - 1], "ECHO" \in t.flags, EraseSeq)

(* A full line swallows text, and gives its last place to the newline.     *)
CookedByte(t, ch) ==
    CASE ch = "bs"   -> EraseOne(t)
      [] ch = "kill" -> [EchoIf(t, "ECHO" \in t.flags, FlattenSeq([k \in 1..t.editLen |-> EraseSeq]))
                           EXCEPT !.editLen = 0]
      [] ch = "eof"  -> IF t.editLen = 0 THEN [t EXCEPT !.eof = TRUE] ELSE Deliver(t, t.kept + t.editLen)
      [] ch = "n"    -> Deliver(EchoIf([t EXCEPT !.editLen = Min({@ + 1, kMaxEditBufferSize})],
                                       t.flags \cap {"ECHO", "ECHO_NL"} # {}, NewLine(t)), 0)
      [] OTHER       -> IF t.editLen = kMaxEditBufferSize THEN t
                        ELSE EchoIf([t EXCEPT !.editLen = @ + 1], "ECHO" \in t.flags, <<ch>>)

RawByte(t, ch) == IF t.sinkIn = kDefaultBufferSize THEN t ELSE
    EchoIf([t EXCEPT !.sinkIn = @ + 1], "ECHO" \in t.flags, IF ch = "n" THEN NewLine(t) ELSE <<ch>>)

Feed(t, byte) ==
    LET ch == IF byte = "r" /\ "CR_TO_NL" \in t.flags THEN "n" ELSE byte
    IN  IF "CANONICAL" \in t.flags THEN CookedByte(t, ch) ELSE RawByte(t, ch)

InputToRead(t) == t.sinkIn > 0 \/ t.eof

(* KE_EVENT_Signal(m_inputReady, true) wakes every sleeping reader.        *)
SignalInput(t) ==
    /\ tty' = [t EXCEPT !.inputReady = TRUE]
    /\ ttyReader' = [r \in TtyReader |-> IF ttyReader[r] = "asleep" THEN "read" ELSE ttyReader[r]]
SignalInputIf(t, on) == IF on THEN SignalInput(t) ELSE tty' = t /\ UNCHANGED ttyReader

TtyOpen == ~tty.sourceClosed /\ ~tty.sinkClosed

-----------------------------------------------------------------------------
source_write(bytes) ==
    LET t == FoldLeft(Feed, tty, bytes)
    IN  /\ TtyOpen /\ tty.kept + Len(bytes) <= MaxLine /\ SignalInputIf([t EXCEPT !.full = FALSE], InputToRead(t))
        /\ echoIntact' = (echoIntact /\ ~t.full)
        /\ UNCHANGED <<ttyAttached, shown>>

(* What the terminal makes of the bytes it reads.                          *)
Display(n, byte) == CASE byte \in {"x", " "} -> n + 1 [] byte = "b" -> n - 1
                      [] byte \in {"r", "n"} -> 0     [] OTHER -> n

ShownAfter(n) ==
    IF echoIntact THEN FoldLeft(Display, shown, SubSeq(tty.sourceOut, 1, n)) ELSE 0

source_read(n) ==
    /\ tty.sourceOut # <<>>
    /\ tty' = [tty EXCEPT !.sourceOut = SubSeq(@, n + 1, Len(@))]
    /\ shown' = ShownAfter(Min({n, Len(tty.sourceOut)}))
    /\ UNCHANGED <<ttyReader, ttyAttached, echoIntact>>

(* sink_write stops at the first byte that does not fit whole.             *)
SinkByte(t, ch) ==
    LET out == IF ch = "n" THEN NewLine(t) ELSE <<ch>>
    IN  IF t.full \/ Len(out) > OutRoom(t) THEN [t EXCEPT !.full = TRUE]
        ELSE [t EXCEPT !.sourceOut = @ \o out]
sink_write(bytes) ==
    /\ TtyOpen /\ tty' = [FoldLeft(SinkByte, tty, bytes) EXCEPT !.full = FALSE]
    /\ echoIntact' = (echoIntact /\ (Contains(bytes, "n") => tty.editLen = 0 /\ tty.kept = 0))
    /\ UNCHANGED <<ttyReader, ttyAttached, shown>>

close_source == ~tty.sourceClosed /\ SignalInput([tty EXCEPT !.sourceClosed = TRUE])
                /\ UNCHANGED <<ttyAttached, shown, echoIntact>>
close_sink   == ~tty.sinkClosed /\ SignalInput([tty EXCEPT !.sinkClosed = TRUE])
                /\ UNCHANGED <<ttyAttached, shown, echoIntact>>

set_config(f) ==
    /\ f # tty.flags /\ tty' = [tty EXCEPT !.flags = f] /\ echoIntact' = FALSE
    /\ UNCHANGED <<ttyReader, ttyAttached, shown>>

tty_flush ==
    /\ tty' = [tty EXCEPT !.sinkIn = 0, !.sourceOut = <<>>, !.editLen = 0, !.eof = FALSE]
    /\ echoIntact' = (echoIntact /\ tty.sourceOut = <<>> /\ tty.editLen = 0)
    /\ UNCHANGED <<ttyReader, ttyAttached, shown>>

(* sink_read polls; a read of an empty ring takes the end of file.         *)
sink_read(n) ==
    /\ tty' = IF tty.sinkIn = 0 THEN [tty EXCEPT !.eof = FALSE]
              ELSE [tty EXCEPT !.sinkIn = Max({@ - n, 0})]
    /\ UNCHANGED <<ttyReader, ttyAttached, shown, echoIntact>>

-----------------------------------------------------------------------------
ReaderAt(r, from, to) == ttyReader[r] = from /\ ttyReader' = [ttyReader EXCEPT ![r] = to]

ResetReady(t) == [t EXCEPT !.inputReady = FALSE]

(* sink_read_wait: one turn of its loop under the lock ...                 *)
sink_read_wait(r) ==
    /\ \/ ReaderAt(r, "idle", "read") /\ UNCHANGED tty
       \/ /\ tty.sinkIn > 0 /\ ReaderAt(r, "read", "idle")
          /\ tty' = [tty EXCEPT !.sinkIn = @ - 1]
       \/ /\ tty.sinkIn = 0 /\ (tty.eof \/ ~TtyOpen) /\ ReaderAt(r, "read", "idle")
          /\ tty' = [tty EXCEPT !.eof = FALSE]
       \/ /\ tty.sinkIn = 0 /\ ~tty.eof /\ TtyOpen /\ ReaderAt(r, "read", "wait")
          /\ tty' = ResetReady(tty)
    /\ UNCHANGED <<ttyAttached, shown, echoIntact>>

(* ... and KE_SCHED_WaitForHeader without it.                              *)
WaitInput(r) ==
    /\ \/ tty.inputReady /\ ReaderAt(r, "wait", "read")
       \/ ~tty.inputReady /\ ReaderAt(r, "wait", "asleep")
    /\ UNCHANGED <<tty, ttyAttached, shown, echoIntact>>

(* KE_TTY_AttachDevice, KE_TTY_DetachDevice.                               *)
AttachDevice == ttyAttached' = ~ttyAttached /\ UNCHANGED <<tty, ttyReader, shown, echoIntact>>

(* KE_TTY_PumpDevice, to the device: a chunk leaves the ring before the    *)
(* device takes it, and what a short write leaves is gone.                 *)
PumpOut(taken) ==
    LET n == Min({TxSize, Len(tty.sourceOut)})
    IN  /\ ttyAttached /\ taken <= n /\ n > 0
        /\ tty' = [tty EXCEPT !.sourceOut = SubSeq(@, n + 1, Len(@))]
        /\ shown' = ShownAfter(taken)
        /\ echoIntact' = (echoIntact /\ taken = n)
        /\ UNCHANGED <<ttyReader, ttyAttached>>

(* ... and what the device read goes in as if typed.                       *)
PumpIn(bytes) == ttyAttached /\ source_write(bytes)

(* The two directions: what the terminal is shown, and who reads lines.    *)
EchoNext ==
    \/ \E b \in Typed : source_write(b) \/ PumpIn(b)
    \/ \E b \in Output : sink_write(b)
    \/ \E n \in 1..2 : source_read(n) \/ sink_read(n)
    \/ \E n \in 0..TxSize : PumpOut(n)
    \/ tty_flush \/ AttachDevice
    \/ \E f \in Flags : set_config(f)
LineNext ==
    \/ \E b \in Typed : source_write(b)
    \/ \E n \in 1..2 : sink_read(n)
    \/ close_source \/ close_sink \/ tty_flush
    \/ \E r \in TtyReader : sink_read_wait(r) \/ WaitInput(r)

TtyNext == EchoNext \/ LineNext

TtySpec == TtyInit /\ [][TtyNext]_ttyVars

-----------------------------------------------------------------------------
TtyTypeOK ==
    /\ tty.sinkIn \in 0..kDefaultBufferSize /\ Len(tty.sourceOut) <= kDefaultBufferSize
    /\ tty.editLen \in 0..kMaxEditBufferSize /\ ~tty.full
    /\ ttyReader \in [TtyReader -> {"idle", "read", "wait", "asleep"}]
    /\ ttyAttached \in BOOLEAN /\ echoIntact \in BOOLEAN /\ shown \in Int

(* "a writer after unlock leaves a sticky signal": no reader sleeps while  *)
(* there is input, an end of file or a closed end to return for.           *)
NoReaderSleepsOnInput ==
    (\E r \in TtyReader : ttyReader[r] = "asleep") => ~InputToRead(tty) /\ TtyOpen

(* Unless an echo was lost, the terminal shows, once it has read what is   *)
(* queued for it, exactly the characters still in the edit buffer: erasing *)
(* never takes more of the line than was typed, nor less.                  *)
EchoShowsTheLine ==
    (echoIntact /\ {"ECHO", "CANONICAL"} \subseteq tty.flags)
       => FoldLeft(Display, shown, tty.sourceOut) = tty.kept + tty.editLen

(* A terminal's reader never sleeps on input, and the echo shows the line  *)
(* being edited (LineDiscipline.cpp).                                      *)
LineDelivered == TtyTypeOK /\ NoReaderSleepsOnInput /\ EchoShowsTheLine
=============================================================================
