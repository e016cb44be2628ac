------------------------------- MODULE I8042 --------------------------------
(***************************************************************************)
(* How the keyboard and mouse driver brings up the 8042 controller and its *)
(* two devices and configures the mouse (Drivers/input_i8042/i8042.cpp):   *)
(* polled exchanges of commands and answers over one output buffer that    *)
(* the controller, the keyboard and the mouse share.                       *)
(*                                                                         *)
(* An exchange is a sequence of operations, taken one at a time while the  *)
(* user types and moves the mouse.  A byte is what it means; the command   *)
(* byte is the set of its bits.  External: the controller, which answers   *)
(* at once or never and passes a device's next byte on when the output     *)
(* buffer is empty, and the devices.  A configuration is a system call, so *)
(* no service routine runs during one.                                     *)
(***************************************************************************)
EXTENDS Integers, SequencesExt

CONSTANTS
  MouseKinds,      \* the mice that may be plugged in: ids they can report, 0, 3 or 4
  Broken,          \* parts that may never answer, of {"none", "controller", "keyboard", "mouse"}
  Rates,           \* sample rates a configuration may ask for; 0 leaves the rate alone
  MaxInput, MaxConfigures

VARIABLES
  hw,              \* output buffer, answers waiting, command byte, what the next data byte is
  keyboard, mouse,
  exchange,        \* the running exchange: its name, the operations left, what was read
  driver,          \* the stage of StartDevice, the devices made, the decoder's mode, the ISRs
  inputs, configures,
  disturbed,       \* ghost: whether a byte nobody asked for came during the running exchange,
                   \* "now", or during an "earlier" one
  strays           \* ghost: an answer was put in a ring

controllerVars == <<hw, keyboard, mouse, exchange, driver, inputs, configures, disturbed, strays>>

KeyBits == {"auxInt", "kbdOff"}    \* the make code 0x1E, read as a command byte
Answer(v) == [from |-> "controller", val |-> v, bits |-> {}]
Key == [from |-> "keyboard", val |-> "key", bits |-> KeyBits]
FromMouse(v) == [from |-> "mouse", val |-> v, bits |-> {}]
ControllerMove == FromMouse("move")
IdByte(n) == CASE n = 0 -> "id0" [] n = 3 -> "id3" [] n = 4 -> "id4"

-----------------------------------------------------------------------------
(* The hardware.  (External.)                                              *)

Parts == [hw |-> hw, keyboard |-> keyboard, mouse |-> mouse]
\* The byte the controller passes on next.
Settled(p) ==
  IF p.hw.out # <<>> THEN p
  ELSE IF p.hw.answers # <<>>
  THEN [p EXCEPT !.hw.out = <<Head(p.hw.answers)>>, !.hw.answers = Tail(@)]
  ELSE IF p.keyboard.queue # <<>> /\ "kbdOff" \notin p.hw.ccb
  THEN [p EXCEPT !.hw.out = <<Head(p.keyboard.queue)>>, !.keyboard.queue = Tail(@)]
  ELSE IF p.mouse.queue # <<>> /\ "auxOff" \notin p.hw.ccb
  THEN [p EXCEPT !.hw.out = <<Head(p.mouse.queue)>>, !.mouse.queue = Tail(@)]
  ELSE p
\* The buffer after a byte was taken from it.
Consumed(p) == Settled([p EXCEPT !.hw.out = <<>>])
ControllerBecomes(p) ==
  LET s == Settled(p) IN hw' = s.hw /\ keyboard' = s.keyboard /\ mouse' = s.mouse

Answers(p, v) == IF p.hw.dead THEN p ELSE [p EXCEPT !.hw.answers = Append(@, v)]
Commanded(p, c) ==
  CASE c = "DisableKeyboardPort" -> [p EXCEPT !.hw.ccb = @ \union {"kbdOff"}]
    [] c = "EnableKeyboardPort" -> [p EXCEPT !.hw.ccb = @ \ {"kbdOff"}]
    [] c = "DisableAuxPort" -> [p EXCEPT !.hw.ccb = @ \union {"auxOff"}]
    [] c = "EnableAuxPort" -> [p EXCEPT !.hw.ccb = @ \ {"auxOff"}]
    [] c = "SelfTest" -> Answers(p, Answer("55"))
    [] c \in {"TestKeyboardPort", "TestAuxPort"} -> Answers(p, Answer("00"))
    [] c = "ReadCommandByte" ->
         Answers(p, [from |-> "controller", val |-> "ccb", bits |-> p.hw.ccb])

\* What the mouse does with a command byte, and with the byte after SetSampleRate;
\* the knocks are rates it recognises.
Acknowledge(m) == [m EXCEPT !.queue = Append(@, FromMouse("ack")), !.rateNext = FALSE]
MouseGetsRate(m, rate) ==
  LET rates == Append(IF Len(m.rates) < 3 THEN m.rates ELSE Tail(m.rates), rate)
  IN [Acknowledge(m) EXCEPT
        !.rates = rates, !.rate = rate,
        !.mode = IF m.kind >= 3 /\ rates = <<200, 100, 80>> THEN 3
                 ELSE IF m.kind = 4 /\ @ >= 3 /\ rates = <<200, 200, 80>> THEN 4 ELSE @]
MouseGets(m, b) ==
  IF m.dead THEN m
  ELSE IF m.rateNext THEN MouseGetsRate(m, 0)
  ELSE CASE b = "Reset" ->
              [m EXCEPT !.queue = <<FromMouse("ack"), FromMouse("bat"), FromMouse("id0")>>,
                        !.reporting = FALSE, !.mode = 0, !.rates = <<>>, !.rate = 100]
         [] b = "SetDefaults" -> [Acknowledge(m) EXCEPT !.reporting = FALSE, !.rate = 100]
         [] b = "SetSampleRate" -> [Acknowledge(m) EXCEPT !.rateNext = TRUE]
         [] b = "GetDeviceId" ->
              [Acknowledge(m) EXCEPT !.queue = Append(@, FromMouse(IdByte(m.mode)))]
         [] b = "EnableDataReporting" -> [Acknowledge(m) EXCEPT !.reporting = TRUE]
         [] b = "DisableDataReporting" -> [Acknowledge(m) EXCEPT !.reporting = FALSE]
KeyboardGets(k, b) ==
  IF k.dead \/ b # "Reset" THEN k
  ELSE [k EXCEPT !.queue = <<[Key EXCEPT !.val = "ack"], [Key EXCEPT !.val = "bat"]>>]

-----------------------------------------------------------------------------
(* The exchanges.                                                          *)

Op(op, arg) == [op |-> op, arg |-> arg]
I8042_WriteCommand(c) == <<Op("command", c)>>
I8042_WriteData(b) == <<Op("data", b)>>
I8042_ReadData(v) == <<Op("expect", v)>>
I8042_FlushOutputBuffer == <<Op("flush", "")>>
I8042_WriteAuxCommand(b) == <<Op("aux", b)>>
I8042_WaitAck == I8042_ReadData("ack")
I8042_SetMouseSampleRate(rate) ==
  I8042_WriteAuxCommand("SetSampleRate") \o I8042_WaitAck
    \o <<Op("rate", rate)>> \o I8042_WaitAck
I8042_ReadMouseDeviceId == I8042_WriteAuxCommand("GetDeviceId") \o I8042_WaitAck
\* Reading, changing and writing the command byte.
ChangeCcb(set, clear) ==
  I8042_WriteCommand("ReadCommandByte") \o <<Op("readCcb", ""), Op("writeCcb", <<set, clear>>)>>

I8042_InitController ==
  I8042_WriteCommand("DisableKeyboardPort") \o I8042_WriteCommand("DisableAuxPort")
    \o I8042_FlushOutputBuffer
    \o I8042_WriteCommand("SelfTest") \o I8042_ReadData("55")
    \o I8042_WriteCommand("TestKeyboardPort") \o I8042_ReadData("00")
    \o ChangeCcb({"kbdInt", "translate"}, {"kbdOff"})
    \o I8042_WriteCommand("EnableKeyboardPort")
    \o I8042_WriteData("Reset") \o I8042_WaitAck \o I8042_ReadData("bat")
I8042_InitMouse ==
  I8042_WriteCommand("EnableAuxPort")
    \o I8042_WriteCommand("TestAuxPort") \o I8042_ReadData("00")
    \o ChangeCcb({"auxInt"}, {"auxOff"})
    \o I8042_WriteAuxCommand("Reset") \o I8042_WaitAck \o I8042_ReadData("bat")
    \o I8042_ReadData("any")
    \o I8042_WriteAuxCommand("SetDefaults") \o I8042_WaitAck
    \o I8042_SetMouseSampleRate(100)
    \o I8042_WriteAuxCommand("EnableDataReporting") \o I8042_WaitAck
\* The two knocks of I8042_NegotiateMouseExtensions, each with the id that answers it.
WheelKnock ==
  I8042_SetMouseSampleRate(200) \o I8042_SetMouseSampleRate(100) \o I8042_SetMouseSampleRate(80)
    \o I8042_ReadMouseDeviceId \o I8042_ReadData("id3")
ExplorerKnock ==
  I8042_SetMouseSampleRate(200) \o I8042_SetMouseSampleRate(200) \o I8042_SetMouseSampleRate(80)
    \o I8042_ReadMouseDeviceId \o I8042_ReadData("id4")
\* The exchange of I8042_DeviceControl: reporting stops first, and up to eight
\* bytes are read until its acknowledgement.
SetRateIfAsked(rate) == IF rate # 0 THEN I8042_SetMouseSampleRate(rate) ELSE <<>>
Configure(enable, rate) ==
  I8042_WriteAuxCommand("DisableDataReporting") \o <<Op("skipToAck", 8)>>
    \o SetRateIfAsked(rate)
    \o (IF enable THEN I8042_WriteAuxCommand("EnableDataReporting") \o I8042_WaitAck ELSE <<>>)

NoExchange == [name |-> "none", ops |-> <<>>, ccb |-> {}, ended |-> "ok", ask |-> <<FALSE, 0>>]
Started(name, ops) == [NoExchange EXCEPT !.name = name, !.ops = ops, !.ended = "running"]
Advance == exchange' = [exchange EXCEPT !.ops = Tail(@),
                                        !.ended = IF Len(exchange.ops) = 1 THEN "ok" ELSE @]
Fail == exchange' = [exchange EXCEPT !.ops = <<>>, !.ended = "failed"]
Doing(op) == exchange.ended = "running" /\ Head(exchange.ops).op = op
Arg == Head(exchange.ops).arg
ExchangeOnly == UNCHANGED <<driver, inputs, configures, disturbed, strays>>

Send ==
  /\ \/ Doing("command") /\ ControllerBecomes(Commanded(Parts, Arg))
     \/ Doing("data") /\ ControllerBecomes([Parts EXCEPT !.keyboard = KeyboardGets(@, Arg)])
     \/ Doing("aux") /\ ControllerBecomes([Parts EXCEPT !.mouse = MouseGets(@, Arg)])
     \/ Doing("rate") /\ ControllerBecomes(IF mouse.rateNext THEN [Parts EXCEPT !.mouse = MouseGetsRate(@, Arg)]
                                ELSE Parts)
     \/ Doing("writeCcb") /\ ControllerBecomes([Parts EXCEPT !.hw.ccb = (exchange.ccb \union Arg[1]) \ Arg[2]])
     \/ Doing("flush") /\ ControllerBecomes([Parts EXCEPT !.hw.out = <<>>])
  /\ Advance
  /\ ExchangeOnly

\* A read takes whatever byte is in the buffer, or times out.
Read ==
  /\ Doing("expect") \/ Doing("readCcb") \/ Doing("skipToAck")
  /\ hw.out # <<>>
  /\ ControllerBecomes(Consumed(Parts))
  /\ LET b == hw.out[1] IN
     \/ /\ Doing("readCcb")
        /\ exchange' = [exchange EXCEPT !.ops = Tail(@), !.ccb = b.bits]
     \/ /\ Doing("expect")
        /\ IF Arg \in {"any", b.val} THEN Advance ELSE Fail
     \/ /\ Doing("skipToAck")
        /\ IF b.val = "ack" THEN Advance
           ELSE IF Arg = 1 THEN Fail
           ELSE exchange' = [exchange EXCEPT !.ops[1].arg = @ - 1]
  /\ ExchangeOnly
TimeOut ==
  /\ Doing("expect") \/ Doing("readCcb") \/ Doing("skipToAck")
  /\ hw.out = <<>>
  /\ Fail
  /\ UNCHANGED <<hw, keyboard, mouse>> /\ ExchangeOnly

-----------------------------------------------------------------------------
(* The driver.                                                             *)

Ended(name) == exchange.name = name /\ exchange.ended \in {"ok", "failed"}
Succeeded == exchange.ended = "ok"
HardwareIdle == UNCHANGED <<hw, keyboard, mouse, inputs, configures, disturbed, strays>>

I8042_StartDevice ==
  /\ driver.stage = "new"
  /\ driver' = [driver EXCEPT !.stage = "controller"]
  /\ exchange' = Started("controller", I8042_InitController)
  /\ HardwareIdle

\* Each device may fail to be created, and so may the pump thread, without which
\* nothing more is done.
I8042_CreateNamedDevices(devices, thread) ==
  /\ driver.stage = "controller" /\ Ended("controller")
  /\ IF ~Succeeded
     THEN /\ driver' = [driver EXCEPT !.stage = "gone"]
          /\ exchange' = NoExchange
     ELSE /\ driver' = [driver EXCEPT !.devices = devices,
                                      !.stage = IF ~thread THEN "gone"
                                                ELSE IF "mouse" \in devices THEN "mouse" ELSE "connect"]
          /\ exchange' = IF thread /\ "mouse" \in devices
                         THEN Started("mouse", I8042_InitMouse) ELSE NoExchange
  /\ HardwareIdle

MouseReady ==
  /\ driver.stage = "mouse" /\ Ended("mouse")
  /\ driver' = [driver EXCEPT !.stage = IF Succeeded THEN "wheel" ELSE "connect",
                              !.lost = ~Succeeded]
  /\ exchange' = IF Succeeded THEN Started("wheel", WheelKnock) ELSE NoExchange
  /\ HardwareIdle
I8042_NegotiateMouseExtensions ==
  /\ \/ /\ driver.stage = "wheel" /\ Ended("wheel")
        /\ driver' = [driver EXCEPT !.stage = IF Succeeded THEN "explorer" ELSE "connect",
                                    !.mode = IF Succeeded THEN 3 ELSE @]
        /\ exchange' = IF Succeeded THEN Started("explorer", ExplorerKnock) ELSE NoExchange
     \/ /\ driver.stage = "explorer" /\ Ended("explorer")
        /\ driver' = [driver EXCEPT !.stage = "connect", !.mode = IF Succeeded THEN 4 ELSE @]
        /\ exchange' = NoExchange
  /\ HardwareIdle

ConnectIsrs ==
  /\ driver.stage = "connect"
  /\ driver' = [driver EXCEPT !.stage = "running"]
  /\ UNCHANGED exchange
  /\ HardwareIdle

\* I8042_KeyboardIsr and I8042_AuxIsr: a byte in the buffer raises the line of
\* its device when the command byte lets it; it goes to its device's ring.
RaisesLine(b) == IF b.from = "mouse" THEN "auxInt" \in hw.ccb ELSE "kbdInt" \in hw.ccb
IsReport(b) == b.val \in {"key", "move"}
I8042_DrainToRings ==
  /\ driver.stage = "running" /\ exchange.name = "none"
  /\ hw.out # <<>> /\ RaisesLine(hw.out[1])
  /\ ControllerBecomes(Consumed(Parts))
  /\ strays' = (strays \/ ~IsReport(hw.out[1]))
  /\ UNCHANGED <<exchange, driver, inputs, configures, disturbed>>

I8042_DeviceControl(enable, rate) ==
  /\ driver.stage = "running" /\ exchange.name = "none" /\ "mouse" \in driver.devices
  /\ configures < MaxConfigures
  /\ configures' = configures + 1
  /\ exchange' = [Started("configure", Configure(enable, rate)) EXCEPT !.ask = <<enable, rate>>]
  /\ UNCHANGED <<hw, keyboard, mouse, driver, inputs, strays>>
  /\ disturbed' = (IF disturbed # {} THEN {"earlier"} ELSE {})
                  \union (IF hw.out # <<>> THEN {"now"} ELSE {})
ConfigureOver ==
  /\ Ended("configure")
  /\ exchange' = NoExchange
  /\ UNCHANGED driver /\ HardwareIdle

-----------------------------------------------------------------------------
(* The user.  (External.)                                                  *)

Input(queue) ==
  /\ inputs < MaxInput /\ Len(queue) < 2
  /\ inputs' = inputs + 1
  /\ disturbed' = disturbed \union
       (IF driver.stage = "running" /\ exchange.name = "none" THEN {} ELSE {"now"})
  /\ UNCHANGED <<exchange, driver, configures, strays>>
Type ==
  /\ ~keyboard.dead /\ Input(keyboard.queue)
  /\ ControllerBecomes([Parts EXCEPT !.keyboard.queue = Append(@, Key)])
MoveMouse ==
  /\ ~mouse.dead /\ mouse.reporting /\ Input(mouse.queue)
  /\ ControllerBecomes([Parts EXCEPT !.mouse.queue = Append(@, ControllerMove)])

ControllerInit ==
  /\ \E broken \in Broken, kind \in MouseKinds, streaming \in BOOLEAN :
       /\ hw = [out |-> <<>>, answers |-> <<>>, ccb |-> {"kbdInt", "auxInt", "translate"},
                dead |-> broken = "controller"]
       /\ keyboard = [queue |-> <<>>, dead |-> broken = "keyboard"]
       /\ mouse = [kind |-> kind, queue |-> <<>>, dead |-> broken = "mouse",
                   reporting |-> streaming, mode |-> 0, rates |-> <<>>, rate |-> 100,
                   rateNext |-> FALSE]
  /\ exchange = NoExchange
  /\ driver = [stage |-> "new", devices |-> {}, mode |-> 0, lost |-> FALSE]
  /\ inputs = 0 /\ configures = 0 /\ disturbed = {} /\ strays = FALSE

ControllerNext ==
  \/ I8042_StartDevice
  \/ \E devices \in SUBSET {"keyboard", "mouse"}, thread \in BOOLEAN :
       I8042_CreateNamedDevices(devices, thread)
  \/ MouseReady \/ I8042_NegotiateMouseExtensions \/ ConnectIsrs
  \/ Send \/ Read \/ TimeOut
  \/ I8042_DrainToRings
  \/ \E enable \in BOOLEAN, rate \in Rates : I8042_DeviceControl(enable, rate)
  \/ ConfigureOver
  \/ Type \/ MoveMouse
ControllerSpec == ControllerInit /\ [][ControllerNext]_controllerVars

-----------------------------------------------------------------------------
(* Properties.                                                             *)

KeyboardOn == {"kbdInt", "translate"} \subseteq hw.ccb /\ "kbdOff" \notin hw.ccb

\* Unless a key or the mouse came in between, a driver that runs has left the
\* keyboard on, and decodes packets of the length the mouse sends.
QuietStartAgrees ==
  driver.stage = "running" /\ disturbed = {} =>
    KeyboardOn /\ (~driver.lost /\ "mouse" \in driver.devices => driver.mode = mouse.mode)

\* Unless input came during an exchange, no answer of one reaches a ring: every
\* acknowledgement was read by the exchange that asked for it.
NoAnswerInRings == disturbed = {} => ~strays

\* A configuration that reports success has put the mouse into the state asked
\* for, whatever the user did meanwhile, unless an earlier exchange was disturbed.
ConfigureDone ==
  Ended("configure") /\ Succeeded /\ "earlier" \notin disturbed =>
    /\ mouse.reporting = exchange.ask[1]
    /\ exchange.ask[2] # 0 => mouse.rate = exchange.ask[2]

\* Bringing up the mouse leaves the keyboard, which works already, unaffected.
KeyboardUnaffected == driver.stage \in {"connect", "running"} => KeyboardOn

\* A decoder left on three bytes is always safe: the mouse then sends three.
StandardIsSafe ==
  driver.stage = "running" /\ driver.mode = 0 /\ ~driver.lost => mouse.mode = 0

-----------------------------------------------------------------------------
(***************************************************************************)
(* The keyboard and mouse driver's two halves (Drivers/input_i8042): the   *)
(* interrupt service routine drains the controller into one byte ring per  *)
(* device and signals wake; the pump thread drains the rings, and parks on *)
(* wake when it found both empty.                                          *)
(*                                                                         *)
(* The routine runs in the interrupt dispatch thread, so the two halves    *)
(* are threads that interleave.  A ring is the bounded FIFO that SpscRing  *)
(* implements; only the number of bytes in it matters here.  wake is the   *)
(* event of EventSpec with the pump as its only waiter.                    *)
(***************************************************************************)
CONSTANTS
    Capacity,   \* bytes a ring holds: ByteRing::kCapacity - 1
    DrainLimit  \* reads in one run of the service routine

PumpDevice == {"keyboard", "mouse"}

VARIABLES
    bytes,      \* bytes[d]: how many bytes wait in d's ring
    isr,        \* the service routine: pc, reads left, anything buffered
    pump,       \* the pump thread: pc, and whether it found work this round
    signalled,  \* I8042Context::wake.signalled
    parked      \* the pump is on wake's waiter list

pumpVars == <<bytes, isr, pump, signalled, parked>>

PumpInit ==
    /\ bytes = [d \in PumpDevice |-> 0]
    /\ isr = [pc |-> "idle", left |-> 0, buffered |-> FALSE]
    /\ pump = [pc |-> "keyboard", work |-> FALSE]
    /\ signalled = FALSE /\ parked = FALSE

-----------------------------------------------------------------------------
(* I8042_KeyboardIsr or I8042_AuxIsr is called by the dispatch thread.     *)
IsrStart ==
    /\ isr.pc = "idle"
    /\ isr' = [pc |-> "drain", left |-> DrainLimit, buffered |-> FALSE]
    /\ UNCHANGED <<bytes, pump, signalled, parked>>

(* One turn of I8042_DrainToRings: a byte of either device is pushed, or   *)
(* counted and dropped when its ring is full (I8042_PushByte).             *)
IsrReadByte(d) ==
    /\ isr.pc = "drain" /\ isr.left > 0
    /\ bytes' = [bytes EXCEPT ![d] = IF @ < Capacity THEN @ + 1 ELSE @]
    /\ isr' = [isr EXCEPT !.left = @ - 1, !.buffered = @ \/ bytes[d] < Capacity]
    /\ UNCHANGED <<pump, signalled, parked>>

(* The output buffer is empty, or the limit is reached.                    *)
IsrDrained ==
    /\ isr.pc = "drain"
    /\ isr' = [isr EXCEPT !.pc = IF isr.buffered THEN "signal" ELSE "idle"]
    /\ UNCHANGED <<bytes, pump, signalled, parked>>

(* KE_EVENT_Signal(wake, true) on an auto-reset header: every waiter is    *)
(* released and signalled becomes manualReset, which is false.             *)
IsrSignal ==
    /\ isr.pc = "signal"
    /\ isr' = [isr EXCEPT !.pc = "idle"]
    /\ parked' = FALSE /\ signalled' = FALSE
    /\ UNCHANGED <<bytes, pump>>

-----------------------------------------------------------------------------
(* DrainKeyboard and DrainAux take their ring's bytes one by one until     *)
(* they find it empty.                                                     *)
PumpPop(d) ==
    /\ pump.pc = d /\ bytes[d] > 0
    /\ bytes' = [bytes EXCEPT ![d] = @ - 1]
    /\ pump' = [pump EXCEPT !.work = TRUE]
    /\ UNCHANGED <<isr, signalled, parked>>

PumpSeesEmpty(d) ==
    /\ pump.pc = d /\ bytes[d] = 0
    /\ pump' = IF d = "keyboard" THEN [pump EXCEPT !.pc = "mouse"]
               ELSE [pc |-> IF pump.work THEN "keyboard" ELSE "wait", work |-> FALSE]
    /\ UNCHANGED <<bytes, isr, signalled, parked>>

PumpWait ==
    /\ pump.pc = "wait"
    /\ pump' = [pump EXCEPT !.pc = IF signalled THEN "keyboard" ELSE "asleep"]
    /\ parked' = ~signalled
    /\ signalled' = FALSE
    /\ UNCHANGED <<bytes, isr>>

PumpWake ==
    /\ pump.pc = "asleep" /\ ~parked
    /\ pump' = [pump EXCEPT !.pc = "keyboard"]
    /\ UNCHANGED <<bytes, isr, signalled, parked>>

PumpNext ==
    \/ IsrStart \/ IsrDrained \/ IsrSignal
    \/ PumpWait \/ PumpWake
    \/ \E d \in PumpDevice : IsrReadByte(d) \/ PumpPop(d) \/ PumpSeesEmpty(d)

PumpSpec == PumpInit /\ [][PumpNext]_pumpVars

-----------------------------------------------------------------------------
(* "Auto-reset, so the signal is sticky and a byte that arrives between    *)
(* the pump observing empty rings and actually parking cannot be lost":    *)
(* the pump is parked beside a byte only while the routine that buffered   *)
(* it has still to signal.                                                 *)
NoStrandedByte ==
    parked /\ (\E d \in PumpDevice : bytes[d] > 0) => isr.pc # "idle"

(* Configuration ends with the controller in the state the driver          *)
(* believes, and no answer to a command is taken for a key.                *)
ControllerSettled == QuietStartAgrees /\ NoAnswerInRings /\ ConfigureDone
=============================================================================
