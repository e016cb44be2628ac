------------------------------ MODULE HidInput ------------------------------
(***************************************************************************)
(* From the wire to input events: the PS/2 keyboard and mouse decoders,    *)
(* the synthetic HID reports they are packed into, the HID class driver    *)
(* that parses the report descriptors and turns reports into events, and   *)
(* the analog gameport, which polls and feeds the same class driver        *)
(* (Drivers/input_i8042, Drivers/input_hid, Drivers/input_gameport).       *)
(*                                                                         *)
(* A byte is a number.  The pump takes one byte of a ring at a time; a     *)
(* byte may also be lost, because its ring was full (I8042_PushByte).  A   *)
(* device sends its next sequence when the last one is drained: bytes of   *)
(* one device keep their order, and no decoder looks at anything else.     *)
(* Usages are the numbers of the HID usage tables.  Virtual key codes are  *)
(* left out; a character is the usage and the column it is printed from.   *)
(***************************************************************************)
EXTENDS Integers, FiniteSets, SequencesExt

CONSTANTS
    Keys,           \* usages of the keys the user presses
    Strays,         \* byte sequences a keyboard sends that are no key
    MaxHeld,        \* keys held at a time
    MaxStrokes,     \* sequences the keyboard sends
    kKeySlots, kMaxPressed, kMaxFields, kMaxLocalUsages,
    MaxLost,        \* bytes lost, per device
    Motions,        \* what the mouse reports: [dx, dy, buttons, wheel]
    PacketModes,    \* "Standard", "IntelliMouse", "Explorer"
    Sticks,         \* positions: [ticks |-> four counts, buttons]
    SampleTicks,    \* port reads before a sample times out
    kSeedAxisMax

VARIABLES
    kbd,    \* the keyboard's wire, the driver's keyboard context, its events
    aux,    \* the mouse's wire, the driver's mouse context, its events
    pad     \* the gameport's context and the last gamepad state pushed

hidVars == <<kbd, aux, pad>>

LeftControl == 224
RightGui == 231
Pause == 72
CapsLock == 57
NumLock == 83
ScrollLock == 71
ShiftKeys == {225, 229}
Letters == 4..29

BitOf(byte, i) == (byte \div 2^i) % 2

-----------------------------------------------------------------------------
(* Report descriptors, as their short items: tag, data bytes and data.     *)
Item(tag, size, data) == [tag |-> tag, size |-> size, data |-> data]
UsagePage(n) == Item("UsagePage", 1, n)
Usage(n) == Item("Usage", 1, n)
Usages(lo, hi) == <<Item("UsageMin", 1, lo), Item("UsageMax", 1, hi)>>
Logical(lo, size, hi) == <<Item("LogicalMin", 1, lo), Item("LogicalMax", size, hi)>>
Fields(size, count, flags) ==
    <<Item("ReportSize", 1, size), Item("ReportCount", 1, count), Item("Input", 1, flags)>>
Collection(items) == <<Item("Collection", 1, 1)>> \o items \o <<Item("EndCollection", 0, 0)>>

kKeyboardReportDescriptor ==
    <<UsagePage(1), Usage(6)>>
    \o Collection(<<UsagePage(7)>> \o Usages(224, 231) \o Logical(0, 1, 1) \o Fields(1, 8, 2)
                  \o Fields(8, 1, 3)
                  \o Logical(0, 2, 255) \o Usages(0, 255) \o Fields(8, kKeySlots, 0))

kMouseReportDescriptor ==
    <<UsagePage(1), Usage(2)>>
    \o Collection(<<Usage(1)>>
        \o Collection(<<UsagePage(9)>> \o Usages(1, 5) \o Logical(0, 1, 1) \o Fields(1, 5, 2)
                      \o Fields(3, 1, 3)
                      \o <<UsagePage(1), Usage(48), Usage(49)>> \o Logical(129, 1, 127)
                      \o Fields(8, 2, 6)
                      \o <<Usage(56)>> \o Fields(8, 1, 6)))

kJoystickReportDescriptor ==
    <<UsagePage(1), Usage(4)>>
    \o Collection(<<Usage(48), Usage(49), Usage(51), Usage(52)>> \o Logical(0, 2, 255)
                  \o Fields(8, 4, 2)
                  \o <<UsagePage(9)>> \o Usages(1, 4) \o Logical(0, 1, 1) \o Fields(1, 4, 2)
                  \o Fields(4, 1, 3))

SignedItemData(it) ==
    IF it.data >= 2^(8 * it.size - 1) THEN it.data - 2^(8 * it.size) ELSE it.data

(* ParseReportDescriptor: global items stay, local items belong to the     *)
(* next main item, and every Input item lays out its fields bit after bit. *)
ParseStart ==
    [ok |-> TRUE, page |-> 0, min |-> 0, max |-> 0, size |-> 0, count |-> 0,
     usages |-> <<>>, range |-> <<>>, offset |-> 0, depth |-> 0, collection |-> 0, fields |-> <<>>]

GlobalItem(p, it) ==
    CASE it.tag = "UsagePage" -> [p EXCEPT !.page = it.data]
      [] it.tag = "LogicalMin" -> [p EXCEPT !.min = SignedItemData(it)]
      [] it.tag = "LogicalMax" -> [p EXCEPT !.max = SignedItemData(it)]
      [] it.tag = "ReportSize" -> [p EXCEPT !.size = it.data]
      [] it.tag = "ReportCount" -> [p EXCEPT !.count = it.data]

LocalItem(p, it) ==
    CASE it.tag = "Usage" ->
           [p EXCEPT !.usages = Append(@, it.data), !.ok = Len(p.usages) < kMaxLocalUsages]
      [] it.tag = "UsageMin" -> [p EXCEPT !.range = <<it.data, 0>>]
      [] it.tag = "UsageMax" ->
           [p EXCEPT !.range = <<IF p.range = <<>> THEN 0 ELSE p.range[1], it.data>>]

(* The usage of the n-th field (from 0) of an Input item.                  *)
FieldUsage(p, n) ==
    IF n < Len(p.usages) THEN p.usages[n + 1]
    ELSE IF p.range # <<>> /\ p.range[1] + n <= p.range[2] THEN p.range[1] + n
    ELSE IF p.usages # <<>> THEN Last(p.usages) ELSE 0

InputItem(p, it) ==
    LET array == BitOf(it.data, 1) = 0
        field(n) == [page |-> p.page, usage |-> IF array THEN 0 ELSE FieldUsage(p, n),
                     offset |-> p.offset + n * p.size, size |-> p.size,
                     array |-> array, relative |-> BitOf(it.data, 2) = 1, min |-> p.min, max |-> p.max]
        made == IF BitOf(it.data, 0) = 1 THEN <<>> ELSE [k \in 1..p.count |-> field(k - 1)]
    IN  [p EXCEPT !.ok = /\ p.size \in 1..32
                         /\ p.offset + p.count * p.size <= 65535
                         /\ Len(p.fields \o made) <= kMaxFields,
                  !.fields = @ \o made,
                  !.offset = @ + p.count * p.size]

MainItem(p, it) ==
    LET done == CASE it.tag = "Collection" ->
                       [p EXCEPT !.depth = @ + 1,
                                 !.collection = IF @ = 0 /\ p.page = 1 /\ p.usages # <<>>
                                                THEN p.usages[1] ELSE @]
                  [] it.tag = "EndCollection" -> [p EXCEPT !.depth = @ - 1, !.ok = p.depth > 0]
                  [] it.tag = "Input" -> InputItem(p, it)
    IN  [done EXCEPT !.usages = <<>>, !.range = <<>>]

ParseItem(p, it) ==
    IF ~p.ok THEN p
    ELSE IF it.tag \in {"Collection", "EndCollection", "Input"} THEN MainItem(p, it)
    ELSE IF it.tag \in {"Usage", "UsageMin", "UsageMax"} THEN LocalItem(p, it)
    ELSE GlobalItem(p, it)

ParseReportDescriptor(descriptor) ==
    LET p == FoldLeft(ParseItem, ParseStart, descriptor)
    IN  [ok |-> p.ok /\ p.depth = 0 /\ p.fields # <<>>,
         fields |-> p.fields, bytes |-> (p.offset + 7) \div 8, collection |-> p.collection]

KeyboardFormat == ParseReportDescriptor(kKeyboardReportDescriptor)
MouseFormat == ParseReportDescriptor(kMouseReportDescriptor)
JoystickFormat == ParseReportDescriptor(kJoystickReportDescriptor)

ExtractField(field, report) ==
    LET bit(b) == LET at == field.offset + b
                  IN  IF at \div 8 >= Len(report) THEN 0 ELSE BitOf(report[(at \div 8) + 1], at % 8)
        raw == FoldLeft(LAMBDA sum, b : sum + bit(b) * 2^b, 0,
                        [b \in 1..field.size |-> b - 1])
    IN  IF field.min < 0 /\ raw >= 2^(field.size - 1) THEN raw - 2^field.size ELSE raw

-----------------------------------------------------------------------------
(* KeyTranslator: scancode set 1 to usages.  Codes without a usage give 0. *)
LetterRow(c, first, row) == row[(c - first) + 1]
kSet1BaseToUsage == [c \in 0..127 |->
    CASE c = 1 -> 41 [] c \in 2..11 -> c + 28 [] c = 12 -> 45 [] c = 13 -> 46
      [] c = 14 -> 42 [] c = 15 -> 43
      [] c \in 16..27 -> LetterRow(c, 16, <<20, 26, 8, 21, 23, 28, 24, 12, 18, 19, 47, 48>>)
      [] c = 28 -> 40 [] c = 29 -> 224
      [] c \in 30..41 -> LetterRow(c, 30, <<4, 22, 7, 9, 10, 11, 13, 14, 15, 51, 52, 53>>)
      [] c = 42 -> 225 [] c = 43 -> 49
      [] c \in 44..53 -> LetterRow(c, 44, <<29, 27, 6, 25, 5, 17, 16, 54, 55, 56>>)
      [] c = 54 -> 229 [] c = 55 -> 85 [] c = 56 -> 226 [] c = 57 -> 44 [] c = 58 -> CapsLock
      [] c \in 59..68 -> c - 1 [] c = 69 -> NumLock [] c = 70 -> ScrollLock
      [] c \in 71..83 -> LetterRow(c, 71, <<95, 96, 97, 86, 92, 93, 94, 87, 89, 90, 91, 98, 99>>)
      [] c = 87 -> 68 [] c = 88 -> 69 [] OTHER -> 0]

LookupExtendedUsage == [c \in 0..127 |->
    CASE c = 28 -> 88 [] c = 29 -> 228 [] c = 53 -> 84 [] c = 55 -> 70 [] c = 56 -> 230
      [] c = 70 -> 155 [] c = 71 -> 74 [] c = 72 -> 82 [] c = 73 -> 75 [] c = 75 -> 80
      [] c = 77 -> 79 [] c = 79 -> 77 [] c = 80 -> 81 [] c = 81 -> 78 [] c = 82 -> 73
      [] c = 83 -> 76 [] c = 91 -> 227 [] c = 92 -> 231 [] c = 93 -> 101 [] OTHER -> 0]

(* A prefix is used up by the code that follows it.                        *)
PrefixKept(t) == t.extended
PrefixAfterKey(t) == FALSE

NoTransition(extended, pause) == [usage |-> 0, isBreak |-> FALSE, extended |-> extended, pause |-> pause]

(* Feed: the transition the byte completes, if any, and the prefix state   *)
(* after it.                                                               *)
FeedKey(t, byte) ==
    IF byte \in {250, 254, 238, 0, 255} THEN NoTransition(t.extended, t.pause)
    ELSE IF t.pause > 0 THEN [usage |-> IF t.pause = 1 THEN Pause ELSE 0, isBreak |-> FALSE,
                              extended |-> t.extended, pause |-> t.pause - 1]
    ELSE IF byte = 225 THEN NoTransition(t.extended, 5)
    ELSE IF byte = 224 THEN NoTransition(TRUE, 0)
    ELSE [usage |-> IF t.extended THEN LookupExtendedUsage[byte % 128]
                    ELSE kSet1BaseToUsage[byte % 128],
          isBreak |-> byte >= 128, extended |-> PrefixAfterKey(t), pause |-> 0]

(* KeyboardReportBuilder: the usages held, as a modifier byte and slots.   *)
IsModifier(usage) == usage \in LeftControl..RightGui
SlotsOf(slots, usage) == {i \in 1..kKeySlots : slots[i] = usage}
FirstOf(S) == CHOOSE i \in S : \A j \in S : i <= j

Apply(b, t) ==
    LET at == SlotsOf(b.slots, t.usage)
        free == SlotsOf(b.slots, 0)
    IN  IF IsModifier(t.usage)
        THEN [b EXCEPT !.modifiers = IF t.isBreak THEN @ \ {t.usage} ELSE @ \cup {t.usage}]
        ELSE IF t.isBreak
        THEN IF at = {} THEN b ELSE [b EXCEPT !.slots[FirstOf(at)] = 0]
        ELSE IF at # {} \/ free = {} THEN b
        ELSE [b EXCEPT !.slots[FirstOf(free)] = t.usage]

Release(b, usage) ==
    [b EXCEPT !.slots = [i \in 1..kKeySlots |-> IF @[i] = usage THEN 0 ELSE @[i]]]

Pack(b) ==
    <<FoldLeft(LAMBDA sum, i : sum + (IF LeftControl + i \in b.modifiers THEN 2^i ELSE 0), 0,
               <<0, 1, 2, 3, 4, 5, 6, 7>>), 0>> \o b.slots

-----------------------------------------------------------------------------
(* The HID class driver's side of a keyboard report.                       *)
HeldModifierKeys == {224, 225, 226, 228, 229, 230}
LockKeys == {CapsLock, NumLock, ScrollLock}

(* The usages down in a report, in the order of its fields.                *)
Pressed(format, report) ==
    LET used(f) == IF f.array THEN ExtractField(f, report)
                   ELSE IF ExtractField(f, report) = 0 THEN 0 ELSE f.usage
        add(down, f) == IF \/ f.page # 7 \/ used(f) = 0
                           \/ Contains(down, used(f)) \/ Len(down) >= kMaxPressed
                        THEN down ELSE Append(down, used(f))
    IN  FoldLeft(add, <<>>, format.fields)

(* MakeKeyEvent: letters follow Shift and CapsLock, the keypad follows     *)
(* NumLock, everything else the column Shift selects.                      *)
CharacterOf(usage, modifiers) ==
    LET shifted == modifiers \cap ShiftKeys # {}
    IN  IF usage \in Letters
        THEN IF shifted # (CapsLock \in modifiers) THEN "upper" ELSE "lower"
        ELSE IF usage \in 89..99 THEN IF NumLock \in modifiers THEN "keypad" ELSE "none"
        ELSE IF usage \in 84..87 THEN "keypad"
        ELSE IF usage \in (30..39) \cup (44..49) \cup (51..56)
        THEN IF shifted THEN "shifted" ELSE "plain" ELSE "none"

MakeKeyEvent(usage, isBreak, modifiers) ==
    [usage |-> usage, isBreak |-> isBreak, modifiers |-> modifiers,
     character |-> IF isBreak THEN "none" ELSE CharacterOf(usage, modifiers)]

(* A lock key toggles its lock when it goes down, never while it is held.  *)
Toggle(locks, usage) ==
    IF usage \notin LockKeys THEN locks
    ELSE IF usage \in locks THEN locks \ {usage} ELSE locks \cup {usage}

(* SubmitReport: breaks for what is no longer down, then makes for what is *)
(* newly down; d is the decoder state with the events pushed so far.       *)
KeyEvents(d, current) ==
    LET modifiers == ToSet(current) \cap HeldModifierKeys
        up(e, usage) == IF Contains(current, usage) THEN e
                        ELSE [e EXCEPT !.events = Append(@, MakeKeyEvent(usage, TRUE, modifiers \cup e.locks))]
        make(e, usage, locks) ==
            [e EXCEPT !.locks = locks,
                      !.events = Append(@, MakeKeyEvent(usage, FALSE, modifiers \cup locks))]
        down(e, usage) == IF Contains(d.pressed, usage) THEN e ELSE make(e, usage, Toggle(e.locks, usage))
    IN  [FoldLeft(down, FoldLeft(up, d, d.pressed), current) EXCEPT !.pressed = current]

SubmitKeyboard(d, report) ==
    IF Len(report) < KeyboardFormat.bytes THEN d ELSE KeyEvents(d, Pressed(KeyboardFormat, report))

-----------------------------------------------------------------------------
(* The keyboard and the pump's keyboard half.  told, typed, lit, press,    *)
(* fresh, lost and crowded only watch: told is the set of keys the events  *)
(* say are down, typed the last make event; lit and press are what the     *)
(* user did, the locks switched on and the last key pressed with the       *)
(* modifiers it was pressed with.  fresh are the keys whose last sequence  *)
(* was sent to a translator at rest and arrived whole since the last loss. *)
(* lit, press and typed are followed only while the keyboard is Trusted.   *)
NoEvent == MakeKeyEvent(0, TRUE, {})
Nothing == [usage |-> 0, modifiers |-> {}]
KeyboardInit ==
    kbd = [wire |-> <<>>, prefix |-> [extended |-> FALSE, pause |-> 0],
           builder |-> [modifiers |-> {}, slots |-> [i \in 1..kKeySlots |-> 0]],
           pressed |-> <<>>, locks |-> {},
           held |-> {}, told |-> {}, typed |-> NoEvent, lit |-> {}, press |-> Nothing,
           fresh |-> Keys, lost |-> 0, crowded |-> FALSE, strokes |-> 0]

(* What the keyboard sends for a key.                                      *)
KeyBytes(k, isBreak) ==
    LET mask == IF isBreak THEN 128 ELSE 0
        base == {c \in 1..127 : kSet1BaseToUsage[c] = k}
        extended == {c \in 1..127 : LookupExtendedUsage[c] = k}
    IN  IF k = Pause THEN <<225, 29, 69, 225, 157, 197>>
        ELSE IF base # {} THEN <<FirstOf(base) + mask>> ELSE <<224, FirstOf(extended) + mask>>

Trusted == kbd.lost = 0 /\ ~kbd.crowded
AtRest == ~kbd.prefix.extended /\ kbd.prefix.pause = 0
Plain(keys) == {k \in keys : ~IsModifier(k)}
MaySend == kbd.wire = <<>> /\ kbd.strokes < MaxStrokes
Freshly(k) == IF AtRest THEN kbd.fresh \cup {k} ELSE kbd.fresh

Doubted(k) == [k EXCEPT !.lit = {}, !.press = Nothing, !.typed = NoEvent]

Press(k) ==
    LET lit == Toggle(kbd.lit, k)
        crowded == kbd.crowded \/ Cardinality(Plain(kbd.held \cup {k})) > kKeySlots
        sent == [kbd EXCEPT !.wire = KeyBytes(k, FALSE), !.strokes = @ + 1, !.crowded = crowded, !.fresh = Freshly(k),
                            !.held = IF k = Pause THEN @ ELSE @ \cup {k}]
    IN  /\ MaySend /\ k \notin kbd.held
        /\ k = Pause \/ Cardinality(kbd.held) < MaxHeld
        /\ kbd' = IF crowded \/ ~Trusted THEN Doubted(sent)
                  ELSE [sent EXCEPT !.lit = lit,
                                    !.press = [usage |-> k,
                                               modifiers |-> ((kbd.held \cup {k}) \cap HeldModifierKeys) \cup lit]]
        /\ UNCHANGED <<aux, pad>>

Repeat(k) ==
    /\ MaySend /\ k \in kbd.held
    /\ kbd' = [kbd EXCEPT !.wire = KeyBytes(k, FALSE), !.strokes = @ + 1, !.fresh = Freshly(k)]
    /\ UNCHANGED <<aux, pad>>

LetGo(k) ==
    /\ MaySend /\ k \in kbd.held
    /\ kbd' = [kbd EXCEPT !.wire = KeyBytes(k, TRUE), !.strokes = @ + 1, !.held = @ \ {k}, !.fresh = Freshly(k)]
    /\ UNCHANGED <<aux, pad>>

SendStray(s) ==
    /\ MaySend
    /\ kbd' = [kbd EXCEPT !.wire = s, !.strokes = @ + 1]
    /\ UNCHANGED <<aux, pad>>

(* The ring was full.                                                      *)
LoseKeyByte ==
    /\ kbd.wire # <<>> /\ kbd.lost < MaxLost
    /\ kbd' = Doubted([kbd EXCEPT !.wire = Tail(@), !.lost = @ + 1, !.fresh = {}])
    /\ UNCHANGED <<aux, pad>>

Told(told, e) == IF e.isBreak THEN told \ {e.usage} ELSE told \cup {e.usage}

(* A report of what the builder holds, and the events it gives.            *)
LastMake(typed, makes) == IF makes = <<>> \/ ~Trusted THEN typed ELSE Last(makes)
Reported(k, b, d) ==
    [k EXCEPT !.builder = b, !.pressed = d.pressed, !.locks = d.locks,
              !.told = FoldLeft(Told, @, d.events),
              !.typed = LastMake(@, SelectSeq(d.events, LAMBDA e : ~e.isBreak))]
SubmitBuilder(k, b) ==
    Reported(k, b, SubmitKeyboard([pressed |-> k.pressed, locks |-> k.locks, events |-> <<>>], Pack(b)))

(* A transition that changes the builder is reported.  Pause has no break  *)
(* code: its make is followed by a release and a second report.            *)
Translated(k, t, b) ==
    IF t.usage = 0 \/ b = k.builder THEN k
    ELSE IF t.usage = Pause /\ ~t.isBreak
    THEN SubmitBuilder(SubmitBuilder(k, b), Release(b, Pause))
    ELSE SubmitBuilder(k, b)

(* One turn of DrainKeyboard.                                              *)
Drained(t) ==
    Translated([kbd EXCEPT !.wire = Tail(@), !.prefix = [extended |-> t.extended, pause |-> t.pause]],
               t, Apply(kbd.builder, t))
DrainKeyboard ==
    /\ kbd.wire # <<>>
    /\ kbd' = Drained(FeedKey(kbd.prefix, Head(kbd.wire)))
    /\ UNCHANGED <<aux, pad>>

-----------------------------------------------------------------------------
(* MousePacketDecoder and the pump's mouse half.  pushed are the events    *)
(* since the packet began; whole and torn watch the packet: it began with  *)
(* the decoder at a packet's start; a byte of it was lost.                 *)
AuxInit ==
    aux \in [wire : {<<>>}, mode : PacketModes, bytes : {<<>>}, sent : {CHOOSE m \in Motions : TRUE},
             pushed : {<<>>}, whole : {FALSE}, torn : {TRUE}, lost : {0}]

Byte(n) == n % 256
SignedByte(n) == IF n >= 128 THEN n - 256 ELSE n
PacketLength == IF aux.mode = "Standard" THEN 3 ELSE 4

(* What the mouse sends: PS/2 counts up as positive, screens down.         *)
PacketBytes(mode, m) ==
    LET flag(test, value) == IF test THEN value ELSE 0
        Overflow(n) == n < -256 \/ n > 255
        b0 == 8 + (m.buttons % 8) + flag(m.dx < 0, 16) + flag(m.dy < 0, 32)
                + flag(Overflow(m.dx), 64) + flag(Overflow(m.dy), 128)
    IN  <<b0, Byte(m.dx), Byte(m.dy)>>
        \o (IF mode = "IntelliMouse" THEN <<Byte(m.wheel)>>
            ELSE IF mode = "Explorer" THEN <<(m.wheel % 16) + 16 * (m.buttons \div 8)>> ELSE <<>>)

MouseMoves(m) ==
    /\ aux.wire = <<>>
    /\ aux.mode = "Explorer" \/ m.buttons < 8
    /\ aux.mode # "Standard" \/ m.wheel = 0
    /\ aux' = [aux EXCEPT !.wire = PacketBytes(aux.mode, m), !.sent = m, !.pushed = <<>>,
                          !.whole = aux.bytes = <<>>, !.torn = FALSE]
    /\ UNCHANGED <<kbd, pad>>

LoseAuxByte ==
    /\ aux.wire # <<>> /\ aux.lost < MaxLost
    /\ aux' = [aux EXCEPT !.wire = Tail(@), !.torn = TRUE, !.lost = @ + 1]
    /\ UNCHANGED <<kbd, pad>>

(* Byte 0 of a packet has bit 3 set: anything else is skipped.             *)
StartsPacket(byte) == BitOf(byte, 3) = 1

(* The 9-bit sign of an axis is in byte 0.                                 *)
DecodePacket(mode, p) ==
    LET nibble == p[4] % 16
    IN  [dx |-> p[2] - 256 * BitOf(p[1], 4), dy |-> -(p[3] - 256 * BitOf(p[1], 5)),
         buttons |-> (p[1] % 8) + (IF mode = "Explorer"
                                   THEN 8 * BitOf(p[4], 4) + 16 * BitOf(p[4], 5) ELSE 0),
         wheel |-> CASE mode = "Standard" -> 0
                     [] mode = "IntelliMouse" -> SignedByte(p[4])
                     [] mode = "Explorer" -> IF nibble >= 8 THEN nibble - 16 ELSE nibble]

ClampToReportAxis(n) == IF n > 127 THEN 127 ELSE IF n < -127 THEN -127 ELSE n
PackMouseReport(m) ==
    <<m.buttons, Byte(ClampToReportAxis(m.dx)), Byte(ClampToReportAxis(m.dy)), Byte(m.wheel)>>

(* SubmitReport of a mouse or pointer.                                     *)
SubmitMouse(report) ==
    LET value(page, usage) ==
            LET f == CHOOSE g \in ToSet(MouseFormat.fields) : g.page = page /\ g.usage = usage
            IN  ExtractField(f, report)
    IN  [dx |-> value(1, 48), dy |-> value(1, 49), wheel |-> value(1, 56),
         buttons |-> value(9, 1) + 2 * value(9, 2) + 4 * value(9, 3) + 8 * value(9, 4) + 16 * value(9, 5)]

DrainAux ==
    LET byte == Head(aux.wire)
        taken == Append(aux.bytes, byte)
        fed == [aux EXCEPT !.wire = Tail(@)]
    IN  /\ aux.wire # <<>>
        /\ aux' = IF aux.bytes = <<>> THEN IF StartsPacket(byte) THEN [fed EXCEPT !.bytes = taken] ELSE fed
                  ELSE IF Len(taken) < PacketLength THEN [fed EXCEPT !.bytes = taken]
                  ELSE IF taken[1] >= 64 THEN [fed EXCEPT !.bytes = <<>>]
                  ELSE [fed EXCEPT !.bytes = <<>>,
                                   !.pushed = Append(@, SubmitMouse(PackMouseReport(
                                       DecodePacket(aux.mode, taken))))]
        /\ UNCHANGED <<kbd, pad>>

-----------------------------------------------------------------------------
(* The gameport.  A stick has a number of port reads per axis until its    *)
(* bit clears (0: the axis never does) and the buttons held.               *)
PadInit ==
    pad = [stage |-> "added", axisMax |-> [i \in 1..4 |-> 0], present |-> {},
           sample |-> [i \in 1..4 |-> 0], axes |-> [i \in 1..4 |-> 0], buttons |-> {}, pressed |-> {}]

(* ReadSample: the count of every axis that settles before the timeout.    *)
ReadSample(stick) ==
    [i \in 1..4 |-> IF stick.ticks[i] <= SampleTicks THEN stick.ticks[i] ELSE 0]

(* DetectJoystick looks at the idle port first, and only takes a sample    *)
(* when that reads all ones or all zeros.                                  *)
DetectJoystick(stick, floating) ==
    floating => \E i \in 1..4 : ReadSample(stick)[i] # 0

GameportStart(stick, floating) ==
    /\ pad.stage = "added"
    /\ pad' = IF DetectJoystick(stick, floating) /\ JoystickFormat.ok
              THEN [pad EXCEPT !.stage = "polling", !.axisMax = [i \in 1..4 |-> kSeedAxisMax]]
              ELSE [pad EXCEPT !.stage = "absent"]
    /\ UNCHANGED <<kbd, aux>>

Larger(a, b) == IF a > b THEN a ELSE b
Widened(count, axisMax) == Larger(count, axisMax)
ScaleAxis(count, axisMax) == (count * 255) \div axisMax

(* The joystick report: an absent axis is centred, buttons are active low. *)
PackJoystickReport(sample, axisMax, buttons) ==
    [i \in 1..4 |-> IF sample[i] = 0 THEN 128 ELSE ScaleAxis(sample[i], axisMax[i])]
    \o <<FoldLeft(LAMBDA sum, i : sum + (IF i \in buttons THEN 2^(i - 1) ELSE 0), 0, <<1, 2, 3, 4>>)>>

NormalizeAxis(value, min, max) ==
    IF max <= min THEN 0
    ELSE IF value <= min THEN -32767
    ELSE IF value >= max THEN 32767
    ELSE ((value - min) * 65534) \div (max - min) - 32767

(* SubmitReport of a joystick: X, Y, Rx and Ry fill the first four axes.   *)
PadState(fields, report) ==
    LET field(page, usage) == CHOOSE f \in fields : f.page = page /\ f.usage = usage
        scaled(f) == NormalizeAxis(ExtractField(f, report), f.min, f.max)
        usages == <<48, 49, 51, 52>>
    IN  [axes |-> [i \in 1..4 |-> scaled(field(1, usages[i]))],
         buttons |-> {b \in 1..4 : ExtractField(field(9, b), report) = 1}]
SubmitPad(report) == PadState(ToSet(JoystickFormat.fields), report)

(* One round of Gameport_PollThread.  When no axis settled the last state  *)
(* is kept.                                                                *)
GameportPoll(stick) ==
    LET sample == ReadSample(stick)
        valid == {i \in 1..4 : sample[i] # 0}
        axisMax == [i \in 1..4 |-> IF i \in valid THEN Widened(sample[i], pad.axisMax[i]) ELSE pad.axisMax[i]]
        pushed(state) == [pad EXCEPT !.axisMax = axisMax, !.present = @ \cup valid, !.sample = sample,
                                     !.axes = state.axes, !.buttons = state.buttons,
                                     !.pressed = stick.buttons]
    IN  /\ pad.stage = "polling"
        /\ pad' = IF valid = {} THEN pad
                  ELSE pushed(SubmitPad(PackJoystickReport(sample, axisMax, stick.buttons)))
        /\ UNCHANGED <<kbd, aux>>

HidInit == KeyboardInit /\ AuxInit /\ PadInit

(* The three devices share nothing but the class driver's code.            *)
KeyboardNext ==
    \/ \E k \in Keys : Press(k) \/ Repeat(k) \/ LetGo(k)
    \/ \E s \in Strays : SendStray(s)
    \/ LoseKeyByte \/ DrainKeyboard
AuxNext ==
    \/ \E m \in Motions : MouseMoves(m)
    \/ LoseAuxByte \/ DrainAux
PadNext ==
    \E stick \in Sticks : GameportPoll(stick) \/ \E floating \in BOOLEAN : GameportStart(stick, floating)

HidNext == KeyboardNext \/ AuxNext \/ PadNext

HidSpec == HidInit /\ [][HidNext]_hidVars

-----------------------------------------------------------------------------
(* The round trip of the keyboard loses nothing: scan codes become a set   *)
(* of keys, the set becomes reports, and SubmitReport's differences of     *)
(* reports are events again.  As long as no byte was lost and no more keys *)
(* were down than a report has slots, the events say exactly the keys that *)
(* are down, the locks are those the user switched, however long a lock    *)
(* key repeats, and the last key typed carries the modifiers it was        *)
(* pressed with and, for a letter, the case they give.                     *)
EventsFollowKeys ==
    (kbd.wire = <<>> /\ Trusted) =>
        /\ kbd.told = kbd.held /\ kbd.locks = kbd.lit
        /\ kbd.typed.usage = kbd.press.usage /\ kbd.typed.modifiers = kbd.press.modifiers
        /\ kbd.press.usage \in Letters =>
             (kbd.typed.character = "upper"
                <=> (kbd.press.modifiers \cap ShiftKeys # {}) # (CapsLock \in kbd.press.modifiers))

(* No key stays down for good, even after bytes were lost or keys did not  *)
(* fit: once a key has been pressed or released with the translator at     *)
(* rest, the events do not say it is down unless it is.                    *)
ReleasedKeysAreUp == kbd.wire = <<>> => kbd.fresh \cap kbd.told \subseteq kbd.held

(* A packet that reaches a decoder waiting for one is one event with the   *)
(* movement, clamped to the range of the report, the buttons and the       *)
(* wheel; one whose counters overflowed is none.                           *)
Clamped(n) == CHOOSE c \in -127..127 : \A d \in -127..127 : (c - n) * (c - n) <= (d - n) * (d - n)
MotionReported ==
    (aux.wire = <<>> /\ aux.whole /\ ~aux.torn) =>
        aux.pushed = IF aux.sent.dx \in -256..255 /\ aux.sent.dy \in -256..255
                     THEN <<[dx |-> Clamped(aux.sent.dx), dy |-> Clamped(-aux.sent.dy),
                             buttons |-> aux.sent.buttons, wheel |-> aux.sent.wheel]>>
                     ELSE <<>>

(* A lost byte shifts the framing, and one packet puts it right: when a    *)
(* packet arrives whole and only its first byte looks like a first byte,   *)
(* the decoder is at the start of a packet after it, wherever it was.      *)
FramingRecovers ==
    (aux.wire = <<>> /\ ~aux.torn
     /\ \A i \in 2..PacketLength : BitOf(PacketBytes(aux.mode, aux.sent)[i], 3) = 0) => aux.bytes = <<>>

(* Scaling a discharge count to the report's 0..255 and from there to the  *)
(* gamepad range loses less than one step of the report: the state pushed  *)
(* is the count relative to the largest seen, an absent axis is centred    *)
(* within half a step, and the buttons are those held.                     *)
PadIsScaled ==
    LET error(i) == (pad.axes[i] + 32767) * pad.axisMax[i] - pad.sample[i] * 65534
    IN  pad.present # {} =>
          /\ pad.buttons = pad.pressed
          /\ \A i \in 1..4 :
               IF pad.sample[i] = 0 THEN pad.axes[i] \in -129..129
               ELSE error(i) \in (-258 * pad.axisMax[i])..0

(* The key, button and axis state reported is the one of the device,       *)
(* whatever bytes came before.                                             *)
InputDecoded ==
    /\ ReleasedKeysAreUp /\ EventsFollowKeys /\ MotionReported
    /\ FramingRecovers /\ PadIsScaled
=============================================================================
