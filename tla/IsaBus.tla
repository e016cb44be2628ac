------------------------------- MODULE IsaBus -------------------------------
(***************************************************************************)
(* The ISA bus driver.  Enumeration isolates the plug and play cards one   *)
(* by one - all cards that are still without a number shift their serial   *)
(* number onto one wire, and a card that sends 0 while another sends 1     *)
(* steps back - and then probes the fixed ATA channels.  The DMA adapter   *)
(* programs the two 8237 controllers for a driver that moves a buffer.     *)
(*                                                                         *)
(* The cards, the controllers and the driver that uses the adapter are     *)
(* external.  A serial number has SerialBits bits (64 in the code), its    *)
(* first VendorBits the vendor (16); a byte has Radix values (256).        *)
(***************************************************************************)
EXTENDS Integers, Sequences, FiniteSets, SequencesExt

CONSTANTS SerialBits, VendorBits,
          Serial,       \* card -> serial number, a sequence of bits
          Decks,        \* sets of cards that may be plugged in together
          LastCsn,      \* 31
          MaxChildren,  \* 32
          AtaChannel,   \* the probed channels, in order
          Radix,
          Channels,     \* DMA channels used; 4 and above move 16-bit units
          Buffers       \* [base, size] of the buffers moved

VARIABLES cards,     \* card -> [state, csn, sum: its checksum is right]
          ataPresent,
          isaPc, csn, bit,
          serial, checksum, received,  \* what Isolate has gathered
          children   \* the bus's child devices

isaVars == <<cards, ataPresent, isaPc, csn, bit, serial, checksum, received, children>>

VARIABLES dmaPc, channel, buffer, moved,  \* the driver: bytes of the buffer done
          piece,      \* [at, size] of the piece under way
          autoInit,
          regs,       \* the channel's registers
          touched     \* bytes of memory the controller accessed

dmaVars == <<dmaPc, channel, buffer, moved, piece, autoInit, regs, touched>>

(***************************************************************************)
(* Serial isolation.                                                       *)
(***************************************************************************)
\* The 8-bit shift register both sides run over the serial number.
Shift(sum, b) == (sum \div 2) + 128 * ((sum + sum \div 2 + b) % 2)
ChecksumOf(bits) == FoldLeft(Shift, 106, bits)
SumBit(value, k) == (value \div 2^k) % 2

\* What a card sends: its serial number, then the checksum, low bit first.
Sent(c, k) ==
    IF k <= SerialBits THEN Serial[c][k]
    ELSE SumBit(IF cards[c].sum THEN ChecksumOf(Serial[c]) ELSE (ChecksumOf(Serial[c]) + 1) % 256,
               k - SerialBits - 1)

IsaInit ==
    /\ \E deck \in Decks : \E good \in SUBSET deck :
          cards = [c \in deck |-> [state |-> "key", csn |-> 0, sum |-> c \in good]]
    /\ ataPresent \in SUBSET {AtaChannel[n] : n \in DOMAIN AtaChannel}
    /\ isaPc = "key" /\ csn = 1 /\ bit = 1
    /\ serial = <<>> /\ checksum = 106 /\ received = <<>>
    /\ children = <<>>

\* The key wakes the cards from their key state, and the reset takes their numbers.
Isa_SendInitiationKey ==
    /\ isaPc = "key"
    /\ cards' = [c \in DOMAIN cards |-> [cards[c] EXCEPT !.state = "sleep", !.csn = 0]]
    /\ isaPc' = "wake" /\ csn' = 1 /\ children' = <<>>
    /\ UNCHANGED <<ataPresent, bit, serial, checksum, received>>

\* Cards without number take part in the isolation.
Wake(c) == IF cards[c].csn = 0 THEN "isolation" ELSE "sleep"

SerialCleared == [k \in 1..SerialBits |-> 0]

ProbeWake ==
    /\ isaPc = "wake"
    /\ IF csn <= LastCsn /\ Len(children) < MaxChildren
       THEN /\ cards' = [c \in DOMAIN cards |-> [cards[c] EXCEPT !.state = Wake(c)]]
            /\ serial' = SerialCleared
            /\ bit' = 1 /\ checksum' = 106 /\ received' = <<>>
            /\ isaPc' = "isolate"
            /\ UNCHANGED <<ataPresent, csn, children>>
       ELSE /\ cards' = [c \in DOMAIN cards |-> [cards[c] EXCEPT !.state = "key"]]
            /\ isaPc' = "ata" /\ bit' = 1
            /\ UNCHANGED <<ataPresent, csn, serial, checksum, received, children>>

Isolating == {c \in DOMAIN cards : cards[c].state = "isolation"}

\* One pair of reads: 0x55 0xAA when any card drives a 1; the others step back.
\* serial[i / 8] |= bit: bits are only ever set.
IsolateBit ==
    /\ isaPc = "isolate" /\ bit <= SerialBits + 8
    /\ LET b == IF \E c \in Isolating : Sent(c, bit) = 1 THEN 1 ELSE 0
       IN  /\ cards' = [c \in DOMAIN cards |->
                          IF c \in Isolating /\ Sent(c, bit) < b
                          THEN [cards[c] EXCEPT !.state = "sleep"] ELSE cards[c]]
           /\ IF bit <= SerialBits
              THEN /\ serial' = IF b = 1 THEN [serial EXCEPT ![bit] = 1] ELSE serial
                   /\ checksum' = Shift(checksum, b)
                   /\ UNCHANGED received
              ELSE received' = Append(received, b) /\ UNCHANGED <<serial, checksum>>
    /\ bit' = bit + 1
    /\ UNCHANGED <<ataPresent, isaPc, csn, children>>

Received == FoldLeft(LAMBDA sum, k : sum + received[k] * 2^(k - 1), 0, [k \in 1..8 |-> k])
Isolated == Received = checksum /\ \E k \in 1..VendorBits : serial[k] = 1

NextCsn(created) == csn + 1

\* The card left over gets the number; creating its device may fail.  A failed
\* isolation ends the search.
IsolateEnd(created) ==
    /\ isaPc = "isolate" /\ bit > SerialBits + 8
    /\ IF Isolated
       THEN /\ cards' = [c \in DOMAIN cards |->
                           IF c \in Isolating THEN [cards[c] EXCEPT !.state = "config", !.csn = csn]
                           ELSE cards[c]]
            /\ children' = IF created THEN Append(children, [kind |-> "card", csn |-> csn, serial |-> serial])
                           ELSE children
            /\ csn' = NextCsn(created)
            /\ isaPc' = "wake"
            /\ UNCHANGED bit
       ELSE /\ cards' = [c \in DOMAIN cards |-> [cards[c] EXCEPT !.state = "key"]]
            /\ isaPc' = "ata" /\ bit' = 1
            /\ UNCHANGED <<csn, children>>
    /\ UNCHANGED <<ataPresent, serial, checksum, received>>

\* The fixed channels: one that answers becomes a child while there is room.
ProbeAta(created) ==
    /\ isaPc = "ata"
    /\ IF bit > Len(AtaChannel) \/ Len(children) >= MaxChildren
       THEN isaPc' = "done" /\ UNCHANGED <<bit, children>>
       ELSE /\ children' = IF AtaChannel[bit] \in ataPresent /\ created
                           THEN Append(children, [kind |-> "ata", csn |-> AtaChannel[bit], serial |-> <<>>])
                           ELSE children
            /\ bit' = bit + 1
            /\ UNCHANGED isaPc
    /\ UNCHANGED <<cards, ataPresent, csn, serial, checksum, received>>

IsaNext ==
    \/ Isa_SendInitiationKey \/ ProbeWake \/ IsolateBit
    \/ \E created \in BOOLEAN : IsolateEnd(created) \/ ProbeAta(created)

(***************************************************************************)
(* DMA.                                                                    *)
(***************************************************************************)
Segment == Radix * Radix
Is16(c) == c >= 4
DmaUnit == IF Is16(channel) THEN 2 ELSE 1
NoRegs == [addr |-> 0, count |-> 0, page |-> 0, masked |-> TRUE, start |-> 0, first |-> 0]

\* A driver with an even buffer on a 16-bit channel.
DmaInit ==
    /\ channel \in Channels
    /\ buffer \in {b \in Buffers : b.base % DmaUnit = 0 /\ b.size % DmaUnit = 0}
    /\ autoInit \in BOOLEAN
    /\ dmaPc = "map" /\ moved = 0
    /\ piece = [at |-> 0, size |-> 0]
    /\ regs = NoRegs /\ touched = {}

\* The length that may be moved at once: to the next 64 KiB boundary at most.
Isa_MapTransfer(addr, length) ==
    IF addr \div Segment # (addr + length - 1) \div Segment
    THEN Segment - (addr % Segment) ELSE length

DriverMap ==
    /\ dmaPc = "map"
    /\ IF moved = buffer.size
       THEN dmaPc' = "done" /\ UNCHANGED piece
       ELSE /\ piece' = [at |-> buffer.base + moved,
                         size |-> Isa_MapTransfer(buffer.base + moved, buffer.size - moved)]
            /\ dmaPc' = "setup"
    /\ UNCHANGED <<channel, buffer, moved, autoInit, regs, touched>>

\* The count and address registers hold 16 bits; the controller moves count + 1 units.
DmaCount(size) == ((size \div DmaUnit) - 1) % Segment
DmaAddr(addr) == (addr \div DmaUnit) % Segment
PageOf(addr) == (addr \div Segment) % Radix

\* The channel is masked while its registers are written, each byte by byte after
\* a reset of the flip-flop.
Isa_SetupTransfer ==
    /\ dmaPc = "setup"
    /\ regs' = [addr |-> DmaAddr(piece.at), count |-> DmaCount(piece.size), page |-> PageOf(piece.at),
                masked |-> FALSE, start |-> DmaAddr(piece.at), first |-> DmaCount(piece.size)]
    /\ dmaPc' = "run" /\ touched' = {}
    /\ UNCHANGED <<channel, buffer, moved, piece, autoInit>>

\* The byte the controller addresses: a 16-bit channel leaves out the page's low bit.
Addressed ==
    IF Is16(channel) THEN (regs.page - (regs.page % 2)) * Segment + regs.addr * 2
    ELSE regs.page * Segment + regs.addr

\* One unit moves; at the end of the count the channel masks itself or starts over.
ControllerMoves ==
    /\ dmaPc = "run" /\ ~regs.masked
    /\ touched' = touched \cup (Addressed..(Addressed + DmaUnit - 1))
    /\ regs' = IF regs.count > 0
               THEN [regs EXCEPT !.count = @ - 1, !.addr = (@ + 1) % Segment]
               ELSE IF autoInit THEN [regs EXCEPT !.count = regs.first, !.addr = regs.start]
               ELSE [regs EXCEPT !.count = Segment - 1, !.addr = (@ + 1) % Segment, !.masked = TRUE]
    /\ UNCHANGED <<dmaPc, channel, buffer, moved, piece, autoInit>>

\* Bytes still to move, as the driver reads them back.
Isa_ReadCounter == (regs.count + 1) * DmaUnit

\* The driver ends the piece once all of it has moved.
Isa_StopTransfer ==
    /\ dmaPc = "run"
    /\ Cardinality(touched) >= piece.size
    /\ regs' = [regs EXCEPT !.masked = TRUE]
    /\ moved' = moved + piece.size
    /\ dmaPc' = "map"
    /\ UNCHANGED <<channel, buffer, piece, autoInit, touched>>

DmaNext == DriverMap \/ Isa_SetupTransfer \/ ControllerMoves \/ Isa_StopTransfer

(***************************************************************************)
(* Properties.                                                             *)
(***************************************************************************)
\* No two cards ever answer to one number, even when the device of a card could
\* not be created.
CardNumbersUnique ==
    \A c, d \in DOMAIN cards : cards[c].csn # 0 /\ cards[c].csn = cards[d].csn => c = d

\* A card's device carries the serial number of the card that has its number,
\* however the cards' bits mixed on the wire.
ChildMatchesCard ==
    \A n \in DOMAIN children : children[n].kind = "card" =>
        \E c \in DOMAIN cards : cards[c].csn = children[n].csn /\ Serial[c] = children[n].serial

\* If no card's checksum is damaged, the search ends only when every card has a
\* number or the numbers or the places for children are used up.
EveryCardNumbered ==
    isaPc \in {"ata", "done"} /\ (\A c \in DOMAIN cards : cards[c].sum) =>
        \/ \A c \in DOMAIN cards : cards[c].csn # 0
        \/ csn > LastCsn \/ Len(children) >= MaxChildren

\* The controller touches no byte outside the piece of the buffer it was given.
TransferInBuffer ==
    dmaPc = "run" => touched \subseteq piece.at..(piece.at + piece.size - 1)
                     /\ piece.at + piece.size <= buffer.base + buffer.size

\* While a transfer runs, what it has moved and what the counter says is left make
\* up the piece.
CounterMatches ==
    dmaPc = "run" /\ ~autoInit /\ ~regs.masked => Isa_ReadCounter + Cardinality(touched) = piece.size

(* Isolation numbers every card once and reports the card it numbered, and *)
(* a DMA transfer stays in its buffer.                                     *)
BusSound ==
    /\ CardNumbersUnique /\ ChildMatchesCard /\ EveryCardNumbered
    /\ TransferInBuffer /\ CounterMatches
=============================================================================
