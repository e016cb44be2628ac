--------------------------- MODULE InterruptLines ---------------------------
(***************************************************************************)
(* Connecting drivers to interrupt lines: KE_IO_ConnectInterrupt (io.cpp)  *)
(* over the handler registry (dispatch.hpp) and the HAL's line table and   *)
(* controller masks (intr.cpp).  What happens to a raised interrupt is in  *)
(* InterruptDispatch.                                                      *)
(***************************************************************************)
EXTENDS Integers, SequencesExt

CONSTANTS
    Driver,         \* each has one service routine object
    IrqLine,          \* the lines of the controller that drivers ask for
    BadLine,        \* a number beyond the controller's lines
    MaxHandlers     \* kMaxHandlersPerInterrupt

VARIABLES
    registry,       \* the handlers registered for each identifier
    g_hardware_interrupts,
    masked,         \* lines closed in the controllers
    connecting,     \* each driver's call: where it is and for which line
    connected       \* <<d, i>>: d was told that it has line i

lineVars == <<registry, g_hardware_interrupts, masked, connecting, connected>>

Nothing == "none"

(* A cleared entry of the line table is nobody's, and the bad number is    *)
(* beyond the table.                                                       *)
ASSUME LineAssumption == Nothing \notin Driver /\ BadLine \notin IrqLine

Asked == IrqLine \union {BadLine}
Out == [at |-> "out", irq |-> BadLine]

LineInit ==
    /\ registry = [i \in Asked |-> <<>>]
    /\ g_hardware_interrupts = [i \in IrqLine |-> Nothing]
    /\ masked = IrqLine
    /\ connecting = [d \in Driver |-> Out]
    /\ connected = {}

-----------------------------------------------------------------------------
(* KE_IO_ConnectInterrupt: register the handler first ...                  *)
RegisterHandler(d, i) ==
    /\ connecting[d] = Out /\ <<d, i>> \notin connected
    /\ IF Len(registry[i]) >= MaxHandlers
       THEN UNCHANGED <<registry, connecting>>
       ELSE /\ registry' = [registry EXCEPT ![i] = Append(@, d)]
            /\ connecting' = [connecting EXCEPT ![d] = [at |-> "registered", irq |-> i]]
    /\ UNCHANGED <<g_hardware_interrupts, masked, connected>>

(* HAL_INTR_ConnectInterrupt: the line exists and nobody has it.           *)
LineFree(i) == i \in IrqLine /\ g_hardware_interrupts[i] = Nothing

(* ... then take the line and open it ...                                  *)
ConnectLine(d) ==
    LET i == connecting[d].irq IN
    /\ connecting[d].at = "registered" /\ LineFree(i)
    /\ g_hardware_interrupts' = [g_hardware_interrupts EXCEPT ![i] = d]
    /\ masked' = masked \ {i}
    /\ connected' = connected \union {<<d, i>>}
    /\ connecting' = [connecting EXCEPT ![d] = Out]
    /\ UNCHANGED registry

(* Faulty variant: a refused connection leaves its handler behind.         *)
RolledBackNot(i) == registry[i]

(* KE_DISPATCH_UnregisterHandler empties the identifier's slot.            *)
RolledBack(i) == <<>>

(* ... or take the registration back.                                      *)
ConnectRefused(d) ==
    LET i == connecting[d].irq IN
    /\ connecting[d].at = "registered" /\ ~LineFree(i)
    /\ registry' = [registry EXCEPT ![i] = RolledBack(i)]
    /\ connecting' = [connecting EXCEPT ![d] = Out]
    /\ UNCHANGED <<g_hardware_interrupts, masked, connected>>

MaskedAfter(i) == masked \union {i}

(* KE_IO_DisconnectInterrupt by the driver that has the line.              *)
DisconnectInterrupt(d, i) ==
    /\ <<d, i>> \in connected /\ connecting[d] = Out
    /\ registry' = [registry EXCEPT ![i] = <<>>]
    /\ g_hardware_interrupts' = [g_hardware_interrupts EXCEPT ![i] = Nothing]
    /\ masked' = MaskedAfter(i)
    /\ connected' = connected \ {<<d, i>>}
    /\ UNCHANGED connecting

-----------------------------------------------------------------------------
LineNext ==
    \/ \E d \in Driver : ConnectLine(d) \/ ConnectRefused(d)
    \/ \E d \in Driver, i \in Asked : RegisterHandler(d, i)
    \/ \E d \in Driver, i \in IrqLine : DisconnectInterrupt(d, i)

LineSpec == LineInit /\ [][LineNext]_lineVars

-----------------------------------------------------------------------------
(* A line has one driver: two connections of one line never both succeed   *)
(* and a line is open exactly while its driver is connected                *)
(* (HAL_INTR_ConnectInterrupt, HAL_INTR_SetIrqMask).                       *)
OneDriverPerLine ==
    /\ \A c, e \in connected : c[2] = e[2] => c = e
    /\ masked = {i \in IrqLine : \A d \in Driver : <<d, i>> \notin connected}

(* A handler stays registered only for a driver that has its line or is    *)
(* still connecting: a refused or ended connection leaves none that the    *)
(* dispatch thread could call (the rollback of KE_IO_ConnectInterrupt).    *)
NoStrayHandler ==
    \A i \in Asked : \A k \in DOMAIN registry[i] :
        \/ <<registry[i][k], i>> \in connected
        \/ connecting[registry[i][k]] = [at |-> "registered", irq |-> i]

(* A connected driver keeps being called: nobody else's connection takes   *)
(* its handler away.                                                       *)
ConnectedIsCalled ==
    \A c \in connected : Contains(registry[c[2]], c[1])

(* The claims of the line registry and the handlers in the vectors agree.  *)
LinesConsistent == OneDriverPerLine /\ NoStrayHandler
=============================================================================
