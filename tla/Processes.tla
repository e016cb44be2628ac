------------------------------ MODULE Processes ------------------------------
(***************************************************************************)
(* Processes: the handle table of KProcessObject.hpp, process creation     *)
(* (user_process.cpp and the CreateProcess system call), the wait for the  *)
(* child's loader, waiting for a process and process exit (process.cpp).   *)
(* A process has one thread; a system call runs alone until it waits.      *)
(***************************************************************************)
EXTENDS Integers, FiniteSets, SequencesExt

CONSTANTS
    Proc, FirstProc,
    Active,        \* bound: the processes that open and close handles
    MaxRaw,        \* the handle numbers of a table: UINT32_MAX in the code
    Streams,       \* standard streams: 3 in the code
    MaxToken       \* reservation identities before they wrap

VARIABLES
    pstate,        \* process -> "none", "loading", "running", "terminated"
    handles,       \* process -> ProcessHandleTable
    startup,       \* process -> startupEvent signalled, startupReady
    exited,        \* process -> exitHeader signalled
    pcall          \* process -> the system call its thread waits in

procVars == <<pstate, handles, startup, exited, pcall>>

Stream == 0..(Streams - 1)
Empty == [entries |-> <<>>, free_list |-> <<>>, next |-> 0, tokens |-> 0,
          standard |-> [s \in Stream |-> -1]]
NoWait == [pc |-> "run", child |-> FirstProc, handle |-> -1, token |-> 0]
Handles(table) == {e.handle : e \in ToSet(table.entries)}
Lookup(table, h) == SelectInSeq(table.entries, LAMBDA e : e.handle = h /\ e.reservation = 0)

-----------------------------------------------------------------------------
(* AllocateEntry: a freed number first; it fails when none is left.        *)
CanAllocate(table) == table.free_list # <<>> \/ table.next < MaxRaw
NewHandle(table) == IF table.free_list # <<>> THEN Head(table.free_list) ELSE table.next
AllocateEntry(table, object, flags) ==
    LET h == NewHandle(table)
    IN  [table EXCEPT
           !.entries = Append(@, [handle |-> h, object |-> object, flags |-> flags, reservation |-> 0]),
           !.free_list = IF @ # <<>> THEN Tail(@) ELSE @,
           !.next = IF table.free_list # <<>> THEN @ ELSE @ + 1]

Reserve(table) ==
    LET t == AllocateEntry(table, "none", {})  token == (table.tokens % MaxToken) + 1
    IN  [t EXCEPT !.tokens = token, !.entries[Len(t.entries)].reservation = token]

FindReservation(table, h, token) ==
    SelectInSeq(table.entries, LAMBDA e : e.reservation = token /\ e.handle = h)
Bind(table, h, token, object) ==
    LET i == FindReservation(table, h, token)
    IN  IF i = 0 THEN table
        ELSE [table EXCEPT !.entries[i].object = object, !.entries[i].reservation = 0]
Cancel(table, h, token) ==
    LET i == FindReservation(table, h, token)
    IN  IF i = 0 THEN table
        ELSE [table EXCEPT !.entries = RemoveAt(@, i), !.free_list = Append(@, h)]

Forget(standard, h) == [s \in Stream |-> IF standard[s] = h THEN -1 ELSE standard[s]]

(* Close finds bound entries only; a protected one stays.                  *)
Closable(table, h) ==
    SelectInSeq(table.entries,
                LAMBDA e : e.handle = h /\ e.reservation = 0 /\ "protect" \notin e.flags)
Close(table, h) ==
    LET i == Closable(table, h)
    IN  IF i = 0 THEN table
        ELSE [table EXCEPT !.entries = RemoveAt(@, i), !.free_list = Append(@, h),
                           !.standard = Forget(@, h)]

SetStandardHandle(table, s, h) ==
    IF Lookup(table, h) = 0 THEN table ELSE [table EXCEPT !.standard[s] = h]

(* AllocateStandardHandle of the streams in turn; NoTable when one fails.  *)
NoTable == [Empty EXCEPT !.next = -1]
AllocateStandardHandle(table, s, object) ==
    IF table = NoTable \/ ~CanAllocate(table) THEN NoTable
    ELSE SetStandardHandle(AllocateEntry(table, object, {"inherit"}), s, NewHandle(table))
AttachStandardStreams(table, object) ==
    FoldLeft(LAMBDA t, s : AllocateStandardHandle(t, s, object), table,
             [i \in 1..Streams |-> i - 1])

Inheritable(e) == "inherit" \in e.flags /\ e.reservation = 0
(* InheritHandlesFrom: the parent's inheritable entries, and its standard  *)
(* streams where they name one; NoTable when a handle cannot be had.       *)
InheritHandlesFrom(parent) ==
    FoldLeft(LAMBDA t, e :
                IF ~Inheritable(e) THEN t
                ELSE IF t = NoTable \/ ~CanAllocate(t) THEN NoTable
                ELSE [AllocateEntry(t, e.object, e.flags) EXCEPT
                        !.standard = [s \in Stream |-> IF parent.standard[s] = e.handle
                                                       THEN NewHandle(t) ELSE t.standard[s]]],
             Empty, parent.entries)

(* create_process: inherited or given streams, else the console; then the  *)
(* startup event.  Loading the image and making the thread may fail.       *)
ChildTable(parent) ==
    LET inherited == InheritHandlesFrom(parent)
        table == IF inherited # Empty THEN inherited ELSE AttachStandardStreams(Empty, "console")
    IN  IF table = NoTable \/ ~CanAllocate(table) THEN NoTable
        ELSE AllocateEntry(table, "startup", {})
ChildTableWithStreams(object) ==
    LET table == AttachStandardStreams(Empty, object)
    IN  IF table = NoTable \/ ~CanAllocate(table) THEN NoTable
        ELSE AllocateEntry(table, "startup", {})

ProcInit ==
    /\ pstate = [p \in Proc |-> IF p = FirstProc THEN "running" ELSE "none"]
    /\ handles = [p \in Proc |-> IF p = FirstProc THEN ChildTable(Empty) ELSE Empty]
    /\ startup = [p \in Proc |-> [signalled |-> FALSE, ready |-> FALSE]]
    /\ exited = [p \in Proc |-> FALSE]
    /\ pcall = [p \in Proc |-> NoWait]

-----------------------------------------------------------------------------
Runs(p) == pstate[p] \in {"loading", "running"} /\ pcall[p].pc = "run"
Referenced(c) == \E p \in Proc : \/ pcall[p].pc # "run" /\ pcall[p].child = c
                                 \/ pstate[p] \in {"loading", "running"}
                                    /\ \E e \in ToSet(handles[p].entries) : e.object = c
Free(c) == pstate[c] = "none" \/ (pstate[c] = "terminated" /\ ~Referenced(c))

handle_IO_Open(p) ==
    /\ Runs(p) /\ CanAllocate(handles[p])
    /\ handles' = [handles EXCEPT ![p] = AllocateEntry(@, "file", {})]
    /\ UNCHANGED <<pstate, startup, exited, pcall>>

handle_IO_Close(p, h) ==
    /\ Runs(p)
    /\ handles' = [handles EXCEPT ![p] = Close(@, h)]
    /\ UNCHANGED <<pstate, startup, exited, pcall>>

(* handle_CreateProcess_V1 and _V2 up to the wait for the child's loader.  *)
handle_CreateProcess(p, c, table) ==
    /\ Runs(p) /\ pstate[p] = "running" /\ Free(c) /\ CanAllocate(handles[p]) /\ table # NoTable
    /\ pstate' = [pstate EXCEPT ![c] = "loading"]
    /\ handles' = [handles EXCEPT ![p] = Reserve(@), ![c] = table]
    /\ startup' = [startup EXCEPT ![c] = [signalled |-> FALSE, ready |-> FALSE]]
    /\ exited' = [exited EXCEPT ![c] = FALSE]
    /\ pcall' = [pcall EXCEPT ![p] = [pc |-> "startup", child |-> c, handle |-> NewHandle(handles[p]),
                                      token |-> Reserve(handles[p]).tokens],
                              ![c] = NoWait]

(* create_process fails: the reservation is given back.                    *)
CreateFails(p) ==
    LET t == Reserve(handles[p])
    IN  /\ Runs(p) /\ pstate[p] = "running" /\ CanAllocate(handles[p])
        /\ handles' = [handles EXCEPT ![p] = Cancel(t, NewHandle(handles[p]), t.tokens)]
        /\ UNCHANGED <<pstate, startup, exited, pcall>>

(* ... after the wait: Bind the child, or Cancel when it never got ready.  *)
CreateReturns(p) ==
    LET c == pcall[p]
    IN  /\ c.pc = "startup" /\ startup[c.child].signalled
        /\ handles' = [handles EXCEPT ![p] =
               IF startup[c.child].ready THEN Bind(@, c.handle, c.token, c.child)
                                         ELSE Cancel(@, c.handle, c.token)]
        /\ pcall' = [pcall EXCEPT ![p] = NoWait]
        /\ UNCHANGED <<pstate, startup, exited>>

(* handle_SetEvent of the loader's startup event.                          *)
handle_SetEvent(p, h) ==
    LET i == Lookup(handles[p], h)
    IN  /\ Runs(p) /\ i # 0 /\ handles[p].entries[i].object = "startup"
        /\ startup' = [startup EXCEPT ![p] = [signalled |-> TRUE, ready |-> TRUE]]
        /\ pstate' = [pstate EXCEPT ![p] = "running"]
        /\ UNCHANGED <<handles, exited, pcall>>

(* handle_WaitProcess and handle_WaitForObject of a process.               *)
handle_WaitProcess(p, h) ==
    LET i == Lookup(handles[p], h)
    IN  /\ Runs(p) /\ i # 0 /\ handles[p].entries[i].object \in Proc
        /\ pcall' = [pcall EXCEPT ![p] = [NoWait EXCEPT !.pc = "exit", !.handle = h,
                                                        !.child = handles[p].entries[i].object]]
        /\ UNCHANGED <<pstate, handles, startup, exited>>

WaitReturns(p) ==
    /\ pcall[p].pc = "exit" /\ exited[pcall[p].child]
    /\ pcall' = [pcall EXCEPT ![p] = NoWait]
    /\ UNCHANGED <<pstate, handles, startup, exited>>

(* Faulty variant: an exit before the loader is done tells nobody.         *)
ExitSignalsNone(p) == startup[p].signalled
ExitSignals(p) == TRUE
(* handle_Exit and terminate_current; nothing reads the table of an ended  *)
(* process again.                                                          *)
handle_Exit(p) ==
    /\ Runs(p)
    /\ startup' = [startup EXCEPT ![p].signalled = ExitSignals(p)]
    /\ pstate' = [pstate EXCEPT ![p] = "terminated"]
    /\ exited' = [exited EXCEPT ![p] = TRUE]
    /\ handles' = [handles EXCEPT ![p] = Empty]
    /\ UNCHANGED pcall

Raw == 0..(MaxRaw - 1)
ProcNext ==
    \E p \in Proc :
        \/ CreateFails(p) \/ CreateReturns(p) \/ WaitReturns(p)
        \/ handle_Exit(p)
        \/ \E h \in Raw : handle_SetEvent(p, h) \/ handle_WaitProcess(p, h)
        \/ /\ p \in Active
           /\ \/ handle_IO_Open(p)
              \/ \E h \in Raw : handle_IO_Close(p, h)
        \/ \E c \in Proc : \/ handle_CreateProcess(p, c, ChildTable(handles[p]))
                           \/ /\ \E e \in ToSet(handles[p].entries) : e.object = "file"
                              /\ handle_CreateProcess(p, c, ChildTableWithStreams("file"))

ProcSpec == ProcInit /\ [][ProcNext]_procVars

-----------------------------------------------------------------------------
(* A handle number is live once, or free once: whatever sequence of opens, *)
(* reservations, cancellations and closes ran, no two objects share one.   *)
HandlesUnique ==
    \A p \in Proc : LET t == handles[p] IN
        /\ Cardinality(Handles(t)) = Len(t.entries)
        /\ Cardinality(ToSet(t.free_list)) = Len(t.free_list)
        /\ Handles(t) \cap ToSet(t.free_list) = {}
        /\ Handles(t) \cup ToSet(t.free_list) = 0..(t.next - 1)

(* A standard stream that is available names a live handle with an object, *)
(* in a process that inherited it as well as in one that closed handles.   *)
StreamsAreOpen ==
    \A p \in Proc, s \in Stream : LET t == handles[p] IN
        t.standard[s] # -1 =>
            LET i == Lookup(t, t.standard[s]) IN i # 0 /\ t.entries[i].object # "none"

(* A parent never waits for a loader that is gone: a child that ended      *)
(* before it was ready has signalled its startup event all the same.       *)
NoStrandedParent ==
    \A p \in Proc : LET c == pcall[p] IN
        /\ c.pc = "startup" /\ pstate[c.child] = "terminated" => startup[c.child].signalled
        /\ c.pc = "exit" /\ pstate[c.child] = "terminated" => exited[c.child]

(* Handle tables never name one handle twice, standard streams name open   *)
(* handles and a parent is not left waiting for a child that ended.        *)
ProcessesSound == HandlesUnique /\ StreamsAreOpen /\ NoStrandedParent
=============================================================================
