----------------------------- MODULE PcanDriver -----------------------------
(***************************************************************************)
(* The PCAN driver: one PLIN client whose receive queue holds the frames   *)
(* of every connected hardware.  Whoever reads takes the next frame, keeps *)
(* it if it belongs to his channel and passes it on otherwise.             *)
(*                                                                         *)
(* readMu is held only together with callMu and left out.  Channels and    *)
(* hardware handles correspond one to one (mapHardware refuses anything    *)
(* else), so a channel stands for its hardware.                            *)
(***************************************************************************)
EXTENDS DriverCalls

VARIABLES
    opened,             \* the constructor returned the driver
    loaded,             \* the DLL is loaded, which Close may fail to undo
    client,             \* PCAN.client is not 0
    registered,         \* the library knows the client
    connectedHardware,  \* hardware the driver will disconnect
    attached,           \* hardware the library has connected
    closeErr            \* the library refused a step of Close

hardwareVars == <<client, registered, connectedHardware, attached>>
closeVars == <<closed, once, loaded, closeErr>>
vars == <<pc, calls, callVars, held, callMu, queueVars, busVars, passed,
          opened, hardwareVars, closeVars>>

InLibrary == {"call", "receive"}

Init ==
    /\ CallsInit
    /\ \E c \in Callers : pc = [d \in Callers |-> IF d = c THEN "register" ELSE "idle"]
    /\ opened = FALSE
    /\ loaded = TRUE
    /\ client = FALSE /\ registered = FALSE
    /\ connectedHardware = {} /\ attached = {}
    /\ closeErr = FALSE

-----------------------------------------------------------------------------
(***************************************************************************)
(* NewPCANWithConfig.  Whatever fails, the driver is closed again.         *)
(***************************************************************************)
Opening(c, at) ==
    /\ pc[c] = at
    /\ UNCHANGED <<callVars, calls, held, callMu, queueVars, busVars, passed>>
    /\ UNCHANGED <<loaded, closeErr>>

\* The deferred clean-up; nobody else has the driver yet.
CleanUp(c) == Goto(c, "close") /\ closed' = TRUE /\ once' = "running"

register(c) ==
    /\ Opening(c, "register")
    /\ \/ /\ client' = TRUE /\ registered' = TRUE
          /\ Goto(c, "connect")
          /\ UNCHANGED <<closed, once>>
       \/ CleanUp(c) /\ UNCHANGED <<client, registered>>
    /\ UNCHANGED <<opened, connectedHardware, attached>>

\* The hardware cannot be listed, or the channels cannot be mapped to it.
mapHardware(c) ==
    /\ Opening(c, "connect")
    /\ connectedHardware = {}
    /\ CleanUp(c)
    /\ UNCHANGED <<opened, hardwareVars>>

\* Mutant of Noted: hardware is noted when it is initialized, not when connected.
NotedLater(k) == {}

Noted(k) == {k}

\* connectAndInitialize, first call: the client is connected, or refused.
connect(c) ==
    /\ Opening(c, "connect")
    /\ \E k \in Channels \ attached :
        \/ /\ attached' = attached \cup {k}
           /\ connectedHardware' = connectedHardware \cup Noted(k)
           /\ Goto(c, "initialize")
           /\ UNCHANGED <<closed, once>>
        \/ CleanUp(c) /\ UNCHANGED <<connectedHardware, attached>>
    /\ UNCHANGED <<opened, client, registered>>

\* The calls that follow: parameters, LIN_InitializeHardware, the filter.
initialize(c) ==
    /\ Opening(c, "initialize")
    /\ \/ CleanUp(c) /\ UNCHANGED opened
       \/ /\ attached # Channels
          /\ Goto(c, "connect")
          /\ UNCHANGED <<opened, closed, once>>
       \/ /\ attached = Channels
          /\ opened' = TRUE
          /\ Goto(c, "idle")
          /\ UNCHANGED <<closed, once>>
    /\ UNCHANGED hardwareVars

-----------------------------------------------------------------------------
(***************************************************************************)
(* Calls.  The library is called with callMu held, after one more look at  *)
(* the state of the driver.                                                *)
(***************************************************************************)
Running == UNCHANGED <<opened, hardwareVars, closeVars>>

\* "other" calls change nothing the model has: RequestSlaveResponse, whose
\* answer is one more frame nobody's MasterRead asked for, HardwareInfo, and
\* ScheduleSlaveResponse, the only one a driver in slave mode has besides
\* ReadEvent and Reset.
Operations == {"read", "write", "masterRead", "reset", "other"}

Start(c) ==
    /\ opened
    /\ \E o \in Operations : Begin(c, o)
    /\ Running
    /\ UNCHANGED <<held, callMu, queueVars, busVars, passed>>

LockChannel(c) ==
    /\ lock(c)
    /\ Running
    /\ UNCHANGED <<calls, held, callMu, queueVars, busVars, passed>>

\* Mutant of validateChannelStateOnly: closed is not looked at again.
validateNothing == TRUE

validateChannelStateOnly == ~closed /\ loaded /\ client

Lock(c) ==
    /\ pc[c] \in {"lock", "readLock"}
    /\ callMu = "free"
    /\ \/ /\ validateChannelStateOnly
          /\ callMu' = c
          /\ Goto(c, IF pc[c] = "lock" THEN "call" ELSE "receive")
          /\ UNCHANGED callVars
       \/ /\ ~validateChannelStateOnly
          /\ Return(c)
          /\ UNCHANGED callMu
    /\ Running
    /\ UNCHANGED <<calls, held, queueVars, busVars, passed>>

LibraryCall(c, at) ==
    /\ pc[c] = at
    /\ callMu' = "free"
    /\ Running
    /\ UNCHANGED <<calls, events, passed>>

\* The library refuses, or there is nothing else to the call.
CallEnds(c) ==
    /\ LibraryCall(c, "call")
    /\ Return(c)
    /\ UNCHANGED <<held, rxQueue, busVars>>

Reset(c) ==
    /\ LibraryCall(c, "call")
    /\ op[c] = "reset"
    /\ rxQueue' = <<>>
    /\ Return(c)
    /\ UNCHANGED <<held, busVars>>

\* WriteMessage: the frame is out; its echo is queued after the unlock.
WriteMessage(c) ==
    /\ LibraryCall(c, "call")
    /\ op[c] = "write"
    /\ Goto(c, "echo")
    /\ UNCHANGED <<callVars, held, rxQueue, busVars>>

Echo(c) ==
    /\ pc[c] = "echo"
    /\ events' = Enqueued(ch[c], NewFrame(ch[c], FALSE, 0))
    /\ Return(c)
    /\ Running
    /\ UNCHANGED <<held, calls, callMu, rxQueue, busVars, passed>>

\* The header of a MasterRead, which goes on to read.
MasterRead(c) ==
    /\ LibraryCall(c, "call")
    /\ op[c] = "masterRead"
    /\ bus' = bus \cup {[ch |-> ch[c], ask |-> asked[c]]}
    /\ Goto(c, "poll")
    /\ UNCHANGED <<callVars, held, rxQueue, arrived>>

-----------------------------------------------------------------------------
(***************************************************************************)
(* ReadEvent: the queue of the channel, then the library, until the        *)
(* timeout.  If the library has nothing it waits for the queue or a short  *)
(* while, and begins again: the same choices as at the start of the loop.  *)
(***************************************************************************)
TakeQueued(c) ==
    /\ pc[c] = "poll"
    /\ events[ch[c]] # <<>>
    /\ events' = [events EXCEPT ![ch[c]] = Tail(@)]
    /\ Deliver(c, Head(events[ch[c]]))
    /\ Running
    /\ UNCHANGED <<calls, held, callMu, rxQueue, busVars, passed>>

\* Nothing queued, or readMasterResponse has no time left to look.
TimeOut(c) ==
    /\ pc[c] = "poll"
    /\ events[ch[c]] = <<>> \/ op[c] = "masterRead"
    /\ Return(c)
    /\ Running
    /\ UNCHANGED <<calls, held, callMu, queueVars, busVars, passed>>

LookFurther(c) ==
    /\ pc[c] = "poll"
    /\ events[ch[c]] = <<>>
    /\ Goto(c, "readLock")
    /\ Running
    /\ UNCHANGED <<calls, callVars, held, callMu, queueVars, busVars, passed>>

readOne(c) ==
    /\ LibraryCall(c, "receive")
    /\ \/ /\ rxQueue = <<>>
          /\ Goto(c, "poll")
          /\ UNCHANGED <<callVars, held, rxQueue>>
       \/ /\ rxQueue # <<>>
          /\ held' = [held EXCEPT ![c] = Head(rxQueue)]
          /\ rxQueue' = Tail(rxQueue)
          /\ Goto(c, "got")
          /\ UNCHANGED callVars
       \/ /\ Return(c)    \* LIN_Read failed
          /\ UNCHANGED <<held, rxQueue>>
    /\ UNCHANGED busVars

\* Mutant of Own: the channel of the frame is not looked at.
OwnAny(c) == TRUE

Own(c) == held[c].ch = ch[c]

\* A rejected frame is skipped, an own one returned, another one passed on.
Dispatch(c) ==
    /\ pc[c] = "got"
    /\ \/ /\ ~held[c].bad /\ Own(c)
          /\ Deliver(c, held[c])
          /\ UNCHANGED <<events, passed>>
       \/ /\ ~held[c].bad /\ ~Own(c)
          /\ events' = Enqueued(held[c].ch, held[c])
          /\ passed' = passed \cup {held[c].n}
          /\ Goto(c, "poll")
          /\ UNCHANGED callVars
       \/ /\ held[c].bad
          /\ Goto(c, "poll")
          /\ UNCHANGED <<callVars, events, passed>>
    /\ held' = [held EXCEPT ![c] = NoFrame]
    /\ Running
    /\ UNCHANGED <<calls, callMu, rxQueue, busVars>>

-----------------------------------------------------------------------------
(***************************************************************************)
(* Close: disconnect, remove the client, unload; errors are collected.     *)
(***************************************************************************)
Close(c) ==
    /\ opened
    /\ BeginClose(c)
    /\ UNCHANGED <<opened, hardwareVars, loaded, closeErr>>
    /\ UNCHANGED <<held, callMu, queueVars, busVars, passed>>

\* Mutant of CallMuFree: Close tears down without waiting for calls under way.
CallMuFreeAlways == TRUE

CallMuFree == callMu = "free"

Closing(c, at) ==
    /\ pc[c] = at
    /\ UNCHANGED <<calls, held, queueVars, busVars, passed, opened, closed>>

LockClose(c) ==
    /\ Closing(c, "close")
    /\ CallMuFree
    /\ callMu' = c
    /\ Goto(c, "disconnect")
    /\ UNCHANGED <<callVars, hardwareVars, once, loaded, closeErr>>

\* Each hardware is tried, whatever the library says of the one before; then
\* the client is removed, if there is one.
disconnect(c) ==
    /\ Closing(c, "disconnect")
    /\ \E refused \in SUBSET connectedHardware, kept \in BOOLEAN :
        /\ attached' = (attached \ connectedHardware) \cup refused
        /\ registered' = (registered /\ kept)
        /\ closeErr' = (refused # {} \/ (client /\ kept))
    /\ client' = FALSE
    /\ Goto(c, "unload")
    /\ UNCHANGED <<callVars, callMu, once, loaded, connectedHardware>>

unload(c) ==
    /\ Closing(c, "unload")
    /\ \E refused \in BOOLEAN :
        /\ loaded' = refused
        /\ closeErr' = (closeErr \/ refused)
    /\ callMu' = "free"
    /\ once' = "done"
    /\ Return(c)
    /\ UNCHANGED hardwareVars

Join(c) == Joined(c) /\ UNCHANGED <<opened, hardwareVars, loaded, closeErr>>

-----------------------------------------------------------------------------
Receives(c) ==
    \/ TakeQueued(c) \/ TimeOut(c) \/ LookFurther(c) \/ readOne(c) \/ Dispatch(c)

Works(c) ==
    \/ register(c) \/ mapHardware(c) \/ connect(c) \/ initialize(c)
    \/ LockChannel(c) \/ Lock(c) \/ CallEnds(c) \/ Reset(c) \/ WriteMessage(c) \/ Echo(c)
    \/ MasterRead(c)
    \/ LockClose(c) \/ disconnect(c) \/ unload(c) \/ Join(c)

Traffic == Bus(attached) /\ Running

Next ==
    \/ \E c \in Callers : Start(c) \/ Close(c) \/ Receives(c) \/ Works(c)
    \/ Traffic

Spec == Init /\ [][Next]_vars

-----------------------------------------------------------------------------
TypeOK ==
    /\ pc \in [Callers -> {"register", "connect", "initialize", "idle", "channel",
                           "lock", "readLock", "call", "receive", "poll", "got",
                           "echo", "close", "disconnect", "unload", "join"}]
    /\ op \in [Callers -> {"none", "close"} \cup Operations]
    /\ CallsTypeOK
    /\ opened \in BOOLEAN /\ loaded \in BOOLEAN
    /\ client \in BOOLEAN /\ registered \in BOOLEAN
    /\ connectedHardware \subseteq Channels /\ attached \subseteq Channels
    /\ closeErr \in BOOLEAN

(***************************************************************************)
(* No goroutine is inside the library when its client is removed or the    *)
(* DLL unloaded: Close takes callMu, and whoever gets it afterwards looks  *)
(* at closed once more (pcan.go:647, 739, 853, 999).                       *)
(***************************************************************************)
LibraryPresent ==
    \A c \in Callers : pc[c] \in InLibrary => loaded /\ client /\ registered

(***************************************************************************)
(* A Close that reports no error, also the one after a failed constructor, *)
(* leaves no hardware connected, no client registered and no DLL loaded    *)
(* (pcan.go:1016).                                                         *)
(***************************************************************************)
ClosedCleanly ==
    once = "done" /\ ~closeErr => attached = {} /\ ~registered /\ ~loaded

(***************************************************************************)
(* A frame reaches its reader after a newer one of the channel only if     *)
(* another channel's reader took it from the library and passed it on; a   *)
(* channel read alone is read in order (pcan.go:585-603).                  *)
(***************************************************************************)
OvertakenOnlyIfPassedOn == late \subseteq passed

(***************************************************************************)
(* No MasterRead returns the answer another one still waits for, whatever  *)
(* channels they read and whoever took the frame from the library          *)
(* (common.go:27, pcan.go:760).                                            *)
(***************************************************************************)
OwnAnswers == stolen = {}
=============================================================================
