---------------------------- MODULE VectorDriver ----------------------------
(***************************************************************************)
(* The Vector driver: one XL port whose receive queue holds the events of  *)
(* all channels, read as PcanDriver reads its client.  Here a write is     *)
(* several library calls: the master is its own slave for the frames it    *)
(* publishes, and a header is answered by whichever response is installed  *)
(* for its ID at that moment.  The model has one such ID per channel.      *)
(***************************************************************************)
EXTENDS DriverCalls

VARIABLES
    opened,      \* the constructor returned the driver
    driverOpen,  \* xlOpenDriver is in force
    port,        \* Vector.portHandle is valid
    portOpen,    \* the library has the port open
    active,      \* channels are on the bus
    response,    \* per channel: whose data is installed, or "none"
    answers,     \* per channel: this node answers the header itself
    closeErr     \* the library refused a step of Close

portVars == <<driverOpen, port, portOpen, active>>
slaveVars == <<response, answers>>
vars == <<pc, calls, callVars, held, callMu, queueVars, busVars, passed,
          opened, closed, once, portVars, slaveVars, closeErr>>

InLibrary == {"call", "switch", "send", "receive"}

Init ==
    /\ CallsInit
    /\ \E c \in Callers : pc = [d \in Callers |-> IF d = c THEN "openDriver" ELSE "idle"]
    /\ opened = FALSE
    /\ driverOpen = FALSE /\ port = FALSE /\ portOpen = FALSE /\ active = FALSE
    /\ response = [k \in Channels |-> "none"]
    /\ answers = [k \in Channels |-> FALSE]
    /\ closeErr = FALSE

-----------------------------------------------------------------------------
(***************************************************************************)
(* NewVectorWithConfig.  If open fails anywhere the driver is closed.      *)
(***************************************************************************)
Opening(c, at) ==
    /\ pc[c] = at
    /\ UNCHANGED <<calls, callVars, held, callMu, queueVars, busVars, passed>>
    /\ UNCHANGED <<slaveVars, closeErr>>

CleanUp(c) ==
    /\ Goto(c, "close")
    /\ closed' = TRUE /\ once' = "running"
    /\ UNCHANGED opened

openDriver(c) ==
    /\ Opening(c, "openDriver")
    /\ \/ /\ driverOpen' = TRUE
          /\ Goto(c, "openPort")
          /\ UNCHANGED <<opened, closed, once>>
       \/ CleanUp(c) /\ UNCHANGED driverOpen
    /\ UNCHANGED <<port, portOpen, active>>

\* resolveChannels may fail before it.
openPort(c) ==
    /\ Opening(c, "openPort")
    /\ \/ /\ port' = TRUE /\ portOpen' = TRUE
          /\ Goto(c, "activate")
          /\ UNCHANGED <<opened, closed, once>>
       \/ CleanUp(c) /\ UNCHANGED <<port, portOpen>>
    /\ UNCHANGED <<driverOpen, active>>

\* Access is granted, parameters are set, and the channels go on the bus.
activateChannel(c) ==
    /\ Opening(c, "activate")
    /\ \/ /\ active' = TRUE
          /\ opened' = TRUE
          /\ Goto(c, "idle")
          /\ UNCHANGED <<closed, once>>
       \/ CleanUp(c) /\ UNCHANGED active
    /\ UNCHANGED <<driverOpen, port, portOpen>>

-----------------------------------------------------------------------------
Running == UNCHANGED <<opened, closed, once, portVars, closeErr>>

\* "other" calls change nothing the model has: WakeUp, SetSleepMode and
\* ReceiveQueueLevel.  A driver in slave mode has "schedule" in place of the
\* calls that send a header.
Operations == {"read", "write", "request", "masterRead", "schedule", "reset", "other"}

Start(c) ==
    /\ opened
    /\ \E o \in Operations : Begin(c, o)
    /\ Running
    /\ UNCHANGED <<held, callMu, queueVars, busVars, passed, slaveVars>>

LockChannel(c) ==
    /\ lock(c)
    /\ Running
    /\ UNCHANGED <<calls, held, callMu, queueVars, busVars, passed, slaveVars>>

validateOpen == ~closed /\ port

\* Mutant of CallMuFree: the library is called without the mutex.
CallMuFreeAlways == TRUE

CallMuFree == callMu = "free"

Lock(c) ==
    /\ pc[c] \in {"lock", "readLock"}
    /\ CallMuFree
    /\ \/ /\ validateOpen
          /\ callMu' = c
          /\ Goto(c, IF pc[c] = "readLock" THEN "receive"
                     ELSE IF op[c] \in {"request", "masterRead"} THEN "switch" ELSE "call")
          /\ UNCHANGED callVars
       \/ /\ ~validateOpen
          /\ Return(c)
          /\ UNCHANGED callMu
    /\ Running
    /\ UNCHANGED <<calls, held, queueVars, busVars, passed, slaveVars>>

\* The library call at pc, made under callMu.
LibraryCall(c, at) ==
    /\ pc[c] \in at
    /\ Running
    /\ UNCHANGED <<calls, events, passed>>

Unlock == callMu' = "free"

\* The library refuses, and the steps before it stay done; or it was all.
CallEnds(c) ==
    /\ LibraryCall(c, {"call", "switch", "send"})
    /\ Unlock
    /\ Return(c)
    /\ UNCHANGED <<held, rxQueue, busVars, slaveVars>>

FlushReceiveQueue(c) ==
    /\ LibraryCall(c, {"call"})
    /\ op[c] = "reset"
    /\ rxQueue' = <<>>
    /\ Unlock
    /\ Return(c)
    /\ UNCHANGED <<held, busVars, slaveVars>>

\* First call of WriteMessage and ScheduleSlaveResponse: the data.
linSetSlaveData(c) ==
    /\ LibraryCall(c, {"call"})
    /\ op[c] \in {"write", "schedule"}
    /\ response' = [response EXCEPT ![ch[c]] = c]
    /\ Goto(c, "switch")
    /\ UNCHANGED <<callVars, callMu, held, rxQueue, busVars, answers>>

\* The response is enabled for an own frame and disabled for a slave's.
linSwitchSlaveMode(c) ==
    /\ LibraryCall(c, {"switch"})
    /\ answers' = [answers EXCEPT ![ch[c]] = op[c] \in {"write", "schedule"}]
    /\ IF op[c] = "schedule"
       THEN Return(c) /\ Unlock
       ELSE Goto(c, "send") /\ UNCHANGED <<callVars, callMu>>
    /\ UNCHANGED <<held, rxQueue, busVars, response>>

\* The header, whose answer comes from this node or from a slave.
linSendRequestForID(c) ==
    /\ LibraryCall(c, {"send"})
    /\ bus' = bus \cup {[ch |-> ch[c], ask |-> IF answers[ch[c]] THEN 0 ELSE asked[c]]}
    /\ IF op[c] = "masterRead"
       THEN Goto(c, "poll") /\ UNCHANGED callVars
       ELSE Return(c)
    /\ Unlock
    /\ UNCHANGED <<held, rxQueue, arrived, slaveVars>>

-----------------------------------------------------------------------------
(***************************************************************************)
(* ReadEvent, with the wait for the queue as in PcanDriver.                *)
(***************************************************************************)
TakeQueued(c) ==
    /\ pc[c] = "poll"
    /\ events[ch[c]] # <<>>
    /\ events' = [events EXCEPT ![ch[c]] = Tail(@)]
    /\ Deliver(c, Head(events[ch[c]]))
    /\ Running
    /\ UNCHANGED <<calls, held, callMu, rxQueue, busVars, passed, slaveVars>>

LookFurther(c) ==
    /\ pc[c] = "poll"
    /\ events[ch[c]] = <<>>
    /\ Goto(c, "readLock")
    /\ Running
    /\ UNCHANGED <<calls, callVars, held, callMu, queueVars, busVars, passed, slaveVars>>

\* ReadEvent looks at its timeout only when the library had no frame for
\* anybody, readMasterResponse before each ReadEvent.
TimeOut(c) ==
    /\ \/ pc[c] = "idleLibrary"
       \/ pc[c] = "poll" /\ op[c] = "masterRead"
    /\ Return(c)
    /\ Running
    /\ UNCHANGED <<calls, held, callMu, queueVars, busVars, passed, slaveVars>>

LookAgain(c) ==
    /\ pc[c] = "idleLibrary"
    /\ Goto(c, "poll")
    /\ Running
    /\ UNCHANGED <<calls, callVars, held, callMu, queueVars, busVars, passed, slaveVars>>

\* A bus event that is no frame counts for nothing; a frame that does not
\* decode fails the call of whoever took it, whatever its channel.
readOne(c) ==
    /\ LibraryCall(c, {"receive"})
    /\ Unlock
    /\ \/ /\ rxQueue = <<>>
          /\ Goto(c, "idleLibrary")
          /\ UNCHANGED <<callVars, held, rxQueue>>
       \/ /\ rxQueue # <<>>
          /\ rxQueue' = Tail(rxQueue)
          /\ IF Head(rxQueue).bad
             THEN /\ \/ Return(c)
                     \/ Goto(c, "idleLibrary") /\ UNCHANGED callVars
                  /\ UNCHANGED held
             ELSE /\ held' = [held EXCEPT ![c] = Head(rxQueue)]
                  /\ Goto(c, "got")
                  /\ UNCHANGED callVars
       \/ /\ Return(c)    \* xlReceive failed
          /\ UNCHANGED <<held, rxQueue>>
    /\ UNCHANGED <<busVars, slaveVars>>

Dispatch(c) ==
    /\ pc[c] = "got"
    /\ \/ /\ held[c].ch = ch[c]
          /\ Deliver(c, held[c])
          /\ UNCHANGED <<events, passed>>
       \/ /\ held[c].ch # ch[c]
          /\ events' = Enqueued(held[c].ch, held[c])
          /\ passed' = passed \cup {held[c].n}
          /\ Goto(c, "poll")
          /\ UNCHANGED callVars
    /\ held' = [held EXCEPT ![c] = NoFrame]
    /\ Running
    /\ UNCHANGED <<calls, callMu, rxQueue, busVars, slaveVars>>

-----------------------------------------------------------------------------
(***************************************************************************)
(* Close: deactivate, close the port, close the driver, whatever fails.    *)
(***************************************************************************)
Close(c) ==
    /\ opened
    /\ BeginClose(c)
    /\ UNCHANGED <<opened, portVars, closeErr>>
    /\ UNCHANGED <<held, callMu, queueVars, busVars, passed, slaveVars>>

Closing(c, at) ==
    /\ pc[c] = at
    /\ UNCHANGED <<calls, held, queueVars, busVars, passed, slaveVars, opened, closed>>

LockClose(c) ==
    /\ Closing(c, "close")
    /\ CallMuFree
    /\ callMu' = c
    /\ Goto(c, IF port THEN "deactivate" ELSE "closeDriver")
    /\ UNCHANGED <<callVars, portVars, once, closeErr>>

closePort(c) ==
    /\ Closing(c, "deactivate")
    /\ \E deactivated, isClosed \in BOOLEAN :
        /\ active' = (active /\ ~deactivated)
        /\ portOpen' = ~isClosed
        /\ closeErr' = ~(deactivated /\ isClosed)
    /\ port' = FALSE
    /\ Goto(c, "closeDriver")
    /\ UNCHANGED <<callVars, callMu, driverOpen, once>>

closeDriver(c) ==
    /\ Closing(c, "closeDriver")
    /\ \/ driverOpen' = FALSE /\ UNCHANGED closeErr
       \/ closeErr' = TRUE /\ UNCHANGED driverOpen
    /\ Unlock
    /\ once' = "done"
    /\ Return(c)
    /\ UNCHANGED <<port, portOpen, active>>

Join(c) == Joined(c) /\ UNCHANGED <<opened, portVars, slaveVars, closeErr>>

-----------------------------------------------------------------------------
Receives(c) ==
    \/ TakeQueued(c) \/ TimeOut(c) \/ LookFurther(c) \/ LookAgain(c)
    \/ readOne(c) \/ Dispatch(c)

Works(c) ==
    \/ openDriver(c) \/ openPort(c) \/ activateChannel(c)
    \/ LockChannel(c) \/ Lock(c) \/ CallEnds(c) \/ FlushReceiveQueue(c)
    \/ linSetSlaveData(c) \/ linSwitchSlaveMode(c) \/ linSendRequestForID(c)
    \/ LockClose(c) \/ closePort(c) \/ closeDriver(c) \/ Join(c)

Traffic == Bus(IF active THEN Channels ELSE {}) /\ Running /\ UNCHANGED slaveVars

Next ==
    \/ \E c \in Callers : Start(c) \/ Close(c) \/ Receives(c) \/ Works(c)
    \/ Traffic

Spec == Init /\ [][Next]_vars

-----------------------------------------------------------------------------
TypeOK ==
    /\ pc \in [Callers -> {"openDriver", "openPort", "activate", "idle", "channel",
                           "lock", "readLock", "call", "switch", "send", "receive",
                           "poll", "idleLibrary", "got", "close", "deactivate",
                           "closeDriver", "join"}]
    /\ CallsTypeOK
    /\ op \in [Callers -> {"none", "close"} \cup Operations]
    /\ opened \in BOOLEAN /\ driverOpen \in BOOLEAN
    /\ port \in BOOLEAN /\ portOpen \in BOOLEAN /\ active \in BOOLEAN
    /\ response \in [Channels -> Callers \cup {"none"}]
    /\ answers \in [Channels -> BOOLEAN]
    /\ closeErr \in BOOLEAN

(***************************************************************************)
(* No goroutine is inside the library when its port or the driver is       *)
(* closed (vector.go:497, 581, 846).                                       *)
(***************************************************************************)
LibraryPresent ==
    \A c \in Callers : pc[c] \in InLibrary => driverOpen /\ port /\ portOpen

(***************************************************************************)
(* A Close that reports no error, also the one after a failed constructor, *)
(* leaves no channel on the bus, no port and no driver open                *)
(* (vector.go:845).                                                        *)
(***************************************************************************)
ClosedCleanly ==
    once = "done" /\ ~closeErr => ~active /\ ~portOpen /\ ~driverOpen

OvertakenOnlyIfPassedOn == late \subseteq passed

OwnAnswers == stolen = {}

(***************************************************************************)
(* Between a call's preparation and its header nobody changes the channel: *)
(* a write sends its own data, and a request leaves the answer to a slave  *)
(* ("allowing an external slave to publish the response",                  *)
(* vector.go:640).                                                         *)
(***************************************************************************)
HeaderAsPrepared ==
    \A c \in Callers : pc[c] = "send" =>
        IF op[c] = "write" THEN answers[ch[c]] /\ response[ch[c]] = c
        ELSE ~answers[ch[c]]
=============================================================================
