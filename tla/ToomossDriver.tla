---------------------------- MODULE ToomossDriver ----------------------------
(***************************************************************************)
(* The Toomoss driver, on Windows and on macOS: one USB adapter behind one *)
(* library that every driver object of the process shares.  NewToomoss     *)
(* admits one object at a time, but who holds an older, closed object may  *)
(* still call it, while the next one is made and used.                     *)
(*                                                                         *)
(* callMu serialises the calls of one object and is held at the points     *)
(* CallPcs; stateMu is held beyond a step only by ConfigureELINS, at       *)
(* "elins"; toomossInstanceMu at the points NewPcs.  All configured        *)
(* channels are LIN channels of every object: a call on another channel is *)
(* refused and changes nothing, as a NewToomoss is that finds an active    *)
(* object.                                                                 *)
(*                                                                         *)
(* A frame is a number in order of arrival, and 0 for what the driver puts *)
(* into its event queue by itself: the echo of a frame it wrote and the    *)
(* answer to a header it sent.                                             *)
(***************************************************************************)
EXTENDS Integers, Sequences, SequencesExt

CONSTANTS
    Callers,      \* goroutines
    Channels,
    QueueSize,    \* of an event queue
    Objects,      \* bound: driver objects made
    MaxCalls,     \* bound: calls started
    MaxFrames     \* bound: frames the adapter receives

Object == 1 .. Objects

VARIABLES
    platform,     \* "windows" or "darwin"; ELINS is there on Windows only
    pc,           \* where each goroutine is
    object,       \* the driver object it called, 0 for none
    ch,           \* the channel it was given
    held,         \* frames it has in hand
    calls,        \* calls started so far
    objects,      \* driver objects made so far, the newest has this number
    active,       \* toomossInstanceActive
    loaded,       \* the library is loaded
    deviceOpen,   \* the adapter is open
    closed,       \* objects that refuse calls
    once,         \* closeOnce of each object: "new", "running" or "done"
    closeErr,     \* objects whose Close failed
    elins,        \* elinsChannels of each object
    elinsOn,      \* channels whose ELINS the adapter says it has started
    toStart,      \* ConfigureELINS: channels still to start
    started,      \* ConfigureELINS: "initialized"
    toStop,       \* Close: its copy of elinsChannels
    rxQueue,      \* frames the library holds for each channel
    events,       \* event queues of each object
    arrived,      \* frames received so far
    newest,       \* history: newest frame each object returned per channel
    late,         \* history: frames returned after a newer one
    tried,        \* history: NewToomoss was called since the last Close
    overlapped    \* history: a Close began while a ReadEvent was about to load

callVars == <<pc, object, ch, held>>
libraryVars == <<active, loaded, deviceOpen>>
closeVars == <<closed, once, closeErr>>
elinsVars == <<elins, elinsOn, toStart, started, toStop>>
frameVars == <<rxQueue, events, arrived>>
history == <<newest, late, tried, overlapped>>
vars == <<platform, callVars, calls, objects, libraryVars, closeVars, elinsVars,
          frameVars, history>>

Init ==
    /\ platform \in {"windows", "darwin"}
    /\ pc = [c \in Callers |-> "idle"] /\ object = [c \in Callers |-> 0]
    /\ ch = [c \in Callers |-> "none"] /\ held = [c \in Callers |-> <<>>]
    /\ calls = 0 /\ objects = 0
    /\ active = FALSE /\ loaded = FALSE /\ deviceOpen = FALSE
    /\ closed = {} /\ once = [i \in Object |-> "new"] /\ closeErr = {}
    /\ elins = [i \in Object |-> {}] /\ elinsOn = {}
    /\ toStart = {} /\ started = {} /\ toStop = {}
    /\ rxQueue = [k \in Channels |-> <<>>]
    /\ events = [i \in Object |-> [k \in Channels |-> <<>>]]
    /\ arrived = 0
    /\ newest = [i \in Object |-> [k \in Channels |-> 0]] /\ late = {}
    /\ tried = FALSE /\ overlapped = FALSE

NewPcs == {"load", "open", "init"}
ReadPcs == {"poll", "ensure", "get", "fetch", "batch"}
CallPcs == {"sync", "fetch", "elins", "usbClose"}

Goto(c, at) == pc' = [pc EXCEPT ![c] = at] /\ UNCHANGED <<object, ch, held>>

\* A goroutine without a call starts one on channel k of object i.
Enter(c, i, k, at) ==
    /\ pc[c] = "idle"
    /\ calls < MaxCalls
    /\ calls' = calls + 1
    /\ pc' = [pc EXCEPT ![c] = at]
    /\ object' = [object EXCEPT ![c] = i]
    /\ ch' = [ch EXCEPT ![c] = k]
    /\ UNCHANGED <<platform, held, objects>>

Return(c) ==
    /\ pc' = [pc EXCEPT ![c] = "idle"]
    /\ object' = [object EXCEPT ![c] = 0]
    /\ ch' = [ch EXCEPT ![c] = "none"]
    /\ held' = [held EXCEPT ![c] = <<>>]

\* Further steps of a call.
Continue(c, at) == pc[c] = at /\ UNCHANGED <<platform, calls>>

-----------------------------------------------------------------------------
(***************************************************************************)
(* NewToomoss, all of it under toomossInstanceMu.                          *)
(***************************************************************************)
InstanceMuFree == \A d \in Callers : pc[d] \notin NewPcs

NewToomoss(c) ==
    /\ InstanceMuFree /\ ~active
    /\ objects < Objects
    /\ Enter(c, 0, "none", "load")
    /\ tried' = TRUE
    /\ UNCHANGED <<libraryVars, closeVars, elinsVars, frameVars, newest, late, overlapped>>

\* A library that is already there is not loaded again.
ensureLinReady(c) ==
    /\ Continue(c, "load")
    /\ \/ loaded' = TRUE /\ Goto(c, "open")
       \/ ~loaded /\ Return(c) /\ UNCHANGED loaded
    /\ UNCHANGED <<objects, active, deviceOpen, closeVars, elinsVars, frameVars, history>>

\* UsbScan finds the adapter and UsbOpen opens it, or one of them fails: the
\* library stays loaded.
UsbOpen(c) ==
    /\ Continue(c, "open")
    /\ \/ deviceOpen' = TRUE /\ Goto(c, "init")
       \/ Return(c) /\ UNCHANGED deviceOpen
    /\ UNCHANGED <<objects, active, loaded, closeVars, elinsVars, frameVars, history>>

\* USB_CloseDevice, then the library is freed, which can fail on Windows.
usbClose(ok) ==
    /\ loaded' = ~ok
    /\ \/ /\ ok \/ platform = "windows"
          /\ deviceOpen' = FALSE /\ rxQueue' = [k \in Channels |-> <<>>]
       \/ ~ok /\ UNCHANGED <<deviceOpen, rxQueue>>

\* LIN_EX_Init of every channel.  Whether usbClose fails goes unnoticed.
LinExInit(c) ==
    /\ Continue(c, "init")
    /\ \/ /\ active' = TRUE /\ objects' = objects + 1
          /\ UNCHANGED <<loaded, deviceOpen, rxQueue>>
       \/ /\ \E ok \in BOOLEAN : usbClose(ok)
          /\ UNCHANGED <<active, objects>>
    /\ Return(c)
    /\ UNCHANGED <<closeVars, elinsVars, events, arrived, history>>

-----------------------------------------------------------------------------
(***************************************************************************)
(* Calls under callMu.  validateChannel refuses on a closed object.        *)
(***************************************************************************)
CallMuFree(i) == \A d \in Callers : object[d] = i => pc[d] \notin CallPcs

\* Mutant of StateMuFree: ConfigureELINS only records the channels under stateMu.
StateMuFreeAlways(i) == TRUE

StateMuFree(i) == \A d \in Callers : object[d] = i => pc[d] # "elins"

Valid(i) == i \notin closed

\* WriteMessage, MasterWrite, MasterRead, RequestSlaveResponse, LinBreak,
\* LinExCtrlPowerOut and ElinsSlaveReadInto.
LinMasterSync(c) ==
    /\ \E i \in 1 .. objects, k \in Channels :
        /\ CallMuFree(i) /\ Valid(i)
        /\ Enter(c, i, k, "sync")
    /\ UNCHANGED <<libraryVars, closeVars, elinsVars, frameVars, history>>

\* RequestSlaveResponse has an answer for the event queue and WriteMessage an
\* echo, after callMu is released.  The result of the library is a uintptr, so
\* "ret <= 0" holds of 0 only: an error code of the library is a success, and
\* WriteMessage has an echo for that as well.  The other calls end.
SyncReturns(c) ==
    /\ Continue(c, "sync")
    /\ \/ /\ pc' = [pc EXCEPT ![c] = "enqueue"]
          /\ held' = [held EXCEPT ![c] = <<0>>]
          /\ UNCHANGED <<object, ch>>
       \/ Return(c)
    /\ UNCHANGED <<objects, libraryVars, closeVars, elinsVars, frameVars, history>>

\* A full event queue drops the event.
Enqueued(i, k, f) ==
    IF Len(events[i][k]) < QueueSize
    THEN [events EXCEPT ![i][k] = Append(@, f)] ELSE events

Enqueue(c) ==
    /\ Continue(c, "enqueue")
    /\ events' = Enqueued(object[c], ch[c], 0)
    /\ Return(c)
    /\ UNCHANGED <<objects, libraryVars, closeVars, elinsVars, rxQueue, arrived, history>>

-----------------------------------------------------------------------------
(***************************************************************************)
(* ConfigureELINS holds callMu and stateMu from its check of closed until  *)
(* the channels are recorded or stopped again.                             *)
(***************************************************************************)
ConfigureELINS(c) ==
    /\ platform = "windows"
    /\ \E i \in 1 .. objects, add \in SUBSET Channels \ {{}} :
        /\ CallMuFree(i) /\ Valid(i)
        /\ add \cap elins[i] = {}
        /\ Enter(c, i, "none", "elins")
        /\ toStart' = add
    /\ started' = {}
    /\ UNCHANGED <<libraryVars, closeVars, elins, elinsOn, toStop, frameVars, history>>

\* ELINS_Stop of the channels started so far, of which all is the set.
rollback(on, all) == elinsOn' = on \ all

\* ELINS_Init and ELINS_SetRevTime of the next channel; the last records all.
\* An ELINS_Init that fails has started nothing, as the code assumes: neither
\* the roll-back nor Close would stop that channel.
ELINSInit(c) ==
    /\ Continue(c, "elins")
    /\ \E k \in toStart :
        \/ /\ elinsOn' = elinsOn \cup {k}
           /\ started' = started \cup {k}
           /\ toStart' = toStart \ {k}
           /\ IF toStart' = {}
              THEN Return(c) /\ elins' = [elins EXCEPT ![object[c]] = @ \cup started']
              ELSE Goto(c, "elins") /\ UNCHANGED elins
        \/ /\ \/ rollback(elinsOn, started)
              \/ rollback(elinsOn \cup {k}, started \cup {k})
           /\ Return(c)
           /\ UNCHANGED <<started, toStart, elins>>
    /\ UNCHANGED <<objects, libraryVars, closeVars, toStop, frameVars, history>>

-----------------------------------------------------------------------------
(***************************************************************************)
(* ReadEvent: the event queue first, then what the library has, until the  *)
(* timeout.  It must not run beside another consumer of its channel.       *)
(***************************************************************************)
Consumed(i, k) == \E d \in Callers : object[d] = i /\ ch[d] = k /\ pc[d] \in ReadPcs

ReadEvent(c) ==
    /\ \E i \in 1 .. objects, k \in Channels :
        /\ StateMuFree(i) /\ Valid(i)
        /\ ~Consumed(i, k)
        /\ Enter(c, i, k, "poll")
    /\ UNCHANGED <<libraryVars, closeVars, elinsVars, frameVars, history>>

\* ReadEvent returns frame f.
Deliver(c, f) ==
    LET i == object[c]  k == ch[c] IN
    /\ newest' = [newest EXCEPT ![i][k] = IF f > @ THEN f ELSE @]
    /\ late' = IF f # 0 /\ f < newest[i][k] THEN late \cup {f} ELSE late
    /\ Return(c)
    /\ UNCHANGED <<tried, overlapped>>

ReadQueued(c) ==
    /\ Continue(c, "poll")
    /\ LET queue == events[object[c]][ch[c]] IN
        /\ queue # <<>>
        /\ Deliver(c, Head(queue))
        /\ events' = [events EXCEPT ![object[c]][ch[c]] = Tail(queue)]
    /\ UNCHANGED <<objects, libraryVars, closeVars, elinsVars, rxQueue, arrived>>

\* With nothing queued LinExSlaveGetData is next.  On macOS it checks the
\* object before it sees to the library.
ReadUnqueued(c) ==
    /\ Continue(c, "poll")
    /\ events[object[c]][ch[c]] = <<>>
    /\ IF platform = "windows" THEN Goto(c, "get")
       ELSE IF Valid(object[c]) THEN Goto(c, "ensure") ELSE Return(c)
    /\ UNCHANGED <<objects, libraryVars, closeVars, elinsVars, frameVars, history>>

\* ensureToomossLoaded loads the library again if Close has just freed it.
ensureToomossLoaded(c) ==
    /\ Continue(c, "ensure")
    /\ \/ loaded' = TRUE /\ Goto(c, "get")
       \/ ~loaded /\ Return(c) /\ UNCHANGED loaded
    /\ UNCHANGED <<objects, active, deviceOpen, closeVars, elinsVars, frameVars, history>>

LinExSlaveGetData(c) ==
    /\ Continue(c, "get")
    /\ CallMuFree(object[c])
    /\ IF Valid(object[c]) THEN Goto(c, "fetch") ELSE Return(c)
    /\ UNCHANGED <<objects, libraryVars, closeVars, elinsVars, frameVars, history>>

\* The library hands over what it has, or fails.  A 64-bit Windows build takes
\* the error code for a number of frames and returns empty ones.
Fetched(c) ==
    /\ Continue(c, "fetch")
    /\ \/ /\ rxQueue[ch[c]] = <<>>
          /\ Goto(c, "poll") \/ Return(c)
          /\ UNCHANGED rxQueue
       \/ /\ rxQueue[ch[c]] # <<>>
          /\ held' = [held EXCEPT ![c] = rxQueue[ch[c]]]
          /\ rxQueue' = [rxQueue EXCEPT ![ch[c]] = <<>>]
          /\ pc' = [pc EXCEPT ![c] = "batch"]
          /\ UNCHANGED <<object, ch>>
       \/ /\ platform = "windows"
          /\ held' = [held EXCEPT ![c] = <<0, 0>>]
          /\ pc' = [pc EXCEPT ![c] = "batch"]
          /\ UNCHANGED <<object, ch, rxQueue>>
       \/ Return(c) /\ UNCHANGED rxQueue
    /\ UNCHANGED <<objects, libraryVars, closeVars, elinsVars, events, arrived, history>>

\* All frames but the first go to the event queue, one by one; the first is
\* what ReadEvent returns.
ReadBatch(c) ==
    /\ Continue(c, "batch")
    /\ \/ /\ Len(held[c]) > 1
          /\ events' = Enqueued(object[c], ch[c], held[c][2])
          /\ held' = [held EXCEPT ![c] = RemoveAt(@, 2)]
          /\ UNCHANGED <<pc, object, ch, history>>
       \/ /\ Len(held[c]) = 1
          /\ Deliver(c, held[c][1])
          /\ UNCHANGED events
    /\ UNCHANGED <<objects, libraryVars, closeVars, elinsVars, rxQueue, arrived>>

-----------------------------------------------------------------------------
(***************************************************************************)
(* Close: the first caller closes, the others wait for it.                 *)
(***************************************************************************)
Close(c) ==
    /\ \E i \in 1 .. objects :
        \/ /\ once[i] = "new" /\ StateMuFree(i)
           /\ once' = [once EXCEPT ![i] = "running"]
           /\ closed' = closed \cup {i}
           /\ toStop' = elins[i]
           /\ overlapped' = (overlapped \/ \E d \in Callers : object[d] = i /\ pc[d] = "ensure")
           /\ Enter(c, i, "none", "closeLock")
        \/ /\ once[i] = "running"
           /\ Enter(c, i, "none", "join")
           /\ UNCHANGED <<once, closed, toStop, overlapped>>
    /\ UNCHANGED <<libraryVars, closeErr, elins, elinsOn, toStart, started, frameVars,
                   newest, late, tried>>

ELINSStop(c) ==
    /\ Continue(c, "closeLock")
    /\ CallMuFree(object[c])
    /\ elinsOn' = elinsOn \ toStop
    /\ Goto(c, "usbClose")
    /\ UNCHANGED <<objects, libraryVars, closeVars, elins, toStart, started, toStop,
                   frameVars, history>>

CloseDevice(c) ==
    /\ Continue(c, "usbClose")
    /\ \E ok \in BOOLEAN :
        /\ usbClose(ok)
        /\ closeErr' = IF ok THEN closeErr ELSE closeErr \cup {object[c]}
    /\ tried' = FALSE
    /\ Goto(c, "inactive")
    /\ UNCHANGED <<objects, active, closed, once, elinsVars, events, arrived, newest,
                   late, overlapped>>

\* Only now may NewToomoss make another object.
CloseInstance(c) ==
    /\ Continue(c, "inactive")
    /\ InstanceMuFree
    /\ active' = FALSE
    /\ once' = [once EXCEPT ![object[c]] = "done"]
    /\ Return(c)
    /\ UNCHANGED <<objects, loaded, deviceOpen, closed, closeErr, elinsVars, frameVars,
                   history>>

CloseJoins(c) ==
    /\ Continue(c, "join")
    /\ once[object[c]] = "done"
    /\ Return(c)
    /\ UNCHANGED <<objects, libraryVars, closeVars, elinsVars, frameVars, history>>

-----------------------------------------------------------------------------
\* The adapter receives a frame on a channel.
Arrive ==
    /\ deviceOpen /\ arrived < MaxFrames
    /\ arrived' = arrived + 1
    /\ \E k \in Channels : rxQueue' = [rxQueue EXCEPT ![k] = Append(@, arrived')]
    /\ UNCHANGED <<platform, callVars, calls, objects, libraryVars, closeVars, elinsVars,
                   events, history>>

Next ==
    \/ \E c \in Callers :
        \/ NewToomoss(c) \/ ensureLinReady(c) \/ UsbOpen(c) \/ LinExInit(c)
        \/ LinMasterSync(c) \/ SyncReturns(c) \/ Enqueue(c)
        \/ ConfigureELINS(c) \/ ELINSInit(c)
        \/ ReadEvent(c) \/ ReadQueued(c) \/ ReadUnqueued(c) \/ ensureToomossLoaded(c)
        \/ LinExSlaveGetData(c) \/ Fetched(c) \/ ReadBatch(c)
        \/ Close(c) \/ ELINSStop(c) \/ CloseDevice(c) \/ CloseInstance(c) \/ CloseJoins(c)
    \/ Arrive

Spec == Init /\ [][Next]_vars

-----------------------------------------------------------------------------
TypeOK ==
    /\ platform \in {"windows", "darwin"}
    /\ pc \in [Callers -> {"idle", "enqueue", "closeLock", "inactive", "join"}
                          \cup NewPcs \cup ReadPcs \cup CallPcs]
    /\ object \in [Callers -> 0 .. Objects]
    /\ ch \in [Callers -> Channels \cup {"none"}]
    /\ held \in [Callers -> Seq(Nat)]
    /\ calls \in Nat /\ objects \in 0 .. Objects
    /\ active \in BOOLEAN /\ loaded \in BOOLEAN /\ deviceOpen \in BOOLEAN
    /\ closed \subseteq Object /\ closeErr \subseteq Object
    /\ once \in [Object -> {"new", "running", "done"}]
    /\ elins \in [Object -> SUBSET Channels]
    /\ elinsOn \subseteq Channels /\ toStart \subseteq Channels
    /\ started \subseteq Channels /\ toStop \subseteq Channels
    /\ rxQueue \in [Channels -> Seq(Nat)]
    /\ events \in [Object -> [Channels -> Seq(Nat)]]
    /\ arrived \in Nat
    /\ newest \in [Object -> [Channels -> Nat]] /\ late \subseteq Nat
    /\ tried \in BOOLEAN /\ overlapped \in BOOLEAN

\* Who is in the library is there for the newest object, which is the active
\* one, and finds the library loaded and the adapter open: no call of an object
\* that was closed reaches the adapter of its successor, and no Close takes the
\* adapter from under a call (toomoss.go:823-827, 1049-1077; toomoss_darwin.go:
\* 428-432, 658-673).
OwnDevice ==
    \A c \in Callers :
        pc[c] \in CallPcs =>
            /\ active /\ loaded /\ deviceOpen
            /\ object[c] = objects

\* A Close without an error has closed the adapter with ELINS stopped on every
\* channel, also on those of a ConfigureELINS that ran or failed beside it, and
\* has freed the library, until somebody calls NewToomoss: "Close releases the
\* USB adapter and loaded driver library" (toomoss.go:1044).  Only on macOS, and
\* only if a ReadEvent overlapped the Close of its object, the library is back
\* (toomoss_darwin.go:691-700).
Released ==
    objects > 0 /\ once[objects] = "done" /\ objects \notin closeErr /\ ~tried =>
        /\ ~deviceOpen /\ elinsOn = {}
        /\ loaded => platform = "darwin" /\ overlapped

\* The one consumer of a channel gets its frames in the order of their arrival,
\* though a batch is split between ReadEvent and the event queue
\* (toomoss.go:855-862).
ReadInOrder == late = {}
=============================================================================
