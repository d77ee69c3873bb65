--------------------------- MODULE TsmasterDriver ---------------------------
(***************************************************************************)
(* The TSMaster driver: frames reach the event queues on two ways, by a    *)
(* callback on a thread of the vendor's library and by a loop that polls   *)
(* its FIFO; the later report of a frame is recognised by being equal to   *)
(* the frame reported last.  Close stops both, disconnects, and closes the *)
(* event queues, on which a send would panic.                              *)
(*                                                                         *)
(* DriverCalls.closed is here "Close has set loader to nil and connected   *)
(* to false".                                                              *)
(*                                                                         *)
(* The vendor's library may refuse to unregister the callback and to       *)
(* disconnect, and Close ignores it.  It runs one callback at a time.      *)
(* Unregistering does not wait for one that runs, and the library may keep *)
(* the frames it has not yet reported, or drop them.                       *)
(***************************************************************************)
EXTENDS DriverCalls

VARIABLES
    opened,      \* the constructor returned the driver
    connected,   \* tsapp_connect is in force
    registered,  \* the library has the callback
    loop,        \* receiveLoop: "off", "top", "lock", "dispatch" or "gone"
    batch,       \* frames it read and has not dispatched
    callback,    \* frames the library has still to report
    inCallback,  \* the frame a callback has still to put into its queue
    last,        \* lastFrame
    made,        \* channels with an event queue
    shut,        \* channels whose event queue is closed
    panicked,    \* the process is gone
    overlapped,  \* history: Close began while another call was under way
    reporting    \* history: Close closed the queues before the library was
                 \* done with callbacks

libraryVars == <<opened, connected, registered>>
pathVars == <<loop, batch, callback, inCallback, last>>
shutVars == <<shut, panicked, overlapped, reporting>>
vars == <<pc, calls, callVars, held, callMu, queueVars, busVars, passed,
          closed, once, libraryVars, pathVars, made, shutVars>>

Init ==
    /\ CallsInit
    /\ \E c \in Callers : pc = [d \in Callers |-> IF d = c THEN "connect" ELSE "idle"]
    /\ opened = FALSE /\ connected = FALSE /\ registered = FALSE
    /\ loop = "off" /\ batch = <<>> /\ last = NoFrame
    /\ callback = <<>> /\ inCallback = NoFrame
    /\ made = {} /\ shut = {}
    /\ panicked = FALSE /\ overlapped = FALSE /\ reporting = FALSE

-----------------------------------------------------------------------------
(***************************************************************************)
(* open: initialize, connect, register the callback (the FIFO is enough if *)
(* that fails), set the node type and start the loop.                      *)
(***************************************************************************)
Opening(c, at) ==
    /\ pc[c] = at
    /\ UNCHANGED <<calls, callVars, held, callMu, queueVars, busVars, passed>>
    /\ UNCHANGED <<batch, callback, inCallback, last, made, shutVars>>

CleanUp(c) == Goto(c, "waitLoop") /\ closed' = TRUE /\ once' = "running"

connect(c) ==
    /\ Opening(c, "connect")
    /\ \/ connected' = TRUE /\ Goto(c, "register") /\ UNCHANGED <<closed, once>>
       \/ CleanUp(c) /\ UNCHANGED connected
    /\ UNCHANGED <<opened, registered, loop>>

registerLinEvent(c) ==
    /\ Opening(c, "register")
    /\ registered' \in BOOLEAN
    /\ Goto(c, "start")
    /\ UNCHANGED <<opened, connected, closed, once, loop>>

startLoop(c) ==
    /\ Opening(c, "start")
    /\ \/ loop' = "top" /\ opened' = TRUE /\ Goto(c, "idle") /\ UNCHANGED <<closed, once>>
       \/ CleanUp(c) /\ UNCHANGED <<loop, opened>>
    /\ UNCHANGED <<connected, registered>>

-----------------------------------------------------------------------------
(***************************************************************************)
(* Calls.  Reads and headers look at connected before they take callMu and *)
(* not again; WriteMessage and LinBreak look with callMu held only.        *)
(***************************************************************************)
Running ==
    /\ ~panicked
    /\ UNCHANGED <<closed, once, libraryVars, pathVars, shut, overlapped, reporting>>
Safe == UNCHANGED panicked

\* "other" is MasterWrite and RequestSlaveResponse.
Operations == {"read", "write", "masterRead", "other", "break"}

Start(c) ==
    /\ opened
    /\ \E o \in Operations : Begin(c, o)
    /\ Running /\ Safe
    /\ UNCHANGED <<held, callMu, queueVars, busVars, passed, made>>

LockChannel(c) ==
    /\ lock(c)
    /\ Running /\ Safe
    /\ UNCHANGED <<calls, held, callMu, queueVars, busVars, passed, made>>

Lock(c) ==
    /\ pc[c] = "lock"
    /\ callMu = "free"
    /\ IF op[c] \in {"write", "break"} /\ closed
       THEN Return(c) /\ UNCHANGED callMu
       ELSE callMu' = c /\ Goto(c, "call") /\ UNCHANGED callVars
    /\ Running /\ Safe
    /\ UNCHANGED <<calls, held, queueVars, busVars, passed, made>>

\* The call is over; where it failed, errorText has found a loader.
Transmit(c) ==
    /\ pc[c] = "call"
    /\ op[c] # "break"
    /\ callMu' = "free"
    /\ \/ Return(c) /\ UNCHANGED bus
       \/ op[c] # "write" /\ ~closed /\ Goto(c, "describe") /\ UNCHANGED <<callVars, bus>>
       \/ op[c] = "write" /\ Goto(c, "echo") /\ UNCHANGED <<callVars, bus>>
       \/ /\ op[c] = "masterRead"
          /\ bus' = bus \cup {[ch |-> ch[c], ask |-> asked[c]]}
          /\ Goto(c, "poll")
          /\ UNCHANGED callVars
    /\ Running /\ Safe
    /\ UNCHANGED <<calls, held, queueVars, arrived, passed, made>>

\* errorText and LinBreak use the loader they have seen before; if Close has
\* taken it away in between, they dereference nil.  A failed LinBreak calls
\* errorText as well.
UseLoader(c) ==
    /\ panicked' = closed
    /\ \/ pc[c] = "describe" /\ Return(c) /\ UNCHANGED callMu
       \/ /\ pc[c] = "call" /\ op[c] = "break"
          /\ callMu' = "free"
          /\ \/ Return(c)
             \/ ~closed /\ Goto(c, "describe") /\ UNCHANGED callVars
    /\ Running
    /\ UNCHANGED <<calls, held, queueVars, busVars, passed, made>>

\* The echo of WriteMessage, queued after the unlock.
Echo(c) ==
    /\ pc[c] = "echo"
    /\ panicked' = (ch[c] \in shut)
    /\ events' = Enqueued(ch[c], NewFrame(ch[c], FALSE, 0))
    /\ made' = made \cup {ch[c]}
    /\ Return(c)
    /\ Running
    /\ UNCHANGED <<calls, held, callMu, rxQueue, busVars, passed>>

\* ReadEvent takes an event, or ends at its timeout or on a closed queue.
ReadEvent(c) ==
    /\ pc[c] = "poll"
    /\ made' = made \cup {ch[c]}
    /\ \/ /\ events[ch[c]] # <<>>
          /\ events' = [events EXCEPT ![ch[c]] = Tail(@)]
          /\ Deliver(c, Head(events[ch[c]]))
       \/ /\ events[ch[c]] = <<>> \/ op[c] = "masterRead"
          /\ Return(c)
          /\ UNCHANGED events
    /\ Running /\ Safe
    /\ UNCHANGED <<calls, held, callMu, rxQueue, busVars, passed>>

-----------------------------------------------------------------------------
(***************************************************************************)
(* The two ways of a frame.  dispatchLIN drops what is no slave's frame,   *)
(* and what equals the last frame and follows it within 8 ms: always from  *)
(* the same channel, be it the same frame or not.  What it keeps it puts   *)
(* into the channel's queue, which it looks up before and without a lock.  *)
(* The loop's step is one, since Close waits for the loop; a callback may  *)
(* be anywhere between lookup and send when Close closes the queues.       *)
(***************************************************************************)
Dropped(f) ==
    \/ f.bad /\ UNCHANGED last
    \/ ~f.bad /\ last.ch = f.ch /\ last' = f

Kept(f) == ~f.bad /\ last' = f /\ made' = made \cup {f.ch}

OnPath ==
    /\ ~panicked
    /\ UNCHANGED <<pc, calls, callVars, held, busVars, passed, closed, once>>
    /\ UNCHANGED <<libraryVars, shut, overlapped, reporting>>

OnCallback == OnPath /\ UNCHANGED <<callMu, rxQueue, loop, batch>>

onLinEvent ==
    /\ callback # <<>> /\ inCallback = NoFrame
    /\ callback' = Tail(callback)
    /\ LET f == Head(callback) IN
        \/ Dropped(f) /\ UNCHANGED <<made, inCallback>>
        \/ Kept(f) /\ inCallback' = f
    /\ OnCallback
    /\ UNCHANGED <<events, panicked>>

\* A send on a closed queue does not return.
SendEvent ==
    /\ inCallback # NoFrame
    /\ IF inCallback.ch \in shut
       THEN panicked' = TRUE /\ UNCHANGED <<events, inCallback>>
       ELSE /\ events' = Enqueued(inCallback.ch, inCallback)
            /\ inCallback' = NoFrame
            /\ UNCHANGED panicked
    /\ OnCallback
    /\ UNCHANGED <<callback, last, made>>

\* The loop sees its context only when it begins with the first channel.
LoopTop ==
    /\ loop = "top"
    /\ loop' \in IF closed THEN {"lock", "gone"} ELSE {"lock"}
    /\ OnPath
    /\ UNCHANGED <<callMu, queueVars, batch, callback, inCallback, last, made, panicked>>

\* The positions of channel k's frames in the FIFO, a set of positions in its
\* order, and the frames there.
OfChannel(k) == {i \in DOMAIN rxQueue : rxQueue[i].ch = k}
Ordered(at) == {g \in [1 .. Cardinality(at) -> at] :
                   \A i, j \in DOMAIN g : i < j => g[i] < g[j]}
FramesAt(g) == [i \in DOMAIN g |-> rxQueue[g[i]]]

\* It takes what the FIFO has for a channel; callMu is held for this only.
LoopReceive ==
    /\ loop = "lock"
    /\ callMu = "free"
    /\ \/ \E k \in Channels :
            \E own \in Ordered(OfChannel(k)), others \in Ordered(DOMAIN rxQueue \ OfChannel(k)) :
                batch' = FramesAt(own) /\ rxQueue' = FramesAt(others)
       \/ UNCHANGED <<batch, rxQueue>>    \* the call failed
    /\ loop' = "dispatch"
    /\ OnPath
    /\ UNCHANGED <<callMu, events, callback, inCallback, last, made, panicked>>

LoopDispatch ==
    /\ loop = "dispatch"
    /\ IF batch = <<>>
       THEN loop' = "top" /\ UNCHANGED <<batch, events, made, last, panicked>>
       ELSE /\ batch' = Tail(batch)
            /\ UNCHANGED loop
            /\ LET f == Head(batch) IN
                \/ Dropped(f) /\ UNCHANGED <<made, events, panicked>>
                \/ /\ Kept(f)
                   /\ panicked' = (f.ch \in shut)
                   /\ events' = Enqueued(f.ch, f)
    /\ OnPath
    /\ UNCHANGED <<callMu, rxQueue, callback, inCallback>>

-----------------------------------------------------------------------------
(***************************************************************************)
(* Close: take the loader, cancel, wait for the loop, disconnect, close    *)
(* the queues.  What the library answers it does not look at.              *)
(***************************************************************************)
Close(c) ==
    /\ opened /\ ~panicked
    /\ BeginClose(c)
    /\ overlapped' = (overlapped \/ \E d \in Callers \ {c} : pc[d] # "idle")
    /\ UNCHANGED <<libraryVars, pathVars, made, shut, panicked, reporting>>
    /\ UNCHANGED <<held, callMu, queueVars, busVars, passed>>

Closing(c, at) ==
    /\ pc[c] = at
    /\ ~panicked
    /\ UNCHANGED <<calls, held, queueVars, busVars, passed, opened, closed>>
    /\ UNCHANGED <<loop, batch, inCallback, last, made, panicked, overlapped>>

\* Mutant of LoopGone: Close does not wait for the loop.
LoopGoneAlways == TRUE

LoopGone == loop \in {"off", "gone"}

WaitLoop(c) ==
    /\ Closing(c, IF pc[c] = "close" THEN "close" ELSE "waitLoop")
    /\ LoopGone
    /\ callMu = "free"
    /\ callMu' = c
    /\ Goto(c, "disconnect")
    /\ UNCHANGED <<callVars, connected, registered, callback, shut, reporting, once>>

disconnect(c) ==
    /\ Closing(c, "disconnect")
    /\ connected' \in {connected, FALSE}
    /\ \/ UNCHANGED <<registered, callback>>                             \* refused
       \/ registered' = FALSE /\ callback' \in {callback, <<>>}
    /\ Goto(c, "shut")
    /\ UNCHANGED <<callVars, callMu, shut, reporting, once>>

\* A callback runs, is due, or may still become due.
Reporting == inCallback # NoFrame \/ callback # <<>> \/ (registered /\ connected)

closeChannels(c) ==
    /\ Closing(c, "shut")
    /\ shut' = made
    /\ reporting' = Reporting
    /\ callMu' = "free"
    /\ once' = "done"
    /\ Return(c)
    /\ UNCHANGED <<connected, registered, callback>>

Join(c) == ~panicked /\ Joined(c) /\ UNCHANGED <<libraryVars, pathVars, made, shutVars>>

-----------------------------------------------------------------------------
Works(c) ==
    \/ connect(c) \/ registerLinEvent(c) \/ startLoop(c)
    \/ LockChannel(c) \/ Lock(c) \/ Transmit(c) \/ UseLoader(c) \/ Echo(c) \/ ReadEvent(c)
    \/ WaitLoop(c) \/ disconnect(c) \/ closeChannels(c) \/ Join(c)

Paths == onLinEvent \/ SendEvent \/ LoopTop \/ LoopReceive \/ LoopDispatch

\* The library puts a frame into its FIFO and reports it as well.
Traffic ==
    /\ ~panicked
    /\ Bus(IF connected THEN Channels ELSE {})
    /\ callback' = IF registered /\ arrived' # arrived
                   THEN Append(callback, rxQueue'[Len(rxQueue')]) ELSE callback
    /\ UNCHANGED <<libraryVars, loop, batch, inCallback, last, made, shutVars>>

Next ==
    \/ \E c \in Callers : Start(c) \/ Close(c) \/ Works(c)
    \/ Paths
    \/ Traffic

Spec == Init /\ [][Next]_vars

-----------------------------------------------------------------------------
TypeOK ==
    /\ pc \in [Callers -> {"connect", "register", "start", "idle", "channel", "lock",
                           "call", "describe", "echo", "poll", "close", "waitLoop",
                           "disconnect", "shut", "join"}]
    /\ CallsTypeOK
    /\ op \in [Callers -> {"none", "close"} \cup Operations]
    /\ opened \in BOOLEAN /\ connected \in BOOLEAN /\ registered \in BOOLEAN
    /\ loop \in {"off", "top", "lock", "dispatch", "gone"}
    /\ batch \in Seq(Frame) /\ callback \in Seq(Frame)
    /\ inCallback \in Frame \cup {NoFrame} /\ last \in Frame \cup {NoFrame}
    /\ made \subseteq Channels /\ shut \subseteq made
    /\ panicked \in BOOLEAN /\ overlapped \in BOOLEAN /\ reporting \in BOOLEAN

\* A finished Close, also that of a failed constructor, has left no loop
\* behind.  It returns nil whatever the library refused it, so that there is
\* nothing to say of connection and callback (tsmaster.go:886, 891-901, 918).
ClosedCleanly == once = "done" => LoopGone

OwnAnswers == stolen = {}

(***************************************************************************)
(* The process dies of a closed queue or a missing loader only if Close    *)
(* began while another call was under way, or in a callback, if the        *)
(* library was not done with callbacks when Close closed the queues: it    *)
(* ran one, had frames to report, or had refused to unregister and to      *)
(* disconnect (tsmaster.go:630, 758, 888, 891-901, 912, 958).  The loop    *)
(* never gets there.                                                       *)
(***************************************************************************)
PanicOnlyIfOverlapped ==
    panicked => overlapped \/ (reporting /\ inCallback.ch \in shut)
=============================================================================
