------------------------------- MODULE LinBus --------------------------------
(***************************************************************************)
(* A whole simulated LIN bus: slave nodes (tplin.LinSlave) on their slave  *)
(* transports, the network that joins them (tplin.SimulatedLinNetwork) and *)
(* one master that sends requests one at a time (tplin.LinMaster).         *)
(*                                                                         *)
(* The network keeps one pending response per channel and frame ID.  All   *)
(* slaves answer on 0x3D of one channel, so there is one slot.  A slave    *)
(* schedules its next frame only when a TX event tells it that the one     *)
(* before has left, and it takes every TX event on 0x3D for its own.       *)
(*                                                                         *)
(* Requests carry at most 5 data bytes and are single frames; answers have *)
(* any length.  A frame is known by what the properties tell apart: who    *)
(* sent it, the NAD in it, the request it answers, and which of how many   *)
(* frames it is.  Positive and negative responses both end a request and   *)
(* are not told apart.                                                     *)
(***************************************************************************)
EXTENDS Integers, Sequences

CONSTANTS
    N,                   \* slaves, numbered in the order of CreateSlaveDriver
    Broadcast,           \* the NAD 0x7F
    InitialNad,          \* the NAD each slave is created with
    Requests,            \* what the master may ask, see RequestType
    SerialFrames,        \* frames of a slave's serial number response
    TxQueueSize,         \* a slave's txQueue
    RxQueueSize,         \* messages a transport keeps for its reader
    EventQueueSize,      \* events the driver of a slave keeps (20 in the code)
    Patient,             \* requests time out only when nothing can come any more
    MaxRequests          \* bound: requests the master makes

Slaves == 1 .. N

(***************************************************************************)
(* A request addressed to nad.  `long': it has the 5 data bytes the        *)
(* handlers want; `for': the slaves whose supplier and function ID it      *)
(* matches; `what': the identifier asked for; `new': the NAD to assign.    *)
(***************************************************************************)
Sids == {"read", "save", "assign", "other"}

RequestType ==
    [nad : Nat, sid : Sids, long : BOOLEAN, for : SUBSET Slaves,
     what : {"product", "serial", "unknown"}, new : Nat]

ASSUME BusAssumption ==
    /\ N \in Nat \ {0}
    /\ Broadcast \in Nat
    /\ InitialNad \in [Slaves -> Nat]
    /\ Requests \subseteq RequestType
    /\ SerialFrames \in [Slaves -> Nat \ {0}]
    /\ TxQueueSize \in Nat \ {0}
    /\ RxQueueSize \in Nat \ {0}
    /\ EventQueueSize \in Nat \ {0}
    /\ Patient \in BOOLEAN
    /\ MaxRequests \in Nat

VARIABLES
    nad, savedNad,       \* of each slave
    at,                  \* where the goroutine of each slave is
    halted,              \* Stop was called
    events,              \* event queue of each slave's driver
    scheduled,           \* scheduledTxEvent # nil
    txQueue, rxQueue,    \* of each slave's transport
    slot,                \* slaveResponses: the pending response, or NoFrame
    notify,              \* next slave requestSlaveResponse tells, 0: none
    masterTx,            \* the master's queue of requests
    masterRx,            \* the frame its driver holds for it, or NoFrame
    hearing,             \* frames of its open reception
    inbox,               \* its reassembled messages, each its frames
    asked,               \* the request it waits for, or Nothing
    outcome,             \* history: how that request ended
    due,                 \* history: a slave was to answer it
    queued, taken,       \* history: frames queued by, taken from each slave
    deaf,                \* history: slaves that missed a TX event
    requests

slaveVars == <<nad, savedNad, at, halted, scheduled, txQueue, rxQueue, queued>>
masterVars == <<masterTx, masterRx, hearing, inbox, asked, outcome, due, requests>>
netVars == <<events, slot, notify, taken, deaf>>
vars == <<nad, savedNad, at, halted, events, scheduled, txQueue, rxQueue, slot, notify,
          masterTx, masterRx, hearing, inbox, asked, outcome, due, queued, taken, deaf,
          requests>>

Nothing == [id |-> 0]
NoFrame == [k |-> 0]

\* The TX event by which a slave learns that a response frame has left.
Confirmation == [id |-> 0, dir |-> "TX"]

Message == [id : Nat, dir : {"RX"}, req : RequestType]
Event == Message \cup {Confirmation}
Frame ==
    [by : Slaves, nad : Nat, sid : Sids, to : Nat, k : Nat \ {0}, n : Nat \ {0}]

\* The n frames of the message slave s sends with NAD a in answer to m.
Answer(s, a, m, n) ==
    [k \in 1 .. n |-> [by |-> s, nad |-> a, sid |-> m.req.sid, to |-> m.id, k |-> k, n |-> n]]

Init ==
    /\ nad = InitialNad
    /\ savedNad = [s \in Slaves |-> 0]
    /\ at = [s \in Slaves |-> "off"]
    /\ halted = [s \in Slaves |-> FALSE]
    /\ events = [s \in Slaves |-> <<>>]
    /\ scheduled = [s \in Slaves |-> FALSE]
    /\ txQueue = [s \in Slaves |-> <<>>]
    /\ rxQueue = [s \in Slaves |-> <<>>]
    /\ slot = NoFrame
    /\ notify = 0
    /\ masterTx = <<>>
    /\ masterRx = NoFrame
    /\ hearing = <<>>
    /\ inbox = <<>>
    /\ asked = Nothing
    /\ outcome = [end |-> "none"]
    /\ due = FALSE
    /\ queued = [s \in Slaves |-> <<>>]
    /\ taken = [s \in Slaves |-> <<>>]
    /\ deaf = {}
    /\ requests = 0

-----------------------------------------------------------------------------
(***************************************************************************)
(* A slave's goroutine: a ticker, then simulate, which runs execute on the *)
(* slave transport and handles at most one message.                        *)
(***************************************************************************)

Run(s) ==
    /\ at[s] = "off" /\ ~halted[s]
    /\ at' = [at EXCEPT ![s] = "idle"]
    /\ UNCHANGED <<nad, savedNad, halted, scheduled, txQueue, rxQueue, queued, masterVars,
                   netVars>>

Stop(s) ==
    /\ ~halted[s]
    /\ halted' = [halted EXCEPT ![s] = TRUE]
    /\ due' = FALSE
    /\ UNCHANGED <<nad, savedNad, at, scheduled, txQueue, rxQueue, queued, netVars, masterTx,
                   masterRx, hearing, inbox, asked, outcome, requests>>

\* The loop notices the cancelled context only between two ticks.
Exit(s) ==
    /\ at[s] = "idle" /\ halted[s]
    /\ at' = [at EXCEPT ![s] = "gone"]
    /\ UNCHANGED <<nad, savedNad, halted, scheduled, txQueue, rxQueue, queued, masterVars,
                   netVars>>

Tick(s) ==
    /\ at[s] = "idle"
    /\ at' = [at EXCEPT ![s] = "read"]
    /\ UNCHANGED <<nad, savedNad, halted, scheduled, txQueue, rxQueue, queued, masterVars,
                   netVars>>

\* Takes the next event off the driver's queue.
Reads(s) ==
    /\ at[s] = "read"
    /\ events[s] # <<>>
    /\ events' = [events EXCEPT ![s] = Tail(@)]
    /\ UNCHANGED <<nad, savedNad, at, halted, queued, masterVars, notify, taken, deaf>>

\* scheduleSlaveResponse: the network's only slot is overwritten.
Schedules(s) ==
    /\ slot' = Head(txQueue[s])
    /\ scheduled' = [scheduled EXCEPT ![s] = TRUE]
    /\ txQueue' = [txQueue EXCEPT ![s] = Tail(@)]

\* Mutant of TakesConfirmation: the event is dropped, nothing is cleared.
ForgetsConfirmation(s) ==
    /\ Reads(s)
    /\ Head(events[s]) = Confirmation
    /\ scheduled[s]
    /\ UNCHANGED <<scheduled, txQueue, slot, rxQueue>>

\* A TX event while a response is scheduled: whosever it was, the next frame.
TakesConfirmation(s) ==
    /\ Reads(s)
    /\ Head(events[s]) = Confirmation
    /\ scheduled[s]
    /\ \/ txQueue[s] # <<>> /\ Schedules(s)
       \/ /\ txQueue[s] = <<>>
          /\ scheduled' = [scheduled EXCEPT ![s] = FALSE]
          /\ UNCHANGED <<txQueue, slot>>
    /\ UNCHANGED rxQueue

\* A TX event with nothing scheduled is no frame of the slave's concern.
IgnoresConfirmation(s) ==
    /\ Reads(s)
    /\ Head(events[s]) = Confirmation
    /\ ~scheduled[s]
    /\ UNCHANGED <<scheduled, txQueue, slot, rxQueue>>

\* Mutant of deliverMessage: a full queue takes one message more.
deliverMessageUnbounded(queue, m) == Append(queue, m)

\* A message for which there is no room is lost.  That the master's transport
\* also reports ErrRxQueueFull, which ends a wait early (transport.go:556-562),
\* is left to an impatient timeout; a patient master keeps one message at most.
deliverMessage(queue, m) == IF Len(queue) < RxQueueSize THEN Append(queue, m) ELSE queue

TakesRequest(s) ==
    /\ Reads(s)
    /\ Head(events[s]) # Confirmation
    /\ rxQueue' = [rxQueue EXCEPT ![s] = deliverMessage(@, Head(events[s]))]
    /\ UNCHANGED <<scheduled, txQueue, slot>>

\* Mutant of MayStart: a new answer does not wait for the frame before it.
MayStartAnyTime(s) == txQueue[s] # <<>>

MayStart(s) == ~scheduled[s] /\ txQueue[s] # <<>>

\* Nothing more to read: start an answer unless one is under way.
ReadsNothing(s) ==
    /\ at[s] = "read"
    /\ events[s] = <<>>
    /\ \/ MayStart(s) /\ Schedules(s)
       \/ ~MayStart(s) /\ UNCHANGED <<slot, scheduled, txQueue>>
    /\ at' = [at EXCEPT ![s] = "app"]
    /\ UNCHANGED <<nad, savedNad, halted, rxQueue, queued, masterVars, events, notify, taken,
                   deaf>>

\* Mutant of ForMe: every request on the bus is for this node.
ForMeAlways(s, req) == TRUE

ForMe(s, req) == req.nad \in {nad[s], Broadcast}

\* Frames of the response to req, 0 if there is none.
ResponseFrames(s, req) ==
    CASE req.sid = "read" /\ ~req.long -> 1
      [] req.sid = "read" /\ req.long /\ s \in req.for ->
             IF req.what = "serial" THEN SerialFrames[s] ELSE 1
      [] req.sid = "save" -> 1
      [] req.sid = "assign" /\ req.long /\ s \in req.for -> 1
      [] OTHER -> 0

\* Transmit in the slave role: all frames or none.
Transmits(s, a, m, n) ==
    LET frames == IF Len(txQueue[s]) + n <= TxQueueSize THEN Answer(s, a, m, n) ELSE <<>>
    IN  /\ txQueue' = [txQueue EXCEPT ![s] = @ \o frames]
        /\ queued' = [queued EXCEPT ![s] = @ \o frames]

\* The NAD of the slave once req is handled.
NadAfter(s, req) ==
    IF req.sid = "assign" /\ req.long /\ s \in req.for THEN req.new ELSE nad[s]

\* Mutant of ResponseNad: handleAssignNad changes the NAD first.
ResponseNadChanged(s, req) == NadAfter(s, req)

\* The response leaves with the NAD the slave had when it was asked.
ResponseNad(s, req) == nad[s]

\* simulate past execute: no message, one for another node, or one to handle.
AppIdle(s) ==
    /\ at[s] = "app"
    /\ rxQueue[s] = <<>>
    /\ at' = [at EXCEPT ![s] = "idle"]
    /\ UNCHANGED <<nad, savedNad, halted, scheduled, txQueue, rxQueue, queued, masterVars,
                   netVars>>

AppIgnores(s) ==
    /\ at[s] = "app"
    /\ rxQueue[s] # <<>>
    /\ ~ForMe(s, Head(rxQueue[s]).req)
    /\ rxQueue' = [rxQueue EXCEPT ![s] = Tail(@)]
    /\ at' = [at EXCEPT ![s] = "idle"]
    /\ UNCHANGED <<nad, savedNad, halted, scheduled, txQueue, queued, masterVars, netVars>>

AppHandles(s) ==
    /\ at[s] = "app"
    /\ rxQueue[s] # <<>>
    /\ LET m == Head(rxQueue[s])
       IN  /\ ForMe(s, m.req)
           /\ Transmits(s, ResponseNad(s, m.req), m, ResponseFrames(s, m.req))
           /\ nad' = [nad EXCEPT ![s] = NadAfter(s, m.req)]
           /\ savedNad' = [savedNad EXCEPT ![s] = IF m.req.sid = "save" THEN nad[s] ELSE @]
    /\ rxQueue' = [rxQueue EXCEPT ![s] = Tail(@)]
    /\ at' = [at EXCEPT ![s] = "idle"]
    /\ UNCHANGED <<halted, scheduled, masterVars, netVars>>

Slave(s) ==
    \/ Exit(s) \/ Tick(s)
    \/ TakesConfirmation(s) \/ IgnoresConfirmation(s) \/ TakesRequest(s) \/ ReadsNothing(s)
    \/ AppIdle(s) \/ AppIgnores(s) \/ AppHandles(s)

-----------------------------------------------------------------------------
(***************************************************************************)
(* The network and the master.  The master's transport is the only one to  *)
(* write and to send headers, and it reads its driver before each of both, *)
(* so its driver never holds more than one frame that matters to it.       *)
(***************************************************************************)

\* pushEvent: an event that finds the queue full is discarded.
pushEvent(queue, e) == IF Len(queue) < EventQueueSize THEN Append(queue, e) ELSE queue

MasterFree == notify = 0 /\ masterRx = NoFrame

\* writeMessage: one request frame to all slaves, under the network's lock.
writeMessage ==
    /\ MasterFree
    /\ masterTx # <<>>
    /\ events' = [s \in Slaves |-> pushEvent(events[s], Head(masterTx))]
    /\ masterTx' = Tail(masterTx)
    /\ UNCHANGED <<slaveVars, masterRx, hearing, inbox, asked, outcome, due, requests, slot,
                   notify, taken, deaf>>

\* requestSlaveResponse: a header takes the pending response off the slot for
\* the master; then the slaves are told one by one, without the lock.
requestSlaveResponse ==
    /\ MasterFree
    /\ masterTx = <<>>
    /\ asked # Nothing \/ hearing # <<>>
    /\ slot # NoFrame
    /\ slot' = NoFrame
    /\ masterRx' = slot
    /\ notify' = 1
    /\ taken' = [taken EXCEPT ![slot.by] = Append(@, slot)]
    /\ UNCHANGED <<slaveVars, masterTx, hearing, inbox, asked, outcome, due, requests, events,
                   deaf>>

\* pushEvent for the next slave, in the order the slaves were created.
notifySlave ==
    /\ notify # 0
    /\ events' = [events EXCEPT ![notify] = pushEvent(@, Confirmation)]
    /\ deaf' = IF Len(events[notify]) < EventQueueSize THEN deaf ELSE deaf \cup {notify}
    /\ notify' = IF notify = N THEN 0 ELSE notify + 1
    /\ UNCHANGED <<slaveVars, masterVars, slot, taken>>

\* The reception after frame f: what is open, and whether a message is whole.
Extends(f) == hearing # <<>> /\ (f.k - 1) % 16 = Len(hearing) % 16
Heard(f) == IF f.k = 1 THEN <<f>> ELSE IF Extends(f) THEN Append(hearing, f) ELSE <<>>
Whole(frames) == frames # <<>> /\ Len(frames) = frames[1].n

\* receiveFromDriver in the master role, see Reassembly: the frames of a
\* message must follow each other, nothing says they have one sender.
receiveFromDriver ==
    /\ masterRx # NoFrame /\ notify = 0
    /\ masterRx' = NoFrame
    /\ LET frames == Heard(masterRx)
       IN  \/ /\ Whole(frames)
              /\ hearing' = <<>>
              /\ inbox' = deliverMessage(inbox, frames)
           \/ /\ ~Whole(frames)
              /\ hearing' = frames
              /\ UNCHANGED inbox
    /\ UNCHANGED <<slaveVars, netVars, masterTx, asked, outcome, due, requests>>

\* A request is queued, see LinMaster.  It is to be answered if a slave that
\* is not stopped has the NAD and a response that fits its queue.
Ask(r) ==
    /\ asked = Nothing
    /\ requests < MaxRequests
    /\ requests' = requests + 1
    /\ asked' = [id |-> requests + 1, dir |-> "RX", req |-> r]
    /\ masterTx' = Append(masterTx, asked')
    /\ due' = \E s \in Slaves : /\ ~halted[s]
                                /\ ForMe(s, r)
                                /\ ResponseFrames(s, r) \in 1 .. TxQueueSize
    /\ outcome' = [end |-> "none"]
    /\ UNCHANGED <<slaveVars, netVars, masterRx, hearing, inbox>>

\* waitForResponse takes NAD and SID of a message from its first frame.
Matches(heard) ==
    /\ asked.req.nad \in {heard[1].nad, Broadcast}
    /\ heard[1].sid = asked.req.sid

Answered ==
    /\ asked # Nothing
    /\ inbox # <<>>
    /\ Matches(Head(inbox))
    /\ outcome' = [end |-> "answer", to |-> asked.id, heard |-> Head(inbox)]
    /\ asked' = Nothing
    /\ inbox' = Tail(inbox)
    /\ UNCHANGED <<slaveVars, netVars, masterTx, masterRx, hearing, due, requests>>

Skipped ==
    /\ asked # Nothing
    /\ inbox # <<>>
    /\ ~Matches(Head(inbox))
    /\ inbox' = Tail(inbox)
    /\ UNCHANGED <<slaveVars, netVars, masterTx, masterRx, hearing, asked, outcome, due,
                   requests>>

\* Nothing is on its way that could become an answer.
Quiet ==
    /\ masterTx = <<>> /\ masterRx = NoFrame /\ inbox = <<>>
    /\ slot = NoFrame /\ notify = 0
    /\ \A s \in Slaves :
          \/ at[s] = "gone" \/ (at[s] = "off" /\ halted[s])
          \/ events[s] = <<>> /\ rxQueue[s] = <<>> /\ txQueue[s] = <<>>

TimesOut ==
    /\ asked # Nothing
    /\ Patient => Quiet
    /\ asked' = Nothing
    /\ outcome' = [end |-> "timeout", to |-> asked.id]
    /\ UNCHANGED <<slaveVars, netVars, masterTx, masterRx, hearing, inbox, due, requests>>

\* checkMultiFrameTimeout in the master's transport.
Expires ==
    /\ hearing # <<>>
    /\ Patient => Quiet
    /\ hearing' = <<>>
    /\ UNCHANGED <<slaveVars, netVars, masterTx, masterRx, inbox, asked, outcome, due, requests>>

Master ==
    writeMessage \/ requestSlaveResponse \/ notifySlave \/ receiveFromDriver
        \/ Answered \/ Skipped

Next ==
    \/ Master \/ TimesOut \/ Expires
    \/ \E r \in Requests : Ask(r)
    \/ \E s \in Slaves : Slave(s) \/ Run(s) \/ Stop(s)

\* Goroutines that can run do run, nodes that are made are started, and a
\* request that is not answered times out.  Asking and stopping are free.
Fairness ==
    /\ WF_vars(Master) /\ WF_vars(TimesOut)
    /\ \A s \in Slaves : WF_vars(Slave(s)) /\ WF_vars(Run(s))

Spec == Init /\ [][Next]_vars
FairSpec == Spec /\ Fairness

-----------------------------------------------------------------------------
(***************************************************************************)
(* Properties.                                                             *)
(***************************************************************************)

\* Types; the queues of slaves, drivers and master stay within their capacities
\* (pushEvent, deliverMessage, Transmit).
SlaveTypes ==
    /\ nad \in [Slaves -> Nat] /\ savedNad \in [Slaves -> Nat]
    /\ at \in [Slaves -> {"off", "idle", "read", "app", "gone"}]
    /\ halted \in [Slaves -> BOOLEAN] /\ scheduled \in [Slaves -> BOOLEAN]
    /\ txQueue \in [Slaves -> Seq(Frame)] /\ queued \in [Slaves -> Seq(Frame)]
    /\ rxQueue \in [Slaves -> Seq(Message)]
    /\ \A s \in Slaves : Len(rxQueue[s]) <= RxQueueSize /\ Len(txQueue[s]) <= TxQueueSize

NetTypes ==
    /\ events \in [Slaves -> Seq(Event)]
    /\ \A s \in Slaves : Len(events[s]) <= EventQueueSize
    /\ slot \in Frame \cup {NoFrame}
    /\ notify \in 0 .. N
    /\ taken \in [Slaves -> Seq(Frame)]
    /\ deaf \subseteq Slaves

MasterTypes ==
    /\ masterTx \in Seq(Message)
    /\ masterRx \in Frame \cup {NoFrame}
    /\ hearing \in Seq(Frame)
    /\ inbox \in Seq(Seq(Frame)) /\ Len(inbox) <= RxQueueSize
    /\ asked \in Message \cup {Nothing}
    /\ due \in BOOLEAN
    /\ requests \in Nat

TypeOK == SlaveTypes /\ NetTypes /\ MasterTypes

\* The slave s will still be told that a response has left the slot.
ToBeTold(s) ==
    \/ slot # NoFrame
    \/ notify \in 1 .. s
    \/ \E i \in DOMAIN events[s] : events[s][i] = Confirmation

\* A slave that waits for a TX event before it sends on (transport.go:245) has
\* one coming, even when another slave replaced its frame in the slot; only a
\* full event queue, which drops the TX event, can silence a slave for good.
NeverStuck == \A s \in Slaves : scheduled[s] => ToBeTold(s) \/ s \in deaf

\* A slave alone on the bus loses and repeats no frame: what it queued is what
\* the bus took from it, then the slot, then its txQueue, in that order, however
\* the master asks, gives up and asks again (transport.go:452-465).
InOrder ==
    \A s \in Slaves :
        queued[s] = taken[s] \o (IF slot # NoFrame /\ slot.by = s THEN <<slot>> ELSE <<>>)
                        \o txQueue[s]

\* All frames are of one message of one slave.
OneSpeaker(frames) ==
    \A i \in DOMAIN frames :
        frames[i] = [frames[1] EXCEPT !.k = i]

\* A message the master hears comes from one node, the one its NAD names
\* (preset.go:137-138): no frame of it is another node's or another message's.
WholeAnswers ==
    /\ \A i \in DOMAIN inbox : OneSpeaker(inbox[i])
    /\ outcome.end = "answer" => OneSpeaker(outcome.heard)

\* The answer a request ends with was given to that request, not left over
\* from an earlier one (master.go:83-112).
AnswersMatch == outcome.end = "answer" => outcome.heard[1].to = outcome.to

\* A request that a running node was to answer is not given up: its response
\* passes the NAD filter even if the node changes its NAD (slave.go:216-222).
NotGivenUp == outcome.end = "timeout" => ~due

\* A request ends, by an answer or because nothing is coming any more: no slave
\* holds back frames for a TX event that nobody sends.
RequestEnds == (asked # Nothing) ~> (asked = Nothing)
=============================================================================
