----------------------------- MODULE LinBusProofs -----------------------------
(***************************************************************************)
(* Proofs about the simulated bus for any number of slaves, any requests   *)
(* and any queue sizes.                                                    *)
(***************************************************************************)
EXTENDS LinBus, TLAPS, SequenceTheorems

\* Every request in a queue can be told from a TX event.
LEMMA MessageIsNoConfirmation == \A m \in Message : m # Confirmation
BY DEF Message, Confirmation

\* A queued frame is never mistaken for the empty slot.
LEMMA FrameIsThere == \A f \in Frame : f # NoFrame
<1>1. \A f \in Frame : f.k # 0 BY DEF Frame
<1>2. QED BY <1>1 DEF NoFrame

\* Head and tail of a queue.
LEMMA QueueParts ==
    ASSUME NEW S, NEW q \in Seq(S), q # <<>>
    PROVE  /\ Head(q) \in S
           /\ Tail(q) \in Seq(S)
           /\ Len(Tail(q)) < Len(q)
OBVIOUS

\* pushEvent and deliverMessage keep a queue's type and its capacity.
LEMMA Pushed ==
    ASSUME NEW q \in Seq(Event), Len(q) <= EventQueueSize, NEW e \in Event
    PROVE  /\ pushEvent(q, e) \in Seq(Event)
           /\ Len(pushEvent(q, e)) <= EventQueueSize
BY BusAssumption DEF pushEvent

LEMMA Delivered ==
    ASSUME NEW S, NEW q \in Seq(S), Len(q) <= RxQueueSize, NEW m \in S
    PROVE  /\ deliverMessage(q, m) \in Seq(S)
           /\ Len(deliverMessage(q, m)) <= RxQueueSize
BY BusAssumption DEF deliverMessage

\* A response has a whole number of frames.
LEMMA ResponseLength ==
    ASSUME NEW s \in Slaves, NEW r \in RequestType
    PROVE  ResponseFrames(s, r) \in Nat
BY BusAssumption DEF ResponseFrames

\* The frames of a response are a sequence of frames.
LEMMA AnswerTypes ==
    ASSUME NEW s \in Slaves, NEW a \in Nat, NEW m \in Message, NEW n \in Nat
    PROVE  /\ Answer(s, a, m, n) \in Seq(Frame)
           /\ Len(Answer(s, a, m, n)) = n
<1>1. m.id \in Nat /\ m.req.sid \in Sids BY DEF Message, RequestType
<1>2. \A k \in 1 .. n : [by |-> s, nad |-> a, sid |-> m.req.sid, to |-> m.id, k |-> k,
                         n |-> n] \in Frame
  BY <1>1 DEF Frame
<1>3. QED BY <1>2 DEF Answer

-----------------------------------------------------------------------------
\* Scheduling the next frame keeps the slave's types and fills the slot.
LEMMA ScheduleTypes ==
    ASSUME TypeOK, NEW s \in Slaves, Schedules(s), txQueue[s] # <<>>
    PROVE  /\ slot' \in Frame
           /\ scheduled' \in [Slaves -> BOOLEAN]
           /\ txQueue' \in [Slaves -> Seq(Frame)]
           /\ \A t \in Slaves : Len(txQueue'[t]) <= TxQueueSize
<1>1. txQueue \in [Slaves -> Seq(Frame)] /\ scheduled \in [Slaves -> BOOLEAN]
      /\ (\A t \in Slaves : Len(txQueue[t]) <= TxQueueSize) /\ TxQueueSize \in Nat
  BY BusAssumption DEF TypeOK, SlaveTypes
<1>2. /\ Head(txQueue[s]) \in Frame /\ Tail(txQueue[s]) \in Seq(Frame)
      /\ Len(Tail(txQueue[s])) < Len(txQueue[s])
  BY <1>1, QueueParts
<1>3. QED BY <1>1, <1>2 DEF Schedules

\* Reading an event keeps the types of the events that stay.
LEMMA ReadTypes ==
    ASSUME TypeOK, NEW s \in Slaves, Reads(s)
    PROVE  /\ events' \in [Slaves -> Seq(Event)]
           /\ \A t \in Slaves : Len(events'[t]) <= EventQueueSize
           /\ Head(events[s]) \in Event
<1>1. events \in [Slaves -> Seq(Event)] /\ EventQueueSize \in Nat
      /\ \A t \in Slaves : Len(events[t]) <= EventQueueSize
  BY BusAssumption DEF TypeOK, NetTypes
<1>2. /\ Head(events[s]) \in Event /\ Tail(events[s]) \in Seq(Event)
      /\ Len(Tail(events[s])) < Len(events[s])
  BY <1>1, QueueParts DEF Reads
<1>3. QED BY <1>1, <1>2 DEF Reads

-----------------------------------------------------------------------------
\* Type correctness, action by action.
LEMMA TypeInit == Init => TypeOK
<1> SUFFICES ASSUME Init PROVE TypeOK OBVIOUS
<1>1. SlaveTypes BY BusAssumption DEF Init, SlaveTypes
<1>2. NetTypes BY BusAssumption DEF Init, NetTypes
<1>3. MasterTypes
  <2>1. masterTx \in Seq(Message) /\ hearing \in Seq(Frame) /\ inbox \in Seq(Seq(Frame))
    BY DEF Init
  <2>2. Len(inbox) <= RxQueueSize BY BusAssumption DEF Init
  <2>3. masterRx \in Frame \cup {NoFrame} /\ asked \in Message \cup {Nothing} BY DEF Init
  <2>4. due \in BOOLEAN /\ requests \in Nat BY DEF Init
  <2>5. QED BY <2>1, <2>2, <2>3, <2>4 DEF MasterTypes
<1>4. QED BY <1>1, <1>2, <1>3 DEF TypeOK

\* Starting, stopping and pacing a slave.
LEMMA TypeLifecycle ==
    ASSUME TypeOK, NEW s \in Slaves,
           Run(s) \/ Stop(s) \/ Exit(s) \/ Tick(s) \/ AppIdle(s)
    PROVE  TypeOK'
<1>1. NetTypes' BY DEF TypeOK, NetTypes, Run, Stop, Exit, Tick, AppIdle, netVars
<1>2. SlaveTypes'
  BY DEF TypeOK, SlaveTypes, Run, Stop, Exit, Tick, AppIdle
<1>3. MasterTypes'
  <2>1. CASE Stop(s) BY <2>1 DEF TypeOK, MasterTypes, Stop
  <2>2. CASE Run(s) \/ Exit(s) \/ Tick(s) \/ AppIdle(s)
    BY <2>2 DEF TypeOK, MasterTypes, Run, Exit, Tick, AppIdle, masterVars
  <2>3. QED BY <2>1, <2>2
<1>4. QED BY <1>1, <1>2, <1>3 DEF TypeOK

\* The slave transport: reading events and starting a response.
LEMMA TypeTransport ==
    ASSUME TypeOK, NEW s \in Slaves,
           TakesConfirmation(s) \/ IgnoresConfirmation(s) \/ TakesRequest(s) \/ ReadsNothing(s)
    PROVE  TypeOK'
<1>1. CASE TakesConfirmation(s)
  <2>1. UNCHANGED <<nad, savedNad, at, halted, rxQueue, queued, masterVars, notify, taken, deaf>>
    BY <1>1 DEF TakesConfirmation, Reads
  <2>2. MasterTypes' BY <2>1 DEF TypeOK, MasterTypes, masterVars
  <2>3. /\ slot' \in Frame \cup {NoFrame}
        /\ scheduled' \in [Slaves -> BOOLEAN]
        /\ txQueue' \in [Slaves -> Seq(Frame)]
        /\ \A t \in Slaves : Len(txQueue'[t]) <= TxQueueSize
    <3>1. CASE txQueue[s] # <<>> /\ Schedules(s) BY <3>1, ScheduleTypes
    <3>2. CASE /\ scheduled' = [scheduled EXCEPT ![s] = FALSE]
               /\ UNCHANGED <<txQueue, slot>>
      BY <3>2 DEF TypeOK, SlaveTypes, NetTypes
    <3>3. QED BY <1>1, <3>1, <3>2 DEF TakesConfirmation
  <2>4. SlaveTypes' BY <2>1, <2>3 DEF TypeOK, SlaveTypes
  <2>5. NetTypes' BY <1>1, <2>1, <2>3, ReadTypes DEF TakesConfirmation, TypeOK, NetTypes
  <2>6. QED BY <2>2, <2>4, <2>5 DEF TypeOK
<1>2. CASE IgnoresConfirmation(s)
  <2>1. UNCHANGED <<nad, savedNad, at, halted, scheduled, txQueue, rxQueue, queued, masterVars,
                    slot, notify, taken, deaf>>
    BY <1>2 DEF IgnoresConfirmation, Reads
  <2>2. MasterTypes' BY <2>1 DEF TypeOK, MasterTypes, masterVars
  <2>3. SlaveTypes' BY <2>1 DEF TypeOK, SlaveTypes
  <2>4. NetTypes' BY <1>2, <2>1, ReadTypes DEF IgnoresConfirmation, TypeOK, NetTypes
  <2>5. QED BY <2>2, <2>3, <2>4 DEF TypeOK
<1>3. CASE TakesRequest(s)
  <2>1. UNCHANGED <<nad, savedNad, at, halted, scheduled, txQueue, queued, masterVars,
                    slot, notify, taken, deaf>>
    BY <1>3 DEF TakesRequest, Reads
  <2>2. MasterTypes' BY <2>1 DEF TypeOK, MasterTypes, masterVars
  <2>3. Head(events[s]) \in Message BY <1>3, ReadTypes DEF TakesRequest, Event
  <2>4. rxQueue \in [Slaves -> Seq(Message)] /\ \A t \in Slaves : Len(rxQueue[t]) <= RxQueueSize
    BY DEF TypeOK, SlaveTypes
  <2>5. LET q == deliverMessage(rxQueue[s], Head(events[s]))
        IN  q \in Seq(Message) /\ Len(q) <= RxQueueSize
    BY <2>3, <2>4, Delivered
  <2>6. /\ rxQueue' \in [Slaves -> Seq(Message)]
        /\ \A t \in Slaves : Len(rxQueue'[t]) <= RxQueueSize
    BY <1>3, <2>4, <2>5 DEF TakesRequest
  <2>7. SlaveTypes' BY <2>1, <2>6 DEF TypeOK, SlaveTypes
  <2>8. NetTypes' BY <1>3, <2>1, ReadTypes DEF TakesRequest, TypeOK, NetTypes
  <2>9. QED BY <2>2, <2>7, <2>8 DEF TypeOK
<1>4. CASE ReadsNothing(s)
  <2>1. UNCHANGED <<nad, savedNad, halted, rxQueue, queued, masterVars, events, notify, taken,
                    deaf>> /\ at' = [at EXCEPT ![s] = "app"]
    BY <1>4 DEF ReadsNothing
  <2>2. MasterTypes' BY <2>1 DEF TypeOK, MasterTypes, masterVars
  <2>3. /\ slot' \in Frame \cup {NoFrame}
        /\ scheduled' \in [Slaves -> BOOLEAN]
        /\ txQueue' \in [Slaves -> Seq(Frame)]
        /\ \A t \in Slaves : Len(txQueue'[t]) <= TxQueueSize
    <3>1. CASE MayStart(s) /\ Schedules(s) BY <3>1, ScheduleTypes DEF MayStart
    <3>2. CASE UNCHANGED <<slot, scheduled, txQueue>>
      BY <3>2 DEF TypeOK, SlaveTypes, NetTypes
    <3>3. QED BY <1>4, <3>1, <3>2 DEF ReadsNothing
  <2>4. SlaveTypes' BY <2>1, <2>3 DEF TypeOK, SlaveTypes
  <2>5. NetTypes' BY <2>1, <2>3 DEF TypeOK, NetTypes
  <2>6. QED BY <2>2, <2>4, <2>5 DEF TypeOK
<1>5. QED BY <1>1, <1>2, <1>3, <1>4

\* The slave node: a request for another node, or one it answers.
LEMMA TypeApp ==
    ASSUME TypeOK, NEW s \in Slaves, AppIgnores(s) \/ AppHandles(s)
    PROVE  TypeOK'
<1>1. rxQueue \in [Slaves -> Seq(Message)] /\ RxQueueSize \in Nat
      /\ \A t \in Slaves : Len(rxQueue[t]) <= RxQueueSize
  BY BusAssumption DEF TypeOK, SlaveTypes
<1>2. rxQueue[s] # <<>> /\ rxQueue' = [rxQueue EXCEPT ![s] = Tail(@)]
      /\ at' = [at EXCEPT ![s] = "idle"] /\ UNCHANGED <<halted, scheduled, masterVars, netVars>>
  BY DEF AppIgnores, AppHandles
<1>3. /\ Head(rxQueue[s]) \in Message /\ Tail(rxQueue[s]) \in Seq(Message)
      /\ Len(Tail(rxQueue[s])) <= RxQueueSize
  BY <1>1, <1>2, QueueParts
<1>4. /\ rxQueue' \in [Slaves -> Seq(Message)]
      /\ \A t \in Slaves : Len(rxQueue'[t]) <= RxQueueSize
  BY <1>1, <1>2, <1>3
<1>5. NetTypes' BY <1>2 DEF TypeOK, NetTypes, netVars
<1>6. MasterTypes' BY <1>2 DEF TypeOK, MasterTypes, masterVars
<1>7. /\ nad' \in [Slaves -> Nat] /\ savedNad' \in [Slaves -> Nat]
      /\ txQueue' \in [Slaves -> Seq(Frame)] /\ queued' \in [Slaves -> Seq(Frame)]
      /\ \A t \in Slaves : Len(txQueue'[t]) <= TxQueueSize
  <2>1. CASE AppIgnores(s) BY <2>1 DEF AppIgnores, TypeOK, SlaveTypes
  <2>2. CASE AppHandles(s)
    <3> DEFINE m == Head(rxQueue[s])
    <3>1. m.req \in RequestType /\ m \in Message BY <1>3 DEF Message
    <3>2. nad \in [Slaves -> Nat] /\ savedNad \in [Slaves -> Nat]
      BY DEF TypeOK, SlaveTypes
    <3>3. NadAfter(s, m.req) \in Nat BY <3>1, <3>2 DEF NadAfter, RequestType
    <3>4. nad' \in [Slaves -> Nat] /\ savedNad' \in [Slaves -> Nat]
      BY <2>2, <3>2, <3>3 DEF AppHandles
    <3>5. PICK n \in Nat : Transmits(s, nad[s], m, n)
      BY <2>2, <3>1, ResponseLength DEF AppHandles, ResponseNad
    <3>6. /\ Answer(s, nad[s], m, n) \in Seq(Frame)
          /\ Len(Answer(s, nad[s], m, n)) = n
      BY <3>1, <3>2, AnswerTypes
    <3>7. txQueue \in [Slaves -> Seq(Frame)] /\ queued \in [Slaves -> Seq(Frame)]
          /\ (\A t \in Slaves : Len(txQueue[t]) <= TxQueueSize) /\ TxQueueSize \in Nat
      BY BusAssumption DEF TypeOK, SlaveTypes
    <3>8. CASE Len(txQueue[s]) + n <= TxQueueSize
      <4>1. /\ txQueue' = [txQueue EXCEPT ![s] = @ \o Answer(s, nad[s], m, n)]
            /\ queued' = [queued EXCEPT ![s] = @ \o Answer(s, nad[s], m, n)]
        BY <3>5, <3>8 DEF Transmits
      <4>2. /\ txQueue[s] \o Answer(s, nad[s], m, n) \in Seq(Frame)
            /\ Len(txQueue[s] \o Answer(s, nad[s], m, n)) <= TxQueueSize
            /\ queued[s] \o Answer(s, nad[s], m, n) \in Seq(Frame)
        BY <3>6, <3>7, <3>8
      <4>3. QED BY <3>4, <3>7, <4>1, <4>2
    <3>9. CASE ~(Len(txQueue[s]) + n <= TxQueueSize)
      <4>1. /\ txQueue' = [txQueue EXCEPT ![s] = @ \o <<>>]
            /\ queued' = [queued EXCEPT ![s] = @ \o <<>>]
        BY <3>5, <3>9 DEF Transmits
      <4>2. txQueue[s] \o <<>> = txQueue[s] /\ queued[s] \o <<>> = queued[s] BY <3>7
      <4>3. QED BY <3>4, <3>7, <4>1, <4>2
    <3>10. QED BY <3>8, <3>9
  <2>3. QED BY <2>1, <2>2
<1>8. SlaveTypes' BY <1>2, <1>4, <1>7 DEF TypeOK, SlaveTypes
<1>9. QED BY <1>5, <1>6, <1>8 DEF TypeOK

\* Requests and headers of the master, and the news of a sent response.
LEMMA TypeNetwork ==
    ASSUME TypeOK, writeMessage \/ requestSlaveResponse \/ notifySlave
    PROVE  TypeOK'
<1>1. /\ events \in [Slaves -> Seq(Event)] /\ \A s \in Slaves : Len(events[s]) <= EventQueueSize
      /\ slot \in Frame \cup {NoFrame} /\ notify \in 0 .. N
      /\ taken \in [Slaves -> Seq(Frame)] /\ deaf \subseteq Slaves /\ N \in Nat \ {0}
  BY BusAssumption DEF TypeOK, NetTypes
<1>2. Slaves = 1 .. N BY DEF Slaves
<1>3. CASE writeMessage
  <2>1. masterTx \in Seq(Message) /\ masterTx # <<>> BY <1>3 DEF writeMessage, TypeOK, MasterTypes
  <2>2. Head(masterTx) \in Message /\ Tail(masterTx) \in Seq(Message) BY <2>1, QueueParts
  <2>3. Head(masterTx) \in Event BY <2>2 DEF Event
  <2>4. \A s \in Slaves : /\ pushEvent(events[s], Head(masterTx)) \in Seq(Event)
                          /\ Len(pushEvent(events[s], Head(masterTx))) <= EventQueueSize
    BY <1>1, <2>3, Pushed
  <2>5. NetTypes' BY <1>1, <1>3, <2>4 DEF writeMessage, NetTypes
  <2>6. MasterTypes' BY <1>3, <2>2 DEF writeMessage, TypeOK, MasterTypes
  <2>7. SlaveTypes' BY <1>3 DEF writeMessage, TypeOK, SlaveTypes, slaveVars
  <2>8. QED BY <2>5, <2>6, <2>7 DEF TypeOK
<1>4. CASE requestSlaveResponse
  <2>1. slot \in Frame /\ slot.by \in Slaves BY <1>1, <1>4 DEF requestSlaveResponse, Frame
  <2>2. Append(taken[slot.by], slot) \in Seq(Frame) BY <1>1, <2>1
  <2>3. NetTypes' BY <1>1, <1>4, <2>1, <2>2 DEF requestSlaveResponse, NetTypes
  <2>4. MasterTypes' BY <1>4, <2>1 DEF requestSlaveResponse, TypeOK, MasterTypes
  <2>5. SlaveTypes' BY <1>4 DEF requestSlaveResponse, TypeOK, SlaveTypes, slaveVars
  <2>6. QED BY <2>3, <2>4, <2>5 DEF TypeOK
<1>5. CASE notifySlave
  <2>1. notify \in Slaves BY <1>1, <1>2, <1>5 DEF notifySlave
  <2>2. /\ pushEvent(events[notify], Confirmation) \in Seq(Event)
        /\ Len(pushEvent(events[notify], Confirmation)) <= EventQueueSize
    BY <1>1, <2>1, Pushed DEF Event
  <2>3. /\ events' \in [Slaves -> Seq(Event)]
        /\ \A s \in Slaves : Len(events'[s]) <= EventQueueSize
    BY <1>1, <1>5, <2>1, <2>2 DEF notifySlave
  <2>4. notify' \in 0 .. N /\ deaf' \subseteq Slaves BY <1>1, <1>5, <2>1 DEF notifySlave
  <2>5. NetTypes' BY <1>1, <1>5, <2>3, <2>4 DEF notifySlave, NetTypes
  <2>6. MasterTypes' BY <1>5 DEF notifySlave, TypeOK, MasterTypes, masterVars
  <2>7. SlaveTypes' BY <1>5 DEF notifySlave, TypeOK, SlaveTypes, slaveVars
  <2>8. QED BY <2>5, <2>6, <2>7 DEF TypeOK
<1>6. QED BY <1>3, <1>4, <1>5

\* The master's reassembly and its requests.
LEMMA TypeMaster ==
    ASSUME TypeOK,
           \/ receiveFromDriver \/ Answered \/ Skipped \/ TimesOut \/ Expires
           \/ \E r \in Requests : Ask(r)
    PROVE  TypeOK'
<1>1. SlaveTypes' /\ NetTypes'
  <2>1. UNCHANGED <<slaveVars, netVars>>
    BY DEF receiveFromDriver, Answered, Skipped, TimesOut, Expires, Ask
  <2>2. QED BY <2>1 DEF TypeOK, SlaveTypes, NetTypes, slaveVars, netVars
<1>2. /\ masterTx \in Seq(Message) /\ masterRx \in Frame \cup {NoFrame}
      /\ hearing \in Seq(Frame) /\ inbox \in Seq(Seq(Frame)) /\ Len(inbox) <= RxQueueSize
      /\ asked \in Message \cup {Nothing} /\ due \in BOOLEAN /\ requests \in Nat
      /\ RxQueueSize \in Nat
  BY BusAssumption DEF TypeOK, MasterTypes
<1>3. CASE receiveFromDriver
  <2>1. masterRx \in Frame BY <1>2, <1>3 DEF receiveFromDriver
  <2>2. Heard(masterRx) \in Seq(Frame) BY <1>2, <2>1 DEF Heard
  <2>3. /\ deliverMessage(inbox, Heard(masterRx)) \in Seq(Seq(Frame))
        /\ Len(deliverMessage(inbox, Heard(masterRx))) <= RxQueueSize
    BY <1>2, <2>2, Delivered
  <2>4. /\ hearing' \in Seq(Frame)
        /\ inbox' \in Seq(Seq(Frame)) /\ Len(inbox') <= RxQueueSize
    <3>1. CASE hearing' = <<>> /\ inbox' = deliverMessage(inbox, Heard(masterRx))
      BY <2>3, <3>1
    <3>2. CASE hearing' = Heard(masterRx) /\ inbox' = inbox BY <1>2, <2>2, <3>2
    <3>3. QED BY <1>3, <3>1, <3>2 DEF receiveFromDriver
  <2>5. MasterTypes' BY <1>2, <1>3, <2>4 DEF receiveFromDriver, MasterTypes
  <2>6. QED BY <1>1, <2>5 DEF TypeOK
<1>4. CASE Answered \/ Skipped
  <2>1. inbox # <<>> /\ inbox' = Tail(inbox) BY <1>4 DEF Answered, Skipped
  <2>2. inbox' \in Seq(Seq(Frame)) /\ Len(inbox') <= RxQueueSize BY <1>2, <2>1, QueueParts
  <2>3. /\ UNCHANGED <<masterTx, masterRx, hearing, due, requests>>
        /\ asked' \in Message \cup {Nothing}
    BY <1>2, <1>4 DEF Answered, Skipped
  <2>4. MasterTypes' BY <1>2, <2>2, <2>3 DEF MasterTypes
  <2>5. QED BY <1>1, <2>4 DEF TypeOK
<1>5. CASE TimesOut \/ Expires
  <2>1. /\ UNCHANGED <<masterTx, masterRx, inbox, due, requests>>
        /\ hearing' \in Seq(Frame) /\ asked' \in Message \cup {Nothing}
    <3>1. CASE TimesOut BY <1>2, <3>1 DEF TimesOut
    <3>2. CASE Expires
      <4>1. hearing' = <<>> BY <3>2 DEF Expires
      <4>2. UNCHANGED <<masterTx, masterRx, inbox, asked, due, requests>> BY <3>2 DEF Expires
      <4>3. QED BY <1>2, <4>1, <4>2
    <3>3. QED BY <1>5, <3>1, <3>2
  <2>2. MasterTypes' BY <1>2, <2>1 DEF MasterTypes
  <2>3. QED BY <1>1, <2>2 DEF TypeOK
<1>6. CASE \E r \in Requests : Ask(r)
  <2>1. PICK r \in Requests : Ask(r) BY <1>6
  <2>2. r \in RequestType BY BusAssumption
  <2>3. asked' \in Message BY <1>2, <2>1, <2>2 DEF Ask, Message
  <2>4. masterTx' \in Seq(Message) /\ requests' \in Nat BY <1>2, <2>1, <2>3 DEF Ask
  <2>5. due' \in BOOLEAN BY <2>1 DEF Ask
  <2>6. UNCHANGED <<masterRx, hearing, inbox>> BY <2>1 DEF Ask
  <2>7. MasterTypes' BY <1>2, <2>3, <2>4, <2>5, <2>6 DEF MasterTypes
  <2>8. QED BY <1>1, <2>7 DEF TypeOK
<1>7. QED BY <1>3, <1>4, <1>5, <1>6

\* Every step keeps the types.
LEMMA TypeStep == TypeOK /\ [Next]_vars => TypeOK'
<1> SUFFICES ASSUME TypeOK, [Next]_vars PROVE TypeOK' OBVIOUS
<1>1. CASE Master \/ TimesOut \/ Expires BY <1>1, TypeNetwork, TypeMaster DEF Master
<1>2. CASE \E r \in Requests : Ask(r) BY <1>2, TypeMaster
<1>3. ASSUME NEW s \in Slaves, Slave(s) \/ Run(s) \/ Stop(s) PROVE TypeOK'
  BY <1>3, TypeLifecycle, TypeTransport, TypeApp DEF Slave
<1>4. CASE UNCHANGED vars
  <2>1. UNCHANGED <<slaveVars, netVars, masterVars>>
    BY <1>4 DEF vars, slaveVars, netVars, masterVars
  <2>2. SlaveTypes' BY <2>1 DEF TypeOK, SlaveTypes, slaveVars
  <2>3. NetTypes' BY <2>1 DEF TypeOK, NetTypes, netVars
  <2>4. MasterTypes' BY <2>1 DEF TypeOK, MasterTypes, masterVars
  <2>5. QED BY <2>2, <2>3, <2>4 DEF TypeOK
<1>5. QED BY <1>1, <1>2, <1>3, <1>4 DEF Next

\* Whatever the requests, the queues keep their bounds and the slot holds
\* nothing but a response frame or nothing.
THEOREM TypeCorrect == Spec => []TypeOK
<1>1. QED BY TypeInit, TypeStep, PTL DEF Spec

-----------------------------------------------------------------------------
(***************************************************************************)
(* NeverStuck.  With the types it is inductive: a slave starts to wait     *)
(* only when it fills the slot, a header that empties the slot starts a    *)
(* round of TX events, the round passes every slave, and a TX event leaves *)
(* a queue only by being handled.                                          *)
(***************************************************************************)

\* A TX event that is not the one read is still in the queue afterwards.
LEMMA StillThere ==
    ASSUME NEW q \in Seq(Event), q # <<>>, Head(q) # Confirmation,
           \E i \in DOMAIN q : q[i] = Confirmation
    PROVE  \E i \in DOMAIN Tail(q) : Tail(q)[i] = Confirmation
<1>1. PICK i \in 1 .. Len(q) : q[i] = Confirmation OBVIOUS
<1>2. i # 1 BY <1>1
<1>3. i - 1 \in 1 .. Len(Tail(q)) /\ Tail(q)[i - 1] = q[i] BY <1>1, <1>2
<1>4. DOMAIN Tail(q) = 1 .. Len(Tail(q)) BY QueueParts, LenProperties
<1>5. QED BY <1>1, <1>3, <1>4

\* An event more does not push a TX event out.
LEMMA StillThereAfterPush ==
    ASSUME NEW q \in Seq(Event), NEW e \in Event
    PROVE  /\ (\E i \in DOMAIN q : q[i] = Confirmation)
                => \E i \in DOMAIN pushEvent(q, e) : pushEvent(q, e)[i] = Confirmation
           /\ Len(q) < EventQueueSize
                => \E i \in DOMAIN pushEvent(q, e) : pushEvent(q, e)[i] = e
<1>1. CASE Len(q) < EventQueueSize
  <2>1. pushEvent(q, e) = Append(q, e) BY <1>1 DEF pushEvent
  <2>2. /\ DOMAIN q = 1 .. Len(q) /\ DOMAIN Append(q, e) = 1 .. Len(q) + 1
        /\ \A i \in 1 .. Len(q) : Append(q, e)[i] = q[i]
        /\ Append(q, e)[Len(q) + 1] = e
    OBVIOUS
  <2>3. QED BY <2>1, <2>2
<1>2. CASE ~(Len(q) < EventQueueSize) BY <1>2 DEF pushEvent
<1>3. QED BY <1>1, <1>2

LEMMA NeverStuckInit == Init => NeverStuck
BY DEF Init, NeverStuck

\* The steps of a slave's transport.
LEMMA NeverStuckTransport ==
    ASSUME TypeOK, NeverStuck, NEW s \in Slaves,
           TakesConfirmation(s) \/ IgnoresConfirmation(s) \/ TakesRequest(s) \/ ReadsNothing(s)
    PROVE  NeverStuck'
<1> SUFFICES ASSUME NEW t \in Slaves, scheduled'[t] PROVE ToBeTold(t)' \/ t \in deaf'
  BY DEF NeverStuck
<1>1. scheduled \in [Slaves -> BOOLEAN] /\ events \in [Slaves -> Seq(Event)]
  BY DEF TypeOK, SlaveTypes, NetTypes
<1>2. notify' = notify /\ deaf' = deaf
  BY DEF TakesConfirmation, IgnoresConfirmation, TakesRequest, ReadsNothing, Reads
<1>3. CASE Schedules(s) /\ txQueue[s] # <<>>
  <2>1. slot' # NoFrame BY <1>3, ScheduleTypes, FrameIsThere
  <2>2. QED BY <2>1 DEF ToBeTold
<1>4. CASE t # s /\ UNCHANGED slot
  <2>1. events'[t] = events[t] /\ scheduled'[t] = scheduled[t]
    BY <1>1, <1>4 DEF TakesConfirmation, IgnoresConfirmation, TakesRequest, ReadsNothing, Reads,
                      Schedules
  <2>2. QED BY <1>2, <1>4, <2>1 DEF ToBeTold, NeverStuck
<1>5. CASE t = s /\ UNCHANGED slot /\ ~(Schedules(s) /\ txQueue[s] # <<>>)
  <2>1. ~TakesConfirmation(s) BY <1>1, <1>5 DEF TakesConfirmation
  <2>2. CASE IgnoresConfirmation(s) BY <1>5, <2>2 DEF IgnoresConfirmation
  <2>3. CASE TakesRequest(s)
    <3>1. /\ scheduled[s] /\ Head(events[s]) # Confirmation /\ events[s] # <<>>
          /\ events'[s] = Tail(events[s])
      BY <1>1, <1>5, <2>3 DEF TakesRequest, Reads
    <3>2. ToBeTold(s) \/ s \in deaf BY <3>1 DEF NeverStuck
    <3>3. CASE \E i \in DOMAIN events[s] : events[s][i] = Confirmation
      BY <1>1, <1>5, <3>1, <3>3, StillThere DEF ToBeTold
    <3>4. QED BY <1>2, <1>5, <3>2, <3>3 DEF ToBeTold
  <2>4. CASE ReadsNothing(s)
    <3>1. UNCHANGED <<slot, scheduled, events>>
      BY <1>5, <2>4 DEF ReadsNothing, MayStart
    <3>2. QED BY <1>2, <1>5, <3>1 DEF ToBeTold, NeverStuck
  <2>5. QED BY <2>1, <2>2, <2>3, <2>4
<1>6. UNCHANGED slot \/ (Schedules(s) /\ txQueue[s] # <<>>)
  BY DEF TakesConfirmation, IgnoresConfirmation, TakesRequest, ReadsNothing, MayStart
<1>7. QED BY <1>3, <1>4, <1>5, <1>6

\* The steps of the network.
LEMMA NeverStuckNetwork ==
    ASSUME TypeOK, NeverStuck, writeMessage \/ requestSlaveResponse \/ notifySlave
    PROVE  NeverStuck'
<1> SUFFICES ASSUME NEW t \in Slaves, scheduled'[t] PROVE ToBeTold(t)' \/ t \in deaf'
  BY DEF NeverStuck
<1>1. /\ events \in [Slaves -> Seq(Event)] /\ notify \in 0 .. N /\ N \in Nat \ {0}
      /\ t \in 1 .. N /\ Slaves = 1 .. N
  BY BusAssumption DEF TypeOK, NetTypes, Slaves
<1>2. scheduled' = scheduled
  BY DEF writeMessage, requestSlaveResponse, notifySlave, slaveVars
<1>3. ToBeTold(t) \/ t \in deaf BY <1>2 DEF NeverStuck
<1>4. CASE writeMessage
  <2>1. masterTx \in Seq(Message) /\ masterTx # <<>>
    BY <1>4 DEF writeMessage, TypeOK, MasterTypes
  <2>2. Head(masterTx) \in Event BY <2>1, QueueParts DEF Event
  <2>3. events'[t] = pushEvent(events[t], Head(masterTx)) BY <1>4 DEF writeMessage
  <2>4. notify' = notify /\ slot' = slot /\ deaf' = deaf BY <1>4 DEF writeMessage
  <2>5. CASE \E i \in DOMAIN events[t] : events[t][i] = Confirmation
    BY <1>1, <2>2, <2>3, <2>5, StillThereAfterPush DEF ToBeTold
  <2>6. QED BY <1>3, <2>4, <2>5 DEF ToBeTold
<1>5. CASE requestSlaveResponse
  <2>1. notify' = 1 BY <1>5 DEF requestSlaveResponse
  <2>2. notify' \in 1 .. t BY <1>1, <2>1
  <2>3. QED BY <2>2 DEF ToBeTold
<1>6. CASE notifySlave
  <2>1. slot' = slot /\ deaf \subseteq deaf' BY <1>6 DEF notifySlave
  <2>2. CASE t = notify
    <3>1. CASE Len(events[t]) < EventQueueSize
      <4>1. events'[t] = pushEvent(events[t], Confirmation)
        BY <1>1, <1>6, <2>2 DEF notifySlave
      <4>2. Confirmation \in Event BY DEF Event
      <4>3. QED BY <1>1, <3>1, <4>1, <4>2, StillThereAfterPush DEF ToBeTold
    <3>2. CASE ~(Len(events[t]) < EventQueueSize) BY <1>6, <2>2, <3>2 DEF notifySlave
    <3>3. QED BY <3>1, <3>2
  <2>3. CASE t # notify
    <3>1. events'[t] = events[t] BY <1>1, <1>6, <2>3 DEF notifySlave
    <3>2. notify \in 1 .. t => notify' \in 1 .. t BY <1>1, <1>6, <2>3 DEF notifySlave
    <3>3. QED BY <1>3, <2>1, <3>1, <3>2 DEF ToBeTold
  <2>4. QED BY <2>2, <2>3
<1>7. QED BY <1>4, <1>5, <1>6

\* No other step touches the slot, the events or what is scheduled.
LEMMA NeverStuckElsewhere ==
    ASSUME NeverStuck, UNCHANGED <<scheduled, slot, notify, events, deaf>>
    PROVE  NeverStuck'
BY DEF NeverStuck, ToBeTold

LEMMA NeverStuckStep == TypeOK /\ NeverStuck /\ [Next]_vars => NeverStuck'
<1> SUFFICES ASSUME TypeOK, NeverStuck, [Next]_vars PROVE NeverStuck' OBVIOUS
<1>1. CASE writeMessage \/ requestSlaveResponse \/ notifySlave BY <1>1, NeverStuckNetwork
<1>2. CASE \/ receiveFromDriver \/ Answered \/ Skipped \/ TimesOut \/ Expires
           \/ \E r \in Requests : Ask(r)
  <2>1. UNCHANGED <<slaveVars, netVars>>
    BY <1>2 DEF receiveFromDriver, Answered, Skipped, TimesOut, Expires, Ask
  <2>2. QED BY <2>1, NeverStuckElsewhere DEF slaveVars, netVars
<1>3. ASSUME NEW s \in Slaves, Slave(s) \/ Run(s) \/ Stop(s) PROVE NeverStuck'
  <2>1. CASE TakesConfirmation(s) \/ IgnoresConfirmation(s) \/ TakesRequest(s) \/ ReadsNothing(s)
    BY <2>1, NeverStuckTransport
  <2>2. CASE \/ Run(s) \/ Stop(s) \/ Exit(s) \/ Tick(s) \/ AppIdle(s) \/ AppIgnores(s)
             \/ AppHandles(s)
    <3>1. UNCHANGED <<scheduled, netVars>>
      BY <2>2 DEF Run, Stop, Exit, Tick, AppIdle, AppIgnores, AppHandles
    <3>2. QED BY <3>1, NeverStuckElsewhere DEF netVars
  <2>3. QED BY <1>3, <2>1, <2>2 DEF Slave
<1>4. CASE UNCHANGED vars BY <1>4, NeverStuckElsewhere DEF vars
<1>5. QED BY <1>1, <1>2, <1>3, <1>4 DEF Next, Master

\* However many slaves share the bus and whoever's frame is sent, a slave that
\* waits for a TX event is going to get one or lost it to a full queue.
THEOREM NeverStuckSafe == Spec => []NeverStuck
<1>1. Init => TypeOK /\ NeverStuck BY TypeInit, NeverStuckInit
<1>2. TypeOK /\ NeverStuck /\ [Next]_vars => (TypeOK /\ NeverStuck)'
  BY TypeStep, NeverStuckStep
<1>3. QED BY <1>1, <1>2, PTL DEF Spec

-----------------------------------------------------------------------------
(***************************************************************************)
(* InOrder for a slave alone on the bus.  What makes it inductive is that  *)
(* the response is in one place at a time: in the slot, being announced,   *)
(* or announced by the only TX event in the slave's queue, and that the    *)
(* slave waits as long as it is in one of them.                            *)
(***************************************************************************)

HasTX(q) == \E i \in DOMAIN q : q[i] = Confirmation
OneTX(q) == \A i, j \in DOMAIN q : q[i] = Confirmation /\ q[j] = Confirmation => i = j

OnePlace ==
    /\ slot # NoFrame => scheduled[1] /\ notify = 0 /\ ~HasTX(events[1])
    /\ notify # 0 => scheduled[1] /\ ~HasTX(events[1])
    /\ HasTX(events[1]) => scheduled[1]
    /\ OneTX(events[1])

Lone == OnePlace /\ InOrder

\* The event read was the only TX event, or the one that stays still is.
LEMMA TailTX ==
    ASSUME NEW q \in Seq(Event), q # <<>>, OneTX(q)
    PROVE  /\ OneTX(Tail(q))
           /\ Head(q) = Confirmation => HasTX(q) /\ ~HasTX(Tail(q))
           /\ Head(q) # Confirmation => (HasTX(Tail(q)) <=> HasTX(q))
<1>1. /\ Tail(q) \in Seq(Event) /\ Len(Tail(q)) = Len(q) - 1 /\ Len(q) \in Nat /\ Len(q) >= 1
      /\ \A i \in 1 .. Len(Tail(q)) : Tail(q)[i] = q[i + 1]
      /\ DOMAIN q = 1 .. Len(q) /\ DOMAIN Tail(q) = 1 .. Len(Tail(q))
  BY HeadTailProperties, LenProperties
<1>2. OneTX(Tail(q))
  <2> SUFFICES ASSUME NEW i \in 1 .. Len(Tail(q)), NEW j \in 1 .. Len(Tail(q)),
                      Tail(q)[i] = Confirmation, Tail(q)[j] = Confirmation
               PROVE  i = j
    BY <1>1 DEF OneTX
  <2>1. i + 1 \in DOMAIN q /\ j + 1 \in DOMAIN q /\ q[i + 1] = Confirmation
        /\ q[j + 1] = Confirmation
    BY <1>1
  <2>2. i + 1 = j + 1 BY <2>1 DEF OneTX
  <2>3. QED BY <1>1, <2>2
<1>3. ASSUME Head(q) = Confirmation PROVE HasTX(q) /\ ~HasTX(Tail(q))
  <2>1. 1 \in DOMAIN q /\ q[1] = Confirmation BY <1>1, <1>3
  <2>2. HasTX(q) BY <2>1 DEF HasTX
  <2>3. ASSUME NEW i \in 1 .. Len(Tail(q)), Tail(q)[i] = Confirmation PROVE FALSE
    <3>1. i + 1 \in DOMAIN q /\ q[i + 1] = Confirmation BY <1>1, <2>3
    <3>2. i + 1 = 1 BY <2>1, <3>1 DEF OneTX
    <3>3. QED BY <1>1, <3>2
  <2>4. QED BY <1>1, <2>2, <2>3 DEF HasTX
<1>4. ASSUME Head(q) # Confirmation PROVE HasTX(Tail(q)) <=> HasTX(q)
  <2>1. HasTX(q) => HasTX(Tail(q)) BY <1>4, StillThere DEF HasTX
  <2>2. ASSUME NEW i \in 1 .. Len(Tail(q)), Tail(q)[i] = Confirmation PROVE HasTX(q)
    <3>1. i + 1 \in DOMAIN q /\ q[i + 1] = Confirmation BY <1>1, <2>2
    <3>2. QED BY <3>1 DEF HasTX
  <2>3. QED BY <1>1, <2>1, <2>2 DEF HasTX
<1>5. QED BY <1>2, <1>3, <1>4

\* A push adds no TX event but the one pushed.
LEMMA PushTX ==
    ASSUME NEW q \in Seq(Event), NEW e \in Event, OneTX(q), ~HasTX(q) \/ e # Confirmation
    PROVE  /\ OneTX(pushEvent(q, e))
           /\ e # Confirmation => (HasTX(pushEvent(q, e)) <=> HasTX(q))
<1>1. CASE pushEvent(q, e) = q
  BY <1>1 
<1>2. CASE pushEvent(q, e) = Append(q, e)
  <2>1. /\ Len(q) \in Nat /\ DOMAIN q = 1 .. Len(q) /\ DOMAIN Append(q, e) = 1 .. Len(q) + 1
        /\ \A i \in 1 .. Len(q) : Append(q, e)[i] = q[i]
        /\ Append(q, e)[Len(q) + 1] = e
    OBVIOUS
  <2>2. OneTX(Append(q, e))
    <3> SUFFICES ASSUME NEW i \in 1 .. Len(q) + 1, NEW j \in 1 .. Len(q) + 1,
                        Append(q, e)[i] = Confirmation, Append(q, e)[j] = Confirmation
                 PROVE  i = j
      BY <2>1 DEF OneTX
    <3>1. CASE i \in 1 .. Len(q) /\ j \in 1 .. Len(q) BY <2>1, <3>1 DEF OneTX
    <3>2. CASE i = Len(q) + 1 /\ j \in 1 .. Len(q) BY <2>1, <3>2 DEF HasTX
    <3>3. CASE i \in 1 .. Len(q) /\ j = Len(q) + 1 BY <2>1, <3>3 DEF HasTX
    <3>4. QED BY <2>1, <3>1, <3>2, <3>3
  <2>3. ASSUME e # Confirmation PROVE HasTX(Append(q, e)) <=> HasTX(q)
    BY <2>1, <2>3 DEF HasTX
  <2>4. QED BY <1>2, <2>2, <2>3
<1>3. QED BY <1>1, <1>2 DEF pushEvent

\* Taking the head off the queue and putting it before the rest.
LEMMA HeadThenTail ==
    ASSUME NEW S, NEW t \in Seq(S), NEW q \in Seq(S), q # <<>>
    PROVE  t \o <<>> \o q = t \o <<Head(q)>> \o Tail(q)
<1>1. Head(q) \in S /\ Tail(q) \in Seq(S) BY HeadTailProperties
<1>2. <<Head(q)>> \o Tail(q) = q
  <2>1. <<Head(q)>> \o Tail(q) \in Seq(S) BY <1>1
  <2>2. Len(<<Head(q)>> \o Tail(q)) = Len(q) BY <1>1, HeadTailProperties
  <2>3. \A i \in 1 .. Len(q) : (<<Head(q)>> \o Tail(q))[i] = q[i]
    BY <1>1, HeadTailProperties
  <2>4. QED BY <2>1, <2>2, <2>3, SeqEqual
<1>3. t \o <<>> = t BY ConcatEmptySeq
<1>4. (t \o <<Head(q)>>) \o Tail(q) = t \o (<<Head(q)>> \o Tail(q))
  BY <1>1, ConcatAssociative
<1>5. QED BY <1>2, <1>3, <1>4

\* What a lone slave is about, with its index made explicit.
LEMMA LoneTypes ==
    ASSUME TypeOK, N = 1
    PROVE  /\ Slaves = {1} /\ 1 \in Slaves
           /\ events[1] \in Seq(Event) /\ txQueue[1] \in Seq(Frame)
           /\ queued[1] \in Seq(Frame) /\ taken[1] \in Seq(Frame)
           /\ slot \in Frame \cup {NoFrame} /\ notify \in 0 .. 1
           /\ slot # NoFrame => slot.by = 1
<1>1. Slaves = {1} BY DEF Slaves
<1>2. QED BY <1>1 DEF TypeOK, SlaveTypes, NetTypes, Frame

\* InOrder of a lone slave.
LEMMA LoneOrder ==
    ASSUME TypeOK, N = 1
    PROVE  InOrder <=>
             queued[1] = taken[1] \o (IF slot # NoFrame THEN <<slot>> ELSE <<>>) \o txQueue[1]
BY LoneTypes DEF InOrder

LEMMA LoneInit == Init /\ N = 1 => Lone
<1> SUFFICES ASSUME Init, N = 1 PROVE Lone OBVIOUS
<1>1. Slaves = {1} /\ events[1] = <<>> BY DEF Init, Slaves
<1>2. OnePlace BY <1>1 DEF Init, OnePlace, HasTX, OneTX
<1>3. InOrder BY <1>1 DEF Init, InOrder
<1>4. QED BY <1>2, <1>3 DEF Lone

\* A free slot is filled with the next frame of txQueue.
LEMMA LoneSchedules ==
    ASSUME TypeOK, TypeOK', N = 1, InOrder, slot = NoFrame, Schedules(1), txQueue[1] # <<>>,
           queued' = queued, taken' = taken
    PROVE  InOrder' /\ scheduled'[1]
<1>1. /\ txQueue[1] \in Seq(Frame) /\ taken[1] \in Seq(Frame)
      /\ txQueue \in [Slaves -> Seq(Frame)] /\ scheduled \in [Slaves -> BOOLEAN]
      /\ 1 \in Slaves
  BY LoneTypes DEF TypeOK, SlaveTypes
<1>2. slot' = Head(txQueue[1]) /\ txQueue'[1] = Tail(txQueue[1]) /\ scheduled'[1]
  BY <1>1 DEF Schedules
<1>3. slot' # NoFrame BY ScheduleTypes, FrameIsThere, <1>1
<1>4. queued[1] = taken[1] \o <<>> \o txQueue[1] BY LoneOrder
<1>5. queued'[1] = taken'[1] \o <<slot'>> \o txQueue'[1]
  BY <1>1, <1>2, <1>4, HeadThenTail
<1>6. InOrder' <=>
        queued'[1] = taken'[1] \o (IF slot' # NoFrame THEN <<slot'>> ELSE <<>>) \o txQueue'[1]
  <2>1. Slaves = {1} /\ (slot' # NoFrame => slot'.by = 1)
    BY LoneTypes DEF TypeOK, NetTypes, Frame
  <2>2. QED BY <2>1 DEF InOrder
<1>7. QED BY <1>2, <1>3, <1>5, <1>6

\* The lone slave's transport.
LEMMA LoneTransport ==
    ASSUME TypeOK, TypeOK', N = 1, Lone,
           TakesConfirmation(1) \/ IgnoresConfirmation(1) \/ TakesRequest(1) \/ ReadsNothing(1)
    PROVE  Lone'
<1>1. /\ events[1] \in Seq(Event) /\ txQueue[1] \in Seq(Frame) /\ 1 \in Slaves
      /\ events \in [Slaves -> Seq(Event)] /\ scheduled \in [Slaves -> BOOLEAN]
  BY LoneTypes DEF TypeOK, SlaveTypes, NetTypes
<1>2. queued' = queued /\ taken' = taken /\ notify' = notify
  BY DEF TakesConfirmation, IgnoresConfirmation, TakesRequest, ReadsNothing, Reads
<1>3. ASSUME Reads(1)
      PROVE  /\ events[1] # <<>> /\ events'[1] = Tail(events[1]) /\ OneTX(events'[1])
             /\ Head(events[1]) = Confirmation => HasTX(events[1]) /\ ~HasTX(events'[1])
             /\ Head(events[1]) # Confirmation => (HasTX(events'[1]) <=> HasTX(events[1]))
  <2>1. events[1] # <<>> /\ events'[1] = Tail(events[1]) BY <1>1, <1>3 DEF Reads
  <2>2. QED BY <1>1, <2>1, TailTX DEF Lone, OnePlace
<1>4. CASE TakesConfirmation(1)
  <2>1. /\ HasTX(events[1]) /\ ~HasTX(events'[1]) /\ OneTX(events'[1])
    BY <1>3, <1>4 DEF TakesConfirmation
  <2>2. slot = NoFrame /\ notify = 0 BY <2>1 DEF Lone, OnePlace
  <2>3. CASE txQueue[1] # <<>> /\ Schedules(1)
    <3>1. InOrder' /\ scheduled'[1] BY <1>2, <2>2, <2>3, LoneSchedules DEF Lone
    <3>2. OnePlace' BY <1>2, <2>1, <2>2, <3>1 DEF OnePlace
    <3>3. QED BY <3>1, <3>2 DEF Lone
  <2>4. CASE UNCHANGED <<txQueue, slot>>
    <3>1. OnePlace' BY <1>2, <2>1, <2>2, <2>4 DEF OnePlace
    <3>2. InOrder' BY <1>2, <2>4 DEF Lone, InOrder
    <3>3. QED BY <3>1, <3>2 DEF Lone
  <2>5. QED BY <1>4, <2>3, <2>4 DEF TakesConfirmation
<1>5. CASE IgnoresConfirmation(1)
  <2>1. HasTX(events[1]) /\ ~scheduled[1] BY <1>3, <1>5 DEF IgnoresConfirmation
  <2>2. QED BY <2>1 DEF Lone, OnePlace
<1>6. CASE TakesRequest(1)
  <2>1. /\ HasTX(events'[1]) <=> HasTX(events[1])
        /\ OneTX(events'[1]) /\ UNCHANGED <<scheduled, txQueue, slot>>
    BY <1>3, <1>6 DEF TakesRequest
  <2>2. OnePlace' BY <1>2, <2>1 DEF Lone, OnePlace
  <2>3. InOrder' BY <1>2, <2>1 DEF Lone, InOrder
  <2>4. QED BY <2>2, <2>3 DEF Lone
<1>7. CASE ReadsNothing(1)
  <2>1. events' = events BY <1>7 DEF ReadsNothing
  <2>2. CASE MayStart(1) /\ Schedules(1)
    <3>1. ~scheduled[1] /\ txQueue[1] # <<>> BY <2>2 DEF MayStart
    <3>2. slot = NoFrame /\ notify = 0 /\ ~HasTX(events[1]) BY <3>1 DEF Lone, OnePlace
    <3>3. InOrder' /\ scheduled'[1] BY <1>2, <2>2, <3>1, <3>2, LoneSchedules DEF Lone
    <3>4. OnePlace' BY <1>2, <2>1, <3>2, <3>3 DEF Lone, OnePlace
    <3>5. QED BY <3>3, <3>4 DEF Lone
  <2>3. CASE UNCHANGED <<slot, scheduled, txQueue>>
    <3>1. OnePlace' BY <1>2, <2>1, <2>3 DEF Lone, OnePlace
    <3>2. InOrder' BY <1>2, <2>3 DEF Lone, InOrder
    <3>3. QED BY <3>1, <3>2 DEF Lone
  <2>4. QED BY <1>7, <2>2, <2>3 DEF ReadsNothing
<1>8. QED BY <1>4, <1>5, <1>6, <1>7

\* A response is handled: its frames join queued and txQueue alike.
LEMMA LoneApp ==
    ASSUME TypeOK, TypeOK', N = 1, Lone, AppHandles(1)
    PROVE  Lone'
<1>1. /\ 1 \in Slaves /\ txQueue[1] \in Seq(Frame) /\ queued[1] \in Seq(Frame)
      /\ taken[1] \in Seq(Frame) /\ slot \in Frame \cup {NoFrame}
      /\ txQueue \in [Slaves -> Seq(Frame)] /\ queued \in [Slaves -> Seq(Frame)]
  BY LoneTypes DEF TypeOK, SlaveTypes
<1>2. UNCHANGED <<scheduled, events, slot, notify, taken>> BY DEF AppHandles, netVars
<1>3. OnePlace' BY <1>2 DEF Lone, OnePlace
<1> DEFINE m == Head(rxQueue[1])
           n == ResponseFrames(1, m.req)
           a == nad[1]
           frames == IF Len(txQueue[1]) + n <= TxQueueSize THEN Answer(1, a, m, n) ELSE <<>>
           held == IF slot # NoFrame THEN <<slot>> ELSE <<>>
<1>4. txQueue'[1] = txQueue[1] \o frames /\ queued'[1] = queued[1] \o frames
  BY <1>1 DEF AppHandles, Transmits, ResponseNad
<1>5. frames \in Seq(Frame)
  <2>1. rxQueue[1] \in Seq(Message) /\ rxQueue[1] # <<>> /\ a \in Nat
    BY <1>1 DEF AppHandles, TypeOK, SlaveTypes
  <2>2. m \in Message BY <2>1, QueueParts
  <2>3. m.req \in RequestType BY <2>2 DEF Message
  <2>4. n \in Nat BY <1>1, <2>3, ResponseLength
  <2>5. Answer(1, a, m, n) \in Seq(Frame) BY <1>1, <2>1, <2>2, <2>4, AnswerTypes
  <2>6. QED BY <2>5
<1>6. held \in Seq(Frame) /\ taken[1] \o held \in Seq(Frame) BY <1>1
<1> HIDE DEF frames, held
<1>7. ((taken[1] \o held) \o txQueue[1]) \o frames = (taken[1] \o held) \o (txQueue[1] \o frames)
  <2> DEFINE front == taken[1] \o held
             back == txQueue[1]
  <2>1. front \in Seq(Frame) /\ back \in Seq(Frame) BY <1>1, <1>6
  <2> HIDE DEF front, back
  <2>2. (front \o back) \o frames = front \o (back \o frames) BY <1>5, <2>1, ConcatAssociative
  <2>3. QED BY <2>2 DEF front, back
<1>8. queued[1] = taken[1] \o held \o txQueue[1] BY LoneOrder DEF Lone, held
<1>9. queued'[1] = taken[1] \o held \o txQueue'[1] BY <1>4, <1>7, <1>8
<1>10. InOrder' BY <1>2, <1>9, LoneTypes DEF InOrder, held
<1>11. QED BY <1>3, <1>10 DEF Lone

\* A request on the bus, a header, and the TX event after it.
LEMMA LoneNetwork ==
    ASSUME TypeOK, TypeOK', N = 1, Lone, writeMessage \/ requestSlaveResponse \/ notifySlave
    PROVE  Lone'
<1>1. /\ 1 \in Slaves /\ Slaves = {1} /\ events[1] \in Seq(Event)
      /\ txQueue[1] \in Seq(Frame) /\ taken[1] \in Seq(Frame) /\ notify \in 0 .. 1
      /\ slot \in Frame \cup {NoFrame} /\ (slot # NoFrame => slot.by = 1)
      /\ events \in [Slaves -> Seq(Event)] /\ taken \in [Slaves -> Seq(Frame)]
  BY LoneTypes DEF TypeOK, NetTypes
<1>2. OneTX(events[1]) BY DEF Lone, OnePlace
<1>3. UNCHANGED <<scheduled, txQueue, queued>>
  BY DEF writeMessage, requestSlaveResponse, notifySlave, slaveVars
<1>4. CASE writeMessage
  <2>1. masterTx \in Seq(Message) /\ masterTx # <<>>
    BY <1>4 DEF writeMessage, TypeOK, MasterTypes
  <2>2. Head(masterTx) \in Event /\ Head(masterTx) # Confirmation
    BY <2>1, HeadTailProperties, MessageIsNoConfirmation DEF Event
  <2>3. events'[1] = pushEvent(events[1], Head(masterTx)) /\ UNCHANGED <<slot, notify, taken>>
    BY <1>1, <1>4 DEF writeMessage
  <2>4. OneTX(events'[1]) /\ (HasTX(events'[1]) <=> HasTX(events[1]))
    BY <1>1, <1>2, <2>2, <2>3, PushTX
  <2>5. OnePlace' BY <1>3, <2>3, <2>4 DEF Lone, OnePlace
  <2>6. InOrder' BY <1>3, <2>3 DEF Lone, InOrder
  <2>7. QED BY <2>5, <2>6 DEF Lone
<1>5. CASE requestSlaveResponse
  <2>1. slot # NoFrame /\ slot \in Frame /\ slot.by = 1 /\ slot' = NoFrame /\ events' = events
    BY <1>1, <1>5 DEF requestSlaveResponse
  <2>2. scheduled[1] /\ ~HasTX(events[1]) BY <2>1 DEF Lone, OnePlace
  <2>3. OnePlace' BY <1>2, <1>3, <2>1, <2>2 DEF OnePlace
  <2>4. taken'[1] = Append(taken[1], slot) BY <1>1, <1>5, <2>1 DEF requestSlaveResponse
  <2>5. Append(taken[1], slot) = taken[1] \o <<slot>> BY <1>1, <2>1
  <2>6. taken[1] \o <<slot>> \in Seq(Frame) BY <1>1, <2>1
  <2>7. queued[1] = taken[1] \o <<slot>> \o txQueue[1] BY <2>1, LoneOrder DEF Lone
  <2>8. taken'[1] \o <<>> = taken'[1] BY <2>4, <2>5, <2>6, ConcatEmptySeq
  <2>9. InOrder' BY <1>1, <1>3, <2>1, <2>4, <2>5, <2>7, <2>8 DEF InOrder
  <2>10. QED BY <2>3, <2>9 DEF Lone
<1>6. CASE notifySlave
  <2>1. notify = 1 /\ notify' = 0 /\ UNCHANGED <<slot, taken>>
    BY <1>1, <1>6 DEF notifySlave
  <2>2. scheduled[1] /\ ~HasTX(events[1]) /\ slot = NoFrame BY <2>1 DEF Lone, OnePlace
  <2>3. Confirmation \in Event /\ events'[1] = pushEvent(events[1], Confirmation)
    BY <1>1, <1>6, <2>1 DEF notifySlave, Event
  <2>4. OneTX(events'[1]) BY <1>1, <1>2, <2>2, <2>3, PushTX
  <2>5. OnePlace' BY <1>3, <2>1, <2>2, <2>4 DEF OnePlace
  <2>6. InOrder' BY <1>3, <2>1 DEF Lone, InOrder
  <2>7. QED BY <2>5, <2>6 DEF Lone
<1>7. QED BY <1>4, <1>5, <1>6

\* Steps that leave the response where it is.
LEMMA LoneElsewhere ==
    ASSUME Lone, UNCHANGED <<scheduled, slot, notify, events, txQueue, queued, taken>>
    PROVE  Lone'
<1>1. OnePlace' BY DEF Lone, OnePlace
<1>2. InOrder' BY DEF Lone, InOrder
<1>3. QED BY <1>1, <1>2 DEF Lone

LEMMA LoneStep == TypeOK /\ N = 1 /\ Lone /\ [Next]_vars => Lone'
<1> SUFFICES ASSUME TypeOK, N = 1, Lone, [Next]_vars PROVE Lone' OBVIOUS
<1>1. TypeOK' BY TypeStep
<1>2. CASE writeMessage \/ requestSlaveResponse \/ notifySlave BY <1>1, <1>2, LoneNetwork
<1>3. CASE \/ receiveFromDriver \/ Answered \/ Skipped \/ TimesOut \/ Expires
           \/ \E r \in Requests : Ask(r)
  <2>1. UNCHANGED <<slaveVars, netVars>>
    BY <1>3 DEF receiveFromDriver, Answered, Skipped, TimesOut, Expires, Ask
  <2>2. QED BY <2>1, LoneElsewhere DEF slaveVars, netVars
<1>4. ASSUME NEW s \in Slaves, Slave(s) \/ Run(s) \/ Stop(s) PROVE Lone'
  <2>1. s = 1 BY <1>4, LoneTypes
  <2>2. CASE TakesConfirmation(s) \/ IgnoresConfirmation(s) \/ TakesRequest(s) \/ ReadsNothing(s)
    BY <1>1, <2>1, <2>2, LoneTransport
  <2>3. CASE AppHandles(s) BY <1>1, <2>1, <2>3, LoneApp
  <2>4. CASE Run(s) \/ Stop(s) \/ Exit(s) \/ Tick(s) \/ AppIdle(s) \/ AppIgnores(s)
    <3>1. UNCHANGED <<scheduled, txQueue, queued, netVars>>
      BY <2>4 DEF Run, Stop, Exit, Tick, AppIdle, AppIgnores
    <3>2. QED BY <3>1, LoneElsewhere DEF netVars
  <2>5. QED BY <1>4, <2>2, <2>3, <2>4 DEF Slave
<1>5. CASE UNCHANGED vars BY <1>5, LoneElsewhere DEF vars
<1>6. QED BY <1>2, <1>3, <1>4, <1>5 DEF Next, Master

\* A slave that has the bus to itself loses, repeats and reorders no response
\* frame, whatever it is asked and however often the master gives up.
THEOREM InOrderAlone == ASSUME N = 1 PROVE Spec => []InOrder
<1>1. Init => TypeOK /\ Lone BY TypeInit, LoneInit
<1>2. TypeOK /\ Lone /\ [Next]_vars => (TypeOK /\ Lone)' BY TypeStep, LoneStep
<1>3. Lone => InOrder BY DEF Lone
<1>4. QED BY <1>1, <1>2, <1>3, PTL DEF Spec

LEMMA NoElement == ASSUME NEW S, NEW q \in Seq(S), Len(q) = 0 PROVE q = <<>>
OBVIOUS


-----------------------------------------------------------------------------
(***************************************************************************)
(* One request at a time, to one node at a time.  Either nothing but the   *)
(* request is under way, or one slave speaks: its response goes frame by   *)
(* frame through the slot to the master, which has as many of the frames   *)
(* as have left and at most one more in each of the places between.        *)
(***************************************************************************)

\* The NADs slave s can ever have.
Nads(s) ==
    {InitialNad[s]}
        \cup {r.new : r \in {q \in Requests : q.sid = "assign" /\ q.long /\ s \in q.for}}

\* Requests time out only when nothing can come any more, none goes to all
\* nodes, and no two slaves can ever have the same NAD.
Unicast ==
    /\ Patient
    /\ \A r \in Requests : r.nad # Broadcast
    /\ \A s, t \in Slaves : s # t => Nads(s) \cap Nads(t) = {}

\* Events that r requests and their responses bring to a slave.
Bound(r) == r * (TxQueueSize + 1)

\* The queues have room for the last request after all that came before it.
Roomy == RxQueueSize >= MaxRequests /\ EventQueueSize > Bound(MaxRequests - 1)

Elements(q) == {q[i] : i \in DOMAIN q}

\* A slave whose goroutine has ended or will never be started.
Dead(s) == at[s] = "gone" \/ (at[s] = "off" /\ halted[s])

\* A request that only s can ever answer.
Owned(s, e) == e # Confirmation /\ e.req.nad \in Nads(s)
Clear(s, q) == \A e \in Elements(q) : ~Owned(s, e)
AskedLast(s, q) ==
    /\ q # <<>> /\ q[Len(q)] = asked
    /\ \A i \in 1 .. Len(q) - 1 : ~Owned(s, q[i])

\* The k-th of n frames of the response of s, and frames i + 1 to j of it.
FrameNo(s, n, k) ==
    [by |-> s, nad |-> asked.req.nad, sid |-> asked.req.sid, to |-> asked.id, k |-> k, n |-> n]
Part(s, n, i, j) == [k \in 1 .. j - i |-> FrameNo(s, n, i + k)]

Known(e) == e = Confirmation \/ (e.id \in 1 .. requests /\ e.req \in Requests)

Basic ==
    /\ \A s \in Slaves :
          /\ nad[s] \in Nads(s)
          /\ \A e \in Elements(rxQueue[s]) \cup Elements(events[s]) : Known(e)
    /\ asked # Nothing => asked.id = requests /\ requests >= 1 /\ asked.req \in Requests
    /\ masterTx = <<>> \/ (asked # Nothing /\ masterTx = <<asked>>)
    /\ requests <= MaxRequests

\* A slave has the request of the master still before it, after all others.
NoneLeft(s) == Clear(s, events[s]) /\ Clear(s, rxQueue[s])
Expecting(s) ==
    /\ masterTx = <<>> /\ asked # Nothing /\ Owned(s, asked)
    /\ \/ AskedLast(s, events[s]) /\ Clear(s, rxQueue[s])
       \/ events[s] = <<>> /\ AskedLast(s, rxQueue[s])

\* How many events the driver of a slave may hold while no slave speaks.
Room ==
    IF masterTx # <<>> THEN Bound(requests - 1)
    ELSE IF \E s \in Slaves : ~Dead(s) /\ Expecting(s) THEN Bound(requests - 1) + 1
    ELSE Bound(requests)

\* No frame of a response is anywhere.
Still ==
    /\ slot = NoFrame /\ masterRx = NoFrame /\ notify = 0 /\ inbox = <<>>
    /\ \A s \in Slaves :
          /\ Len(events[s]) <= Room
          /\ ~Dead(s) => txQueue[s] = <<>> /\ (NoneLeft(s) \/ Expecting(s))

\* The response frame of s that is under way is in one place.
Told(s) ==
    /\ slot # NoFrame => scheduled[s] /\ notify \notin 1 .. s /\ ~HasTX(events[s])
    /\ notify \in 1 .. s => scheduled[s] /\ ~HasTX(events[s])
    /\ HasTX(events[s]) => scheduled[s]
    /\ OneTX(events[s])

\* Of the n frames of its response, s scheduled j, the master was sent g of
\* these and has heard h.
Counts(n, h, g, j) ==
    n \in 1 .. TxQueueSize /\ h <= g /\ g <= h + 1 /\ g <= j /\ j <= g + 1 /\ j <= n

Places(s, n, h, g, j) ==
    /\ txQueue[s] = Part(s, n, j, n)
    /\ slot = IF j = g THEN NoFrame ELSE FrameNo(s, n, j)
    /\ masterRx = IF g = h THEN NoFrame ELSE FrameNo(s, n, g)
    /\ h = n => notify = 0 /\ inbox = <<Part(s, n, 0, n)>>
    /\ h < n => inbox = <<>> /\ (h = 0 \/ hearing = Part(s, n, 0, h))

\* What the other slaves may have meanwhile.
Coming(t) == IF notify \in 1 .. t THEN 1 ELSE 0
Within(t, g) == Len(events[t]) + Coming(t) <= Bound(requests - 1) + 1 + g
Silent(s, t) == NoneLeft(t) /\ (t = s \/ txQueue[t] = <<>>)

Speaks(s, n, h, g, j) ==
    /\ masterTx = <<>> /\ asked # Nothing
    /\ Counts(n, h, g, j) /\ Places(s, n, h, g, j) /\ Told(s)
    /\ \A t \in Slaves : Within(t, g) /\ (~Dead(t) => Silent(s, t))

SpeakingBy(s) == \E n, h, g, j \in Nat : Speaks(s, n, h, g, j)

\* What was heard is whole and the answer to what was asked.
HeardInv ==
    outcome.end = "answer" => OneSpeaker(outcome.heard) /\ outcome.heard[1].to = outcome.to

BusInv == TypeOK /\ Basic /\ HeardInv /\ (Still \/ \E s \in Slaves : SpeakingBy(s))

\* A frame of a response is not the empty slot.
LEMMA NumberedFrame == \A s, n, k : k # 0 => FrameNo(s, n, k) # NoFrame
<1>1. \A s, n, k : FrameNo(s, n, k).k = k BY DEF FrameNo
<1>2. NoFrame.k = 0 BY DEF NoFrame
<1>. QED BY <1>1, <1>2

\* The frames of a response, the first and the others, and one more.
LEMMA Parts ==
    ASSUME TypeOK, asked # Nothing, NEW s \in Slaves, NEW n \in Nat, NEW i \in 0 .. n,
           NEW j \in i .. n
    PROVE  /\ Part(s, n, i, j) \in Seq(Frame) /\ Len(Part(s, n, i, j)) = j - i
           /\ i = j => Part(s, n, i, j) = <<>>
           /\ i < j => /\ Part(s, n, i, j) # <<>>
                       /\ Head(Part(s, n, i, j)) = FrameNo(s, n, i + 1)
                       /\ Tail(Part(s, n, i, j)) = Part(s, n, i + 1, j)
           /\ FrameNo(s, n, i + 1) # NoFrame
           /\ i < n => FrameNo(s, n, i + 1) \in Frame
<1>1. asked \in Message BY DEF TypeOK, MasterTypes
<1>2. asked.id \in Nat /\ asked.req.nad \in Nat /\ asked.req.sid \in Sids
  BY <1>1 DEF Message, RequestType
<1>3. \A k \in 1 .. n : FrameNo(s, n, k) \in Frame BY <1>2 DEF FrameNo, Frame
<1>4. \A a \in 0 .. n, b \in 0 .. n : a <= b =>
         /\ Part(s, n, a, b) \in Seq(Frame) /\ Len(Part(s, n, a, b)) = b - a
         /\ \A k \in 1 .. b - a : Part(s, n, a, b)[k] = FrameNo(s, n, a + k)
  <2>. SUFFICES ASSUME NEW a \in 0 .. n, NEW b \in 0 .. n, a <= b
                PROVE  /\ Part(s, n, a, b) \in Seq(Frame) /\ Len(Part(s, n, a, b)) = b - a
                       /\ \A k \in 1 .. b - a : Part(s, n, a, b)[k] = FrameNo(s, n, a + k)
    OBVIOUS
  <2>1. \A k \in 1 .. b - a : FrameNo(s, n, a + k) \in Frame BY <1>3
  <2>2. b - a \in Nat OBVIOUS
  <2>. QED BY <2>1, <2>2 DEF Part
<1>0. /\ i \in 0 .. n /\ j \in 0 .. n /\ i <= j
      /\ i < j => i + 1 \in 0 .. n /\ i + 1 <= j
      /\ i < n => i + 1 \in 1 .. n
  OBVIOUS
<1>5. FrameNo(s, n, i + 1) # NoFrame
  <2>1. FrameNo(s, n, i + 1).k # 0 BY DEF FrameNo
  <2>. QED BY <2>1 DEF NoFrame
<1>6. i = j => Part(s, n, i, j) = <<>> BY <1>0, <1>4, NoElement
<1>7. ASSUME i < j
      PROVE  /\ Part(s, n, i, j) # <<>>
             /\ Head(Part(s, n, i, j)) = FrameNo(s, n, i + 1)
             /\ Tail(Part(s, n, i, j)) = Part(s, n, i + 1, j)
  <2>. DEFINE p == Part(s, n, i, j)
              q == Part(s, n, i + 1, j)
  <2>1. /\ p \in Seq(Frame) /\ Len(p) = j - i /\ Len(p) >= 1
        /\ \A k \in 1 .. j - i : p[k] = FrameNo(s, n, i + k)
    <3>1. p \in Seq(Frame) /\ Len(p) = j - i BY <1>0, <1>4
    <3>2. \A k \in 1 .. j - i : p[k] = FrameNo(s, n, i + k) BY <1>0, <1>4
    <3>3. j - i >= 1 BY <1>7
    <3>. QED BY <3>1, <3>2, <3>3
  <2>2. /\ q \in Seq(Frame) /\ Len(q) = j - (i + 1)
        /\ \A k \in 1 .. j - (i + 1) : q[k] = FrameNo(s, n, i + 1 + k)
    BY <1>0, <1>4, <1>7
  <2>. HIDE DEF p, q
  <2>3. p # <<>> BY <2>1
  <2>4. Head(p) = FrameNo(s, n, i + 1) BY <2>1, <2>3
  <2>5. /\ Tail(p) \in Seq(Frame) /\ Len(Tail(p)) = j - (i + 1)
        /\ \A k \in 1 .. j - (i + 1) : Tail(p)[k] = p[k + 1]
    BY <2>1, <2>3
  <2>6. \A k \in 1 .. j - (i + 1) : Tail(p)[k] = q[k]
    <3>. SUFFICES ASSUME NEW k \in 1 .. j - (i + 1) PROVE Tail(p)[k] = q[k] OBVIOUS
    <3>1. k + 1 \in 1 .. j - i /\ i + (k + 1) = i + 1 + k OBVIOUS
    <3>. QED BY <2>1, <2>2, <2>5, <3>1
  <2>7. Tail(p) = q BY <2>2, <2>5, <2>6, SeqEqual
  <2>. QED BY <2>3, <2>4, <2>7 DEF p, q
<1>8. Part(s, n, i, j) \in Seq(Frame) /\ Len(Part(s, n, i, j)) = j - i BY <1>0, <1>4
<1>9. i < n => FrameNo(s, n, i + 1) \in Frame BY <1>0, <1>3
<1>. QED BY <1>5, <1>6, <1>7, <1>8, <1>9

\* One more frame heard.
LEMMA PartGrows ==
    ASSUME TypeOK, asked # Nothing, NEW s \in Slaves, NEW n \in Nat, NEW h \in 0 .. n, h < n
    PROVE  Append(Part(s, n, 0, h), FrameNo(s, n, h + 1)) = Part(s, n, 0, h + 1)
<1>. DEFINE p == Part(s, n, 0, h)
            q == Part(s, n, 0, h + 1)
            f == FrameNo(s, n, h + 1)
<1>1. /\ p \in Seq(Frame) /\ Len(p) = h /\ f \in Frame
      /\ q \in Seq(Frame) /\ Len(q) = h + 1
  <2>1. 0 \in 0 .. n /\ h \in 0 .. n /\ h + 1 \in 0 .. n /\ h \in h .. n OBVIOUS
  <2>2. p \in Seq(Frame) /\ Len(p) = h - 0 BY <2>1, Parts
  <2>3. q \in Seq(Frame) /\ Len(q) = h + 1 - 0 BY <2>1, Parts
  <2>4. f \in Frame BY <2>1, Parts
  <2>. HIDE DEF p, q, f
  <2>. QED BY <2>2, <2>3, <2>4
<1>2. /\ \A k \in 1 .. h : p[k] = FrameNo(s, n, k)
      /\ \A k \in 1 .. h + 1 : q[k] = FrameNo(s, n, k)
  BY DEF Part
<1>. HIDE DEF p, q, f
<1>3. /\ Append(p, f) \in Seq(Frame) /\ Len(Append(p, f)) = h + 1
      /\ \A k \in 1 .. h : Append(p, f)[k] = p[k]
      /\ Append(p, f)[h + 1] = f
  BY <1>1
<1>4. \A k \in 1 .. h + 1 : Append(p, f)[k] = q[k]
  <2>. SUFFICES ASSUME NEW k \in 1 .. h + 1 PROVE Append(p, f)[k] = q[k] OBVIOUS
  <2>1. CASE k = h + 1
    <3>1. q[h + 1] = f BY <1>2 DEF f
    <3>. QED BY <1>3, <2>1, <3>1
  <2>2. CASE k \in 1 .. h BY <1>2, <1>3, <2>2
  <2>3. h \in Nat /\ (k = h + 1 \/ k \in 1 .. h) OBVIOUS
  <2>. QED BY <2>1, <2>2, <2>3
<1>5. Append(p, f) = q BY <1>1, <1>3, <1>4, SeqEqual
<1>. QED BY <1>5 DEF p, q, f

\* All frames of a response have one speaker.
LEMMA PartWhole ==
    ASSUME TypeOK, asked # Nothing, NEW s \in Slaves, NEW n \in Nat \ {0}
    PROVE  /\ OneSpeaker(Part(s, n, 0, n)) /\ Part(s, n, 0, n)[1] = FrameNo(s, n, 1)
<1>1. DOMAIN Part(s, n, 0, n) = 1 .. n /\ \A k \in 1 .. n : Part(s, n, 0, n)[k] = FrameNo(s, n, k)
  BY DEF Part
<1>2. \A k \in 1 .. n : FrameNo(s, n, k) = [FrameNo(s, n, 1) EXCEPT !.k = k] BY DEF FrameNo
<1>. QED BY <1>1, <1>2 DEF OneSpeaker

\* Arithmetic of the events.
LEMMA Bounds ==
    ASSUME NEW r \in Nat, r >= 1
    PROVE  /\ Bound(r - 1) \in Nat /\ Bound(r) \in Nat
           /\ Bound(r) = Bound(r - 1) + TxQueueSize + 1
<1>1. TxQueueSize \in Nat BY BusAssumption
<1>2. \A a, b \in Nat : (a + 1) * b = a * b + b /\ a * b \in Nat OBVIOUS
<1>3. r = (r - 1) + 1 /\ r - 1 \in Nat /\ TxQueueSize + 1 \in Nat BY <1>1
<1>4. r * (TxQueueSize + 1) = (r - 1) * (TxQueueSize + 1) + (TxQueueSize + 1)
  BY <1>2, <1>3
<1>. QED BY <1>1, <1>2, <1>3, <1>4 DEF Bound

\* What is in a queue after a step at its head or at its end.
LEMMA TailOf ==
    ASSUME NEW S, NEW q \in Seq(S), q # <<>>
    PROVE  /\ Head(q) \in Elements(q) /\ Head(q) = q[1] /\ Head(q) \in S
           /\ Tail(q) \in Seq(S) /\ Len(Tail(q)) = Len(q) - 1
           /\ Len(q) \in Nat /\ Len(q) >= 1 /\ DOMAIN q = 1 .. Len(q)
           /\ DOMAIN Tail(q) = 1 .. Len(q) - 1
           /\ \A i \in 1 .. Len(q) - 1 : Tail(q)[i] = q[i + 1]
           /\ Elements(Tail(q)) \subseteq Elements(q)
<1>1. /\ Head(q) = q[1] /\ Head(q) \in S
      /\ Tail(q) \in Seq(S) /\ Len(Tail(q)) = Len(q) - 1
      /\ Len(q) \in Nat /\ Len(q) >= 1 /\ DOMAIN q = 1 .. Len(q)
      /\ DOMAIN Tail(q) = 1 .. Len(q) - 1
      /\ \A i \in 1 .. Len(q) - 1 : Tail(q)[i] = q[i + 1]
  OBVIOUS
<1>2. Head(q) \in Elements(q) BY <1>1 DEF Elements
<1>3. \A i \in 1 .. Len(q) - 1 : i + 1 \in 1 .. Len(q) BY <1>1
<1>4. Elements(Tail(q)) \subseteq Elements(q) BY <1>1, <1>3 DEF Elements
<1>. QED BY <1>1, <1>2, <1>4

LEMMA AppendTo ==
    ASSUME NEW S, NEW q \in Seq(S), NEW e \in S
    PROVE  /\ Append(q, e) \in Seq(S) /\ Len(Append(q, e)) = Len(q) + 1 /\ Len(q) \in Nat
           /\ DOMAIN Append(q, e) = 1 .. Len(q) + 1 /\ DOMAIN q = 1 .. Len(q)
           /\ \A i \in 1 .. Len(q) : Append(q, e)[i] = q[i]
           /\ Append(q, e)[Len(q) + 1] = e
           /\ Elements(Append(q, e)) = Elements(q) \cup {e}
<1>1. /\ Append(q, e) \in Seq(S) /\ Len(Append(q, e)) = Len(q) + 1 /\ Len(q) \in Nat
      /\ DOMAIN Append(q, e) = 1 .. Len(q) + 1 /\ DOMAIN q = 1 .. Len(q)
      /\ \A i \in 1 .. Len(q) : Append(q, e)[i] = q[i]
      /\ Append(q, e)[Len(q) + 1] = e
  OBVIOUS
<1>. DEFINE p == Append(q, e)
<1>2. Elements(p) \subseteq Elements(q) \cup {e}
  <2>. SUFFICES ASSUME NEW i \in 1 .. Len(q) + 1 PROVE p[i] \in Elements(q) \cup {e}
    BY <1>1 DEF Elements
  <2>1. CASE i = Len(q) + 1 BY <1>1, <2>1
  <2>2. CASE i \in 1 .. Len(q) BY <1>1, <2>2 DEF Elements
  <2>. QED BY <1>1, <2>1, <2>2
<1>3. Elements(q) \cup {e} \subseteq Elements(p)
  <2>1. e \in Elements(p) BY <1>1 DEF Elements
  <2>2. ASSUME NEW i \in 1 .. Len(q) PROVE q[i] \in Elements(p)
    <3>1. i \in DOMAIN p /\ p[i] = q[i] BY <1>1
    <3>. HIDE DEF p
    <3>. QED BY <3>1 DEF Elements
  <2>. QED BY <1>1, <2>1, <2>2 DEF Elements
<1>. QED BY <1>1, <1>2, <1>3

\* pushEvent and deliverMessage add at most the new element.
LEMMA AddedElements ==
    ASSUME NEW S, NEW q \in Seq(S), NEW e \in S
    PROVE  /\ Elements(pushEvent(q, e)) \subseteq Elements(q) \cup {e}
           /\ Len(pushEvent(q, e)) <= Len(q) + 1 /\ Len(q) \in Nat /\ Len(pushEvent(q, e)) \in Nat
           /\ Elements(deliverMessage(q, e)) \subseteq Elements(q) \cup {e}
BY AppendTo DEF pushEvent, deliverMessage

\* The request asked for is the last of a queue: what comes before it.
LEMMA BeforeAsked ==
    ASSUME NEW S, NEW q \in Seq(S), NEW s \in Slaves, AskedLast(s, q)
    PROVE  \/ Head(q) = asked /\ Tail(q) = <<>>
           \/ ~Owned(s, Head(q)) /\ AskedLast(s, Tail(q))
<1>1. q # <<>> /\ q[Len(q)] = asked /\ \A i \in 1 .. Len(q) - 1 : ~Owned(s, q[i])
  BY DEF AskedLast
<1>2. /\ Head(q) = q[1] /\ Tail(q) \in Seq(S) /\ Len(Tail(q)) = Len(q) - 1
      /\ Len(q) \in Nat /\ Len(q) >= 1
      /\ \A i \in 1 .. Len(q) - 1 : Tail(q)[i] = q[i + 1]
  BY <1>1, TailOf
<1>3. CASE Len(q) = 1
  <2>1. \A p \in Seq(S) : Len(p) = 0 => p = <<>> BY NoElement
  <2>2. Tail(q) \in Seq(S) /\ Len(Tail(q)) = 0 BY <1>2, <1>3
  <2>3. Tail(q) = <<>> BY <2>1, <2>2, Zenon
  <2>. QED BY <1>1, <1>2, <1>3, <2>3
<1>4. CASE Len(q) # 1
  <2>. DEFINE p == Tail(q)
  <2>1. p # <<>> /\ Len(p) \in 1 .. Len(q) - 1 /\ Len(p) + 1 = Len(q)
    <3>1. Len(p) = Len(q) - 1 /\ p \in Seq(S) BY <1>2
    <3>. HIDE DEF p
    <3>2. Len(p) >= 1 BY <1>2, <1>4, <3>1
    <3>3. p # <<>> BY <3>2
    <3>. QED BY <1>2, <3>1, <3>2, <3>3
  <2>2. p[Len(p)] = asked BY <1>1, <1>2, <2>1
  <2>3. \A i \in 1 .. Len(p) - 1 : p[i] = q[i + 1] /\ i + 1 \in 1 .. Len(q) - 1
    BY <1>2, <2>1
  <2>4. \A i \in 1 .. Len(p) - 1 : ~Owned(s, p[i]) BY <1>1, <2>3
  <2>5. ~Owned(s, Head(q))
    <3>1. 1 \in 1 .. Len(q) - 1 BY <1>2, <1>4
    <3>. QED BY <1>1, <1>2, <3>1
  <2>. HIDE DEF p
  <2>6. AskedLast(s, p) BY <2>1, <2>2, <2>4 DEF AskedLast
  <2>. QED BY <2>5, <2>6 DEF p
<1>. QED BY <1>3, <1>4

LEMMA AskedBehind ==
    ASSUME NEW S, NEW q \in Seq(S), NEW s \in Slaves, asked \in S, Clear(s, q)
    PROVE  AskedLast(s, Append(q, asked))
<1>1. /\ Len(Append(q, asked)) = Len(q) + 1 /\ Len(q) \in Nat
      /\ DOMAIN q = 1 .. Len(q)
      /\ \A i \in 1 .. Len(q) : Append(q, asked)[i] = q[i]
      /\ Append(q, asked)[Len(q) + 1] = asked
      /\ Append(q, asked) \in Seq(S)
  BY AppendTo
<1>2. Append(q, asked) # <<>> BY <1>1
<1>3. \A i \in 1 .. Len(q) : q[i] \in Elements(q) BY <1>1 DEF Elements
<1>. QED BY <1>1, <1>2, <1>3 DEF AskedLast, Clear

\* Other slaves, the master and the network do not take part in a slave's step.
LEMMA SlaveFrame ==
    ASSUME TypeOK, NEW s \in Slaves, Slave(s) \/ Run(s) \/ Stop(s)
    PROVE  /\ UNCHANGED <<masterTx, masterRx, hearing, inbox, asked, requests, notify, outcome>>
           /\ \A t \in Slaves : t # s =>
                 /\ nad'[t] = nad[t] /\ at'[t] = at[t] /\ halted'[t] = halted[t]
                 /\ events'[t] = events[t] /\ scheduled'[t] = scheduled[t]
                 /\ txQueue'[t] = txQueue[t] /\ rxQueue'[t] = rxQueue[t]
           /\ Slave(s) => ~Dead(s)
           /\ \A t \in Slaves : Dead(t) => Dead(t)'
<1>. USE DEF TypeOK, SlaveTypes, NetTypes
<1>1. CASE Run(s) \/ Stop(s)
  <2>1. UNCHANGED <<masterTx, masterRx, hearing, inbox, asked, requests, notify, outcome,
                    nad, events, scheduled, txQueue, rxQueue>>
    BY <1>1 DEF Run, Stop, masterVars, netVars
  <2>2. \A t \in Slaves : t # s => at'[t] = at[t] /\ halted'[t] = halted[t]
    BY <1>1 DEF Run, Stop
  <2>3. Dead(s) => Dead(s)' BY <1>1 DEF Run, Stop, Dead
  <2>4. \A t \in Slaves : Dead(t) => Dead(t)' BY <2>2, <2>3 DEF Dead
  <2>5. Slave(s) => ~Dead(s)
    BY DEF Slave, Exit, Tick, TakesConfirmation, IgnoresConfirmation, TakesRequest,
           ReadsNothing, AppIdle, AppIgnores, AppHandles, Reads, Dead
  <2>. QED BY <2>1, <2>2, <2>4, <2>5
<1>2. CASE Slave(s)
  <2>1. /\ ~Dead(s)
        /\ \E p \in {"idle", "read", "app", "gone"} : at' = [at EXCEPT ![s] = p] \/ at' = at
    BY <1>2 DEF Slave, Exit, Tick, TakesConfirmation, IgnoresConfirmation, TakesRequest,
           ReadsNothing, AppIdle, AppIgnores, AppHandles, Reads, Dead
  <2>2. UNCHANGED <<masterTx, masterRx, hearing, inbox, asked, requests, notify, outcome, halted>>
    BY <1>2 DEF Slave, Exit, Tick, TakesConfirmation, IgnoresConfirmation, TakesRequest,
           ReadsNothing, AppIdle, AppIgnores, AppHandles, Reads, masterVars, netVars
  <2>3. \A t \in Slaves : t # s =>
                 /\ nad'[t] = nad[t] /\ at'[t] = at[t]
                 /\ events'[t] = events[t] /\ scheduled'[t] = scheduled[t]
                 /\ txQueue'[t] = txQueue[t] /\ rxQueue'[t] = rxQueue[t]
    <3>. SUFFICES ASSUME NEW t \in Slaves, t # s
                  PROVE  /\ nad'[t] = nad[t] /\ at'[t] = at[t]
                         /\ events'[t] = events[t] /\ scheduled'[t] = scheduled[t]
                         /\ txQueue'[t] = txQueue[t] /\ rxQueue'[t] = rxQueue[t]
      OBVIOUS
    <3>1. CASE Exit(s) \/ Tick(s) \/ AppIdle(s)
      BY <3>1 DEF Exit, Tick, AppIdle, netVars
    <3>2. CASE TakesConfirmation(s) \/ IgnoresConfirmation(s) \/ TakesRequest(s)
      BY <3>2 DEF TakesConfirmation, IgnoresConfirmation, TakesRequest, Reads, Schedules
    <3>3. CASE ReadsNothing(s) BY <3>3 DEF ReadsNothing, Schedules
    <3>4. CASE AppIgnores(s) \/ AppHandles(s)
      BY <3>4 DEF AppIgnores, AppHandles, Transmits, netVars
    <3>. QED BY <1>2, <3>1, <3>2, <3>3, <3>4 DEF Slave
  <2>4. \A t \in Slaves : Dead(t) => Dead(t)' BY <2>1, <2>2, <2>3 DEF Dead
  <2>. QED BY <2>1, <2>2, <2>3, <2>4
<1>. QED BY <1>1, <1>2

\* A slave adds nothing to its queues that it did not have.
LEMMA SlaveQueues ==
    ASSUME TypeOK, NEW s \in Slaves, Slave(s) \/ Run(s) \/ Stop(s)
    PROVE  /\ Elements(events'[s]) \subseteq Elements(events[s])
           /\ Elements(rxQueue'[s]) \subseteq Elements(rxQueue[s]) \cup Elements(events[s])
           /\ Len(events'[s]) <= Len(events[s])
<1>1. /\ events[s] \in Seq(Event) /\ rxQueue[s] \in Seq(Message)
      /\ events \in [Slaves -> Seq(Event)] /\ rxQueue \in [Slaves -> Seq(Message)]
  BY DEF TypeOK, SlaveTypes, NetTypes
<1>2. Len(events[s]) \in Nat BY <1>1
<1>3. CASE Run(s) \/ Stop(s) \/ Exit(s) \/ Tick(s) \/ AppIdle(s)
  BY <1>2, <1>3 DEF Run, Stop, Exit, Tick, AppIdle, netVars
<1>4. CASE Reads(s) /\ (TakesConfirmation(s) \/ IgnoresConfirmation(s) \/ TakesRequest(s))
  <2>1. events[s] # <<>> /\ events'[s] = Tail(events[s]) BY <1>1, <1>4 DEF Reads
  <2>2. /\ Elements(events'[s]) \subseteq Elements(events[s]) /\ Len(events'[s]) <= Len(events[s])
        /\ Head(events[s]) \in Elements(events[s]) /\ Head(events[s]) \in Event
    BY <1>1, <1>2, <2>1, TailOf
  <2>3. CASE UNCHANGED rxQueue BY <2>2, <2>3
  <2>4. CASE TakesRequest(s)
    <3>1. rxQueue'[s] = deliverMessage(rxQueue[s], Head(events[s]))
      BY <1>1, <2>4 DEF TakesRequest
    <3>2. Head(events[s]) \in Message BY <2>2, <2>4 DEF TakesRequest, Event
    <3>. QED BY <1>1, <2>2, <3>1, <3>2, AddedElements
  <2>. QED BY <1>4, <2>3, <2>4 DEF TakesConfirmation, IgnoresConfirmation
<1>5. CASE ReadsNothing(s) BY <1>2, <1>5 DEF ReadsNothing
<1>6. CASE AppIgnores(s) \/ AppHandles(s)
  <2>1. rxQueue[s] # <<>> /\ rxQueue'[s] = Tail(rxQueue[s]) /\ UNCHANGED events
    BY <1>1, <1>6 DEF AppIgnores, AppHandles, netVars
  <2>. QED BY <1>1, <1>2, <2>1, TailOf
<1>. QED
  BY <1>3, <1>4, <1>5, <1>6 DEF Slave, TakesConfirmation, IgnoresConfirmation, TakesRequest

\* What the queues of a slave hold are events and messages.
LEMMA BusTypes ==
    ASSUME TypeOK, NEW s \in Slaves
    PROVE  /\ events[s] \in Seq(Event) /\ rxQueue[s] \in Seq(Message)
           /\ txQueue[s] \in Seq(Frame) /\ scheduled[s] \in BOOLEAN
           /\ events \in [Slaves -> Seq(Event)] /\ rxQueue \in [Slaves -> Seq(Message)]
           /\ txQueue \in [Slaves -> Seq(Frame)] /\ scheduled \in [Slaves -> BOOLEAN]
           /\ nad \in [Slaves -> Nat] /\ requests \in Nat /\ notify \in 0 .. N
           /\ Len(events[s]) \in Nat
           /\ asked # Nothing => asked \in Message
           /\ slot \in Frame \cup {NoFrame} /\ masterRx \in Frame \cup {NoFrame}
<1>1. events \in [Slaves -> Seq(Event)] /\ rxQueue \in [Slaves -> Seq(Message)]
      /\ txQueue \in [Slaves -> Seq(Frame)] /\ scheduled \in [Slaves -> BOOLEAN]
      /\ nad \in [Slaves -> Nat] /\ requests \in Nat /\ notify \in 0 .. N
      /\ (asked # Nothing => asked \in Message)
      /\ slot \in Frame \cup {NoFrame} /\ masterRx \in Frame \cup {NoFrame}
  BY DEF TypeOK, SlaveTypes, NetTypes, MasterTypes
<1>2. \A q \in Seq(Event) : Len(q) \in Nat OBVIOUS
<1>. QED BY <1>1, <1>2

LEMMA BusStart == Init => Basic /\ HeardInv /\ Still
<1>. SUFFICES ASSUME Init PROVE Basic /\ HeardInv /\ Still OBVIOUS
<1>1. \A s \in Slaves : /\ nad[s] \in Nads(s) /\ Elements(rxQueue[s]) = {}
                        /\ Elements(events[s]) = {} /\ events[s] = <<>> /\ txQueue[s] = <<>>
  BY DEF Init, Nads, Elements
<1>2. Basic BY <1>1, BusAssumption DEF Init, Basic
<1>3. HeardInv BY DEF Init, HeardInv
<1>4. Room = 0
  <2>1. TxQueueSize \in Nat BY BusAssumption
  <2>2. Bound(0) = 0 BY <2>1 DEF Bound
  <2>. QED BY <2>2 DEF Init, Room, Expecting
<1>5. Still BY <1>1, <1>4 DEF Init, Still, NoneLeft, Clear
<1>. QED BY <1>2, <1>3, <1>5

\* A slave changes its NAD only to one of its own.
LEMMA BasicSlave ==
    ASSUME TypeOK, Basic, NEW s \in Slaves, Slave(s) \/ Run(s) \/ Stop(s)
    PROVE  Basic'
<1>1. UNCHANGED <<masterTx, asked, requests>> BY SlaveFrame
<1>2. \A e : Known(e) => Known(e)' BY <1>1 DEF Known
<1>3. nad'[s] \in Nads(s)
  <2>1. CASE UNCHANGED nad BY <2>1 DEF Basic
  <2>2. CASE AppHandles(s)
    <3>. DEFINE m == Head(rxQueue[s])
    <3>1. m \in Elements(rxQueue[s]) /\ m \in Message
      BY <2>2, BusTypes, TailOf DEF AppHandles
    <3>2. m.req \in Requests BY <3>1, MessageIsNoConfirmation DEF Basic, Known
    <3>3. nad'[s] = NadAfter(s, m.req) BY <2>2, BusTypes DEF AppHandles
    <3>4. NadAfter(s, m.req) \in Nads(s)
      <4>1. nad[s] \in Nads(s) BY DEF Basic
      <4>. HIDE DEF m
      <4>2. CASE m.req.sid = "assign" /\ m.req.long /\ s \in m.req.for
        BY <3>2, <4>2 DEF NadAfter, Nads
      <4>3. CASE ~(m.req.sid = "assign" /\ m.req.long /\ s \in m.req.for)
        BY <4>1, <4>3 DEF NadAfter
      <4>. QED BY <4>2, <4>3
    <3>. QED BY <3>3, <3>4
  <2>3. UNCHANGED nad \/ AppHandles(s)
    BY DEF Slave, Run, Stop, Exit, Tick, TakesConfirmation, IgnoresConfirmation, TakesRequest,
           ReadsNothing, AppIdle, AppIgnores, Reads
  <2>. QED BY <2>1, <2>2, <2>3
<1>4. ASSUME NEW t \in Slaves
      PROVE  /\ nad'[t] \in Nads(t)
             /\ \A e \in Elements(rxQueue'[t]) \cup Elements(events'[t]) : Known(e)'
  <2>1. CASE t # s
    <3>1. nad'[t] = nad[t] /\ events'[t] = events[t] /\ rxQueue'[t] = rxQueue[t]
      BY <2>1, SlaveFrame
    <3>. QED BY <1>2, <3>1 DEF Basic
  <2>2. CASE t = s
    <3>1. Elements(rxQueue'[t]) \cup Elements(events'[t])
            \subseteq Elements(rxQueue[t]) \cup Elements(events[t])
      BY <2>2, SlaveQueues
    <3>. QED BY <1>2, <1>3, <2>2, <3>1 DEF Basic
  <2>. QED BY <2>1, <2>2
<1>5. \A t \in Slaves : (Elements(rxQueue[t]) \cup Elements(events[t]))'
                          = Elements(rxQueue'[t]) \cup Elements(events'[t])
  BY DEF Elements
<1>. QED BY <1>1, <1>4, <1>5 DEF Basic

\* The master and the network put only the request and TX events in a queue.
LEMMA BasicMaster ==
    ASSUME TypeOK, Basic, Patient, inbox # <<>> => masterTx = <<>>,
           Master \/ TimesOut \/ Expires \/ \E r \in Requests : Ask(r)
    PROVE  Basic'
<1>1. requests' \in Nat /\ requests \in Nat /\ requests <= requests'
      /\ nad' = nad /\ rxQueue' = rxQueue
  <2>1. requests \in Nat /\ (requests' = requests \/ requests' = requests + 1)
    BY DEF TypeOK, MasterTypes, Master, TimesOut, Expires, Ask, writeMessage,
           requestSlaveResponse, notifySlave, receiveFromDriver, Answered, Skipped, masterVars
  <2>2. nad' = nad /\ rxQueue' = rxQueue
    BY DEF Master, TimesOut, Expires, Ask, writeMessage, requestSlaveResponse, notifySlave,
           receiveFromDriver, Answered, Skipped, slaveVars
  <2>. QED BY <2>1, <2>2
<1>2. \A e : Known(e) => Known(e)' BY <1>1 DEF Known
<1>3. masterTx # <<>> => masterTx = <<asked>> /\ Head(masterTx) = asked /\ Tail(masterTx) = <<>>
                         /\ asked # Nothing
  <2>1. masterTx # <<>> => masterTx = <<asked>> /\ asked # Nothing BY DEF Basic
  <2>2. Head(<<asked>>) = asked /\ Tail(<<asked>>) = <<>> OBVIOUS
  <2>. QED BY <2>1, <2>2
<1>4. asked # Nothing => Known(asked)
  BY <1>1 DEF Basic, Known
<1>5. ASSUME NEW t \in Slaves
      PROVE  \A e \in Elements(rxQueue'[t]) \cup Elements(events'[t]) : Known(e)'
  <2>1. \A e \in Elements(rxQueue[t]) \cup Elements(events[t]) : Known(e) BY DEF Basic
  <2>2. CASE UNCHANGED events BY <1>1, <1>2, <2>1, <2>2
  <2>3. CASE writeMessage
    <3>1. events'[t] = pushEvent(events[t], asked) /\ asked # Nothing
      BY <1>3, <2>3 DEF writeMessage
    <3>2. asked \in Event /\ events[t] \in Seq(Event) BY <3>1, BusTypes DEF Event
    <3>3. Elements(events'[t]) \subseteq Elements(events[t]) \cup {asked}
      BY <3>1, <3>2, AddedElements
    <3>. QED BY <1>1, <1>2, <1>4, <2>1, <3>1, <3>3
  <2>4. CASE notifySlave
    <3>1. events'[t] = events[t] \/ events'[t] = pushEvent(events[t], Confirmation)
      BY <2>4, BusTypes DEF notifySlave
    <3>2. Confirmation \in Event /\ events[t] \in Seq(Event) BY BusTypes DEF Event
    <3>3. Elements(events'[t]) \subseteq Elements(events[t]) \cup {Confirmation}
      BY <3>1, <3>2, AddedElements
    <3>4. Known(Confirmation)' BY DEF Known, Confirmation
    <3>. QED BY <1>1, <1>2, <2>1, <3>3, <3>4
  <2>5. UNCHANGED events \/ writeMessage \/ notifySlave
    BY DEF Master, TimesOut, Expires, Ask, requestSlaveResponse, receiveFromDriver, Answered,
           Skipped, netVars
  <2>. QED BY <2>2, <2>3, <2>4, <2>5
<1>6. /\ asked' # Nothing => asked'.id = requests' /\ requests' >= 1 /\ asked'.req \in Requests
      /\ masterTx' = <<>> \/ (asked' # Nothing /\ masterTx' = <<asked'>>)
      /\ requests' <= MaxRequests
  <2>1. CASE \E r \in Requests : Ask(r)
    <3>1. PICK r \in Requests : Ask(r) BY <2>1
    <3>2. asked' = [id |-> requests + 1, dir |-> "RX", req |-> r] /\ requests' = requests + 1
          /\ requests < MaxRequests /\ asked = Nothing /\ masterTx' = Append(masterTx, asked')
      BY <3>1 DEF Ask
    <3>3. masterTx = <<>> BY <1>3, <3>2
    <3>4. asked'.id # 0 BY <1>1, <3>2
    <3>5. asked' # Nothing BY <3>4 DEF Nothing
    <3>6. Append(<<>>, asked') = <<asked'>> OBVIOUS
    <3>7. requests + 1 <= MaxRequests BY <1>1, <3>2, BusAssumption
    <3>. QED BY <1>1, <3>2, <3>3, <3>5, <3>6, <3>7
  <2>2. CASE writeMessage
    <3>1. masterTx' = <<>> /\ UNCHANGED <<asked, requests>> BY <1>3, <2>2 DEF writeMessage
    <3>. QED BY <3>1 DEF Basic
  <2>3. CASE TimesOut \/ Answered
    <3>1. masterTx = <<>> BY <2>3 DEF TimesOut, Answered, Quiet
    <3>2. asked' = Nothing /\ UNCHANGED <<masterTx, requests>> BY <2>3 DEF TimesOut, Answered
    <3>. QED BY <3>1, <3>2 DEF Basic
  <2>4. CASE requestSlaveResponse \/ notifySlave \/ receiveFromDriver \/ Skipped \/ Expires
    <3>1. UNCHANGED <<masterTx, asked, requests>>
      BY <2>4 DEF requestSlaveResponse, notifySlave, receiveFromDriver, Skipped, Expires,
                  masterVars
    <3>. QED BY <3>1 DEF Basic
  <2>. QED BY <2>1, <2>2, <2>3, <2>4 DEF Master
<1>7. \A t \in Slaves : (Elements(rxQueue[t]) \cup Elements(events[t]))'
                          = Elements(rxQueue'[t]) \cup Elements(events'[t])
  BY DEF Elements
<1>. QED BY <1>1, <1>5, <1>6, <1>7 DEF Basic

\* No slave expects a request it has nothing of.
LEMMA LastIsIn ==
    ASSUME NEW S, NEW q \in Seq(S), q # <<>>
    PROVE  q[Len(q)] \in Elements(q)
<1>1. Len(q) \in 1 .. Len(q) /\ DOMAIN q = 1 .. Len(q) OBVIOUS
<1>. QED BY <1>1 DEF Elements

LEMMA NotBoth ==
    ASSUME TypeOK, NEW s \in Slaves, NoneLeft(s)
    PROVE  ~Expecting(s)
<1>1. events[s] # <<>> => events[s][Len(events[s])] \in Elements(events[s])
  BY BusTypes, LastIsIn
<1>2. rxQueue[s] # <<>> => rxQueue[s][Len(rxQueue[s])] \in Elements(rxQueue[s])
  BY BusTypes, LastIsIn
<1>. QED BY <1>1, <1>2 DEF NoneLeft, Expecting, AskedLast, Clear

LEMMA NotBothNext ==
    ASSUME TypeOK', NEW s \in Slaves, NoneLeft(s)'
    PROVE  ~Expecting(s)'
<1>0. events'[s] \in Seq(Event) /\ rxQueue'[s] \in Seq(Message)
  BY DEF TypeOK, SlaveTypes, NetTypes
<1>1. events'[s] # <<>> => events'[s][Len(events'[s])] \in Elements(events'[s])
  BY <1>0, LastIsIn
<1>2. rxQueue'[s] # <<>> => rxQueue'[s][Len(rxQueue'[s])] \in Elements(rxQueue'[s])
  BY <1>0, LastIsIn
<1>3. Clear(s, events[s])' /\ events'[s] # <<>> => ~Owned(s, events'[s][Len(events'[s])])
  BY <1>1 DEF Clear, Elements
<1>4. Clear(s, rxQueue[s])' /\ rxQueue'[s] # <<>> => ~Owned(s, rxQueue'[s][Len(rxQueue'[s])])
  BY <1>2 DEF Clear, Elements
<1>. QED BY <1>3, <1>4 DEF NoneLeft, Expecting, AskedLast, Owned

\* While nothing changes for the master, a slave's step may end that a slave
\* expects the request but never begin it, so the room only grows.
LEMMA StillKept ==
    ASSUME TypeOK, TypeOK', Basic, Still, NEW s \in Slaves,
           UNCHANGED <<masterTx, masterRx, inbox, asked, requests, notify, slot>>,
           \A t \in Slaves : Dead(t) => Dead(t)',
           \A t \in Slaves : t # s => events'[t] = events[t] /\ rxQueue'[t] = rxQueue[t]
                                      /\ txQueue'[t] = txQueue[t],
           Len(events'[s]) <= Len(events[s]),
           ~Dead(s)' => txQueue'[s] = <<>>
                        /\ (NoneLeft(s)' \/ (Expecting(s) /\ Expecting(s)'))
    PROVE  Still'
<1>1. ASSUME NEW t \in Slaves, t # s
      PROVE  (NoneLeft(t)' <=> NoneLeft(t)) /\ (Expecting(t)' <=> Expecting(t))
  <2>1. events'[t] = events[t] /\ rxQueue'[t] = rxQueue[t] BY <1>1
  <2>. QED BY <2>1 DEF NoneLeft, Expecting, AskedLast, Clear, Elements, Owned
<1>2. \A t \in Slaves : ~Dead(t)' /\ Expecting(t)' => ~Dead(t) /\ Expecting(t)
  BY <1>1, NotBothNext
<1>3. Room \in Nat /\ Room' \in Nat /\ Room <= Room'
  <2>1. CASE masterTx # <<>>
    <3>1. requests >= 1 /\ requests \in Nat BY <2>1, BusTypes DEF Basic
    <3>2. Room = Bound(requests - 1) /\ Room' = Bound(requests - 1) BY <2>1 DEF Room
    <3>. QED BY <3>1, <3>2, Bounds
  <2>2. CASE masterTx = <<>> /\ asked = Nothing
    <3>1. Room = Bound(requests) /\ Room' = Bound(requests) BY <2>2 DEF Room, Expecting
    <3>2. requests \in Nat /\ TxQueueSize \in Nat BY BusTypes, BusAssumption
    <3>3. Bound(requests) \in Nat
      <4>1. \A a, b \in Nat : a * b \in Nat OBVIOUS
      <4>. QED BY <3>2, <4>1 DEF Bound
    <3>. QED BY <3>1, <3>3
  <2>3. CASE masterTx = <<>> /\ asked # Nothing
    <3>1. requests >= 1 /\ requests \in Nat BY <2>3, BusTypes DEF Basic
    <3>2. /\ Bound(requests - 1) \in Nat /\ Bound(requests) \in Nat
          /\ Bound(requests - 1) + 1 <= Bound(requests)
      <4>1. /\ Bound(requests - 1) \in Nat /\ Bound(requests) \in Nat
            /\ Bound(requests) = Bound(requests - 1) + TxQueueSize + 1
        BY <3>1, Bounds
      <4>2. TxQueueSize \in Nat BY BusAssumption
      <4>. QED BY <4>1, <4>2
    <3>3. Room = IF \E t \in Slaves : ~Dead(t) /\ Expecting(t) THEN Bound(requests - 1) + 1
                 ELSE Bound(requests)
      BY <2>3 DEF Room
    <3>4. Room' = IF \E t \in Slaves : ~Dead(t)' /\ Expecting(t)' THEN Bound(requests - 1) + 1
                  ELSE Bound(requests)
      BY <2>3 DEF Room
    <3>. QED BY <1>2, <3>2, <3>3, <3>4
  <2>. QED BY <2>1, <2>2, <2>3
<1>4. ASSUME NEW t \in Slaves
      PROVE  /\ Len(events'[t]) <= Room'
             /\ ~Dead(t)' => txQueue'[t] = <<>> /\ (NoneLeft(t)' \/ Expecting(t)')
  <2>1. Len(events'[t]) <= Len(events[t]) /\ Len(events[t]) \in Nat /\ Len(events'[t]) \in Nat
    <3>1. Len(events[t]) \in Nat /\ events'[t] \in Seq(Event)
      BY BusTypes DEF TypeOK, NetTypes
    <3>2. Len(events'[t]) \in Nat BY <3>1
    <3>3. CASE t = s BY <3>1, <3>2, <3>3
    <3>4. CASE t # s
      <4>1. events'[t] = events[t] BY <3>4
      <4>. QED BY <3>1, <4>1
    <3>. QED BY <3>1, <3>2, <3>3, <3>4
  <2>2. Len(events[t]) <= Room BY DEF Still
  <2>3. Len(events'[t]) <= Room' BY <1>3, <2>1, <2>2
  <2>4. CASE t = s BY <2>3, <2>4
  <2>5. CASE t # s
    <3>1. ~Dead(t)' => txQueue[t] = <<>> /\ (NoneLeft(t) \/ Expecting(t)) BY DEF Still
    <3>. QED BY <1>1, <2>3, <2>5, <3>1
  <2>. QED BY <2>4, <2>5
<1>. QED BY <1>4 DEF Still

\* The first step towards the response: its frames are queued.
LEMMA StillAnswers ==
    ASSUME Unicast, TypeOK, TypeOK', Basic, Still, NEW s \in Slaves, AppHandles(s)
    PROVE  /\ Expecting(s)
           /\ IF ResponseFrames(s, asked.req) \in 1 .. TxQueueSize THEN SpeakingBy(s)' ELSE Still'
<1>. DEFINE m == Head(rxQueue[s])
            n == ResponseFrames(s, asked.req)
            frames == IF n <= TxQueueSize THEN Answer(s, nad[s], asked, n) ELSE <<>>
<1>1. /\ ~Dead(s) /\ rxQueue[s] # <<>> /\ ForMe(s, m.req) /\ rxQueue'[s] = Tail(rxQueue[s])
      /\ UNCHANGED <<masterTx, masterRx, inbox, asked, requests, notify, slot, events, scheduled>>
      /\ \A t \in Slaves : Dead(t) => Dead(t)'
      /\ \A t \in Slaves : t # s => events'[t] = events[t] /\ rxQueue'[t] = rxQueue[t]
                                      /\ txQueue'[t] = txQueue[t]
  <2>1. ~Dead(s) /\ \A t \in Slaves : Dead(t) => Dead(t)' BY SlaveFrame DEF Slave
  <2>2. \A t \in Slaves : t # s => events'[t] = events[t] /\ rxQueue'[t] = rxQueue[t]
                                      /\ txQueue'[t] = txQueue[t]
    BY SlaveFrame DEF Slave
  <2>3. /\ rxQueue[s] # <<>> /\ ForMe(s, m.req) /\ rxQueue'[s] = Tail(rxQueue[s])
        /\ UNCHANGED <<masterTx, masterRx, inbox, asked, requests, notify, slot, events,
                       scheduled>>
    BY BusTypes DEF AppHandles, masterVars, netVars
  <2>. QED BY <2>1, <2>2, <2>3
<1>2. m \in Elements(rxQueue[s]) /\ m # Confirmation /\ m.req \in Requests
  <2>1. m \in Elements(rxQueue[s]) /\ m \in Message BY <1>1, BusTypes, TailOf
  <2>2. m # Confirmation BY <2>1, MessageIsNoConfirmation
  <2>. HIDE DEF m
  <2>. QED BY <2>1, <2>2 DEF Basic, Known
<1>3. Owned(s, m) /\ m.req.nad = nad[s]
  <2>1. nad[s] \in Nads(s) BY DEF Basic
  <2>. QED BY <1>1, <1>2, <2>1 DEF Owned, ForMe, Unicast
<1>4. Expecting(s) /\ ~Clear(s, rxQueue[s])
  <2>1. ~Clear(s, rxQueue[s]) BY <1>2, <1>3 DEF Clear
  <2>2. ~NoneLeft(s) BY <2>1 DEF NoneLeft
  <2>. QED BY <1>1, <2>1, <2>2 DEF Still
<1>5. /\ masterTx = <<>> /\ asked # Nothing /\ Owned(s, asked)
      /\ events[s] = <<>> /\ AskedLast(s, rxQueue[s])
  BY <1>4 DEF Expecting
<1>6. m = asked /\ rxQueue'[s] = <<>>
  <2>1. rxQueue[s] \in Seq(Message) BY BusTypes
  <2>2. \/ m = asked /\ Tail(rxQueue[s]) = <<>>
        \/ ~Owned(s, m) /\ AskedLast(s, Tail(rxQueue[s]))
    BY <1>5, <2>1, BeforeAsked
  <2>. QED BY <1>1, <1>3, <2>2
<1>7. n \in Nat /\ nad[s] = asked.req.nad /\ asked \in Message /\ requests >= 1
  <2>1. asked \in Message BY <1>5, BusTypes
  <2>2. asked.req \in RequestType BY <2>1 DEF Message
  <2>3. requests >= 1 BY <1>5 DEF Basic
  <2>. QED BY <1>3, <1>6, <2>1, <2>2, <2>3, ResponseLength
<1>8. txQueue[s] = <<>> BY <1>1 DEF Still
<1>9. txQueue'[s] = frames
  <2>1. Transmits(s, ResponseNad(s, asked.req), asked, n) BY <1>6 DEF AppHandles
  <2>2. txQueue'[s] = <<>> \o
          (IF Len(<<>>) + n <= TxQueueSize THEN Answer(s, nad[s], asked, n) ELSE <<>>)
    BY <1>8, <2>1, BusTypes DEF Transmits, ResponseNad
  <2>3. Len(<<>>) + n = n BY <1>7
  <2>4. frames \in Seq(Frame)
    <3>1. nad[s] \in Nat BY BusTypes
    <3>2. Answer(s, nad[s], asked, n) \in Seq(Frame) BY <1>7, <3>1, AnswerTypes
    <3>. QED BY <3>2
  <2>5. <<>> \o frames = frames BY <2>4
  <2>. QED BY <2>2, <2>3, <2>5
<1>10. NoneLeft(s)'
  <2>1. events'[s] = <<>> /\ rxQueue'[s] = <<>> BY <1>1, <1>5, <1>6
  <2>2. DOMAIN <<>> = {} OBVIOUS
  <2>. QED BY <2>1, <2>2 DEF NoneLeft, Clear, Elements
<1>11. TxQueueSize \in Nat BY BusAssumption
<1>12. CASE ~(n \in 1 .. TxQueueSize)
  <2>1. frames = <<>>
    <3>1. CASE n = 0
      <4>1. Len(Answer(s, nad[s], asked, n)) = 0 /\ Answer(s, nad[s], asked, n) \in Seq(Frame)
        BY <1>7, <3>1, AnswerTypes, BusTypes
      <4>. QED BY <4>1, NoElement
    <3>2. CASE ~(n <= TxQueueSize) BY <3>2
    <3>. QED BY <1>7, <1>11, <1>12, <3>1, <3>2
  <2>2. txQueue'[s] = <<>> BY <1>9, <2>1
  <2>3. Len(events'[s]) <= Len(events[s]) BY <1>1, BusTypes
  <2>4. Still' BY <1>1, <1>10, <2>2, <2>3, StillKept
  <2>. QED BY <1>4, <1>12, <2>4
<1>13. CASE n \in 1 .. TxQueueSize
  <2>0. PICK l \in Nat : l = n BY <1>7
  <2>1. txQueue'[s] = Part(s, l, 0, l)'
    <3>1. frames = Answer(s, nad[s], asked, l) BY <1>7, <1>11, <1>13, <2>0
    <3>2. Part(s, l, 0, l)' = Part(s, l, 0, l) BY <1>1 DEF Part, FrameNo
    <3>3. Answer(s, nad[s], asked, l) = Part(s, l, 0, l)
      <4>1. l - 0 = l /\ \A k \in 1 .. l : 0 + k = k OBVIOUS
      <4>. QED BY <1>7, <4>1 DEF Answer, Part, FrameNo
    <3>. QED BY <1>9, <3>1, <3>2, <3>3
  <2>2. \A t \in Slaves : Len(events[t]) <= Bound(requests - 1) + 1 + 0
    <3>1. Room = Bound(requests - 1) + 1 BY <1>1, <1>4, <1>5 DEF Room
    <3>2. Bound(requests - 1) \in Nat BY <1>7, Bounds, BusTypes
    <3>3. \A t \in Slaves : Len(events[t]) <= Bound(requests - 1) + 1 BY <3>1 DEF Still
    <3>. QED BY <3>2, <3>3
  <2>3. ASSUME NEW t \in Slaves, ~Dead(t)'
        PROVE  Silent(s, t)'
    <3>1. CASE t = s BY <1>10, <3>1 DEF Silent
    <3>2. CASE t # s
      <4>1. ~Dead(t) BY <1>1, <2>3
      <4>2. Nads(s) \cap Nads(t) = {} BY <3>2 DEF Unicast
      <4>3. ~Expecting(t) BY <1>5, <4>2 DEF Expecting, Owned
      <4>4. txQueue[t] = <<>> /\ NoneLeft(t) BY <4>1, <4>3 DEF Still
      <4>5. events'[t] = events[t] /\ rxQueue'[t] = rxQueue[t] /\ txQueue'[t] = txQueue[t]
        BY <1>1, <3>2
      <4>6. NoneLeft(t)' BY <4>4, <4>5 DEF NoneLeft, Clear, Elements
      <4>. QED BY <4>4, <4>5, <4>6 DEF Silent
    <3>. QED BY <3>1, <3>2
  <2>4. slot = NoFrame /\ masterRx = NoFrame /\ notify = 0 /\ inbox = <<>> BY DEF Still
  <2>5. Told(s)' BY <1>1, <1>5, <2>4 DEF Told, HasTX, OneTX
  <2>6. ASSUME NEW t \in Slaves PROVE Within(t, 0)'
    <3>1. Len(events'[t]) = Len(events[t]) /\ Len(events[t]) \in Nat BY <1>1, BusTypes
    <3>2. notify' = 0 /\ requests' = requests BY <1>1, <2>4
    <3>3. Coming(t)' = 0 BY <3>2 DEF Coming
    <3>. QED BY <2>2, <3>1, <3>2, <3>3 DEF Within
  <2>7. l # 0 /\ Counts(l, 0, 0, 0) BY <1>7, <1>11, <1>13, <2>0 DEF Counts
  <2>8. masterTx' = <<>> /\ asked' # Nothing BY <1>1, <1>5
  <2>9. Places(s, l, 0, 0, 0)' BY <1>1, <2>1, <2>4, <2>7 DEF Places
  <2>10. Speaks(s, l, 0, 0, 0)' BY <2>3, <2>5, <2>6, <2>7, <2>8, <2>9 DEF Speaks, Counts
  <2>11. SpeakingBy(s)' BY <2>10 DEF SpeakingBy
  <2>. QED BY <1>4, <1>13, <2>11
<1>. QED BY <1>4, <1>12, <1>13

\* What a step of a slave does to its two queues.
LEMMA SlaveMoves ==
    ASSUME TypeOK, NEW s \in Slaves, Slave(s) \/ Run(s) \/ Stop(s)
    PROVE  \/ UNCHANGED <<events, rxQueue>>
           \/ /\ events[s] # <<>> /\ events'[s] = Tail(events[s])
              /\ Head(events[s]) = Confirmation /\ rxQueue'[s] = rxQueue[s]
           \/ /\ events[s] # <<>> /\ events'[s] = Tail(events[s])
              /\ Head(events[s]) # Confirmation
              /\ rxQueue'[s] = deliverMessage(rxQueue[s], Head(events[s]))
           \/ /\ AppIgnores(s) \/ AppHandles(s)
              /\ UNCHANGED events /\ rxQueue[s] # <<>> /\ rxQueue'[s] = Tail(rxQueue[s])
<1>1. CASE Run(s) \/ Stop(s) \/ Exit(s) \/ Tick(s) \/ AppIdle(s) \/ ReadsNothing(s)
  BY <1>1 DEF Run, Stop, Exit, Tick, AppIdle, ReadsNothing, netVars
<1>2. CASE TakesConfirmation(s) \/ IgnoresConfirmation(s)
  BY <1>2, BusTypes DEF TakesConfirmation, IgnoresConfirmation, Reads
<1>3. CASE TakesRequest(s) BY <1>3, BusTypes DEF TakesRequest, Reads
<1>4. CASE AppIgnores(s) \/ AppHandles(s)
  BY <1>4, BusTypes DEF AppIgnores, AppHandles, netVars
<1>. QED BY <1>1, <1>2, <1>3, <1>4 DEF Slave

\* The request asked for gets lost in a full queue, or is taken by the node.
Drops(s) ==
    /\ events[s] # <<>> /\ Head(events[s]) = asked /\ Clear(s, rxQueue[s])
    /\ Len(rxQueue[s]) >= RxQueueSize
Takes(s) ==
    rxQueue[s] # <<>> /\ Head(rxQueue[s]) = asked /\ (AppIgnores(s) \/ AppHandles(s))

\* Until then it stays the last of its kind.
LEMMA ExpectingMoves ==
    ASSUME TypeOK, NEW s \in Slaves, Slave(s) \/ Run(s) \/ Stop(s), Expecting(s)
    PROVE  Expecting(s)' \/ (NoneLeft(s)' /\ (Drops(s) \/ Takes(s)))
<1>1. /\ masterTx = <<>> /\ asked # Nothing /\ Owned(s, asked)
      /\ \/ AskedLast(s, events[s]) /\ Clear(s, rxQueue[s])
         \/ events[s] = <<>> /\ AskedLast(s, rxQueue[s])
  BY DEF Expecting
<1>2. asked \in Message /\ asked # Confirmation /\ events[s] \in Seq(Event)
      /\ rxQueue[s] \in Seq(Message) /\ masterTx' = masterTx /\ asked' = asked
  BY <1>1, BusTypes, MessageIsNoConfirmation, SlaveFrame
<1>. DEFINE First == AskedLast(s, events'[s]) /\ Clear(s, rxQueue'[s])
            Second == events'[s] = <<>> /\ AskedLast(s, rxQueue'[s])
            None == Clear(s, events'[s]) /\ Clear(s, rxQueue'[s])
<1>3. Clear(s, <<>>)
  <2>1. DOMAIN <<>> = {} OBVIOUS
  <2>. QED BY <2>1 DEF Clear, Elements
<1>4. First \/ Second \/ (None /\ (Drops(s) \/ Takes(s)))
  <2>. DEFINE e == Head(events[s])
              Alone == e = asked /\ Tail(events[s]) = <<>>
  <2>1. CASE UNCHANGED <<events, rxQueue>> BY <1>1, <2>1
  <2>2. CASE /\ events[s] # <<>> /\ events'[s] = Tail(events[s])
             /\ \/ e = Confirmation /\ rxQueue'[s] = rxQueue[s]
                \/ e # Confirmation /\ rxQueue'[s] = deliverMessage(rxQueue[s], e)
    <3>1. AskedLast(s, events[s]) /\ Clear(s, rxQueue[s]) BY <1>1, <2>2
    <3>2. Alone \/ (~Owned(s, e) /\ AskedLast(s, Tail(events[s])))
      BY <1>2, <3>1, BeforeAsked
    <3>3. CASE e = Confirmation /\ rxQueue'[s] = rxQueue[s]
      BY <1>2, <2>2, <3>1, <3>2, <3>3
    <3>4. CASE e # Confirmation /\ rxQueue'[s] = deliverMessage(rxQueue[s], e)
      <4>1. e \in Event BY <1>2, <2>2, TailOf
      <4>2. e \in Message BY <3>4, <4>1 DEF Event
      <4>3. Elements(rxQueue'[s]) \subseteq Elements(rxQueue[s]) \cup {e}
        BY <1>2, <3>4, <4>2, AddedElements
      <4>4. CASE ~Alone
        <5>1. Clear(s, rxQueue'[s]) BY <3>1, <3>2, <4>3, <4>4 DEF Clear
        <5>. QED BY <2>2, <3>2, <4>4, <5>1
      <4>5. CASE Alone /\ ~(Len(rxQueue[s]) < RxQueueSize)
        <5>1. rxQueue'[s] = rxQueue[s] BY <3>4, <4>5 DEF deliverMessage
        <5>2. Len(rxQueue[s]) \in Nat BY <1>2
        <5>3. RxQueueSize \in Nat BY BusAssumption
        <5>4. Len(rxQueue[s]) >= RxQueueSize BY <4>5, <5>2, <5>3
        <5>. QED BY <1>3, <2>2, <3>1, <4>5, <5>1, <5>4 DEF Drops
      <4>6. CASE Alone /\ Len(rxQueue[s]) < RxQueueSize
        <5>1. rxQueue'[s] = Append(rxQueue[s], asked) BY <3>4, <4>6 DEF deliverMessage
        <5>2. AskedLast(s, rxQueue'[s]) BY <1>2, <3>1, <5>1, AskedBehind
        <5>. QED BY <2>2, <4>6, <5>2
      <4>. QED BY <4>4, <4>5, <4>6
    <3>. QED BY <2>2, <3>3, <3>4
  <2>3. CASE /\ AppIgnores(s) \/ AppHandles(s)
             /\ UNCHANGED events /\ rxQueue[s] # <<>> /\ rxQueue'[s] = Tail(rxQueue[s])
    <3>1. CASE AskedLast(s, events[s]) /\ Clear(s, rxQueue[s])
      <4>1. Elements(rxQueue'[s]) \subseteq Elements(rxQueue[s]) BY <1>2, <2>3, TailOf
      <4>. QED BY <2>3, <3>1, <4>1 DEF Clear
    <3>2. CASE events[s] = <<>> /\ AskedLast(s, rxQueue[s])
      <4>1. \/ Head(rxQueue[s]) = asked /\ Tail(rxQueue[s]) = <<>>
            \/ AskedLast(s, Tail(rxQueue[s]))
        BY <1>2, <3>2, BeforeAsked
      <4>. QED BY <1>3, <2>3, <3>2, <4>1 DEF Takes
    <3>. QED BY <1>1, <3>1, <3>2
  <2>. QED BY <2>1, <2>2, <2>3, SlaveMoves
<1>. HIDE DEF First, Second, None
<1>5. None => NoneLeft(s)' BY DEF None, NoneLeft, Clear, Elements, Owned
<1>6. First \/ Second => Expecting(s)'
  BY <1>1, <1>2 DEF First, Second, Expecting, Clear, Elements, AskedLast, Owned
<1>. QED BY <1>4, <1>5, <1>6

\* Any step of a slave while no slave speaks.
LEMMA StillSlave ==
    ASSUME Unicast, TypeOK, TypeOK', Basic, Still, NEW s \in Slaves, Slave(s) \/ Run(s) \/ Stop(s)
    PROVE  Still' \/ SpeakingBy(s)'
<1>1. CASE AppHandles(s) BY <1>1, StillAnswers
<1>2. CASE ~AppHandles(s)
  <2>1. /\ UNCHANGED <<masterTx, masterRx, inbox, asked, requests, notify>>
        /\ \A t \in Slaves : Dead(t) => Dead(t)'
        /\ \A t \in Slaves : t # s => events'[t] = events[t] /\ rxQueue'[t] = rxQueue[t]
                                      /\ txQueue'[t] = txQueue[t]
        /\ Len(events'[s]) <= Len(events[s])
    BY SlaveFrame, SlaveQueues
  <2>2. ~Dead(s) => txQueue[s] = <<>> /\ (NoneLeft(s) \/ Expecting(s)) BY DEF Still
  <2>3. UNCHANGED <<slot, txQueue>>
    <3>1. CASE Run(s) \/ Stop(s) \/ Exit(s) \/ Tick(s) \/ AppIdle(s) \/ AppIgnores(s)
      BY <3>1 DEF Run, Stop, Exit, Tick, AppIdle, AppIgnores, netVars
    <3>2. ASSUME Slave(s) PROVE txQueue[s] = <<>>
      BY <2>2, <3>2, SlaveFrame
    <3>3. CASE TakesConfirmation(s) \/ IgnoresConfirmation(s) \/ TakesRequest(s)
      BY <3>2, <3>3 DEF Slave, TakesConfirmation, IgnoresConfirmation, TakesRequest
    <3>4. CASE ReadsNothing(s) BY <3>2, <3>4 DEF Slave, ReadsNothing, MayStart
    <3>. QED BY <1>2, <3>1, <3>3, <3>4 DEF Slave
  <2>4. ASSUME ~Dead(s)' PROVE NoneLeft(s)' \/ (Expecting(s) /\ Expecting(s)')
    <3>1. ~Dead(s) BY <2>1, <2>4
    <3>2. CASE NoneLeft(s)
      <4>1. Clear(s, events[s]) /\ Clear(s, rxQueue[s]) BY <3>2 DEF NoneLeft
      <4>2. /\ Elements(events'[s]) \subseteq Elements(events[s])
            /\ Elements(rxQueue'[s]) \subseteq Elements(rxQueue[s]) \cup Elements(events[s])
        BY SlaveQueues
      <4>3. \A e \in Elements(events'[s]) \cup Elements(rxQueue'[s]) : ~Owned(s, e)
        BY <4>1, <4>2 DEF Clear
      <4>. QED BY <4>3 DEF NoneLeft, Clear, Elements, Owned
    <3>3. CASE Expecting(s) BY <3>3, ExpectingMoves
    <3>. QED BY <2>2, <3>1, <3>2, <3>3
  <2>5. ~Dead(s)' => txQueue'[s] = <<>> BY <2>1, <2>2, <2>3
  <2>. QED BY <2>1, <2>3, <2>4, <2>5, StillKept
<1>. QED BY <1>1, <1>2

\* What the master may do while no slave speaks: ask, send the request, give up.
LEMMA StillMaster ==
    ASSUME Unicast, TypeOK, TypeOK', Basic, Still,
           Master \/ TimesOut \/ Expires \/ \E r \in Requests : Ask(r)
    PROVE  Still'
<1>1. slot = NoFrame /\ masterRx = NoFrame /\ notify = 0 /\ inbox = <<>> BY DEF Still
<1>2. requests \in Nat /\ TxQueueSize \in Nat /\ \A t \in Slaves : Len(events[t]) \in Nat
  BY BusTypes, BusAssumption DEF TypeOK, MasterTypes
<1>3. masterTx # <<>> => masterTx = <<asked>> /\ Head(masterTx) = asked /\ Tail(masterTx) = <<>>
                         /\ asked # Nothing /\ requests >= 1
  <2>1. masterTx # <<>> => masterTx = <<asked>> /\ asked # Nothing /\ requests >= 1 BY DEF Basic
  <2>2. Head(<<asked>>) = asked /\ Tail(<<asked>>) = <<>> OBVIOUS
  <2>. QED BY <2>1, <2>2
<1>4. CASE writeMessage
  <2>1. masterTx = <<asked>> /\ masterTx' = <<>> /\ asked # Nothing /\ requests >= 1
        /\ UNCHANGED <<asked, requests, slot, masterRx, notify, inbox, at, halted, txQueue,
                       rxQueue>>
        /\ \A t \in Slaves : events'[t] = pushEvent(events[t], asked)
    BY <1>3, <1>4 DEF writeMessage, slaveVars
  <2>2. asked \in Message /\ asked # Confirmation /\ asked \in Event
    BY <2>1, MessageIsNoConfirmation DEF Event, TypeOK, MasterTypes
  <2>3. Bound(requests - 1) \in Nat /\ Bound(requests) \in Nat
        /\ Bound(requests) = Bound(requests - 1) + TxQueueSize + 1
    BY <1>2, <2>1, Bounds
  <2>4. Room = Bound(requests - 1) BY <2>1 DEF Room
  <2>5. Room' = Bound(requests - 1) + 1 \/ Room' = Bound(requests) BY <2>1 DEF Room
  <2>6. ASSUME NEW t \in Slaves
        PROVE  /\ Len(events'[t]) <= Room'
               /\ ~Dead(t)' => txQueue'[t] = <<>> /\ (NoneLeft(t)' \/ Expecting(t)')
    <3>1. events[t] \in Seq(Event) /\ Len(events[t]) <= Room BY BusTypes DEF Still
    <3>2. Elements(events'[t]) \subseteq Elements(events[t]) \cup {asked}
          /\ Len(events'[t]) <= Len(events[t]) + 1 /\ Len(events'[t]) \in Nat
      BY <2>1, <2>2, <3>1, AddedElements
    <3>3. Len(events'[t]) <= Room'
      <4>1. Len(events[t]) <= Bound(requests - 1) /\ Len(events[t]) \in Nat
        BY <1>2, <2>4, <3>1
      <4>2. Len(events'[t]) <= Bound(requests - 1) + 1 BY <2>3, <3>2, <4>1
      <4>3. Bound(requests - 1) + 1 <= Room' /\ Room' \in Int BY <1>2, <2>3, <2>5
      <4>. QED BY <2>3, <3>2, <4>2, <4>3
    <3>4. ASSUME ~Dead(t)' PROVE txQueue'[t] = <<>> /\ (NoneLeft(t)' \/ Expecting(t)')
      <4>1. ~Dead(t) BY <2>1, <3>4 DEF Dead
      <4>2. ~Expecting(t) BY <2>1 DEF Expecting
      <4>3. txQueue[t] = <<>> /\ Clear(t, events[t]) /\ Clear(t, rxQueue[t])
        BY <4>1, <4>2 DEF Still, NoneLeft
      <4>4. CASE Owned(t, asked) /\ events'[t] # events[t]
        <5>1. events'[t] = Append(events[t], asked) BY <2>1, <4>4 DEF pushEvent
        <5>2. AskedLast(t, events'[t]) BY <2>2, <3>1, <4>3, <5>1, AskedBehind
        <5>3. Expecting(t)'
          BY <2>1, <4>3, <4>4, <5>2 DEF Expecting, AskedLast, Clear, Elements, Owned
        <5>. QED BY <2>1, <4>3, <5>3
      <4>5. CASE ~Owned(t, asked) \/ events'[t] = events[t]
        <5>1. \A e \in Elements(events'[t]) : ~Owned(t, e) BY <3>2, <4>3, <4>5 DEF Clear
        <5>2. NoneLeft(t)' BY <2>1, <4>3, <5>1 DEF NoneLeft, Clear, Elements, Owned
        <5>. QED BY <2>1, <4>3, <5>2
      <4>. QED BY <4>4, <4>5
    <3>. QED BY <3>3, <3>4
  <2>. QED BY <1>1, <2>1, <2>6 DEF Still
<1>5. CASE \E r \in Requests : Ask(r)
  <2>1. PICK r \in Requests : Ask(r) BY <1>5
  <2>2. asked = Nothing /\ masterTx = <<>> BY <1>3, <2>1 DEF Ask
  <2>3. /\ UNCHANGED <<slot, masterRx, notify, inbox, at, halted, txQueue, events, rxQueue>>
        /\ requests' = requests + 1 /\ masterTx' = Append(<<>>, asked')
    BY <2>1, <2>2 DEF Ask, slaveVars, netVars
  <2>4. masterTx' # <<>>
    <3>1. Append(<<>>, asked') = <<asked'>> OBVIOUS
    <3>. QED BY <2>3, <3>1
  <2>5. Room = Bound(requests) /\ Room' = Bound(requests)
    <3>1. Room = Bound(requests) BY <2>2 DEF Room, Expecting
    <3>2. requests' - 1 = requests BY <1>2, <2>3
    <3>3. Room' = Bound(requests' - 1) BY <2>4 DEF Room
    <3>. QED BY <3>1, <3>2, <3>3
  <2>6. ASSUME NEW t \in Slaves
        PROVE  /\ Len(events'[t]) <= Room'
               /\ ~Dead(t)' => txQueue'[t] = <<>> /\ NoneLeft(t)'
    <3>1. ~Expecting(t) BY <2>2 DEF Expecting
    <3>2. Len(events[t]) <= Room /\ (~Dead(t) => txQueue[t] = <<>> /\ NoneLeft(t))
      BY <3>1 DEF Still
    <3>3. Dead(t)' <=> Dead(t) BY <2>3 DEF Dead
    <3>4. NoneLeft(t)' <=> NoneLeft(t) BY <2>3 DEF NoneLeft, Clear, Elements, Owned
    <3>. QED BY <2>3, <2>5, <3>2, <3>3, <3>4
  <2>. QED BY <1>1, <2>3, <2>6 DEF Still
<1>6. CASE TimesOut
  <2>1. masterTx = <<>> /\ asked # Nothing /\ Quiet BY <1>6 DEF TimesOut, Unicast, Quiet
  <2>2. /\ UNCHANGED <<slot, masterTx, masterRx, notify, inbox, at, halted, txQueue, events,
                       rxQueue, requests>>
        /\ asked' = Nothing
    BY <1>6 DEF TimesOut, slaveVars, netVars
  <2>3. Room <= Room'
    <3>1. requests >= 1 BY <2>1 DEF Basic
    <3>2. Bound(requests - 1) \in Nat /\ Bound(requests) \in Nat
          /\ Bound(requests) = Bound(requests - 1) + TxQueueSize + 1
      BY <1>2, <3>1, Bounds
    <3>3. Room' = Bound(requests) BY <2>1, <2>2 DEF Room, Expecting
    <3>4. Room = Bound(requests - 1) + 1 \/ Room = Bound(requests) BY <2>1 DEF Room
    <3>. QED BY <1>2, <3>2, <3>3, <3>4
  <2>4. ASSUME NEW t \in Slaves
        PROVE  /\ Len(events'[t]) <= Room'
               /\ ~Dead(t)' => txQueue'[t] = <<>> /\ NoneLeft(t)'
    <3>1. Len(events[t]) <= Room'
      <4>1. Room \in Int /\ Room' \in Int
        <5>1. requests >= 1 BY <2>1 DEF Basic
        <5>2. Bound(requests - 1) \in Nat /\ Bound(requests) \in Nat BY <1>2, <5>1, Bounds
        <5>3. Room' = Bound(requests) BY <2>1, <2>2 DEF Room, Expecting
        <5>4. Room = Bound(requests - 1) + 1 \/ Room = Bound(requests) BY <2>1 DEF Room
        <5>. QED BY <5>2, <5>3, <5>4
      <4>. QED BY <1>2, <2>3, <4>1 DEF Still
    <3>2. ~Dead(t)' => events[t] = <<>> /\ rxQueue[t] = <<>> /\ txQueue[t] = <<>>
      BY <2>1, <2>2 DEF Quiet, Dead
    <3>3. DOMAIN <<>> = {} OBVIOUS
    <3>. QED BY <2>2, <3>1, <3>2, <3>3 DEF NoneLeft, Clear, Elements
  <2>. QED BY <1>1, <2>2, <2>4 DEF Still
<1>7. CASE Expires
  <2>1. UNCHANGED <<slot, masterTx, masterRx, notify, inbox, at, halted, txQueue, events, rxQueue,
                    requests, asked>>
    BY <1>7 DEF Expires, slaveVars, netVars
  <2>2. \A t \in Slaves : /\ (Dead(t)' <=> Dead(t)) /\ (NoneLeft(t)' <=> NoneLeft(t))
                          /\ (Expecting(t)' <=> Expecting(t))
    BY <2>1 DEF Dead, NoneLeft, Expecting, Clear, Elements, Owned, AskedLast
  <2>3. Room' = Room BY <2>1, <2>2 DEF Room
  <2>. QED BY <2>1, <2>2, <2>3 DEF Still
<1>8. ~(requestSlaveResponse \/ notifySlave \/ receiveFromDriver \/ Answered \/ Skipped)
  BY <1>1 DEF requestSlaveResponse, notifySlave, receiveFromDriver, Answered, Skipped
<1>. QED BY <1>4, <1>5, <1>6, <1>7, <1>8 DEF Master

\* A step of slave t leaves the master and the other slaves alone and only takes
\* from the queue of its driver.
OnlySlave(t) ==
    /\ UNCHANGED <<masterTx, masterRx, hearing, inbox, asked, requests, notify>>
    /\ \A u \in Slaves : Dead(u) => Dead(u)'
    /\ \A u \in Slaves : u # t => events'[u] = events[u] /\ rxQueue'[u] = rxQueue[u]
                                    /\ txQueue'[u] = txQueue[u]
    /\ Elements(events'[t]) \subseteq Elements(events[t])
    /\ Elements(rxQueue'[t]) \subseteq Elements(rxQueue[t]) \cup Elements(events[t])
    /\ Len(events'[t]) <= Len(events[t])

\* While a slave speaks, a slave's step may schedule its next frame.
LEMMA SpeaksKept ==
    ASSUME TypeOK, TypeOK', Basic, NEW s \in Slaves, NEW n \in Nat, NEW h \in Nat, NEW g \in Nat,
           NEW j \in Nat, NEW i \in Nat, Speaks(s, n, h, g, j), NEW t \in Slaves,
           OnlySlave(t), t # s => txQueue'[t] = <<>> \/ Dead(t)',
           Told(s)', i = j \/ (j = g /\ i = j + 1 /\ j < n),
           txQueue'[s] = Part(s, n, i, n),
           slot' = IF i = g THEN NoFrame ELSE FrameNo(s, n, i)
    PROVE  SpeakingBy(s)'
<1>. USE DEF OnlySlave
<1>1. masterTx' = <<>> /\ asked' # Nothing BY DEF Speaks
<1>2. Counts(n, h, g, i) BY DEF Speaks, Counts
<1>3. Places(s, n, h, g, i)'
  <2>1. \A a, b \in Nat : Part(s, n, a, b)' = Part(s, n, a, b) BY DEF Part, FrameNo
  <2>2. \A k \in Nat : FrameNo(s, n, k)' = FrameNo(s, n, k) BY DEF FrameNo
  <2>. QED BY <2>1, <2>2 DEF Speaks, Places
<1>4. ASSUME NEW u \in Slaves
      PROVE  Within(u, g)' /\ (~Dead(u)' => Silent(s, u)')
  <2>1. Within(u, g) /\ (~Dead(u) => Silent(s, u)) BY DEF Speaks
  <2>2. CASE u # t
    <3>1. events'[u] = events[u] /\ rxQueue'[u] = rxQueue[u] /\ txQueue'[u] = txQueue[u]
      BY <2>2
    <3>2. Within(u, g)' <=> Within(u, g) BY <3>1 DEF Within, Coming
    <3>3. Silent(s, u)' <=> Silent(s, u) BY <3>1 DEF Silent, NoneLeft, Clear, Elements, Owned
    <3>. QED BY <2>1, <3>2, <3>3
  <2>3. CASE u = t
    <3>1. Len(events[u]) \in Nat /\ Len(events'[u]) \in Nat
      <4>1. Len(events[u]) \in Nat BY BusTypes
      <4>2. events'[u] \in Seq(Event) BY DEF TypeOK, NetTypes
      <4>3. Len(events'[u]) \in Nat BY <4>2
      <4>. QED BY <4>1, <4>3
    <3>2. Within(u, g)'
      <4>1. Coming(u)' = Coming(u) /\ Coming(u) \in Nat /\ requests' = requests BY DEF Coming
      <4>2. Bound(requests - 1) \in Nat
        <5>1. requests \in Nat /\ requests >= 1 BY BusTypes DEF Basic, Speaks
        <5>. QED BY <5>1, Bounds
      <4>3. Len(events[u]) + Coming(u) <= Bound(requests - 1) + 1 + g BY <2>1 DEF Within
      <4>4. Len(events'[u]) <= Len(events[u]) BY <2>3
      <4>5. \A a, b, c, d \in Nat : a <= b /\ b + c <= d + 1 + g => a + c <= d + 1 + g
        OBVIOUS
      <4>6. Coming(u) \in Nat BY DEF Coming
      <4>7. Len(events'[u]) + Coming(u) <= Bound(requests - 1) + 1 + g
        BY <3>1, <4>2, <4>3, <4>4, <4>5, <4>6
      <4>. QED BY <4>1, <4>7 DEF Within
    <3>3. ASSUME ~Dead(u)' PROVE Silent(s, u)'
      <4>1. Clear(t, events[t]) /\ Clear(t, rxQueue[t])
        BY <2>1, <2>3, <3>3 DEF Silent, NoneLeft
      <4>2. \A e \in Elements(events'[t]) \cup Elements(rxQueue'[t]) : ~Owned(t, e)
        BY <4>1 DEF Clear
      <4>3. NoneLeft(t)' BY <4>2 DEF NoneLeft, Clear, Elements, Owned
      <4>. QED BY <2>3, <3>3, <4>3 DEF Silent
    <3>. QED BY <3>2, <3>3
  <2>. QED BY <2>2, <2>3
<1>5. Speaks(s, n, h, g, i)' BY <1>1, <1>2, <1>3, <1>4 DEF Speaks, Counts
<1>. QED BY <1>5 DEF SpeakingBy

\* No slave but the one that spoke was asked.
LEMMA NobodyHandles ==
    ASSUME Unicast, TypeOK, Basic, NEW s \in Slaves, NEW n \in Nat, NEW h \in Nat, NEW g \in Nat,
           NEW j \in Nat, Speaks(s, n, h, g, j), NEW t \in Slaves
    PROVE  ~AppHandles(t)
<1>. SUFFICES ASSUME AppHandles(t) PROVE FALSE OBVIOUS
<1>. DEFINE m == Head(rxQueue[t])
<1>1. ~Dead(t) BY SlaveFrame DEF Slave
<1>2. m \in Elements(rxQueue[t]) /\ m \in Message /\ ForMe(t, m.req)
  BY BusTypes, TailOf DEF AppHandles
<1>. HIDE DEF m
<1>3. m # Confirmation BY <1>2, MessageIsNoConfirmation
<1>4. m.req \in Requests /\ nad[t] \in Nads(t) BY <1>2, <1>3 DEF Basic, Known
<1>5. Owned(t, m) BY <1>2, <1>3, <1>4 DEF Owned, ForMe, Unicast
<1>. QED BY <1>1, <1>2, <1>5 DEF Speaks, Silent, NoneLeft, Clear

\* The speaker fills the slot only when its frame before has left it.
LEMMA SpeaksSlave ==
    ASSUME Unicast, TypeOK, TypeOK', Basic, NEW s \in Slaves, NEW n \in Nat, NEW h \in Nat,
           NEW g \in Nat, NEW j \in Nat, Speaks(s, n, h, g, j), NEW t \in Slaves,
           Slave(t) \/ Run(t) \/ Stop(t)
    PROVE  SpeakingBy(s)'
<1>1. /\ UNCHANGED <<masterTx, masterRx, hearing, inbox, asked, requests, notify>>
      /\ \A u \in Slaves : Dead(u) => Dead(u)'
      /\ \A u \in Slaves : u # t => events'[u] = events[u] /\ rxQueue'[u] = rxQueue[u]
                                      /\ txQueue'[u] = txQueue[u]
      /\ Elements(events'[t]) \subseteq Elements(events[t])
      /\ Elements(rxQueue'[t]) \subseteq Elements(rxQueue[t]) \cup Elements(events[t])
      /\ Len(events'[t]) <= Len(events[t])
  BY SlaveFrame, SlaveQueues
<1>2. ~AppHandles(t) BY NobodyHandles
<1>3. /\ txQueue[s] = Part(s, n, j, n) /\ slot = (IF j = g THEN NoFrame ELSE FrameNo(s, n, j))
      /\ Told(s) /\ j <= n /\ n \in Nat \ {0} /\ g <= j /\ j <= g + 1
      /\ (~Dead(t) => t = s \/ txQueue[t] = <<>>)
  BY BusAssumption DEF Speaks, Places, Silent, Counts
<1>4. asked # Nothing BY DEF Speaks
<1>5. slot = NoFrame => j = g
  <2>1. j # g => j # 0 BY <1>3
  <2>. QED BY <1>3, <2>1, NumberedFrame
<1>6. ASSUME NEW i \in Nat, i = j \/ (j = g /\ i = j + 1 /\ j < n), Told(s)',
             t # s => txQueue'[t] = <<>> \/ Dead(t)', txQueue'[s] = Part(s, n, i, n),
             slot' = IF i = g THEN NoFrame ELSE FrameNo(s, n, i)
      PROVE  SpeakingBy(s)'
  <2>1. OnlySlave(t) BY <1>1 DEF OnlySlave
  <2>. QED BY <1>6, <2>1, SpeaksKept
<1>7. CASE t # s
  <2>1. txQueue'[s] = txQueue[s] /\ events'[s] = events[s] /\ scheduled'[s] = scheduled[s]
    BY <1>7, SlaveFrame
  <2>2. Told(s)' <=> (slot' # NoFrame => scheduled[s] /\ notify \notin 1 .. s /\ ~HasTX(events[s]))
                     /\ (notify \in 1 .. s => scheduled[s] /\ ~HasTX(events[s]))
                     /\ (HasTX(events[s]) => scheduled[s])
                     /\ OneTX(events[s])
    BY <1>1, <2>1 DEF Told, HasTX, OneTX
  <2>3. slot' = slot /\ (txQueue'[t] = txQueue[t])
    <3>1. CASE Run(t) \/ Stop(t) \/ Exit(t) \/ Tick(t) \/ AppIdle(t) \/ AppIgnores(t)
      BY <3>1 DEF Run, Stop, Exit, Tick, AppIdle, AppIgnores, netVars
    <3>2. CASE Slave(t) /\ (TakesConfirmation(t) \/ IgnoresConfirmation(t) \/ TakesRequest(t))
      <4>1. txQueue[t] = <<>> BY <1>3, <1>7, <3>2, SlaveFrame
      <4>. QED BY <3>2, <4>1 DEF TakesConfirmation, IgnoresConfirmation, TakesRequest
    <3>3. CASE Slave(t) /\ ReadsNothing(t)
      <4>1. txQueue[t] = <<>> BY <1>3, <1>7, <3>3, SlaveFrame
      <4>. QED BY <3>3, <4>1 DEF ReadsNothing, MayStart
    <3>. QED BY <1>2, <3>1, <3>2, <3>3 DEF Slave
  <2>4. Told(s)' BY <1>3, <2>2, <2>3 DEF Told
  <2>5. txQueue'[t] = <<>> \/ Dead(t)' BY <1>1, <1>3, <1>7, <2>3
  <2>6. txQueue'[s] = Part(s, n, j, n) /\ slot' = IF j = g THEN NoFrame ELSE FrameNo(s, n, j)
    BY <1>3, <2>1, <2>3
  <2>. HIDE DEF Told
  <2>. QED BY <1>6, <2>4, <2>5, <2>6
<1>8. CASE t = s
  <2>0. /\ events[s] \in Seq(Event) /\ txQueue[s] \in Seq(Frame) /\ s \in Slaves
        /\ events \in [Slaves -> Seq(Event)] /\ scheduled \in [Slaves -> BOOLEAN]
        /\ txQueue \in [Slaves -> Seq(Frame)]
    BY BusTypes
  <2>1. ASSUME UNCHANGED <<slot, txQueue>>, Told(s)' PROVE SpeakingBy(s)'
    <3>1. txQueue'[s] = Part(s, n, j, n) /\ slot' = IF j = g THEN NoFrame ELSE FrameNo(s, n, j)
      BY <1>3, <2>1
    <3>. QED BY <1>8, <1>6, <2>1, <3>1
  <2>2. ASSUME Schedules(s), txQueue[s] # <<>>, slot = NoFrame, Told(s)' PROVE SpeakingBy(s)'
    <3>1. j = g BY <1>5, <2>2
    <3>2. j < n
      <4>1. n \in Nat /\ j \in 0 .. n /\ n \in j .. n BY <1>3
      <4>2. j = n => Part(s, n, j, n) = <<>> BY <1>4, <4>1, Parts
      <4>. QED BY <1>3, <2>2, <4>2
    <3>3. /\ Head(Part(s, n, j, n)) = FrameNo(s, n, j + 1)
          /\ Tail(Part(s, n, j, n)) = Part(s, n, j + 1, n)
      <4>1. n \in Nat /\ j \in 0 .. n /\ n \in j .. n BY <1>3
      <4>. QED BY <1>4, <3>2, <4>1, Parts
    <3>4. txQueue'[s] = Part(s, n, j + 1, n) /\ slot' = FrameNo(s, n, j + 1)
      BY <1>3, <2>0, <2>2, <3>3 DEF Schedules
    <3>5. PICK i \in Nat : i = j + 1 /\ i # g BY <3>1
    <3>6. txQueue'[s] = Part(s, n, i, n)
          /\ slot' = IF i = g THEN NoFrame ELSE FrameNo(s, n, i)
      BY <3>4, <3>5
    <3>7. i = j \/ (j = g /\ i = j + 1 /\ j < n) BY <3>1, <3>2, <3>5
    <3>. QED BY <1>8, <1>6, <2>2, <3>6, <3>7
  <2>3. ASSUME Reads(s)
        PROVE  /\ events[s] # <<>> /\ OneTX(events'[s])
               /\ Head(events[s]) = Confirmation => HasTX(events[s]) /\ ~HasTX(events'[s])
               /\ Head(events[s]) # Confirmation => (HasTX(events'[s]) <=> HasTX(events[s]))
    <3>1. events[s] # <<>> /\ events'[s] = Tail(events[s]) BY <2>0, <2>3 DEF Reads
    <3>. QED BY <1>3, <2>0, <3>1, TailTX DEF Told
  <2>4. CASE Run(s) \/ Stop(s) \/ Exit(s) \/ Tick(s) \/ AppIdle(s) \/ AppIgnores(s)
    <3>1. UNCHANGED <<slot, txQueue, events, scheduled>>
      BY <2>4 DEF Run, Stop, Exit, Tick, AppIdle, AppIgnores, netVars
    <3>2. Told(s)' BY <1>1, <1>3, <3>1 DEF Told, HasTX, OneTX
    <3>. QED BY <2>1, <3>1, <3>2
  <2>5. CASE TakesConfirmation(s)
    <3>1. /\ HasTX(events[s]) /\ ~HasTX(events'[s]) /\ OneTX(events'[s])
      BY <2>3, <2>5 DEF TakesConfirmation
    <3>2. slot = NoFrame /\ notify \notin 1 .. s BY <1>3, <3>1 DEF Told
    <3>3. CASE txQueue[s] # <<>> /\ Schedules(s)
      <4>1. scheduled'[s] BY <2>0, <3>3 DEF Schedules
      <4>2. Told(s)' BY <1>1, <3>1, <3>2, <4>1 DEF Told, HasTX, OneTX
      <4>. QED BY <2>2, <3>2, <3>3, <4>2
    <3>4. CASE UNCHANGED <<txQueue, slot>>
      <4>1. Told(s)' BY <1>1, <3>1, <3>2, <3>4 DEF Told, HasTX, OneTX
      <4>. QED BY <2>1, <3>4, <4>1
    <3>. QED BY <2>5, <3>3, <3>4 DEF TakesConfirmation
  <2>6. CASE IgnoresConfirmation(s)
    <3>1. HasTX(events[s]) /\ ~scheduled[s] BY <2>3, <2>6 DEF IgnoresConfirmation
    <3>. QED BY <1>3, <3>1 DEF Told
  <2>7. CASE TakesRequest(s)
    <3>1. /\ HasTX(events'[s]) <=> HasTX(events[s])
          /\ OneTX(events'[s]) /\ UNCHANGED <<scheduled, txQueue, slot>>
      BY <2>3, <2>7 DEF TakesRequest
    <3>2. Told(s)' BY <1>1, <1>3, <3>1 DEF Told, HasTX, OneTX
    <3>. QED BY <2>1, <3>1, <3>2
  <2>8. CASE ReadsNothing(s)
    <3>1. events' = events BY <2>8 DEF ReadsNothing
    <3>2. CASE MayStart(s) /\ Schedules(s)
      <4>1. ~scheduled[s] /\ txQueue[s] # <<>> BY <3>2 DEF MayStart
      <4>2. slot = NoFrame /\ notify \notin 1 .. s /\ ~HasTX(events[s]) BY <1>3, <4>1 DEF Told
      <4>3. scheduled'[s] BY <2>0, <3>2 DEF Schedules
      <4>4. Told(s)' BY <1>1, <1>3, <3>1, <4>2, <4>3 DEF Told, HasTX, OneTX
      <4>. QED BY <2>2, <3>2, <4>1, <4>2, <4>4
    <3>3. CASE UNCHANGED <<slot, scheduled, txQueue>>
      <4>1. Told(s)' BY <1>1, <1>3, <3>1, <3>3 DEF Told, HasTX, OneTX
      <4>. QED BY <2>1, <3>3, <4>1
    <3>. QED BY <2>8, <3>2, <3>3 DEF ReadsNothing
  <2>. QED BY <1>2, <1>8, <2>4, <2>5, <2>6, <2>7, <2>8 DEF Slave
<1>. QED BY <1>7, <1>8

\* A response ends when the last of its frames is heard, or when its speaker is
\* gone and everything else has come to rest.
LEMMA SpeaksEnds ==
    ASSUME TypeOK, TypeOK', Basic, NEW s \in Slaves, NEW n \in Nat, NEW h \in Nat, NEW g \in Nat,
           NEW j \in Nat, Speaks(s, n, h, g, j),
           UNCHANGED <<slaveVars, netVars, masterTx, masterRx, requests>>,
           slot = NoFrame, masterRx = NoFrame, notify = 0, inbox' = <<>>,
           ~Dead(s) => txQueue[s] = <<>>
    PROVE  Still'
<1>1. masterTx = <<>> /\ asked # Nothing /\ g <= n /\ n <= TxQueueSize
      /\ TxQueueSize \in Nat
  BY BusAssumption DEF Speaks, Counts
<1>2. UNCHANGED <<events, rxQueue, txQueue, at, halted, slot, notify>> BY DEF slaveVars, netVars
<1>3. requests >= 1 /\ requests \in Nat /\ requests' = requests BY <1>1, BusTypes DEF Basic
<1>4. /\ Bound(requests - 1) \in Nat /\ Bound(requests) \in Nat
      /\ Bound(requests) = Bound(requests - 1) + TxQueueSize + 1
  BY <1>3, Bounds
<1>5. ASSUME NEW t \in Slaves, ~Dead(t)' PROVE NoneLeft(t)' /\ txQueue'[t] = <<>>
  <2>1. Dead(t)' <=> Dead(t) BY <1>2 DEF Dead
  <2>2. NoneLeft(t) /\ txQueue[t] = <<>> BY <1>5, <2>1 DEF Speaks, Silent
  <2>3. NoneLeft(t)' BY <1>2, <2>2 DEF NoneLeft, Clear, Elements, Owned
  <2>. QED BY <1>2, <2>2, <2>3
<1>6. Room' = Bound(requests)
  <2>1. \A t \in Slaves : ~Dead(t)' => ~Expecting(t)' BY <1>5, NotBothNext
  <2>. QED BY <1>1, <1>3, <2>1 DEF Room
<1>7. ASSUME NEW t \in Slaves PROVE Len(events'[t]) <= Room'
  <2>1. Len(events[t]) + 0 <= Bound(requests - 1) + 1 + g
    <3>1. Coming(t) = 0 BY DEF Coming
    <3>. QED BY <3>1 DEF Speaks, Within
  <2>2. Len(events[t]) \in Nat BY BusTypes
  <2>3. \A a, b \in Nat : a + 0 <= b + 1 + g => a <= b + TxQueueSize + 1
    BY <1>1
  <2>4. Len(events[t]) <= Bound(requests) BY <1>4, <2>1, <2>2, <2>3
  <2>. QED BY <1>2, <1>6, <2>4
<1>. QED BY <1>2, <1>5, <1>7 DEF Still

\* The master takes the frames of the one response, in their order.
LEMMA SpeaksMaster ==
    ASSUME Unicast, TypeOK, TypeOK', Basic, NEW s \in Slaves, NEW n \in Nat, NEW h \in Nat,
           NEW g \in Nat, NEW j \in Nat, Speaks(s, n, h, g, j),
           Master \/ TimesOut \/ Expires \/ \E r \in Requests : Ask(r)
    PROVE  SpeakingBy(s)' \/ (Still' /\ (Answered \/ Quiet))
<1>1. /\ masterTx = <<>> /\ asked # Nothing
      /\ Counts(n, h, g, j) /\ Places(s, n, h, g, j) /\ Told(s)
      /\ \A t \in Slaves : Within(t, g) /\ (~Dead(t) => Silent(s, t))
  BY DEF Speaks
<1>2. /\ h <= g /\ g <= h + 1 /\ g <= j /\ j <= g + 1 /\ j <= n /\ n # 0 /\ n <= TxQueueSize
      /\ TxQueueSize \in Nat
  BY <1>1, BusAssumption DEF Counts
<1>3. /\ txQueue[s] = Part(s, n, j, n)
      /\ slot = (IF j = g THEN NoFrame ELSE FrameNo(s, n, j))
      /\ masterRx = (IF g = h THEN NoFrame ELSE FrameNo(s, n, g))
      /\ h = n => notify = 0 /\ inbox = <<Part(s, n, 0, n)>>
      /\ h < n => inbox = <<>> /\ (h = 0 \/ hearing = Part(s, n, 0, h))
  BY <1>1 DEF Places
<1>4. \A k \in 1 .. n : FrameNo(s, n, k) # NoFrame
  <2>. SUFFICES ASSUME NEW k \in 1 .. n PROVE FrameNo(s, n, k) # NoFrame OBVIOUS
  <2>1. k - 1 \in 0 .. n /\ (k - 1) + 1 = k /\ n \in (k - 1) .. n OBVIOUS
  <2>. QED BY <1>1, <2>1, Parts
<1>5. (slot = NoFrame <=> j = g) /\ (masterRx = NoFrame <=> g = h)
  <2>1. j # g => j \in 1 .. n BY <1>2
  <2>2. g # h => g \in 1 .. n BY <1>2
  <2>. QED BY <1>3, <1>4, <2>1, <2>2
<1>6. ASSUME asked' = asked
      PROVE  /\ \A a, b \in Nat : Part(s, n, a, b)' = Part(s, n, a, b)
             /\ \A k \in Nat : FrameNo(s, n, k)' = FrameNo(s, n, k)
  BY <1>6 DEF Part, FrameNo
<1>7. CASE requestSlaveResponse
  <2>1. /\ notify = 0 /\ masterRx = NoFrame /\ slot # NoFrame /\ slot' = NoFrame
        /\ masterRx' = slot /\ notify' = 1
        /\ UNCHANGED <<masterTx, hearing, inbox, asked, requests, events, rxQueue, txQueue,
                       scheduled, at, halted>>
    BY <1>7 DEF requestSlaveResponse, MasterFree, slaveVars
  <2>2. g = h /\ j = g + 1 /\ h < n BY <1>2, <1>5, <2>1
  <2>3. PICK i \in Nat : i = g + 1 /\ i = j /\ i # h BY <2>2
  <2>4. Counts(n, h, i, j) BY <1>1, <1>2, <2>2, <2>3 DEF Counts
  <2>5. Places(s, n, h, i, j)' BY <1>2, <1>3, <1>6, <2>1, <2>2, <2>3 DEF Places
  <2>6. Told(s)'
    <3>1. scheduled[s] /\ ~HasTX(events[s]) BY <1>1, <2>1 DEF Told
    <3>. QED BY <1>1, <2>1, <3>1 DEF Told, HasTX, OneTX
  <2>7. ASSUME NEW t \in Slaves PROVE Within(t, i)' /\ (~Dead(t)' => Silent(s, t)')
    <3>1. Within(t, i)'
      <4>1. Coming(t) = 0 /\ Coming(t)' \in {0, 1} BY <2>1 DEF Coming
      <4>2. Len(events[t]) + 0 <= Bound(requests - 1) + 1 + g BY <1>1, <4>1 DEF Within
      <4>3. Len(events[t]) \in Nat /\ Bound(requests - 1) \in Nat
        BY <1>1, BusTypes, Bounds DEF Basic
      <4>4. Len(events[t]) + Coming(t)' <= Bound(requests - 1) + 1 + i
        BY <2>3, <4>1, <4>2, <4>3
      <4>. QED BY <2>1, <4>4 DEF Within
    <3>2. (Dead(t)' <=> Dead(t)) /\ (Silent(s, t)' <=> Silent(s, t))
      BY <2>1 DEF Dead, Silent, NoneLeft, Clear, Elements, Owned
    <3>. QED BY <1>1, <3>1, <3>2
  <2>8. Speaks(s, n, h, i, j)' BY <1>1, <2>1, <2>4, <2>5, <2>6, <2>7 DEF Speaks, Counts
  <2>. QED BY <2>8 DEF SpeakingBy
<1>8. CASE notifySlave
  <2>1. /\ notify # 0 /\ UNCHANGED <<slaveVars, masterVars, slot>>
        /\ events' = [events EXCEPT ![notify] = pushEvent(@, Confirmation)]
        /\ notify' = IF notify = N THEN 0 ELSE notify + 1
        /\ notify \in Slaves /\ notify \in Nat /\ N \in Nat /\ notify <= N
    <3>1. notify \in 0 .. N /\ N \in Nat /\ notify # 0
      BY <1>8, BusTypes, BusAssumption DEF notifySlave
    <3>2. notify \in Slaves /\ notify \in Nat /\ notify <= N BY <3>1 DEF Slaves
    <3>. QED BY <1>8, <3>1, <3>2 DEF notifySlave
  <2>2. UNCHANGED <<masterTx, masterRx, hearing, inbox, asked, requests, rxQueue, txQueue,
                    scheduled, at, halted, slot>>
    BY <2>1 DEF slaveVars, masterVars
  <2>3. h < n BY <1>2, <1>3, <2>1
  <2>4. Places(s, n, h, g, j)' BY <1>3, <1>6, <2>2, <2>3 DEF Places
  <2>5. ASSUME NEW t \in Slaves, t # notify
        PROVE  events'[t] = events[t] /\ (notify' \in 1 .. t <=> notify \in 1 .. t)
    <3>1. events'[t] = events[t] BY <2>1, <2>5, BusTypes
    <3>2. t \in 1 .. N BY DEF Slaves
    <3>. QED BY <2>1, <2>5, <3>1, <3>2
  <2>6. /\ events'[notify] = pushEvent(events[notify], Confirmation)
        /\ notify' \notin 1 .. notify /\ notify \in 1 .. notify
        /\ Confirmation \in Event
        /\ events[notify] \in Seq(Event)
    <3>1. notify' \notin 1 .. notify /\ notify \in 1 .. notify BY <2>1 DEF Slaves
    <3>. QED BY <2>1, <3>1, BusTypes DEF Event
  <2>7. Told(s)'
    <3>1. CASE s = notify
      <4>1. slot = NoFrame /\ scheduled[s] /\ ~HasTX(events[s]) /\ OneTX(events[s])
        BY <1>1, <2>6, <3>1 DEF Told
      <4>2. OneTX(events'[s]) BY <2>6, <3>1, <4>1, PushTX
      <4>. QED BY <2>2, <2>6, <3>1, <4>1, <4>2 DEF Told, HasTX, OneTX
    <3>2. CASE s # notify
      <4>1. events'[s] = events[s] /\ (notify' \in 1 .. s <=> notify \in 1 .. s) BY <2>5, <3>2
      <4>. QED BY <1>1, <2>2, <4>1 DEF Told, HasTX, OneTX
    <3>. QED BY <3>1, <3>2
  <2>8. ASSUME NEW t \in Slaves PROVE Within(t, g)' /\ (~Dead(t)' => Silent(s, t)')
    <3>1. Within(t, g) /\ (~Dead(t) => Silent(s, t)) BY <1>1
    <3>2. Dead(t)' <=> Dead(t) BY <2>2 DEF Dead
    <3>3. CASE t # notify
      <4>1. events'[t] = events[t] /\ (notify' \in 1 .. t <=> notify \in 1 .. t) BY <2>5, <3>3
      <4>2. Within(t, g)' <=> Within(t, g) BY <2>2, <4>1 DEF Within, Coming
      <4>3. Silent(s, t)' <=> Silent(s, t)
        BY <2>2, <4>1 DEF Silent, NoneLeft, Clear, Elements, Owned
      <4>. QED BY <3>1, <3>2, <4>2, <4>3
    <3>4. CASE t = notify
      <4>1. Elements(events'[t]) \subseteq Elements(events[t]) \cup {Confirmation}
            /\ Len(events'[t]) <= Len(events[t]) + 1 /\ Len(events[t]) \in Nat
            /\ Len(events'[t]) \in Nat
        BY <2>6, <3>4, AddedElements
      <4>2. Coming(t)' = 0 /\ Coming(t) = 1 BY <2>6, <3>4 DEF Coming
      <4>3. Len(events[t]) + 1 <= Bound(requests - 1) + 1 + g BY <3>1, <4>2 DEF Within
      <4>4. Bound(requests - 1) \in Nat BY <1>1, BusTypes, Bounds DEF Basic
      <4>5. Len(events'[t]) + 0 <= Bound(requests - 1) + 1 + g
        <5>1. \A a, b, c \in Nat : a <= b + 1 /\ b + 1 <= c + 1 + g => a + 0 <= c + 1 + g
          OBVIOUS
        <5>. QED BY <4>1, <4>3, <4>4, <5>1
      <4>6. Within(t, g)' BY <2>2, <4>2, <4>5 DEF Within
      <4>7. ASSUME ~Dead(t)' PROVE Silent(s, t)'
        <5>1. Clear(t, events[t]) /\ Clear(t, rxQueue[t]) /\ (t = s \/ txQueue[t] = <<>>)
          BY <3>1, <3>2, <4>7 DEF Silent, NoneLeft
        <5>2. \A e \in Elements(events'[t]) : ~Owned(t, e) BY <4>1, <5>1 DEF Clear, Owned
        <5>. QED BY <2>2, <5>1, <5>2 DEF Silent, NoneLeft, Clear, Elements, Owned
      <4>. QED BY <4>6, <4>7
    <3>. QED BY <3>3, <3>4
  <2>9. Speaks(s, n, h, g, j)' BY <1>1, <2>2, <2>4, <2>7, <2>8 DEF Speaks, Counts
  <2>. QED BY <2>9 DEF SpeakingBy
<1>9. CASE receiveFromDriver
  <2>1. /\ masterRx # NoFrame /\ notify = 0 /\ masterRx' = NoFrame
        /\ UNCHANGED <<masterTx, asked, requests, rxQueue, txQueue, scheduled, at, halted, slot,
                       events, notify>>
    BY <1>9 DEF receiveFromDriver, slaveVars, netVars
  <2>2. g = h + 1 /\ h < n /\ masterRx = FrameNo(s, n, h + 1) /\ inbox = <<>>
        /\ (h = 0 \/ hearing = Part(s, n, 0, h))
    BY <1>2, <1>3, <1>5, <2>1
  <2>3. Heard(masterRx) = Part(s, n, 0, h + 1)
    <3>1. masterRx.k = h + 1 BY <2>2 DEF FrameNo
    <3>2. CASE h = 0
      <4>1. Heard(masterRx) = <<FrameNo(s, n, 1)>> BY <2>2, <3>1, <3>2 DEF Heard
      <4>2. Part(s, n, 0, 1) = <<FrameNo(s, n, 1)>>
        <5>1. Part(s, n, 0, 1) = [k \in 1 .. 1 |-> FrameNo(s, n, k)] BY DEF Part
        <5>. QED BY <5>1
      <4>. QED BY <3>2, <4>1, <4>2
    <3>3. CASE h # 0
      <4>1. hearing = Part(s, n, 0, h) /\ h \in 0 .. n /\ 0 \in 0 .. n /\ h \in 0 .. n
        BY <1>2, <2>2, <3>3
      <4>2. Len(hearing) = h - 0 BY <1>1, <4>1, Parts
      <4>3. Len(hearing) = h /\ hearing # <<>> BY <3>3, <4>2
      <4>4. Extends(masterRx) BY <3>1, <4>3 DEF Extends
      <4>5. Heard(masterRx) = Append(Part(s, n, 0, h), FrameNo(s, n, h + 1))
        BY <2>2, <3>1, <3>3, <4>1, <4>4 DEF Heard
      <4>. QED BY <1>1, <2>2, <4>1, <4>5, PartGrows
    <3>. QED BY <3>2, <3>3
  <2>4. Whole(Heard(masterRx)) <=> h + 1 = n
    <3>1. Part(s, n, 0, h + 1)[1] = FrameNo(s, n, 1) BY DEF Part
    <3>2. Len(Part(s, n, 0, h + 1)) = h + 1 /\ Part(s, n, 0, h + 1) # <<>>
      <4>1. 0 \in 0 .. n /\ h + 1 \in 0 .. n BY <1>2, <2>2
      <4>2. PICK i \in 0 .. n : i = h + 1 BY <4>1
      <4>3. 0 < i /\ i - 0 = i BY <4>2
      <4>4. Len(Part(s, n, 0, i)) = i - 0 BY <1>1, <4>1, Parts
      <4>5. Part(s, n, 0, i) # <<>> BY <1>1, <4>1, <4>3, Parts
      <4>. QED BY <4>2, <4>3, <4>4, <4>5
    <3>3. FrameNo(s, n, 1).n = n BY DEF FrameNo
    <3>. QED BY <2>3, <3>1, <3>2, <3>3 DEF Whole
  <2>5. IF h + 1 = n THEN inbox' = <<Part(s, n, 0, n)>>
        ELSE inbox' = <<>> /\ hearing' = Part(s, n, 0, h + 1)
    <3>1. CASE h + 1 = n
      <4>1. inbox' = deliverMessage(<<>>, Part(s, n, 0, n))
        BY <1>9, <2>2, <2>3, <2>4, <3>1 DEF receiveFromDriver
      <4>2. Len(<<>>) < RxQueueSize BY BusAssumption
      <4>3. Append(<<>>, Part(s, n, 0, n)) = <<Part(s, n, 0, n)>> OBVIOUS
      <4>. QED BY <3>1, <4>1, <4>2, <4>3 DEF deliverMessage
    <3>2. CASE h + 1 # n
      BY <1>9, <2>2, <2>3, <2>4, <3>2 DEF receiveFromDriver
    <3>. QED BY <3>1, <3>2
  <2>6. Counts(n, g, g, j) BY <1>1, <1>2 DEF Counts
  <2>7. Places(s, n, g, g, j)' BY <1>3, <1>6, <2>1, <2>2, <2>5 DEF Places
  <2>8. Told(s)' BY <1>1, <2>1 DEF Told, HasTX, OneTX
  <2>9. ASSUME NEW t \in Slaves PROVE Within(t, g)' /\ (~Dead(t)' => Silent(s, t)')
    <3>1. /\ (Within(t, g)' <=> Within(t, g)) /\ (Dead(t)' <=> Dead(t))
          /\ (Silent(s, t)' <=> Silent(s, t))
      BY <2>1 DEF Within, Coming, Dead, Silent, NoneLeft, Clear, Elements, Owned
    <3>. QED BY <1>1, <3>1
  <2>10. Speaks(s, n, g, g, j)' BY <1>1, <2>1, <2>6, <2>7, <2>8, <2>9 DEF Speaks, Counts
  <2>. QED BY <2>10 DEF SpeakingBy
<1>10. CASE Answered
  <2>1. inbox # <<>> /\ inbox' = Tail(inbox)
        /\ UNCHANGED <<slaveVars, netVars, masterTx, masterRx, requests>>
    BY <1>10 DEF Answered
  <2>2. h = n /\ notify = 0 /\ inbox = <<Part(s, n, 0, n)>> BY <1>2, <1>3, <2>1
  <2>3. g = h /\ j = n /\ slot = NoFrame /\ masterRx = NoFrame BY <1>2, <1>5, <2>2
  <2>4. inbox' = <<>> BY <2>1, <2>2
  <2>5. txQueue[s] = <<>>
    <3>1. n \in 0 .. n /\ n \in n .. n OBVIOUS
    <3>. QED BY <1>1, <1>3, <2>3, <3>1, Parts
  <2>. QED BY <1>10, <2>1, <2>2, <2>3, <2>4, <2>5, SpeaksEnds
<1>11. ~Skipped
  <2>. SUFFICES ASSUME Skipped PROVE FALSE OBVIOUS
  <2>1. inbox # <<>> BY DEF Skipped
  <2>2. inbox = <<Part(s, n, 0, n)>> BY <1>2, <1>3, <2>1
  <2>3. Head(inbox)[1] = FrameNo(s, n, 1)
    <3>1. n \in Nat \ {0} BY <1>2
    <3>2. Part(s, n, 0, n)[1] = FrameNo(s, n, 1) BY <1>1, <3>1, PartWhole
    <3>. QED BY <2>2, <3>2
  <2>. QED BY <2>3 DEF Skipped, Matches, FrameNo
<1>12. CASE TimesOut \/ Expires
  <2>1. Quiet /\ UNCHANGED <<slaveVars, netVars, masterTx, masterRx, inbox, requests>>
    BY <1>12 DEF TimesOut, Expires, Unicast
  <2>2. slot = NoFrame /\ masterRx = NoFrame /\ notify = 0 /\ inbox' = <<>>
        /\ (~Dead(s) => txQueue[s] = <<>>)
    BY <2>1 DEF Quiet, Dead
  <2>. QED BY <2>1, <2>2, SpeaksEnds
<1>13. ~writeMessage /\ ~\E r \in Requests : Ask(r) BY <1>1 DEF writeMessage, Ask
<1>. QED BY <1>7, <1>8, <1>9, <1>10, <1>11, <1>12, <1>13 DEF Master

\* An answer is what the one speaker said.
LEMMA AnswerWhole ==
    ASSUME BusInv, Answered
    PROVE  HeardInv'
<1>1. inbox # <<>> /\ outcome' = [end |-> "answer", to |-> asked.id, heard |-> Head(inbox)]
  BY DEF Answered
<1>2. PICK s \in Slaves : SpeakingBy(s) BY <1>1 DEF BusInv, Still
<1>3. PICK n \in Nat, h \in Nat, g \in Nat, j \in Nat : Speaks(s, n, h, g, j)
  BY <1>2 DEF SpeakingBy
<1>4. h <= n /\ n \in Nat \ {0} /\ asked # Nothing BY <1>3, BusAssumption DEF Speaks, Counts
<1>5. inbox = <<Part(s, n, 0, n)>> BY <1>1, <1>3, <1>4 DEF Speaks, Places
<1>6. Head(inbox) = Part(s, n, 0, n) BY <1>5
<1>7. OneSpeaker(Head(inbox)) /\ Head(inbox)[1] = FrameNo(s, n, 1)
  BY <1>4, <1>6, PartWhole DEF BusInv
<1>8. Head(inbox)[1].to = asked.id BY <1>7 DEF FrameNo
<1>. DEFINE heard == Head(inbox)
<1>9. outcome'.heard = heard /\ outcome'.to = asked.id BY <1>1
<1>. HIDE DEF heard
<1>10. OneSpeaker(heard) /\ heard[1].to = asked.id BY <1>7, <1>8 DEF heard
<1>. QED BY <1>9, <1>10 DEF HeardInv, OneSpeaker

LEMMA HeardStep ==
    ASSUME BusInv, Next
    PROVE  HeardInv'
<1>1. CASE UNCHANGED outcome BY <1>1 DEF BusInv, HeardInv, OneSpeaker
<1>2. CASE TimesOut \/ \E r \in Requests : Ask(r)
  <2>1. outcome' = [end |-> "none"] \/ outcome' = [end |-> "timeout", to |-> asked.id]
    BY <1>2 DEF TimesOut, Ask
  <2>2. outcome'.end # "answer"
    <3>1. CASE outcome' = [end |-> "none"] BY <3>1
    <3>2. CASE outcome' = [end |-> "timeout", to |-> asked.id] BY <3>2
    <3>. QED BY <2>1, <3>1, <3>2
  <2>. QED BY <2>2 DEF HeardInv
<1>3. UNCHANGED outcome \/ TimesOut \/ Answered \/ \E r \in Requests : Ask(r)
  <2>1. \A s \in Slaves : Slave(s) \/ Run(s) \/ Stop(s) => UNCHANGED outcome
    BY SlaveFrame DEF BusInv
  <2>2. requestSlaveResponse \/ notifySlave \/ writeMessage \/ receiveFromDriver
           \/ Skipped \/ Expires => UNCHANGED outcome
    BY DEF requestSlaveResponse, notifySlave, writeMessage, receiveFromDriver, Skipped, Expires,
           masterVars
  <2>. QED BY <2>1, <2>2 DEF Next, Master
<1>. QED BY <1>1, <1>2, <1>3, AnswerWhole

\* What is under way stays so while nothing happens.
LEMMA StillSame == ASSUME UNCHANGED vars PROVE Still => Still'
<1>1. ASSUME NEW s \in Slaves
      PROVE  /\ (Dead(s)' <=> Dead(s)) /\ (NoneLeft(s)' <=> NoneLeft(s))
             /\ (Expecting(s)' <=> Expecting(s))
  BY DEF vars, Dead, NoneLeft, Expecting, Clear, Elements, Owned, AskedLast
<1>2. Room' = Room BY <1>1 DEF vars, Room
<1>. QED BY <1>1, <1>2 DEF vars, Still

LEMMA SpeaksSame ==
    ASSUME UNCHANGED vars, NEW s \in Slaves, SpeakingBy(s)
    PROVE  SpeakingBy(s)'
<1>1. PICK n \in Nat, h \in Nat, g \in Nat, j \in Nat : Speaks(s, n, h, g, j)
  BY DEF SpeakingBy
<1>2. Told(s)' <=> Told(s) BY DEF vars, Told, HasTX, OneTX
<1>3. Places(s, n, h, g, j)' <=> Places(s, n, h, g, j) BY DEF vars, Places, Part, FrameNo
<1>4. ASSUME NEW t \in Slaves
      PROVE  /\ (Dead(t)' <=> Dead(t)) /\ (Within(t, g)' <=> Within(t, g))
             /\ (Silent(s, t)' <=> Silent(s, t))
  BY DEF vars, Dead, Within, Coming, Silent, NoneLeft, Clear, Elements, Owned
<1>5. Speaks(s, n, h, g, j)' BY <1>1, <1>2, <1>3, <1>4 DEF vars, Speaks, Counts
<1>. QED BY <1>5 DEF SpeakingBy

LEMMA BusStep ==
    ASSUME Unicast, BusInv, [Next]_vars
    PROVE  BusInv'
<1>1. TypeOK /\ Basic /\ TypeOK' BY TypeStep DEF BusInv
<1>2. CASE UNCHANGED vars
  <2>1. Basic' BY <1>1, <1>2 DEF vars, Basic, Elements, Known
  <2>2. HeardInv' BY <1>2 DEF vars, BusInv, HeardInv, OneSpeaker
  <2>3. Still => Still' BY <1>2, StillSame
  <2>4. \A s \in Slaves : SpeakingBy(s) => SpeakingBy(s)' BY <1>2, SpeaksSame
  <2>. QED BY <1>1, <2>1, <2>2, <2>3, <2>4 DEF BusInv
<1>3. CASE Next
  <2>1. HeardInv' BY <1>3, HeardStep
  <2>2. inbox # <<>> => masterTx = <<>>
    <3>1. \A s \in Slaves : SpeakingBy(s) => masterTx = <<>> BY DEF SpeakingBy, Speaks
    <3>. QED BY <3>1 DEF BusInv, Still
  <2>3. Basic'
    BY <1>1, <1>3, <2>2, BasicSlave, BasicMaster DEF Next, Unicast
  <2>4. ASSUME Still PROVE Still' \/ \E s \in Slaves : SpeakingBy(s)'
    BY <1>1, <1>3, <2>4, StillSlave, StillMaster DEF Next
  <2>5. ASSUME NEW s \in Slaves, SpeakingBy(s) PROVE SpeakingBy(s)' \/ Still'
    <3>1. PICK n \in Nat, h \in Nat, g \in Nat, j \in Nat : Speaks(s, n, h, g, j)
      BY <2>5 DEF SpeakingBy
    <3>. QED BY <1>1, <1>3, <3>1, SpeaksSlave, SpeaksMaster DEF Next
  <2>6. Still \/ \E s \in Slaves : SpeakingBy(s) BY DEF BusInv
  <2>7. Still' \/ \E s \in Slaves : SpeakingBy(s)' BY <2>4, <2>5, <2>6
  <2>. QED BY <1>1, <2>1, <2>3, <2>7 DEF BusInv
<1>. QED BY <1>2, <1>3

LEMMA BusAlways == ASSUME Unicast PROVE Spec => []BusInv
<1>1. Init => BusInv BY TypeInit, BusStart DEF BusInv
<1>2. BusInv /\ [Next]_vars => BusInv' BY BusStep
<1>. QED BY <1>1, <1>2, PTL DEF Spec

LEMMA BusGives == BusInv => WholeAnswers /\ AnswersMatch
<1>. SUFFICES ASSUME BusInv PROVE WholeAnswers /\ AnswersMatch OBVIOUS
<1>1. HeardInv BY DEF BusInv
<1>2. inbox = <<>> \/ \E f : OneSpeaker(f) /\ inbox = <<f>>
  <2>1. CASE Still BY <2>1 DEF Still
  <2>2. CASE \E s \in Slaves : SpeakingBy(s)
    <3>1. PICK s \in Slaves, n \in Nat, h \in Nat, g \in Nat, j \in Nat : Speaks(s, n, h, g, j)
      BY <2>2 DEF SpeakingBy
    <3>2. h <= n /\ n \in Nat \ {0} /\ asked # Nothing BY <3>1, BusAssumption DEF Speaks, Counts
    <3>3. inbox = <<>> \/ inbox = <<Part(s, n, 0, n)>> BY <3>1, <3>2 DEF Speaks, Places
    <3>4. OneSpeaker(Part(s, n, 0, n)) BY <3>2, PartWhole DEF BusInv
    <3>. QED BY <3>3, <3>4
  <2>. QED BY <2>1, <2>2 DEF BusInv
<1>3. \A i \in DOMAIN inbox : OneSpeaker(inbox[i])
  <2>1. CASE inbox = <<>> BY <2>1
  <2>2. CASE \E f : OneSpeaker(f) /\ inbox = <<f>>
    <3>1. PICK f : OneSpeaker(f) /\ inbox = <<f>> BY <2>2
    <3>2. \A i \in DOMAIN <<f>> : <<f>>[i] = f OBVIOUS
    <3>. QED BY <3>1, <3>2
  <2>. QED BY <1>2, <2>1, <2>2
<1>. QED BY <1>1, <1>3 DEF WholeAnswers, AnswersMatch, HeardInv

\* With requests to one node each, NADs that cannot meet and a master that gives
\* up only when nothing can come any more, no message it hears is put together
\* from frames of two nodes or of two messages (preset.go:137-138), however many
\* nodes there are, however long their answers and whatever their queues drop.
THEOREM WholeAnswersSafe == ASSUME Unicast PROVE Spec => []WholeAnswers
BY BusAlways, BusGives, PTL

\* Under the same premises the answer a request ends with was given to that
\* request and not left over from an earlier one (master.go:83-112).
THEOREM AnswersMatchSafe == ASSUME Unicast PROVE Spec => []AnswersMatch
BY BusAlways, BusGives, PTL

-----------------------------------------------------------------------------
(***************************************************************************)
(* NotGivenUp.  A request that a node was to answer is either on its way   *)
(* to the node, which cannot lose it, or being answered.  It cannot lose   *)
(* it because requests reach it in the order of their numbers, so that at  *)
(* most as many wait in a queue as were made.                              *)
(***************************************************************************)

Ids(s) ==
    /\ \A i \in DOMAIN rxQueue[s] : rxQueue[s][i].id >= i
    /\ \A d \in Elements(rxQueue[s]), e \in Elements(events[s]) : e # Confirmation => d.id < e.id
    /\ \A i, k \in DOMAIN events[s] :
          i < k /\ events[s][i] # Confirmation /\ events[s][k] # Confirmation
             => events[s][i].id < events[s][k].id
    /\ masterTx # <<>> =>
          \A e \in Elements(rxQueue[s]) \cup Elements(events[s]) :
             e # Confirmation => e.id < requests

\* The request is before s, which has not been stopped and will answer it.
Wanted(s) ==
    /\ masterTx # <<>> \/ Expecting(s)
    /\ ForMe(s, asked.req) /\ ResponseFrames(s, asked.req) \in 1 .. TxQueueSize
Answers(s) == ~halted[s] /\ (SpeakingBy(s) \/ (Still /\ Wanted(s)))

DueInv ==
    /\ \A s \in Slaves : Ids(s) /\ (at[s] = "gone" => halted[s])
    /\ due /\ asked # Nothing => \E s \in Slaves : Answers(s)
    /\ NotGivenUp

\* A message keeps or lowers its place in rxQueue; a new one has a higher number
\* than all before it.
LEMMA IdsSlave ==
    ASSUME TypeOK, Basic, NEW s \in Slaves, Ids(s), Slave(s) \/ Run(s) \/ Stop(s)
    PROVE  Ids(s)'
<1>1. /\ events[s] \in Seq(Event) /\ rxQueue[s] \in Seq(Message)
      /\ UNCHANGED <<masterTx, requests>>
  BY BusTypes, SlaveFrame
<1>2. /\ Elements(events'[s]) \subseteq Elements(events[s])
      /\ Elements(rxQueue'[s]) \subseteq Elements(rxQueue[s]) \cup Elements(events[s])
  BY SlaveQueues
<1>. DEFINE q == events'[s]
            r == rxQueue'[s]
            Rising == \A i \in DOMAIN r : r[i].id >= i
            Before == \A d \in Elements(r), e \in Elements(q) : e # Confirmation => d.id < e.id
            Sorted == \A i, k \in DOMAIN q :
                         i < k /\ q[i] # Confirmation /\ q[k] # Confirmation => q[i].id < q[k].id
<1>3. masterTx' # <<>> =>
          \A e \in Elements(r) \cup Elements(q) : e # Confirmation => e.id < requests'
  BY <1>1, <1>2 DEF Ids
<1>4. ASSUME events[s] # <<>>, q = Tail(events[s])
      PROVE  /\ Sorted
             /\ Head(events[s]) # Confirmation =>
                   \A e \in Elements(q) : e # Confirmation => Head(events[s]).id < e.id
  <2>1. /\ Head(events[s]) = events[s][1] /\ Len(events[s]) \in Nat /\ Len(events[s]) >= 1
        /\ DOMAIN events[s] = 1 .. Len(events[s]) /\ DOMAIN q = 1 .. Len(events[s]) - 1
        /\ \A i \in 1 .. Len(events[s]) - 1 : q[i] = events[s][i + 1]
    BY <1>1, <1>4, TailOf
  <2>. HIDE DEF q
  <2>2. \A i \in DOMAIN q : i \in Nat /\ i + 1 \in DOMAIN events[s] /\ q[i] = events[s][i + 1]
                            /\ 1 < i + 1 /\ 1 \in DOMAIN events[s]
    BY <2>1
  <2>3. ASSUME NEW i \in DOMAIN q, NEW k \in DOMAIN q, i < k, q[i] # Confirmation,
               q[k] # Confirmation
        PROVE  q[i].id < q[k].id
    <3>1. i + 1 < k + 1 BY <2>2, <2>3
    <3>. QED BY <2>2, <2>3, <3>1 DEF Ids
  <2>4. ASSUME Head(events[s]) # Confirmation, NEW i \in DOMAIN q, q[i] # Confirmation
        PROVE  Head(events[s]).id < q[i].id
    BY <2>1, <2>2, <2>4 DEF Ids
  <2>. QED BY <2>3, <2>4 DEF Elements
<1>5. Rising /\ Before /\ Sorted
  <2>1. CASE UNCHANGED <<events, rxQueue>> BY <2>1 DEF Ids
  <2>2. CASE /\ events[s] # <<>> /\ q = Tail(events[s]) /\ r = rxQueue[s]
    BY <1>2, <1>4, <2>2 DEF Ids
  <2>3. CASE /\ events[s] # <<>> /\ q = Tail(events[s]) /\ Head(events[s]) # Confirmation
             /\ r = Append(rxQueue[s], Head(events[s]))
    <3>. DEFINE m == Head(events[s])
                p == rxQueue[s]
    <3>1. m \in Elements(events[s]) /\ m \in Event BY <1>1, <2>3, TailOf
    <3>2. m \in Message BY <2>3, <3>1 DEF Event
    <3>3. m.id \in Nat /\ m.id >= 1
      <4>1. Known(m) BY <3>1 DEF Basic
      <4>. HIDE DEF m
      <4>2. m.id \in Nat BY <3>2 DEF Message
      <4>3. requests \in Nat BY BusTypes
      <4>. QED BY <2>3, <3>2, <4>1, <4>2, <4>3, MessageIsNoConfirmation DEF Known
    <3>4. /\ DOMAIN r = 1 .. Len(p) + 1 /\ DOMAIN p = 1 .. Len(p) /\ Len(p) \in Nat
          /\ \A i \in 1 .. Len(p) : r[i] = p[i]
          /\ r[Len(p) + 1] = m
          /\ Elements(r) = Elements(p) \cup {m}
      BY <1>1, <2>3, <3>2, AppendTo
    <3>. HIDE DEF m, p, q, r
    <3>5. Before
      <4>1. \A e \in Elements(q) : e # Confirmation => m.id < e.id BY <1>4, <2>3 DEF m
      <4>2. \A d \in Elements(p), e \in Elements(q) : e # Confirmation => d.id < e.id
        BY <1>2 DEF Ids, p, q
      <4>. QED BY <3>4, <4>1, <4>2
    <3>6. m.id >= Len(p) + 1
      <4>1. CASE Len(p) = 0 BY <3>3, <4>1
      <4>2. CASE Len(p) # 0
        <5>1. Len(p) \in DOMAIN p BY <3>4, <4>2
        <5>2. p[Len(p)] \in Elements(p) BY <5>1 DEF Elements
        <5>3. p[Len(p)].id >= Len(p) /\ p[Len(p)].id < m.id
          BY <2>3, <3>1, <5>1, <5>2 DEF Ids, p, m
        <5>4. p[Len(p)] \in Message BY <1>1, <5>1 DEF p
        <5>5. p[Len(p)].id \in Nat BY <5>4 DEF Message
        <5>. QED BY <3>3, <3>4, <5>3, <5>5
      <4>. QED BY <4>1, <4>2
    <3>7. Rising
      <4>. SUFFICES ASSUME NEW i \in 1 .. Len(p) + 1 PROVE r[i].id >= i BY <3>4
      <4>1. CASE i = Len(p) + 1 BY <3>4, <3>6, <4>1
      <4>2. CASE i \in 1 .. Len(p)
        <5>1. p[i].id >= i BY <3>4, <4>2 DEF Ids, p
        <5>. QED BY <3>4, <4>2, <5>1
      <4>. QED BY <3>4, <4>1, <4>2
    <3>. QED BY <1>4, <2>3, <3>5, <3>7
  <2>4. CASE q = events[s] /\ rxQueue[s] # <<>> /\ r = Tail(rxQueue[s])
    <3>1. /\ DOMAIN rxQueue[s] = 1 .. Len(rxQueue[s]) /\ Len(rxQueue[s]) \in Nat
          /\ DOMAIN r = 1 .. Len(rxQueue[s]) - 1
          /\ \A i \in 1 .. Len(rxQueue[s]) - 1 : r[i] = rxQueue[s][i + 1]
          /\ Elements(r) \subseteq Elements(rxQueue[s])
      BY <1>1, <2>4, TailOf
    <3>2. ASSUME NEW i \in DOMAIN r PROVE r[i].id >= i
      <4>. HIDE DEF r
      <4>1. i + 1 \in DOMAIN rxQueue[s] /\ r[i] = rxQueue[s][i + 1] /\ i \in Nat BY <3>1
      <4>2. r[i].id >= i + 1 BY <4>1 DEF Ids
      <4>3. r[i] \in Message BY <1>1, <4>1
      <4>4. r[i].id \in Nat BY <4>3 DEF Message
      <4>. QED BY <4>1, <4>2, <4>4
    <3>3. Before BY <2>4, <3>1 DEF Ids
    <3>4. Sorted BY <2>4 DEF Ids
    <3>. QED BY <3>2, <3>3, <3>4
  <2>. HIDE DEF Rising, Before, Sorted
  <2>. QED BY <2>1, <2>2, <2>3, <2>4, SlaveMoves DEF deliverMessage
<1>6. Elements(rxQueue[s])' = Elements(r) /\ Elements(events[s])' = Elements(q) BY DEF Elements
<1>. QED BY <1>3, <1>5, <1>6 DEF Ids

\* A request gets the number after all that came before it.
LEMMA IdsMaster ==
    ASSUME TypeOK, Basic, NEW s \in Slaves, Ids(s),
           Master \/ TimesOut \/ Expires \/ \E r \in Requests : Ask(r)
    PROVE  Ids(s)'
<1>1. events[s] \in Seq(Event) /\ rxQueue[s] \in Seq(Message) /\ requests \in Nat
      /\ rxQueue' = rxQueue
  BY BusTypes DEF Master, TimesOut, Expires, Ask, writeMessage, requestSlaveResponse, notifySlave,
                  receiveFromDriver, Answered, Skipped, slaveVars
<1>. DEFINE q == events'[s]
            Before == \A d \in Elements(rxQueue[s]), e \in Elements(q) :
                         e # Confirmation => d.id < e.id
            Sorted == \A i, k \in DOMAIN q :
                         i < k /\ q[i] # Confirmation /\ q[k] # Confirmation => q[i].id < q[k].id
            Fresh == masterTx' # <<>> =>
                        \A e \in Elements(rxQueue[s]) \cup Elements(q) :
                           e # Confirmation => e.id < requests'
<1>2. Before /\ Sorted /\ Fresh
  <2>1. CASE UNCHANGED <<masterTx, requests, events>> BY <2>1 DEF Ids
  <2>2. CASE TimesOut \/ Answered
    <3>1. UNCHANGED <<masterTx, requests, events>> BY <2>2 DEF TimesOut, Answered, netVars
    <3>. QED BY <3>1 DEF Ids
  <2>3. CASE \E r \in Requests : Ask(r)
    <3>1. requests' = requests + 1 /\ UNCHANGED events BY <2>3 DEF Ask, netVars
    <3>2. \A e \in Elements(rxQueue[s]) \cup Elements(events[s]) : Known(e) BY DEF Basic
    <3>3. \A e \in Elements(rxQueue[s]) \cup Elements(events[s]) :
             e # Confirmation => e.id < requests'
      BY <1>1, <3>1, <3>2 DEF Known
    <3>. QED BY <3>1, <3>3 DEF Ids
  <2>4. ASSUME NEW e \in Event, q = Append(events[s], e),
               e # Confirmation =>
                  \A d \in Elements(rxQueue[s]) \cup Elements(events[s]) :
                     d # Confirmation => d.id < e.id
        PROVE  Before /\ Sorted
    <3>1. /\ DOMAIN q = 1 .. Len(events[s]) + 1 /\ DOMAIN events[s] = 1 .. Len(events[s])
          /\ Len(events[s]) \in Nat
          /\ \A i \in 1 .. Len(events[s]) : q[i] = events[s][i]
          /\ q[Len(events[s]) + 1] = e
          /\ Elements(q) = Elements(events[s]) \cup {e}
      BY <1>1, <2>4, AppendTo
    <3>. HIDE DEF q
    <3>2. \A d \in Elements(rxQueue[s]) : d # Confirmation
      <4>1. \A i \in DOMAIN rxQueue[s] : rxQueue[s][i] \in Message BY <1>1
      <4>. QED BY <4>1, MessageIsNoConfirmation DEF Elements
    <3>3. Before BY <2>4, <3>1, <3>2 DEF Ids
    <3>4. ASSUME NEW i \in DOMAIN q, NEW k \in DOMAIN q, i < k, q[i] # Confirmation,
                 q[k] # Confirmation
          PROVE  q[i].id < q[k].id
      <4>1. i \in 1 .. Len(events[s]) BY <3>1, <3>4
      <4>2. q[i] = events[s][i] /\ events[s][i] \in Elements(events[s])
        BY <3>1, <4>1 DEF Elements
      <4>3. CASE k \in 1 .. Len(events[s]) BY <3>1, <3>4, <4>1, <4>2, <4>3 DEF Ids
      <4>4. CASE k = Len(events[s]) + 1 BY <2>4, <3>1, <3>4, <4>2, <4>4
      <4>. QED BY <3>1, <4>3, <4>4
    <3>. QED BY <3>3, <3>4
  <2>5. ASSUME q = events[s] PROVE Before /\ Sorted BY <2>5 DEF Ids
  <2>6. CASE writeMessage
    <3>1. masterTx # <<>> /\ q = pushEvent(events[s], Head(masterTx)) /\ masterTx' = Tail(masterTx)
      BY <2>6 DEF writeMessage
    <3>2. masterTx = <<asked>> /\ asked # Nothing /\ asked.id = requests BY <3>1 DEF Basic
    <3>3. Head(masterTx) = asked /\ masterTx' = <<>> BY <3>1, <3>2
    <3>4. asked \in Event BY <3>2, BusTypes DEF Event
    <3>5. \A d \in Elements(rxQueue[s]) \cup Elements(events[s]) :
             d # Confirmation => d.id < asked.id
      BY <3>1, <3>2 DEF Ids
    <3>6. q = Append(events[s], asked) \/ q = events[s] BY <3>1, <3>3 DEF pushEvent
    <3>. HIDE DEF q, Before, Sorted
    <3>. QED BY <2>4, <2>5, <3>3, <3>4, <3>5, <3>6
  <2>7. CASE notifySlave
    <3>1. UNCHANGED <<masterTx, requests>> BY <2>7 DEF notifySlave, masterVars
    <3>2. q = events[s] \/ q = pushEvent(events[s], Confirmation)
      BY <2>7, BusTypes DEF notifySlave
    <3>3. Confirmation \in Event BY DEF Event
    <3>4. q = events[s] \/ q = Append(events[s], Confirmation) BY <3>2 DEF pushEvent
    <3>5. Elements(q) \subseteq Elements(events[s]) \cup {Confirmation}
      <4>1. CASE q = events[s] BY <4>1
      <4>2. CASE q = Append(events[s], Confirmation)
        <5>. HIDE DEF q
        <5>. QED BY <1>1, <3>3, <4>2, AppendTo
      <4>. QED BY <3>4, <4>1, <4>2
    <3>6. Fresh BY <3>1, <3>5 DEF Ids
    <3>. HIDE DEF q, Before, Sorted, Fresh
    <3>. QED BY <2>4, <2>5, <3>3, <3>4, <3>6
  <2>8. UNCHANGED <<masterTx, requests, events>>
        \/ writeMessage \/ notifySlave \/ TimesOut \/ Answered \/ \E r \in Requests : Ask(r)
    BY DEF Master, Expires, requestSlaveResponse, receiveFromDriver, Skipped, netVars
  <2>. HIDE DEF Before, Sorted, Fresh
  <2>. QED BY <2>1, <2>2, <2>3, <2>6, <2>7, <2>8
<1>3. Elements(rxQueue[s])' = Elements(rxQueue[s]) /\ Elements(events[s])' = Elements(q)
  BY <1>1 DEF Elements
<1>4. \A i \in DOMAIN rxQueue'[s] : rxQueue'[s][i].id >= i BY <1>1 DEF Ids
<1>. QED BY <1>1, <1>2, <1>3, <1>4 DEF Ids

\* The one who is to answer keeps the master from giving up.
LEMMA NotQuiet ==
    ASSUME TypeOK, NEW s \in Slaves, ~Dead(s), asked # Nothing,
           SpeakingBy(s) \/ Expecting(s) \/ masterTx # <<>>
    PROVE  ~Quiet
<1>. SUFFICES ASSUME Quiet PROVE FALSE OBVIOUS
<1>1. masterTx = <<>> /\ masterRx = NoFrame /\ slot = NoFrame /\ inbox = <<>>
      /\ events[s] = <<>> /\ rxQueue[s] = <<>> /\ txQueue[s] = <<>>
  BY DEF Quiet, Dead
<1>2. SpeakingBy(s) BY <1>1 DEF Expecting, AskedLast
<1>3. PICK n \in Nat, h \in Nat, g \in Nat, j \in Nat : Speaks(s, n, h, g, j)
  BY <1>2 DEF SpeakingBy
<1>4. /\ txQueue[s] = Part(s, n, j, n)
      /\ slot = (IF j = g THEN NoFrame ELSE FrameNo(s, n, j))
      /\ masterRx = (IF g = h THEN NoFrame ELSE FrameNo(s, n, g))
      /\ h = n => inbox = <<Part(s, n, 0, n)>>
      /\ h <= g /\ g <= j /\ j <= n
  BY <1>3 DEF Speaks, Places, Counts
<1>5. j = n
  <2>1. ASSUME j < n PROVE Part(s, n, j, n) # <<>>
    <3>1. j \in 0 .. n /\ n \in j .. n BY <2>1
    <3>. QED BY <2>1, <3>1, Parts
  <2>. QED BY <1>1, <1>4, <2>1
<1>6. g = j
  <2>1. g # j => j # 0 BY <1>4
  <2>. QED BY <1>1, <1>4, <2>1, NumberedFrame
<1>7. g = h
  <2>1. g # h => g # 0 BY <1>4
  <2>. QED BY <1>1, <1>4, <2>1, NumberedFrame
<1>8. h # n BY <1>1, <1>4
<1>. QED BY <1>5, <1>6, <1>7, <1>8

\* A slave's steps bring the one who is to answer nearer to it.
LEMMA AnswersSlave ==
    ASSUME Unicast, Roomy, TypeOK, TypeOK', Basic, NEW s \in Slaves, Ids(s),
           at[s] = "gone" => halted[s], asked # Nothing, Answers(s),
           NEW t \in Slaves, Slave(t) \/ Run(t)
    PROVE  Answers(s)'
<1>1. /\ UNCHANGED <<masterTx, asked, requests>> /\ halted' = halted
      /\ \A u \in Slaves : u # t =>
           nad'[u] = nad[u] /\ events'[u] = events[u] /\ rxQueue'[u] = rxQueue[u]
      /\ \A u \in Slaves : Dead(u) => Dead(u)'
  <2>1. halted' = halted
    BY DEF Slave, Run, Exit, Tick, TakesConfirmation, IgnoresConfirmation, TakesRequest,
           ReadsNothing, AppIdle, AppIgnores, AppHandles, Reads
  <2>. QED BY <2>1, SlaveFrame
<1>2. ~halted[s] /\ ~Dead(s) BY DEF Answers, Dead
<1>3. ~Dead(s)'
  <2>1. halted'[s] = FALSE BY <1>1, <1>2 DEF TypeOK, SlaveTypes
  <2>2. at'[s] # "gone"
    <3>1. CASE Exit(t) \* only a stopped slave
      BY <1>2, <3>1 DEF Exit, TypeOK, SlaveTypes, Dead
    <3>2. CASE ~Exit(t)
      BY <1>2, <3>2 DEF Slave, Run, Tick, TakesConfirmation, IgnoresConfirmation, TakesRequest,
           ReadsNothing, AppIdle, AppIgnores, AppHandles, Reads, Dead, TypeOK, SlaveTypes
    <3>. QED BY <3>1, <3>2
  <2>. QED BY <2>1, <2>2 DEF Dead
<1>4. CASE SpeakingBy(s)
  <2>1. PICK n \in Nat, h \in Nat, g \in Nat, j \in Nat : Speaks(s, n, h, g, j)
    BY <1>4 DEF SpeakingBy
  <2>2. SpeakingBy(s)' BY <2>1, SpeaksSlave
  <2>. QED BY <1>1, <1>2, <2>2 DEF Answers
<1>5. CASE Still /\ Wanted(s)
  <2>1. Still' \/ SpeakingBy(t)' BY <1>5, StillSlave
  <2>2. CASE t = s /\ AppHandles(s)
    <3>1. SpeakingBy(s)' BY <1>5, <2>2, StillAnswers DEF Wanted
    <3>. QED BY <1>1, <1>2, <3>1 DEF Answers
  <2>3. CASE ~(t = s /\ AppHandles(s))
    <3>1. nad'[s] = nad[s]
      <4>1. CASE t # s BY <1>1, <4>1
      <4>2. CASE t = s
        BY <2>3, <4>2 DEF Slave, Run, Exit, Tick, TakesConfirmation, IgnoresConfirmation,
             TakesRequest, ReadsNothing, AppIdle, AppIgnores, Reads
      <4>. QED BY <4>1, <4>2
    <3>2. /\ ForMe(s, asked.req)'
          /\ ResponseFrames(s, asked.req)' \in 1 .. TxQueueSize
      BY <1>1, <1>5, <3>1 DEF Wanted, ForMe, ResponseFrames
    <3>3. CASE masterTx # <<>>
      <4>1. ~SpeakingBy(t)' BY <1>1, <3>3 DEF SpeakingBy, Speaks
      <4>. QED BY <1>1, <1>2, <2>1, <3>2, <3>3, <4>1 DEF Answers, Wanted
    <3>4. CASE masterTx = <<>>
      <4>1. Expecting(s) BY <1>5, <3>4 DEF Wanted
      <4>2. Expecting(s)'
        <5>1. CASE t # s
          <6>1. events'[s] = events[s] /\ rxQueue'[s] = rxQueue[s] BY <1>1, <5>1
          <6>. QED BY <1>1, <4>1, <6>1 DEF Expecting, AskedLast, Clear, Elements, Owned
        <5>2. CASE t = s
          <6>1. ~Takes(s)
            <7>1. ~AppHandles(s) BY <2>3, <5>2
            <7>2. AppIgnores(s) => Head(rxQueue[s]) # asked
              BY <1>5 DEF AppIgnores, Wanted
            <7>. QED BY <7>1, <7>2 DEF Takes
          <6>2. ~Drops(s)
            <7>. SUFFICES ASSUME Drops(s) PROVE FALSE OBVIOUS
            <7>. DEFINE p == rxQueue[s]
            <7>1. events[s] # <<>> /\ Head(events[s]) = asked /\ Len(p) >= RxQueueSize
              BY DEF Drops
            <7>2. events[s] \in Seq(Event) /\ p \in Seq(Message) /\ asked \in Message
                  /\ RxQueueSize \in Nat /\ MaxRequests \in Nat /\ requests \in Nat
                  /\ RxQueueSize # 0
              BY BusTypes, BusAssumption
            <7>3. asked \in Elements(events[s]) /\ asked # Confirmation
              BY <7>1, <7>2, TailOf, MessageIsNoConfirmation
            <7>. HIDE DEF p
            <7>4. Len(p) \in DOMAIN p BY <7>1, <7>2
            <7>5. p[Len(p)] \in Elements(p) BY <7>4 DEF Elements
            <7>6. p[Len(p)].id >= Len(p) /\ p[Len(p)].id < asked.id
              BY <7>3, <7>4, <7>5 DEF Ids, p
            <7>7. asked.id = requests /\ requests <= MaxRequests /\ RxQueueSize >= MaxRequests
              BY DEF Basic, Roomy
            <7>8. p[Len(p)] \in Message BY <7>2, <7>4
            <7>9. p[Len(p)].id \in Nat BY <7>8 DEF Message
            <7>10. Len(p) \in Nat BY <7>2
            <7>. QED BY <7>1, <7>2, <7>6, <7>7, <7>9, <7>10
          <6>. QED BY <4>1, <5>2, <6>1, <6>2, ExpectingMoves
        <5>. QED BY <5>1, <5>2
      <4>3. ~SpeakingBy(t)'
        <5>. SUFFICES ASSUME SpeakingBy(t)' PROVE FALSE OBVIOUS
        <5>1. NoneLeft(s)' BY <1>3 DEF SpeakingBy, Speaks, Silent
        <5>. QED BY <4>2, <5>1, NotBothNext
      <4>. QED BY <1>1, <1>2, <2>1, <3>2, <4>2, <4>3 DEF Answers, Wanted
    <3>. QED BY <3>3, <3>4
  <2>. QED BY <2>2, <2>3
<1>. QED BY <1>4, <1>5 DEF Answers

\* More requests bring more events.
LEMMA BoundGrows ==
    ASSUME NEW a \in Nat, NEW b \in Nat, 1 <= a, a <= b
    PROVE  /\ Bound(a - 1) \in Nat /\ Bound(b - 1) \in Nat
           /\ Bound(a - 1) <= Bound(b - 1)
<1>. DEFINE c == TxQueueSize + 1
            d == b - a
            e == a - 1
<1>1. c \in Nat /\ d \in Nat /\ e \in Nat /\ b - 1 = e + d BY BusAssumption
<1>. HIDE DEF c, d, e
<1>2. \A x, y, z \in Nat : (x + y) * z = x * z + y * z /\ x * z \in Nat OBVIOUS
<1>3. (e + d) * c = e * c + d * c /\ e * c \in Nat /\ d * c \in Nat BY <1>1, <1>2
<1>4. Bound(a - 1) = e * c /\ Bound(b - 1) = (e + d) * c BY <1>1 DEF Bound, c, e
<1>. QED BY <1>3, <1>4

\* The master brings the request to the one who is to answer it, and what the
\* slave says to its own reader.
LEMMA AnswersMaster ==
    ASSUME Unicast, Roomy, TypeOK, TypeOK', Basic, NEW s \in Slaves,
           at[s] = "gone" => halted[s], asked # Nothing, asked' # Nothing, Answers(s),
           Master \/ TimesOut \/ Expires
    PROVE  Answers(s)'
<1>1. ~TimesOut /\ ~Answered BY DEF TimesOut, Answered
<1>2. ~halted[s] /\ ~Dead(s) BY DEF Answers, Dead
<1>3. UNCHANGED slaveVars /\ UNCHANGED <<asked, requests>>
  BY <1>1 DEF Master, Expires, writeMessage, requestSlaveResponse, notifySlave,
              receiveFromDriver, Answered, Skipped, netVars, masterVars
<1>4. ~Quiet BY <1>2, NotQuiet DEF Answers, Wanted
<1>5. CASE SpeakingBy(s)
  <2>1. PICK n \in Nat, h \in Nat, g \in Nat, j \in Nat : Speaks(s, n, h, g, j)
    BY <1>5 DEF SpeakingBy
  <2>2. SpeakingBy(s)' BY <1>1, <1>4, <2>1, SpeaksMaster
  <2>. QED BY <1>2, <1>3, <2>2 DEF Answers, slaveVars
<1>6. CASE Still /\ Wanted(s)
  <2>1. Still' BY <1>6, StillMaster
  <2>2. writeMessage
    <3>1. ~Expires BY <1>4 DEF Expires, Unicast
    <3>. QED BY <1>1, <1>6, <3>1 DEF Still, Master, requestSlaveResponse, notifySlave,
                                     receiveFromDriver, Skipped
  <2>3. masterTx = <<asked>> /\ masterTx # <<>> BY <2>2 DEF writeMessage, Basic
  <2>4. masterTx' = <<>> /\ events'[s] = pushEvent(events[s], asked)
    <3>1. Head(<<asked>>) = asked /\ Tail(<<asked>>) = <<>> OBVIOUS
    <3>. QED BY <2>2, <2>3, <3>1 DEF writeMessage
  <2>5. asked \in Message /\ asked # Confirmation /\ asked \in Event
    BY BusTypes, MessageIsNoConfirmation DEF Event
  <2>6. Owned(s, asked)
    <3>1. asked.req \in Requests /\ nad[s] \in Nads(s) BY DEF Basic
    <3>. QED BY <1>6, <2>5, <3>1 DEF Wanted, ForMe, Owned, Unicast
  <2>7. Clear(s, events[s]) /\ Clear(s, rxQueue[s])
    BY <1>2, <1>6, <2>3 DEF Still, Expecting, NoneLeft
  <2>8. Len(events[s]) < EventQueueSize
    <3>1. Len(events[s]) <= Bound(requests - 1) BY <1>6, <2>3 DEF Still, Room
    <3>2. requests \in Nat /\ requests >= 1 /\ requests <= MaxRequests /\ MaxRequests \in Nat
          /\ TxQueueSize \in Nat /\ EventQueueSize \in Nat /\ Len(events[s]) \in Nat
      BY BusTypes, BusAssumption DEF Basic
    <3>3. Bound(requests - 1) \in Nat /\ Bound(requests - 1) <= Bound(MaxRequests - 1)
          /\ Bound(MaxRequests - 1) \in Nat
      BY <3>2, BoundGrows
    <3>. QED BY <3>1, <3>2, <3>3 DEF Roomy
  <2>9. AskedLast(s, events'[s])
    <3>1. events'[s] = Append(events[s], asked) BY <2>4, <2>8 DEF pushEvent
    <3>. QED BY <2>5, <2>7, <3>1, BusTypes, AskedBehind
  <2>10. Expecting(s)'
    BY <1>3, <2>4, <2>6, <2>7, <2>9
       DEF Expecting, AskedLast, Clear, Elements, Owned, slaveVars
  <2>11. ForMe(s, asked.req)' /\ ResponseFrames(s, asked.req)' \in 1 .. TxQueueSize
    BY <1>3, <1>6 DEF Wanted, ForMe, ResponseFrames, slaveVars
  <2>. QED BY <1>2, <1>3, <2>1, <2>10, <2>11 DEF Answers, Wanted, slaveVars
<1>. QED BY <1>5, <1>6 DEF Answers

\* The history changes with the requests and when a slave is stopped.
LEMMA DueKept ==
    /\ \A s \in Slaves : Slave(s) \/ Run(s) => UNCHANGED <<asked, outcome, due, halted>>
    /\ Master \/ Expires =>
          UNCHANGED <<due, halted>> /\ (UNCHANGED <<asked, outcome>> \/ Answered)
<1>1. \A s \in Slaves : Slave(s) \/ Run(s) => UNCHANGED <<asked, outcome, due, halted>>
  BY DEF Slave, Run, Exit, Tick, TakesConfirmation, IgnoresConfirmation, TakesRequest,
         ReadsNothing, AppIdle, AppIgnores, AppHandles, Reads, masterVars
<1>2. Master \/ Expires =>
         UNCHANGED <<due, halted>> /\ (UNCHANGED <<asked, outcome>> \/ Answered)
  BY DEF Master, Expires, writeMessage, requestSlaveResponse, notifySlave, receiveFromDriver,
         Answered, Skipped, slaveVars, masterVars
<1>. QED BY <1>1, <1>2

\* A slave that is gone was stopped.
LEMMA GoneStep ==
    ASSUME TypeOK, NEW s \in Slaves, at[s] = "gone" => halted[s], Next
    PROVE  at'[s] = "gone" => halted'[s]
<1>. USE DEF TypeOK, SlaveTypes
<1>1. CASE UNCHANGED <<at, halted>> BY <1>1
<1>2. CASE \E t \in Slaves : Slave(t) \/ Run(t) \/ Stop(t)
  <2>. PICK t \in Slaves : Slave(t) \/ Run(t) \/ Stop(t) BY <1>2
  <2>1. CASE t # s
    <3>1. at'[s] = at[s] /\ halted'[s] = halted[s] BY <2>1, SlaveFrame
    <3>. QED BY <3>1
  <2>2. CASE t = s
    <3>1. CASE Exit(s) BY <3>1 DEF Exit
    <3>2. CASE Stop(s) BY <3>2 DEF Stop
    <3>3. CASE ~Exit(s) /\ ~Stop(s)
      BY <2>2, <3>3 DEF Slave, Run, Tick, TakesConfirmation, IgnoresConfirmation, TakesRequest,
           ReadsNothing, AppIdle, AppIgnores, AppHandles, Reads
    <3>. QED BY <3>1, <3>2, <3>3
  <2>. QED BY <2>1, <2>2
<1>3. UNCHANGED <<at, halted>> \/ \E t \in Slaves : Slave(t) \/ Run(t) \/ Stop(t)
  BY DEF Next, Master, TimesOut, Expires, Ask, writeMessage, requestSlaveResponse, notifySlave,
         receiveFromDriver, Answered, Skipped, slaveVars
<1>. QED BY <1>1, <1>2, <1>3

\* When a request is made nothing is under way, and it is put before the slaves.
LEMMA AnswersAsked ==
    ASSUME Unicast, TypeOK, TypeOK', Basic, BusInv, NEW r \in Requests, Ask(r), due'
    PROVE  \E s \in Slaves : Answers(s)'
<1>1. asked = Nothing /\ UNCHANGED slaveVars /\ asked'.req = r BY DEF Ask
<1>2. Still
  <2>1. \A s \in Slaves : ~SpeakingBy(s) BY <1>1 DEF SpeakingBy, Speaks
  <2>. QED BY <2>1 DEF BusInv
<1>3. Still' BY <1>2, StillMaster
<1>4. masterTx' # <<>>
  <2>1. masterTx = <<>> BY <1>1 DEF Basic
  <2>2. masterTx' = Append(<<>>, asked') BY <2>1 DEF Ask
  <2>3. Append(<<>>, asked') = <<asked'>> OBVIOUS
  <2>. QED BY <2>2, <2>3
<1>5. PICK s \in Slaves : ~halted[s] /\ ForMe(s, r) /\ ResponseFrames(s, r) \in 1 .. TxQueueSize
  BY DEF Ask
<1>6. Wanted(s)'
  BY <1>1, <1>4, <1>5 DEF Wanted, ForMe, ResponseFrames, slaveVars
<1>. QED BY <1>1, <1>3, <1>5, <1>6 DEF Answers, slaveVars

\* Requests end when they are answered, or when nobody is to answer them.
LEMMA OutcomeStep ==
    ASSUME Unicast, BusInv, DueInv, Next
    PROVE  NotGivenUp'
<1>1. CASE \E s \in Slaves : Slave(s) \/ Run(s) BY <1>1, DueKept DEF DueInv, NotGivenUp
<1>2. CASE \E s \in Slaves : Stop(s) BY <1>2 DEF Stop, NotGivenUp
<1>3. CASE \E r \in Requests : Ask(r)
  <2>1. outcome' = [end |-> "none"] BY <1>3 DEF Ask
  <2>2. outcome'.end # "timeout" BY <2>1
  <2>. QED BY <2>2 DEF NotGivenUp
<1>4. CASE Answered
  <2>1. outcome' = [end |-> "answer", to |-> asked.id, heard |-> Head(inbox)]
    BY <1>4 DEF Answered
  <2>2. outcome'.end # "timeout" BY <2>1
  <2>. QED BY <2>2 DEF NotGivenUp
<1>5. CASE (Master \/ Expires) /\ ~Answered BY <1>5, DueKept DEF DueInv, NotGivenUp
<1>6. CASE TimesOut
  <2>1. Quiet /\ asked # Nothing /\ due' = due BY <1>6 DEF TimesOut, Unicast
  <2>2. \A s \in Slaves : ~Answers(s)
    <3>. SUFFICES ASSUME NEW s \in Slaves, Answers(s) PROVE FALSE OBVIOUS
    <3>1. ~Dead(s) BY DEF Answers, Dead, DueInv
    <3>. QED BY <2>1, <3>1, NotQuiet DEF Answers, Wanted, BusInv
  <2>3. ~due BY <2>1, <2>2 DEF DueInv
  <2>. QED BY <2>1, <2>3 DEF NotGivenUp
<1>. QED BY <1>1, <1>2, <1>3, <1>4, <1>5, <1>6 DEF Next

LEMMA DueStep ==
    ASSUME Unicast, Roomy, BusInv, DueInv, [Next]_vars
    PROVE  DueInv'
<1>1. TypeOK /\ Basic /\ TypeOK' BY TypeStep DEF BusInv
<1>2. CASE UNCHANGED vars
  <2>1. ASSUME NEW s \in Slaves PROVE Ids(s)' /\ (at'[s] = "gone" => halted'[s])
    BY <1>2 DEF vars, DueInv, Ids, Elements
  <2>2. NotGivenUp' BY <1>2 DEF vars, DueInv, NotGivenUp
  <2>3. ASSUME NEW s \in Slaves PROVE Answers(s) => Answers(s)'
    <3>1. Still => Still' BY <1>2, StillSame
    <3>2. SpeakingBy(s) => SpeakingBy(s)' BY <1>2, SpeaksSame
    <3>3. Wanted(s) => Wanted(s)'
      BY <1>2 DEF vars, Wanted, Expecting, AskedLast, Clear, Elements, Owned, ForMe,
                  ResponseFrames
    <3>. QED BY <1>2, <3>1, <3>2, <3>3 DEF vars, Answers
  <2>. QED BY <1>2, <2>1, <2>2, <2>3 DEF vars, DueInv
<1>3. CASE Next
  <2>1. ASSUME NEW s \in Slaves PROVE Ids(s)'
    <3>1. Ids(s) BY DEF DueInv
    <3>2. CASE \E t \in Slaves : Slave(t) \/ Run(t) \/ Stop(t)
      <4>. PICK t \in Slaves : Slave(t) \/ Run(t) \/ Stop(t) BY <3>2
      <4>1. CASE t = s BY <1>1, <3>1, <4>1, IdsSlave
      <4>2. CASE t # s
        <5>1. events'[s] = events[s] /\ rxQueue'[s] = rxQueue[s]
              /\ UNCHANGED <<masterTx, requests>>
          BY <1>1, <4>2, SlaveFrame
        <5>. QED BY <3>1, <5>1 DEF Ids, Elements
      <4>. QED BY <4>1, <4>2
    <3>. QED BY <1>1, <1>3, <3>1, <3>2, IdsMaster DEF Next
  <2>2. \A s \in Slaves : at'[s] = "gone" => halted'[s] BY <1>1, <1>3, GoneStep DEF DueInv
  <2>3. NotGivenUp' BY <1>3, OutcomeStep
  <2>4. ASSUME due', asked' # Nothing PROVE \E s \in Slaves : Answers(s)'
    <3>1. CASE \E r \in Requests : Ask(r) BY <1>1, <2>4, <3>1, AnswersAsked
    <3>2. CASE \E t \in Slaves : Stop(t) BY <2>4, <3>2 DEF Stop
    <3>3. CASE \E t \in Slaves : Slave(t) \/ Run(t)
      <4>1. due /\ asked # Nothing BY <2>4, <3>3, DueKept
      <4>2. PICK s \in Slaves : Answers(s) BY <4>1 DEF DueInv
      <4>. QED BY <1>1, <3>3, <4>1, <4>2, AnswersSlave DEF DueInv
    <3>4. CASE Master \/ Expires
      <4>1. due /\ asked # Nothing BY <2>4, <3>4, DueKept DEF Answered
      <4>2. PICK s \in Slaves : Answers(s) BY <4>1 DEF DueInv
      <4>. QED BY <1>1, <2>4, <3>4, <4>1, <4>2, AnswersMaster DEF DueInv
    <3>5. ~TimesOut BY <2>4 DEF TimesOut
    <3>. QED BY <1>3, <3>1, <3>2, <3>3, <3>4, <3>5 DEF Next
  <2>. QED BY <2>1, <2>2, <2>3, <2>4 DEF DueInv
<1>. QED BY <1>2, <1>3

LEMMA DueStart == Init => DueInv
<1>. SUFFICES ASSUME Init PROVE DueInv OBVIOUS
<1>1. ASSUME NEW s \in Slaves PROVE Ids(s) /\ (at[s] = "gone" => halted[s])
  <2>1. events[s] = <<>> /\ rxQueue[s] = <<>> /\ masterTx = <<>> /\ at[s] = "off"
    BY DEF Init
  <2>2. DOMAIN <<>> = {} OBVIOUS
  <2>. QED BY <2>1, <2>2 DEF Ids, Elements
<1>2. due = FALSE BY DEF Init
<1>. QED BY <1>1, <1>2 DEF DueInv, NotGivenUp

\* A request that a node was to answer is not given up: its response passes the
\* NAD filter even if the node changes its NAD (slave.go:216-222).  This needs a
\* master that gives up only when nothing can come any more, requests to one node
\* each, and queues with room for the last request after all that came before
\* it; then nothing is asked of the order in which nodes, bus and master move.
THEOREM NotGivenUpSafe == ASSUME Unicast, Roomy PROVE Spec => []NotGivenUp
<1>1. Init => DueInv BY DueStart
<1>2. BusInv /\ DueInv /\ [Next]_vars => DueInv' BY DueStep
<1>3. DueInv => NotGivenUp BY DEF DueInv
<1>. QED BY <1>1, <1>2, <1>3, BusAlways, PTL DEF Spec
=============================================================================
