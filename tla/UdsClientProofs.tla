--------------------------- MODULE UdsClientProofs ---------------------------
(***************************************************************************)
(* Proofs about the UDS client for any callers, requests, nodes and queue  *)
(* sizes, whatever times out, fails or is closed.                          *)
(***************************************************************************)
EXTENDS UdsClient, TLAPS, FiniteSetTheorems, SequenceTheorems

\* Two callers never hold requestMu together.
Mutex ==
    \A c, d \in Clients : pc[c] \in HoldingPcs /\ pc[d] \in HoldingPcs => c = d

Waiting == {"wait", "stop"}

\* The awaiting flag is that of a caller that waits or is about to clear it.
Flagged ==
    /\ \A c \in Clients : pc[c] = "wait" => awaiting
    /\ awaiting => \E c \in Clients : pc[c] \in {"wait", "stop"}

\* The mutex and the awaiting flag belong together.
PolledInv == TypeOK /\ Mutex /\ Flagged

TxType == [nad : Nat, sid : Nat, id : Nat]

\* Head and tail of a queue.
LEMMA QueueParts ==
    ASSUME NEW S, NEW q \in Seq(S), q # <<>>
    PROVE  /\ Head(q) \in S
           /\ Tail(q) \in Seq(S)
           /\ Len(Tail(q)) < Len(q)
OBVIOUS

\* One more element at the end of a queue.
LEMMA Appended ==
    ASSUME NEW S, NEW q \in Seq(S), NEW e \in S
    PROVE  Append(q, e) \in Seq(S) /\ Len(Append(q, e)) = Len(q) + 1
OBVIOUS

\* What nodes say are messages.
LEMMA AnswersAreMessages ==
    ASSUME NEW n \in Nat, NEW r \in TxType, NEW script \in Scripts
    PROVE  [i \in DOMAIN script |-> Says(n, r, script, i)] \in Seq(Message)
<1>1. script \in Seq(Kinds) BY UdsAssumption
<1>2. \A i \in 1 .. Len(script) : Says(n, r, script, i) \in Message
  BY <1>1, UdsAssumption DEF Says, Message, TxType, Kinds
<1>3. Len(script) \in Nat /\ DOMAIN script = 1 .. Len(script) BY <1>1
<1>4. QED BY <1>2, <1>3

-----------------------------------------------------------------------------
(***************************************************************************)
(* Types.                                                                  *)
(***************************************************************************)
LEMMA InitTypes == Init => TypeOK
<1>. SUFFICES ASSUME Init PROVE TypeOK OBVIOUS
<1>1. request \in [Clients -> Request] BY DEF Init, NoRequest, Request
<1>2. /\ pc \in [Clients -> {"idle", "lock"} \cup HoldingPcs]
      /\ mine \in [Clients -> Nat] /\ attempt \in [Clients -> 0 .. MaxRetries]
      /\ timer \in [Clients -> {"none", "P2", "P2*"}] /\ ended \in [Clients -> BOOLEAN]
      /\ outcome \in [Clients -> {"none", "answer", "transport", "timeout", "context"}]
  BY UdsAssumption DEF Init
<1>3. /\ txQueue = <<>> /\ rxQueue = <<>> /\ driver = <<>> /\ coming = <<>>
      /\ served = <<>> /\ executed = <<>> /\ answers = {}
      /\ errors = 0 /\ ongoing = FALSE /\ awaiting = FALSE /\ life = "open" /\ failures = 0
  BY DEF Init
<1>4. errors \in 0 .. ErrorQueueSize BY <1>3, UdsAssumption
<1>5. 0 <= TxQueueSize /\ 0 <= RxQueueSize BY UdsAssumption
<1>6. /\ txQueue \in Seq([nad : Nat, sid : Nat, id : Nat]) /\ Len(txQueue) <= TxQueueSize
      /\ rxQueue \in Seq(Message) /\ Len(rxQueue) <= RxQueueSize
      /\ driver \in Seq(Message) /\ coming \in Seq(Message)
      /\ served \in Seq(Request) /\ executed \in Seq(Nat) /\ answers \subseteq Nat \X Nat
  BY <1>3, <1>5
<1>7. /\ ongoing \in BOOLEAN /\ awaiting \in BOOLEAN
      /\ life \in {"open", "closing", "closed"} /\ failures \in Nat
  BY <1>3
<1>. QED BY <1>1, <1>2, <1>4, <1>6, <1>7 DEF TypeOK

\* The steps of a caller.
LEMMA CallerTypes ==
    ASSUME TypeOK, NEW c \in Clients, Call(c) \/ Client(c) \/ ContextOver(c)
    PROVE  TypeOK'
<1>. USE UdsAssumption
<1>1. CASE Call(c)
  <2>1. request' \in [Clients -> Request]
    BY <1>1 DEF Call, TypeOK
  <2>2. QED BY <1>1, <2>1 DEF Call, TypeOK, loopVars, HoldingPcs
<1>2. CASE Lock(c)
  <2>1. request[c] \in Request BY DEF TypeOK
  <2>2. served' \in Seq(Request) /\ Len(served') \in Nat
    BY <1>2, <2>1, Appended DEF Lock, TypeOK
  <2>3. mine' \in [Clients -> Nat] /\ attempt' \in [Clients -> 0 .. MaxRetries]
    BY <1>2, <2>2 DEF Lock, TypeOK
  <2>4. QED BY <1>2, <2>2, <2>3 DEF Lock, TypeOK, loopVars, HoldingPcs
<1>3. CASE Drain(c)
  <2>1. rxQueue' \in Seq(Message) /\ Len(rxQueue') <= RxQueueSize
    BY <1>3, QueueParts DEF Drain, TypeOK
  <2>2. QED BY <1>3, <2>1 DEF Drain, TypeOK, callVars, loopVars
<1>4. CASE Send(c)
  <2>1. [nad |-> request[c].nad, sid |-> request[c].sid, id |-> mine[c]] \in TxType
    BY DEF TypeOK, Request, TxType
  <2>2. txQueue' \in Seq(TxType) /\ Len(txQueue') <= TxQueueSize
    BY <1>4, <2>1, Appended DEF Send, Admits, TypeOK, TxType
  <2>3. timer' \in [Clients -> {"none", "P2", "P2*"}]
    BY <1>4 DEF Send, TypeOK, FirstTimer
  <2>4. QED BY <1>4, <2>2, <2>3 DEF Send, TypeOK, TxType, loopVars, HoldingPcs
<1>5. CASE SendFails(c)
  BY <1>5 DEF SendFails, TypeOK, loopVars, HoldingPcs
<1>6. CASE TakesAnswer(c)
  <2>1. rxQueue' \in Seq(Message) /\ Len(rxQueue') <= RxQueueSize
    BY <1>6, QueueParts DEF TakesAnswer, TypeOK
  <2>2. Head(rxQueue) \in Message
    BY <1>6, QueueParts DEF TakesAnswer, TypeOK
  <2>3. answers' \subseteq Nat \X Nat
    <3>1. mine[c] \in Nat /\ Head(rxQueue).to \in Nat BY <2>2 DEF TypeOK, Message
    <3>2. answers' = answers \cup {<<mine[c], Head(rxQueue).to>>} BY <1>6 DEF TakesAnswer
    <3>. QED BY <3>1, <3>2 DEF TypeOK
  <2>4. QED BY <1>6, <2>1, <2>3 DEF TakesAnswer, Ends, TypeOK, loopVars, HoldingPcs
<1>7. CASE TakesPending(c)
  <2>1. rxQueue' \in Seq(Message) /\ Len(rxQueue') <= RxQueueSize
    BY <1>7, QueueParts DEF TakesPending, TypeOK
  <2>2. QED BY <1>7, <2>1 DEF TakesPending, TypeOK, loopVars
<1>8. CASE TakesOther(c)
  <2>1. rxQueue' \in Seq(Message) /\ Len(rxQueue') <= RxQueueSize
    BY <1>8, QueueParts DEF TakesOther, TypeOK
  <2>2. QED BY <1>8, <2>1 DEF TakesOther, TypeOK, callVars, loopVars
<1>9. CASE TakesError(c)
  <2>1. errors' \in 0 .. ErrorQueueSize BY <1>9 DEF TakesError, TypeOK
  <2>2. QED BY <1>9, <2>1 DEF TakesError, Ends, TypeOK, loopVars, HoldingPcs
<1>10. CASE TakesClosed(c)
  BY <1>10 DEF TakesClosed, Ends, TypeOK, loopVars, HoldingPcs
<1>11. CASE TimesOut(c)
  BY <1>11 DEF TimesOut, Ends, TypeOK, loopVars, HoldingPcs
<1>12. CASE ContextEnds(c)
  BY <1>12 DEF ContextEnds, Ends, TypeOK, loopVars, HoldingPcs
<1>13. CASE StopAwaiting(c)
  <2>1. Retries(request[c]) \in 0 .. MaxRetries BY DEF Retries
  <2>2. attempt' \in [Clients -> 0 .. MaxRetries]
    <3>1. CASE GoesOn(c)
      <4>1. attempt[c] < Retries(request[c]) /\ attempt[c] \in 0 .. MaxRetries
        BY <3>1 DEF GoesOn, TypeOK
      <4>2. attempt[c] + 1 \in 0 .. MaxRetries BY <2>1, <4>1
      <4>3. attempt' = [attempt EXCEPT ![c] = @ + 1] BY <1>13, <3>1 DEF StopAwaiting
      <4>. QED BY <4>2, <4>3 DEF TypeOK
    <3>2. CASE ~GoesOn(c)
      BY <1>13, <3>2 DEF StopAwaiting, TypeOK
    <3>. QED BY <3>1, <3>2
  <2>3. pc' \in [Clients -> {"idle", "lock"} \cup HoldingPcs]
    BY <1>13 DEF StopAwaiting, TypeOK, HoldingPcs
  <2>4. QED BY <1>13, <2>2, <2>3 DEF StopAwaiting, Stops, TypeOK, loopVars
<1>14. CASE ContextOver(c)
  BY <1>14 DEF ContextOver, TypeOK, loopVars
<1>. QED
  BY <1>1, <1>2, <1>3, <1>4, <1>5, <1>6, <1>7, <1>8, <1>9, <1>10, <1>11, <1>12, <1>13,
     <1>14 DEF Client

\* The steps of the transport's loop, and Close.
LEMMA LoopTypes ==
    ASSUME TypeOK, Loop \/ Expire \/ Fails \/ Close \/ Closed
    PROVE  TypeOK'
<1>. USE UdsAssumption
<1>0. txQueue \in Seq(TxType) /\ Len(txQueue) <= TxQueueSize BY DEF TypeOK, TxType
<1>1. CASE Read
  <2>1. Head(driver) \in Message /\ driver' \in Seq(Message)
    BY <1>1, QueueParts DEF Read, TypeOK
  <2>2. rxQueue' \in Seq(Message) /\ Len(rxQueue') <= RxQueueSize
    BY <1>1, <2>1, Appended DEF Read, TypeOK
  <2>3. errors' \in 0 .. ErrorQueueSize BY <1>1 DEF Read, Reported, TypeOK
  <2>4. ongoing' \in BOOLEAN BY <1>1, Zenon DEF Read
  <2>. QED BY <1>1, <2>1, <2>2, <2>3, <2>4 DEF Read, TypeOK, callVars
<1>2. CASE Write
  <2>1. Head(txQueue) \in TxType /\ txQueue' \in Seq(TxType) /\ Len(txQueue') <= TxQueueSize
    BY <1>2, <1>0, QueueParts DEF Write
  <2>2. coming' \in Seq(Message) /\ executed' \in Seq(Nat)
    <3>1. CASE UNCHANGED <<coming, executed>> BY <3>1 DEF TypeOK
    <3>2. ASSUME NEW n \in Answering(Head(txQueue)), NEW script \in Scripts,
                 coming' = coming \o [i \in DOMAIN script |->
                                         Says(n, Head(txQueue), script, i)]
          PROVE  coming' \in Seq(Message)
      <4>1. n \in Nat BY DEF Answering
      <4>2. QED BY <2>1, <3>2, <4>1, AnswersAreMessages DEF TypeOK
    <3>3. CASE executed' = Append(executed, Head(txQueue).id)
      <4>1. executed' \in Seq(Nat) BY <2>1, <3>3, Appended DEF TypeOK, TxType
      <4>2. QED BY <1>2, <3>1, <3>2, <4>1 DEF Write
    <3>. QED BY <1>2, <3>1, <3>3 DEF Write
  <2>3. QED BY <1>2, <2>1, <2>2 DEF Write, TypeOK, TxType, callVars
<1>3. CASE Poll
  <2>1. Head(coming) \in Message /\ Tail(coming) \in Seq(Message)
    BY <1>3, QueueParts DEF Poll, TypeOK
  <2>2. driver' \in Seq(Message) /\ coming' \in Seq(Message)
    BY <1>3, <2>1 DEF Poll, TypeOK
  <2>3. QED BY <1>3, <2>2 DEF Poll, TypeOK, callVars
<1>4. CASE Fails
  <2>1. txQueue' \in Seq(TxType) /\ Len(txQueue') <= TxQueueSize
    <3>1. CASE UNCHANGED txQueue BY <3>1, <1>0
    <3>2. CASE txQueue # <<>> /\ txQueue' = Tail(txQueue)
      <4>1. Tail(txQueue) \in Seq(TxType) /\ Len(Tail(txQueue)) < Len(txQueue)
        BY <3>2, <1>0, QueueParts
      <4>. QED BY <3>2, <4>1, <1>0
    <3>. QED BY <1>4, <3>1, <3>2 DEF Fails
  <2>2. errors' \in 0 .. ErrorQueueSize /\ failures' \in Nat
    BY <1>4 DEF Fails, Reported, TypeOK
  <2>3. QED BY <1>4, <2>1, <2>2 DEF Fails, TypeOK, TxType, callVars
<1>5. CASE Close
  BY <1>5 DEF Close, TypeOK, callVars, loopVars
<1>6. CASE Closed
  BY <1>6 DEF Closed, TypeOK, callVars, loopVars
<1>7. CASE Expire
  BY <1>7 DEF Expire, TypeOK, callVars
<1>. QED BY <1>1, <1>2, <1>3, <1>4, <1>5, <1>6, <1>7 DEF Loop

LEMMA NextTypes == TypeOK /\ [Next]_vars => TypeOK'
<1>. SUFFICES ASSUME TypeOK, [Next]_vars PROVE TypeOK' OBVIOUS
<1>1. CASE Next BY <1>1, CallerTypes, LoopTypes DEF Next
<1>2. CASE UNCHANGED vars BY <1>2 DEF vars, TypeOK
<1>. QED BY <1>1, <1>2

\* Every variable keeps its type, and the transport's queues their capacity.
THEOREM TypeCorrect == Spec => []TypeOK
BY InitTypes, NextTypes, PTL DEF Spec

-----------------------------------------------------------------------------
(***************************************************************************)
(* requestMu excludes, so the flag one caller clears is never another's.   *)
(***************************************************************************)
\* A caller that moves while it holds requestMu leaves it with one holder.
LEMMA HolderMoves ==
    ASSUME pc \in [Clients -> {"idle", "lock"} \cup HoldingPcs], Mutex,
           NEW c \in Clients, pc[c] \in HoldingPcs, NEW p, pc' = [pc EXCEPT ![c] = p]
    PROVE  Mutex'
<1>1. \A d \in Clients : d # c => pc'[d] = pc[d] OBVIOUS
<1>2. ASSUME NEW d \in Clients, pc'[d] \in HoldingPcs PROVE d = c
  BY <1>1, <1>2, Zenon DEF Mutex
<1>. QED BY <1>2 DEF Mutex

LEMMA NextPolled == PolledInv /\ [Next]_vars => PolledInv'
<1>. SUFFICES ASSUME PolledInv, [Next]_vars PROVE PolledInv' OBVIOUS
<1>. USE DEF HoldingPcs
<1>0. TypeOK /\ Mutex /\ Flagged /\ TypeOK' BY NextTypes DEF PolledInv
<1>1. CASE UNCHANGED <<pc, awaiting>>
  BY <1>0, <1>1 DEF PolledInv, Mutex, Flagged
<1>2. ASSUME NEW c \in Clients, Call(c)
      PROVE  PolledInv'
  <2>1. pc' = [pc EXCEPT ![c] = "lock"] /\ pc[c] = "idle" /\ UNCHANGED awaiting
    BY <1>2 DEF Call
  <2>2. \A d \in Clients : pc'[d] = IF d = c THEN "lock" ELSE pc[d]
    BY <1>0, <2>1 DEF TypeOK
  <2>3. Mutex' BY <1>0, <2>2 DEF Mutex
  <2>4. Flagged' BY <1>0, <2>1, <2>2 DEF Flagged
  <2>5. QED BY <1>0, <2>3, <2>4 DEF PolledInv
<1>3. ASSUME NEW c \in Clients, Lock(c)
      PROVE  PolledInv'
  <2>1. pc' = [pc EXCEPT ![c] = "drain"] /\ pc[c] = "lock" /\ UNCHANGED awaiting
    BY <1>3 DEF Lock
  <2>2. \A d \in Clients : pc[d] \notin HoldingPcs BY <1>3 DEF Lock, MuFree
  <2>3. Mutex' BY <1>0, <2>1, <2>2 DEF Mutex, TypeOK
  <2>4. Flagged' BY <1>0, <2>1 DEF Flagged, TypeOK
  <2>5. QED BY <1>0, <2>3, <2>4 DEF PolledInv
<1>4. ASSUME NEW c \in Clients, Send(c)
      PROVE  PolledInv'
  <2>1. pc' = [pc EXCEPT ![c] = "wait"] /\ pc[c] = "drain" /\ awaiting' = TRUE
    BY <1>4 DEF Send
  <2>2. Mutex' BY <1>0, <2>1, HolderMoves DEF TypeOK
  <2>3. Flagged'
    <3>1. pc'[c] = "wait" BY <1>0, <2>1 DEF TypeOK
    <3>2. QED BY <2>1, <3>1 DEF Flagged
  <2>4. QED BY <1>0, <2>2, <2>3 DEF PolledInv
<1>5. ASSUME NEW c \in Clients, SendFails(c)
      PROVE  PolledInv'
  <2>1. pc' = [pc EXCEPT ![c] = "idle"] /\ pc[c] = "drain" /\ UNCHANGED awaiting
    BY <1>5 DEF SendFails
  <2>2. Mutex' BY <1>0, <2>1, HolderMoves DEF TypeOK
  <2>3. Flagged' BY <1>0, <2>1 DEF Flagged, TypeOK
  <2>4. QED BY <1>0, <2>2, <2>3 DEF PolledInv
<1>6. ASSUME NEW c \in Clients, NEW how, pc[c] = "wait", Ends(c, how)
      PROVE  PolledInv'
  <2>1. pc' = [pc EXCEPT ![c] = "stop"] /\ UNCHANGED awaiting
    BY <1>6 DEF Ends
  <2>2. Mutex' BY <1>0, <1>6, <2>1, HolderMoves DEF TypeOK
  <2>3. Flagged' BY <1>0, <1>6, <2>1 DEF Flagged, TypeOK
  <2>4. QED BY <1>0, <2>2, <2>3 DEF PolledInv
<1>7. ASSUME NEW c \in Clients, StopAwaiting(c)
      PROVE  PolledInv'
  <2>1. /\ pc[c] = "stop" /\ awaiting' = FALSE
        /\ pc' = [pc EXCEPT ![c] = "drain"] \/ pc' = [pc EXCEPT ![c] = "idle"]
    BY <1>7 DEF StopAwaiting, Stops
  <2>2. Mutex' BY <1>0, <2>1, HolderMoves DEF TypeOK
  <2>3. \A d \in Clients : pc'[d] # "wait"
    <3>1. \A d \in Clients \ {c} : pc[d] \notin HoldingPcs BY <1>0, <2>1 DEF Mutex
    <3>2. pc'[c] \in {"drain", "idle"} BY <1>0, <2>1 DEF TypeOK
    <3>3. \A d \in Clients \ {c} : pc'[d] = pc[d] BY <1>0, <2>1 DEF TypeOK
    <3>4. QED BY <3>1, <3>2, <3>3
  <2>4. Flagged' BY <2>1, <2>3 DEF Flagged
  <2>5. QED BY <1>0, <2>2, <2>4 DEF PolledInv
<1>8. ASSUME NEW c \in Clients, Drain(c) \/ TakesPending(c) \/ TakesOther(c) \/ ContextOver(c)
      PROVE  UNCHANGED <<pc, awaiting>>
  BY <1>8 DEF Drain, TakesPending, TakesOther, ContextOver, callVars
<1>9. ASSUME Loop \/ Expire \/ Fails \/ Close \/ Closed
      PROVE  UNCHANGED <<pc, awaiting>>
  BY <1>9 DEF Loop, Expire, Read, Write, Poll, Fails, Close, Closed, callVars
<1>10. ASSUME NEW c \in Clients,
              TakesAnswer(c) \/ TakesError(c) \/ TakesClosed(c) \/ TimesOut(c) \/ ContextEnds(c)
       PROVE  pc[c] = "wait" /\ \E how : Ends(c, how)
  BY <1>10 DEF TakesAnswer, TakesError, TakesClosed, TimesOut, ContextEnds
<1>11. CASE UNCHANGED vars BY <1>1, <1>11 DEF vars
<1>. QED
  BY <1>1, <1>2, <1>3, <1>4, <1>5, <1>6, <1>7, <1>8, <1>9, <1>10, <1>11 DEF Next, Client

\* The transport listens while somebody waits for an answer, and after that only
\* to write what is queued, to finish an open reception, or if it always polls.
THEOREM PolledSafe == Spec => []PolledWhileWaiting
<1>1. Init => PolledInv
  <2>. SUFFICES ASSUME Init PROVE PolledInv OBVIOUS
  <2>1. \A c \in Clients : pc[c] = "idle" BY DEF Init
  <2>2. awaiting = FALSE BY DEF Init
  <2>. QED BY <2>1, <2>2, InitTypes DEF PolledInv, Mutex, Flagged, HoldingPcs
<1>2. PolledInv => PolledWhileWaiting
  BY DEF PolledInv, Flagged, PolledWhileWaiting, Active, shouldRequestSlaveResponse
<1>. QED BY <1>1, <1>2, NextPolled, PTL DEF Spec

-----------------------------------------------------------------------------
(***************************************************************************)
(* Order: what nodes acted on, then what is queued, never goes back to an  *)
(* earlier request, and the caller being served is the last one.           *)
(***************************************************************************)
OrderInv ==
    /\ ExecutedInOrder
    /\ \A i, j \in DOMAIN txQueue : i < j => txQueue[i].id <= txQueue[j].id
    /\ \A i \in DOMAIN executed, j \in DOMAIN txQueue : executed[i] <= txQueue[j].id
    /\ \A i \in DOMAIN executed : executed[i] <= Len(served)
    /\ \A j \in DOMAIN txQueue : txQueue[j].id <= Len(served)
    /\ \A c \in Clients : pc[c] \in HoldingPcs => mine[c] = Len(served)

\* The elements of a queue after a step at its end or at its head.
LEMMA AppendedElements ==
    ASSUME NEW S, NEW q \in Seq(S), NEW e \in S
    PROVE  /\ DOMAIN Append(q, e) = 1 .. Len(q) + 1
           /\ \A i \in 1 .. Len(q) : Append(q, e)[i] = q[i]
           /\ Append(q, e)[Len(q) + 1] = e
OBVIOUS

LEMMA TailElements ==
    ASSUME NEW S, NEW q \in Seq(S), q # <<>>
    PROVE  /\ DOMAIN Tail(q) = 1 .. Len(q) - 1
           /\ \A i \in 1 .. Len(q) - 1 : Tail(q)[i] = q[i + 1]
           /\ Head(q) = q[1]
           /\ Len(q) \in Nat /\ 1 <= Len(q)
           /\ DOMAIN q = 1 .. Len(q)
OBVIOUS

\* Every queued message names a request by its position.
LEMMA QueuedIds == TypeOK => \A j \in DOMAIN txQueue : txQueue[j].id \in Nat
<1>. SUFFICES ASSUME TypeOK, NEW j \in DOMAIN txQueue PROVE txQueue[j].id \in Nat OBVIOUS
<1>1. txQueue \in Seq(TxType) BY DEF TypeOK, TxType
<1>2. txQueue[j] \in TxType BY <1>1
<1>. QED BY <1>2 DEF TxType

\* Taking the first message off txQueue, written or lost.
LEMMA TakenOffTx ==
    ASSUME TypeOK, OrderInv, txQueue # <<>>, txQueue' = Tail(txQueue),
           UNCHANGED <<served, pc, mine>>,
           \/ UNCHANGED executed
           \/ executed' = Append(executed, Head(txQueue).id)
    PROVE  OrderInv'
<1>1. txQueue \in Seq(TxType) /\ executed \in Seq(Nat) BY DEF TypeOK, TxType
<1>2. /\ DOMAIN txQueue' = 1 .. Len(txQueue) - 1
      /\ \A i \in 1 .. Len(txQueue) - 1 : txQueue'[i] = txQueue[i + 1]
      /\ Head(txQueue) = txQueue[1]
      /\ Len(txQueue) \in Nat /\ 1 <= Len(txQueue)
      /\ DOMAIN txQueue = 1 .. Len(txQueue)
  BY <1>1, TailElements
<1>3. \A i \in 1 .. Len(txQueue) : txQueue[i].id \in Nat BY <1>2, QueuedIds
<1>4. \A i, j \in DOMAIN txQueue' : i < j => txQueue'[i].id <= txQueue'[j].id
  <2>. SUFFICES ASSUME NEW i \in 1 .. Len(txQueue) - 1, NEW j \in 1 .. Len(txQueue) - 1,
                       i < j
                PROVE  txQueue[i + 1].id <= txQueue[j + 1].id
    BY <1>2
  <2>1. i + 1 \in 1 .. Len(txQueue) /\ j + 1 \in 1 .. Len(txQueue) /\ i + 1 < j + 1
    BY <1>2
  <2>. QED BY <1>2, <2>1, Zenon DEF OrderInv
<1>5. \A j \in DOMAIN txQueue' : txQueue'[j].id <= Len(served') BY <1>2 DEF OrderInv
<1>6. \A j \in DOMAIN txQueue' : txQueue[1].id <= txQueue'[j].id BY <1>2 DEF OrderInv
<1>7. CASE UNCHANGED executed
  BY <1>2, <1>4, <1>5, <1>7 DEF OrderInv, ExecutedInOrder
<1>8. CASE executed' = Append(executed, Head(txQueue).id)
  <2>1. /\ DOMAIN executed' = 1 .. Len(executed) + 1
        /\ \A i \in 1 .. Len(executed) : executed'[i] = executed[i]
        /\ executed'[Len(executed) + 1] = txQueue[1].id
        /\ Len(executed) \in Nat /\ DOMAIN executed = 1 .. Len(executed)
    BY <1>1, <1>2, <1>3, <1>8, AppendedElements
  <2>2. ExecutedInOrder' BY <1>2, <1>3, <2>1 DEF OrderInv, ExecutedInOrder
  <2>3. \A i \in DOMAIN executed', j \in DOMAIN txQueue' : executed'[i] <= txQueue'[j].id
    BY <1>2, <1>6, <2>1 DEF OrderInv
  <2>4. \A i \in DOMAIN executed' : executed'[i] <= Len(served')
    BY <1>2, <2>1 DEF OrderInv
  <2>. QED BY <1>4, <1>5, <2>2, <2>3, <2>4 DEF OrderInv
<1>. QED BY <1>7, <1>8

\* Where the caller is has no influence on the order, unless it gets the mutex.
LEMMA MovedOn ==
    ASSUME TypeOK, OrderInv, UNCHANGED <<txQueue, executed, served, mine>>,
           \A c \in Clients : pc'[c] \in HoldingPcs => pc[c] \in HoldingPcs
    PROVE  OrderInv'
BY DEF OrderInv, ExecutedInOrder

LEMMA NextOrder == PolledInv /\ OrderInv /\ [Next]_vars => OrderInv'
<1>. SUFFICES ASSUME PolledInv, OrderInv, [Next]_vars PROVE OrderInv' OBVIOUS
<1>0. TypeOK /\ Mutex BY DEF PolledInv
<1>1. ASSUME NEW c \in Clients, Lock(c)
      PROVE  OrderInv'
  <2>1. /\ pc' = [pc EXCEPT ![c] = "drain"] /\ pc[c] = "lock"
        /\ served' = Append(served, request[c]) /\ mine' = [mine EXCEPT ![c] = Len(served')]
        /\ UNCHANGED <<txQueue, executed>>
        /\ \A d \in Clients : pc[d] \notin HoldingPcs
    BY <1>1 DEF Lock, MuFree, loopVars
  <2>2. request[c] \in Request /\ served \in Seq(Request) BY <1>0 DEF TypeOK
  <2>3. Len(served) \in Nat /\ Len(served') = Len(served) + 1 BY <2>1, <2>2
  <2>4. \A d \in Clients : pc'[d] \in HoldingPcs => mine'[d] = Len(served')
    BY <1>0, <2>1 DEF TypeOK
  <2>5. \A i \in DOMAIN executed : executed[i] \in Nat BY <1>0 DEF TypeOK
  <2>6. \A j \in DOMAIN txQueue : txQueue[j].id \in Nat BY <1>0, QueuedIds
  <2>. QED BY <2>1, <2>3, <2>4, <2>5, <2>6 DEF OrderInv, ExecutedInOrder
<1>2. ASSUME NEW c \in Clients, Send(c)
      PROVE  OrderInv'
  <2>. DEFINE m == [nad |-> request[c].nad, sid |-> request[c].sid, id |-> mine[c]]
  <2>1. /\ pc' = [pc EXCEPT ![c] = "wait"] /\ pc[c] = "drain"
        /\ txQueue' = Append(txQueue, m)
        /\ UNCHANGED <<served, mine, executed>>
    BY <1>2 DEF Send, loopVars
  <2>2. txQueue \in Seq(TxType) /\ m \in TxType
    BY <1>0 DEF TypeOK, TxType, Request
  <2>3. m.id = Len(served) BY <2>1 DEF OrderInv, HoldingPcs
  <2>4. /\ DOMAIN txQueue' = 1 .. Len(txQueue) + 1
        /\ \A i \in 1 .. Len(txQueue) : txQueue'[i] = txQueue[i]
        /\ txQueue'[Len(txQueue) + 1] = m
        /\ Len(txQueue) \in Nat /\ DOMAIN txQueue = 1 .. Len(txQueue)
    <3>. HIDE DEF m
    <3>. QED BY <2>1, <2>2, AppendedElements
  <2>5. Len(served) \in Nat BY <1>0 DEF TypeOK
  <2>. HIDE DEF m
  <2>6. \A i, j \in DOMAIN txQueue' : i < j => txQueue'[i].id <= txQueue'[j].id
    BY <2>3, <2>4, <2>5 DEF OrderInv
  <2>7. \A i \in DOMAIN executed, j \in DOMAIN txQueue' : executed[i] <= txQueue'[j].id
    BY <2>3, <2>4 DEF OrderInv
  <2>8. \A j \in DOMAIN txQueue' : txQueue'[j].id <= Len(served)
    BY <2>3, <2>4, <2>5 DEF OrderInv
  <2>9. \A d \in Clients : pc'[d] \in HoldingPcs => mine[d] = Len(served)
    BY <1>0, <2>1 DEF OrderInv, HoldingPcs, TypeOK
  <2>. QED BY <2>1, <2>6, <2>7, <2>8, <2>9 DEF OrderInv, ExecutedInOrder
<1>3. ASSUME NEW c \in Clients,
             \/ Call(c) \/ Drain(c) \/ SendFails(c) \/ TakesPending(c) \/ TakesOther(c)
             \/ ContextOver(c) \/ StopAwaiting(c)
             \/ pc[c] = "wait" /\ \E how : Ends(c, how)
      PROVE  OrderInv'
  <2>1. UNCHANGED <<txQueue, executed, served, mine>>
    BY <1>3 DEF Call, Drain, SendFails, TakesPending, TakesOther, ContextOver, StopAwaiting,
                Ends, callVars, loopVars
  <2>2. \/ UNCHANGED pc
        \/ pc' = [pc EXCEPT ![c] = "lock"] \/ pc' = [pc EXCEPT ![c] = "idle"]
        \/ pc[c] \in HoldingPcs /\ \E p : pc' = [pc EXCEPT ![c] = p]
    BY <1>3 DEF Call, Drain, SendFails, TakesPending, TakesOther, ContextOver, StopAwaiting,
                Ends, callVars, HoldingPcs
  <2>3. \A d \in Clients : pc'[d] \in HoldingPcs => pc[d] \in HoldingPcs
    BY <1>0, <2>2 DEF TypeOK, HoldingPcs
  <2>. QED BY <1>0, <2>1, <2>3, MovedOn
<1>4. CASE Write
  <2>1. /\ txQueue # <<>> /\ txQueue' = Tail(txQueue) /\ UNCHANGED <<served, pc, mine>>
        /\ UNCHANGED executed \/ executed' = Append(executed, Head(txQueue).id)
    BY <1>4 DEF Write, callVars
  <2>. QED BY <1>0, <2>1, TakenOffTx
<1>5. CASE Fails
  <2>1. /\ UNCHANGED <<served, pc, mine, executed>>
        /\ UNCHANGED txQueue \/ (txQueue # <<>> /\ txQueue' = Tail(txQueue))
    BY <1>5 DEF Fails, callVars
  <2>2. CASE UNCHANGED txQueue BY <1>0, <2>1, <2>2, MovedOn
  <2>3. CASE txQueue # <<>> /\ txQueue' = Tail(txQueue) BY <1>0, <2>1, <2>3, TakenOffTx
  <2>. QED BY <2>1, <2>2, <2>3
<1>6. CASE Read \/ Poll \/ Expire \/ Close \/ Closed \/ UNCHANGED vars
  <2>1. UNCHANGED <<txQueue, executed, served, mine, pc>>
    BY <1>6 DEF Read, Poll, Expire, Close, Closed, callVars, loopVars, vars
  <2>. QED BY <1>0, <2>1, MovedOn
<1>7. ASSUME NEW c \in Clients,
             TakesAnswer(c) \/ TakesError(c) \/ TakesClosed(c) \/ TimesOut(c) \/ ContextEnds(c)
      PROVE  pc[c] = "wait" /\ \E how : Ends(c, how)
  BY <1>7 DEF TakesAnswer, TakesError, TakesClosed, TimesOut, ContextEnds
<1>. QED BY <1>1, <1>2, <1>3, <1>4, <1>5, <1>6, <1>7 DEF Next, Client, Loop

\* Nodes act on requests in the order in which their callers got the mutex.
THEOREM OrderSafe == Spec => []ExecutedInOrder
<1>1. Init => PolledInv /\ OrderInv
  <2>. SUFFICES ASSUME Init PROVE PolledInv /\ OrderInv OBVIOUS
  <2>1. \A c \in Clients : pc[c] = "idle" BY DEF Init
  <2>2. awaiting = FALSE /\ txQueue = <<>> /\ executed = <<>> BY DEF Init
  <2>3. PolledInv
    BY <2>1, <2>2, InitTypes DEF PolledInv, Mutex, Flagged, HoldingPcs
  <2>4. OrderInv BY <2>1, <2>2 DEF OrderInv, ExecutedInOrder, HoldingPcs
  <2>. QED BY <2>3, <2>4
<1>2. OrderInv => ExecutedInOrder BY DEF OrderInv
<1>. QED BY <1>1, <1>2, NextPolled, NextOrder, PTL DEF Spec

-----------------------------------------------------------------------------
(***************************************************************************)
(* Repetition: a request is in the nodes' hands and in txQueue together no *)
(* more often than its caller has made attempts.                           *)
(***************************************************************************)
Where(q, id) == {i \in DOMAIN q : q[i] = id}
Times(q, id) == Cardinality(Where(q, id))
Ids(q) == [j \in DOMAIN q |-> q[j].id]
Sent(e, q, id) == Times(e, id) + Times(Ids(q), id)

LEMMA TimesType ==
    ASSUME NEW q \in Seq(Nat), NEW id
    PROVE  IsFiniteSet(Where(q, id)) /\ Times(q, id) \in Nat
<1>1. Where(q, id) \in SUBSET (1 .. Len(q)) BY DEF Where
<1>2. IsFiniteSet(1 .. Len(q)) BY FS_Interval
<1>3. IsFiniteSet(Where(q, id)) BY <1>1, <1>2, FS_Subset
<1>. QED BY <1>3, FS_CardinalityType DEF Times

LEMMA TimesAppend ==
    ASSUME NEW q \in Seq(Nat), NEW e \in Nat, NEW id
    PROVE  Times(Append(q, e), id) = IF e = id THEN Times(q, id) + 1 ELSE Times(q, id)
<1>. DEFINE n == Len(q) + 1
<1>1. /\ DOMAIN Append(q, e) = 1 .. n
      /\ \A i \in 1 .. Len(q) : Append(q, e)[i] = q[i]
      /\ Append(q, e)[n] = e
  BY AppendedElements
<1>2. Len(q) \in Nat /\ DOMAIN q = 1 .. Len(q) OBVIOUS
<1>3. n \notin Where(q, id) BY <1>2 DEF Where
<1>4. CASE e = id
  <2>1. Where(Append(q, e), id) = Where(q, id) \cup {n} BY <1>1, <1>2, <1>4 DEF Where
  <2>. HIDE DEF n
  <2>. QED BY <1>3, <1>4, <2>1, TimesType, FS_AddElement DEF Times
<1>5. CASE e # id
  <2>1. Where(Append(q, e), id) = Where(q, id) BY <1>1, <1>2, <1>5 DEF Where
  <2>. QED BY <1>5, <2>1 DEF Times
<1>. QED BY <1>4, <1>5

LEMMA TimesTail ==
    ASSUME NEW q \in Seq(Nat), q # <<>>, NEW id
    PROVE  Times(q, id) = IF Head(q) = id THEN Times(Tail(q), id) + 1 ELSE Times(Tail(q), id)
<1>. DEFINE A == Where(Tail(q), id)
            B == Where(q, id) \ {1}
            f == [i \in A |-> i + 1]
<1>1. /\ DOMAIN Tail(q) = 1 .. Len(q) - 1
      /\ \A i \in 1 .. Len(q) - 1 : Tail(q)[i] = q[i + 1]
      /\ Head(q) = q[1]
      /\ Len(q) \in Nat /\ 1 <= Len(q)
      /\ DOMAIN q = 1 .. Len(q)
  BY TailElements
<1>2. A \subseteq 1 .. Len(q) - 1 BY <1>1 DEF Where
<1>3. \A i \in A : f[i] \in B BY <1>1, <1>2 DEF Where
<1>4. \A j \in B : j - 1 \in A /\ f[j - 1] = j
  <2>. SUFFICES ASSUME NEW j \in B PROVE j - 1 \in A /\ f[j - 1] = j OBVIOUS
  <2>1. j \in 1 .. Len(q) /\ j # 1 /\ q[j] = id BY <1>1 DEF Where
  <2>2. j - 1 \in 1 .. Len(q) - 1 /\ (j - 1) + 1 = j BY <1>1, <2>1
  <2>3. j - 1 \in A BY <1>1, <2>1, <2>2 DEF Where
  <2>. QED BY <2>2, <2>3
<1>5. \A i, j \in A : f[i] = f[j] => i = j BY <1>2
<1>6. f \in Bijection(A, B)
  <2>1. f \in [A -> B] BY <1>3
  <2>2. f \in Injection(A, B) BY <1>5, <2>1 DEF Injection, IsInjective
  <2>3. f \in Surjection(A, B)
    <3>. HIDE DEF A, B, f
    <3>. QED BY <1>4, <2>1 DEF Surjection
  <2>. QED BY <2>2, <2>3 DEF Bijection
<1>7. IsFiniteSet(A) /\ IsFiniteSet(Where(q, id))
  <2>1. Tail(q) \in Seq(Nat) OBVIOUS
  <2>. QED BY <2>1, TimesType
<1>8. Cardinality(B) = Cardinality(A)
  <2>1. ExistsBijection(A, B) BY <1>6 DEF ExistsBijection
  <2>. HIDE DEF A, B, f
  <2>. QED BY <1>7, <2>1, FS_Bijection
<1>9. Cardinality(B) = IF 1 \in Where(q, id) THEN Cardinality(Where(q, id)) - 1
                                             ELSE Cardinality(Where(q, id))
  BY <1>7, FS_RemoveElement
<1>10. 1 \in Where(q, id) <=> Head(q) = id BY <1>1 DEF Where
<1>11. Cardinality(Where(q, id)) \in Nat BY <1>7, FS_CardinalityType
<1>. HIDE DEF B, f
<1>. QED BY <1>8, <1>9, <1>10, <1>11 DEF Times

RepeatInv ==
    /\ \A id \in 1 .. Len(served) : Sent(executed, txQueue, id) <= Allowed(served[id])
    /\ \A c \in Clients :
          pc[c] \in HoldingPcs =>
              /\ mine[c] \in 1 .. Len(served) /\ served[mine[c]] = request[c]
              /\ attempt[c] <= Retries(request[c])
              /\ Sent(executed, txQueue, mine[c])
                     <= attempt[c] + (IF pc[c] = "drain" THEN 0 ELSE 1)

\* The requests in txQueue, by number.
LEMMA IdsType ==
    ASSUME NEW q \in Seq(TxType)
    PROVE  Ids(q) \in Seq(Nat) /\ Len(Ids(q)) = Len(q)
<1>1. \A j \in 1 .. Len(q) : q[j].id \in Nat
  <2>. SUFFICES ASSUME NEW j \in 1 .. Len(q) PROVE q[j].id \in Nat OBVIOUS
  <2>1. q[j] \in TxType OBVIOUS
  <2>. QED BY <2>1 DEF TxType
<1>2. Len(q) \in Nat /\ DOMAIN q = 1 .. Len(q) OBVIOUS
<1>. QED BY <1>1, <1>2 DEF Ids

LEMMA IdsAppend ==
    ASSUME NEW q \in Seq(TxType), NEW m \in TxType
    PROVE  Ids(Append(q, m)) = Append(Ids(q), m.id)
<1>1. Append(q, m) \in Seq(TxType) /\ Len(Append(q, m)) = Len(q) + 1 BY Appended
<1>2. /\ Ids(q) \in Seq(Nat) /\ Len(Ids(q)) = Len(q)
      /\ Ids(Append(q, m)) \in Seq(Nat) /\ Len(Ids(Append(q, m))) = Len(q) + 1
  BY <1>1, IdsType
<1>3. \A i \in 1 .. Len(q) + 1 : Ids(Append(q, m))[i] = Append(Ids(q), m.id)[i]
  BY <1>1, <1>2 DEF Ids
<1>4. m.id \in Nat BY DEF TxType
<1>. QED BY <1>2, <1>3, <1>4

LEMMA IdsTail ==
    ASSUME NEW q \in Seq(TxType), q # <<>>
    PROVE  Ids(q) # <<>> /\ Ids(Tail(q)) = Tail(Ids(q)) /\ Head(Ids(q)) = Head(q).id
<1>1. Tail(q) \in Seq(TxType) /\ Len(Tail(q)) = Len(q) - 1 /\ 1 <= Len(q) OBVIOUS
<1>2. /\ Ids(q) \in Seq(Nat) /\ Len(Ids(q)) = Len(q)
      /\ Ids(Tail(q)) \in Seq(Nat) /\ Len(Ids(Tail(q))) = Len(q) - 1
  BY <1>1, IdsType
<1>3. Ids(q) # <<>> BY <1>1, <1>2
<1>4. Tail(Ids(q)) \in Seq(Nat) /\ Len(Tail(Ids(q))) = Len(q) - 1 BY <1>2, <1>3
<1>5. \A i \in 1 .. Len(q) - 1 : Ids(Tail(q))[i] = Tail(Ids(q))[i]
  <2>. SUFFICES ASSUME NEW i \in 1 .. Len(q) - 1
                PROVE  Ids(Tail(q))[i] = Tail(Ids(q))[i]
    OBVIOUS
  <2>1. Ids(Tail(q))[i] = Tail(q)[i].id BY <1>1, <1>2 DEF Ids
  <2>2. Tail(q)[i] = q[i + 1] /\ i + 1 \in DOMAIN q BY <1>1, TailElements
  <2>3. Tail(Ids(q))[i] = Ids(q)[i + 1] BY <1>2, <1>3
  <2>4. Ids(q)[i + 1] = q[i + 1].id BY <2>2 DEF Ids
  <2>. QED BY <2>1, <2>2, <2>3, <2>4
<1>6. Head(Ids(q)) = Head(q).id
  <2>1. Head(Ids(q)) = Ids(q)[1] BY <1>2, <1>3
  <2>2. 1 \in DOMAIN q /\ Head(q) = q[1] BY <1>1, TailElements
  <2>. QED BY <2>1, <2>2 DEF Ids
<1>7. Ids(Tail(q)) = Tail(Ids(q))
  <2>1. Len(Ids(Tail(q))) = Len(Tail(Ids(q))) BY <1>2, <1>4
  <2>2. \A i \in 1 .. Len(Ids(Tail(q))) : Ids(Tail(q))[i] = Tail(Ids(q))[i] BY <1>2, <1>5
  <2>. QED BY <1>2, <1>4, <2>1, <2>2, SeqEqual
<1>. QED BY <1>3, <1>6, <1>7

LEMMA SentType ==
    TypeOK => \A id : Sent(executed, txQueue, id) \in Nat
<1>. SUFFICES ASSUME TypeOK, NEW id PROVE Sent(executed, txQueue, id) \in Nat OBVIOUS
<1>1. executed \in Seq(Nat) /\ txQueue \in Seq(TxType) BY DEF TypeOK, TxType
<1>2. Ids(txQueue) \in Seq(Nat) BY <1>1, IdsType
<1>. QED BY <1>1, <1>2, TimesType DEF Sent

\* A message that leaves txQueue is acted on or lost: never counted twice.
LEMMA SentTaken ==
    ASSUME TypeOK, txQueue # <<>>, txQueue' = Tail(txQueue),
           \/ UNCHANGED executed
           \/ executed' = Append(executed, Head(txQueue).id)
    PROVE  \A id : Sent(executed', txQueue', id) <= Sent(executed, txQueue, id)
<1>. SUFFICES ASSUME NEW id
              PROVE  Sent(executed', txQueue', id) <= Sent(executed, txQueue, id)
  OBVIOUS
<1>1. executed \in Seq(Nat) /\ txQueue \in Seq(TxType) BY DEF TypeOK, TxType
<1>2. /\ Ids(txQueue) \in Seq(Nat) /\ Ids(txQueue) # <<>>
      /\ Ids(txQueue') = Tail(Ids(txQueue)) /\ Head(Ids(txQueue)) = Head(txQueue).id
  BY <1>1, IdsTail, IdsType
<1>3. Tail(Ids(txQueue)) \in Seq(Nat) /\ Head(txQueue).id \in Nat BY <1>2
<1>4. Times(Ids(txQueue), id) = IF Head(txQueue).id = id THEN Times(Ids(txQueue'), id) + 1
                                                       ELSE Times(Ids(txQueue'), id)
  BY <1>2, TimesTail
<1>5. \/ Times(executed', id) = Times(executed, id)
      \/ Times(executed', id) = IF Head(txQueue).id = id THEN Times(executed, id) + 1
                                                        ELSE Times(executed, id)
  <2>1. CASE UNCHANGED executed BY <2>1
  <2>2. CASE executed' = Append(executed, Head(txQueue).id)
    BY <1>1, <1>3, <2>2, TimesAppend
  <2>. QED BY <2>1, <2>2
<1>6. Times(executed, id) \in Nat /\ Times(Ids(txQueue'), id) \in Nat
  BY <1>1, <1>2, <1>3, TimesType
<1>. QED BY <1>4, <1>5, <1>6 DEF Sent

\* Sending adds one for the request sent.
LEMMA SentAdded ==
    ASSUME TypeOK, NEW m \in TxType, txQueue' = Append(txQueue, m), UNCHANGED executed
    PROVE  \A id : Sent(executed', txQueue', id)
                      = IF m.id = id THEN Sent(executed, txQueue, id) + 1
                                     ELSE Sent(executed, txQueue, id)
<1>. SUFFICES ASSUME NEW id
              PROVE  Sent(executed', txQueue', id)
                         = IF m.id = id THEN Sent(executed, txQueue, id) + 1
                                        ELSE Sent(executed, txQueue, id)
  OBVIOUS
<1>1. executed \in Seq(Nat) /\ txQueue \in Seq(TxType) BY DEF TypeOK, TxType
<1>2. Ids(txQueue) \in Seq(Nat) /\ m.id \in Nat BY <1>1, IdsType DEF TxType
<1>3. Ids(txQueue') = Append(Ids(txQueue), m.id) BY <1>1, IdsAppend
<1>4. Times(Ids(txQueue'), id) = IF m.id = id THEN Times(Ids(txQueue), id) + 1
                                              ELSE Times(Ids(txQueue), id)
  BY <1>2, <1>3, TimesAppend
<1>5. Times(executed, id) \in Nat /\ Times(Ids(txQueue), id) \in Nat
  BY <1>1, <1>2, TimesType
<1>. QED BY <1>4, <1>5 DEF Sent

\* A request that gets the mutex now has never been sent.
LEMMA NothingSent ==
    ASSUME TypeOK, OrderInv
    PROVE  Sent(executed, txQueue, Len(served) + 1) = 0
<1>. DEFINE id == Len(served) + 1
<1>1. Len(served) \in Nat BY DEF TypeOK
<1>2. \A i \in DOMAIN executed : executed[i] \in Nat /\ executed[i] # id
  BY <1>1 DEF OrderInv, TypeOK
<1>3. Where(executed, id) = {} BY <1>2 DEF Where
<1>4. \A j \in DOMAIN txQueue : txQueue[j].id \in Nat /\ txQueue[j].id # id
  BY <1>1, QueuedIds DEF OrderInv
<1>5. Where(Ids(txQueue), id) = {} BY <1>4 DEF Where, Ids
<1>. HIDE DEF id
<1>6. Times(executed, id) = 0 /\ Times(Ids(txQueue), id) = 0
  BY <1>3, <1>5, FS_EmptySet DEF Times
<1>7. Sent(executed, txQueue, id) = 0 BY <1>6 DEF Sent
<1>. QED BY <1>7 DEF id

LEMMA RetriesAllowed ==
    ASSUME NEW r \in Request
    PROVE  Retries(r) \in Nat /\ Allowed(r) = Retries(r) + 1
BY UdsAssumption DEF Retries, Allowed

\* The counts may only fall, the caller only loses the mutex.
LEMMA NotMoreSent ==
    ASSUME TypeOK, RepeatInv, UNCHANGED <<served, mine, attempt>>,
           \A id : Sent(executed', txQueue', id) \in Nat,
           \A id : Sent(executed', txQueue', id) <= Sent(executed, txQueue, id),
           \A c \in Clients :
               pc'[c] \in HoldingPcs =>
                   /\ pc[c] \in HoldingPcs /\ request'[c] = request[c]
                   /\ (pc'[c] = "drain") = (pc[c] = "drain")
    PROVE  RepeatInv'
<1>1. \A id : Sent(executed, txQueue, id) \in Nat BY SentType
<1>2. \A id \in 1 .. Len(served) : Allowed(served[id]) \in Nat
  <2>. SUFFICES ASSUME NEW id \in 1 .. Len(served) PROVE Allowed(served[id]) \in Nat OBVIOUS
  <2>1. served[id] \in Request BY DEF TypeOK
  <2>. QED BY <2>1, RetriesAllowed
<1>3. \A id \in 1 .. Len(served') : Sent(executed', txQueue', id) <= Allowed(served'[id])
  BY <1>1, <1>2 DEF RepeatInv
<1>. SUFFICES ASSUME NEW c \in Clients, pc'[c] \in HoldingPcs
              PROVE  /\ mine'[c] \in 1 .. Len(served') /\ served'[mine'[c]] = request'[c]
                     /\ attempt'[c] <= Retries(request'[c])
                     /\ Sent(executed', txQueue', mine'[c])
                            <= attempt'[c] + (IF pc'[c] = "drain" THEN 0 ELSE 1)
  BY <1>3 DEF RepeatInv
<1>4. /\ pc[c] \in HoldingPcs /\ request'[c] = request[c]
      /\ (pc'[c] = "drain") = (pc[c] = "drain")
  OBVIOUS
<1>5. /\ mine[c] \in 1 .. Len(served) /\ served[mine[c]] = request[c]
      /\ attempt[c] <= Retries(request[c])
      /\ Sent(executed, txQueue, mine[c]) <= attempt[c] + (IF pc[c] = "drain" THEN 0 ELSE 1)
  BY <1>4 DEF RepeatInv
<1>6. attempt[c] \in Nat BY UdsAssumption DEF TypeOK
<1>. QED BY <1>1, <1>4, <1>5, <1>6

\* A step that neither sends, nor takes the mutex, nor starts another attempt.
LEMMA QuietStep ==
    ASSUME TypeOK, TypeOK', RepeatInv, NEW c \in Clients,
           UNCHANGED <<served, mine, attempt, txQueue, executed>>,
           \/ UNCHANGED <<pc, request>>
           \/ pc' = [pc EXCEPT ![c] = "idle"] /\ UNCHANGED request
           \/ pc' = [pc EXCEPT ![c] = "lock"] /\ \E r : request' = [request EXCEPT ![c] = r]
           \/ pc[c] = "wait" /\ pc' = [pc EXCEPT ![c] = "stop"] /\ UNCHANGED request
    PROVE  RepeatInv'
<1>1. \A d \in Clients :
         pc'[d] \in HoldingPcs =>
             /\ pc[d] \in HoldingPcs /\ request'[d] = request[d]
             /\ (pc'[d] = "drain") = (pc[d] = "drain")
  BY DEF TypeOK, HoldingPcs
<1>2. \A id : Sent(executed', txQueue', id) \in Nat BY SentType
<1>3. \A id : Sent(executed', txQueue', id) <= Sent(executed, txQueue, id) BY SentType
<1>. QED BY <1>1, <1>2, <1>3, NotMoreSent

LEMMA NextRepeat == PolledInv /\ PolledInv' /\ OrderInv /\ RepeatInv /\ [Next]_vars => RepeatInv'
<1>. SUFFICES ASSUME PolledInv, PolledInv', OrderInv, RepeatInv, [Next]_vars
              PROVE  RepeatInv'
  OBVIOUS
<1>0. TypeOK /\ TypeOK' /\ Mutex BY DEF PolledInv
<1>a. \A id : Sent(executed, txQueue, id) \in Nat BY <1>0, SentType
<1>b. \A id : Sent(executed', txQueue', id) \in Nat
  <2>1. executed' \in Seq(Nat) /\ txQueue' \in Seq(TxType) BY <1>0 DEF TypeOK, TxType
  <2>2. Ids(txQueue') \in Seq(Nat) BY <2>1, IdsType
  <2>3. \A id : Times(executed', id) \in Nat /\ Times(Ids(txQueue'), id) \in Nat
    BY <2>1, <2>2, TimesType
  <2>. QED BY <2>3 DEF Sent
<1>c. Len(served) \in Nat /\ \A id \in 1 .. Len(served) : served[id] \in Request
  BY <1>0 DEF TypeOK
<1>1. ASSUME NEW c \in Clients, Lock(c)
      PROVE  RepeatInv'
  <2>1. /\ pc' = [pc EXCEPT ![c] = "drain"] /\ attempt' = [attempt EXCEPT ![c] = 0]
        /\ served' = Append(served, request[c]) /\ mine' = [mine EXCEPT ![c] = Len(served')]
        /\ UNCHANGED <<txQueue, executed, request>>
        /\ \A d \in Clients : pc[d] \notin HoldingPcs
    BY <1>1 DEF Lock, MuFree, loopVars
  <2>2. request[c] \in Request /\ served \in Seq(Request) BY <1>0 DEF TypeOK
  <2>3. /\ Len(served') = Len(served) + 1 /\ served'[Len(served) + 1] = request[c]
        /\ \A id \in 1 .. Len(served) : served'[id] = served[id]
    BY <2>1, <2>2
  <2>4. Retries(request[c]) \in Nat /\ Allowed(request[c]) = Retries(request[c]) + 1
    BY <2>2, RetriesAllowed
  <2>5. Sent(executed, txQueue, Len(served) + 1) = 0 BY <1>0, NothingSent
  <2>6. \A id \in 1 .. Len(served') : Sent(executed', txQueue', id) <= Allowed(served'[id])
    BY <1>c, <2>1, <2>3, <2>4, <2>5 DEF RepeatInv
  <2>7. ASSUME NEW d \in Clients, pc'[d] \in HoldingPcs
        PROVE  /\ mine'[d] \in 1 .. Len(served') /\ served'[mine'[d]] = request'[d]
               /\ attempt'[d] <= Retries(request'[d])
               /\ Sent(executed', txQueue', mine'[d])
                      <= attempt'[d] + (IF pc'[d] = "drain" THEN 0 ELSE 1)
    <3>1. d = c BY <1>0, <2>1, <2>7 DEF TypeOK
    <3>2. mine'[d] = Len(served) + 1 /\ attempt'[d] = 0 /\ request'[d] = request[c]
      BY <1>0, <2>1, <2>3, <3>1 DEF TypeOK
    <3>. QED BY <1>c, <2>1, <2>3, <2>4, <2>5, <3>2
  <2>. QED BY <2>6, <2>7 DEF RepeatInv
<1>2. ASSUME NEW c \in Clients, Send(c)
      PROVE  RepeatInv'
  <2>. DEFINE m == [nad |-> request[c].nad, sid |-> request[c].sid, id |-> mine[c]]
  <2>1. /\ pc' = [pc EXCEPT ![c] = "wait"] /\ pc[c] = "drain"
        /\ txQueue' = Append(txQueue, m)
        /\ UNCHANGED <<served, mine, attempt, request, executed>>
    BY <1>2 DEF Send, loopVars
  <2>2. m \in TxType BY <1>0 DEF TypeOK, TxType, Request
  <2>3. m.id = mine[c] OBVIOUS
  <2>. HIDE DEF m
  <2>4. \A id : Sent(executed', txQueue', id)
                    = IF mine[c] = id THEN Sent(executed, txQueue, id) + 1
                                      ELSE Sent(executed, txQueue, id)
    BY <1>0, <2>1, <2>2, <2>3, SentAdded
  <2>5. /\ mine[c] \in 1 .. Len(served) /\ served[mine[c]] = request[c]
        /\ attempt[c] <= Retries(request[c]) /\ Sent(executed, txQueue, mine[c]) <= attempt[c]
        /\ attempt[c] \in Nat
    <3>1. pc[c] = "drain" /\ pc[c] \in HoldingPcs BY <2>1 DEF HoldingPcs
    <3>2. attempt[c] \in Nat BY <1>0, UdsAssumption DEF TypeOK
    <3>3. /\ mine[c] \in 1 .. Len(served) /\ served[mine[c]] = request[c]
          /\ attempt[c] <= Retries(request[c])
          /\ Sent(executed, txQueue, mine[c]) <= attempt[c] + (IF pc[c] = "drain" THEN 0 ELSE 1)
      BY <3>1 DEF RepeatInv
    <3>. QED BY <3>1, <3>2, <3>3, <1>a
  <2>6. Retries(request[c]) \in Nat /\ Allowed(request[c]) = Retries(request[c]) + 1
    BY <1>0, RetriesAllowed DEF TypeOK
  <2>7. \A id \in 1 .. Len(served') : Sent(executed', txQueue', id) <= Allowed(served'[id])
    BY <1>a, <2>1, <2>4, <2>5, <2>6 DEF RepeatInv
  <2>8. ASSUME NEW d \in Clients, pc'[d] \in HoldingPcs
        PROVE  /\ mine'[d] \in 1 .. Len(served') /\ served'[mine'[d]] = request'[d]
               /\ attempt'[d] <= Retries(request'[d])
               /\ Sent(executed', txQueue', mine'[d])
                      <= attempt'[d] + (IF pc'[d] = "drain" THEN 0 ELSE 1)
    <3>1. d = c BY <1>0, <2>1, <2>8 DEF TypeOK, Mutex, HoldingPcs
    <3>2. pc'[c] = "wait" BY <1>0, <2>1 DEF TypeOK
    <3>. QED BY <1>a, <2>1, <2>4, <2>5, <3>1, <3>2
  <2>. QED BY <2>7, <2>8 DEF RepeatInv
<1>3. ASSUME NEW c \in Clients, StopAwaiting(c)
      PROVE  RepeatInv'
  <2>1. pc[c] = "stop" /\ UNCHANGED <<served, mine, request, txQueue, executed>>
    BY <1>3 DEF StopAwaiting, loopVars
  <2>2. CASE GoesOn(c)
    <3>1. /\ pc' = [pc EXCEPT ![c] = "drain"] /\ attempt' = [attempt EXCEPT ![c] = @ + 1]
          /\ attempt[c] < Retries(request[c])
      BY <1>3, <2>2 DEF StopAwaiting, GoesOn
    <3>2. /\ mine[c] \in 1 .. Len(served) /\ served[mine[c]] = request[c]
          /\ Sent(executed, txQueue, mine[c]) <= attempt[c] + 1
          /\ attempt[c] \in Nat
      BY <1>0, <2>1, UdsAssumption DEF RepeatInv, HoldingPcs, TypeOK
    <3>3. Retries(request[c]) \in Nat BY <1>0, RetriesAllowed DEF TypeOK
    <3>4. ASSUME NEW d \in Clients, pc'[d] \in HoldingPcs
          PROVE  /\ mine'[d] \in 1 .. Len(served') /\ served'[mine'[d]] = request'[d]
                 /\ attempt'[d] <= Retries(request'[d])
                 /\ Sent(executed', txQueue', mine'[d])
                        <= attempt'[d] + (IF pc'[d] = "drain" THEN 0 ELSE 1)
      <4>1. d = c BY <1>0, <2>1, <3>1, <3>4 DEF TypeOK, Mutex, HoldingPcs
      <4>2. pc'[c] = "drain" /\ attempt'[c] = attempt[c] + 1 BY <1>0, <3>1 DEF TypeOK
      <4>. QED BY <1>a, <2>1, <3>1, <3>2, <3>3, <4>1, <4>2
    <3>. QED BY <2>1, <3>4 DEF RepeatInv
  <2>3. CASE ~GoesOn(c)
    <3>1. pc' = [pc EXCEPT ![c] = "idle"] /\ UNCHANGED attempt
      BY <1>3, <2>3 DEF StopAwaiting
    <3>. QED BY <1>0, <2>1, <3>1, QuietStep
  <2>. QED BY <2>2, <2>3
<1>4. ASSUME NEW c \in Clients, Call(c)
      PROVE  RepeatInv'
  <2>1. /\ pc' = [pc EXCEPT ![c] = "lock"] /\ \E r : request' = [request EXCEPT ![c] = r]
        /\ UNCHANGED <<served, mine, attempt, txQueue, executed>>
    BY <1>4 DEF Call, loopVars
  <2>. QED BY <1>0, <2>1, QuietStep
<1>5. ASSUME NEW c \in Clients, SendFails(c)
      PROVE  RepeatInv'
  <2>1. /\ pc' = [pc EXCEPT ![c] = "idle"] /\ UNCHANGED request
        /\ UNCHANGED <<served, mine, attempt, txQueue, executed>>
    BY <1>5 DEF SendFails, loopVars
  <2>. QED BY <1>0, <2>1, QuietStep
<1>6. ASSUME NEW c \in Clients, pc[c] = "wait", NEW how, Ends(c, how)
      PROVE  RepeatInv'
  <2>1. /\ pc' = [pc EXCEPT ![c] = "stop"] /\ UNCHANGED request
        /\ UNCHANGED <<served, mine, attempt, txQueue, executed>>
    BY <1>6 DEF Ends, loopVars
  <2>. QED BY <1>0, <1>6, <2>1, QuietStep
<1>7. ASSUME NEW c \in Clients,
             Drain(c) \/ TakesPending(c) \/ TakesOther(c) \/ ContextOver(c)
      PROVE  RepeatInv'
  <2>1. UNCHANGED <<pc, request, served, mine, attempt, txQueue, executed>>
    BY <1>7 DEF Drain, TakesPending, TakesOther, ContextOver, callVars, loopVars
  <2>. QED BY <1>0, <2>1, QuietStep
<1>8. ASSUME UNCHANGED <<pc, request, served, mine, attempt>>,
             \A id : Sent(executed', txQueue', id) <= Sent(executed, txQueue, id)
      PROVE  RepeatInv'
  BY <1>0, <1>b, <1>8, NotMoreSent
<1>9. CASE Write
  <2>1. /\ txQueue # <<>> /\ txQueue' = Tail(txQueue)
        /\ UNCHANGED <<pc, request, served, mine, attempt>>
        /\ UNCHANGED executed \/ executed' = Append(executed, Head(txQueue).id)
    BY <1>9 DEF Write, callVars
  <2>. QED BY <1>0, <1>8, <2>1, SentTaken
<1>10. CASE Fails
  <2>1. /\ UNCHANGED <<pc, request, served, mine, attempt, executed>>
        /\ UNCHANGED txQueue \/ (txQueue # <<>> /\ txQueue' = Tail(txQueue))
    BY <1>10 DEF Fails, callVars
  <2>2. CASE UNCHANGED txQueue BY <1>8, <1>a, <2>1, <2>2
  <2>3. CASE txQueue # <<>> /\ txQueue' = Tail(txQueue) BY <1>0, <1>8, <2>1, <2>3, SentTaken
  <2>. QED BY <2>1, <2>2, <2>3
<1>11. CASE Read \/ Poll \/ Expire \/ Close \/ Closed \/ UNCHANGED vars
  <2>1. UNCHANGED <<pc, request, served, mine, attempt, txQueue, executed>>
    BY <1>11 DEF Read, Poll, Expire, Close, Closed, callVars, loopVars, vars
  <2>. QED BY <1>8, <1>a, <2>1
<1>12. ASSUME NEW c \in Clients,
              TakesAnswer(c) \/ TakesError(c) \/ TakesClosed(c) \/ TimesOut(c) \/ ContextEnds(c)
       PROVE  pc[c] = "wait" /\ \E how : Ends(c, how)
  BY <1>12 DEF TakesAnswer, TakesError, TakesClosed, TimesOut, ContextEnds
<1>. QED
  BY <1>1, <1>2, <1>3, <1>4, <1>5, <1>6, <1>7, <1>9, <1>10, <1>11, <1>12 DEF Next, Client, Loop

LEMMA InvariantsStart == Init => PolledInv /\ OrderInv /\ RepeatInv
<1>. SUFFICES ASSUME Init PROVE PolledInv /\ OrderInv /\ RepeatInv OBVIOUS
<1>1. \A c \in Clients : pc[c] = "idle" BY DEF Init
<1>2. awaiting = FALSE /\ txQueue = <<>> /\ executed = <<>> /\ served = <<>> BY DEF Init
<1>3. PolledInv
  BY <1>1, <1>2, InitTypes DEF PolledInv, Mutex, Flagged, HoldingPcs
<1>4. OrderInv BY <1>1, <1>2 DEF OrderInv, ExecutedInOrder, HoldingPcs
<1>5. RepeatInv BY <1>1, <1>2 DEF RepeatInv, HoldingPcs
<1>. QED BY <1>3, <1>4, <1>5

\* No request is acted on more often than its caller allowed.
THEOREM RepetitionSafe == Spec => []NotRepeated
<1>1. Init => PolledInv /\ OrderInv /\ RepeatInv BY InvariantsStart
<1>2. TypeOK /\ RepeatInv => NotRepeated
  <2>. SUFFICES ASSUME TypeOK, RepeatInv, NEW id \in 1 .. Len(served)
                PROVE  Times(executed, id) <= Allowed(served[id])
    BY DEF NotRepeated, Times, Where
  <2>1. Sent(executed, txQueue, id) <= Allowed(served[id]) BY DEF RepeatInv
  <2>2. executed \in Seq(Nat) /\ txQueue \in Seq(TxType) BY DEF TypeOK, TxType
  <2>3. Times(executed, id) \in Nat /\ Times(Ids(txQueue), id) \in Nat
    BY <2>2, TimesType, IdsType
  <2>4. served[id] \in Request BY DEF TypeOK
  <2>5. Allowed(served[id]) \in Nat BY <2>4, RetriesAllowed
  <2>. QED BY <2>1, <2>3, <2>5 DEF Sent
<1>3. PolledInv => TypeOK BY DEF PolledInv
<1>. QED BY <1>1, <1>2, <1>3, NextPolled, NextOrder, NextRepeat, PTL DEF Spec

-----------------------------------------------------------------------------
(***************************************************************************)
(* The service: what the client promises when answers come in time.        *)
(***************************************************************************)
Final(m) == m.kind \in {"positive", "negative"}

\* Waits end only when nothing can come any more, drivers do not fail, nobody
\* asks all nodes or a stranger, what a node says last is its final answer, and
\* rxQueue holds whatever it says to one request.
Timely ==
    /\ Patient /\ MaxFailures = 0 /\ ~Endless
    /\ \A script \in Scripts : Len(script) <= RxQueueSize
    /\ \A r \in Requests : r.nad \notin {Broadcast, Stranger}
    /\ \A script \in Scripts : \A i \in DOMAIN script :
          script[i] \in {"positive", "negative"} => i = Len(script)

\* An answer to the request being served, which was acted on, or a stranger's.
Ours(m) ==
    IF m.kind = "foreign" THEN m.nad = Stranger
    ELSE m.to = Len(served) /\ \E i \in DOMAIN executed : executed[i] = Len(served)

\* rxQueue has room for all that can still come.
Fits == Len(rxQueue) + Len(driver) + Len(coming) <= RxQueueSize

\* While a caller waits, its request or the answers to it are all there is,
\* nothing follows a final answer, and rxQueue has room for them.
OnTheWay ==
    /\ Fits
    /\ \/ txQueue = <<>>
       \/ /\ Len(txQueue) = 1 /\ txQueue[1].id = Len(served)
          /\ rxQueue = <<>> /\ driver = <<>> /\ coming = <<>>
    /\ \A i \in DOMAIN rxQueue :
          /\ Ours(rxQueue[i])
          /\ Final(rxQueue[i]) => i = Len(rxQueue) /\ driver = <<>> /\ coming = <<>>
    /\ \A i \in DOMAIN driver :
          Ours(driver[i]) /\ (Final(driver[i]) => i = Len(driver) /\ coming = <<>>)
    /\ \A i \in DOMAIN coming :
          Ours(coming[i]) /\ (Final(coming[i]) => i = Len(coming))

Waited == \E c \in Clients : pc[c] = "wait"

\* A caller's context ends at rest, and its call then fails.
Contexts ==
    \A c \in Clients :
        /\ pc[c] # "idle" => request[c] \in Requests
        /\ ended[c] => \/ pc[c] = "idle"
                       \/ pc[c] = "wait" /\ Quiet
                       \/ pc[c] = "stop" /\ outcome[c] # "timeout"

TimelyInv ==
    /\ errors = 0
    /\ Contexts
    /\ Waited => OnTheWay
    /\ ~Waited /\ life # "closed" => Quiet

\* A request is being served.
Open == \E c \in Clients : pc[c] \in {"drain", "wait"} \/ GoesOn(c)

ServiceStep == [Service!Next]_(Service!vars)

\* The steps of the service.
LEMMA ServiceStutters ==
    ASSUME UNCHANGED <<served, executed, answers>>, Open' = Open
    PROVE  ServiceStep
BY DEF ServiceStep, Service!vars, Open

LEMMA ServiceFails ==
    ASSUME UNCHANGED <<served, executed, answers>>, Open, ~Open'
    PROVE  ServiceStep
BY DEF ServiceStep, Service!Next, Service!Fail, Open

\* What is open is the business of the caller that holds requestMu.
LEMMA OpenIs ==
    ASSUME Mutex, NEW c \in Clients, pc[c] \in HoldingPcs
    PROVE  Open <=> pc[c] \in {"drain", "wait"} \/ GoesOn(c)
BY DEF Open, GoesOn, Mutex, HoldingPcs

\* The caller that waits holds requestMu, for the request taken up last.
LEMMA Waiter ==
    ASSUME PolledInv, OrderInv, NEW c \in Clients, pc[c] \in HoldingPcs
    PROVE  /\ mine[c] = Len(served)
           /\ \A d \in Clients : d # c => pc[d] \notin HoldingPcs
           /\ Waited <=> pc[c] = "wait"
           /\ Open <=> pc[c] \in {"drain", "wait"} \/ GoesOn(c)
<1>1. Mutex BY DEF PolledInv
<1>2. \A d \in Clients : d # c => pc[d] \notin HoldingPcs BY <1>1, Zenon DEF Mutex
<1>. QED BY <1>1, <1>2, OpenIs DEF OrderInv, Waited, HoldingPcs

LEMMA NothingFits == rxQueue = <<>> /\ driver = <<>> /\ coming = <<>> => Fits
BY UdsAssumption DEF Fits

\* Nothing on its way satisfies every bound on it.
LEMMA QuietOnWay == Quiet => OnTheWay
BY NothingFits DEF Quiet, OnTheWay

LEMMA QueuesKept ==
    ASSUME UNCHANGED <<txQueue, rxQueue, driver, coming, served, executed>>
    PROVE  OnTheWay' = OnTheWay /\ Quiet' = Quiet
BY DEF OnTheWay, Fits, Quiet, Ours

\* A caller that is idle again or asks anew touches nothing that is on its way.
LEMMA TimelyCall ==
    ASSUME PolledInv, TimelyInv, NEW c \in Clients, Call(c)
    PROVE  TimelyInv' /\ ServiceStep
<1>1. /\ pc[c] = "idle" /\ pc' = [pc EXCEPT ![c] = "lock"]
      /\ \E r \in Requests : request' = [request EXCEPT ![c] = r]
      /\ ended' = [ended EXCEPT ![c] = FALSE]
      /\ UNCHANGED <<outcome, attempt, txQueue, rxQueue, driver, coming, served, executed,
                     answers, errors, life>>
  BY DEF Call, loopVars
<1>2. TypeOK BY DEF PolledInv
<1>3. \A d \in Clients : /\ pc'[d] = IF d = c THEN "lock" ELSE pc[d]
                         /\ d # c => request'[d] = request[d] /\ ended'[d] = ended[d]
                         /\ d = c => request'[d] \in Requests /\ ended'[d] = FALSE
  BY <1>1, <1>2 DEF TypeOK
<1>4. Waited' = Waited BY <1>1, <1>3 DEF Waited
<1>5. Open' = Open
  <2>1. \A d \in Clients : GoesOn(d)' = GoesOn(d) BY <1>1, <1>3 DEF GoesOn
  <2>. QED BY <1>1, <1>3, <2>1 DEF Open
<1>6. Contexts' BY <1>1, <1>3, QueuesKept DEF TimelyInv, Contexts
<1>. QED BY <1>1, <1>4, <1>5, <1>6, QueuesKept, ServiceStutters DEF TimelyInv

\* Whoever gets requestMu begins the next request, with nothing left of others.
LEMMA TimelyLock ==
    ASSUME PolledInv, TimelyInv, NEW c \in Clients, Lock(c)
    PROVE  TimelyInv' /\ ServiceStep
<1>1. /\ pc[c] = "lock" /\ pc' = [pc EXCEPT ![c] = "drain"]
      /\ served' = Append(served, request[c])
      /\ UNCHANGED <<request, ended, outcome, txQueue, rxQueue, driver, coming, executed,
                     answers, errors, life>>
      /\ \A d \in Clients : pc[d] \notin HoldingPcs
  BY DEF Lock, MuFree, loopVars
<1>2. TypeOK BY DEF PolledInv
<1>3. \A d \in Clients : pc'[d] = IF d = c THEN "drain" ELSE pc[d] BY <1>1, <1>2 DEF TypeOK
<1>4. ~Waited /\ ~Waited' BY <1>1, <1>3 DEF Waited, HoldingPcs
<1>5. Contexts' BY <1>1, <1>3, <1>4 DEF TimelyInv, Contexts, Quiet
<1>6. TimelyInv' BY <1>1, <1>4, <1>5 DEF TimelyInv, Quiet
<1>7. ~Open /\ Open' BY <1>1, <1>3 DEF Open, GoesOn, HoldingPcs
<1>8. /\ Len(served') = Len(served) + 1 /\ served'[Len(served) + 1] \in Request
      /\ served = SubSeq(served', 1, Len(served))
  BY <1>1, <1>2 DEF TypeOK
<1>9. Service!Begin BY <1>1, <1>7, <1>8 DEF Service!Begin, Service!Last, Open
<1>. QED BY <1>6, <1>9 DEF ServiceStep, Service!Next

\* Only a request of a closed transport leaves answers to drain.
LEMMA TimelyDrain ==
    ASSUME PolledInv, OrderInv, TimelyInv, NEW c \in Clients, Drain(c)
    PROVE  TimelyInv' /\ ServiceStep
<1>1. /\ pc[c] = "drain" /\ rxQueue # <<>>
      /\ UNCHANGED <<pc, request, attempt, ended, outcome, served, answers, executed, errors,
                     life>>
  BY DEF Drain, callVars, loopVars
<1>2. ~Waited /\ Open' = Open
  BY <1>1, Waiter DEF HoldingPcs, Open, GoesOn
<1>3. ~Waited' BY <1>1, <1>2 DEF Waited
<1>4. life = "closed" BY <1>1, <1>2 DEF TimelyInv, Quiet
<1>5. Contexts' BY <1>1, <1>2 DEF TimelyInv, Contexts, Waited
<1>. QED BY <1>1, <1>2, <1>3, <1>4, <1>5, ServiceStutters DEF TimelyInv

\* The request is put on a link where nothing else is.
LEMMA TimelySend ==
    ASSUME PolledInv, OrderInv, TimelyInv, NEW c \in Clients, Send(c)
    PROVE  TimelyInv' /\ ServiceStep
<1>. DEFINE m == [nad |-> request[c].nad, sid |-> request[c].sid, id |-> mine[c]]
<1>1. /\ pc[c] = "drain" /\ pc' = [pc EXCEPT ![c] = "wait"]
      /\ life = "open" /\ txQueue' = Append(txQueue, m)
      /\ UNCHANGED <<request, attempt, ended, outcome, served, answers, rxQueue, driver, coming,
                     executed, errors, life>>
  BY DEF Send, Admits, loopVars
<1>2. TypeOK BY DEF PolledInv
<1>3. /\ mine[c] = Len(served) /\ ~Waited /\ Open
      /\ \A d \in Clients : d # c => pc[d] \notin HoldingPcs
  BY <1>1, Waiter DEF HoldingPcs
<1>4. Quiet BY <1>1, <1>3 DEF TimelyInv
<1>5. \A d \in Clients : pc'[d] = IF d = c THEN "wait" ELSE pc[d] BY <1>1, <1>2 DEF TypeOK
<1>6. Waited' /\ Open' BY <1>5 DEF Waited, Open
<1>7. Contexts' BY <1>1, <1>3, <1>5 DEF TimelyInv, Contexts, HoldingPcs
<1>8. Len(txQueue') = 1 /\ txQueue'[1] = m BY <1>1, <1>4 DEF Quiet
<1>9. OnTheWay'
  <2>1. Fits /\ Fits' BY <1>1, <1>4, NothingFits DEF Fits, Quiet
  <2>. QED BY <1>1, <1>3, <1>4, <1>8, <2>1 DEF OnTheWay, Quiet
<1>. QED BY <1>1, <1>3, <1>6, <1>7, <1>9, ServiceStutters DEF TimelyInv

\* A request that is refused has failed.
LEMMA TimelySendFails ==
    ASSUME PolledInv, OrderInv, TimelyInv, NEW c \in Clients, SendFails(c)
    PROVE  TimelyInv' /\ ServiceStep
<1>1. /\ pc[c] = "drain" /\ pc' = [pc EXCEPT ![c] = "idle"]
      /\ UNCHANGED <<request, attempt, ended, served, answers, txQueue, rxQueue, driver, coming,
                     executed, errors, life>>
      /\ outcome' = [outcome EXCEPT ![c] = "transport"]
  BY DEF SendFails, loopVars
<1>2. TypeOK BY DEF PolledInv
<1>3. ~Waited /\ Open /\ \A d \in Clients : d # c => pc[d] \notin HoldingPcs
  BY <1>1, Waiter DEF HoldingPcs
<1>4. \A d \in Clients : /\ pc'[d] = IF d = c THEN "idle" ELSE pc[d]
                         /\ d # c => outcome'[d] = outcome[d]
  BY <1>1, <1>2 DEF TypeOK
<1>5. ~Waited' /\ ~Open' BY <1>3, <1>4 DEF Waited, Open, GoesOn, HoldingPcs
<1>6. Contexts' BY <1>1, <1>4, QueuesKept DEF TimelyInv, Contexts
<1>. QED BY <1>1, <1>3, <1>5, <1>6, QueuesKept, ServiceFails DEF TimelyInv

\* However a wait ends, nothing is left on its way, or nobody will look.
LEMMA WaitEnded ==
    ASSUME PolledInv, OrderInv, TimelyInv, NEW c \in Clients, NEW how, pc[c] = "wait",
           Ends(c, how), errors' = 0, how = "timeout" => ~ended[c],
           life # "closed" => Quiet'
    PROVE  TimelyInv' /\ Open /\ (Open' <=> GoesOn(c)')
<1>1. /\ pc' = [pc EXCEPT ![c] = "stop"] /\ outcome' = [outcome EXCEPT ![c] = how]
      /\ UNCHANGED <<request, attempt, ended, served, life>>
  BY DEF Ends
<1>2. TypeOK BY DEF PolledInv
<1>3. Open /\ \A d \in Clients : d # c => pc[d] \notin HoldingPcs
  BY Waiter DEF HoldingPcs
<1>4. \A d \in Clients : /\ pc'[d] = IF d = c THEN "stop" ELSE pc[d]
                         /\ d # c => outcome'[d] = outcome[d]
                         /\ d = c => outcome'[d] = how
  BY <1>1, <1>2 DEF TypeOK
<1>5. ~Waited' /\ (Open' <=> GoesOn(c)')
  <2>1. \A d \in Clients : d # c => pc'[d] \notin {"drain", "wait", "stop"}
    BY <1>3, <1>4 DEF HoldingPcs
  <2>2. pc'[c] = "stop" BY <1>4
  <2>. QED BY <2>1, <2>2 DEF Waited, Open, GoesOn
<1>6. Contexts'
  <2>. SUFFICES ASSUME NEW d \in Clients
                PROVE  /\ pc'[d] # "idle" => request'[d] \in Requests
                       /\ ended'[d] => \/ pc'[d] = "idle"
                                       \/ pc'[d] = "wait" /\ Quiet'
                                       \/ pc'[d] = "stop" /\ outcome'[d] # "timeout"
    BY DEF Contexts
  <2>1. CASE d = c BY <1>1, <1>4, <2>1 DEF TimelyInv, Contexts
  <2>2. CASE d # c BY <1>1, <1>3, <1>4, <2>2 DEF TimelyInv, Contexts, HoldingPcs
  <2>. QED BY <2>1, <2>2
<1>. QED BY <1>1, <1>3, <1>5, <1>6 DEF TimelyInv

LEMMA NoElement == ASSUME NEW S, NEW q \in Seq(S), Len(q) = 0 PROVE q = <<>>
OBVIOUS

\* The oldest of the answers and the ones behind it.
LEMMA Oldest ==
    ASSUME TypeOK, OnTheWay, rxQueue # <<>>
    PROVE  /\ txQueue = <<>>
           /\ Head(rxQueue) \in Message /\ Ours(Head(rxQueue))
           /\ Final(Head(rxQueue)) => Tail(rxQueue) = <<>> /\ driver = <<>> /\ coming = <<>>
<1>1. rxQueue \in Seq(Message) BY DEF TypeOK
<1>2. /\ DOMAIN Tail(rxQueue) = 1 .. Len(rxQueue) - 1
      /\ Head(rxQueue) = rxQueue[1]
      /\ Len(rxQueue) \in Nat /\ 1 <= Len(rxQueue)
      /\ DOMAIN rxQueue = 1 .. Len(rxQueue)
  BY <1>1, TailElements
<1>3. Tail(rxQueue) \in Seq(Message) /\ Len(Tail(rxQueue)) = Len(rxQueue) - 1 BY <1>1
<1>4. Len(rxQueue) = 1 => Tail(rxQueue) = <<>>
  <2>1. \A q \in Seq(Message) : Len(q) = 0 => q = <<>> BY NoElement
  <2>2. Len(rxQueue) = 1 => Len(Tail(rxQueue)) = 0 BY <1>3
  <2>. QED BY <1>3, <2>1, <2>2, Zenon
<1>5. Head(rxQueue) \in Message BY <1>1
<1>. QED BY <1>2, <1>4, <1>5 DEF OnTheWay

\* An answer was given to the request being served.
LEMMA TimelyAnswer ==
    ASSUME Timely, PolledInv, OrderInv, TimelyInv, NEW c \in Clients, TakesAnswer(c)
    PROVE  TimelyInv' /\ ServiceStep
<1>. DEFINE m == Head(rxQueue)
<1>1. /\ pc[c] = "wait" /\ rxQueue # <<>> /\ IsAnswer(request[c], m)
      /\ answers' = answers \cup {<<mine[c], m.to>>}
      /\ rxQueue' = Tail(rxQueue) /\ UNCHANGED errors
      /\ Ends(c, "answer")
  BY DEF TakesAnswer
<1>2. TypeOK BY DEF PolledInv
<1>3. /\ mine[c] = Len(served) /\ OnTheWay
  BY <1>1, Waiter DEF HoldingPcs, TimelyInv
<1>4. /\ txQueue = <<>> /\ Ours(m)
      /\ Final(m) => Tail(rxQueue) = <<>> /\ driver = <<>> /\ coming = <<>>
  BY <1>1, <1>2, <1>3, Oldest
<1>5. request[c].nad \notin {Broadcast, Stranger}
  BY <1>1 DEF TimelyInv, Contexts, Timely
<1>. HIDE DEF m
<1>6. m.nad # Stranger /\ m.kind \in {"positive", "negative", "foreign"}
  BY <1>1, <1>5 DEF IsAnswer, FromTarget
<1>7. /\ Final(m) /\ m.to = Len(served)
      /\ \E i \in DOMAIN executed : executed[i] = Len(served)
  BY <1>4, <1>6 DEF Ours, Final
<1>8. Quiet' BY <1>1, <1>4, <1>7 DEF Quiet, Ends, loopVars
<1>9. TimelyInv' /\ Open /\ (Open' <=> GoesOn(c)')
  <2>1. errors' = 0 BY <1>1 DEF TimelyInv
  <2>. QED BY <1>1, <1>8, <2>1, WaitEnded
<1>10. ~Open'
  <2>1. outcome'[c] = "answer" BY <1>1, <1>2 DEF Ends, TypeOK
  <2>. QED BY <1>9, <2>1 DEF GoesOn
<1>11. Service!Count(Service!Last) > 0
  <2>1. executed \in Seq(Nat) BY <1>2 DEF TypeOK
  <2>2. Where(executed, Len(served)) # {} BY <1>7 DEF Where
  <2>3. Times(executed, Len(served)) > 0
    BY <2>1, <2>2, TimesType, FS_EmptySet DEF Times
  <2>4. Service!Count(Len(served)) = Times(executed, Len(served))
    BY DEF Service!Count, Times, Where, Service!Cardinality, Cardinality
  <2>. QED BY <2>3, <2>4 DEF Service!Last
<1>12. Service!Answer
  <2>1. UNCHANGED <<served, executed>> BY <1>1 DEF Ends, loopVars
  <2>2. answers' = answers \cup {<<Len(served), Len(served)>>} BY <1>1, <1>3, <1>7
  <2>. QED BY <1>9, <1>10, <1>11, <2>1, <2>2 DEF Service!Answer, Service!Last, Open
<1>. QED BY <1>9, <1>12 DEF ServiceStep, Service!Next

\* Response pending and what is not for the caller leave it waiting.
LEMMA TimelyWaitsOn ==
    ASSUME PolledInv, OrderInv, TimelyInv, NEW c \in Clients, TakesPending(c) \/ TakesOther(c)
    PROVE  TimelyInv' /\ ServiceStep
<1>1. /\ pc[c] = "wait" /\ rxQueue # <<>> /\ rxQueue' = Tail(rxQueue)
      /\ UNCHANGED <<pc, request, attempt, ended, outcome, served, answers, txQueue, driver,
                     coming, executed, errors, life>>
  BY DEF TakesPending, TakesOther, callVars, loopVars
<1>2. TypeOK /\ Waited /\ Waited' BY <1>1 DEF PolledInv, Waited
<1>3. Open' = Open BY <1>1 DEF Open, GoesOn
<1>4. OnTheWay BY <1>2 DEF TimelyInv
<1>5. OnTheWay'
  <2>1. rxQueue \in Seq(Message) BY <1>2 DEF TypeOK
  <2>2. /\ DOMAIN Tail(rxQueue) = 1 .. Len(rxQueue) - 1
        /\ \A i \in 1 .. Len(rxQueue) - 1 : Tail(rxQueue)[i] = rxQueue[i + 1]
        /\ Len(rxQueue) \in Nat /\ 1 <= Len(rxQueue)
        /\ DOMAIN rxQueue = 1 .. Len(rxQueue)
        /\ Len(Tail(rxQueue)) = Len(rxQueue) - 1
    BY <1>1, <2>1, TailElements
  <2>3. txQueue = <<>> BY <1>1, <1>2, <1>4, Oldest
  <2>4. ASSUME NEW i \in DOMAIN rxQueue'
        PROVE  /\ Ours(rxQueue'[i])
               /\ Final(rxQueue'[i]) => i = Len(rxQueue') /\ driver = <<>> /\ coming = <<>>
    <3>1. i + 1 \in DOMAIN rxQueue /\ rxQueue'[i] = rxQueue[i + 1] BY <1>1, <2>2
    <3>2. /\ Ours(rxQueue[i + 1])
          /\ Final(rxQueue[i + 1]) =>
                i + 1 = Len(rxQueue) /\ driver = <<>> /\ coming = <<>>
      BY <1>4, <3>1, Zenon DEF OnTheWay
    <3>3. i \in 1 .. Len(rxQueue) - 1 /\ Len(rxQueue') = Len(rxQueue) - 1 BY <1>1, <2>2
    <3>. QED BY <2>2, <3>1, <3>2, <3>3
  <2>5. Fits'
    <3>1. Len(driver) \in Nat /\ Len(coming) \in Nat BY <1>2 DEF TypeOK
    <3>. QED BY <1>1, <1>4, <2>2, <3>1, UdsAssumption DEF OnTheWay, Fits
  <2>. QED BY <1>1, <1>4, <2>3, <2>4, <2>5 DEF OnTheWay, Ours
<1>6. Contexts'
  <2>1. ~Quiet BY <1>1 DEF Quiet
  <2>. QED BY <1>1, <2>1 DEF TimelyInv, Contexts
<1>. QED BY <1>1, <1>2, <1>3, <1>5, <1>6, ServiceStutters DEF TimelyInv

\* Every other end of a wait is a failure, or the time for another attempt.
LEMMA TimelyGivesUp ==
    ASSUME Timely, PolledInv, OrderInv, TimelyInv, NEW c \in Clients,
           TakesError(c) \/ TakesClosed(c) \/ TimesOut(c) \/ ContextEnds(c)
    PROVE  TimelyInv' /\ ServiceStep
<1>1. ~TakesError(c) BY DEF TakesError, TimelyInv
<1>2. /\ pc[c] = "wait" /\ UNCHANGED <<errors, rxQueue, answers>>
      /\ \E how : Ends(c, how) /\ (how = "timeout" => ~ended[c])
      /\ life = "closed" \/ Quiet
  <2>1. CASE TakesClosed(c) BY <2>1 DEF TakesClosed
  <2>2. CASE TimesOut(c) BY <2>2 DEF TimesOut, Timely
  <2>3. CASE ContextEnds(c) BY <2>3 DEF ContextEnds, TimelyInv, Contexts
  <2>. QED BY <1>1, <2>1, <2>2, <2>3
<1>3. PICK how : Ends(c, how) /\ (how = "timeout" => ~ended[c]) BY <1>2
<1>4. Quiet' = Quiet /\ UNCHANGED <<served, executed>>
  BY <1>2, <1>3 DEF Quiet, Ends, loopVars
<1>5. TimelyInv' /\ Open /\ (Open' <=> GoesOn(c)')
  BY <1>2, <1>3, <1>4, WaitEnded DEF TimelyInv
<1>6. CASE Open' BY <1>2, <1>4, <1>5, <1>6, ServiceStutters DEF Open, ServiceStep, Service!vars
<1>7. CASE ~Open' BY <1>2, <1>4, <1>5, <1>7, ServiceFails
<1>. QED BY <1>6, <1>7

\* Another attempt is still the same service.
LEMMA TimelyStop ==
    ASSUME PolledInv, OrderInv, TimelyInv, NEW c \in Clients, StopAwaiting(c)
    PROVE  TimelyInv' /\ ServiceStep
<1>1. /\ pc[c] = "stop"
      /\ UNCHANGED <<request, ended, outcome, served, answers, txQueue, rxQueue, driver, coming,
                     executed, errors, life>>
  BY DEF StopAwaiting, loopVars
<1>2. TypeOK BY DEF PolledInv
<1>3. /\ ~Waited /\ (Open <=> GoesOn(c))
      /\ \A d \in Clients : d # c => pc[d] \notin HoldingPcs
  BY <1>1, Waiter DEF HoldingPcs
<1>4. PICK p \in {"drain", "idle"} :
           pc' = [pc EXCEPT ![c] = p] /\ (p = "drain" <=> GoesOn(c))
  BY DEF StopAwaiting
<1>5. \A d \in Clients : pc'[d] = IF d = c THEN p ELSE pc[d] BY <1>2, <1>4 DEF TypeOK
<1>6. ~Waited' /\ Open' = Open
  <2>1. \A d \in Clients : d # c => pc'[d] \notin {"drain", "wait", "stop"}
    BY <1>3, <1>5 DEF HoldingPcs
  <2>2. pc'[c] = p BY <1>5
  <2>. QED BY <1>3, <1>4, <2>1, <2>2 DEF Waited, Open, GoesOn
<1>7. Contexts'
  <2>1. p = "drain" => ~ended[c] BY <1>1, <1>4 DEF TimelyInv, Contexts, GoesOn
  <2>. QED BY <1>1, <1>3, <1>5, <2>1 DEF TimelyInv, Contexts, HoldingPcs
<1>. QED BY <1>1, <1>3, <1>6, <1>7, QueuesKept, ServiceStutters DEF TimelyInv

LEMMA TimelyContextOver ==
    ASSUME Timely, TypeOK, TimelyInv, NEW c \in Clients, ContextOver(c)
    PROVE  TimelyInv' /\ ServiceStep
<1>1. /\ pc[c] = "wait" /\ Quiet /\ ended' = [ended EXCEPT ![c] = TRUE]
      /\ UNCHANGED <<pc, request, attempt, outcome, served, answers, txQueue, rxQueue, driver,
                     coming, executed, errors, life>>
  BY DEF ContextOver, loopVars, Timely
<1>2. \A d \in Clients : d # c => ended'[d] = ended[d] BY <1>1 DEF TypeOK
<1>3. Waited' = Waited /\ Open' = Open BY <1>1 DEF Waited, Open, GoesOn
<1>4. Contexts' BY <1>1, <1>2, QueuesKept DEF TimelyInv, Contexts
<1>. QED BY <1>1, <1>3, <1>4, QueuesKept, ServiceStutters DEF TimelyInv

\* What the loop and the nodes do while a caller waits.
LEMMA LoopMoves ==
    ASSUME TimelyInv, ~Quiet, life # "closed", OnTheWay => OnTheWay',
           UNCHANGED <<callVars, errors, life>>
    PROVE  TimelyInv' /\ Waited /\ Open' = Open
<1>1. Waited BY DEF TimelyInv
<1>2. Waited' BY <1>1 DEF Waited, callVars
<1>3. Contexts' BY DEF TimelyInv, Contexts, callVars
<1>. QED BY <1>1, <1>2, <1>3 DEF TimelyInv, Open, GoesOn, callVars

\* A message goes from the driver into rxQueue, where there is room for it, or it
\* is a first frame or the rest of an answer whose reception was given up.
LEMMA TimelyRead ==
    ASSUME TypeOK, TimelyInv, Read
    PROVE  TimelyInv' /\ ServiceStep
<1>0. /\ driver # <<>> /\ driver' = Tail(driver) /\ life # "closed"
      /\ rxQueue' = rxQueue \/ rxQueue' = Append(rxQueue, Head(driver))
      /\ errors' = errors \/ Len(rxQueue) >= RxQueueSize
      /\ UNCHANGED <<callVars, txQueue, coming, executed, life>>
  BY DEF Read, Active
<1>1. /\ driver # <<>> /\ driver' = Tail(driver) /\ life # "closed"
      /\ rxQueue' = rxQueue \/ rxQueue' = Append(rxQueue, Head(driver))
      /\ UNCHANGED <<callVars, txQueue, coming, executed, errors, life>>
  <2>1. Waited /\ OnTheWay BY <1>0 DEF TimelyInv, Quiet
  <2>2. /\ Len(driver) \in Nat \ {0} /\ Len(rxQueue) \in Nat /\ Len(coming) \in Nat
    BY <1>0 DEF TypeOK
  <2>3. Len(rxQueue) < RxQueueSize BY <2>1, <2>2, UdsAssumption DEF OnTheWay, Fits
  <2>4. UNCHANGED errors BY <1>0, <2>2, <2>3, UdsAssumption
  <2>. QED BY <1>0, <2>4
<1>2. UNCHANGED <<served, answers>> BY <1>1 DEF callVars
<1>3. ASSUME OnTheWay
      PROVE  OnTheWay'
  <2>1. driver \in Seq(Message) /\ rxQueue \in Seq(Message) /\ Head(driver) \in Message
    BY <1>1, QueueParts DEF TypeOK
  <2>2. /\ DOMAIN driver' = 1 .. Len(driver) - 1 /\ Len(driver') = Len(driver) - 1
        /\ \A i \in 1 .. Len(driver) - 1 : driver'[i] = driver[i + 1]
        /\ Head(driver) = driver[1]
        /\ Len(driver) \in Nat /\ 1 <= Len(driver)
        /\ DOMAIN driver = 1 .. Len(driver)
    BY <1>1, <2>1, TailElements
  <2>3. txQueue = <<>> BY <1>1, <1>3 DEF OnTheWay
  <2>4. ASSUME NEW i \in DOMAIN driver'
        PROVE  Ours(driver'[i]) /\ (Final(driver'[i]) => i = Len(driver') /\ coming = <<>>)
    <3>1. i + 1 \in DOMAIN driver /\ driver'[i] = driver[i + 1] BY <2>2
    <3>2. Ours(driver[i + 1]) /\ (Final(driver[i + 1]) => i + 1 = Len(driver) /\ coming = <<>>)
      BY <1>3, <3>1, Zenon DEF OnTheWay
    <3>3. i \in 1 .. Len(driver) - 1 BY <2>2
    <3>. QED BY <2>2, <3>1, <3>2, <3>3
  <2>5. \A i \in DOMAIN rxQueue : Ours(rxQueue[i]) /\ ~Final(rxQueue[i])
    BY <1>1, <1>3 DEF OnTheWay
  <2>6. /\ Ours(Head(driver))
        /\ Final(Head(driver)) => driver' = <<>> /\ coming = <<>>
    <3>1. Final(Head(driver)) => Len(driver) = 1 /\ coming = <<>>
      BY <1>3, <2>2 DEF OnTheWay
    <3>2. driver' \in Seq(Message) BY <1>1, <2>1
    <3>. QED BY <1>3, <2>2, <3>1, <3>2, NoElement DEF OnTheWay
  <2>7. ASSUME NEW i \in DOMAIN rxQueue'
        PROVE  /\ Ours(rxQueue'[i])
               /\ Final(rxQueue'[i]) => i = Len(rxQueue') /\ driver' = <<>> /\ coming = <<>>
    <3>1. CASE rxQueue' = rxQueue BY <2>5, <2>7, <3>1
    <3>2. CASE rxQueue' = Append(rxQueue, Head(driver))
      <4>1. /\ DOMAIN rxQueue' = 1 .. Len(rxQueue) + 1 /\ Len(rxQueue') = Len(rxQueue) + 1
            /\ \A j \in 1 .. Len(rxQueue) : rxQueue'[j] = rxQueue[j]
            /\ rxQueue'[Len(rxQueue) + 1] = Head(driver)
            /\ Len(rxQueue) \in Nat /\ DOMAIN rxQueue = 1 .. Len(rxQueue)
        BY <2>1, <3>2, AppendedElements, Appended
      <4>2. CASE i \in 1 .. Len(rxQueue) BY <2>5, <4>1, <4>2
      <4>3. CASE i = Len(rxQueue) + 1 BY <2>6, <4>1, <4>3
      <4>. QED BY <2>7, <4>1, <4>2, <4>3
    <3>. QED BY <1>1, <3>1, <3>2
  <2>8. Fits'
    <3>1. Len(driver') = Len(driver) - 1 /\ Len(driver) \in Nat BY <2>2
    <3>2. Len(rxQueue') \in {Len(rxQueue), Len(rxQueue) + 1}
      BY <1>1, <2>1, Appended
    <3>3. Len(rxQueue) \in Nat /\ Len(coming) \in Nat BY DEF TypeOK
    <3>. QED BY <1>1, <1>3, <3>1, <3>2, <3>3, UdsAssumption DEF OnTheWay, Fits
  <2>. QED BY <1>1, <1>2, <1>3, <2>3, <2>4, <2>7, <2>8 DEF OnTheWay, Ours
<1>4. ~Quiet BY <1>1 DEF Quiet
<1>. QED BY <1>1, <1>2, <1>3, <1>4, LoopMoves, ServiceStutters

\* The next answer is asked for.
LEMMA TimelyPoll ==
    ASSUME Timely, TypeOK, TimelyInv, Poll
    PROVE  TimelyInv' /\ ServiceStep
<1>1. /\ driver = <<>> /\ txQueue = <<>> /\ coming # <<>> /\ life # "closed"
      /\ driver' = <<Head(coming)>>
      /\ coming' = Tail(coming)
      /\ UNCHANGED <<callVars, txQueue, rxQueue, executed, errors, life>>
  BY UdsAssumption DEF Poll, Active, Timely
<1>2. UNCHANGED <<served, answers>> BY <1>1 DEF callVars
<1>3. ASSUME OnTheWay
      PROVE  OnTheWay'
  <2>1. coming \in Seq(Message) BY DEF TypeOK
  <2>2. /\ DOMAIN Tail(coming) = 1 .. Len(coming) - 1 /\ Len(Tail(coming)) = Len(coming) - 1
        /\ \A i \in 1 .. Len(coming) - 1 : Tail(coming)[i] = coming[i + 1]
        /\ Head(coming) = coming[1]
        /\ Len(coming) \in Nat /\ 1 <= Len(coming)
        /\ DOMAIN coming = 1 .. Len(coming)
        /\ Tail(coming) \in Seq(Message)
    BY <1>1, <2>1, TailElements
  <2>3. ASSUME NEW i \in DOMAIN coming'
        PROVE  Ours(coming'[i]) /\ (Final(coming'[i]) => i = Len(coming'))
    <3>1. i + 1 \in DOMAIN coming /\ coming'[i] = coming[i + 1] BY <1>1, <2>2
    <3>2. Ours(coming[i + 1]) /\ (Final(coming[i + 1]) => i + 1 = Len(coming))
      BY <1>3, <3>1, Zenon DEF OnTheWay
    <3>3. i \in 1 .. Len(coming) - 1 /\ Len(coming') = Len(coming) - 1 BY <1>1, <2>2
    <3>. QED BY <2>2, <3>1, <3>2, <3>3
  <2>4. Ours(Head(coming)) /\ (Final(Head(coming)) => coming' = <<>>)
    <3>1. Final(Head(coming)) => Len(coming) = 1 BY <1>3, <2>2 DEF OnTheWay
    <3>2. Len(coming) = 1 => Tail(coming) = <<>>
      <4>1. \A q \in Seq(Message) : Len(q) = 0 => q = <<>> BY NoElement
      <4>. QED BY <2>2, <4>1
    <3>. QED BY <1>1, <1>3, <2>2, <3>1, <3>2 DEF OnTheWay
  <2>5. ASSUME NEW i \in DOMAIN driver'
        PROVE  Ours(driver'[i]) /\ (Final(driver'[i]) => i = Len(driver') /\ coming' = <<>>)
    BY <1>1, <2>4
  <2>6. \A i \in DOMAIN rxQueue : Ours(rxQueue[i]) /\ ~Final(rxQueue[i])
    BY <1>1, <1>3 DEF OnTheWay
  <2>7. Fits'
    <3>1. Len(driver') = 1 /\ Len(driver) = 0 /\ Len(coming') = Len(coming) - 1
      BY <1>1, <2>2
    <3>2. Len(rxQueue) \in Nat BY DEF TypeOK
    <3>. QED BY <1>1, <1>3, <2>2, <3>1, <3>2, UdsAssumption DEF OnTheWay, Fits
  <2>. QED BY <1>1, <1>2, <2>3, <2>5, <2>6, <2>7 DEF OnTheWay, Ours
<1>4. ~Quiet BY <1>1 DEF Quiet
<1>. QED BY <1>1, <1>2, <1>3, <1>4, LoopMoves, ServiceStutters

\* The messages of a node's script are answers to the request being served.
LEMMA ScriptOurs ==
    ASSUME Timely, NEW n \in Nat, NEW r \in TxType, NEW script \in Scripts,
           coming' = <<>> \o [i \in DOMAIN script |-> Says(n, r, script, i)],
           UNCHANGED served, r.id = Len(served),
           \E i \in DOMAIN executed' : executed'[i] = Len(served)
    PROVE  \A i \in DOMAIN coming' :
               Ours(coming[i])' /\ (Final(coming'[i]) => i = Len(coming'))
<1>. DEFINE q == [i \in DOMAIN script |-> Says(n, r, script, i)]
<1>1. script \in Seq(Kinds) /\ q \in Seq(Message) BY UdsAssumption, AnswersAreMessages
<1>2. coming' = q /\ Len(q) = Len(script) /\ DOMAIN q = DOMAIN script BY <1>1
<1>. SUFFICES ASSUME NEW i \in DOMAIN script
              PROVE  Ours(q[i])' /\ (Final(q[i]) => i = Len(script))
  BY <1>2
<1>3. /\ q[i].kind = script[i]
      /\ script[i] = "foreign" => q[i].nad = Stranger
      /\ script[i] # "foreign" => q[i].to = Len(served)
  BY DEF Says
<1>. HIDE DEF q
<1>4. Final(q[i]) => i = Len(script) BY <1>3 DEF Final, Timely
<1>. QED BY <1>3, <1>4 DEF Ours

\* A node acts on the request only while it is served, and as often as allowed.
LEMMA TimelyWrite ==
    ASSUME Timely, PolledInv, OrderInv, RepeatInv, TimelyInv, Write
    PROVE  TimelyInv' /\ ServiceStep
<1>. DEFINE r == Head(txQueue)
            last == Len(served)
<1>1. /\ txQueue # <<>> /\ txQueue' = Tail(txQueue) /\ life # "closed"
      /\ UNCHANGED <<callVars, rxQueue, driver, errors, life>>
      /\ \/ UNCHANGED <<coming, executed>>
         \/ /\ \E n \in Answering(r), script \in Scripts :
                  coming' = coming \o [i \in DOMAIN script |-> Says(n, r, script, i)]
            /\ executed' = Append(executed, r.id)
  BY DEF Write, Active
<1>2. TypeOK /\ UNCHANGED <<served, answers>> BY <1>1 DEF PolledInv, callVars
<1>3. ~Quiet BY <1>1 DEF Quiet
<1>4. Waited /\ OnTheWay BY <1>1, <1>3 DEF TimelyInv
<1>5. /\ Len(txQueue) = 1 /\ txQueue[1].id = last
      /\ rxQueue = <<>> /\ driver = <<>> /\ coming = <<>>
  BY <1>1, <1>4 DEF OnTheWay
<1>6. r \in TxType /\ r.id = last /\ txQueue' = <<>>
  <2>1. txQueue \in Seq(TxType) BY <1>2 DEF TypeOK, TxType
  <2>2. r = txQueue[1] /\ r \in TxType BY <1>1, <2>1
  <2>3. Tail(txQueue) \in Seq(TxType) /\ Len(Tail(txQueue)) = 0 BY <1>1, <1>5, <2>1
  <2>4. \A q \in Seq(TxType) : Len(q) = 0 => q = <<>> BY NoElement
  <2>. QED BY <1>1, <1>5, <2>2, <2>3, <2>4
<1>. HIDE DEF r
<1>7. Open' = Open BY <1>1 DEF Open, GoesOn, callVars
<1>8. CASE UNCHANGED <<coming, executed>>
  <2>0. Fits' BY <1>1, <1>4, <1>8 DEF OnTheWay, Fits
  <2>1. OnTheWay' BY <1>1, <1>5, <1>6, <1>8, <2>0 DEF OnTheWay
  <2>2. TimelyInv' BY <1>1, <1>3, <2>1, LoopMoves
  <2>. QED BY <1>2, <1>7, <1>8, <2>2, ServiceStutters
<1>9. ASSUME NEW n \in Answering(r), NEW script \in Scripts,
             coming' = coming \o [i \in DOMAIN script |-> Says(n, r, script, i)],
             executed' = Append(executed, r.id)
      PROVE  TimelyInv' /\ ServiceStep
  <2>1. n \in Nat BY UdsAssumption DEF Answering
  <2>2. executed \in Seq(Nat) /\ last \in Nat BY <1>2 DEF TypeOK
  <2>3. \E i \in DOMAIN executed' : executed'[i] = last
    BY <1>6, <1>9, <2>2, AppendedElements
  <2>4. \A i \in DOMAIN coming' : Ours(coming[i])' /\ (Final(coming'[i]) => i = Len(coming'))
    BY <1>2, <1>5, <1>6, <1>9, <2>1, <2>3, ScriptOurs
  <2>a. Fits'
    <3>1. coming' = [i \in DOMAIN script |-> Says(n, r, script, i)]
      <4>1. [i \in DOMAIN script |-> Says(n, r, script, i)] \in Seq(Message)
        BY <1>6, <2>1, AnswersAreMessages
      <4>. QED BY <1>5, <1>9, <4>1
    <3>2. script \in Seq(Kinds) /\ Len(script) <= RxQueueSize BY UdsAssumption DEF Timely
    <3>3. Len(coming') = Len(script) BY <3>1, <3>2
    <3>4. Len(rxQueue') = 0 /\ Len(driver') = 0 BY <1>1, <1>5
    <3>5. Len(script) \in Nat BY <3>2
    <3>. QED BY <3>2, <3>3, <3>4, <3>5, UdsAssumption DEF Fits
  <2>5. OnTheWay' BY <1>1, <1>5, <1>6, <2>4, <2>a DEF OnTheWay
  <2>6. TimelyInv' BY <1>1, <1>3, <2>5, LoopMoves
  <2>7. Times(executed, last) < Allowed(served[last])
    <3>1. PICK c \in Clients : pc[c] = "wait" BY <1>4 DEF Waited
    <3>2. mine[c] = last BY <3>1, Waiter DEF HoldingPcs
    <3>3. last \in 1 .. Len(served) /\ Sent(executed, txQueue, last) <= Allowed(served[last])
      BY <3>1, <3>2 DEF RepeatInv, HoldingPcs
    <3>4. txQueue \in Seq(TxType) BY <1>2 DEF TypeOK, TxType
    <3>5. Ids(txQueue) \in Seq(Nat) BY <3>4, IdsType
    <3>6. 1 \in Where(Ids(txQueue), last)
      <4>1. 1 \in DOMAIN txQueue BY <1>5, <3>4
      <4>. QED BY <1>5, <4>1 DEF Where, Ids
    <3>7. Times(Ids(txQueue), last) \in Nat \ {0}
      BY <3>5, <3>6, TimesType, FS_EmptySet DEF Times
    <3>8. Times(executed, last) \in Nat BY <2>2, TimesType
    <3>9. served[last] \in Request BY <1>2, <3>3 DEF TypeOK
    <3>10. Allowed(served[last]) \in Nat BY <3>9, RetriesAllowed
    <3>. QED BY <3>3, <3>7, <3>8, <3>10 DEF Sent
  <2>8. Service!Count(last) = Times(executed, last)
    BY DEF Service!Count, Times, Where, Service!Cardinality, Cardinality
  <2>9. Open /\ Open' BY <1>4, <1>7 DEF Waited, Open
  <2>. HIDE DEF last
  <2>10. executed' = Append(executed, last) BY <1>6, <1>9
  <2>11. Service!Last = last BY DEF Service!Last, last
  <2>12. Service!Execute BY <1>2, <2>7, <2>8, <2>9, <2>10, <2>11 DEF Service!Execute, Open
  <2>. QED BY <2>6, <2>12 DEF ServiceStep, Service!Next
<1>. QED BY <1>1, <1>8, <1>9

\* Every step keeps the invariant and is one of the service, or none.
LEMMA TimelyStep ==
    ASSUME Timely, PolledInv, OrderInv, RepeatInv, TimelyInv, [Next]_vars
    PROVE  TimelyInv' /\ ServiceStep
<1>1. TypeOK BY DEF PolledInv
<1>2. ~Fails BY <1>1 DEF Fails, TypeOK, Timely
<1>3. ASSUME Expire \/ Close \/ Closed \/ UNCHANGED vars
      PROVE  TimelyInv' /\ ServiceStep
  <2>1. /\ UNCHANGED <<callVars, txQueue, rxQueue, driver, coming, executed, errors>>
        /\ life' = "closed" \/ life # "closed" \/ life' = life
    BY <1>3 DEF Expire, Close, Closed, vars, loopVars, callVars
  <2>2. Waited' = Waited /\ Open' = Open /\ UNCHANGED <<served, answers, executed>>
    BY <2>1 DEF Waited, Open, GoesOn, callVars
  <2>3. UNCHANGED <<pc, request, ended, outcome>> BY <2>1 DEF callVars
  <2>4. Quiet' = Quiet /\ OnTheWay' = OnTheWay BY <2>1, <2>2, QueuesKept
  <2>5. Contexts' BY <2>3, <2>4 DEF TimelyInv, Contexts
  <2>. QED BY <2>1, <2>2, <2>4, <2>5, ServiceStutters DEF TimelyInv
<1>4. ASSUME NEW c \in Clients, Call(c) \/ Client(c) \/ ContextOver(c)
      PROVE  TimelyInv' /\ ServiceStep
  BY <1>1, <1>4, TimelyCall, TimelyLock, TimelyDrain, TimelySend, TimelySendFails, TimelyAnswer,
     TimelyWaitsOn, TimelyGivesUp, TimelyStop, TimelyContextOver DEF Client
<1>5. CASE Loop BY <1>1, <1>5, TimelyRead, TimelyWrite, TimelyPoll DEF Loop
<1>. QED BY <1>2, <1>3, <1>4, <1>5 DEF Next

LEMMA TimelyStart == Init => TimelyInv /\ Service!Init
<1>. SUFFICES ASSUME Init PROVE TimelyInv /\ Service!Init OBVIOUS
<1>1. \A c \in Clients : pc[c] = "idle" BY DEF Init
<1>2. Quiet /\ errors = 0 BY DEF Init, Quiet
<1>3. ~Waited /\ ~Open BY <1>1 DEF Waited, Open, GoesOn
<1>4. TimelyInv BY <1>1, <1>2, <1>3 DEF TimelyInv, Contexts
<1>. QED BY <1>3, <1>4 DEF Service!Init, Init, Open

\* With answers in time, drivers that work, and an rxQueue that holds what a node
\* says to one request, the client is the service: no request outlives its call,
\* none is acted on more often than its caller allowed, and an answer is the answer
\* to the request it is given for.
THEOREM ServiceImplemented == ASSUME Timely PROVE Spec => ImplementsService
<1>1. Init => PolledInv /\ OrderInv /\ RepeatInv /\ TimelyInv /\ Service!Init
  BY TimelyStart, InvariantsStart
<1>2. PolledInv /\ OrderInv /\ RepeatInv /\ TimelyInv /\ [Next]_vars
         => (PolledInv /\ OrderInv /\ RepeatInv /\ TimelyInv)' /\ ServiceStep
  BY NextPolled, NextOrder, NextRepeat, TimelyStep
<1>. QED BY <1>1, <1>2, PTL DEF Spec, ImplementsService, Service!Spec, ServiceStep
=============================================================================
