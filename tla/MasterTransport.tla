--------------------------- MODULE MasterTransport ---------------------------
(***************************************************************************)
(* tplin.Transport in the master role as its goroutines see it: the        *)
(* background loop started by Run (select, execute, reportError) and any   *)
(* number of callers inside Transmit, SetAwaitingSlaveResponse,            *)
(* StopAwaitingSlaveResponse, Receive, ReceiveBlocking, Run and Close.     *)
(*                                                                         *)
(* A step is what happens between two points at which another goroutine    *)
(* can interfere.  executeMu is held exactly while the loop is at one of   *)
(* ExecutePcs (a caller only takes and releases it), txMu exactly while a  *)
(* caller is at one of TxPcs; lifecycleMu is never held across a step.     *)
(*                                                                         *)
(* What the frames carry is left to Reassembly: here an event is what it   *)
(* makes of the open reception, and `partial' says remainingBytes > 0.     *)
(***************************************************************************)
EXTENDS Integers, Sequences

CONSTANTS
    Callers,             \* goroutines that use the transport
    Sizes,               \* frames a transmitted message may need
    TxQueueSize, RxQueueSize,
    ErrorQueueSize,      \* capacity of receiveErrors (16 in the code)
    DriverQueueSize,     \* capacity of the driver's event queue
    ContinuousSlavePoll,
    MaxOps,              \* bound: calls made by all callers together
    MaxAnswers,          \* bound: frames the slaves have to say
    MaxFaults            \* bound: driver calls that fail

ASSUME TransportAssumption ==
    /\ Sizes \subseteq Nat \ {0}
    /\ TxQueueSize \in Nat \ {0}
    /\ RxQueueSize \in Nat \ {0}
    /\ ErrorQueueSize \in Nat \ {0}
    /\ DriverQueueSize \in Nat \ {0}
    /\ ContinuousSlavePoll \in BOOLEAN
    /\ MaxOps \in Nat /\ MaxAnswers \in Nat /\ MaxFaults \in Nat

VARIABLES
    running, closed,     \* under lifecycleMu
    cancelled,           \* the loop's context
    done,                \* errors, receiveErrors and done are closed
    wake,                \* the one-slot wake channel holds a token
    awaiting,            \* awaitingSlaveResponse
    partial,             \* a multi-frame reception is open
    txQueue,             \* frames waiting to be written
    rxQueue,             \* number of messages waiting for a caller
    receiveErrors,       \* number of errors waiting for a caller
    loop,                \* where the background goroutine is
    received,            \* its receivedCompleteMessage
    pc,                  \* where each caller is
    size, next,          \* the message a caller transmits, its next frame
    header,              \* external: a 0x3D header is on the bus
    driverRx,            \* external: events the driver has not handed over
    written,             \* history: last frame taken off txQueue
    stop,                \* history: what the last StopAwaiting call left behind
    ops, answers, faults

lifecycle == <<running, closed, cancelled, done>>
signals == <<wake, awaiting>>
inbox == <<rxQueue, receiveErrors>>
reception == <<partial, rxQueue, receiveErrors>>
bus == <<header, driverRx, answers>>
message == <<size, next>>
callerVars == <<pc, size, next, ops>>
\* The loop never touches the lifecycle flags or a caller's locals, a caller
\* never the reception or the driver.
callerSide == <<lifecycle, callerVars, stop>>
loopSide == <<partial, received, bus, written, faults>>
\* What a step keeps that only moves the loop, or only a caller's locals.
onlyLoop == <<callerSide, signals, reception, txQueue, received, bus, written, faults>>
shared == <<lifecycle, signals, inbox, txQueue, loop>>
vars == <<running, closed, cancelled, done, wake, awaiting, partial, txQueue, rxQueue,
          receiveErrors, loop, received, pc, size, next, header, driverRx, written, stop,
          ops, answers, faults>>

\* Frame k of the n frames of a message transmitted by c.
Frame(c, k, n) == [by |-> c, k |-> k, n |-> n]
NoFrame == [by |-> "nobody", k |-> 0, n |-> 0]

\* What a received frame does to the reception, see Reassembly: "whole" is a
\* single frame, "first" a first frame, "more" and "last" consecutive frames
\* that fit, "broken" one that does not, "other" an event that is ignored.
EventKinds == {"whole", "first", "more", "last", "broken", "other"}

\* The loop holds executeMu / is about to call into the driver.
ExecutePcs == {"execute", "active", "read", "send", "request"}
DriverPcs == {"read", "send", "request"}
LoopPcs == ExecutePcs \cup {"off", "select", "report", "exited"}

\* The caller holds txMu.
TxPcs == {"txCheck", "txPush", "txAwait", "txWake"}
CallerPcs == TxPcs \cup {"idle", "txLock", "pollWake", "receive", "stopBarrier",
                         "closeCancel", "closeWait", "closeDone"}

Init ==
    /\ running = FALSE /\ closed = FALSE /\ cancelled = FALSE /\ done = FALSE
    /\ wake = FALSE
    /\ awaiting = FALSE
    /\ partial = FALSE
    /\ txQueue = <<>>
    /\ rxQueue = 0
    /\ receiveErrors = 0
    /\ loop = "off"
    /\ received = FALSE
    /\ pc = [c \in Callers |-> "idle"]
    /\ size = [c \in Callers |-> 0]
    /\ next = [c \in Callers |-> 0]
    /\ header = FALSE
    /\ driverRx = <<>>
    /\ written = NoFrame
    /\ stop = "none"
    /\ ops = 0 /\ answers = 0 /\ faults = 0

-----------------------------------------------------------------------------
(***************************************************************************)
(* The background goroutine.                                               *)
(***************************************************************************)

\* Mutant of Reported: every error is kept.
ReportedUnbounded == receiveErrors + 1

\* reportError: an error that finds receiveErrors full is dropped.
Reported == IF receiveErrors < ErrorQueueSize THEN receiveErrors + 1 ELSE receiveErrors

shouldRequestSlaveResponse(ongoing) == ContinuousSlavePoll \/ awaiting \/ ongoing

LoopExit ==
    /\ loop = "select"
    /\ cancelled
    /\ loop' = "exited"
    /\ UNCHANGED onlyLoop

\* A wake token or a tick of the poll timer: enter execute, take executeMu.
LoopWake ==
    /\ loop = "select"
    /\ wake
    /\ wake' = FALSE
    /\ loop' = "execute"
    /\ UNCHANGED <<callerSide, awaiting, reception, txQueue, received, bus, written,
                   faults>>

LoopTick ==
    /\ loop = "select"
    /\ loop' = "execute"
    /\ UNCHANGED onlyLoop

\* execute on a closed transport fails with ErrTransportClosed.
ExecuteClosed ==
    /\ loop = "execute"
    /\ closed
    /\ loop' = "report"
    /\ UNCHANGED onlyLoop

\* checkMultiFrameTimeout finds an open reception in time, or none.
ExecuteOpen ==
    /\ loop = "execute"
    /\ ~closed
    /\ loop' = "active"
    /\ UNCHANGED onlyLoop

\* Mutant of ExecuteExpired: the warning is logged, the reception kept.
ExecuteExpiredOnlyWarns ==
    /\ loop = "execute"
    /\ ~closed
    /\ partial
    /\ loop' = "active"
    /\ UNCHANGED onlyLoop

\* checkMultiFrameTimeout finds the open reception too old and drops it.
ExecuteExpired ==
    /\ loop = "execute"
    /\ ~closed
    /\ partial
    /\ partial' = FALSE
    /\ loop' = "active"
    /\ UNCHANGED <<callerSide, signals, txQueue, rxQueue, receiveErrors, received, bus,
                   written, faults>>

\* Mutant of ExecuteActive: queued frames alone do not make a master active.
ExecuteActiveOnRequest ==
    /\ loop = "active"
    /\ loop' = IF shouldRequestSlaveResponse(partial) THEN "read" ELSE "select"
    /\ received' = FALSE
    /\ UNCHANGED <<callerSide, signals, reception, txQueue, bus, written, faults>>

\* masterActive: an idle master leaves the driver alone.
ExecuteActive ==
    /\ loop = "active"
    /\ \/ /\ txQueue # <<>> \/ shouldRequestSlaveResponse(partial)
          /\ loop' = "read"
       \/ /\ txQueue = <<>> /\ ~shouldRequestSlaveResponse(partial)
          /\ loop' = "select"
    /\ received' = FALSE
    /\ UNCHANGED <<callerSide, signals, reception, txQueue, bus, written, faults>>

\* deliverMessage: a full rxQueue drops the message and reports the error.
deliverMessage ==
    \/ /\ rxQueue < RxQueueSize
       /\ rxQueue' = rxQueue + 1
       /\ UNCHANGED receiveErrors
    \/ /\ rxQueue >= RxQueueSize
       /\ receiveErrors' = Reported
       /\ UNCHANGED rxQueue

receiveFromDriver(e) ==
    \/ /\ e = "whole" \/ (e = "last" /\ partial)
       /\ partial' = FALSE
       /\ received' = TRUE
       /\ deliverMessage
    \/ /\ e = "first"
       /\ partial' = TRUE
       /\ UNCHANGED <<received, rxQueue, receiveErrors>>
    \/ /\ e = "broken" \/ (e \in {"more", "last"} /\ ~partial)
       /\ partial' = FALSE
       /\ UNCHANGED <<received, rxQueue, receiveErrors>>
    \/ /\ e = "other" \/ (e = "more" /\ partial)
       /\ UNCHANGED <<partial, received, rxQueue, receiveErrors>>

ReadEvent ==
    /\ loop = "read"
    /\ driverRx # <<>>
    /\ driverRx' = Tail(driverRx)
    /\ receiveFromDriver(Head(driverRx))
    /\ UNCHANGED <<callerSide, signals, txQueue, loop, header, answers, written,
                   faults>>

\* The receive path is drained: go on to the transmit half.
ReadNothing ==
    /\ loop = "read"
    /\ driverRx = <<>>
    /\ loop' = "send"
    /\ UNCHANGED onlyLoop

\* One frame leaves txQueue, whether or not the driver then writes it.
WriteMessage ==
    /\ loop = "send"
    /\ txQueue # <<>>
    /\ written' = Head(txQueue)
    /\ txQueue' = Tail(txQueue)
    /\ \/ loop' = "select" /\ UNCHANGED faults
       \/ loop' = "report" /\ faults < MaxFaults /\ faults' = faults + 1
    /\ UNCHANGED <<callerSide, signals, reception, received, bus>>

NothingToWrite ==
    /\ loop = "send"
    /\ txQueue = <<>>
    /\ loop' = "request"
    /\ UNCHANGED onlyLoop

RequestSlaveResponse ==
    /\ loop = "request"
    /\ ~received
    /\ shouldRequestSlaveResponse(partial)
    /\ \/ loop' = "select" /\ header' = TRUE /\ UNCHANGED faults
       \/ loop' = "report" /\ faults < MaxFaults /\ faults' = faults + 1 /\ UNCHANGED header
    /\ UNCHANGED <<callerSide, signals, reception, txQueue, received, driverRx,
                   answers, written>>

NothingToRequest ==
    /\ loop = "request"
    /\ received \/ ~shouldRequestSlaveResponse(partial)
    /\ loop' = "select"
    /\ UNCHANGED onlyLoop

ReadFails ==
    /\ loop = "read"
    /\ faults < MaxFaults
    /\ faults' = faults + 1
    /\ loop' = "report"
    /\ UNCHANGED <<callerSide, signals, reception, txQueue, received, bus, written>>

reportError ==
    /\ loop = "report"
    /\ receiveErrors' = Reported
    /\ loop' = "select"
    /\ UNCHANGED <<callerSide, signals, partial, txQueue, rxQueue, received, bus,
                   written, faults>>

-----------------------------------------------------------------------------
(***************************************************************************)
(* The callers.                                                            *)
(***************************************************************************)
Goto(c, from, to) == pc[c] = from /\ pc' = [pc EXCEPT ![c] = to]

\* A call begins; the bound on calls is the model's.
Call(c, to) == Goto(c, "idle", to) /\ ops < MaxOps /\ ops' = ops + 1

Run(c) ==
    /\ Call(c, "idle")
    /\ ~running
    /\ ~closed
    /\ running' = TRUE
    /\ loop' = "select"
    /\ UNCHANGED <<loopSide, closed, cancelled, done, signals, txQueue, inbox, message,
                   stop>>

Transmit(c) ==
    /\ Call(c, "txLock")
    /\ \E n \in Sizes : size' = [size EXCEPT ![c] = n]
    /\ UNCHANGED <<loopSide, shared, next, stop>>

\* Mutant of TxMuFree: Transmit does not take txMu.
TxMuIgnored == TRUE

TxMuFree == \A c \in Callers : pc[c] \notin TxPcs

TransmitLock(c) ==
    /\ TxMuFree
    /\ Goto(c, "txLock", "txCheck")
    /\ UNCHANGED <<loopSide, shared, message, ops, stop>>

\* Mutant of Fits: room for one frame is enough.
FitsOneFrame(c) == Len(txQueue) < TxQueueSize

\* Room for every frame of the message, or for none of it.
Fits(c) == size[c] <= TxQueueSize - Len(txQueue)

\* ErrTransportClosed or ErrTxQueueFull.
TransmitRefused(c) ==
    /\ closed \/ ~Fits(c)
    /\ Goto(c, "txCheck", "idle")
    /\ UNCHANGED <<loopSide, shared, message, ops, stop>>

TransmitAdmitted(c) ==
    /\ ~closed /\ Fits(c)
    /\ Goto(c, "txCheck", "txPush")
    /\ next' = [next EXCEPT ![c] = 1]
    /\ stop' = "none"
    /\ UNCHANGED <<loopSide, shared, size, ops>>

\* A send on the buffered channel, which would block if it were full.
TransmitPush(c) ==
    /\ Len(txQueue) < TxQueueSize
    /\ Goto(c, "txPush", IF next[c] < size[c] THEN "txPush" ELSE "txAwait")
    /\ txQueue' = Append(txQueue, Frame(c, next[c], size[c]))
    /\ next' = [next EXCEPT ![c] = @ + 1]
    /\ UNCHANGED <<loopSide, lifecycle, signals, inbox, loop, size, ops, stop>>

TransmitAwait(c) ==
    /\ Goto(c, "txAwait", "txWake")
    /\ awaiting' = TRUE
    /\ UNCHANGED <<loopSide, lifecycle, wake, txQueue, inbox, loop, message, ops, stop>>

\* The last thing Transmit and SetAwaitingSlaveResponse(true) do.
Wake(c) ==
    /\ Goto(c, "txWake", "idle") \/ Goto(c, "pollWake", "idle")
    /\ wake' = TRUE
    /\ UNCHANGED <<loopSide, lifecycle, awaiting, txQueue, inbox, loop, message, ops,
                   stop>>

SetAwaitingSlaveResponse(c) ==
    /\ Call(c, "pollWake")
    /\ awaiting' = TRUE
    /\ stop' = "none"
    /\ UNCHANGED <<loopSide, lifecycle, wake, txQueue, inbox, loop, message>>

StopAwaitingSlaveResponse(c) ==
    /\ Call(c, "stopBarrier")
    /\ awaiting' = FALSE
    /\ UNCHANGED <<loopSide, lifecycle, wake, txQueue, inbox, loop, message, stop>>

\* Mutant of ExecuteMuFree: no barrier.
NoBarrier == TRUE

\* executeMu.Lock(); executeMu.Unlock() can only succeed now.
ExecuteMuFree == loop \notin ExecutePcs

\* What StopAwaiting returns to: another caller's request is under way, the
\* transport has nothing left to do, or it still has frames or a reception.
StopOutcome ==
    IF awaiting \/ \E c \in Callers : pc[c] \in {"txPush", "txAwait"} THEN "none"
    ELSE IF txQueue = <<>> /\ ~partial THEN "idle"
    ELSE "busy"

StopBarrier(c) ==
    /\ ExecuteMuFree
    /\ Goto(c, "stopBarrier", "idle")
    /\ stop' = StopOutcome
    /\ UNCHANGED <<loopSide, shared, message, ops>>

Receive(c) ==
    /\ Call(c, "idle")
    /\ rxQueue > 0
    /\ rxQueue' = rxQueue - 1
    /\ UNCHANGED <<loopSide, lifecycle, signals, txQueue, receiveErrors, loop, message,
                   stop>>

ReceiveBlocking(c) ==
    /\ Call(c, "receive")
    /\ UNCHANGED <<loopSide, shared, message, stop>>

\* The select of ReceiveBlocking: a message, an error, closure.
ReceiveReturns(c) ==
    /\ Goto(c, "receive", "idle")
    /\ \/ rxQueue > 0 /\ rxQueue' = rxQueue - 1 /\ UNCHANGED receiveErrors
       \/ receiveErrors > 0 /\ receiveErrors' = receiveErrors - 1 /\ UNCHANGED rxQueue
       \/ done /\ UNCHANGED <<rxQueue, receiveErrors>>
    /\ UNCHANGED <<loopSide, lifecycle, signals, txQueue, loop, message, ops, stop>>

\* ... or the end of the caller's context.
ReceiveCancelled(c) ==
    /\ Goto(c, "receive", "idle")
    /\ UNCHANGED <<loopSide, shared, message, ops, stop>>

Close(c) ==
    /\ \/ closed /\ Call(c, "closeDone")
       \/ ~closed /\ Call(c, "closeCancel")
    /\ closed' = TRUE
    /\ UNCHANGED <<loopSide, running, cancelled, done, signals, txQueue, inbox, loop,
                   message, stop>>

\* Mutant of CloseCancel: the loop's context is not cancelled.
CloseWithoutCancel(c) ==
    /\ Goto(c, "closeCancel", "closeWait")
    /\ UNCHANGED <<loopSide, lifecycle, signals, txQueue, inbox, loop, message, ops,
                   stop>>

\* cancel is nil when Run was never called.
CloseCancel(c) ==
    /\ Goto(c, "closeCancel", "closeWait")
    /\ cancelled' = running
    /\ UNCHANGED <<loopSide, running, closed, done, signals, txQueue, inbox, loop,
                   message, ops, stop>>

\* Mutant of LoopGone: Close does not wait for the loop.
LoopNotAwaited == TRUE

\* wg.Wait succeeds.
LoopGone == loop \in {"off", "exited"}

CloseChannels(c) ==
    /\ LoopGone
    /\ Goto(c, "closeWait", "idle")
    /\ done' = TRUE
    /\ UNCHANGED <<loopSide, running, closed, cancelled, signals, txQueue, inbox, loop,
                   message, ops, stop>>

\* A second Close waits for the first.
CloseAgain(c) ==
    /\ done
    /\ Goto(c, "closeDone", "idle")
    /\ UNCHANGED <<loopSide, shared, message, ops, stop>>

-----------------------------------------------------------------------------
(***************************************************************************)
(* External: the driver and the slaves behind it.  A 0x3D header is        *)
(* answered by a frame, possibly late, or by nobody; a full event queue    *)
(* drops the answer.                                                       *)
(***************************************************************************)
SlaveAnswers ==
    /\ header
    /\ answers < MaxAnswers
    /\ answers' = answers + 1
    /\ header' = FALSE
    /\ \E e \in EventKinds :
          driverRx' = IF Len(driverRx) < DriverQueueSize THEN Append(driverRx, e)
                      ELSE driverRx
    /\ UNCHANGED <<lifecycle, signals, reception, txQueue, loop, received, callerVars,
                   written, stop, faults>>

NobodyAnswers ==
    /\ header
    /\ header' = FALSE
    /\ UNCHANGED <<lifecycle, signals, reception, txQueue, loop, received, callerVars,
                   driverRx, answers, written, stop, faults>>

Loop ==
    \/ LoopExit \/ LoopWake \/ LoopTick
    \/ ExecuteClosed \/ ExecuteOpen \/ ExecuteExpired \/ ExecuteActive
    \/ ReadEvent \/ ReadNothing \/ ReadFails
    \/ WriteMessage \/ NothingToWrite \/ RequestSlaveResponse \/ NothingToRequest
    \/ reportError

\* A caller makes a call, or gives up waiting for a message.
Calls(c) ==
    \/ Run(c) \/ Transmit(c) \/ SetAwaitingSlaveResponse(c)
    \/ StopAwaitingSlaveResponse(c) \/ Receive(c) \/ ReceiveBlocking(c) \/ Close(c)
    \/ ReceiveCancelled(c)

\* What a caller does by itself once it has made a call.
Proceeds(c) ==
    \/ TransmitLock(c) \/ TransmitRefused(c) \/ TransmitAdmitted(c)
    \/ TransmitPush(c) \/ TransmitAwait(c) \/ Wake(c)
    \/ StopBarrier(c) \/ ReceiveReturns(c)
    \/ CloseCancel(c) \/ CloseChannels(c) \/ CloseAgain(c)

Next ==
    \/ Loop
    \/ \E c \in Callers : Calls(c) \/ Proceeds(c)
    \/ SlaveAnswers
    \/ NobodyAnswers

Spec == Init /\ [][Next]_vars

(***************************************************************************)
(* Fairness.  Goroutines that can run do run.  select chooses among ready  *)
(* cases at random, so a cancelled loop leaves; sync.Mutex hands a lock to *)
(* a starving waiter; a reception that stays open gets older than its      *)
(* timeout.                                                                *)
(***************************************************************************)
Fairness ==
    /\ WF_vars(Loop)
    /\ SF_vars(LoopExit)
    /\ SF_vars(ExecuteExpired)
    /\ \A c \in Callers :
          /\ WF_vars(Proceeds(c))
          /\ SF_vars(TransmitLock(c))
          /\ SF_vars(StopBarrier(c))

FairSpec == Spec /\ Fairness

-----------------------------------------------------------------------------
Frames == [by : Callers, k : Nat, n : Nat]

\* Every variable of the transport has its type.
TypeOK ==
    /\ running \in BOOLEAN /\ closed \in BOOLEAN
    /\ cancelled \in BOOLEAN /\ done \in BOOLEAN
    /\ wake \in BOOLEAN /\ awaiting \in BOOLEAN
    /\ partial \in BOOLEAN /\ received \in BOOLEAN
    /\ txQueue \in Seq(Frames) /\ Len(txQueue) <= TxQueueSize
    /\ rxQueue \in 0 .. RxQueueSize
    /\ receiveErrors \in 0 .. ErrorQueueSize
    /\ loop \in LoopPcs
    /\ pc \in [Callers -> CallerPcs]
    /\ size \in [Callers -> Nat]
    /\ next \in [Callers -> Nat]
    /\ header \in BOOLEAN
    /\ driverRx \in Seq(EventKinds)
    /\ written \in Frames \cup {NoFrame}
    /\ stop \in {"none", "idle", "busy"}
    /\ ops \in Nat /\ answers \in Nat /\ faults \in Nat

\* Once Close has closed the error channels and done, the loop is gone for
\* good: no reportError can send on a closed channel (which would panic), no
\* driver call follows a Close that has returned, and Run cannot start a loop
\* behind Close's back.
QuietAfterClose == done => loop \in {"off", "exited"}

\* A Transmit that was admitted finds room for every frame it still has to
\* push, so it never blocks on txQueue with txMu held, whatever other callers
\* and the loop did since it looked at the room.
TransmitNeverBlocks ==
    \A c \in Callers :
        pc[c] = "txPush" => size[c] - next[c] + 1 <= TxQueueSize - Len(txQueue)

\* Frame g may come after frame f on the bus.
Follows(f, g) ==
    IF g.k = 1 THEN f.k = f.n
    ELSE g.by = f.by /\ g.n = f.n /\ g.k = f.k + 1

\* The frames leave txQueue message by message, each complete and in order:
\* concurrent Transmit calls never mix, and a refused one leaves no frame.
WholeMessages ==
    \A i \in 1 .. Len(txQueue) :
        Follows(IF i = 1 THEN written ELSE txQueue[i - 1], txQueue[i])

\* After a StopAwaiting call that found nothing queued and no reception open,
\* the loop does not touch the driver until the next request, however its
\* execute cycle was interleaved with the call: what MasterRead relies on.
StopQuiesces ==
    stop = "idle" /\ ~ContinuousSlavePoll => loop \notin DriverPcs

\* Calls that wait for the loop return: Close, also the second one, the barrier
\* of StopAwaiting, though the loop takes executeMu again and again, and a
\* ReceiveBlocking that Close finds, its own context aside.
CallsReturn ==
    \A c \in Callers :
        \/ pc[c] \in {"closeCancel", "closeWait", "closeDone", "stopBarrier"}
        \/ closed /\ pc[c] = "receive"
        ~> pc[c] = "idle"

\* What was queued on a running transport is written, unless it is closed.
QueueDrains == running /\ txQueue # <<>> ~> closed \/ txQueue = <<>>

\* When nobody awaits a response any more, the transport comes to rest: an
\* abandoned reception does not keep it polling 0x3D for ever.
ComesToRest ==
    ~ContinuousSlavePoll => <>[](closed \/ awaiting \/ loop \notin DriverPcs)
=============================================================================
