------------------------ MODULE MasterTransportProofs ------------------------
(***************************************************************************)
(* Proofs about MasterTransport for any set of callers, any queue sizes    *)
(* and any number of calls, answers and failures.                          *)
(***************************************************************************)
EXTENDS MasterTransport, TLAPS

(***************************************************************************)
(* The action groups with everything they stand for expanded but TypeOK.   *)
(***************************************************************************)
LEMMA LoopTypes ==
    ASSUME TypeOK, Loop
    PROVE  TypeOK'
<1> USE TransportAssumption DEF TypeOK, LoopPcs, ExecutePcs, onlyLoop, callerSide,
        lifecycle, signals, reception, bus, callerVars
<1>1. CASE LoopExit BY <1>1 DEF LoopExit
<1>2. CASE LoopWake
  <2>1. wake' \in BOOLEAN /\ loop' \in LoopPcs BY <1>2 DEF LoopWake
  <2>2. UNCHANGED <<callerSide, awaiting, reception, txQueue, received, bus, written,
                    faults>>
    BY <1>2 DEF LoopWake
  <2>3. QED BY <2>1, <2>2
<1>3. CASE LoopTick BY <1>3 DEF LoopTick
<1>4. CASE ExecuteClosed BY <1>4 DEF ExecuteClosed
<1>5. CASE ExecuteOpen BY <1>5 DEF ExecuteOpen
<1>6. CASE ExecuteExpired BY <1>6 DEF ExecuteExpired
<1>7. CASE ExecuteActive
  <2>1. loop' \in LoopPcs BY <1>7, Zenon DEF ExecuteActive
  <2>2. received' \in BOOLEAN BY <1>7, Zenon DEF ExecuteActive
  <2>3. UNCHANGED <<callerSide, signals, reception, txQueue, bus, written, faults>>
    BY <1>7, Zenon DEF ExecuteActive
  <2>4. QED BY <2>1, <2>2, <2>3
<1>8. CASE ReadEvent
  <2>1. driverRx' \in Seq(EventKinds) BY <1>8 DEF ReadEvent
  <2>2. /\ partial' \in BOOLEAN /\ received' \in BOOLEAN
        /\ deliverMessage \/ UNCHANGED <<rxQueue, receiveErrors>>
    BY <1>8, Zenon DEF ReadEvent, receiveFromDriver
  <2>3. rxQueue' \in 0 .. RxQueueSize /\ receiveErrors' \in 0 .. ErrorQueueSize
    BY <2>2 DEF deliverMessage, Reported
  <2>4. QED BY <1>8, <2>1, <2>2, <2>3 DEF ReadEvent
<1>9. CASE ReadNothing BY <1>9 DEF ReadNothing
<1>10. CASE ReadFails BY <1>10 DEF ReadFails
<1>11. CASE WriteMessage
  <2>1. Head(txQueue) \in Frames /\ Tail(txQueue) \in Seq(Frames)
        /\ Len(Tail(txQueue)) <= TxQueueSize
    BY <1>11 DEF WriteMessage
  <2>2. QED BY <1>11, <2>1 DEF WriteMessage
<1>12. CASE NothingToWrite BY <1>12 DEF NothingToWrite
<1>13. CASE RequestSlaveResponse
  <2>1. header' \in BOOLEAN BY <1>13, Zenon DEF RequestSlaveResponse
  <2>2. loop' \in LoopPcs /\ faults' \in Nat BY <1>13 DEF RequestSlaveResponse
  <2>3. QED BY <1>13, <2>1, <2>2 DEF RequestSlaveResponse
<1>14. CASE NothingToRequest BY <1>14 DEF NothingToRequest
<1>15. CASE reportError BY <1>15 DEF reportError, Reported
<1>16. QED
  BY <1>1, <1>2, <1>3, <1>4, <1>5, <1>6, <1>7, <1>8, <1>9, <1>10, <1>11, <1>12, <1>13,
     <1>14, <1>15 DEF Loop

\* A call, and every further step a caller takes by itself, keeps the types.
LEMMA CallerTypes ==
    ASSUME TypeOK, NEW c \in Callers, Calls(c) \/ Proceeds(c)
    PROVE  TypeOK'
<1> USE TransportAssumption DEF TypeOK, LoopPcs, ExecutePcs, CallerPcs, TxPcs, shared,
        loopSide, lifecycle, signals, inbox, bus, message, Call, Goto
<1>1. CASE Run(c) BY <1>1 DEF Run
<1>2. CASE Transmit(c) BY <1>2 DEF Transmit
<1>3. CASE SetAwaitingSlaveResponse(c) BY <1>3 DEF SetAwaitingSlaveResponse
<1>4. CASE StopAwaitingSlaveResponse(c)
  <2>1. awaiting' \in BOOLEAN BY <1>4, Zenon DEF StopAwaitingSlaveResponse
  <2>2. pc' \in [Callers -> CallerPcs] BY <1>4 DEF StopAwaitingSlaveResponse
  <2>3. ops' \in Nat BY <1>4 DEF StopAwaitingSlaveResponse
  <2>4. QED BY <1>4, <2>1, <2>2, <2>3 DEF StopAwaitingSlaveResponse
<1>5. CASE Receive(c) BY <1>5 DEF Receive
<1>6. CASE ReceiveBlocking(c) BY <1>6 DEF ReceiveBlocking
<1>7. CASE Close(c) BY <1>7 DEF Close
<1>8. CASE ReceiveCancelled(c) BY <1>8 DEF ReceiveCancelled
<1>9. CASE TransmitLock(c) BY <1>9 DEF TransmitLock
<1>10. CASE TransmitRefused(c) BY <1>10 DEF TransmitRefused
<1>11. CASE TransmitAdmitted(c) BY <1>11 DEF TransmitAdmitted
<1>12. CASE TransmitPush(c)
  <2>1. Frame(c, next[c], size[c]) \in Frames BY DEF Frame, Frames
  <2>2. txQueue' \in Seq(Frames) /\ Len(txQueue') <= TxQueueSize
    BY <1>12, <2>1 DEF TransmitPush
  <2>3. QED BY <1>12, <2>2 DEF TransmitPush
<1>13. CASE TransmitAwait(c) BY <1>13 DEF TransmitAwait
<1>14. CASE Wake(c)
  <2>1. pc' \in [Callers -> CallerPcs] BY <1>14 DEF Wake
  <2>2. wake' \in BOOLEAN BY <1>14, Zenon DEF Wake
  <2>3. QED BY <1>14, <2>1, <2>2 DEF Wake
<1>15. CASE StopBarrier(c) BY <1>15 DEF StopBarrier, StopOutcome
<1>16. CASE ReceiveReturns(c) BY <1>16 DEF ReceiveReturns
<1>17. CASE CloseCancel(c) BY <1>17 DEF CloseCancel
<1>18. CASE CloseChannels(c) BY <1>18 DEF CloseChannels
<1>19. CASE CloseAgain(c) BY <1>19 DEF CloseAgain
<1>20. QED
  BY <1>1, <1>2, <1>3, <1>4, <1>5, <1>6, <1>7, <1>8, <1>9, <1>10, <1>11, <1>12, <1>13,
     <1>14, <1>15, <1>16, <1>17, <1>18, <1>19 DEF Calls, Proceeds

\* What the slaves do keeps the types.
LEMMA BusTypes ==
    ASSUME TypeOK, SlaveAnswers \/ NobodyAnswers
    PROVE  TypeOK'
<1> USE TransportAssumption DEF TypeOK, lifecycle, signals, reception, callerVars
<1>1. CASE SlaveAnswers
  <2>1. driverRx' \in Seq(EventKinds) /\ answers' \in Nat BY <1>1 DEF SlaveAnswers
  <2>2. header' \in BOOLEAN BY <1>1, Zenon DEF SlaveAnswers
  <2>3. QED BY <1>1, <2>1, <2>2 DEF SlaveAnswers
<1>2. CASE NobodyAnswers
  <2>1. header' \in BOOLEAN BY <1>2 DEF NobodyAnswers
  <2>2. UNCHANGED <<lifecycle, signals, reception, txQueue, loop, received, callerVars,
                    driverRx, answers, written, stop, faults>>
    BY <1>2, Zenon DEF NobodyAnswers
  <2>3. QED BY <2>1, <2>2
<1>3. QED BY <1>1, <1>2

\* Every variable of the master transport keeps its type: queues stay within
\* their capacities and no goroutine is ever at an undefined point.
THEOREM TypeCorrect == Spec => []TypeOK
<1>1. Init => TypeOK
  <2> SUFFICES ASSUME Init PROVE TypeOK
    OBVIOUS
  <2>1. /\ running \in BOOLEAN /\ closed \in BOOLEAN
        /\ cancelled \in BOOLEAN /\ done \in BOOLEAN
        /\ wake \in BOOLEAN /\ awaiting \in BOOLEAN
        /\ partial \in BOOLEAN /\ received \in BOOLEAN /\ header \in BOOLEAN
    BY Zenon DEF Init
  <2>2. /\ txQueue \in Seq(Frames) /\ Len(txQueue) <= TxQueueSize
        /\ rxQueue \in 0 .. RxQueueSize /\ receiveErrors \in 0 .. ErrorQueueSize
        /\ driverRx \in Seq(EventKinds) /\ written \in Frames \cup {NoFrame}
    BY TransportAssumption DEF Init
  <2>3. loop \in LoopPcs /\ pc \in [Callers -> CallerPcs]
    BY DEF Init, LoopPcs, ExecutePcs, CallerPcs, TxPcs
  <2>4. QED BY <2>1, <2>2, <2>3 DEF Init, TypeOK
<1>2. TypeOK /\ [Next]_vars => TypeOK'
  <2> SUFFICES ASSUME TypeOK, [Next]_vars PROVE TypeOK'
    OBVIOUS
  <2>1. CASE Next BY <2>1, LoopTypes, CallerTypes, BusTypes DEF Next
  <2>2. CASE UNCHANGED vars BY <2>2 DEF vars, TypeOK
  <2>3. QED BY <2>1, <2>2
<1>3. QED BY <1>1, <1>2, PTL DEF Spec

-----------------------------------------------------------------------------
(***************************************************************************)
(* Close.  QuietAfterClose is inductive once it is known that done and a   *)
(* caller inside Close both imply closed: then Run is refused.             *)
(***************************************************************************)
ClosePcs == {"closeCancel", "closeWait", "closeDone"}

CloseInv ==
    /\ done => closed /\ LoopGone
    /\ \A c \in Callers : pc[c] \in ClosePcs => closed

\* Every step keeps the order of Close: closed, cancelled, loop gone, done.
LEMMA CloseStep ==
    ASSUME TypeOK, CloseInv, [Next]_vars
    PROVE  CloseInv'
<1> USE DEF TypeOK, CloseInv, LoopGone, ClosePcs
<1>1. CASE Loop
  <2>1. UNCHANGED <<done, closed, pc>>
    BY <1>1 DEF Loop, LoopExit, LoopWake, LoopTick, ExecuteClosed, ExecuteOpen,
       ExecuteExpired, ExecuteActive, ReadEvent, ReadNothing, ReadFails, WriteMessage,
       NothingToWrite, RequestSlaveResponse, NothingToRequest, reportError,
       onlyLoop, callerSide, lifecycle, callerVars
  <2>2. loop \notin {"off", "exited"}
    BY <1>1 DEF Loop, LoopExit, LoopWake, LoopTick, ExecuteClosed, ExecuteOpen,
       ExecuteExpired, ExecuteActive, ReadEvent, ReadNothing, ReadFails, WriteMessage,
       NothingToWrite, RequestSlaveResponse, NothingToRequest, reportError
  <2>3. QED BY <2>1, <2>2
<1>2. ASSUME NEW c \in Callers, Calls(c) PROVE CloseInv'
  <2> USE DEF Call, Goto, lifecycle, shared
  <2>1. CASE Run(c) BY <2>1 DEF Run
  <2>2. CASE Transmit(c) BY <2>2 DEF Transmit
  <2>3. CASE SetAwaitingSlaveResponse(c) BY <2>3 DEF SetAwaitingSlaveResponse
  <2>4. CASE StopAwaitingSlaveResponse(c) BY <2>4 DEF StopAwaitingSlaveResponse
  <2>5. CASE Receive(c) BY <2>5 DEF Receive
  <2>6. CASE ReceiveBlocking(c) BY <2>6 DEF ReceiveBlocking
  <2>7. CASE Close(c) BY <2>7 DEF Close
  <2>8. CASE ReceiveCancelled(c) BY <2>8 DEF ReceiveCancelled
  <2>9. QED BY <1>2, <2>1, <2>2, <2>3, <2>4, <2>5, <2>6, <2>7, <2>8 DEF Calls
<1>3. ASSUME NEW c \in Callers, Proceeds(c) PROVE CloseInv'
  <2> USE DEF Call, Goto, lifecycle, shared
  <2>1. CASE TransmitLock(c) BY <2>1 DEF TransmitLock
  <2>2. CASE TransmitRefused(c) BY <2>2 DEF TransmitRefused
  <2>3. CASE TransmitAdmitted(c) BY <2>3 DEF TransmitAdmitted
  <2>4. CASE TransmitPush(c) BY <2>4 DEF TransmitPush
  <2>5. CASE TransmitAwait(c) BY <2>5 DEF TransmitAwait
  <2>6. CASE Wake(c) BY <2>6 DEF Wake
  <2>7. CASE StopBarrier(c) BY <2>7 DEF StopBarrier
  <2>8. CASE ReceiveReturns(c) BY <2>8 DEF ReceiveReturns
  <2>9. CASE CloseCancel(c) BY <2>9 DEF CloseCancel
  <2>10. CASE CloseChannels(c) BY <2>10 DEF CloseChannels
  <2>11. CASE CloseAgain(c) BY <2>11 DEF CloseAgain
  <2>12. QED
    BY <1>3, <2>1, <2>2, <2>3, <2>4, <2>5, <2>6, <2>7, <2>8, <2>9, <2>10,
       <2>11 DEF Proceeds
<1>4. CASE SlaveAnswers \/ NobodyAnswers
  BY <1>4 DEF SlaveAnswers, NobodyAnswers, lifecycle, callerVars
<1>5. CASE UNCHANGED vars BY <1>5 DEF vars
<1>6. QED BY <1>1, <1>2, <1>3, <1>4, <1>5 DEF Next

\* After Close has closed the channels the loop is gone for good, so nothing
\* is sent on a closed channel and the driver is left alone.
THEOREM CloseSafe == Spec => []QuietAfterClose
<1>1. Init => CloseInv
  BY DEF Init, CloseInv, ClosePcs, LoopGone
<1>2. TypeOK /\ CloseInv /\ [Next]_vars => CloseInv'
  BY CloseStep
<1>3. CloseInv => QuietAfterClose
  BY DEF CloseInv, QuietAfterClose, LoopGone
<1>4. QED BY <1>1, <1>2, <1>3, TypeCorrect, PTL DEF Spec

-----------------------------------------------------------------------------
(***************************************************************************)
(* Transmit.  txMu keeps one caller in the section between the check for   *)
(* room and the last push; only the loop touches txQueue meanwhile, and it *)
(* only makes room.                                                        *)
(***************************************************************************)
TxMuInv ==
    \A c, d \in Callers : pc[c] \in TxPcs /\ pc[d] \in TxPcs => c = d

RoomInv ==
    \A c \in Callers :
        /\ pc[c] \in TxPcs \cup {"txLock"} => size[c] >= 1
        /\ pc[c] = "txPush" =>
              next[c] \in 1 .. size[c] /\ size[c] - next[c] + 1 <= TxQueueSize - Len(txQueue)

TxInv == TxMuInv /\ RoomInv

\* What the loop leaves of a caller's view: its locals, and at most as many
\* frames in txQueue as before.
LEMMA LoopOnlyDrains ==
    ASSUME TypeOK, Loop
    PROVE  /\ UNCHANGED <<lifecycle, callerVars, stop>>
           /\ \/ UNCHANGED <<txQueue, written>>
              \/ txQueue # <<>> /\ written' = Head(txQueue) /\ txQueue' = Tail(txQueue)
<1>1. UNCHANGED <<lifecycle, callerVars, stop>>
  BY DEF Loop, LoopExit, LoopWake, LoopTick, ExecuteClosed, ExecuteOpen,
     ExecuteExpired, ExecuteActive, ReadEvent, ReadNothing, ReadFails, WriteMessage,
     NothingToWrite, RequestSlaveResponse, NothingToRequest, reportError,
     onlyLoop, callerSide
<1>2. CASE WriteMessage BY <1>1, <1>2 DEF WriteMessage
<1>3. CASE ~WriteMessage
  BY <1>1, <1>3 DEF Loop, LoopExit, LoopWake, LoopTick, ExecuteClosed, ExecuteOpen,
     ExecuteExpired, ExecuteActive, ReadEvent, ReadNothing, ReadFails,
     NothingToWrite, RequestSlaveResponse, NothingToRequest, reportError, onlyLoop
<1>4. QED BY <1>2, <1>3

\* Every step keeps txMu exclusive and the room its holder has counted.
LEMMA TxStep ==
    ASSUME TypeOK, TxInv, [Next]_vars
    PROVE  TxInv'
<1> USE TransportAssumption DEF TypeOK, TxInv, TxMuInv, RoomInv, TxPcs
<1>1. CASE Loop
  <2>1. UNCHANGED <<pc, size, next>> BY <1>1, LoopOnlyDrains DEF callerVars
  <2>2. Len(txQueue') <= Len(txQueue) /\ Len(txQueue') \in Nat
    <3>1. CASE UNCHANGED txQueue BY <3>1
    <3>2. CASE txQueue # <<>> /\ txQueue' = Tail(txQueue) BY <3>2
    <3>3. QED BY <1>1, <3>1, <3>2, LoopOnlyDrains
  <2>3. QED BY <2>1, <2>2
<1>2. ASSUME NEW c \in Callers, Calls(c) PROVE TxInv'
  <2> USE DEF Call, Goto, lifecycle, shared, message
  <2>1. CASE Run(c) BY <2>1 DEF Run
  <2>2. CASE Transmit(c) BY <2>2 DEF Transmit
  <2>3. CASE SetAwaitingSlaveResponse(c) BY <2>3 DEF SetAwaitingSlaveResponse
  <2>4. CASE StopAwaitingSlaveResponse(c) BY <2>4 DEF StopAwaitingSlaveResponse
  <2>5. CASE Receive(c) BY <2>5 DEF Receive
  <2>6. CASE ReceiveBlocking(c) BY <2>6 DEF ReceiveBlocking
  <2>7. CASE Close(c) BY <2>7 DEF Close
  <2>8. CASE ReceiveCancelled(c) BY <2>8 DEF ReceiveCancelled
  <2>9. QED
    BY <1>2, <2>1, <2>2, <2>3, <2>4, <2>5, <2>6, <2>7, <2>8 DEF Calls
<1>3. ASSUME NEW c \in Callers, Proceeds(c) PROVE TxInv'
  <2> USE DEF Call, Goto, lifecycle, shared, message
  <2>1. CASE TransmitLock(c) BY <2>1 DEF TransmitLock, TxMuFree
  <2>2. CASE TransmitRefused(c) BY <2>2 DEF TransmitRefused
  <2>3. CASE TransmitAdmitted(c) BY <2>3 DEF TransmitAdmitted, Fits
  <2>4. CASE TransmitPush(c)
    <3>1. Len(txQueue') = Len(txQueue) + 1 BY <2>4 DEF TransmitPush
    <3>2. TxMuInv' BY <2>4 DEF TransmitPush
    <3>3. RoomInv' BY <2>4, <3>1 DEF TransmitPush
    <3>4. QED BY <3>2, <3>3
  <2>5. CASE TransmitAwait(c) BY <2>5 DEF TransmitAwait
  <2>6. CASE Wake(c) BY <2>6 DEF Wake
  <2>7. CASE StopBarrier(c) BY <2>7 DEF StopBarrier
  <2>8. CASE ReceiveReturns(c) BY <2>8 DEF ReceiveReturns
  <2>9. CASE CloseCancel(c) BY <2>9 DEF CloseCancel
  <2>10. CASE CloseChannels(c) BY <2>10 DEF CloseChannels
  <2>11. CASE CloseAgain(c) BY <2>11 DEF CloseAgain
  <2>12. QED
    BY <1>3, <2>1, <2>2, <2>3, <2>4, <2>5, <2>6, <2>7, <2>8, <2>9, <2>10,
       <2>11 DEF Proceeds
<1>4. CASE SlaveAnswers \/ NobodyAnswers
  BY <1>4 DEF SlaveAnswers, NobodyAnswers, lifecycle, callerVars
<1>5. CASE UNCHANGED vars BY <1>5 DEF vars
<1>6. QED BY <1>1, <1>2, <1>3, <1>4, <1>5 DEF Next

\* So both hold in every behaviour.
LEMMA TxInvariant == Spec => []TxInv
<1>1. Init => TxInv
  BY DEF Init, TxInv, TxMuInv, RoomInv, TxPcs
<1>2. TypeOK /\ TxInv /\ [Next]_vars => TxInv'
  BY TxStep
<1>3. QED BY <1>1, <1>2, TypeCorrect, PTL DEF Spec

\* No Transmit that passed the room check ever blocks on txQueue while it
\* holds txMu.
THEOREM TransmitSafe == Spec => []TransmitNeverBlocks
<1>1. TxInv => TransmitNeverBlocks
  BY DEF TxInv, RoomInv, TransmitNeverBlocks
<1>2. QED BY <1>1, TxInvariant, PTL

LastFrame == IF txQueue = <<>> THEN written ELSE txQueue[Len(txQueue)]

\* The youngest frame completes its message, or its sender is still pushing.
TipInv ==
    \/ LastFrame.k = LastFrame.n /\ \A c \in Callers : pc[c] = "txPush" => next[c] = 1
    \/ \E c \in Callers :
          pc[c] = "txPush" /\ next[c] > 1 /\ LastFrame = Frame(c, next[c] - 1, size[c])


StreamInv == WholeMessages /\ TipInv

\* The stream is the same and every sender is where it was: nothing to show.
LEMMA StreamKept ==
    ASSUME StreamInv, UNCHANGED <<txQueue, written>>,
           \A d \in Callers :
              /\ pc[d] = "txPush" <=> pc'[d] = "txPush"
              /\ pc[d] = "txPush" => next'[d] = next[d] /\ size'[d] = size[d]
    PROVE  StreamInv'
<1>1. WholeMessages' BY DEF StreamInv, WholeMessages, Follows
<1>2. LastFrame' = LastFrame BY DEF LastFrame
<1>3. TipInv'
  <2>1. CASE LastFrame.k = LastFrame.n /\ \A d \in Callers : pc[d] = "txPush" => next[d] = 1
    BY <1>2, <2>1 DEF TipInv
  <2>2. CASE \E d \in Callers :
               pc[d] = "txPush" /\ next[d] > 1 /\ LastFrame = Frame(d, next[d] - 1, size[d])
    BY <1>2, <2>2 DEF TipInv, Frame
  <2>3. QED BY <2>1, <2>2 DEF StreamInv, TipInv
<1>4. QED BY <1>1, <1>3 DEF StreamInv

\* The loop takes a frame off txQueue: what is left still follows it.
LEMMA StreamPopped ==
    ASSUME TypeOK, StreamInv, UNCHANGED callerVars,
           txQueue # <<>>, written' = Head(txQueue), txQueue' = Tail(txQueue)
    PROVE  StreamInv'
<1>1. /\ Len(txQueue) \in Nat \ {0}
      /\ Len(txQueue') = Len(txQueue) - 1
      /\ \A i \in 1 .. Len(txQueue') : txQueue'[i] = txQueue[i + 1]
      /\ written' = txQueue[1]
  BY DEF TypeOK
<1>2. WholeMessages'
  <2> SUFFICES ASSUME NEW i \in 1 .. Len(txQueue')
               PROVE  Follows(IF i = 1 THEN written' ELSE txQueue'[i - 1], txQueue'[i])
    BY DEF WholeMessages, Follows
  <2>1. Follows(txQueue[i], txQueue[i + 1])
    BY <1>1 DEF StreamInv, WholeMessages
  <2>2. QED BY <1>1, <2>1
<1>3. LastFrame' = LastFrame
  <2>1. CASE txQueue' = <<>>
    <3>1. Len(txQueue) = 1 BY <1>1, <2>1
    <3>2. QED BY <1>1, <2>1, <3>1 DEF LastFrame
  <2>2. CASE txQueue' # <<>>
    <3>1. Len(txQueue') \in 1 .. Len(txQueue) - 1 BY <1>1, <2>2 DEF TypeOK
    <3>2. txQueue'[Len(txQueue')] = txQueue[Len(txQueue)] BY <1>1, <3>1
    <3>3. QED BY <2>2, <3>2 DEF LastFrame
  <2>3. QED BY <2>1, <2>2
<1>4. TipInv' BY <1>3 DEF StreamInv, TipInv, callerVars, Frame
<1>5. QED BY <1>2, <1>4 DEF StreamInv

\* The holder of txMu pushes a frame, which follows the last one queued.
LEMMA StreamPushed ==
    ASSUME TypeOK, TxInv, StreamInv, NEW c \in Callers, TransmitPush(c)
    PROVE  StreamInv'
<1> USE DEF TypeOK, TxInv, TxMuInv, RoomInv, TxPcs
<1> DEFINE f == Frame(c, next[c], size[c])
<1>1. /\ Len(txQueue) \in Nat
      /\ Len(txQueue') = Len(txQueue) + 1
      /\ \A i \in 1 .. Len(txQueue) : txQueue'[i] = txQueue[i]
      /\ txQueue'[Len(txQueue) + 1] = f
      /\ written' = written
  BY DEF TransmitPush, loopSide, Frame, Frames
<1>2. pc[c] = "txPush" /\ next[c] \in 1 .. size[c]
  BY DEF TransmitPush, Goto
<1>3. Follows(LastFrame, f)
  <2>1. CASE LastFrame.k = LastFrame.n /\ next[c] = 1
    BY <2>1 DEF Follows, Frame
  <2>2. CASE next[c] > 1 /\ LastFrame = Frame(c, next[c] - 1, size[c])
    <3>1. next[c] \in Nat /\ f.k = next[c] /\ f.by = c /\ f.n = size[c] BY DEF Frame
    <3>2. LastFrame.k = next[c] - 1 /\ LastFrame.by = c /\ LastFrame.n = size[c]
      BY <2>2 DEF Frame
    <3>3. next[c] # 1 /\ next[c] = (next[c] - 1) + 1
      BY <1>2, <2>2
    <3>4. QED BY <3>1, <3>2, <3>3, Zenon DEF Follows
  <2>3. \A d \in Callers : pc[d] = "txPush" => d = c
    BY <1>2
  <2>4. \/ LastFrame.k = LastFrame.n /\ next[c] = 1
        \/ next[c] > 1 /\ LastFrame = Frame(c, next[c] - 1, size[c])
    <3>1. CASE LastFrame.k = LastFrame.n /\ \A d \in Callers : pc[d] = "txPush" => next[d] = 1
      BY <1>2, <3>1
    <3>2. CASE \E d \in Callers :
                 pc[d] = "txPush" /\ next[d] > 1 /\ LastFrame = Frame(d, next[d] - 1, size[d])
      BY <2>3, <3>2
    <3>3. QED BY <3>1, <3>2 DEF StreamInv, TipInv
  <2>5. QED BY <2>1, <2>2, <2>4
<1>4. WholeMessages'
  <2> SUFFICES ASSUME NEW i \in 1 .. Len(txQueue')
               PROVE  Follows(IF i = 1 THEN written' ELSE txQueue'[i - 1], txQueue'[i])
    BY DEF WholeMessages, Follows
  <2>1. CASE i <= Len(txQueue)
    BY <1>1, <2>1 DEF StreamInv, WholeMessages
  <2>2. CASE i = Len(txQueue) + 1
    BY <1>1, <1>3, <2>2 DEF LastFrame
  <2>3. QED BY <1>1, <2>1, <2>2
<1>5. LastFrame' = f
  BY <1>1 DEF LastFrame, TransmitPush
<1>6. TipInv'
  <2>1. CASE next[c] < size[c]
    <3>1. pc'[c] = "txPush" /\ next'[c] = next[c] + 1 /\ size' = size
      BY <2>1 DEF TransmitPush, Goto
    <3>2. QED BY <1>2, <1>5, <3>1 DEF TipInv, Frame
  <2>2. CASE next[c] = size[c]
    <3>1. \A d \in Callers : pc'[d] # "txPush"
      BY <1>2, <2>2 DEF TransmitPush, Goto
    <3>2. QED BY <1>5, <2>2, <3>1 DEF TipInv, Frame
  <2>3. QED BY <1>2, <2>1, <2>2
<1>7. QED BY <1>4, <1>6 DEF StreamInv

\* Every step keeps the stream of frames whole.
LEMMA StreamStep ==
    ASSUME TypeOK, TxInv, StreamInv, [Next]_vars
    PROVE  StreamInv'
<1> USE DEF TypeOK, TxInv, TxMuInv, RoomInv, TxPcs
<1>1. CASE Loop
  BY <1>1, LoopOnlyDrains, StreamPopped, StreamKept DEF callerVars
<1>2. ASSUME NEW c \in Callers, Calls(c) PROVE StreamInv'
  <2> USE StreamKept DEF Call, Goto, lifecycle, shared, message, loopSide
  <2>1. CASE Run(c) BY <2>1 DEF Run
  <2>2. CASE Transmit(c) BY <2>2 DEF Transmit
  <2>3. CASE SetAwaitingSlaveResponse(c) BY <2>3 DEF SetAwaitingSlaveResponse
  <2>4. CASE StopAwaitingSlaveResponse(c) BY <2>4 DEF StopAwaitingSlaveResponse
  <2>5. CASE Receive(c) BY <2>5 DEF Receive
  <2>6. CASE ReceiveBlocking(c) BY <2>6 DEF ReceiveBlocking
  <2>7. CASE Close(c) BY <2>7 DEF Close
  <2>8. CASE ReceiveCancelled(c) BY <2>8 DEF ReceiveCancelled
  <2>9. QED
    BY <1>2, <2>1, <2>2, <2>3, <2>4, <2>5, <2>6, <2>7, <2>8 DEF Calls
<1>3. ASSUME NEW c \in Callers, Proceeds(c) PROVE StreamInv'
  <2> USE StreamKept DEF Call, Goto, lifecycle, shared, message, loopSide
  <2>1. CASE TransmitLock(c) BY <2>1 DEF TransmitLock
  <2>2. CASE TransmitRefused(c) BY <2>2 DEF TransmitRefused
  <2>3. CASE TransmitAdmitted(c)
    <3>1. pc[c] = "txCheck" /\ UNCHANGED <<txQueue, written>>
      BY <2>3 DEF TransmitAdmitted
    <3>2. \A d \in Callers : d # c => pc[d] # "txPush" /\ pc'[d] = pc[d]
      BY <2>3, <3>1 DEF TransmitAdmitted
    <3>3. LastFrame.k = LastFrame.n
      BY <3>1, <3>2 DEF StreamInv, TipInv
    <3>4. next'[c] = 1 BY <2>3 DEF TransmitAdmitted
    <3>5. TipInv' BY <3>1, <3>2, <3>3, <3>4 DEF TipInv, LastFrame
    <3>6. QED BY <3>1, <3>5 DEF StreamInv, WholeMessages, Follows
  <2>4. CASE TransmitPush(c) BY <2>4, StreamPushed
  <2>5. CASE TransmitAwait(c) BY <2>5 DEF TransmitAwait
  <2>6. CASE Wake(c) BY <2>6 DEF Wake
  <2>7. CASE StopBarrier(c) BY <2>7 DEF StopBarrier
  <2>8. CASE ReceiveReturns(c) BY <2>8 DEF ReceiveReturns
  <2>9. CASE CloseCancel(c) BY <2>9 DEF CloseCancel
  <2>10. CASE CloseChannels(c) BY <2>10 DEF CloseChannels
  <2>11. CASE CloseAgain(c) BY <2>11 DEF CloseAgain
  <2>12. QED
    BY <1>3, <2>1, <2>2, <2>3, <2>4, <2>5, <2>6, <2>7, <2>8, <2>9, <2>10,
       <2>11 DEF Proceeds
<1>4. CASE SlaveAnswers \/ NobodyAnswers
  BY <1>4, StreamKept DEF SlaveAnswers, NobodyAnswers, callerVars
<1>5. CASE UNCHANGED vars BY <1>5, StreamKept DEF vars
<1>6. QED BY <1>1, <1>2, <1>3, <1>4, <1>5 DEF Next

\* Concurrent Transmit calls never mix their frames, for any number of callers.
THEOREM StreamSafe == Spec => []WholeMessages
<1>1. Init => StreamInv
  BY DEF Init, StreamInv, WholeMessages, TipInv, LastFrame, NoFrame
<1>2. TypeOK /\ TxInv /\ StreamInv /\ [Next]_vars => StreamInv'
  BY StreamStep
<1>3. StreamInv => WholeMessages
  BY DEF StreamInv
<1>4. QED BY <1>1, <1>2, <1>3, TypeCorrect, TxInvariant, PTL DEF Spec

-----------------------------------------------------------------------------
(***************************************************************************)
(* StopAwaiting.  An idle outcome stays idle because nobody but a new      *)
(* request makes the loop active again.                                    *)
(***************************************************************************)
StopInv ==
    stop = "idle" /\ ~ContinuousSlavePoll =>
        /\ ~awaiting
        /\ ~partial
        /\ txQueue = <<>>
        /\ \A c \in Callers : pc[c] \notin {"txPush", "txAwait"}
        /\ loop \notin DriverPcs

\* Every step keeps an idle transport away from the driver.
LEMMA StopStep ==
    ASSUME TypeOK, StopInv, [Next]_vars
    PROVE  StopInv'
<1> USE DEF TypeOK, StopInv, DriverPcs
<1>1. CASE Loop
  <2> USE DEF onlyLoop, callerSide, signals, reception, callerVars
  <2>1. CASE LoopExit BY <2>1 DEF LoopExit
  <2>2. CASE LoopWake BY <2>2 DEF LoopWake
  <2>3. CASE LoopTick BY <2>3 DEF LoopTick
  <2>4. CASE ExecuteClosed BY <2>4 DEF ExecuteClosed
  <2>5. CASE ExecuteOpen BY <2>5 DEF ExecuteOpen
  <2>6. CASE ExecuteExpired BY <2>6 DEF ExecuteExpired
  <2>7. CASE ExecuteActive BY <2>7 DEF ExecuteActive, shouldRequestSlaveResponse
  <2>8. CASE ReadEvent BY <2>8 DEF ReadEvent
  <2>9. CASE ReadNothing BY <2>9 DEF ReadNothing
  <2>10. CASE ReadFails BY <2>10 DEF ReadFails
  <2>11. CASE WriteMessage BY <2>11 DEF WriteMessage
  <2>12. CASE NothingToWrite BY <2>12 DEF NothingToWrite
  <2>13. CASE RequestSlaveResponse BY <2>13 DEF RequestSlaveResponse
  <2>14. CASE NothingToRequest BY <2>14 DEF NothingToRequest
  <2>15. CASE reportError BY <2>15 DEF reportError
  <2>16. QED
    BY <1>1, <2>1, <2>2, <2>3, <2>4, <2>5, <2>6, <2>7, <2>8, <2>9, <2>10, <2>11, <2>12,
       <2>13, <2>14, <2>15 DEF Loop
<1>2. ASSUME NEW c \in Callers, Calls(c) PROVE StopInv'
  <2> USE DEF Call, Goto, signals, shared, loopSide
  <2>1. CASE Run(c) BY <2>1 DEF Run
  <2>2. CASE Transmit(c) BY <2>2 DEF Transmit
  <2>3. CASE SetAwaitingSlaveResponse(c) BY <2>3 DEF SetAwaitingSlaveResponse
  <2>4. CASE StopAwaitingSlaveResponse(c) BY <2>4 DEF StopAwaitingSlaveResponse
  <2>5. CASE Receive(c) BY <2>5 DEF Receive
  <2>6. CASE ReceiveBlocking(c) BY <2>6 DEF ReceiveBlocking
  <2>7. CASE Close(c) BY <2>7 DEF Close
  <2>8. CASE ReceiveCancelled(c) BY <2>8 DEF ReceiveCancelled
  <2>9. QED
    BY <1>2, <2>1, <2>2, <2>3, <2>4, <2>5, <2>6, <2>7, <2>8 DEF Calls
<1>3. ASSUME NEW c \in Callers, Proceeds(c) PROVE StopInv'
  <2> USE DEF Call, Goto, signals, shared, loopSide
  <2>1. CASE TransmitLock(c) BY <2>1 DEF TransmitLock
  <2>2. CASE TransmitRefused(c) BY <2>2 DEF TransmitRefused
  <2>3. CASE TransmitAdmitted(c) BY <2>3 DEF TransmitAdmitted
  <2>4. CASE TransmitPush(c) BY <2>4 DEF TransmitPush
  <2>5. CASE TransmitAwait(c) BY <2>5 DEF TransmitAwait
  <2>6. CASE Wake(c) BY <2>6 DEF Wake
  <2>7. CASE StopBarrier(c) BY <2>7 DEF StopBarrier, StopOutcome, ExecuteMuFree, ExecutePcs
  <2>8. CASE ReceiveReturns(c) BY <2>8 DEF ReceiveReturns
  <2>9. CASE CloseCancel(c) BY <2>9 DEF CloseCancel
  <2>10. CASE CloseChannels(c) BY <2>10 DEF CloseChannels
  <2>11. CASE CloseAgain(c) BY <2>11 DEF CloseAgain
  <2>12. QED
    BY <1>3, <2>1, <2>2, <2>3, <2>4, <2>5, <2>6, <2>7, <2>8, <2>9, <2>10,
       <2>11 DEF Proceeds
<1>4. CASE SlaveAnswers \/ NobodyAnswers
  BY <1>4 DEF SlaveAnswers, NobodyAnswers, signals, reception, callerVars
<1>5. CASE UNCHANGED vars BY <1>5 DEF vars
<1>6. QED BY <1>1, <1>2, <1>3, <1>4, <1>5 DEF Next

\* The barrier of StopAwaitingSlaveResponse works: what it leaves idle does not
\* touch the driver before the next request, for any number of callers.
THEOREM StopSafe == Spec => []StopQuiesces
<1>1. Init => StopInv
  BY DEF Init, StopInv
<1>2. TypeOK /\ StopInv /\ [Next]_vars => StopInv'
  BY StopStep
<1>3. StopInv => StopQuiesces
  BY DEF StopInv, StopQuiesces
<1>4. QED BY <1>1, <1>2, <1>3, TypeCorrect, PTL DEF Spec
=============================================================================
