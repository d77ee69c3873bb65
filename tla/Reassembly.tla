----------------------------- MODULE Reassembly -----------------------------
(***************************************************************************)
(* The receive side of tplin.Transport: receiveFromDriver, resetState,     *)
(* deliverMessage, checkMultiFrameTimeout and Receive.  One receiver sees  *)
(* the payloads of the RX events whose frame ID is the one its role        *)
(* listens to; every other event leaves this state alone.                  *)
(*                                                                         *)
(* Wall-clock time is abstracted: a partial message may expire in every    *)
(* state in which checkMultiFrameTimeout would look at the clock.          *)
(***************************************************************************)
EXTENDS LinFrames

CONSTANTS
    Payloads,        \* what the bus may hand to the receiver, for RxSpec
    RxQueueSize,     \* capacity of rxQueue
    ErrorQueueSize   \* capacity of receiveErrors (16 in the code)

ASSUME RxAssumption ==
    /\ Payloads \subseteq Seq(Byte)
    /\ \A p \in Payloads : Len(p) <= 8
    /\ RxQueueSize \in Nat \ {0}
    /\ ErrorQueueSize \in Nat \ {0}

VARIABLES
    currentFrameData, currentSID, currentNAD, currentFrameCounter,
    remainingBytes,
    rxQueue,         \* messages delivered and not yet taken
    rxErrors         \* ErrRxQueueFull reports not yet taken

assembly == <<currentFrameData, currentSID, currentNAD, currentFrameCounter,
              remainingBytes>>
queues == <<rxQueue, rxErrors>>
rxVars == <<assembly, queues>>

RxInit ==
    /\ currentFrameData = <<>>
    /\ currentSID = 0
    /\ currentNAD = 0
    /\ currentFrameCounter = 0
    /\ remainingBytes = 0
    /\ rxQueue = <<>>
    /\ rxErrors = 0

-----------------------------------------------------------------------------
resetState ==
    /\ currentFrameData' = <<>>
    /\ currentSID' = 0
    /\ currentNAD' = 0
    /\ currentFrameCounter' = 0
    /\ remainingBytes' = 0

\* Mutant of deliverMessage: a report that finds receiveErrors full is kept.
deliverMessageUnbounded(m) ==
    \/ /\ Len(rxQueue) < RxQueueSize
       /\ rxQueue' = Append(rxQueue, m)
       /\ UNCHANGED rxErrors
    \/ /\ Len(rxQueue) >= RxQueueSize
       /\ rxErrors' = rxErrors + 1
       /\ UNCHANGED rxQueue

\* A full rxQueue drops the message and reports ErrRxQueueFull, which is
\* itself dropped when receiveErrors is full.
deliverMessage(m) ==
    \/ /\ Len(rxQueue) < RxQueueSize
       /\ rxQueue' = Append(rxQueue, m)
       /\ UNCHANGED rxErrors
    \/ /\ Len(rxQueue) >= RxQueueSize
       /\ rxErrors' = IF rxErrors < ErrorQueueSize THEN rxErrors + 1 ELSE rxErrors
       /\ UNCHANGED rxQueue

pciType(p) == p[2] \div 16
additionalInfo(p) == p[2] % 16

\* A single frame announces SID and data in its PCI nibble.
ValidSF(p) == additionalInfo(p) >= 1 /\ Len(p) >= 2 + additionalInfo(p)

MessageOfSF(p) ==
    [nad |-> p[1], sid |-> p[3], data |-> SubSeq(p, 4, 2 + additionalInfo(p))]

ReceiveSF(p) ==
    /\ resetState
    /\ \/ ValidSF(p) /\ deliverMessage(MessageOfSF(p))
       \/ ~ValidSF(p) /\ UNCHANGED queues

\* The 12-bit length of a first frame.
LengthOfFF(p) == additionalInfo(p) * 256 + p[3]

ValidFF(p) ==
    /\ Len(p) >= 8
    /\ LengthOfFF(p) > 6
    /\ LengthOfFF(p) <= maxTransportDataLength + 1

\* Mutant of ReceiveFF: the frame counter of an abandoned message survives.
ReceiveFFKeepingCounter(p) ==
    /\ \/ /\ ValidFF(p)
          /\ remainingBytes' = LengthOfFF(p) - 1 - 4
          /\ currentFrameData' = SubSeq(p, 5, Len(p))
          /\ currentNAD' = p[1]
          /\ currentSID' = p[4]
          /\ UNCHANGED currentFrameCounter
       \/ ~ValidFF(p) /\ resetState
    /\ UNCHANGED queues

ReceiveFF(p) ==
    /\ \/ /\ ValidFF(p)
          /\ remainingBytes' = LengthOfFF(p) - 1 - 4
          /\ currentFrameData' = SubSeq(p, 5, Len(p))
          /\ currentNAD' = p[1]
          /\ currentSID' = p[4]
          /\ currentFrameCounter' = 0
       \/ ~ValidFF(p) /\ resetState
    /\ UNCHANGED queues

\* Mutant of nextFrameCounter: it does not wrap after 15.
nextFrameCounterUnwrapped == currentFrameCounter + 1

nextFrameCounter == (currentFrameCounter + 1) % 16

\* How many bytes of a consecutive frame belong to the message.
Wanted == IF remainingBytes < 6 THEN remainingBytes ELSE 6

\* Mutant of AcceptsCF: outside a message too.
AcceptsStrayCF(p) ==
    additionalInfo(p) = nextFrameCounter /\ Len(p) >= 2 + Wanted

\* A consecutive frame is accepted only inside a message, with the counter
\* that follows the last one, and with every byte that is still wanted.
AcceptsCF(p) ==
    /\ remainingBytes # 0
    /\ additionalInfo(p) = nextFrameCounter
    /\ Len(p) >= 2 + Wanted

CompletesCF(p) == AcceptsCF(p) /\ remainingBytes = Wanted

Extended(p) == currentFrameData \o SubSeq(p, 3, 2 + Wanted)

ReceiveCF(p) ==
    \/ /\ CompletesCF(p)
       /\ deliverMessage([nad |-> currentNAD, sid |-> currentSID, data |-> Extended(p)])
       /\ resetState
    \/ /\ AcceptsCF(p)
       /\ ~CompletesCF(p)
       /\ remainingBytes' = remainingBytes - Wanted
       /\ currentFrameData' = Extended(p)
       /\ currentFrameCounter' = nextFrameCounter
       /\ UNCHANGED <<currentSID, currentNAD, queues>>
    \/ /\ ~AcceptsCF(p)
       /\ resetState
       /\ UNCHANGED queues

\* Payloads too short for a PCI byte and PCI types above CF change nothing.
Ignored(p) == IF Len(p) < 2 THEN TRUE ELSE pciType(p) \notin {SF, FF, CF}

receiveFromDriver(p) ==
    \/ Ignored(p) /\ UNCHANGED rxVars
    \/ ~Ignored(p) /\ pciType(p) = SF /\ ReceiveSF(p)
    \/ ~Ignored(p) /\ pciType(p) = FF /\ ReceiveFF(p)
    \/ ~Ignored(p) /\ pciType(p) = CF /\ ReceiveCF(p)

\* The boolean receiveFromDriver returns: p completed a message.
Completes(p) ==
    /\ ~Ignored(p)
    /\ \/ pciType(p) = SF /\ ValidSF(p)
       \/ pciType(p) = CF /\ CompletesCF(p)

\* Runs at the start of every execute cycle.
checkMultiFrameTimeout ==
    /\ remainingBytes > 0
    /\ resetState
    /\ UNCHANGED queues

\* The two things a caller takes from the receiver.
Receive ==
    /\ rxQueue # <<>>
    /\ rxQueue' = Tail(rxQueue)
    /\ UNCHANGED <<assembly, rxErrors>>

ReceiveError ==
    /\ rxErrors > 0
    /\ rxErrors' = rxErrors - 1
    /\ UNCHANGED <<assembly, rxQueue>>

-----------------------------------------------------------------------------
(***************************************************************************)
(* The receiver on a bus on which anybody may say anything.                *)
(***************************************************************************)
RxNext ==
    \/ \E p \in Payloads : receiveFromDriver(p)
    \/ checkMultiFrameTimeout
    \/ Receive
    \/ ReceiveError

RxSpec == RxInit /\ [][RxNext]_rxVars

\* Every variable of the receiver has its type.
RxTypeOK ==
    /\ currentFrameData \in Seq(Byte)
    /\ currentSID \in Byte
    /\ currentNAD \in Byte
    /\ currentFrameCounter \in 0 .. 15
    /\ remainingBytes \in 0 .. maxTransportDataLength
    /\ rxQueue \in Seq(LinMessage)
    /\ rxErrors \in 0 .. ErrorQueueSize

\* The byte buffer, the frame counter and the number of missing bytes, which
\* receiveFromDriver updates one after the other, always tell the same story:
\* an open message has the 4 bytes of its first frame and 6 of each accepted
\* consecutive frame, the counter is their number modulo 16, and what is there
\* plus what is missing is a length a sender could have announced.  With no
\* message open the buffer is empty, so nothing of an abandoned message can
\* leak into the next one.
RxAccounting ==
    IF remainingBytes = 0
    THEN currentFrameData = <<>> /\ currentFrameCounter = 0
    ELSE /\ Len(currentFrameData) % 6 = 4
         /\ currentFrameCounter = ((Len(currentFrameData) - 4) \div 6) % 16
         /\ Len(currentFrameData) + remainingBytes \in 6 .. maxTransportDataLength
=============================================================================
