----------------------------- MODULE TpLinkProofs -----------------------------
(***************************************************************************)
(* Proofs about receiveFromDriver for any frames on the bus, and about     *)
(* sender, link and receiver together, for any messages that fit the       *)
(* protocol, any malformed frames, and any number of frames lost and       *)
(* repeated.  What the receiver has of a message is told by how many bytes *)
(* it still wants: as many as the sender has not sent, or more.            *)
(***************************************************************************)
EXTENDS TpLink, TLAPS, SequenceTheorems

(***************************************************************************)
(* The receiver alone, for any frames on the bus and any queue sizes.      *)
(***************************************************************************)

\* Bytes are numbers.  (Cited by name, so that Byte need not be expanded into
\* its 256 elements where sequences of bytes are meant.)
LEMMA ByteRange == \A b \in Byte : b \in Int /\ 0 <= b /\ b < 256
BY DEF Byte

\* All a proof needs to know of the longest message.
LEMMA MaxLength == maxTransportDataLength \in Nat /\ maxTransportDataLength > 6
BY DEF maxTransportDataLength

\* The two halves of the PCI byte.
LEMMA PCIByte ==
    ASSUME NEW p \in Seq(Byte), Len(p) >= 2
    PROVE  /\ pciType(p) \in 0 .. 15
           /\ additionalInfo(p) \in 0 .. 15
<1>1. p[2] \in Byte OBVIOUS
<1>2. p[2] \in Int /\ 0 <= p[2] /\ p[2] < 256 BY <1>1, ByteRange
<1>3. p[2] \div 16 \in 0 .. 15 /\ p[2] % 16 \in 0 .. 15
  <2>. DEFINE b == p[2]
  <2>. HIDE DEF b
  <2>1. b \in Int /\ 0 <= b /\ b < 256 BY <1>2 DEF b
  <2>2. b \div 16 \in 0 .. 15 BY <2>1
  <2>3. b % 16 \in 0 .. 15 BY <2>1
  <2>. QED BY <2>2, <2>3 DEF b
<1>4. QED BY <1>3 DEF pciType, additionalInfo

\* A part of a byte sequence is one.
LEMMA Part ==
    ASSUME NEW s \in Seq(Byte), NEW i \in Nat \ {0}, NEW j \in Int, j <= Len(s)
    PROVE  /\ SubSeq(s, i, j) \in Seq(Byte)
           /\ Len(SubSeq(s, i, j)) = IF i <= j THEN j - i + 1 ELSE 0
           /\ \A k \in 1 .. j - i + 1 : SubSeq(s, i, j)[k] = s[i + k - 1]
<1>1. \A k \in i .. j : s[k] \in Byte OBVIOUS
<1>2. QED BY <1>1, SubSeqProperties

\* A delivered message joins rxQueue or is dropped with a bounded report.
LEMMA DeliverTypes ==
    ASSUME RxTypeOK, NEW m \in LinMessage, deliverMessage(m)
    PROVE  /\ rxQueue' \in Seq(LinMessage)
           /\ rxErrors' \in 0 .. ErrorQueueSize
<1>1. rxQueue \in Seq(LinMessage) /\ rxErrors \in 0 .. ErrorQueueSize
      /\ ErrorQueueSize \in Nat
  BY RxAssumption DEF RxTypeOK
<1>2. QED BY <1>1 DEF deliverMessage

\* resetState leaves a well-typed receiver with no message open.
LEMMA ResetTypes ==
    ASSUME resetState, rxQueue' \in Seq(LinMessage), rxErrors' \in 0 .. ErrorQueueSize
    PROVE  RxTypeOK' /\ RxAccounting'
BY MaxLength DEF resetState, RxTypeOK, RxAccounting, Byte

\* A single frame: the open message, if any, is gone, and what is delivered
\* is made of bytes of the frame.
LEMMA SFStep ==
    ASSUME RxTypeOK, NEW p \in Seq(Byte), Len(p) >= 2, ReceiveSF(p)
    PROVE  RxTypeOK' /\ RxAccounting'
<1>1. CASE ValidSF(p) /\ deliverMessage(MessageOfSF(p))
  <2>1. additionalInfo(p) \in 1 .. 15 /\ Len(p) >= 2 + additionalInfo(p)
    BY <1>1, PCIByte DEF ValidSF
  <2>2. p[1] \in Byte /\ p[3] \in Byte BY <2>1
  <2>3. SubSeq(p, 4, 2 + additionalInfo(p)) \in Seq(Byte) BY <2>1, Part
  <2>4. MessageOfSF(p) \in LinMessage BY <2>2, <2>3 DEF MessageOfSF, LinMessage
  <2>5. QED BY <1>1, <2>4, DeliverTypes, ResetTypes DEF ReceiveSF
<1>2. CASE ~ValidSF(p) /\ UNCHANGED queues
  BY <1>2, ResetTypes DEF ReceiveSF, RxTypeOK, queues
<1>3. QED BY <1>1, <1>2 DEF ReceiveSF

\* A first frame: the bytes it has and those still missing add up to the
\* length it announces.
LEMMA FFStep ==
    ASSUME RxTypeOK, NEW p \in Seq(Byte), Len(p) >= 2, Len(p) <= 8, ReceiveFF(p)
    PROVE  RxTypeOK' /\ RxAccounting'
<1>1. CASE ValidFF(p)
  <2>1. /\ Len(p) >= 8 /\ LengthOfFF(p) > 6
        /\ LengthOfFF(p) <= maxTransportDataLength + 1
    BY <1>1 DEF ValidFF
  <2>2. LengthOfFF(p) \in Int
    <3>1. additionalInfo(p) \in Int BY PCIByte
    <3>2. p[3] \in Byte BY <2>1
    <3>3. p[3] \in Int BY <3>2, ByteRange
    <3>4. QED BY <3>1, <3>3 DEF LengthOfFF
  <2>3. DEFINE d == SubSeq(p, 5, Len(p))
  <2>4. d \in Seq(Byte) /\ Len(d) = Len(p) - 4 /\ p[1] \in Byte /\ p[4] \in Byte
    BY <2>1, Part
  <2>5. Len(d) >= 4 /\ Len(d) <= 4
    BY <2>1, <2>4
  <2>6. /\ remainingBytes' = LengthOfFF(p) - 5
        /\ currentFrameData' = d
        /\ currentNAD' \in Byte /\ currentSID' \in Byte
        /\ currentFrameCounter' = 0
        /\ UNCHANGED queues
    BY <1>1, <2>2, <2>4 DEF ReceiveFF
  <2> HIDE DEF d
  <2>7. RxTypeOK'
    <3>1. LengthOfFF(p) - 5 \in 0 .. maxTransportDataLength
      BY <2>1, <2>2, MaxLength
    <3>2. QED BY <2>4, <2>6, <3>1 DEF RxTypeOK, queues
  <2>8. RxAccounting'
    <3>1. Len(d) % 6 = 4 /\ (Len(d) - 4) \div 6 = 0 BY <2>5
    <3>2. Len(d) + (LengthOfFF(p) - 5) \in 6 .. maxTransportDataLength
      BY <2>1, <2>2, <2>5, MaxLength
    <3>3. QED BY <2>1, <2>2, <2>6, <3>1, <3>2 DEF RxAccounting
  <2>9. QED BY <2>7, <2>8
<1>2. CASE ~ValidFF(p)
  BY <1>2, ResetTypes DEF ReceiveFF, RxTypeOK, queues
<1>3. QED BY <1>1, <1>2

\* What an accepted consecutive frame contributes.
LEMMA CFContribution ==
    ASSUME RxTypeOK, NEW p \in Seq(Byte), Len(p) >= 2, AcceptsCF(p)
    PROVE  /\ Wanted \in 1 .. 6
           /\ Wanted <= remainingBytes
           /\ SubSeq(p, 3, 2 + Wanted) \in Seq(Byte)
           /\ Len(SubSeq(p, 3, 2 + Wanted)) = Wanted
           /\ Extended(p) \in Seq(Byte)
           /\ Len(Extended(p)) = Len(currentFrameData) + Wanted
<1>1. Wanted \in 1 .. 6 /\ Wanted <= remainingBytes /\ Len(p) >= 2 + Wanted
  BY MaxLength DEF RxTypeOK, AcceptsCF, Wanted
<1>2. /\ SubSeq(p, 3, 2 + Wanted) \in Seq(Byte)
      /\ Len(SubSeq(p, 3, 2 + Wanted)) = Wanted
  BY <1>1, Part
<1>3. currentFrameData \in Seq(Byte) BY DEF RxTypeOK
<1>4. /\ Extended(p) \in Seq(Byte)
      /\ Len(Extended(p)) = Len(currentFrameData) + Wanted
  BY <1>1, <1>2, <1>3, ConcatProperties DEF Extended
<1>5. QED BY <1>1, <1>2, <1>4

\* A consecutive frame: it completes the message, extends buffer and counter
\* together, or abandons the message.
LEMMA CFStep ==
    ASSUME RxTypeOK, RxAccounting, NEW p \in Seq(Byte), Len(p) >= 2, ReceiveCF(p)
    PROVE  RxTypeOK' /\ RxAccounting'
<1>1. CASE CompletesCF(p)
  <2>1. AcceptsCF(p) BY <1>1 DEF CompletesCF
  <2>2. [nad |-> currentNAD, sid |-> currentSID, data |-> Extended(p)] \in LinMessage
    BY <2>1, CFContribution DEF RxTypeOK, LinMessage
  <2>3. /\ deliverMessage([nad |-> currentNAD, sid |-> currentSID, data |-> Extended(p)])
        /\ resetState
    BY <1>1, <2>1 DEF ReceiveCF
  <2>4. QED BY <2>2, <2>3, DeliverTypes, ResetTypes
<1>2. CASE AcceptsCF(p) /\ ~CompletesCF(p)
  <2>1. /\ remainingBytes' = remainingBytes - Wanted
        /\ currentFrameData' = Extended(p)
        /\ currentFrameCounter' = nextFrameCounter
        /\ UNCHANGED <<currentSID, currentNAD, queues>>
    BY <1>2 DEF ReceiveCF
  <2>2. remainingBytes # Wanted /\ remainingBytes # 0
    BY <1>2 DEF CompletesCF, AcceptsCF
  <2>3. Wanted = 6 /\ remainingBytes > 6
    BY <2>2 DEF Wanted, RxTypeOK
  <2>4. Extended(p) \in Seq(Byte) /\ Len(Extended(p)) = Len(currentFrameData) + 6
    BY <1>2, <2>3, CFContribution
  <2>5. RxTypeOK'
    BY <2>1, <2>3, <2>4, MaxLength DEF RxTypeOK, queues, nextFrameCounter
  <2>6. DEFINE L == Len(currentFrameData)
  <2>7. /\ L \in Nat
        /\ L % 6 = 4
        /\ currentFrameCounter = ((L - 4) \div 6) % 16
        /\ L + remainingBytes \in 6 .. maxTransportDataLength
    BY <2>2 DEF RxTypeOK, RxAccounting
  <2>8. (L + 6) % 6 = 4 /\ (L + 6 - 4) \div 6 = (L - 4) \div 6 + 1
    <3>1. \A l \in Nat : l % 6 = 4 => (l + 6) % 6 = 4 OBVIOUS
    <3>2. \A l \in Nat : (l + 6 - 4) \div 6 = (l - 4) \div 6 + 1 OBVIOUS
    <3>. QED BY <2>7, <3>1, <3>2
  <2>9. nextFrameCounter = ((L + 6 - 4) \div 6) % 16
    <3>1. \A q \in Int : ((q % 16) + 1) % 16 = (q + 1) % 16 OBVIOUS
    <3>2. (L - 4) \div 6 \in Int BY <2>7
    <3>3. QED BY <2>7, <2>8, <3>1, <3>2 DEF nextFrameCounter
  <2>10. RxAccounting'
    <3>1. remainingBytes' = remainingBytes - 6 /\ remainingBytes' # 0
      BY <2>1, <2>3 DEF RxTypeOK
    <3>2. Len(currentFrameData') = L + 6 /\ currentFrameCounter' = nextFrameCounter
      BY <2>1, <2>4
    <3>3. (L + 6) + (remainingBytes - 6) = L + remainingBytes
      BY <2>7 DEF RxTypeOK
    <3>4. QED BY <2>7, <2>8, <2>9, <3>1, <3>2, <3>3 DEF RxAccounting
  <2>11. QED BY <2>5, <2>10
<1>3. CASE ~AcceptsCF(p)
  BY <1>3, ResetTypes DEF ReceiveCF, CompletesCF, RxTypeOK, queues
<1>4. QED BY <1>1, <1>2, <1>3

\* Whatever at most 8 bytes a driver hands over, types and accounting survive.
LEMMA ReceiveStep ==
    ASSUME RxTypeOK, RxAccounting, NEW p \in Seq(Byte), Len(p) <= 8,
           receiveFromDriver(p)
    PROVE  RxTypeOK' /\ RxAccounting'
<1>1. CASE Ignored(p) /\ UNCHANGED rxVars
  BY <1>1 DEF rxVars, assembly, queues, RxTypeOK, RxAccounting
<1>2. CASE ~Ignored(p)
  <2>1. Len(p) >= 2 BY <1>2 DEF Ignored
  <2>2. QED BY <1>2, <2>1, SFStep, FFStep, CFStep DEF receiveFromDriver
<1>3. QED BY <1>1, <1>2 DEF receiveFromDriver

\* The other steps of the receiver do so, too.
LEMMA RxOtherStep ==
    ASSUME RxTypeOK, RxAccounting,
           checkMultiFrameTimeout \/ Receive \/ ReceiveError \/ UNCHANGED rxVars
    PROVE  RxTypeOK' /\ RxAccounting'
<1>1. CASE checkMultiFrameTimeout
  BY <1>1, ResetTypes DEF checkMultiFrameTimeout, RxTypeOK, queues
<1>2. CASE Receive
  <2>1. Tail(rxQueue) \in Seq(LinMessage) BY <1>2 DEF Receive, RxTypeOK
  <2>2. QED BY <1>2, <2>1 DEF Receive, assembly, RxTypeOK, RxAccounting
<1>3. CASE ReceiveError
  <2>1. rxErrors' \in 0 .. ErrorQueueSize
    BY <1>3, RxAssumption DEF ReceiveError, RxTypeOK
  <2>2. QED BY <1>3, <2>1 DEF ReceiveError, assembly, RxTypeOK, RxAccounting
<1>4. CASE UNCHANGED rxVars
  BY <1>4 DEF rxVars, assembly, queues, RxTypeOK, RxAccounting
<1>5. QED BY <1>1, <1>2, <1>3, <1>4

\* The receiver starts with nothing open.
LEMMA RxStart == RxInit => RxTypeOK /\ RxAccounting
BY RxAssumption, MaxLength DEF RxInit, RxTypeOK, RxAccounting, Byte

\* Types and accounting hold on every bus.
LEMMA RxInvariant == RxSpec => [](RxTypeOK /\ RxAccounting)
<1>1. RxTypeOK /\ RxAccounting /\ [RxNext]_rxVars => RxTypeOK' /\ RxAccounting'
  <2> SUFFICES ASSUME RxTypeOK, RxAccounting, [RxNext]_rxVars
               PROVE  RxTypeOK' /\ RxAccounting'
    OBVIOUS
  <2>1. CASE \E p \in Payloads : receiveFromDriver(p)
    <3>1. PICK p \in Payloads : receiveFromDriver(p) BY <2>1
    <3>2. p \in Seq(Byte) /\ Len(p) <= 8 BY RxAssumption
    <3>3. QED BY <3>1, <3>2, ReceiveStep
  <2>2. QED BY <2>1, RxOtherStep DEF RxNext
<1>2. QED BY <1>1, RxStart, PTL DEF RxSpec

\* Every variable of the receiver keeps its type, whatever the bus carries.
THEOREM RxTypeCorrect == RxSpec => []RxTypeOK
BY RxInvariant, PTL

\* Buffer, frame counter and missing bytes always agree: for any frames in any
\* order, nothing of an abandoned message is left for the next one.
THEOREM AccountingCorrect == RxSpec => []RxAccounting
BY RxInvariant, PTL

-----------------------------------------------------------------------------
(***************************************************************************)
(* The invariant.                                                          *)
(***************************************************************************)

\* The receiver has accepted q frames of message m.
Accepted(m, q) ==
    /\ ~IsSingle(m)
    /\ currentNAD = m.nad /\ currentSID = m.sid
    /\ Len(currentFrameData) = 6 * q - 2
    /\ remainingBytes = Len(m.data) - (6 * q - 2)
    /\ currentFrameCounter = (q - 1) % 16

\* A reception that is open is one of cur.  It may have missed frames, also some
\* and then accepted others; unless it has, its bytes are those of the message.
Follows ==
    \E q \in 1 .. pos :
        /\ Accepted(cur, q)
        /\ q = pos => currentFrameData = SubSeq(cur.data, 1, 6 * q - 2)
        /\ onBus => q % 16 = pos % 16

\* The receiver has every frame of cur that has been on the bus.
InStep == pos >= 1 /\ remainingBytes = Len(cur.data) - (6 * pos - 2)

\* While the channel is not torn.
Untorn ==
    ~torn =>
        /\ pos >= 1 /\ remainingBytes > 0 => Follows
        /\ arrived /\ ~IsSingle(cur) => pos = NumFrames(cur) /\ remainingBytes = 0

Places ==
    /\ pos = 0 => ~arrived /\ ~onBus
    /\ onBus /\ pos = 1 => ~torn

\* What is in rxQueue was sent.
Genuine == \A i \in 1 .. Len(rxQueue) : rxQueue[i] \in Messages

Losses ==
    /\ lost = 0 => ~torn /\ (remainingBytes > 0 => InStep)
    /\ lost = 1 => ~torn
    /\ lost <= 1 => Genuine

Clean ==
    clean =>
        /\ pos \in 1 .. NumFrames(cur) - 1 => ~torn /\ InStep
        /\ pos = NumFrames(cur) => arrived

LinkInv == TypeOK /\ RxAccounting /\ Places /\ Untorn /\ Losses /\ Clean

-----------------------------------------------------------------------------
(***************************************************************************)
(* What the frames of a message say.                                       *)
(***************************************************************************)

\* A function on 1 .. 8 is a sequence of 8.
LEMMA EightBytes ==
    ASSUME NEW S, NEW p, p \in [1 .. 8 -> S]
    PROVE  p \in Seq(S) /\ Len(p) = 8
<1>1. p \in Seq(S)
  BY SeqDef
<1> QED BY <1>1, LenProperties

\* The 8 bytes of a frame.
LEMMA FrameBytes ==
    ASSUME NEW field \in Seq(Byte)
    PROVE  /\ newDiagnosticFramePayload(field) \in Seq(Byte)
           /\ Len(newDiagnosticFramePayload(field)) = 8
           /\ \A i \in 1 .. 8 :
                i <= Len(field) => newDiagnosticFramePayload(field)[i] = field[i]
<1> DEFINE p == newDiagnosticFramePayload(field)
<1>1. 255 \in Byte
  BY DEF Byte
<1>2. Len(field) \in Nat /\ \A i \in 1 .. Len(field) : field[i] \in Byte
  BY LenProperties, ElementOfSeq
<1>3. \A i \in 1 .. 8 : (IF i <= Len(field) THEN field[i] ELSE 255) \in Byte
  BY <1>1, <1>2
<1>4. p \in [1 .. 8 -> Byte] /\ \A i \in 1 .. 8 : i <= Len(field) => p[i] = field[i]
  BY <1>3 DEF newDiagnosticFramePayload
<1> HIDE DEF p
<1>5. p \in Seq(Byte) /\ Len(p) = 8
  BY <1>4, EightBytes
<1> QED BY <1>4, <1>5 DEF p

\* One sequence of bytes after another.
LEMMA Joined ==
    ASSUME NEW s \in Seq(Byte), NEW t \in Seq(Byte)
    PROVE  /\ s \o t \in Seq(Byte) /\ Len(s \o t) = Len(s) + Len(t)
           /\ Len(s) \in Nat /\ Len(t) \in Nat
           /\ \A i \in 1 .. Len(s) : (s \o t)[i] = s[i]
           /\ \A i \in 1 .. Len(t) : (s \o t)[Len(s) + i] = t[i]
<1>1. /\ s \o t \in Seq(Byte) /\ Len(s \o t) = Len(s) + Len(t)
      /\ \A i \in 1 .. Len(s) + Len(t) :
           (s \o t)[i] = IF i <= Len(s) THEN s[i] ELSE t[i - Len(s)]
  BY ConcatProperties
<1>2. Len(s) \in Nat /\ Len(t) \in Nat
  BY LenProperties
<1>3. \A i \in 1 .. Len(s) : (s \o t)[i] = s[i]
  BY <1>1, <1>2
<1>4. \A i \in 1 .. Len(t) : (s \o t)[Len(s) + i] = t[i]
  <2> SUFFICES ASSUME NEW i \in 1 .. Len(t) PROVE (s \o t)[Len(s) + i] = t[i]
    OBVIOUS
  <2>1. /\ Len(s) + i \in 1 .. Len(s) + Len(t) /\ ~(Len(s) + i <= Len(s))
        /\ (Len(s) + i) - Len(s) = i
    BY <1>2
  <2> QED BY <1>1, <2>1
<1> QED BY <1>1, <1>2, <1>3, <1>4

\* The bytes of s from the i-th to the j-th.
LEMMA Cut ==
    ASSUME NEW s \in Seq(Byte), NEW i \in Nat \ {0}, NEW j \in Int, j <= Len(s), i <= j + 1
    PROVE  /\ SubSeq(s, i, j) \in Seq(Byte)
           /\ Len(SubSeq(s, i, j)) = j - i + 1
           /\ \A k \in 1 .. j - i + 1 : SubSeq(s, i, j)[k] = s[i + k - 1]
<1>1. /\ SubSeq(s, i, j) \in Seq(Byte)
      /\ Len(SubSeq(s, i, j)) = IF i <= j THEN j - i + 1 ELSE 0
      /\ \A k \in 1 .. j - i + 1 : SubSeq(s, i, j)[k] = s[i + k - 1]
  BY Part
<1>2. (IF i <= j THEN j - i + 1 ELSE 0) = j - i + 1
  OBVIOUS
<1> QED BY <1>1, <1>2

\* Which numbers are bytes.
LEMMA IsByte == \A b \in Int : 0 <= b /\ b < 256 => b \in Byte
  BY DEF Byte

\* A message is made of its NAD, its SID and its data.
LEMMA MessageRecord ==
    ASSUME NEW m \in Messages
    PROVE  /\ m \in LinMessage
           /\ m = [nad |-> m.nad, sid |-> m.sid, data |-> m.data]
<1>1. m \in LinMessage
  BY LinkAssumption
<1> QED BY <1>1 DEF LinMessage

\* The fields of a message, and how long buildFrames lets it be.
LEMMA MessageFacts ==
    ASSUME NEW m \in Messages
    PROVE  /\ m.nad \in Byte /\ m.sid \in Byte /\ m.data \in Seq(Byte)
           /\ Len(m.data) \in Nat /\ Len(m.data) <= 4094
<1>1. m \in LinMessage /\ Len(m.data) <= 4094
  BY LinkAssumption DEF Sendable, maxTransportDataLength
<1>2. m.nad \in Byte /\ m.sid \in Byte /\ m.data \in Seq(Byte)
  BY <1>1 DEF LinMessage
<1>3. Len(m.data) \in Nat
  BY <1>2, LenProperties
<1> QED BY <1>1, <1>2, <1>3

\* A single frame is its message.
LEMMA SingleFacts ==
    ASSUME NEW m \in Messages, IsSingle(m)
    PROVE  /\ FrameOf(m, 1) \in Seq(Byte) /\ Len(FrameOf(m, 1)) = 8
           /\ ~Ignored(FrameOf(m, 1)) /\ pciType(FrameOf(m, 1)) = SF
           /\ ValidSF(FrameOf(m, 1)) /\ MessageOfSF(FrameOf(m, 1)) = m
<1> DEFINE n == Len(m.data)
           field == <<m.nad, SF * 16 + n + 1, m.sid>> \o m.data
           p == FrameOf(m, 1)
<1> HIDE DEF n, p
<1>1. m.data \in Seq(Byte) /\ Len(m.data) = n /\ m.nad \in Byte /\ m.sid \in Byte
  BY MessageFacts DEF n
<1>2. n \in 0 .. 5
  <2>1. n \in Nat /\ n + 1 <= 6
    BY MessageFacts DEF n, IsSingle
  <2> QED BY <2>1
<1>3. /\ field \in Seq(Byte) /\ Len(field) = 3 + n
      /\ field[1] = m.nad /\ field[2] = n + 1 /\ field[3] = m.sid
      /\ \A i \in 1 .. n : field[3 + i] = m.data[i]
  <2> DEFINE front == <<m.nad, SF * 16 + n + 1, m.sid>>
  <2>1. SF * 16 + n + 1 = n + 1 /\ n + 1 \in Byte
    BY <1>2, IsByte DEF SF
  <2>2. /\ front \in Seq(Byte) /\ Len(front) = 3
        /\ front[1] = m.nad /\ front[2] = n + 1 /\ front[3] = m.sid
    BY <1>1, <2>1
  <2> HIDE DEF front
  <2>3. /\ front \o m.data \in Seq(Byte) /\ Len(front \o m.data) = Len(front) + Len(m.data)
        /\ \A i \in 1 .. Len(front) : (front \o m.data)[i] = front[i]
        /\ \A i \in 1 .. Len(m.data) : (front \o m.data)[Len(front) + i] = m.data[i]
    BY <1>1, <2>2, Joined
  <2>4. /\ front \o m.data \in Seq(Byte) /\ Len(front \o m.data) = 3 + n
        /\ \A i \in 1 .. 3 : (front \o m.data)[i] = front[i]
        /\ \A i \in 1 .. n : (front \o m.data)[3 + i] = m.data[i]
    BY <1>1, <2>2, <2>3
  <2>5. /\ (front \o m.data)[1] = m.nad /\ (front \o m.data)[2] = n + 1
        /\ (front \o m.data)[3] = m.sid
    <3>1. front[1] = m.nad /\ front[2] = n + 1 /\ front[3] = m.sid
      BY <2>2
    <3>2. \A i \in 1 .. 3 : (front \o m.data)[i] = front[i]
      BY <2>4
    <3> DEFINE both == front \o m.data
    <3>3. both[1] = front[1] /\ both[2] = front[2] /\ both[3] = front[3]
      <4> HIDE DEF both
      <4>1. \A i \in 1 .. 3 : both[i] = front[i]
        BY <3>2 DEF both
      <4> QED BY <4>1
    <3> QED BY <3>1, <3>3
  <2> QED BY <2>4, <2>5 DEF front
<1> HIDE DEF field
<1>4. /\ p \in Seq(Byte) /\ Len(p) = 8
      /\ \A i \in 1 .. 8 : i <= 3 + n => p[i] = field[i]
  <2>1. p = newDiagnosticFramePayload(field)
    BY DEF p, n, field, FrameOf, SingleFrame
  <2> QED BY <1>3, <2>1, FrameBytes
<1>5. p[1] = m.nad /\ p[2] = n + 1 /\ p[3] = m.sid
  BY <1>2, <1>3, <1>4
<1>6. \A i \in 1 .. n : p[3 + i] = m.data[i]
  <2> SUFFICES ASSUME NEW i \in 1 .. n PROVE p[3 + i] = m.data[i]
    OBVIOUS
  <2>1. 3 + i \in 1 .. 8 /\ 3 + i <= 3 + n
    BY <1>2
  <2> QED BY <1>3, <1>4, <2>1
<1>7. pciType(p) = 0 /\ additionalInfo(p) = n + 1
  <2>1. \A b \in 1 .. 6 : b \div 16 = 0 /\ b % 16 = b
    OBVIOUS
  <2> QED BY <1>2, <1>5, <2>1 DEF pciType, additionalInfo
<1>8. SubSeq(p, 4, n + 3) = m.data
  <2> DEFINE first == 4
             last == n + 3
             cut == SubSeq(p, first, last)
  <2>1. /\ first \in Nat \ {0} /\ last \in Int /\ last <= Len(p) /\ first <= last + 1
        /\ last - first + 1 = n
    BY <1>2, <1>4
  <2>2. \A i \in 1 .. n : first + i - 1 = 3 + i
    BY <1>2
  <2> HIDE DEF first, last
  <2>3. /\ cut \in Seq(Byte) /\ Len(cut) = last - first + 1
        /\ \A i \in 1 .. last - first + 1 : cut[i] = p[first + i - 1]
    BY <1>4, <2>1, Cut
  <2> HIDE DEF cut
  <2>4. Len(cut) = n /\ \A i \in 1 .. n : cut[i] = p[first + i - 1]
    BY <2>1, <2>3
  <2>5. \A i \in 1 .. n : cut[i] = m.data[i]
    BY <1>6, <2>2, <2>4
  <2>6. cut = m.data
    BY <1>1, <2>3, <2>4, <2>5, SeqEqual
  <2> QED BY <2>6 DEF cut, first, last
<1>9. ~Ignored(p) /\ pciType(p) = SF /\ ValidSF(p)
  BY <1>2, <1>4, <1>7 DEF Ignored, ValidSF, SF
<1>10. MessageOfSF(p) = m
  <2>1. 2 + additionalInfo(p) = n + 3
    BY <1>2, <1>7
  <2> QED BY <1>5, <1>8, <2>1, MessageRecord DEF MessageOfSF
<1> QED BY <1>4, <1>9, <1>10 DEF p

\* A first frame says how long its message is, and has its first 4 bytes.
LEMMA FirstFacts ==
    ASSUME NEW m \in Messages, ~IsSingle(m)
    PROVE  /\ FrameOf(m, 1) \in Seq(Byte) /\ Len(FrameOf(m, 1)) = 8
           /\ ~Ignored(FrameOf(m, 1)) /\ pciType(FrameOf(m, 1)) = FF
           /\ ValidFF(FrameOf(m, 1)) /\ LengthOfFF(FrameOf(m, 1)) = Len(m.data) + 1
           /\ FrameOf(m, 1)[1] = m.nad /\ FrameOf(m, 1)[4] = m.sid
           /\ SubSeq(FrameOf(m, 1), 5, 8) = SubSeq(m.data, 1, 4)
<1> DEFINE n == Len(m.data)
           head == SubSeq(m.data, 1, 4)
           front == <<m.nad, FF * 16 + (((n + 1) \div 256) % 16), (n + 1) % 256, m.sid>>
           field == front \o head
           p == FrameOf(m, 1)
<1>1. m.data \in Seq(Byte) /\ m.nad \in Byte /\ m.sid \in Byte
  BY MessageFacts
<1>2. n \in 6 .. 4094
  <2>1. n \in Nat /\ n <= 4094 /\ ~(n + 1 <= 6)
    BY MessageFacts DEF IsSingle
  <2> HIDE DEF n
  <2> QED BY <2>1
<1>3. p = newDiagnosticFramePayload(field)
  BY DEF FrameOf, FirstFrame
<1>4. /\ head \in Seq(Byte) /\ Len(head) = 4
      /\ \A i \in 1 .. 4 : head[i] = m.data[i]
  <2> DEFINE last == 4
             one == 1
  <2>1. last <= n
    <3> HIDE DEF n
    <3> QED BY <1>2
  <2>2. one \in Nat \ {0} /\ last \in Int /\ last <= Len(m.data) /\ one <= last + 1
        /\ last - one + 1 = 4
    BY <2>1
  <2>3. \A i \in 1 .. 4 : one + i - 1 = i
    OBVIOUS
  <2> HIDE DEF last, one
  <2>4. /\ SubSeq(m.data, one, last) \in Seq(Byte)
        /\ Len(SubSeq(m.data, one, last)) = last - one + 1
        /\ \A i \in 1 .. last - one + 1 :
             SubSeq(m.data, one, last)[i] = m.data[one + i - 1]
    BY <1>1, <2>2, Cut
  <2>5. SubSeq(m.data, one, last) = head
    BY DEF one, last
  <2> HIDE DEF head
  <2> QED BY <2>2, <2>3, <2>4, <2>5
<1> HIDE DEF n, head, p
<1> DEFINE hi == (n + 1) \div 256
           lo == (n + 1) % 256
<1>5. hi \in 0 .. 15 /\ lo \in 0 .. 255 /\ hi * 256 + lo = n + 1
  <2> DEFINE len == n + 1
  <2>1. len \in 7 .. 4095 /\ len \in Int
    BY <1>2
  <2> HIDE DEF len
  <2>2. \A k \in 7 .. 4095 : k \div 256 \in 0 .. 15
    OBVIOUS
  <2>3. \A k \in Int : k % 256 \in 0 .. 255
    OBVIOUS
  <2>4. \A k \in Int : (k \div 256) * 256 + (k % 256) = k
    OBVIOUS
  <2>5. /\ len \div 256 \in 0 .. 15 /\ len % 256 \in 0 .. 255
        /\ (len \div 256) * 256 + (len % 256) = len
    BY <2>1, <2>2, <2>3, <2>4
  <2> QED BY <2>5 DEF len
<1>6. front = <<m.nad, 16 + hi, lo, m.sid>>
  <2> HIDE DEF hi, lo
  <2>1. hi % 16 = hi
    BY <1>5
  <2>2. FF * 16 + (hi % 16) = 16 + hi
    BY <1>5, <2>1 DEF FF
  <2>3. front = <<m.nad, FF * 16 + (hi % 16), lo, m.sid>>
    BY DEF front, hi, lo
  <2> QED BY <2>2, <2>3
<1> HIDE DEF front, hi, lo
<1>7. /\ front \in Seq(Byte) /\ Len(front) = 4
      /\ front[1] = m.nad /\ front[2] = 16 + hi /\ front[3] = lo /\ front[4] = m.sid
  <2>1. 16 + hi \in Byte /\ lo \in Byte
    BY <1>5, IsByte
  <2> QED BY <1>1, <1>6, <2>1
<1>8. /\ field \in Seq(Byte) /\ Len(field) = Len(front) + Len(head)
      /\ \A i \in 1 .. Len(front) : field[i] = front[i]
      /\ \A i \in 1 .. Len(head) : field[Len(front) + i] = head[i]
  BY <1>4, <1>7, Joined
<1> HIDE DEF field
<1>9. /\ Len(field) = 8 /\ \A i \in 1 .. 4 : field[i] = front[i]
      /\ \A i \in 1 .. 4 : field[4 + i] = head[i]
  BY <1>4, <1>7, <1>8
<1>10. p \in Seq(Byte) /\ Len(p) = 8 /\ \A i \in 1 .. 8 : p[i] = field[i]
  <2>1. /\ p \in Seq(Byte) /\ Len(p) = 8
        /\ \A i \in 1 .. 8 : i <= Len(field) => p[i] = field[i]
    BY <1>3, <1>8, FrameBytes
  <2> QED BY <1>9, <2>1
<1>11. p[1] = m.nad /\ p[2] = 16 + hi /\ p[3] = lo /\ p[4] = m.sid
  <2>1. \A i \in 1 .. 4 : p[i] = front[i]
    BY <1>9, <1>10
  <2> QED BY <1>7, <2>1
<1>12. \A i \in 1 .. 4 : p[4 + i] = head[i]
  <2> SUFFICES ASSUME NEW i \in 1 .. 4 PROVE p[4 + i] = head[i]
    OBVIOUS
  <2>1. 4 + i \in 1 .. 8
    OBVIOUS
  <2> QED BY <1>9, <1>10, <2>1
<1>13. pciType(p) = 1 /\ additionalInfo(p) = hi
  <2>1. \A h \in 0 .. 15 : (16 + h) \div 16 = 1 /\ (16 + h) % 16 = h
    OBVIOUS
  <2> QED BY <1>5, <1>11, <2>1 DEF pciType, additionalInfo
<1>14. LengthOfFF(p) = n + 1
  BY <1>5, <1>11, <1>13 DEF LengthOfFF
<1>15. ~Ignored(p) /\ pciType(p) = FF /\ ValidFF(p)
  BY <1>2, <1>10, <1>13, <1>14 DEF Ignored, ValidFF, FF, maxTransportDataLength
<1>16. SubSeq(p, 5, 8) = head
  <2> DEFINE first == 5
             last == 8
             cut == SubSeq(p, first, last)
  <2>1. /\ first \in Nat \ {0} /\ last \in Int /\ last <= Len(p) /\ first <= last + 1
        /\ last - first + 1 = 4
    BY <1>10
  <2>2. \A i \in 1 .. 4 : first + i - 1 = 4 + i
    OBVIOUS
  <2> HIDE DEF first, last
  <2>3. /\ cut \in Seq(Byte) /\ Len(cut) = last - first + 1
        /\ \A i \in 1 .. last - first + 1 : cut[i] = p[first + i - 1]
    BY <1>10, <2>1, Cut
  <2> HIDE DEF cut
  <2>4. Len(cut) = 4 /\ \A i \in 1 .. 4 : cut[i] = p[first + i - 1]
    BY <2>1, <2>3
  <2>5. \A i \in 1 .. 4 : cut[i] = head[i]
    BY <1>12, <2>2, <2>4
  <2>6. cut = head
    BY <1>4, <2>3, <2>4, <2>5, SeqEqual
  <2> QED BY <2>6 DEF cut, first, last
<1> QED BY <1>10, <1>11, <1>14, <1>15, <1>16 DEF p, n, head

\* A frame more for every 6 bytes: how many bytes have gone with q frames.
LEMMA CountFacts ==
    ASSUME NEW m \in Messages, ~IsSingle(m)
    PROVE  /\ Len(m.data) \in Nat /\ Len(m.data) > 5
           /\ NumFrames(m) \in Nat /\ NumFrames(m) >= 2
           /\ 6 * NumFrames(m) - 2 >= Len(m.data)
           /\ \A q \in Nat : q < NumFrames(m) => 6 * q - 2 < Len(m.data)
<1> DEFINE n == Len(m.data)
           len == n + 1
<1>1. n \in Nat /\ len > 6 /\ NumFrames(m) = 1 + (len \div 6) /\ len = n + 1
  BY MessageFacts DEF IsSingle, NumFrames
<1> HIDE DEF n, len
<1>2. len \in Nat
  BY <1>1
<1>3. /\ len \div 6 \in Nat /\ len \div 6 >= 1
      /\ 6 * (len \div 6) <= len /\ len < 6 * (len \div 6) + 6
  <2>1. \A k \in Int : k \div 6 \in Int /\ 6 * (k \div 6) <= k /\ k < 6 * (k \div 6) + 6
    OBVIOUS
  <2> DEFINE f == len \div 6
  <2>2. f \in Int /\ 6 * f <= len /\ len < 6 * f + 6
    BY <1>2, <2>1
  <2> HIDE DEF f
  <2>3. f >= 1 /\ f \in Nat
    BY <1>1, <1>2, <2>2
  <2> QED BY <2>2, <2>3 DEF f
<1> DEFINE f == len \div 6
<1> HIDE DEF f
<1>4. f \in Nat /\ f >= 1 /\ 6 * f <= n + 1 /\ n + 1 < 6 * f + 6 /\ NumFrames(m) = 1 + f
  BY <1>1, <1>3 DEF f
<1>5. NumFrames(m) \in Nat /\ NumFrames(m) >= 2 /\ 6 * NumFrames(m) - 2 >= n
  BY <1>1, <1>4
<1>6. \A q \in Nat : q < NumFrames(m) => 6 * q - 2 < n
  BY <1>1, <1>4
<1>7. n > 5
  BY <1>1
<1> QED BY <1>1, <1>5, <1>6, <1>7 DEF n

\* How many bytes the consecutive frame after q frames has.
Share(m, q) == IF Len(m.data) - (6 * q - 2) < 6 THEN Len(m.data) - (6 * q - 2) ELSE 6

\* A consecutive frame has its number, modulo 16, and the bytes that are next.
LEMMA ConsecutiveFacts ==
    ASSUME NEW m \in Messages, ~IsSingle(m), NEW q \in Nat, q >= 1, q < NumFrames(m)
    PROVE  /\ FrameOf(m, q + 1) \in Seq(Byte) /\ Len(FrameOf(m, q + 1)) = 8
           /\ ~Ignored(FrameOf(m, q + 1)) /\ pciType(FrameOf(m, q + 1)) = CF
           /\ additionalInfo(FrameOf(m, q + 1)) = q % 16
           /\ \A i \in 1 .. Share(m, q) : FrameOf(m, q + 1)[2 + i] = m.data[6 * q - 2 + i]
<1> DEFINE n == Len(m.data)
           part == SubSeq(m.data, 6 * q - 1, EndByte(m, q))
           front == <<m.nad, CF * 16 + CounterOf(q)>>
           field == front \o part
           p == FrameOf(m, q + 1)
           w == Share(m, q)
<1>1. m.data \in Seq(Byte) /\ m.nad \in Byte
  BY MessageFacts
<1>2. n \in Nat /\ 6 * q - 2 < n
  BY CountFacts
<1>3. p = newDiagnosticFramePayload(field)
  <2>1. q + 1 # 1 /\ (q + 1) - 1 = q
    OBVIOUS
  <2> QED BY <2>1 DEF FrameOf, ConsecutiveFrame
<1>4. EndByte(m, q) = 6 * q - 2 + w /\ w \in 1 .. 6 /\ 6 * q - 2 + w <= n
  <2>1. EndByte(m, q) = IF 6 * q + 4 > n THEN n ELSE 6 * q + 4
    BY DEF EndByte
  <2>2. w = IF n - (6 * q - 2) < 6 THEN n - (6 * q - 2) ELSE 6
    BY DEF Share
  <2> HIDE DEF n, w
  <2> QED BY <1>2, <2>1, <2>2
<1>5. /\ part \in Seq(Byte) /\ Len(part) = w
      /\ \A i \in 1 .. w : part[i] = m.data[6 * q - 2 + i]
  <2> DEFINE first == 6 * q - 1
             last == EndByte(m, q)
  <2> HIDE DEF n, w
  <2>1. /\ first \in Nat \ {0} /\ last \in Int /\ last <= n /\ first <= last + 1
        /\ last - first + 1 = w
    BY <1>2, <1>4
  <2>2. \A i \in 1 .. w : first + i - 1 = 6 * q - 2 + i
    BY <1>4
  <2> HIDE DEF first, last
  <2>3. /\ SubSeq(m.data, first, last) \in Seq(Byte)
        /\ Len(SubSeq(m.data, first, last)) = last - first + 1
        /\ \A i \in 1 .. last - first + 1 :
             SubSeq(m.data, first, last)[i] = m.data[first + i - 1]
    BY <1>1, <2>1, Cut DEF n
  <2>4. SubSeq(m.data, first, last) = part
    BY DEF first, last
  <2> HIDE DEF part
  <2>5. part \in Seq(Byte) /\ Len(part) = w /\ \A i \in 1 .. w : part[i] = m.data[first + i - 1]
    BY <2>1, <2>3, <2>4
  <2> QED BY <2>2, <2>5
<1> DEFINE c == q % 16
<1>6. c \in 0 .. 15 /\ front = <<m.nad, 32 + c>>
  <2>1. q % 16 \in 0 .. 15
    OBVIOUS
  <2>2. CF * 16 + CounterOf(q) = 32 + c
    BY <2>1 DEF CF, CounterOf
  <2> QED BY <2>1, <2>2
<1> HIDE DEF n, p, w, part, front, c
<1>7. front \in Seq(Byte) /\ Len(front) = 2 /\ front[2] = 32 + c
  <2>1. 32 + c \in Byte
    BY <1>6, IsByte
  <2> QED BY <1>1, <1>6, <2>1
<1>8. /\ field \in Seq(Byte) /\ Len(field) = Len(front) + Len(part)
      /\ \A i \in 1 .. Len(front) : field[i] = front[i]
      /\ \A i \in 1 .. Len(part) : field[Len(front) + i] = part[i]
  BY <1>5, <1>7, Joined
<1> HIDE DEF field
<1>9. Len(field) = 2 + w /\ field[2] = 32 + c /\ \A i \in 1 .. w : field[2 + i] = part[i]
  <2>1. \A i \in 1 .. 2 : field[i] = front[i]
    BY <1>7, <1>8
  <2> QED BY <1>5, <1>7, <1>8, <2>1
<1>10. /\ p \in Seq(Byte) /\ Len(p) = 8
       /\ \A i \in 1 .. 8 : i <= Len(field) => p[i] = field[i]
  BY <1>3, <1>8, FrameBytes
<1>11. p[2] = 32 + c /\ \A i \in 1 .. w : p[2 + i] = part[i]
  <2>1. p[2] = field[2]
    BY <1>4, <1>9, <1>10
  <2>2. ASSUME NEW i \in 1 .. w PROVE p[2 + i] = part[i]
    <3>1. 2 + i \in 1 .. 8 /\ 2 + i <= 2 + w
      BY <1>4
    <3> QED BY <1>9, <1>10, <3>1
  <2> QED BY <1>9, <2>1, <2>2
<1>12. pciType(p) = 2 /\ additionalInfo(p) = c
  <2>1. \A h \in 0 .. 15 : (32 + h) \div 16 = 2 /\ (32 + h) % 16 = h
    OBVIOUS
  <2> QED BY <1>6, <1>11, <2>1 DEF pciType, additionalInfo
<1>13. ~Ignored(p) /\ pciType(p) = CF
  BY <1>10, <1>12 DEF Ignored, CF
<1>14. \A i \in 1 .. w : p[2 + i] = m.data[6 * q - 2 + i]
  BY <1>5, <1>11
<1> QED BY <1>10, <1>12, <1>13, <1>14 DEF p, c, w

\* The bytes of s up to the k-th, and those that follow them.
LEMMA Longer ==
    ASSUME NEW s \in Seq(Byte), NEW k \in Nat, NEW w \in Nat, k + w <= Len(s),
           NEW t \in Seq(Byte), Len(t) = w, \A i \in 1 .. w : t[i] = s[k + i]
    PROVE  SubSeq(s, 1, k) \o t = SubSeq(s, 1, k + w)
<1> DEFINE first == k + 1
           last == k + w
           b == SubSeq(s, first, last)
<1>1. /\ first \in Nat \ {0} /\ last \in Int /\ last <= Len(s) /\ first <= last + 1
      /\ last - first + 1 = w /\ \A i \in 1 .. w : first + i - 1 = k + i
  OBVIOUS
<1> HIDE DEF first, last
<1>2. /\ b \in Seq(Byte) /\ Len(b) = last - first + 1
      /\ \A i \in 1 .. last - first + 1 : b[i] = s[first + i - 1]
  BY <1>1, Cut
<1> HIDE DEF b
<1>3. t = b
  <2>1. Len(t) = Len(b) /\ \A i \in 1 .. w : t[i] = b[i]
    BY <1>1, <1>2
  <2>2. \A i \in 1 .. Len(t) : t[i] = b[i]
    BY <2>1
  <2> QED BY <1>2, <2>1, <2>2, SeqEqual
<1>4. SubSeq(s, 1, k) \o SubSeq(s, k + 1, k + w) = SubSeq(s, 1, k + w)
  BY ConcatAdjacentSubSeq
<1> QED BY <1>3, <1>4 DEF b, first, last

\* The first w data bytes of a consecutive frame, added to the k bytes before.
LEMMA Grown ==
    ASSUME NEW s \in Seq(Byte), NEW k \in Nat, NEW w \in 1 .. 6, k + w <= Len(s),
           NEW p \in Seq(Byte), Len(p) = 8, \A i \in 1 .. w : p[2 + i] = s[k + i]
    PROVE  SubSeq(s, 1, k) \o SubSeq(p, 3, 2 + w) = SubSeq(s, 1, k + w)
<1> DEFINE first == 3
           last == 2 + w
           part == SubSeq(p, first, last)
<1>1. /\ first \in Nat \ {0} /\ last \in Int /\ last <= Len(p) /\ first <= last + 1
      /\ last - first + 1 = w
  OBVIOUS
<1>2. \A i \in 1 .. w : first + i - 1 = 2 + i
  OBVIOUS
<1> HIDE DEF first, last
<1>3. /\ part \in Seq(Byte) /\ Len(part) = last - first + 1
      /\ \A i \in 1 .. last - first + 1 : part[i] = p[first + i - 1]
  BY <1>1, Cut
<1> HIDE DEF part
<1>4. Len(part) = w /\ \A i \in 1 .. w : part[i] = s[k + i]
  BY <1>1, <1>2, <1>3
<1>5. w \in Nat
  OBVIOUS
<1>6. SubSeq(s, 1, k) \o part = SubSeq(s, 1, k + w)
  BY <1>3, <1>4, <1>5, Longer
<1> QED BY <1>6 DEF part, first, last

-----------------------------------------------------------------------------
(***************************************************************************)
(* What the receiver makes of them.                                        *)
(***************************************************************************)

\* A single frame ends an open reception and is delivered as its message.
LEMMA SingleReceived ==
    ASSUME NEW m \in Messages, IsSingle(m), receiveFromDriver(FrameOf(m, 1))
    PROVE  resetState /\ deliverMessage(m) /\ Completes(FrameOf(m, 1))
<1> DEFINE p == FrameOf(m, 1)
<1>1. ~Ignored(p) /\ pciType(p) = SF /\ ValidSF(p) /\ MessageOfSF(p) = m
  BY SingleFacts
<1> HIDE DEF p
<1>2. receiveFromDriver(p)
  BY DEF p
<1>3. ReceiveSF(p) /\ Completes(p)
  BY <1>1, <1>2 DEF receiveFromDriver, Completes, SF, FF, CF
<1> QED BY <1>1, <1>3 DEF ReceiveSF, p

\* A first frame opens a reception with the first 4 bytes of its message.
LEMMA FirstReceived ==
    ASSUME NEW m \in Messages, ~IsSingle(m), receiveFromDriver(FrameOf(m, 1))
    PROVE  /\ remainingBytes' = Len(m.data) - 4
           /\ currentFrameData' = SubSeq(m.data, 1, 4)
           /\ currentNAD' = m.nad /\ currentSID' = m.sid
           /\ currentFrameCounter' = 0
           /\ UNCHANGED queues /\ ~Completes(FrameOf(m, 1))
<1> DEFINE p == FrameOf(m, 1)
<1>1. /\ ~Ignored(p) /\ pciType(p) = FF /\ ValidFF(p) /\ LengthOfFF(p) = Len(m.data) + 1
      /\ p[1] = m.nad /\ p[4] = m.sid /\ SubSeq(p, 5, 8) = SubSeq(m.data, 1, 4)
      /\ Len(p) = 8 /\ Len(m.data) \in Nat
  BY FirstFacts, MessageFacts
<1> HIDE DEF p
<1>2. receiveFromDriver(p)
  BY DEF p
<1>3. ReceiveFF(p) /\ ~Completes(p)
  BY <1>1, <1>2 DEF receiveFromDriver, Completes, SF, FF, CF
<1>4. LengthOfFF(p) - 1 - 4 = Len(m.data) - 4
  BY <1>1
<1> QED BY <1>1, <1>3, <1>4 DEF ReceiveFF, p

\* A consecutive frame completes, extends or ends the reception; it is taken by
\* its number alone.
LEMMA ConsecutiveReceived ==
    ASSUME RxTypeOK, NEW m \in Messages, ~IsSingle(m),
           NEW q \in Nat, q >= 1, q < NumFrames(m), NEW p, p = FrameOf(m, q + 1),
           receiveFromDriver(p)
    PROVE  /\ AcceptsCF(p) <=> remainingBytes # 0 /\ q % 16 = nextFrameCounter
           /\ \/ /\ AcceptsCF(p) /\ Completes(p) /\ remainingBytes <= 6
                 /\ Wanted = remainingBytes
                 /\ deliverMessage([nad |-> currentNAD, sid |-> currentSID,
                                    data |-> Extended(p)])
                 /\ resetState
              \/ /\ AcceptsCF(p) /\ ~Completes(p) /\ remainingBytes > 6 /\ Wanted = 6
                 /\ remainingBytes' = remainingBytes - 6
                 /\ currentFrameData' = Extended(p)
                 /\ currentFrameCounter' = nextFrameCounter
                 /\ UNCHANGED <<currentSID, currentNAD, queues>>
              \/ ~AcceptsCF(p) /\ ~Completes(p) /\ resetState /\ UNCHANGED queues
<1>1. /\ ~Ignored(p) /\ pciType(p) = CF /\ additionalInfo(p) = q % 16 /\ Len(p) = 8
  BY ConsecutiveFacts
<1>2. ReceiveCF(p) /\ (Completes(p) <=> CompletesCF(p))
  BY <1>1 DEF receiveFromDriver, Completes, SF, FF, CF
<1>3. remainingBytes \in Nat
  BY MaxLength DEF RxTypeOK
<1>4. Wanted = (IF remainingBytes < 6 THEN remainingBytes ELSE 6) /\ 2 + Wanted <= 8
  BY <1>3 DEF Wanted
<1>5. AcceptsCF(p) <=> remainingBytes # 0 /\ q % 16 = nextFrameCounter
  BY <1>1, <1>3, <1>4 DEF AcceptsCF
<1>6. CASE CompletesCF(p)
  <2>1. AcceptsCF(p) /\ remainingBytes = Wanted
    BY <1>6 DEF CompletesCF
  <2>2. /\ deliverMessage([nad |-> currentNAD, sid |-> currentSID, data |-> Extended(p)])
        /\ resetState
    BY <1>2, <1>6, <2>1 DEF ReceiveCF
  <2> QED BY <1>2, <1>3, <1>4, <1>5, <1>6, <2>1, <2>2
<1>7. CASE AcceptsCF(p) /\ ~CompletesCF(p)
  <2>1. remainingBytes # Wanted
    BY <1>7 DEF CompletesCF
  <2>2. remainingBytes > 6 /\ Wanted = 6
    BY <1>3, <1>4, <2>1
  <2>3. /\ remainingBytes' = remainingBytes - Wanted
        /\ currentFrameData' = Extended(p)
        /\ currentFrameCounter' = nextFrameCounter
        /\ UNCHANGED <<currentSID, currentNAD, queues>>
    BY <1>2, <1>7 DEF ReceiveCF
  <2> QED BY <1>2, <1>5, <1>7, <2>2, <2>3
<1>8. CASE ~AcceptsCF(p)
  <2>1. resetState /\ UNCHANGED queues
    BY <1>2, <1>8 DEF ReceiveCF, CompletesCF
  <2> QED BY <1>2, <1>5, <1>8, <2>1 DEF CompletesCF
<1> QED BY <1>6, <1>7, <1>8

\* With every frame before it, a consecutive frame leaves all bytes so far.
LEMMA BytesSoFar ==
    ASSUME RxTypeOK, NEW m \in Messages, ~IsSingle(m),
           NEW q \in Nat, q >= 1, q < NumFrames(m), NEW p, p = FrameOf(m, q + 1),
           currentFrameData = SubSeq(m.data, 1, 6 * q - 2),
           remainingBytes = Len(m.data) - (6 * q - 2)
    PROVE  Extended(p) = SubSeq(m.data, 1, 6 * q - 2 + Wanted)
<1> DEFINE n == Len(m.data)
           k == 6 * q - 2
           w == Wanted
<1>1. m.data \in Seq(Byte) /\ n \in Nat /\ k \in Nat /\ k < n /\ remainingBytes = n - k
  BY MessageFacts, CountFacts
<1>2. w = (IF remainingBytes < 6 THEN remainingBytes ELSE 6)
  BY DEF Wanted
<1>3. Share(m, q) = IF n - k < 6 THEN n - k ELSE 6
  BY DEF Share
<1> HIDE DEF n, k, w
<1>4. w = Share(m, q) /\ w \in 1 .. 6 /\ k + w <= n
  BY <1>1, <1>2, <1>3
<1>5. p \in Seq(Byte) /\ Len(p) = 8 /\ \A i \in 1 .. w : p[2 + i] = m.data[k + i]
  BY <1>4, ConsecutiveFacts DEF k
<1>6. SubSeq(m.data, 1, k) \o SubSeq(p, 3, 2 + w) = SubSeq(m.data, 1, k + w)
  BY <1>1, <1>4, <1>5, Grown DEF n
<1> QED BY <1>6 DEF Extended, k, w

\* What is malformed ends the reception or is ignored.
LEMMA NoiseReceived ==
    ASSUME RxTypeOK, NEW p \in Noise, receiveFromDriver(p)
    PROVE  \/ UNCHANGED rxVars
           \/ resetState /\ UNCHANGED queues
<1>1. Malformed(p)
  BY LinkAssumption
<1>2. CASE Ignored(p)
  BY <1>2 DEF receiveFromDriver
<1>3. CASE ~Ignored(p) /\ pciType(p) = SF
  BY <1>1, <1>3 DEF receiveFromDriver, ReceiveSF, Malformed, SF, FF, CF
<1>4. CASE ~Ignored(p) /\ pciType(p) = FF
  BY <1>1, <1>4 DEF receiveFromDriver, ReceiveFF, Malformed, SF, FF, CF
<1>5. CASE ~Ignored(p) /\ pciType(p) = CF
  <2>1. Len(p) = 2 /\ ReceiveCF(p)
    BY <1>1, <1>5 DEF receiveFromDriver, Malformed, SF, FF, CF
  <2>2. remainingBytes \in Nat
    BY MaxLength DEF RxTypeOK
  <2>3. ~AcceptsCF(p)
    BY <2>1, <2>2 DEF AcceptsCF, Wanted
  <2> QED BY <2>1, <2>3 DEF ReceiveCF, CompletesCF
<1> QED BY <1>2, <1>3, <1>4, <1>5 DEF receiveFromDriver

-----------------------------------------------------------------------------
(***************************************************************************)
(* The steps.                                                              *)
(***************************************************************************)

\* Every message has a frame.
LEMMA FramesCount ==
    ASSUME NEW m \in Messages
    PROVE  NumFrames(m) \in Nat /\ NumFrames(m) >= 1 /\ (IsSingle(m) => NumFrames(m) = 1)
<1>1. CASE IsSingle(m)
  BY <1>1 DEF NumFrames
<1>2. CASE ~IsSingle(m)
  BY <1>2, CountFacts
<1> QED BY <1>1, <1>2

\* A message that was sent is all that joins rxQueue.
LEMMA GenuineDelivered ==
    ASSUME RxTypeOK, Genuine, NEW m \in Messages, deliverMessage(m)
    PROVE  Genuine'
<1>1. rxQueue \in Seq(LinMessage) /\ m \in LinMessage
  BY LinkAssumption DEF RxTypeOK
<1>2. CASE rxQueue' = Append(rxQueue, m)
  <2> DEFINE q == Append(rxQueue, m)
  <2>1. /\ Len(q) = Len(rxQueue) + 1 /\ Len(rxQueue) \in Nat
        /\ \A i \in 1 .. Len(rxQueue) : q[i] = rxQueue[i]
        /\ q[Len(rxQueue) + 1] = m
    BY <1>1
  <2> HIDE DEF q
  <2>2. ASSUME NEW i \in 1 .. Len(q) PROVE q[i] \in Messages
    <3>1. CASE i \in 1 .. Len(rxQueue)
      BY <2>1, <3>1 DEF Genuine
    <3>2. CASE i = Len(rxQueue) + 1
      BY <2>1, <3>2
    <3> QED BY <2>1, <3>1, <3>2
  <2> QED BY <1>2, <2>2 DEF Genuine, q
<1>3. CASE UNCHANGED rxQueue
  BY <1>3 DEF Genuine
<1> QED BY <1>2, <1>3 DEF deliverMessage

\* Receive takes a message out and puts none in.
LEMMA GenuineTaken ==
    ASSUME RxTypeOK, Genuine, Receive
    PROVE  Genuine'
<1>1. rxQueue \in Seq(LinMessage) /\ rxQueue # <<>> /\ rxQueue' = Tail(rxQueue)
  BY DEF RxTypeOK, Receive
<1>2. /\ Len(rxQueue) \in Nat /\ Len(rxQueue) >= 1 /\ Len(Tail(rxQueue)) = Len(rxQueue) - 1
      /\ \A i \in 1 .. Len(rxQueue) - 1 : Tail(rxQueue)[i] = rxQueue[i + 1]
  BY <1>1, HeadTailProperties
<1> DEFINE t == Tail(rxQueue)
<1>3. /\ Len(t) = Len(rxQueue) - 1
      /\ \A i \in 1 .. Len(rxQueue) - 1 : t[i] = rxQueue[i + 1]
  BY <1>2
<1> HIDE DEF t
<1>4. ASSUME NEW i \in 1 .. Len(t) PROVE t[i] \in Messages
  <2>1. i \in 1 .. Len(rxQueue) - 1 /\ i + 1 \in 1 .. Len(rxQueue)
    BY <1>2, <1>3
  <2> QED BY <1>3, <2>1 DEF Genuine
<1> QED BY <1>1, <1>4 DEF Genuine, t

\* Whatever ends the reception, or leaves it as it is, and sends nothing.
LEMMA QuietStep ==
    ASSUME LinkInv, RxTypeOK', RxAccounting', Genuine => Genuine',
           UNCHANGED <<cur, pos, onBus, arrived, torn, sent, lost, dups>>,
           \/ UNCHANGED assembly /\ clean' \in {clean, FALSE}
           \/ resetState /\ clean' = FALSE
    PROVE  LinkInv'
<1>1. TypeOK'
  BY DEF LinkInv, TypeOK
<1>2. Places'
  BY DEF LinkInv, Places
<1>3. CASE UNCHANGED assembly /\ clean' \in {clean, FALSE}
  <2>1. /\ remainingBytes' = remainingBytes /\ currentFrameData' = currentFrameData
        /\ currentSID' = currentSID /\ currentNAD' = currentNAD
        /\ currentFrameCounter' = currentFrameCounter
    BY <1>3 DEF assembly
  <2>2. (Follows' <=> Follows) /\ (InStep' <=> InStep)
    BY <2>1 DEF Follows, Accepted, InStep
  <2>3. Untorn'
    BY <2>1, <2>2 DEF LinkInv, Untorn
  <2>4. Losses'
    BY <2>1, <2>2 DEF LinkInv, Losses
  <2>5. Clean'
    BY <1>3, <2>2 DEF LinkInv, Clean
  <2> QED BY <1>1, <1>2, <2>3, <2>4, <2>5 DEF LinkInv
<1>4. CASE resetState /\ clean' = FALSE
  <2>1. remainingBytes' = 0
    BY <1>4 DEF resetState
  <2>2. Untorn'
    BY <2>1 DEF LinkInv, Untorn
  <2>3. Losses'
    BY <2>1 DEF LinkInv, Losses
  <2>4. Clean'
    BY <1>4 DEF Clean
  <2> QED BY <1>1, <1>2, <2>2, <2>3, <2>4 DEF LinkInv
<1> QED BY <1>3, <1>4

\* The next message: without losses, the receiver is through with the last one.
LEMMA StartStep ==
    ASSUME LinkInv, StartMessage
    PROVE  LinkInv'
<1>1. /\ pos = NumFrames(cur) /\ cur \in Messages /\ cur' \in Messages /\ pos' = 0
      /\ onBus' = FALSE /\ clean' = TRUE /\ arrived' = FALSE /\ sent' = sent + 1
      /\ UNCHANGED <<rxVars, torn, lost, dups>>
  BY DEF StartMessage, LinkInv, TypeOK
<1>2. RxTypeOK' /\ RxAccounting' /\ (Genuine' <=> Genuine)
  BY <1>1, RxOtherStep DEF LinkInv, TypeOK, Genuine, rxVars, queues
<1>3. TypeOK'
  <2>1. pos' \in 0 .. NumFrames(cur')
    BY <1>1, FramesCount
  <2>2. sent' \in Nat /\ lost' \in Nat /\ dups' \in Nat /\ torn' \in BOOLEAN
    BY <1>1 DEF LinkInv, TypeOK
  <2> QED BY <1>1, <1>2, <2>1, <2>2 DEF TypeOK
<1>4. remainingBytes' = remainingBytes /\ remainingBytes \in Nat
  BY <1>1, MaxLength DEF rxVars, assembly, LinkInv, TypeOK, RxTypeOK
<1>5. lost = 0 => ~(remainingBytes > 0)
  <2> SUFFICES ASSUME lost = 0, remainingBytes > 0 PROVE FALSE
    BY <1>4
  <2>1. ~torn /\ InStep
    BY DEF LinkInv, Losses
  <2>2. ~IsSingle(cur)
    BY <2>1 DEF LinkInv, Untorn, InStep, Follows, Accepted
  <2>3. remainingBytes = Len(cur.data) - (6 * pos - 2)
    BY <2>1 DEF InStep
  <2>4. 6 * pos - 2 >= Len(cur.data) /\ Len(cur.data) \in Nat /\ pos \in Nat
    BY <1>1, <2>2, CountFacts
  <2> DEFINE n == Len(cur.data)
  <2>5. remainingBytes = n - (6 * pos - 2) /\ 6 * pos - 2 >= n /\ n \in Nat /\ pos \in Nat
    BY <2>3, <2>4
  <2> HIDE DEF n
  <2>6. remainingBytes <= 0
    BY <2>5
  <2> QED BY <1>4, <2>6
<1>6. Places' /\ Untorn' /\ Clean'
  <2>1. Places'
    BY <1>1 DEF Places
  <2>2. Untorn'
    BY <1>1 DEF Untorn
  <2>3. Clean'
    <3>1. 0 # NumFrames(cur') /\ ~(0 \in 1 .. NumFrames(cur') - 1)
      BY <1>1, FramesCount
    <3> QED BY <1>1, <3>1 DEF Clean
  <2> QED BY <2>1, <2>2, <2>3
<1>7. Losses'
  BY <1>1, <1>2, <1>4, <1>5 DEF LinkInv, Losses
<1> QED BY <1>2, <1>3, <1>6, <1>7 DEF LinkInv

\* All frames have 8 bytes.
LEMMA FrameTypes ==
    ASSUME NEW m \in Messages, NEW k \in 1 .. NumFrames(m)
    PROVE  FrameOf(m, k) \in Seq(Byte) /\ Len(FrameOf(m, k)) = 8
<1>1. CASE IsSingle(m)
  <2>1. k = 1
    BY <1>1, FramesCount
  <2> QED BY <1>1, <2>1, SingleFacts
<1>2. CASE ~IsSingle(m) /\ k = 1
  BY <1>2, FirstFacts
<1>3. CASE ~IsSingle(m) /\ k # 1
  <2> DEFINE q == k - 1
  <2>1. q \in Nat /\ q >= 1 /\ q < NumFrames(m) /\ k = q + 1
    BY <1>3, FramesCount
  <2> HIDE DEF q
  <2>2. FrameOf(m, q + 1) \in Seq(Byte) /\ Len(FrameOf(m, q + 1)) = 8
    BY <1>3, <2>1, ConsecutiveFacts
  <2> QED BY <2>1, <2>2
<1> QED BY <1>1, <1>2, <1>3

\* A frame that is received keeps types and accounting.
LEMMA FrameReceived ==
    ASSUME LinkInv, NEW k \in 1 .. NumFrames(cur), receiveFromDriver(FrameOf(cur, k))
    PROVE  RxTypeOK' /\ RxAccounting'
<1>1. cur \in Messages /\ RxTypeOK /\ RxAccounting
  BY DEF LinkInv, TypeOK
<1> DEFINE p == FrameOf(cur, k)
<1>2. p \in Seq(Byte) /\ Len(p) <= 8 /\ receiveFromDriver(p)
  <2>1. p \in Seq(Byte) /\ Len(p) = 8
    BY <1>1, FrameTypes
  <2> HIDE DEF p
  <2>2. Len(p) <= 8
    BY <2>1
  <2> QED BY <2>1, <2>2 DEF p
<1> HIDE DEF p
<1> QED BY <1>1, <1>2, ReceiveStep

\* What all deliveries have in common.
LEMMA DeliverTypesKept ==
    ASSUME LinkInv, Deliver
    PROVE  /\ TypeOK' /\ RxAccounting'
           /\ cur \in Messages /\ cur' = cur /\ pos \in Nat /\ pos' = pos + 1
           /\ pos < NumFrames(cur) /\ NumFrames(cur) \in Nat
           /\ torn \in BOOLEAN /\ arrived \in BOOLEAN /\ clean' = clean /\ lost' = lost
           /\ torn' = (torn /\ pos # 0) /\ onBus' = TRUE
           /\ receiveFromDriver(FrameOf(cur, pos + 1))
           /\ arrived' = (arrived \/ Completes(FrameOf(cur, pos + 1)))
<1>1. /\ cur \in Messages /\ cur' = cur /\ pos \in 0 .. NumFrames(cur) /\ pos' = pos + 1
      /\ pos < NumFrames(cur) /\ clean' = clean /\ lost' = lost /\ sent' = sent
      /\ dups' = dups /\ torn \in BOOLEAN /\ arrived \in BOOLEAN /\ clean \in BOOLEAN
      /\ sent \in Nat /\ lost \in Nat /\ dups \in Nat
      /\ torn' = (torn /\ pos # 0) /\ onBus' = TRUE
      /\ receiveFromDriver(FrameOf(cur, pos + 1))
      /\ arrived' = (arrived \/ Completes(FrameOf(cur, pos + 1)))
  BY DEF Deliver, NextFrame, LinkInv, TypeOK
<1>2. NumFrames(cur) \in Nat /\ pos + 1 \in 1 .. NumFrames(cur)
  BY <1>1, FramesCount
<1>3. RxTypeOK' /\ RxAccounting'
  BY <1>1, <1>2, FrameReceived
<1>4. torn' \in BOOLEAN /\ arrived' \in BOOLEAN /\ onBus' \in BOOLEAN
  BY <1>1
<1>5. pos' \in 0 .. NumFrames(cur')
  BY <1>1, <1>2
<1>6. TypeOK'
  BY <1>1, <1>3, <1>4, <1>5 DEF TypeOK
<1> QED BY <1>1, <1>2, <1>3, <1>6

\* A single frame arrives.
LEMMA DeliverSingle ==
    ASSUME LinkInv, Deliver, IsSingle(cur)
    PROVE  LinkInv' /\ [Channel!Next]_(Channel!chanVars)
<1>1. pos = 0 /\ NumFrames(cur) = 1
  BY DeliverTypesKept, FramesCount
<1>2. resetState /\ deliverMessage(cur) /\ arrived' = TRUE
  <2>1. /\ receiveFromDriver(FrameOf(cur, pos + 1)) /\ cur \in Messages
        /\ arrived' = (arrived \/ Completes(FrameOf(cur, pos + 1)))
    BY DeliverTypesKept
  <2>2. pos + 1 = 1
    BY <1>1
  <2>3. resetState /\ deliverMessage(cur) /\ Completes(FrameOf(cur, 1))
    BY <2>1, <2>2, SingleReceived
  <2> QED BY <2>1, <2>2, <2>3
<1>3. /\ remainingBytes' = 0 /\ torn' = FALSE /\ onBus' = TRUE /\ pos' = 1 /\ cur' = cur
      /\ lost' = lost /\ cur \in Messages
  <2>1. /\ torn' = (torn /\ pos # 0) /\ onBus' = TRUE /\ pos' = pos + 1 /\ cur' = cur
        /\ lost' = lost /\ cur \in Messages
    BY DeliverTypesKept
  <2>2. ~(torn /\ pos # 0) /\ pos' = 1
    BY <1>1, <2>1
  <2>3. torn' = FALSE
    BY <2>1, <2>2
  <2>4. remainingBytes' = 0
    BY <1>2 DEF resetState
  <2> QED BY <2>1, <2>2, <2>3, <2>4
<1>4. Untorn' /\ Places'
  BY <1>3 DEF Untorn, Places
<1>5. lost <= 1 => Genuine'
  <2>1. lost <= 1 => Genuine
    BY DEF LinkInv, Losses
  <2> QED BY <1>2, <1>3, <2>1, GenuineDelivered DEF LinkInv, TypeOK
<1>6. Losses' /\ Clean'
  <2>1. Losses'
    BY <1>3, <1>5 DEF Losses
  <2>2. Clean'
    BY <1>1, <1>2, <1>3 DEF Clean
  <2> QED BY <2>1, <2>2
<1>7. Channel!Arrive
  BY <1>2, <1>3 DEF Channel!Arrive, Channel!Put, deliverMessage
<1> QED BY <1>4, <1>6, <1>7, DeliverTypesKept DEF LinkInv, Channel!Next

\* Once a first frame is in, the receiver is in step.
LEMMA InStepAtFirst ==
    ASSUME cur \in Messages, ~IsSingle(cur), cur' = cur, pos' = 1,
           remainingBytes' = Len(cur.data) - 4,
           currentFrameData' = SubSeq(cur.data, 1, 4),
           currentNAD' = cur.nad, currentSID' = cur.sid, currentFrameCounter' = 0
    PROVE  Follows' /\ InStep'
<1>1. cur.data \in Seq(Byte) /\ Len(cur.data) > 5 /\ Len(cur.data) \in Nat
  BY MessageFacts, CountFacts
<1>2. Len(SubSeq(cur.data, 1, 4)) = 4
  <2> DEFINE one == 1
             last == 4
  <2>1. one \in Nat \ {0} /\ last \in Int /\ last <= Len(cur.data) /\ one <= last + 1
        /\ last - one + 1 = 4
    BY <1>1
  <2> HIDE DEF one, last
  <2>2. Len(SubSeq(cur.data, one, last)) = last - one + 1
    BY <1>1, <2>1, Cut
  <2> QED BY <2>1, <2>2 DEF one, last
<1>3. 6 * 1 - 2 = 4 /\ (1 - 1) % 16 = 0 /\ 1 \in 1 .. 1
  OBVIOUS
<1>4. Accepted(cur, 1)'
  BY <1>2, <1>3 DEF Accepted
<1>5. Follows'
  BY <1>3, <1>4 DEF Follows
<1> QED BY <1>3, <1>5 DEF InStep

\* A first frame arrives: whatever was open is forgotten, the channel mends.
LEMMA DeliverFirst ==
    ASSUME LinkInv, Deliver, ~IsSingle(cur), pos = 0
    PROVE  LinkInv' /\ [Channel!Next]_(Channel!chanVars)
<1>1. /\ cur \in Messages /\ cur' = cur /\ pos' = 1 /\ onBus' = TRUE /\ lost' = lost
      /\ torn' = FALSE /\ receiveFromDriver(FrameOf(cur, 1))
      /\ arrived' = (arrived \/ Completes(FrameOf(cur, 1)))
  <2>1. /\ cur \in Messages /\ cur' = cur /\ pos' = pos + 1 /\ onBus' = TRUE /\ lost' = lost
        /\ torn' = (torn /\ pos # 0) /\ receiveFromDriver(FrameOf(cur, pos + 1))
        /\ arrived' = (arrived \/ Completes(FrameOf(cur, pos + 1)))
    BY DeliverTypesKept
  <2>2. pos + 1 = 1 /\ ~(torn /\ pos # 0)
    OBVIOUS
  <2> QED BY <2>1, <2>2
<1>2. /\ remainingBytes' = Len(cur.data) - 4
      /\ currentFrameData' = SubSeq(cur.data, 1, 4)
      /\ currentNAD' = cur.nad /\ currentSID' = cur.sid
      /\ currentFrameCounter' = 0
      /\ UNCHANGED queues /\ ~Completes(FrameOf(cur, 1))
  BY <1>1, FirstReceived
<1>3. Follows' /\ InStep'
  BY <1>1, <1>2, InStepAtFirst
<1>4. arrived = FALSE /\ arrived' = FALSE
  <2>1. ~arrived /\ arrived \in BOOLEAN
    BY DEF LinkInv, Places, TypeOK
  <2> QED BY <1>1, <1>2, <2>1
<1>5. Untorn' /\ Places'
  BY <1>1, <1>3, <1>4 DEF Untorn, Places
<1>6. Losses'
  <2>1. lost <= 1 => Genuine
    BY DEF LinkInv, Losses
  <2>2. Genuine => Genuine'
    BY <1>2 DEF Genuine, queues
  <2> QED BY <1>1, <1>3, <2>1, <2>2 DEF Losses
<1>7. Clean'
  <2>1. NumFrames(cur') \in Nat /\ NumFrames(cur') >= 2
    BY <1>1, CountFacts
  <2> QED BY <1>1, <1>3, <2>1 DEF Clean
<1>8. [Channel!Next]_(Channel!chanVars)
  <2>1. /\ UNCHANGED <<cur, arrived, rxQueue>> /\ torn' = FALSE /\ torn \in BOOLEAN
    BY <1>1, <1>2, <1>4 DEF queues, LinkInv, TypeOK
  <2>2. Channel!Mend
    BY <2>1 DEF Channel!Mend
  <2> QED BY <2>2 DEF Channel!Next
<1> QED BY <1>5, <1>6, <1>7, <1>8, DeliverTypesKept DEF LinkInv

\* A consecutive frame accepted outside a torn channel is the next but for
\* frames that were lost sixteen at a time, and the last bytes of a message are
\* those of its last frame.
LEMMA AcceptedFollows ==
    ASSUME LinkInv, ~torn, ~IsSingle(cur), pos \in Nat, pos >= 1, pos < NumFrames(cur),
           NEW p, p = FrameOf(cur, pos + 1), remainingBytes # 0
    PROVE  \E q \in 1 .. pos :
             /\ Accepted(cur, q) /\ 6 * q - 2 + Wanted <= Len(cur.data)
             /\ (onBus => q % 16 = pos % 16)
             /\ remainingBytes <= 6 => q = pos /\ pos + 1 = NumFrames(cur)
             /\ q = pos => Extended(p) = SubSeq(cur.data, 1, 6 * q - 2 + Wanted)
<1>1. cur \in Messages /\ RxTypeOK /\ remainingBytes \in Nat
  BY MaxLength DEF LinkInv, TypeOK, RxTypeOK
<1>2. remainingBytes > 0
  BY <1>1
<1>3. PICK q \in 1 .. pos :
        /\ Accepted(cur, q)
        /\ q = pos => currentFrameData = SubSeq(cur.data, 1, 6 * q - 2)
        /\ onBus => q % 16 = pos % 16
  BY <1>2 DEF LinkInv, Untorn, Follows
<1> DEFINE n == Len(cur.data)
           k == NumFrames(cur)
<1>4. n \in Nat /\ remainingBytes = n - (6 * q - 2)
  BY <1>1, <1>3, MessageFacts DEF Accepted
<1>5. /\ k \in Nat /\ 6 * pos - 2 < n
      /\ \A i \in Nat : i < k => 6 * i - 2 < n
  BY <1>1, CountFacts
<1> HIDE DEF n, k
<1>6. Wanted <= remainingBytes /\ Wanted \in Nat
  BY <1>1 DEF Wanted
<1>7. 6 * q - 2 + Wanted <= n
  BY <1>4, <1>6
<1>8. remainingBytes <= 6 => q = pos /\ pos + 1 = k
  <2> SUFFICES ASSUME remainingBytes <= 6 PROVE q = pos /\ pos + 1 = k
    OBVIOUS
  <2>1. n <= 6 * q + 4
    BY <1>4
  <2>2. q = pos
    BY <1>4, <1>5, <2>1
  <2>3. ~(pos + 1 < k)
    BY <1>4, <1>5, <2>1, <2>2
  <2>4. pos < k
    BY DEF k
  <2> QED BY <1>5, <2>2, <2>3, <2>4
<1>9. q = pos => Extended(p) = SubSeq(cur.data, 1, 6 * q - 2 + Wanted)
  <2> SUFFICES ASSUME q = pos PROVE Extended(p) = SubSeq(cur.data, 1, 6 * pos - 2 + Wanted)
    OBVIOUS
  <2>1. /\ currentFrameData = SubSeq(cur.data, 1, 6 * pos - 2)
        /\ remainingBytes = Len(cur.data) - (6 * pos - 2)
    BY <1>3 DEF Accepted
  <2> QED BY <1>1, <2>1, BytesSoFar
<1> QED BY <1>3, <1>7, <1>8, <1>9 DEF n, k

\* A delivery leaves at most one message more in rxQueue.
LEMMA AtMostOneMore ==
    ASSUME RxTypeOK, NEW m, deliverMessage(m)
    PROVE  Len(rxQueue') <= Len(rxQueue) + 1
<1>1. rxQueue \in Seq(LinMessage) /\ Len(rxQueue) \in Nat
  BY LenProperties DEF RxTypeOK
<1>2. CASE UNCHANGED rxQueue
  BY <1>1, <1>2
<1>3. CASE rxQueue' = Append(rxQueue, m)
  <2> DEFINE S == LinMessage \cup {m}
  <2>1. rxQueue \in Seq(S) /\ m \in S
    BY <1>1
  <2>2. Len(Append(rxQueue, m)) = Len(rxQueue) + 1
    BY <2>1, AppendProperties
  <2> QED BY <1>1, <1>3, <2>2
<1> QED BY <1>2, <1>3 DEF deliverMessage

\* What the last consecutive frame completes is the message.
LEMMA CompletedIntact ==
    ASSUME LinkInv, ~torn, ~IsSingle(cur), pos \in Nat, pos >= 1, pos < NumFrames(cur),
           NEW p, p = FrameOf(cur, pos + 1),
           remainingBytes # 0, remainingBytes <= 6, Wanted = remainingBytes
    PROVE  /\ [nad |-> currentNAD, sid |-> currentSID, data |-> Extended(p)] = cur
           /\ pos + 1 = NumFrames(cur)
<1>1. PICK q \in 1 .. pos :
        /\ Accepted(cur, q) /\ pos + 1 = NumFrames(cur)
        /\ Extended(p) = SubSeq(cur.data, 1, 6 * q - 2 + Wanted)
  BY AcceptedFollows
<1>2. cur.data \in Seq(Byte) /\ Len(cur.data) \in Nat /\ cur \in Messages
  BY MessageFacts DEF LinkInv, TypeOK
<1> DEFINE n == Len(cur.data)
<1>3. n \in Nat /\ remainingBytes = n - (6 * q - 2)
  BY <1>1, <1>2 DEF Accepted
<1> HIDE DEF n
<1>4. 6 * q - 2 + Wanted = n
  BY <1>3
<1>5. Extended(p) = cur.data
  BY <1>1, <1>2, <1>4, SubSeqFull DEF n
<1>6. currentNAD = cur.nad /\ currentSID = cur.sid
  BY <1>1 DEF Accepted
<1> QED BY <1>1, <1>2, <1>5, <1>6, MessageRecord

\* A consecutive frame arrives: it completes cur, extends it, or does not fit.
LEMMA DeliverNext ==
    ASSUME LinkInv, Deliver, ~IsSingle(cur), pos # 0
    PROVE  LinkInv' /\ [Channel!Next]_(Channel!chanVars)
<1> DEFINE p == FrameOf(cur, pos + 1)
           k == NumFrames(cur)
<1>1. /\ TypeOK' /\ RxAccounting' /\ cur \in Messages /\ cur' = cur
      /\ pos \in Nat /\ pos >= 1 /\ pos' = pos + 1
      /\ pos < k /\ k \in Nat /\ NumFrames(cur') = k
      /\ torn \in BOOLEAN /\ arrived \in BOOLEAN /\ clean' = clean /\ lost' = lost
      /\ torn' = torn /\ onBus' = TRUE /\ receiveFromDriver(p)
      /\ arrived' = (arrived \/ Completes(p))
  <2>1. /\ TypeOK' /\ RxAccounting' /\ cur \in Messages /\ cur' = cur
        /\ pos \in Nat /\ pos' = pos + 1 /\ pos < NumFrames(cur) /\ NumFrames(cur) \in Nat
        /\ torn \in BOOLEAN /\ arrived \in BOOLEAN /\ clean' = clean /\ lost' = lost
        /\ torn' = (torn /\ pos # 0) /\ onBus' = TRUE
        /\ receiveFromDriver(FrameOf(cur, pos + 1))
        /\ arrived' = (arrived \/ Completes(FrameOf(cur, pos + 1)))
    BY DeliverTypesKept
  <2>2. pos >= 1
    BY <2>1
  <2>3. torn' = torn
    BY <2>1
  <2> QED BY <2>1, <2>2, <2>3
<1>2. RxTypeOK /\ remainingBytes \in Nat /\ RxTypeOK' /\ remainingBytes' \in Nat
  BY <1>1, MaxLength DEF LinkInv, TypeOK, RxTypeOK
<1>3. Places'
  BY <1>1 DEF Places
<1>4. torn => ~(lost = 0) /\ ~(lost = 1) /\ ~(lost <= 1)
  <2>1. lost \in Nat
    BY DEF LinkInv, TypeOK
  <2> QED BY <2>1 DEF LinkInv, Losses
<1>5. ~torn => ~arrived
  BY <1>1 DEF LinkInv, Untorn
<1>6. clean => ~torn /\ InStep
  BY <1>1 DEF LinkInv, Clean
<1>7. /\ AcceptsCF(p) <=> remainingBytes # 0 /\ pos % 16 = nextFrameCounter
      /\ \/ /\ AcceptsCF(p) /\ Completes(p) /\ remainingBytes <= 6
            /\ Wanted = remainingBytes
            /\ deliverMessage([nad |-> currentNAD, sid |-> currentSID,
                               data |-> Extended(p)])
            /\ resetState
         \/ /\ AcceptsCF(p) /\ ~Completes(p) /\ remainingBytes > 6 /\ Wanted = 6
            /\ remainingBytes' = remainingBytes - 6
            /\ currentFrameData' = Extended(p)
            /\ currentFrameCounter' = nextFrameCounter
            /\ UNCHANGED <<currentSID, currentNAD, queues>>
         \/ ~AcceptsCF(p) /\ ~Completes(p) /\ resetState /\ UNCHANGED queues
  BY <1>1, <1>2, ConsecutiveReceived
<1> HIDE DEF p, k
<1>8. CASE /\ AcceptsCF(p) /\ Completes(p) /\ remainingBytes <= 6
           /\ Wanted = remainingBytes
           /\ deliverMessage([nad |-> currentNAD, sid |-> currentSID,
                              data |-> Extended(p)])
           /\ resetState
  <2>1. remainingBytes # 0 /\ remainingBytes' = 0 /\ arrived' = TRUE
    BY <1>1, <1>7, <1>8 DEF resetState
  <2>2. ~torn => deliverMessage(cur) /\ pos + 1 = k
    <3> SUFFICES ASSUME ~torn PROVE deliverMessage(cur) /\ pos + 1 = k
      OBVIOUS
    <3>1. /\ [nad |-> currentNAD, sid |-> currentSID, data |-> Extended(p)] = cur
          /\ pos + 1 = NumFrames(cur)
      BY <1>1, <1>8, <2>1, CompletedIntact DEF p, k
    <3> QED BY <1>8, <3>1 DEF k
  <2>3. Untorn'
    BY <1>1, <2>1, <2>2 DEF Untorn
  <2>4. Losses'
    <3>1. lost <= 1 => Genuine'
      BY <1>1, <1>2, <1>4, <2>2, GenuineDelivered DEF LinkInv, Losses
    <3> QED BY <1>1, <1>4, <2>1, <3>1 DEF Losses
  <2>5. Clean'
    BY <1>1, <1>6, <2>1, <2>2 DEF Clean
  <2>6. CASE torn
    <3>1. Len(rxQueue') <= Len(rxQueue) + 1
      BY <1>2, <1>8, AtMostOneMore
    <3>2. Channel!Garble
      BY <1>1, <2>1, <2>6, <3>1 DEF Channel!Garble
    <3> QED BY <1>1, <1>3, <2>3, <2>4, <2>5, <3>2 DEF LinkInv, Channel!Next
  <2>7. CASE ~torn
    <3>1. Channel!Arrive
      BY <1>1, <1>5, <2>1, <2>2, <2>7 DEF Channel!Arrive, Channel!Put, deliverMessage
    <3> QED BY <1>1, <1>3, <2>3, <2>4, <2>5, <3>1 DEF LinkInv, Channel!Next
  <2> QED BY <2>6, <2>7
<1>9. CASE /\ AcceptsCF(p) /\ ~Completes(p) /\ remainingBytes > 6 /\ Wanted = 6
           /\ remainingBytes' = remainingBytes - 6
           /\ currentFrameData' = Extended(p)
           /\ currentFrameCounter' = nextFrameCounter
           /\ UNCHANGED <<currentSID, currentNAD, queues>>
  <2>1. remainingBytes # 0 /\ (arrived' <=> arrived) /\ rxQueue' = rxQueue
    BY <1>1, <1>7, <1>9 DEF queues
  <2>2. ~torn => Follows'
    <3> SUFFICES ASSUME ~torn PROVE Follows'
      OBVIOUS
    <3>1. PICK q \in 1 .. pos :
            /\ Accepted(cur, q) /\ 6 * q - 2 + Wanted <= Len(cur.data)
            /\ (onBus => q % 16 = pos % 16)
            /\ remainingBytes <= 6 => q = pos /\ pos + 1 = NumFrames(cur)
            /\ q = pos => Extended(p) = SubSeq(cur.data, 1, 6 * q - 2 + Wanted)
      BY <1>1, <2>1, AcceptedFollows DEF p, k
    <3>2. q \in Nat /\ q + 1 \in 1 .. pos + 1 /\ 6 * (q + 1) - 2 = 6 * q - 2 + 6
          /\ (q + 1) - 1 = q
      BY <1>1
    <3>3. currentFrameCounter = (q - 1) % 16 /\ nextFrameCounter = (currentFrameCounter + 1) % 16
      BY <3>1 DEF Accepted, nextFrameCounter
    <3>4. \A i \in Int : (((i - 1) % 16) + 1) % 16 = i % 16
      OBVIOUS
    <3>5. nextFrameCounter = q % 16 /\ q % 16 = pos % 16
      BY <1>7, <1>9, <3>2, <3>3, <3>4
    <3>6. (q + 1) % 16 = (pos + 1) % 16
      <4>1. \A i, j \in Int : i % 16 = j % 16 => (i + 1) % 16 = (j + 1) % 16
        OBVIOUS
      <4> QED BY <1>1, <3>2, <3>5, <4>1
    <3>7. Accepted(cur, q + 1)'
      <4>1. Len(currentFrameData') = Len(currentFrameData) + 6
        <5>1. p \in Seq(Byte) /\ Len(p) = 8
          BY <1>1, ConsecutiveFacts DEF p, k
        <5>2. Len(p) >= 2
          BY <5>1
        <5>3. Len(Extended(p)) = Len(currentFrameData) + Wanted
          BY <1>2, <1>9, <5>1, <5>2, CFContribution
        <5> QED BY <1>9, <5>3
      <4> DEFINE n == Len(cur.data)
      <4>2. n \in Nat /\ Len(currentFrameData) = 6 * q - 2 /\ remainingBytes = n - (6 * q - 2)
        BY <1>1, <3>1, MessageFacts DEF Accepted
      <4> HIDE DEF n
      <4>3. Len(currentFrameData') = 6 * (q + 1) - 2
        BY <3>2, <4>1, <4>2
      <4>4. remainingBytes' = n - (6 * (q + 1) - 2)
        BY <1>9, <3>2, <4>2
      <4>5. currentFrameCounter' = ((q + 1) - 1) % 16
        BY <1>9, <3>2, <3>5
      <4> QED BY <1>1, <1>9, <3>1, <4>3, <4>4, <4>5 DEF Accepted, n
    <3>8. q + 1 = pos + 1 => currentFrameData' = SubSeq(cur.data, 1, 6 * (q + 1) - 2)
      <4> SUFFICES ASSUME q + 1 = pos + 1
                   PROVE  currentFrameData' = SubSeq(cur.data, 1, 6 * (q + 1) - 2)
        OBVIOUS
      <4>1. q = pos
        BY <1>1, <3>2
      <4> QED BY <1>9, <3>1, <3>2, <4>1
    <3> QED BY <1>1, <3>2, <3>6, <3>7, <3>8 DEF Follows
  <2>3. Untorn'
    BY <1>1, <1>5, <2>1, <2>2 DEF Untorn
  <2>4. InStep => InStep' /\ pos + 1 # k
    <3> DEFINE n == Len(cur.data)
    <3>1. n \in Nat
      BY <1>1, MessageFacts
    <3>2. pos + 1 = k => 6 * (pos + 1) - 2 >= n
      BY <1>1, CountFacts DEF k
    <3> HIDE DEF n
    <3>3. InStep <=> remainingBytes = n - (6 * pos - 2)
      BY <1>1 DEF InStep, n
    <3>4. InStep' <=> remainingBytes' = n - (6 * (pos + 1) - 2)
      <4>1. InStep' <=> pos' >= 1 /\ remainingBytes' = n - (6 * pos' - 2)
        BY <1>1 DEF InStep, n
      <4>2. pos' >= 1
        BY <1>1
      <4> QED BY <1>1, <4>1, <4>2
    <3>5. remainingBytes = n - (6 * pos - 2) => remainingBytes' = n - (6 * (pos + 1) - 2)
      BY <1>1, <1>9, <3>1
    <3>6. remainingBytes = n - (6 * pos - 2) => pos + 1 # k
      BY <1>1, <1>9, <3>1, <3>2
    <3> QED BY <3>3, <3>4, <3>5, <3>6
  <2>5. Losses'
    <3>1. lost = 0 => ~torn /\ InStep
      BY <1>2, <2>1 DEF LinkInv, Losses
    <3>2. lost <= 1 => Genuine'
      BY <2>1 DEF LinkInv, Losses, Genuine
    <3> QED BY <1>1, <1>4, <2>4, <3>1, <3>2 DEF Losses
  <2>6. Clean'
    BY <1>1, <1>6, <2>4 DEF Clean
  <2>7. UNCHANGED Channel!chanVars
    BY <1>1, <2>1, <1>9 DEF Channel!chanVars
  <2> QED BY <1>1, <1>3, <2>3, <2>5, <2>6, <2>7 DEF LinkInv
<1>10. CASE ~AcceptsCF(p) /\ ~Completes(p) /\ resetState /\ UNCHANGED queues
  <2>1. remainingBytes' = 0 /\ (arrived' <=> arrived) /\ rxQueue' = rxQueue
    BY <1>1, <1>10 DEF queues, resetState
  <2>2. Untorn'
    BY <1>1, <1>5, <2>1 DEF Untorn
  <2>3. Losses'
    <3>1. lost <= 1 => Genuine'
      BY <2>1 DEF LinkInv, Losses, Genuine
    <3> QED BY <1>1, <1>4, <2>1, <3>1 DEF Losses
  <2>4. ~clean
    <3> SUFFICES ASSUME clean PROVE FALSE
      OBVIOUS
    <3>1. ~torn /\ remainingBytes = Len(cur.data) - (6 * pos - 2)
      BY <1>6 DEF InStep
    <3>2. 6 * pos - 2 < Len(cur.data) /\ Len(cur.data) \in Nat
      BY <1>1, CountFacts DEF k
    <3>3. remainingBytes # 0
      BY <1>1, <3>1, <3>2
    <3>4. PICK q \in 1 .. pos : Accepted(cur, q)
      BY <1>1, <3>1, <3>3, AcceptedFollows DEF p, k
    <3>5. q = pos
      <4> DEFINE n == Len(cur.data)
      <4>1. n \in Nat /\ remainingBytes = n - (6 * pos - 2) /\ remainingBytes = n - (6 * q - 2)
        BY <3>1, <3>2, <3>4 DEF Accepted
      <4> HIDE DEF n
      <4> QED BY <1>1, <4>1
    <3>6. currentFrameCounter = (pos - 1) % 16
      BY <3>4, <3>5 DEF Accepted
    <3>7. \A i \in Int : (((i - 1) % 16) + 1) % 16 = i % 16
      OBVIOUS
    <3>8. nextFrameCounter = pos % 16
      BY <1>1, <3>6, <3>7 DEF nextFrameCounter
    <3> QED BY <1>7, <1>10, <3>3, <3>8
  <2>5. Clean'
    BY <1>1, <2>4 DEF Clean
  <2>6. UNCHANGED Channel!chanVars
    BY <1>1, <2>1, <1>10 DEF Channel!chanVars
  <2> QED BY <1>1, <1>3, <2>2, <2>3, <2>5, <2>6 DEF LinkInv
<1> QED BY <1>7, <1>8, <1>9, <1>10

\* A frame is lost: at worst it was the first one, inside another message.
LEMMA LoseStep ==
    ASSUME LinkInv, Lose
    PROVE  LinkInv' /\ [Channel!Next]_(Channel!chanVars)
<1>1. /\ pos \in Nat /\ pos < NumFrames(cur) /\ NumFrames(cur) \in Nat
      /\ pos' = pos + 1 /\ onBus' = FALSE /\ clean' = FALSE
      /\ lost \in Nat /\ lost' = lost + 1
      /\ torn \in BOOLEAN /\ torn' = (torn \/ (pos = 0 /\ remainingBytes > 0))
      /\ UNCHANGED <<rxVars, cur, arrived, sent, dups>>
      /\ arrived \in BOOLEAN /\ cur \in Messages
  BY FramesCount DEF Lose, LinkInv, TypeOK
<1>2. /\ UNCHANGED <<currentFrameData, currentSID, currentNAD, currentFrameCounter,
                     remainingBytes, rxQueue, rxErrors>>
      /\ remainingBytes \in Nat
  BY <1>1, MaxLength DEF rxVars, assembly, queues, LinkInv, TypeOK, RxTypeOK
<1>3. TypeOK' /\ RxAccounting'
  <2>1. RxTypeOK' /\ RxAccounting'
    BY <1>1, RxOtherStep DEF LinkInv, TypeOK
  <2>2. pos' \in 0 .. NumFrames(cur')
    BY <1>1
  <2>3. torn' \in BOOLEAN
    BY <1>1
  <2>4. sent' \in Nat /\ lost' \in Nat /\ dups' \in Nat
    BY <1>1 DEF LinkInv, TypeOK
  <2>5. cur' \in Messages /\ onBus' \in BOOLEAN /\ clean' \in BOOLEAN /\ arrived' \in BOOLEAN
    BY <1>1
  <2> QED BY <2>1, <2>2, <2>3, <2>4, <2>5 DEF TypeOK
<1>4. Places'
  BY <1>1 DEF Places
<1>5. ~torn' => ~torn /\ (remainingBytes > 0 => pos >= 1)
  <2> SUFFICES ASSUME ~torn' PROVE ~torn /\ (remainingBytes > 0 => pos >= 1)
    OBVIOUS
  <2>1. ~torn /\ ~(pos = 0 /\ remainingBytes > 0)
    BY <1>1
  <2>2. pos # 0 => pos >= 1
    BY <1>1
  <2> QED BY <2>1, <2>2
<1>6. Untorn'
  <2> SUFFICES ASSUME ~torn' PROVE Untorn'
    BY DEF Untorn
  <2>1. ~torn
    BY <1>5
  <2>2. ASSUME remainingBytes > 0 PROVE Follows'
    <3>1. PICK q \in 1 .. pos : Accepted(cur, q)
      BY <1>5, <2>1, <2>2 DEF LinkInv, Untorn, Follows
    <3>2. Accepted(cur, q)'
      BY <1>1, <1>2, <3>1 DEF Accepted
    <3>3. q \in 1 .. pos' /\ q # pos' /\ ~onBus'
      BY <1>1
    <3> QED BY <1>1, <3>2, <3>3 DEF Follows
  <2>3. ~(arrived /\ ~IsSingle(cur))
    BY <1>1, <2>1 DEF LinkInv, Untorn
  <2> QED BY <1>1, <1>2, <2>2, <2>3 DEF Untorn
<1>7. Losses'
  <2>1. lost' # 0 /\ (lost' <= 1 => lost <= 1) /\ (lost' = 1 => lost = 0)
    BY <1>1
  <2>2. lost = 0 => ~torn'
    <3> SUFFICES ASSUME lost = 0 PROVE ~torn'
      OBVIOUS
    <3>1. ~torn /\ (remainingBytes > 0 => pos >= 1)
      BY DEF LinkInv, Losses, InStep
    <3>2. ~(pos = 0 /\ remainingBytes > 0)
      BY <3>1
    <3> QED BY <1>1, <3>1, <3>2
  <2>3. Genuine => Genuine'
    BY <1>2 DEF Genuine
  <2> QED BY <2>1, <2>2, <2>3 DEF LinkInv, Losses
<1>8. Clean'
  BY <1>1 DEF Clean
<1>9. [Channel!Next]_(Channel!chanVars)
  <2>1. CASE torn' = torn
    BY <1>1, <1>2, <2>1 DEF Channel!chanVars
  <2>2. CASE torn' # torn
    <3>1. ~torn' = FALSE
      BY <1>1, <2>2
    <3>2. Channel!Tear
      BY <1>1, <1>2, <3>1 DEF Channel!Tear
    <3> QED BY <3>2 DEF Channel!Next
  <2> QED BY <2>1, <2>2
<1> QED BY <1>3, <1>4, <1>6, <1>7, <1>8, <1>9 DEF LinkInv

\* A frame is repeated: a single frame arrives again, a first frame starts again,
\* and a consecutive one has the wrong number.
LEMMA DuplicateStep ==
    ASSUME LinkInv, Duplicate
    PROVE  LinkInv' /\ [Channel!Next]_(Channel!chanVars)
<1> DEFINE p == FrameOf(cur, pos)
           k == NumFrames(cur)
<1>1. /\ onBus /\ receiveFromDriver(p) /\ clean' = FALSE
      /\ arrived' = (arrived \/ Completes(p)) /\ arrived \in BOOLEAN
      /\ UNCHANGED <<cur, pos, onBus, torn, sent, lost>>
      /\ dups \in Nat /\ dups' = dups + 1
      /\ cur \in Messages /\ pos \in Nat /\ pos >= 1 /\ pos <= k /\ k \in Nat
      /\ RxTypeOK /\ torn \in BOOLEAN /\ lost \in Nat
  <2>1. /\ onBus /\ receiveFromDriver(p) /\ clean' = FALSE
        /\ arrived' = (arrived \/ Completes(p)) /\ arrived \in BOOLEAN
        /\ UNCHANGED <<cur, pos, onBus, torn, sent, lost>>
        /\ dups \in Nat /\ dups' = dups + 1 /\ lost \in Nat
        /\ cur \in Messages /\ pos \in 0 .. k /\ RxTypeOK /\ torn \in BOOLEAN
    BY DEF Duplicate, LastFrame, LinkInv, TypeOK
  <2>2. pos # 0
    BY <2>1 DEF LinkInv, Places
  <2>3. k \in Nat
    BY <2>1, FramesCount
  <2> HIDE DEF p, k
  <2>4. pos \in Nat /\ pos >= 1 /\ pos <= k
    BY <2>1, <2>2, <2>3
  <2> QED BY <2>1, <2>3, <2>4
<1>2. TypeOK' /\ RxAccounting'
  <2>1. pos \in 1 .. NumFrames(cur)
    BY <1>1
  <2>2. RxTypeOK' /\ RxAccounting'
    BY <1>1, <2>1, FrameReceived
  <2>3. arrived' \in BOOLEAN
    BY <1>1
  <2>4. cur' \in Messages /\ pos' \in 0 .. NumFrames(cur')
    BY <1>1 DEF LinkInv, TypeOK
  <2>5. sent' \in Nat /\ lost' \in Nat /\ dups' \in Nat
    BY <1>1 DEF LinkInv, TypeOK
  <2>6. onBus' \in BOOLEAN /\ clean' \in BOOLEAN /\ torn' \in BOOLEAN
    BY <1>1 DEF LinkInv, TypeOK
  <2> QED BY <2>2, <2>3, <2>4, <2>5, <2>6 DEF TypeOK
<1>3. Places' /\ Clean'
  <2>1. Places'
    BY <1>1 DEF LinkInv, Places
  <2>2. Clean'
    BY <1>1 DEF Clean
  <2> QED BY <2>1, <2>2
<1>4. torn => ~(lost = 0) /\ ~(lost = 1) /\ ~(lost <= 1)
  BY <1>1 DEF LinkInv, Losses
<1> HIDE DEF k
<1>5. CASE IsSingle(cur)
  <2>1. pos = 1
    BY <1>1, <1>5, FramesCount DEF k
  <2>2. resetState /\ deliverMessage(cur) /\ Completes(p)
    BY <1>1, <1>5, <2>1, SingleReceived
  <2> HIDE DEF p
  <2>3. ~torn /\ torn' = torn /\ arrived' = TRUE /\ remainingBytes' = 0
    BY <1>1, <2>1, <2>2 DEF LinkInv, Places, resetState
  <2>4. Untorn'
    BY <1>1, <1>5, <2>3 DEF Untorn
  <2>5. lost <= 1 => Genuine'
    BY <1>1, <2>2, GenuineDelivered DEF LinkInv, Losses
  <2>6. Losses'
    BY <1>1, <2>3, <2>5 DEF Losses
  <2>7. Channel!Arrive
    BY <1>1, <1>5, <2>2, <2>3 DEF Channel!Arrive, Channel!Put, deliverMessage
  <2> QED BY <1>2, <1>3, <2>4, <2>6, <2>7 DEF LinkInv, Channel!Next
<1>6. CASE ~IsSingle(cur) /\ pos = 1
  <2>1. /\ remainingBytes' = Len(cur.data) - 4
        /\ currentFrameData' = SubSeq(cur.data, 1, 4)
        /\ currentNAD' = cur.nad /\ currentSID' = cur.sid
        /\ currentFrameCounter' = 0
        /\ UNCHANGED queues /\ ~Completes(p)
    BY <1>1, <1>6, FirstReceived
  <2> HIDE DEF p
  <2>2. Follows' /\ InStep'
    BY <1>1, <1>6, <2>1, InStepAtFirst
  <2>3. ~torn
    BY <1>1, <1>6 DEF LinkInv, Places
  <2>4. ~arrived
    <3>1. k >= 2
      BY <1>1, <1>6, CountFacts DEF k
    <3> QED BY <1>6, <2>3, <3>1 DEF LinkInv, Untorn, k
  <2>5. arrived' = arrived /\ rxQueue' = rxQueue
    BY <1>1, <2>1, <2>4 DEF queues
  <2>6. Untorn'
    BY <2>2, <2>4, <2>5 DEF Untorn
  <2>7. Losses'
    BY <1>1, <2>2, <2>3, <2>5 DEF LinkInv, Losses, Genuine
  <2>8. UNCHANGED Channel!chanVars
    BY <1>1, <2>5 DEF Channel!chanVars
  <2> QED BY <1>2, <1>3, <2>6, <2>7, <2>8 DEF LinkInv
<1>7. CASE ~IsSingle(cur) /\ pos # 1
  <2> DEFINE q == pos - 1
  <2>1. q \in Nat /\ q >= 1 /\ q < k /\ q + 1 = pos
    BY <1>1, <1>7
  <2>2. p = FrameOf(cur, q + 1)
    BY <2>1
  <2> HIDE DEF p, q
  <2>3. /\ AcceptsCF(p) <=> remainingBytes # 0 /\ q % 16 = nextFrameCounter
        /\ \/ /\ AcceptsCF(p) /\ Completes(p) /\ remainingBytes <= 6
              /\ Wanted = remainingBytes
              /\ deliverMessage([nad |-> currentNAD, sid |-> currentSID,
                                 data |-> Extended(p)])
              /\ resetState
           \/ /\ AcceptsCF(p) /\ ~Completes(p) /\ remainingBytes > 6 /\ Wanted = 6
              /\ remainingBytes' = remainingBytes - 6
              /\ currentFrameData' = Extended(p)
              /\ currentFrameCounter' = nextFrameCounter
              /\ UNCHANGED <<currentSID, currentNAD, queues>>
           \/ ~AcceptsCF(p) /\ ~Completes(p) /\ resetState /\ UNCHANGED queues
    BY <1>1, <1>7, <2>1, <2>2, ConsecutiveReceived DEF k
  <2>4. CASE torn
    <3>1. Untorn' /\ Losses'
      BY <1>1, <1>4, <2>4 DEF Untorn, Losses
    <3>2. CASE Completes(p)
      <4>1. \E x : deliverMessage(x)
        BY <2>3, <3>2
      <4>2. Len(rxQueue') <= Len(rxQueue) + 1
        BY <1>1, <4>1, AtMostOneMore
      <4>3. Channel!Garble
        BY <1>1, <2>4, <3>2, <4>2 DEF Channel!Garble
      <4> QED BY <1>2, <1>3, <3>1, <4>3 DEF LinkInv, Channel!Next
    <3>3. CASE ~Completes(p)
      <4>1. arrived' = arrived /\ rxQueue' = rxQueue
        BY <1>1, <2>3, <3>3 DEF queues
      <4>2. UNCHANGED Channel!chanVars
        BY <1>1, <4>1 DEF Channel!chanVars
      <4> QED BY <1>2, <1>3, <3>1, <4>2 DEF LinkInv
    <3> QED BY <3>2, <3>3
  <2>5. CASE ~torn
    <3>1. ~AcceptsCF(p)
      <4> SUFFICES ASSUME remainingBytes # 0, q % 16 = nextFrameCounter PROVE FALSE
        BY <2>3
      <4>1. remainingBytes > 0
        BY <1>1, MaxLength DEF RxTypeOK
      <4>2. PICK r \in 1 .. pos : Accepted(cur, r) /\ r % 16 = pos % 16
        BY <1>1, <2>5, <4>1 DEF LinkInv, Untorn, Follows
      <4>3. currentFrameCounter = (r - 1) % 16
        BY <4>2 DEF Accepted
      <4>4. \A i \in Int : (((i - 1) % 16) + 1) % 16 = i % 16
        OBVIOUS
      <4>5. nextFrameCounter = r % 16
        BY <4>3, <4>4 DEF nextFrameCounter
      <4>6. q % 16 = (q + 1) % 16
        BY <2>1, <4>2, <4>5
      <4>7. \A i \in Int : i % 16 # (i + 1) % 16
        OBVIOUS
      <4> QED BY <2>1, <4>6, <4>7
    <3>2. ~Completes(p) /\ resetState /\ UNCHANGED queues
      BY <2>3, <3>1
    <3>3. remainingBytes' = 0 /\ arrived' = arrived /\ rxQueue' = rxQueue
      BY <1>1, <3>2 DEF resetState, queues
    <3>4. Untorn'
      BY <1>1, <3>3 DEF LinkInv, Untorn
    <3>5. Losses'
      BY <1>1, <3>3 DEF LinkInv, Losses, Genuine
    <3>6. UNCHANGED Channel!chanVars
      BY <1>1, <3>3 DEF Channel!chanVars
    <3> QED BY <1>2, <1>3, <3>4, <3>5, <3>6 DEF LinkInv
  <2> QED BY <2>4, <2>5
<1> QED BY <1>5, <1>6, <1>7

-----------------------------------------------------------------------------
\* Malformed frames, timeouts and callers that take messages.
LEMMA OtherStep ==
    ASSUME LinkInv, Disturb \/ Expire \/ Take \/ UNCHANGED vars
    PROVE  LinkInv' /\ [Channel!Next]_(Channel!chanVars)
<1>1. RxTypeOK /\ RxAccounting
  BY DEF LinkInv, TypeOK
<1>2. CASE Disturb \/ Expire
  <2>1. (RxTypeOK' /\ RxAccounting') /\ (UNCHANGED rxVars \/ (resetState /\ UNCHANGED queues))
    <3>1. CASE Disturb
      <4>1. PICK p \in Noise : receiveFromDriver(p)
        BY <3>1 DEF Disturb
      <4>2. p \in Seq(Byte) /\ Len(p) <= 8
        BY LinkAssumption
      <4> QED BY <1>1, <4>1, <4>2, NoiseReceived, ReceiveStep
    <3>2. CASE Expire
      <4>1. checkMultiFrameTimeout
        BY <3>2 DEF Expire
      <4>2. RxTypeOK' /\ RxAccounting'
        BY <1>1, <4>1, RxOtherStep
      <4> QED BY <4>1, <4>2 DEF checkMultiFrameTimeout
    <3> QED BY <1>2, <3>1, <3>2
  <2>2. clean' = FALSE /\ UNCHANGED <<cur, pos, onBus, arrived, torn, sent, lost, dups>>
    BY <1>2 DEF Disturb, Expire
  <2>3. rxQueue' = rxQueue /\ (UNCHANGED assembly \/ resetState)
    BY <2>1 DEF rxVars, queues
  <2>4. Genuine => Genuine'
    BY <2>3 DEF Genuine
  <2>5. LinkInv'
    BY <2>1, <2>2, <2>3, <2>4, QuietStep
  <2>6. UNCHANGED Channel!chanVars
    BY <2>2, <2>3 DEF Channel!chanVars
  <2> QED BY <2>5, <2>6
<1>3. CASE Take
  <2>1. (Receive \/ ReceiveError) /\ UNCHANGED linkVars
    BY <1>3 DEF Take
  <2>2. UNCHANGED <<cur, pos, onBus, clean, arrived, torn, sent, lost, dups>>
    BY <2>1 DEF linkVars
  <2>3. UNCHANGED assembly
    BY <2>1 DEF Receive, ReceiveError
  <2>4. RxTypeOK' /\ RxAccounting'
    BY <1>1, <2>1, RxOtherStep
  <2>5. Genuine => Genuine'
    <3>1. CASE Receive
      BY <1>1, <3>1, GenuineTaken
    <3>2. CASE ReceiveError
      BY <3>2 DEF ReceiveError, Genuine
    <3> QED BY <2>1, <3>1, <3>2
  <2>6. LinkInv'
    BY <2>2, <2>3, <2>4, <2>5, QuietStep
  <2>7. Channel!Take \/ UNCHANGED Channel!chanVars
    BY <2>1, <2>2 DEF Channel!Take, Channel!chanVars, Receive, ReceiveError
  <2> QED BY <2>6, <2>7 DEF Channel!Next
<1>4. CASE UNCHANGED vars
  <2>1. /\ UNCHANGED <<cur, pos, onBus, clean, arrived, torn, sent, lost, dups>>
        /\ UNCHANGED rxVars
    BY <1>4 DEF vars, linkVars
  <2>2. UNCHANGED assembly /\ rxQueue' = rxQueue /\ (Genuine => Genuine')
    BY <2>1 DEF rxVars, queues, Genuine
  <2>3. RxTypeOK' /\ RxAccounting'
    BY <1>1, <2>1, RxOtherStep
  <2>4. LinkInv'
    BY <2>1, <2>2, <2>3, QuietStep
  <2>5. UNCHANGED Channel!chanVars
    BY <2>1, <2>2 DEF Channel!chanVars
  <2> QED BY <2>4, <2>5
<1> QED BY <1>2, <1>3, <1>4

\* The invariant holds at the start.
LEMMA LinkStart == Init => LinkInv /\ Channel!Init
<1> SUFFICES ASSUME Init PROVE LinkInv /\ Channel!Init
  OBVIOUS
<1>1. /\ RxInit /\ cur \in Messages /\ pos = 0 /\ onBus = FALSE /\ clean = TRUE
      /\ arrived = FALSE /\ torn = FALSE /\ sent = 1 /\ lost = 0 /\ dups = 0
  BY DEF Init
<1>2. RxTypeOK /\ RxAccounting
  BY <1>1, RxStart
<1>3. remainingBytes = 0 /\ rxQueue = <<>>
  BY <1>1 DEF RxInit
<1>4. TypeOK
  <2>1. 0 \in 0 .. NumFrames(cur)
    BY <1>1, FramesCount
  <2> QED BY <1>1, <1>2, <2>1 DEF TypeOK
<1>5. Places /\ Untorn
  BY <1>1, <1>3 DEF Places, Untorn
<1>6. Losses
  BY <1>1, <1>3 DEF Losses, Genuine
<1>7. Clean
  <2>1. NumFrames(cur) \in Nat /\ NumFrames(cur) >= 1
    BY <1>1, FramesCount
  <2> QED BY <1>1, <2>1 DEF Clean
<1>8. Channel!Init
  BY <1>1, <1>3 DEF Channel!Init
<1> QED BY <1>2, <1>4, <1>5, <1>6, <1>7, <1>8 DEF LinkInv

\* Every step keeps the invariant and is one of the message channel, or none.
LEMMA LinkStep ==
    ASSUME LinkInv, [Next]_vars
    PROVE  LinkInv' /\ [Channel!Next]_(Channel!chanVars)
<1>1. CASE StartMessage
  <2>1. Channel!Send
    BY <1>1 DEF StartMessage, Channel!Send, rxVars, queues
  <2> QED BY <1>1, <2>1, StartStep DEF Channel!Next
<1>2. CASE Deliver
  BY <1>2, DeliverSingle, DeliverFirst, DeliverNext
<1>3. CASE Lose
  BY <1>3, LoseStep
<1>4. CASE Duplicate
  BY <1>4, DuplicateStep
<1>5. CASE Disturb \/ Expire \/ Take \/ UNCHANGED vars
  BY <1>5, OtherStep
<1> QED BY <1>1, <1>2, <1>3, <1>4, <1>5 DEF Next

\* The invariant holds always.
LEMMA LinkInvariant == Spec => []LinkInv
BY LinkStart, LinkStep, PTL DEF Spec

\* Every variable of link and receiver keeps its type.
THEOREM TypeCorrect == Spec => []TypeOK
<1>1. LinkInv => TypeOK
  BY DEF LinkInv
<1> QED BY <1>1, LinkInvariant, PTL

\* Buffer, frame counter and missing bytes of receiveFromDriver agree at the end of
\* a lossy link, too.
THEOREM AccountingKept == Spec => []RxAccounting
<1>1. LinkInv => RxAccounting
  BY DEF LinkInv
<1> QED BY <1>1, LinkInvariant, PTL

\* Whatever an earlier, broken message left behind in receiveFromDriver, a message
\* whose frames all get through undisturbed is delivered.
THEOREM CleanDelivered == Spec => []CleanDelivery
<1>1. LinkInv => CleanDelivery
  BY DEF LinkInv, Clean, CleanDelivery
<1> QED BY <1>1, LinkInvariant, PTL

\* While no more than one frame was lost, receiveFromDriver delivers nothing that
\* was not sent, for any number of repeated and malformed frames and timeouts.
THEOREM IntactSafe == Spec => []IntactUnderOneLoss
<1>1. LinkInv => IntactUnderOneLoss
  BY DEF LinkInv, Losses, Genuine, IntactUnderOneLoss
<1> QED BY <1>1, LinkInvariant, PTL

\* Frames, counters and buffers implement the message channel, for any messages
\* and any loss: what buildFrames and receiveFromDriver are for.
THEOREM ChannelImplemented == Spec => ImplementsChannel
BY LinkStart, LinkStep, LinkInvariant, PTL DEF Spec, ImplementsChannel, Channel!Spec
=============================================================================
