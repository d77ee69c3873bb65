------------------------------ MODULE LinFrames ------------------------------
(***************************************************************************)
(* How tplin/transport.go lays a diagnostic message out in LIN frames.     *)
(*                                                                         *)
(* A message is a record [nad, sid, data]; a frame's payload is a sequence *)
(* of bytes, indexed from 1 (payload[0] of the code is p[1] here).  The    *)
(* numbers are the code's own: a single frame holds a length of at most 6, *)
(* a first frame carries the SID and 4 data bytes, a consecutive frame 6   *)
(* data bytes, the frame counter counts modulo 16 and the length field has *)
(* 12 bits, split over the PCI byte and the byte after it.                 *)
(***************************************************************************)
EXTENDS Integers, Sequences

Byte == 0 .. 255

\* The three PCI types the protocol knows (liniface.SF, FF, CF).
SF == 0
FF == 1
CF == 2

\* A message may carry at most this many data bytes after its SID.
maxTransportDataLength == 4094

\* The 8 bytes of a diagnostic frame, 0xFF wherever nothing was copied.
newDiagnosticFramePayload(field) ==
    [i \in 1 .. 8 |-> IF i <= Len(field) THEN field[i] ELSE 255]

LinMessage ==
    [nad : Byte, sid : Byte, data : Seq(Byte)]

\* What buildFrames accepts; a longer message is ErrMessageTooLong.
Sendable(m) == Len(m.data) <= maxTransportDataLength

\* SID and data fit one frame.
IsSingle(m) == Len(m.data) + 1 <= 6

SingleFrame(m) ==
    newDiagnosticFramePayload(<<m.nad, SF * 16 + Len(m.data) + 1, m.sid>> \o m.data)

FirstFrame(m) ==
    LET dataLen == Len(m.data) + 1
    IN  newDiagnosticFramePayload(
            <<m.nad, FF * 16 + ((dataLen \div 256) % 16), dataLen % 256, m.sid>>
                \o SubSeq(m.data, 1, 4))

\* The sender's frame counter on the n-th consecutive frame.
CounterOf(n) == n % 16

\* Data bytes that are on the bus once the n-th consecutive frame is out.
EndByte(m, n) == IF 6 * n + 4 > Len(m.data) THEN Len(m.data) ELSE 6 * n + 4

ConsecutiveFrame(m, n) ==
    newDiagnosticFramePayload(
        <<m.nad, CF * 16 + CounterOf(n)>> \o SubSeq(m.data, 6 * n - 1, EndByte(m, n)))

\* One frame, or a first frame and a consecutive frame per 6 further bytes.
NumFrames(m) == IF IsSingle(m) THEN 1 ELSE 1 + (Len(m.data) + 1) \div 6

\* The k-th frame of message m.
FrameOf(m, k) ==
    IF IsSingle(m) THEN SingleFrame(m)
    ELSE IF k = 1 THEN FirstFrame(m)
    ELSE ConsecutiveFrame(m, k - 1)

buildFrames(m) == [k \in 1 .. NumFrames(m) |-> FrameOf(m, k)]
=============================================================================
