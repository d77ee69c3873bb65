------------------------------- MODULE TpLink -------------------------------
(***************************************************************************)
(* A sender, a LIN link and a receiver: the frames buildFrames makes of    *)
(* one message after the other, put on a link that loses and repeats       *)
(* frames and carries malformed ones, and reassembled by                   *)
(* receiveFromDriver.                                                      *)
(*                                                                         *)
(* Frames are lost by driver queues that overflow and by failed writes,    *)
(* repeated where one frame reaches the driver on two paths, and malformed *)
(* where no slave answers a header or answers with a shorter frame.        *)
(***************************************************************************)
EXTENDS Reassembly

CONSTANTS
    Messages,   \* what the sender may send
    Noise,      \* malformed payloads
    MaxSent,    \* bound: messages sent
    MaxLost,    \* bound: frames lost
    MaxDup      \* bound: frames repeated

\* No state of the receiver accepts such a payload.
Malformed(p) ==
    IF Ignored(p) THEN TRUE
    ELSE CASE pciType(p) = SF -> ~ValidSF(p)
           [] pciType(p) = FF -> ~ValidFF(p)
           [] pciType(p) = CF -> Len(p) = 2

ASSUME LinkAssumption ==
    /\ Messages # {}
    /\ Messages \subseteq {m \in LinMessage : Sendable(m)}
    /\ Noise \subseteq Seq(Byte)
    /\ \A p \in Noise : Len(p) <= 8 /\ Malformed(p)
    /\ MaxSent \in Nat /\ MaxLost \in Nat /\ MaxDup \in Nat

VARIABLES
    cur,      \* the message being sent
    pos,      \* how many of its frames have been on the bus
    onBus,    \* history: the last of them reached the receiver
    clean,    \* history: nothing went wrong since cur was started
    arrived,  \* history: the receiver completed a message since then
    torn,     \* history: the first frame of cur was lost inside another message
    sent, lost, dups

linkVars == <<cur, pos, onBus, clean, arrived, torn, sent, lost, dups>>
vars == <<rxVars, linkVars>>

Init ==
    /\ RxInit
    /\ cur \in Messages
    /\ pos = 0
    /\ onBus = FALSE
    /\ clean = TRUE
    /\ arrived = FALSE
    /\ torn = FALSE
    /\ sent = 1 /\ lost = 0 /\ dups = 0

NextFrame == FrameOf(cur, pos + 1)
LastFrame == FrameOf(cur, pos)

StartMessage ==
    /\ pos = NumFrames(cur)
    /\ sent < MaxSent
    /\ cur' \in Messages
    /\ pos' = 0
    /\ onBus' = FALSE
    /\ clean' = TRUE
    /\ arrived' = FALSE
    /\ sent' = sent + 1
    /\ UNCHANGED <<rxVars, torn, lost, dups>>

Deliver ==
    /\ pos < NumFrames(cur)
    /\ receiveFromDriver(NextFrame)
    /\ pos' = pos + 1
    /\ onBus' = TRUE
    /\ arrived' = (arrived \/ Completes(NextFrame))
    /\ torn' = (torn /\ pos # 0)
    /\ UNCHANGED <<cur, clean, sent, lost, dups>>

Lose ==
    /\ pos < NumFrames(cur)
    /\ lost < MaxLost
    /\ lost' = lost + 1
    /\ pos' = pos + 1
    /\ onBus' = FALSE
    /\ clean' = FALSE
    /\ torn' = (torn \/ (pos = 0 /\ remainingBytes > 0))
    /\ UNCHANGED <<rxVars, cur, arrived, sent, dups>>

Duplicate ==
    /\ onBus
    /\ dups < MaxDup
    /\ receiveFromDriver(LastFrame)
    /\ dups' = dups + 1
    /\ clean' = FALSE
    /\ arrived' = (arrived \/ Completes(LastFrame))
    /\ UNCHANGED <<cur, pos, onBus, torn, sent, lost>>

Disturb ==
    /\ \E p \in Noise : receiveFromDriver(p)
    /\ clean' = FALSE
    /\ UNCHANGED <<cur, pos, onBus, arrived, torn, sent, lost, dups>>

Expire ==
    /\ checkMultiFrameTimeout
    /\ clean' = FALSE
    /\ UNCHANGED <<cur, pos, onBus, arrived, torn, sent, lost, dups>>

Take ==
    /\ Receive \/ ReceiveError
    /\ UNCHANGED linkVars

Next ==
    \/ StartMessage
    \/ Deliver
    \/ Lose
    \/ Duplicate
    \/ Disturb
    \/ Expire
    \/ Take

Spec == Init /\ [][Next]_vars

-----------------------------------------------------------------------------
\* Every variable of link and receiver has its type.
TypeOK ==
    /\ RxTypeOK
    /\ cur \in Messages
    /\ pos \in 0 .. NumFrames(cur)
    /\ onBus \in BOOLEAN
    /\ clean \in BOOLEAN
    /\ arrived \in BOOLEAN
    /\ torn \in BOOLEAN
    /\ sent \in Nat /\ lost \in Nat /\ dups \in Nat

\* A message whose frames all got through undisturbed is delivered, whatever
\* happened on the link before it: no state an earlier, broken message leaves
\* in receiveFromDriver makes it miss the next good one.
CleanDelivery == clean /\ pos = NumFrames(cur) => arrived

\* As long as at most one frame was lost, everything in rxQueue is a message
\* that was sent, byte for byte, however many frames were repeated, malformed
\* or timed out: one lost frame can cost messages and never alter one.
IntactUnderOneLoss ==
    lost <= 1 => \A i \in 1 .. Len(rxQueue) : rxQueue[i] \in Messages

\* Frames, counters and buffers together behave like the message channel:
\* only the message being sent arrives, a multi-frame message at most once,
\* unless a first frame was lost inside another message.
Channel == INSTANCE MessageChannel WITH
    Repeatable <- {m \in Messages : IsSingle(m)},
    Capacity <- RxQueueSize,
    trusted <- ~torn,
    inbox <- rxQueue

ImplementsChannel == Channel!Spec
=============================================================================
