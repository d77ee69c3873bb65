----------------------------- MODULE DriverCalls -----------------------------
(***************************************************************************)
(* What the calls into a hardware driver have in common: goroutines that   *)
(* run one call each, the mutex callMu around the vendor library, an event *)
(* queue per channel, MasterRead with its lock per channel, and Close,     *)
(* which runs once.  PcanDriver, VectorDriver and TsmasterDriver add the   *)
(* calls.                                                                  *)
(*                                                                         *)
(* A frame is a number in order of arrival (0 for an echo the driver makes *)
(* itself), its channel, whether the driver rejects it, and the number of  *)
(* the header it answers.  That is 0 for a frame no MasterRead asked for:  *)
(* one with another ID, or one this node published.                        *)
(***************************************************************************)
EXTENDS Integers, Sequences, FiniteSets

CONSTANTS
    Callers,      \* goroutines
    Channels,     \* configured channels, each with its own hardware handle
    QueueSize,    \* of an event queue
    MaxCalls,     \* bound: calls started
    MaxFrames     \* bound: frames the hardware receives

ASSUME DriverAssumption ==
    /\ "free" \notin Callers /\ "none" \notin Channels
    /\ QueueSize \in Nat \ {0} /\ MaxCalls \in Nat /\ MaxFrames \in Nat

Frame == [n : Nat, ch : Channels, bad : BOOLEAN, ask : Nat]

VARIABLES
    pc,         \* where each goroutine is
    op,         \* its call
    ch,         \* the channel it was given
    held,       \* the frame it has in hand
    asked,      \* the number of its MasterRead's header, 0 outside one
    calls,      \* calls started so far
    masterLock, \* masterReadLocks: who holds a channel's lock, or "free"
    callMu,     \* who holds callMu, or "free"
    closed,     \* the driver refuses calls
    once,       \* closeOnce: "new", "running" or "done"
    rxQueue,    \* frames the library holds, of all channels
    events,     \* the event queue of each channel
    bus,        \* headers whose answer is still to come
    arrived,    \* frames received so far
    newest,     \* history: number of the newest frame a channel returned
    late,       \* history: frames returned after a newer one of their channel
    passed,     \* history: frames that went through an event queue
    stolen      \* history: MasterReads whose answer another one returned

NewFrame(k, bad, ask) == [n |-> 0, ch |-> k, bad |-> bad, ask |-> ask]
NoFrame == NewFrame("none", FALSE, 0)

queueVars == <<rxQueue, events>>
busVars == <<bus, arrived>>
callVars == <<op, ch, asked, masterLock, newest, late, stolen>>

CallsInit ==
    /\ op = [c \in Callers |-> "none"]
    /\ ch = [c \in Callers |-> "none"]
    /\ held = [c \in Callers |-> NoFrame]
    /\ asked = [c \in Callers |-> 0]
    /\ calls = 0
    /\ masterLock = [k \in Channels |-> "free"]
    /\ callMu = "free"
    /\ closed = FALSE /\ once = "new"
    /\ rxQueue = <<>>
    /\ events = [k \in Channels |-> <<>>]
    /\ bus = {} /\ arrived = 0
    /\ newest = [k \in Channels |-> 0]
    /\ late = {} /\ passed = {} /\ stolen = {}

CallsTypeOK ==
    /\ ch \in [Callers -> Channels \cup {"none"}]
    /\ held \in [Callers -> Frame \cup {NoFrame}]
    /\ asked \in [Callers -> Nat]
    /\ calls \in Nat
    /\ masterLock \in [Channels -> Callers \cup {"free"}]
    /\ callMu \in Callers \cup {"free"}
    /\ closed \in BOOLEAN /\ once \in {"new", "running", "done"}
    /\ rxQueue \in Seq(Frame)
    /\ events \in [Channels -> Seq(Frame)]
    /\ \A k \in Channels : Len(events[k]) <= QueueSize
    /\ bus \subseteq [ch : Channels, ask : Nat] /\ arrived \in Nat
    /\ newest \in [Channels -> Nat]
    /\ late \subseteq Nat /\ passed \subseteq Nat /\ stolen \subseteq Callers

Goto(c, at) == pc' = [pc EXCEPT ![c] = at]

-----------------------------------------------------------------------------
(***************************************************************************)
(* Starting a call.  A closed driver refuses at once, which changes        *)
(* nothing.  MasterRead must not run beside another consumer of its        *)
(* channel, nor two ReadEvents beside each other; MasterReads may, and the *)
(* channel's lock serialises them.                                         *)
(***************************************************************************)
Consumes(d, k) == op[d] \in {"read", "masterRead"} /\ ch[d] = k

\* Mutant of MayStart: the consumers of a channel may overlap.
MayStartAny(o, k) == TRUE

MayStart(o, k) ==
    CASE o = "read"       -> ~ \E d \in Callers : Consumes(d, k)
      [] o = "masterRead" -> ~ \E d \in Callers : Consumes(d, k) /\ op[d] = "read"
      [] OTHER            -> TRUE

\* Calls for which it matters here which channel they are given.
OnChannel == {"read", "masterRead", "write", "request", "schedule"}

FirstStep(o) ==
    CASE o = "read"       -> "poll"
      [] o = "masterRead" -> "channel"
      [] OTHER            -> "lock"

Begin(c, o) ==
    /\ pc[c] = "idle"
    /\ ~closed
    /\ calls < MaxCalls
    /\ calls' = calls + 1
    /\ \E k \in IF o \in OnChannel THEN Channels ELSE {"none"} :
        /\ MayStart(o, k)
        /\ ch' = [ch EXCEPT ![c] = k]
    /\ op' = [op EXCEPT ![c] = o]
    /\ asked' = [asked EXCEPT ![c] = IF o = "masterRead" THEN calls' ELSE 0]
    /\ Goto(c, FirstStep(o))
    /\ UNCHANGED <<masterLock, newest, late, stolen>>

\* Mutant of ChannelFree: MasterReads of one channel run side by side.
ChannelFreeAlways(k) == TRUE

ChannelFree(k) == masterLock[k] = "free"

\* channelMutexes.lock; the driver then sends the header.
lock(c) ==
    /\ pc[c] = "channel"
    /\ ChannelFree(ch[c])
    /\ masterLock' = [masterLock EXCEPT ![ch[c]] = c]
    /\ Goto(c, "lock")
    /\ UNCHANGED <<op, ch, asked, newest, late, stolen>>

-----------------------------------------------------------------------------
(***************************************************************************)
(* The end of a call, with or without a frame.                             *)
(***************************************************************************)
Leave(c) ==
    /\ Goto(c, "idle")
    /\ op' = [op EXCEPT ![c] = "none"]
    /\ ch' = [ch EXCEPT ![c] = "none"]
    /\ asked' = [asked EXCEPT ![c] = 0]
    /\ masterLock' = [k \in Channels |-> IF masterLock[k] = c THEN "free" ELSE masterLock[k]]

\* A call that ends without a frame: an error, a timeout, or nothing to return.
Return(c) ==
    /\ Leave(c)
    /\ UNCHANGED <<newest, late, stolen>>

\* readMasterResponse: only a frame of a slave with the ID asked for ends it.
Matches(c, f) == op[c] = "masterRead" => f.ask # 0

\* ReadEvent has frame f for its caller, which is readMasterResponse or not.
Deliver(c, f) ==
    IF Matches(c, f)
    THEN /\ Leave(c)
         /\ newest' = [newest EXCEPT ![ch[c]] = IF f.n > @ THEN f.n ELSE @]
         /\ late' = IF f.n # 0 /\ f.n < newest[ch[c]] THEN late \cup {f.n} ELSE late
         /\ stolen' = stolen \cup
                {d \in Callers \ {c} : f.ask # 0 /\ asked[d] = f.ask}
    ELSE /\ Goto(c, "poll")
         /\ UNCHANGED callVars

\* Mutant of Enqueued: the queue is a list without a bound.
EnqueuedAlways(k, f) == [events EXCEPT ![k] = Append(@, f)]

\* The queue of channel k after enqueueEvent: a full one drops the event.
Enqueued(k, f) ==
    IF Len(events[k]) < QueueSize
    THEN [events EXCEPT ![k] = Append(@, f)] ELSE events

-----------------------------------------------------------------------------
(***************************************************************************)
(* Close marks the driver as closed; the first caller tears it down under  *)
(* callMu and later ones wait for it in closeOnce.Do.                      *)
(***************************************************************************)
BeginClose(c) ==
    /\ pc[c] = "idle"
    /\ calls < MaxCalls
    /\ calls' = calls + 1
    /\ op' = [op EXCEPT ![c] = "close"]
    /\ IF once = "new"
       THEN once' = "running" /\ closed' = TRUE /\ Goto(c, "close")
       ELSE Goto(c, "join") /\ UNCHANGED <<once, closed>>
    /\ UNCHANGED <<ch, asked, masterLock, newest, late, stolen>>

Joined(c) ==
    /\ pc[c] = "join"
    /\ once = "done"
    /\ Return(c)
    /\ UNCHANGED <<held, calls, callMu, closed, once, queueVars, busVars, passed>>

-----------------------------------------------------------------------------
(***************************************************************************)
(* The bus behind the library, which receives on the channels in on.       *)
(***************************************************************************)
Arrive(f) ==
    /\ arrived < MaxFrames
    /\ arrived' = arrived + 1
    /\ rxQueue' = Append(rxQueue, [f EXCEPT !.n = arrived + 1])

Bus(on) ==
    /\ \/ \E h \in bus :
            /\ bus' = bus \ {h}
            /\ \/ h.ch \in on /\ Arrive(NewFrame(h.ch, FALSE, h.ask))
               \/ UNCHANGED <<rxQueue, arrived>>   \* no slave answers
       \/ /\ \E k \in on, bad \in BOOLEAN : Arrive(NewFrame(k, bad, 0))
          /\ UNCHANGED bus
    /\ UNCHANGED <<pc, calls, callVars, held, callMu, closed, once, events, passed>>
=============================================================================
