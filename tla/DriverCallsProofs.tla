--------------------------- MODULE DriverCallsProofs ---------------------------
(***************************************************************************)
(* What the calls of a driver keep whatever its library does, for any      *)
(* number of goroutines and channels.  Two invariants of the calls say who *)
(* reads which channel: a ReadEvent is alone there, and of several         *)
(* MasterReads one is past the channel's lock.  So the number of a header  *)
(* leads to one goroutine, and the frame that answers it to nobody else.   *)
(* The frames a library hands over in order stay in order on every way but *)
(* the one through another channel's reader.                               *)
(*                                                                         *)
(* The step of a driver is one of the steps stated here, beside what it    *)
(* does to its own variables; DriversProofs says which.                    *)
(***************************************************************************)
EXTENDS DriverCalls, SequenceTheorems, TLAPS

Reading == {"read", "masterRead"}
ReadPcs == {"poll", "readLock", "receive", "idleLibrary", "got"}

-----------------------------------------------------------------------------
(***************************************************************************)
(* Queues of frames.                                                       *)
(***************************************************************************)
Elems(s) == {s[i] : i \in 1 .. Len(s)}
Rising(s) == \A i, j \in 1 .. Len(s) : i < j => s[i].n < s[j].n

\* What is taken from the front of a queue was in it, and so is the rest.
LEMMA TailElems ==
    ASSUME NEW X, NEW s \in Seq(X), s # <<>>
    PROVE  /\ Head(s) \in Elems(s) /\ Head(s) \in X
           /\ Tail(s) \in Seq(X) /\ Elems(Tail(s)) \subseteq Elems(s)
           /\ Len(Tail(s)) <= Len(s)
<1>1. /\ Head(s) = s[1] /\ Head(s) \in X /\ Tail(s) \in Seq(X)
      /\ Len(s) \in Nat /\ Len(s) >= 1
      /\ Len(Tail(s)) = Len(s) - 1 /\ \A i \in 1 .. Len(Tail(s)) : Tail(s)[i] = s[i + 1]
  BY HeadTailProperties, LenProperties, EmptySeq
<1>2. 1 \in 1 .. Len(s) /\ \A i \in 1 .. Len(Tail(s)) : i + 1 \in 1 .. Len(s)
  BY <1>1
<1>3. Elems(Tail(s)) \subseteq Elems(s)
  BY <1>1, <1>2 DEF Elems
<1> QED BY <1>1, <1>2, <1>3 DEF Elems

LEMMA AppendElems ==
    ASSUME NEW X, NEW s \in Seq(X), NEW e \in X
    PROVE  /\ Append(s, e) \in Seq(X) /\ Elems(Append(s, e)) = Elems(s) \cup {e}
           /\ Len(Append(s, e)) = Len(s) + 1
<1>1. /\ Append(s, e) \in Seq(X) /\ Len(s) \in Nat
      /\ Len(Append(s, e)) = Len(s) + 1
      /\ \A i \in 1 .. Len(s) : Append(s, e)[i] = s[i]
      /\ Append(s, e)[Len(s) + 1] = e
  BY AppendProperties, LenProperties
<1>2. 1 .. Len(Append(s, e)) = (1 .. Len(s)) \cup {Len(s) + 1}
  BY <1>1
<1>3. Elems(Append(s, e)) = Elems(s) \cup {e}
  BY <1>1, <1>2 DEF Elems
<1> QED BY <1>1, <1>3

LEMMA NoElems == /\ Elems(<<>>) = {} /\ Rising(<<>>)
                 /\ \A X : <<>> \in Seq(X)
  BY DEF Elems, Rising

LEMMA ElemsTyped ==
    ASSUME NEW X, NEW s \in Seq(X)
    PROVE  Elems(s) \subseteq X
  BY DEF Elems

\* The frames behind the first one have higher numbers.
LEMMA TailRising ==
    ASSUME NEW s \in Seq(Frame), s # <<>>, Rising(s)
    PROVE  Rising(Tail(s)) /\ \A f \in Elems(Tail(s)) : Head(s).n < f.n
<1>1. /\ Head(s) = s[1] /\ Tail(s) \in Seq(Frame)
      /\ Len(s) \in Nat /\ Len(s) >= 1
      /\ Len(Tail(s)) = Len(s) - 1 /\ \A i \in 1 .. Len(Tail(s)) : Tail(s)[i] = s[i + 1]
  BY HeadTailProperties, LenProperties, EmptySeq
<1>2. \A i \in 1 .. Len(Tail(s)) : i + 1 \in 1 .. Len(s) /\ 1 < i + 1
  BY <1>1
<1>3. Rising(Tail(s))
  BY <1>1, <1>2 DEF Rising
<1>4. \A f \in Elems(Tail(s)) : Head(s).n < f.n
  BY <1>1, <1>2 DEF Rising, Elems
<1> QED BY <1>3, <1>4

LEMMA AppendRising ==
    ASSUME NEW s \in Seq(Frame), NEW e \in Frame, Rising(s),
           \A f \in Elems(s) : f.n < e.n
    PROVE  Rising(Append(s, e))
<1>1. /\ Len(s) \in Nat /\ Len(Append(s, e)) = Len(s) + 1
      /\ \A i \in 1 .. Len(s) : Append(s, e)[i] = s[i] /\ s[i] \in Elems(s)
      /\ Append(s, e)[Len(s) + 1] = e
  BY AppendProperties, LenProperties DEF Elems
<1>2. ASSUME NEW i \in 1 .. Len(s) + 1, NEW j \in 1 .. Len(s) + 1, i < j
      PROVE  Append(s, e)[i].n < Append(s, e)[j].n
  <2>1. i \in 1 .. Len(s) /\ (j \in 1 .. Len(s) \/ j = Len(s) + 1)
    BY <1>1, <1>2
  <2> QED BY <1>1, <1>2, <2>1 DEF Rising
<1> QED BY <1>1, <1>2 DEF Rising

-----------------------------------------------------------------------------
(***************************************************************************)
(* Who reads what.                                                         *)
(***************************************************************************)
\* The points of all drivers, and their calls.
Places ==
    {"idle", "channel", "lock", "call", "echo", "join", "close", "disconnect",
     "register", "connect", "initialize", "unload",
     "openDriver", "openPort", "activate", "switch", "send", "deactivate", "closeDriver",
     "start", "describe", "waitLoop", "shut"} \cup ReadPcs
Kinds ==
    {"none", "close", "write", "request", "schedule", "reset", "break", "other"} \cup Reading

CallTypes ==
    /\ pc \in [Callers -> Places] /\ op \in [Callers -> Kinds]
    /\ ch \in [Callers -> Channels \cup {"none"}]
    /\ asked \in [Callers -> Nat] /\ calls \in Nat
    /\ masterLock \in [Channels -> Callers \cup {"free"}]

\* Where a call can be, from what it does.
Placing ==
    \A c \in Callers :
        /\ pc[c] = "idle" => op[c] = "none"
        /\ pc[c] = "channel" => op[c] = "masterRead"
        /\ pc[c] \in ReadPcs => op[c] \in Reading
        /\ pc[c] = "echo" => op[c] = "write"
        /\ op[c] \in OnChannel => ch[c] \in Channels

\* Each MasterRead has a number of its own.
Numbering ==
    /\ \A c \in Callers : asked[c] <= calls /\ (asked[c] # 0 <=> op[c] = "masterRead")
    /\ \A c, d \in Callers : asked[c] # 0 /\ asked[c] = asked[d] => c = d

\* A ReadEvent reads its channel alone.
Alone ==
    \A c, d \in Callers :
        op[c] = "read" /\ op[d] \in Reading /\ ch[c] = ch[d] => c = d

\* A MasterRead that has begun has its channel's lock.
Locked ==
    \A c \in Callers :
        op[c] = "masterRead" /\ pc[c] # "channel" => masterLock[ch[c]] = c

CallsInv == CallTypes /\ Placing /\ Numbering /\ Alone /\ Locked

\* The answer to a header: the MasterRead that sent the header, if it is still
\* there, has the lock of the frame's channel.
Fair(f) ==
    f.ask # 0 =>
        /\ f.ask <= calls
        /\ \A d \in Callers : asked[d] = f.ask => ch[d] = f.ch /\ pc[d] # "channel"

-----------------------------------------------------------------------------
(***************************************************************************)
(* A step of a call.                                                       *)
(***************************************************************************)
Begins(c, o) ==
    /\ pc[c] = "idle" /\ o # "none"
    /\ calls' = calls + 1
    /\ \E k \in IF o \in OnChannel THEN Channels ELSE {"none"} :
        /\ MayStart(o, k)
        /\ ch' = [ch EXCEPT ![c] = k]
    /\ op' = [op EXCEPT ![c] = o]
    /\ asked' = [asked EXCEPT ![c] = IF o = "masterRead" THEN calls' ELSE 0]
    /\ Goto(c, FirstStep(o))
    /\ UNCHANGED masterLock

Locks(c) ==
    /\ pc[c] = "channel"
    /\ ChannelFree(ch[c])
    /\ masterLock' = [masterLock EXCEPT ![ch[c]] = c]
    /\ Goto(c, "lock")
    /\ UNCHANGED <<op, ch, asked, calls>>

Leaves(c) == Leave(c) /\ UNCHANGED calls

Closes(c, at) ==
    /\ pc[c] = "idle"
    /\ calls' = calls + 1
    /\ op' = [op EXCEPT ![c] = "close"]
    /\ Goto(c, at)
    /\ at \notin ReadPcs \cup {"idle", "channel", "echo"}
    /\ UNCHANGED <<ch, asked, masterLock>>

Moves(c, at) ==
    /\ pc[c] # "channel"
    /\ at # "channel"
    /\ at \in ReadPcs => op[c] \in Reading
    /\ at = "idle" => op[c] = "none"
    /\ at = "echo" => op[c] = "write"
    /\ Goto(c, at)
    /\ UNCHANGED <<op, ch, asked, masterLock, calls>>

CallStep(c) ==
    \/ \E o \in Kinds : Begins(c, o)
    \/ Locks(c) \/ Leaves(c)
    \/ \E at \in Places : Closes(c, at) \/ Moves(c, at)

LEMMA CallsInit1 ==
    ASSUME CallsInit, NEW at \in Places, NEW x \in Callers,
           at \notin ReadPcs \cup {"idle", "channel", "echo"},
           pc = [d \in Callers |-> IF d = x THEN at ELSE "idle"]
    PROVE  CallsInv
  BY DEF CallsInit, CallsInv, CallTypes, Placing, OnChannel, Numbering, Alone, Locked, Reading,
         ReadPcs, Places, Kinds

\* What becomes of a caller when it begins.
LEMMA BeginsKeeps ==
    ASSUME CallsInv, NEW c \in Callers, NEW o \in Kinds, Begins(c, o)
    PROVE  CallsInv'
<1>1. PICK k \in IF o \in OnChannel THEN Channels ELSE {"none"} :
          MayStart(o, k) /\ ch' = [ch EXCEPT ![c] = k]
  BY DEF Begins
<1>2. /\ pc' = [pc EXCEPT ![c] = FirstStep(o)] /\ op' = [op EXCEPT ![c] = o]
      /\ asked' = [asked EXCEPT ![c] = IF o = "masterRead" THEN calls + 1 ELSE 0]
      /\ calls' = calls + 1 /\ masterLock' = masterLock /\ o # "none"
  BY DEF Begins, Goto
<1>3. FirstStep(o) \in {"poll", "channel", "lock"}
      /\ (FirstStep(o) = "channel" <=> o = "masterRead")
      /\ (FirstStep(o) = "poll" <=> o = "read")
  BY DEF FirstStep
<1>4. o \in OnChannel => k \in Channels
  OBVIOUS
<1>5. CallTypes'
  BY <1>1, <1>2, <1>3 DEF CallsInv, CallTypes, Places, ReadPcs
<1>6. Placing'
  BY <1>1, <1>2, <1>3, <1>4 DEF CallsInv, CallTypes, Placing, OnChannel, Reading, ReadPcs
<1>7. Numbering'
  BY <1>2 DEF CallsInv, CallTypes, Numbering
<1>8. Alone'
  <2>1. ASSUME NEW d \in Callers, d # c, op[d] \in Reading, ch[d] = k
        PROVE  o # "read" /\ (op[d] = "read" => o \notin Reading)
    BY <1>1, <2>1 DEF MayStart, Consumes, Reading
  <2> QED BY <1>1, <1>2, <2>1 DEF CallsInv, CallTypes, Alone, Reading
<1>9. Locked'
  BY <1>1, <1>2, <1>3 DEF CallsInv, CallTypes, Locked
<1> QED BY <1>5, <1>6, <1>7, <1>8, <1>9 DEF CallsInv

LEMMA LocksKeeps ==
    ASSUME CallsInv, NEW c \in Callers, Locks(c)
    PROVE  CallsInv'
<1>1. /\ pc' = [pc EXCEPT ![c] = "lock"] /\ pc[c] = "channel" /\ op[c] = "masterRead"
      /\ ch[c] \in Channels /\ masterLock[ch[c]] = "free"
      /\ masterLock' = [masterLock EXCEPT ![ch[c]] = c]
      /\ UNCHANGED <<op, ch, asked, calls>>
  BY DEF Locks, Goto, ChannelFree, CallsInv, Placing, OnChannel, Reading
<1>2. CallTypes'
  BY <1>1 DEF CallsInv, CallTypes, Places, Kinds
<1>3. Placing' /\ Numbering' /\ Alone'
  BY <1>1 DEF CallsInv, CallTypes, Placing, OnChannel, Numbering, Alone, Reading, ReadPcs
<1>4. Locked'
  <2>1. ASSUME NEW d \in Callers, d # c, op[d] = "masterRead", pc[d] # "channel"
        PROVE  masterLock'[ch[d]] = d
    <3>1. masterLock[ch[d]] = d /\ ch[d] \in Channels
      BY <2>1 DEF CallsInv, Locked, Placing, OnChannel, Reading
    <3>2. ch[d] # ch[c]
      BY <1>1, <3>1, DriverAssumption
    <3> QED BY <1>1, <3>1, <3>2 DEF CallsInv, CallTypes
  <2>2. masterLock'[ch[c]] = c
    BY <1>1 DEF CallsInv, CallTypes
  <2> QED BY <1>1, <2>1, <2>2 DEF Locked, CallsInv, CallTypes
<1> QED BY <1>2, <1>3, <1>4 DEF CallsInv

LEMMA LeavesKeeps ==
    ASSUME CallsInv, NEW c \in Callers, Leaves(c)
    PROVE  CallsInv'
<1>1. /\ pc' = [pc EXCEPT ![c] = "idle"] /\ op' = [op EXCEPT ![c] = "none"]
      /\ ch' = [ch EXCEPT ![c] = "none"] /\ asked' = [asked EXCEPT ![c] = 0]
      /\ masterLock' = [k \in Channels |-> IF masterLock[k] = c THEN "free" ELSE masterLock[k]]
      /\ calls' = calls
  BY DEF Leaves, Leave, Goto
<1>2. CallTypes'
  BY <1>1 DEF CallsInv, CallTypes, Places, Kinds
<1>3. Placing' /\ Numbering' /\ Alone'
  BY <1>1 DEF CallsInv, CallTypes, Placing, OnChannel, Numbering, Alone, Reading, ReadPcs
<1>4. Locked'
  <2>1. ASSUME NEW d \in Callers, d # c, op[d] = "masterRead", pc[d] # "channel"
        PROVE  masterLock'[ch[d]] = d
    BY <1>1, <2>1 DEF CallsInv, CallTypes, Locked, Placing, OnChannel, Reading
  <2> QED BY <1>1, <2>1 DEF Locked, CallsInv, CallTypes
<1> QED BY <1>2, <1>3, <1>4 DEF CallsInv

LEMMA MovesKeeps ==
    ASSUME CallsInv, NEW c \in Callers, NEW at \in Places, Closes(c, at) \/ Moves(c, at)
    PROVE  CallsInv'
<1>1. /\ pc' = [pc EXCEPT ![c] = at]
      /\ UNCHANGED <<ch, asked, masterLock>>
  BY DEF Closes, Moves, Goto
<1>2. CASE Closes(c, at)
  <2>1. /\ op' = [op EXCEPT ![c] = "close"] /\ calls' = calls + 1 /\ pc[c] = "idle"
        /\ op[c] = "none" /\ asked[c] = 0 /\ at \notin ReadPcs \cup {"idle", "channel", "echo"}
    BY <1>2 DEF Closes, CallsInv, CallTypes, Placing, OnChannel, Numbering
  <2>2. CallTypes' /\ Placing'
    BY <1>1, <2>1 DEF CallsInv, CallTypes, Placing, OnChannel, Kinds, Reading, ReadPcs
  <2>3. Numbering' /\ Alone' /\ Locked'
    BY <1>1, <2>1 DEF CallsInv, CallTypes, Numbering, Alone, Locked, Reading
  <2> QED BY <2>2, <2>3 DEF CallsInv
<1>3. CASE Moves(c, at)
  <2>1. /\ op' = op /\ calls' = calls /\ pc[c] # "channel" /\ at # "channel"
        /\ (at \in ReadPcs => op[c] \in Reading) /\ (at = "idle" => op[c] = "none")
        /\ (at = "echo" => op[c] = "write")
    BY <1>3 DEF Moves
  <2>2. CallTypes' /\ Placing'
    BY <1>1, <2>1 DEF CallsInv, CallTypes, Placing, OnChannel, Kinds, Reading, ReadPcs
  <2>3. Numbering' /\ Alone' /\ Locked'
    BY <1>1, <2>1 DEF CallsInv, CallTypes, Numbering, Alone, Locked, Reading
  <2> QED BY <2>2, <2>3 DEF CallsInv
<1> QED BY <1>2, <1>3

LEMMA CallsKept ==
    ASSUME CallsInv, NEW c \in Callers, CallStep(c)
    PROVE  CallsInv'
  BY BeginsKeeps, LocksKeeps, LeavesKeeps, MovesKeeps DEF CallStep

\* Whatever a caller does, a fair frame remains one.
LEMMA FairKept ==
    ASSUME CallsInv, NEW c \in Callers, CallStep(c), NEW f, f.ask \in Nat, Fair(f)
    PROVE  Fair(f)'
<1>1. CASE f.ask = 0
  BY <1>1 DEF Fair
<1>2. CASE f.ask # 0
  <2>1. f.ask <= calls /\ \A d \in Callers : asked[d] = f.ask => ch[d] = f.ch /\ pc[d] # "channel"
    BY <1>2 DEF Fair
  <2>2. f.ask <= calls'
    <3>1. calls' = calls \/ calls' = calls + 1
      BY DEF CallStep, Begins, Locks, Leaves, Closes, Moves
    <3> QED BY <2>1, <3>1 DEF CallsInv, CallTypes
  <2>3. ASSUME NEW d \in Callers, d # c
        PROVE  asked'[d] = asked[d] /\ ch'[d] = ch[d] /\ pc'[d] = pc[d]
    BY <2>3 DEF CallStep, Begins, Locks, Leaves, Leave, Closes, Moves, Goto, CallsInv, CallTypes
  <2>4. asked'[c] = f.ask => ch'[c] = f.ch /\ pc'[c] # "channel"
    <3>1. CASE \E o \in Kinds : Begins(c, o)
      <4>1. asked'[c] \in {calls + 1, 0}
        BY <3>1 DEF Begins, CallsInv, CallTypes
      <4> QED BY <1>2, <2>1, <4>1 DEF CallsInv, CallTypes
    <3>2. CASE Leaves(c)
      BY <1>2, <3>2 DEF Leaves, Leave, CallsInv, CallTypes
    <3>3. CASE Locks(c)
      BY <2>1, <3>3 DEF Locks, Goto, CallsInv, CallTypes
    <3>4. CASE \E at \in Places : Closes(c, at) \/ Moves(c, at)
      BY <2>1, <3>4 DEF Closes, Moves, Goto, CallsInv, CallTypes
    <3> QED BY <3>1, <3>2, <3>3, <3>4 DEF CallStep
  <2> QED BY <2>1, <2>2, <2>3, <2>4 DEF Fair
<1> QED BY <1>1, <1>2

\* One reader of a channel at a time is past the locks.
LEMMA OneReader ==
    ASSUME CallsInv, NEW c \in Callers, NEW d \in Callers,
           op[c] \in Reading, op[d] \in Reading, ch[c] = ch[d],
           pc[c] # "channel", pc[d] # "channel"
    PROVE  c = d
<1>1. CASE op[c] = "read" \/ op[d] = "read"
  BY <1>1 DEF CallsInv, Alone
<1>2. CASE op[c] = "masterRead" /\ op[d] = "masterRead"
  BY <1>2 DEF CallsInv, Locked
<1> QED BY <1>1, <1>2 DEF Reading

-----------------------------------------------------------------------------
(***************************************************************************)
(* Where the frames are.                                                   *)
(***************************************************************************)
Header == [ch : Channels, ask : Nat]

FrameTypes ==
    /\ held \in [Callers -> Frame \cup {NoFrame}]
    /\ rxQueue \in Seq(Frame)
    /\ events \in [Channels -> Seq(Frame)]
    /\ \A k \in Channels : Len(events[k]) <= QueueSize
    /\ bus \subseteq Header /\ arrived \in Nat
    /\ newest \in [Channels -> Nat]
    /\ late \subseteq Nat /\ passed \subseteq Nat

\* A frame comes to nobody but to whom it answers.
FairFrames == {f \in Frame \cup {NoFrame} : Fair(f)}
FairHeaders == {h \in Header : Fair(h)}

Answering ==
    /\ bus \subseteq FairHeaders
    /\ Elems(rxQueue) \subseteq FairFrames
    /\ \A k \in Channels : \A f \in Elems(events[k]) : f \in FairFrames /\ f.ch = k
    /\ \A c \in Callers : held[c] \in FairFrames /\ (pc[c] = "got" => held[c] \in Frame)
    /\ stolen = {}

\* The numbers that frames the library has handed over can have.
Old == {m \in Nat : m <= arrived /\ \A f \in Elems(rxQueue) : m < f.n}

\* What the library still has is newer than what it has handed over, and a
\* frame its own reader has in hand is newer than what he returned.
InOrder ==
    /\ Rising(rxQueue) /\ 0 \in Old
    /\ \A f \in Elems(rxQueue) : f.n <= arrived
    /\ \A k \in Channels :
        /\ newest[k] \in Old
        /\ \A f \in Elems(events[k]) : f.n \in Old /\ (f.n = 0 \/ f.n \in passed)
    /\ \A c \in Callers :
        /\ held[c].n \in Old
        /\ pc[c] = "got" /\ held[c].ch = ch[c] => newest[ch[c]] <= held[c].n
    /\ late \subseteq passed

FramesInv == CallsInv /\ FrameTypes /\ Answering

LEMMA FrameFields ==
    /\ \A f \in Frame : f.n \in Nat /\ f.ch \in Channels /\ f.ask \in Nat
    /\ NoFrame.n = 0 /\ NoFrame.ask = 0 /\ NoFrame \notin Frame
    /\ \A h \in Header : h.ch \in Channels /\ h.ask \in Nat
    /\ \A k \in Channels, bad \in BOOLEAN, ask \in Nat :
        /\ NewFrame(k, bad, ask) \in Frame
        /\ NewFrame(k, bad, ask).n = 0 /\ NewFrame(k, bad, ask).ask = ask
        /\ NewFrame(k, bad, ask).ch = k
<1>1. NoFrame.ch = "none"
  BY DEF NoFrame, NewFrame
<1>2. NoFrame \notin Frame
  BY <1>1, DriverAssumption DEF Frame
<1> QED BY <1>2 DEF Frame, Header, NoFrame, NewFrame

LEMMA FramesInit ==
    ASSUME CallsInit, \A c \in Callers : pc[c] # "got"
    PROVE  FrameTypes /\ Answering /\ InOrder
<1>1. /\ \A c \in Callers : held[c] = NoFrame
      /\ held \in [Callers -> Frame \cup {NoFrame}]
      /\ rxQueue = <<>> /\ bus = {} /\ arrived = 0
      /\ events = [k \in Channels |-> <<>>] /\ newest = [k \in Channels |-> 0]
      /\ late = {} /\ passed = {} /\ stolen = {}
  BY DEF CallsInit
<1>2. <<>> \in Seq(Frame) /\ Elems(<<>>) = {} /\ Rising(<<>>) /\ Len(<<>>) = 0
  BY NoElems
<1>3. FrameTypes
  BY <1>1, <1>2, DriverAssumption DEF FrameTypes
<1>4. Answering
  BY <1>1, <1>2, FrameFields DEF Answering, FairFrames, FairHeaders, Fair
<1>5. InOrder
  BY <1>1, <1>2, FrameFields DEF InOrder, Old
<1> QED BY <1>3, <1>4, <1>5

\* The event queues after enqueueEvent.
LEMMA EnqueuedElems ==
    ASSUME FrameTypes, NEW k \in Channels, NEW f \in Frame
    PROVE  /\ Enqueued(k, f) \in [Channels -> Seq(Frame)]
           /\ \A j \in Channels : /\ Len(Enqueued(k, f)[j]) <= QueueSize
                                  /\ j # k => Enqueued(k, f)[j] = events[j]
           /\ Elems(Enqueued(k, f)[k]) \subseteq Elems(events[k]) \cup {f}
<1>1. /\ events \in [Channels -> Seq(Frame)] /\ events[k] \in Seq(Frame)
      /\ \A j \in Channels : Len(events[j]) <= QueueSize
  BY DEF FrameTypes
<1>2. /\ Append(events[k], f) \in Seq(Frame)
      /\ Elems(Append(events[k], f)) = Elems(events[k]) \cup {f}
      /\ Len(Append(events[k], f)) = Len(events[k]) + 1
  BY <1>1, AppendElems
<1>3. Len(events[k]) \in Nat /\ QueueSize \in Nat
  BY <1>1, LenProperties, DriverAssumption
<1> QED BY <1>1, <1>2, <1>3 DEF Enqueued

LEMMA FairAll ==
    ASSUME FramesInv, NEW c \in Callers, CallStep(c)
    PROVE  FairFrames \subseteq FairFrames' /\ FairHeaders \subseteq FairHeaders'
<1>1. \A f \in Frame \cup {NoFrame} \cup Header : f.ask \in Nat
  BY FrameFields
<1>2. \A f \in Frame \cup {NoFrame} \cup Header : Fair(f) => Fair(f)'
  BY <1>1, FairKept DEF FramesInv
<1> QED BY <1>2 DEF FairFrames, FairHeaders

-----------------------------------------------------------------------------
(***************************************************************************)
(* A step that brings no frame to its caller.  It may empty or shorten     *)
(* what the library has, queue an echo, and send a header.                 *)
(***************************************************************************)
Echoes == \E k \in Channels : events' = Enqueued(k, NewFrame(k, FALSE, 0))

Sends(c) ==
    /\ pc[c] # "channel" /\ ch[c] \in Channels
    /\ \E ask \in {0, asked[c]} : bus' = bus \cup {[ch |-> ch[c], ask |-> ask]}

Quiet(c) ==
    /\ CallStep(c)
    /\ pc'[c] # "got"
    /\ UNCHANGED <<held, arrived, newest, late, passed, stolen>>
    /\ \/ rxQueue' \in {rxQueue, <<>>}
       \/ rxQueue # <<>> /\ rxQueue' = Tail(rxQueue)
    /\ UNCHANGED events \/ Echoes
    /\ UNCHANGED bus \/ Sends(c)

\* Only c moves.
LEMMA OthersStay ==
    ASSUME CallsInv, NEW c \in Callers, CallStep(c)
    PROVE  \A d \in Callers \ {c} :
               pc'[d] = pc[d] /\ op'[d] = op[d] /\ ch'[d] = ch[d] /\ asked'[d] = asked[d]
  BY DEF CallStep, Begins, Locks, Leaves, Leave, Closes, Moves, Goto, CallsInv, CallTypes

LEMMA EchoElems ==
    ASSUME FrameTypes, UNCHANGED events \/ Echoes
    PROVE  /\ events' \in [Channels -> Seq(Frame)]
           /\ \A k \in Channels :
                /\ Len(events'[k]) <= QueueSize
                /\ \A f \in Elems(events'[k]) :
                      f \in Elems(events[k]) \/ f = NewFrame(k, FALSE, 0)
<1>1. CASE UNCHANGED events
  BY <1>1 DEF FrameTypes
<1>2. CASE Echoes
  <2>1. PICK j \in Channels : events' = Enqueued(j, NewFrame(j, FALSE, 0))
    BY <1>2 DEF Echoes
  <2> DEFINE e == NewFrame(j, FALSE, 0)
  <2>2. e \in Frame
    BY FrameFields
  <2> HIDE DEF e
  <2>3. /\ Enqueued(j, e) \in [Channels -> Seq(Frame)]
        /\ \A k \in Channels : /\ Len(Enqueued(j, e)[k]) <= QueueSize
                               /\ k # j => Enqueued(j, e)[k] = events[k]
        /\ Elems(Enqueued(j, e)[j]) \subseteq Elems(events[j]) \cup {e}
    BY <2>2, EnqueuedElems
  <2>4. events' = Enqueued(j, e)
    BY <2>1 DEF e
  <2>5. /\ events' \in [Channels -> Seq(Frame)]
        /\ \A k \in Channels : Len(events'[k]) <= QueueSize /\ (k # j => events'[k] = events[k])
        /\ Elems(events'[j]) \subseteq Elems(events[j]) \cup {e}
    BY <2>3, <2>4
  <2>6. ASSUME NEW k \in Channels, NEW f \in Elems(events'[k])
        PROVE  f \in Elems(events[k]) \/ f = NewFrame(k, FALSE, 0)
    <3>1. CASE k = j
      BY <2>5, <2>6, <3>1 DEF e
    <3>2. CASE k # j
      BY <2>5, <2>6, <3>2
    <3> QED BY <3>1, <3>2
  <2> QED BY <2>5, <2>6
<1> QED BY <1>1, <1>2

LEMMA QuietFrames ==
    ASSUME FramesInv, NEW c \in Callers, Quiet(c)
    PROVE  FramesInv'
<1>1. CallsInv'
  BY CallsKept DEF FramesInv, Quiet
<1>2. FrameTypes
  BY DEF FramesInv
<1>3. rxQueue' \in Seq(Frame) /\ Elems(rxQueue') \subseteq Elems(rxQueue)
  BY <1>2, NoElems, TailElems DEF Quiet, FrameTypes
<1>4. /\ events' \in [Channels -> Seq(Frame)]
      /\ \A k \in Channels :
          /\ Len(events'[k]) <= QueueSize
          /\ \A f \in Elems(events'[k]) : f \in Elems(events[k]) \/ f = NewFrame(k, FALSE, 0)
  BY <1>2, EchoElems DEF Quiet
<1>5. bus' \subseteq FairHeaders
  <2>1. ASSUME Sends(c), NEW ask \in {0, asked[c]}
        PROVE  [ch |-> ch[c], ask |-> ask] \in FairHeaders
    BY <2>1 DEF Sends, Header, FairHeaders, Fair, FramesInv, CallsInv, CallTypes, Numbering
  <2> QED BY <2>1 DEF Quiet, Sends, FramesInv, Answering
<1>6. FrameTypes'
  BY <1>2, <1>3, <1>4, <1>5 DEF Quiet, FrameTypes, FairHeaders
<1>7. Answering'
  <2>1. FairFrames \subseteq FairFrames' /\ FairHeaders \subseteq FairHeaders'
    BY FairAll DEF Quiet
  <2>2. bus' \subseteq FairHeaders' /\ Elems(rxQueue') \subseteq FairFrames'
    BY <1>3, <1>5, <2>1 DEF FramesInv, Answering
  <2>3. ASSUME NEW k \in Channels, NEW f \in Elems(events'[k])
        PROVE  f \in FairFrames' /\ f.ch = k
    <3>1. CASE f \in Elems(events[k])
      BY <2>1, <3>1 DEF FramesInv, Answering
    <3>2. CASE f = NewFrame(k, FALSE, 0)
      BY <3>2, FrameFields DEF FairFrames, Fair
    <3> QED BY <1>4, <3>1, <3>2
  <2>4. ASSUME NEW d \in Callers
        PROVE  held'[d] \in FairFrames' /\ (pc'[d] = "got" => held'[d] \in Frame)
    <3>1. pc'[d] = "got" => pc[d] = "got"
      BY OthersStay DEF Quiet, FramesInv
    <3> QED BY <2>1, <3>1 DEF FramesInv, Answering, Quiet
  <2> QED BY <2>2, <2>3, <2>4 DEF Answering, FramesInv, Quiet
<1> QED BY <1>1, <1>6, <1>7 DEF FramesInv

LEMMA QuietOrder ==
    ASSUME FramesInv, InOrder, NEW c \in Callers, Quiet(c)
    PROVE  InOrder'
<1>1. FrameTypes
  BY DEF FramesInv
<1>2. /\ rxQueue' \in Seq(Frame) /\ Elems(rxQueue') \subseteq Elems(rxQueue)
      /\ Rising(rxQueue')
  BY <1>1, NoElems, TailElems, TailRising DEF Quiet, FrameTypes, InOrder
<1>3. Old \subseteq Old'
  BY <1>2 DEF Old, Quiet
<1>4. ASSUME NEW k \in Channels, NEW f \in Elems(events'[k])
      PROVE  f.n \in Old' /\ (f.n = 0 \/ f.n \in passed')
  <2>1. f \in Elems(events[k]) \/ f.n = 0
    <3>1. NewFrame(k, FALSE, 0).n = 0
      BY DEF NewFrame
    <3> QED BY <1>1, <1>4, <3>1, EchoElems DEF Quiet
  <2> QED BY <1>3, <2>1 DEF InOrder, Quiet
<1>5. ASSUME NEW d \in Callers, pc'[d] = "got"
      PROVE  pc[d] = "got" /\ ch'[d] = ch[d]
  BY <1>5, OthersStay DEF Quiet, FramesInv
<1> QED BY <1>2, <1>3, <1>4, <1>5 DEF InOrder, Quiet

-----------------------------------------------------------------------------
(***************************************************************************)
(* A frame is delivered.                                                   *)
(***************************************************************************)
LEMMA DeliverCalls ==
    ASSUME CallsInv, NEW c \in Callers, pc[c] \in ReadPcs, NEW f, Deliver(c, f),
           UNCHANGED calls
    PROVE  CallStep(c) /\ pc'[c] # "got"
<1>1. op[c] \in Reading /\ pc[c] # "channel" /\ "poll" \in Places
  BY DEF CallsInv, Placing, OnChannel, ReadPcs, Places
<1>2. CASE Matches(c, f)
  BY <1>2 DEF Deliver, CallStep, Leaves, Leave, Goto, CallsInv, CallTypes
<1>3. CASE ~Matches(c, f)
  <2>1. Goto(c, "poll") /\ UNCHANGED <<op, ch, asked, masterLock>>
    BY <1>3 DEF Deliver, callVars
  <2>2. Moves(c, "poll")
    BY <1>1, <2>1 DEF Moves
  <2> QED BY <1>1, <2>1, <2>2 DEF CallStep, Goto, CallsInv, CallTypes
<1> QED BY <1>2, <1>3

\* Nobody else waits for it.
LEMMA DeliverOwn ==
    ASSUME CallsInv, stolen = {}, NEW c \in Callers, pc[c] \in ReadPcs,
           NEW f \in Frame, Fair(f), f.ch = ch[c], Deliver(c, f)
    PROVE  stolen' = {}
<1>1. ASSUME NEW d \in Callers \ {c}, f.ask # 0, asked[d] = f.ask
      PROVE  FALSE
  <2>1. ch[d] = ch[c] /\ pc[d] # "channel" /\ op[d] \in Reading
    BY <1>1 DEF Fair, CallsInv, Numbering, Reading
  <2>2. op[c] \in Reading /\ pc[c] # "channel"
    BY DEF CallsInv, Placing, OnChannel, ReadPcs
  <2> QED BY <2>1, <2>2, OneReader
<1>2. stolen' = stolen \cup {d \in Callers \ {c} : f.ask # 0 /\ asked[d] = f.ask}
      \/ stolen' = stolen
  BY DEF Deliver, callVars
<1> QED BY <1>1, <1>2

\* The history of what the channel returned.
LEMMA DeliverHistory ==
    ASSUME FramesInv, NEW c \in Callers, pc[c] \in ReadPcs, NEW f \in Frame, Deliver(c, f)
    PROVE  /\ newest' \in [Channels -> Nat]
           /\ \A k \in Channels : k # ch[c] => newest'[k] = newest[k]
           /\ newest'[ch[c]] \in {newest[ch[c]], f.n}
           /\ late' = late \/ (f.n # 0 /\ f.n < newest[ch[c]] /\ late' = late \cup {f.n})
           /\ late' \subseteq Nat
<1>1. ch[c] \in Channels /\ newest \in [Channels -> Nat] /\ f.n \in Nat /\ late \subseteq Nat
  BY FrameFields DEF FramesInv, CallsInv, Placing, OnChannel, Reading, FrameTypes
<1>2. CASE Matches(c, f)
  BY <1>1, <1>2 DEF Deliver
<1>3. CASE ~Matches(c, f)
  BY <1>1, <1>3 DEF Deliver, callVars
<1> QED BY <1>2, <1>3

-----------------------------------------------------------------------------
(***************************************************************************)
(* The steps with a frame: the library hands one over, the reader takes    *)
(* one from his event queue, or looks whose the one in his hand is.        *)
(***************************************************************************)
Gets(c) ==
    /\ Moves(c, "got")
    /\ rxQueue # <<>>
    /\ held' = [held EXCEPT ![c] = Head(rxQueue)]
    /\ rxQueue' = Tail(rxQueue)
    /\ UNCHANGED <<events, busVars, newest, late, passed, stolen>>

Takes(c) ==
    /\ pc[c] = "poll"
    /\ events[ch[c]] # <<>>
    /\ events' = [events EXCEPT ![ch[c]] = Tail(@)]
    /\ Deliver(c, Head(events[ch[c]]))
    /\ UNCHANGED <<calls, held, rxQueue, busVars, passed>>

Passes(c) ==
    /\ pc[c] = "got"
    /\ \/ /\ held[c].ch = ch[c]
          /\ Deliver(c, held[c])
          /\ UNCHANGED <<events, passed>>
       \/ /\ events' = Enqueued(held[c].ch, held[c])
          /\ passed' = passed \cup {held[c].n}
          /\ Goto(c, "poll")
          /\ UNCHANGED callVars
       \/ /\ Goto(c, "poll")
          /\ UNCHANGED <<callVars, events, passed>>
    /\ held' = [held EXCEPT ![c] = NoFrame]
    /\ UNCHANGED <<calls, rxQueue, busVars>>

LEMMA GetsFrames ==
    ASSUME FramesInv, NEW c \in Callers, Gets(c)
    PROVE  FramesInv'
<1>1. CallStep(c)
  BY DEF Gets, CallStep, Places, ReadPcs
<1>2. CallsInv'
  BY <1>1, CallsKept DEF FramesInv
<1>3. /\ Head(rxQueue) \in Elems(rxQueue) /\ Head(rxQueue) \in Frame
      /\ rxQueue' \in Seq(Frame) /\ Elems(rxQueue') \subseteq Elems(rxQueue)
  BY TailElems DEF Gets, FramesInv, FrameTypes
<1>4. FrameTypes'
  BY <1>3 DEF Gets, FramesInv, FrameTypes, busVars
<1>5. FairFrames \subseteq FairFrames' /\ FairHeaders \subseteq FairHeaders'
  BY <1>1, FairAll
<1>6. ASSUME NEW d \in Callers
      PROVE  held'[d] \in FairFrames' /\ (pc'[d] = "got" => held'[d] \in Frame)
  <2>1. CASE d = c
    BY <1>3, <1>5, <2>1 DEF Gets, FramesInv, FrameTypes, Answering
  <2>2. CASE d # c
    <3>1. pc'[d] = pc[d] /\ held'[d] = held[d]
      BY <1>1, <2>2, OthersStay DEF Gets, FramesInv, FrameTypes
    <3> QED BY <1>5, <3>1 DEF FramesInv, Answering
  <2> QED BY <2>1, <2>2
<1>7. Answering'
  BY <1>3, <1>5, <1>6 DEF Gets, FramesInv, Answering, busVars
<1> QED BY <1>2, <1>4, <1>7 DEF FramesInv

LEMMA GetsOrder ==
    ASSUME FramesInv, InOrder, NEW c \in Callers, Gets(c)
    PROVE  InOrder'
<1>1. CallStep(c)
  BY DEF Gets, CallStep, Places, ReadPcs
<1>2. /\ rxQueue \in Seq(Frame) /\ rxQueue # <<>> /\ rxQueue' = Tail(rxQueue)
      /\ Rising(rxQueue)
  BY DEF Gets, FramesInv, FrameTypes, InOrder
<1>3. /\ Head(rxQueue) \in Elems(rxQueue) /\ Head(rxQueue).n \in Nat
      /\ Elems(rxQueue') \subseteq Elems(rxQueue)
      /\ Rising(rxQueue') /\ \A f \in Elems(rxQueue') : Head(rxQueue).n < f.n
  BY <1>2, TailElems, TailRising, FrameFields
<1>4. Old \subseteq Old' /\ Head(rxQueue).n \in Old'
  BY <1>3 DEF Old, Gets, busVars, InOrder
<1>5. ASSUME NEW d \in Callers
      PROVE  /\ held'[d].n \in Old'
             /\ pc'[d] = "got" /\ held'[d].ch = ch'[d] => newest'[ch'[d]] <= held'[d].n
  <2>1. CASE d = c
    <3>1. held'[c] = Head(rxQueue) /\ newest' = newest /\ ch' = ch
      BY DEF Gets, Moves, FramesInv, FrameTypes
    <3>2. held'[c].ch = ch[c] => newest[ch[c]] <= Head(rxQueue).n
      <4>1. Head(rxQueue) \in Frame
        BY <1>2, TailElems
      <4>2. ASSUME ch[c] \in Channels PROVE newest[ch[c]] <= Head(rxQueue).n
        <5>1. newest[ch[c]] \in Old
          BY <4>2 DEF InOrder
        <5> QED BY <1>3, <5>1 DEF Old
      <4> QED BY <3>1, <4>1, <4>2, FrameFields
    <3> QED BY <1>4, <2>1, <3>1, <3>2
  <2>2. CASE d # c
    <3>1. pc'[d] = pc[d] /\ held'[d] = held[d] /\ ch'[d] = ch[d] /\ newest' = newest
      BY <1>1, <2>2, OthersStay DEF Gets, FramesInv, FrameTypes
    <3> QED BY <1>4, <3>1 DEF InOrder
  <2> QED BY <2>1, <2>2
<1> QED BY <1>3, <1>4, <1>5 DEF Gets, InOrder, busVars

\* A frame of the reader's event queue.
LEMMA QueuedFrame ==
    ASSUME FramesInv, NEW c \in Callers, Takes(c)
    PROVE  /\ ch[c] \in Channels /\ pc[c] \in ReadPcs
           /\ events[ch[c]] \in Seq(Frame)
           /\ Head(events[ch[c]]) \in Frame
           /\ Head(events[ch[c]]) \in Elems(events[ch[c]])
           /\ events' \in [Channels -> Seq(Frame)]
           /\ \A k \in Channels : /\ Len(events'[k]) <= QueueSize
                                  /\ Elems(events'[k]) \subseteq Elems(events[k])
<1>1. ch[c] \in Channels /\ pc[c] \in ReadPcs /\ events \in [Channels -> Seq(Frame)]
  BY DEF Takes, FramesInv, FrameTypes, CallsInv, Placing, OnChannel, Reading, ReadPcs
<1>2. /\ Head(events[ch[c]]) \in Frame /\ Head(events[ch[c]]) \in Elems(events[ch[c]])
      /\ Tail(events[ch[c]]) \in Seq(Frame)
      /\ Elems(Tail(events[ch[c]])) \subseteq Elems(events[ch[c]])
      /\ Len(Tail(events[ch[c]])) <= Len(events[ch[c]])
      /\ Len(Tail(events[ch[c]])) \in Nat /\ Len(events[ch[c]]) \in Nat
  <2>1. events[ch[c]] \in Seq(Frame) /\ events[ch[c]] # <<>>
    BY <1>1 DEF Takes
  <2> QED BY <2>1, TailElems, LenProperties
<1>3. ASSUME NEW k \in Channels
      PROVE  Len(events'[k]) <= QueueSize /\ Elems(events'[k]) \subseteq Elems(events[k])
  <2>1. CASE k = ch[c]
    <3>1. events'[k] = Tail(events[ch[c]]) /\ Len(events[ch[c]]) <= QueueSize
      BY <1>1, <2>1 DEF Takes, FramesInv, FrameTypes
    <3> QED BY <1>2, <2>1, <3>1, DriverAssumption
  <2>2. CASE k # ch[c]
    BY <1>1, <2>2 DEF Takes, FramesInv, FrameTypes
  <2> QED BY <2>1, <2>2
<1> QED BY <1>1, <1>2, <1>3 DEF Takes

LEMMA TakesFrames ==
    ASSUME FramesInv, NEW c \in Callers, Takes(c)
    PROVE  FramesInv'
<1> DEFINE f == Head(events[ch[c]])
<1>1. /\ pc[c] \in ReadPcs /\ ch[c] \in Channels /\ f \in Frame /\ f \in Elems(events[ch[c]])
      /\ events' \in [Channels -> Seq(Frame)]
      /\ \A k \in Channels : /\ Len(events'[k]) <= QueueSize
                             /\ Elems(events'[k]) \subseteq Elems(events[k])
  BY QueuedFrame
<1>2. Deliver(c, f)
  BY DEF Takes
<1>3. Fair(f) /\ f.ch = ch[c]
  BY <1>1 DEF FramesInv, Answering, FairFrames
<1> HIDE DEF f
<1>4. CallStep(c) /\ pc'[c] # "got" /\ stolen' = {}
  BY <1>1, <1>2, <1>3, DeliverCalls, DeliverOwn DEF Takes, FramesInv, Answering
<1>5. CallsInv'
  BY <1>4, CallsKept DEF FramesInv
<1>6. newest' \in [Channels -> Nat] /\ late' \subseteq Nat
  BY <1>1, <1>2, DeliverHistory
<1>7. FrameTypes'
  BY <1>1, <1>6 DEF Takes, FramesInv, FrameTypes, busVars
<1>8. FairFrames \subseteq FairFrames' /\ FairHeaders \subseteq FairHeaders'
  BY <1>4, FairAll
<1>9. \A d \in Callers : pc'[d] = "got" => pc[d] = "got"
  BY <1>4, OthersStay DEF FramesInv
<1>10. Answering'
  BY <1>1, <1>4, <1>8, <1>9 DEF Takes, FramesInv, Answering, busVars
<1> QED BY <1>5, <1>7, <1>10 DEF FramesInv

\* Who has a frame for himself in hand is the only reader of his channel, so
\* nobody but he returns one there.
LEMMA HandsOff ==
    ASSUME CallsInv, NEW c \in Callers, NEW d \in Callers, pc[c] \in ReadPcs,
           pc[d] = "got", ch[d] = ch[c]
    PROVE  d = c
<1>1. op[c] \in Reading /\ op[d] \in Reading /\ pc[c] # "channel" /\ pc[d] # "channel"
  BY DEF CallsInv, Placing, OnChannel, ReadPcs
<1> QED BY <1>1, OneReader

LEMMA TakesOrder ==
    ASSUME FramesInv, InOrder, NEW c \in Callers, Takes(c)
    PROVE  InOrder'
<1> DEFINE f == Head(events[ch[c]])
<1>1. /\ pc[c] \in ReadPcs /\ ch[c] \in Channels /\ f \in Frame /\ f \in Elems(events[ch[c]])
      /\ \A k \in Channels : Elems(events'[k]) \subseteq Elems(events[k])
  BY QueuedFrame
<1>2. Deliver(c, f)
  BY DEF Takes
<1>3. f.n \in Old /\ (f.n = 0 \/ f.n \in passed)
  BY <1>1 DEF InOrder
<1> HIDE DEF f
<1>4. CallStep(c) /\ pc'[c] # "got"
  BY <1>1, <1>2, DeliverCalls DEF Takes, FramesInv
<1>5. /\ \A k \in Channels : k # ch[c] => newest'[k] = newest[k]
      /\ newest'[ch[c]] \in {newest[ch[c]], f.n}
      /\ late' = late \/ (f.n # 0 /\ late' = late \cup {f.n})
  BY <1>1, <1>2, DeliverHistory
<1>6. Old' = Old
  BY DEF Old, Takes, busVars
<1>7. ASSUME NEW d \in Callers
      PROVE  pc'[d] = "got" /\ held'[d].ch = ch'[d] => newest'[ch'[d]] <= held'[d].n
  <2>1. SUFFICES ASSUME pc'[d] = "got", held[d].ch = ch'[d] PROVE newest'[ch'[d]] <= held[d].n
    BY DEF Takes
  <2>2. d # c /\ pc[d] = "got" /\ ch'[d] = ch[d]
    BY <1>4, <2>1, OthersStay DEF FramesInv
  <2>3. ch[d] # ch[c]
    BY <1>1, <2>2, HandsOff DEF FramesInv
  <2>4. ch[d] \in Channels
    BY <2>2 DEF FramesInv, CallsInv, Placing, OnChannel, Reading, ReadPcs
  <2> QED BY <1>5, <2>1, <2>2, <2>3, <2>4 DEF InOrder
<1>8. late' \subseteq passed'
  BY <1>3, <1>5 DEF InOrder, Takes
<1> QED BY <1>1, <1>3, <1>5, <1>6, <1>7, <1>8 DEF InOrder, Takes, busVars

-----------------------------------------------------------------------------
LEMMA PassesCalls ==
    ASSUME FramesInv, NEW c \in Callers, Passes(c)
    PROVE  CallStep(c) /\ pc'[c] # "got" /\ pc[c] \in ReadPcs /\ held[c] \in Frame
<1>1. pc[c] = "got" /\ pc[c] \in ReadPcs /\ held[c] \in Frame /\ op[c] \in Reading
  BY DEF Passes, ReadPcs, FramesInv, Answering, CallsInv, Placing, OnChannel
<1>2. CASE Deliver(c, held[c])
  BY <1>1, <1>2, DeliverCalls DEF FramesInv, Passes
<1>3. CASE Goto(c, "poll") /\ UNCHANGED callVars
  <2>1. Moves(c, "poll") /\ "poll" \in Places
    BY <1>1, <1>3 DEF Moves, Passes, callVars, Places, ReadPcs
  <2> QED BY <1>1, <2>1 DEF CallStep, Moves, Goto, FramesInv, CallsInv, CallTypes
<1> QED BY <1>1, <1>2, <1>3 DEF Passes

\* The event queues: unchanged, or one has the frame.
LEMMA PassesEvents ==
    ASSUME FramesInv, NEW c \in Callers, Passes(c)
    PROVE  /\ events' \in [Channels -> Seq(Frame)]
           /\ \A k \in Channels :
                /\ Len(events'[k]) <= QueueSize
                /\ \A f \in Elems(events'[k]) :
                     \/ f \in Elems(events[k])
                     \/ f = held[c] /\ f.ch = k /\ passed' = passed \cup {f.n}
           /\ passed \subseteq passed' /\ passed' \subseteq Nat
<1>1. held[c] \in Frame /\ held[c].ch \in Channels /\ held[c].n \in Nat
  BY PassesCalls, FrameFields
<1>2. CASE UNCHANGED <<events, passed>>
  BY <1>2 DEF FramesInv, FrameTypes
<1>3. CASE events' = Enqueued(held[c].ch, held[c]) /\ passed' = passed \cup {held[c].n}
  <2>1. /\ events' \in [Channels -> Seq(Frame)]
        /\ \A k \in Channels : Len(events'[k]) <= QueueSize
                               /\ (k # held[c].ch => events'[k] = events[k])
        /\ Elems(events'[held[c].ch]) \subseteq Elems(events[held[c].ch]) \cup {held[c]}
    BY <1>1, <1>3, EnqueuedElems DEF FramesInv
  <2>2. ASSUME NEW k \in Channels, NEW f \in Elems(events'[k])
        PROVE  \/ f \in Elems(events[k])
               \/ f = held[c] /\ f.ch = k /\ passed' = passed \cup {f.n}
    <3>1. CASE k = held[c].ch
      BY <1>3, <2>1, <2>2, <3>1
    <3>2. CASE k # held[c].ch
      BY <2>1, <2>2, <3>2
    <3> QED BY <3>1, <3>2
  <2> QED BY <1>1, <1>3, <2>1, <2>2 DEF FramesInv, FrameTypes
<1> QED BY <1>2, <1>3 DEF Passes

LEMMA PassesFrames ==
    ASSUME FramesInv, NEW c \in Callers, Passes(c)
    PROVE  FramesInv'
<1>1. CallStep(c) /\ pc'[c] # "got" /\ pc[c] \in ReadPcs /\ held[c] \in Frame
  BY PassesCalls
<1>2. CallsInv'
  BY <1>1, CallsKept DEF FramesInv
<1>3. newest' \in [Channels -> Nat] /\ late' \subseteq Nat
  BY <1>1, DeliverHistory DEF Passes, callVars, FramesInv, FrameTypes
<1>4. stolen' = {}
  BY <1>1, DeliverOwn DEF Passes, callVars, FramesInv, Answering, FairFrames
<1>5. /\ events' \in [Channels -> Seq(Frame)] /\ passed' \subseteq Nat
      /\ \A k \in Channels :
            /\ Len(events'[k]) <= QueueSize
            /\ \A f \in Elems(events'[k]) : f \in Elems(events[k]) \/ (f = held[c] /\ f.ch = k)
  BY PassesEvents
<1>6. FrameTypes'
  BY <1>3, <1>5 DEF Passes, FramesInv, FrameTypes, busVars
<1>7. FairFrames \subseteq FairFrames' /\ FairHeaders \subseteq FairHeaders'
  BY <1>1, FairAll
<1>8. ASSUME NEW d \in Callers
      PROVE  held'[d] \in FairFrames' /\ (pc'[d] = "got" => held'[d] \in Frame)
  <2>1. CASE d = c
    <3>1. held'[d] = NoFrame
      BY <2>1 DEF Passes, FramesInv, FrameTypes
    <3> QED BY <1>1, <2>1, <3>1, FrameFields DEF FairFrames, Fair
  <2>2. CASE d # c
    <3>1. pc'[d] = pc[d] /\ held'[d] = held[d]
      BY <1>1, <2>2, OthersStay DEF Passes, FramesInv, FrameTypes
    <3> QED BY <1>7, <3>1 DEF FramesInv, Answering
  <2> QED BY <2>1, <2>2
<1>9. Answering'
  BY <1>4, <1>5, <1>7, <1>8 DEF Passes, FramesInv, Answering, busVars
<1> QED BY <1>2, <1>6, <1>9 DEF FramesInv

LEMMA PassesOrder ==
    ASSUME FramesInv, InOrder, NEW c \in Callers, Passes(c)
    PROVE  InOrder'
<1>1. CallStep(c) /\ pc'[c] # "got" /\ pc[c] \in ReadPcs /\ held[c] \in Frame
  BY PassesCalls
<1>2. Old' = Old /\ held[c].n \in Old /\ ch[c] \in Channels
  BY <1>1 DEF Old, Passes, busVars, InOrder, FramesInv, CallsInv, Placing, OnChannel, Reading
<1>3. /\ \A k \in Channels : \A f \in Elems(events'[k]) :
            f \in Elems(events[k]) \/ (f = held[c] /\ passed' = passed \cup {f.n})
      /\ passed \subseteq passed'
  BY PassesEvents
<1>4. /\ \A k \in Channels : k # ch[c] => newest'[k] = newest[k]
      /\ newest'[ch[c]] \in {newest[ch[c]], held[c].n}
      /\ late' = late
  <2>1. CASE held[c].ch = ch[c] /\ Deliver(c, held[c])
    <3>1. /\ \A k \in Channels : k # ch[c] => newest'[k] = newest[k]
          /\ newest'[ch[c]] \in {newest[ch[c]], held[c].n}
          /\ late' = late \/ held[c].n < newest[ch[c]]
      BY <1>1, <2>1, DeliverHistory
    <3>2. newest[ch[c]] <= held[c].n
      BY <2>1 DEF InOrder, Passes
    <3>3. newest[ch[c]] \in Nat /\ held[c].n \in Nat
      BY <1>1, <1>2, FrameFields DEF FramesInv, FrameTypes
    <3> QED BY <3>1, <3>2, <3>3
  <2>2. CASE UNCHANGED callVars
    BY <2>2 DEF callVars
  <2> QED BY <2>1, <2>2 DEF Passes
<1>5. ASSUME NEW k \in Channels, NEW f \in Elems(events'[k])
      PROVE  f.n \in Old' /\ (f.n = 0 \/ f.n \in passed')
  BY <1>2, <1>3, <1>5 DEF InOrder
<1>6. ASSUME NEW d \in Callers
      PROVE  /\ held'[d].n \in Old'
             /\ pc'[d] = "got" /\ held'[d].ch = ch'[d] => newest'[ch'[d]] <= held'[d].n
  <2>1. CASE d = c
    <3>1. held'[d] = NoFrame
      BY <2>1 DEF Passes, FramesInv, FrameTypes
    <3> QED BY <1>1, <1>2, <2>1, <3>1, FrameFields DEF InOrder
  <2>2. CASE d # c
    <3>1. pc'[d] = pc[d] /\ held'[d] = held[d] /\ ch'[d] = ch[d]
      BY <1>1, <2>2, OthersStay DEF Passes, FramesInv, FrameTypes
    <3>2. ASSUME pc[d] = "got" PROVE newest'[ch[d]] = newest[ch[d]]
      <4>1. ch[d] # ch[c] /\ ch[d] \in Channels
        BY <1>1, <2>2, <3>2, HandsOff DEF FramesInv, CallsInv, Placing, OnChannel, Reading, ReadPcs
      <4> QED BY <1>4, <4>1
    <3> QED BY <1>2, <3>1, <3>2 DEF InOrder
  <2> QED BY <2>1, <2>2
<1> QED BY <1>2, <1>3, <1>4, <1>5, <1>6 DEF InOrder, Passes, busVars

-----------------------------------------------------------------------------
(***************************************************************************)
(* The bus, and what leaves all this alone.                                *)
(***************************************************************************)
LEMMA ArriveFrame ==
    ASSUME NEW g \in Frame, Fair(g), arrived \in Nat, Arrive(g)
    PROVE  \E f \in Frame :
               /\ Fair(f) /\ f.n = arrived + 1
               /\ rxQueue' = Append(rxQueue, f) /\ arrived' = arrived + 1
<1> DEFINE f == [g EXCEPT !.n = arrived + 1]
<1>1. f \in Frame /\ f.n = arrived + 1 /\ f.ask = g.ask /\ f.ch = g.ch
  BY DEF Frame
<1>2. Fair(f)
  BY <1>1 DEF Fair
<1>3. rxQueue' = Append(rxQueue, f) /\ arrived' = arrived + 1
  BY DEF Arrive
<1> QED BY <1>1, <1>2, <1>3

LEMMA BusQueue ==
    ASSUME FramesInv, NEW on \in SUBSET Channels, Bus(on)
    PROVE  /\ bus' \subseteq bus
           /\ \/ UNCHANGED <<rxQueue, arrived>>
              \/ \E f \in Frame :
                    /\ Fair(f) /\ f.n = arrived + 1
                    /\ rxQueue' = Append(rxQueue, f) /\ arrived' = arrived + 1
<1>1. arrived \in Nat
  BY DEF FramesInv, FrameTypes
<1>2. ASSUME NEW h \in bus, h.ch \in on, Arrive(NewFrame(h.ch, FALSE, h.ask))
      PROVE  \E f \in Frame :
                    /\ Fair(f) /\ f.n = arrived + 1
                    /\ rxQueue' = Append(rxQueue, f) /\ arrived' = arrived + 1
  <2> DEFINE g == NewFrame(h.ch, FALSE, h.ask)
  <2>1. h.ch \in Channels /\ h.ask \in Nat /\ Fair(h)
    BY FrameFields DEF FramesInv, Answering, FairHeaders
  <2>2. g \in Frame /\ Fair(g)
    <3>1. \A k \in Channels, ask \in Nat :
              /\ NewFrame(k, FALSE, ask) \in Frame
              /\ NewFrame(k, FALSE, ask).ask = ask /\ NewFrame(k, FALSE, ask).ch = k
      BY FrameFields
    <3>2. g \in Frame /\ g.ask = h.ask /\ g.ch = h.ch
      BY <2>1, <3>1
    <3> HIDE DEF g
    <3> QED BY <2>1, <3>2 DEF Fair
  <2>3. Arrive(g)
    BY <1>2
  <2> HIDE DEF g
  <2> QED BY <1>1, <2>2, <2>3, ArriveFrame
<1>3. ASSUME NEW k \in on, NEW bad \in BOOLEAN, Arrive(NewFrame(k, bad, 0))
      PROVE  \E f \in Frame :
                    /\ Fair(f) /\ f.n = arrived + 1
                    /\ rxQueue' = Append(rxQueue, f) /\ arrived' = arrived + 1
  <2> DEFINE g == NewFrame(k, bad, 0)
  <2>1. k \in Channels /\ 0 \in Nat
    OBVIOUS
  <2>2. g \in Frame /\ g.ask = 0
    BY <2>1, FrameFields
  <2>3. Fair(g)
    BY <2>2 DEF Fair
  <2>4. Arrive(g)
    BY <1>3
  <2> HIDE DEF g
  <2> QED BY <1>1, <2>2, <2>3, <2>4, ArriveFrame
<1> QED BY <1>2, <1>3 DEF Bus

LEMMA BusFrames ==
    ASSUME FramesInv, NEW on \in SUBSET Channels, Bus(on)
    PROVE  FramesInv'
<1>1. /\ UNCHANGED <<pc, calls, op, ch, asked, masterLock, newest, late, stolen, held,
                     events, passed>>
      /\ CallsInv' /\ FairFrames' = FairFrames /\ FairHeaders' = FairHeaders
  <2>1. UNCHANGED <<pc, calls, op, ch, asked, masterLock, newest, late, stolen, held,
                    events, passed>>
    BY DEF Bus, callVars
  <2> QED BY <2>1 DEF FramesInv, CallsInv, CallTypes, Placing, OnChannel, Numbering, Alone, Locked,
          FairFrames, FairHeaders, Fair
<1>2. bus' \subseteq bus
  BY BusQueue
<1>3. rxQueue' \in Seq(Frame) /\ Elems(rxQueue') \subseteq FairFrames /\ arrived' \in Nat
  <2>1. rxQueue \in Seq(Frame) /\ Elems(rxQueue) \subseteq FairFrames /\ arrived \in Nat
    BY DEF FramesInv, FrameTypes, Answering
  <2>2. ASSUME NEW f \in Frame, Fair(f), rxQueue' = Append(rxQueue, f)
        PROVE  rxQueue' \in Seq(Frame) /\ Elems(rxQueue') \subseteq FairFrames
    BY <2>1, <2>2, AppendElems DEF FairFrames
  <2> QED BY <2>1, <2>2, BusQueue
<1>4. FrameTypes'
  BY <1>1, <1>2, <1>3 DEF FramesInv, FrameTypes
<1>5. Answering'
  BY <1>1, <1>2, <1>3 DEF FramesInv, Answering
<1> QED BY <1>1, <1>4, <1>5 DEF FramesInv

LEMMA BusOrder ==
    ASSUME FramesInv, InOrder, NEW on \in SUBSET Channels, Bus(on)
    PROVE  InOrder'
<1>1. UNCHANGED <<pc, ch, newest, late, held, events, passed>>
  BY DEF Bus, callVars
<1>2. /\ rxQueue \in Seq(Frame) /\ arrived \in Nat
      /\ \A f \in Elems(rxQueue) : f.n \in Nat
  BY ElemsTyped, FrameFields DEF FramesInv, FrameTypes
<1>3. CASE UNCHANGED <<rxQueue, arrived>>
  BY <1>1, <1>3 DEF InOrder, Old
<1>4. ASSUME NEW f \in Frame, f.n = arrived + 1, rxQueue' = Append(rxQueue, f),
             arrived' = arrived + 1
      PROVE  InOrder'
  <2>1. /\ Elems(rxQueue') = Elems(rxQueue) \cup {f}
        /\ \A g \in Elems(rxQueue) : g.n <= arrived
    BY <1>2, <1>4, AppendElems DEF InOrder
  <2>2. Rising(rxQueue')
    BY <1>2, <1>4, <2>1, AppendRising DEF InOrder
  <2>3. Old \subseteq Old'
    BY <1>2, <1>4, <2>1 DEF Old
  <2>4. \A g \in Elems(rxQueue') : g.n <= arrived'
    BY <1>2, <1>4, <2>1
  <2> QED BY <1>1, <2>2, <2>3, <2>4 DEF InOrder
<1> QED BY <1>3, <1>4, BusQueue

LEMMA FramesStay ==
    ASSUME FramesInv,
           UNCHANGED <<pc, calls, callVars, held, queueVars, busVars, passed>>
    PROVE  FramesInv' /\ (InOrder => InOrder')
<1>1. UNCHANGED <<pc, calls, op, ch, asked, masterLock, newest, late, stolen, held, rxQueue,
                  events, bus, arrived, passed>>
  BY DEF callVars, queueVars, busVars
<1>2. CallsInv'
  BY <1>1 DEF FramesInv, CallsInv, CallTypes, Placing, OnChannel, Numbering, Alone, Locked
<1>3. FrameTypes' /\ Answering'
  BY <1>1 DEF FramesInv, FrameTypes, Answering, FairFrames, FairHeaders, Fair
<1>4. InOrder => InOrder'
  BY <1>1 DEF InOrder, Old
<1> QED BY <1>2, <1>3, <1>4 DEF FramesInv

(***************************************************************************)
(* All steps that keep the frames in order but for those passed on, and    *)
(* bring every answer to the MasterRead that asked for it.                 *)
(***************************************************************************)
FramesStep ==
    \/ \E c \in Callers : Quiet(c) \/ Gets(c) \/ Takes(c) \/ Passes(c)
    \/ \E on \in SUBSET Channels : Bus(on)
    \/ UNCHANGED <<pc, calls, callVars, held, queueVars, busVars, passed>>

LEMMA FramesKept ==
    ASSUME FramesInv, InOrder, FramesStep
    PROVE  FramesInv' /\ InOrder'
  BY QuietFrames, QuietOrder, GetsFrames, GetsOrder, TakesFrames, TakesOrder,
     PassesFrames, PassesOrder, BusFrames, BusOrder, FramesStay DEF FramesStep
=============================================================================
