-------------------------- MODULE ToomossDriverProofs --------------------------
(***************************************************************************)
(* Proofs about ToomossDriver, for any goroutines, channels, queue lengths *)
(* and any number of driver objects.  Two locks carry them: an instance is *)
(* made by one goroutine while none is active, and callMu of an object is  *)
(* held by one.  Whoever gets callMu for an object that is not closed has  *)
(* the newest one, and it stays the newest until Close has had callMu too. *)
(***************************************************************************)
EXTENDS ToomossDriver, TLAPS, SequenceTheorems

Places ==
    {"idle", "enqueue", "closeLock", "inactive", "join"} \cup NewPcs \cup ReadPcs \cup CallPcs
ClosePcs == {"closeLock", "usbClose", "inactive"}
Elsewhere == {"idle"} \cup NewPcs

-----------------------------------------------------------------------------
(***************************************************************************)
(* The invariant.                                                          *)
(***************************************************************************)

\* A call is one of an object that was made, on a channel if it needs one.
Located ==
    \A c \in Callers :
        /\ pc[c] \notin Elsewhere => object[c] \in 1 .. objects
        /\ pc[c] \in ReadPcs \cup {"sync", "enqueue"} => ch[c] \in Channels

\* toomossInstanceMu: one goroutine makes an object, while none is active.
OneMaker ==
    \A c \in Callers : pc[c] \in NewPcs =>
        /\ ~active /\ objects < Objects
        /\ \A d \in Callers : pc[d] \in NewPcs => d = c

\* callMu of an object is held by one goroutine.
OneCalls ==
    \A c, d \in Callers :
        pc[c] \in CallPcs /\ pc[d] \in CallPcs /\ object[c] = object[d] => c = d

\* closeOnce of an object lets one goroutine close it.
OneCloses ==
    \A c \in Callers : pc[c] \in ClosePcs =>
        /\ once[object[c]] = "running"
        /\ \A d \in Callers : pc[d] \in ClosePcs /\ object[d] = object[c] => d = c

\* All objects but the newest are closed, and it alone can be active.
Generations ==
    /\ \A i \in Object :
        /\ i \in closed <=> once[i] # "new"
        /\ i < objects => once[i] = "done"
        /\ i > objects => once[i] = "new"
    /\ active <=> objects > 0 /\ once[objects] # "done"

\* Who holds callMu holds that of the active object, before it is given up.
InUse ==
    \A c \in Callers : pc[c] \in CallPcs =>
        /\ active /\ object[c] = objects
        /\ \A d \in Callers : pc[d] # "inactive"

\* The library is there and the adapter open for an active object, but for the
\* last step of its Close, and for NewToomoss as far as it has come.
Up ==
    /\ active => \/ loaded /\ deviceOpen
                 \/ \E c \in Callers : pc[c] = "inactive"
    /\ \A c \in Callers :
        /\ pc[c] \in {"open", "init"} => loaded
        /\ pc[c] = "init" => deviceOpen

Inv ==
    /\ Located /\ OneMaker /\ OneCalls /\ OneCloses
    /\ Generations /\ InUse /\ Up

-----------------------------------------------------------------------------
(***************************************************************************)
(* Types.                                                                  *)
(***************************************************************************)
LEMMA InitTypes ==
    ASSUME Objects \in Nat, Init
    PROVE  TypeOK
<1>1. <<>> \in Seq(Nat)
  OBVIOUS
<1>2. /\ rxQueue \in [Channels -> Seq(Nat)] /\ held \in [Callers -> Seq(Nat)]
      /\ events \in [Object -> [Channels -> Seq(Nat)]]
      /\ newest \in [Object -> [Channels -> Nat]]
  BY <1>1 DEF Init
<1>3. /\ pc \in [Callers -> Places] /\ object \in [Callers -> 0 .. Objects]
      /\ ch \in [Callers -> Channels \cup {"none"}]
      /\ once \in [Object -> {"new", "running", "done"}]
      /\ elins \in [Object -> SUBSET Channels]
  BY DEF Init, Places
<1>4. /\ platform \in {"windows", "darwin"} /\ calls = 0 /\ objects = 0 /\ arrived = 0
      /\ active = FALSE /\ loaded = FALSE /\ deviceOpen = FALSE
      /\ closed = {} /\ closeErr = {} /\ elinsOn = {} /\ toStart = {} /\ started = {}
      /\ toStop = {} /\ late = {} /\ tried = FALSE /\ overlapped = FALSE
  BY DEF Init
<1>5. objects \in 0 .. Objects /\ calls \in Nat /\ arrived \in Nat
  BY <1>4
<1> QED BY <1>2, <1>3, <1>4, <1>5 DEF TypeOK, Places

LEMMA RemoveSecond ==
    ASSUME NEW s \in Seq(Nat), Len(s) > 1
    PROVE  RemoveAt(s, 2) \in Seq(Nat)
  BY DEF RemoveAt

LEMMA MadeObject ==
    ASSUME Objects \in Nat, TypeOK, Located, NEW c \in Callers, pc[c] \notin Elsewhere
    PROVE  object[c] \in Object /\ object[c] \in 1 .. objects
<1>1. object[c] \in 1 .. objects /\ objects \in 0 .. Objects
  BY DEF TypeOK, Located
<1> QED BY <1>1 DEF Object

\* Frames move between the library, a goroutine's hands and the event queue.
LEMMA EnqueuedTypes ==
    ASSUME TypeOK, NEW i \in Object, NEW k \in Channels, NEW f \in Nat
    PROVE  Enqueued(i, k, f) \in [Object -> [Channels -> Seq(Nat)]]
<1>1. events[i] \in [Channels -> Seq(Nat)] /\ events[i][k] \in Seq(Nat)
  BY DEF TypeOK
<1>2. Append(events[i][k], f) \in Seq(Nat)
  BY <1>1
<1>3. [events[i] EXCEPT ![k] = Append(events[i][k], f)] \in [Channels -> Seq(Nat)]
  BY <1>1, <1>2
<1>4. [events EXCEPT ![i][k] = Append(@, f)] \in [Object -> [Channels -> Seq(Nat)]]
  BY <1>3 DEF TypeOK
<1> QED BY <1>4 DEF Enqueued, TypeOK

LEMMA DeliverTypes ==
    ASSUME TypeOK, NEW c \in Callers, object[c] \in Object, ch[c] \in Channels,
           NEW f \in Nat, Deliver(c, f)
    PROVE  /\ newest' \in [Object -> [Channels -> Nat]] /\ late' \subseteq Nat
           /\ UNCHANGED <<tried, overlapped>>
<1> DEFINE i == object[c]  k == ch[c]
<1>1. newest[i] \in [Channels -> Nat] /\ newest[i][k] \in Nat
  BY DEF TypeOK
<1>2. [newest[i] EXCEPT ![k] = IF f > newest[i][k] THEN f ELSE newest[i][k]]
        \in [Channels -> Nat]
  BY <1>1
<1> QED BY <1>1, <1>2 DEF Deliver, TypeOK

\* Where a goroutine is and what it has in hand.
CallTypes ==
    /\ pc \in [Callers -> Places]
    /\ object \in [Callers -> 0 .. Objects]
    /\ ch \in [Callers -> Channels \cup {"none"}]
    /\ held \in [Callers -> Seq(Nat)]

LEMMA ReturnTypes ==
    ASSUME Objects \in Nat, CallTypes, NEW c \in Callers, Return(c)
    PROVE  CallTypes'
  BY DEF Return, CallTypes, Places

LEMMA GotoTypes ==
    ASSUME CallTypes, NEW c \in Callers, NEW at \in Places, Goto(c, at)
    PROVE  CallTypes'
  BY DEF Goto, CallTypes

LEMMA EnterTypes ==
    ASSUME TypeOK, CallTypes, NEW c \in Callers, NEW i \in 0 .. Objects,
           NEW k \in Channels \cup {"none"}, NEW at \in Places, Enter(c, i, k, at)
    PROVE  CallTypes' /\ calls' \in Nat /\ UNCHANGED <<platform, objects>>
  BY DEF Enter, CallTypes, TypeOK

LEMMA PlacesTyped == TypeOK => CallTypes
  BY DEF TypeOK, CallTypes, Places

\* NewToomoss.
LEMMA MakeTypes ==
    ASSUME Objects \in Nat, TypeOK, OneMaker, NEW c \in Callers,
           NewToomoss(c) \/ ensureLinReady(c) \/ UsbOpen(c) \/ LinExInit(c)
    PROVE  TypeOK'
<1> USE DEF libraryVars, closeVars, elinsVars, frameVars, history, NewPcs
<1>1. CallTypes /\ CallTypes'
  <2>1. CallTypes
    BY PlacesTyped
  <2>2. "load" \in Places /\ "open" \in Places /\ "init" \in Places
    BY DEF Places
  <2>3. CASE NewToomoss(c)
    BY <2>1, <2>2, <2>3, EnterTypes DEF NewToomoss
  <2>4. CASE ensureLinReady(c)
    BY <2>1, <2>2, <2>4, GotoTypes, ReturnTypes DEF ensureLinReady
  <2>5. CASE UsbOpen(c)
    BY <2>1, <2>2, <2>5, GotoTypes, ReturnTypes DEF UsbOpen
  <2>6. CASE LinExInit(c)
    BY <2>1, <2>6, ReturnTypes DEF LinExInit
  <2> QED BY <2>1, <2>3, <2>4, <2>5, <2>6
<1>2. CASE NewToomoss(c)
  BY <1>1, <1>2 DEF NewToomoss, Enter, TypeOK, CallTypes, Places
<1>3. CASE ensureLinReady(c) \/ UsbOpen(c)
  BY <1>1, <1>3 DEF ensureLinReady, UsbOpen, Continue, TypeOK, CallTypes, Places
<1>4. CASE LinExInit(c)
  <2>1. objects' \in 0 .. Objects
    BY <1>4 DEF LinExInit, Continue, OneMaker, TypeOK
  <2>2. rxQueue' \in [Channels -> Seq(Nat)]
    <3>1. rxQueue' \in {rxQueue, [k \in Channels |-> <<>>]} /\ <<>> \in Seq(Nat)
      BY <1>4 DEF LinExInit, usbClose
    <3> QED BY <3>1 DEF TypeOK
  <2>3. active' \in BOOLEAN /\ loaded' \in BOOLEAN /\ deviceOpen' \in BOOLEAN
    BY <1>4 DEF LinExInit, usbClose, TypeOK
  <2> QED BY <1>1, <1>4, <2>1, <2>2, <2>3 DEF LinExInit, Continue, TypeOK, CallTypes, Places
<1> QED BY <1>2, <1>3, <1>4

\* The calls under callMu and what they put into the event queue.
LEMMA CallStepTypes ==
    ASSUME Objects \in Nat, TypeOK, Located, NEW c \in Callers,
           LinMasterSync(c) \/ SyncReturns(c) \/ Enqueue(c)
    PROVE  TypeOK'
<1> USE DEF libraryVars, closeVars, elinsVars, frameVars, history
<1>1. CallTypes
  BY PlacesTyped
<1>2. CASE LinMasterSync(c)
  <2>1. CallTypes' /\ calls' \in Nat /\ UNCHANGED <<platform, objects>>
    BY <1>1, <1>2, EnterTypes DEF LinMasterSync, TypeOK, Places, CallPcs
  <2> QED BY <1>2, <2>1 DEF LinMasterSync, TypeOK, CallTypes, Places
<1>3. CASE SyncReturns(c)
  <2>1. CallTypes'
    <3>1. <<0>> \in Seq(Nat)
      OBVIOUS
    <3> QED BY <1>1, <1>3, <3>1, ReturnTypes DEF SyncReturns, CallTypes, Places
  <2> QED BY <1>3, <2>1 DEF SyncReturns, Continue, TypeOK, CallTypes, Places
<1>4. CASE Enqueue(c)
  <2>1. CallTypes'
    BY <1>1, <1>4, ReturnTypes DEF Enqueue
  <2>2. object[c] \in Object /\ ch[c] \in Channels
    <3>1. pc[c] = "enqueue"
      BY <1>4 DEF Enqueue, Continue
    <3> QED BY <3>1, MadeObject DEF Located, Elsewhere, NewPcs
  <2>3. events' \in [Object -> [Channels -> Seq(Nat)]]
    BY <1>4, <2>2, EnqueuedTypes DEF Enqueue
  <2> QED BY <1>4, <2>1, <2>3 DEF Enqueue, Continue, TypeOK, CallTypes, Places
<1> QED BY <1>2, <1>3, <1>4

LEMMA ELINSTypes ==
    ASSUME Objects \in Nat, TypeOK, Located, NEW c \in Callers,
           ConfigureELINS(c) \/ ELINSInit(c)
    PROVE  TypeOK'
<1> USE DEF libraryVars, closeVars, elinsVars, frameVars, history
<1>1. CallTypes /\ "elins" \in Places
  BY PlacesTyped DEF Places, CallPcs
<1>2. CASE ConfigureELINS(c)
  <2>1. CallTypes' /\ calls' \in Nat /\ UNCHANGED <<platform, objects>>
    <3>1. PICK i \in 1 .. objects : Enter(c, i, "none", "elins")
      BY <1>2 DEF ConfigureELINS
    <3>2. i \in 0 .. Objects
      BY DEF TypeOK
    <3> QED BY <1>1, <3>1, <3>2, EnterTypes
  <2> QED BY <1>2, <2>1 DEF ConfigureELINS, TypeOK, CallTypes, Places
<1>3. CASE ELINSInit(c)
  <2>1. CallTypes'
    BY <1>1, <1>3, ReturnTypes, GotoTypes DEF ELINSInit
  <2>2. /\ elinsOn' \subseteq Channels /\ started' \subseteq Channels
        /\ toStart' \subseteq Channels
    BY <1>3 DEF ELINSInit, rollback, TypeOK
  <2>3. elins' \in [Object -> SUBSET Channels]
    <3>1. \/ UNCHANGED elins
          \/ elins' = [elins EXCEPT ![object[c]] = @ \cup started']
      BY <1>3 DEF ELINSInit
    <3>2. object[c] \in Object
      BY <1>3, MadeObject DEF ELINSInit, Continue, Elsewhere, NewPcs
    <3>3. elins[object[c]] \cup started' \in SUBSET Channels
      BY <2>2, <3>2 DEF TypeOK
    <3> QED BY <3>1, <3>3 DEF TypeOK
  <2> QED BY <1>3, <2>1, <2>2, <2>3 DEF ELINSInit, Continue, TypeOK, CallTypes, Places
<1> QED BY <1>2, <1>3

LEMMA ReadTypes ==
    ASSUME Objects \in Nat, TypeOK, Located, NEW c \in Callers,
           \/ ReadEvent(c) \/ ReadQueued(c) \/ ReadUnqueued(c)
           \/ ensureToomossLoaded(c) \/ LinExSlaveGetData(c)
    PROVE  TypeOK'
<1> USE DEF libraryVars, closeVars, elinsVars, frameVars, history
<1>1. CallTypes /\ ReadPcs \subseteq Places
  BY PlacesTyped DEF Places
<1>2. CASE ReadEvent(c)
  <2>1. CallTypes' /\ calls' \in Nat /\ UNCHANGED <<platform, objects>>
    BY <1>1, <1>2, EnterTypes DEF ReadEvent, TypeOK, ReadPcs
  <2> QED BY <1>2, <2>1 DEF ReadEvent, TypeOK, CallTypes, Places
<1>3. CASE ReadQueued(c)
  <2> DEFINE i == object[c]  k == ch[c]
  <2>1. i \in Object /\ k \in Channels
    <3>1. pc[c] = "poll"
      BY <1>3 DEF ReadQueued, Continue
    <3> QED BY <3>1, MadeObject DEF Located, Elsewhere, NewPcs, ReadPcs
  <2>2. events[i] \in [Channels -> Seq(Nat)] /\ events[i][k] \in Seq(Nat)
    BY <2>1 DEF TypeOK
  <2>3. Head(events[i][k]) \in Nat /\ Tail(events[i][k]) \in Seq(Nat)
    BY <1>3, <2>2 DEF ReadQueued
  <2>4. [events[i] EXCEPT ![k] = Tail(events[i][k])] \in [Channels -> Seq(Nat)]
    BY <2>2, <2>3
  <2>5. events' \in [Object -> [Channels -> Seq(Nat)]]
    BY <1>3, <2>4 DEF ReadQueued, TypeOK
  <2>6. /\ newest' \in [Object -> [Channels -> Nat]] /\ late' \subseteq Nat
        /\ UNCHANGED <<tried, overlapped>>
    BY <1>3, <2>1, <2>3, DeliverTypes DEF ReadQueued
  <2>7. CallTypes'
    BY <1>1, <1>3, ReturnTypes DEF ReadQueued, Deliver
  <2> QED BY <1>3, <2>5, <2>6, <2>7 DEF ReadQueued, Continue, TypeOK, CallTypes, Places
<1>4. CASE ReadUnqueued(c) \/ LinExSlaveGetData(c)
  <2>1. CallTypes'
    BY <1>1, <1>4, GotoTypes, ReturnTypes DEF ReadUnqueued, LinExSlaveGetData, ReadPcs
  <2> QED BY <1>4, <2>1
          DEF ReadUnqueued, LinExSlaveGetData, Continue, TypeOK, CallTypes, Places
<1>5. CASE ensureToomossLoaded(c)
  <2>1. CallTypes'
    BY <1>1, <1>5, GotoTypes, ReturnTypes DEF ensureToomossLoaded, ReadPcs
  <2> QED BY <1>5, <2>1 DEF ensureToomossLoaded, Continue, TypeOK, CallTypes, Places
<1> QED BY <1>2, <1>3, <1>4, <1>5

\* A batch of frames, of which the event queue gets all but the first.
LEMMA FetchTypes ==
    ASSUME Objects \in Nat, TypeOK, Located, NEW c \in Callers,
           Fetched(c) \/ ReadBatch(c)
    PROVE  TypeOK'
<1> USE DEF libraryVars, closeVars, elinsVars, frameVars, history
<1>1. CallTypes /\ ReadPcs \subseteq Places
  BY PlacesTyped DEF Places
<1>2. object[c] \in Object /\ ch[c] \in Channels /\ held[c] \in Seq(Nat)
  <2>1. pc[c] \in {"fetch", "batch"}
    BY DEF Fetched, ReadBatch, Continue
  <2> QED BY <2>1, MadeObject DEF Located, Elsewhere, NewPcs, ReadPcs, TypeOK
<1>3. CASE Fetched(c)
  <2>1. rxQueue[ch[c]] \in Seq(Nat) /\ <<0, 0>> \in Seq(Nat) /\ <<>> \in Seq(Nat)
    BY <1>2 DEF TypeOK
  <2>2. rxQueue' \in [Channels -> Seq(Nat)]
    BY <1>3, <2>1 DEF Fetched, TypeOK
  <2>3. /\ pc' \in [Callers -> Places] /\ object' \in [Callers -> 0 .. Objects]
        /\ ch' \in [Callers -> Channels \cup {"none"}]
        /\ held' \in [Callers -> Seq(Nat)]
    <3>1. CASE Goto(c, "poll") \/ Return(c)
      BY <1>1, <3>1, GotoTypes, ReturnTypes DEF ReadPcs, CallTypes
    <3>2. CASE \E q \in Seq(Nat) : /\ held' = [held EXCEPT ![c] = q]
                                  /\ pc' = [pc EXCEPT ![c] = "batch"]
                                  /\ UNCHANGED <<object, ch>>
      BY <1>1, <3>2 DEF ReadPcs, CallTypes
    <3> QED BY <1>3, <2>1, <3>1, <3>2 DEF Fetched
  <2> QED BY <1>3, <2>2, <2>3 DEF Fetched, Continue, TypeOK, Places
<1>4. CASE ReadBatch(c) /\ Len(held[c]) > 1
  <2> DEFINE rest == RemoveAt(held[c], 2)
  <2>0. /\ events' = Enqueued(object[c], ch[c], held[c][2])
        /\ held' = [held EXCEPT ![c] = rest]
        /\ UNCHANGED <<pc, object, ch, history>>
    BY <1>4 DEF ReadBatch
  <2>1. held[c][2] \in Nat /\ rest \in Seq(Nat)
    BY <1>2, <1>4, RemoveSecond
  <2> HIDE DEF rest
  <2>2. events' \in [Object -> [Channels -> Seq(Nat)]]
    BY <1>2, <2>0, <2>1, EnqueuedTypes
  <2>3. held' \in [Callers -> Seq(Nat)] /\ UNCHANGED <<pc, object, ch, history>>
    BY <1>1, <2>0, <2>1 DEF CallTypes
  <2> QED BY <1>4, <2>2, <2>3 DEF ReadBatch, Continue, TypeOK
<1>5. CASE ReadBatch(c) /\ Len(held[c]) = 1
  <2>1. held[c][1] \in Nat /\ Deliver(c, held[c][1]) /\ UNCHANGED events
    BY <1>2, <1>5 DEF ReadBatch
  <2>2. CallTypes'
    BY <1>1, <2>1, ReturnTypes DEF Deliver
  <2>3. /\ newest' \in [Object -> [Channels -> Nat]] /\ late' \subseteq Nat
        /\ UNCHANGED <<tried, overlapped>>
    BY <1>2, <2>1, DeliverTypes
  <2> QED BY <1>5, <2>1, <2>2, <2>3 DEF ReadBatch, Continue, TypeOK, CallTypes, Places
<1> QED BY <1>3, <1>4, <1>5 DEF ReadBatch

LEMMA CloseTypes ==
    ASSUME Objects \in Nat, TypeOK, Located, NEW c \in Callers,
           \/ Close(c) \/ ELINSStop(c) \/ CloseDevice(c)
           \/ CloseInstance(c) \/ CloseJoins(c)
    PROVE  TypeOK'
<1> USE DEF libraryVars, closeVars, elinsVars, frameVars, history
<1>1. CallTypes /\ {"closeLock", "join", "usbClose", "inactive"} \subseteq Places
  BY PlacesTyped DEF Places, CallPcs
<1>2. CASE Close(c)
  <2>1. PICK i \in 1 .. objects :
          /\ Enter(c, i, "none", "closeLock") \/ Enter(c, i, "none", "join")
          /\ once' \in {once, [once EXCEPT ![i] = "running"]}
          /\ closed' \in {closed, closed \cup {i}}
          /\ toStop' \in {toStop, elins[i]}
          /\ overlapped' \in BOOLEAN
    BY <1>2 DEF Close, TypeOK
  <2>2. i \in Object
    BY DEF TypeOK, Object
  <2>3. CallTypes' /\ calls' \in Nat /\ UNCHANGED <<platform, objects>>
    BY <1>1, <2>1, <2>2, EnterTypes DEF Object
  <2>4. /\ once' \in [Object -> {"new", "running", "done"}]
        /\ closed' \subseteq Object /\ toStop' \subseteq Channels
    BY <2>1, <2>2 DEF TypeOK
  <2> QED BY <1>2, <2>1, <2>3, <2>4 DEF Close, TypeOK, CallTypes, Places
<1>3. CASE ELINSStop(c) \/ CloseJoins(c)
  <2>1. CallTypes'
    BY <1>1, <1>3, GotoTypes, ReturnTypes DEF ELINSStop, CloseJoins
  <2> QED BY <1>3, <2>1 DEF ELINSStop, CloseJoins, Continue, TypeOK, CallTypes, Places
<1>4. CASE CloseDevice(c)
  <2>1. CallTypes'
    BY <1>1, <1>4, GotoTypes DEF CloseDevice
  <2>2. object[c] \in Object
    BY <1>4, MadeObject DEF CloseDevice, Continue, Elsewhere, NewPcs
  <2>3. /\ loaded' \in BOOLEAN /\ deviceOpen' \in BOOLEAN
        /\ rxQueue' \in [Channels -> Seq(Nat)] /\ closeErr' \subseteq Object
    <3>1. PICK ok \in BOOLEAN :
            /\ usbClose(ok)
            /\ closeErr' = IF ok THEN closeErr ELSE closeErr \cup {object[c]}
      BY <1>4 DEF CloseDevice
    <3>2. rxQueue' \in {rxQueue, [k \in Channels |-> <<>>]} /\ <<>> \in Seq(Nat)
      BY <3>1 DEF usbClose
    <3>3. deviceOpen' \in {deviceOpen, FALSE} /\ loaded' \in BOOLEAN
      BY <3>1 DEF usbClose
    <3> QED BY <2>2, <3>1, <3>2, <3>3 DEF TypeOK
  <2> QED BY <1>4, <2>1, <2>3 DEF CloseDevice, Continue, TypeOK, CallTypes, Places
<1>5. CASE CloseInstance(c)
  <2>1. CallTypes'
    BY <1>1, <1>5, ReturnTypes DEF CloseInstance
  <2>2. once' \in [Object -> {"new", "running", "done"}]
    BY <1>5 DEF CloseInstance, TypeOK
  <2> QED BY <1>5, <2>1, <2>2 DEF CloseInstance, Continue, TypeOK, CallTypes, Places
<1> QED BY <1>2, <1>3, <1>4, <1>5

LEMMA ArriveTypes == ASSUME TypeOK, Arrive PROVE TypeOK'
<1>1. PICK k \in Channels : rxQueue' = [rxQueue EXCEPT ![k] = Append(@, arrived')]
  BY DEF Arrive
<1>2. rxQueue[k] \in Seq(Nat) /\ arrived' \in Nat
  BY DEF Arrive, TypeOK
<1>3. Append(rxQueue[k], arrived') \in Seq(Nat)
  BY <1>2
<1>4. rxQueue' \in [Channels -> Seq(Nat)]
  BY <1>1, <1>3 DEF TypeOK
<1> QED BY <1>2, <1>4
        DEF Arrive, TypeOK, callVars, libraryVars, closeVars, elinsVars, history

-----------------------------------------------------------------------------
(***************************************************************************)
(* Steps.  Most leave the object and the adapter as they are and move one  *)
(* goroutine out of a mutex or between points where it holds none.         *)
(***************************************************************************)
Loose == {"idle", "enqueue", "poll", "ensure", "get", "batch", "join"}

\* Goroutine c moves to at, with object i and channel k.
Moves(c, at, i, k) ==
    /\ pc' = [pc EXCEPT ![c] = at]
    /\ object' = [object EXCEPT ![c] = i]
    /\ ch' = [ch EXCEPT ![c] = k]

LEMMA GotoMoves ==
    ASSUME CallTypes, NEW c \in Callers, NEW at, Goto(c, at)
    PROVE  Moves(c, at, object[c], ch[c])
<1>1. object = [object EXCEPT ![c] = object[c]] /\ ch = [ch EXCEPT ![c] = ch[c]]
  BY DEF CallTypes
<1> QED BY <1>1 DEF Goto, Moves

LEMMA ReturnMoves ==
    ASSUME NEW c \in Callers, Return(c)
    PROVE  Moves(c, "idle", 0, "none")
  BY DEF Return, Moves

LEMMA LooseStep ==
    ASSUME Objects \in Nat, TypeOK, Inv,
           NEW c \in Callers, NEW at \in Loose, NEW i, NEW k,
           Moves(c, at, i, k),
           at # "idle" => i \in 1 .. objects,
           at \in ReadPcs \cup {"enqueue"} => k \in Channels,
           pc[c] # "inactive",
           UNCHANGED <<objects, active, deviceOpen, closed, once>>,
           loaded => loaded'
    PROVE  Inv'
<1> USE DEF Loose, NewPcs, CallPcs, ReadPcs, ClosePcs, Elsewhere
<1>1. /\ pc'[c] = at /\ object'[c] = i /\ ch'[c] = k
      /\ \A d \in Callers \ {c} :
            pc'[d] = pc[d] /\ object'[d] = object[d] /\ ch'[d] = ch[d]
  BY DEF Moves, TypeOK
<1>2. Located' /\ OneMaker'
  BY <1>1 DEF Inv, Located, OneMaker
<1>3. OneCalls' /\ OneCloses'
  BY <1>1 DEF Inv, OneCalls, OneCloses
<1>4. Generations'
  BY DEF Inv, Generations
<1>5. InUse' /\ Up'
  BY <1>1 DEF Inv, InUse, Up
<1> QED BY <1>2, <1>3, <1>4, <1>5 DEF Inv

LEMMA ReturnStep ==
    ASSUME Objects \in Nat, TypeOK, Inv, NEW c \in Callers, Return(c),
           pc[c] # "inactive",
           UNCHANGED <<objects, active, deviceOpen, closed, once>>,
           loaded => loaded'
    PROVE  Inv'
<1>1. Moves(c, "idle", 0, "none") /\ "idle" \in Loose /\ "idle" \notin ReadPcs \cup {"enqueue"}
  BY ReturnMoves DEF Loose, ReadPcs
<1> QED BY <1>1, LooseStep

\* Whoever gets callMu of an object that is not closed has the active one.
LEMMA EnterStep ==
    ASSUME Objects \in Nat, TypeOK, Inv,
           NEW c \in Callers, NEW at \in {"sync", "fetch", "elins"},
           NEW i \in 1 .. objects, NEW k,
           Moves(c, at, i, k),
           at # "elins" => k \in Channels,
           pc[c] \in Loose,
           CallMuFree(i), Valid(i),
           UNCHANGED <<objects, active, loaded, deviceOpen, closed, once>>
    PROVE  Inv'
<1> USE DEF Loose, NewPcs, CallPcs, ReadPcs, ClosePcs, Elsewhere
<1>1. /\ pc'[c] = at /\ object'[c] = i /\ ch'[c] = k
      /\ \A d \in Callers \ {c} :
            pc'[d] = pc[d] /\ object'[d] = object[d] /\ ch'[d] = ch[d]
  BY DEF Moves, TypeOK
<1>2. i = objects /\ active /\ once[i] = "new"
  <2>1. i \in Object /\ objects \in Nat
    BY DEF TypeOK, Object
  <2>2. once[i] = "new" /\ ~(i < objects)
    BY <2>1 DEF Inv, Generations, Valid
  <2>3. i = objects /\ objects > 0
    BY <2>1, <2>2
  <2> QED BY <2>2, <2>3 DEF Inv, Generations
<1>3. \A d \in Callers : pc[d] # "inactive"
  <2>1. SUFFICES ASSUME NEW d \in Callers, pc[d] = "inactive" PROVE FALSE
    OBVIOUS
  <2>2. once[object[d]] = "running" /\ object[d] \in Object /\ object[d] \in 1 .. objects
    BY <2>1, MadeObject DEF Inv, OneCloses
  <2>3. ~(object[d] < objects) /\ objects \in Nat
    BY <2>2 DEF Inv, Generations, TypeOK
  <2>4. object[d] = objects
    BY <2>2, <2>3
  <2> QED BY <1>2, <2>2, <2>4
<1>4. Located' /\ OneMaker'
  BY <1>1 DEF Inv, Located, OneMaker
<1>5. OneCalls' /\ OneCloses'
  BY <1>1 DEF Inv, OneCalls, OneCloses, CallMuFree
<1>6. Generations'
  BY DEF Inv, Generations
<1>7. InUse' /\ Up'
  BY <1>1, <1>2, <1>3 DEF Inv, InUse, Up
<1> QED BY <1>4, <1>5, <1>6, <1>7 DEF Inv

\* NewToomoss.
LEMMA MakeStep ==
    ASSUME Objects \in Nat, TypeOK, Inv, NEW c \in Callers,
           NewToomoss(c) \/ ensureLinReady(c) \/ UsbOpen(c) \/ LinExInit(c)
    PROVE  Inv'
<1> USE DEF NewPcs, CallPcs, ReadPcs, ClosePcs, Elsewhere
<1>0. UNCHANGED <<closed, once>> /\ objects \in Nat
  BY DEF NewToomoss, ensureLinReady, UsbOpen, LinExInit, closeVars, TypeOK
<1>1. PICK at \in {"load", "open", "init", "idle"} :
        /\ \E i, k : Moves(c, at, i, k)
        /\ at # "idle" => UNCHANGED <<objects, active>>
        /\ at = "idle" => \/ UNCHANGED <<objects, active>>
                         \/ /\ pc[c] = "init" /\ active' /\ objects' = objects + 1
                            /\ UNCHANGED <<loaded, deviceOpen>>
        /\ at \in {"open", "init"} => loaded'
        /\ at = "init" => deviceOpen'
  <2> USE PlacesTyped DEF libraryVars
  <2>1. CASE NewToomoss(c)
    BY <2>1 DEF NewToomoss, Enter, Moves
  <2>2. CASE ensureLinReady(c)
    <3>1. CASE Goto(c, "open") /\ loaded'
      BY <2>2, <3>1, GotoMoves DEF ensureLinReady
    <3> QED BY <2>2, <3>1, ReturnMoves DEF ensureLinReady
  <2>3. CASE UsbOpen(c)
    <3>1. CASE Goto(c, "init") /\ deviceOpen'
      BY <2>3, <3>1, GotoMoves DEF UsbOpen, Continue, Inv, Up
    <3> QED BY <2>3, <3>1, ReturnMoves DEF UsbOpen
  <2>4. CASE LinExInit(c)
    BY <2>4, ReturnMoves DEF LinExInit, Continue
  <2> QED BY <2>1, <2>2, <2>3, <2>4
<1>2. /\ pc'[c] = at
      /\ \A d \in Callers \ {c} :
            pc'[d] = pc[d] /\ object'[d] = object[d] /\ ch'[d] = ch[d]
  BY <1>1 DEF Moves, TypeOK
<1>3. ~active /\ objects < Objects /\ \A d \in Callers : d # c => pc[d] \notin NewPcs
  <2>1. CASE NewToomoss(c)
    BY <2>1 DEF NewToomoss, Enter, InstanceMuFree, TypeOK
  <2>2. CASE pc[c] \in NewPcs
    BY <2>2 DEF Inv, OneMaker
  <2> QED BY <2>1, <2>2 DEF ensureLinReady, UsbOpen, LinExInit, Continue
<1>4. \A d \in Callers : pc[d] \notin CallPcs
  BY <1>3 DEF Inv, InUse
<1>5. CASE at # "idle"
  <2>1. UNCHANGED <<objects, active>>
    BY <1>1, <1>5
  <2>2. Located' /\ OneMaker'
    BY <1>2, <1>3, <1>5, <2>1 DEF Inv, Located, OneMaker
  <2>3. OneCalls' /\ OneCloses' /\ InUse'
    BY <1>0, <1>2, <1>4, <1>5, <2>1 DEF Inv, OneCalls, OneCloses, InUse
  <2>4. Generations'
    BY <1>0, <2>1 DEF Inv, Generations
  <2>5. /\ at \in {"open", "init"} => loaded'
        /\ at = "init" => deviceOpen'
    BY <1>1
  <2>6. Up'
    BY <1>2, <1>3, <2>1, <2>5 DEF Inv, Up
  <2> QED BY <2>2, <2>3, <2>4, <2>6 DEF Inv
<1>6. CASE at = "idle" /\ UNCHANGED <<objects, active>>
  <2>1. Located' /\ OneMaker'
    BY <1>2, <1>3, <1>6 DEF Inv, Located, OneMaker
  <2>2. OneCalls' /\ OneCloses' /\ InUse'
    BY <1>0, <1>2, <1>4, <1>6 DEF Inv, OneCalls, OneCloses, InUse
  <2>3. Generations'
    BY <1>0, <1>6 DEF Inv, Generations
  <2>4. Up'
    BY <1>2, <1>3, <1>6 DEF Inv, Up
  <2> QED BY <2>1, <2>2, <2>3, <2>4 DEF Inv
<1>7. CASE /\ at = "idle" /\ pc[c] = "init" /\ active' /\ objects' = objects + 1
           /\ UNCHANGED <<loaded, deviceOpen>>
  <2>1. pc[c] = "init" /\ loaded' /\ deviceOpen'
    BY <1>7 DEF Inv, Up
  <2>2. Located'
    BY <1>0, <1>2, <1>7 DEF Inv, Located
  <2>3. OneMaker'
    BY <1>2, <1>3, <1>7 DEF OneMaker
  <2>4. OneCalls' /\ OneCloses' /\ InUse'
    BY <1>0, <1>2, <1>4, <1>7 DEF Inv, OneCalls, OneCloses, InUse
  <2>5. Generations'
    <3>1. \A i \in Object : i \in Nat /\ (i > objects => once[i] = "new")
      BY DEF Inv, Generations, Object
    <3>2. objects + 1 \in Object /\ once[objects + 1] = "new"
      BY <1>0, <1>3, <3>1 DEF Object
    <3>3. objects > 0 => once[objects] = "done"
      BY <1>3 DEF Inv, Generations
    <3>4. \A i \in Object : i < objects' => once[i] = "done"
      <4>1. ASSUME NEW i \in Object, i < objects + 1 PROVE once[i] = "done"
        <5>1. i < objects \/ (i = objects /\ objects > 0)
          BY <1>0, <4>1 DEF Object
        <5> QED BY <3>3, <5>1 DEF Inv, Generations
      <4> QED BY <1>7, <4>1
    <3>5. \A i \in Object : i > objects' => i > objects
      BY <1>0, <1>7, <3>1
    <3> QED BY <1>0, <1>7, <3>1, <3>2, <3>4, <3>5 DEF Inv, Generations
  <2>6. Up'
    BY <1>2, <1>3, <1>7, <2>1 DEF Up
  <2> QED BY <2>2, <2>3, <2>4, <2>5, <2>6 DEF Inv
<1> QED BY <1>1, <1>5, <1>6, <1>7

\* The calls under callMu, with what a call queues after it.
LEMMA CallStep ==
    ASSUME Objects \in Nat, TypeOK, Inv, NEW c \in Callers,
           \/ LinMasterSync(c) \/ SyncReturns(c) \/ Enqueue(c)
           \/ ConfigureELINS(c) \/ ELINSInit(c)
    PROVE  Inv'
<1> USE PlacesTyped DEF libraryVars, closeVars, Loose
<1>1. CASE LinMasterSync(c) \/ ConfigureELINS(c)
  <2>1. ASSUME NEW i, NEW k, NEW at, Enter(c, i, k, at) PROVE Moves(c, at, i, k)
    BY <2>1 DEF Enter, Moves
  <2>2. /\ pc[c] = "idle"
        /\ UNCHANGED <<objects, active, loaded, deviceOpen, closed, once>>
    BY <1>1 DEF LinMasterSync, ConfigureELINS, Enter
  <2>3. CASE LinMasterSync(c)
    <3>1. PICK i \in 1 .. objects, k \in Channels :
            CallMuFree(i) /\ Valid(i) /\ Enter(c, i, k, "sync")
      BY <2>3 DEF LinMasterSync
    <3> QED BY <2>1, <2>2, <3>1, EnterStep
  <2>4. CASE ConfigureELINS(c)
    <3>1. PICK i \in 1 .. objects :
            CallMuFree(i) /\ Valid(i) /\ Enter(c, i, "none", "elins")
      BY <2>4 DEF ConfigureELINS
    <3> QED BY <2>1, <2>2, <3>1, EnterStep
  <2> QED BY <1>1, <2>3, <2>4
<1>2. CASE SyncReturns(c) \/ Enqueue(c)
  <2>1. /\ pc[c] \in {"sync", "enqueue"}
        /\ UNCHANGED <<objects, active, loaded, deviceOpen, closed, once>>
    BY <1>2 DEF SyncReturns, Enqueue, Continue
  <2>2. \/ Moves(c, "enqueue", object[c], ch[c]) /\ pc[c] = "sync"
        \/ Return(c)
    <3>1. object = [object EXCEPT ![c] = object[c]] /\ ch = [ch EXCEPT ![c] = ch[c]]
      BY DEF CallTypes
    <3> QED BY <1>2, <3>1 DEF SyncReturns, Enqueue, Continue, Moves
  <2>3. CASE Return(c)
    BY <2>1, <2>3, ReturnStep
  <2>4. CASE Moves(c, "enqueue", object[c], ch[c]) /\ pc[c] = "sync"
    <3>1. object[c] \in 1 .. objects /\ ch[c] \in Channels
      BY <2>4, MadeObject DEF Inv, Located, Elsewhere, NewPcs, ReadPcs
    <3> QED BY <2>1, <2>4, <3>1, LooseStep
  <2> QED BY <2>2, <2>3, <2>4
<1>3. CASE ELINSInit(c)
  <2>1. /\ pc[c] = "elins"
        /\ UNCHANGED <<objects, active, loaded, deviceOpen, closed, once>>
    BY <1>3 DEF ELINSInit, Continue
  <2>2. Return(c) \/ Goto(c, "elins")
    BY <1>3 DEF ELINSInit
  <2>3. CASE Return(c)
    BY <2>1, <2>3, ReturnStep
  <2>4. CASE Goto(c, "elins")
    <3>1. UNCHANGED <<pc, object, ch>>
      BY <2>1, <2>4 DEF Goto, CallTypes
    <3> QED BY <2>1, <3>1 DEF Inv, Located, OneMaker, OneCalls, OneCloses, Generations, InUse, Up
  <2> QED BY <2>2, <2>3, <2>4
<1> QED BY <1>1, <1>2, <1>3

\* ReadEvent.
LEMMA ReadStep ==
    ASSUME Objects \in Nat, TypeOK, Inv, NEW c \in Callers,
           \/ ReadEvent(c) \/ ReadQueued(c) \/ ReadUnqueued(c) \/ ensureToomossLoaded(c)
           \/ LinExSlaveGetData(c) \/ Fetched(c) \/ ReadBatch(c)
    PROVE  Inv'
<1> USE PlacesTyped DEF libraryVars, closeVars, Loose
<1>1. /\ UNCHANGED <<objects, active, deviceOpen, closed, once>>
      /\ loaded => loaded'
  BY DEF ReadEvent, ReadQueued, ReadUnqueued, ensureToomossLoaded, LinExSlaveGetData,
         Fetched, ReadBatch, Enter
<1>2. CASE ReadEvent(c)
  <2>1. PICK i \in 1 .. objects, k \in Channels : Enter(c, i, k, "poll")
    BY <1>2 DEF ReadEvent
  <2> QED BY <1>1, <2>1, LooseStep DEF Enter, Moves
<1>3. CASE ~ReadEvent(c)
  <2>1. /\ pc[c] \in ReadPcs
        /\ object[c] \in 1 .. objects /\ ch[c] \in Channels
    <3>1. pc[c] \in ReadPcs
      BY <1>3 DEF ReadQueued, ReadUnqueued, ensureToomossLoaded, LinExSlaveGetData,
            Fetched, ReadBatch, Continue, ReadPcs
    <3> QED BY <3>1, MadeObject DEF Inv, Located, Elsewhere, NewPcs, ReadPcs
  <2>2. pc[c] # "inactive"
    BY <2>1 DEF ReadPcs
  <2>3. CASE Return(c)
    BY <1>1, <2>2, <2>3, ReturnStep
  <2>4. ASSUME NEW at \in {"poll", "get", "ensure"}, Goto(c, at) PROVE Inv'
    BY <1>1, <2>1, <2>2, <2>4, GotoMoves, LooseStep
  <2>5. CASE Goto(c, "fetch") /\ LinExSlaveGetData(c)
    <3>1. CallMuFree(object[c]) /\ Valid(object[c]) /\ pc[c] = "get" /\ UNCHANGED loaded
      BY <2>5 DEF LinExSlaveGetData, Continue, Goto, Return, CallTypes
    <3>2. Moves(c, "fetch", object[c], ch[c])
      BY <2>5, GotoMoves
    <3> QED BY <1>1, <2>1, <3>1, <3>2, EnterStep DEF CallMuFree, Valid
  <2>6. CASE pc' = [pc EXCEPT ![c] = "batch"] /\ UNCHANGED <<object, ch>>
    <3>1. object = [object EXCEPT ![c] = object[c]] /\ ch = [ch EXCEPT ![c] = ch[c]]
      BY DEF CallTypes
    <3>2. Moves(c, "batch", object[c], ch[c])
      BY <2>6, <3>1 DEF Moves
    <3> QED BY <1>1, <2>1, <2>2, <3>2, LooseStep
  <2>7. CASE UNCHANGED <<pc, object, ch>> /\ ReadBatch(c)
    BY <1>1, <2>7 DEF ReadBatch,
       Inv, Located, OneMaker, OneCalls, OneCloses, Generations, InUse, Up
  <2>8. \/ Return(c)
        \/ \E at \in {"poll", "get", "ensure"} : Goto(c, at)
        \/ Goto(c, "fetch") /\ LinExSlaveGetData(c)
        \/ pc' = [pc EXCEPT ![c] = "batch"] /\ UNCHANGED <<object, ch>>
        \/ UNCHANGED <<pc, object, ch>> /\ ReadBatch(c)
    BY <1>3 DEF ReadQueued, ReadUnqueued, ensureToomossLoaded, LinExSlaveGetData,
          Fetched, ReadBatch, Deliver
  <2> QED BY <2>3, <2>4, <2>5, <2>6, <2>7, <2>8
<1> QED BY <1>2, <1>3

\* The first Close of an object.
LEMMA CloseStep ==
    ASSUME Objects \in Nat, TypeOK, Inv, NEW c \in Callers, NEW i \in 1 .. objects,
           once[i] = "new",
           once' = [once EXCEPT ![i] = "running"], closed' = closed \cup {i},
           Enter(c, i, "none", "closeLock"),
           UNCHANGED libraryVars
    PROVE  Inv'
<1> USE DEF NewPcs, CallPcs, ReadPcs, ClosePcs, Elsewhere
<1>1. /\ pc[c] = "idle" /\ pc'[c] = "closeLock" /\ object'[c] = i
      /\ \A d \in Callers \ {c} :
            pc'[d] = pc[d] /\ object'[d] = object[d] /\ ch'[d] = ch[d]
      /\ UNCHANGED <<objects, active, loaded, deviceOpen>>
  BY DEF Enter, TypeOK, libraryVars
<1>2. i \in Object /\ objects \in Nat
  BY DEF TypeOK, Object
<1>3. \A d \in Callers : pc[d] \in ClosePcs => object[d] # i
  BY DEF Inv, OneCloses
<1>4. Located' /\ OneMaker'
  BY <1>1 DEF Inv, Located, OneMaker
<1>5. OneCalls'
  BY <1>1 DEF Inv, OneCalls
<1>6. OneCloses'
  <2>1. \A d \in Callers : pc[d] \in ClosePcs => object[d] \in Object
    BY MadeObject DEF Inv
  <2>2. once'[i] = "running" /\ \A j \in Object \ {i} : once'[j] = once[j]
    BY <1>2 DEF TypeOK
  <2> QED BY <1>1, <1>3, <2>1, <2>2 DEF Inv, OneCloses
<1>7. Generations'
  <2>1. once'[i] = "running" /\ \A j \in Object \ {i} : once'[j] = once[j]
    BY <1>2 DEF TypeOK
  <2>2. i = objects
    BY <1>2 DEF Inv, Generations
  <2> QED BY <1>1, <1>2, <2>1, <2>2 DEF Inv, Generations
<1>8. InUse' /\ Up'
  BY <1>1 DEF Inv, InUse, Up
<1> QED BY <1>4, <1>5, <1>6, <1>7, <1>8 DEF Inv

LEMMA TearDownStep ==
    ASSUME Objects \in Nat, TypeOK, Inv, NEW c \in Callers,
           ELINSStop(c) \/ CloseDevice(c) \/ CloseInstance(c)
    PROVE  Inv'
<1> USE DEF NewPcs, CallPcs, ReadPcs, ClosePcs, Elsewhere
<1>1. /\ pc[c] \in ClosePcs /\ pc[c] \notin NewPcs
      /\ object[c] \in Object /\ objects \in Nat /\ object[c] \in 1 .. objects
  <2>1. pc[c] \in ClosePcs
    BY DEF ELINSStop, CloseDevice, CloseInstance, Continue
  <2> QED BY <2>1, MadeObject DEF Inv, TypeOK
<1>2. once[object[c]] = "running" /\ object[c] = objects /\ active
  <2>1. once[object[c]] = "running"
    BY <1>1 DEF Inv, OneCloses
  <2>2. ~(object[c] < objects)
    BY <1>1, <2>1 DEF Inv, Generations
  <2>3. object[c] = objects
    BY <1>1, <2>2
  <2> QED BY <1>1, <2>1, <2>3 DEF Inv, Generations
<1>3. \A d \in Callers : pc[d] \notin NewPcs
  BY <1>2 DEF Inv, OneMaker
<1>4. \A d \in Callers \ {c} : pc[d] \notin ClosePcs
  <2>1. ASSUME NEW d \in Callers \ {c}, pc[d] \in ClosePcs PROVE FALSE
    <3>1. /\ object[d] \in Object /\ object[d] \in 1 .. objects
          /\ once[object[d]] = "running"
      BY <2>1, MadeObject DEF Inv, OneCloses
    <3>2. ~(object[d] < objects)
      BY <3>1 DEF Inv, Generations
    <3>3. object[d] = objects
      BY <1>1, <3>1, <3>2
    <3> QED BY <1>1, <1>2, <2>1, <3>3 DEF Inv, OneCloses
  <2> QED BY <2>1
<1>5. CASE ELINSStop(c) \/ CloseDevice(c)
  <2>1. PICK at \in {"usbClose", "inactive"} :
          /\ Goto(c, at)
          /\ at = "usbClose" => UNCHANGED <<loaded, deviceOpen>> /\ pc[c] = "closeLock"
                                /\ CallMuFree(object[c])
          /\ at = "inactive" => pc[c] = "usbClose"
    BY <1>5 DEF ELINSStop, CloseDevice, Continue, libraryVars
  <2>2. /\ pc'[c] = at /\ UNCHANGED <<object, ch, objects, active, closed, once>>
        /\ \A d \in Callers \ {c} : pc'[d] = pc[d]
    BY <1>5, <2>1 DEF ELINSStop, CloseDevice, Goto, TypeOK, libraryVars, closeVars
  <2>3. \A d \in Callers \ {c} : pc[d] \notin CallPcs
    <3>1. CASE at = "inactive"
      BY <1>2, <2>1, <3>1 DEF Inv, InUse, OneCalls
    <3>2. CASE at = "usbClose"
      BY <1>2, <2>1, <3>2 DEF Inv, InUse, CallMuFree
    <3> QED BY <3>1, <3>2
  <2>4. Located' /\ OneMaker'
    BY <1>1, <1>3, <2>2 DEF Inv, Located, OneMaker
  <2>5. OneCalls' /\ OneCloses'
    BY <1>2, <1>4, <2>2, <2>3 DEF Inv, OneCalls, OneCloses
  <2>6. Generations'
    BY <2>2 DEF Inv, Generations
  <2>7. InUse'
    BY <1>2, <1>4, <2>2, <2>3 DEF InUse
  <2>8. Up'
    BY <1>2, <1>3, <1>4, <2>1, <2>2 DEF Inv, Up
  <2> QED BY <2>4, <2>5, <2>6, <2>7, <2>8 DEF Inv
<1>6. CASE CloseInstance(c)
  <2>1. /\ pc[c] = "inactive" /\ pc'[c] = "idle"
        /\ \A d \in Callers \ {c} :
              pc'[d] = pc[d] /\ object'[d] = object[d] /\ ch'[d] = ch[d]
        /\ ~active' /\ once' = [once EXCEPT ![object[c]] = "done"]
        /\ UNCHANGED <<objects, loaded, deviceOpen, closed>>
    BY <1>6 DEF CloseInstance, Continue, Return, TypeOK
  <2>2. \A d \in Callers : pc[d] \notin CallPcs
    BY <2>1 DEF Inv, InUse
  <2>3. Located' /\ OneMaker'
    BY <1>3, <2>1 DEF Inv, Located, OneMaker
  <2>4. OneCalls' /\ OneCloses' /\ InUse' /\ Up'
    BY <1>3, <1>4, <2>1, <2>2 DEF OneCalls, OneCloses, InUse, Up
  <2>5. Generations'
    <3>1. once'[objects] = "done" /\ \A j \in Object \ {objects} : once'[j] = once[j]
      BY <1>1, <1>2, <2>1 DEF TypeOK
    <3> QED BY <1>1, <1>2, <2>1, <3>1 DEF Inv, Generations
  <2> QED BY <2>3, <2>4, <2>5 DEF Inv
<1> QED BY <1>5, <1>6

\* A Close that is not the first waits and returns.
LEMMA JoinStep ==
    ASSUME Objects \in Nat, TypeOK, Inv, NEW c \in Callers, Close(c) \/ CloseJoins(c)
    PROVE  Inv'
<1> USE PlacesTyped DEF Loose
<1>1. CASE Close(c)
  <2>1. PICK i \in 1 .. objects :
          \/ /\ once[i] = "new"
             /\ once' = [once EXCEPT ![i] = "running"] /\ closed' = closed \cup {i}
             /\ Enter(c, i, "none", "closeLock")
          \/ Enter(c, i, "none", "join") /\ UNCHANGED <<once, closed>>
    BY <1>1 DEF Close
  <2>2. UNCHANGED libraryVars
    BY <1>1 DEF Close
  <2>3. CASE Enter(c, i, "none", "join") /\ UNCHANGED <<once, closed>>
    BY <2>2, <2>3, LooseStep DEF Enter, Moves, libraryVars, ReadPcs
  <2> QED BY <2>1, <2>2, <2>3, CloseStep
<1>2. CASE CloseJoins(c)
  BY <1>2, ReturnStep DEF CloseJoins, Continue, libraryVars, closeVars
<1> QED BY <1>1, <1>2

LEMMA InitInv == ASSUME Objects \in Nat, Init PROVE Inv
<1>1. /\ \A c \in Callers : pc[c] = "idle" 
      /\ objects = 0 /\ active = FALSE /\ closed = {} /\ \A i \in Object : once[i] = "new"
  BY DEF Init
<1>2. Located /\ OneMaker /\ OneCalls /\ OneCloses /\ InUse /\ Up
  BY <1>1 DEF Located, OneMaker, OneCalls, OneCloses, InUse, Up,
        Elsewhere, NewPcs, ReadPcs, CallPcs, ClosePcs
<1>3. Generations
  BY <1>1 DEF Generations, Object
<1> QED BY <1>2, <1>3 DEF Inv

LEMMA StepInv ==
    ASSUME Objects \in Nat, TypeOK, Inv, [Next]_vars
    PROVE  TypeOK' /\ Inv'
<1>0. Located /\ OneMaker
  BY DEF Inv
<1>1. ASSUME NEW c \in Callers,
             NewToomoss(c) \/ ensureLinReady(c) \/ UsbOpen(c) \/ LinExInit(c)
      PROVE  TypeOK' /\ Inv'
  BY <1>0, <1>1, MakeTypes, MakeStep
<1>2. ASSUME NEW c \in Callers, LinMasterSync(c) \/ SyncReturns(c) \/ Enqueue(c)
      PROVE  TypeOK' /\ Inv'
  BY <1>0, <1>2, CallStepTypes, CallStep
<1>3. ASSUME NEW c \in Callers, ConfigureELINS(c) \/ ELINSInit(c)
      PROVE  TypeOK' /\ Inv'
  BY <1>0, <1>3, ELINSTypes, CallStep
<1>4. ASSUME NEW c \in Callers,
             \/ ReadEvent(c) \/ ReadQueued(c) \/ ReadUnqueued(c)
             \/ ensureToomossLoaded(c) \/ LinExSlaveGetData(c)
      PROVE  TypeOK' /\ Inv'
  BY <1>0, <1>4, ReadTypes, ReadStep
<1>5. ASSUME NEW c \in Callers, Fetched(c) \/ ReadBatch(c)
      PROVE  TypeOK' /\ Inv'
  BY <1>0, <1>5, FetchTypes, ReadStep
<1>6. ASSUME NEW c \in Callers, Close(c) \/ CloseJoins(c)
      PROVE  TypeOK' /\ Inv'
  BY <1>0, <1>6, CloseTypes, JoinStep
<1>7. ASSUME NEW c \in Callers, ELINSStop(c) \/ CloseDevice(c) \/ CloseInstance(c)
      PROVE  TypeOK' /\ Inv'
  BY <1>0, <1>7, CloseTypes, TearDownStep
<1>8. CASE Arrive
  <2>1. UNCHANGED <<pc, object, ch, objects, active, loaded, deviceOpen, closed, once>>
    BY <1>8 DEF Arrive, callVars, libraryVars, closeVars
  <2> QED BY <1>8, <2>1, ArriveTypes
          DEF Inv, Located, OneMaker, OneCalls, OneCloses, Generations, InUse, Up
<1>9. CASE UNCHANGED vars
  BY <1>9 DEF TypeOK, Inv, Located, OneMaker, OneCalls, OneCloses, Generations, InUse, Up,
        vars, callVars, libraryVars, closeVars, elinsVars, frameVars, history
<1> QED BY <1>1, <1>2, <1>3, <1>4, <1>5, <1>6, <1>7, <1>8, <1>9 DEF Next

LEMMA AlwaysInv == ASSUME Objects \in Nat PROVE Spec => [](TypeOK /\ Inv)
<1>1. Init => TypeOK /\ Inv
  BY InitTypes, InitInv
<1>2. TypeOK /\ Inv /\ [Next]_vars => (TypeOK /\ Inv)'
  BY StepInv
<1> QED BY <1>1, <1>2, PTL DEF Spec

\* Type correctness, for any number of objects, goroutines and calls.
THEOREM TypeCorrect == ASSUME Objects \in Nat PROVE Spec => []TypeOK
  BY AlwaysInv, PTL

\* Who is in the library is there for the active object, which is the newest,
\* and finds library and adapter in place, whoever closes when (toomoss.go:
\* 1049-1077, toomoss_darwin.go:658-673).
THEOREM OwnDeviceSafe == ASSUME Objects \in Nat PROVE Spec => []OwnDevice
<1>1. TypeOK /\ Inv => OwnDevice
  BY DEF Inv, InUse, Up, OwnDevice
<1> QED BY <1>1, AlwaysInv, PTL

-----------------------------------------------------------------------------
(***************************************************************************)
(* What Close has released.                                                *)
(***************************************************************************)
Busy == {"elins", "closeLock", "usbClose", "inactive"}

\* The adapter has ELINS started where the active object says, but for what a
\* ConfigureELINS under way has added and a Close under way has taken away.
Elins ==
    /\ active /\ (\A c \in Callers : pc[c] \notin {"elins", "usbClose", "inactive"})
         => elinsOn = elins[objects]
    /\ ~active => elinsOn = {}
    /\ \A i \in Object : i > objects => elins[i] = {}
    /\ \A c \in Callers :
        /\ pc[c] = "elins" =>
             /\ elinsOn = elins[object[c]] \cup started
             /\ (toStart \cup started) \cap elins[object[c]] = {}
             /\ object[c] \notin closed
        /\ pc[c] = "closeLock" => toStop = elins[object[c]]
        /\ pc[c] \in {"usbClose", "inactive"} => elinsOn = {}

\* From the last library call of Close on the adapter is closed and the library
\* freed; who can load it again has noticed nothing of Close.
Freed ==
    /\ /\ objects > 0 /\ objects \notin closeErr /\ ~tried
       /\ once[objects] = "done" \/ \E c \in Callers : pc[c] = "inactive"
       => /\ ~deviceOpen
          /\ loaded => platform = "darwin" /\ overlapped
    /\ \A c \in Callers :
        /\ pc[c] \in NewPcs => tried
        /\ pc[c] = "ensure" =>
             /\ platform = "darwin"
             /\ object[c] \in closed => overlapped

\* An object that is being closed is the active one.
LEMMA ClosesNewest ==
    ASSUME Objects \in Nat, TypeOK, Inv, NEW c \in Callers, pc[c] \in ClosePcs
    PROVE  /\ object[c] = objects /\ active /\ objects \in Object
           /\ once[objects] = "running" /\ objects \in closed
           /\ \A d \in Callers : pc[d] \in ClosePcs => d = c
<1>1. ASSUME NEW d \in Callers, pc[d] \in ClosePcs
      PROVE  object[d] = objects /\ objects \in Object /\ once[objects] = "running"
  <2>1. object[d] \in Object /\ object[d] \in 1 .. objects /\ objects \in Nat
    <3>1. pc[d] \notin Elsewhere
      BY <1>1 DEF ClosePcs, Elsewhere, NewPcs
    <3>2. objects \in Nat
      BY DEF TypeOK
    <3> QED BY <3>1, <3>2, MadeObject DEF Inv
  <2>2. once[object[d]] = "running"
    BY <1>1 DEF Inv, OneCloses
  <2>3. ~(object[d] < objects)
    BY <2>1, <2>2 DEF Inv, Generations
  <2>4. object[d] = objects
    BY <2>1, <2>3
  <2> QED BY <2>1, <2>2, <2>4
<1>2. objects \in 1 .. objects
  BY <1>1, MadeObject DEF ClosePcs, Elsewhere, NewPcs, Inv
<1>3. \A d \in Callers : pc[d] \in ClosePcs => d = c
  BY <1>1 DEF Inv, OneCloses
<1> QED BY <1>1, <1>2, <1>3 DEF Inv, Generations, TypeOK

\* An object that is not closed is the active one.
LEMMA OpenNewest ==
    ASSUME Objects \in Nat, TypeOK, Inv, NEW i \in 1 .. objects, once[i] = "new"
    PROVE  i = objects /\ active /\ i \in Object /\ \A d \in Callers : pc[d] \notin ClosePcs
<1>1. i \in Object /\ objects \in Nat
  BY DEF TypeOK, Object
<1>2. ~(i < objects)
  BY <1>1 DEF Inv, Generations
<1>3. i = objects /\ objects > 0
  BY <1>1, <1>2
<1> QED BY <1>1, <1>3, ClosesNewest DEF Inv, Generations

LEMMA ElinsAside ==
    ASSUME Elins, NEW c \in Callers,
           pc[c] \notin Busy, pc'[c] \notin Busy,
           \A d \in Callers \ {c} : pc'[d] = pc[d] /\ object'[d] = object[d],
           UNCHANGED <<objects, active, closed, elins, elinsOn, toStart, started, toStop>>
    PROVE  Elins'
  BY DEF Elins, Busy

LEMMA FreedAside ==
    ASSUME Freed, NEW c \in Callers,
           pc'[c] \notin {"inactive", "ensure"} \cup NewPcs,
           \A d \in Callers \ {c} : pc'[d] = pc[d] /\ object'[d] = object[d],
           UNCHANGED <<objects, deviceOpen, loaded, once, closed, closeErr, tried,
                       overlapped, platform>>
    PROVE  Freed'
  BY DEF Freed

LEMMA MakeReleases ==
    ASSUME Objects \in Nat, TypeOK, Inv, Elins, Freed, NEW c \in Callers,
           NewToomoss(c) \/ ensureLinReady(c) \/ UsbOpen(c) \/ LinExInit(c)
    PROVE  Elins' /\ Freed'
<1> USE DEF NewPcs
<1>1. /\ pc[c] \in {"idle"} \cup NewPcs /\ pc'[c] \in {"idle"} \cup NewPcs
      /\ \A d \in Callers \ {c} : pc'[d] = pc[d] /\ object'[d] = object[d]
      /\ UNCHANGED <<closed, once, closeErr, elins, elinsOn, toStart, started, toStop,
                     overlapped, platform>>
  BY DEF NewToomoss, ensureLinReady, UsbOpen, LinExInit, Enter, Continue, Goto, Return,
         TypeOK, closeVars, elinsVars, history
<1>2. tried' /\ ~active
  BY DEF NewToomoss, ensureLinReady, UsbOpen, LinExInit, Continue, Freed, history,
         Inv, OneMaker
<1>3. Freed'
  BY <1>1, <1>2 DEF Freed
<1>4. CASE UNCHANGED <<objects, active>>
  <2>1. pc[c] \notin Busy /\ pc'[c] \notin Busy
    BY <1>1 DEF Busy
  <2>2. UNCHANGED <<objects, active, closed, elins, elinsOn, toStart, started, toStop>>
    BY <1>1, <1>4
  <2> QED BY <1>1, <1>3, <2>1, <2>2, ElinsAside
<1>5. CASE active' /\ objects' = objects + 1
  <2>1. \A d \in Callers : pc[d] \notin Busy
    BY <1>2, ClosesNewest DEF Inv, InUse, CallPcs, Busy, ClosePcs
  <2>2. objects + 1 \in Object /\ objects + 1 > objects
    BY <1>5, MakeTypes DEF TypeOK, Object, Inv
  <2>3. elinsOn = {} /\ elins[objects + 1] = {}
    BY <1>2, <2>2 DEF Elins
  <2>4. \A i \in Object : i > objects' => i > objects
    BY <1>5 DEF TypeOK, Object
  <2>5. \A d \in Callers : pc'[d] \notin Busy
    BY <1>1, <2>1 DEF Busy
  <2>6. elinsOn' = elins'[objects']
    BY <1>1, <1>5, <2>3
  <2>7. \A i \in Object : i > objects' => elins'[i] = {}
    BY <1>1, <2>4 DEF Elins
  <2>8. Elins'
    BY <1>5, <2>5, <2>6, <2>7 DEF Elins, Busy
  <2> QED BY <1>3, <2>8
<1> QED BY <1>4, <1>5 DEF NewToomoss, ensureLinReady, UsbOpen, LinExInit, libraryVars, Enter

LEMMA CallReleases ==
    ASSUME Objects \in Nat, TypeOK, Inv, Elins, Freed, NEW c \in Callers,
           LinMasterSync(c) \/ SyncReturns(c) \/ Enqueue(c)
    PROVE  Elins' /\ Freed'
<1>1. /\ pc[c] \in {"idle", "sync", "enqueue"} /\ pc'[c] \in {"idle", "sync", "enqueue"}
      /\ \A d \in Callers \ {c} : pc'[d] = pc[d] /\ object'[d] = object[d]
      /\ UNCHANGED <<objects, libraryVars, closeVars, elinsVars, history, platform>>
  BY DEF LinMasterSync, SyncReturns, Enqueue, Enter, Continue, Return, TypeOK
<1> QED BY <1>1, ElinsAside, FreedAside
        DEF libraryVars, closeVars, elinsVars, history, Busy, NewPcs

LEMMA ELINSReleases ==
    ASSUME Objects \in Nat, TypeOK, Inv, Elins, Freed, NEW c \in Callers,
           ConfigureELINS(c) \/ ELINSInit(c)
    PROVE  Elins' /\ Freed'
<1>1. /\ pc'[c] \in {"idle", "elins"}
      /\ \A d \in Callers \ {c} : pc'[d] = pc[d] /\ object'[d] = object[d]
      /\ UNCHANGED <<objects, active, loaded, deviceOpen, closed, once, closeErr, toStop,
                     tried, overlapped, platform>>
  BY DEF ConfigureELINS, ELINSInit, Enter, Continue, Return, Goto, TypeOK,
         libraryVars, closeVars, history
<1>2. Freed'
  BY <1>1, FreedAside DEF NewPcs
<1>3. CASE ConfigureELINS(c)
  <2>1. PICK i \in 1 .. objects, add \in SUBSET Channels :
          /\ CallMuFree(i) /\ Valid(i) /\ add \cap elins[i] = {}
          /\ pc[c] = "idle" /\ pc'[c] = "elins" /\ object'[c] = i
          /\ toStart' = add /\ started' = {} /\ UNCHANGED <<elins, elinsOn>>
    BY <1>3 DEF ConfigureELINS, Enter, TypeOK
  <2>2. i = objects /\ active /\ \A d \in Callers : pc[d] \notin ClosePcs
    <3>1. i \in Object
      BY DEF TypeOK, Object
    <3>2. once[i] = "new"
      BY <2>1, <3>1 DEF Valid, Inv, Generations
    <3> QED BY <3>2, OpenNewest
  <2>3. \A d \in Callers : pc[d] \notin CallPcs
    BY <2>1, <2>2 DEF Inv, InUse, CallMuFree
  <2>4. elinsOn = elins[objects]
    BY <2>2, <2>3 DEF Elins, CallPcs, ClosePcs
  <2>5. \A d \in Callers \ {c} : pc'[d] \notin {"elins", "closeLock", "usbClose", "inactive"}
    BY <1>1, <2>2, <2>3 DEF CallPcs, ClosePcs
  <2>6. /\ elinsOn' = elins'[objects] \cup started'
        /\ (toStart' \cup started') \cap elins'[objects] = {}
        /\ objects \notin closed' /\ object'[c] = objects
    BY <1>1, <2>1, <2>2, <2>4 DEF Valid
  <2>7. \A j \in Object : j > objects' => elins'[j] = {}
    BY <1>1, <2>1 DEF Elins
  <2>8. active'
    BY <1>1, <2>2
  <2>9. Elins'
    BY <2>1, <2>5, <2>6, <2>7, <2>8 DEF Elins
  <2> QED BY <1>2, <2>9
<1>4. CASE ELINSInit(c)
  <2>1. /\ pc[c] = "elins" /\ object[c] = objects /\ active /\ objects \in Object
        /\ \A d \in Callers \ {c} : pc[d] \notin Busy
    <3>1. pc[c] = "elins"
      BY <1>4 DEF ELINSInit, Continue
    <3>2. object[c] = objects /\ active /\ object[c] \notin closed
      BY <3>1 DEF Inv, InUse, CallPcs, Elins
    <3>3. objects \in Object
      BY <3>1, <3>2, MadeObject DEF Elsewhere, NewPcs, Inv
    <3>4. \A d \in Callers : pc[d] \notin ClosePcs
      BY <3>2, ClosesNewest
    <3>5. \A d \in Callers \ {c} : pc[d] \notin CallPcs
      BY <3>1, <3>2 DEF Inv, InUse, OneCalls, CallPcs
    <3> QED BY <3>1, <3>2, <3>3, <3>4, <3>5 DEF CallPcs, ClosePcs, Busy
  <2>2. PICK k \in toStart :
          \/ /\ elinsOn' = elinsOn \cup {k} /\ started' = started \cup {k}
             /\ toStart' = toStart \ {k}
             /\ \/ /\ pc'[c] = "idle"
                   /\ elins' = [elins EXCEPT ![object[c]] = @ \cup started']
                \/ pc'[c] = "elins" /\ object'[c] = object[c] /\ UNCHANGED elins
          \/ /\ \/ elinsOn' = elinsOn \ started
                \/ elinsOn' = (elinsOn \cup {k}) \ (started \cup {k})
             /\ pc'[c] = "idle" /\ UNCHANGED <<elins, started, toStart>>
    BY <1>4 DEF ELINSInit, rollback, Return, Goto, TypeOK
  <2>3. /\ elinsOn = elins[objects] \cup started
        /\ (toStart \cup started) \cap elins[objects] = {} /\ objects \notin closed
    BY <2>1 DEF Elins
  <2>4. \A i \in Object : i > objects => elins'[i] = {}
    <3>1. \A i \in Object : i > objects => i # objects /\ elins[i] = {}
      BY DEF Elins, TypeOK, Object
    <3> QED BY <2>1, <2>2, <3>1 DEF TypeOK
  <2>5. CASE pc'[c] = "idle"
    <3>1. elinsOn' = elins'[objects]
      <4>1. CASE /\ elinsOn' = elinsOn \cup {k} /\ started' = started \cup {k}
                 /\ elins' = [elins EXCEPT ![object[c]] = @ \cup started']
        BY <2>1, <2>3, <4>1 DEF TypeOK
      <4>2. CASE /\ \/ elinsOn' = elinsOn \ started
                    \/ elinsOn' = (elinsOn \cup {k}) \ (started \cup {k})
                 /\ UNCHANGED elins
        BY <2>2, <2>3, <4>2
      <4> QED BY <2>2, <2>5, <4>1, <4>2
    <3>2. \A d \in Callers : pc'[d] \notin Busy
      BY <1>1, <2>1, <2>5 DEF Busy
    <3>3. active' /\ objects' = objects
      BY <1>1, <2>1
    <3>4. Elins'
      BY <2>4, <3>1, <3>2, <3>3 DEF Elins, Busy
    <3> QED BY <1>2, <3>4
  <2>6. CASE pc'[c] = "elins"
    <3>1. /\ elinsOn' = elins[objects] \cup started' /\ object'[c] = objects
          /\ (toStart' \cup started') \cap elins[objects] = {} /\ UNCHANGED elins
      BY <2>1, <2>2, <2>3, <2>6
    <3>2. \A d \in Callers \ {c} : pc'[d] \notin Busy
      BY <1>1, <2>1
    <3>3. active' /\ objects' = objects /\ objects \notin closed'
      BY <1>1, <2>1, <2>3
    <3>4. Elins'
      BY <2>4, <2>6, <3>1, <3>2, <3>3 DEF Elins, Busy
    <3> QED BY <1>2, <3>4
  <2> QED BY <1>1, <2>5, <2>6
<1> QED BY <1>2, <1>3, <1>4

LEMMA ReadReleases ==
    ASSUME Objects \in Nat, TypeOK, Inv, Elins, Freed, NEW c \in Callers,
           \/ ReadEvent(c) \/ ReadQueued(c) \/ ReadUnqueued(c) \/ ensureToomossLoaded(c)
           \/ LinExSlaveGetData(c) \/ Fetched(c) \/ ReadBatch(c)
    PROVE  Elins' /\ Freed'
<1> USE DEF ReadPcs, NewPcs
<1>1. /\ pc[c] \in {"idle"} \cup ReadPcs
      /\ pc'[c] \in {"idle"} \cup ReadPcs
      /\ \A d \in Callers \ {c} : pc'[d] = pc[d] /\ object'[d] = object[d]
      /\ UNCHANGED <<objects, active, deviceOpen, closed, once, closeErr,
                     elins, elinsOn, toStart, started, toStop,
                     tried, overlapped, platform>>
  <2>1. CASE ReadEvent(c)
    BY <2>1 DEF ReadEvent, Enter, TypeOK, libraryVars, closeVars, elinsVars, history
  <2>2. CASE ReadQueued(c)
    BY <2>2 DEF ReadQueued, Deliver, Continue, Return, TypeOK, libraryVars, closeVars, elinsVars
  <2>3. CASE ReadUnqueued(c) \/ ensureToomossLoaded(c) \/ LinExSlaveGetData(c)
    BY <2>3 DEF ReadUnqueued, ensureToomossLoaded, LinExSlaveGetData, Continue, Return, Goto,
          TypeOK, libraryVars, closeVars, elinsVars, history
  <2>4. CASE Fetched(c)
    BY <2>4 DEF Fetched, Continue, Return, Goto, TypeOK, libraryVars, closeVars, elinsVars,
          history
  <2>5. CASE ReadBatch(c)
    BY <2>5 DEF ReadBatch, Deliver, Continue, Return, TypeOK, libraryVars, closeVars, elinsVars,
          history
  <2> QED BY <2>1, <2>2, <2>3, <2>4, <2>5
<1>2. Elins'
  BY <1>1, ElinsAside DEF Busy
<1>3. CASE ensureToomossLoaded(c)
  <2>1. /\ pc[c] = "ensure" /\ pc'[c] # "ensure"
        /\ object[c] \in Object /\ object[c] \in 1 .. objects /\ objects \in Nat
    <3>1. pc[c] = "ensure" /\ objects \in Nat
      BY <1>3 DEF ensureToomossLoaded, Continue, TypeOK
    <3>2. pc'[c] # "ensure"
      BY <1>3 DEF ensureToomossLoaded, Goto, Return, TypeOK
    <3> QED BY <3>1, <3>2, MadeObject DEF Elsewhere, Inv
  <2>2. ASSUME objects > 0, once[objects] = "done" \/ \E d \in Callers : pc[d] = "inactive"
        PROVE  platform = "darwin" /\ overlapped
    <3>1. objects \in closed
      <4>1. CASE once[objects] = "done"
        <5>1. objects \in Object
          BY <2>1, <2>2 DEF TypeOK, Object
        <5> QED BY <4>1, <5>1 DEF Inv, Generations
      <4>2. ASSUME NEW d \in Callers, pc[d] = "inactive" PROVE objects \in closed
        BY <4>2, ClosesNewest DEF ClosePcs
      <4> QED BY <2>2, <4>1, <4>2
    <3>2. object[c] \in closed
      BY <2>1, <3>1 DEF Inv, Generations
    <3> QED BY <2>1, <3>2 DEF Freed
  <2> QED BY <1>1, <1>2, <2>1, <2>2 DEF Freed
<1>4. CASE ReadUnqueued(c)
  <2>1. pc'[c] = "ensure" =>
          platform = "darwin" /\ object'[c] = object[c] /\ object[c] \notin closed
    BY <1>4 DEF ReadUnqueued, Goto, Return, Valid, TypeOK
  <2>2. UNCHANGED loaded
    BY <1>4 DEF ReadUnqueued, libraryVars
  <2> QED BY <1>1, <1>2, <2>1, <2>2 DEF Freed
<1>5. CASE ~ensureToomossLoaded(c) /\ ~ReadUnqueued(c)
  <2>1. pc'[c] # "ensure" /\ UNCHANGED loaded
    BY <1>5 DEF ReadEvent, ReadQueued, LinExSlaveGetData, Fetched, ReadBatch, Deliver,
          Enter, Continue, Goto, Return, TypeOK, libraryVars
  <2> QED BY <1>1, <1>2, <2>1, FreedAside
<1> QED BY <1>3, <1>4, <1>5

LEMMA CloseReleases ==
    ASSUME Objects \in Nat, TypeOK, Inv, Elins, Freed, NEW c \in Callers, Close(c)
    PROVE  Elins' /\ Freed'
<1> USE DEF libraryVars, NewPcs
<1>1. PICK i \in 1 .. objects :
        \/ /\ once[i] = "new" /\ StateMuFree(i)
           /\ once' = [once EXCEPT ![i] = "running"] /\ closed' = closed \cup {i}
           /\ toStop' = elins[i]
           /\ overlapped' = (overlapped \/ \E d \in Callers : object[d] = i /\ pc[d] = "ensure")
           /\ Enter(c, i, "none", "closeLock")
        \/ Enter(c, i, "none", "join") /\ UNCHANGED <<once, closed, toStop, overlapped>>
  BY DEF Close
<1>2. /\ pc[c] = "idle" /\ pc'[c] \in {"closeLock", "join"} /\ object'[c] = i
      /\ \A d \in Callers \ {c} : pc'[d] = pc[d] /\ object'[d] = object[d]
      /\ UNCHANGED <<objects, active, loaded, deviceOpen, closeErr, elins, elinsOn,
                     toStart, started, tried, platform>>
  BY <1>1 DEF Close, Enter, TypeOK
<1>3. CASE Enter(c, i, "none", "join") /\ UNCHANGED <<once, closed, toStop, overlapped>>
  <2>1. pc'[c] = "join"
    BY <1>3 DEF Enter, TypeOK
  <2> QED BY <1>2, <1>3, <2>1, ElinsAside, FreedAside DEF Busy
<1>4. CASE /\ once[i] = "new" /\ StateMuFree(i)
           /\ once' = [once EXCEPT ![i] = "running"] /\ closed' = closed \cup {i}
           /\ toStop' = elins[i]
           /\ overlapped' = (overlapped \/ \E d \in Callers : object[d] = i /\ pc[d] = "ensure")
           /\ Enter(c, i, "none", "closeLock")
  <2>1. i = objects /\ i \in Object /\ \A d \in Callers : pc[d] \notin ClosePcs
    BY <1>4, OpenNewest
  <2>2. pc'[c] = "closeLock" /\ once'[objects] = "running"
    BY <1>4, <2>1 DEF Enter, TypeOK
  <2>3. \A d \in Callers : pc[d] = "elins" => object[d] \notin closed'
    BY <1>4 DEF Elins, StateMuFree
  <2>4. Elins'
    BY <1>2, <1>4, <2>1, <2>2, <2>3 DEF Elins, ClosePcs
  <2>5. \A d \in Callers : pc'[d] # "inactive"
    BY <1>2, <2>1, <2>2 DEF ClosePcs
  <2>6. Freed'
    BY <1>2, <1>4, <2>2, <2>5 DEF Freed
  <2> QED BY <2>4, <2>6
<1> QED BY <1>1, <1>3, <1>4

LEMMA TearDownReleases ==
    ASSUME Objects \in Nat, TypeOK, Inv, Elins, Freed, NEW c \in Callers,
           ELINSStop(c) \/ CloseDevice(c) \/ CloseInstance(c) \/ CloseJoins(c)
    PROVE  Elins' /\ Freed'
<1> USE DEF libraryVars, closeVars, elinsVars, history, Continue
<1>1. CASE CloseJoins(c)
  <2>1. /\ pc[c] = "join" /\ pc'[c] = "idle"
        /\ \A d \in Callers \ {c} : pc'[d] = pc[d] /\ object'[d] = object[d]
    BY <1>1 DEF CloseJoins, Return, TypeOK
  <2> QED BY <1>1, <2>1, ElinsAside, FreedAside DEF CloseJoins, Busy, NewPcs
<1>2. CASE ~CloseJoins(c)
  <2>1. pc[c] \in ClosePcs
    BY <1>2 DEF ELINSStop, CloseDevice, CloseInstance, ClosePcs
  <2>2. /\ object[c] = objects /\ active /\ objects \in Object
        /\ once[objects] = "running" /\ objects \in closed
        /\ \A d \in Callers \ {c} : pc[d] \notin ClosePcs
    BY <2>1, ClosesNewest
  <2>3. \A d \in Callers : pc[d] # "elins"
    BY <2>2 DEF Elins, Inv, InUse, CallPcs
  <2>4. \A d \in Callers : pc[d] \notin NewPcs
    BY <2>2 DEF Inv, OneMaker
  <2>5. CASE ELINSStop(c)
    <3>1. /\ pc[c] = "closeLock" /\ pc'[c] = "usbClose" /\ CallMuFree(objects)
          /\ elinsOn' = elinsOn \ toStop
          /\ \A d \in Callers \ {c} : pc'[d] = pc[d]
          /\ UNCHANGED <<object, objects, libraryVars, closeVars, elins, toStart, started,
                         toStop, history, platform>>
      BY <2>2, <2>5 DEF ELINSStop, Goto, TypeOK
    <3>2. elinsOn = elins[objects] /\ toStop = elins[objects]
      BY <2>2, <2>3, <3>1 DEF Elins, ClosePcs
    <3>3. Elins'
      BY <2>2, <2>3, <3>1, <3>2 DEF Elins, ClosePcs
    <3> QED BY <3>1, <3>3, FreedAside DEF NewPcs
  <2>6. CASE CloseDevice(c)
    <3>1. PICK ok \in BOOLEAN :
            usbClose(ok) /\ closeErr' = IF ok THEN closeErr ELSE closeErr \cup {objects}
      BY <2>2, <2>6 DEF CloseDevice
    <3>2. /\ pc[c] = "usbClose" /\ pc'[c] = "inactive" /\ tried' = FALSE
          /\ \A d \in Callers \ {c} : pc'[d] = pc[d]
          /\ UNCHANGED <<object, objects, active, closed, once, elinsVars, overlapped,
                         platform>>
      BY <2>6 DEF CloseDevice, Goto, TypeOK
    <3>3. objects \notin closeErr' => ~deviceOpen' /\ ~loaded'
      BY <3>1 DEF usbClose
    <3>4. elinsOn = {}
      BY <3>2 DEF Elins
    <3>5. Elins'
      BY <2>2, <2>3, <3>2, <3>4 DEF Elins, ClosePcs
    <3>6. Freed'
      BY <2>4, <3>2, <3>3 DEF Freed, NewPcs
    <3> QED BY <3>5, <3>6
  <2>7. CASE CloseInstance(c)
    <3>1. /\ pc[c] = "inactive" /\ pc'[c] = "idle" /\ ~active'
          /\ \A d \in Callers \ {c} : pc'[d] = pc[d] /\ object'[d] = object[d]
          /\ UNCHANGED <<objects, loaded, deviceOpen, closed, closeErr, elinsVars,
                         history, platform>>
      BY <2>7 DEF CloseInstance, Return, TypeOK
    <3>2. elinsOn = {}
      BY <3>1 DEF Elins
    <3>3. Elins'
      BY <2>2, <2>3, <3>1, <3>2 DEF Elins, ClosePcs
    <3>4. Freed'
      BY <2>4, <3>1 DEF Freed, NewPcs
    <3> QED BY <3>3, <3>4
  <2> QED BY <1>2, <2>5, <2>6, <2>7
<1> QED BY <1>1, <1>2

LEMMA StepReleases ==
    ASSUME Objects \in Nat, TypeOK, Inv, Elins, Freed, [Next]_vars
    PROVE  Elins' /\ Freed'
<1>1. CASE Arrive \/ UNCHANGED vars
  <2>1. /\ UNCHANGED <<platform, pc, object, objects, active, loaded, closed, once, closeErr,
                       elins, elinsOn, toStart, started, toStop, tried, overlapped, deviceOpen>>
    BY <1>1 DEF Arrive, vars, callVars, libraryVars, closeVars, elinsVars, history
  <2> QED BY <2>1 DEF Elins, Freed
<1>2. ASSUME NEW c \in Callers,
             \/ NewToomoss(c) \/ ensureLinReady(c) \/ UsbOpen(c) \/ LinExInit(c)
             \/ LinMasterSync(c) \/ SyncReturns(c) \/ Enqueue(c)
             \/ ConfigureELINS(c) \/ ELINSInit(c)
             \/ ReadEvent(c) \/ ReadQueued(c) \/ ReadUnqueued(c) \/ ensureToomossLoaded(c)
             \/ LinExSlaveGetData(c) \/ Fetched(c) \/ ReadBatch(c)
             \/ Close(c) \/ ELINSStop(c) \/ CloseDevice(c) \/ CloseInstance(c) \/ CloseJoins(c)
      PROVE  Elins' /\ Freed'
  BY <1>2, MakeReleases, CallReleases, ELINSReleases, ReadReleases, CloseReleases,
     TearDownReleases
<1> QED BY <1>1, <1>2 DEF Next

-----------------------------------------------------------------------------
(***************************************************************************)
(* The order of the frames.  The library hands a batch over at once, in    *)
(* the order of arrival; its first frame is returned, before the rest is   *)
(* read from the event queue, and only the echoes and answers the driver   *)
(* adds itself, which are 0, get between.                                  *)
(***************************************************************************)

\* The frames of s are in the order of their arrival.
Rising(s) ==
    \A m, n \in 1 .. Len(s) : m < n /\ s[m] # 0 /\ s[n] # 0 => s[m] < s[n]

\* The frames of s arrived after frame low, and those of queue after them.
Between(low, s, high, queue) ==
    \A n \in 1 .. Len(s) : s[n] # 0 =>
        /\ low < s[n] /\ s[n] <= high
        /\ \A q \in 1 .. Len(queue) : s[n] < queue[q]

\* The first frame of h comes before those of s, the others after them.
Around(h, s) ==
    \A n \in 1 .. Len(h), m \in 1 .. Len(s) : h[n] # 0 /\ s[m] # 0 =>
        IF n = 1 THEN h[n] < s[m] ELSE s[m] < h[n]

Zeros(s) == \A n \in 1 .. Len(s) : s[n] = 0

\* What the library holds of a channel arrived in this order.
Queued ==
    \A k \in Channels :
        /\ Rising(rxQueue[k])
        /\ \A q \in 1 .. Len(rxQueue[k]) : 0 < rxQueue[k][q] /\ rxQueue[k][q] <= arrived

\* What was returned comes before the event queue, and that before the library.
Passed ==
    \A i \in Object, k \in Channels :
        /\ newest[i][k] <= arrived
        /\ \A q \in 1 .. Len(rxQueue[k]) : newest[i][k] < rxQueue[k][q]
        /\ Rising(events[i][k])
        /\ Between(newest[i][k], events[i][k], arrived, rxQueue[k])

\* A batch is a frame that comes before the event queue and others after it.
Batch ==
    \A c \in Callers : pc[c] = "batch" =>
        /\ held[c] # <<>> /\ Rising(held[c])
        /\ Between(newest[object[c]][ch[c]], held[c], arrived, rxQueue[ch[c]])
        /\ Around(held[c], events[object[c]][ch[c]])

\* Who has turned to the library found no frame in the event queue.
Emptied ==
    \A c \in Callers :
        pc[c] \in {"ensure", "get", "fetch"} => Zeros(events[object[c]][ch[c]])

\* A channel of an object has one reader.
OneReader ==
    \A c, d \in Callers :
        pc[c] \in ReadPcs /\ pc[d] \in ReadPcs /\ object[c] = object[d] /\ ch[c] = ch[d]
            => c = d

InOrder == Queued /\ Passed /\ Batch /\ Emptied /\ OneReader /\ late = {}

LEMMA Appended ==
    ASSUME NEW s \in Seq(Nat), NEW f \in Nat
    PROVE  /\ Append(s, f) \in Seq(Nat) /\ Len(Append(s, f)) = Len(s) + 1
           /\ \A n \in 1 .. Len(s) : Append(s, f)[n] = s[n]
           /\ Append(s, f)[Len(s) + 1] = f
  OBVIOUS

LEMMA RisingAppended ==
    ASSUME NEW s \in Seq(Nat), NEW f \in Nat, Rising(s),
           \A n \in 1 .. Len(s) : f # 0 /\ s[n] # 0 => s[n] < f
    PROVE  Rising(Append(s, f))
<1> DEFINE t == Append(s, f)
<1>1. /\ Len(t) = Len(s) + 1 /\ t[Len(s) + 1] = f
      /\ \A n \in 1 .. Len(s) : t[n] = s[n]
  BY Appended
<1>2. Len(s) \in Nat
  OBVIOUS
<1> SUFFICES ASSUME NEW m \in 1 .. Len(t), NEW n \in 1 .. Len(t),
                    m < n, t[m] # 0, t[n] # 0
             PROVE  t[m] < t[n]
  BY DEF Rising
<1> HIDE DEF t
<1>3. m \in 1 .. Len(s) /\ t[m] = s[m]
  BY <1>1, <1>2
<1>4. CASE n = Len(s) + 1
  BY <1>1, <1>3, <1>4
<1>5. CASE n \in 1 .. Len(s)
  BY <1>1, <1>3, <1>5 DEF Rising
<1> QED BY <1>1, <1>2, <1>4, <1>5

LEMMA Tailed ==
    ASSUME NEW s \in Seq(Nat), s # <<>>
    PROVE  /\ Head(s) = s[1] /\ Len(s) > 0
           /\ Tail(s) \in Seq(Nat) /\ Len(Tail(s)) = Len(s) - 1
           /\ \A n \in 1 .. Len(Tail(s)) : Tail(s)[n] = s[n + 1] /\ n + 1 \in 1 .. Len(s)
  OBVIOUS

LEMMA Part ==
    ASSUME NEW s \in Seq(Nat), NEW i \in Nat \ {0}, i <= Len(s) + 1
    PROVE  \A j \in i - 1 .. Len(s) :
              /\ SubSeq(s, i, j) \in Seq(Nat)
              /\ Len(SubSeq(s, i, j)) = j - i + 1
              /\ \A k \in 1 .. j - i + 1 : SubSeq(s, i, j)[k] = s[i + k - 1]
<1> TAKE j \in i - 1 .. Len(s)
<1>1. j \in Int /\ i \in Int /\ \A k \in i .. j : s[k] \in Nat
  OBVIOUS
<1>2. /\ SubSeq(s, i, j) \in Seq(Nat)
      /\ Len(SubSeq(s, i, j)) = IF i <= j THEN j - i + 1 ELSE 0
      /\ \A k \in 1 .. j - i + 1 : SubSeq(s, i, j)[k] = s[i + k - 1]
  BY <1>1, SubSeqProperties
<1>3. (IF i <= j THEN j - i + 1 ELSE 0) = j - i + 1
  OBVIOUS
<1> QED BY <1>2, <1>3

LEMMA SecondRemoved ==
    ASSUME NEW s \in Seq(Nat), Len(s) > 1
    PROVE  /\ Len(RemoveAt(s, 2)) = Len(s) - 1
           /\ RemoveAt(s, 2)[1] = s[1]
           /\ \A n \in 2 .. Len(s) - 1 : RemoveAt(s, 2)[n] = s[n + 1]
<1> DEFINE a == SubSeq(s, 1, 1)  b == SubSeq(s, 3, Len(s))
<1>0. Len(s) \in Nat /\ 1 \in 1 - 1 .. Len(s) /\ Len(s) \in 3 - 1 .. Len(s)
      /\ 1 \in Nat \ {0} /\ 3 \in Nat \ {0} /\ 1 <= Len(s) + 1 /\ 3 <= Len(s) + 1
  OBVIOUS
<1>1. /\ a \in Seq(Nat) /\ Len(a) = 1 - 1 + 1
      /\ \A k \in 1 .. 1 - 1 + 1 : a[k] = s[1 + k - 1]
  BY <1>0, Part
<1>2. /\ b \in Seq(Nat) /\ Len(b) = Len(s) - 3 + 1
      /\ \A k \in 1 .. Len(s) - 3 + 1 : b[k] = s[3 + k - 1]
  BY <1>0, Part
<1>3. RemoveAt(s, 2) = a \o b
  BY DEF RemoveAt
<1> HIDE DEF a, b
<1>4. /\ Len(a \o b) = Len(a) + Len(b)
      /\ \A n \in 1 .. Len(a) + Len(b) :
            (a \o b)[n] = IF n <= Len(a) THEN a[n] ELSE b[n - Len(a)]
  BY <1>1, <1>2, ConcatProperties
<1>5. Len(a) = 1 /\ Len(b) = Len(s) - 2 /\ Len(a \o b) = Len(s) - 1
  BY <1>0, <1>1, <1>2, <1>4
<1>6. \A n \in 2 .. Len(s) - 1 : (a \o b)[n] = s[n + 1]
  <2> TAKE n \in 2 .. Len(s) - 1
  <2>1. n \in 1 .. 1 + (Len(s) - 2) /\ ~(n <= 1)
    BY <1>0
  <2>2. (a \o b)[n] = b[n - 1]
    BY <1>4, <1>5, <2>1
  <2>3. n - 1 \in 1 .. Len(s) - 3 + 1 /\ 3 + (n - 1) - 1 = n + 1
    BY <1>0
  <2>4. b[n - 1] = s[3 + (n - 1) - 1]
    BY <1>2, <2>3
  <2> QED BY <2>2, <2>3, <2>4
<1>7. (a \o b)[1] = s[1]
  <2>1. 1 \in 1 .. 1 + (Len(s) - 2) /\ 1 <= 1 /\ 1 \in 1 .. 1 - 1 + 1 /\ 1 + 1 - 1 = 1
    BY <1>0
  <2>2. (a \o b)[1] = a[1]
    BY <1>4, <1>5, <2>1
  <2>3. a[1] = s[1 + 1 - 1]
    BY <1>1, <2>1
  <2> QED BY <2>1, <2>2, <2>3
<1> QED BY <1>3, <1>5, <1>6, <1>7

\* The others stay where they are.
OthersStay(c) ==
    \A d \in Callers \ {c} :
        pc'[d] = pc[d] /\ object'[d] = object[d] /\ ch'[d] = ch[d] /\ held'[d] = held[d]

\* A step that leaves the frames where they are, or drops what the library has.
LEMMA OrderAside ==
    ASSUME Located, InOrder, NEW c \in Callers,
           pc'[c] # "batch",
           pc'[c] \in {"ensure", "get", "fetch"} => Zeros(events[object'[c]][ch'[c]]),
           pc'[c] \in ReadPcs =>
              \A d \in Callers \ {c} :
                 pc[d] \in ReadPcs => object[d] # object'[c] \/ ch[d] # ch'[c],
           OthersStay(c),
           UNCHANGED <<events, arrived, newest, late>>,
           rxQueue' = rxQueue \/ rxQueue' = [k \in Channels |-> <<>>]
    PROVE  InOrder'
<1> USE DEF OthersStay
<1>1. Emptied'
  BY DEF InOrder, Emptied
<1>2. OneReader'
  BY DEF InOrder, OneReader
<1>3. CASE rxQueue' = rxQueue
  <2>1. Queued' /\ Passed'
    BY <1>3 DEF InOrder, Queued, Passed
  <2>2. Batch'
    BY <1>3 DEF InOrder, Batch
  <2> QED BY <1>1, <1>2, <2>1, <2>2 DEF InOrder
<1>4. CASE rxQueue' = [k \in Channels |-> <<>>]
  <2>1. \A k \in Channels : rxQueue'[k] = <<>>
    BY <1>4
  <2>2. Queued' /\ Passed'
    BY <2>1 DEF InOrder, Queued, Passed, Rising, Between
  <2>3. ASSUME NEW d \in Callers, pc'[d] = "batch"
        PROVE  /\ held'[d] # <<>> /\ Rising(held'[d])
               /\ Between(newest'[object'[d]][ch'[d]], held'[d], arrived', rxQueue'[ch'[d]])
               /\ Around(held'[d], events'[object'[d]][ch'[d]])
    <3>1. /\ d \in Callers \ {c} /\ pc[d] = "batch" /\ ch[d] \in Channels
          /\ object'[d] = object[d] /\ ch'[d] = ch[d] /\ held'[d] = held[d]
      BY <2>3 DEF Located, ReadPcs
    <3>2. /\ held[d] # <<>> /\ Rising(held[d])
          /\ Between(newest[object[d]][ch[d]], held[d], arrived, rxQueue[ch[d]])
          /\ Around(held[d], events[object[d]][ch[d]])
      BY <3>1 DEF InOrder, Batch
    <3>3. rxQueue'[ch[d]] = <<>>
      BY <2>1, <3>1
    <3>4. Between(newest[object[d]][ch[d]], held[d], arrived, <<>>)
      BY <3>2 DEF Between
    <3> QED BY <3>1, <3>2, <3>3, <3>4
  <2>4. Batch'
    BY <2>3 DEF Batch
  <2> QED BY <1>1, <1>2, <2>2, <2>4 DEF InOrder
<1> QED BY <1>3, <1>4

\* A frame joins the event queue of one object and channel, or is dropped.
LEMMA EventQueued ==
    ASSUME TypeOK, NEW i \in Object, NEW k \in Channels, NEW f \in Nat,
           events' = Enqueued(i, k, f)
    PROVE  /\ events[i][k] \in Seq(Nat)
           /\ events'[i][k] = events[i][k] \/ events'[i][k] = Append(events[i][k], f)
           /\ \A j \in Object, l \in Channels :
                 j # i \/ l # k => events'[j][l] = events[j][l]
<1>1. events[i] \in [Channels -> Seq(Nat)] /\ \A j \in Object : events[j] \in [Channels -> Seq(Nat)]
  BY DEF TypeOK
<1> QED BY <1>1 DEF Enqueued, TypeOK

LEMMA BetweenAppended ==
    ASSUME NEW s \in Seq(Nat), NEW f \in Nat, NEW low, NEW high, NEW queue,
           Between(low, s, high, queue),
           f # 0 => /\ low < f /\ f <= high
                    /\ \A q \in 1 .. Len(queue) : f < queue[q]
    PROVE  Between(low, Append(s, f), high, queue)
<1>1. /\ Len(Append(s, f)) = Len(s) + 1 /\ Append(s, f)[Len(s) + 1] = f
      /\ \A n \in 1 .. Len(s) : Append(s, f)[n] = s[n]
  BY Appended
<1> SUFFICES ASSUME NEW n \in 1 .. Len(s) + 1, Append(s, f)[n] # 0
             PROVE  /\ low < Append(s, f)[n] /\ Append(s, f)[n] <= high
                    /\ \A q \in 1 .. Len(queue) : Append(s, f)[n] < queue[q]
  BY <1>1 DEF Between
<1>2. CASE n \in 1 .. Len(s)
  BY <1>1, <1>2 DEF Between
<1>3. CASE n = Len(s) + 1
  BY <1>1, <1>3
<1> QED BY <1>2, <1>3

LEMMA EventPassed ==
    ASSUME TypeOK, Passed, NEW i \in Object, NEW k \in Channels, NEW f \in Nat,
           events' = Enqueued(i, k, f),
           f # 0 => /\ newest[i][k] < f /\ f <= arrived
                    /\ \A q \in 1 .. Len(rxQueue[k]) : f < rxQueue[k][q]
                    /\ \A n \in 1 .. Len(events[i][k]) :
                          events[i][k][n] # 0 => events[i][k][n] < f,
           UNCHANGED <<newest, arrived, rxQueue>>
    PROVE  Passed'
<1>1. /\ events[i][k] \in Seq(Nat)
      /\ events'[i][k] = events[i][k] \/ events'[i][k] = Append(events[i][k], f)
      /\ \A j \in Object, l \in Channels : j # i \/ l # k => events'[j][l] = events[j][l]
  BY EventQueued
<1>2. Rising(events[i][k]) /\ Between(newest[i][k], events[i][k], arrived, rxQueue[k])
  BY DEF Passed
<1>3. Rising(Append(events[i][k], f))
  BY <1>1, <1>2, RisingAppended
<1>4. Between(newest[i][k], Append(events[i][k], f), arrived, rxQueue[k])
  BY <1>1, <1>2, BetweenAppended
<1> QED BY <1>1, <1>2, <1>3, <1>4 DEF Passed

LEMMA ZeroAppended ==
    ASSUME NEW s \in Seq(Nat)
    PROVE  /\ Zeros(s) => Zeros(Append(s, 0))
           /\ \A h : Around(h, s) => Around(h, Append(s, 0))
<1> DEFINE t == Append(s, 0)
<1>1. /\ Len(t) = Len(s) + 1 /\ t[Len(s) + 1] = 0 /\ Len(s) \in Nat
      /\ \A n \in 1 .. Len(s) : t[n] = s[n]
  BY Appended
<1> HIDE DEF t
<1>2. \A n \in 1 .. Len(t) : n \in 1 .. Len(s) \/ t[n] = 0
  BY <1>1
<1>3. Zeros(s) => Zeros(t)
  BY <1>1, <1>2 DEF Zeros
<1>4. ASSUME NEW h, Around(h, s)
      PROVE  Around(h, t)
  <2> SUFFICES ASSUME NEW n \in 1 .. Len(h), NEW m \in 1 .. Len(t), h[n] # 0, t[m] # 0
               PROVE  IF n = 1 THEN h[n] < t[m] ELSE t[m] < h[n]
    BY DEF Around
  <2>1. m \in 1 .. Len(s) /\ t[m] = s[m]
    BY <1>1, <1>2
  <2> QED BY <1>4, <2>1 DEF Around
<1> QED BY <1>3, <1>4 DEF t

\* A reader has an object and a channel.
LEMMA Sited ==
    ASSUME Objects \in Nat, TypeOK, Located, NEW d \in Callers,
           pc[d] \in ReadPcs \cup {"enqueue"}
    PROVE  object[d] \in Object /\ ch[d] \in Channels
<1>1. pc[d] \notin Elsewhere
  BY DEF ReadPcs, Elsewhere, NewPcs
<1> QED BY <1>1, MadeObject DEF Located

\* What the driver adds itself has no place in the order.
LEMMA EnqueueOrder ==
    ASSUME Objects \in Nat, TypeOK, Located, InOrder, NEW c \in Callers, Enqueue(c)
    PROVE  InOrder'
<1> DEFINE i == object[c]  k == ch[c]
<1>1. /\ pc[c] = "enqueue" /\ pc'[c] = "idle"
      /\ \A d \in Callers \ {c} : /\ pc'[d] = pc[d] /\ object'[d] = object[d]
                                  /\ ch'[d] = ch[d] /\ held'[d] = held[d]
      /\ events' = Enqueued(i, k, 0)
      /\ UNCHANGED <<rxQueue, arrived, newest, late>>
  BY DEF Enqueue, Continue, Return, TypeOK, history
<1>2. i \in Object /\ k \in Channels
  BY <1>1, Sited
<1>3. /\ events[i][k] \in Seq(Nat)
      /\ events'[i][k] = events[i][k] \/ events'[i][k] = Append(events[i][k], 0)
      /\ \A j \in Object, l \in Channels : j # i \/ l # k => events'[j][l] = events[j][l]
  BY <1>1, <1>2, EventQueued
<1>4. Queued' /\ Passed'
  BY <1>1, <1>2, EventPassed DEF InOrder, Queued
<1>5. /\ Zeros(events[i][k]) => Zeros(events'[i][k])
      /\ \A h : Around(h, events[i][k]) => Around(h, events'[i][k])
  BY <1>3, ZeroAppended
<1>6. ASSUME NEW d \in Callers, pc'[d] \in {"batch", "ensure", "get", "fetch"}
      PROVE  /\ d # c /\ object[d] \in Object /\ ch[d] \in Channels
             /\ Zeros(events[object[d]][ch[d]]) => Zeros(events'[object[d]][ch[d]])
             /\ \A h : Around(h, events[object[d]][ch[d]])
                          => Around(h, events'[object[d]][ch[d]])
  <2>1. d # c /\ object[d] \in Object /\ ch[d] \in Channels
    BY <1>1, <1>6, Sited DEF ReadPcs
  <2> QED BY <1>3, <1>5, <2>1
<1>7. Batch'
  BY <1>1, <1>6 DEF InOrder, Batch
<1>8. Emptied'
  BY <1>1, <1>6 DEF InOrder, Emptied
<1>9. OneReader'
  BY <1>1 DEF InOrder, OneReader, ReadPcs
<1> QED BY <1>1, <1>4, <1>7, <1>8, <1>9 DEF InOrder

\* Nothing but channel k of object i changes in f.
ElsewhereKept(f, g, i, k) ==
    \A j \in Object, l \in Channels : j # i \/ l # k => g[j][l] = f[j][l]

Ahead(low, queue) == low <= arrived /\ \A q \in 1 .. Len(queue) : low < queue[q]

\* A reader's step is about the frames of its object and channel.
LEMMA ReaderStep ==
    ASSUME Objects \in Nat, TypeOK, Located, InOrder, NEW c \in Callers,
           NEW i, NEW k, i \in Object, k \in Channels, i = object[c], k = ch[c],
           pc[c] \in ReadPcs, pc'[c] \in {"idle", "batch"},
           OthersStay(c),
           ElsewhereKept(events, events', i, k), ElsewhereKept(newest, newest', i, k),
           \A l \in Channels : rxQueue'[l] = rxQueue[l] \/ rxQueue'[l] = <<>>,
           arrived' = arrived, late' = {},
           Ahead(newest'[i][k], rxQueue'[k]),
           Rising(events'[i][k]),
           Between(newest'[i][k], events'[i][k], arrived, rxQueue'[k]),
           pc'[c] = "batch" =>
              /\ object'[c] = i /\ ch'[c] = k
              /\ held'[c] # <<>> /\ Rising(held'[c])
              /\ Between(newest'[i][k], held'[c], arrived, rxQueue'[k])
              /\ Around(held'[c], events'[i][k])
    PROVE  InOrder'
<1> USE DEF OthersStay, ElsewhereKept, Ahead
<1>1. ASSUME NEW d \in Callers \ {c}, pc'[d] \in ReadPcs
      PROVE  /\ object[d] \in Object /\ ch[d] \in Channels
             /\ object[d] # i \/ ch[d] # k
             /\ object'[d] = object[d] /\ ch'[d] = ch[d] /\ pc[d] \in ReadPcs
  BY <1>1, Sited DEF InOrder, OneReader
<1>2. Queued'
  <2>1. \A l \in Channels : rxQueue'[l] = rxQueue[l] \/ Len(rxQueue'[l]) = 0
    OBVIOUS
  <2> QED BY <2>1 DEF InOrder, Queued, Rising
<1>3. \A s, low : \A l \in Channels :
         Between(low, s, arrived, rxQueue[l]) => Between(low, s, arrived, rxQueue'[l])
  <2>1. \A l \in Channels : rxQueue'[l] = rxQueue[l] \/ Len(rxQueue'[l]) = 0
    OBVIOUS
  <2> QED BY <2>1 DEF Between
<1>4. Passed'
  <2> SUFFICES ASSUME NEW j \in Object, NEW l \in Channels
               PROVE  /\ newest'[j][l] <= arrived'
                      /\ \A q \in 1 .. Len(rxQueue'[l]) : newest'[j][l] < rxQueue'[l][q]
                      /\ Rising(events'[j][l])
                      /\ Between(newest'[j][l], events'[j][l], arrived', rxQueue'[l])
    BY DEF Passed
  <2>1. CASE j = i /\ l = k
    BY <2>1
  <2>2. CASE j # i \/ l # k
    <3>1. events'[j][l] = events[j][l] /\ newest'[j][l] = newest[j][l]
      BY <2>2
    <3>2. \A q \in 1 .. Len(rxQueue'[l]) : newest[j][l] < rxQueue'[l][q]
      <4>1. rxQueue'[l] = rxQueue[l] \/ Len(rxQueue'[l]) = 0
        OBVIOUS
      <4> QED BY <4>1 DEF InOrder, Passed
    <3>3. Between(newest[j][l], events[j][l], arrived, rxQueue'[l])
      BY <1>3 DEF InOrder, Passed
    <3> QED BY <3>1, <3>2, <3>3 DEF InOrder, Passed
  <2> QED BY <2>1, <2>2
<1>5. Batch'
  <2> SUFFICES ASSUME NEW d \in Callers, pc'[d] = "batch"
               PROVE  /\ held'[d] # <<>> /\ Rising(held'[d])
                      /\ Between(newest'[object'[d]][ch'[d]], held'[d], arrived', rxQueue'[ch'[d]])
                      /\ Around(held'[d], events'[object'[d]][ch'[d]])
    BY DEF Batch
  <2>1. CASE d = c
    BY <2>1
  <2>2. CASE d # c
    <3>1. /\ object[d] \in Object /\ ch[d] \in Channels /\ (object[d] # i \/ ch[d] # k)
          /\ object'[d] = object[d] /\ ch'[d] = ch[d] /\ pc[d] = "batch" /\ held'[d] = held[d]
      BY <1>1, <2>2 DEF ReadPcs
    <3>2. /\ events'[object[d]][ch[d]] = events[object[d]][ch[d]]
          /\ newest'[object[d]][ch[d]] = newest[object[d]][ch[d]]
      BY <3>1
    <3>3. /\ held[d] # <<>> /\ Rising(held[d])
          /\ Between(newest[object[d]][ch[d]], held[d], arrived, rxQueue[ch[d]])
          /\ Around(held[d], events[object[d]][ch[d]])
      BY <3>1 DEF InOrder, Batch
    <3>4. Between(newest[object[d]][ch[d]], held[d], arrived, rxQueue'[ch[d]])
      BY <1>3, <3>1, <3>3
    <3> QED BY <3>1, <3>2, <3>3, <3>4
  <2> QED BY <2>1, <2>2
<1>6. Emptied'
  BY <1>1 DEF InOrder, Emptied, ReadPcs
<1>7. OneReader'
  <2> SUFFICES ASSUME NEW d \in Callers, NEW g \in Callers,
                      pc'[d] \in ReadPcs, pc'[g] \in ReadPcs,
                      object'[d] = object'[g], ch'[d] = ch'[g]
               PROVE  d = g
    BY DEF OneReader
  <2>1. pc'[c] \in ReadPcs => object'[c] = i /\ ch'[c] = k
    BY DEF ReadPcs
  <2> QED BY <1>1, <2>1 DEF InOrder, OneReader
<1> QED BY <1>2, <1>4, <1>5, <1>6, <1>7 DEF InOrder

\* Frame f is the next of its channel to be returned, before those of s.
ComesNext(i, k, f, s) ==
    /\ f # 0 => newest[i][k] < f /\ Ahead(f, rxQueue[k])
    /\ Between(newest[i][k], s, arrived, rxQueue[k])
    /\ \A n \in 1 .. Len(s) : f # 0 /\ s[n] # 0 => f < s[n]

LEMMA Delivered ==
    ASSUME Objects \in Nat, TypeOK, Located, InOrder, NEW c \in Callers, NEW f \in Nat,
           pc[c] \in ReadPcs, Deliver(c, f), NEW s, ComesNext(object[c], ch[c], f, s)
    PROVE  /\ pc'[c] = "idle" /\ late' = {} /\ OthersStay(c)
           /\ ElsewhereKept(newest, newest', object[c], ch[c])
           /\ Ahead(newest'[object[c]][ch[c]], rxQueue[ch[c]])
           /\ Between(newest'[object[c]][ch[c]], s, arrived, rxQueue[ch[c]])
<1> DEFINE i == object[c]  k == ch[c]
<1> USE DEF OthersStay, ElsewhereKept, Ahead, ComesNext
<1>1. i \in Object /\ k \in Channels
  BY Sited
<1>2. newest \in [Object -> [Channels -> Nat]] /\ newest[i] \in [Channels -> Nat]
      /\ newest[i][k] \in Nat
  BY <1>1 DEF TypeOK
<1>3. newest'[i][k] = IF f > newest[i][k] THEN f ELSE newest[i][k]
  BY <1>1, <1>2 DEF Deliver
<1>4. \A j \in Object, l \in Channels : j # i \/ l # k => newest'[j][l] = newest[j][l]
  BY <1>1, <1>2 DEF Deliver
<1>5. newest'[i][k] = newest[i][k] \/ (newest'[i][k] = f /\ f # 0)
  BY <1>2, <1>3
<1>6. pc'[c] = "idle" /\ \A d \in Callers \ {c} : /\ pc'[d] = pc[d] /\ object'[d] = object[d]
                                                  /\ ch'[d] = ch[d] /\ held'[d] = held[d]
  BY DEF Deliver, Return, TypeOK
<1>7. late' = {}
  <2>1. late = {} /\ ~(f # 0 /\ f < newest[i][k])
    BY <1>2 DEF InOrder
  <2> QED BY <2>1 DEF Deliver
<1>8. /\ newest[i][k] <= arrived
      /\ \A q \in 1 .. Len(rxQueue[k]) : newest[i][k] < rxQueue[k][q]
  BY <1>1 DEF InOrder, Passed
<1>9. Between(newest'[i][k], s, arrived, rxQueue[k])
  BY <1>5 DEF Between
<1> QED BY <1>4, <1>5, <1>6, <1>7, <1>8, <1>9

LEMMA ReadQueuedOrder ==
    ASSUME Objects \in Nat, TypeOK, Located, InOrder, NEW c \in Callers, ReadQueued(c)
    PROVE  InOrder'
<1> DEFINE i == object[c]  k == ch[c]  e == events[i][k]
<1>1. pc[c] = "poll" /\ pc[c] \in ReadPcs
  BY DEF ReadQueued, Continue, ReadPcs
<1>2. i \in Object /\ k \in Channels
  BY <1>1, Sited
<1>3. e # <<>> /\ Deliver(c, Head(e)) /\ events' = [events EXCEPT ![i][k] = Tail(e)]
      /\ UNCHANGED <<rxQueue, arrived>>
  BY DEF ReadQueued
<1>4. events \in [Object -> [Channels -> Seq(Nat)]] /\ events[i] \in [Channels -> Seq(Nat)]
      /\ e \in Seq(Nat)
  BY <1>2 DEF TypeOK
<1>5. events'[i][k] = Tail(e)
      /\ \A j \in Object, l \in Channels : j # i \/ l # k => events'[j][l] = events[j][l]
  BY <1>2, <1>3, <1>4
<1>6. Rising(e) /\ Between(newest[i][k], e, arrived, rxQueue[k])
  BY <1>2 DEF InOrder, Passed
<1> HIDE DEF e
<1>7. /\ Head(e) = e[1] /\ Len(e) \in Nat /\ Len(e) > 0 /\ Len(Tail(e)) = Len(e) - 1
      /\ \A n \in 1 .. Len(Tail(e)) : Tail(e)[n] = e[n + 1] /\ n + 1 \in 1 .. Len(e)
      /\ Head(e) \in Nat
  BY <1>3, <1>4, Tailed
<1>8. Rising(Tail(e))
  <2> SUFFICES ASSUME NEW m \in 1 .. Len(Tail(e)), NEW n \in 1 .. Len(Tail(e)),
                      m < n, Tail(e)[m] # 0, Tail(e)[n] # 0
               PROVE  Tail(e)[m] < Tail(e)[n]
    BY DEF Rising
  <2>1. m + 1 < n + 1
    BY <1>7
  <2> QED BY <1>6, <1>7, <2>1 DEF Rising
<1>9. Between(newest[i][k], Tail(e), arrived, rxQueue[k])
  BY <1>6, <1>7 DEF Between
<1>10. 1 \in 1 .. Len(e)
  BY <1>7
<1>11. Head(e) # 0 => newest[i][k] < Head(e) /\ Ahead(Head(e), rxQueue[k])
  BY <1>6, <1>7, <1>10 DEF Between, Ahead
<1>12. \A n \in 1 .. Len(Tail(e)) : Head(e) # 0 /\ Tail(e)[n] # 0 => Head(e) < Tail(e)[n]
  <2> TAKE n \in 1 .. Len(Tail(e))
  <2>1. 1 < n + 1
    BY <1>7
  <2> QED BY <1>6, <1>7, <1>10, <2>1 DEF Rising
<1>13. ComesNext(i, k, Head(e), Tail(e))
  BY <1>9, <1>11, <1>12 DEF ComesNext
<1>14. /\ pc'[c] = "idle" /\ late' = {} /\ OthersStay(c)
       /\ ElsewhereKept(newest, newest', i, k)
       /\ Ahead(newest'[i][k], rxQueue[k])
       /\ Between(newest'[i][k], Tail(e), arrived, rxQueue[k])
  BY <1>1, <1>3, <1>7, <1>13, Delivered
<1>15. ElsewhereKept(events, events', i, k)
  BY <1>5 DEF ElsewhereKept
<1>16. Rising(events'[i][k]) /\ Between(newest'[i][k], events'[i][k], arrived, rxQueue'[k])
  BY <1>3, <1>5, <1>8, <1>14
<1> QED BY <1>1, <1>2, <1>3, <1>14, <1>15, <1>16, ReaderStep

\* A fetched batch: the event queue has no frame, so nothing is in its way.
LEMMA FetchedOrder ==
    ASSUME Objects \in Nat, TypeOK, Located, InOrder, NEW c \in Callers, Fetched(c),
           pc'[c] = "batch"
    PROVE  InOrder'
<1> DEFINE i == object[c]  k == ch[c]
<1>1. pc[c] = "fetch" /\ pc[c] \in ReadPcs
  BY DEF Fetched, Continue, ReadPcs
<1>2. i \in Object /\ k \in Channels
  BY <1>1, Sited
<1>3. /\ \/ rxQueue[k] # <<>> /\ held' = [held EXCEPT ![c] = rxQueue[k]]
            /\ rxQueue' = [rxQueue EXCEPT ![k] = <<>>]
         \/ held' = [held EXCEPT ![c] = <<0, 0>>] /\ rxQueue' = rxQueue
      /\ pc' = [pc EXCEPT ![c] = "batch"]
      /\ UNCHANGED <<object, ch, events, arrived, newest, late>>
  BY <1>1 DEF Fetched, Goto, Return, TypeOK, history
<1>4. OthersStay(c) /\ object'[c] = i /\ ch'[c] = k
  BY <1>3 DEF OthersStay, TypeOK
<1>5. /\ \A l \in Channels : rxQueue'[l] = rxQueue[l] \/ rxQueue'[l] = <<>>
      /\ rxQueue'[k] = rxQueue[k] \/ Len(rxQueue'[k]) = 0
  BY <1>2, <1>3 DEF TypeOK
<1>6. /\ ElsewhereKept(events, events', i, k) /\ ElsewhereKept(newest, newest', i, k)
      /\ arrived' = arrived /\ late' = {} /\ Rising(events'[i][k])
  BY <1>2, <1>3 DEF ElsewhereKept, InOrder, Passed
<1>7. /\ newest[i][k] <= arrived
      /\ \A q \in 1 .. Len(rxQueue[k]) : newest[i][k] < rxQueue[k][q]
      /\ Between(newest[i][k], events[i][k], arrived, rxQueue[k])
      /\ Rising(rxQueue[k]) /\ \A q \in 1 .. Len(rxQueue[k]) : rxQueue[k][q] <= arrived
  BY <1>2 DEF InOrder, Passed, Queued
<1>8. /\ Ahead(newest'[i][k], rxQueue'[k])
      /\ Between(newest'[i][k], events'[i][k], arrived, rxQueue'[k])
  BY <1>3, <1>5, <1>7 DEF Ahead, Between
<1>9. \A h : Around(h, events'[i][k])
  <2>1. Zeros(events[i][k])
    BY <1>1 DEF InOrder, Emptied
  <2> QED BY <1>3, <2>1 DEF Zeros, Around
<1>10. /\ held'[c] # <<>> /\ Rising(held'[c])
       /\ Between(newest'[i][k], held'[c], arrived, rxQueue'[k])
  <2>1. CASE /\ rxQueue[k] # <<>> /\ held' = [held EXCEPT ![c] = rxQueue[k]]
             /\ rxQueue' = [rxQueue EXCEPT ![k] = <<>>]
    <3>1. held'[c] = rxQueue[k] /\ Len(rxQueue'[k]) = 0 /\ newest' = newest
      BY <1>2, <1>3, <2>1 DEF TypeOK
    <3> QED BY <1>7, <2>1, <3>1 DEF Between
  <2>2. CASE held' = [held EXCEPT ![c] = <<0, 0>>] /\ rxQueue' = rxQueue
    <3>1. held'[c] = <<0, 0>> /\ Len(held'[c]) = 2 /\ \A n \in 1 .. 2 : held'[c][n] = 0
      BY <2>2 DEF TypeOK
    <3> QED BY <3>1 DEF Rising, Between
  <2> QED BY <1>3, <2>1, <2>2
<1> QED BY <1>1, <1>2, <1>4, <1>5, <1>6, <1>8, <1>9, <1>10, ReaderStep

\* The second frame of a batch comes after the event queue, the first before it.
LEMMA ReadBatchOrder ==
    ASSUME Objects \in Nat, TypeOK, Located, InOrder, NEW c \in Callers, ReadBatch(c)
    PROVE  InOrder'
<1> DEFINE i == object[c]  k == ch[c]  h == held[c]  e == events[i][k]
<1>1. pc[c] = "batch" /\ pc[c] \in ReadPcs
  BY DEF ReadBatch, Continue, ReadPcs
<1>2. i \in Object /\ k \in Channels
  BY <1>1, Sited
<1>3. UNCHANGED <<rxQueue, arrived>>
  BY DEF ReadBatch
<1>4. /\ Rising(h) /\ Between(newest[i][k], h, arrived, rxQueue[k]) /\ Around(h, e)
  BY <1>1 DEF InOrder, Batch
<1>5. h \in Seq(Nat) /\ e \in Seq(Nat) /\ Len(h) \in Nat /\ Len(e) \in Nat
      /\ \A n \in 1 .. Len(h) : h[n] \in Nat
  BY <1>2 DEF TypeOK
<1>6. Rising(e) /\ Between(newest[i][k], e, arrived, rxQueue[k])
      /\ newest[i][k] <= arrived /\ \A q \in 1 .. Len(rxQueue[k]) : newest[i][k] < rxQueue[k][q]
  BY <1>2 DEF InOrder, Passed
<1>7. CASE Len(h) = 1 /\ Deliver(c, h[1]) /\ UNCHANGED events
  <2>1. 1 \in 1 .. Len(h) /\ h[1] \in Nat
    BY <1>5, <1>7
  <2>2. ComesNext(i, k, h[1], e)
    BY <1>4, <1>6, <2>1 DEF ComesNext, Between, Around, Ahead
  <2>3. /\ pc'[c] = "idle" /\ late' = {} /\ OthersStay(c)
        /\ ElsewhereKept(newest, newest', i, k)
        /\ Ahead(newest'[i][k], rxQueue[k])
        /\ Between(newest'[i][k], e, arrived, rxQueue[k])
    BY <1>1, <1>7, <2>1, <2>2, Delivered
  <2>4. ElsewhereKept(events, events', i, k) /\ events'[i][k] = e
    BY <1>7 DEF ElsewhereKept
  <2> QED BY <1>1, <1>2, <1>3, <1>6, <2>3, <2>4, ReaderStep
<1>8. CASE /\ Len(h) > 1 /\ events' = Enqueued(i, k, h[2])
           /\ held' = [held EXCEPT ![c] = RemoveAt(h, 2)]
           /\ UNCHANGED <<pc, object, ch, history>>
  <2> DEFINE r == RemoveAt(h, 2)  f == h[2]
  <2>1. 1 \in 1 .. Len(h) /\ 2 \in 1 .. Len(h) /\ f \in Nat
    BY <1>5, <1>8
  <2>2. OthersStay(c) /\ held'[c] = r /\ pc'[c] = "batch" /\ object'[c] = i /\ ch'[c] = k
        /\ newest' = newest /\ late' = {}
    BY <1>1, <1>8 DEF OthersStay, TypeOK, history, InOrder
  <2>3. f # 0 => /\ newest[i][k] < f /\ f <= arrived
                 /\ \A q \in 1 .. Len(rxQueue[k]) : f < rxQueue[k][q]
                 /\ \A n \in 1 .. Len(e) : e[n] # 0 => e[n] < f
    BY <1>4, <2>1 DEF Between, Around
  <2>4. Passed'
    BY <1>2, <1>3, <1>8, <2>1, <2>2, <2>3, EventPassed DEF InOrder
  <2>5. /\ events'[i][k] = e \/ events'[i][k] = Append(e, f)
        /\ ElsewhereKept(events, events', i, k)
    BY <1>2, <1>8, <2>1, EventQueued DEF ElsewhereKept
  <2>6. ElsewhereKept(newest, newest', i, k)
    BY <2>2 DEF ElsewhereKept
  <2>7. /\ Ahead(newest'[i][k], rxQueue'[k]) /\ Rising(events'[i][k])
        /\ Between(newest'[i][k], events'[i][k], arrived, rxQueue'[k])
    BY <1>2, <1>3, <2>4 DEF Passed, Ahead
  <2> HIDE DEF h
  <2>8. /\ Len(r) = Len(h) - 1 /\ r[1] = h[1]
        /\ \A n \in 2 .. Len(h) - 1 : r[n] = h[n + 1]
    BY <1>5, <1>8, SecondRemoved
  <2>9. r \in Seq(Nat) /\ Len(r) > 0 /\ r # <<>>
    BY <1>5, <1>8, <2>8, RemoveSecond
  <2> HIDE DEF r, f
  <2>10. \A n \in 1 .. Len(r) :
            /\ n = 1 => r[n] = h[1]
            /\ n # 1 => 2 < n + 1 /\ n + 1 \in 1 .. Len(h) /\ r[n] = h[n + 1]
    BY <1>5, <1>8, <2>8
  <2>11. Rising(r)
    <3> SUFFICES ASSUME NEW m \in 1 .. Len(r), NEW n \in 1 .. Len(r),
                        m < n, r[m] # 0, r[n] # 0
                 PROVE  r[m] < r[n]
      BY DEF Rising
    <3>1. n # 1
      OBVIOUS
    <3>2. 2 < n + 1 /\ n + 1 \in 1 .. Len(h) /\ r[n] = h[n + 1]
      BY <2>10, <3>1
    <3>3. CASE m = 1
      <4>1. r[m] = h[1] /\ 1 < n + 1
        BY <2>8, <3>2, <3>3
      <4> QED BY <1>4, <2>1, <3>2, <4>1 DEF Rising
    <3>4. CASE m # 1
      <4>1. m + 1 \in 1 .. Len(h) /\ r[m] = h[m + 1]
        BY <2>10, <3>4
      <4>2. m + 1 < n + 1
        OBVIOUS
      <4> QED BY <1>4, <3>2, <4>1, <4>2 DEF Rising
    <3> QED BY <3>3, <3>4
  <2>12. Between(newest[i][k], r, arrived, rxQueue[k])
    <3>1. \A n \in 1 .. Len(r) : \E m \in 1 .. Len(h) : r[n] = h[m]
      BY <2>1, <2>10, Zenon
    <3> QED BY <1>4, <3>1 DEF Between
  <2>13. Around(r, e)
    <3> SUFFICES ASSUME NEW n \in 1 .. Len(r), NEW m \in 1 .. Len(e), r[n] # 0, e[m] # 0
                 PROVE  IF n = 1 THEN r[n] < e[m] ELSE e[m] < r[n]
      BY DEF Around
    <3>1. CASE n = 1
      BY <1>4, <2>1, <2>8, <3>1 DEF Around
    <3>2. CASE n # 1
      <4>1. n + 1 \in 1 .. Len(h) /\ n + 1 # 1 /\ r[n] = h[n + 1]
        BY <2>10, <3>2
      <4> QED BY <1>4, <3>2, <4>1 DEF Around
    <3> QED BY <3>1, <3>2
  <2>14. Around(r, Append(e, f))
    <3>1. /\ Len(Append(e, f)) = Len(e) + 1 /\ Append(e, f)[Len(e) + 1] = f
          /\ \A n \in 1 .. Len(e) : Append(e, f)[n] = e[n]
      BY <1>5, <2>1, Appended, Zenon
    <3> SUFFICES ASSUME NEW n \in 1 .. Len(r), NEW m \in 1 .. Len(Append(e, f)),
                        r[n] # 0, Append(e, f)[m] # 0
                 PROVE  IF n = 1 THEN r[n] < Append(e, f)[m] ELSE Append(e, f)[m] < r[n]
      BY DEF Around
    <3>2. CASE m \in 1 .. Len(e)
      BY <2>13, <3>1, <3>2 DEF Around
    <3>3. CASE m = Len(e) + 1
      <4>1. Append(e, f)[m] = h[2]
        BY <3>1, <3>3 DEF f
      <4>2. CASE n = 1
        <5>1. r[n] = h[1]
          BY <2>10, <4>2
        <5> QED BY <1>4, <2>1, <4>1, <4>2, <5>1 DEF Rising
      <4>3. CASE n # 1
        <5>1. n + 1 \in 1 .. Len(h) /\ 2 < n + 1 /\ r[n] = h[n + 1]
          BY <2>10, <4>3
        <5> QED BY <1>4, <2>1, <4>1, <4>3, <5>1 DEF Rising
      <4> QED BY <4>2, <4>3
    <3>4. m \in 1 .. Len(e) \/ m = Len(e) + 1
      <4> HIDE DEF e
      <4> QED BY <1>5, <3>1
    <3> QED BY <3>2, <3>3, <3>4, Zenon
  <2>15. /\ held'[c] # <<>> /\ Rising(held'[c])
         /\ Between(newest'[i][k], held'[c], arrived, rxQueue'[k])
         /\ Around(held'[c], events'[i][k])
    BY <1>3, <2>2, <2>5, <2>9, <2>11, <2>12, <2>13, <2>14
  <2> QED BY <1>1, <1>2, <1>3, <2>2, <2>5, <2>6, <2>7, <2>15, ReaderStep
<1> QED BY <1>7, <1>8 DEF ReadBatch

LEMMA ArriveOrder == ASSUME TypeOK, Located, InOrder, Arrive PROVE InOrder'
<1>1. /\ arrived' = arrived + 1 /\ arrived \in Nat
      /\ UNCHANGED <<pc, object, ch, held, events, newest, late>>
  BY DEF Arrive, callVars, history, TypeOK
<1>2. PICK k \in Channels : rxQueue' = [rxQueue EXCEPT ![k] = Append(@, arrived')]
  BY DEF Arrive
<1>3. rxQueue[k] \in Seq(Nat) /\ rxQueue'[k] = Append(rxQueue[k], arrived + 1)
      /\ \A l \in Channels : l # k => rxQueue'[l] = rxQueue[l]
  BY <1>1, <1>2 DEF TypeOK
<1>4. /\ Len(rxQueue'[k]) = Len(rxQueue[k]) + 1 /\ rxQueue'[k][Len(rxQueue[k]) + 1] = arrived + 1
      /\ \A q \in 1 .. Len(rxQueue[k]) : rxQueue'[k][q] = rxQueue[k][q]
  BY <1>1, <1>3, Appended
<1>5. Len(rxQueue[k]) \in Nat /\ \A q \in 1 .. Len(rxQueue[k]) : rxQueue[k][q] \in Nat
  BY <1>3
<1>6. \A l \in Channels : \A q \in 1 .. Len(rxQueue'[l]) :
         \/ q \in 1 .. Len(rxQueue[l]) /\ rxQueue'[l][q] = rxQueue[l][q]
         \/ rxQueue'[l][q] = arrived + 1
  <2> TAKE l \in Channels
  <2> TAKE q \in 1 .. Len(rxQueue'[l])
  <2>1. CASE l # k
    BY <1>3, <2>1
  <2>2. CASE l = k
    <3>1. q \in 1 .. Len(rxQueue[k]) + 1
      BY <1>4, <2>2
    <3>2. q \in 1 .. Len(rxQueue[k]) \/ q = Len(rxQueue[k]) + 1
      BY <1>5, <3>1
    <3> QED BY <1>4, <2>2, <3>2
  <2> QED BY <2>1, <2>2
<1>7. Queued'
  <2>1. Rising(rxQueue[k]) /\ \A q \in 1 .. Len(rxQueue[k]) :
                                 0 < rxQueue[k][q] /\ rxQueue[k][q] <= arrived
    BY DEF InOrder, Queued
  <2>2. \A q \in 1 .. Len(rxQueue[k]) : rxQueue[k][q] < arrived + 1
    BY <1>1, <1>5, <2>1
  <2>3. Rising(rxQueue'[k])
    BY <1>1, <1>3, <2>1, <2>2, RisingAppended
  <2>4. \A l \in Channels : \A q \in 1 .. Len(rxQueue[l]) :
           0 < rxQueue[l][q] /\ rxQueue[l][q] <= arrived /\ rxQueue[l][q] \in Nat
    BY DEF InOrder, Queued, TypeOK
  <2>5. \A l \in Channels : \A q \in 1 .. Len(rxQueue'[l]) :
           0 < rxQueue'[l][q] /\ rxQueue'[l][q] <= arrived'
    BY <1>1, <1>6, <2>4
  <2>6. \A l \in Channels : Rising(rxQueue'[l])
    BY <1>3, <2>3 DEF InOrder, Queued
  <2> QED BY <2>5, <2>6 DEF Queued
<1>8. ASSUME NEW t \in Seq(Nat), NEW low, NEW l \in Channels,
             Between(low, t, arrived, rxQueue[l])
      PROVE  Between(low, t, arrived', rxQueue'[l])
  <2> SUFFICES ASSUME NEW n \in 1 .. Len(t), t[n] # 0
               PROVE  /\ low < t[n] /\ t[n] <= arrived'
                      /\ \A q \in 1 .. Len(rxQueue'[l]) : t[n] < rxQueue'[l][q]
    BY DEF Between
  <2>1. /\ t[n] \in Nat /\ low < t[n] /\ t[n] <= arrived
        /\ \A q \in 1 .. Len(rxQueue[l]) : t[n] < rxQueue[l][q]
    BY <1>8 DEF Between
  <2>2. t[n] < arrived + 1 /\ t[n] <= arrived + 1
    BY <1>1, <2>1
  <2> QED BY <1>1, <1>6, <2>1, <2>2
<1>9. Passed'
  <2> SUFFICES ASSUME NEW i \in Object, NEW l \in Channels
               PROVE  /\ newest[i][l] <= arrived'
                      /\ \A q \in 1 .. Len(rxQueue'[l]) : newest[i][l] < rxQueue'[l][q]
                      /\ Rising(events[i][l])
                      /\ Between(newest[i][l], events[i][l], arrived', rxQueue'[l])
    BY <1>1 DEF Passed
  <2>1. newest[i] \in [Channels -> Nat] /\ newest[i][l] \in Nat /\ events[i][l] \in Seq(Nat)
    BY DEF TypeOK
  <2>2. /\ newest[i][l] <= arrived
        /\ \A q \in 1 .. Len(rxQueue[l]) : newest[i][l] < rxQueue[l][q]
        /\ Rising(events[i][l]) /\ Between(newest[i][l], events[i][l], arrived, rxQueue[l])
    BY DEF InOrder, Passed
  <2>3. newest[i][l] < arrived + 1 /\ newest[i][l] <= arrived + 1
    BY <1>1, <2>1, <2>2
  <2>4. \A q \in 1 .. Len(rxQueue'[l]) : newest[i][l] < rxQueue'[l][q]
    BY <1>6, <2>2, <2>3
  <2>5. Between(newest[i][l], events[i][l], arrived', rxQueue'[l])
    BY <1>8, <2>1, <2>2
  <2> QED BY <1>1, <2>2, <2>3, <2>4, <2>5
<1>10. Batch'
  <2> SUFFICES ASSUME NEW d \in Callers, pc[d] = "batch"
               PROVE  /\ held[d] # <<>> /\ Rising(held[d])
                      /\ Between(newest[object[d]][ch[d]], held[d], arrived', rxQueue'[ch[d]])
                      /\ Around(held[d], events[object[d]][ch[d]])
    BY <1>1 DEF Batch
  <2>1. ch[d] \in Channels /\ held[d] \in Seq(Nat)
    BY DEF Located, ReadPcs, TypeOK
  <2>2. /\ held[d] # <<>> /\ Rising(held[d])
        /\ Between(newest[object[d]][ch[d]], held[d], arrived, rxQueue[ch[d]])
        /\ Around(held[d], events[object[d]][ch[d]])
    BY DEF InOrder, Batch
  <2> QED BY <1>8, <2>1, <2>2
<1>11. Emptied' /\ OneReader'
  BY <1>1 DEF InOrder, Emptied, OneReader
<1> QED BY <1>1, <1>7, <1>9, <1>10, <1>11 DEF InOrder

\* Calls that read nothing.
LEMMA QuietOrder ==
    ASSUME TypeOK, Located, InOrder, NEW c \in Callers,
           \/ NewToomoss(c) \/ ensureLinReady(c) \/ UsbOpen(c) \/ LinExInit(c)
           \/ LinMasterSync(c) \/ SyncReturns(c)
           \/ ConfigureELINS(c) \/ ELINSInit(c)
           \/ Close(c) \/ ELINSStop(c) \/ CloseDevice(c) \/ CloseInstance(c) \/ CloseJoins(c)
    PROVE  InOrder'
<1> USE DEF history, frameVars, OthersStay
<1>1. CASE NewToomoss(c) \/ LinMasterSync(c) \/ ConfigureELINS(c) \/ Close(c)
  <2>1. pc'[c] \notin ReadPcs /\ OthersStay(c)
    BY <1>1 DEF NewToomoss, LinMasterSync, ConfigureELINS, Close, Enter, ReadPcs, TypeOK
  <2>2. UNCHANGED <<events, arrived, newest, late, rxQueue>>
    BY <1>1 DEF NewToomoss, LinMasterSync, ConfigureELINS, Close
  <2> QED BY <2>1, <2>2, OrderAside DEF ReadPcs
<1>2. CASE ensureLinReady(c) \/ UsbOpen(c) \/ SyncReturns(c) \/ ELINSInit(c) \/ ELINSStop(c)
           \/ CloseInstance(c) \/ CloseJoins(c)
  <2>1. pc'[c] \notin ReadPcs /\ OthersStay(c)
    BY <1>2 DEF ensureLinReady, UsbOpen, SyncReturns, ELINSInit, ELINSStop, CloseInstance,
          CloseJoins, Goto, Return, ReadPcs, TypeOK
  <2>2. UNCHANGED <<events, arrived, newest, late, rxQueue>>
    BY <1>2 DEF ensureLinReady, UsbOpen, SyncReturns, ELINSInit, ELINSStop, CloseInstance,
          CloseJoins
  <2> QED BY <2>1, <2>2, OrderAside DEF ReadPcs
<1>3. CASE LinExInit(c) \/ CloseDevice(c)
  <2>1. pc'[c] \notin ReadPcs /\ OthersStay(c)
    BY <1>3 DEF LinExInit, CloseDevice, Goto, Return, ReadPcs, TypeOK
  <2>2. UNCHANGED <<events, arrived, newest, late>>
    BY <1>3 DEF LinExInit, CloseDevice
  <2>3. rxQueue' = rxQueue \/ rxQueue' = [k \in Channels |-> <<>>]
    BY <1>3 DEF LinExInit, CloseDevice, usbClose
  <2> QED BY <2>1, <2>2, <2>3, OrderAside DEF ReadPcs
<1> QED BY <1>1, <1>2, <1>3

\* Who comes to read is alone there, and turns to the library only when there
\* is nothing in the event queue.
LEMMA ReadOrder ==
    ASSUME TypeOK, Located, InOrder, NEW c \in Callers,
           \/ ReadEvent(c) \/ ReadUnqueued(c) \/ ensureToomossLoaded(c)
           \/ LinExSlaveGetData(c)
           \/ Fetched(c) /\ pc'[c] # "batch"
    PROVE  InOrder'
<1> USE DEF history, frameVars, OthersStay
<1>1. CASE ReadEvent(c)
  <2>1. PICK i \in 1 .. objects, k \in Channels : ~Consumed(i, k) /\ Enter(c, i, k, "poll")
    BY <1>1 DEF ReadEvent
  <2>2. pc'[c] = "poll" /\ object'[c] = i /\ ch'[c] = k /\ OthersStay(c)
    BY <2>1 DEF Enter, TypeOK
  <2>3. \A d \in Callers \ {c} : pc[d] \in ReadPcs => object[d] # i \/ ch[d] # k
    BY <2>1 DEF Consumed
  <2>4. UNCHANGED <<events, arrived, newest, late, rxQueue>>
    BY <1>1 DEF ReadEvent
  <2> QED BY <2>2, <2>3, <2>4, OrderAside
<1>2. CASE \/ ReadUnqueued(c) \/ ensureToomossLoaded(c) \/ LinExSlaveGetData(c)
           \/ Fetched(c) /\ pc'[c] # "batch"
  <2>1. pc[c] \in ReadPcs
    BY <1>2 DEF ReadUnqueued, ensureToomossLoaded, LinExSlaveGetData, Fetched, Continue, ReadPcs
  <2>2. /\ OthersStay(c)
        /\ \/ pc'[c] = "idle"
           \/ /\ pc'[c] \in {"poll", "ensure", "get", "fetch"}
              /\ object'[c] = object[c] /\ ch'[c] = ch[c]
    BY <1>2 DEF ReadUnqueued, ensureToomossLoaded, LinExSlaveGetData, Fetched, Goto, Return, TypeOK
  <2>3. UNCHANGED <<events, arrived, newest, late, rxQueue>>
    BY <1>2 DEF ReadUnqueued, ensureToomossLoaded, LinExSlaveGetData, Fetched, TypeOK
  <2>4. pc'[c] \in {"ensure", "get", "fetch"} => Zeros(events[object[c]][ch[c]])
    <3>1. CASE ReadUnqueued(c)
      BY <3>1 DEF ReadUnqueued, Zeros
    <3>2. CASE ensureToomossLoaded(c) \/ LinExSlaveGetData(c)
      <4>1. pc[c] \in {"ensure", "get"}
        BY <3>2 DEF ensureToomossLoaded, LinExSlaveGetData, Continue
      <4> QED BY <4>1 DEF InOrder, Emptied
    <3>3. CASE Fetched(c) /\ pc'[c] # "batch"
      BY <3>3 DEF Fetched, Goto, Return, TypeOK
    <3> QED BY <1>2, <3>1, <3>2, <3>3
  <2>5. pc'[c] \in ReadPcs =>
          \A d \in Callers \ {c} :
             pc[d] \in ReadPcs => object[d] # object'[c] \/ ch[d] # ch'[c]
    BY <2>1, <2>2 DEF InOrder, OneReader, ReadPcs
  <2> QED BY <2>2, <2>3, <2>4, <2>5, OrderAside
<1> QED BY <1>1, <1>2

LEMMA StepOrder ==
    ASSUME Objects \in Nat, TypeOK, Inv, InOrder, [Next]_vars
    PROVE  InOrder'
<1>1. Located
  BY DEF Inv
<1>2. CASE UNCHANGED vars
  <2>1. UNCHANGED <<pc, object, ch, held, rxQueue, events, arrived, newest, late>>
    BY <1>2 DEF vars, callVars, frameVars, history
  <2> QED BY <2>1 DEF InOrder, Queued, Passed, Batch, Emptied, OneReader, Between
<1>3. CASE Arrive
  BY <1>1, <1>3, ArriveOrder
<1>4. ASSUME NEW c \in Callers,
             \/ NewToomoss(c) \/ ensureLinReady(c) \/ UsbOpen(c) \/ LinExInit(c)
             \/ LinMasterSync(c) \/ SyncReturns(c) \/ Enqueue(c)
             \/ ConfigureELINS(c) \/ ELINSInit(c)
             \/ ReadEvent(c) \/ ReadQueued(c) \/ ReadUnqueued(c) \/ ensureToomossLoaded(c)
             \/ LinExSlaveGetData(c) \/ Fetched(c) \/ ReadBatch(c)
             \/ Close(c) \/ ELINSStop(c) \/ CloseDevice(c) \/ CloseInstance(c) \/ CloseJoins(c)
      PROVE  InOrder'
  BY <1>1, <1>4, EnqueueOrder, ReadQueuedOrder, FetchedOrder, ReadBatchOrder, QuietOrder,
     ReadOrder
<1> QED BY <1>2, <1>3, <1>4 DEF Next

LEMMA InitOrder == ASSUME Init PROVE InOrder
<1>1. /\ \A c \in Callers : pc[c] = "idle"
      /\ \A k \in Channels : rxQueue[k] = <<>>
      /\ \A i \in Object, k \in Channels : events[i][k] = <<>> /\ newest[i][k] = 0
      /\ arrived = 0 /\ late = {}
  BY DEF Init
<1>2. Queued /\ Passed
  BY <1>1 DEF Queued, Passed, Rising, Between
<1>3. Batch /\ Emptied /\ OneReader
  BY <1>1 DEF Batch, Emptied, OneReader, ReadPcs
<1> QED BY <1>1, <1>2, <1>3 DEF InOrder

\* All of it, for who uses Toomoss as one driver among others.
AllInv == TypeOK /\ Inv /\ Elins /\ Freed /\ InOrder

LEMMA InitAll == ASSUME Objects \in Nat, Init PROVE AllInv
<1>1. Elins /\ Freed
  BY DEF Init, Elins, Freed, NewPcs
<1> QED BY <1>1, InitTypes, InitInv, InitOrder DEF AllInv

LEMMA StepAll == ASSUME Objects \in Nat, AllInv, [Next]_vars PROVE AllInv'
  BY StepInv, StepReleases, StepOrder DEF AllInv

LEMMA AllGood ==
    ASSUME AllInv
    PROVE  TypeOK /\ OwnDevice /\ Released /\ ReadInOrder
<1>1. OwnDevice
  BY DEF AllInv, Inv, InUse, Up, OwnDevice
<1>2. Released
  BY DEF AllInv, Inv, Generations, Elins, Freed, Released
<1> QED BY <1>1, <1>2 DEF AllInv, InOrder, ReadInOrder

LEMMA AlwaysAll == ASSUME Objects \in Nat PROVE Spec => []AllInv
<1>1. Init => AllInv
  BY InitAll
<1>2. AllInv /\ [Next]_vars => AllInv'
  BY StepAll
<1> QED BY <1>1, <1>2, PTL DEF Spec

\* The one consumer of a channel gets its frames in the order of their arrival,
\* though ReadEvent returns the first frame of a batch and leaves the others in
\* the event queue, where other calls put their echoes (toomoss.go:855-862).
THEOREM ReadsInOrder == ASSUME Objects \in Nat PROVE Spec => []ReadInOrder
  BY AlwaysAll, AllGood, PTL

\* A Close without an error has stopped ELINS on every channel, closed the adapter
\* and freed the library, which is back only if a ReadEvent overlapped the Close on
\* macOS (toomoss.go:1044, toomoss_darwin.go:691-700).
THEOREM ReleasedSafe == ASSUME Objects \in Nat PROVE Spec => []Released
  BY AlwaysAll, AllGood, PTL
=============================================================================
