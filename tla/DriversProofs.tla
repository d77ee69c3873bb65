----------------------------- MODULE DriversProofs -----------------------------
(***************************************************************************)
(* Proofs about the hardware drivers, for any goroutines, channels, queue  *)
(* lengths and bounds: each keeps an invariant of its own, and MCDrivers   *)
(* keeps that of the driver it chose.                                      *)
(*                                                                         *)
(* PCAN, Vector and TSMaster share their calls with DriverCalls, whose     *)
(* invariants DriverCallsProofs has: FramesInv, that an answer reaches the *)
(* MasterRead that asked for it, and InOrder, that what a channel's reader *)
(* takes itself it takes in order.  What is here is their own: the library *)
(* they open and close, and who holds callMu meanwhile.  Toomoss has a     *)
(* module of its own, ToomossDriverProofs, with two objects here.          *)
(***************************************************************************)
EXTENDS MCDrivers, DriverCallsProofs, FiniteSetTheorems

TP == INSTANCE ToomossDriverProofs WITH MaxCalls <- ToomossCalls, MaxFrames <- ToomossFrames,
                                        Objects <- 2

-----------------------------------------------------------------------------
(***************************************************************************)
(* The invariant of the PCAN driver.                                       *)
(***************************************************************************)
PcanConstructing == {"register", "connect", "initialize"}
PcanTearingDown == {"close", "disconnect", "unload"}
PcanHolding == P!InLibrary \cup {"disconnect", "unload"}
PcanCalling ==
    {"channel", "lock", "readLock", "call", "receive", "poll", "got", "echo", "join"}
PcanOutside == (PcanCalling \ P!InLibrary) \cup {"idle"}
PcanPlaces == {"idle"} \cup PcanConstructing \cup PcanTearingDown \cup PcanCalling

PcanPlaced == pc \in [Callers -> PcanPlaces]

\* callMu belongs to whoever is between its lock and its unlock.
PcanMuHeld == \A c \in Callers : pc[c] \in PcanHolding => callMu = c

\* Who is inside the library has found it there; the client is a client.
PcanUp ==
    /\ \A c \in Callers : pc[c] \in P!InLibrary => loaded /\ client
    /\ client => registered

\* Nobody has the driver before the constructor has returned it.
PcanAlone ==
    \A c \in Callers : pc[c] \in PcanConstructing =>
        /\ ~opened /\ once = "new" /\ op[c] = "none"
        /\ \A d \in Callers : d # c => pc[d] = "idle"

\* closeOnce lets one caller tear the driver down.
PcanOneCloses ==
    \A c \in Callers : pc[c] \in PcanTearingDown =>
        /\ once = "running"
        /\ \A d \in Callers : d # c => pc[d] \notin PcanTearingDown

\* The driver has noted all that Close must undo.
PcanNoted ==
    /\ attached \subseteq connectedHardware
    /\ once = "new" \/ (\E c \in Callers : pc[c] \in {"close", "disconnect"})
           => (registered => client)

\* What a Close without errors has undone by now.
PcanUndone ==
    \A c \in Callers :
        pc[c] = "unload" /\ ~closeErr => attached = {} /\ ~registered

PcanTypes ==
    /\ op \in [Callers -> {"none", "close"} \cup P!Operations]
    /\ callMu \in Callers \cup {"free"}
    /\ closed \in BOOLEAN /\ once \in {"new", "running", "done"}
    /\ opened \in BOOLEAN /\ loaded \in BOOLEAN
    /\ client \in BOOLEAN /\ registered \in BOOLEAN
    /\ connectedHardware \subseteq Channels /\ attached \subseteq Channels
    /\ closeErr \in BOOLEAN

PcanInv ==
    /\ PcanPlaced /\ PcanMuHeld /\ PcanUp /\ PcanAlone /\ PcanOneCloses
    /\ PcanNoted /\ PcanUndone /\ P!ClosedCleanly

-----------------------------------------------------------------------------
(***************************************************************************)
(* The invariant of the Vector driver, which opens three things in turn.   *)
(***************************************************************************)
VectorConstructing == {"openDriver", "openPort", "activate"}
VectorTearingDown == {"close", "deactivate", "closeDriver"}
VectorHolding == V!InLibrary \cup {"deactivate", "closeDriver"}
VectorCalling ==
    {"channel", "lock", "readLock", "call", "switch", "send", "receive", "poll",
     "idleLibrary", "got", "join"}
VectorOutside == (VectorCalling \ V!InLibrary) \cup {"idle"}
VectorPlaces == {"idle"} \cup VectorConstructing \cup VectorTearingDown \cup VectorCalling

VectorPlaced == pc \in [Callers -> VectorPlaces]

VectorMuHeld == \A c \in Callers : pc[c] \in VectorHolding => callMu = c

\* Who is inside the library has found the port there, and the port is open.
VectorUp ==
    /\ \A c \in Callers : pc[c] \in V!InLibrary => port
    /\ \A c \in Callers : pc[c] = "closeDriver" => ~port
    /\ \A c \in Callers : pc[c] = "openPort" => driverOpen
    /\ port => portOpen /\ driverOpen

VectorAlone ==
    \A c \in Callers : pc[c] \in VectorConstructing =>
        /\ ~opened /\ once = "new" /\ op[c] = "none"
        /\ \A d \in Callers : d # c => pc[d] = "idle"

VectorOneCloses ==
    \A c \in Callers : pc[c] \in VectorTearingDown =>
        /\ once = "running"
        /\ \A d \in Callers : d # c => pc[d] \notin VectorTearingDown

VectorNoted ==
    /\ once = "new" \/ (\E c \in Callers : pc[c] \in {"close", "deactivate"})
           => (active \/ portOpen => port)
    /\ \A c \in Callers : pc[c] \in {"openDriver", "openPort"} => ~port
    /\ \A c \in Callers : pc[c] = "activate" => port

VectorUndone ==
    \A c \in Callers : pc[c] = "closeDriver" /\ ~closeErr => ~active /\ ~portOpen

\* A header is under way from its preparation on, with callMu held.
VectorPrepared ==
    \A c \in Callers :
        /\ pc[c] \in {"switch", "send"} => op[c] \in {"write", "schedule", "request", "masterRead"}
        /\ pc[c] = "switch" /\ op[c] \in {"write", "schedule"} => response[ch[c]] = c
        /\ pc[c] = "send" => op[c] # "schedule"

VectorTypes ==
    /\ op \in [Callers -> {"none", "close"} \cup V!Operations]
    /\ callMu \in Callers \cup {"free"}
    /\ closed \in BOOLEAN /\ once \in {"new", "running", "done"}
    /\ opened \in BOOLEAN /\ driverOpen \in BOOLEAN
    /\ port \in BOOLEAN /\ portOpen \in BOOLEAN /\ active \in BOOLEAN
    /\ response \in [Channels -> Callers \cup {"none"}]
    /\ answers \in [Channels -> BOOLEAN]
    /\ closeErr \in BOOLEAN

VectorInv ==
    /\ VectorPlaced /\ VectorMuHeld /\ VectorUp /\ VectorAlone /\ VectorOneCloses
    /\ VectorNoted /\ VectorUndone /\ VectorPrepared
    /\ V!HeaderAsPrepared /\ V!ClosedCleanly

-----------------------------------------------------------------------------
(***************************************************************************)
(* The invariant of the TSMaster driver, with its receive loop, callback   *)
(* and the frames on their way through the two.                            *)
(***************************************************************************)
TsmasterConstructing == {"connect", "register", "start"}
TsmasterTearingDown == {"close", "waitLoop", "disconnect", "shut"}
TsmasterCalling == {"channel", "lock", "call", "describe", "echo", "poll", "join"}
TsmasterPlaces ==
    {"idle"} \cup TsmasterConstructing \cup TsmasterTearingDown \cup TsmasterCalling

TsmasterPlaced == pc \in [Callers -> TsmasterPlaces]

TsmasterAlone ==
    \A c \in Callers : pc[c] \in TsmasterConstructing =>
        /\ ~opened /\ once = "new" /\ op[c] = "none" /\ loop = "off"
        /\ \A d \in Callers : d # c => pc[d] = "idle"

TsmasterOneCloses ==
    /\ closed <=> once # "new"
    /\ \A c \in Callers : pc[c] \in TsmasterTearingDown =>
        /\ once = "running"
        /\ \A d \in Callers : d # c => pc[d] \notin TsmasterTearingDown

\* What Close has stopped stays stopped.
TsmasterStopped ==
    /\ \A c \in Callers : pc[c] \in {"disconnect", "shut"} => S!LoopGone
    /\ once = "done" => S!LoopGone
    /\ shut # {} => once = "done"

\* Unless the library was still reporting when Close closed the queues, it
\* reports nothing any more.
TsmasterQuiet == shut # {} /\ ~reporting => ~S!Reporting

\* While Close has overlapped no call there is none.
TsmasterCalm ==
    closed /\ ~overlapped =>
        \A c \in Callers : pc[c] \in {"idle", "join"} \cup TsmasterTearingDown

TsmasterTypes ==
    /\ op \in [Callers -> {"none", "close"} \cup S!Operations]
    /\ callMu \in Callers \cup {"free"}
    /\ closed \in BOOLEAN /\ once \in {"new", "running", "done"}
    /\ opened \in BOOLEAN /\ connected \in BOOLEAN /\ registered \in BOOLEAN
    /\ loop \in {"off", "top", "lock", "dispatch", "gone"}
    /\ batch \in Seq(Frame) /\ callback \in Seq(Frame)
    /\ inCallback \in Frame \cup {NoFrame} /\ last \in Frame \cup {NoFrame}
    /\ made \subseteq Channels /\ shut \subseteq made
    /\ panicked \in BOOLEAN /\ overlapped \in BOOLEAN /\ reporting \in BOOLEAN

TsmasterInv ==
    /\ TsmasterPlaced /\ TsmasterAlone /\ TsmasterOneCloses /\ TsmasterStopped
    /\ TsmasterQuiet /\ TsmasterCalm
    /\ S!PanicOnlyIfOverlapped

\* The frames on their two ways.
TsmasterFair ==
    /\ Elems(batch) \subseteq FairFrames /\ Elems(callback) \subseteq FairFrames
    /\ inCallback \in FairFrames \cup {NoFrame}

LEMMA PcanInitInv == P!Init => PcanInv
  BY SMT DEF P!Init, P!CallsInit, PcanInv, PcanPlaced, PcanMuHeld, PcanUp, PcanAlone,
        PcanOneCloses, PcanNoted, PcanUndone, P!ClosedCleanly, PcanConstructing,
        PcanTearingDown, PcanHolding, P!InLibrary, PcanCalling, PcanPlaces

-----------------------------------------------------------------------------
(***************************************************************************)
(* PCAN: steps of a call, which leave the driver's own state alone.        *)
(***************************************************************************)

\* A caller moves on outside the library, and may leave it by that.
LEMMA PcanCallStep ==
    ASSUME PcanInv, NEW c \in Callers, NEW at \in PcanOutside,
           pc[c] \in PcanCalling \cup {"idle"},
           pc[c] = "idle" => opened,
           P!Goto(c, at),
           callMu' = callMu \/ pc[c] \in P!InLibrary,
           P!Running
    PROVE  PcanInv'
<1> USE DEF PcanInv, P!Goto, P!Running, P!hardwareVars, P!closeVars, PcanOutside,
       PcanCalling, P!InLibrary
<1>1. pc' \in [Callers -> PcanPlaces] /\ pc'[c] = at /\ \A d \in Callers \ {c} : pc'[d] = pc[d]
  BY DEF PcanPlaced, PcanPlaces
<1>2. PcanPlaced'
  BY <1>1 DEF PcanPlaced
<1>3. PcanMuHeld'
  BY <1>1 DEF PcanMuHeld, PcanHolding, P!InLibrary
<1>4. PcanUp'
  BY <1>1 DEF PcanUp, P!InLibrary
<1>5. PcanAlone'
  BY <1>1 DEF PcanAlone, PcanConstructing
<1>6. PcanOneCloses'
  BY <1>1 DEF PcanOneCloses, PcanTearingDown
<1>7. PcanNoted' /\ PcanUndone' /\ P!ClosedCleanly'
  BY <1>1 DEF PcanNoted, PcanUndone, P!ClosedCleanly
<1> QED BY <1>2, <1>3, <1>4, <1>5, <1>6, <1>7

\* The caller that gets callMu finds the library there.
LEMMA PcanLockStep ==
    ASSUME PcanInv, NEW c \in Callers, P!Lock(c)
    PROVE  PcanInv'
<1>1. CASE ~P!validateChannelStateOnly
  <2>1. /\ pc[c] \in PcanCalling \cup {"idle"} /\ pc[c] # "idle"
        /\ P!Goto(c, "idle") /\ callMu' = callMu /\ P!Running
    BY <1>1 DEF P!Lock, P!Return, P!Leave, PcanCalling
  <2>2. "idle" \in PcanOutside
    BY DEF PcanOutside
  <2> QED BY <2>1, <2>2, PcanCallStep
<1>2. CASE P!validateChannelStateOnly
  <2> USE DEF PcanInv, P!Running, P!hardwareVars, P!closeVars
  <2>1. PICK at \in P!InLibrary : P!Goto(c, at)
    BY <1>2 DEF P!Lock, P!InLibrary
  <2>2. /\ pc[c] \in {"lock", "readLock"} /\ callMu = "free" /\ callMu' = c
        /\ loaded /\ client /\ P!Running
    BY <1>2 DEF P!Lock, P!validateChannelStateOnly
  <2>3. pc' \in [Callers -> PcanPlaces] /\ pc'[c] = at /\ \A d \in Callers \ {c} : pc'[d] = pc[d]
    BY <2>1, <2>2 DEF P!Goto, PcanPlaced, PcanPlaces, PcanCalling, P!InLibrary
  <2>4. PcanPlaced' /\ PcanMuHeld'
    BY <2>2, <2>3, DriverAssumption DEF PcanPlaced, PcanMuHeld
  <2>5. PcanUp' /\ PcanAlone' /\ PcanOneCloses'
    BY <2>2, <2>3 DEF PcanUp, PcanAlone, PcanOneCloses, P!InLibrary, PcanConstructing,
           PcanTearingDown
  <2>6. PcanNoted' /\ PcanUndone' /\ P!ClosedCleanly'
    BY <2>2, <2>3 DEF PcanNoted, PcanUndone, P!ClosedCleanly, P!InLibrary
  <2> QED BY <2>4, <2>5, <2>6
<1> QED BY <1>1, <1>2

\* A call that has started, one step of it.
LEMMA PcanWorkStep ==
    ASSUME PcanInv, NEW c \in Callers,
           \/ P!LockChannel(c) \/ P!CallEnds(c) \/ P!Reset(c)
           \/ P!WriteMessage(c) \/ P!Echo(c)
           \/ P!MasterRead(c) \/ P!Receives(c) \/ P!Join(c)
    PROVE  PcanInv'
<1>1. /\ pc[c] \in PcanCalling \cup {"idle"} /\ pc[c] # "idle"
      /\ P!Running
      /\ callMu' = callMu \/ pc[c] \in P!InLibrary
  BY DEF P!LockChannel, P!lock, P!CallEnds, P!Reset, P!WriteMessage, P!Echo, P!MasterRead,
         P!Receives, P!TakeQueued, P!TimeOut, P!LookFurther, P!readOne, P!Dispatch, P!Join,
         P!Joined, P!LibraryCall,
         PcanCalling, P!InLibrary, P!Running, P!closeVars
<1>2. \E at \in {"lock", "idle", "echo", "poll", "readLock", "got"} : P!Goto(c, at)
  BY DEF P!LockChannel, P!lock, P!CallEnds, P!Reset, P!WriteMessage, P!Echo, P!MasterRead,
         P!Receives,
         P!TakeQueued, P!TimeOut, P!LookFurther, P!readOne, P!Dispatch, P!Join, P!Joined,
         P!Return, P!Leave, P!Deliver
<1>3. PICK at \in PcanOutside : P!Goto(c, at)
  BY <1>2 DEF PcanOutside, PcanCalling, P!InLibrary
<1> QED BY <1>1, <1>3, PcanCallStep

\* A call, or a Close that is not the first, begins.
LEMMA PcanStartStep ==
    ASSUME PcanInv, NEW c \in Callers, P!Start(c) \/ (P!Close(c) /\ once # "new")
    PROVE  PcanInv'
<1>1. pc[c] \in PcanCalling \cup {"idle"} /\ opened /\ P!Running /\ callMu' = callMu
  BY DEF P!Start, P!Close, P!Begin, P!BeginClose, P!Running, P!closeVars
<1>2. \E at \in {"poll", "channel", "lock", "join"} : P!Goto(c, at)
  BY DEF P!Start, P!Close, P!Begin, P!BeginClose, P!FirstStep
<1>3. PICK at \in PcanOutside : P!Goto(c, at)
  BY <1>2 DEF PcanOutside, PcanCalling, P!InLibrary
<1> QED BY <1>1, <1>3, PcanCallStep

-----------------------------------------------------------------------------
(***************************************************************************)
(* The constructor and the first Close.                                    *)
(***************************************************************************)
LEMMA PcanConstructStep ==
    ASSUME PcanInv, NEW c \in Callers,
           P!register(c) \/ P!mapHardware(c) \/ P!connect(c) \/ P!initialize(c)
    PROVE  PcanInv'
<1> USE DEF PcanInv, P!Opening, P!CleanUp, P!hardwareVars
<1>1. pc[c] \in PcanConstructing /\ UNCHANGED <<op, callMu, loaded, closeErr>>
  BY DEF P!register, P!mapHardware, P!connect, P!initialize, PcanConstructing, P!callVars
<1>2. once = "new" /\ \A d \in Callers : d # c => pc[d] = "idle"
  BY <1>1 DEF PcanAlone
<1>3. \/ /\ P!Goto(c, "close") /\ once' = "running" /\ UNCHANGED opened
      \/ /\ P!Goto(c, "idle") /\ once' = "new"
      \/ /\ P!Goto(c, "connect") /\ once' = "new" /\ UNCHANGED opened
      \/ /\ P!Goto(c, "initialize") /\ once' = "new" /\ UNCHANGED opened
  BY <1>2 DEF P!register, P!mapHardware, P!connect, P!initialize
<1>4. /\ attached' \subseteq connectedHardware'
      /\ client' => registered'
      /\ registered' => client'
  BY <1>2 DEF P!register, P!mapHardware, P!connect, P!initialize, PcanNoted, PcanUp, P!Noted
<1>5. /\ pc' \in [Callers -> PcanPlaces]
      /\ pc'[c] \in {"close", "idle", "connect", "initialize"}
      /\ \A d \in Callers : d # c => pc'[d] = "idle"
  BY <1>2, <1>3 DEF P!Goto, PcanPlaced, PcanPlaces, PcanConstructing, PcanTearingDown
<1>6. PcanPlaced' /\ PcanMuHeld' /\ PcanUp'
  BY <1>4, <1>5 DEF PcanPlaced, PcanMuHeld, PcanUp, PcanHolding, P!InLibrary
<1>7. pc'[c] \in PcanConstructing => ~opened' /\ once' = "new"
  BY <1>1, <1>3, <1>5 DEF PcanAlone, P!Goto, PcanPlaced, PcanConstructing
<1>8. PcanAlone'
  BY <1>1, <1>5, <1>7 DEF PcanAlone, PcanConstructing
<1>9. pc'[c] \in PcanTearingDown => once' = "running"
  BY <1>3, <1>5 DEF P!Goto, PcanPlaced, PcanTearingDown
<1>10. PcanOneCloses'
  BY <1>5, <1>9 DEF PcanOneCloses, PcanTearingDown
<1>11. PcanNoted' /\ PcanUndone' /\ P!ClosedCleanly'
  BY <1>3, <1>4, <1>5 DEF PcanNoted, PcanUndone, P!ClosedCleanly
<1> QED BY <1>6, <1>8, <1>10, <1>11

\* The first Close.
LEMMA PcanCloseStep ==
    ASSUME PcanInv, NEW c \in Callers, P!Close(c), once = "new"
    PROVE  PcanInv'
<1> USE DEF PcanInv, P!hardwareVars
<1>1. /\ pc[c] = "idle" /\ opened
      /\ P!Goto(c, "close") /\ once' = "running"
      /\ UNCHANGED <<opened, callMu, client, registered, connectedHardware, attached,
                     loaded, closeErr>>
  BY DEF P!Close, P!BeginClose
<1>2. pc' \in [Callers -> PcanPlaces] /\ pc'[c] = "close" /\ \A d \in Callers \ {c} : pc'[d] = pc[d]
  BY <1>1 DEF P!Goto, PcanPlaced, PcanPlaces, PcanTearingDown
<1>3. \A d \in Callers : pc[d] \notin PcanTearingDown /\ pc[d] \notin PcanConstructing
  BY <1>1 DEF PcanOneCloses, PcanAlone
<1>4. PcanPlaced' /\ PcanMuHeld' /\ PcanUp'
  BY <1>1, <1>2 DEF PcanPlaced, PcanMuHeld, PcanUp, PcanHolding, P!InLibrary
<1>5. PcanAlone' /\ PcanOneCloses'
  BY <1>1, <1>2, <1>3 DEF PcanAlone, PcanOneCloses, PcanConstructing, PcanTearingDown
<1>6. PcanNoted' /\ PcanUndone' /\ P!ClosedCleanly'
  BY <1>1, <1>2, <1>3 DEF PcanNoted, PcanUndone, P!ClosedCleanly, PcanTearingDown
<1> QED BY <1>4, <1>5, <1>6

\* The one that closes waits for callMu and undoes what the driver has noted.
LEMMA PcanTearDownStep ==
    ASSUME PcanInv, NEW c \in Callers, P!LockClose(c) \/ P!disconnect(c) \/ P!unload(c)
    PROVE  PcanInv'
<1> USE DEF PcanInv, P!Closing, P!hardwareVars
<1>1. pc[c] \in PcanTearingDown /\ once = "running" /\ UNCHANGED opened
  BY DEF P!LockClose, P!disconnect, P!unload, PcanOneCloses, PcanTearingDown
<1>2. \A d \in Callers : pc[d] \notin PcanConstructing
  BY <1>1 DEF PcanAlone, PcanConstructing, PcanTearingDown
<1>3. \A d \in Callers \ {c} : pc[d] \notin PcanTearingDown
  BY <1>1 DEF PcanOneCloses
<1>4. CASE P!LockClose(c)
  <2>1. /\ callMu = "free" /\ callMu' = c /\ P!Goto(c, "disconnect") /\ pc[c] = "close"
        /\ UNCHANGED <<client, registered, connectedHardware, attached, once, loaded, closeErr>>
    BY <1>4 DEF P!LockClose, P!CallMuFree
  <2>2. pc' \in [Callers -> PcanPlaces] /\ pc'[c] = "disconnect"
        /\ \A d \in Callers \ {c} : pc'[d] = pc[d]
    BY <2>1 DEF P!Goto, PcanPlaced, PcanPlaces, PcanTearingDown
  <2>3. PcanPlaced' /\ PcanMuHeld' /\ PcanUp'
    BY <2>1, <2>2, DriverAssumption DEF PcanPlaced, PcanMuHeld, PcanUp, PcanHolding,
           P!InLibrary
  <2>4. PcanAlone' /\ PcanOneCloses'
    BY <1>1, <1>2, <1>3, <2>1, <2>2
       DEF PcanAlone, PcanOneCloses, PcanConstructing, PcanTearingDown
  <2>5. PcanNoted' /\ PcanUndone' /\ P!ClosedCleanly'
    BY <1>1, <1>3, <2>1, <2>2 DEF PcanNoted, PcanUndone, P!ClosedCleanly, PcanTearingDown
  <2> QED BY <2>3, <2>4, <2>5
<1>5. CASE P!disconnect(c)
  <2>1. /\ pc[c] = "disconnect" /\ P!Goto(c, "unload")
        /\ client' = FALSE /\ UNCHANGED <<callMu, once, loaded, connectedHardware>>
    BY <1>5 DEF P!disconnect
  <2>2. pc' \in [Callers -> PcanPlaces] /\ pc'[c] = "unload"
        /\ \A d \in Callers \ {c} : pc'[d] = pc[d]
    BY <2>1 DEF P!Goto, PcanPlaced, PcanPlaces, PcanTearingDown
  <2>3. attached \subseteq connectedHardware /\ (registered => client)
    BY <2>1 DEF PcanNoted
  <2>4. PICK refused \in SUBSET connectedHardware, kept \in BOOLEAN :
            /\ attached' = (attached \ connectedHardware) \cup refused
            /\ registered' = (registered /\ kept)
            /\ closeErr' = (refused # {} \/ (client /\ kept))
    BY <1>5 DEF P!disconnect
  <2>5. attached' \subseteq connectedHardware /\ (~closeErr' => attached' = {} /\ ~registered')
    BY <2>3, <2>4
  <2>6. \A d \in Callers : pc'[d] \notin P!InLibrary
    BY <2>1, <2>2 DEF PcanMuHeld, PcanHolding, P!InLibrary
  <2>7. PcanPlaced' /\ PcanMuHeld' /\ PcanUp'
    BY <2>1, <2>2, <2>6 DEF PcanPlaced, PcanMuHeld, PcanUp, PcanHolding, P!InLibrary
  <2>8. PcanAlone' /\ PcanOneCloses'
    BY <1>1, <1>2, <1>3, <2>1, <2>2
       DEF PcanAlone, PcanOneCloses, PcanConstructing, PcanTearingDown
  <2>9. PcanNoted' /\ PcanUndone' /\ P!ClosedCleanly'
    BY <1>1, <1>3, <2>1, <2>2, <2>5 DEF PcanNoted, PcanUndone, P!ClosedCleanly,
           PcanTearingDown
  <2> QED BY <2>7, <2>8, <2>9
<1>6. CASE P!unload(c)
  <2>1. /\ pc[c] = "unload" /\ P!Goto(c, "idle") /\ once' = "done"
        /\ callMu' = "free"
        /\ UNCHANGED <<client, registered, connectedHardware, attached>>
    BY <1>6 DEF P!unload, P!Return, P!Leave
  <2>2. pc' \in [Callers -> PcanPlaces] /\ pc'[c] = "idle"
        /\ \A d \in Callers \ {c} : pc'[d] = pc[d]
    BY <2>1 DEF P!Goto, PcanPlaced, PcanPlaces
  <2>3. \A d \in Callers : pc'[d] \notin PcanHolding
    BY <2>1, <2>2 DEF PcanMuHeld, PcanHolding, P!InLibrary
  <2>4. PcanPlaced' /\ PcanMuHeld' /\ PcanUp'
    BY <2>1, <2>2, <2>3 DEF PcanPlaced, PcanMuHeld, PcanUp, PcanHolding
  <2>5. PcanAlone' /\ PcanOneCloses'
    BY <1>2, <1>3, <2>2 DEF PcanAlone, PcanOneCloses, PcanConstructing, PcanTearingDown
  <2>6. PcanNoted' /\ PcanUndone'
    BY <1>3, <2>1, <2>2 DEF PcanNoted, PcanUndone, PcanTearingDown
  <2>7. PICK refused \in BOOLEAN : loaded' = refused /\ closeErr' = (closeErr \/ refused)
    BY <1>6 DEF P!unload
  <2>8. P!ClosedCleanly'
    BY <2>1, <2>7 DEF P!ClosedCleanly, PcanUndone
  <2> QED BY <2>4, <2>5, <2>6, <2>8
<1> QED BY <1>4, <1>5, <1>6

-----------------------------------------------------------------------------

LEMMA PcanNextInv ==
    ASSUME PcanInv, P!Next
    PROVE  PcanInv'
<1>1. ASSUME NEW c \in Callers, P!Works(c) PROVE PcanInv'
  <2>1. CASE P!register(c) \/ P!mapHardware(c) \/ P!connect(c) \/ P!initialize(c)
    BY <2>1, PcanConstructStep
  <2>2. CASE P!LockClose(c) \/ P!disconnect(c) \/ P!unload(c)
    BY <2>2, PcanTearDownStep
  <2>3. CASE P!Lock(c)
    BY <2>3, PcanLockStep
  <2>4. CASE \/ P!LockChannel(c) \/ P!CallEnds(c) \/ P!Reset(c) \/ P!WriteMessage(c)
             \/ P!Echo(c) \/ P!MasterRead(c) \/ P!Join(c)
    BY <2>4, PcanWorkStep
  <2> QED BY <1>1, <2>1, <2>2, <2>3, <2>4 DEF P!Works
<1>2. ASSUME NEW c \in Callers, P!Start(c) \/ P!Close(c) PROVE PcanInv'
  <2>1. CASE P!Close(c) /\ once = "new"
    BY <2>1, PcanCloseStep
  <2>2. CASE P!Start(c) \/ (P!Close(c) /\ once # "new")
    BY <2>2, PcanStartStep
  <2> QED BY <1>2, <2>1, <2>2, Zenon
<1>3. ASSUME NEW c \in Callers, P!Receives(c) PROVE PcanInv'
  BY <1>3, PcanWorkStep
<1>4. CASE P!Traffic
  BY <1>4 DEF P!Traffic, P!Bus, P!Running, P!hardwareVars, P!closeVars, PcanInv, PcanPlaced,
          PcanMuHeld, PcanUp, PcanAlone, PcanOneCloses, PcanNoted, PcanUndone, P!ClosedCleanly,
          P!callVars
<1> QED BY <1>1, <1>2, <1>3, <1>4 DEF P!Next

-----------------------------------------------------------------------------
(***************************************************************************)
(* PCAN: the frames.                                                       *)
(***************************************************************************)
LEMMA PcanShared ==
    /\ P!Frame = Frame /\ P!NoFrame = NoFrame
    /\ \A k, bad, ask : P!NewFrame(k, bad, ask) = NewFrame(k, bad, ask)
    /\ \A k, f : P!Enqueued(k, f) = Enqueued(k, f)
    /\ \A c, f : P!Deliver(c, f) <=> Deliver(c, f)
    /\ \A on : P!Bus(on) <=> Bus(on)
    /\ P!callVars = callVars /\ P!busVars = busVars /\ P!queueVars = queueVars
  BY DEF P!Frame, Frame, P!NoFrame, NoFrame, P!NewFrame, NewFrame, P!Enqueued, Enqueued,
         P!Deliver, Deliver, P!Matches, Matches, P!Leave, Leave, P!Goto, Goto,
         P!Bus, Bus, P!Arrive, Arrive, P!callVars, callVars, P!busVars, busVars,
         P!queueVars, queueVars

\* What a call does to the calls, from the points it is at before and after.
LEMMA PcanCallsMove ==
    ASSUME CallsInv, PcanInv, NEW c \in Callers,
           \/ P!Start(c) \/ P!Close(c) \/ P!LockChannel(c) \/ P!Lock(c)
           \/ P!CallEnds(c) \/ P!Reset(c) \/ P!WriteMessage(c) \/ P!Echo(c) \/ P!MasterRead(c)
           \/ P!TimeOut(c) \/ P!LookFurther(c)
           \/ P!register(c) \/ P!mapHardware(c) \/ P!connect(c) \/ P!initialize(c)
           \/ P!LockClose(c) \/ P!disconnect(c) \/ P!unload(c) \/ P!Join(c)
    PROVE  CallStep(c) /\ pc'[c] # "got"
<1>1. pc \in [Callers -> PcanPlaces]
  BY DEF PcanInv, PcanPlaced
<1>2. CASE P!Start(c)
  <2>1. PICK o \in P!Operations : P!Begin(c, o)
    BY <1>2 DEF P!Start
  <2>2. o \in Kinds /\ o # "none"
    BY DEF P!Operations, Kinds, Reading
  <2>3. Begins(c, o)
    BY <2>1, <2>2 DEF P!Begin, Begins, P!Goto, Goto, P!MayStart, MayStart, P!Consumes, Consumes,
          P!OnChannel, OnChannel, P!FirstStep, FirstStep
  <2>4. pc'[c] # "got"
    BY <1>1, <2>1 DEF P!Begin, P!Goto, P!FirstStep
  <2> QED BY <2>2, <2>3, <2>4 DEF CallStep
<1>3. CASE P!Close(c)
  <2>1. PICK at \in {"close", "join"} : Closes(c, at)
    BY <1>3 DEF P!Close, P!BeginClose, Closes, P!Goto, Goto, ReadPcs
  <2>2. at \in Places
    BY DEF Places
  <2> QED BY <1>1, <2>1, <2>2 DEF CallStep, Closes, Goto
<1>4. CASE P!LockChannel(c)
  <2>1. Locks(c)
    BY <1>4 DEF P!LockChannel, P!lock, Locks, P!Goto, Goto, P!ChannelFree, ChannelFree
  <2> QED BY <1>1, <2>1 DEF CallStep, Locks, Goto
<1>5. ASSUME P!Return(c), UNCHANGED calls
      PROVE  CallStep(c) /\ pc'[c] # "got"
  <2>1. Leaves(c)
    BY <1>5 DEF P!Return, P!Leave, P!Goto, Leaves, Leave, Goto
  <2> QED BY <1>1, <2>1 DEF CallStep, Leaves, Leave, Goto
<1>6. ASSUME NEW at \in Places \ {"got", "channel"}, P!Goto(c, at),
             UNCHANGED <<op, ch, asked, masterLock, calls>>,
             pc[c] # "channel",
             at \in ReadPcs => op[c] \in Reading,
             at = "idle" => op[c] = "none",
             at = "echo" => op[c] = "write"
      PROVE  CallStep(c) /\ pc'[c] # "got"
  <2>1. Moves(c, at)
    BY <1>6 DEF Moves, P!Goto, Goto
  <2> QED BY <1>1, <1>6, <2>1 DEF CallStep, P!Goto
<1>7. CASE P!Lock(c)
  <2>1. CASE P!validateChannelStateOnly
    <3> DEFINE at == IF pc[c] = "lock" THEN "call" ELSE "receive"
    <3>1. /\ P!Goto(c, at) /\ UNCHANGED <<op, ch, asked, masterLock, calls>>
          /\ pc[c] \in {"lock", "readLock"}
      BY <1>7, <2>1 DEF P!Lock, P!callVars
    <3>2. at \in Places \ {"got", "channel"} /\ at \notin {"idle", "echo"}
      BY DEF Places, ReadPcs
    <3>3. at \in ReadPcs => op[c] \in Reading
      BY <3>1 DEF CallsInv, Placing, ReadPcs
    <3> HIDE DEF at
    <3> QED BY <1>6, <3>1, <3>2, <3>3
  <2>2. CASE ~P!validateChannelStateOnly
    BY <1>5, <1>7, <2>2 DEF P!Lock
  <2> QED BY <2>1, <2>2
<1>8. CASE P!CallEnds(c) \/ P!Reset(c)
  BY <1>5, <1>8 DEF P!CallEnds, P!Reset, P!LibraryCall
<1>9. CASE P!Echo(c) \/ P!TimeOut(c) \/ P!Join(c)
  BY <1>5, <1>9 DEF P!Echo, P!TimeOut, P!Join, P!Joined
<1>10. CASE P!WriteMessage(c)
  <2>1. /\ P!Goto(c, "echo") /\ UNCHANGED <<op, ch, asked, masterLock, calls>>
        /\ pc[c] = "call" /\ op[c] = "write"
    BY <1>10 DEF P!WriteMessage, P!LibraryCall, P!callVars
  <2> QED BY <1>6, <2>1 DEF Places, ReadPcs
<1>11. CASE P!MasterRead(c)
  <2>1. /\ P!Goto(c, "poll") /\ UNCHANGED <<op, ch, asked, masterLock, calls>>
        /\ pc[c] = "call" /\ op[c] = "masterRead"
    BY <1>11 DEF P!MasterRead, P!LibraryCall, P!callVars
  <2> QED BY <1>6, <2>1 DEF Places, ReadPcs, Reading
<1>12. CASE P!LookFurther(c)
  <2>1. /\ P!Goto(c, "readLock") /\ UNCHANGED <<op, ch, asked, masterLock, calls>>
        /\ pc[c] = "poll" /\ op[c] \in Reading
    BY <1>12 DEF P!LookFurther, P!callVars, CallsInv, Placing, ReadPcs
  <2> QED BY <1>6, <2>1 DEF Places, ReadPcs
<1>13. CASE P!register(c) \/ P!mapHardware(c) \/ P!connect(c) \/ P!initialize(c)
  <2>1. /\ pc[c] \in PcanConstructing /\ op[c] = "none"
        /\ UNCHANGED <<op, ch, asked, masterLock, calls>>
    BY <1>13 DEF P!register, P!mapHardware, P!connect, P!initialize, P!Opening, P!callVars,
          PcanConstructing, PcanInv, PcanAlone
  <2>2. \E at \in {"connect", "initialize", "idle", "close"} : P!Goto(c, at)
    BY <1>13 DEF P!register, P!mapHardware, P!connect, P!initialize, P!CleanUp
  <2> QED BY <1>6, <2>1, <2>2 DEF Places, ReadPcs, PcanConstructing
<1>14. CASE P!LockClose(c) \/ P!disconnect(c)
  <2>1. /\ pc[c] \in PcanTearingDown
        /\ UNCHANGED <<op, ch, asked, masterLock, calls>>
        /\ P!Goto(c, "disconnect") \/ P!Goto(c, "unload")
    BY <1>14 DEF P!LockClose, P!disconnect, P!Closing, P!callVars, PcanTearingDown
  <2> QED BY <1>6, <2>1 DEF Places, ReadPcs, PcanTearingDown
<1>15. CASE P!unload(c)
  BY <1>5, <1>15 DEF P!unload, P!Closing
<1> QED BY <1>2, <1>3, <1>4, <1>7, <1>8, <1>9, <1>10, <1>11, <1>12, <1>13, <1>14, <1>15

\* Every step of the driver is one of the steps for which the frames are kept.
LEMMA PcanFrames ==
    ASSUME FramesInv, PcanInv, attached \subseteq Channels, P!Next
    PROVE  FramesStep
<1>1. ASSUME NEW c \in Callers,
             \/ P!Start(c) \/ P!Close(c) \/ P!LockChannel(c) \/ P!Lock(c)
             \/ P!CallEnds(c) \/ P!Reset(c) \/ P!WriteMessage(c) \/ P!Echo(c)
             \/ P!MasterRead(c) \/ P!TimeOut(c) \/ P!LookFurther(c)
             \/ P!register(c) \/ P!mapHardware(c) \/ P!connect(c) \/ P!initialize(c)
             \/ P!LockClose(c) \/ P!disconnect(c) \/ P!unload(c) \/ P!Join(c)
      PROVE  Quiet(c)
  <2> USE DEF P!callVars, P!queueVars, P!busVars
  <2>1. CallStep(c) /\ pc'[c] # "got"
    BY <1>1, PcanCallsMove DEF FramesInv
  <2>2. UNCHANGED <<held, arrived, newest, late, passed, stolen>>
    BY <1>1 DEF P!Start, P!Close, P!Begin, P!BeginClose, P!LockChannel, P!lock, P!Lock,
          P!Return, P!CallEnds, P!Reset, P!WriteMessage, P!Echo, P!MasterRead, P!LibraryCall,
          P!TimeOut, P!LookFurther, P!register, P!mapHardware, P!connect, P!initialize,
          P!Opening, P!LockClose, P!disconnect, P!unload, P!Closing, P!Join, P!Joined
  <2>3. rxQueue' \in {rxQueue, <<>>}
    BY <1>1 DEF P!Start, P!Close, P!LockChannel, P!Lock,
          P!CallEnds, P!Reset, P!WriteMessage, P!Echo, P!MasterRead, P!LibraryCall,
          P!TimeOut, P!LookFurther, P!register, P!mapHardware, P!connect, P!initialize,
          P!Opening, P!LockClose, P!disconnect, P!unload, P!Closing, P!Join, P!Joined
  <2>4. UNCHANGED events \/ P!Echo(c)
    BY <1>1 DEF P!Start, P!Close, P!LockChannel, P!Lock,
          P!CallEnds, P!Reset, P!WriteMessage, P!MasterRead, P!LibraryCall,
          P!TimeOut, P!LookFurther, P!register, P!mapHardware, P!connect, P!initialize,
          P!Opening, P!LockClose, P!disconnect, P!unload, P!Closing, P!Join, P!Joined
  <2>5. UNCHANGED bus \/ P!MasterRead(c)
    BY <1>1 DEF P!Start, P!Close, P!LockChannel, P!Lock,
          P!CallEnds, P!Reset, P!WriteMessage, P!Echo, P!LibraryCall,
          P!TimeOut, P!LookFurther, P!register, P!mapHardware, P!connect, P!initialize,
          P!Opening, P!LockClose, P!disconnect, P!unload, P!Closing, P!Join, P!Joined
  <2>6. ASSUME P!Echo(c) PROVE Echoes
    <3>1. ch[c] \in Channels
      BY <2>6 DEF P!Echo, FramesInv, CallsInv, Placing, OnChannel
    <3> QED BY <2>6, <3>1, PcanShared DEF P!Echo, Echoes
  <2>7. ASSUME P!MasterRead(c) PROVE Sends(c)
    BY <2>7 DEF P!MasterRead, P!LibraryCall, Sends, FramesInv, CallsInv, Placing, OnChannel
  <2> QED BY <2>1, <2>2, <2>3, <2>4, <2>5, <2>6, <2>7 DEF Quiet
<1>2. ASSUME NEW c \in Callers, P!TakeQueued(c) PROVE Takes(c)
  <2>1. P!Deliver(c, Head(events[ch[c]])) <=> Deliver(c, Head(events[ch[c]]))
    BY PcanShared
  <2> QED BY <1>2, <2>1 DEF P!TakeQueued, Takes, P!busVars, busVars
<1>3. ASSUME NEW c \in Callers, P!Dispatch(c) PROVE Passes(c)
  <2>1. /\ P!Deliver(c, held[c]) <=> Deliver(c, held[c])
        /\ P!Enqueued(held[c].ch, held[c]) = Enqueued(held[c].ch, held[c])
        /\ P!NoFrame = NoFrame
    BY PcanShared
  <2> QED BY <1>3, <2>1 DEF P!Dispatch, Passes, P!Own, P!Goto, Goto, P!busVars, busVars,
              P!callVars, callVars
<1>4. ASSUME NEW c \in Callers, P!readOne(c) PROVE Quiet(c) \/ Gets(c)
  <2>1. /\ pc[c] = "receive" /\ op[c] \in Reading /\ pc \in [Callers -> PcanPlaces]
        /\ UNCHANGED <<calls, events, bus, arrived, passed>>
    BY <1>4 DEF P!readOne, P!LibraryCall, P!busVars, FramesInv, CallsInv, Placing, ReadPcs,
          PcanInv, PcanPlaced
  <2>2. CASE rxQueue = <<>> /\ P!Goto(c, "poll") /\ UNCHANGED <<P!callVars, held, rxQueue>>
    <3>1. Moves(c, "poll") /\ "poll" \in Places
      BY <2>1, <2>2 DEF Moves, P!Goto, Goto, P!callVars, Places, ReadPcs
    <3> QED BY <2>1, <2>2, <3>1 DEF Quiet, CallStep, Moves, Goto, P!callVars
  <2>3. CASE /\ rxQueue # <<>> /\ held' = [held EXCEPT ![c] = Head(rxQueue)]
             /\ rxQueue' = Tail(rxQueue) /\ P!Goto(c, "got") /\ UNCHANGED P!callVars
    <3>1. Moves(c, "got")
      BY <2>1, <2>3 DEF Moves, P!Goto, Goto, P!callVars
    <3> QED BY <2>1, <2>3, <3>1 DEF Gets, P!callVars, busVars
  <2>4. CASE P!Return(c) /\ UNCHANGED <<held, rxQueue>>
    <3>1. Leaves(c)
      BY <2>1, <2>4 DEF P!Return, P!Leave, P!Goto, Leaves, Leave, Goto
    <3> QED BY <2>1, <2>4, <3>1 DEF Quiet, CallStep, Leaves, Leave, Goto, P!Return
  <2> QED BY <1>4, <2>2, <2>3, <2>4 DEF P!readOne
<1>5. CASE P!Traffic
  <2>1. Bus(attached)
    BY <1>5, PcanShared DEF P!Traffic
  <2> QED BY <2>1 DEF FramesStep
<1>6. ASSUME NEW c \in Callers, P!Start(c) \/ P!Close(c) \/ P!Receives(c) \/ P!Works(c)
      PROVE  FramesStep
  BY <1>1, <1>2, <1>3, <1>4, <1>6 DEF P!Receives, P!Works, FramesStep
<1> QED BY <1>5, <1>6 DEF P!Next

LEMMA PcanTypesKept ==
    ASSUME PcanTypes, P!Next
    PROVE  PcanTypes'
<1> USE DEF PcanTypes, P!Running, P!hardwareVars, P!closeVars, P!callVars
<1>1. ASSUME NEW c \in Callers,
             \/ P!LockChannel(c) \/ P!Lock(c) \/ P!CallEnds(c) \/ P!Reset(c)
             \/ P!WriteMessage(c) \/ P!Echo(c) \/ P!MasterRead(c) \/ P!Receives(c) \/ P!Join(c)
      PROVE  PcanTypes'
  <2>1. op' \in {op, [op EXCEPT ![c] = "none"]} /\ callMu' \in {callMu, c, "free"} /\ P!Running
    BY <1>1 DEF P!LockChannel, P!lock, P!Lock, P!CallEnds, P!Reset, P!WriteMessage, P!Echo,
          P!MasterRead, P!Receives, P!TakeQueued, P!TimeOut, P!LookFurther, P!readOne,
          P!Dispatch, P!Join, P!Joined, P!LibraryCall, P!Return, P!Leave, P!Deliver
  <2> QED BY <2>1
<1>2. ASSUME NEW c \in Callers, P!Start(c) PROVE PcanTypes'
  <2>1. PICK o \in P!Operations : op' = [op EXCEPT ![c] = o]
    BY <1>2 DEF P!Start, P!Begin
  <2> QED BY <1>2, <2>1 DEF P!Start
<1>3. ASSUME NEW c \in Callers, P!Close(c) PROVE PcanTypes'
  BY <1>3 DEF P!Close, P!BeginClose
<1>4. ASSUME NEW c \in Callers,
             P!register(c) \/ P!mapHardware(c) \/ P!connect(c) \/ P!initialize(c)
      PROVE  PcanTypes'
  <2>1. CASE P!register(c)
    BY <2>1 DEF P!register, P!Opening, P!CleanUp, P!Noted
  <2>2. CASE P!mapHardware(c)
    BY <2>2 DEF P!mapHardware, P!Opening, P!CleanUp, P!Noted
  <2>3. CASE P!connect(c)
    BY <2>3 DEF P!connect, P!Opening, P!CleanUp, P!Noted
  <2>4. CASE P!initialize(c)
    BY <2>4 DEF P!initialize, P!Opening, P!CleanUp, P!Noted
  <2> QED BY <1>4, <2>1, <2>2, <2>3, <2>4
<1>5. ASSUME NEW c \in Callers, P!LockClose(c) \/ P!disconnect(c) \/ P!unload(c)
      PROVE  PcanTypes'
  <2>1. CASE P!LockClose(c)
    BY <2>1 DEF P!LockClose, P!Closing
  <2>2. CASE P!disconnect(c)
    BY <2>2 DEF P!disconnect, P!Closing
  <2>3. CASE P!unload(c)
    BY <2>3 DEF P!unload, P!Closing, P!Return, P!Leave
  <2> QED BY <1>5, <2>1, <2>2, <2>3
<1>6. CASE P!Traffic
  BY <1>6 DEF P!Traffic, P!Bus
<1> QED BY <1>1, <1>2, <1>3, <1>4, <1>5, <1>6 DEF P!Next, P!Works

(***************************************************************************)
(* PCAN: what the invariants say of the driver.                            *)
(***************************************************************************)
PcanAll == PcanInv /\ PcanTypes /\ FramesInv /\ InOrder

LEMMA PcanInitAll == P!Init => PcanAll
<1> SUFFICES ASSUME P!Init PROVE PcanAll
  OBVIOUS
<1>1. PcanInv
  BY PcanInitInv
<1>2. /\ CallsInit
      /\ \E c \in Callers : pc = [d \in Callers |-> IF d = c THEN "register" ELSE "idle"]
  BY DEF P!Init, P!CallsInit, CallsInit, P!NoFrame, NoFrame, P!NewFrame, NewFrame
<1>3. PcanTypes
  BY DEF PcanTypes, P!Init, P!CallsInit
<1>4. CallsInv
  BY <1>2, CallsInit1 DEF Places, ReadPcs
<1>5. FrameTypes /\ Answering /\ InOrder
  BY <1>2, FramesInit
<1> QED BY <1>1, <1>3, <1>4, <1>5 DEF PcanAll, FramesInv

LEMMA PcanStepAll == PcanAll /\ [P!Next]_(P!vars) => PcanAll'
<1> SUFFICES ASSUME PcanAll, [P!Next]_(P!vars) PROVE PcanAll'
  OBVIOUS
<1>1. CASE P!Next
  <2>1. PcanInv' /\ PcanTypes'
    BY <1>1, PcanNextInv, PcanTypesKept DEF PcanAll
  <2>2. FramesStep
    BY <1>1, PcanFrames DEF PcanAll, PcanTypes
  <2> QED BY <2>1, <2>2, FramesKept DEF PcanAll
<1>2. CASE UNCHANGED P!vars
  <2> USE DEF P!vars, P!callVars, P!queueVars, P!busVars, P!hardwareVars, P!closeVars
  <2>1. PcanInv' /\ PcanTypes'
    BY <1>2 DEF PcanAll, PcanTypes, PcanInv, PcanPlaced, PcanMuHeld, PcanUp, PcanAlone,
          PcanOneCloses, PcanNoted, PcanUndone, P!ClosedCleanly
  <2>2. UNCHANGED <<pc, calls, callVars, held, queueVars, busVars, passed>>
    BY <1>2 DEF callVars, queueVars, busVars
  <2> QED BY <2>1, <2>2, FramesStay DEF PcanAll
<1> QED BY <1>1, <1>2

LEMMA PcanGood ==
    ASSUME PcanAll
    PROVE  /\ P!TypeOK /\ P!LibraryPresent /\ P!ClosedCleanly
           /\ P!OvertakenOnlyIfPassedOn /\ P!OwnAnswers
<1>1. P!TypeOK
  <2>1. P!CallsTypeOK
    BY PcanShared DEF P!CallsTypeOK, PcanAll, PcanTypes, FramesInv, CallsInv, CallTypes, FrameTypes,
          Answering, Header
  <2> QED BY <2>1 DEF P!TypeOK, PcanAll, PcanTypes, PcanInv, PcanPlaced, PcanPlaces,
          PcanConstructing, PcanTearingDown, PcanCalling
<1>2. P!LibraryPresent
  BY DEF P!LibraryPresent, PcanAll, PcanInv, PcanUp
<1> QED BY <1>1, <1>2 DEF PcanAll, PcanInv, P!OvertakenOnlyIfPassedOn, P!OwnAnswers, InOrder,
           FramesInv, Answering

-----------------------------------------------------------------------------
(***************************************************************************)
(* Vector: steps of a call.                                                *)
(***************************************************************************)
LEMMA VectorInitInv == V!Init => VectorInv
  BY SMT DEF V!Init, V!CallsInit, VectorInv, VectorPlaced, VectorMuHeld, VectorUp, VectorAlone,
        VectorOneCloses, VectorNoted, VectorUndone, VectorPrepared, V!HeaderAsPrepared,
        V!ClosedCleanly, VectorConstructing, VectorTearingDown, VectorHolding, V!InLibrary,
        VectorCalling, VectorPlaces

\* A caller moves on outside the library, and may leave it by that.
LEMMA VectorCallStep ==
    ASSUME VectorInv, NEW c \in Callers, NEW at \in VectorOutside,
           pc[c] \in VectorCalling \cup {"idle"},
           pc[c] = "idle" => opened,
           V!Goto(c, at),
           \A d \in Callers \ {c} : op'[d] = op[d] /\ ch'[d] = ch[d],
           callMu' = callMu \/ pc[c] \in V!InLibrary,
           UNCHANGED V!slaveVars \/ pc[c] \in V!InLibrary,
           V!Running
    PROVE  VectorInv'
<1> USE DEF VectorInv, V!Goto, V!Running, V!portVars, VectorOutside, VectorCalling, V!InLibrary
<1>1. pc' \in [Callers -> VectorPlaces] /\ pc'[c] = at /\ \A d \in Callers \ {c} : pc'[d] = pc[d]
  BY DEF VectorPlaced, VectorPlaces
<1>2. VectorPlaced' /\ VectorMuHeld'
  BY <1>1 DEF VectorPlaced, VectorMuHeld, VectorHolding
<1>3. VectorUp'
  BY <1>1 DEF VectorUp
<1>4. VectorAlone'
  BY <1>1 DEF VectorAlone, VectorConstructing
<1>5. VectorOneCloses'
  BY <1>1 DEF VectorOneCloses, VectorTearingDown
<1>6. VectorNoted' /\ VectorUndone' /\ V!ClosedCleanly'
  BY <1>1 DEF VectorNoted, VectorUndone, V!ClosedCleanly
<1>7. ASSUME NEW d \in Callers, pc'[d] \in {"switch", "send"}
      PROVE  /\ d # c /\ pc[d] = pc'[d] /\ op'[d] = op[d] /\ ch'[d] = ch[d]
             /\ UNCHANGED <<response, answers>>
  <2>1. d # c /\ pc[d] = pc'[d]
    BY <1>1, <1>7
  <2>2. pc[c] \notin V!InLibrary
    BY <1>7, <2>1 DEF VectorMuHeld, VectorHolding
  <2> QED BY <2>1, <2>2 DEF V!slaveVars
<1>8. VectorPrepared'
  BY <1>7 DEF VectorPrepared
<1>9. V!HeaderAsPrepared'
  BY <1>7 DEF V!HeaderAsPrepared
<1> QED BY <1>2, <1>3, <1>4, <1>5, <1>6, <1>8, <1>9

\* A caller has callMu, finds the port open, and prepares its header.
LEMMA VectorInsideStep ==
    ASSUME VectorInv, NEW c \in Callers, NEW at \in V!InLibrary,
           pc[c] \in VectorCalling, callMu \in {c, "free"}, callMu' = c, port,
           V!Goto(c, at), V!Running,
           \A d \in Callers \ {c} : op'[d] = op[d] /\ ch'[d] = ch[d],
           at \in {"switch", "send"} =>
              op'[c] \in {"write", "schedule", "request", "masterRead"},
           at = "switch" /\ op'[c] \in {"write", "schedule"} => response'[ch'[c]] = c,
           at = "send" =>
              /\ op'[c] # "schedule"
              /\ IF op'[c] = "write" THEN answers'[ch'[c]] /\ response'[ch'[c]] = c
                 ELSE ~answers'[ch'[c]]
    PROVE  VectorInv'
<1> USE DEF VectorInv, V!Goto, V!Running, V!portVars, V!InLibrary
<1>1. pc' \in [Callers -> VectorPlaces] /\ pc'[c] = at /\ \A d \in Callers \ {c} : pc'[d] = pc[d]
  BY DEF VectorPlaced, VectorPlaces, VectorCalling
<1>2. \A d \in Callers \ {c} : pc'[d] \notin VectorHolding
  BY <1>1, DriverAssumption DEF VectorMuHeld
<1>3. VectorPlaced' /\ VectorMuHeld'
  BY <1>1, <1>2 DEF VectorPlaced, VectorMuHeld
<1>4. VectorUp'
  BY <1>1, <1>2 DEF VectorUp, VectorHolding
<1>5. VectorAlone'
  BY <1>1 DEF VectorAlone, VectorConstructing, VectorCalling
<1>6. VectorOneCloses'
  BY <1>1 DEF VectorOneCloses, VectorTearingDown
<1>7. VectorNoted' /\ VectorUndone' /\ V!ClosedCleanly'
  BY <1>1 DEF VectorNoted, VectorUndone, V!ClosedCleanly
<1>8. VectorPrepared'
  BY <1>1, <1>2 DEF VectorPrepared, VectorHolding
<1>9. V!HeaderAsPrepared'
  BY <1>1, <1>2 DEF V!HeaderAsPrepared, VectorHolding
<1> QED BY <1>3, <1>4, <1>5, <1>6, <1>7, <1>8, <1>9

\* What the calls have in common: their channel and their operation are theirs.
LEMMA VectorOthers ==
    ASSUME CallsInv, NEW c \in Callers,
           \/ V!Start(c) \/ V!Close(c) \/ V!LockChannel(c) \/ V!Lock(c) \/ V!CallEnds(c)
           \/ V!FlushReceiveQueue(c) \/ V!linSetSlaveData(c) \/ V!linSwitchSlaveMode(c)
           \/ V!linSendRequestForID(c) \/ V!Receives(c) \/ V!Join(c)
    PROVE  \A d \in Callers \ {c} : op'[d] = op[d] /\ ch'[d] = ch[d]
<1>1. op \in [Callers -> Kinds] /\ ch \in [Callers -> Channels \cup {"none"}]
  BY DEF CallsInv, CallTypes
<1>2. CASE V!Start(c) \/ V!Close(c) \/ V!LockChannel(c) \/ V!Lock(c) \/ V!CallEnds(c)
  BY <1>1, <1>2 DEF V!Start, V!Begin, V!Close, V!BeginClose, V!LockChannel, V!lock, V!Lock,
         V!CallEnds, V!Return, V!Leave, V!callVars
<1>3. CASE V!FlushReceiveQueue(c) \/ V!linSetSlaveData(c) \/ V!linSwitchSlaveMode(c)
           \/ V!linSendRequestForID(c) \/ V!Join(c)
  BY <1>1, <1>3 DEF V!FlushReceiveQueue, V!linSetSlaveData, V!linSwitchSlaveMode,
         V!linSendRequestForID, V!Join, V!Joined, V!Return, V!Leave, V!callVars
<1>4. CASE V!Receives(c)
  BY <1>1, <1>4 DEF V!Receives, V!TakeQueued, V!LookFurther, V!LookAgain, V!TimeOut, V!readOne,
         V!Dispatch, V!Return, V!Leave, V!Deliver, V!callVars
<1> QED BY <1>2, <1>3, <1>4

\* The caller that gets callMu finds the port there.
LEMMA VectorLockStep ==
    ASSUME VectorInv, CallsInv, NEW c \in Callers, V!Lock(c)
    PROVE  VectorInv'
<1>1. /\ \A d \in Callers \ {c} : op'[d] = op[d] /\ ch'[d] = ch[d]
      /\ pc[c] \in {"lock", "readLock"} /\ callMu = "free" /\ V!Running /\ UNCHANGED V!slaveVars
  BY VectorOthers DEF V!Lock, V!CallMuFree
<1>2. CASE ~V!validateOpen
  <2>1. V!Goto(c, "idle") /\ callMu' = callMu
    BY <1>2 DEF V!Lock, V!Return, V!Leave
  <2> QED BY <1>1, <2>1, VectorCallStep DEF VectorOutside, VectorCalling
<1>3. CASE V!validateOpen
  <2>1. callMu' = c /\ port /\ UNCHANGED <<op, ch>>
    BY <1>3 DEF V!Lock, V!validateOpen, V!callVars
  <2>2. CASE pc[c] = "readLock"
    <3>1. V!Goto(c, "receive")
      BY <1>3, <2>2 DEF V!Lock
    <3> QED BY <1>1, <2>1, <3>1, VectorInsideStep DEF VectorCalling, V!InLibrary
  <2>3. CASE pc[c] = "lock" /\ op[c] \in {"request", "masterRead"}
    <3>1. V!Goto(c, "switch")
      BY <1>3, <2>3 DEF V!Lock
    <3> QED BY <1>1, <2>1, <2>3, <3>1, VectorInsideStep DEF VectorCalling, V!InLibrary
  <2>4. CASE pc[c] = "lock" /\ op[c] \notin {"request", "masterRead"}
    <3>1. V!Goto(c, "call")
      BY <1>3, <2>4 DEF V!Lock
    <3> QED BY <1>1, <2>1, <3>1, VectorInsideStep DEF VectorCalling, V!InLibrary
  <2> QED BY <1>1, <2>2, <2>3, <2>4
<1> QED BY <1>2, <1>3

\* The data and the mode of a channel are set while callMu is held.
LEMMA VectorPrepareStep ==
    ASSUME VectorInv, VectorTypes, CallsInv, NEW c \in Callers,
           V!linSetSlaveData(c) \/ (V!linSwitchSlaveMode(c) /\ op[c] # "schedule")
    PROVE  VectorInv'
<1>1. /\ \A d \in Callers \ {c} : op'[d] = op[d] /\ ch'[d] = ch[d]
      /\ pc[c] \in {"call", "switch"} /\ V!Running
      /\ UNCHANGED <<op, ch, callMu>>
  BY VectorOthers DEF V!linSetSlaveData, V!linSwitchSlaveMode, V!LibraryCall, V!callVars
<1>2. callMu = c /\ port /\ pc[c] \in VectorCalling
  BY <1>1 DEF VectorInv, VectorMuHeld, VectorHolding, VectorUp, V!InLibrary, VectorCalling
<1>3. CASE V!linSetSlaveData(c)
  <2>1. /\ op[c] \in {"write", "schedule"} /\ V!Goto(c, "switch")
        /\ response' = [response EXCEPT ![ch[c]] = c]
    BY <1>3 DEF V!linSetSlaveData
  <2>2. ch[c] \in Channels
    BY <2>1 DEF CallsInv, Placing, OnChannel
  <2>3. response'[ch[c]] = c
    BY <2>1, <2>2 DEF VectorTypes
  <2> QED BY <1>1, <1>2, <2>1, <2>3, VectorInsideStep DEF V!InLibrary
<1>4. CASE V!linSwitchSlaveMode(c) /\ op[c] # "schedule"
  <2>1. /\ pc[c] = "switch" /\ V!Goto(c, "send") /\ UNCHANGED response
        /\ answers' = [answers EXCEPT ![ch[c]] = op[c] \in {"write", "schedule"}]
    BY <1>4 DEF V!linSwitchSlaveMode, V!LibraryCall
  <2>2. /\ op[c] \in {"write", "schedule", "request", "masterRead"}
        /\ op[c] = "write" => response[ch[c]] = c
    BY <2>1 DEF VectorInv, VectorPrepared
  <2>3. ch[c] \in Channels
    BY <2>2 DEF CallsInv, Placing, OnChannel
  <2>4. answers'[ch[c]] = (op[c] \in {"write", "schedule"})
    BY <2>1, <2>3 DEF VectorTypes
  <2> QED BY <1>1, <1>2, <1>4, <2>1, <2>2, <2>4, VectorInsideStep DEF V!InLibrary
<1> QED BY <1>3, <1>4

\* A call that has started, one step of it that ends outside the library.
LEMMA VectorWorkStep ==
    ASSUME VectorInv, CallsInv, NEW c \in Callers,
           \/ V!Start(c) \/ (V!Close(c) /\ once # "new")
           \/ V!LockChannel(c) \/ V!CallEnds(c)
           \/ V!FlushReceiveQueue(c) \/ (V!linSwitchSlaveMode(c) /\ op[c] = "schedule")
           \/ V!linSendRequestForID(c) \/ V!Receives(c) \/ V!Join(c)
    PROVE  VectorInv'
<1>1. \A d \in Callers \ {c} : op'[d] = op[d] /\ ch'[d] = ch[d]
  BY VectorOthers
<1>2. /\ pc[c] \in VectorCalling \cup {"idle"} /\ (pc[c] = "idle" => opened)
      /\ V!Running
      /\ callMu' = callMu \/ pc[c] \in V!InLibrary
      /\ UNCHANGED V!slaveVars \/ pc[c] \in V!InLibrary
  <2> USE DEF VectorCalling, V!InLibrary, V!Running, V!portVars, V!slaveVars
  <2>1. CASE V!Start(c) \/ (V!Close(c) /\ once # "new") \/ V!LockChannel(c) \/ V!Join(c)
    BY <2>1 DEF V!Start, V!Begin, V!Close, V!BeginClose, V!LockChannel, V!lock, V!Join, V!Joined
  <2>2. CASE \/ V!CallEnds(c) \/ V!FlushReceiveQueue(c)
             \/ (V!linSwitchSlaveMode(c) /\ op[c] = "schedule") \/ V!linSendRequestForID(c)
    BY <2>2 DEF V!CallEnds, V!FlushReceiveQueue, V!linSwitchSlaveMode, V!linSendRequestForID,
           V!LibraryCall
  <2>3. CASE V!Receives(c)
    BY <2>3 DEF V!Receives, V!TakeQueued, V!LookFurther, V!LookAgain, V!TimeOut, V!readOne,
           V!Dispatch, V!LibraryCall
  <2> QED BY <2>1, <2>2, <2>3
<1>3. \E at \in {"lock", "channel", "join", "idle", "poll", "readLock", "idleLibrary", "got"} :
          V!Goto(c, at)
  <2>1. CASE V!Start(c) \/ (V!Close(c) /\ once # "new") \/ V!LockChannel(c) \/ V!Join(c)
    BY <2>1 DEF V!Start, V!Begin, V!FirstStep, V!Close, V!BeginClose, V!LockChannel, V!lock,
           V!Join, V!Joined, V!Return, V!Leave
  <2>2. CASE \/ V!CallEnds(c) \/ V!FlushReceiveQueue(c)
             \/ (V!linSwitchSlaveMode(c) /\ op[c] = "schedule") \/ V!linSendRequestForID(c)
    BY <2>2 DEF V!CallEnds, V!FlushReceiveQueue, V!linSwitchSlaveMode, V!linSendRequestForID,
           V!Return, V!Leave
  <2>3. CASE V!Receives(c)
    BY <2>3 DEF V!Receives, V!TakeQueued, V!LookFurther, V!LookAgain, V!TimeOut, V!readOne,
           V!Dispatch, V!Deliver, V!Return, V!Leave
  <2> QED BY <2>1, <2>2, <2>3
<1>4. PICK at \in VectorOutside : V!Goto(c, at)
  BY <1>3 DEF VectorOutside, VectorCalling, V!InLibrary
<1> QED BY <1>1, <1>2, <1>4, VectorCallStep

-----------------------------------------------------------------------------
(***************************************************************************)
(* Vector: the constructor and Close.                                      *)
(***************************************************************************)
LEMMA VectorConstructStep ==
    ASSUME VectorInv, NEW c \in Callers,
           V!openDriver(c) \/ V!openPort(c) \/ V!activateChannel(c)
    PROVE  VectorInv'
<1> USE DEF VectorInv, V!Opening, V!CleanUp
<1>1. pc[c] \in VectorConstructing /\ UNCHANGED <<op, callMu, closeErr>>
  BY DEF V!openDriver, V!openPort, V!activateChannel, VectorConstructing, V!callVars
<1>2. /\ once = "new" /\ \A d \in Callers : d # c => pc[d] = "idle"
      /\ ~opened /\ op[c] = "none"
  BY <1>1 DEF VectorAlone
<1>3. \/ /\ V!Goto(c, "close") /\ once' = "running" /\ UNCHANGED opened
      \/ /\ V!Goto(c, "idle") /\ once' = "new"
      \/ /\ V!Goto(c, "activate") /\ once' = "new" /\ UNCHANGED opened /\ port'
      \/ /\ V!Goto(c, "openPort") /\ once' = "new" /\ UNCHANGED opened /\ driverOpen'
         /\ UNCHANGED port /\ ~port
  BY <1>2 DEF V!openDriver, V!openPort, V!activateChannel, VectorUp, VectorNoted
<1>4. /\ port' => portOpen' /\ driverOpen'
      /\ active' \/ portOpen' => port'
  BY <1>2 DEF V!openDriver, V!openPort, V!activateChannel, VectorNoted, VectorUp
<1>5. /\ pc' \in [Callers -> VectorPlaces]
      /\ pc'[c] \in {"close", "idle", "activate", "openPort"}
      /\ \A d \in Callers : d # c => pc'[d] = "idle"
  BY <1>2, <1>3 DEF V!Goto, VectorPlaced, VectorPlaces, VectorConstructing, VectorTearingDown
<1>6. VectorPlaced' /\ VectorMuHeld' /\ VectorPrepared' /\ V!HeaderAsPrepared'
  BY <1>5 DEF VectorPlaced, VectorMuHeld, VectorHolding, V!InLibrary, VectorPrepared,
          V!HeaderAsPrepared
<1>7. VectorUp'
  BY <1>3, <1>4, <1>5 DEF VectorUp, V!InLibrary, V!Goto, VectorPlaced
<1>8. pc'[c] \in VectorConstructing => ~opened' /\ once' = "new"
  BY <1>2, <1>3, <1>5 DEF V!Goto, VectorPlaced, VectorConstructing
<1>9. VectorAlone'
  BY <1>1, <1>2, <1>5, <1>8 DEF VectorAlone, VectorConstructing
<1>10. pc'[c] \in VectorTearingDown => once' = "running"
  BY <1>3, <1>5 DEF V!Goto, VectorPlaced, VectorTearingDown
<1>11. VectorOneCloses'
  BY <1>5, <1>10 DEF VectorOneCloses, VectorTearingDown
<1>12. VectorNoted' /\ VectorUndone' /\ V!ClosedCleanly'
  BY <1>3, <1>4, <1>5 DEF VectorNoted, VectorUndone, V!ClosedCleanly, V!Goto, VectorPlaced
<1> QED BY <1>6, <1>7, <1>9, <1>11, <1>12

LEMMA VectorCloseStep ==
    ASSUME VectorInv, NEW c \in Callers, V!Close(c), once = "new"
    PROVE  VectorInv'
<1> USE DEF VectorInv, V!portVars, V!slaveVars
<1>1. /\ pc[c] = "idle" /\ opened
      /\ V!Goto(c, "close") /\ once' = "running" /\ op' = [op EXCEPT ![c] = "close"]
      /\ UNCHANGED <<opened, callMu, driverOpen, port, portOpen, active, closeErr,
                     response, answers, ch>>
  BY DEF V!Close, V!BeginClose
<1>2. /\ pc' \in [Callers -> VectorPlaces] /\ pc'[c] = "close"
      /\ \A d \in Callers \ {c} : pc'[d] = pc[d]
  BY <1>1 DEF V!Goto, VectorPlaced, VectorPlaces, VectorTearingDown
<1>3. \A d \in Callers : pc[d] \notin VectorTearingDown /\ pc[d] \notin VectorConstructing
  BY <1>1 DEF VectorOneCloses, VectorAlone
<1>4. VectorPlaced' /\ VectorMuHeld' /\ VectorUp'
  BY <1>1, <1>2 DEF VectorPlaced, VectorMuHeld, VectorUp, VectorHolding, V!InLibrary
<1>5. VectorAlone' /\ VectorOneCloses'
  BY <1>1, <1>2, <1>3 DEF VectorAlone, VectorOneCloses, VectorConstructing, VectorTearingDown
<1>6. VectorNoted' /\ VectorUndone' /\ V!ClosedCleanly'
  BY <1>1, <1>2, <1>3 DEF VectorNoted, VectorUndone, V!ClosedCleanly, VectorTearingDown,
          VectorConstructing
<1>7. \A d \in Callers \ {c} : op'[d] = op[d]
  BY <1>1
<1>8. VectorPrepared' /\ V!HeaderAsPrepared'
  BY <1>1, <1>2, <1>7 DEF VectorPrepared, V!HeaderAsPrepared
<1> QED BY <1>4, <1>5, <1>6, <1>8

LEMMA VectorTearDownStep ==
    ASSUME VectorInv, CallsInv, NEW c \in Callers,
           V!LockClose(c) \/ V!closePort(c) \/ V!closeDriver(c)
    PROVE  VectorInv'
<1> USE DEF VectorInv, V!Closing, V!portVars, V!slaveVars
<1>1. pc[c] \in VectorTearingDown /\ once = "running" /\ UNCHANGED <<opened, response, answers>>
  BY DEF V!LockClose, V!closePort, V!closeDriver, VectorOneCloses, VectorTearingDown
<1>2. \A d \in Callers : pc[d] \notin VectorConstructing
  BY <1>1 DEF VectorAlone, VectorConstructing, VectorTearingDown
<1>3. \A d \in Callers \ {c} : pc[d] \notin VectorTearingDown
  BY <1>1 DEF VectorOneCloses
<1>4. \A d \in Callers \ {c} : op'[d] = op[d] /\ ch'[d] = ch[d]
  BY DEF V!LockClose, V!closePort, V!closeDriver, V!Return, V!Leave, V!callVars,
         CallsInv, CallTypes
<1>5. \A d \in Callers : pc[d] \in {"switch", "send"} => d # c
  BY <1>1 DEF VectorTearingDown
<1>6. ASSUME pc' \in [Callers -> VectorPlaces], pc'[c] \notin {"switch", "send"},
             \A d \in Callers \ {c} : pc'[d] = pc[d]
      PROVE  VectorPrepared' /\ V!HeaderAsPrepared'
  BY <1>1, <1>4, <1>5, <1>6 DEF VectorPrepared, V!HeaderAsPrepared
<1>7. CASE V!LockClose(c)
  <2>1. /\ callMu = "free" /\ callMu' = c /\ pc[c] = "close"
        /\ V!Goto(c, IF port THEN "deactivate" ELSE "closeDriver")
        /\ UNCHANGED <<driverOpen, port, portOpen, active, once, closeErr>>
    BY <1>7 DEF V!LockClose, V!CallMuFree
  <2>2. pc' \in [Callers -> VectorPlaces]
        /\ pc'[c] = (IF port THEN "deactivate" ELSE "closeDriver")
        /\ \A d \in Callers \ {c} : pc'[d] = pc[d]
    BY <2>1 DEF V!Goto, VectorPlaced, VectorPlaces, VectorTearingDown
  <2>3. VectorPlaced' /\ VectorMuHeld'
    BY <2>1, <2>2, DriverAssumption DEF VectorPlaced, VectorMuHeld, VectorHolding, V!InLibrary
  <2>4. VectorUp'
    BY <1>2, <1>3, <2>1, <2>2 DEF VectorUp, V!InLibrary, VectorConstructing, VectorTearingDown
  <2>5. VectorAlone' /\ VectorOneCloses'
    BY <1>1, <1>2, <1>3, <2>1, <2>2
       DEF VectorAlone, VectorOneCloses, VectorConstructing, VectorTearingDown
  <2>6. VectorNoted' /\ VectorUndone' /\ V!ClosedCleanly'
    BY <1>1, <1>2, <1>3, <2>1, <2>2 DEF VectorNoted, VectorUndone, V!ClosedCleanly,
           VectorTearingDown, VectorConstructing
  <2> QED BY <1>6, <2>2, <2>3, <2>4, <2>5, <2>6
<1>8. CASE V!closePort(c)
  <2>1. /\ pc[c] = "deactivate" /\ V!Goto(c, "closeDriver")
        /\ port' = FALSE /\ UNCHANGED <<callMu, once, driverOpen>>
    BY <1>8 DEF V!closePort
  <2>2. pc' \in [Callers -> VectorPlaces] /\ pc'[c] = "closeDriver"
        /\ \A d \in Callers \ {c} : pc'[d] = pc[d]
    BY <2>1 DEF V!Goto, VectorPlaced, VectorPlaces, VectorTearingDown
  <2>3. ~closeErr' => ~active' /\ ~portOpen'
    BY <1>8 DEF V!closePort
  <2>4. \A d \in Callers : pc'[d] \notin V!InLibrary
    BY <2>1, <2>2 DEF VectorMuHeld, VectorHolding, V!InLibrary
  <2>5. VectorPlaced' /\ VectorMuHeld'
    BY <2>1, <2>2, <2>4 DEF VectorPlaced, VectorMuHeld, VectorHolding, V!InLibrary
  <2>6. VectorUp'
    BY <1>2, <2>1, <2>2, <2>4 DEF VectorUp, VectorConstructing
  <2>7. VectorAlone' /\ VectorOneCloses'
    BY <1>1, <1>2, <1>3, <2>1, <2>2
       DEF VectorAlone, VectorOneCloses, VectorConstructing, VectorTearingDown
  <2>8. VectorNoted' /\ VectorUndone' /\ V!ClosedCleanly'
    BY <1>1, <1>2, <1>3, <2>1, <2>2, <2>3 DEF VectorNoted, VectorUndone, V!ClosedCleanly,
           VectorTearingDown, VectorConstructing
  <2> QED BY <1>6, <2>2, <2>5, <2>6, <2>7, <2>8
<1>9. CASE V!closeDriver(c)
  <2>1. /\ pc[c] = "closeDriver" /\ V!Goto(c, "idle") /\ once' = "done"
        /\ callMu' = "free" /\ UNCHANGED <<port, portOpen, active>>
        /\ \/ driverOpen' = FALSE /\ UNCHANGED closeErr
           \/ closeErr' = TRUE /\ UNCHANGED driverOpen
    BY <1>9 DEF V!closeDriver, V!Return, V!Leave, V!Unlock
  <2>2. pc' \in [Callers -> VectorPlaces] /\ pc'[c] = "idle"
        /\ \A d \in Callers \ {c} : pc'[d] = pc[d]
    BY <2>1 DEF V!Goto, VectorPlaced, VectorPlaces
  <2>3. \A d \in Callers : pc'[d] \notin VectorHolding
    BY <2>1, <2>2 DEF VectorMuHeld, VectorHolding, V!InLibrary
  <2>4. VectorPlaced' /\ VectorMuHeld'
    BY <2>2, <2>3 DEF VectorPlaced, VectorMuHeld
  <2>5. VectorUp'
    BY <1>2, <2>1, <2>2, <2>3 DEF VectorUp, VectorHolding, VectorConstructing
  <2>6. VectorAlone' /\ VectorOneCloses'
    BY <1>2, <1>3, <2>2 DEF VectorAlone, VectorOneCloses, VectorConstructing, VectorTearingDown
  <2>7. VectorNoted' /\ VectorUndone'
    BY <1>2, <1>3, <2>1, <2>2 DEF VectorNoted, VectorUndone, VectorTearingDown, VectorConstructing
  <2>8. V!ClosedCleanly'
    BY <2>1 DEF V!ClosedCleanly, VectorUndone
  <2> QED BY <1>6, <2>2, <2>4, <2>5, <2>6, <2>7, <2>8
<1> QED BY <1>7, <1>8, <1>9

LEMMA VectorNextInv ==
    ASSUME VectorInv, VectorTypes, CallsInv, V!Next
    PROVE  VectorInv'
<1>1. ASSUME NEW c \in Callers, V!Works(c) PROVE VectorInv'
  <2>1. CASE V!openDriver(c) \/ V!openPort(c) \/ V!activateChannel(c)
    BY <2>1, VectorConstructStep
  <2>2. CASE V!LockClose(c) \/ V!closePort(c) \/ V!closeDriver(c)
    BY <2>2, VectorTearDownStep
  <2>3. CASE V!Lock(c)
    BY <2>3, VectorLockStep
  <2>4. CASE V!linSetSlaveData(c) \/ V!linSwitchSlaveMode(c)
    BY <2>4, VectorPrepareStep, VectorWorkStep
  <2>5. CASE V!LockChannel(c) \/ V!CallEnds(c) \/ V!FlushReceiveQueue(c)
             \/ V!linSendRequestForID(c) \/ V!Join(c)
    BY <2>5, VectorWorkStep
  <2> QED BY <1>1, <2>1, <2>2, <2>3, <2>4, <2>5 DEF V!Works
<1>2. ASSUME NEW c \in Callers, V!Start(c) \/ V!Close(c) \/ V!Receives(c) PROVE VectorInv'
  <2>1. CASE V!Close(c) /\ once = "new"
    BY <2>1, VectorCloseStep
  <2>2. CASE V!Start(c) \/ V!Receives(c) \/ (V!Close(c) /\ once # "new")
    BY <2>2, VectorWorkStep
  <2> QED BY <1>2, <2>1, <2>2, Zenon
<1>3. CASE V!Traffic
  BY <1>3 DEF V!Traffic, V!Bus, V!Running, V!portVars, V!slaveVars, V!callVars, VectorInv,
          VectorPlaced, VectorMuHeld, VectorUp, VectorAlone, VectorOneCloses, VectorNoted,
          VectorUndone, VectorPrepared, V!HeaderAsPrepared, V!ClosedCleanly
<1> QED BY <1>1, <1>2, <1>3 DEF V!Next

-----------------------------------------------------------------------------
(***************************************************************************)
(* Vector: the frames.                                                     *)
(***************************************************************************)
LEMMA VectorShared ==
    /\ V!Frame = Frame /\ V!NoFrame = NoFrame
    /\ \A k, bad, ask : V!NewFrame(k, bad, ask) = NewFrame(k, bad, ask)
    /\ \A k, f : V!Enqueued(k, f) = Enqueued(k, f)
    /\ \A c, f : V!Deliver(c, f) <=> Deliver(c, f)
    /\ \A on : V!Bus(on) <=> Bus(on)
    /\ V!callVars = callVars /\ V!busVars = busVars /\ V!queueVars = queueVars
  BY DEF V!Frame, Frame, V!NoFrame, NoFrame, V!NewFrame, NewFrame, V!Enqueued, Enqueued,
         V!Deliver, Deliver, V!Matches, Matches, V!Leave, Leave, V!Goto, Goto,
         V!Bus, Bus, V!Arrive, Arrive, V!callVars, callVars, V!busVars, busVars,
         V!queueVars, queueVars

LEMMA VectorTypesKept ==
    ASSUME VectorTypes, V!Next
    PROVE  VectorTypes'
<1> USE DEF VectorTypes, V!Running, V!portVars, V!callVars, V!slaveVars
<1>1. ASSUME NEW c \in Callers,
             \/ V!LockChannel(c) \/ V!Lock(c) \/ V!CallEnds(c) \/ V!FlushReceiveQueue(c)
             \/ V!linSetSlaveData(c) \/ V!linSwitchSlaveMode(c) \/ V!linSendRequestForID(c)
             \/ V!Receives(c) \/ V!Join(c)
      PROVE  VectorTypes'
  <2> USE DEF V!LockChannel, V!lock, V!Lock, V!CallEnds, V!FlushReceiveQueue,
        V!linSetSlaveData, V!linSwitchSlaveMode, V!linSendRequestForID, V!Receives,
        V!TakeQueued, V!TimeOut, V!LookFurther, V!LookAgain, V!readOne, V!Dispatch, V!Join,
        V!Joined, V!LibraryCall, V!Return, V!Leave, V!Deliver, V!Unlock
  <2>1. op' \in {op, [op EXCEPT ![c] = "none"]} /\ callMu' \in {callMu, c, "free"} /\ V!Running
    BY <1>1
  <2>2. CASE V!linSwitchSlaveMode(c)
    <3>1. answers' = [answers EXCEPT ![ch[c]] = op[c] \in {"write", "schedule"}]
          /\ UNCHANGED response
      BY <2>2
    <3>2. (op[c] \in {"write", "schedule"}) \in BOOLEAN
      OBVIOUS
    <3>3. answers' \in [Channels -> BOOLEAN]
      BY <3>1, <3>2, Zenon
    <3> QED BY <2>1, <3>1, <3>3
  <2>3. CASE ~V!linSwitchSlaveMode(c)
    <3>1. response' \in {response, [response EXCEPT ![ch[c]] = c]} /\ UNCHANGED answers
      BY <1>1, <2>3
    <3> QED BY <2>1, <3>1
  <2> QED BY <2>2, <2>3
<1>2. ASSUME NEW c \in Callers, V!Start(c) PROVE VectorTypes'
  <2>1. PICK o \in V!Operations : op' = [op EXCEPT ![c] = o]
    BY <1>2 DEF V!Start, V!Begin
  <2> QED BY <1>2, <2>1 DEF V!Start
<1>3. ASSUME NEW c \in Callers, V!Close(c) PROVE VectorTypes'
  BY <1>3 DEF V!Close, V!BeginClose
<1>4. ASSUME NEW c \in Callers, V!openDriver(c) \/ V!openPort(c) \/ V!activateChannel(c)
      PROVE  VectorTypes'
  <2>1. CASE V!openDriver(c)
    BY <2>1 DEF V!openDriver, V!Opening, V!CleanUp
  <2>2. CASE V!openPort(c)
    BY <2>2 DEF V!openPort, V!Opening, V!CleanUp
  <2>3. CASE V!activateChannel(c)
    BY <2>3 DEF V!activateChannel, V!Opening, V!CleanUp
  <2> QED BY <1>4, <2>1, <2>2, <2>3
<1>5. ASSUME NEW c \in Callers, V!LockClose(c) \/ V!closePort(c) \/ V!closeDriver(c)
      PROVE  VectorTypes'
  <2>1. CASE V!LockClose(c)
    BY <2>1 DEF V!LockClose, V!Closing
  <2>2. CASE V!closePort(c)
    BY <2>2 DEF V!closePort, V!Closing
  <2>3. CASE V!closeDriver(c)
    BY <2>3 DEF V!closeDriver, V!Closing, V!Return, V!Leave, V!Unlock
  <2> QED BY <1>5, <2>1, <2>2, <2>3
<1>6. CASE V!Traffic
  BY <1>6 DEF V!Traffic, V!Bus
<1> QED BY <1>1, <1>2, <1>3, <1>4, <1>5, <1>6 DEF V!Next, V!Works

\* What a call does to the calls, from the points it is at before and after.
LEMMA VectorCallsMove ==
    ASSUME CallsInv, VectorInv, NEW c \in Callers,
           \/ V!Start(c) \/ V!Close(c) \/ V!LockChannel(c) \/ V!Lock(c) \/ V!CallEnds(c)
           \/ V!FlushReceiveQueue(c) \/ V!linSetSlaveData(c) \/ V!linSwitchSlaveMode(c)
           \/ V!linSendRequestForID(c) \/ V!TimeOut(c) \/ V!LookFurther(c) \/ V!LookAgain(c)
           \/ V!openDriver(c) \/ V!openPort(c) \/ V!activateChannel(c)
           \/ V!LockClose(c) \/ V!closePort(c) \/ V!closeDriver(c) \/ V!Join(c)
    PROVE  CallStep(c) /\ pc'[c] # "got"
<1>1. pc \in [Callers -> VectorPlaces]
  BY DEF VectorInv, VectorPlaced
<1>2. CASE V!Start(c)
  <2>1. PICK o \in V!Operations : V!Begin(c, o)
    BY <1>2 DEF V!Start
  <2>2. o \in Kinds /\ o # "none"
    BY DEF V!Operations, Kinds, Reading
  <2>3. Begins(c, o)
    BY <2>1, <2>2 DEF V!Begin, Begins, V!Goto, Goto, V!MayStart, MayStart, V!Consumes, Consumes,
          V!OnChannel, OnChannel, V!FirstStep, FirstStep
  <2>4. pc'[c] # "got"
    BY <1>1, <2>1 DEF V!Begin, V!Goto, V!FirstStep
  <2> QED BY <2>2, <2>3, <2>4 DEF CallStep
<1>3. CASE V!Close(c)
  <2>1. PICK at \in {"close", "join"} : Closes(c, at)
    BY <1>3 DEF V!Close, V!BeginClose, Closes, V!Goto, Goto, ReadPcs
  <2>2. at \in Places
    BY DEF Places
  <2> QED BY <1>1, <2>1, <2>2 DEF CallStep, Closes, Goto
<1>4. CASE V!LockChannel(c)
  <2>1. Locks(c)
    BY <1>4 DEF V!LockChannel, V!lock, Locks, V!Goto, Goto, V!ChannelFree, ChannelFree
  <2> QED BY <1>1, <2>1 DEF CallStep, Locks, Goto
<1>5. ASSUME V!Return(c), UNCHANGED calls
      PROVE  CallStep(c) /\ pc'[c] # "got"
  <2>1. Leaves(c)
    BY <1>5 DEF V!Return, V!Leave, V!Goto, Leaves, Leave, Goto
  <2> QED BY <1>1, <2>1 DEF CallStep, Leaves, Leave, Goto
<1>6. ASSUME NEW at \in Places \ {"got", "channel"}, V!Goto(c, at),
             UNCHANGED <<op, ch, asked, masterLock, calls>>,
             pc[c] # "channel",
             at \in ReadPcs => op[c] \in Reading,
             at = "idle" => op[c] = "none",
             at = "echo" => op[c] = "write"
      PROVE  CallStep(c) /\ pc'[c] # "got"
  <2>1. Moves(c, at)
    BY <1>6 DEF Moves, V!Goto, Goto
  <2> QED BY <1>1, <1>6, <2>1 DEF CallStep, V!Goto
<1>7. CASE V!Lock(c)
  <2>1. CASE V!validateOpen
    <3> DEFINE at == IF pc[c] = "readLock" THEN "receive"
                     ELSE IF op[c] \in {"request", "masterRead"} THEN "switch" ELSE "call"
    <3>1. /\ V!Goto(c, at) /\ UNCHANGED <<op, ch, asked, masterLock, calls>>
          /\ pc[c] \in {"lock", "readLock"}
      BY <1>7, <2>1 DEF V!Lock, V!callVars
    <3>2. at \in Places \ {"got", "channel"} /\ at \notin {"idle", "echo"}
      BY DEF Places, ReadPcs
    <3>3. at \in ReadPcs => op[c] \in Reading
      BY <3>1 DEF CallsInv, Placing, ReadPcs
    <3> HIDE DEF at
    <3> QED BY <1>6, <3>1, <3>2, <3>3
  <2>2. CASE ~V!validateOpen
    BY <1>5, <1>7, <2>2 DEF V!Lock
  <2> QED BY <2>1, <2>2
<1>8. CASE V!CallEnds(c) \/ V!FlushReceiveQueue(c)
  BY <1>5, <1>8 DEF V!CallEnds, V!FlushReceiveQueue, V!LibraryCall
<1>9. CASE V!TimeOut(c) \/ V!Join(c)
  BY <1>5, <1>9 DEF V!TimeOut, V!Join, V!Joined
<1>10. CASE V!linSetSlaveData(c) \/ (V!linSwitchSlaveMode(c) /\ op[c] # "schedule")
  <2>1. /\ V!Goto(c, "switch") \/ V!Goto(c, "send")
        /\ UNCHANGED <<op, ch, asked, masterLock, calls>> /\ pc[c] \in {"call", "switch"}
    BY <1>10 DEF V!linSetSlaveData, V!linSwitchSlaveMode, V!LibraryCall, V!callVars
  <2> QED BY <1>6, <2>1 DEF Places, ReadPcs
<1>11. CASE V!linSwitchSlaveMode(c) /\ op[c] = "schedule"
  BY <1>5, <1>11 DEF V!linSwitchSlaveMode, V!LibraryCall
<1>12. CASE V!linSendRequestForID(c)
  <2>1. CASE op[c] = "masterRead"
    <3>1. /\ V!Goto(c, "poll") /\ UNCHANGED <<op, ch, asked, masterLock, calls>>
          /\ pc[c] = "send"
      BY <1>12, <2>1 DEF V!linSendRequestForID, V!LibraryCall, V!callVars
    <3> QED BY <1>6, <2>1, <3>1 DEF Places, ReadPcs, Reading
  <2>2. CASE op[c] # "masterRead"
    BY <1>5, <1>12, <2>2 DEF V!linSendRequestForID, V!LibraryCall
  <2> QED BY <2>1, <2>2
<1>13. CASE V!LookFurther(c) \/ V!LookAgain(c)
  <2>1. /\ V!Goto(c, "readLock") \/ V!Goto(c, "poll")
        /\ UNCHANGED <<op, ch, asked, masterLock, calls>>
        /\ pc[c] \in {"poll", "idleLibrary"} /\ op[c] \in Reading
    BY <1>13 DEF V!LookFurther, V!LookAgain, V!callVars, CallsInv, Placing, ReadPcs
  <2> QED BY <1>6, <2>1 DEF Places, ReadPcs
<1>14. CASE V!openDriver(c) \/ V!openPort(c) \/ V!activateChannel(c)
  <2>1. /\ pc[c] \in VectorConstructing /\ op[c] = "none"
        /\ UNCHANGED <<op, ch, asked, masterLock, calls>>
    BY <1>14 DEF V!openDriver, V!openPort, V!activateChannel, V!Opening, V!callVars,
          VectorConstructing, VectorInv, VectorAlone
  <2>2. \E at \in {"openPort", "activate", "idle", "close"} : V!Goto(c, at)
    BY <1>14 DEF V!openDriver, V!openPort, V!activateChannel, V!CleanUp
  <2> QED BY <1>6, <2>1, <2>2 DEF Places, ReadPcs, VectorConstructing
<1>15. CASE V!LockClose(c) \/ V!closePort(c)
  <2>1. /\ pc[c] \in VectorTearingDown
        /\ UNCHANGED <<op, ch, asked, masterLock, calls>>
        /\ V!Goto(c, "deactivate") \/ V!Goto(c, "closeDriver")
    BY <1>15 DEF V!LockClose, V!closePort, V!Closing, V!callVars, VectorTearingDown
  <2> QED BY <1>6, <2>1 DEF Places, ReadPcs, VectorTearingDown
<1>16. CASE V!closeDriver(c)
  BY <1>5, <1>16 DEF V!closeDriver, V!Closing
<1> QED BY <1>2, <1>3, <1>4, <1>7, <1>8, <1>9, <1>10, <1>11, <1>12, <1>13, <1>14, <1>15, <1>16

LEMMA VectorFrames ==
    ASSUME FramesInv, VectorInv, V!Next
    PROVE  FramesStep
<1>1. ASSUME NEW c \in Callers,
             \/ V!Start(c) \/ V!Close(c) \/ V!LockChannel(c) \/ V!Lock(c) \/ V!CallEnds(c)
             \/ V!FlushReceiveQueue(c) \/ V!linSetSlaveData(c) \/ V!linSwitchSlaveMode(c)
             \/ V!linSendRequestForID(c) \/ V!TimeOut(c) \/ V!LookFurther(c) \/ V!LookAgain(c)
             \/ V!openDriver(c) \/ V!openPort(c) \/ V!activateChannel(c)
             \/ V!LockClose(c) \/ V!closePort(c) \/ V!closeDriver(c) \/ V!Join(c)
      PROVE  Quiet(c)
  <2> USE DEF V!callVars, V!queueVars, V!busVars
  <2>1. CallStep(c) /\ pc'[c] # "got"
    BY <1>1, VectorCallsMove DEF FramesInv
  <2>2. UNCHANGED <<held, arrived, newest, late, passed, stolen>>
    BY <1>1 DEF V!Start, V!Close, V!Begin, V!BeginClose, V!LockChannel, V!lock, V!Lock,
          V!Return, V!CallEnds, V!FlushReceiveQueue, V!linSetSlaveData, V!linSwitchSlaveMode,
          V!linSendRequestForID, V!LibraryCall, V!TimeOut, V!LookFurther, V!LookAgain,
          V!openDriver, V!openPort, V!activateChannel, V!Opening, V!LockClose, V!closePort,
          V!closeDriver, V!Closing, V!Join, V!Joined
  <2>3. rxQueue' \in {rxQueue, <<>>} /\ UNCHANGED events
    BY <1>1 DEF V!Start, V!Close, V!LockChannel, V!Lock, V!CallEnds, V!FlushReceiveQueue,
          V!linSetSlaveData, V!linSwitchSlaveMode, V!linSendRequestForID, V!LibraryCall,
          V!TimeOut, V!LookFurther, V!LookAgain, V!openDriver, V!openPort,
          V!activateChannel, V!Opening, V!LockClose, V!closePort, V!closeDriver,
          V!Closing, V!Join, V!Joined
  <2>4. UNCHANGED bus \/ V!linSendRequestForID(c)
    BY <1>1 DEF V!Start, V!Close, V!LockChannel, V!Lock, V!CallEnds, V!FlushReceiveQueue,
          V!linSetSlaveData, V!linSwitchSlaveMode, V!LibraryCall,
          V!TimeOut, V!LookFurther, V!LookAgain, V!openDriver, V!openPort,
          V!activateChannel, V!Opening, V!LockClose, V!closePort, V!closeDriver,
          V!Closing, V!Join, V!Joined
  <2>5. ASSUME V!linSendRequestForID(c) PROVE Sends(c)
    <3>1. pc[c] = "send" /\ op[c] \in OnChannel
      BY <2>5 DEF V!linSendRequestForID, V!LibraryCall, VectorInv, VectorPrepared, OnChannel
    <3>2. ch[c] \in Channels
      BY <3>1 DEF FramesInv, CallsInv, Placing
    <3>3. \E ask \in {0, asked[c]} : bus' = bus \cup {[ch |-> ch[c], ask |-> ask]}
      BY <2>5 DEF V!linSendRequestForID
    <3> QED BY <3>1, <3>2, <3>3 DEF Sends
  <2> QED BY <2>1, <2>2, <2>3, <2>4, <2>5 DEF Quiet
<1>2. ASSUME NEW c \in Callers, V!TakeQueued(c) PROVE Takes(c)
  <2>1. V!Deliver(c, Head(events[ch[c]])) <=> Deliver(c, Head(events[ch[c]]))
    BY VectorShared
  <2> QED BY <1>2, <2>1 DEF V!TakeQueued, Takes, V!busVars, busVars
<1>3. ASSUME NEW c \in Callers, V!Dispatch(c) PROVE Passes(c)
  <2>1. /\ V!Deliver(c, held[c]) <=> Deliver(c, held[c])
        /\ V!Enqueued(held[c].ch, held[c]) = Enqueued(held[c].ch, held[c])
        /\ V!NoFrame = NoFrame
    BY VectorShared
  <2> QED BY <1>3, <2>1 DEF V!Dispatch, Passes, V!Goto, Goto, V!busVars, busVars,
              V!callVars, callVars
<1>4. ASSUME NEW c \in Callers, V!readOne(c) PROVE Quiet(c) \/ Gets(c)
  <2>1. /\ pc[c] = "receive" /\ op[c] \in Reading /\ pc \in [Callers -> VectorPlaces]
        /\ UNCHANGED <<calls, events, bus, arrived, passed>>
    BY <1>4 DEF V!readOne, V!LibraryCall, V!busVars, FramesInv, CallsInv, Placing, ReadPcs,
          VectorInv, VectorPlaced
  <2>2. \/ rxQueue' = rxQueue
        \/ rxQueue # <<>> /\ rxQueue' = Tail(rxQueue)
    BY <1>4 DEF V!readOne
  <2>3. CASE V!Goto(c, "idleLibrary") /\ UNCHANGED <<V!callVars, held>>
    <3>1. Moves(c, "idleLibrary") /\ "idleLibrary" \in Places
      BY <2>1, <2>3 DEF Moves, V!Goto, Goto, V!callVars, Places, ReadPcs
    <3> QED BY <2>1, <2>2, <2>3, <3>1 DEF Quiet, CallStep, Moves, Goto, V!callVars
  <2>4. CASE V!Return(c) /\ UNCHANGED held
    <3>1. Leaves(c)
      BY <2>1, <2>4 DEF V!Return, V!Leave, V!Goto, Leaves, Leave, Goto
    <3> QED BY <2>1, <2>2, <2>4, <3>1 DEF Quiet, CallStep, Leaves, Leave, Goto, V!Return
  <2>5. CASE /\ rxQueue # <<>> /\ held' = [held EXCEPT ![c] = Head(rxQueue)]
             /\ rxQueue' = Tail(rxQueue) /\ V!Goto(c, "got") /\ UNCHANGED V!callVars
    <3>1. Moves(c, "got")
      BY <2>1, <2>5 DEF Moves, V!Goto, Goto, V!callVars
    <3> QED BY <2>1, <2>5, <3>1 DEF Gets, V!callVars, busVars
  <2> QED BY <1>4, <2>3, <2>4, <2>5 DEF V!readOne
<1>5. CASE V!Traffic
  <2>1. PICK on \in SUBSET Channels : V!Bus(on)
    BY <1>5 DEF V!Traffic
  <2>2. Bus(on)
    BY <2>1, VectorShared
  <2> QED BY <2>2 DEF FramesStep
<1>6. ASSUME NEW c \in Callers, V!Start(c) \/ V!Close(c) \/ V!Receives(c) \/ V!Works(c)
      PROVE  FramesStep
  BY <1>1, <1>2, <1>3, <1>4, <1>6 DEF V!Receives, V!Works, FramesStep
<1> QED BY <1>5, <1>6 DEF V!Next

(***************************************************************************)
(* Vector: what the invariants say of the driver.                          *)
(***************************************************************************)
VectorAll == VectorInv /\ VectorTypes /\ FramesInv /\ InOrder

LEMMA VectorInitAll == V!Init => VectorAll
<1> SUFFICES ASSUME V!Init PROVE VectorAll
  OBVIOUS
<1>1. VectorInv
  BY VectorInitInv
<1>2. /\ CallsInit
      /\ \E c \in Callers : pc = [d \in Callers |-> IF d = c THEN "openDriver" ELSE "idle"]
  BY DEF V!Init, V!CallsInit, CallsInit, V!NoFrame, NoFrame, V!NewFrame, NewFrame
<1>3. VectorTypes
  BY DEF VectorTypes, V!Init, V!CallsInit
<1>4. CallsInv
  BY <1>2, CallsInit1 DEF Places, ReadPcs
<1>5. FrameTypes /\ Answering /\ InOrder
  BY <1>2, FramesInit
<1> QED BY <1>1, <1>3, <1>4, <1>5 DEF VectorAll, FramesInv

LEMMA VectorStepAll == VectorAll /\ [V!Next]_(V!vars) => VectorAll'
<1> SUFFICES ASSUME VectorAll, [V!Next]_(V!vars) PROVE VectorAll'
  OBVIOUS
<1>1. CASE V!Next
  <2>1. VectorInv' /\ VectorTypes'
    BY <1>1, VectorNextInv, VectorTypesKept DEF VectorAll, FramesInv
  <2>2. FramesStep
    BY <1>1, VectorFrames DEF VectorAll
  <2> QED BY <2>1, <2>2, FramesKept DEF VectorAll
<1>2. CASE UNCHANGED V!vars
  <2> USE DEF V!vars, V!callVars, V!queueVars, V!busVars, V!portVars, V!slaveVars
  <2>1. VectorInv' /\ VectorTypes'
    BY <1>2 DEF VectorAll, VectorTypes, VectorInv, VectorPlaced, VectorMuHeld, VectorUp,
          VectorAlone, VectorOneCloses, VectorNoted, VectorUndone, VectorPrepared,
          V!HeaderAsPrepared, V!ClosedCleanly
  <2>2. UNCHANGED <<pc, calls, callVars, held, queueVars, busVars, passed>>
    BY <1>2 DEF callVars, queueVars, busVars
  <2> QED BY <2>1, <2>2, FramesStay DEF VectorAll
<1> QED BY <1>1, <1>2

LEMMA VectorGood ==
    ASSUME VectorAll
    PROVE  /\ V!TypeOK /\ V!LibraryPresent /\ V!ClosedCleanly
           /\ V!OvertakenOnlyIfPassedOn /\ V!OwnAnswers /\ V!HeaderAsPrepared
<1>1. V!TypeOK
  <2>1. V!CallsTypeOK
    BY VectorShared DEF V!CallsTypeOK, VectorAll, VectorTypes, FramesInv, CallsInv, CallTypes,
          FrameTypes, Answering, Header
  <2> QED BY <2>1 DEF V!TypeOK, VectorAll, VectorTypes, VectorInv, VectorPlaced, VectorPlaces,
          VectorConstructing, VectorTearingDown, VectorCalling
<1>2. V!LibraryPresent
  BY DEF V!LibraryPresent, VectorAll, VectorInv, VectorUp
<1> QED BY <1>1, <1>2 DEF VectorAll, VectorInv, V!OvertakenOnlyIfPassedOn, V!OwnAnswers, InOrder,
           FramesInv, Answering

-----------------------------------------------------------------------------
(***************************************************************************)
(* TSMaster: what the steps do to the driver.                              *)
(***************************************************************************)
LEMMA TsmasterInitInv == S!Init => TsmasterInv
  BY SMT DEF S!Init, S!CallsInit, TsmasterInv, TsmasterPlaced, TsmasterAlone, TsmasterOneCloses,
        TsmasterStopped, TsmasterQuiet, TsmasterCalm, S!PanicOnlyIfOverlapped, S!LoopGone,
        TsmasterConstructing, TsmasterTearingDown, TsmasterCalling, TsmasterPlaces

\* A call moves on or ends; only one that Close overlaps may end the process.
LEMMA TsmasterCallStep ==
    ASSUME TsmasterInv, NEW c \in Callers, NEW at \in TsmasterCalling \cup {"idle"},
           pc[c] \in TsmasterCalling \cup {"idle"},
           pc[c] = "idle" => opened /\ (~closed \/ at = "join"),
           pc[c] = "join" => at = "idle",
           S!Goto(c, at),
           UNCHANGED <<opened, connected, registered, loop, callback, inCallback, closed, once,
                       shut, reporting>>,
           overlapped => overlapped',
           panicked' => overlapped'
    PROVE  TsmasterInv'
<1> USE DEF TsmasterInv, TsmasterCalling, S!Goto
<1>1. pc' \in [Callers -> TsmasterPlaces] /\ pc'[c] = at
      /\ \A d \in Callers \ {c} : pc'[d] = pc[d]
  BY DEF TsmasterPlaced, TsmasterPlaces
<1>2. TsmasterPlaced'
  BY <1>1 DEF TsmasterPlaced
<1>3. \A d \in Callers : pc[d] \notin TsmasterConstructing
  BY DEF TsmasterAlone, TsmasterConstructing
<1>4. TsmasterAlone'
  BY <1>1, <1>3 DEF TsmasterAlone, TsmasterConstructing
<1>5. TsmasterOneCloses'
  BY <1>1 DEF TsmasterOneCloses, TsmasterTearingDown
<1>6. TsmasterStopped'
  BY <1>1 DEF TsmasterStopped, S!LoopGone
<1>7. TsmasterCalm' /\ TsmasterQuiet'
  BY <1>1 DEF TsmasterCalm, TsmasterTearingDown, TsmasterQuiet, S!Reporting
<1> QED BY <1>2, <1>4, <1>5, <1>6, <1>7 DEF S!PanicOnlyIfOverlapped

\* A step of the loop, of the callback or of the bus.
LEMMA TsmasterPathStep ==
    ASSUME TsmasterInv,
           UNCHANGED <<pc, op, opened, closed, once, shut, overlapped, reporting>>,
           loop = "off" => loop' = "off",
           S!LoopGone => S!LoopGone',
           S!Reporting' => S!Reporting,
           S!PanicOnlyIfOverlapped'
    PROVE  TsmasterInv'
<1> USE DEF TsmasterInv
<1>1. TsmasterPlaced' /\ TsmasterAlone' /\ TsmasterOneCloses'
  BY DEF TsmasterPlaced, TsmasterAlone, TsmasterOneCloses
<1>2. TsmasterStopped'
  BY DEF TsmasterStopped, S!LoopGone
<1>3. TsmasterCalm' /\ TsmasterQuiet'
  BY DEF TsmasterCalm, TsmasterQuiet
<1> QED BY <1>1, <1>2, <1>3

LEMMA TsmasterWorkStep ==
    ASSUME TsmasterInv, NEW c \in Callers,
           \/ S!Start(c) \/ (S!Close(c) /\ once # "new")
           \/ S!LockChannel(c) \/ S!Lock(c) \/ S!Transmit(c)
           \/ S!UseLoader(c) \/ S!Echo(c) \/ S!ReadEvent(c) \/ S!Join(c)
    PROVE  TsmasterInv'
<1> USE DEF S!Running, S!Safe, S!libraryVars, S!pathVars, S!shutVars
<1>1. /\ pc[c] \in TsmasterCalling \cup {"idle"}
      /\ UNCHANGED <<opened, connected, registered, loop, callback, inCallback, closed, once,
                     shut, reporting>>
      /\ overlapped => overlapped'
      /\ ~panicked
  <2>1. CASE S!Start(c)
    BY <2>1 DEF S!Start, S!Begin
  <2>2. CASE S!Close(c) /\ once # "new"
    BY <2>2 DEF S!Close, S!BeginClose
  <2>3. CASE S!LockChannel(c) \/ S!Join(c)
    BY <2>3 DEF S!LockChannel, S!lock, S!Join, S!Joined, TsmasterCalling
  <2>4. CASE S!Lock(c) \/ S!Transmit(c) \/ S!UseLoader(c) \/ S!Echo(c) \/ S!ReadEvent(c)
    <3>1. S!Running /\ pc[c] \in {"lock", "call", "describe", "echo", "poll"}
      BY <2>4 DEF S!Lock, S!Transmit, S!UseLoader, S!Echo, S!ReadEvent
    <3> QED BY <3>1 DEF TsmasterCalling
  <2> QED BY <2>1, <2>2, <2>3, <2>4
<1>2. panicked' => overlapped'
  <2>1. CASE S!UseLoader(c)
    <3>1. panicked' = closed /\ pc[c] \in {"describe", "call"} /\ overlapped' = overlapped
      BY <2>1 DEF S!UseLoader
    <3> QED BY <3>1 DEF TsmasterInv, TsmasterCalm, TsmasterTearingDown
  <2>2. CASE S!Echo(c)
    <3>1. panicked' = (ch[c] \in shut) /\ pc[c] = "echo" /\ overlapped' = overlapped
      BY <2>2 DEF S!Echo
    <3>2. shut # {} => closed
      BY DEF TsmasterInv, TsmasterStopped, TsmasterOneCloses
    <3> QED BY <3>1, <3>2 DEF TsmasterInv, TsmasterCalm, TsmasterTearingDown
  <2>3. CASE ~S!UseLoader(c) /\ ~S!Echo(c)
    <3>1. panicked' = panicked
      BY <2>3 DEF S!Start, S!Close, S!LockChannel, S!Lock, S!Transmit, S!ReadEvent, S!Join
    <3> QED BY <1>1, <3>1
  <2> QED BY <2>1, <2>2, <2>3
<1>3. PICK at \in TsmasterCalling \cup {"idle"} :
          /\ S!Goto(c, at)
          /\ pc[c] = "idle" => opened /\ (~closed \/ at = "join")
          /\ pc[c] = "join" => at = "idle"
  <2>1. CASE S!Start(c)
    <3>1. /\ pc[c] = "idle" /\ opened /\ ~closed
          /\ S!Goto(c, "poll") \/ S!Goto(c, "channel") \/ S!Goto(c, "lock")
      BY <2>1 DEF S!Start, S!Begin, S!FirstStep
    <3> QED BY <3>1 DEF TsmasterCalling
  <2>2. CASE S!Close(c) /\ once # "new"
    <3>1. pc[c] = "idle" /\ opened /\ S!Goto(c, "join")
      BY <2>2 DEF S!Close, S!BeginClose
    <3> QED BY <3>1 DEF TsmasterCalling
  <2>3. CASE S!LockChannel(c) \/ S!Lock(c)
    <3>1. /\ pc[c] \in {"channel", "lock"}
          /\ S!Goto(c, "lock") \/ S!Goto(c, "idle") \/ S!Goto(c, "call")
      BY <2>3 DEF S!LockChannel, S!lock, S!Lock, S!Return, S!Leave
    <3> QED BY <3>1 DEF TsmasterCalling
  <2>4. CASE S!Transmit(c) \/ S!UseLoader(c) \/ S!Echo(c)
    <3>1. /\ pc[c] \in {"call", "describe", "echo"}
          /\ S!Goto(c, "describe") \/ S!Goto(c, "idle") \/ S!Goto(c, "echo") \/ S!Goto(c, "poll")
      BY <2>4 DEF S!Transmit, S!UseLoader, S!Echo, S!Return, S!Leave
    <3> QED BY <3>1 DEF TsmasterCalling
  <2>5. CASE S!ReadEvent(c) \/ S!Join(c)
    <3>1. \/ pc[c] = "poll" /\ (S!Goto(c, "poll") \/ S!Goto(c, "idle"))
          \/ pc[c] = "join" /\ S!Goto(c, "idle")
      BY <2>5 DEF S!ReadEvent, S!Join, S!Joined, S!Deliver, S!Return, S!Leave
    <3> QED BY <3>1 DEF TsmasterCalling
  <2> QED BY <2>1, <2>2, <2>3, <2>4, <2>5
<1> QED BY <1>1, <1>2, <1>3, TsmasterCallStep

-----------------------------------------------------------------------------
(***************************************************************************)
(* TSMaster: the constructor and Close.                                    *)
(***************************************************************************)
LEMMA TsmasterConstructStep ==
    ASSUME TsmasterInv, NEW c \in Callers,
           S!connect(c) \/ S!registerLinEvent(c) \/ S!startLoop(c)
    PROVE  TsmasterInv'
<1> USE DEF TsmasterInv, S!Opening, S!CleanUp, S!shutVars
<1>1. /\ pc[c] \in TsmasterConstructing
      /\ UNCHANGED <<op, shut, panicked, overlapped, reporting, inCallback>>
  BY DEF S!connect, S!registerLinEvent, S!startLoop, TsmasterConstructing, S!callVars
<1>2. /\ once = "new" /\ \A d \in Callers : d # c => pc[d] = "idle"
      /\ ~opened /\ op[c] = "none" /\ loop = "off" /\ ~closed
  BY <1>1 DEF TsmasterAlone, TsmasterOneCloses
<1>3. \/ /\ S!Goto(c, "waitLoop") /\ once' = "running" /\ closed' = TRUE
         /\ UNCHANGED <<opened, loop>>
      \/ /\ S!Goto(c, "idle") /\ once' = "new" /\ ~closed'
      \/ /\ S!Goto(c, "register") /\ once' = "new" /\ ~closed' /\ UNCHANGED <<opened, loop>>
      \/ /\ S!Goto(c, "start") /\ once' = "new" /\ ~closed' /\ UNCHANGED <<opened, loop>>
  BY <1>2 DEF S!connect, S!registerLinEvent, S!startLoop
<1>4. /\ pc' \in [Callers -> TsmasterPlaces]
      /\ pc'[c] \in {"waitLoop", "idle", "register", "start"}
      /\ \A d \in Callers : d # c => pc'[d] = "idle"
  BY <1>2, <1>3 DEF S!Goto, TsmasterPlaced, TsmasterPlaces, TsmasterConstructing,
          TsmasterTearingDown
<1>5. pc'[c] \in TsmasterConstructing => ~opened' /\ once' = "new" /\ loop' = "off"
  BY <1>2, <1>3, <1>4 DEF S!Goto, TsmasterPlaced, TsmasterConstructing
<1>6. TsmasterPlaced' /\ TsmasterAlone'
  BY <1>1, <1>2, <1>4, <1>5 DEF TsmasterPlaced, TsmasterAlone, TsmasterConstructing
<1>7. pc'[c] \in TsmasterTearingDown => once' = "running"
  BY <1>3, <1>4 DEF S!Goto, TsmasterPlaced, TsmasterTearingDown
<1>8. TsmasterOneCloses'
  BY <1>3, <1>4, <1>7 DEF TsmasterOneCloses, TsmasterTearingDown
<1>9. TsmasterStopped' /\ TsmasterQuiet'
  <2>1. shut = {} /\ shut' = {}
    BY <1>1, <1>2 DEF TsmasterStopped
  <2> QED BY <1>1, <1>2, <1>3, <1>4, <2>1 DEF TsmasterStopped, TsmasterQuiet
<1>10. TsmasterCalm' /\ S!PanicOnlyIfOverlapped'
  BY <1>1, <1>3, <1>4 DEF TsmasterCalm, S!PanicOnlyIfOverlapped, TsmasterTearingDown, S!Goto,
         TsmasterPlaced
<1> QED BY <1>6, <1>8, <1>9, <1>10

LEMMA TsmasterCloseStep ==
    ASSUME TsmasterInv, NEW c \in Callers, S!Close(c), once = "new"
    PROVE  TsmasterInv'
<1> USE DEF TsmasterInv, S!libraryVars, S!pathVars
<1>1. /\ pc[c] = "idle" /\ opened /\ ~panicked
      /\ S!Goto(c, "close") /\ once' = "running" /\ closed' = TRUE
      /\ overlapped' = (overlapped \/ \E d \in Callers \ {c} : pc[d] # "idle")
      /\ UNCHANGED <<opened, connected, registered, loop, callback, inCallback, shut, panicked,
                     reporting>>
  BY DEF S!Close, S!BeginClose
<1>2. pc' \in [Callers -> TsmasterPlaces] /\ pc'[c] = "close"
      /\ \A d \in Callers \ {c} : pc'[d] = pc[d]
  BY <1>1 DEF S!Goto, TsmasterPlaced, TsmasterPlaces, TsmasterTearingDown
<1>3. \A d \in Callers : pc[d] \notin TsmasterTearingDown /\ pc[d] \notin TsmasterConstructing
  BY <1>1 DEF TsmasterOneCloses, TsmasterAlone
<1>4. TsmasterPlaced' /\ TsmasterAlone' /\ TsmasterOneCloses'
  BY <1>1, <1>2, <1>3 DEF TsmasterPlaced, TsmasterAlone, TsmasterOneCloses,
         TsmasterConstructing, TsmasterTearingDown
<1>5. TsmasterStopped' /\ TsmasterQuiet'
  BY <1>1, <1>2, <1>3 DEF TsmasterStopped, TsmasterTearingDown, TsmasterQuiet, S!Reporting
<1>6. TsmasterCalm' /\ S!PanicOnlyIfOverlapped'
  BY <1>1, <1>2 DEF TsmasterCalm, S!PanicOnlyIfOverlapped, TsmasterTearingDown
<1> QED BY <1>4, <1>5, <1>6

LEMMA TsmasterTearDownStep ==
    ASSUME TsmasterInv, NEW c \in Callers,
           S!WaitLoop(c) \/ S!disconnect(c) \/ S!closeChannels(c)
    PROVE  TsmasterInv'
<1> USE DEF TsmasterInv, S!Closing
<1>1. /\ pc[c] \in TsmasterTearingDown /\ once = "running" /\ ~panicked
      /\ UNCHANGED <<opened, loop, inCallback, closed, panicked, overlapped>>
  BY DEF S!WaitLoop, S!disconnect, S!closeChannels, TsmasterOneCloses, TsmasterTearingDown
<1>2. \A d \in Callers : pc[d] \notin TsmasterConstructing
  BY <1>1 DEF TsmasterAlone, TsmasterConstructing, TsmasterTearingDown
<1>3. \A d \in Callers \ {c} : pc[d] \notin TsmasterTearingDown
  BY <1>1 DEF TsmasterOneCloses
<1>4. shut = {}
  BY <1>1 DEF TsmasterStopped
<1>5. CASE S!WaitLoop(c)
  <2>1. /\ S!LoopGone /\ S!Goto(c, "disconnect")
        /\ UNCHANGED <<connected, registered, callback, shut, reporting, once>>
    BY <1>5 DEF S!WaitLoop
  <2>2. pc' \in [Callers -> TsmasterPlaces] /\ pc'[c] = "disconnect"
        /\ \A d \in Callers \ {c} : pc'[d] = pc[d]
    BY <2>1 DEF S!Goto, TsmasterPlaced, TsmasterPlaces, TsmasterTearingDown
  <2>3. TsmasterPlaced' /\ TsmasterAlone' /\ TsmasterOneCloses'
    BY <1>1, <1>2, <1>3, <2>1, <2>2 DEF TsmasterPlaced, TsmasterAlone, TsmasterOneCloses,
         TsmasterConstructing, TsmasterTearingDown
  <2>4. TsmasterStopped'
    BY <1>1, <1>3, <2>1, <2>2 DEF TsmasterStopped, S!LoopGone, TsmasterTearingDown
  <2>5. TsmasterCalm' /\ TsmasterQuiet' /\ S!PanicOnlyIfOverlapped'
    BY <1>1, <1>4, <2>1, <2>2 DEF TsmasterCalm, TsmasterQuiet, S!PanicOnlyIfOverlapped,
       TsmasterTearingDown
  <2> QED BY <2>3, <2>4, <2>5
<1>6. CASE S!disconnect(c)
  <2>1. pc[c] = "disconnect" /\ S!Goto(c, "shut") /\ UNCHANGED <<shut, reporting, once>>
    BY <1>6 DEF S!disconnect
  <2>2. pc' \in [Callers -> TsmasterPlaces] /\ pc'[c] = "shut"
        /\ \A d \in Callers \ {c} : pc'[d] = pc[d]
    BY <2>1 DEF S!Goto, TsmasterPlaced, TsmasterPlaces, TsmasterTearingDown
  <2>3. TsmasterPlaced' /\ TsmasterAlone' /\ TsmasterOneCloses'
    BY <1>1, <1>2, <1>3, <2>1, <2>2 DEF TsmasterPlaced, TsmasterAlone, TsmasterOneCloses,
         TsmasterConstructing, TsmasterTearingDown
  <2>4. TsmasterStopped'
    BY <1>1, <1>3, <2>1, <2>2 DEF TsmasterStopped, S!LoopGone, TsmasterTearingDown
  <2>5. TsmasterCalm' /\ TsmasterQuiet' /\ S!PanicOnlyIfOverlapped'
    BY <1>1, <1>4, <2>1, <2>2 DEF TsmasterCalm, TsmasterQuiet, S!PanicOnlyIfOverlapped,
       TsmasterTearingDown
  <2> QED BY <2>3, <2>4, <2>5
<1>7. CASE S!closeChannels(c)
  <2>1. /\ pc[c] = "shut" /\ S!Goto(c, "idle") /\ once' = "done"
        /\ UNCHANGED <<connected, registered, callback>> /\ reporting' = S!Reporting
    BY <1>7 DEF S!closeChannels, S!Return, S!Leave
  <2>2. pc' \in [Callers -> TsmasterPlaces] /\ pc'[c] = "idle"
        /\ \A d \in Callers \ {c} : pc'[d] = pc[d]
    BY <2>1 DEF S!Goto, TsmasterPlaced, TsmasterPlaces
  <2>3. TsmasterPlaced' /\ TsmasterAlone'
    BY <1>1, <1>2, <2>1, <2>2 DEF TsmasterPlaced, TsmasterAlone, TsmasterConstructing
  <2>4. TsmasterOneCloses'
    BY <1>1, <1>3, <2>1, <2>2 DEF TsmasterOneCloses, TsmasterTearingDown
  <2>5. TsmasterStopped'
    BY <1>1, <1>3, <2>1, <2>2 DEF TsmasterStopped, S!LoopGone, TsmasterTearingDown
  <2>6. TsmasterCalm' /\ TsmasterQuiet' /\ S!PanicOnlyIfOverlapped'
    BY <1>1, <2>1, <2>2 DEF TsmasterCalm, TsmasterQuiet, S!PanicOnlyIfOverlapped, S!Reporting,
       TsmasterTearingDown
  <2> QED BY <2>3, <2>4, <2>5, <2>6
<1> QED BY <1>5, <1>6, <1>7

\* A closed queue is not met by the loop, and by a callback only if the library
\* was still reporting when Close closed the queues.
LEMMA TsmasterNextInv ==
    ASSUME TsmasterInv, S!Next
    PROVE  TsmasterInv'
<1>1. ASSUME NEW c \in Callers, S!Start(c) \/ S!Close(c) \/ S!Works(c) PROVE TsmasterInv'
  <2>1. CASE S!connect(c) \/ S!registerLinEvent(c) \/ S!startLoop(c)
    BY <2>1, TsmasterConstructStep
  <2>2. CASE S!WaitLoop(c) \/ S!disconnect(c) \/ S!closeChannels(c)
    BY <2>2, TsmasterTearDownStep
  <2>3. CASE S!Close(c) /\ once = "new"
    BY <2>3, TsmasterCloseStep
  <2>4. CASE \/ S!Start(c) \/ (S!Close(c) /\ once # "new")
             \/ S!LockChannel(c) \/ S!Lock(c) \/ S!Transmit(c)
             \/ S!UseLoader(c) \/ S!Echo(c) \/ S!ReadEvent(c) \/ S!Join(c)
    BY <2>4, TsmasterWorkStep
  <2>5. S!Close(c) => (S!Close(c) /\ once = "new") \/ (S!Close(c) /\ once # "new")
    OBVIOUS
  <2> QED BY <1>1, <2>1, <2>2, <2>3, <2>4, <2>5, Zenon DEF S!Works
<1>2. shut # {} => S!LoopGone
  BY DEF TsmasterInv, TsmasterStopped
<1>3. S!PanicOnlyIfOverlapped
  BY DEF TsmasterInv
<1>4. CASE S!Paths
  <2> USE DEF S!OnPath, S!OnCallback, S!libraryVars, S!callVars, S!LoopGone, S!Reporting,
              S!PanicOnlyIfOverlapped
  <2>1. CASE S!onLinEvent
    BY <1>3, <2>1, TsmasterPathStep DEF S!onLinEvent
  <2>2. CASE S!SendEvent
    <3>1. CASE inCallback.ch \in shut
      <4>1. reporting
        BY <2>2, <3>1 DEF S!SendEvent, TsmasterInv, TsmasterQuiet
      <4> QED BY <2>2, <3>1, <4>1, TsmasterPathStep DEF S!SendEvent
    <3>2. CASE inCallback.ch \notin shut
      BY <2>2, <3>2, TsmasterPathStep DEF S!SendEvent
    <3> QED BY <3>1, <3>2
  <2>3. CASE S!LoopTop
    BY <1>3, <2>3, TsmasterPathStep DEF S!LoopTop
  <2>4. CASE S!LoopReceive
    BY <1>3, <2>4, TsmasterPathStep DEF S!LoopReceive
  <2>5. CASE S!LoopDispatch
    <3>1. ~panicked'
      BY <1>2, <2>5 DEF S!LoopDispatch
    <3> QED BY <2>5, <3>1, TsmasterPathStep DEF S!LoopDispatch
  <2> QED BY <1>4, <2>1, <2>2, <2>3, <2>4, <2>5 DEF S!Paths
<1>5. CASE S!Traffic
  <2>1. /\ ~panicked
        /\ UNCHANGED <<pc, op, opened, connected, registered, closed, once, loop, inCallback,
                       shut, panicked, overlapped, reporting>>
    BY <1>5 DEF S!Traffic, S!Bus, S!libraryVars, S!shutVars, S!callVars
  <2>2. callback' # callback => registered /\ connected
    <3>1. callback' # callback => registered /\ arrived' # arrived
      BY <1>5 DEF S!Traffic
    <3>2. ~connected => arrived' = arrived
      BY <1>5 DEF S!Traffic, S!Bus
    <3> QED BY <3>1, <3>2
  <2>3. (S!LoopGone => S!LoopGone') /\ S!PanicOnlyIfOverlapped'
    BY <2>1 DEF S!LoopGone, S!PanicOnlyIfOverlapped
  <2>4. S!Reporting' => S!Reporting
    BY <2>1, <2>2 DEF S!Reporting
  <2> QED BY <2>1, <2>3, <2>4, TsmasterPathStep
<1> QED BY <1>1, <1>4, <1>5 DEF S!Next

-----------------------------------------------------------------------------
(***************************************************************************)
(* TSMaster: the frames.                                                   *)
(***************************************************************************)
LEMMA TsmasterShared ==
    /\ S!Frame = Frame /\ S!NoFrame = NoFrame
    /\ \A k, bad, ask : S!NewFrame(k, bad, ask) = NewFrame(k, bad, ask)
    /\ \A k, f : S!Enqueued(k, f) = Enqueued(k, f)
    /\ \A c, f : S!Deliver(c, f) <=> Deliver(c, f)
    /\ S!callVars = callVars /\ S!busVars = busVars /\ S!queueVars = queueVars
  BY DEF S!Frame, Frame, S!NoFrame, NoFrame, S!NewFrame, NewFrame, S!Enqueued, Enqueued,
         S!Deliver, Deliver, S!Matches, Matches, S!Leave, Leave, S!Goto, Goto,
         S!callVars, callVars, S!busVars, busVars, S!queueVars, queueVars

\* The frames at some positions of the FIFO.
LEMMA FramesAtElems ==
    ASSUME rxQueue \in Seq(Frame), NEW at \in SUBSET DOMAIN rxQueue, NEW g \in S!Ordered(at)
    PROVE  S!FramesAt(g) \in Seq(Frame) /\ Elems(S!FramesAt(g)) \subseteq Elems(rxQueue)
<1>1. DOMAIN rxQueue = 1 .. Len(rxQueue) /\ Len(rxQueue) \in Nat
  BY LenProperties
<1>2. Cardinality(at) \in Nat
  <2>1. IsFiniteSet(DOMAIN rxQueue)
    BY <1>1, FS_Interval
  <2>2. IsFiniteSet(at)
    BY <2>1, FS_Subset
  <2> QED BY <2>2, FS_CardinalityType
<1> DEFINE n == Cardinality(at)
<1> HIDE DEF n
<1>3. g \in [1 .. n -> at]
  <2>1. S!Cardinality(at) = n
    BY DEF S!Cardinality, Cardinality, n
  <2> QED BY <2>1 DEF S!Ordered
<1>4. /\ S!FramesAt(g) = [i \in 1 .. n |-> rxQueue[g[i]]]
      /\ \A i \in 1 .. n : g[i] \in 1 .. Len(rxQueue) /\ rxQueue[g[i]] \in Frame
  BY <1>1, <1>3 DEF S!FramesAt
<1>5. S!FramesAt(g) \in Seq(Frame) /\ Len(S!FramesAt(g)) = n
  BY <1>2, <1>4 DEF n
<1>6. ASSUME NEW e \in Elems(S!FramesAt(g)) PROVE e \in Elems(rxQueue)
  <2>1. PICK i \in 1 .. n : e = S!FramesAt(g)[i]
    BY <1>5 DEF Elems
  <2>2. e = rxQueue[g[i]] /\ g[i] \in 1 .. Len(rxQueue)
    BY <1>4, <2>1
  <2> QED BY <2>2 DEF Elems
<1> QED BY <1>5, <1>6

\* A step that moves nobody: frames leave the FIFO, one may come to a queue.
LEMMA PathFrames ==
    ASSUME FramesInv,
           UNCHANGED <<pc, calls, callVars, held, busVars, passed>>,
           rxQueue' \in Seq(Frame), Elems(rxQueue') \subseteq FairFrames,
           NEW f \in Frame, f \in FairFrames,
           events' = events \/ events' = Enqueued(f.ch, f)
    PROVE  FramesInv' /\ FairFrames' = FairFrames
<1>1. UNCHANGED <<pc, calls, op, ch, asked, masterLock, newest, late, stolen, held,
                  bus, arrived, passed>>
  BY DEF callVars, busVars
<1>2. CallsInv' /\ FairFrames' = FairFrames /\ FairHeaders' = FairHeaders
  BY <1>1 DEF FramesInv, CallsInv, CallTypes, Placing, OnChannel, Numbering, Alone, Locked,
          FairFrames, FairHeaders, Fair
<1>3. f.ch \in Channels
  BY FrameFields
<1>4. /\ events' \in [Channels -> Seq(Frame)]
      /\ \A k \in Channels :
            /\ Len(events'[k]) <= QueueSize
            /\ \A e \in Elems(events'[k]) : e \in Elems(events[k]) \/ (e = f /\ f.ch = k)
  <2>1. CASE events' = events
    BY <2>1 DEF FramesInv, FrameTypes
  <2>2. CASE events' = Enqueued(f.ch, f)
    <3>1. /\ events' \in [Channels -> Seq(Frame)]
          /\ \A k \in Channels : Len(events'[k]) <= QueueSize
                                 /\ (k # f.ch => events'[k] = events[k])
          /\ Elems(events'[f.ch]) \subseteq Elems(events[f.ch]) \cup {f}
      BY <1>3, <2>2, EnqueuedElems DEF FramesInv
    <3>2. ASSUME NEW k \in Channels, NEW e \in Elems(events'[k])
          PROVE  e \in Elems(events[k]) \/ (e = f /\ f.ch = k)
      <4>1. CASE k = f.ch
        BY <3>1, <3>2, <4>1
      <4>2. CASE k # f.ch
        BY <3>1, <3>2, <4>2
      <4> QED BY <4>1, <4>2
    <3> QED BY <3>1, <3>2
  <2> QED BY <2>1, <2>2
<1>5. FrameTypes'
  BY <1>1, <1>4 DEF FramesInv, FrameTypes
<1>6. Answering'
  BY <1>1, <1>2, <1>4 DEF FramesInv, Answering
<1> QED BY <1>2, <1>5, <1>6 DEF FramesInv

\* dispatchLIN puts the frame into the queue of its channel, or drops it.
LEMMA DispatchKeeps ==
    ASSUME TsmasterTypes, NEW f \in Frame,
           \/ S!Dropped(f) /\ UNCHANGED <<made, events, panicked>>
           \/ S!Kept(f) /\ panicked' = (f.ch \in shut) /\ events' = S!Enqueued(f.ch, f)
    PROVE  /\ events' = events \/ events' = Enqueued(f.ch, f)
           /\ last' \in Frame \cup {NoFrame}
           /\ made \subseteq made' /\ made' \subseteq Channels
           /\ panicked' \in BOOLEAN
<1>1. f.ch \in Channels /\ S!Enqueued(f.ch, f) = Enqueued(f.ch, f)
  BY FrameFields, TsmasterShared
<1>2. CASE S!Dropped(f) /\ UNCHANGED <<made, events, panicked>>
  BY <1>2 DEF S!Dropped, TsmasterTypes
<1>3. CASE S!Kept(f) /\ panicked' = (f.ch \in shut) /\ events' = S!Enqueued(f.ch, f)
  <2>1. (f.ch \in shut) \in BOOLEAN /\ panicked' = (f.ch \in shut)
    BY <1>3
  <2> QED BY <1>1, <1>3, <2>1 DEF S!Kept, TsmasterTypes
<1> QED BY <1>2, <1>3

TsmasterAll == TsmasterInv /\ TsmasterTypes /\ TsmasterFair /\ FramesInv

\* The steps of the two ways.
LEMMA TsmasterPathsKeep ==
    ASSUME TsmasterTypes, TsmasterFair, FramesInv, S!Paths
    PROVE  TsmasterTypes' /\ TsmasterFair' /\ FramesInv'
<1>1. /\ batch \in Seq(Frame) /\ callback \in Seq(Frame) /\ rxQueue \in Seq(Frame)
      /\ Elems(batch) \subseteq FairFrames /\ Elems(callback) \subseteq FairFrames
      /\ Elems(rxQueue) \subseteq FairFrames
      /\ inCallback \in FairFrames \cup {NoFrame} /\ S!NoFrame = NoFrame
  BY TsmasterShared DEF TsmasterTypes, TsmasterFair, FramesInv, FrameTypes, Answering
<1>2. /\ UNCHANGED <<pc, calls, callVars, held, busVars, passed>>
      /\ UNCHANGED <<op, closed, once, opened, connected, registered, shut, overlapped,
                     reporting, callMu>>
  <2>1. S!OnPath /\ UNCHANGED callMu
    BY DEF S!Paths, S!onLinEvent, S!SendEvent, S!OnCallback, S!LoopTop, S!LoopReceive,
           S!LoopDispatch
  <2> QED BY <2>1 DEF S!OnPath, S!libraryVars, S!callVars, callVars, S!busVars, busVars
<1>3. ASSUME UNCHANGED <<events, rxQueue>>
      PROVE  FramesInv' /\ FairFrames' = FairFrames
  <2>1. FramesInv'
    BY <1>2, <1>3, FramesStay DEF queueVars
  <2>2. UNCHANGED <<pc, calls, asked, ch>>
    BY <1>2 DEF callVars
  <2> QED BY <2>1, <2>2 DEF FairFrames, Fair
<1>4. CASE S!onLinEvent
  <2>1. Head(callback) \in Frame /\ Head(callback) \in Elems(callback)
        /\ Tail(callback) \in Seq(Frame) /\ Elems(Tail(callback)) \subseteq Elems(callback)
    BY <1>1, <1>4, TailElems DEF S!onLinEvent
  <2> DEFINE f == Head(callback)
  <2>2. f \in Frame /\ f \in FairFrames /\ f.ch \in Channels
    BY <1>1, <2>1, FrameFields
  <2>3. /\ callback' = Tail(callback)
        /\ UNCHANGED <<events, rxQueue, loop, batch, panicked>>
        /\ \/ S!Dropped(f) /\ UNCHANGED <<made, inCallback>>
           \/ S!Kept(f) /\ inCallback' = f
    BY <1>4 DEF S!onLinEvent, S!OnCallback
  <2> HIDE DEF f
  <2>4. FramesInv' /\ FairFrames' = FairFrames
    BY <1>3, <2>3
  <2>5. /\ last' \in Frame \cup {NoFrame}
        /\ made \subseteq made' /\ made' \subseteq Channels
        /\ inCallback' \in {inCallback, f}
    BY <2>2, <2>3 DEF S!Dropped, S!Kept, TsmasterTypes
  <2> QED BY <1>1, <1>2, <2>1, <2>2, <2>3, <2>4, <2>5 DEF TsmasterTypes, TsmasterFair
<1>5. CASE S!SendEvent
  <2> DEFINE f == inCallback
  <2>1. f \in Frame /\ f \in FairFrames
    BY <1>1, <1>5 DEF S!SendEvent, FairFrames
  <2>2. UNCHANGED <<rxQueue, loop, batch, callback, last, made>>
    BY <1>5 DEF S!SendEvent, S!OnCallback
  <2>3. /\ events' = events \/ events' = Enqueued(f.ch, f)
        /\ inCallback' \in {inCallback, NoFrame}
    BY <1>1, <1>5, TsmasterShared DEF S!SendEvent
  <2> HIDE DEF f
  <2>4. FramesInv' /\ FairFrames' = FairFrames
    BY <1>1, <1>2, <2>1, <2>2, <2>3, PathFrames
  <2>5. panicked' \in BOOLEAN
    BY <1>5 DEF S!SendEvent, TsmasterTypes
  <2> QED BY <1>1, <1>2, <2>2, <2>3, <2>4, <2>5 DEF TsmasterTypes, TsmasterFair
<1>6. CASE S!LoopTop
  BY <1>2, <1>3, <1>6 DEF S!LoopTop, S!queueVars, TsmasterTypes, TsmasterFair
<1>7. CASE S!LoopReceive
  <2>1. loop' = "dispatch" /\ UNCHANGED <<events, callback, inCallback, last, made, panicked>>
    BY <1>7 DEF S!LoopReceive
  <2>2. /\ batch' \in Seq(Frame) /\ Elems(batch') \subseteq FairFrames
        /\ rxQueue' \in Seq(Frame) /\ Elems(rxQueue') \subseteq FairFrames
    <3>1. CASE UNCHANGED <<batch, rxQueue>>
      BY <1>1, <3>1
    <3>2. ASSUME NEW k \in Channels, NEW own \in S!Ordered(S!OfChannel(k)),
                 NEW others \in S!Ordered(DOMAIN rxQueue \ S!OfChannel(k)),
                 batch' = S!FramesAt(own), rxQueue' = S!FramesAt(others)
          PROVE  /\ batch' \in Seq(Frame) /\ Elems(batch') \subseteq FairFrames
                 /\ rxQueue' \in Seq(Frame) /\ Elems(rxQueue') \subseteq FairFrames
      <4>1. S!OfChannel(k) \in SUBSET DOMAIN rxQueue
            /\ (DOMAIN rxQueue \ S!OfChannel(k)) \in SUBSET DOMAIN rxQueue
        BY DEF S!OfChannel
      <4>2. S!FramesAt(own) \in Seq(Frame) /\ Elems(S!FramesAt(own)) \subseteq Elems(rxQueue)
        BY <1>1, <4>1, FramesAtElems
      <4>3. S!FramesAt(others) \in Seq(Frame) /\ Elems(S!FramesAt(others)) \subseteq Elems(rxQueue)
        BY <1>1, <4>1, FramesAtElems
      <4> QED BY <1>1, <3>2, <4>2, <4>3
    <3> QED BY <1>7, <3>1, <3>2 DEF S!LoopReceive
  <2>3. FrameTypes' /\ CallsInv' /\ FairFrames' = FairFrames /\ FairHeaders' = FairHeaders
    <3>1. UNCHANGED <<pc, calls, op, ch, asked, masterLock, newest, late, stolen, held,
                      bus, arrived, passed>>
      BY <1>2 DEF callVars, busVars
    <3> QED BY <2>1, <2>2, <3>1 DEF FramesInv, FrameTypes, CallsInv, CallTypes, Placing,
              OnChannel, Numbering, Alone, Locked, FairFrames, FairHeaders, Fair
  <2>4. Answering'
    BY <1>2, <2>1, <2>2, <2>3 DEF FramesInv, Answering, callVars, busVars
  <2> QED BY <1>1, <1>2, <2>1, <2>2, <2>3, <2>4 DEF TsmasterTypes, TsmasterFair, FramesInv
<1>8. CASE S!LoopDispatch /\ batch = <<>>
  BY <1>2, <1>3, <1>8 DEF S!LoopDispatch, TsmasterTypes, TsmasterFair
<1>9. CASE S!LoopDispatch /\ batch # <<>>
  <2>1. Head(batch) \in Frame /\ Head(batch) \in Elems(batch)
        /\ Tail(batch) \in Seq(Frame) /\ Elems(Tail(batch)) \subseteq Elems(batch)
    BY <1>1, <1>9, TailElems
  <2> DEFINE f == Head(batch)
  <2>2. f \in Frame /\ f \in FairFrames
        /\ \/ S!Dropped(f) /\ UNCHANGED <<made, events, panicked>>
           \/ S!Kept(f) /\ panicked' = (f.ch \in shut) /\ events' = S!Enqueued(f.ch, f)
    BY <1>1, <1>9, <2>1 DEF S!LoopDispatch
  <2>3. batch' = Tail(batch) /\ UNCHANGED <<rxQueue, loop, callback, inCallback>>
    BY <1>9 DEF S!LoopDispatch
  <2> HIDE DEF f
  <2>4. /\ events' = events \/ events' = Enqueued(f.ch, f)
        /\ last' \in Frame \cup {NoFrame}
        /\ made \subseteq made' /\ made' \subseteq Channels
        /\ panicked' \in BOOLEAN
    BY <2>2, DispatchKeeps
  <2>5. FramesInv' /\ FairFrames' = FairFrames
    BY <1>1, <1>2, <2>2, <2>3, <2>4, PathFrames
  <2> QED BY <1>1, <1>2, <2>1, <2>3, <2>4, <2>5 DEF TsmasterTypes, TsmasterFair
<1> QED BY <1>4, <1>5, <1>6, <1>7, <1>8, <1>9 DEF S!Paths

\* What a call does to the calls, from the points it is at before and after.
LEMMA TsmasterCallsMove ==
    ASSUME CallsInv, TsmasterInv, NEW c \in Callers,
           \/ S!Start(c) \/ S!Close(c) \/ S!LockChannel(c) \/ S!Lock(c) \/ S!Transmit(c)
           \/ S!UseLoader(c) \/ S!Echo(c) \/ (S!ReadEvent(c) /\ S!Return(c))
           \/ S!connect(c) \/ S!registerLinEvent(c) \/ S!startLoop(c)
           \/ S!WaitLoop(c) \/ S!disconnect(c) \/ S!closeChannels(c) \/ S!Join(c)
    PROVE  CallStep(c) /\ pc'[c] # "got"
<1>1. pc \in [Callers -> TsmasterPlaces]
  BY DEF TsmasterInv, TsmasterPlaced
<1>2. CASE S!Start(c)
  <2>1. PICK o \in S!Operations : S!Begin(c, o)
    BY <1>2 DEF S!Start
  <2>2. o \in Kinds /\ o # "none"
    BY DEF S!Operations, Kinds, Reading
  <2>3. Begins(c, o)
    BY <2>1, <2>2 DEF S!Begin, Begins, S!Goto, Goto, S!MayStart, MayStart, S!Consumes, Consumes,
          S!OnChannel, OnChannel, S!FirstStep, FirstStep
  <2>4. pc'[c] # "got"
    BY <1>1, <2>1 DEF S!Begin, S!Goto, S!FirstStep
  <2> QED BY <2>2, <2>3, <2>4 DEF CallStep
<1>3. CASE S!Close(c)
  <2>1. PICK at \in {"close", "join"} : Closes(c, at)
    BY <1>3 DEF S!Close, S!BeginClose, Closes, S!Goto, Goto, ReadPcs
  <2>2. at \in Places
    BY DEF Places
  <2> QED BY <1>1, <2>1, <2>2 DEF CallStep, Closes, Goto
<1>4. CASE S!LockChannel(c)
  <2>1. Locks(c)
    BY <1>4 DEF S!LockChannel, S!lock, Locks, S!Goto, Goto, S!ChannelFree, ChannelFree
  <2> QED BY <1>1, <2>1 DEF CallStep, Locks, Goto
<1>5. ASSUME S!Return(c), UNCHANGED calls
      PROVE  CallStep(c) /\ pc'[c] # "got"
  <2>1. Leaves(c)
    BY <1>5 DEF S!Return, S!Leave, S!Goto, Leaves, Leave, Goto
  <2> QED BY <1>1, <2>1 DEF CallStep, Leaves, Leave, Goto
<1>6. ASSUME NEW at \in Places \ {"got", "channel"}, S!Goto(c, at),
             UNCHANGED <<op, ch, asked, masterLock, calls>>,
             pc[c] # "channel",
             at \in ReadPcs => op[c] \in Reading,
             at = "idle" => op[c] = "none",
             at = "echo" => op[c] = "write"
      PROVE  CallStep(c) /\ pc'[c] # "got"
  <2>1. Moves(c, at)
    BY <1>6 DEF Moves, S!Goto, Goto
  <2> QED BY <1>1, <1>6, <2>1 DEF CallStep, S!Goto
<1>7. CASE S!Lock(c)
  <2>1. CASE S!Return(c)
    BY <1>5, <1>7, <2>1 DEF S!Lock
  <2>2. CASE S!Goto(c, "call") /\ UNCHANGED S!callVars
    BY <1>6, <1>7, <2>2 DEF S!Lock, S!callVars, Places, ReadPcs
  <2> QED BY <1>7, <2>1, <2>2 DEF S!Lock
<1>8. CASE S!Transmit(c)
  <2>1. pc[c] = "call" /\ UNCHANGED calls
    BY <1>8 DEF S!Transmit
  <2>2. CASE S!Return(c)
    BY <1>5, <2>1, <2>2
  <2>3. CASE S!Goto(c, "describe") /\ UNCHANGED S!callVars
    BY <1>6, <2>1, <2>3 DEF S!callVars, Places, ReadPcs
  <2>4. CASE op[c] = "write" /\ S!Goto(c, "echo") /\ UNCHANGED S!callVars
    BY <1>6, <2>1, <2>4 DEF S!callVars, Places, ReadPcs
  <2>5. CASE op[c] = "masterRead" /\ S!Goto(c, "poll") /\ UNCHANGED S!callVars
    BY <1>6, <2>1, <2>5 DEF S!callVars, Places, ReadPcs, Reading
  <2> QED BY <1>8, <2>2, <2>3, <2>4, <2>5 DEF S!Transmit
<1>9. CASE S!UseLoader(c) \/ S!Echo(c) \/ (S!ReadEvent(c) /\ S!Return(c)) \/ S!Join(c)
  <2>1. CASE S!UseLoader(c) /\ ~S!Return(c)
    <3>1. /\ pc[c] = "call" /\ S!Goto(c, "describe")
          /\ UNCHANGED <<op, ch, asked, masterLock, calls>>
      BY <2>1 DEF S!UseLoader, S!callVars
    <3> QED BY <1>6, <3>1 DEF Places, ReadPcs
  <2>2. CASE ~(S!UseLoader(c) /\ ~S!Return(c))
    BY <1>5, <1>9, <2>2 DEF S!UseLoader, S!Echo, S!ReadEvent, S!Join, S!Joined
  <2> QED BY <2>1, <2>2
<1>10. CASE S!connect(c) \/ S!registerLinEvent(c) \/ S!startLoop(c)
  <2>1. /\ pc[c] \in TsmasterConstructing /\ op[c] = "none"
        /\ UNCHANGED <<op, ch, asked, masterLock, calls>>
    BY <1>10 DEF S!connect, S!registerLinEvent, S!startLoop, S!Opening, S!callVars,
          TsmasterConstructing, TsmasterInv, TsmasterAlone
  <2>2. \E at \in {"register", "start", "idle", "waitLoop"} : S!Goto(c, at)
    BY <1>10 DEF S!connect, S!registerLinEvent, S!startLoop, S!CleanUp
  <2> QED BY <1>6, <2>1, <2>2 DEF Places, ReadPcs, TsmasterConstructing
<1>11. CASE S!WaitLoop(c) \/ S!disconnect(c)
  <2>1. /\ pc[c] \in TsmasterTearingDown
        /\ UNCHANGED <<op, ch, asked, masterLock, calls>>
        /\ S!Goto(c, "disconnect") \/ S!Goto(c, "shut")
    BY <1>11 DEF S!WaitLoop, S!disconnect, S!Closing, S!callVars, TsmasterTearingDown
  <2> QED BY <1>6, <2>1 DEF Places, ReadPcs, TsmasterTearingDown
<1>12. CASE S!closeChannels(c)
  BY <1>5, <1>12 DEF S!closeChannels, S!Closing
<1> QED BY <1>2, <1>3, <1>4, <1>7, <1>8, <1>9, <1>10, <1>11, <1>12

\* The calls' part of a step on the frames.
LEMMA TsmasterFrames ==
    ASSUME FramesInv, TsmasterInv, NEW c \in Callers, S!Start(c) \/ S!Close(c) \/ S!Works(c)
    PROVE  Quiet(c) \/ Takes(c)
<1> USE DEF S!callVars, S!queueVars, S!busVars
<1>1. ASSUME \/ S!Start(c) \/ S!Close(c) \/ S!LockChannel(c) \/ S!Lock(c) \/ S!Transmit(c)
             \/ S!UseLoader(c) \/ S!Echo(c) \/ (S!ReadEvent(c) /\ S!Return(c) /\ UNCHANGED events)
             \/ S!connect(c) \/ S!registerLinEvent(c) \/ S!startLoop(c)
             \/ S!WaitLoop(c) \/ S!disconnect(c) \/ S!closeChannels(c) \/ S!Join(c)
      PROVE  Quiet(c)
  <2>1. CallStep(c) /\ pc'[c] # "got"
    BY <1>1, TsmasterCallsMove DEF FramesInv
  <2>2. UNCHANGED <<held, arrived, newest, late, passed, stolen>>
    BY <1>1 DEF S!Start, S!Close, S!Begin, S!BeginClose, S!LockChannel, S!lock, S!Lock,
          S!Return, S!Transmit, S!UseLoader, S!Echo, S!ReadEvent, S!connect,
          S!registerLinEvent, S!startLoop, S!Opening, S!WaitLoop, S!disconnect,
          S!closeChannels, S!Closing, S!Join, S!Joined
  <2>3. UNCHANGED rxQueue
    BY <1>1 DEF S!Start, S!Close, S!LockChannel, S!Lock,
          S!Transmit, S!UseLoader, S!Echo, S!ReadEvent, S!connect,
          S!registerLinEvent, S!startLoop, S!Opening, S!WaitLoop, S!disconnect,
          S!closeChannels, S!Closing, S!Join, S!Joined
  <2>4. UNCHANGED events \/ S!Echo(c)
    BY <1>1 DEF S!Start, S!Close, S!LockChannel, S!Lock,
          S!Transmit, S!UseLoader, S!connect,
          S!registerLinEvent, S!startLoop, S!Opening, S!WaitLoop, S!disconnect,
          S!closeChannels, S!Closing, S!Join, S!Joined
  <2>5. \/ UNCHANGED bus
        \/ /\ pc[c] = "call" /\ op[c] = "masterRead"
           /\ bus' = bus \cup {[ch |-> ch[c], ask |-> asked[c]]}
    BY <1>1 DEF S!Start, S!Close, S!LockChannel, S!Lock,
          S!Transmit, S!UseLoader, S!Echo, S!ReadEvent, S!connect,
          S!registerLinEvent, S!startLoop, S!Opening, S!WaitLoop, S!disconnect,
          S!closeChannels, S!Closing, S!Join, S!Joined
  <2>6. ASSUME S!Echo(c) PROVE Echoes
    <3>1. ch[c] \in Channels
      BY <2>6 DEF S!Echo, FramesInv, CallsInv, Placing, OnChannel
    <3> QED BY <2>6, <3>1, TsmasterShared DEF S!Echo, Echoes
  <2>7. ASSUME pc[c] = "call", op[c] = "masterRead",
               bus' = bus \cup {[ch |-> ch[c], ask |-> asked[c]]}
        PROVE  Sends(c)
    BY <2>7 DEF Sends, FramesInv, CallsInv, Placing, OnChannel
  <2> QED BY <2>1, <2>2, <2>3, <2>4, <2>5, <2>6, <2>7 DEF Quiet
<1>2. ASSUME S!ReadEvent(c), ~(S!Return(c) /\ UNCHANGED events) PROVE Takes(c)
  <2>1. S!Deliver(c, Head(events[ch[c]])) <=> Deliver(c, Head(events[ch[c]]))
    BY TsmasterShared
  <2> QED BY <1>2, <2>1 DEF S!ReadEvent, Takes, busVars
<1> QED BY <1>1, <1>2 DEF S!Works

\* The types under the steps of the calls.
LEMMA TsmasterCallTypes ==
    ASSUME TsmasterTypes, CallsInv, NEW c \in Callers, S!Start(c) \/ S!Close(c) \/ S!Works(c)
    PROVE  TsmasterTypes' /\ UNCHANGED <<batch, inCallback>> /\ callback' \in {callback, <<>>}
<1> USE DEF TsmasterTypes, S!libraryVars, S!pathVars, S!shutVars, S!callVars
<1>1. <<>> \in Seq(Frame)
  BY NoElems
<1>2. CASE S!Start(c)
  <2>1. PICK o \in S!Operations : op' = [op EXCEPT ![c] = o]
    BY <1>2 DEF S!Start, S!Begin
  <2>2. op' \in [Callers -> {"none", "close"} \cup S!Operations]
    BY <2>1
  <2>3. /\ UNCHANGED <<callMu, made, panicked, overlapped>>
        /\ UNCHANGED <<closed, once, opened, connected, registered, loop, batch, callback,
                       inCallback, last, shut, reporting>>
    BY <1>2 DEF S!Start, S!Running, S!Safe
  <2> QED BY <2>2, <2>3
<1>3. CASE S!Close(c)
  <2>1. UNCHANGED <<opened, connected, registered, loop, batch, callback, inCallback, last,
                    made, shut, panicked, reporting, callMu>>
    BY <1>3 DEF S!Close, S!BeginClose
  <2>2. overlapped' \in BOOLEAN
    BY <1>3 DEF S!Close
  <2>3. op' \in [Callers -> {"none", "close"} \cup S!Operations]
    BY <1>3 DEF S!Close, S!BeginClose
  <2>4. closed' \in BOOLEAN /\ once' \in {"new", "running", "done"}
    BY <1>3 DEF S!Close, S!BeginClose
  <2> QED BY <2>1, <2>2, <2>3, <2>4
<1>4. ASSUME \/ S!LockChannel(c) \/ S!Lock(c) \/ S!Transmit(c)
             \/ S!UseLoader(c) \/ S!Echo(c) \/ S!ReadEvent(c) \/ S!Join(c)
      PROVE  TsmasterTypes' /\ UNCHANGED <<batch, inCallback>> /\ callback' \in {callback, <<>>}
  <2>1. /\ UNCHANGED <<closed, once, opened, connected, registered, loop, batch, callback,
                       inCallback, last, shut, overlapped, reporting>>
    BY <1>4 DEF S!LockChannel, S!Lock, S!Transmit, S!UseLoader, S!Echo, S!ReadEvent,
       S!Join, S!Joined, S!Running
  <2>2. op' \in {op, [op EXCEPT ![c] = "none"]} /\ callMu' \in {callMu, c, "free"}
    BY <1>4 DEF S!LockChannel, S!lock, S!Lock, S!Transmit, S!UseLoader, S!Echo,
       S!ReadEvent, S!Join, S!Joined, S!Return, S!Leave, S!Deliver
  <2>3. made' = made \/ (made' = made \cup {ch[c]} /\ ch[c] \in Channels)
    <3>1. CASE S!Echo(c) \/ S!ReadEvent(c)
      BY <3>1 DEF S!Echo, S!ReadEvent, CallsInv, Placing, OnChannel, Reading, ReadPcs
    <3>2. CASE ~(S!Echo(c) \/ S!ReadEvent(c))
      BY <1>4, <3>2 DEF S!LockChannel, S!Lock, S!Transmit, S!UseLoader, S!Join
    <3> QED BY <3>1, <3>2
  <2>4. panicked' \in BOOLEAN
    <3>1. CASE S!Echo(c)
      <4>1. (ch[c] \in shut) \in BOOLEAN /\ panicked' = (ch[c] \in shut)
        BY <3>1 DEF S!Echo
      <4> QED BY <4>1
    <3>2. CASE ~S!Echo(c)
      BY <1>4, <3>2 DEF S!LockChannel, S!Lock, S!Transmit, S!UseLoader, S!ReadEvent, S!Join, S!Safe
    <3> QED BY <3>1, <3>2
  <2> QED BY <2>1, <2>2, <2>3, <2>4
<1>5. ASSUME S!connect(c) \/ S!registerLinEvent(c) \/ S!startLoop(c)
      PROVE  TsmasterTypes' /\ UNCHANGED <<batch, inCallback>> /\ callback' \in {callback, <<>>}
  <2>1. UNCHANGED <<op, callMu, batch, callback, inCallback, last, made, shut, panicked,
                    overlapped, reporting>>
    BY <1>5 DEF S!connect, S!registerLinEvent, S!startLoop, S!Opening
  <2>2. closed' \in BOOLEAN /\ once' \in {"new", "running", "done"}
    BY <1>5 DEF S!connect, S!registerLinEvent, S!startLoop, S!CleanUp
  <2>3. /\ opened' \in BOOLEAN /\ connected' \in BOOLEAN /\ registered' \in BOOLEAN
        /\ loop' \in {"off", "top", "lock", "dispatch", "gone"}
    BY <1>5 DEF S!connect, S!registerLinEvent, S!startLoop
  <2> QED BY <2>1, <2>2, <2>3
<1>6. ASSUME S!WaitLoop(c) \/ S!disconnect(c) \/ S!closeChannels(c)
      PROVE  TsmasterTypes' /\ UNCHANGED <<batch, inCallback>> /\ callback' \in {callback, <<>>}
  <2>1. CASE S!WaitLoop(c)
    BY <2>1 DEF S!WaitLoop, S!Closing
  <2>2. CASE S!disconnect(c)
    <3>1. connected' \in BOOLEAN
      BY <2>2 DEF S!disconnect
    <3>2. registered' \in BOOLEAN /\ callback' \in {callback, <<>>}
      BY <2>2 DEF S!disconnect
    <3>3. /\ op' = op /\ callMu' = callMu
          /\ UNCHANGED <<opened, loop, batch, inCallback, last, made, shut, panicked, overlapped,
                         reporting, closed, once>>
      BY <2>2 DEF S!disconnect, S!Closing
    <3>4. callback' \in Seq(Frame)
      BY <1>1, <3>2
    <3> QED BY <3>1, <3>2, <3>3, <3>4
  <2>3. CASE S!closeChannels(c)
    <3>1. reporting' \in BOOLEAN
      BY <2>3 DEF S!closeChannels, S!Reporting
    <3> QED BY <2>3, <3>1 DEF S!closeChannels, S!Closing, S!Return, S!Leave
  <2> QED BY <1>6, <2>1, <2>2, <2>3
<1> QED BY <1>2, <1>3, <1>4, <1>5, <1>6 DEF S!Works

\* A frame comes to the FIFO, and to the callback if the library has one.
LEMMA TsmasterTrafficKeeps ==
    ASSUME TsmasterTypes, TsmasterFair, FramesInv, S!Traffic
    PROVE  TsmasterTypes' /\ TsmasterFair' /\ FramesInv'
<1>1. PICK on \in SUBSET Channels : Bus(on)
  <2>1. PICK on \in SUBSET Channels : S!Bus(on)
    BY DEF S!Traffic
  <2>2. Bus(on)
    BY <2>1 DEF S!Bus, Bus, S!Arrive, Arrive, S!NewFrame, NewFrame, S!callVars, callVars
  <2> QED BY <2>2
<1>2. FramesInv'
  BY <1>1, BusFrames
<1>3. /\ UNCHANGED <<pc, calls, ch, asked, op, callMu, closed, once>>
      /\ UNCHANGED <<opened, connected, registered, loop, batch, inCallback, last, made, shut,
                     panicked, overlapped, reporting>>
      /\ FairFrames' = FairFrames
  <2>1. UNCHANGED <<pc, calls, ch, asked, op, callMu, closed, once>>
    BY <1>1 DEF Bus, callVars
  <2>2. FairFrames' = FairFrames
    BY <2>1 DEF FairFrames, Fair
  <2> QED BY <2>1, <2>2 DEF S!Traffic, S!libraryVars, S!shutVars
<1>4. callback' \in Seq(Frame) /\ Elems(callback') \subseteq FairFrames
  <2>1. callback \in Seq(Frame) /\ Elems(callback) \subseteq FairFrames
    BY DEF TsmasterTypes, TsmasterFair
  <2>2. CASE callback' = callback
    BY <2>1, <2>2
  <2>3. CASE arrived' # arrived /\ callback' = Append(callback, rxQueue'[Len(rxQueue')])
    <3>1. PICK f \in Frame : Fair(f) /\ rxQueue' = Append(rxQueue, f)
      BY <1>1, <2>3, BusQueue
    <3>2. rxQueue \in Seq(Frame)
      BY DEF FramesInv, FrameTypes
    <3>3. rxQueue'[Len(rxQueue')] = f
      BY <3>1, <3>2, AppendProperties
    <3>4. f \in FairFrames
      BY <3>1 DEF FairFrames
    <3> QED BY <2>1, <2>3, <3>3, <3>4, AppendElems
  <2> QED BY <2>2, <2>3 DEF S!Traffic
<1>5. TsmasterTypes' /\ TsmasterFair'
  BY <1>3, <1>4 DEF TsmasterTypes, TsmasterFair
<1> QED BY <1>2, <1>5

(***************************************************************************)
(* TSMaster: what the invariants say of the driver.                        *)
(***************************************************************************)
LEMMA TsmasterInitAll == S!Init => TsmasterAll
<1> SUFFICES ASSUME S!Init PROVE TsmasterAll
  OBVIOUS
<1>1. TsmasterInv
  BY TsmasterInitInv
<1>2. /\ CallsInit
      /\ \E c \in Callers : pc = [d \in Callers |-> IF d = c THEN "connect" ELSE "idle"]
  BY DEF S!Init, S!CallsInit, CallsInit, S!NoFrame, NoFrame, S!NewFrame, NewFrame
<1>3. CallsInv
  BY <1>2, CallsInit1 DEF Places, ReadPcs
<1>4. FrameTypes /\ Answering
  BY <1>2, FramesInit
<1>5. TsmasterTypes /\ TsmasterFair
  BY NoElems, TsmasterShared DEF TsmasterTypes, TsmasterFair, S!Init, S!CallsInit
<1> QED BY <1>1, <1>3, <1>4, <1>5 DEF TsmasterAll, FramesInv

LEMMA TsmasterStepAll == TsmasterAll /\ [S!Next]_(S!vars) => TsmasterAll'
<1> SUFFICES ASSUME TsmasterAll, [S!Next]_(S!vars) PROVE TsmasterAll'
  OBVIOUS
<1> USE DEF TsmasterAll
<1>1. ASSUME NEW c \in Callers, S!Start(c) \/ S!Close(c) \/ S!Works(c) PROVE TsmasterAll'
  <2>1. TsmasterInv'
    BY <1>1, TsmasterNextInv DEF S!Next
  <2>2. TsmasterTypes' /\ UNCHANGED <<batch, inCallback>> /\ callback' \in {callback, <<>>}
    BY <1>1, TsmasterCallTypes DEF FramesInv
  <2>3. Quiet(c) \/ Takes(c)
    BY <1>1, TsmasterFrames
  <2>4. FramesInv'
    BY <2>3, QuietFrames, TakesFrames
  <2>5. FairFrames \subseteq FairFrames'
    <3>1. CallStep(c)
      <4>1. CASE Takes(c)
        <5>1. pc[c] \in ReadPcs /\ UNCHANGED calls /\ Deliver(c, Head(events[ch[c]]))
          BY <4>1 DEF Takes, ReadPcs
        <5> QED BY <5>1, DeliverCalls DEF FramesInv
      <4> QED BY <2>3, <4>1 DEF Quiet
    <3> QED BY <3>1, FairAll
  <2>6. TsmasterFair'
    BY <2>2, <2>5, NoElems DEF TsmasterFair
  <2> QED BY <2>1, <2>2, <2>4, <2>6
<1>2. CASE S!Paths
  BY <1>2, TsmasterNextInv, TsmasterPathsKeep DEF S!Next
<1>3. CASE S!Traffic
  BY <1>3, TsmasterNextInv, TsmasterTrafficKeeps DEF S!Next
<1>4. CASE UNCHANGED S!vars
  <2> USE DEF S!vars, S!callVars, S!queueVars, S!busVars, S!libraryVars, S!pathVars, S!shutVars
  <2>1. TsmasterInv' /\ TsmasterTypes'
    BY <1>4 DEF TsmasterTypes, TsmasterInv, TsmasterPlaced, TsmasterAlone, TsmasterOneCloses,
          TsmasterStopped, TsmasterQuiet, TsmasterCalm, S!PanicOnlyIfOverlapped, S!LoopGone,
          S!Reporting
  <2>2. UNCHANGED <<pc, calls, callVars, held, queueVars, busVars, passed>>
    BY <1>4 DEF callVars, queueVars, busVars
  <2>3. TsmasterFair'
    BY <1>4 DEF TsmasterFair, FairFrames, Fair
  <2> QED BY <2>1, <2>2, <2>3, FramesStay
<1> QED BY <1>1, <1>2, <1>3, <1>4 DEF S!Next

LEMMA TsmasterGood ==
    ASSUME TsmasterAll
    PROVE  S!TypeOK /\ S!ClosedCleanly /\ S!OwnAnswers /\ S!PanicOnlyIfOverlapped
<1>1. S!TypeOK
  <2>1. S!CallsTypeOK
    BY TsmasterShared DEF S!CallsTypeOK, TsmasterAll, TsmasterTypes, FramesInv, CallsInv, CallTypes,
          FrameTypes, Answering, Header
  <2> QED BY <2>1, TsmasterShared DEF S!TypeOK, TsmasterAll, TsmasterTypes, TsmasterInv,
          TsmasterPlaced, TsmasterPlaces, TsmasterConstructing, TsmasterTearingDown,
          TsmasterCalling
<1>2. S!ClosedCleanly
  BY DEF S!ClosedCleanly, TsmasterAll, TsmasterInv, TsmasterStopped
<1> QED BY <1>1, <1>2 DEF TsmasterAll, TsmasterInv, S!OwnAnswers, FramesInv, Answering

-----------------------------------------------------------------------------
(***************************************************************************)
(* Toomoss, whose module has proofs of its own.                            *)
(***************************************************************************)
LEMMA ToomossNext == T!Next => TP!Next
<1>1. ASSUME NEW c \in Callers
      PROVE  /\ T!NewToomoss(c) => TP!NewToomoss(c)
             /\ T!ensureLinReady(c) => TP!ensureLinReady(c)
             /\ T!UsbOpen(c) => TP!UsbOpen(c)
             /\ T!LinExInit(c) => TP!LinExInit(c)
  BY DEF T!NewToomoss, TP!NewToomoss, T!ensureLinReady, TP!ensureLinReady, T!UsbOpen, TP!UsbOpen,
        T!LinExInit, TP!LinExInit, T!Enter, TP!Enter, T!InstanceMuFree, TP!InstanceMuFree,
        T!NewPcs, TP!NewPcs, T!libraryVars, TP!libraryVars, T!closeVars, TP!closeVars,
        T!elinsVars, TP!elinsVars, T!frameVars, TP!frameVars, T!Goto, TP!Goto, T!Return,
        TP!Return, T!Continue, TP!Continue, T!history, TP!history, T!usbClose, TP!usbClose
<1>2. ASSUME NEW c \in Callers
      PROVE  /\ T!LinMasterSync(c) => TP!LinMasterSync(c)
             /\ T!SyncReturns(c) => TP!SyncReturns(c)
             /\ T!Enqueue(c) => TP!Enqueue(c)
  BY DEF T!LinMasterSync, TP!LinMasterSync, T!SyncReturns, TP!SyncReturns, T!Enqueue, TP!Enqueue,
        T!Enter, TP!Enter, T!CallMuFree, TP!CallMuFree, T!CallPcs, TP!CallPcs, T!usbClose,
        TP!usbClose, T!Valid, TP!Valid, T!libraryVars, TP!libraryVars, T!closeVars, TP!closeVars,
        T!elinsVars, TP!elinsVars, T!frameVars, TP!frameVars, T!history, TP!history, T!Return,
        TP!Return, T!Continue, TP!Continue, T!Enqueued, TP!Enqueued
<1>3. ASSUME NEW c \in Callers
      PROVE  /\ T!ConfigureELINS(c) => TP!ConfigureELINS(c)
             /\ T!ELINSInit(c) => TP!ELINSInit(c)
  BY DEF T!ConfigureELINS, TP!ConfigureELINS, T!ELINSInit, TP!ELINSInit, T!Enter, TP!Enter,
        T!CallMuFree, TP!CallMuFree, T!CallPcs, TP!CallPcs, T!usbClose, TP!usbClose, T!Valid,
        TP!Valid, T!libraryVars, TP!libraryVars, T!closeVars, TP!closeVars, T!frameVars,
        TP!frameVars, T!history, TP!history, T!Goto, TP!Goto, T!Return, TP!Return, T!Continue,
        TP!Continue, T!rollback, TP!rollback
<1>4. ASSUME NEW c \in Callers
      PROVE  /\ T!ReadEvent(c) => TP!ReadEvent(c)
             /\ T!ReadQueued(c) => TP!ReadQueued(c)
             /\ T!ReadUnqueued(c) => TP!ReadUnqueued(c)
  BY DEF T!ReadEvent, TP!ReadEvent, T!ReadQueued, TP!ReadQueued, T!ReadUnqueued, TP!ReadUnqueued,
        T!Enter, TP!Enter, T!StateMuFree, TP!StateMuFree, T!Valid, TP!Valid, T!Consumed,
        TP!Consumed, T!ReadPcs, TP!ReadPcs, T!libraryVars, TP!libraryVars, T!closeVars,
        TP!closeVars, T!elinsVars, TP!elinsVars, T!frameVars, TP!frameVars, T!history,
        TP!history, T!Continue, TP!Continue, T!Deliver, TP!Deliver, T!Return, TP!Return, T!Goto,
        TP!Goto
<1>5. ASSUME NEW c \in Callers
      PROVE  /\ T!ensureToomossLoaded(c) => TP!ensureToomossLoaded(c)
             /\ T!LinExSlaveGetData(c) => TP!LinExSlaveGetData(c)
             /\ T!Fetched(c) => TP!Fetched(c)
  BY DEF T!ensureToomossLoaded, TP!ensureToomossLoaded, T!LinExSlaveGetData, TP!LinExSlaveGetData,
        T!Fetched, TP!Fetched, T!Goto, TP!Goto, T!Return, TP!Return, T!Continue, TP!Continue,
        T!closeVars, TP!closeVars, T!elinsVars, TP!elinsVars, T!frameVars, TP!frameVars,
        T!history, TP!history, T!CallMuFree, TP!CallMuFree, T!CallPcs, TP!CallPcs, T!usbClose,
        TP!usbClose, T!Valid, TP!Valid, T!libraryVars, TP!libraryVars
<1>6. ASSUME NEW c \in Callers
      PROVE  T!ReadBatch(c) => TP!ReadBatch(c)
  BY DEF T!ReadBatch, TP!ReadBatch, T!RemoveAt, TP!RemoveAt, T!Continue, TP!Continue,
        T!Enqueued, TP!Enqueued, T!Deliver,
        TP!Deliver, T!Return, TP!Return, T!libraryVars, TP!libraryVars, T!closeVars,
        TP!closeVars, T!elinsVars, TP!elinsVars, T!history, TP!history
<1>7. ASSUME NEW c \in Callers
      PROVE  /\ T!Close(c) => TP!Close(c)
             /\ T!ELINSStop(c) => TP!ELINSStop(c)
  BY DEF T!Close, TP!Close, T!ELINSStop, TP!ELINSStop, T!Enter, TP!Enter, T!StateMuFree,
        TP!StateMuFree, T!libraryVars, TP!libraryVars, T!frameVars, TP!frameVars, T!Goto,
        TP!Goto, T!Continue, TP!Continue, T!usbClose, TP!usbClose, T!CallMuFree, TP!CallMuFree,
        T!CallPcs, TP!CallPcs, T!closeVars, TP!closeVars, T!history, TP!history
<1>8. ASSUME NEW c \in Callers
      PROVE  /\ T!CloseDevice(c) => TP!CloseDevice(c)
             /\ T!CloseInstance(c) => TP!CloseInstance(c)
             /\ T!CloseJoins(c) => TP!CloseJoins(c)
  BY DEF T!CloseDevice, TP!CloseDevice, T!CloseInstance, TP!CloseInstance, T!CloseJoins,
        TP!CloseJoins, T!Goto, TP!Goto, T!Continue, TP!Continue, T!usbClose, TP!usbClose,
        T!elinsVars, TP!elinsVars, T!Return, TP!Return, T!InstanceMuFree, TP!InstanceMuFree,
        T!NewPcs, TP!NewPcs, T!frameVars, TP!frameVars, T!history, TP!history, T!libraryVars,
        TP!libraryVars, T!closeVars, TP!closeVars
<1>9. T!Arrive => TP!Arrive
  BY DEF T!Arrive, TP!Arrive, T!callVars, TP!callVars, T!libraryVars, TP!libraryVars, T!closeVars,
        TP!closeVars, T!elinsVars, TP!elinsVars, T!history, TP!history
<1> QED BY <1>1, <1>2, <1>3, <1>4, <1>5, <1>6, <1>7, <1>8, <1>9 DEF T!Next, TP!Next

LEMMA ToomossSame ==
    /\ T!Init => TP!Init
    /\ TP!TypeOK => T!TypeOK
    /\ TP!OwnDevice => T!OwnDevice
    /\ TP!Released => T!Released
    /\ TP!ReadInOrder => T!ReadInOrder
<1> USE DEF T!Object, TP!Object, T!NewPcs, TP!NewPcs, T!ReadPcs, TP!ReadPcs, T!CallPcs, TP!CallPcs
<1>1. T!Init => TP!Init
  BY DEF T!Init, TP!Init
<1>3. TP!TypeOK => T!TypeOK
  BY DEF T!TypeOK, TP!TypeOK
<1>4. TP!OwnDevice => T!OwnDevice
  BY DEF T!OwnDevice, TP!OwnDevice
<1>5. (TP!Released => T!Released) /\ (TP!ReadInOrder => T!ReadInOrder)
  BY DEF T!Released, TP!Released, T!ReadInOrder, TP!ReadInOrder
<1> QED BY <1>1, <1>3, <1>4, <1>5

LEMMA ToomossInitAll == T!Init => TP!AllInv
<1>1. 2 \in Nat
  OBVIOUS
<1> QED BY <1>1, ToomossSame, TP!InitAll

LEMMA ToomossStepAll == TP!AllInv /\ [T!Next]_(T!vars) => TP!AllInv'
<1>1. 2 \in Nat
  OBVIOUS
<1>2. [T!Next]_(T!vars) => [TP!Next]_(TP!vars)
  <2>1. T!vars = TP!vars /\ (T!vars)' = (TP!vars)'
    BY DEF T!vars, TP!vars, T!callVars, TP!callVars, T!libraryVars, TP!libraryVars,
           T!closeVars, TP!closeVars, T!elinsVars, TP!elinsVars, T!frameVars, TP!frameVars,
           T!history, TP!history
  <2> QED BY <2>1, ToomossNext
<1> QED BY <1>1, <1>2, TP!StepAll

LEMMA ToomossGood ==
    TP!AllInv => T!TypeOK /\ T!OwnDevice /\ T!Released /\ T!ReadInOrder
  BY ToomossSame, TP!AllGood

-----------------------------------------------------------------------------
(***************************************************************************)
(* The drivers together: the one that was chosen keeps its invariant.      *)
(***************************************************************************)
DriversInv ==
    /\ device \in {"pcan", "vector", "tsmaster", "toomoss"}
    /\ device = "pcan" => PcanAll
    /\ device = "vector" => VectorAll
    /\ device = "tsmaster" => TsmasterAll
    /\ device = "toomoss" => TP!AllInv

LEMMA DriversInit == Init => DriversInv
  BY PcanInitAll, VectorInitAll, TsmasterInitAll, ToomossInitAll DEF Init, DriversInv

allVars == <<device, pc, calls, callVars, held, callMu, queueVars, busVars, passed, closed, once,
             opened, closeErr, registered, pcanOnly, vectorOnly, tsmasterOnly, toomossOnly>>

\* The variables of a driver are among those of all.
LEMMA AllUnchanged ==
    UNCHANGED allVars => UNCHANGED <<device, P!vars, V!vars, S!vars, T!vars>>
<1> SUFFICES ASSUME UNCHANGED allVars
             PROVE  UNCHANGED <<device, P!vars, V!vars, S!vars, T!vars>>
  OBVIOUS
<1> USE DEF allVars, callVars, queueVars, busVars, pcanOnly, vectorOnly, tsmasterOnly, toomossOnly
<1>1. UNCHANGED device /\ UNCHANGED P!vars
  BY DEF P!vars, P!callVars, P!queueVars, P!busVars, P!hardwareVars, P!closeVars
<1>2. UNCHANGED V!vars
  BY DEF V!vars, V!callVars, V!queueVars, V!busVars, V!portVars, V!slaveVars
<1>3. UNCHANGED S!vars
  BY DEF S!vars, S!callVars, S!queueVars, S!busVars, S!libraryVars, S!pathVars, S!shutVars
<1>4. UNCHANGED T!vars
  BY DEF T!vars, T!callVars, T!libraryVars, T!closeVars, T!elinsVars, T!frameVars, T!history
<1> QED BY <1>1, <1>2, <1>3, <1>4

LEMMA DriversStep == DriversInv /\ [Next]_allVars => DriversInv'
<1> SUFFICES ASSUME DriversInv, [Next]_allVars PROVE DriversInv'
  OBVIOUS
<1>1. device' = device
  BY AllUnchanged DEF Next
<1>2. /\ device = "pcan" => [P!Next]_(P!vars)
      /\ device = "vector" => [V!Next]_(V!vars)
      /\ device = "tsmaster" => [S!Next]_(S!vars)
      /\ device = "toomoss" => [T!Next]_(T!vars)
  BY AllUnchanged DEF Next
<1> QED BY <1>1, <1>2, PcanStepAll, VectorStepAll, TsmasterStepAll, ToomossStepAll DEF DriversInv

LEMMA DriversAlways == Spec => []DriversInv
<1>1. DriversInv /\ [Next]_allVars => DriversInv'
  BY DriversStep
<1> QED BY <1>1, DriversInit, PTL DEF Spec, allVars

LEMMA DriversGood ==
    ASSUME DriversInv
    PROVE  /\ TypeOK /\ LibraryPresent /\ ClosedCleanly /\ OvertakenOnlyIfPassedOn
           /\ OwnAnswers /\ HeaderAsPrepared /\ PanicOnlyIfOverlapped /\ Released
  BY PcanGood, VectorGood, TsmasterGood, ToomossGood
     DEF DriversInv, TypeOK, LibraryPresent, ClosedCleanly, OvertakenOnlyIfPassedOn,
         OwnAnswers, HeaderAsPrepared, PanicOnlyIfOverlapped, Released

\* Every goroutine is at a point of a method, in a queue are frames that arrived,
\* and no channel, handle or answer is there that the configuration has not.
THEOREM TypeCorrect == Spec => []TypeOK
  BY DriversAlways, DriversGood, PTL

\* Whoever calls into a vendor library finds it loaded and its client, port or
\* adapter open, whenever Close runs: Close takes callMu, and whoever gets it
\* afterwards looks at closed once more (pcan.go:647, 739, 853, 999; vector.go:497,
\* 581, 846; toomoss.go:823-827, 1049-1077).
THEOREM LibraryStays == Spec => []LibraryPresent
  BY DriversAlways, DriversGood, PTL

\* A Close without an error has undone all its constructor did in the library of
\* PCAN or Vector, however far that came (pcan.go:1016, vector.go:845).  Of TSMaster
\* this says only that the receive loop is gone (tsmaster.go:886): its Close ignores
\* what the library refuses, returns nil, and does not finalize the library
\* (tsmaster.go:891-901, 918).
THEOREM ClosesCleanly == Spec => []ClosedCleanly
  BY DriversAlways, DriversGood, PTL

\* A frame comes after a newer one of its channel only if another channel's reader
\* took it from the library and passed it on (pcan.go:585-603, vector.go:462-468);
\* a Toomoss channel is always read in order (toomoss.go:855-862).
THEOREM OvertakenSafe == Spec => []OvertakenOnlyIfPassedOn
  BY DriversAlways, DriversGood, PTL

\* No MasterRead returns the answer another one still waits for, whatever channels
\* they read, whoever took the frame from the library and however late it comes
\* (common.go:27, pcan.go:760).
THEOREM OwnAnswersSafe == Spec => []OwnAnswers
  BY DriversAlways, DriversGood, PTL

\* Between the preparation of a channel and its header nobody changes the response:
\* callMu is held from the one to the other (vector.go:640).
THEOREM HeaderSafe == Spec => []HeaderAsPrepared
  BY DriversAlways, DriversGood, PTL

\* TSMaster ends in a panic only if Close began while another call was under way, or
\* in a callback, if the library was not done with callbacks when Close closed the
\* queues (tsmaster.go:630, 758, 888, 891-901, 912, 958).
THEOREM PanicSafe == Spec => []PanicOnlyIfOverlapped
  BY DriversAlways, DriversGood, PTL

\* Close of a Toomoss object has stopped ELINS on all channels, closed the adapter
\* and freed the library (toomoss.go:1044, toomoss_darwin.go:691-700).
THEOREM ReleasedSafe == Spec => []Released
  BY DriversAlways, DriversGood, PTL
=============================================================================
