------------------------------- MODULE Preset -------------------------------
(***************************************************************************)
(* A Preset owns a driver and a UDS client.  Its operations are serialized *)
(* by operationMu; below them the transport loop and MasterRead take       *)
(* events from the same driver queue, and Close must release the driver    *)
(* when neither uses it any more.                                          *)
(*                                                                         *)
(* The client is reduced to what its loop does to the driver (UdsClient    *)
(* and MasterTransport have the rest): a request queues frames and waits   *)
(* for a message; the loop is active while frames are queued, a caller     *)
(* waits or a reception is open.  An event is a frame ID, a direction and  *)
(* the number of the header that asked for it.                             *)
(***************************************************************************)
EXTENDS Integers, Sequences, FiniteSets

CONSTANTS
    Callers,
    Ids,            \* frame IDs of Write and MasterRead, Diag among them
    Diag,           \* SlaveDiagnosticFrameID
    TxQueueSize,    \* of the transport
    MaxOps,         \* bound: operations started
    MaxPolls        \* bound: headers the loop sends

ASSUME PresetAssumption ==
    /\ Diag \in Ids
    /\ "free" \notin Callers
    /\ TxQueueSize \in Nat \ {0} /\ MaxOps \in Nat /\ MaxPolls \in Nat

Event == [id : Ids, dir : {"RX", "TX"}, header : Nat]

VARIABLES
    pc,          \* where each caller is
    op,          \* the operation it waits to run
    id,          \* the frame ID it was given
    asked,       \* the header of its MasterRead
    ops,         \* operations started so far
    closed,      \* Preset.closed
    once,        \* closeOnce: "none", "running" or "done"
    mu,          \* the caller that holds operationMu, or "free"
    transport,   \* "open", "closed" (refuses) or "done" (loop joined)
    txQueue,     \* frames queued
    awaiting,    \* awaitingSlaveResponse
    rxOpen,      \* a multi-frame reception is open
    message,     \* a message waits for the request
    complete,    \* receivedCompleteMessage of this execute
    loop,        \* "idle", "reading", "acting" or "gone"
    queue,       \* events the driver holds
    coming,      \* headers whose answer is still to come
    headers,     \* headers sent so far
    polls,       \* those of them the loop sent
    released,    \* the driver is closed
    got,         \* history: the header whose answer MasterRead returned, or 0
    late,        \* history: IDs of which an answer was given up
    stolen,      \* history: the loop took what MasterRead asked for
    left         \* history: the last request left frames or a reception behind

opVars == <<op, id, asked, ops>>
closeVars == <<closed, once, transport, released>>
loopVars == <<txQueue, awaiting, rxOpen, message, complete, loop>>
busVars == <<queue, coming, headers, polls>>
history == <<got, late, stolen, left>>
vars == <<pc, opVars, closeVars, mu, loopVars, busVars, history>>

Init ==
    /\ pc = [c \in Callers |-> "idle"]
    /\ op = [c \in Callers |-> "none"]
    /\ id = [c \in Callers |-> Diag]
    /\ asked = [c \in Callers |-> 0]
    /\ ops = 0
    /\ closed = FALSE /\ once = "none" /\ transport = "open" /\ released = FALSE
    /\ mu = "free"
    /\ txQueue = 0 /\ awaiting = FALSE /\ rxOpen = FALSE
    /\ message = FALSE /\ complete = FALSE /\ loop = "idle"
    /\ queue = <<>> /\ coming = {} /\ headers = 0 /\ polls = 0
    /\ got = [c \in Callers |-> 0]
    /\ late = {}
    /\ stolen = [c \in Callers |-> FALSE]
    /\ left = FALSE

-----------------------------------------------------------------------------
(***************************************************************************)
(* Operations.  A closed preset refuses before and after it takes the      *)
(* lock; taking the lock and asking again are one step, since only Close   *)
(* writes closed and it does not hold the lock then.                       *)
(***************************************************************************)
FirstStep == [Request |-> "send", MasterRead |-> "header", Write |-> "write"]

Begin(c, o) ==
    /\ pc[c] = "idle"
    /\ ops < MaxOps
    /\ ~closed
    /\ op' = [op EXCEPT ![c] = o]
    /\ \E i \in Ids :
        /\ o = "Request" => i = Diag
        /\ id' = [id EXCEPT ![c] = i]
    /\ ops' = ops + 1
    /\ pc' = [pc EXCEPT ![c] = "lock"]
    /\ got' = [got EXCEPT ![c] = 0]
    /\ stolen' = [stolen EXCEPT ![c] = FALSE]
    /\ UNCHANGED <<asked, closeVars, mu, loopVars, busVars, late, left>>

\* Mutant of Refuses: closed is not looked at again.
RefusesNever == FALSE

Refuses == closed

MuFree == mu = "free"

lockOperation(c) ==
    /\ pc[c] = "lock"
    /\ MuFree
    /\ \/ /\ Refuses
          /\ pc' = [pc EXCEPT ![c] = "idle"]
          /\ UNCHANGED mu
       \/ /\ ~Refuses
          /\ pc' = [pc EXCEPT ![c] = FirstStep[op[c]]]
          /\ mu' = c
    /\ op' = [op EXCEPT ![c] = "none"]
    /\ UNCHANGED <<id, asked, ops, closeVars, loopVars, busVars, history>>

\* The operation returns; the deferred unlock runs.
Return(c) == pc' = [pc EXCEPT ![c] = "idle"] /\ mu' = "free"

(***************************************************************************)
(* Request, RequestWithNAD and FunctionRequest: one or two frames.         *)
(***************************************************************************)
\* Mutant of Fits: room for one frame is enough.
FitsOneFrame(n) == txQueue < TxQueueSize

Fits(n) == txQueue + n <= TxQueueSize

Request(c) ==
    /\ pc[c] = "send"
    /\ \E n \in 1..2 :
        \/ /\ transport = "open"
           /\ Fits(n)
           /\ txQueue' = txQueue + n
           /\ awaiting' = TRUE
           /\ message' = FALSE
           /\ pc' = [pc EXCEPT ![c] = "await"]
           /\ UNCHANGED mu
        \/ /\ transport # "open" \/ ~Fits(n)
           /\ Return(c)
           /\ UNCHANGED <<txQueue, awaiting, message>>
    /\ UNCHANGED <<opVars, closeVars, rxOpen, complete, loop, busVars, history>>

\* A response, a timeout or the end of the transport ends the wait.
RequestEnds(c) ==
    /\ pc[c] = "await"
    /\ \/ message /\ message' = FALSE
       \/ UNCHANGED message
    /\ awaiting' = FALSE
    /\ pc' = [pc EXCEPT ![c] = "barrier"]
    /\ UNCHANGED <<opVars, closeVars, mu, txQueue, rxOpen, complete, loop, busVars, history>>

\* Mutants of LoopRests: StopAwaitingSlaveResponse does not wait for execute,
\* or waits for a loop that is gone.
LoopRestsNoBarrier == TRUE
LoopRestsIdle == loop = "idle"

LoopRests == loop \notin {"reading", "acting"}

StopAwaitingSlaveResponse(c) ==
    /\ pc[c] = "barrier"
    /\ LoopRests
    /\ left' = (txQueue > 0 \/ rxOpen)
    /\ Return(c)
    /\ UNCHANGED <<opVars, closeVars, loopVars, busVars, got, late, stolen>>

(***************************************************************************)
(* MasterRead sends a header, then takes events until one matches.         *)
(***************************************************************************)
MasterRead(c) ==
    /\ pc[c] = "header"
    /\ headers' = headers + 1
    /\ asked' = [asked EXCEPT ![c] = headers']
    /\ coming' = coming \union {[id |-> id[c], header |-> headers']}
    /\ pc' = [pc EXCEPT ![c] = "read"]
    /\ UNCHANGED <<op, id, ops, closeVars, mu, loopVars, queue, polls, history>>

\* The driver refuses the header.
MasterReadFails(c) ==
    /\ pc[c] = "header"
    /\ Return(c)
    /\ UNCHANGED <<opVars, closeVars, loopVars, busVars, history>>

\* Mutant of Matches: whatever its frame ID.
MatchesAnyId(c, e) == e.dir = "RX"

Matches(c, e) == e.id = id[c] /\ e.dir = "RX"

MasterReadReturns(c) ==
    /\ pc[c] = "read"
    /\ queue # <<>>
    /\ Matches(c, Head(queue))
    /\ got' = [got EXCEPT ![c] = Head(queue).header]
    /\ queue' = Tail(queue)
    /\ Return(c)
    /\ UNCHANGED <<opVars, closeVars, loopVars, coming, headers, polls, late, stolen, left>>

MasterReadSkips(c) ==
    /\ pc[c] = "read"
    /\ queue # <<>>
    /\ ~Matches(c, Head(queue))
    /\ queue' = Tail(queue)
    /\ UNCHANGED <<pc, opVars, closeVars, mu, loopVars, coming, headers, polls, history>>

\* The deadline passes, or the driver fails to read.
MasterReadTimesOut(c) ==
    /\ pc[c] = "read"
    /\ late' = late \union {id[c]}
    /\ Return(c)
    /\ UNCHANGED <<opVars, closeVars, loopVars, busVars, got, stolen, left>>

\* Write: the driver reports the frame back as a TX event, or refuses it.
Write(c) ==
    /\ pc[c] = "write"
    /\ queue' \in {queue, Append(queue, [id |-> id[c], dir |-> "TX", header |-> 0])}
    /\ Return(c)
    /\ UNCHANGED <<opVars, closeVars, loopVars, coming, headers, polls, history>>

-----------------------------------------------------------------------------
(***************************************************************************)
(* Close.                                                                  *)
(***************************************************************************)
Close(c) ==
    /\ pc[c] = "idle"
    /\ ops < MaxOps
    /\ ops' = ops + 1
    /\ \/ /\ once = "none"
          /\ once' = "running"
          /\ closed' = TRUE
          /\ pc' = [pc EXCEPT ![c] = "client"]
       \/ /\ once # "none"
          /\ pc' = [pc EXCEPT ![c] = "once"]
          /\ UNCHANGED <<once, closed>>
    /\ UNCHANGED <<op, id, asked, transport, released, mu, loopVars, busVars, history>>

\* Mutant of OnceOver: a second Close does not wait for the first.
OnceOverAtOnce == once # "none"

OnceOver == once = "done"

\* sync.Once: a second call returns when the first one has.
CloseAgain(c) ==
    /\ pc[c] = "once"
    /\ OnceOver
    /\ pc' = [pc EXCEPT ![c] = "closed"]
    /\ UNCHANGED <<opVars, closeVars, mu, loopVars, busVars, history>>

\* Client.Close: refuse, cancel the loop, ...
CloseClient(c) ==
    /\ pc[c] = "client"
    /\ transport' = "closed"
    /\ pc' = [pc EXCEPT ![c] = "join"]
    /\ UNCHANGED <<opVars, closed, once, released, mu, loopVars, busVars, history>>

LoopJoined == loop = "gone"

\* ... wait for it, release those who wait for a message.
CloseJoins(c) ==
    /\ pc[c] = "join"
    /\ LoopJoined
    /\ transport' = "done"
    /\ pc' = [pc EXCEPT ![c] = "release"]
    /\ UNCHANGED <<opVars, closed, once, released, mu, loopVars, busVars, history>>

\* The driver is closed under operationMu.
CloseDriver(c) ==
    /\ pc[c] = "release"
    /\ MuFree
    /\ released' = TRUE
    /\ once' = "done"
    /\ pc' = [pc EXCEPT ![c] = "closed"]
    /\ UNCHANGED <<opVars, closed, transport, mu, loopVars, busVars, history>>

-----------------------------------------------------------------------------
(***************************************************************************)
(* The transport loop.                                                     *)
(***************************************************************************)
Active(open) == txQueue > 0 \/ awaiting \/ open

\* An execute that finds nothing to do, or the transport closed, keeps off
\* the driver.  A reception may be found expired first.
Execute ==
    /\ loop = "idle"
    /\ transport = "open"
    /\ \E open \in {rxOpen, FALSE} :
        /\ rxOpen' = open
        /\ loop' = IF Active(open) THEN "reading" ELSE "idle"
        /\ open # rxOpen \/ Active(open)
    /\ complete' = FALSE
    /\ UNCHANGED <<pc, opVars, closeVars, mu, txQueue, awaiting, message, busVars, history>>

\* An answer on the diagnostic ID may be a message, its start or a part of
\* it, or be ignored; anything else is ignored.
ExecuteReads ==
    /\ loop = "reading"
    /\ queue # <<>>
    /\ LET e == Head(queue) IN
        /\ \/ /\ e.id = Diag /\ e.dir = "RX"
              /\ \/ message' = TRUE /\ complete' = TRUE /\ rxOpen' = FALSE
                 \/ rxOpen' = TRUE /\ UNCHANGED <<message, complete>>
           \/ UNCHANGED <<message, complete, rxOpen>>
        /\ stolen' = [c \in Callers |->
                        stolen[c] \/ (pc[c] = "read" /\ e.dir = "RX" /\ e.header = asked[c])]
    /\ queue' = Tail(queue)
    /\ UNCHANGED <<pc, opVars, closeVars, mu, txQueue, awaiting, loop, coming, headers, polls,
                   got, late, left>>

ExecuteHasRead ==
    /\ loop = "reading"
    /\ queue = <<>>
    /\ loop' = "acting"
    /\ UNCHANGED <<pc, opVars, closeVars, mu, txQueue, awaiting, rxOpen, message, complete,
                   busVars, history>>

ExecuteWrites ==
    /\ loop = "acting"
    /\ txQueue > 0
    /\ txQueue' = txQueue - 1
    /\ loop' = "idle"
    /\ UNCHANGED <<pc, opVars, closeVars, mu, awaiting, rxOpen, message, complete, busVars,
                   history>>

ExecutePolls ==
    /\ loop = "acting"
    /\ txQueue = 0
    /\ loop' = "idle"
    /\ \/ /\ ~complete /\ (awaiting \/ rxOpen)
          /\ polls < MaxPolls
          /\ polls' = polls + 1
          /\ headers' = headers + 1
          /\ coming' = coming \union {[id |-> Diag, header |-> headers']}
       \/ /\ complete \/ ~(awaiting \/ rxOpen) \/ polls = MaxPolls
          /\ UNCHANGED <<headers, polls, coming>>
    /\ UNCHANGED <<pc, opVars, closeVars, mu, txQueue, awaiting, rxOpen, message, complete,
                   queue, history>>

LoopExits ==
    /\ loop = "idle"
    /\ transport = "closed"
    /\ loop' = "gone"
    /\ UNCHANGED <<pc, opVars, closeVars, mu, txQueue, awaiting, rxOpen, message, complete,
                   busVars, history>>

-----------------------------------------------------------------------------
(***************************************************************************)
(* The bus: a slave answers a header, in time, late or never.              *)
(***************************************************************************)
Answers ==
    \E h \in coming :
        /\ coming' = coming \ {h}
        /\ queue' = Append(queue, [id |-> h.id, dir |-> "RX", header |-> h.header])
        /\ UNCHANGED <<pc, opVars, closeVars, mu, loopVars, headers, polls, history>>

Silent ==
    \E h \in coming :
        /\ coming' = coming \ {h}
        /\ UNCHANGED <<pc, opVars, closeVars, mu, loopVars, queue, headers, polls, history>>

Operation(c) ==
    \/ lockOperation(c)
    \/ Request(c) \/ RequestEnds(c) \/ StopAwaitingSlaveResponse(c)
    \/ MasterRead(c) \/ MasterReadFails(c) \/ MasterReadReturns(c) \/ MasterReadSkips(c)
    \/ MasterReadTimesOut(c)
    \/ Write(c)
    \/ CloseAgain(c) \/ CloseClient(c) \/ CloseJoins(c) \/ CloseDriver(c)

Loop ==
    \/ Execute \/ ExecuteReads \/ ExecuteHasRead \/ ExecuteWrites \/ ExecutePolls
    \/ LoopExits

Next ==
    \/ \E c \in Callers : Close(c) \/ Operation(c)
    \/ \E c \in Callers, o \in DOMAIN FirstStep : Begin(c, o)
    \/ Loop
    \/ Answers \/ Silent

Spec == Init /\ [][Next]_vars

\* Strong fairness where goroutines compete for a mutex: operationMu and the
\* executeMu barrier are handed over after a millisecond of starvation.
FairSpec ==
    /\ Spec
    /\ WF_vars(Loop)
    /\ \A c \in Callers :
        /\ WF_vars(Operation(c))
        /\ SF_vars(lockOperation(c) \/ StopAwaitingSlaveResponse(c) \/ CloseDriver(c))

-----------------------------------------------------------------------------
OpPcs == {"send", "await", "barrier", "header", "read", "write"}

\* Types; the frames of a request never exceed the queue, so Transmit does
\* not block with operationMu held (transport.go:371-381).
TypeOK ==
    /\ pc \in [Callers -> {"idle", "lock", "once", "client", "join", "release", "closed"}
                          \union OpPcs]
    /\ op \in [Callers -> {"none"} \union DOMAIN FirstStep]
    /\ id \in [Callers -> Ids]
    /\ asked \in [Callers -> Nat] /\ got \in [Callers -> Nat]
    /\ ops \in Nat /\ headers \in Nat /\ polls \in Nat
    /\ closed \in BOOLEAN /\ released \in BOOLEAN /\ awaiting \in BOOLEAN
    /\ rxOpen \in BOOLEAN /\ message \in BOOLEAN /\ complete \in BOOLEAN /\ left \in BOOLEAN
    /\ once \in {"none", "running", "done"}
    /\ mu \in Callers \union {"free"}
    /\ transport \in {"open", "closed", "done"}
    /\ txQueue \in 0..TxQueueSize
    /\ loop \in {"idle", "reading", "acting", "gone"}
    /\ queue \in Seq(Event)
    /\ coming \in SUBSET [id : Ids, header : Nat]
    /\ late \in SUBSET Ids
    /\ stolen \in [Callers -> BOOLEAN]

\* Nobody is inside a driver call, or about to make one, once the driver is
\* closed: Close stops the loop first and waits for the operation that holds
\* operationMu (preset.go:98-113), and those that wait for the lock are
\* refused (preset.go:80-84).
DriverReleasedLast ==
    released =>
        /\ loop \notin {"reading", "acting"}
        /\ \A c \in Callers : pc[c] \notin {"header", "read", "write"}

\* Whoever has returned from Close finds the driver closed, the one whose call
\* did nothing included (preset.go:95-96).
CloseMeansClosed == \A c \in Callers : pc[c] = "closed" => released

\* MasterRead returns the answer to its own header unless an earlier
\* MasterRead of the same frame ID gave its answer up (common.go:44-70).  On
\* Diag the polls of the loop leave answers behind as well.
FreshAnswer ==
    \A c \in Callers :
        got[c] # 0 /\ id[c] # Diag /\ id[c] \notin late => got[c] = asked[c]

\* The loop takes the answer a MasterRead waits for only if the last request
\* left frames queued or a reception open (transport.go:300-309).
NoTheft == \A c \in Callers : pc[c] = "read" /\ stolen[c] => left

\* What preset.go:145-146 says: "the UDS transport is idle before MasterRead
\* starts".
MasterReadFindsIdle ==
    \A c \in Callers : pc[c] = "header" => LoopRests /\ ~Active(rxOpen)

\* Every operation returns, those that Close interrupts and Close included
\* (preset.go:39-41: "Close ... wakes blocked requests").
CallsReturn ==
    \A c \in Callers : pc[c] \notin {"idle", "closed"} ~> pc[c] \in {"idle", "closed"}
=============================================================================
