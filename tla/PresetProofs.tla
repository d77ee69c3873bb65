---------------------------- MODULE PresetProofs ----------------------------
(***************************************************************************)
(* Preset: nobody uses a closed driver, the transport loop keeps off what  *)
(* a MasterRead waits for unless the last request left it something, and a *)
(* MasterRead returns its own answer unless one was given up before.       *)
(***************************************************************************)
EXTENDS Preset, TLAPS, SequenceTheorems

\* Who waits for the lock waits for an operation.
WaitsForOp == \A c \in Callers : pc[c] = "lock" => op[c] \in DOMAIN FirstStep

TypeInv == TypeOK /\ WaitsForOp

Pcs == {"idle", "lock", "once", "client", "join", "release", "closed"} \union OpPcs

LEMMA FirstStepType ==
    ASSUME NEW o \in DOMAIN FirstStep
    PROVE  FirstStep[o] \in OpPcs /\ FirstStep[o] # "lock"
BY DEF FirstStep, OpPcs

LEMMA TypeInit == Init => TypeInv
<1> SUFFICES ASSUME Init PROVE TypeInv
  OBVIOUS
<1>1. queue \in Seq(Event)
  BY DEF Init
<1>2. WaitsForOp
  BY DEF Init, WaitsForOp
<1>3. /\ pc \in [Callers -> {"idle", "lock", "once", "client", "join", "release", "closed"}
                             \union OpPcs]
      /\ op \in [Callers -> {"none"} \union DOMAIN FirstStep]
      /\ id \in [Callers -> Ids]
      /\ asked \in [Callers -> Nat] /\ got \in [Callers -> Nat]
      /\ stolen \in [Callers -> BOOLEAN]
  BY PresetAssumption DEF Init
<1>4. /\ ops \in Nat /\ headers \in Nat /\ polls \in Nat
      /\ txQueue \in 0..TxQueueSize
      /\ coming \in SUBSET [id : Ids, header : Nat]
      /\ late \in SUBSET Ids
  BY PresetAssumption DEF Init
<1> QED
  BY <1>1, <1>2, <1>3, <1>4 DEF Init, TypeInv, TypeOK

LEMMA TypeClose ==
    ASSUME TypeInv, NEW c \in Callers,
           \/ Close(c) \/ CloseAgain(c) \/ CloseClient(c) \/ CloseJoins(c) \/ CloseDriver(c)
    PROVE  TypeInv'
<1> USE DEF TypeInv, TypeOK, WaitsForOp, opVars, closeVars, loopVars, busVars, history
<1>1. CASE Close(c)
  <2>1. /\ ops' = ops + 1
        /\ UNCHANGED <<op, id, asked, transport, released, mu, loopVars, busVars, history>>
    BY <1>1 DEF Close
  <2>2. closed' \in BOOLEAN /\ once' \in {"none", "running", "done"}
    BY <1>1 DEF Close
  <2>3. pc' = [pc EXCEPT ![c] = "client"] \/ pc' = [pc EXCEPT ![c] = "once"]
    BY <1>1 DEF Close
  <2>4. pc' \in [Callers -> Pcs] /\ WaitsForOp'
    BY <2>1, <2>3 DEF Pcs
  <2> QED BY <2>1, <2>2, <2>4 DEF Pcs
<1>2. CASE CloseAgain(c)
  BY <1>2 DEF CloseAgain
<1>3. CASE CloseClient(c)
  BY <1>3 DEF CloseClient
<1>4. CASE CloseJoins(c)
  BY <1>4 DEF CloseJoins
<1>5. CASE CloseDriver(c)
  BY <1>5 DEF CloseDriver
<1> QED BY <1>1, <1>2, <1>3, <1>4, <1>5

LEMMA TypeOperation ==
    ASSUME TypeInv, NEW c \in Callers, Operation(c)
    PROVE  TypeInv'
<1> USE DEF TypeInv, TypeOK, WaitsForOp, Return, OpPcs
<1>1. CASE lockOperation(c)
  <2>1. UNCHANGED <<id, asked, ops, closeVars, loopVars, busVars, history>>
    BY <1>1 DEF lockOperation
  <2>2. op[c] \in DOMAIN FirstStep
    BY <1>1 DEF lockOperation
  <2>3. FirstStep[op[c]] \in OpPcs /\ FirstStep[op[c]] # "lock"
    BY <2>2, FirstStepType
  <2>4. op' \in [Callers -> {"none"} \union DOMAIN FirstStep]
    BY <1>1 DEF lockOperation
  <2>5. mu' \in Callers \union {"free"}
    BY <1>1 DEF lockOperation
  <2>6. PICK p \in OpPcs \union {"idle"} : p # "lock" /\ pc' = [pc EXCEPT ![c] = p]
    BY <1>1, <2>3 DEF lockOperation
  <2>7. pc' \in [Callers -> Pcs]
    BY <2>6 DEF Pcs
  <2>8. op' = [op EXCEPT ![c] = "none"]
    BY <1>1 DEF lockOperation
  <2>9. WaitsForOp'
    BY <2>6, <2>8
  <2> QED
    BY <2>1, <2>4, <2>5, <2>7, <2>9 DEF Pcs, opVars, closeVars, loopVars, busVars, history
<1>2. CASE Request(c)
  <2>1. UNCHANGED <<opVars, closeVars, rxOpen, complete, loop, busVars, history>>
    BY <1>2 DEF Request
  <2>2. txQueue' \in 0..TxQueueSize
    BY <1>2, PresetAssumption DEF Request, Fits
  <2>3. awaiting' \in BOOLEAN /\ message' \in BOOLEAN
    BY <1>2 DEF Request
  <2>4. (pc' = [pc EXCEPT ![c] = "await"] /\ UNCHANGED mu) \/ Return(c)
    BY <1>2 DEF Request
  <2>5. pc' \in [Callers -> Pcs] /\ mu' \in Callers \union {"free"}
    BY <2>4 DEF Pcs
  <2>6. WaitsForOp'
    BY <2>1, <2>4 DEF opVars
  <2> QED BY <2>1, <2>2, <2>3, <2>5, <2>6 DEF Pcs, opVars, closeVars, busVars, history
<1>3. CASE RequestEnds(c)
  <2>1. message' \in BOOLEAN
    BY <1>3 DEF RequestEnds
  <2>2. pc' = [pc EXCEPT ![c] = "barrier"] /\ awaiting' = FALSE
    BY <1>3, Zenon DEF RequestEnds
  <2>3. UNCHANGED <<opVars, closeVars, mu, txQueue, rxOpen, complete, loop, busVars,
                    history>>
    BY <1>3, Zenon DEF RequestEnds
  <2>4. pc' \in [Callers -> Pcs] /\ WaitsForOp'
    BY <2>2, <2>3 DEF Pcs, OpPcs, opVars
  <2>5. UNCHANGED <<op, id, asked, ops, closed, once, transport, released, mu, txQueue,
                    rxOpen, complete, loop, queue, coming, headers, polls, got, late,
                    stolen, left>>
    BY <2>3 DEF opVars, closeVars, busVars, history
  <2>6. awaiting' \in BOOLEAN BY <2>2
  <2> QED BY <2>1, <2>4, <2>5, <2>6 DEF Pcs
<1>4. CASE StopAwaitingSlaveResponse(c)
  <2>1. left' \in BOOLEAN BY <1>4, Zenon DEF StopAwaitingSlaveResponse
  <2>2. Return(c) BY <1>4, Zenon DEF StopAwaitingSlaveResponse
  <2>3. UNCHANGED <<opVars, closeVars, loopVars, busVars, got, late, stolen>>
    BY <1>4, Zenon DEF StopAwaitingSlaveResponse
  <2>4. pc' = [pc EXCEPT ![c] = "idle"] /\ mu' = "free"
    BY <2>2 DEF Return
  <2>5. pc' \in [Callers -> Pcs] /\ WaitsForOp'
    BY <2>3, <2>4 DEF Pcs, opVars
  <2> QED
    BY <2>1, <2>3, <2>4, <2>5 DEF Pcs, opVars, closeVars, loopVars, busVars
<1>5. CASE MasterRead(c)
  BY <1>5 DEF MasterRead, closeVars, loopVars, history
<1>6. CASE MasterReadFails(c)
  BY <1>6 DEF MasterReadFails, opVars, closeVars, loopVars, busVars, history
<1>7. CASE MasterReadReturns(c)
  <2>1. Head(queue) \in Event /\ Tail(queue) \in Seq(Event)
    BY <1>7 DEF MasterReadReturns
  <2>2. Head(queue).header \in Nat
    BY <2>1 DEF Event
  <2> QED BY <1>7, <2>1, <2>2 DEF MasterReadReturns, opVars, closeVars, loopVars
<1>8. CASE MasterReadSkips(c)
  <2>1. Tail(queue) \in Seq(Event)
    BY <1>8 DEF MasterReadSkips
  <2> QED BY <1>8, <2>1 DEF MasterReadSkips, opVars, closeVars, loopVars, history
<1>9. CASE MasterReadTimesOut(c)
  BY <1>9 DEF MasterReadTimesOut, opVars, closeVars, loopVars, busVars
<1>10. CASE Write(c)
  <2>1. [id |-> id[c], dir |-> "TX", header |-> 0] \in Event
    BY DEF Event
  <2>2. Append(queue, [id |-> id[c], dir |-> "TX", header |-> 0]) \in Seq(Event)
    BY <2>1
  <2>3. queue' \in Seq(Event)
    BY <1>10, <2>2 DEF Write
  <2> QED BY <1>10, <2>3 DEF Write, opVars, closeVars, loopVars, history
<1>11. CASE CloseAgain(c) \/ CloseClient(c) \/ CloseJoins(c) \/ CloseDriver(c)
  BY <1>11, TypeClose
<1> QED
  BY <1>1, <1>2, <1>3, <1>4, <1>5, <1>6, <1>7, <1>8, <1>9, <1>10, <1>11 DEF Operation

LEMMA TypeLoop == TypeInv /\ Loop => TypeInv'
<1> SUFFICES ASSUME TypeInv, Loop PROVE TypeInv'
  OBVIOUS
<1> USE DEF TypeInv, TypeOK, WaitsForOp, opVars, closeVars, busVars, history
<1>1. CASE Execute
  <2>1. rxOpen' \in BOOLEAN /\ complete' \in BOOLEAN
    BY <1>1, Zenon DEF Execute
  <2>2. loop' \in {"reading", "idle"}
    BY <1>1, Zenon DEF Execute
  <2>3. UNCHANGED <<pc, opVars, closeVars, mu, txQueue, awaiting, message, busVars,
                    history>>
    BY <1>1, Zenon DEF Execute
  <2> QED BY <2>1, <2>2, <2>3
<1>2. CASE ExecuteReads
  <2>1. Tail(queue) \in Seq(Event)
    BY <1>2 DEF ExecuteReads
  <2>2. message' \in BOOLEAN /\ complete' \in BOOLEAN /\ rxOpen' \in BOOLEAN
    BY <1>2 DEF ExecuteReads
  <2>3. stolen' \in [Callers -> BOOLEAN]
    BY <1>2 DEF ExecuteReads
  <2>4. /\ queue' = Tail(queue)
        /\ UNCHANGED <<pc, opVars, closeVars, mu, txQueue, awaiting, loop, coming, headers, polls,
                       got, late, left>>
    BY <1>2 DEF ExecuteReads
  <2> QED BY <2>1, <2>2, <2>3, <2>4
<1>3. CASE ExecuteHasRead
  BY <1>3 DEF ExecuteHasRead
<1>4. CASE ExecuteWrites
  <2>1. txQueue' \in 0..TxQueueSize
    BY <1>4, PresetAssumption DEF ExecuteWrites
  <2> QED BY <1>4, <2>1 DEF ExecuteWrites
<1>5. CASE ExecutePolls
  <2>1. [id |-> Diag, header |-> headers + 1] \in [id : Ids, header : Nat]
    BY PresetAssumption
  <2>2. headers' \in Nat /\ polls' \in Nat /\ coming' \in SUBSET [id : Ids, header : Nat]
    BY <1>5, <2>1 DEF ExecutePolls
  <2> QED BY <1>5, <2>2 DEF ExecutePolls
<1>6. CASE LoopExits
  BY <1>6 DEF LoopExits
<1> QED BY <1>1, <1>2, <1>3, <1>4, <1>5, <1>6 DEF Loop

LEMMA TypeStep == TypeInv /\ [Next]_vars => TypeInv'
<1> SUFFICES ASSUME TypeInv, [Next]_vars PROVE TypeInv'
  OBVIOUS
<1>1. ASSUME NEW c \in Callers, NEW o \in DOMAIN FirstStep, Begin(c, o) PROVE TypeInv'
  BY <1>1 DEF Begin, TypeInv, TypeOK, WaitsForOp, closeVars, loopVars, busVars
<1>2. CASE Answers
  <2> PICK h \in coming :
        /\ coming' = coming \ {h}
        /\ queue' = Append(queue, [id |-> h.id, dir |-> "RX", header |-> h.header])
        /\ UNCHANGED <<pc, opVars, closeVars, mu, loopVars, headers, polls, history>>
    BY <1>2 DEF Answers
  <2>1. h \in [id : Ids, header : Nat]
    BY DEF TypeInv, TypeOK
  <2>2. [id |-> h.id, dir |-> "RX", header |-> h.header] \in Event
    BY <2>1 DEF Event
  <2>3. queue' \in Seq(Event)
    BY <2>2 DEF TypeInv, TypeOK
  <2> QED
    BY <2>3 DEF TypeInv, TypeOK, WaitsForOp, opVars, closeVars, loopVars, history
<1>3. CASE Silent
  BY <1>3 DEF Silent, TypeInv, TypeOK, WaitsForOp, opVars, closeVars, loopVars, history
<1>4. CASE UNCHANGED vars
  BY <1>4 DEF vars, TypeInv, TypeOK, WaitsForOp, opVars, closeVars, loopVars, busVars, history
<1> QED
  BY <1>1, <1>2, <1>3, <1>4, TypeClose, TypeOperation, TypeLoop DEF Next

\* The types of all variables, and frames that never exceed txQueue
\* (transport.go:371-381), in every reachable state.
THEOREM TypeCorrect == Spec => []TypeOK
<1>1. TypeInv => TypeOK
  BY DEF TypeInv
<1> QED BY <1>1, TypeInit, TypeStep, PTL DEF Spec

-----------------------------------------------------------------------------
(***************************************************************************)
(* Close: who is where when the driver is released.                        *)
(***************************************************************************)
ClosePcs == {"client", "join", "release"}

\* operationMu is held by whoever is inside an operation.
LockInv == \A c \in Callers : pc[c] \in OpPcs => mu = c

\* Only one caller closes, and it closes in order.
CloseInv ==
    /\ once = "none" <=> ~closed
    /\ once = "none" => \A c \in Callers : pc[c] \notin ClosePcs
    /\ \A c \in Callers : pc[c] \in ClosePcs => once = "running"
    /\ \A c, d \in Callers : pc[c] \in ClosePcs /\ pc[d] \in ClosePcs => c = d
    /\ \A c \in Callers : pc[c] = "join" => transport # "open"
    /\ \A c \in Callers : pc[c] = "release" => transport = "done"
    /\ transport = "done" => loop = "gone"
    /\ once = "done" <=> released
    /\ released => /\ transport = "done"
                   /\ \A c \in Callers : pc[c] \notin OpPcs
    /\ CloseMeansClosed

SafeInv == TypeInv /\ LockInv /\ CloseInv

LEMMA SafeInit == Init => SafeInv
<1> SUFFICES ASSUME Init PROVE SafeInv
  OBVIOUS
<1>1. \A c \in Callers : pc[c] = "idle"
  BY DEF Init
<1> QED
  BY <1>1, TypeInit
     DEF Init, SafeInv, LockInv, CloseInv, OpPcs, ClosePcs, CloseMeansClosed

\* Steps that move one caller between points that are neither of an operation
\* nor of Close, or from an operation back to idle, and leave Close alone.
LEMMA SafeMove ==
    ASSUME SafeInv, NEW c \in Callers, NEW p,
           pc' = [pc EXCEPT ![c] = p],
           pc[c] \notin ClosePcs, p \notin ClosePcs, p # "closed",
           \/ p \in OpPcs /\ pc[c] \in OpPcs /\ mu' = mu
           \/ p \notin OpPcs /\ pc[c] \in OpPcs
           \/ p \notin OpPcs /\ mu' = mu,
           UNCHANGED closeVars, UNCHANGED loop
    PROVE  LockInv' /\ CloseInv'
<1> USE DEF closeVars
<1>1. pc \in [Callers -> Pcs]
  BY DEF SafeInv, TypeInv, TypeOK, Pcs
<1>2. \A d \in Callers : pc'[d] = IF d = c THEN p ELSE pc[d]
  BY <1>1
<1>3. \A d \in Callers : pc[d] \in ClosePcs <=> pc'[d] \in ClosePcs
  BY <1>2
<1>4. LockInv'
  BY <1>2 DEF SafeInv, LockInv
<1>5. \A d \in Callers : pc'[d] \in OpPcs => pc[d] \in OpPcs
  BY <1>2
<1>6. \A d \in Callers : pc'[d] = "closed" => pc[d] = "closed"
  BY <1>2
<1>7. \A d \in Callers : pc'[d] \in ClosePcs => pc'[d] = pc[d]
  BY <1>2
<1>8. "join" \in ClosePcs /\ "release" \in ClosePcs
  BY DEF ClosePcs
<1>9. CloseInv'
  BY <1>3, <1>5, <1>6, <1>7, <1>8 DEF SafeInv, CloseInv, CloseMeansClosed
<1> QED BY <1>4, <1>9

LEMMA SafeOperation ==
    ASSUME SafeInv, NEW c \in Callers, Operation(c)
    PROVE  LockInv' /\ CloseInv'
<1>0. /\ pc \in [Callers -> Pcs] /\ mu \in Callers \union {"free"}
      /\ "free" \notin Callers
  BY PresetAssumption DEF SafeInv, TypeInv, TypeOK, Pcs
<1> DEFINE Idles == pc' = [pc EXCEPT ![c] = "idle"]
<1> USE DEF Return, opVars, loopVars
<1>1. CASE lockOperation(c)
  <2>1. /\ pc[c] = "lock" /\ mu = "free"
        /\ UNCHANGED <<closeVars, loop>>
    BY <1>1 DEF lockOperation, MuFree
  <2>2. CASE Refuses
    <3>1. Idles /\ mu' = mu
      BY <1>1, <2>2 DEF lockOperation
    <3> QED BY <2>1, <3>1, SafeMove DEF ClosePcs, OpPcs
  <2>3. CASE ~Refuses
    <3>1. op[c] \in DOMAIN FirstStep
      BY <2>1 DEF SafeInv, TypeInv, WaitsForOp
    <3>2. PICK p \in OpPcs : pc' = [pc EXCEPT ![c] = p]
      BY <1>1, <2>3, <3>1, FirstStepType DEF lockOperation
    <3>3. mu' = c /\ ~closed
      BY <1>1, <2>3 DEF lockOperation, Refuses
    <3>4. \A d \in Callers : pc'[d] = IF d = c THEN p ELSE pc[d]
      BY <1>0, <3>2
    <3>5. \A d \in Callers : pc[d] \notin OpPcs
      BY <1>0, <2>1 DEF SafeInv, LockInv
    <3>6. LockInv'
      BY <3>3, <3>4, <3>5 DEF LockInv
    <3>7. ~released
      BY <3>3 DEF SafeInv, CloseInv
    <3>8. p \notin ClosePcs /\ p \notin {"closed", "join", "release"}
      BY DEF OpPcs, ClosePcs
    <3>9. pc[c] \notin ClosePcs /\ "join" \in ClosePcs /\ "release" \in ClosePcs
      BY <2>1 DEF ClosePcs
    <3>10. /\ \A d \in Callers : pc'[d] \in ClosePcs => pc'[d] = pc[d]
           /\ \A d \in Callers : pc'[d] = "closed" => pc[d] = "closed"
      BY <3>4, <3>8
    <3>11. CloseInv'
      BY <2>1, <3>7, <3>8, <3>9, <3>10 DEF SafeInv, CloseInv, CloseMeansClosed, closeVars
    <3> QED BY <3>6, <3>11
  <2> QED BY <2>2, <2>3
<1>2. CASE Request(c)
  <2>1. /\ pc[c] = "send"
        /\ UNCHANGED <<closeVars, loop>>
        /\ \/ pc' = [pc EXCEPT ![c] = "await"] /\ mu' = mu
           \/ Idles
    BY <1>2 DEF Request
  <2> QED BY <2>1, SafeMove DEF OpPcs, ClosePcs
<1>3. CASE RequestEnds(c)
  BY <1>3, SafeMove DEF RequestEnds, OpPcs, ClosePcs
<1>4. CASE StopAwaitingSlaveResponse(c)
  BY <1>4, SafeMove DEF StopAwaitingSlaveResponse, OpPcs, ClosePcs
<1>5. CASE MasterRead(c)
  BY <1>5, SafeMove DEF MasterRead, OpPcs, ClosePcs
<1>6. CASE MasterReadFails(c)
  BY <1>6, SafeMove DEF MasterReadFails, OpPcs, ClosePcs
<1>7. CASE MasterReadReturns(c)
  BY <1>7, SafeMove DEF MasterReadReturns, OpPcs, ClosePcs
<1>8. CASE MasterReadSkips(c)
  BY <1>8 DEF MasterReadSkips, SafeInv, LockInv, CloseInv, CloseMeansClosed, closeVars
<1>9. CASE MasterReadTimesOut(c)
  BY <1>9, SafeMove DEF MasterReadTimesOut, OpPcs, ClosePcs
<1>10. CASE Write(c)
  BY <1>10, SafeMove DEF Write, OpPcs, ClosePcs
<1>11. CASE CloseAgain(c)
  <2>1. /\ pc[c] = "once" /\ pc' = [pc EXCEPT ![c] = "closed"] /\ once = "done"
        /\ UNCHANGED <<closeVars, mu, loop>>
    BY <1>11 DEF CloseAgain, OnceOver
  <2>2. \A d \in Callers : pc'[d] = IF d = c THEN "closed" ELSE pc[d]
    BY <1>0, <2>1
  <2>3. released
    BY <2>1 DEF SafeInv, CloseInv
  <2>4. LockInv'
    BY <2>1, <2>2 DEF SafeInv, LockInv, OpPcs
  <2>5. CloseInv'
    BY <2>1, <2>2, <2>3 DEF SafeInv, CloseInv, CloseMeansClosed, closeVars, ClosePcs, OpPcs
  <2> QED BY <2>4, <2>5
<1>12. CASE CloseClient(c)
  <2>1. /\ pc[c] = "client" /\ pc' = [pc EXCEPT ![c] = "join"] /\ transport' = "closed"
        /\ UNCHANGED <<closed, once, released, mu, loop>>
    BY <1>12 DEF CloseClient
  <2>2. \A d \in Callers : pc'[d] = IF d = c THEN "join" ELSE pc[d]
    BY <1>0, <2>1
  <2>3. once = "running" /\ ~released
    BY <2>1 DEF SafeInv, CloseInv, ClosePcs
  <2>4. LockInv'
    BY <2>1, <2>2 DEF SafeInv, LockInv, OpPcs
  <2>5. \A d \in Callers : d # c => pc[d] \notin ClosePcs
    BY <2>1 DEF SafeInv, CloseInv, ClosePcs
  <2>6. CloseInv'
    BY <2>1, <2>2, <2>3, <2>5 DEF SafeInv, CloseInv, CloseMeansClosed, ClosePcs
  <2> QED BY <2>4, <2>6
<1>13. CASE CloseJoins(c)
  <2>1. /\ pc[c] = "join" /\ pc' = [pc EXCEPT ![c] = "release"] /\ transport' = "done"
        /\ loop = "gone"
        /\ UNCHANGED <<closed, once, released, mu, loop>>
    BY <1>13 DEF CloseJoins, LoopJoined
  <2>2. \A d \in Callers : pc'[d] = IF d = c THEN "release" ELSE pc[d]
    BY <1>0, <2>1
  <2>3. once = "running" /\ ~released
    BY <2>1 DEF SafeInv, CloseInv, ClosePcs
  <2>4. LockInv'
    BY <2>1, <2>2 DEF SafeInv, LockInv, OpPcs
  <2>5. \A d \in Callers : d # c => pc[d] \notin ClosePcs
    BY <2>1 DEF SafeInv, CloseInv, ClosePcs
  <2>6. CloseInv'
    BY <2>1, <2>2, <2>3, <2>5 DEF SafeInv, CloseInv, CloseMeansClosed, ClosePcs
  <2> QED BY <2>4, <2>6
<1>14. CASE CloseDriver(c)
  <2>1. /\ pc[c] = "release" /\ pc' = [pc EXCEPT ![c] = "closed"] /\ mu = "free"
        /\ once' = "done" /\ released' = TRUE
        /\ UNCHANGED <<closed, transport, mu, loop>>
    BY <1>14 DEF CloseDriver, MuFree
  <2>2. \A d \in Callers : pc'[d] = IF d = c THEN "closed" ELSE pc[d]
    BY <1>0, <2>1
  <2>3. once = "running" /\ transport = "done" /\ closed /\ loop = "gone"
    BY <2>1 DEF SafeInv, CloseInv, ClosePcs
  <2>4. \A d \in Callers : pc[d] \notin OpPcs
    BY <1>0, <2>1 DEF SafeInv, LockInv
  <2>5. \A d \in Callers : d # c => pc[d] \notin ClosePcs
    BY <2>1 DEF SafeInv, CloseInv, ClosePcs
  <2>6. \A d \in Callers : pc'[d] \notin OpPcs /\ pc'[d] \notin ClosePcs
    BY <2>2, <2>4, <2>5 DEF OpPcs, ClosePcs
  <2>7. "join" \in ClosePcs /\ "release" \in ClosePcs
    BY DEF ClosePcs
  <2>8. LockInv'
    BY <2>6 DEF LockInv
  <2>9. CloseInv'
    BY <2>1, <2>3, <2>6, <2>7 DEF CloseInv, CloseMeansClosed
  <2> QED BY <2>8, <2>9
<1> QED
  BY <1>1, <1>2, <1>3, <1>4, <1>5, <1>6, <1>7, <1>8, <1>9, <1>10, <1>11, <1>12, <1>13, <1>14
     DEF Operation

LEMMA SafeStep == SafeInv /\ [Next]_vars => SafeInv'
<1> SUFFICES ASSUME SafeInv, [Next]_vars PROVE SafeInv'
  OBVIOUS
<1>0. /\ pc \in [Callers -> Pcs] /\ TypeInv'
  BY TypeStep DEF SafeInv, TypeInv, TypeOK, Pcs
<1>1. ASSUME NEW c \in Callers, Close(c) PROVE LockInv' /\ CloseInv'
  <2>1. /\ pc[c] = "idle"
        /\ UNCHANGED <<transport, released, mu, loop>>
        /\ \/ once = "none" /\ once' = "running" /\ closed' = TRUE
              /\ pc' = [pc EXCEPT ![c] = "client"]
           \/ once # "none" /\ pc' = [pc EXCEPT ![c] = "once"]
              /\ UNCHANGED <<once, closed>>
    BY <1>1 DEF Close, loopVars
  <2>2. CASE once = "none"
    <3>1. \A d \in Callers : pc'[d] = IF d = c THEN "client" ELSE pc[d]
      BY <1>0, <2>1, <2>2
    <3>2. LockInv'
      BY <2>1, <3>1 DEF SafeInv, LockInv, OpPcs
    <3>3. \A d \in Callers : pc[d] \notin ClosePcs
      BY <2>2 DEF SafeInv, CloseInv
    <3>4. ~released /\ once' = "running" /\ closed' = TRUE
      BY <2>1, <2>2 DEF SafeInv, CloseInv
    <3>5. CloseInv'
      BY <2>1, <3>1, <3>3, <3>4 DEF SafeInv, CloseInv, CloseMeansClosed, ClosePcs
    <3> QED BY <3>2, <3>5
  <2>3. CASE once # "none"
    <3>1. pc' = [pc EXCEPT ![c] = "once"] /\ UNCHANGED <<once, closed>>
      BY <2>1, <2>3
    <3> QED BY <2>1, <3>1, SafeMove DEF closeVars, ClosePcs, OpPcs
  <2> QED BY <2>2, <2>3
<1>2. ASSUME NEW c \in Callers, NEW o \in DOMAIN FirstStep, Begin(c, o)
      PROVE  LockInv' /\ CloseInv'
  <2>1. /\ pc[c] = "idle" /\ pc' = [pc EXCEPT ![c] = "lock"] /\ mu' = mu
        /\ UNCHANGED closeVars /\ UNCHANGED loop
    BY <1>2 DEF Begin, loopVars
  <2> QED BY <2>1, SafeMove DEF ClosePcs, OpPcs
<1>3. ASSUME Loop PROVE LockInv' /\ CloseInv'
  <2>1. UNCHANGED <<pc, mu, closeVars>>
    BY <1>3 DEF Loop, Execute, ExecuteReads, ExecuteHasRead, ExecuteWrites, ExecutePolls,
                LoopExits
  <2>2. loop = "gone" => loop' = "gone"
    BY <1>3 DEF Loop, Execute, ExecuteReads, ExecuteHasRead, ExecuteWrites, ExecutePolls,
                LoopExits
  <2> QED BY <2>1, <2>2 DEF SafeInv, LockInv, CloseInv, CloseMeansClosed, closeVars
<1>4. ASSUME Answers \/ Silent PROVE LockInv' /\ CloseInv'
  <2>1. UNCHANGED <<pc, mu, closed, once, transport, released, loop>>
    BY <1>4 DEF Answers, Silent, closeVars, loopVars
  <2> QED BY <2>1 DEF SafeInv, LockInv, CloseInv, CloseMeansClosed
<1>5. ASSUME UNCHANGED vars PROVE LockInv' /\ CloseInv'
  <2>1. UNCHANGED <<pc, mu, closed, once, transport, released, loop>>
    BY <1>5 DEF vars, closeVars, loopVars
  <2> QED BY <2>1 DEF SafeInv, LockInv, CloseInv, CloseMeansClosed
<1>6. LockInv' /\ CloseInv'
  BY <1>1, <1>2, <1>3, <1>4, <1>5, SafeOperation DEF Next
<1> QED BY <1>0, <1>6 DEF SafeInv

\* Once the driver is closed nobody is inside one of its calls, or past the
\* point where it was still refused (preset.go:76-113).
THEOREM ReleasedLast == Spec => []DriverReleasedLast
<1>1. SafeInv => DriverReleasedLast
  BY DEF SafeInv, CloseInv, DriverReleasedLast, OpPcs
<1> QED BY <1>1, SafeInit, SafeStep, PTL DEF Spec

\* A Close that did nothing returns no sooner than the driver is closed
\* (preset.go:95-96 and 98-112).
THEOREM CloseIsClosed == Spec => []CloseMeansClosed
<1>1. SafeInv => CloseMeansClosed
  BY DEF SafeInv, CloseInv
<1> QED BY <1>1, SafeInit, SafeStep, PTL DEF Spec

-----------------------------------------------------------------------------
(***************************************************************************)
(* Quiet: between requests only what the last one left behind can wake the *)
(* loop.                                                                   *)
(***************************************************************************)
Resting == ~awaiting /\ (~left => txQueue = 0 /\ ~rxOpen /\ LoopRests)

QuietInv ==
    /\ (\A c \in Callers : pc[c] \notin {"await", "barrier"}) => Resting
    /\ \A c \in Callers : pc[c] = "barrier" => ~awaiting
    /\ \A c \in Callers : pc[c] \in {"lock", "header"} => ~stolen[c]
    /\ NoTheft

QInv == SafeInv /\ QuietInv

LEMMA QuietInit == Init => QInv
<1> SUFFICES ASSUME Init PROVE QuietInv
  BY SafeInit DEF QInv
<1> QED BY DEF Init, QuietInv, Resting, LoopRests, NoTheft

\* Who holds operationMu at another point knows that nobody waits.
LEMMA NobodyWaits ==
    ASSUME SafeInv, NEW c \in Callers, pc[c] \in OpPcs \ {"await", "barrier"}
    PROVE  \A d \in Callers : pc[d] \notin {"await", "barrier"}
BY DEF SafeInv, LockInv, OpPcs

LEMMA QuietLoop == QInv /\ Loop => QuietInv'
<1> SUFFICES ASSUME QInv, Loop PROVE QuietInv'
  OBVIOUS
<1>1. UNCHANGED <<pc, awaiting, left>>
  BY DEF Loop, Execute, ExecuteReads, ExecuteHasRead, ExecuteWrites, ExecutePolls, LoopExits,
         history
<1>2. txQueue \in Nat /\ stolen \in [Callers -> BOOLEAN]
  BY PresetAssumption DEF QInv, SafeInv, TypeInv, TypeOK
<1>3. ASSUME Resting, ~left PROVE loop' # "reading" /\ loop' # "acting" /\ txQueue' = 0
                                 /\ ~rxOpen' /\ loop # "reading"
  <2>1. /\ txQueue = 0 /\ rxOpen = FALSE /\ awaiting = FALSE
        /\ loop # "reading" /\ loop # "acting"
    BY <1>3 DEF Resting, LoopRests, QInv, SafeInv, TypeInv, TypeOK
  <2>2. ASSUME Execute PROVE FALSE
    <3>1. PICK open \in {rxOpen, FALSE} : open # rxOpen \/ Active(open)
      BY <2>2 DEF Execute
    <3>2. open = FALSE /\ open = rxOpen
      BY <2>1
    <3>3. Active(open)
      BY <3>1, <3>2
    <3> QED BY <2>1, <3>2, <3>3 DEF Active
  <2>3. LoopExits
    BY <2>1, <2>2 DEF Loop, ExecuteReads, ExecuteHasRead, ExecuteWrites, ExecutePolls
  <2> QED BY <2>1, <2>3 DEF LoopExits
<1>4. Resting => Resting'
  BY <1>1, <1>3 DEF Resting, LoopRests
<1>5. \/ stolen' = stolen
      \/ /\ loop = "reading"
         /\ \A c \in Callers : stolen'[c] => stolen[c] \/ pc[c] = "read"
  BY <1>2 DEF Loop, Execute, ExecuteReads, ExecuteHasRead, ExecuteWrites, ExecutePolls,
              LoopExits, history
<1>6. \A c \in Callers : pc[c] \in {"lock", "header"} => ~stolen'[c]
  BY <1>5 DEF QInv, QuietInv
<1>7. NoTheft'
  <2> SUFFICES ASSUME NEW c \in Callers, pc[c] = "read", stolen'[c], ~left PROVE FALSE
    BY <1>1 DEF NoTheft
  <2>1. Resting
    BY NobodyWaits DEF QInv, QuietInv, OpPcs
  <2>2. stolen' = stolen
    BY <1>3, <1>5, <2>1
  <2> QED BY <2>2 DEF QInv, QuietInv, NoTheft
<1> QED BY <1>1, <1>4, <1>6, <1>7 DEF QInv, QuietInv

\* Steps of one caller that touch neither the loop nor the end of a request.
LEMMA QuietMove ==
    ASSUME QInv, NEW c \in Callers, NEW p,
           pc' = [pc EXCEPT ![c] = p],
           p \notin {"await", "barrier"}, pc[c] \notin {"await", "barrier"},
           p \in {"lock", "header", "read"} => ~stolen'[c],
           \A d \in Callers : stolen'[d] => stolen[d],
           UNCHANGED <<loopVars, left>>
    PROVE  QuietInv'
<1>1. pc \in [Callers -> Pcs]
  BY DEF QInv, SafeInv, TypeInv, TypeOK, Pcs
<1>2. \A d \in Callers : pc'[d] = IF d = c THEN p ELSE pc[d]
  BY <1>1
<1>3. \A d \in Callers : pc'[d] \in {"await", "barrier"} <=> pc[d] \in {"await", "barrier"}
  BY <1>2
<1>4. Resting => Resting'
  BY DEF Resting, LoopRests, loopVars
<1> QED
  BY <1>2, <1>3, <1>4 DEF QInv, QuietInv, NoTheft, loopVars

LEMMA QuietReturn ==
    ASSUME QInv, NEW c \in Callers,
           pc' = [pc EXCEPT ![c] = "idle"], pc[c] \notin {"await", "barrier"},
           UNCHANGED <<loopVars, left>>, stolen' = stolen
    PROVE  QuietInv'
<1>1. \A d \in Callers : stolen'[d] => stolen[d]
  OBVIOUS
<1>2. "idle" \notin {"await", "barrier"} /\ ("idle" \in {"lock", "header", "read"} => ~stolen'[c])
  OBVIOUS
<1> QED
  BY <1>1, <1>2, QuietMove

LEMMA QuietOperation ==
    ASSUME QInv, NEW c \in Callers, Operation(c)
    PROVE  QuietInv'
<1>0. /\ pc \in [Callers -> Pcs] /\ stolen \in [Callers -> BOOLEAN]
  BY DEF QInv, SafeInv, TypeInv, TypeOK, Pcs
<1> USE DEF Return, history
<1>1. CASE lockOperation(c)
  <2>1. /\ pc[c] = "lock"
        /\ UNCHANGED <<loopVars, left>> /\ stolen' = stolen
    BY <1>1 DEF lockOperation
  <2>2. ~stolen[c]
    BY <2>1 DEF QInv, QuietInv
  <2>3. op[c] \in DOMAIN FirstStep
    BY <2>1 DEF QInv, SafeInv, TypeInv, WaitsForOp
  <2>4. FirstStep[op[c]] \notin {"await", "barrier"}
    BY <2>3 DEF FirstStep
  <2>5. PICK p : pc' = [pc EXCEPT ![c] = p] /\ p \notin {"await", "barrier"}
    BY <1>1, <2>4 DEF lockOperation
  <2> QED BY <2>1, <2>2, <2>5, QuietMove
<1>2. CASE Request(c)
  <2>1. pc[c] = "send" /\ UNCHANGED <<stolen, left, rxOpen, loop>>
    BY <1>2 DEF Request
  <2>2. CASE pc' = [pc EXCEPT ![c] = "await"]
    <3>1. \A d \in Callers : pc'[d] = IF d = c THEN "await" ELSE pc[d]
      BY <1>0, <2>2
    <3>2. \A d \in Callers : pc[d] \notin {"await", "barrier"}
      BY <2>1, NobodyWaits DEF QInv, OpPcs
    <3> QED BY <2>1, <3>1, <3>2 DEF QInv, QuietInv, NoTheft
  <2>3. CASE pc' = [pc EXCEPT ![c] = "idle"]
    <3>1. pc'[c] = "idle"
      BY <1>0, <2>3
    <3>2. UNCHANGED <<txQueue, awaiting, message>>
      BY <1>2, <1>0, <3>1 DEF Request
    <3>3. UNCHANGED <<loopVars, left>> /\ stolen' = stolen
      BY <1>2, <3>2 DEF Request, loopVars
    <3> QED BY <2>1, <2>3, <3>3, QuietMove
  <2> QED BY <1>2, <2>2, <2>3 DEF Request
<1>3. CASE RequestEnds(c)
  <2>1. /\ pc[c] = "await" /\ pc' = [pc EXCEPT ![c] = "barrier"] /\ awaiting' = FALSE
        /\ UNCHANGED <<stolen, left>>
    BY <1>3 DEF RequestEnds
  <2>2. \A d \in Callers : pc'[d] = IF d = c THEN "barrier" ELSE pc[d]
    BY <1>0, <2>1
  <2> QED BY <2>1, <2>2 DEF QInv, QuietInv, NoTheft
<1>4. CASE StopAwaitingSlaveResponse(c)
  <2>1. /\ pc[c] = "barrier" /\ pc' = [pc EXCEPT ![c] = "idle"] /\ LoopRests
        /\ left' = (txQueue > 0 \/ rxOpen)
        /\ UNCHANGED <<loopVars, stolen>>
    BY <1>4 DEF StopAwaitingSlaveResponse
  <2>2. \A d \in Callers : pc'[d] = IF d = c THEN "idle" ELSE pc[d]
    BY <1>0, <2>1
  <2>3. \A d \in Callers : d # c => pc[d] # "read"
    BY <2>1 DEF QInv, SafeInv, LockInv, OpPcs
  <2>4. ~awaiting
    BY <2>1 DEF QInv, QuietInv
  <2>5. txQueue \in Nat
    BY PresetAssumption DEF QInv, SafeInv, TypeInv, TypeOK
  <2>6. Resting'
    <3>1. UNCHANGED <<awaiting, txQueue, rxOpen, loop>>
      BY <2>1 DEF loopVars
    <3>2. ~left' => ~(txQueue > 0) /\ ~rxOpen
      BY <2>1
    <3>3. ~(txQueue > 0) => txQueue = 0
      BY <2>5
    <3> QED BY <2>1, <2>4, <3>1, <3>2, <3>3, Zenon DEF Resting, LoopRests
  <2>7. NoTheft'
    BY <2>2, <2>3 DEF NoTheft
  <2> QED BY <2>1, <2>2, <2>4, <2>6, <2>7 DEF QInv, QuietInv, loopVars
<1>5. CASE MasterRead(c)
  <2>1. /\ pc[c] = "header" /\ pc' = [pc EXCEPT ![c] = "read"]
        /\ UNCHANGED <<loopVars, left>> /\ stolen' = stolen
    BY <1>5 DEF MasterRead
  <2>2. ~stolen[c]
    BY <2>1 DEF QInv, QuietInv
  <2> QED BY <2>1, <2>2, QuietMove
<1>6. CASE MasterReadFails(c)
  <2>1. /\ pc[c] = "header" /\ pc' = [pc EXCEPT ![c] = "idle"]
        /\ UNCHANGED <<loopVars, left>> /\ stolen' = stolen
    BY <1>6 DEF MasterReadFails
  <2> QED BY <2>1, QuietReturn
<1>7. CASE MasterReadReturns(c)
  <2>1. /\ pc[c] = "read" /\ pc' = [pc EXCEPT ![c] = "idle"]
        /\ UNCHANGED <<loopVars, left>> /\ stolen' = stolen
    BY <1>7 DEF MasterReadReturns
  <2> QED BY <2>1, QuietReturn
<1>8. CASE MasterReadSkips(c)
  BY <1>8 DEF MasterReadSkips, QInv, QuietInv, Resting, LoopRests, NoTheft, loopVars
<1>9. CASE MasterReadTimesOut(c)
  <2>1. /\ pc[c] = "read" /\ pc' = [pc EXCEPT ![c] = "idle"]
        /\ UNCHANGED <<loopVars, left>> /\ stolen' = stolen
    BY <1>9 DEF MasterReadTimesOut
  <2> QED BY <2>1, QuietReturn
<1>10. CASE Write(c)
  <2>1. /\ pc[c] = "write" /\ pc' = [pc EXCEPT ![c] = "idle"]
        /\ UNCHANGED <<loopVars, left>> /\ stolen' = stolen
    BY <1>10 DEF Write
  <2> QED BY <2>1, QuietReturn
<1>11. CASE CloseAgain(c)
  BY <1>11, QuietMove DEF CloseAgain
<1>12. CASE CloseClient(c)
  BY <1>12, QuietMove DEF CloseClient
<1>13. CASE CloseJoins(c)
  BY <1>13, QuietMove DEF CloseJoins
<1>14. CASE CloseDriver(c)
  BY <1>14, QuietMove DEF CloseDriver
<1> QED
  BY <1>1, <1>2, <1>3, <1>4, <1>5, <1>6, <1>7, <1>8, <1>9, <1>10, <1>11, <1>12, <1>13, <1>14
     DEF Operation

LEMMA QuietStep == QInv /\ [Next]_vars => QInv'
<1> SUFFICES ASSUME QInv, [Next]_vars PROVE QuietInv'
  BY SafeStep DEF QInv
<1>0. stolen \in [Callers -> BOOLEAN]
  BY DEF QInv, SafeInv, TypeInv, TypeOK
<1>1. ASSUME NEW c \in Callers, Close(c) PROVE QuietInv'
  <2>1. /\ pc[c] = "idle"
        /\ pc' = [pc EXCEPT ![c] = "client"] \/ pc' = [pc EXCEPT ![c] = "once"]
        /\ UNCHANGED <<loopVars, left, stolen>>
    BY <1>1 DEF Close, history
  <2> QED BY <2>1, QuietMove
<1>2. ASSUME NEW c \in Callers, NEW o \in DOMAIN FirstStep, Begin(c, o) PROVE QuietInv'
  <2>1. /\ pc[c] = "idle" /\ pc' = [pc EXCEPT ![c] = "lock"]
        /\ stolen' = [stolen EXCEPT ![c] = FALSE]
        /\ UNCHANGED <<loopVars, left>>
    BY <1>2 DEF Begin
  <2>2. ~stolen'[c] /\ \A d \in Callers : stolen'[d] => stolen[d]
    BY <1>0, <2>1
  <2> QED BY <2>1, <2>2, QuietMove
<1>3. ASSUME Answers \/ Silent \/ UNCHANGED vars PROVE QuietInv'
  <2>1. UNCHANGED <<pc, loopVars, stolen, left>>
    BY <1>3 DEF Answers, Silent, vars, history
  <2> QED BY <2>1 DEF QInv, QuietInv, Resting, LoopRests, NoTheft, loopVars
<1> QED BY <1>1, <1>2, <1>3, QuietLoop, QuietOperation DEF Next

\* What a MasterRead waits for is its own unless the last request left frames
\* queued or a reception open (transport.go:300-309, preset.go:143-164).
THEOREM TheftOnlyIfLeft == Spec => []NoTheft
<1>1. QInv => NoTheft
  BY DEF QInv, QuietInv
<1> QED BY <1>1, QuietInit, QuietStep, PTL DEF Spec

-----------------------------------------------------------------------------
(***************************************************************************)
(* Fresh: of a frame ID that only MasterRead uses, and of which no answer  *)
(* was given up, an answer is under way only while its MasterRead waits.   *)
(***************************************************************************)
Trusted(i) == i \in Ids /\ i # Diag /\ i \notin late

\* The MasterRead that sent header h for frame ID i waits.
Asks(i, h) == \E c \in Callers : pc[c] = "read" /\ id[c] = i /\ asked[c] = h

\* The k-th event of the queue is an answer of frame ID i.
AnswerAt(k, i) == k \in 1 .. Len(queue) /\ queue[k].dir = "RX" /\ queue[k].id = i

\* At most one answer of a trusted frame ID is to come or in the queue.
BusInv ==
    \A i : Trusted(i) =>
        /\ \A h \in coming : h.id = i => Asks(i, h.header)
        /\ \A k : AnswerAt(k, i) => /\ Asks(i, queue[k].header)
                                    /\ \A h \in coming : h.id # i
        /\ \A k, l : AnswerAt(k, i) /\ AnswerAt(l, i) => k = l

\* Who has yet to read has read nothing.
NoneGot == \A c \in Callers : pc[c] \in {"lock", "header", "read"} => got[c] = 0

FreshInv == BusInv /\ NoneGot /\ FreshAnswer

\* Nothing of a trusted frame ID is to come or in the queue.
NonePending ==
    \A i : Trusted(i) => /\ \A h \in coming : h.id # i
                         /\ \A k : ~AnswerAt(k, i)

\* operationMu admits one reader.
LEMMA OneReader ==
    ASSUME SafeInv, NEW c \in Callers, NEW d \in Callers, pc[c] \in OpPcs, pc[d] \in OpPcs
    PROVE  c = d
BY DEF SafeInv, LockInv

LEMMA NonePendingUnread ==
    ASSUME BusInv, \A c \in Callers : pc[c] # "read"
    PROVE  NonePending
BY DEF BusInv, Asks, NonePending

\* The readers of trusted frame IDs stay.
ReadersStay ==
    \A d \in Callers :
        pc[d] = "read" /\ id[d] \notin late' => /\ pc'[d] = "read"
                                                /\ id'[d] = id[d] /\ asked'[d] = asked[d]

\* Steps that take events away, or none, and ask for diagnostic answers only.
LEMMA BusFewer ==
    ASSUME TypeOK, BusInv, ReadersStay, late \subseteq late',
           \/ queue' = queue
           \/ queue # <<>> /\ queue' = Tail(queue),
           \A h \in coming' : h \in coming \/ h.id = Diag
    PROVE  BusInv'
<1>1. queue \in Seq(Event)
  BY DEF TypeOK
<1>2. ASSUME NEW i PROVE /\ Trusted(i)' => Trusted(i)
                         /\ \A h : Trusted(i)' /\ Asks(i, h) => Asks(i, h)'
  BY DEF Trusted, Asks, ReadersStay
<1>3. \E s \in {0, 1} : \A k, i : AnswerAt(k, i)' =>
         k \in Int /\ AnswerAt(k + s, i) /\ queue'[k] = queue[k + s]
  <2>1. CASE queue' = queue
    <3>1. \A k \in Int : k + 0 = k
      OBVIOUS
    <3>2. \A k, i : AnswerAt(k, i)' => k \in Int /\ AnswerAt(k + 0, i) /\ queue'[k] = queue[k + 0]
      BY <2>1, <3>1 DEF AnswerAt
    <3> QED BY <3>2
  <2>2. CASE queue # <<>> /\ queue' = Tail(queue)
    <3>1. /\ Len(queue) \in Nat /\ Len(queue) >= 1 /\ Len(queue') = Len(queue) - 1
          /\ \A k \in 1 .. Len(queue) - 1 : queue'[k] = queue[k + 1]
      BY <1>1, <2>2, HeadTailProperties
    <3>2. ASSUME NEW k, NEW i, AnswerAt(k, i)'
          PROVE  k \in Int /\ AnswerAt(k + 1, i) /\ queue'[k] = queue[k + 1]
      <4>1. k \in 1 .. Len(queue) - 1 /\ k + 1 \in 1 .. Len(queue)
        BY <3>1, <3>2 DEF AnswerAt
      <4> QED BY <3>1, <3>2, <4>1 DEF AnswerAt
    <3> QED BY <3>2
  <2> QED BY <2>1, <2>2
<1>4. PICK s \in {0, 1} : \A k, i : AnswerAt(k, i)' =>
         k \in Int /\ AnswerAt(k + s, i) /\ queue'[k] = queue[k + s]
  BY <1>3
<1> SUFFICES ASSUME NEW i, Trusted(i)'
             PROVE  /\ \A h \in coming' : h.id = i => Asks(i, h.header)'
                    /\ \A k : AnswerAt(k, i)' => /\ Asks(i, queue[k].header)'
                                                 /\ \A h \in coming' : h.id # i
                    /\ \A k, l : AnswerAt(k, i)' /\ AnswerAt(l, i)' => k = l
  BY DEF BusInv
<1>5. Trusted(i) /\ i # Diag
  BY <1>2 DEF Trusted
<1>6. \A h \in coming' : h.id = i => h \in coming /\ Asks(i, h.header)'
  BY <1>2, <1>5 DEF BusInv
<1>7. ASSUME NEW k, AnswerAt(k, i)'
      PROVE  Asks(i, queue[k].header)' /\ \A h \in coming' : h.id # i
  <2>1. AnswerAt(k + s, i) /\ queue'[k] = queue[k + s]
    BY <1>4, <1>7
  <2> QED BY <1>2, <1>5, <1>6, <2>1 DEF BusInv
<1>8. ASSUME NEW k, NEW l, AnswerAt(k, i)', AnswerAt(l, i)' PROVE k = l
  <2>1. AnswerAt(k + s, i) /\ AnswerAt(l + s, i) /\ k \in Int /\ l \in Int
    BY <1>4, <1>8
  <2>2. k + s = l + s
    BY <1>5, <2>1 DEF BusInv
  <2> QED BY <2>1, <2>2
<1> QED BY <1>6, <1>7, <1>8

\* What one more event at the end of the queue adds.
LEMMA OneMore ==
    ASSUME queue \in Seq(Event), NEW e \in Event, queue' = Append(queue, e)
    PROVE  /\ Len(queue) \in Nat
           /\ \A k, i : AnswerAt(k, i)' =>
                \/ AnswerAt(k, i) /\ queue'[k] = queue[k]
                \/ k = Len(queue) + 1 /\ queue'[k] = e /\ e.dir = "RX" /\ e.id = i
<1>1. /\ Len(queue) \in Nat /\ Len(queue') = Len(queue) + 1
      /\ \A k \in 1 .. Len(queue) : queue'[k] = queue[k]
      /\ queue'[Len(queue) + 1] = e
  <2>1. /\ Len(Append(queue, e)) = Len(queue) + 1
        /\ \A k \in 1 .. Len(queue) : Append(queue, e)[k] = queue[k]
        /\ Append(queue, e)[Len(queue) + 1] = e
    BY AppendProperties
  <2>2. Len(queue) \in Nat
    BY LenProperties
  <2> QED BY <2>1, <2>2
<1>2. \A k \in 1 .. Len(queue) + 1 : k \in 1 .. Len(queue) \/ k = Len(queue) + 1
  BY <1>1
<1> QED BY <1>1, <1>2 DEF AnswerAt

\* A frame that was written comes back as a TX event: no answer.
LEMMA BusEcho ==
    ASSUME TypeOK, BusInv, NEW e \in Event, e.dir = "TX", queue' = Append(queue, e),
           ReadersStay, UNCHANGED <<late, coming>>
    PROVE  BusInv'
<1>1. \A k, i : AnswerAt(k, i)' => AnswerAt(k, i) /\ queue'[k] = queue[k]
  BY OneMore DEF TypeOK
<1>2. \A i : Trusted(i)' => Trusted(i) /\ \A h : Asks(i, h) => Asks(i, h)'
  BY DEF Trusted, Asks, ReadersStay
<1> QED BY <1>1, <1>2 DEF BusInv

\* An answer arrives, the only one of its frame ID if that is trusted.
LEMMA BusAnswer ==
    ASSUME SafeInv, BusInv, Answers
    PROVE  BusInv'
<1>0. queue \in Seq(Event)
  BY DEF SafeInv, TypeInv, TypeOK
<1>1. PICK h \in coming : /\ coming' = coming \ {h}
                          /\ queue' = Append(queue, [id |-> h.id, dir |-> "RX",
                                                     header |-> h.header])
                          /\ UNCHANGED <<pc, id, asked, late>>
  BY DEF Answers, opVars, history
<1> DEFINE e == [id |-> h.id, dir |-> "RX", header |-> h.header]
<1>2. h \in [id : Ids, header : Nat] /\ coming \subseteq [id : Ids, header : Nat]
  BY <1>1 DEF SafeInv, TypeInv, TypeOK
<1>3. e \in Event /\ e.id = h.id /\ e.header = h.header
  BY <1>2 DEF Event
<1>4. queue' = Append(queue, e)
  BY <1>1
<1> HIDE DEF e
<1>5. /\ Len(queue) \in Nat
      /\ \A k, i : AnswerAt(k, i)' =>
           \/ AnswerAt(k, i) /\ queue'[k] = queue[k]
           \/ k = Len(queue) + 1 /\ queue'[k] = e /\ e.id = i
  BY <1>0, <1>3, <1>4, OneMore
<1>6. \A i, n : (Trusted(i)' <=> Trusted(i)) /\ (Asks(i, n)' <=> Asks(i, n))
  BY <1>1 DEF Trusted, Asks
<1> SUFFICES ASSUME NEW i, Trusted(i)
             PROVE  /\ \A g \in coming' : g.id = i => Asks(i, g.header)
                    /\ \A k : AnswerAt(k, i)' => /\ Asks(i, queue'[k].header)
                                                 /\ \A g \in coming' : g.id # i
                    /\ \A k, l : AnswerAt(k, i)' /\ AnswerAt(l, i)' => k = l
  BY <1>6 DEF BusInv
<1>7. \A g \in coming' : g \in coming /\ (g.id = i => Asks(i, g.header))
  BY <1>1 DEF BusInv
<1>8. CASE h.id # i
  <2>1. \A k : AnswerAt(k, i)' => AnswerAt(k, i) /\ queue'[k] = queue[k]
    BY <1>3, <1>5, <1>8
  <2> QED BY <1>7, <2>1 DEF BusInv
<1>9. CASE h.id = i
  <2>1. \A k : ~AnswerAt(k, i)
    BY <1>1, <1>9 DEF BusInv
  <2>2. \A k : AnswerAt(k, i)' => k = Len(queue) + 1 /\ queue'[k] = e
    BY <1>5, <2>1
  <2>3. Asks(i, h.header)
    BY <1>1, <1>9 DEF BusInv
  <2>4. ASSUME NEW g \in coming', g.id = i PROVE FALSE
    <3>1. g \in coming /\ g # h /\ Asks(i, g.header)
      BY <1>1, <1>7, <2>4
    <3>2. g.header = h.header
      BY <2>3, <3>1, OneReader DEF Asks, OpPcs
    <3> QED BY <1>2, <1>9, <2>4, <3>1, <3>2
  <2> QED BY <1>3, <1>7, <2>2, <2>3, <2>4
<1> QED BY <1>8, <1>9

\* What MasterRead calls have returned stays as fresh as it is.
LEMMA GotKept ==
    ASSUME NoneGot, FreshAnswer, late \subseteq late',
           \A d \in Callers : got'[d] # 0 => /\ got'[d] = got[d] /\ id'[d] = id[d]
                                            /\ asked'[d] = asked[d],
           \A d \in Callers : pc'[d] \in {"lock", "header", "read"} =>
                \/ pc[d] \in {"lock", "header", "read"} /\ got'[d] = got[d]
                \/ got'[d] = 0
    PROVE  NoneGot' /\ FreshAnswer'
BY DEF NoneGot, FreshAnswer

\* Steps of a caller that neither starts nor ends a MasterRead.
LEMMA FreshMove ==
    ASSUME SafeInv, FreshInv, NEW c \in Callers, NEW p,
           pc' = [pc EXCEPT ![c] = p], pc[c] # "read",
           p \notin {"lock", "read"}, p = "header" => pc[c] = "lock",
           UNCHANGED <<id, asked, got, late, queue, coming>>
    PROVE  FreshInv'
<1>1. pc \in [Callers -> Pcs]
  BY DEF SafeInv, TypeInv, TypeOK, Pcs
<1>2. \A d \in Callers : pc'[d] = IF d = c THEN p ELSE pc[d]
  BY <1>1
<1>3. ReadersStay
  BY <1>2 DEF ReadersStay
<1>4. BusInv'
  BY <1>3, BusFewer DEF FreshInv, SafeInv, TypeInv
<1>5. NoneGot' /\ FreshAnswer'
  BY <1>2, GotKept DEF FreshInv
<1> QED BY <1>4, <1>5 DEF FreshInv

\* A header goes out while no other MasterRead waits.
LEMMA FreshAsk ==
    ASSUME SafeInv, FreshInv, NEW c \in Callers, MasterRead(c)
    PROVE  FreshInv'
<1>1. /\ pc \in [Callers -> Pcs] /\ asked \in [Callers -> Nat]
  BY DEF SafeInv, TypeInv, TypeOK, Pcs
<1>2. /\ pc[c] = "header" /\ pc' = [pc EXCEPT ![c] = "read"]
      /\ asked' = [asked EXCEPT ![c] = headers']
      /\ coming' = coming \union {[id |-> id[c], header |-> headers']}
      /\ UNCHANGED <<id, queue, got, late>>
  BY DEF MasterRead, history
<1>3. \A d \in Callers : pc[d] # "read"
  BY <1>2, OneReader DEF OpPcs
<1>4. NonePending
  BY <1>3, NonePendingUnread DEF FreshInv
<1>5. /\ pc'[c] = "read" /\ asked'[c] = headers'
      /\ \A d \in Callers : d # c => asked'[d] = asked[d] /\ pc'[d] = pc[d]
  BY <1>1, <1>2
<1>6. BusInv'
  <2> SUFFICES ASSUME NEW i, Trusted(i)'
               PROVE  /\ \A h \in coming' : h.id = i => Asks(i, h.header)'
                      /\ \A k : ~AnswerAt(k, i)'
    BY DEF BusInv
  <2>1. Trusted(i)
    BY <1>2 DEF Trusted
  <2>2. \A k : ~AnswerAt(k, i)'
    BY <1>2, <1>4, <2>1 DEF NonePending, AnswerAt
  <2>3. ASSUME NEW h \in coming', h.id = i PROVE Asks(i, h.header)'
    <3>1. h = [id |-> id[c], header |-> headers']
      BY <1>2, <1>4, <2>1, <2>3 DEF NonePending
    <3>2. h.id = id[c] /\ h.header = headers'
      BY <3>1
    <3> QED BY <1>2, <1>5, <2>3, <3>2 DEF Asks
  <2> QED BY <2>2, <2>3
<1>7. got[c] = 0
  BY <1>2 DEF FreshInv, NoneGot
<1>8. NoneGot' /\ FreshAnswer'
  BY <1>2, <1>5, <1>7, GotKept DEF FreshInv
<1> QED BY <1>6, <1>8 DEF FreshInv

\* The answer that a MasterRead returns is the only one of its frame ID.
LEMMA FreshReturn ==
    ASSUME SafeInv, FreshInv, NEW c \in Callers, MasterReadReturns(c)
    PROVE  FreshInv'
<1>1. /\ pc \in [Callers -> Pcs] /\ got \in [Callers -> Nat] /\ queue \in Seq(Event)
  BY DEF SafeInv, TypeInv, TypeOK, Pcs
<1>2. /\ pc[c] = "read" /\ pc' = [pc EXCEPT ![c] = "idle"]
      /\ queue # <<>> /\ queue' = Tail(queue)
      /\ Head(queue).id = id[c] /\ Head(queue).dir = "RX"
      /\ got' = [got EXCEPT ![c] = Head(queue).header]
      /\ UNCHANGED <<id, asked, coming, late>>
  BY DEF MasterReadReturns, Matches, Return, opVars
<1>3. /\ Len(queue) \in Nat /\ Len(queue) >= 1 /\ Len(queue') = Len(queue) - 1
      /\ Head(queue) = queue[1]
      /\ \A k \in 1 .. Len(queue) - 1 : queue'[k] = queue[k + 1]
  BY <1>1, <1>2, HeadTailProperties
<1>4. AnswerAt(1, id[c])
  BY <1>2, <1>3 DEF AnswerAt
<1>5. \A d \in Callers : pc[d] = "read" => d = c
  BY <1>2, OneReader DEF OpPcs
<1>6. \A i, h : Asks(i, h) => i = id[c] /\ h = asked[c]
  BY <1>5 DEF Asks
<1>7. \A d \in Callers : /\ pc'[d] = IF d = c THEN "idle" ELSE pc[d]
                         /\ got'[d] = IF d = c THEN Head(queue).header ELSE got[d]
  BY <1>1, <1>2
<1>8. NonePending'
  <2> SUFFICES ASSUME NEW i, Trusted(i)
               PROVE  (\A h \in coming : h.id # i) /\ \A k : ~AnswerAt(k, i)'
    BY <1>2 DEF NonePending, Trusted
  <2>1. ASSUME NEW h \in coming, h.id = i PROVE FALSE
    <3>1. i = id[c]
      BY <1>6, <2>1 DEF FreshInv, BusInv
    <3> QED BY <1>4, <2>1, <3>1 DEF FreshInv, BusInv
  <2>2. ASSUME NEW k, AnswerAt(k, i)' PROVE FALSE
    <3>1. k \in 1 .. Len(queue) - 1
      BY <1>3, <2>2 DEF AnswerAt
    <3>2. AnswerAt(k + 1, i)
      BY <1>3, <2>2, <3>1 DEF AnswerAt
    <3>3. i = id[c]
      BY <1>6, <3>2 DEF FreshInv, BusInv
    <3>4. k + 1 = 1
      BY <1>4, <3>2, <3>3 DEF FreshInv, BusInv
    <3> QED BY <1>3, <3>1, <3>4
  <2> QED BY <2>1, <2>2
<1>9. BusInv'
  BY <1>8 DEF NonePending, BusInv
<1>10. NoneGot'
  BY <1>7 DEF NoneGot, FreshInv
<1>11. FreshAnswer'
  <2> SUFFICES ASSUME NEW d \in Callers, got'[d] # 0, id[d] # Diag, id[d] \notin late
               PROVE  got'[d] = asked[d]
    BY <1>2 DEF FreshAnswer
  <2>1. CASE d = c
    <3>1. Trusted(id[c])
      BY <2>1 DEF Trusted, SafeInv, TypeInv, TypeOK
    <3>2. Asks(id[c], queue[1].header)
      BY <1>4, <3>1 DEF FreshInv, BusInv
    <3> QED BY <1>3, <1>6, <1>7, <2>1, <3>2
  <2>2. CASE d # c
    BY <1>7, <2>2 DEF FreshInv, FreshAnswer
  <2> QED BY <2>1, <2>2
<1> QED BY <1>9, <1>10, <1>11 DEF FreshInv

LEMMA FreshOperation ==
    ASSUME SafeInv, FreshInv, NEW c \in Callers, Operation(c)
    PROVE  FreshInv'
<1>0. /\ pc \in [Callers -> Pcs] /\ id \in [Callers -> Ids] /\ late \in SUBSET Ids
  BY DEF SafeInv, TypeInv, TypeOK, Pcs
<1> DEFINE Moves(p) == /\ pc' = [pc EXCEPT ![c] = p] /\ pc[c] # "read"
                       /\ p \notin {"lock", "read"} /\ (p = "header" => pc[c] = "lock")
           Rest == UNCHANGED <<id, asked, got, late, queue, coming>>
<1>1. ASSUME NEW p, Moves(p), Rest PROVE FreshInv'
  BY <1>1, FreshMove
<1> HIDE DEF Moves
<1>2. CASE lockOperation(c)
  <2>1. /\ pc[c] = "lock" /\ Rest
    BY <1>2 DEF lockOperation, busVars, history
  <2>2. FirstStep[op[c]] \notin {"lock", "read"}
    <3>1. op[c] \in DOMAIN FirstStep
      BY <2>1 DEF SafeInv, TypeInv, WaitsForOp
    <3> QED BY <3>1 DEF FirstStep
  <2>3. pc' = [pc EXCEPT ![c] = "idle"] \/ pc' = [pc EXCEPT ![c] = FirstStep[op[c]]]
    BY <1>2 DEF lockOperation
  <2>4. Moves("idle") \/ Moves(FirstStep[op[c]])
    BY <2>1, <2>2, <2>3 DEF Moves
  <2> QED BY <1>1, <2>1, <2>4
<1>3. CASE Request(c)
  <2>1. Rest /\ (Moves("await") \/ Moves("idle"))
    BY <1>3 DEF Request, Return, opVars, busVars, history, Moves
  <2> QED BY <1>1, <2>1
<1>4. CASE RequestEnds(c)
  <2>1. Rest /\ Moves("barrier")
    BY <1>4 DEF RequestEnds, opVars, busVars, history, Moves
  <2> QED BY <1>1, <2>1
<1>5. CASE StopAwaitingSlaveResponse(c)
  <2>1. Rest /\ Moves("idle")
    BY <1>5 DEF StopAwaitingSlaveResponse, Return, opVars, busVars, Moves
  <2> QED BY <1>1, <2>1
<1>6. CASE MasterReadFails(c)
  <2>1. Rest /\ Moves("idle")
    BY <1>6 DEF MasterReadFails, Return, opVars, busVars, history, Moves
  <2> QED BY <1>1, <2>1
<1>7. CASE CloseAgain(c) \/ CloseClient(c) \/ CloseJoins(c) \/ CloseDriver(c)
  <2>1. Rest /\ (Moves("closed") \/ Moves("join") \/ Moves("release"))
    BY <1>7 DEF CloseAgain, CloseClient, CloseJoins, CloseDriver, opVars, busVars, history, Moves
  <2> QED BY <1>1, <2>1
<1>8. CASE MasterReadSkips(c)
  <2>1. /\ queue # <<>> /\ queue' = Tail(queue)
        /\ UNCHANGED <<pc, id, asked, got, late, coming>>
    BY <1>8 DEF MasterReadSkips, opVars, history
  <2>2. ReadersStay
    BY <2>1 DEF ReadersStay
  <2>3. BusInv'
    BY <2>1, <2>2, BusFewer DEF FreshInv, SafeInv, TypeInv
  <2> QED BY <2>1, <2>3 DEF FreshInv, NoneGot, FreshAnswer
<1>9. CASE MasterReadTimesOut(c)
  <2>1. /\ pc[c] = "read" /\ pc' = [pc EXCEPT ![c] = "idle"]
        /\ late' = late \union {id[c]}
        /\ UNCHANGED <<id, asked, got, queue, coming>>
    BY <1>9 DEF MasterReadTimesOut, Return, opVars, busVars
  <2>2. \A d \in Callers : pc'[d] = IF d = c THEN "idle" ELSE pc[d]
    BY <1>0, <2>1
  <2>3. ReadersStay
    BY <2>1, <2>2 DEF ReadersStay
  <2>4. BusInv'
    BY <2>1, <2>3, BusFewer DEF FreshInv, SafeInv, TypeInv
  <2>5. NoneGot' /\ FreshAnswer'
    BY <2>1, <2>2, GotKept DEF FreshInv
  <2> QED BY <2>4, <2>5 DEF FreshInv
<1>10. CASE Write(c)
  <2>1. /\ pc[c] = "write" /\ pc' = [pc EXCEPT ![c] = "idle"]
        /\ UNCHANGED <<id, asked, got, late, coming>>
    BY <1>10 DEF Write, Return, opVars, history
  <2>2. \A d \in Callers : pc'[d] = IF d = c THEN "idle" ELSE pc[d]
    BY <1>0, <2>1
  <2>3. ReadersStay
    BY <2>1, <2>2 DEF ReadersStay
  <2>4. PICK e \in Event : e.dir = "TX" /\ queue' \in {queue, Append(queue, e)}
    <3>1. [id |-> id[c], dir |-> "TX", header |-> 0] \in Event
      BY <1>0 DEF Event
    <3> QED BY <1>10, <3>1 DEF Write
  <2>5. BusInv'
    BY <2>1, <2>3, <2>4, BusFewer, BusEcho DEF FreshInv, SafeInv, TypeInv
  <2>6. NoneGot' /\ FreshAnswer'
    BY <2>1, <2>2, GotKept DEF FreshInv
  <2> QED BY <2>5, <2>6 DEF FreshInv
<1> QED
  BY <1>2, <1>3, <1>4, <1>5, <1>6, <1>7, <1>8, <1>9, <1>10, FreshAsk, FreshReturn DEF Operation

LEMMA FreshInit == Init => FreshInv
<1> SUFFICES ASSUME Init PROVE FreshInv
  OBVIOUS
<1>1. coming = {} /\ Len(queue) = 0
  BY DEF Init
<1>2. \A k, i : ~AnswerAt(k, i)
  BY <1>1 DEF AnswerAt
<1>3. BusInv
  BY <1>1, <1>2 DEF BusInv
<1>4. \A c \in Callers : got[c] = 0
  BY DEF Init
<1> QED BY <1>3, <1>4 DEF FreshInv, NoneGot, FreshAnswer

LEMMA FreshStep == SafeInv /\ FreshInv /\ [Next]_vars => FreshInv'
<1> SUFFICES ASSUME SafeInv, FreshInv, [Next]_vars PROVE FreshInv'
  OBVIOUS
<1>0. /\ pc \in [Callers -> Pcs] /\ id \in [Callers -> Ids] /\ got \in [Callers -> Nat]
  BY DEF SafeInv, TypeInv, TypeOK, Pcs
<1>1. ASSUME NEW c \in Callers, Close(c) PROVE FreshInv'
  <2>1. /\ pc[c] = "idle"
        /\ pc' = [pc EXCEPT ![c] = "client"] \/ pc' = [pc EXCEPT ![c] = "once"]
        /\ UNCHANGED <<id, asked, got, late, queue, coming>>
    BY <1>1 DEF Close, busVars, history
  <2> QED BY <2>1, FreshMove
<1>2. ASSUME NEW c \in Callers, NEW o \in DOMAIN FirstStep, Begin(c, o) PROVE FreshInv'
  <2>1. /\ pc[c] = "idle" /\ pc' = [pc EXCEPT ![c] = "lock"]
        /\ got' = [got EXCEPT ![c] = 0]
        /\ \E i \in Ids : id' = [id EXCEPT ![c] = i]
        /\ UNCHANGED <<asked, late, queue, coming>>
    BY <1>2 DEF Begin, busVars
  <2>2. \A d \in Callers : /\ pc'[d] = IF d = c THEN "lock" ELSE pc[d]
                           /\ got'[d] = IF d = c THEN 0 ELSE got[d]
                           /\ d # c => id'[d] = id[d]
    BY <1>0, <2>1
  <2>3. ReadersStay
    BY <2>1, <2>2 DEF ReadersStay
  <2>4. BusInv'
    BY <2>1, <2>3, BusFewer DEF FreshInv, SafeInv, TypeInv
  <2>5. NoneGot' /\ FreshAnswer'
    BY <2>1, <2>2, GotKept DEF FreshInv
  <2> QED BY <2>4, <2>5 DEF FreshInv
<1>3. ASSUME UNCHANGED <<pc, id, asked, got, late>>,
             \/ queue' = queue
             \/ queue # <<>> /\ queue' = Tail(queue),
             \A h \in coming' : h \in coming \/ h.id = Diag
      PROVE  FreshInv'
  <2>1. ReadersStay
    BY <1>3 DEF ReadersStay
  <2>2. BusInv'
    BY <1>3, <2>1, BusFewer DEF FreshInv, SafeInv, TypeInv
  <2> QED BY <1>3, <2>2 DEF FreshInv, NoneGot, FreshAnswer
<1>4. ASSUME Loop PROVE FreshInv'
  <2>1. UNCHANGED <<pc, id, asked, got, late>>
    BY <1>4 DEF Loop, Execute, ExecuteReads, ExecuteHasRead, ExecuteWrites, ExecutePolls,
                LoopExits, opVars, history
  <2>2. \/ queue' = queue
        \/ queue # <<>> /\ queue' = Tail(queue)
    BY <1>4 DEF Loop, Execute, ExecuteReads, ExecuteHasRead, ExecuteWrites, ExecutePolls,
                LoopExits, busVars
  <2>3. \/ coming' = coming
        \/ coming' = coming \union {[id |-> Diag, header |-> headers']}
    BY <1>4 DEF Loop, Execute, ExecuteReads, ExecuteHasRead, ExecuteWrites, ExecutePolls,
                LoopExits, busVars
  <2>4. \A h \in coming' : h \in coming \/ h.id = Diag
    BY <2>3
  <2> QED BY <1>3, <2>1, <2>2, <2>4
<1>5. ASSUME Answers PROVE FreshInv'
  <2>1. UNCHANGED <<pc, id, asked, got, late>>
    BY <1>5 DEF Answers, opVars, history
  <2>2. BusInv'
    BY <1>5, BusAnswer DEF FreshInv
  <2> QED BY <2>1, <2>2 DEF FreshInv, NoneGot, FreshAnswer
<1>6. ASSUME Silent \/ UNCHANGED vars PROVE FreshInv'
  <2>1. /\ UNCHANGED <<pc, id, asked, got, late, queue>>
        /\ coming' \subseteq coming
    BY <1>6 DEF Silent, vars, opVars, busVars, history
  <2> QED BY <1>3, <2>1
<1> QED BY <1>1, <1>2, <1>4, <1>5, <1>6, FreshOperation DEF Next

\* On every frame ID but the diagnostic one, MasterRead returns the answer to
\* its own header unless an earlier MasterRead of that ID gave its answer up
\* (common.go:44-70).
THEOREM FreshSafe == Spec => []FreshAnswer
<1>1. FreshInv => FreshAnswer
  BY DEF FreshInv
<1> QED BY <1>1, SafeInit, SafeStep, FreshInit, FreshStep, PTL DEF Spec
=============================================================================
