------------------------------ MODULE UdsClient ------------------------------
(***************************************************************************)
(* uds_client.Client: goroutines that send requests and wait for answers   *)
(* through one LinMaster.  Below it, a master transport and the nodes of   *)
(* the bus in terms of whole messages: MasterTransport and Reassembly have *)
(* the frames.  A request given up leaves its message in txQueue and its   *)
(* answers on the bus, in the driver or in rxQueue.  An answer of several  *)
(* frames comes in two: the first one, and the rest of it.                 *)
(*                                                                         *)
(* Empty payloads are refused without any effect and are left out.         *)
(***************************************************************************)
EXTENDS Integers, Sequences, FiniteSets

CONSTANTS
    Clients,             \* goroutines that call the client
    Requests,            \* what they ask, see Request
    Nads,                \* of the nodes on the bus
    Stranger,            \* a NAD nobody asks
    Broadcast,
    Scripts,             \* what a node may say to one request, see Kinds
    Retryable,           \* RetryableSIDs
    MaxRetries,
    TxQueueSize,         \* messages
    RxQueueSize,
    ErrorQueueSize,
    ContinuousSlavePoll, \* an option of the client: nodes are always polled
    Patient,             \* waits end only when nothing can come any more
    Endless,             \* nodes may say "response pending" for ever
    MaxCalls, MaxFailures    \* bounds

(***************************************************************************)
(* mode: SendAndRec with its timeout and retries, or SendAndRecWithContext *)
(* with a context of the caller's.  A node answers positively, negatively, *)
(* with response pending or a malformed negative response; "foreign" is a  *)
(* positive response under another NAD.  "first" is the first frame of the *)
(* answer that follows in its script; one that is last was abandoned.      *)
(***************************************************************************)
Request == [nad : Nat, sid : Nat, mode : {"retry", "context"}]
NoRequest == [nad |-> 0, sid |-> 0, mode |-> "retry"]
Kinds == {"first", "positive", "negative", "pending", "malformed", "foreign"}
Message == [nad : Nat, sid : Nat, kind : Kinds, to : Nat, rest : BOOLEAN]

ASSUME UdsAssumption ==
    /\ Requests \subseteq Request
    /\ Nads \subseteq Nat /\ Broadcast \in Nat /\ Stranger \in Nat
    /\ Scripts \subseteq Seq(Kinds)
    /\ MaxRetries \in Nat
    /\ TxQueueSize \in Nat \ {0} /\ RxQueueSize \in Nat \ {0} /\ ErrorQueueSize \in Nat \ {0}
    /\ ContinuousSlavePoll \in BOOLEAN /\ Patient \in BOOLEAN /\ Endless \in BOOLEAN
    /\ MaxCalls \in Nat /\ MaxFailures \in Nat

VARIABLES
    pc,                  \* where each caller is
    request,             \* what it asks
    mine,                \* its position in served
    attempt,             \* of each caller
    timer,               \* "none", "P2" or "P2*"
    ended,               \* its own context has ended
    outcome,             \* of its attempt
    txQueue, rxQueue,    \* of the transport, messages
    errors,              \* how many receiveErrors holds
    driver,              \* what the driver holds
    ongoing,             \* remainingBytes > 0: a reception is open
    coming,              \* answers the nodes still have to give
    awaiting,            \* awaitingSlaveResponse
    life,                \* "open", "closing" or "closed"
    failures,            \* driver calls that failed
    served,              \* history: requests in the order they got requestMu
    executed, answers    \* history, see UdsService

callVars == <<pc, request, mine, attempt, timer, ended, outcome, served, answers>>
loopVars == <<driver, ongoing, coming, failures, executed>>
vars == <<pc, request, mine, attempt, timer, ended, outcome, txQueue, rxQueue, errors, driver,
          ongoing, coming, awaiting, life, failures, served, executed, answers>>

Init ==
    /\ pc = [c \in Clients |-> "idle"]
    /\ request = [c \in Clients |-> NoRequest]
    /\ mine = [c \in Clients |-> 0]
    /\ attempt = [c \in Clients |-> 0]
    /\ timer = [c \in Clients |-> "none"]
    /\ ended = [c \in Clients |-> FALSE]
    /\ outcome = [c \in Clients |-> "none"]
    /\ txQueue = <<>> /\ rxQueue = <<>> /\ errors = 0
    /\ driver = <<>> /\ ongoing = FALSE /\ coming = <<>>
    /\ awaiting = FALSE
    /\ life = "open"
    /\ failures = 0
    /\ served = <<>> /\ executed = <<>> /\ answers = {}

-----------------------------------------------------------------------------
(***************************************************************************)
(* A caller.  requestMu is held exactly at the points of HoldingPcs.       *)
(***************************************************************************)
HoldingPcs == {"drain", "wait", "stop"}

Call(c) ==
    /\ pc[c] = "idle"
    /\ Len(served) + Cardinality({d \in Clients : pc[d] = "lock"}) < MaxCalls
    /\ \E r \in Requests : request' = [request EXCEPT ![c] = r]
    /\ pc' = [pc EXCEPT ![c] = "lock"]
    /\ ended' = [ended EXCEPT ![c] = FALSE]
    /\ UNCHANGED <<mine, attempt, timer, outcome, served, answers, loopVars, txQueue, rxQueue,
                   errors, awaiting, life>>

\* Mutant of MuFree: callers do not wait for each other.
MuIgnored == TRUE

MuFree == \A d \in Clients : pc[d] \notin HoldingPcs

Lock(c) ==
    /\ pc[c] = "lock"
    /\ MuFree
    /\ pc' = [pc EXCEPT ![c] = "drain"]
    /\ attempt' = [attempt EXCEPT ![c] = 0]
    /\ served' = Append(served, request[c])
    /\ mine' = [mine EXCEPT ![c] = Len(served')]
    /\ UNCHANGED <<request, timer, ended, outcome, answers, loopVars, txQueue, rxQueue, errors,
                   awaiting, life>>

Drain(c) ==
    /\ pc[c] = "drain"
    /\ rxQueue # <<>>
    /\ rxQueue' = Tail(rxQueue)
    /\ UNCHANGED <<callVars, loopVars, txQueue, errors, awaiting, life>>

\* Mutant of FirstTimer: a timeout of 0 stays 0, which means none.
FirstTimerNone(r) == "none"

\* SendAndRec waits its timeout or the default one, the other has its context.
FirstTimer(r) == IF r.mode = "retry" THEN "P2" ELSE "none"

\* Mutant of Admits: room for one more.
AdmitsOneMore == life = "open" /\ Len(txQueue) <= TxQueueSize

Admits == life = "open" /\ Len(txQueue) < TxQueueSize

Send(c) ==
    /\ pc[c] = "drain"
    /\ rxQueue = <<>>
    /\ Admits
    /\ txQueue' = Append(txQueue, [nad |-> request[c].nad, sid |-> request[c].sid,
                                   id |-> mine[c]])
    /\ awaiting' = TRUE
    /\ timer' = [timer EXCEPT ![c] = FirstTimer(request[c])]
    /\ pc' = [pc EXCEPT ![c] = "wait"]
    /\ UNCHANGED <<request, mine, attempt, ended, outcome, served, answers, loopVars, rxQueue,
                   errors, life>>

\* The transport is closed or its queue is full: no session was started.
SendFails(c) ==
    /\ pc[c] = "drain"
    /\ rxQueue = <<>>
    /\ ~Admits
    /\ pc' = [pc EXCEPT ![c] = "idle"]
    /\ outcome' = [outcome EXCEPT ![c] = "transport"]
    /\ UNCHANGED <<request, mine, attempt, timer, ended, served, answers, loopVars, txQueue,
                   rxQueue, errors, awaiting, life>>

\* The wait of c is over.
Ends(c, how) ==
    /\ pc' = [pc EXCEPT ![c] = "stop"]
    /\ timer' = [timer EXCEPT ![c] = "none"]
    /\ outcome' = [outcome EXCEPT ![c] = how]
    /\ UNCHANGED <<request, mine, attempt, ended, served, loopVars, txQueue, awaiting, life>>

\* Mutant of FromTarget: the NAD of an answer is not looked at.
FromAnyone(r, m) == TRUE

FromTarget(r, m) == r.nad = Broadcast \/ m.nad = r.nad

\* The answer that ends the wait; a negative response is one.
IsAnswer(r, m) ==
    /\ FromTarget(r, m)
    /\ m.sid = r.sid
    /\ m.kind \in {"positive", "negative", "foreign"}

IsPending(r, m) == FromTarget(r, m) /\ m.sid = r.sid /\ m.kind = "pending"

TakesAnswer(c) ==
    /\ pc[c] = "wait"
    /\ rxQueue # <<>>
    /\ LET m == Head(rxQueue)
       IN  /\ IsAnswer(request[c], m)
           /\ answers' = answers \cup {<<mine[c], m.to>>}
    /\ rxQueue' = Tail(rxQueue)
    /\ UNCHANGED errors
    /\ Ends(c, "answer")

\* NRC 0x78: the wait goes on under P2*, still within the caller's context.
TakesPending(c) ==
    /\ pc[c] = "wait"
    /\ rxQueue # <<>>
    /\ IsPending(request[c], Head(rxQueue))
    /\ rxQueue' = Tail(rxQueue)
    /\ timer' = [timer EXCEPT ![c] = "P2*"]
    /\ UNCHANGED <<pc, request, mine, attempt, ended, outcome, served, answers, loopVars,
                   txQueue, errors, awaiting, life>>

\* Other nodes' answers, other services' and malformed ones.
TakesOther(c) ==
    /\ pc[c] = "wait"
    /\ rxQueue # <<>>
    /\ ~IsAnswer(request[c], Head(rxQueue))
    /\ ~IsPending(request[c], Head(rxQueue))
    /\ rxQueue' = Tail(rxQueue)
    /\ UNCHANGED <<callVars, loopVars, txQueue, errors, awaiting, life>>

TakesError(c) ==
    /\ pc[c] = "wait"
    /\ errors > 0
    /\ errors' = errors - 1
    /\ Ends(c, "transport")
    /\ UNCHANGED <<rxQueue, answers>>

TakesClosed(c) ==
    /\ pc[c] = "wait"
    /\ life = "closed"
    /\ Ends(c, "transport")
    /\ UNCHANGED <<rxQueue, errors, answers>>

\* Nothing is on its way that could end the wait.
Quiet == txQueue = <<>> /\ rxQueue = <<>> /\ driver = <<>> /\ coming = <<>>

TimesOut(c) ==
    /\ pc[c] = "wait"
    /\ timer[c] # "none"
    /\ ~ended[c]
    /\ Patient => Quiet
    /\ Ends(c, "timeout")
    /\ UNCHANGED <<rxQueue, errors, answers>>

\* Mutant of ContextEnds: the context made for P2* is not the caller's child.
ContextEndsBeforePending(c) ==
    /\ pc[c] = "wait"
    /\ ended[c]
    /\ timer[c] = "none"
    /\ Ends(c, "context")
    /\ UNCHANGED <<rxQueue, errors, answers>>

ContextEnds(c) ==
    /\ pc[c] = "wait"
    /\ ended[c]
    /\ Ends(c, "context")
    /\ UNCHANGED <<rxQueue, errors, answers>>

\* Mutant of Retries: RetryableSIDs is not looked up.
RetriesAll(r) == MaxRetries

\* Only SendAndRec repeats, and only what RetryableSIDs lists.
Retries(r) == IF r.mode = "retry" /\ r.sid \in Retryable THEN MaxRetries ELSE 0

\* Another attempt follows.
GoesOn(c) ==
    pc[c] = "stop" /\ outcome[c] = "timeout" /\ attempt[c] < Retries(request[c])

\* Mutant of Stops: awaiting is left set when the wait failed.
StopsAfterAnswer(c) == IF outcome[c] = "answer" THEN FALSE ELSE awaiting

Stops(c) == FALSE

\* The deferred StopAwaitingSlaveResponse, then the next attempt or the return.
StopAwaiting(c) ==
    /\ pc[c] = "stop"
    /\ awaiting' = Stops(c)
    /\ \/ /\ GoesOn(c)
          /\ attempt' = [attempt EXCEPT ![c] = @ + 1]
          /\ pc' = [pc EXCEPT ![c] = "drain"]
       \/ /\ ~GoesOn(c)
          /\ pc' = [pc EXCEPT ![c] = "idle"]
          /\ UNCHANGED attempt
    /\ UNCHANGED <<request, mine, timer, ended, outcome, served, answers, loopVars, txQueue,
                   rxQueue, errors, life>>

\* What the caller does by itself, and the end of its context.
Client(c) ==
    \/ Lock(c) \/ Drain(c) \/ Send(c) \/ SendFails(c)
    \/ TakesAnswer(c) \/ TakesPending(c) \/ TakesOther(c)
    \/ TakesError(c) \/ TakesClosed(c) \/ TimesOut(c) \/ ContextEnds(c)
    \/ StopAwaiting(c)

ContextOver(c) ==
    /\ pc[c] # "idle"
    /\ request[c].mode = "context"
    /\ ~ended[c]
    /\ Patient => pc[c] = "wait" /\ Quiet
    /\ ended' = [ended EXCEPT ![c] = TRUE]
    /\ UNCHANGED <<pc, request, mine, attempt, timer, outcome, served, answers, loopVars,
                   txQueue, rxQueue, errors, awaiting, life>>

-----------------------------------------------------------------------------
(***************************************************************************)
(* The loop of the transport and the nodes.                                *)
(***************************************************************************)
\* receiveErrors after one more report: a full one drops it.
Reported == IF errors < ErrorQueueSize THEN errors + 1 ELSE errors

\* Does the loop ask for answers when it has nothing to write?
shouldRequestSlaveResponse == ContinuousSlavePoll \/ awaiting \/ ongoing

Active == life # "closed" /\ (txQueue # <<>> \/ shouldRequestSlaveResponse)

\* A whole message: a single frame, or the rest of one whose reception is open.
Whole(m) == m.kind # "first" /\ (m.rest => ongoing)

\* A full rxQueue drops the message and reports that to whoever waits.
Read ==
    /\ Active
    /\ driver # <<>>
    /\ driver' = Tail(driver)
    /\ LET m == Head(driver)
           full == Len(rxQueue) >= RxQueueSize
       IN  /\ ongoing' = (m.kind = "first")
           /\ rxQueue' = IF Whole(m) /\ ~full THEN Append(rxQueue, m) ELSE rxQueue
           /\ errors' = IF Whole(m) /\ full THEN Reported ELSE errors
    /\ UNCHANGED <<callVars, txQueue, coming, awaiting, life, failures, executed>>

\* A reception that stays open for MultiFrameTimeout is given up.
Expire ==
    /\ life # "closed"
    /\ ongoing
    /\ ongoing' = FALSE
    /\ UNCHANGED <<callVars, txQueue, rxQueue, errors, driver, coming, awaiting, life, failures,
                   executed>>

Answering(r) == IF r.nad = Broadcast THEN Nads ELSE Nads \cap {r.nad}

Says(n, r, script, i) ==
    [nad |-> IF script[i] = "foreign" THEN Stranger ELSE n, sid |-> r.sid, kind |-> script[i],
     to |-> IF script[i] = "foreign" THEN 0 ELSE r.id,
     rest |-> i > 1 /\ script[i - 1] = "first"]

\* A node acts on the request and will say what one of the scripts has.
Write ==
    /\ Active
    /\ driver = <<>>
    /\ txQueue # <<>>
    /\ txQueue' = Tail(txQueue)
    /\ LET r == Head(txQueue)
       IN  \/ /\ Answering(r) = {}
              /\ UNCHANGED <<coming, executed>>
           \/ /\ \E n \in Answering(r), script \in Scripts :
                    coming' = coming \o [i \in DOMAIN script |-> Says(n, r, script, i)]
              /\ executed' = Append(executed, r.id)
    /\ UNCHANGED <<callVars, rxQueue, errors, driver, ongoing, awaiting, life, failures>>

\* A header: the next frame, which a node that is not finished gives again.
Poll ==
    /\ Active
    /\ driver = <<>>
    /\ txQueue = <<>>
    /\ coming # <<>>
    /\ driver' = <<Head(coming)>>
    /\ coming' = IF Endless /\ Head(coming).kind = "pending" THEN coming ELSE Tail(coming)
    /\ UNCHANGED <<callVars, txQueue, rxQueue, errors, ongoing, awaiting, life, failures, executed>>

\* A driver call fails; the message it was to write is lost.
Fails ==
    /\ Active
    /\ failures < MaxFailures
    /\ failures' = failures + 1
    /\ errors' = Reported
    /\ \/ UNCHANGED txQueue
       \/ txQueue # <<>> /\ driver = <<>> /\ txQueue' = Tail(txQueue)
    /\ UNCHANGED <<callVars, rxQueue, driver, ongoing, coming, awaiting, life, executed>>

Loop == Read \/ Write \/ Poll

Close ==
    /\ life = "open"
    /\ life' = "closing"
    /\ UNCHANGED <<callVars, loopVars, txQueue, rxQueue, errors, awaiting>>

Closed ==
    /\ life = "closing"
    /\ life' = "closed"
    /\ UNCHANGED <<callVars, loopVars, txQueue, rxQueue, errors, awaiting>>

Next ==
    \/ \E c \in Clients : Call(c) \/ Client(c) \/ ContextOver(c)
    \/ Loop \/ Expire \/ Fails \/ Close \/ Closed

Spec == Init /\ [][Next]_vars

\* Goroutines that can run do run; a mutex is handed over; Go's select takes
\* each of the cases that are ready again and again.
FairSpec ==
    /\ Spec
    /\ WF_vars(Loop) /\ WF_vars(Closed)
    /\ \A c \in Clients :
          /\ WF_vars(Client(c))
          /\ SF_vars(Lock(c)) /\ SF_vars(TakesClosed(c)) /\ SF_vars(ContextEnds(c))

\* Callers that give a context of their own let it end some day.
FairContexts == FairSpec /\ \A c \in Clients : WF_vars(ContextOver(c))

-----------------------------------------------------------------------------
(***************************************************************************)
(* Properties.                                                             *)
(***************************************************************************)

\* Types; the transport's queues stay within their capacities.
TypeOK ==
    /\ pc \in [Clients -> {"idle", "lock"} \cup HoldingPcs]
    /\ request \in [Clients -> Request]
    /\ mine \in [Clients -> Nat] /\ attempt \in [Clients -> 0 .. MaxRetries]
    /\ timer \in [Clients -> {"none", "P2", "P2*"}]
    /\ ended \in [Clients -> BOOLEAN]
    /\ outcome \in [Clients -> {"none", "answer", "transport", "timeout", "context"}]
    /\ txQueue \in Seq([nad : Nat, sid : Nat, id : Nat]) /\ Len(txQueue) <= TxQueueSize
    /\ rxQueue \in Seq(Message) /\ Len(rxQueue) <= RxQueueSize
    /\ errors \in 0 .. ErrorQueueSize
    /\ driver \in Seq(Message) /\ ongoing \in BOOLEAN /\ coming \in Seq(Message)
    /\ awaiting \in BOOLEAN
    /\ life \in {"open", "closing", "closed"}
    /\ failures \in Nat
    /\ served \in Seq(Request)
    /\ executed \in Seq(Nat)
    /\ answers \subseteq Nat \X Nat

\* How often the nodes may act on a request: once, unless its service was
\* listed as safe to repeat (README.md:158, client_lin.go:29-33).
Allowed(r) == IF r.mode = "retry" /\ r.sid \in Retryable THEN 1 + MaxRetries ELSE 1

\* No request is acted on more often than that, whatever times out, fails or is
\* still queued when its caller gives up (client_lin.go:128-137).
NotRepeated ==
    \A id \in 1 .. Len(served) :
        Cardinality({i \in DOMAIN executed : executed[i] = id}) <= Allowed(served[id])

\* Nodes act on requests in the order in which their callers got requestMu: one
\* given up never overtakes or follows a later one (client_lin.go:123, 109).
ExecutedInOrder ==
    \A i, j \in DOMAIN executed : i < j => executed[i] <= executed[j]

\* The transport listens while a caller waits.  Once none does it works on only
\* to write what is queued (transport.go:218), to finish a reception that is open
\* (282), or because the client was made to poll always (275): a call that ends,
\* however it ends, stops the polling it began, and never another's.
PolledWhileWaiting ==
    /\ \A c \in Clients : pc[c] = "wait" => awaiting
    /\ Active => \/ \E c \in Clients : pc[c] \in {"wait", "stop"}
                 \/ txQueue # <<>> \/ ongoing \/ ContinuousSlavePoll

\* With answers in time the client implements the service of UdsService: no
\* request outlives its call, and an answer is the answer to the request.
Service == INSTANCE UdsService WITH
    open <- \E c \in Clients : pc[c] \in {"drain", "wait"} \/ GoesOn(c)

ImplementsService == Service!Spec

\* A call returns, by an answer, a timeout, an error or the end of its context.
CallsReturn == \A c \in Clients : (pc[c] # "idle") ~> (pc[c] = "idle")

\* Two things end a wait whatever the node does, also one that answers response
\* pending again and again: the end of the caller's context (client_lin.go:163),
\* and the Close of the client, after which nobody waits any more
\* (client_lin.go:95-98).
WaitsEnd ==
    /\ \A c \in Clients : (pc[c] = "wait" /\ ended[c]) ~> (pc[c] # "wait")
    /\ (life = "closed") ~> [](\A c \in Clients : pc[c] # "wait")
=============================================================================
