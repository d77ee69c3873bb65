----------------------------- MODULE UdsService ------------------------------
(***************************************************************************)
(* What the UDS client promises when answers come in time: requests are    *)
(* served one after the other, a node acts on a request only while it is   *)
(* being served and no more often than the caller allowed, and the answer  *)
(* a caller gets was given to its own request.                             *)
(***************************************************************************)
EXTENDS Naturals, Sequences, FiniteSets

CONSTANTS
    Request,             \* all requests
    Allowed(_)           \* how often a request may be acted on

VARIABLES
    served,              \* requests taken up so far, in order
    open,                \* TRUE while the last of them is being served
    executed,            \* what nodes acted on, as positions in served
    answers              \* answers given: which request got whose

vars == <<served, open, executed, answers>>

Last == Len(served)
Count(id) == Cardinality({i \in DOMAIN executed : executed[i] = id})

Init == served = <<>> /\ open = FALSE /\ executed = <<>> /\ answers = {}

Begin ==
    /\ ~open
    /\ Len(served') = Last + 1
    /\ served'[Last + 1] \in Request
    /\ served = SubSeq(served', 1, Last)
    /\ open' = TRUE
    /\ UNCHANGED <<executed, answers>>

Execute ==
    /\ open
    /\ Count(Last) < Allowed(served[Last])
    /\ executed' = Append(executed, Last)
    /\ UNCHANGED <<served, open, answers>>

Answer ==
    /\ open
    /\ Count(Last) > 0
    /\ open' = FALSE
    /\ answers' = answers \cup {<<Last, Last>>}
    /\ UNCHANGED <<served, executed>>

Fail ==
    /\ open
    /\ open' = FALSE
    /\ UNCHANGED <<served, executed, answers>>

Next == Begin \/ Execute \/ Answer \/ Fail

Spec == Init /\ [][Next]_vars
=============================================================================
