--------------------------- MODULE MessageChannel ---------------------------
(***************************************************************************)
(* What the LIN transport promises a caller about whole messages, with no  *)
(* frames in sight.  One node sends messages one after the other; each may *)
(* or may not arrive, and arrives intact.  A message of several frames     *)
(* arrives at most once; a single-frame message may be repeated by a link  *)
(* that repeats frames.  Only while the channel is torn (the start of a    *)
(* message went missing while the receiver was still inside another one)   *)
(* may something else arrive.                                              *)
(***************************************************************************)
EXTENDS Integers, Sequences

CONSTANTS Messages, Repeatable, Capacity

VARIABLES
    cur,      \* the message being sent
    arrived,  \* it has arrived
    trusted,  \* the channel is not torn
    inbox     \* arrived and not yet taken

chanVars == <<cur, arrived, trusted, inbox>>

Init ==
    /\ cur \in Messages
    /\ arrived = FALSE
    /\ trusted = TRUE
    /\ inbox = <<>>

Put(m) ==
    \/ Len(inbox) < Capacity /\ inbox' = Append(inbox, m)
    \/ Len(inbox) >= Capacity /\ UNCHANGED inbox

Send ==
    /\ cur' \in Messages
    /\ arrived' = FALSE
    /\ UNCHANGED <<trusted, inbox>>

Arrive ==
    /\ arrived => cur \in Repeatable
    /\ Put(cur)
    /\ arrived' = TRUE
    /\ trusted' = TRUE
    /\ UNCHANGED cur

\* Anything may come out of a torn channel.
Garble ==
    /\ ~trusted
    /\ Len(inbox') <= Len(inbox) + 1
    /\ arrived' = TRUE
    /\ UNCHANGED <<cur, trusted>>

Tear == trusted' = FALSE /\ UNCHANGED <<cur, arrived, inbox>>
Mend == trusted' = TRUE /\ UNCHANGED <<cur, arrived, inbox>>

Take ==
    /\ inbox # <<>>
    /\ inbox' = Tail(inbox)
    /\ UNCHANGED <<cur, arrived, trusted>>

Next == Send \/ Arrive \/ Garble \/ Tear \/ Mend \/ Take

Spec == Init /\ [][Next]_chanVars
=============================================================================
