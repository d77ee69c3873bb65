------------------------------ MODULE MCLinBus -------------------------------
(***************************************************************************)
(* Instances of LinBus.                                                    *)
(***************************************************************************)
EXTENDS LinBus

Ask0(a, sid, long, for, what, new) ==
    [nad |-> a, sid |-> sid, long |-> long, for |-> for, what |-> what, new |-> new]

\* Slave s starts with the NAD s.
MCNad == [s \in Slaves |-> s]

\* Frames every slave's serial number takes.
MCSerial == [s \in Slaves |-> 3]

\* One request for each way through the slave's handlers.
MCAllRequests ==
    { Ask0(1, "read", FALSE, {1}, "serial", 1),
      Ask0(1, "read", TRUE, {1}, "serial", 1),
      Ask0(1, "read", TRUE, {}, "product", 1),
      Ask0(1, "save", FALSE, {}, "product", 1),
      Ask0(1, "assign", FALSE, {1}, "product", 9),
      Ask0(1, "assign", TRUE, {1}, "product", 9),
      Ask0(9, "other", TRUE, {1}, "product", 1) }

\* Requests to one node each; the second gets a new NAD on the way.
MCUnicast ==
    { Ask0(1, "read", TRUE, {1, 2}, "serial", 1),
      Ask0(2, "read", TRUE, {1, 2}, "serial", 1),
      Ask0(2, "assign", TRUE, {2}, "product", 9),
      Ask0(9, "save", FALSE, {}, "product", 9) }

\* A broadcast both nodes answer, and a request to one of them.
MCBroadcast ==
    { Ask0(Broadcast, "read", TRUE, {1, 2}, "serial", 1),
      Ask0(1, "read", TRUE, {1, 2}, "serial", 1) }
=============================================================================
