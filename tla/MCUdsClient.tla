----------------------------- MODULE MCUdsClient -----------------------------
(***************************************************************************)
(* Instances of UdsClient: two services, of which 1 is safe to repeat, and *)
(* the nodes 1 and 2.                                                      *)
(***************************************************************************)
EXTENDS UdsClient, TLC

Ask(a, s, m) == [nad |-> a, sid |-> s, mode |-> m]

MCRequests == {Ask(1, 1, "retry"), Ask(1, 2, "retry"), Ask(1, 2, "context")}
MCTwoModes == {Ask(1, 1, "retry"), Ask(1, 2, "context")}
MCWithBroadcast == {Ask(1, 1, "retry"), Ask(127, 2, "retry"), Ask(1, 2, "context")}

\* A timely node says one last thing, and nothing after it.
MCTimely ==
    { <<"first", "positive">>, <<"pending", "negative">>, <<"malformed", "foreign">>,
      <<"first">>, <<>> }
MCAny ==
    { <<"first", "positive">>, <<"pending", "positive">>, <<"foreign">> }
MCPending == { <<"pending">>, <<"negative">> }

Symmetry == Permutations(Clients)
=============================================================================
