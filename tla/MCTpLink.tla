------------------------------ MODULE MCTpLink ------------------------------
(***************************************************************************)
(* Instances of TpLink and of its receiver for TLC.                        *)
(***************************************************************************)
EXTENDS TpLink

\* A message of n data bytes that all differ from those of other messages.
Msg(nad, n, base) ==
    [nad |-> nad, sid |-> base, data |-> [i \in 1 .. n |-> (base + i) % 256]]

\* One single frame, two messages of a first and one consecutive frame, so that
\* one can complete the other, and one of 18 consecutive frames, on which the
\* frame counter wraps.
MCMessages == {Msg(1, 3, 10), Msg(1, 6, 20), Msg(2, 6, 30), Msg(2, 112, 40)}

\* Empty (no slave answered), without a PCI byte, an unknown PCI type, single
\* frames of length 0 and of more bytes than they hold, first frames that are
\* short, too small and too large, and a consecutive frame without data.
MCNoise ==
    {<<>>, <<1>>, <<1, 48, 0>>, <<1, 0, 7>>, <<1, 6, 7>>, <<1, 16, 9, 7>>,
     <<1, 16, 6, 7, 7, 7, 7, 7>>, <<1, 33>>}
=============================================================================
