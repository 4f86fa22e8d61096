----------------------------- MODULE ExamplesMC -----------------------------
(***************************************************************************)
(* Four frames, the stream longer than the buffer, for all programs.      *)
(***************************************************************************)
EXTENDS Examples

AllPrograms == DOMAIN Program
FrameStarts == <<0, 1, 5, 6, 8>>
Delays == [decode |-> 1, encode |-> 1, vpp |-> 0]
=============================================================================
