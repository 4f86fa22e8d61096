------------------------------ MODULE FrameCopy ------------------------------
(***************************************************************************)
(* What an example program promises: it writes the frames of its input in  *)
(* order, each once, and ends.  Only after the runtime has answered        *)
(* something the program does not handle may frames be missing, and only   *)
(* then is the end not promised.                                           *)
(***************************************************************************)
EXTENDS Integers, Sequences

CONSTANT NFrames     \* frames of the input

VARIABLES
    out,             \* frames written
    unhandled,       \* the runtime gave an answer that the program does not handle
    status           \* "running", or how the program ended

vars == <<out, unhandled, status>>

LastOut == IF out = <<>> THEN 0 ELSE out[Len(out)]

Init ==
    /\ out = <<>>
    /\ unhandled = FALSE
    /\ status = "running"

Write ==
    /\ status = "running"
    /\ \E f \in LastOut + 1 .. NFrames :
         /\ ~unhandled => f = LastOut + 1
         /\ out' = Append(out, f)
    /\ UNCHANGED <<unhandled, status>>

Unhandled ==
    /\ status = "running"
    /\ unhandled' = TRUE
    /\ UNCHANGED <<out, status>>

Finish ==
    /\ status = "running"
    /\ unhandled \/ Len(out) = NFrames
    /\ status' = "ok"
    /\ UNCHANGED <<out, unhandled>>

Fail ==
    /\ status = "running"
    /\ status' = "failed"
    /\ UNCHANGED <<out, unhandled>>

Next == Write \/ Unhandled \/ Finish \/ Fail

Spec == Init /\ [][Next]_vars /\ WF_vars(~unhandled /\ (Write \/ Finish \/ Fail))
=============================================================================
