--------------------------- MODULE EncoderContract ---------------------------
(***************************************************************************)
(* What a streaming encoder promises its caller, whatever it does inside:  *)
(* it is given input, writes exactly that input in order, and closes the   *)
(* frame only when all it was given has been written.  After an error it   *)
(* promises only that the frame is never closed.                           *)
(***************************************************************************)
EXTENDS Integers, Sequences

VARIABLES
    given,      \* number of input bytes given; the input is 0, 1, 2, ...
    content,    \* the bytes the frame written so far decodes to
    status      \* "open", "closed" or "failed"

contract == <<given, content, status>>

Init == given = 0 /\ content = <<>> /\ status = "open"

Give ==
    /\ status = "open"
    /\ given' \in Nat /\ given' > given
    /\ UNCHANGED <<content, status>>

Write ==
    /\ status = "open" /\ UNCHANGED <<given, status>>
    /\ Len(content') \in Len(content) + 1 .. given
    /\ content' = [k \in 1 .. Len(content') |-> k - 1]

Close ==
    /\ status = "open" /\ Len(content) = given
    /\ status' = "closed" /\ UNCHANGED <<given, content>>

\* An error may drop input that was given and not yet written.
Fail ==
    /\ status = "open" /\ status' = "failed"
    /\ given' \in Nat /\ given' <= given
    /\ UNCHANGED content

Failed == status = "failed" /\ status' = "failed"

Next == Give \/ Write \/ Close \/ Fail \/ Failed

Spec == Init /\ [][Next]_contract
=============================================================================
