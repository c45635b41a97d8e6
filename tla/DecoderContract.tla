--------------------------- MODULE DecoderContract ---------------------------
(***************************************************************************)
(* What an incremental decoder promises: of a source that one-shot         *)
(* decompression accepts it hands out the output, piece by piece and in    *)
(* order, and reports the end exactly when all of it has been handed out.  *)
(* A source that is not accepted ends in an error, never as complete; what *)
(* a caller gets who goes on after that error is not promised.             *)
(***************************************************************************)
EXTENDS SequencesExt

CONSTANT Verdict    \* source -> [ok, out] of one-shot decompression

VARIABLES source, delivered, outcome

contract == <<source, delivered, outcome>>

Init == delivered = <<>> /\ outcome = "open"

Deliver ==
    /\ outcome = "open" /\ UNCHANGED <<source, outcome>>
    /\ IsStrictPrefix(delivered, delivered')
    /\ Verdict[source].ok => IsPrefix(delivered', Verdict[source].out)

End ==
    /\ outcome = "open" /\ outcome' = "end" /\ UNCHANGED <<source, delivered>>
    /\ Verdict[source].ok /\ delivered = Verdict[source].out

Refuse ==
    /\ outcome = "open" /\ outcome' = "refused" /\ UNCHANGED <<source, delivered>>
    /\ ~Verdict[source].ok

AfterRefusal == outcome = "refused" /\ UNCHANGED <<source, outcome>>

Next == Deliver \/ End \/ Refuse \/ AfterRefusal

Spec == Init /\ [][Next]_contract
=============================================================================
