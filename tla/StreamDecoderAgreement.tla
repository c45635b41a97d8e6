------------------------ MODULE StreamDecoderAgreement ------------------------
(***************************************************************************)
(* The streaming decoder against the one-shot one: the only difference is  *)
(* to be the windowed output buffer (stream.rs).                           *)
(***************************************************************************)
EXTENDS StreamDecoder, Decompress

Verdict == [s \in Sources |-> decompress(s)]

Contract == INSTANCE DecoderContract
    WITH outcome <- IF refused THEN "refused"
                    ELSE IF result = "end" THEN "end" ELSE "open"

\* Whatever the blocks, the cuts of the input and the sizes asked for, the
\* decoder delivers what one-shot decompression returns, all of it before the
\* end, and refuses what that refuses.
ImplementsContract == Contract!Spec

\* "Invalid data" is only ever said of input that one-shot decompression rejects.
ErrorsAreDeserved ==
    [][result # "invalid data" /\ result' = "invalid data"
           => ~Verdict[source].ok]_<<result, source>>
=============================================================================
