------------------------ MODULE MCRequestLifecycle -------------------------
(* Values of RequestLifecycle's constants for TLC.                         *)
EXTENDS RequestLifecycle

CONSTANTS q1

OneRequest == {q1}

\* Up to two policies' headers at once.
AnyHeaders == {<<>>, <<"force_audit">>, <<"force_block">>,
               <<"force_audit", "force_block">>, <<"force_block", "force_audit">>}
AnyKind == [export : BOOLEAN, headers : AnyHeaders, stream : BOOLEAN,
            ask : Verdicts, reply : Verdicts]

=============================================================================
