----------------------------- MODULE MCTransfers -----------------------------
EXTENDS Transfers

Listed2 == [d \in {"r", "s"} |-> IF d = "r" THEN <<Skip, "s">> ELSE <<"a">>]
Selected == {<<"r">>, <<"a", "a">>, <<"s", "r">>}

(* States that differ by a rotation of all sequence numbers have the same    *)
(* futures, and the number of a burst that has ended is read by nobody.      *)
Past(x) == IF x.opcode = "none" THEN x ELSE [x EXCEPT !.seq = Forward(ftp.seq, @)]
Rotated ==
    <<bridgeVars, page, sent, said, transferVars, logVars, [ftp EXCEPT !.seq = 0], Past(ask),
      [server EXCEPT !.last = Past(@),
                     !.bseq = IF server.stream = NoStream THEN 0 ELSE Forward(ftp.seq, @)],
      [i \in DOMAIN air |-> Past(air[i])]>>
=============================================================================
