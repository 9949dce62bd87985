------------------------------ MODULE MCFraming ------------------------------
(* Two types of messages, of which one and a half fit into the buffer; one   *)
(* client sends two of them, another one.                                    *)
EXTENDS Framing, TLC

CONSTANTS short, long, c1, c2

Sizes == short :> 2 @@ long :> 3

Limits == c1 :> 2 @@ c2 :> 1
=============================================================================
