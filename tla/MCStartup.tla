----------------------------- MODULE MCStartup -----------------------------
(***************************************************************************)
(* A small pair of propagation graphs for TLC.                              *)
(***************************************************************************)
EXTENDS Startup

(* Horizontally both nodes send to node 0, a ring of one with a second     *)
(* sender, so that receiver 0 waits for two propagators and receiver 1 for *)
(* none; vertically the chain 0 -> 1.                                      *)
FanInAndChain ==
    [p \in Pairs |-> IF p[2] = "h" THEN <<0, "h">>
                     ELSE IF p[1] = 0 THEN <<1, "v">> ELSE NoPair]
=============================================================================
