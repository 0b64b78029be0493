----------------------------- MODULE MCHttpConn -----------------------------
(***************************************************************************)
(* Instances of HttpConn: a buffer of six units for requests of four.      *)
(***************************************************************************)
EXTENDS HttpConn

CONSTANTS c1, c2

Msg(h, b, t, k, s) ==
  [hdr |-> h, body |-> b, term |-> t, keep |-> k, stream |-> s]

Get     == Msg(2, 0, 0, TRUE, FALSE)
Last    == Msg(1, 0, 0, FALSE, FALSE)
Post    == Msg(1, 2, 0, TRUE, FALSE)
Full    == Msg(2, 2, 0, TRUE, FALSE)  \* as long as req_raw
Chunks  == Msg(1, 2, 2, TRUE, FALSE)
Early   == Msg(1, 3, 1, TRUE, FALSE)  \* a chunk that looks like the last
Big     == Msg(1, 4, 0, TRUE, FALSE)  \* fits buf but not req_raw
Huge    == Msg(1, 6, 0, TRUE, FALSE)  \* does not fit buf
Export  == Msg(1, 0, 0, TRUE, TRUE)

AllMessages  == {Get, Last, Post, Full, Chunks, Early, Big, Huge, Export}
LengthMessages == {Get, Last, Post, Full}
=============================================================================
