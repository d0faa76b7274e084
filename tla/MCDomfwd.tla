------------------------------ MODULE MCDomfwd ------------------------------
(* DomfwdLive on a small instance: lines of different length, a buffer in  *)
(* which only some of them have room, and one connection.  The next one is *)
(* there when the forwarder has read the last one to its end.              *)
EXTENDS DomfwdLive

CONSTANTS c1

MCLength == [l \in 1..LastLine |-> IF l = 2 THEN 2 ELSE 1]
=============================================================================
