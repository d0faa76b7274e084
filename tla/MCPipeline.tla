----------------------------- MODULE MCPipeline -----------------------------
(* Pipeline on small instances.  The first line of client 1 is longer than *)
(* the limit, client 2 only takes a place, and client 3 writes one line.   *)
EXTENDS Pipeline

MCLength == [l \in Lines |-> IF l = 1 THEN 3 ELSE 1]
MCStream == [c \in Clients |-> IF c = 1 THEN Whole(1) \o Whole(2) ELSE IF c = 2 THEN << >> ELSE Whole(3)]
MCScenarios == {
    [clients |-> {1, 2}, noStdin |-> TRUE, stdin |-> {}],
    [clients |-> {1}, noStdin |-> FALSE, stdin |-> {4}],
    [clients |-> {3}, noStdin |-> FALSE, stdin |-> {4, 5}]}
=============================================================================
