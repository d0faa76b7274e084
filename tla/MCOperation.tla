---------------------------- MODULE MCOperation ----------------------------
(* Operation on a small instance. *)
EXTENDS Operation

CONSTANTS e1, e2

MCPrograms ==
    [name : {"otelfwd", "domfwd"}, walOpened : {TRUE}, walMax : {0, 5}]
        \cup {[name |-> "otelfwd", walOpened |-> FALSE, walMax |-> 0]}

MCTests ==
    {[mode |-> "failfor", requests |-> 2], [mode |-> "failover", requests |-> 1],
     [mode |-> "reject", requests |-> 1]}

\* It takes the place of an event in the tests with two requests, and is none of the others
MCEarlier == {[test |-> TRUE, place |-> 2, run |-> 0]}
=============================================================================
