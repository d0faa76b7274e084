----------------------------- MODULE Operation -----------------------------
(***************************************************************************)
(* What the operation of the forwarder rests on, next to the way of the    *)
(* records: the health from which alerts are raised, the main loop and the *)
(* shutdown of the add-in in the Domino server, and the load test which    *)
(* says whether an installation loses events.  The three share no state,   *)
(* and one of them runs.                                                   *)
(***************************************************************************)
EXTENDS Health, AddIn, LoadTest

VARIABLE part

operationVars == <<part, healthVars, addInVars, testVars>>

Init ==
    /\ part \in {"health", "add-in", "load test"}
    /\ HealthInit /\ (part # "health" => program = CHOOSE p \in Programs : TRUE)
    /\ AddInInit /\ (part # "add-in" => verbose = FALSE /\ configured = FALSE)
    /\ LoadTestInit
    /\ (part # "load test" =>
            test = (CHOOSE t \in Tests : TRUE) /\ inFlight = {} /\ counts = NoCounts)

Next ==
    /\ UNCHANGED part
    /\ \/ part = "health" /\ HealthNext /\ UNCHANGED <<addInVars, testVars>>
       \/ part = "add-in" /\ AddInNext /\ UNCHANGED <<healthVars, testVars>>
       \/ part = "load test" /\ LoadTestNext /\ UNCHANGED <<healthVars, addInVars>>

Spec == Init /\ [][Next]_operationVars /\ AddInFairness
=============================================================================
