--------------------------- MODULE MCFileInputLive ---------------------------
(* FileInputLive on a small instance. *)
EXTENDS FileInputLive

MCSettings ==
    {[maxLines |-> 2, maxText |-> 1, maxChanges |-> 1, startAtEnd |-> FALSE, incompleteLines |-> FALSE]}
=============================================================================
