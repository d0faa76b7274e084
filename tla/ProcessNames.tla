---------------------------- MODULE ProcessNames ----------------------------
(***************************************************************************)
(* The names of the processes of a Domino server.  The server keeps them   *)
(* in the file pid.nbf, which the push thread reads again when it meets a  *)
(* process it does not know.  It opens the file, asks whether the file     *)
(* has changed, and reads it: the server may write between these steps.    *)
(***************************************************************************)
EXTENDS Naturals, Sequences, FiniteSets

CONSTANTS
    Pids, Tasks,        \* the ids and the names of processes
    MaxStarts,          \* bounds: the processes with their tasks, and the changes of the file
    MaxChanges

ASSUME NamesAssumption == Pids \subseteq Nat /\ "" \notin Tasks /\ {MaxStarts, MaxChanges} \subseteq Nat

VARIABLES
    running,            \* the task of every process which runs, "" if there is none
    had,                \* history: the tasks a process id ever had
    files,              \* the contents of the files which were called pid.nbf, the last one is
    change,             \* counts the changes: what stat tells about the file
    writing,            \* the server has emptied the file and not yet written it
    pidMap,             \* the names the push thread knows
    seen,               \* what stat told about the file when it was last read: g_PidNbfStat
    reload,             \* the reload which is going on
    missed              \* history: the file was replaced between the open and the stat

nameVars == <<running, had, files, change, writing, pidMap, seen, reload, missed>>

NoNames == [p \in Pids |-> ""]
NoReload == [step |-> "none", handle |-> 0]

NamesInit ==
    /\ running = NoNames /\ had = {}
    /\ files = << >> /\ change = 0 /\ writing = FALSE
    /\ pidMap = NoNames /\ seen = <<0, 0>> /\ reload = NoReload /\ missed = FALSE

(***************************************************************************)
(* The server: processes start and end, their ids are used again, and the  *)
(* file is replaced by a new one or emptied and written.                   *)
(***************************************************************************)
StartProcess(p, t) ==
    /\ running[p] # t
    /\ running' = [running EXCEPT ![p] = t]
    /\ had' = had \cup {<<p, t>>} /\ Cardinality(had') <= MaxStarts
    /\ UNCHANGED <<files, change, writing, pidMap, seen, reload, missed>>

ReplaceFile ==
    /\ change < MaxChanges /\ ~writing
    /\ files' = Append(files, running) /\ change' = change + 1
    /\ UNCHANGED <<running, had, writing, pidMap, seen, reload, missed>>

EmptyFile ==
    /\ change < MaxChanges /\ ~writing /\ files # << >>
    /\ files' = [files EXCEPT ![Len(files)] = NoNames] /\ change' = change + 1 /\ writing' = TRUE
    /\ UNCHANGED <<running, had, pidMap, seen, reload, missed>>

WriteFile ==
    /\ writing
    /\ files' = [files EXCEPT ![Len(files)] = running] /\ change' = change + 1 /\ writing' = FALSE
    /\ UNCHANGED <<running, had, pidMap, seen, reload, missed>>

(***************************************************************************)
(* The push thread: GetProcessName.                                        *)
(***************************************************************************)
GetProcessNameFromMap(map, p) == IF p \in Pids THEN map[p] ELSE ""

OpenPidFile ==
    /\ reload.step = "none"
    /\ reload' = [step |-> "opened", handle |-> Len(files)]
    /\ UNCHANGED <<running, had, files, change, writing, pidMap, seen, missed>>

Stat == <<Len(files), change>>

\* MUTANT of HasFileChanged: only looks for another file
HasInodeChanged == files # << >> /\ seen[1] # Len(files)

HasFileChanged == files # << >> /\ seen # Stat

\* What stat tells is kept also if the file was not there when it was opened
StatPidFile ==
    /\ reload.step = "opened"
    /\ seen' = IF files # << >> THEN Stat ELSE seen
    /\ reload' = [reload EXCEPT !.step = IF HasFileChanged /\ reload.handle # 0 THEN "changed" ELSE "done"]
    /\ missed' = (missed \/ (HasFileChanged /\ reload.handle # Len(files)))
    /\ UNCHANGED <<running, had, files, change, writing, pidMap>>

\* Names which are in the file are added, the others stay
ReadPidFile ==
    /\ reload.step = "changed"
    /\ pidMap' = [p \in Pids |-> IF files[reload.handle][p] # "" THEN files[reload.handle][p] ELSE pidMap[p]]
    /\ reload' = [reload EXCEPT !.step = "done"]
    /\ UNCHANGED <<running, had, files, change, writing, seen, missed>>

\* The name of the record: known, or looked for
TakeName(p) ==
    /\ reload.step = "done" \/ (reload.step = "none" /\ GetProcessNameFromMap(pidMap, p) # "")
    /\ reload' = NoReload
    /\ UNCHANGED <<running, had, files, change, writing, pidMap, seen, missed>>

-----------------------------------------------------------------------------
AreHad(map) == \A p \in Pids : map[p] # "" => <<p, map[p]>> \in had
Knows(map, file) == \A p \in Pids : file[p] # "" => map[p] = file[p]

\* A name which is known is one which the process had, and between two looks at the file all of
\* its names are known, unless it changed after the last look, or was replaced during one
\* (otelfwd.cpp:664 LoadPidMap, 754 GetProcessName).
NamesAreKnown ==
    /\ AreHad(pidMap)
    /\ files # << >> /\ ~missed /\ seen = Stat /\ reload = NoReload => Knows(pidMap, files[Len(files)])
=============================================================================
