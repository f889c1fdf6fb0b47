-------------------------------- MODULE Shell -------------------------------
(***************************************************************************)
(* The shell (src/user/apps/shell.c) in the abstract scheduler: it waits   *)
(* for a line, spawns the program the line names, tries once more with the *)
(* directory of programs before the name, and then asks the kernel over    *)
(* and over whether its child is still running.                            *)
(***************************************************************************)
EXTENDS RoundRobin

CONSTANT ShellId    \* the shell: the program that INIT, first in the row, starts

ASSUME ShellAssumption == ShellId \in Ids

VARIABLES
    doing,  \* "idle": not started, or waiting for a line; "typed": it has one;
            \* "retry": it has put the directory before it; "polling"
    child   \* the process it started last, or itself

shellVars == <<doing, child>>
consoleVars == <<rrVars, shellVars>>

-----------------------------------------------------------------------------

\* getInput: the shell waits, and is woken with a line.
Prompt ==
    /\ Runs(ShellId)
    /\ doing = "idle"
    /\ Block
    /\ doing' = "typed"
    /\ UNCHANGED child

\* An empty line, cls, help, or a name too long for the directory before it.
Answer ==
    /\ Runs(ShellId)
    /\ doing = "typed"
    /\ doing' = "idle"
    /\ UNCHANGED <<rrVars, child>>

Start(id) ==
    /\ Runs(ShellId)
    /\ doing \in {"typed", "retry"}
    /\ Spawn(id)
    /\ doing' = "polling"
    /\ child' = id

\* spawnProcess returned SRET_ERROR.
StartFails ==
    /\ Runs(ShellId)
    /\ doing \in {"typed", "retry"}
    /\ doing' = IF doing = "typed" THEN "retry" ELSE "idle"
    /\ UNCHANGED <<rrVars, child>>

\* What if SC_ISPROCRUNNING answered for the running process.
AnyRunning(id) == at \in Positions

\* SC_ISPROCRUNNING: getProcessIndexFromPID finds it, whether it waits or not.
ProcRunning(id) == \E i \in Positions : row[i].id = id

\* The loop around processRunning ends.
Poll ==
    /\ Runs(ShellId)
    /\ doing = "polling"
    /\ ~ProcRunning(child)
    /\ doing' = "idle"
    /\ UNCHANGED <<rrVars, child>>

\* The others.  Pids are not given again, so nobody gets that of a child that is
\* polled; here names are, otherwise.
Others ==
    /\ \/ Tick
       \/ ~Runs(ShellId) /\ (Exit \/ Block \/ Halt)
       \/ \E id \in Ids \ (IF doing = "polling" THEN {child} ELSE {}) :
             (id = ShellId => at = 1) /\ ~Runs(ShellId) /\ Spawn(id)
       \/ \E i \in Positions : Wake(i)
    /\ UNCHANGED shellVars

ShellInit == Init /\ row[1].id # ShellId /\ doing = "idle" /\ child = ShellId

ShellNext ==
    \/ Others
    \/ Prompt
    \/ Answer
    \/ \E id \in Ids : Start(id)
    \/ StartFails
    \/ Poll

\* The timer never stops, and a program that is given the CPU again and again
\* goes on: a round of the loop is far shorter than a tick.
ShellSpec ==
    /\ ShellInit
    /\ [][ShellNext]_consoleVars
    /\ WF_consoleVars(Tick /\ UNCHANGED shellVars)
    /\ SF_consoleVars(Poll)

-----------------------------------------------------------------------------

Gone(id) == doing = "polling" /\ child = id /\ ~ProcRunning(id)

\* Once its child is gone the shell comes back to the prompt, although it only
\* finds out when it polls between preemptions, and however many other processes
\* come, exit and wait.
ShellReturns == \A id \in Ids : Gone(id) ~> (doing = "idle" \/ mode = "halted")

=============================================================================
