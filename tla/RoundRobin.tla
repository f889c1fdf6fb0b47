----------------------------- MODULE RoundRobin -----------------------------
(***************************************************************************)
(* What the scheduler promises, without registers, memory or pids that     *)
(* encode the time: processes stand in a row, the CPU goes round the row   *)
(* and stops at the next one that is not waiting, and the row closes up    *)
(* when the running process leaves it.                                     *)
(***************************************************************************)
EXTENDS Integers, Sequences

CONSTANTS
    Ids,        \* names of processes, reused once their process has left
    Capacity    \* processes the row has room for

ASSUME RoundRobinAssumption == Capacity \in Nat \ {0}

VARIABLES
    row,    \* the processes, each with its name and whether it waits
    at,     \* position the CPU was last given to (0: none yet)
    mode    \* "boot": nobody ran; "user": row[at] runs; "idle": the running
            \* process has left; "halted": nobody will run again

rrVars == <<row, at, mode>>

Positions == 1 .. Len(row)
ReadyIn(r) == {i \in 1 .. Len(r) : ~r[i].waiting}

\* The positions passed when the CPU goes from position at round to i.
Passed(r, i) == IF at < i THEN at + 1 .. i - 1
                ELSE (at + 1 .. Len(r)) \cup (1 .. i - 1)

\* What if the CPU went to the first one in the row that did not just have it.
FirstOther(r) ==
    CHOOSE i \in ReadyIn(r) :
        \/ ReadyIn(r) = {i}
        \/ i # at /\ \A j \in ReadyIn(r) \ {at} : i <= j

NextTurn(r) == CHOOSE i \in ReadyIn(r) : Passed(r, i) \cap ReadyIn(r) = {}

Init ==
    /\ \E id \in Ids : row = <<[id |-> id, waiting |-> FALSE]>>
    /\ at = 0
    /\ mode = "boot"

\* The timer gives the CPU to the next one.
Tick ==
    /\ mode # "halted"
    /\ at' = NextTurn(row)
    /\ mode' = "user"
    /\ UNCHANGED row

\* The running process starts another, which stands last.
Spawn(id) ==
    /\ mode = "user"
    /\ Len(row) < Capacity
    /\ \A i \in Positions : row[i].id # id
    /\ row' = Append(row, [id |-> id, waiting |-> FALSE])
    /\ UNCHANGED <<at, mode>>

\* The running process leaves; the first in the row never does.
Exit ==
    /\ mode = "user"
    /\ at # 1
    /\ row' = [i \in 1 .. Len(row) - 1 |-> IF i < at THEN row[i] ELSE row[i + 1]]
    /\ mode' = "idle"
    /\ UNCHANGED at

\* The running process waits, and gives the CPU away.
Block ==
    /\ mode = "user"
    /\ at # 1
    /\ row' = [row EXCEPT ![at].waiting = TRUE]
    /\ at' = NextTurn(row')
    /\ UNCHANGED mode

Wake(i) ==
    /\ mode # "halted"
    /\ row[i].waiting
    /\ row' = [row EXCEPT ![i].waiting = FALSE]
    /\ UNCHANGED <<at, mode>>

Halt ==
    /\ mode = "user"
    /\ mode' = "halted"
    /\ UNCHANGED <<row, at>>

Next ==
    \/ Tick
    \/ \E id \in Ids : Spawn(id)
    \/ Exit
    \/ Block
    \/ \E i \in Positions : Wake(i)
    \/ Halt

Spec == Init /\ [][Next]_rrVars

\* The timer never stops.
Fairness == WF_rrVars(Tick)
FairSpec == Spec /\ Fairness

-----------------------------------------------------------------------------

IsReady(id) == \E i \in Positions : row[i].id = id /\ ~row[i].waiting
Runs(id) == mode = "user" /\ at \in Positions /\ row[at].id = id

\* A process that stays ready runs again and again, whatever the others do:
\* an exit makes the CPU skip the process that moves into the free place, and
\* processes may come and exit for ever, but each skip brings the one skipped
\* nearer to the head of the row, where nobody leaves.
NoStarvation == \A id \in Ids : []<>(Runs(id) \/ ~IsReady(id) \/ mode = "halted")

=============================================================================
