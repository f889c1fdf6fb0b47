-------------------------- MODULE KernelRefinement --------------------------
(***************************************************************************)
(* The kernel implements its two abstract specifications: RoundRobin for   *)
(* the scheduler and Mailbox for message passing.  The mappings read the   *)
(* kernel's arrays back as the row of processes and the boxes they stand   *)
(* for, so every step that copies slots down or moves memory has to come   *)
(* out as the abstract step, or as no step at all.                         *)
(***************************************************************************)
EXTENDS KernelSafety, Sequences

\* All the pids the bounded clock can give.
PidRange == 0 .. MaxTick + ProcSlots

-----------------------------------------------------------------------------

\* processes[1 ..] is the row; KPROC does not stand in it.
RowOf == [i \in User |-> [id |-> processes[i].pid, waiting |-> processes[i].waiting]]

ModeOf ==
    IF halted # "no" THEN "halted"
    ELSE IF cpu.owner = KernelMain THEN "boot"
    ELSE IF cpu.owner = WaitStub THEN "idle"
    ELSE "user"

RR == INSTANCE RoundRobin WITH
        Ids <- PidRange, Capacity <- ProcSlots - 1,
        row <- RowOf, at <- schedulerProcessAt, mode <- ModeOf

\* The timer interrupt, SC_SPAWNPROC, SC_EXIT and SC_GETUINPUT schedule as the
\* row of RoundRobin does (README.md: "a simple scheduler with a FIFO queue
\* (with an exception being processes in a waiting state)").
SchedulesRoundRobin == RR!Spec

\* A timer that goes on gives the turns the row promises.
TurnsGoOn == RR!Fairness

-----------------------------------------------------------------------------

QueueOf(proc) ==
    [m \in 1 .. proc.IPCQueueSize |->
        <<proc.IPCQueue[m - 1].fromPID, proc.IPCQueue[m - 1].msg>>]

MailOf == [p \in Pids |-> QueueOf(processes[Index(p)])]
DeskOf == [p \in Pids |-> ram[processes[Index(p)].memStart + MsgOffset]]
RunningOf == IF cpu.owner < 0 THEN -1 ELSE cpu.owner

MB == INSTANCE Mailbox WITH
        Ids <- PidRange, Capacity <- QueueSize, Requests <- {}, Notices <- {},
        mail <- MailOf, desk <- DeskOf, running <- RunningOf

\* SC_MSG delivers each message once, whole, in order, to the process it was
\* sent to, with the true sender on it, although the queues live in slots that
\* exits copy down and spawns reuse, and the structures in memory that moves.
DeliversMail == MB!Spec

=============================================================================
