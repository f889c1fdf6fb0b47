------------------------------- MODULE Process ------------------------------
(***************************************************************************)
(* The process table of the Foki kernel (src/foki/process.c): creating a   *)
(* process, looking one up, choosing the next one to run, killing one, and *)
(* the message queue each one carries.                                     *)
(*                                                                         *)
(* processes is a C array of which the first processCount slots are live.  *)
(* kill() closes the gap by copying every later slot down, so an INDEX     *)
(* names a process only until a process below it exits, while a PID names  *)
(* it for good.  Slot 0 is KPROC, which is never scheduled nor found by    *)
(* its pid; slot 1 is INIT.                                                *)
(***************************************************************************)
EXTENDS Memory

CONSTANTS
    ProcSlots,      \* length of processes[] (256)
    StackSize,      \* stack given on top of the program file (4096 * 4 + 1)
    QueueSize,      \* PROCESS_MSG_QUEUE_SIZE (16)
    ImageSizes,     \* sizes of the program files there are
    Bodies,         \* contents of messages
    RegVals         \* values programs put in their registers

ASSUME ProcessAssumption ==
    /\ ProcSlots \in Nat
    /\ ProcSlots >= 2
    /\ StackSize \in Nat \ {0}
    /\ QueueSize \in Nat \ {0}
    /\ ImageSizes \subseteq Nat
    /\ Bodies \subseteq Int
    /\ RegVals \subseteq Int

VARIABLES
    processes,          \* process processes[256]
    processCount,       \* int processCount
    schedulerProcessAt, \* int schedulerProcessAt: index of the running process
    tick                \* uint32_t tick (pit.c): timer interrupts since boot

tableVars == <<processes, processCount, schedulerProcessAt>>

-----------------------------------------------------------------------------

Slots == 0 .. ProcSlots - 1
MsgSlots == 0 .. QueueSize - 1

\* A saved context: whose program counter and stack pointer it holds, the
\* registers PITISR saves (eax .. edi, esp, flags), and ebp.
Context == [owner : Int, val : Int, ebp : Int]
Message == [fromPID : Int, msg : Int]

ProcessEntry ==
    [pid : Int, waiting : BOOLEAN, memStart : Int, memSize : Int, regs : Context,
     IPCQueue : [MsgSlots -> Message], IPCQueueSize : 0 .. QueueSize]

\* A slot of the array as the loader leaves it: all zeros.
BlankEntry ==
    [pid |-> 0, waiting |-> FALSE, memStart |-> 0, memSize |-> 0,
     regs |-> [owner |-> 0, val |-> 0, ebp |-> 0],
     IPCQueue |-> [m \in MsgSlots |-> [fromPID |-> 0, msg |-> 0]], IPCQueueSize |-> 0]

\* What if the messages of the slot's last user were left in the queue.
NewEntryWithMail(slot, fileSize, start, pid) ==
    [slot EXCEPT
        !.pid = pid,
        !.waiting = FALSE,
        !.memStart = start,
        !.memSize = fileSize + StackSize,
        !.regs = [owner |-> pid, val |-> 0, ebp |-> fileSize + StackSize - 1]]

\* createProcessEntry: the slot is reused, so what it does not assign (the
\* bytes of IPCQueue) is what the slot's last user left there.
NewEntry(slot, fileSize, start, pid) ==
    [slot EXCEPT
        !.pid = pid,
        !.waiting = FALSE,
        !.memStart = start,
        !.memSize = fileSize + StackSize,
        !.regs = [owner |-> pid, val |-> 0, ebp |-> fileSize + StackSize - 1],
        !.IPCQueueSize = 0]

\* The program file copied to the new region; the stack keeps old bytes.
Loaded(mem, start, fileSize, pid) ==
    [a \in Addr |-> IF a \in start .. start + fileSize - 1 THEN <<pid, a - start>>
                    ELSE mem[a]]

\* What if a pid were the time alone, or the number of processes.
NewPidTickOnly == tick
NewPidSlot == processCount

\* The pid of the process created now; a uint32_t, far from wrapping within
\* the bounded clock.
NewPid == tick + processCount

\* spawnProcess once the file was found and its signature accepted, and
\* allocMem did not halt the machine.
SpawnProcess(fileSize) ==
    /\ AllocMem(fileSize + StackSize)
    /\ processes' = [processes EXCEPT ![processCount] =
                        NewEntry(@, fileSize, AllocAddr, NewPid)]
    /\ processCount' = processCount + 1
    /\ ram' = Loaded(ram, AllocAddr, fileSize, NewPid)

-----------------------------------------------------------------------------

\* getProcessIndexFromPID: the search starts at slot 1.
IndexesOf(pid) == {i \in 1 .. processCount - 1 : processes[i].pid = pid}
Index(pid) == IF IndexesOf(pid) = {} THEN -1 ELSE Least(IndexesOf(pid))

\* What if kill() copied the slots down and forgot that freeMem moved them.
ClosedUnlowered(idx) ==
    [k \in Slots |-> IF idx <= k /\ k < processCount - 1 THEN processes[k + 1]
                     ELSE processes[k]]

\* What if the last process were moved into the free slot.
ClosedByLast(idx) == [processes EXCEPT ![idx] = processes[processCount - 1]]

\* What kill() leaves in the table when it removes slot idx: every later
\* process moves down a slot, and its memory down by the size freed.
Closed(idx) ==
    LET last == processCount - 1
        lowered(k) == [processes[k] EXCEPT !.memStart = @ - processes[idx].memSize]
    IN  [k \in Slots |->
            IF idx <= k /\ k < last THEN lowered(k + 1)
            ELSE IF k = last /\ idx < last THEN lowered(k)   \* the slot left behind
            ELSE processes[k]]

Kill(pid) ==
    IF Index(pid) = -1
    THEN UNCHANGED <<memVars, processes, processCount>>
    ELSE /\ FreeMem(processes[Index(pid)].memStart)
         /\ processes' = Closed(Index(pid))
         /\ processCount' = processCount - 1

-----------------------------------------------------------------------------

\* getNextProcessDry on the table procs: the first process after the running
\* one, round the table and past KPROC, that is not waiting.  The do-while
\* loop never ends when there is none (Ready = {}).
Ready(procs) == {i \in 1 .. processCount - 1 : ~procs[i].waiting}

\* What if the waiting flag were not looked at, or the search began at INIT.
NextInRow(procs) ==
    IF schedulerProcessAt + 1 < processCount THEN schedulerProcessAt + 1 ELSE 1
NextFromStart(procs) == Least(Ready(procs))

NextProcess(procs) ==
    LET after == {i \in Ready(procs) : i > schedulerProcessAt}
    IN  IF after # {} THEN Least(after) ELSE Least(Ready(procs))

-----------------------------------------------------------------------------

\* sendMessageToProcess: fails (FALSE) on an unknown pid and on a full queue.
CanSend(pid) ==
    /\ Index(pid) # -1
    /\ processes[Index(pid)].IPCQueueSize < QueueSize

\* The sender recorded is the running process, whatever the caller had put.
Stamped(body) == [fromPID |-> processes[schedulerProcessAt].pid, msg |-> body]

SendMessageToProcess(pid, body) ==
    processes' = [processes EXCEPT
                     ![Index(pid)].IPCQueue[processes[Index(pid)].IPCQueueSize] = Stamped(body),
                     ![Index(pid)].IPCQueueSize = @ + 1]

\* What if the pop left the messages where they are.
PoppedUnshifted(proc) == [proc EXCEPT !.IPCQueueSize = @ - 1]

\* The pop of SC_MSG (idt.c): slot 0 goes out, the rest shift down.
Popped(proc) ==
    [proc EXCEPT
        !.IPCQueue = [m \in MsgSlots |-> IF m < proc.IPCQueueSize - 1
                                         THEN proc.IPCQueue[m + 1]
                                         ELSE proc.IPCQueue[m]],
        !.IPCQueueSize = @ - 1]

-----------------------------------------------------------------------------

ProcTypeOK ==
    /\ processes \in [Slots -> ProcessEntry]
    /\ processCount \in 0 .. ProcSlots
    /\ schedulerProcessAt \in Slots
    /\ tick \in Nat

=============================================================================
