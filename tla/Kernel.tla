------------------------------- MODULE Kernel -------------------------------
(***************************************************************************)
(* The Foki kernel as its processes see it: the timer interrupt that       *)
(* switches tasks (src/foki/pit.c), the system calls that change kernel    *)
(* state (sysCall in src/foki/idt.c), the CPU exceptions (intHerr in       *)
(* src/foki/herr.c) and the keyboard interrupt, over the process table and *)
(* the memory manager, from the state kmain leaves behind.                 *)
(*                                                                         *)
(* System calls and interrupt handlers run with interrupts off, so each is *)
(* one action.  Between two of them the CPU executes a program in ring 3   *)
(* and an interrupt may come at any point.                                 *)
(***************************************************************************)
EXTENDS Keyboard

CONSTANTS
    BootTicks,  \* ticks at which kmain may spawn KPROC, spawn INIT and end
    MaxTick,    \* bound: the clock stops here, and no process is spawned at it
    Offsets,    \* offsets at which programs store to their own memory
    MsgOffset,  \* where programs keep their procMsg structure
    Addressees, \* bound: slots of the processes that messages are sent to
    Buffers,    \* <<offset, size>> of the input buffers programs pass
    Exceptions  \* CPU exceptions that programs raise

ASSUME KernelAssumption ==
    /\ MaxTick \in Nat
    /\ BootTicks \subseteq 0 .. MaxTick
    /\ \A t \in BootTicks : t >= ProcSlots      \* booting takes 256 ms at least
    /\ Offsets \subseteq Nat
    /\ MsgOffset \in Nat
    /\ Addressees \subseteq Nat
    /\ Buffers \subseteq Nat \X Nat

VARIABLES
    saveRegs,   \* bool saveRegs (pit.c): the next PITISR saves the registers
    cpu,        \* the registers in the CPU while no handler runs
    ldtBase,    \* base of the code and data segments in the LDT
    halted,     \* "no", the message of the herr() that halted, "panic" (intHerr)
                \* or "hang"
    faulted     \* history: pid of the last process that raised an exception

cpuVars == <<saveRegs, cpu, ldtBase>>
vars == <<memVars, tableVars, tick, kbdVars, readVars, cpuVars, halted, faulted>>

-----------------------------------------------------------------------------

\* What the CPU may execute when it is not in a process.
KernelMain == -1        \* the hlt loop at the end of kmain
WaitStub == -2          \* the ring-3 loop SC_EXIT returns to

\* Base address of the wait stub's segments: the kernel's own code.
WaitBase == 0

Running == halted = "no"
UserRuns == Running /\ cpu.owner >= 0
Current == processes[schedulerProcessAt]

\* What if INIT ended, or read a line, like any other program.
AnyProgram == schedulerProcessAt # 0

\* INIT (slot 1) spawns the shell and then loops for ever: it neither exits nor
\* waits for input, passes no messages and does not fault
\* (user/system/init.asm).  That it may spawn more than once is the model's.
NotInit == schedulerProcessAt # 1

\* A timer interrupt counted; the clock is a uint32_t, bounded here.
Ticked == IF tick < MaxTick THEN tick + 1 ELSE tick

-----------------------------------------------------------------------------

(***************************************************************************)
(* The task switch                                                         *)
(***************************************************************************)

\* What if only the program counter were saved.
SavedPC(proc) == [proc EXCEPT !.regs.owner = cpu.owner]

\* What PITISR stores into the outgoing process: everything but ebp.
Saved(proc) == [proc EXCEPT !.regs.owner = cpu.owner, !.regs.val = cpu.val]

\* What if the registers were saved even after an exit.
SavedAlways(procs) == [procs EXCEPT ![schedulerProcessAt] = Saved(@)]

\* The table once the outgoing process is saved, unless it has just exited.
AfterSave(procs) ==
    IF saveRegs THEN [procs EXCEPT ![schedulerProcessAt] = Saved(@)] ELSE procs

SwitchFrom(procs) ==
    IF Ready(procs) = {}
    THEN /\ halted' = "hang"        \* getNextProcessDry spins, interrupts off
         /\ processes' = procs
         /\ UNCHANGED <<schedulerProcessAt, tick, cpuVars>>
    ELSE /\ processes' = AfterSave(procs)
         /\ schedulerProcessAt' = NextProcess(procs)
         /\ saveRegs' = TRUE
         /\ cpu' = processes'[NextProcess(procs)].regs
         /\ ldtBase' = processes'[NextProcess(procs)].memStart
         /\ tick' = Ticked
         /\ UNCHANGED halted

PITISR ==
    /\ Running
    /\ SwitchFrom(processes)
    /\ UNCHANGED <<memVars, processCount, kbdVars, readVars, faulted>>

-----------------------------------------------------------------------------

(***************************************************************************)
(* System calls                                                            *)
(***************************************************************************)

\* SC_SPAWNPROC of a file that exists (a missing or refused one changes
\* nothing).  The bounds: room in processes[], which the code does not check,
\* and a clock that still runs.
SC_SPAWNPROC(fileSize) ==
    /\ UserRuns
    /\ processCount < ProcSlots
    /\ tick < MaxTick
    /\ IF AllocFault(fileSize + StackSize) # "no"
       THEN /\ halted' = AllocFault(fileSize + StackSize)
            /\ UNCHANGED <<memVars, processes, processCount>>
       ELSE /\ SpawnProcess(fileSize)
            /\ UNCHANGED halted
    /\ UNCHANGED <<schedulerProcessAt, tick, kbdVars, readVars, cpuVars, faulted>>

\* History: removing slot idx moves a waiting reader that sits above it.
DisturbedBy(idx) ==
    LET moved == processWaitingForInput /\ 0 < idx /\ idx < Index(reader)
    IN  /\ disturbed' = (disturbed \/ moved)
        /\ everDisturbed' = (everDisturbed \/ moved)
        /\ UNCHANGED reader

\* SC_EXIT: the process is gone and the CPU loops in the wait stub, whose
\* registers the next PITISR must not save.
SC_EXIT ==
    /\ UserRuns
    /\ NotInit
    /\ Kill(Current.pid)
    /\ saveRegs' = FALSE
    /\ cpu' = [owner |-> WaitStub, val |-> 0, ebp |-> 0]
    /\ ldtBase' = WaitBase
    /\ DisturbedBy(Index(Current.pid))
    /\ UNCHANGED <<schedulerProcessAt, tick, kbdVars, halted, faulted>>

\* SC_GETUINPUT: the request is recorded, the caller waits, and the handler
\* jumps into PITISR, so that the call ends in the next process.
SC_GETUINPUT(offset, size) ==
    /\ UserRuns
    /\ NotInit
    /\ offset + size <= Current.memSize     \* callers pass a buffer they own
    /\ RequestLine(offset, size)
    /\ SwitchFrom([processes EXCEPT ![schedulerProcessAt].waiting = TRUE])
    /\ UNCHANGED <<memVars, processCount, faulted>>

\* SC_MSG with EBX = 0.  The procMsg structure, in the caller's memory, gets
\* the sender's pid before it is copied into the queue.
SC_MSG_SEND(pid, body) ==
    /\ UserRuns
    /\ NotInit
    /\ MsgOffset < Current.memSize
    /\ CanSend(pid)
    /\ SendMessageToProcess(pid, body)
    /\ ram' = Stored(Current.memStart + MsgOffset, <<Stamped(body).fromPID, body>>)
    /\ UNCHANGED <<memList, memIndex, processCount, schedulerProcessAt, tick,
                   kbdVars, readVars, cpuVars, halted, faulted>>

\* SC_MSG with EBX = 1: the oldest message is copied out to the caller.
SC_MSG_POP ==
    /\ UserRuns
    /\ NotInit
    /\ MsgOffset < Current.memSize
    /\ Current.IPCQueueSize > 0
    /\ processes' = [processes EXCEPT ![schedulerProcessAt] = Popped(@)]
    /\ ram' = Stored(Current.memStart + MsgOffset,
                     <<Current.IPCQueue[0].fromPID, Current.IPCQueue[0].msg>>)
    /\ UNCHANGED <<memList, memIndex, processCount, schedulerProcessAt, tick,
                   kbdVars, readVars, cpuVars, halted, faulted>>

-----------------------------------------------------------------------------

(***************************************************************************)
(* Exceptions, the keyboard, and the programs themselves                   *)
(***************************************************************************)

\* Vectors for which the CPU pushes an error code.  The handlers are compiled
\* for a frame without one and read it shifted by a word.
ErrorCodeVectors == {8, 10, 11, 12, 13, 14, 17}

\* Vectors whose handler only writes a line (debugErr, breakErr).
TraceVectors == {1, 3}

\* intHerr on an exception raised in ring 3.  With a shifted frame the test for
\* the ring-3 code segment compares EIP with 7: the exception passes for one of
\* the kernel's own and the machine is halted.  Otherwise kill() takes a pid and
\* is given the index, and the handler returns to the instruction that faulted.
RaiseException(vector) ==
    /\ UserRuns
    /\ NotInit
    /\ vector \notin TraceVectors
    /\ IF vector \in ErrorCodeVectors
       THEN /\ halted' = "panic"
            /\ UNCHANGED <<memVars, processes, processCount, readVars, faulted>>
       ELSE /\ Kill(schedulerProcessAt)
            /\ faulted' = cpu.owner
            /\ DisturbedBy(Index(schedulerProcessAt))
            /\ UNCHANGED halted
    /\ UNCHANGED <<schedulerProcessAt, tick, kbdVars, cpuVars>>

Keystroke ==
    /\ Running
    /\ PS2KBDISR
    /\ UNCHANGED <<memList, memIndex, processCount, schedulerProcessAt, tick,
                   readVars, cpuVars, halted, faulted>>

\* A program computes: registers take any value.
UserCompute(val, ebp) ==
    /\ UserRuns
    /\ cpu' = [cpu EXCEPT !.val = val, !.ebp = ebp]
    /\ UNCHANGED <<memVars, tableVars, tick, kbdVars, readVars, saveRegs, ldtBase,
                   halted, faulted>>

\* A program stores a byte through its data segment.
UserStore(offset) ==
    /\ UserRuns
    /\ offset < Current.memSize
    /\ ram' = Stored(ldtBase + offset, <<cpu.owner, -1>>)
    /\ UNCHANGED <<memList, memIndex, tableVars, tick, kbdVars, readVars, cpuVars,
                   halted, faulted>>

-----------------------------------------------------------------------------

(***************************************************************************)
(* The system                                                              *)
(***************************************************************************)

\* One process as the boot's spawnProcess makes it, in a blank slot.
Booted(fileSize, start, pid) == NewEntry(BlankEntry, fileSize, start, pid)

\* kmain has spawned KPROC at tick t0 and INIT at tick t1 and has just allowed
\* preemption, at tick t2.  Neither allocation halted.
BootState(size0, size1, t0, t1, t2) ==
    LET proc0 == Booted(size0, KernelSize, t0)
        start1 == KernelSize + proc0.memSize
        proc1 == Booted(size1, start1, t1 + 1)
    IN  /\ KernelSize <= SystemMemory
        /\ size0 + StackSize <= SystemMemory
        /\ KernelSize + size1 + StackSize <= SystemMemory
        /\ memList = [BootList EXCEPT
                         ![2] = [startAddr |-> KernelSize, size |-> proc0.memSize],
                         ![3] = [startAddr |-> start1, size |-> proc1.memSize]]
        /\ ram = [a \in Addr |->
                     IF a \in KernelSize .. KernelSize + size0 - 1
                     THEN <<proc0.pid, a - KernelSize>>
                     ELSE IF a \in start1 .. start1 + size1 - 1
                     THEN <<proc1.pid, a - start1>>
                     ELSE Void]
        /\ processes = [i \in Slots |-> IF i = 0 THEN proc0
                                        ELSE IF i = 1 THEN proc1 ELSE BlankEntry]
        /\ tick = t2

Init ==
    /\ \E size0, size1 \in ImageSizes, t0, t1, t2 \in BootTicks :
          t0 <= t1 /\ t1 <= t2 /\ BootState(size0, size1, t0, t1, t2)
    /\ memIndex = 4
    /\ processCount = 2
    /\ schedulerProcessAt = 0
    /\ KbdInit
    /\ saveRegs = TRUE
    /\ cpu = [owner |-> KernelMain, val |-> 0, ebp |-> 0]
    /\ ldtBase = 0
    /\ halted = "no"
    /\ faulted = -1

SystemCall ==
    \/ \E fileSize \in ImageSizes : SC_SPAWNPROC(fileSize)
    \/ SC_EXIT
    \/ \E b \in Buffers : SC_GETUINPUT(b[1], b[2])
    \/ \E i \in Addressees \cap (0 .. processCount - 1), body \in Bodies :
          SC_MSG_SEND(processes[i].pid, body)
    \/ SC_MSG_POP

Program ==
    \/ \E val, ebp \in RegVals : UserCompute(val, ebp)
    \/ \E offset \in Offsets : UserStore(offset)

Next ==
    \/ PITISR
    \/ SystemCall
    \/ \E vector \in Exceptions : RaiseException(vector)
    \/ Keystroke
    \/ Program

Spec == Init /\ [][Next]_vars

\* The timer never stops while the machine runs.
FairSpec == Spec /\ WF_vars(PITISR)

=============================================================================
