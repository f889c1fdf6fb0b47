---------------------------- MODULE KernelSafety ----------------------------
(***************************************************************************)
(* What the Foki kernel owes its processes, as invariants and action       *)
(* properties of the module Kernel.                                        *)
(***************************************************************************)
EXTENDS Kernel

\* Every variable keeps the type its declaration gives it, and the indexes
\* into memList[] and processes[] stay inside the arrays.
TypeOK ==
    /\ MemTypeOK
    /\ ProcTypeOK
    /\ KbdTypeOK
    /\ saveRegs \in BOOLEAN
    /\ cpu \in Context
    /\ ldtBase \in Int
    /\ halted \in {"no", "Out of memory", "Memory list overflow", "hang", "panic"}
    /\ faulted \in Int

-----------------------------------------------------------------------------

(***************************************************************************)
(* The process table and the memory table agree                            *)
(***************************************************************************)

\* The slots of processes[] that hold a process kill() and sendMessage can
\* find: all but KPROC's.
User == 1 .. processCount - 1

\* Entry i of processes[] owns entry i + 2 of memList[]. kill() closes the
\* two tables with separate loops that keep separate copies of the address
\* and the size; this is what makes freeMem's search by address hit the entry
\* of the process that dies and no other.
TablesAgree ==
    /\ memIndex = processCount + 2
    /\ \A i \in 0 .. processCount - 1 :
          /\ processes[i].memStart = memList[i + 2].startAddr
          /\ processes[i].memSize = memList[i + 2].size

\* The regions in memList[] follow each other without a gap, from the kernel's
\* at address 0, so that the end of the last one is all the memory in use.
\* freeMem compacts to keep it so and allocMem relies on it.
Packed ==
    /\ memList[0] = [startAddr |-> 0, size |-> 0]
    /\ memList[1] = [startAddr |-> 0, size |-> KernelSize]
    /\ \A k \in 2 .. memIndex - 1 :
          memList[k].startAddr = memList[k - 1].startAddr + memList[k - 1].size

\* No two processes share a byte, and none holds one of the kernel's, however
\* often exits have moved their regions (README.md: "Processes run in ring-3,
\* in a memory isolated environment").
RegionsDisjoint ==
    \A i, j \in 0 .. processCount - 1 :
        /\ processes[i].memStart >= KernelSize
        /\ i < j => processes[i].memStart + processes[i].memSize <= processes[j].memStart

\* Pids grow along the table, so no two processes share one: a pid is the tick
\* plus the number of processes, which an exit lowers, and only the timer
\* interrupt that ends the wait stub keeps the next pid from repeating.
PidsAscend ==
    \A i, j \in 0 .. processCount - 1 : i < j => processes[i].pid < processes[j].pid

-----------------------------------------------------------------------------

(***************************************************************************)
(* The task switch                                                         *)
(***************************************************************************)

\* While a program runs, schedulerProcessAt is its own slot, its segments
\* start at its own region as it lies now, and it is not waiting.  In the wait
\* stub the slot is somebody else's (or free), so the registers must not be
\* saved there.  System calls and exceptions take the slot as "the caller".
RunningIsCurrent ==
    /\ cpu.owner >= 0 =>
          /\ schedulerProcessAt \in User
          /\ cpu.owner = Current.pid
          /\ ldtBase = Current.memStart
          /\ ~Current.waiting
    /\ cpu.owner = WaitStub => ~saveRegs
    /\ cpu.owner < 0 => cpu.owner \in {KernelMain, WaitStub}
    /\ cpu.owner = KernelMain => schedulerProcessAt = 0

\* The context saved in a process's slot is that process's, never that of the
\* kernel, of the wait stub or of a neighbour.
ContextsOwned == \A i \in User : processes[i].regs.owner = processes[i].pid

\* getNextProcessDry always finds a process that does not wait: it would
\* otherwise spin for ever with interrupts off.
SchedulerNeverHangs == halted # "hang"

Pids == {processes[i].pid : i \in User}

\* The registers of process p, in the CPU or saved in its slot.
RegsOf(p) == IF cpu.owner = p THEN cpu ELSE processes[Index(p)].regs

\* The memory of process p, as p sees it.
MemOf(p) ==
    LET proc == processes[Index(p)]
    IN  [o \in 0 .. proc.memSize - 1 |-> ram[proc.memStart + o]]

ProgramComputes == \E val, ebp \in RegVals : UserCompute(val, ebp)

ProgramStores ==
    \/ \E offset \in Offsets : UserStore(offset)
    \/ \E i \in Addressees \cap (0 .. processCount - 1), body \in Bodies :
          SC_MSG_SEND(processes[i].pid, body)
    \/ SC_MSG_POP

\* No step but its own computing changes the registers a program finds when it
\* runs again: neither the switch away and back, nor the exits in between that
\* move its slot, nor its wait for input.
RegistersPreserved ==
    [][\A p \in Pids \cap Pids' :
          RegsOf(p).val # RegsOf(p)'.val => p = cpu.owner /\ ProgramComputes]_vars

\* The same for EBP, which functions compiled from C address their locals by.
FramePointerPreserved ==
    [][\A p \in Pids \cap Pids' :
          RegsOf(p).ebp # RegsOf(p)'.ebp => p = cpu.owner /\ ProgramComputes]_vars

\* No step changes what a process finds in its memory but its own stores and,
\* while its request is undisturbed, the keyboard's into the buffer of the last
\* reader: not the exit of another process, although it moves the bytes, nor a
\* spawn, nor a switch.
MemoryPreserved ==
    [][\A p \in Pids \cap Pids' :
          MemOf(p) # MemOf(p)' => \/ p = cpu.owner /\ ProgramStores
                                  \/ Keystroke /\ (p = reader \/ disturbed)]_vars

\* The same whatever exits and requests came before: what is typed reaches no
\* process but the last one to ask for input (README.md: "Processes run in
\* ring-3, in a memory isolated environment").
KeystrokesIsolated ==
    [][Keystroke => \A p \in Pids \ {reader} : MemOf(p) = MemOf(p)']_vars

-----------------------------------------------------------------------------

(***************************************************************************)
(* Input and exceptions                                                    *)
(***************************************************************************)

\* While a request that nothing has disturbed is outstanding, the keyboard
\* driver's globals still mean what the caller asked for: the slot to wake is
\* the reader's, the reader waits, and what has been typed and the NUL to come
\* lie in the reader's own region.
InputServed ==
    processWaitingForInput /\ ~disturbed =>
        /\ inputWaintingPID \in User
        /\ processes[inputWaintingPID].pid = reader
        /\ processes[inputWaintingPID].waiting
        /\ processBufferPos >= 0
        /\ LET proc == processes[inputWaintingPID]
           IN  /\ proc.memStart <= processBufferLoc
               /\ processBufferLoc + processBufferPos < proc.memStart + proc.memSize

\* A process that waits for input is the one Enter will wake, as long as no
\* request was ever disturbed.
NobodyForgotten ==
    ~everDisturbed =>
        \A i \in User : processes[i].waiting =>
                           processWaitingForInput /\ i = inputWaintingPID

\* An exception ends the program that raised it (herr.c kills it, "void
\* kill(int idx)" in process.h).
FaultKills == faulted \notin Pids

-----------------------------------------------------------------------------

(***************************************************************************)
(* The inductive invariant: the invariants above that hold together, and   *)
(* what they need                                                          *)
(***************************************************************************)

\* A region is never empty: a process has its stack.  So a start address is
\* in memList[] once, and freeMem's search finds the entry of its process.
SizesPositive == \A i \in 0 .. processCount - 1 : processes[i].memSize > 0

\* A pid is at least the tick the machine took to boot, hence no pid is an
\* index: the kill(schedulerProcessAt) of herr.c finds nobody.
PidsHigh ==
    /\ tick \in ProcSlots .. MaxTick
    /\ \A i \in 0 .. processCount - 1 : processes[i].pid >= ProcSlots

\* The next pid is above all in use.  After an exit, with one process less, it
\* may equal the highest, until the timer interrupt that ends the wait stub.
PidsPast ==
    tick < MaxTick =>
        \A i \in 0 .. processCount - 1 :
            \/ processes[i].pid < tick + processCount
            \/ cpu.owner = WaitStub /\ processes[i].pid = tick + processCount

\* INIT is always there to be run.
InitReady == processCount >= 2 /\ ~processes[1].waiting

IInv ==
    /\ TypeOK
    /\ TablesAgree
    /\ Packed
    /\ SizesPositive
    /\ RegionsDisjoint
    /\ PidsHigh
    /\ PidsAscend
    /\ PidsPast
    /\ RunningIsCurrent
    /\ ContextsOwned
    /\ InitReady
    /\ SchedulerNeverHangs

=============================================================================
