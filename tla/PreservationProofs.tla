-------------------------- MODULE PreservationProofs --------------------------
(***************************************************************************)
(* Proofs about what a step may never do to a process that is not taking   *)
(* it, for every size of the tables, of the memory and of the programs:    *)
(* the registers and the memory a process finds when it runs again are     *)
(* those it left, although switches copy the registers in and out of its   *)
(* slot, and exits copy its slot and its memory down.                      *)
(***************************************************************************)
EXTENDS KernelProofs

-----------------------------------------------------------------------------

(***************************************************************************)
(* Where a process is after a step                                         *)
(***************************************************************************)

\* A pid is found in the slot that holds it, before a step and after it.
LEMMA IndexOfPid == IInv => \A i \in User : \A p : processes[i].pid = p => Index(p) = i
BY OwnIndex

LEMMA IndexOfPidNext ==
    IInv' => (\A i \in User : \A p : processes[i].pid = p => Index(p) = i)'
BY IndexOfPid, PTL

\* Every process keeps its slot and its region.
KeepsPlaces ==
    \A i \in User : /\ i \in User'
                    /\ processes'[i].pid = processes[i].pid
                    /\ processes'[i].memStart = processes[i].memStart
                    /\ processes'[i].memSize = processes[i].memSize

LEMMA SlotsKeepPlaces ==
    ASSUME IInv, processCount' = processCount,
           \A i \in Slots : /\ processes'[i].pid = processes[i].pid
                            /\ processes'[i].memStart = processes[i].memStart
                            /\ processes'[i].memSize = processes[i].memSize
    PROVE  KeepsPlaces
<1>1. \A i \in User : i \in Slots
  BY Types DEF IInv
<1>2. User' = User
  BY DEF User
<1> QED BY <1>1, <1>2 DEF KeepsPlaces

\* What SC_GETUINPUT passes to the switch: the table with the caller waiting.
LEMMA RequestTable ==
    ASSUME IInv, NEW offset, NEW size, SC_GETUINPUT(offset, size)
    PROVE  LET procs == [processes EXCEPT ![schedulerProcessAt].waiting = TRUE]
           IN  /\ procs \in [Slots -> ProcessEntry]
               /\ ~procs[1].waiting
               /\ SwitchFrom(procs)
               /\ schedulerProcessAt \in User
               /\ procs[schedulerProcessAt].waiting
               /\ \A i \in Slots :
                     /\ procs[i].pid = processes[i].pid
                     /\ procs[i].memStart = processes[i].memStart
                     /\ procs[i].memSize = processes[i].memSize
                     /\ procs[i].regs = processes[i].regs
                     /\ procs[i].IPCQueue = processes[i].IPCQueue
                     /\ procs[i].IPCQueueSize = processes[i].IPCQueueSize
                     /\ i # schedulerProcessAt => procs[i].waiting = processes[i].waiting
<1> DEFINE procs == [processes EXCEPT ![schedulerProcessAt].waiting = TRUE]
<1>1. /\ TypeOK /\ processes \in [Slots -> ProcessEntry]
      /\ schedulerProcessAt \in Slots /\ schedulerProcessAt # 1
      /\ schedulerProcessAt \in User /\ SwitchFrom(procs)
  BY Types DEF IInv, SC_GETUINPUT, UserRuns, NotInit, RunningIsCurrent
<1>2. procs \in [Slots -> ProcessEntry]
  BY <1>1, WaitingTable
<1>3. ~procs[1].waiting
  BY <1>1 DEF IInv, InitReady
<1>4. \A i \in Slots :
         /\ procs[i].pid = processes[i].pid
         /\ procs[i].memStart = processes[i].memStart
         /\ procs[i].memSize = processes[i].memSize
         /\ procs[i].regs = processes[i].regs
         /\ procs[i].IPCQueue = processes[i].IPCQueue
         /\ procs[i].IPCQueueSize = processes[i].IPCQueueSize
         /\ i # schedulerProcessAt => procs[i].waiting = processes[i].waiting
  BY <1>1 DEF ProcessEntry
<1>5. procs[schedulerProcessAt].waiting
  BY <1>1 DEF ProcessEntry
<1> QED BY <1>1, <1>2, <1>3, <1>4, <1>5

\* A request moves nobody.
LEMMA RequestKeepsPlaces ==
    ASSUME IInv, NEW offset, NEW size, SC_GETUINPUT(offset, size)
    PROVE  KeepsPlaces
<1> DEFINE procs == [processes EXCEPT ![schedulerProcessAt].waiting = TRUE]
<1>1. /\ procs \in [Slots -> ProcessEntry] /\ ~procs[1].waiting
      /\ SwitchFrom(procs)
      /\ \A i \in Slots : /\ procs[i].pid = processes[i].pid
                          /\ procs[i].memStart = processes[i].memStart
                          /\ procs[i].memSize = processes[i].memSize
  BY RequestTable
<1>2. processCount' = processCount
  BY DEF SC_GETUINPUT
<1> HIDE DEF procs
<1>3. \A i \in Slots : /\ processes'[i].pid = processes[i].pid
                       /\ processes'[i].memStart = processes[i].memStart
                       /\ processes'[i].memSize = processes[i].memSize
  BY <1>1, SwitchKeepsEntries
<1> QED BY <1>2, <1>3, SlotsKeepPlaces

\* Only an exit moves a process.
LEMMA OnlyExitsMove ==
    ASSUME IInv, [Next]_vars
    PROVE  SC_EXIT \/ KeepsPlaces
<1>1. /\ processes \in [Slots -> ProcessEntry] /\ ~processes[1].waiting
  BY Types DEF IInv, InitReady
<1>2. CASE PITISR
  <2>1. SwitchFrom(processes) /\ processCount' = processCount
    BY <1>2 DEF PITISR
  <2> QED BY <2>1, <1>1, SwitchKeepsEntries, SlotsKeepPlaces
<1>3. ASSUME NEW fileSize \in ImageSizes, SC_SPAWNPROC(fileSize)
      PROVE  KeepsPlaces
  BY <1>3, SpawnKeepsWaiting DEF KeepsWaiting, KeepsPlaces
<1>4. ASSUME NEW offset, NEW size, SC_GETUINPUT(offset, size)
      PROVE  KeepsPlaces
  BY <1>4, RequestKeepsPlaces
<1>5. CASE Calm
  BY <1>5, SlotsKeepPlaces DEF Calm, KeepsTable
<1>6. CASE UNCHANGED vars
  BY <1>6, SlotsKeepPlaces DEF vars, tableVars
<1> QED BY <1>2, <1>3, <1>4, <1>5, <1>6, CalmSteps DEF Next, SystemCall, Program

\* The exit of the process in slot schedulerProcessAt: those below it stay,
\* those above it come down by one slot and by the size of its region.
LEMMA ExitMoves ==
    ASSUME IInv, SC_EXIT
    PROVE  /\ schedulerProcessAt \in User /\ schedulerProcessAt >= 2
           /\ cpu.owner = Current.pid /\ cpu' = [owner |-> WaitStub, val |-> 0, ebp |-> 0]
           /\ Current.memSize \in Int /\ Current.memSize > 0
           /\ processCount' = processCount - 1
           /\ \A k \in User' :
                 /\ k \in User
                 /\ k < schedulerProcessAt => processes'[k] = processes[k]
                 /\ k >= schedulerProcessAt =>
                       /\ k + 1 \in User
                       /\ processes'[k] = [processes[k + 1] EXCEPT
                                              !.memStart = @ - Current.memSize]
           /\ \A k \in User : /\ k < schedulerProcessAt => k \in User'
                              /\ k > schedulerProcessAt => k - 1 \in User'
<1> DEFINE idx == schedulerProcessAt
<1>1. TypeOK /\ RunningIsCurrent /\ SizesPositive
  BY DEF IInv
<1>2. /\ \A i \in User : i \in Slots /\ i \in 0 .. processCount - 1 /\ i \in Nat /\ i > 0
      /\ processCount \in Nat
      /\ processes \in [Slots -> ProcessEntry]
  BY <1>1, Types
<1>3. /\ cpu.owner >= 0 /\ idx # 1
      /\ Kill(Current.pid)
      /\ cpu' = [owner |-> WaitStub, val |-> 0, ebp |-> 0]
  BY DEF SC_EXIT, UserRuns, NotInit
<1>4. /\ idx \in User /\ idx \in Nat /\ idx >= 2 /\ idx <= processCount - 1
      /\ cpu.owner = Current.pid
  BY <1>1, <1>2, <1>3 DEF RunningIsCurrent, User
<1>5. Index(Current.pid) = idx
  BY <1>4, OwnIndex DEF Current
<1>6. processes' = Closed(idx) /\ processCount' = processCount - 1
  BY <1>3, <1>4, <1>5 DEF Kill
<1>7. Current.memSize \in Int /\ Current.memSize > 0
  BY <1>1, <1>2, <1>4, Fields DEF Current, SizesPositive
<1>8. ASSUME NEW k \in User'
      PROVE  /\ k \in User
             /\ k < idx => processes'[k] = processes[k]
             /\ k >= idx => /\ k + 1 \in User
                            /\ processes'[k] = [processes[k + 1] EXCEPT
                                                   !.memStart = @ - Current.memSize]
  <2>1. k \in User /\ k < processCount - 1 /\ k + 1 \in User /\ k \in Slots /\ k \in Nat
    BY <1>2, <1>6 DEF User
  <2> QED BY <2>1, <1>4, <1>6 DEF Closed, Current
<1>9. \A k \in User : /\ k < idx => k \in User'
                      /\ k > idx => k - 1 \in User'
  BY <1>2, <1>4, <1>6 DEF User
<1> QED BY <1>3, <1>4, <1>6, <1>7, <1>8, <1>9

-----------------------------------------------------------------------------

(***************************************************************************)
(* Registers                                                               *)
(***************************************************************************)

\* Only in the wait stub are the registers not saved by the next switch.
SavesOutsideStub == cpu.owner # WaitStub => saveRegs

LEMMA SavesStep ==
    ASSUME IInv, SavesOutsideStub, [Next]_vars
    PROVE  SavesOutsideStub'
<1>1. ASSUME NEW procs, SwitchFrom(procs)
      PROVE  SavesOutsideStub'
  BY <1>1 DEF SwitchFrom, cpuVars, SavesOutsideStub
<1>2. CASE SC_EXIT
  BY <1>2 DEF SC_EXIT, SavesOutsideStub
<1>3. CASE Calm
  BY <1>3 DEF Calm, SavesOutsideStub
<1>4. ASSUME NEW fileSize, SC_SPAWNPROC(fileSize)
      PROVE  SavesOutsideStub'
  BY <1>4 DEF SC_SPAWNPROC, cpuVars, SavesOutsideStub
<1>5. CASE UNCHANGED vars
  BY <1>5 DEF vars, cpuVars, SavesOutsideStub
<1> QED BY <1>1, <1>2, <1>3, <1>4, <1>5, CalmSteps
        DEF Next, SystemCall, Program, PITISR, SC_GETUINPUT

\* Every reachable state saves what it must.
LEMMA SavesInductive == Spec => [](IInv /\ SavesOutsideStub)
<1>1. Init => IInv /\ SavesOutsideStub
  BY InitIInv DEF Init, SavesOutsideStub
<1>2. IInv /\ SavesOutsideStub /\ [Next]_vars => (IInv /\ SavesOutsideStub)'
  BY IInvStep, SavesStep
<1> QED BY <1>1, <1>2, PTL DEF Spec

\* The registers of a process are in the CPU or in its slot.
LEMMA RegsInSlot ==
    IInv => \A i \in User : \A p : processes[i].pid = p =>
                /\ cpu.owner = p => i = schedulerProcessAt
                /\ RegsOf(p) = IF cpu.owner = p THEN cpu ELSE processes[i].regs
<1> SUFFICES ASSUME IInv, NEW i \in User, NEW p, processes[i].pid = p
             PROVE  /\ cpu.owner = p => i = schedulerProcessAt
                    /\ RegsOf(p) = IF cpu.owner = p THEN cpu ELSE processes[i].regs
  OBVIOUS
<1>1. Index(p) = i
  BY IndexOfPid
<1>2. i \in 0 .. processCount - 1 /\ p \in Int
  BY Types, Fields DEF IInv
<1>3. p >= 0
  BY <1>2, ProcessAssumption DEF IInv, PidsHigh
<1>4. cpu.owner = p => schedulerProcessAt \in User /\ processes[schedulerProcessAt].pid = p
  BY <1>3 DEF IInv, RunningIsCurrent, Current
<1>5. cpu.owner = p => Index(p) = schedulerProcessAt
  BY <1>4, IndexOfPid
<1> QED BY <1>1, <1>5 DEF RegsOf

LEMMA RegsInSlotNext ==
    IInv' => (\A i \in User : \A p : processes[i].pid = p =>
                /\ cpu.owner = p => i = schedulerProcessAt
                /\ RegsOf(p) = IF cpu.owner = p THEN cpu ELSE processes[i].regs)'
BY RegsInSlot, PTL

\* A switch stores the outgoing registers in the slot they belong to and takes
\* the incoming ones from the slot of the process that will run.
LEMMA SwitchKeepsRegs ==
    ASSUME IInv, IInv', SavesOutsideStub,
           NEW procs \in [Slots -> ProcessEntry], ~procs[1].waiting, SwitchFrom(procs),
           \A i \in Slots : /\ procs[i].pid = processes[i].pid
                            /\ procs[i].regs = processes[i].regs,
           processCount' = processCount,
           NEW i \in User, NEW p, processes[i].pid = p
    PROVE  RegsOf(p)'.val = RegsOf(p).val
<1> DEFINE next == NextProcess(procs)
<1>1. /\ TypeOK /\ i \in Slots /\ i \in Nat /\ i > 0 /\ schedulerProcessAt \in Slots
      /\ processCount \in Nat /\ processCount >= 2
      /\ cpu \in Context /\ cpu.owner \in Int /\ saveRegs \in BOOLEAN
      /\ \A k \in User : k \in Slots
  BY Types DEF IInv, InitReady, TypeOK, Context
<1>2. Ready(procs) # {}
  BY <1>1 DEF Ready
<1>3. /\ processes' = AfterSave(procs)
      /\ cpu' = processes'[next].regs
      /\ next \in User
  BY <1>1, <1>2, NextIsReady DEF SwitchFrom
<1>4. User' = User
  BY DEF User
<1>5. processes'[i].pid = p
  BY <1>1, <1>3 DEF AfterSave, Saved, ProcessEntry
<1>6. RegsOf(p)' = processes'[i].regs
  <2>1. RegsOf(p)' = IF cpu'.owner = p THEN cpu' ELSE processes'[i].regs
    BY <1>4, <1>5, RegsInSlotNext
  <2>2. ASSUME cpu'.owner = p
        PROVE  next = i
    <3>1. processes'[next].pid = p
      BY <2>2, <1>3, <1>4 DEF IInv, ContextsOwned
    <3>2. Index(p)' = next /\ Index(p)' = i
      BY <3>1, <1>3, <1>4, <1>5, IndexOfPidNext
    <3> QED BY <3>2
  <2> QED BY <2>1, <2>2, <1>3
<1>7. RegsOf(p) = IF cpu.owner = p THEN cpu ELSE processes[i].regs
  BY RegsInSlot
<1>8. CASE cpu.owner = p
  <2>1. i = schedulerProcessAt
    BY <1>8, RegsInSlot
  <2>2. saveRegs
    <3>1. p \in Int /\ p >= 0
      BY <1>1, Types, Fields, ProcessAssumption DEF IInv, PidsHigh
    <3> QED BY <3>1, <1>8 DEF SavesOutsideStub, WaitStub
  <2>3. processes'[i].regs.val = cpu.val
    BY <2>1, <2>2, <1>1, <1>3 DEF AfterSave, Saved, ProcessEntry, Context
  <2> QED BY <2>3, <1>6, <1>7, <1>8
<1>9. CASE cpu.owner # p
  <2>1. ~saveRegs \/ i # schedulerProcessAt
    <3> SUFFICES ASSUME saveRegs, i = schedulerProcessAt PROVE FALSE
      OBVIOUS
    <3>1. CASE cpu.owner >= 0
      BY <3>1, <1>9 DEF IInv, RunningIsCurrent, Current
    <3>2. CASE cpu.owner < 0
      BY <3>2, <1>1 DEF IInv, RunningIsCurrent
    <3> QED BY <3>1, <3>2, <1>1
  <2>2. processes'[i].regs = procs[i].regs
    BY <2>1, <1>1, <1>3 DEF AfterSave
  <2> QED BY <2>2, <1>1, <1>6, <1>7, <1>9
<1> QED BY <1>8, <1>9

\* A step that leaves the CPU's registers and every process's slot alone.
LEMMA SameRegs ==
    ASSUME IInv, IInv', cpu' = cpu,
           NEW i \in User, i \in User', NEW p, processes[i].pid = p,
           processes'[i].pid = p, processes'[i].regs = processes[i].regs
    PROVE  RegsOf(p)' = RegsOf(p)
<1>1. RegsOf(p)' = IF cpu'.owner = p THEN cpu' ELSE processes'[i].regs
  BY RegsInSlotNext
<1>2. RegsOf(p) = IF cpu.owner = p THEN cpu ELSE processes[i].regs
  BY RegsInSlot
<1> QED BY <1>1, <1>2

\* An exit takes the registers of the others with their slots.
LEMMA ExitKeepsRegs ==
    ASSUME IInv, IInv', SC_EXIT,
           NEW i \in User, NEW j \in User', NEW p,
           processes[i].pid = p, processes'[j].pid = p
    PROVE  RegsOf(p)' = RegsOf(p)
<1> DEFINE idx == schedulerProcessAt
<1>1. /\ TypeOK /\ i \in Nat /\ i > 0 /\ i \in 0 .. processCount - 1 /\ i \in Slots
      /\ processes \in [Slots -> ProcessEntry]
      /\ \A k \in User : k \in Slots /\ k \in Nat
      /\ p \in Int /\ p >= 0
      /\ schedulerProcessAt \in Nat
  BY Types, Fields, ProcessAssumption DEF IInv, PidsHigh
<1>2. j \in User
  BY ExitMoves
<1>3. PICK k \in User : /\ k # idx
                        /\ processes'[j].pid = processes[k].pid
                        /\ processes'[j].regs = processes[k].regs
  <2>0. j \in Nat /\ idx \in Nat
    BY <1>1, <1>2
  <2>1. CASE j < idx
    <3>1. j # idx
      BY <2>0, <2>1
    <3>2. processes'[j] = processes[j]
      BY <2>1, ExitMoves
    <3> QED BY <3>1, <3>2, <1>2
  <2>2. CASE j >= idx
    <3>1. j + 1 \in User /\ processes'[j] = [processes[j + 1] EXCEPT !.memStart = @ - Current.memSize]
      BY <2>2, ExitMoves
    <3>2. j + 1 # idx
      BY <2>2, <1>1, <1>2
    <3> QED BY <3>1, <3>2, <1>1 DEF ProcessEntry
  <2> QED BY <2>0, <2>1, <2>2
<1>4. k = i
  <2>1. Index(p) = k /\ Index(p) = i
    BY <1>3, IndexOfPid
  <2> QED BY <2>1
<1>5. cpu.owner # p
  BY <1>3, <1>4, RegsInSlot
<1>6. RegsOf(p) = processes[i].regs
  BY <1>5, RegsInSlot
<1>7. cpu'.owner # p
  BY <1>1, ExitMoves DEF WaitStub
<1>8. RegsOf(p)' = processes'[j].regs
  BY <1>7, RegsInSlotNext
<1> QED BY <1>3, <1>4, <1>6, <1>8

\* Every step but the process's own computing leaves its registers as they are.
LEMMA RegsStep ==
    ASSUME IInv, IInv', SavesOutsideStub, [Next]_vars,
           NEW p \in Pids \cap Pids', RegsOf(p).val # RegsOf(p)'.val
    PROVE  p = cpu.owner /\ ProgramComputes
<1>1. PICK i \in User : processes[i].pid = p
  BY DEF Pids
<1>2. PICK j \in User' : processes'[j].pid = p
  BY DEF Pids
<1>3. /\ TypeOK /\ processes \in [Slots -> ProcessEntry] /\ ~processes[1].waiting
      /\ schedulerProcessAt \in Slots /\ i \in Slots
      /\ \A k \in Slots : processes[k] \in ProcessEntry
      /\ processCount \in Nat /\ ProcSlots \in Nat
      /\ cpu \in Context
  BY Types, ProcessAssumption DEF IInv, InitReady
<1>4. KeepsPlaces => i \in User' /\ processes'[i].pid = p
  BY <1>1 DEF KeepsPlaces
<1>5. ASSUME cpu' = cpu, KeepsPlaces
      PROVE  processes'[i].regs # processes[i].regs
  BY <1>1, <1>4, <1>5, SameRegs
<1>6. CASE PITISR
  <2>1. SwitchFrom(processes) /\ processCount' = processCount
    BY <1>6 DEF PITISR
  <2> QED BY <2>1, <1>1, <1>3, SwitchKeepsRegs
<1>7. ASSUME NEW offset, NEW size, SC_GETUINPUT(offset, size)
      PROVE  FALSE
  <2> DEFINE procs == [processes EXCEPT ![schedulerProcessAt].waiting = TRUE]
  <2>1. /\ procs \in [Slots -> ProcessEntry] /\ ~procs[1].waiting
        /\ SwitchFrom(procs)
        /\ \A k \in Slots : procs[k].pid = processes[k].pid /\ procs[k].regs = processes[k].regs
    BY <1>7, RequestTable
  <2>2. processCount' = processCount
    BY <1>7 DEF SC_GETUINPUT
  <2> HIDE DEF procs
  <2> QED BY <2>1, <2>2, <1>1, SwitchKeepsRegs
<1>8. CASE SC_EXIT
  BY <1>1, <1>2, <1>8, ExitKeepsRegs
<1>9. ASSUME NEW fileSize \in ImageSizes, SC_SPAWNPROC(fileSize)
      PROVE  FALSE
  <2>1. cpu' = cpu
    BY <1>9 DEF SC_SPAWNPROC, cpuVars
  <2>2. processes'[i] = processes[i]
    <3>1. i # processCount
      BY <1>1, <1>3 DEF User
    <3> QED BY <3>1, <1>3, <1>9 DEF SC_SPAWNPROC, SpawnProcess
  <2>3. KeepsPlaces
    BY <1>9, SpawnKeepsWaiting DEF KeepsWaiting, KeepsPlaces
  <2> QED BY <2>1, <2>2, <2>3, <1>5
<1>10. Calm => KeepsPlaces
  BY SlotsKeepPlaces DEF Calm, KeepsTable
<1>11. ASSUME NEW pid, NEW body, SC_MSG_SEND(pid, body)
       PROVE  FALSE
  <2>1. cpu' = cpu /\ Calm
    BY <1>11, CalmSteps DEF SC_MSG_SEND, cpuVars
  <2>2. processes'[i].regs = processes[i].regs
    BY <1>3, <1>11 DEF SC_MSG_SEND, SendMessageToProcess, ProcessEntry
  <2> QED BY <2>1, <2>2, <1>5, <1>10
<1>12. ASSUME SC_MSG_POP
       PROVE  FALSE
  <2>1. cpu' = cpu /\ Calm
    BY <1>12, CalmSteps DEF SC_MSG_POP, cpuVars
  <2>2. processes'[i].regs = processes[i].regs
    BY <1>3, <1>12 DEF SC_MSG_POP, Popped, ProcessEntry
  <2> QED BY <2>1, <2>2, <1>5, <1>10
<1>13. ASSUME NEW vector, RaiseException(vector)
       PROVE  FALSE
  <2>1. cpu' = cpu /\ Calm
    BY <1>13, CalmSteps DEF RaiseException, cpuVars
  <2>2. Index(schedulerProcessAt) = -1
    BY <1>3, IndexIsNoPid
  <2>3. processes' = processes
    BY <2>2, <1>13 DEF RaiseException, Kill
  <2> QED BY <2>1, <2>3, <1>5, <1>10
<1>14. ASSUME Keystroke
       PROVE  FALSE
  <2>1. cpu' = cpu /\ Calm
    BY <1>14, CalmSteps DEF Keystroke, cpuVars
  <2>2. processes'[i].regs = processes[i].regs
    BY <1>3, <1>14 DEF Keystroke, PS2KBDISR, KbdEnter, KbdReturn, KbdChar, Woken, ProcessEntry
  <2> QED BY <2>1, <2>2, <1>5, <1>10
<1>15. ASSUME NEW val \in RegVals, NEW ebp \in RegVals, UserCompute(val, ebp)
       PROVE  p = cpu.owner /\ ProgramComputes
  <2>1. /\ cpu' = [cpu EXCEPT !.val = val, !.ebp = ebp]
        /\ processes' = processes /\ KeepsPlaces
    BY <1>10, <1>15, CalmSteps DEF UserCompute, tableVars
  <2>2. cpu'.owner = cpu.owner
    BY <2>1, <1>3 DEF Context
  <2>3. RegsOf(p) = IF cpu.owner = p THEN cpu ELSE processes[i].regs
    BY <1>1, RegsInSlot
  <2>4. RegsOf(p)' = IF cpu'.owner = p THEN cpu' ELSE processes'[i].regs
    BY <2>1, <1>4, RegsInSlotNext
  <2>5. p = cpu.owner
    BY <2>1, <2>2, <2>3, <2>4
  <2> QED BY <2>5, <1>15 DEF ProgramComputes
<1>16. ASSUME NEW offset, UserStore(offset)
       PROVE  FALSE
  <2>1. cpu' = cpu /\ Calm /\ processes' = processes
    BY <1>16, CalmSteps DEF UserStore, cpuVars, tableVars
  <2> QED BY <2>1, <1>5, <1>10
<1>17. ASSUME UNCHANGED vars
       PROVE  FALSE
  <2>1. cpu' = cpu /\ processes' = processes /\ KeepsPlaces
    <3>1. cpu' = cpu /\ processes' = processes /\ processCount' = processCount
      BY <1>17 DEF vars, cpuVars, tableVars
    <3> QED BY <3>1, SlotsKeepPlaces
  <2> QED BY <2>1, <1>5
<1> QED BY <1>6, <1>7, <1>8, <1>9, <1>11, <1>12, <1>13, <1>14, <1>15, <1>16, <1>17
        DEF Next, SystemCall, Program

\* A program finds the registers it left, but for its own computing: the
\* inductive invariant says whose registers the CPU and each slot hold.
THEOREM RegistersKept == Spec => RegistersPreserved
<1>1. ASSUME IInv, IInv', SavesOutsideStub, [Next]_vars
      PROVE  \A p \in Pids \cap Pids' :
                RegsOf(p).val # RegsOf(p)'.val => p = cpu.owner /\ ProgramComputes
  BY <1>1, RegsStep
<1> QED BY <1>1, SavesInductive, PTL DEF Spec, RegistersPreserved

-----------------------------------------------------------------------------

(***************************************************************************)
(* Memory                                                                  *)
(***************************************************************************)

\* allocMem compares the START of a new region, plus its size, with the size
\* the bootloader reports; the megabyte the report leaves out holds what the
\* last region may reach beyond it, if no program is larger.
RamHolds == \A s \in ImageSizes : SystemMemory + s + StackSize <= RamSize

\* Every process lies in the RAM there is.
InRam ==
    \A i \in 0 .. processCount - 1 :
        /\ \E s \in ImageSizes : processes[i].memSize = s + StackSize
        /\ processes[i].memStart + processes[i].memSize <= RamSize

LEMMA InitInRam ==
    ASSUME RamHolds, Init
    PROVE  InRam
<1>1. PICK size0 \in ImageSizes, size1 \in ImageSizes,
           t0 \in BootTicks, t1 \in BootTicks, t2 \in BootTicks :
              BootState(size0, size1, t0, t1, t2)
  BY DEF Init
<1> DEFINE proc0 == Booted(size0, KernelSize, t0)
           start1 == KernelSize + proc0.memSize
           proc1 == Booted(size1, start1, t1 + 1)
<1>2. /\ KernelSize <= SystemMemory /\ KernelSize + size1 + StackSize <= SystemMemory
      /\ processes = [i \in Slots |-> IF i = 0 THEN proc0
                                      ELSE IF i = 1 THEN proc1 ELSE BlankEntry]
      /\ processCount = 2
  BY <1>1 DEF BootState, Init
<1>3. /\ size0 \in Int /\ size1 \in Int /\ StackSize \in Int /\ KernelSize \in Int
      /\ SystemMemory \in Int /\ RamSize \in Int
      /\ SystemMemory + size0 + StackSize <= RamSize
  BY ProcessAssumption, MemoryAssumption DEF RamHolds
<1>4. size0 \in Nat /\ size1 \in Nat /\ t0 \in Int /\ t1 + 1 \in Int /\ KernelSize \in Int
  BY ProcessAssumption, MemoryAssumption, KernelAssumption
<1>5. proc0.memStart = KernelSize /\ proc0.memSize = size0 + StackSize
  <2> HIDE DEF Booted
  <2> QED BY <1>4, BootedEntry
<1>6. start1 = KernelSize + (size0 + StackSize) /\ start1 \in Int
  BY <1>3, <1>5
<1>7. proc1.memStart = start1 /\ proc1.memSize = size1 + StackSize
  <2> HIDE DEF Booted, start1
  <2> QED BY <1>4, <1>6, BootedEntry
<1>8. processes[0] = proc0 /\ processes[1] = proc1
  BY <1>2, ProcessAssumption DEF Slots
<1>9. \A i \in 0 .. processCount - 1 : i = 0 \/ i = 1
  BY <1>2
<1> HIDE DEF proc0, proc1, start1
<1>10. processes[0].memStart + processes[0].memSize <= RamSize
  BY <1>2, <1>3, <1>5, <1>8
<1>11. processes[1].memStart + processes[1].memSize <= RamSize
  BY <1>2, <1>3, <1>6, <1>7, <1>8
<1>12. /\ processes[0].memSize = size0 + StackSize
       /\ processes[1].memSize = size1 + StackSize
  BY <1>5, <1>7, <1>8
<1> QED BY <1>9, <1>10, <1>11, <1>12 DEF InRam

\* A step that moves no entry takes nobody out of the RAM.
LEMMA InRamKept ==
    ASSUME InRam, IInv, KeepsTable
    PROVE  InRam'
<1>1. \A i \in 0 .. processCount - 1 : i \in Slots
  BY Types DEF IInv
<1> QED BY <1>1 DEF InRam, KeepsTable

LEMMA SpawnInRam ==
    ASSUME RamHolds, IInv, InRam, NEW fileSize \in ImageSizes, SC_SPAWNPROC(fileSize)
    PROVE  InRam'
<1> DEFINE last == processCount - 1
<1>1. /\ TypeOK /\ TablesAgree /\ InitReady
      /\ processCount \in Nat /\ processCount >= 2 /\ processCount < ProcSlots
      /\ \A i \in 0 .. processCount - 1 : i \in Slots /\ i \in Nat
      /\ processes \in [Slots -> ProcessEntry]
      /\ memIndex = processCount + 2
      /\ ProcSlots \in Nat
  BY Types, ProcessAssumption DEF IInv, InitReady, TablesAgree, SC_SPAWNPROC
<1>2. CASE AllocFault(fileSize + StackSize) # "no"
  BY <1>2 DEF SC_SPAWNPROC, InRam
<1>3. CASE AllocFault(fileSize + StackSize) = "no"
  <2>1. /\ processCount' = processCount + 1
        /\ processes' = [processes EXCEPT ![processCount] =
                            NewEntry(@, fileSize, AllocAddr, NewPid)]
    BY <1>3 DEF SC_SPAWNPROC, SpawnProcess
  <2>2. processCount \in Slots /\ processes[processCount] \in ProcessEntry
    BY <1>1 DEF Slots
  <2>3. /\ processes'[processCount].memStart = AllocAddr
        /\ processes'[processCount].memSize = fileSize + StackSize
    BY <1>1, <2>1, <2>2 DEF NewEntry, ProcessEntry
  <2>4. \A i \in 0 .. processCount - 1 : processes'[i] = processes[i]
    BY <1>1, <2>1
  <2>5. /\ last \in 0 .. processCount - 1 /\ last + 2 = memIndex - 1 /\ last \in Slots
        /\ processes[last].memStart = memList[last + 2].startAddr
        /\ processes[last].memSize = memList[last + 2].size
    BY <1>1 DEF TablesAgree
  <2>6. /\ AllocAddr = processes[last].memStart + processes[last].memSize
        /\ ~(processes[last].memStart + (fileSize + StackSize) > SystemMemory)
    BY <1>3, <2>5 DEF AllocAddr, AllocFault
  <2>7. PICK s \in ImageSizes : processes[last].memSize = s + StackSize
    BY <2>5 DEF InRam
  <2>8. /\ s \in Int /\ fileSize \in Int /\ StackSize \in Int /\ SystemMemory \in Int
        /\ RamSize \in Int /\ processes[last].memStart \in Int
        /\ SystemMemory + s + StackSize <= RamSize
    BY <1>1, <2>5, Fields, ProcessAssumption, MemoryAssumption DEF RamHolds
  <2>9. AllocAddr + (fileSize + StackSize) <= RamSize
    BY <2>6, <2>7, <2>8
  <2>10. \A i \in 0 .. processCount' - 1 : i \in 0 .. processCount - 1 \/ i = processCount
    BY <1>1, <2>1
  <2> QED BY <2>3, <2>4, <2>9, <2>10 DEF InRam
<1> QED BY <1>2, <1>3

LEMMA ExitInRam ==
    ASSUME IInv, InRam, SC_EXIT
    PROVE  InRam'
<1> DEFINE idx == schedulerProcessAt
<1>1. /\ TypeOK /\ idx \in Nat /\ processCount \in Nat /\ processCount >= 2
      /\ \A i \in 0 .. processCount - 1 : i \in Slots /\ i \in Nat
      /\ processes \in [Slots -> ProcessEntry]
      /\ RamSize \in Int
  BY Types, MemoryAssumption DEF IInv, InitReady
<1>2. /\ processCount' = processCount - 1 /\ idx >= 2
      /\ Current.memSize \in Int /\ Current.memSize > 0
      /\ idx \in User
  BY ExitMoves
<1>3. processes'[0] = processes[0] /\ 0 \in 0 .. processCount - 1
  <2>1. processes' = Closed(idx)
    BY <1>2, OwnIndex, <1>1 DEF SC_EXIT, Kill, Current
  <2>2. 0 \in Slots /\ 0 < idx /\ 0 # processCount - 1
    BY <1>1, <1>2
  <2> QED BY <2>1, <2>2, <1>1 DEF Closed
<1>4. ASSUME NEW k \in User'
      PROVE  \E i \in 0 .. processCount - 1 :
                /\ processes'[k].memSize = processes[i].memSize
                /\ processes'[k].memStart = processes[i].memStart
                   \/ processes'[k].memStart = processes[i].memStart - Current.memSize
  <2>1. k \in User /\ User \subseteq 0 .. processCount - 1
    BY <1>1, ExitMoves DEF User
  <2>2. CASE k < idx
    BY <2>1, <2>2, ExitMoves
  <2>3. CASE k >= idx
    <3>1. k + 1 \in User /\ processes'[k] = [processes[k + 1] EXCEPT !.memStart = @ - Current.memSize]
      BY <2>3, ExitMoves
    <3>2. processes[k + 1] \in ProcessEntry
      BY <3>1, <2>1, <1>1
    <3> QED BY <3>1, <3>2, <2>1 DEF ProcessEntry
  <2> QED BY <2>1, <2>2, <2>3, <1>1
<1>5. ASSUME NEW k \in 0 .. processCount' - 1
      PROVE  /\ \E s \in ImageSizes : processes'[k].memSize = s + StackSize
             /\ processes'[k].memStart + processes'[k].memSize <= RamSize
  <2>1. CASE k = 0
    BY <2>1, <1>3 DEF InRam
  <2>2. CASE k # 0
    <3>1. k \in User'
      BY <2>2, <1>1, <1>2 DEF User
    <3>2. PICK i \in 0 .. processCount - 1 :
                /\ processes'[k].memSize = processes[i].memSize
                /\ processes'[k].memStart = processes[i].memStart
                   \/ processes'[k].memStart = processes[i].memStart - Current.memSize
      BY <3>1, <1>4
    <3>3. /\ \E s \in ImageSizes : processes[i].memSize = s + StackSize
          /\ processes[i].memStart + processes[i].memSize <= RamSize
      BY DEF InRam
    <3>4. processes[i].memStart \in Int /\ processes[i].memSize \in Int
      BY <1>1, Fields
    <3> QED BY <3>2, <3>3, <3>4, <1>1, <1>2
  <2> QED BY <2>1, <2>2
<1> QED BY <1>5 DEF InRam

LEMMA InRamStep ==
    ASSUME RamHolds, IInv, InRam, [Next]_vars
    PROVE  InRam'
<1>1. /\ processes \in [Slots -> ProcessEntry] /\ ~processes[1].waiting
  BY Types DEF IInv, InitReady
<1>2. CASE PITISR
  <2>1. SwitchFrom(processes) /\ UNCHANGED <<memList, memIndex, processCount>>
    BY <1>2 DEF PITISR, memVars
  <2> QED BY <2>1, <1>1, SwitchKeepsEntries, InRamKept DEF KeepsTable
<1>3. ASSUME NEW offset, NEW size, SC_GETUINPUT(offset, size)
      PROVE  InRam'
  <2> DEFINE procs == [processes EXCEPT ![schedulerProcessAt].waiting = TRUE]
  <2>1. /\ procs \in [Slots -> ProcessEntry] /\ ~procs[1].waiting
        /\ SwitchFrom(procs)
        /\ \A i \in Slots : /\ procs[i].pid = processes[i].pid
                            /\ procs[i].memStart = processes[i].memStart
                            /\ procs[i].memSize = processes[i].memSize
    BY <1>3, RequestTable
  <2>2. UNCHANGED <<memList, memIndex, processCount>>
    BY <1>3 DEF SC_GETUINPUT, memVars
  <2> HIDE DEF procs
  <2>3. \A i \in Slots : /\ processes'[i].pid = processes[i].pid
                         /\ processes'[i].memStart = processes[i].memStart
                         /\ processes'[i].memSize = processes[i].memSize
    BY <2>1, SwitchKeepsEntries
  <2> QED BY <2>2, <2>3, InRamKept DEF KeepsTable
<1>4. CASE Calm
  BY <1>4, InRamKept DEF Calm
<1>5. CASE UNCHANGED vars
  BY <1>5, InRamKept DEF vars, memVars, tableVars, KeepsTable
<1> QED BY <1>2, <1>3, <1>4, <1>5, SpawnInRam, ExitInRam, CalmSteps
        DEF Next, SystemCall, Program

\* All the invariants that a step of the kernel is proved to keep.
KernelInv == IInv /\ SavesOutsideStub /\ InputInv /\ InRam

LEMMA KernelInductive ==
    ASSUME BuffersHold, RamHolds
    PROVE  Spec => []KernelInv
<1>1. Init => KernelInv
  BY InitIInv, InitInput, InitInRam DEF KernelInv, Init, SavesOutsideStub
<1>2. KernelInv /\ [Next]_vars => KernelInv'
  BY IInvStep, SavesStep, InputStep, InRamStep DEF KernelInv
<1> QED BY <1>1, <1>2, PTL DEF Spec

\* Regions in the order of their slots, in RAM.
LEMMA Regions ==
    ASSUME IInv, InRam
    PROVE  /\ \A i \in User : /\ i \in Nat /\ i \in Slots /\ i \in 0 .. processCount - 1
                              /\ processes[i].memStart \in Nat
                              /\ processes[i].memSize \in Nat
                              /\ processes[i].memStart + processes[i].memSize <= RamSize
                              /\ \A o \in 0 .. processes[i].memSize - 1 :
                                    processes[i].memStart + o \in Addr
           /\ \A i, j \in User : i < j =>
                 processes[i].memStart + processes[i].memSize <= processes[j].memStart
<1>1. /\ \A i \in User : i \in Nat /\ i \in Slots /\ i \in 0 .. processCount - 1
      /\ RamSize \in Int
  BY Types, MemoryAssumption DEF IInv
<1>2. \A i, j \in User : i < j =>
         processes[i].memStart + processes[i].memSize <= processes[j].memStart
  BY <1>1 DEF IInv, RegionsDisjoint
<1>3. ASSUME NEW i \in User
      PROVE  /\ processes[i].memStart \in Nat
             /\ processes[i].memSize \in Nat
             /\ processes[i].memStart + processes[i].memSize <= RamSize
             /\ \A o \in 0 .. processes[i].memSize - 1 : processes[i].memStart + o \in Addr
  <2>1. processes[i].memStart \in Int /\ processes[i].memSize \in Int
    BY <1>1, Fields DEF IInv
  <2>2. processes[i].memStart >= KernelSize /\ processes[i].memSize > 0
    BY <1>1 DEF IInv, RegionsDisjoint, SizesPositive
  <2>3. KernelSize \in Int /\ KernelSize > 0
    BY MemoryAssumption
  <2>4. processes[i].memStart + processes[i].memSize <= RamSize
    BY <1>1 DEF InRam
  <2>5. \A o \in 0 .. processes[i].memSize - 1 : processes[i].memStart + o \in Addr
    BY <2>1, <2>2, <2>3, <2>4, <1>1 DEF Addr
  <2> QED BY <2>1, <2>2, <2>3, <2>4, <2>5
<1> QED BY <1>1, <1>2, <1>3

\* freeMem brings the bytes of every region above the free one down with it,
\* and touches none below.
LEMMA ExitMovesBytes ==
    ASSUME IInv, InRam, SC_EXIT, NEW k \in User, NEW o \in 0 .. processes[k].memSize - 1
    PROVE  LET start == processes[k].memStart
           IN  /\ k < schedulerProcessAt => ram'[start + o] = ram[start + o]
               /\ k > schedulerProcessAt =>
                     ram'[start - Current.memSize + o] = ram[start + o]
<1> DEFINE idx == schedulerProcessAt
           start == processes[idx].memStart
           size == processes[idx].memSize
           last == processCount - 1
           end == memList'[memIndex'].startAddr + memList'[memIndex'].size
<1>1. /\ TypeOK /\ TablesAgree
      /\ processCount \in Nat /\ memIndex = processCount + 2
      /\ memIndex <= MemListSize /\ MemListSize \in Nat
      /\ memList \in [MemSlots -> MemEntry]
      /\ processes \in [Slots -> ProcessEntry]
  BY Types, MemoryAssumption DEF IInv, TablesAgree
<1>2. idx \in User /\ idx >= 2 /\ idx \in Nat /\ idx <= last
  BY <1>1, ExitMoves, Regions DEF User
<1>3. FreeMem(start)
  <2>1. Index(Current.pid) = idx /\ idx # -1
    BY <1>2, OwnIndex DEF Current
  <2> QED BY <2>1 DEF SC_EXIT, Kill
<1>4. /\ EntriesAt(start) # {} /\ Least(EntriesAt(start)) = idx + 2 /\ start > 0
  BY <1>2, OwnEntry
<1>5. /\ start \in Int /\ size \in Int /\ start >= 0 /\ size > 0
      /\ memList[idx + 2].size = size
      /\ size = Current.memSize
  BY <1>1, <1>2, Regions, ExitMoves DEF TablesAgree, Current
<1>6. /\ memList' = Compacted(idx + 2)
      /\ memIndex' = memIndex - 1
      /\ ram' = Copied(start, start + size, end - start)
  <2>1. ~(start <= 0)
    BY <1>4, <1>5
  <2> HIDE DEF start, size
  <2> QED BY <2>1, <1>3, <1>4, <1>5 DEF FreeMem
<1>7. /\ last \in User /\ last \in 0 .. processCount - 1
      /\ processes[last].memStart \in Int /\ processes[last].memSize \in Int
      /\ processes[last].memStart = memList[last + 2].startAddr
      /\ processes[last].memSize = memList[last + 2].size
      /\ last + 2 = memIndex - 1 /\ last + 2 \in MemSlots
  <2>1. last \in User /\ last \in 0 .. processCount - 1 /\ last + 2 = memIndex - 1
    BY <1>1, <1>2 DEF User
  <2>2. last + 2 \in MemSlots
    BY <1>1, <1>2 DEF MemSlots
  <2> QED BY <2>1, <2>2, <1>1, Regions DEF TablesAgree
<1>8. idx < last => end = processes[last].memStart - size + processes[last].memSize
  <2> SUFFICES ASSUME idx < last
               PROVE  end = processes[last].memStart - size + processes[last].memSize
    OBVIOUS
  <2>1. memList[last + 2] \in MemEntry
    BY <1>1, <1>7
  <2>2. memList'[last + 2] = [memList[last + 2] EXCEPT !.startAddr = @ - size]
    <3>1. last + 2 \in MemSlots /\ last + 2 = memIndex - 1 /\ idx + 2 < last + 2
      BY <1>1, <1>2, <1>7
    <3> HIDE DEF size, last
    <3> QED BY <3>1, <1>5, <1>6, <1>7, <1>1 DEF Compacted
  <2>3. memIndex' = last + 2
    BY <1>6, <1>7
  <2> QED BY <2>1, <2>2, <2>3, <1>7 DEF MemEntry
<1>9. idx = last => end = start + size
  <2> SUFFICES ASSUME idx = last
               PROVE  end = start + size
    OBVIOUS
  <2>1. memList'[last + 2] = memList[last + 2]
    <3>1. last + 2 \in MemSlots /\ last + 2 = memIndex - 1 /\ idx + 2 = last + 2
      BY <1>7
    <3> HIDE DEF last
    <3> QED BY <3>1, <1>6, <1>1, <1>2 DEF Compacted
  <2>2. memIndex' = last + 2
    BY <1>6, <1>7
  <2> QED BY <2>1, <2>2, <1>7
<1>10. end \in Int /\ RamSize \in Int
  BY <1>2, <1>5, <1>7, <1>8, <1>9, MemoryAssumption
<1> HIDE DEF end
<1>11. /\ processes[k].memStart \in Int /\ processes[k].memSize \in Int /\ k \in Nat
       /\ processes[k].memStart >= 0
       /\ processes[k].memStart + o \in Addr
       /\ o \in Int /\ o >= 0 /\ o < processes[k].memSize
  BY Regions
<1>12. ASSUME k < idx
       PROVE  ram'[processes[k].memStart + o] = ram[processes[k].memStart + o]
  <2>1. processes[k].memStart + processes[k].memSize <= start
    BY <1>2, <1>12, Regions
  <2>2. processes[k].memStart + o < start
    BY <2>1, <1>5, <1>11
  <2>3. processes[k].memStart + o \notin start .. start + (end - start) - 1
    BY <2>2, <1>5, <1>10
  <2> HIDE DEF start, size
  <2> QED BY <2>3, <1>6, <1>11 DEF Copied
<1>13. ASSUME k > idx
       PROVE  ram'[processes[k].memStart - size + o] = ram[processes[k].memStart + o]
  <2> DEFINE a == processes[k].memStart - size + o
  <2>1. /\ start + size <= processes[k].memStart
        /\ processes[k].memStart + processes[k].memSize
              <= processes[last].memStart + processes[last].memSize
    <3>1. start + size <= processes[k].memStart
      BY <1>2, <1>13, Regions
    <3>2. k <= last
      BY <1>1, <1>11 DEF User
    <3>3. CASE k = last
      BY <3>1, <3>3, <1>7
    <3>4. CASE k < last
      <4>1. processes[k].memStart + processes[k].memSize <= processes[last].memStart
        BY <3>4, <1>7, Regions
      <4>2. processes[last].memSize >= 0
        BY <1>7, Regions
      <4> QED BY <3>1, <4>1, <4>2, <1>7, <1>11
    <3> QED BY <3>1, <3>2, <3>3, <3>4, <1>1, <1>11
  <2>2. idx < last
    BY <1>1, <1>2, <1>11, <1>13 DEF User
  <2>3. a \in Int /\ a >= start /\ a < end
    BY <2>1, <2>2, <1>5, <1>7, <1>8, <1>11
  <2>4. a \in Addr
    <3>1. a <= processes[k].memStart + o /\ a >= 0
      BY <2>3, <1>5, <1>11
    <3> QED BY <3>1, <2>3, <1>10, <1>11 DEF Addr
  <2>5. a \in start .. start + (end - start) - 1
    BY <2>3, <1>5, <1>10
  <2>6. a - start + (start + size) = processes[k].memStart + o
    BY <1>5, <1>11
  <2> HIDE DEF start, size, a
  <2>7. ram'[a] = ram[a - start + (start + size)]
    BY <2>4, <2>5, <2>6, <1>6, <1>11 DEF Copied
  <2> QED BY <2>6, <2>7 DEF a
<1> QED BY <1>5, <1>12, <1>13

\* What a process sees is read from the region recorded in its slot.
LEMMA MemOfSlot ==
    IInv => \A i \in User : \A p : processes[i].pid = p =>
                MemOf(p) = [o \in 0 .. processes[i].memSize - 1 |->
                               ram[processes[i].memStart + o]]
BY IndexOfPid DEF MemOf

LEMMA MemOfSlotNext ==
    IInv' => (\A i \in User : \A p : processes[i].pid = p =>
                MemOf(p) = [o \in 0 .. processes[i].memSize - 1 |->
                               ram[processes[i].memStart + o]])'
BY MemOfSlot, PTL

\* Nothing moves, and the bytes of one process stay.
LEMMA SameMem ==
    ASSUME IInv, IInv', KeepsPlaces, NEW i \in User, NEW p, processes[i].pid = p,
           \A o \in 0 .. processes[i].memSize - 1 :
              ram'[processes[i].memStart + o] = ram[processes[i].memStart + o]
    PROVE  MemOf(p)' = MemOf(p)
<1>1. /\ i \in User' /\ processes'[i].pid = p
      /\ processes'[i].memStart = processes[i].memStart
      /\ processes'[i].memSize = processes[i].memSize
  BY DEF KeepsPlaces
<1>2. MemOf(p) = [o \in 0 .. processes[i].memSize - 1 |-> ram[processes[i].memStart + o]]
  BY MemOfSlot
<1>3. MemOf(p)' = [o \in 0 .. processes'[i].memSize - 1 |-> ram'[processes'[i].memStart + o]]
  BY <1>1, MemOfSlotNext
<1> QED BY <1>1, <1>2, <1>3

\* A byte stored in the region of one process is in nobody else's.
LEMMA StoredElsewhere ==
    ASSUME IInv, InRam, NEW k \in User, NEW a \in Int, NEW cell,
           processes[k].memStart <= a, a < processes[k].memStart + processes[k].memSize,
           ram' = Stored(a, cell),
           NEW i \in User, i # k, NEW o \in 0 .. processes[i].memSize - 1
    PROVE  ram'[processes[i].memStart + o] = ram[processes[i].memStart + o]
<1>1. /\ processes[i].memStart \in Int /\ processes[i].memSize \in Int
      /\ processes[k].memStart \in Int /\ processes[k].memSize \in Int
      /\ i \in Nat /\ k \in Nat /\ o \in Int
      /\ o >= 0 /\ o < processes[i].memSize
      /\ processes[i].memStart + o \in Addr
  BY Regions
<1>2. i < k => processes[i].memStart + processes[i].memSize <= processes[k].memStart
  BY Regions
<1>3. k < i => processes[k].memStart + processes[k].memSize <= processes[i].memStart
  BY Regions
<1>4. i < k \/ k < i
  BY <1>1
<1>5. processes[i].memStart + o # a
  BY <1>1, <1>2, <1>3, <1>4
<1> QED BY <1>1, <1>5 DEF Stored

\* What is typed for an undisturbed request lies in the reader's buffer.
LEMMA KeysInRegion ==
    ASSUME IInv, InputInv, Keystroke, ~disturbed
    PROVE  /\ inputWaintingPID \in User
           /\ processes[inputWaintingPID].pid = reader
           /\ \E a \in Int, cell \in Cell :
                 /\ processes[inputWaintingPID].memStart <= a
                 /\ a < processes[inputWaintingPID].memStart
                           + processes[inputWaintingPID].memSize
                 /\ processBufferLoc <= a /\ a < processBufferLoc + processBufferSize
                 /\ ram' = Stored(a, cell)
<1> DEFINE w == inputWaintingPID
<1>1. processWaitingForInput /\ PS2KBDISR
  BY DEF Keystroke, PS2KBDISR, KbdEnter, KbdReturn, KbdChar
<1>2. Serves(w) /\ processBufferPos < processBufferSize /\ processBufferPos >= 0
  BY <1>1 DEF InputInv, Undisturbed
<1>3. /\ w \in User /\ processes[w].pid = reader
      /\ processes[w].memStart <= processBufferLoc
      /\ processBufferLoc + processBufferSize <= processes[w].memStart + processes[w].memSize
  BY <1>2 DEF Serves
<1>4. /\ processes[w].memStart \in Int /\ processes[w].memSize \in Int
      /\ processBufferPos \in Int /\ processBufferSize \in Int /\ processBufferLoc \in Int
  <2>1. TypeOK /\ w \in Slots
    BY <1>3, Types DEF IInv
  <2> QED BY <2>1, Fields DEF TypeOK, KbdTypeOK
<1>5. PICK a \in {processBufferLoc + processBufferPos, processBufferLoc + processBufferPos - 1} :
         /\ ram' = Stored(a, Nul) \/ ram' = Stored(a, Typed)
         /\ a = processBufferLoc + processBufferPos - 1 => processBufferPos > 0
  <2>1. CASE KbdEnter
    <3>1. ram' = Stored(processBufferLoc + processBufferPos, Nul)
      BY <2>1 DEF KbdEnter
    <3>2. processBufferLoc + processBufferPos # processBufferLoc + processBufferPos - 1
      BY <1>4
    <3> QED BY <3>1, <3>2
  <2>2. CASE KbdReturn
    <3>1. /\ ram' = Stored(processBufferLoc + processBufferPos - 1, Nul)
          /\ processBufferPos > 0
      BY <2>2 DEF KbdReturn
    <3> QED BY <3>1
  <2>3. CASE KbdChar
    <3>1. ram' = Stored(processBufferLoc + processBufferPos, Typed)
      BY <2>3 DEF KbdChar
    <3>2. processBufferLoc + processBufferPos # processBufferLoc + processBufferPos - 1
      BY <1>4
    <3> QED BY <3>1, <3>2
  <2> QED BY <1>1, <2>1, <2>2, <2>3 DEF PS2KBDISR
<1>6. /\ a \in Int
      /\ processBufferLoc <= a /\ a < processBufferLoc + processBufferSize
  BY <1>2, <1>3, <1>4, <1>5
<1>7. /\ processes[w].memStart <= a /\ a < processes[w].memStart + processes[w].memSize
  BY <1>3, <1>4, <1>6
<1>8. Nul \in Cell /\ Typed \in Cell
  BY DEF Nul, Typed, Cell
<1> HIDE DEF w
<1>9. \E x \in Int, cell \in Cell :
         /\ processes[w].memStart <= x
         /\ x < processes[w].memStart + processes[w].memSize
         /\ processBufferLoc <= x /\ x < processBufferLoc + processBufferSize
         /\ ram' = Stored(x, cell)
  BY <1>5, <1>6, <1>7, <1>8
<1> QED BY <1>3, <1>9 DEF w

\* An exit brings the memory of the others down unchanged.
LEMMA ExitKeepsMem ==
    ASSUME IInv, IInv', InRam, SC_EXIT,
           NEW i \in User, NEW j \in User', NEW p,
           processes[i].pid = p, processes'[j].pid = p
    PROVE  MemOf(p)' = MemOf(p)
<1> DEFINE idx == schedulerProcessAt
<1>1. /\ TypeOK /\ idx \in Nat /\ Current.memSize \in Int
      /\ processes \in [Slots -> ProcessEntry]
      /\ \A k \in User : k \in Slots /\ k \in Nat
  BY Types, ExitMoves DEF IInv
<1>2. j \in User /\ j \in Nat
  BY <1>1, ExitMoves
<1>3. MemOf(p) = [o \in 0 .. processes[i].memSize - 1 |-> ram[processes[i].memStart + o]]
  BY MemOfSlot
<1>4. MemOf(p)' = [o \in 0 .. processes'[j].memSize - 1 |-> ram'[processes'[j].memStart + o]]
  BY MemOfSlotNext
<1>5. CASE j < idx
  <2>1. processes'[j] = processes[j]
    BY <1>5, ExitMoves
  <2>2. j = i
    <3>1. Index(p) = j /\ Index(p) = i
      BY <2>1, <1>2, IndexOfPid
    <3> QED BY <3>1
  <2>3. \A o \in 0 .. processes[i].memSize - 1 :
           ram'[processes[i].memStart + o] = ram[processes[i].memStart + o]
    BY <2>2, <1>5, ExitMovesBytes
  <2> QED BY <2>1, <2>2, <2>3, <1>3, <1>4
<1>6. CASE j >= idx
  <2>1. j + 1 \in User /\ processes'[j] = [processes[j + 1] EXCEPT !.memStart = @ - Current.memSize]
    BY <1>6, ExitMoves
  <2>2. /\ processes'[j].pid = processes[j + 1].pid
        /\ processes'[j].memSize = processes[j + 1].memSize
        /\ processes'[j].memStart = processes[j + 1].memStart - Current.memSize
    BY <2>1, <1>1 DEF ProcessEntry
  <2>3. j + 1 = i
    <3>1. Index(p) = j + 1 /\ Index(p) = i
      BY <2>1, <2>2, IndexOfPid
    <3> QED BY <3>1
  <2>4. i > idx
    BY <2>3, <1>1, <1>2, <1>6
  <2>5. \A o \in 0 .. processes[i].memSize - 1 :
           ram'[processes[i].memStart - Current.memSize + o] = ram[processes[i].memStart + o]
    BY <2>4, ExitMovesBytes
  <2> QED BY <2>2, <2>3, <2>5, <1>3, <1>4
<1> QED BY <1>1, <1>2, <1>5, <1>6

\* A new process is loaded behind everybody's region.
LEMMA SpawnKeepsMem ==
    ASSUME IInv, IInv', InRam, NEW fileSize \in ImageSizes, SC_SPAWNPROC(fileSize),
           NEW i \in User, NEW p, processes[i].pid = p
    PROVE  MemOf(p)' = MemOf(p)
<1>1. KeepsPlaces
  BY SpawnKeepsWaiting DEF KeepsWaiting, KeepsPlaces
<1>2. CASE AllocFault(fileSize + StackSize) # "no"
  <2>1. ram' = ram
    BY <1>2 DEF SC_SPAWNPROC, memVars
  <2> QED BY <2>1, <1>1, SameMem
<1>3. CASE AllocFault(fileSize + StackSize) = "no"
  <2> DEFINE last == processCount - 1
  <2>1. ram' = Loaded(ram, AllocAddr, fileSize, NewPid)
    BY <1>3 DEF SC_SPAWNPROC, SpawnProcess
  <2>2. /\ processCount \in Nat /\ memIndex = processCount + 2
        /\ last \in User /\ last \in 0 .. processCount - 1 /\ last + 2 = memIndex - 1
    BY Types DEF IInv, TablesAgree, InitReady, User
  <2>3. AllocAddr = processes[last].memStart + processes[last].memSize
    BY <2>2 DEF IInv, TablesAgree, AllocAddr
  <2>4. /\ processes[last].memStart \in Int /\ processes[last].memSize \in Int
        /\ processes[last].memSize >= 0
        /\ processes[i].memStart \in Int /\ processes[i].memSize \in Int
        /\ i \in Nat
    BY <2>2, Regions
  <2>5. processes[i].memStart + processes[i].memSize <= AllocAddr
    <3>1. i <= last
      BY <2>2, <2>4 DEF User
    <3>2. CASE i = last
      BY <3>2, <2>3, <2>4
    <3>3. CASE i < last
      <4>1. processes[i].memStart + processes[i].memSize <= processes[last].memStart
        BY <3>3, <2>2, Regions
      <4> QED BY <4>1, <2>3, <2>4
    <3> QED BY <3>1, <3>2, <3>3, <2>2, <2>4
  <2>6. ASSUME NEW o \in 0 .. processes[i].memSize - 1
        PROVE  ram'[processes[i].memStart + o] = ram[processes[i].memStart + o]
    <3>1. processes[i].memStart + o \in Addr
      BY Regions
    <3>2. processes[i].memStart + o < AllocAddr /\ AllocAddr \in Int
      BY <2>3, <2>4, <2>5
    <3>3. processes[i].memStart + o \notin AllocAddr .. AllocAddr + fileSize - 1
      BY <3>2, <2>4
    <3> QED BY <3>1, <3>3, <2>1 DEF Loaded
  <2> QED BY <2>6, <1>1, SameMem
<1> QED BY <1>2, <1>3

\* Every step but the process's own stores and an undisturbed reader's keys leaves
\* its memory as it is.
LEMMA MemStep ==
    ASSUME KernelInv, IInv', [Next]_vars,
           NEW p \in Pids \cap Pids', MemOf(p) # MemOf(p)'
    PROVE  \/ p = cpu.owner /\ ProgramStores
           \/ Keystroke /\ (p = reader \/ disturbed)
<1>1. IInv /\ InputInv /\ InRam
  BY DEF KernelInv
<1>2. PICK i \in User : processes[i].pid = p
  BY DEF Pids
<1>3. PICK j \in User' : processes'[j].pid = p
  BY DEF Pids
<1>4. /\ schedulerProcessAt \in Slots /\ processes \in [Slots -> ProcessEntry]
      /\ ~processes[1].waiting
  BY <1>1, Types DEF IInv, InitReady
<1>5. ~SC_EXIT
  BY <1>1, <1>2, <1>3, ExitKeepsMem
<1>6. KeepsPlaces
  BY <1>1, <1>5, OnlyExitsMove
<1>7. ram' # ram
  BY <1>1, <1>2, <1>6, SameMem
<1>8. ASSUME NEW k \in User, NEW a \in Int, NEW cell,
             processes[k].memStart <= a, a < processes[k].memStart + processes[k].memSize,
             ram' = Stored(a, cell)
      PROVE  i = k
  <2> SUFFICES ASSUME i # k PROVE FALSE
    OBVIOUS
  <2>1. \A o \in 0 .. processes[i].memSize - 1 :
           ram'[processes[i].memStart + o] = ram[processes[i].memStart + o]
    BY <1>1, <1>8, StoredElsewhere
  <2> QED BY <2>1, <1>1, <1>2, <1>6, SameMem
<1>9. ASSUME cpu.owner >= 0, NEW offset \in Nat, offset < Current.memSize, NEW cell,
             ram' = Stored(Current.memStart + offset, cell)
      PROVE  p = cpu.owner
  <2>1. schedulerProcessAt \in User /\ cpu.owner = processes[schedulerProcessAt].pid
    BY <1>1, <1>9 DEF IInv, RunningIsCurrent, Current
  <2>2. Current.memStart \in Int /\ Current.memSize \in Int
    BY <1>1, <2>1, Regions DEF Current
  <2>3. /\ Current.memStart + offset \in Int
        /\ Current.memStart <= Current.memStart + offset
        /\ Current.memStart + offset < Current.memStart + Current.memSize
    BY <2>2, <1>9
  <2>4. i = schedulerProcessAt
    BY <2>1, <2>3, <1>8, <1>9 DEF Current
  <2> QED BY <2>1, <2>4, <1>2
<1>10. MsgOffset \in Nat /\ Offsets \subseteq Nat
  BY KernelAssumption
<1>11. ASSUME NEW k \in Addressees \cap (0 .. processCount - 1), NEW body \in Bodies,
              SC_MSG_SEND(processes[k].pid, body)
       PROVE  p = cpu.owner /\ ProgramStores
  <2>1. p = cpu.owner
    BY <1>9, <1>10, <1>11 DEF SC_MSG_SEND, UserRuns
  <2> QED BY <2>1, <1>11 DEF ProgramStores
<1>12. ASSUME SC_MSG_POP
       PROVE  p = cpu.owner /\ ProgramStores
  <2>1. p = cpu.owner
    BY <1>9, <1>10, <1>12 DEF SC_MSG_POP, UserRuns
  <2> QED BY <2>1, <1>12 DEF ProgramStores
<1>13. ASSUME NEW offset \in Offsets, UserStore(offset)
       PROVE  p = cpu.owner /\ ProgramStores
  <2>1. cpu.owner >= 0 /\ ldtBase = Current.memStart
    BY <1>1, <1>13 DEF UserStore, UserRuns, IInv, RunningIsCurrent
  <2>2. p = cpu.owner
    BY <2>1, <1>9, <1>10, <1>13 DEF UserStore
  <2> QED BY <2>2, <1>13 DEF ProgramStores
<1>14. ASSUME Keystroke
       PROVE  p = reader \/ disturbed
  <2> SUFFICES ASSUME ~disturbed PROVE p = reader
    OBVIOUS
  <2>1. i = inputWaintingPID /\ processes[inputWaintingPID].pid = reader
    BY <1>1, <1>8, <1>14, KeysInRegion
  <2> QED BY <2>1, <1>2
<1>15. ASSUME NEW fileSize \in ImageSizes, SC_SPAWNPROC(fileSize)
       PROVE  FALSE
  BY <1>1, <1>2, <1>15, SpawnKeepsMem
<1>16. ~PITISR
  BY <1>7 DEF PITISR, memVars
<1>17. ASSUME NEW offset, NEW size, SC_GETUINPUT(offset, size)
       PROVE  FALSE
  BY <1>7, <1>17 DEF SC_GETUINPUT, memVars
<1>18. ASSUME NEW vector, RaiseException(vector)
       PROVE  FALSE
  <2>1. Index(schedulerProcessAt) = -1
    BY <1>1, <1>4, IndexIsNoPid
  <2> QED BY <2>1, <1>7, <1>18 DEF RaiseException, Kill, memVars
<1>19. ASSUME NEW val, NEW ebp, UserCompute(val, ebp)
       PROVE  FALSE
  BY <1>7, <1>19 DEF UserCompute, memVars
<1>20. ASSUME UNCHANGED vars
       PROVE  FALSE
  BY <1>7, <1>20 DEF vars, memVars
<1> QED BY <1>5, <1>11, <1>12, <1>13, <1>14, <1>15, <1>16, <1>17, <1>18, <1>19, <1>20
        DEF Next, SystemCall, Program

\* A process finds its memory as it left it, but for its own stores and what is
\* typed for it, however often exits have moved it: regions are disjoint, lie
\* in RAM, and an exit copies each of them whole.
THEOREM MemoryKept ==
    ASSUME BuffersHold, RamHolds
    PROVE  Spec => MemoryPreserved
<1>1. ASSUME KernelInv, KernelInv', [Next]_vars
      PROVE  \A p \in Pids \cap Pids' :
                MemOf(p) # MemOf(p)' => \/ p = cpu.owner /\ ProgramStores
                                        \/ Keystroke /\ (p = reader \/ disturbed)
  <2>1. IInv'
    BY <1>1 DEF KernelInv
  <2> QED BY <1>1, <2>1, MemStep
<1> QED BY <1>1, KernelInductive, PTL DEF Spec, MemoryPreserved

=============================================================================
