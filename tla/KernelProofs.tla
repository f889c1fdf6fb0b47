---------------------------- MODULE KernelProofs ----------------------------
(***************************************************************************)
(* Proofs that the kernel's safety invariants hold for every size of its   *)
(* tables, of the memory and of the programs.  All follow from IInv, which *)
(* is inductive; one lemma per kind of step shows that IInv is preserved.  *)
(* On it stands InputInv, about the request for input.                     *)
(***************************************************************************)
EXTENDS KernelSafety, FiniteSets, FiniteSetTheorems, WellFoundedInduction, TLAPS

-----------------------------------------------------------------------------

(***************************************************************************)
(* Searches                                                                *)
(***************************************************************************)

\* A set of naturals has a least element, so the loops that stop at the first
\* match (freeMem, getProcessIndexFromPID, getNextProcessDry) return a match.
LEMMA LeastIsLeast ==
    ASSUME NEW S \in SUBSET Nat, S # {}
    PROVE  /\ Least(S) \in S
           /\ \A y \in S : Least(S) <= y
<1> DEFINE T == {0 .. k : k \in S}
           R == StrictSubsetOrdering(Nat)
<1>1. IsWellFoundedOn(R, FiniteSubsetsOf(Nat))
  BY FS_StrictSubsetOrderingWellFounded
<1>2. T \subseteq FiniteSubsetsOf(Nat) /\ T # {}
  <2>1. \A k \in S : IsFiniteSet(0 .. k) /\ 0 .. k \in SUBSET Nat
    BY FS_Interval
  <2> QED BY <2>1 DEF FiniteSubsetsOf
<1>3. PICK X \in T : \A Y \in T : ~(<<Y, X>> \in R)
  <2> HIDE DEF R, T
  <2> QED BY <1>1, <1>2, WFMin
<1>4. PICK x \in S : X = 0 .. x
  BY <1>3
<1>5. \A y \in S : x <= y
  <2>1. SUFFICES ASSUME NEW y \in S, y < x PROVE FALSE
    OBVIOUS
  <2>2. 0 .. y \subseteq X /\ 0 .. y # X
    <3>1. x \in X /\ x \notin 0 .. y
      BY <1>4, <2>1
    <3>2. 0 .. y \subseteq X
      BY <1>4, <2>1
    <3> QED BY <3>1, <3>2
  <2>3. <<0 .. y, X>> \in R
    BY <2>2, <1>4 DEF StrictSubsetOrdering
  <2> QED BY <2>3, <1>3
<1> QED BY <1>5 DEF Least

\* The types that the proofs below use, by themselves: the provers do better
\* without the rest of TypeOK.
LEMMA Types ==
    ASSUME TypeOK
    PROVE  /\ processes \in [Slots -> ProcessEntry]
           /\ processCount \in Nat /\ processCount <= ProcSlots
           /\ schedulerProcessAt \in Nat /\ schedulerProcessAt \in Slots
           /\ tick \in Nat
           /\ \A i \in 0 .. processCount - 1 : i \in Nat /\ i \in Slots
           /\ \A i \in User : i \in Nat /\ i > 0 /\ i \in Slots /\ i \in 0 .. processCount - 1
           /\ memList \in [MemSlots -> MemEntry]
           /\ memIndex \in Nat /\ memIndex >= 1 /\ memIndex <= MemListSize
           /\ ram \in [Addr -> Cell]
           /\ cpu \in Context
<1>1. ProcSlots \in Nat /\ MemListSize \in Nat
  BY ProcessAssumption, MemoryAssumption
<1>2. MemTypeOK /\ ProcTypeOK /\ cpu \in Context
  BY DEF TypeOK
<1> QED BY <1>1, <1>2 DEF MemTypeOK, ProcTypeOK, Slots, User

\* The fields of the table's entries.
LEMMA Fields ==
    ASSUME TypeOK, NEW i \in Slots
    PROVE  /\ processes[i] \in ProcessEntry
           /\ processes[i].pid \in Int
           /\ processes[i].waiting \in BOOLEAN
           /\ processes[i].memStart \in Int
           /\ processes[i].memSize \in Int
           /\ processes[i].regs \in Context
           /\ processes[i].regs.owner \in Int
           /\ processes[i].IPCQueueSize \in 0 .. QueueSize
<1>1. processes \in [Slots -> ProcessEntry]
  BY Types
<1>2. processes[i] \in ProcessEntry
  BY <1>1
<1> QED BY <1>2 DEF ProcessEntry, Context

\* getProcessIndexFromPID returns -1 or the slot of a process with that pid.
LEMMA IndexFound ==
    ASSUME TypeOK, NEW pid
    PROVE  /\ Index(pid) # -1 => Index(pid) \in User /\ processes[Index(pid)].pid = pid
           /\ Index(pid) = -1 => \A i \in User : processes[i].pid # pid
<1>0. \A i \in User : i \in Nat /\ i > 0
  BY Types
<1>1. IndexesOf(pid) = {i \in User : processes[i].pid = pid}
  BY DEF IndexesOf, User
<1>2. IndexesOf(pid) \in SUBSET Nat
  BY <1>0, <1>1
<1>3. CASE IndexesOf(pid) = {}
  BY <1>1, <1>3 DEF Index
<1>4. CASE IndexesOf(pid) # {}
  <2>1. Least(IndexesOf(pid)) \in IndexesOf(pid)
    BY <1>2, <1>4, LeastIsLeast
  <2>2. Index(pid) = Least(IndexesOf(pid))
    BY <1>4 DEF Index
  <2>3. Index(pid) \in User /\ processes[Index(pid)].pid = pid
    BY <2>1, <2>2, <1>1
  <2>4. Index(pid) # -1
    BY <2>3, <1>0
  <2> QED BY <2>3, <2>4
<1> QED BY <1>3, <1>4

\* Looking a process up by its own pid finds its own slot.
LEMMA OwnIndex ==
    ASSUME IInv, NEW i \in User
    PROVE  Index(processes[i].pid) = i
<1> DEFINE pid == processes[i].pid
<1>1. TypeOK /\ PidsAscend
  BY DEF IInv
<1>2. Index(pid) # -1
  BY <1>1, IndexFound
<1>3. Index(pid) \in User /\ processes[Index(pid)].pid = pid
  BY <1>1, <1>2, IndexFound
<1>4. \A j \in User : j \in Nat /\ j \in 0 .. processCount - 1 /\ processes[j].pid \in Int
  BY <1>1, Types, Fields
<1>5. \A j \in User : j < i \/ i < j => processes[j].pid # processes[i].pid
  BY <1>1, <1>4 DEF PidsAscend
<1> QED BY <1>3, <1>4, <1>5

\* No index is a pid: looking an index up finds nobody.
LEMMA IndexIsNoPid ==
    ASSUME IInv, NEW i \in Slots
    PROVE  Index(i) = -1
<1>1. TypeOK /\ PidsHigh
  BY DEF IInv
<1>2. \A j \in User : j \in 0 .. processCount - 1 /\ processes[j].pid \in Int
  BY <1>1, Types, Fields
<1>3. \A j \in User : processes[j].pid >= ProcSlots
  BY <1>1, <1>2 DEF PidsHigh
<1>4. i < ProcSlots /\ i \in Int /\ ProcSlots \in Int
  BY ProcessAssumption DEF Slots
<1>5. \A j \in User : processes[j].pid # i
  BY <1>2, <1>3, <1>4
<1> QED BY <1>1, <1>5, IndexFound

\* freeMem finds the entry of the process whose start address it is given.
LEMMA OwnEntry ==
    ASSUME IInv, NEW i \in User
    PROVE  /\ EntriesAt(processes[i].memStart) # {}
           /\ Least(EntriesAt(processes[i].memStart)) = i + 2
           /\ processes[i].memStart > 0
<1>0. TypeOK /\ TablesAgree /\ Packed /\ RegionsDisjoint /\ SizesPositive
  BY DEF IInv
<1>1. /\ processCount \in Nat /\ memIndex = processCount + 2
      /\ i \in Nat /\ i > 0 /\ i \in 0 .. processCount - 1
      /\ \A j \in 0 .. processCount - 1 : processes[j].memStart \in Int /\ processes[j].memSize \in Int
  BY <1>0, Types, Fields DEF TablesAgree
<1>2. processes[i].memStart > 0
  BY <1>0, <1>1, MemoryAssumption DEF RegionsDisjoint
<1>3. \A j \in 0 .. processCount - 1 : memList[j + 2].startAddr = processes[j].memStart
  BY <1>0 DEF TablesAgree
<1>4. \A j \in 0 .. processCount - 1 : j # i => processes[j].memStart # processes[i].memStart
  BY <1>0, <1>1 DEF RegionsDisjoint, SizesPositive
<1>5. memList[0].startAddr = 0 /\ memList[1].startAddr = 0
  BY <1>0 DEF Packed
<1>6. \A k \in 0 .. memIndex - 1 : memList[k].startAddr = processes[i].memStart => k = i + 2
  <2> SUFFICES ASSUME NEW k \in 0 .. memIndex - 1, memList[k].startAddr = processes[i].memStart
               PROVE  k = i + 2
    OBVIOUS
  <2>1. k # 0 /\ k # 1
    BY <1>2, <1>5
  <2>2. k - 2 \in 0 .. processCount - 1 /\ (k - 2) + 2 = k
    BY <2>1, <1>1
  <2>3. processes[k - 2].memStart = processes[i].memStart
    BY <2>2, <1>3
  <2> QED BY <2>2, <2>3, <1>4, <1>1
<1>7. i + 2 \in 0 .. memIndex - 1 /\ memList[i + 2].startAddr = processes[i].memStart
  BY <1>1, <1>3
<1>8. EntriesAt(processes[i].memStart) = {i + 2}
  BY <1>6, <1>7 DEF EntriesAt
<1>9. {i + 2} \in SUBSET Nat /\ {i + 2} # {}
  BY <1>1
<1>10. Least({i + 2}) \in {i + 2}
  BY <1>9, LeastIsLeast
<1> QED BY <1>2, <1>8, <1>10

-----------------------------------------------------------------------------

(***************************************************************************)
(* Steps that leave the table's processes in their places                  *)
(***************************************************************************)

TableInv ==
    /\ TablesAgree
    /\ Packed
    /\ SizesPositive
    /\ RegionsDisjoint
    /\ PidsAscend

\* Neither table gains or loses an entry, nor does an entry move.
KeepsTable ==
    /\ UNCHANGED <<memList, memIndex, processCount>>
    /\ \A i \in Slots : /\ processes'[i].pid = processes[i].pid
                        /\ processes'[i].memStart = processes[i].memStart
                        /\ processes'[i].memSize = processes[i].memSize

\* The invariants about the tables only depend on what KeepsTable keeps.
LEMMA TableKept ==
    ASSUME IInv, KeepsTable
    PROVE  TableInv'
<1>1. TypeOK /\ TableInv
  BY DEF IInv, TableInv
<1>2. /\ memList' = memList /\ memIndex' = memIndex /\ processCount' = processCount
      /\ \A i \in 0 .. processCount - 1 :
            /\ processes'[i].pid = processes[i].pid
            /\ processes'[i].memStart = processes[i].memStart
            /\ processes'[i].memSize = processes[i].memSize
  BY <1>1, Types DEF KeepsTable
<1>3. TablesAgree' /\ Packed' /\ SizesPositive'
  BY <1>1, <1>2 DEF TableInv, TablesAgree, Packed, SizesPositive
<1>4. RegionsDisjoint' /\ PidsAscend'
  BY <1>1, <1>2 DEF TableInv, RegionsDisjoint, PidsAscend
<1> QED BY <1>3, <1>4 DEF TableInv

\* A step that does not touch the scheduler's state either: messages, keys, a
\* program's own work, and the exception that kills nobody or halts.
Calm ==
    /\ KeepsTable
    /\ UNCHANGED <<schedulerProcessAt, tick, saveRegs, ldtBase>>
    /\ halted' \in {halted, "panic"}
    /\ cpu'.owner = cpu.owner
    /\ \A i \in Slots : /\ processes'[i].regs.owner = processes[i].regs.owner
                        /\ processes'[i].waiting => processes[i].waiting

LEMMA CalmKeepsIInv ==
    ASSUME IInv, Calm, TypeOK'
    PROVE  IInv'
<1>1. TypeOK /\ PidsHigh /\ PidsPast /\ RunningIsCurrent /\ ContextsOwned
      /\ InitReady /\ SchedulerNeverHangs
  BY DEF IInv
<1>2. TableInv'
  BY TableKept DEF Calm
<1>3. /\ processCount' = processCount /\ schedulerProcessAt' = schedulerProcessAt
      /\ tick' = tick /\ saveRegs' = saveRegs /\ ldtBase' = ldtBase /\ halted' \in {halted, "panic"}
      /\ cpu'.owner = cpu.owner /\ User' = User
  BY DEF Calm, KeepsTable, User
<1>4. \A i \in Slots :
         /\ processes'[i].pid = processes[i].pid
         /\ processes'[i].memStart = processes[i].memStart
         /\ processes'[i].regs.owner = processes[i].regs.owner
         /\ processes'[i].waiting => processes[i].waiting
  BY DEF Calm, KeepsTable
<1>5. /\ \A i \in 0 .. processCount - 1 : i \in Slots
      /\ \A i \in User : i \in Slots
      /\ schedulerProcessAt \in Slots
      /\ processCount \in Nat
  BY <1>1, Types
<1>6. PidsHigh'
  BY <1>1, <1>3, <1>4, <1>5 DEF PidsHigh
<1>7. PidsPast'
  BY <1>1, <1>3, <1>4, <1>5 DEF PidsPast
<1>8. RunningIsCurrent'
  BY <1>1, <1>3, <1>4, <1>5 DEF RunningIsCurrent, Current
<1>9. ContextsOwned'
  BY <1>1, <1>3, <1>4, <1>5 DEF ContextsOwned
<1>10. InitReady' /\ SchedulerNeverHangs'
  <2>1. 1 \in User
    BY <1>1, <1>5 DEF InitReady, User
  <2> QED BY <2>1, <1>1, <1>3, <1>4, <1>5 DEF InitReady, SchedulerNeverHangs
<1> QED BY <1>2, <1>6, <1>7, <1>8, <1>9, <1>10 DEF IInv, TableInv

-----------------------------------------------------------------------------

(***************************************************************************)
(* The task switch                                                         *)
(***************************************************************************)

\* The process chosen is in the table and does not wait.
LEMMA NextIsReady ==
    ASSUME TypeOK, NEW procs, Ready(procs) # {}
    PROVE  NextProcess(procs) \in User /\ ~procs[NextProcess(procs)].waiting
<1> DEFINE after == {i \in Ready(procs) : i > schedulerProcessAt}
<1>1. \A i \in User : i \in Nat
  BY Types
<1>2. Ready(procs) = {i \in User : ~procs[i].waiting}
  BY DEF Ready, User
<1>3. Ready(procs) \in SUBSET Nat /\ after \in SUBSET Nat
  BY <1>1, <1>2
<1>4. Least(Ready(procs)) \in Ready(procs)
  BY <1>3, LeastIsLeast
<1>5. after # {} => Least(after) \in Ready(procs)
  BY <1>3, LeastIsLeast
<1>6. NextProcess(procs) \in Ready(procs)
  BY <1>4, <1>5 DEF NextProcess
<1> QED BY <1>2, <1>6

\* A switch from the table procs changes saved contexts only.
LEMMA SwitchKeepsEntries ==
    ASSUME IInv, NEW procs \in [Slots -> ProcessEntry], ~procs[1].waiting, SwitchFrom(procs)
    PROVE  /\ tick' = Ticked
           /\ \A i \in Slots : /\ processes'[i].pid = procs[i].pid
                               /\ processes'[i].memStart = procs[i].memStart
                               /\ processes'[i].memSize = procs[i].memSize
                               /\ processes'[i].waiting = procs[i].waiting
<1>1. processCount \in Nat /\ processCount >= 2
  BY Types DEF IInv, InitReady
<1>2. Ready(procs) # {}
  BY <1>1 DEF Ready
<1>3. processes' = AfterSave(procs) /\ tick' = Ticked
  BY <1>2 DEF SwitchFrom
<1> QED BY <1>3 DEF AfterSave, Saved, ProcessEntry

\* A switch from a table procs that differs from processes in waiting flags
\* (SC_GETUINPUT sets one) and leaves INIT ready.
LEMMA SwitchKeepsIInv ==
    ASSUME IInv, TypeOK',
           NEW procs \in [Slots -> ProcessEntry],
           \A i \in Slots : /\ procs[i].pid = processes[i].pid
                            /\ procs[i].memStart = processes[i].memStart
                            /\ procs[i].memSize = processes[i].memSize
                            /\ procs[i].regs = processes[i].regs,
           ~procs[1].waiting,
           Running,
           SwitchFrom(procs),
           UNCHANGED <<memList, memIndex, processCount>>
    PROVE  IInv'
<1> DEFINE next == NextProcess(procs)
<1>1. TypeOK /\ PidsHigh /\ PidsPast /\ RunningIsCurrent /\ ContextsOwned
      /\ InitReady /\ SchedulerNeverHangs
  BY DEF IInv
<1>2. /\ \A i \in 0 .. processCount - 1 : i \in Slots
      /\ \A i \in User : i \in Slots /\ i \in 0 .. processCount - 1 /\ i \in Nat /\ i > 0
      /\ schedulerProcessAt \in Slots
      /\ processCount \in Nat
      /\ tick \in Nat
      /\ MaxTick \in Nat
  BY <1>1, Types, KernelAssumption
<1>3. Ready(procs) # {}
  BY <1>1, <1>2 DEF InitReady, Ready
<1>4. next \in User /\ ~procs[next].waiting
  BY <1>1, <1>3, NextIsReady
<1>5. /\ processes' = AfterSave(procs)
      /\ schedulerProcessAt' = next
      /\ saveRegs' = TRUE
      /\ cpu' = processes'[next].regs
      /\ ldtBase' = processes'[next].memStart
      /\ tick' = Ticked
      /\ halted' = halted
  BY <1>3 DEF SwitchFrom
<1>6. \A i \in Slots : /\ processes'[i].pid = processes[i].pid
                       /\ processes'[i].memStart = processes[i].memStart
                       /\ processes'[i].memSize = processes[i].memSize
                       /\ processes'[i].waiting = procs[i].waiting
  BY <1>5 DEF AfterSave, Saved, ProcessEntry
<1>7. \A i \in User : processes'[i].regs.owner = processes[i].pid
  <2>1. CASE ~saveRegs
    BY <2>1, <1>1, <1>2, <1>5 DEF AfterSave, ContextsOwned
  <2>2. CASE saveRegs
    <3>1. \A i \in Slots : i # schedulerProcessAt => processes'[i].regs = processes[i].regs
      BY <2>2, <1>5 DEF AfterSave
    <3>2. schedulerProcessAt \in User => processes'[schedulerProcessAt].regs.owner = cpu.owner
      BY <2>2, <1>2, <1>5 DEF AfterSave, Saved, ProcessEntry, Context
    <3>3. schedulerProcessAt \in User => cpu.owner = processes[schedulerProcessAt].pid
      <4>1. cpu.owner \in Int
        BY <1>1, Types DEF Context
      <4>2. CASE cpu.owner >= 0
        BY <4>2, <1>1 DEF RunningIsCurrent, Current
      <4>3. CASE cpu.owner < 0
        BY <4>3, <2>2, <1>1, <1>2 DEF RunningIsCurrent
      <4> QED BY <4>1, <4>2, <4>3
    <3> QED BY <3>1, <3>2, <3>3, <1>1, <1>2 DEF ContextsOwned
  <2>3. saveRegs \in BOOLEAN
    BY <1>1 DEF TypeOK
  <2> QED BY <2>1, <2>2, <2>3
<1>8. TableInv'
  BY <1>6, TableKept DEF KeepsTable
<1>9. /\ User' = User /\ processCount' = processCount
      /\ tick' \in Nat /\ tick' <= MaxTick /\ tick <= tick'
      /\ tick' < MaxTick => tick' = tick + 1
  BY <1>1, <1>2, <1>5 DEF User, Ticked, PidsHigh
<1>10. PidsHigh'
  BY <1>1, <1>2, <1>6, <1>9, ProcessAssumption DEF PidsHigh
<1>11. PidsPast'
  <2>1. \A i \in 0 .. processCount - 1 : processes[i].pid \in Int
    BY <1>1, <1>2, Fields
  <2> QED BY <2>1, <1>1, <1>2, <1>6, <1>9 DEF PidsPast
<1>12. RunningIsCurrent'
  <2>1. cpu'.owner = processes[next].pid /\ processes[next].pid \in Int /\ processes[next].pid >= 0
    BY <1>1, <1>2, <1>4, <1>5, <1>7, Fields, ProcessAssumption DEF PidsHigh
  <2>2. schedulerProcessAt' \in User' /\ Current' = processes'[next]
    BY <1>4, <1>5, <1>9 DEF Current
  <2> QED BY <2>1, <2>2, <1>2, <1>4, <1>5, <1>6 DEF RunningIsCurrent, WaitStub, KernelMain
<1>13. ContextsOwned'
  BY <1>2, <1>6, <1>7, <1>9 DEF ContextsOwned
<1>14. InitReady' /\ SchedulerNeverHangs'
  <2>1. 1 \in Slots
    BY ProcessAssumption DEF Slots
  <2> QED BY <2>1, <1>1, <1>5, <1>6, <1>9 DEF InitReady, SchedulerNeverHangs
<1> QED BY <1>8, <1>10, <1>11, <1>12, <1>13, <1>14 DEF IInv, TableInv

-----------------------------------------------------------------------------

(***************************************************************************)
(* A process more, a process less                                          *)
(***************************************************************************)

\* spawnProcess appends to both tables, right after the last region, and the
\* pid it gives is above all others.
LEMMA SpawnKeepsIInv ==
    ASSUME IInv, TypeOK', NEW fileSize \in ImageSizes,
           SC_SPAWNPROC(fileSize), AllocFault(fileSize + StackSize) = "no"
    PROVE  IInv'
<1> DEFINE new == processes'[processCount]
           last == processCount - 1
<1>1. TypeOK /\ TableInv /\ PidsHigh /\ PidsPast /\ RunningIsCurrent /\ ContextsOwned
      /\ InitReady /\ SchedulerNeverHangs
  BY DEF IInv, TableInv
<1>2. /\ \A i \in 0 .. processCount - 1 : i \in Nat /\ i \in Slots
      /\ \A i \in User : i \in Slots /\ i \in 0 .. processCount - 1 /\ i \in Nat /\ i > 0
      /\ processCount \in Nat /\ tick \in Nat /\ MaxTick \in Nat
      /\ memIndex \in Nat
  BY <1>1, Types, KernelAssumption
<1>3. /\ processCount < ProcSlots /\ tick < MaxTick
      /\ UNCHANGED <<schedulerProcessAt, tick, saveRegs, cpu, ldtBase, halted>>
      /\ SpawnProcess(fileSize)
      /\ cpu.owner >= 0
  BY DEF SC_SPAWNPROC, UserRuns, cpuVars
<1>4. processCount \in Slots
  BY <1>2, <1>3, ProcessAssumption DEF Slots
<1>5. /\ processCount' = processCount + 1
      /\ \A i \in 0 .. processCount - 1 : processes'[i] = processes[i]
      /\ new = NewEntry(processes[processCount], fileSize, AllocAddr, NewPid)
  BY <1>1, <1>2, <1>3, <1>4, Types DEF SpawnProcess
<1>6. /\ new.pid = tick + processCount
      /\ ~new.waiting
      /\ new.memStart = AllocAddr
      /\ new.memSize = fileSize + StackSize
      /\ new.regs.owner = new.pid
  <2>1. processes[processCount] \in ProcessEntry
    BY <1>1, <1>4, Fields
  <2> QED BY <2>1, <1>5 DEF NewEntry, NewPid, ProcessEntry
<1>7. /\ fileSize + StackSize \in Int /\ fileSize + StackSize > 0
  BY ProcessAssumption
<1>8. /\ memIndex = processCount + 2
      /\ memIndex' = memIndex + 1
      /\ memIndex \in MemSlots
      /\ \A k \in 0 .. memIndex - 1 : k \in MemSlots /\ memList'[k] = memList[k]
      /\ memList'[memIndex] = [startAddr |-> AllocAddr, size |-> fileSize + StackSize]
  <2>1. memIndex < MemListSize
    BY <1>2, MemoryAssumption DEF AllocFault
  <2>2. memList \in [MemSlots -> MemEntry]
    BY <1>1, Types
  <2> QED BY <2>1, <2>2, <1>1, <1>2, <1>3, MemoryAssumption
          DEF SpawnProcess, AllocMem, MemSlots, TableInv, TablesAgree
<1>9. /\ last \in 0 .. processCount - 1
      /\ AllocAddr = processes[last].memStart + processes[last].memSize
  <2>1. last \in 0 .. processCount - 1 /\ last + 2 = memIndex - 1
    BY <1>1, <1>2, <1>8 DEF InitReady
  <2> QED BY <2>1, <1>1 DEF AllocAddr, TableInv, TablesAgree
<1>10. \A i \in 0 .. processCount - 1 :
          /\ processes[i].pid \in Int
          /\ processes[i].memStart \in Int /\ processes[i].memSize \in Int
          /\ processes[i].memStart + processes[i].memSize <= AllocAddr
  <2>1. \A i \in 0 .. processCount - 1 :
           /\ processes[i].pid \in Int
           /\ processes[i].memStart \in Int /\ processes[i].memSize \in Int
    BY <1>1, <1>2, Fields
  <2>2. \A i \in 0 .. processCount - 1 : i < last =>
           processes[i].memStart + processes[i].memSize <= processes[last].memStart
    BY <1>1, <1>9 DEF TableInv, RegionsDisjoint
  <2>3. processes[last].memSize > 0
    BY <1>1, <1>9 DEF TableInv, SizesPositive
  <2>4. \A i \in 0 .. processCount - 1 : i < last \/ i = last
    BY <1>2
  <2> QED BY <2>1, <2>2, <2>3, <2>4, <1>9
<1>11. \A i \in 0 .. processCount' - 1 : i \in 0 .. processCount - 1 \/ i = processCount
  BY <1>2, <1>5
<1>12. TablesAgree'
  <2>1. \A i \in 0 .. processCount - 1 :
           /\ processes'[i].memStart = memList'[i + 2].startAddr
           /\ processes'[i].memSize = memList'[i + 2].size
    <3>1. \A i \in 0 .. processCount - 1 : i + 2 \in 0 .. memIndex - 1
      BY <1>2, <1>8
    <3> QED BY <3>1, <1>1, <1>5, <1>8 DEF TableInv, TablesAgree
  <2>2. /\ processes'[processCount].memStart = memList'[processCount + 2].startAddr
        /\ processes'[processCount].memSize = memList'[processCount + 2].size
    BY <1>6, <1>8
  <2>3. memIndex' = processCount' + 2
    BY <1>2, <1>5, <1>8
  <2>4. \A i \in 0 .. processCount' - 1 :
           /\ processes'[i].memStart = memList'[i + 2].startAddr
           /\ processes'[i].memSize = memList'[i + 2].size
    BY <2>1, <2>2, <1>11
  <2> QED BY <2>3, <2>4 DEF TablesAgree
<1>13. Packed'
  <2>1. memList'[0] = memList[0] /\ memList'[1] = memList[1]
    BY <1>1, <1>2, <1>8 DEF InitReady
  <2>2. \A k \in 2 .. memIndex - 1 :
           memList'[k].startAddr = memList'[k - 1].startAddr + memList'[k - 1].size
    <3>1. \A k \in 2 .. memIndex - 1 : k \in 0 .. memIndex - 1 /\ k - 1 \in 0 .. memIndex - 1
      BY <1>2
    <3> QED BY <3>1, <1>1, <1>8 DEF TableInv, Packed
  <2>3. memList'[memIndex].startAddr = memList'[memIndex - 1].startAddr + memList'[memIndex - 1].size
    <3>1. memIndex - 1 \in 0 .. memIndex - 1
      BY <1>1, <1>2, <1>8 DEF InitReady
    <3> QED BY <3>1, <1>8 DEF AllocAddr
  <2>4. \A k \in 2 .. memIndex' - 1 : k \in 2 .. memIndex - 1 \/ k = memIndex
    BY <1>2, <1>8
  <2> QED BY <2>1, <2>2, <2>3, <2>4, <1>1 DEF TableInv, Packed
<1>14. SizesPositive'
  BY <1>1, <1>5, <1>6, <1>7, <1>11 DEF TableInv, SizesPositive
<1>15. RegionsDisjoint'
  <2>1. AllocAddr \in Int /\ AllocAddr >= KernelSize
    <3>1. processes[last].memStart >= KernelSize
      BY <1>1, <1>9 DEF TableInv, RegionsDisjoint
    <3>2. processes[last].memSize > 0
      BY <1>1, <1>9 DEF TableInv, SizesPositive
    <3> QED BY <3>1, <3>2, <1>9, <1>10, MemoryAssumption
  <2>2. \A i \in 0 .. processCount - 1 : i < processCount /\ ~(processCount < i)
    BY <1>2
  <2> SUFFICES ASSUME NEW i \in 0 .. processCount' - 1, NEW j \in 0 .. processCount' - 1
               PROVE  /\ processes'[i].memStart >= KernelSize
                      /\ i < j => processes'[i].memStart + processes'[i].memSize
                                     <= processes'[j].memStart
    BY DEF RegionsDisjoint
  <2>3. CASE i \in 0 .. processCount - 1 /\ j \in 0 .. processCount - 1
    BY <2>3, <1>1, <1>5 DEF TableInv, RegionsDisjoint
  <2>4. CASE i \in 0 .. processCount - 1 /\ j = processCount
    BY <2>4, <1>1, <1>5, <1>6, <1>10 DEF TableInv, RegionsDisjoint
  <2>5. CASE i = processCount
    BY <2>1, <2>2, <2>5, <1>2, <1>6, <1>11
  <2> QED BY <2>3, <2>4, <2>5, <1>11
<1>16. \A i \in 0 .. processCount - 1 : processes[i].pid < tick + processCount
  <2>1. cpu.owner # WaitStub
    BY <1>3 DEF WaitStub
  <2> QED BY <2>1, <1>1, <1>3 DEF PidsPast
<1>17. PidsAscend'
  <2> SUFFICES ASSUME NEW i \in 0 .. processCount' - 1, NEW j \in 0 .. processCount' - 1, i < j
               PROVE  processes'[i].pid < processes'[j].pid
    BY DEF PidsAscend
  <2>1. i \in 0 .. processCount - 1
    BY <1>2, <1>5
  <2>2. CASE j \in 0 .. processCount - 1
    BY <2>1, <2>2, <1>1, <1>5 DEF TableInv, PidsAscend
  <2>3. CASE j = processCount
    BY <2>1, <2>3, <1>5, <1>6, <1>16
  <2> QED BY <2>2, <2>3, <1>11
<1>18. PidsHigh'
  BY <1>1, <1>2, <1>3, <1>5, <1>6, <1>11, ProcessAssumption DEF PidsHigh
<1>19. PidsPast'
  BY <1>2, <1>3, <1>5, <1>6, <1>10, <1>11, <1>16 DEF PidsPast
<1>20. /\ User \subseteq 0 .. processCount - 1
       /\ \A i \in User' : i \in User \/ i = processCount
       /\ \A i \in User : i \in User'
  BY <1>2, <1>5 DEF User
<1>21. RunningIsCurrent'
  <2>1. schedulerProcessAt \in User
    BY <1>1, <1>3 DEF RunningIsCurrent
  <2>2. Current' = Current
    BY <2>1, <1>3, <1>5, <1>20 DEF Current
  <2> QED BY <2>1, <2>2, <1>1, <1>3, <1>20 DEF RunningIsCurrent
<1>22. ContextsOwned'
  BY <1>1, <1>5, <1>6, <1>20 DEF ContextsOwned
<1>23. InitReady' /\ SchedulerNeverHangs'
  <2>1. 1 \in 0 .. processCount - 1
    BY <1>1, <1>2 DEF InitReady
  <2> QED BY <2>1, <1>1, <1>2, <1>3, <1>5 DEF InitReady, SchedulerNeverHangs
<1> QED BY <1>12, <1>13, <1>14, <1>15, <1>17, <1>18, <1>19, <1>21, <1>22, <1>23 DEF IInv

\* kill() of the running process closes the gap in both tables alike: the
\* entries below it stay, those above it come down by one slot and by its size.
LEMMA ExitKeepsIInv ==
    ASSUME IInv, TypeOK', SC_EXIT
    PROVE  IInv'
<1> DEFINE idx == schedulerProcessAt
           size == processes[idx].memSize
<1>1. TypeOK /\ TableInv /\ PidsHigh /\ PidsPast /\ RunningIsCurrent /\ ContextsOwned
      /\ InitReady /\ SchedulerNeverHangs
  BY DEF IInv, TableInv
<1>2. /\ \A i \in 0 .. processCount - 1 : i \in Nat /\ i \in Slots
      /\ \A i \in User : i \in Slots /\ i \in 0 .. processCount - 1 /\ i \in Nat /\ i > 0
      /\ processCount \in Nat /\ tick \in Nat
      /\ memIndex = processCount + 2
      /\ memIndex <= MemListSize /\ MemListSize \in Nat
      /\ memList \in [MemSlots -> MemEntry]
  BY <1>1, Types, MemoryAssumption DEF TableInv, TablesAgree
<1>3. /\ halted = "no" /\ cpu.owner >= 0 /\ idx # 1
      /\ Kill(Current.pid)
      /\ saveRegs' = FALSE /\ cpu' = [owner |-> WaitStub, val |-> 0, ebp |-> 0]
      /\ UNCHANGED <<schedulerProcessAt, tick, halted>>
  BY DEF SC_EXIT, UserRuns, Running, NotInit
<1>4. idx \in User /\ idx \in Nat /\ idx >= 2 /\ idx <= processCount - 1
  BY <1>1, <1>2, <1>3 DEF RunningIsCurrent, User
<1>5. Index(Current.pid) = idx
  BY <1>4, OwnIndex DEF Current
<1>6. /\ processes' = Closed(idx)
      /\ processCount' = processCount - 1
      /\ FreeMem(processes[idx].memStart)
  BY <1>3, <1>4, <1>5 DEF Kill
<1>7. memList' = Compacted(idx + 2) /\ memIndex' = memIndex - 1
  <2>1. /\ EntriesAt(processes[idx].memStart) # {}
        /\ Least(EntriesAt(processes[idx].memStart)) = idx + 2
        /\ processes[idx].memStart > 0
    BY <1>4, OwnEntry
  <2>2. processes[idx].memStart \in Int
    BY <1>1, <1>2, <1>4, Fields
  <2> QED BY <2>1, <2>2, <1>6 DEF FreeMem
<1>8. /\ \A k \in 0 .. processCount - 1 :
            /\ processes[k] \in ProcessEntry
            /\ processes[k].pid \in Int
            /\ processes[k].memStart \in Int /\ processes[k].memSize \in Int
      /\ size \in Int /\ size > 0
      /\ size = memList[idx + 2].size
  BY <1>1, <1>2, <1>4, Fields DEF TableInv, SizesPositive, TablesAgree
<1>9. \A k \in 0 .. processCount - 2 :
         /\ k < idx => processes'[k] = processes[k]
         /\ k >= idx => /\ k + 1 \in 0 .. processCount - 1
                        /\ processes'[k].pid = processes[k + 1].pid
                        /\ processes'[k].memSize = processes[k + 1].memSize
                        /\ processes'[k].regs = processes[k + 1].regs
                        /\ processes'[k].waiting = processes[k + 1].waiting
                        /\ processes'[k].memStart = processes[k + 1].memStart - size
  <2> SUFFICES ASSUME NEW k \in 0 .. processCount - 2
               PROVE  /\ k < idx => processes'[k] = processes[k]
                      /\ k >= idx => /\ k + 1 \in 0 .. processCount - 1
                                     /\ processes[k + 1] \in ProcessEntry
                                     /\ processes'[k] = [processes[k + 1] EXCEPT
                                                            !.memStart = @ - size]
    BY DEF ProcessEntry
  <2>1. k \in Slots /\ k + 1 \in 0 .. processCount - 1 /\ k < processCount - 1
    BY <1>2
  <2> QED BY <2>1, <1>2, <1>4, <1>6, <1>8 DEF Closed
<1>10. \A k \in 0 .. memIndex - 2 :
          /\ k < idx + 2 => memList'[k] = memList[k]
          /\ k >= idx + 2 => /\ memList'[k].startAddr = memList[k + 1].startAddr - size
                             /\ memList'[k].size = memList[k + 1].size
  <2> SUFFICES ASSUME NEW k \in 0 .. memIndex - 2
               PROVE  /\ k < idx + 2 => memList'[k] = memList[k]
                      /\ k >= idx + 2 => /\ memList[k + 1] \in MemEntry
                                         /\ memList'[k] = [memList[k + 1] EXCEPT
                                                              !.startAddr = @ - size]
    BY DEF MemEntry
  <2>1. k \in MemSlots /\ k + 1 \in MemSlots /\ k < memIndex - 1
    BY <1>2 DEF MemSlots
  <2> QED BY <2>1, <1>2, <1>4, <1>7, <1>8 DEF Compacted
<1>11. /\ \A k \in 0 .. processCount' - 1 : k \in 0 .. processCount - 2 /\ k \in Nat
       /\ \A k \in 0 .. memIndex' - 1 : k \in 0 .. memIndex - 2 /\ k \in Nat
       /\ \A k \in 0 .. processCount - 2 : k \in 0 .. processCount - 1
  BY <1>2, <1>6, <1>7
<1>12. TablesAgree'
  <2>1. memIndex' = processCount' + 2
    BY <1>2, <1>6, <1>7
  <2>2. ASSUME NEW k \in 0 .. processCount' - 1
        PROVE  /\ processes'[k].memStart = memList'[k + 2].startAddr
               /\ processes'[k].memSize = memList'[k + 2].size
    <3>1. k \in 0 .. processCount - 2 /\ k + 2 \in 0 .. memIndex - 2 /\ k \in Nat
      BY <1>2, <1>11
    <3>2. CASE k < idx
      BY <3>1, <3>2, <1>1, <1>4, <1>9, <1>10, <1>11 DEF TableInv, TablesAgree
    <3>3. CASE k >= idx
      <4>1. /\ processes[k + 1].memStart = memList[(k + 1) + 2].startAddr
            /\ processes[k + 1].memSize = memList[(k + 1) + 2].size
        BY <3>1, <3>3, <1>1, <1>9 DEF TableInv, TablesAgree
      <4>2. (k + 1) + 2 = (k + 2) + 1 /\ k + 2 >= idx + 2
        BY <3>1, <3>3, <1>4
      <4> QED BY <4>1, <4>2, <3>1, <3>3, <1>9, <1>10
    <3> QED BY <3>1, <3>2, <3>3, <1>4
  <2> QED BY <2>1, <2>2 DEF TablesAgree
<1>13. Packed'
  <2>1. memList'[0] = memList[0] /\ memList'[1] = memList[1]
    BY <1>2, <1>4, <1>10
  <2>2. ASSUME NEW k \in 2 .. memIndex' - 1
        PROVE  memList'[k].startAddr = memList'[k - 1].startAddr + memList'[k - 1].size
    <3>1. /\ k \in 0 .. memIndex - 2 /\ k - 1 \in 0 .. memIndex - 2 /\ k \in Nat
          /\ k \in 2 .. memIndex - 1 /\ k + 1 \in 2 .. memIndex - 1
          /\ memList[k].startAddr \in Int /\ memList[k].size \in Int
          /\ memList[k - 1].startAddr \in Int /\ memList[k - 1].size \in Int
          /\ memList[k + 1].startAddr \in Int
      BY <1>2, <1>7 DEF MemSlots, MemEntry
    <3>2. /\ memList[k].startAddr = memList[k - 1].startAddr + memList[k - 1].size
          /\ memList[k + 1].startAddr = memList[k].startAddr + memList[k].size
      BY <3>1, <1>1 DEF TableInv, Packed
    <3>3. CASE k < idx + 2
      BY <3>1, <3>2, <3>3, <1>4, <1>10
    <3>4. CASE k = idx + 2
      BY <3>1, <3>2, <3>4, <1>4, <1>8, <1>10
    <3>5. CASE k > idx + 2
      BY <3>1, <3>2, <3>5, <1>4, <1>8, <1>10
    <3> QED BY <3>1, <3>3, <3>4, <3>5, <1>4
  <2> QED BY <2>1, <2>2, <1>1 DEF TableInv, Packed
<1>14. SizesPositive'
  BY <1>1, <1>4, <1>9, <1>11 DEF TableInv, SizesPositive
<1>15. \A i, j \in 0 .. processCount - 1 :
          /\ processes[i].memStart >= KernelSize
          /\ i < j => processes[i].memStart + processes[i].memSize <= processes[j].memStart
  BY <1>1 DEF TableInv, RegionsDisjoint
<1>16. RegionsDisjoint'
  <2> SUFFICES ASSUME NEW i \in 0 .. processCount' - 1, NEW j \in 0 .. processCount' - 1
               PROVE  /\ processes'[i].memStart >= KernelSize
                      /\ i < j => processes'[i].memStart + processes'[i].memSize
                                     <= processes'[j].memStart
    BY DEF RegionsDisjoint
  <2>1. /\ i \in 0 .. processCount - 2 /\ i \in Nat /\ i \in 0 .. processCount - 1
        /\ j \in 0 .. processCount - 2 /\ j \in Nat /\ j \in 0 .. processCount - 1
        /\ idx \in 0 .. processCount - 1
        /\ KernelSize \in Int
    BY <1>2, <1>4, <1>11, MemoryAssumption
  <2>2. CASE i < idx /\ j < idx
    BY <2>1, <2>2, <1>9, <1>15
  <2>3. CASE i < idx /\ j >= idx
    <3>1. /\ processes[i].memStart + processes[i].memSize <= processes[idx].memStart
          /\ processes[idx].memStart + size <= processes[j + 1].memStart
      BY <2>1, <2>3, <1>4, <1>9, <1>15
    <3> QED BY <3>1, <2>1, <2>3, <1>8, <1>9, <1>15
  <2>4. CASE i >= idx
    <3>1. /\ processes[idx].memStart + size <= processes[i + 1].memStart
          /\ processes[idx].memStart >= KernelSize
      BY <2>1, <2>4, <1>4, <1>9, <1>15
    <3>2. processes'[i].memStart >= KernelSize
      BY <3>1, <2>1, <2>4, <1>8, <1>9
    <3>3. ASSUME i < j
          PROVE  processes'[i].memStart + processes'[i].memSize <= processes'[j].memStart
      <4>1. j >= idx /\ i + 1 < j + 1
        BY <3>3, <2>1, <2>4, <1>4
      <4>2. processes[i + 1].memStart + processes[i + 1].memSize <= processes[j + 1].memStart
        BY <4>1, <2>1, <2>4, <1>9, <1>15
      <4> QED BY <4>1, <4>2, <2>1, <2>4, <1>8, <1>9
    <3> QED BY <3>2, <3>3
  <2> QED BY <2>1, <2>2, <2>3, <2>4, <1>4
<1>17. PidsAscend'
  <2> SUFFICES ASSUME NEW i \in 0 .. processCount' - 1, NEW j \in 0 .. processCount' - 1, i < j
               PROVE  processes'[i].pid < processes'[j].pid
    BY DEF PidsAscend
  <2>1. /\ i \in 0 .. processCount - 2 /\ i \in Nat /\ i \in 0 .. processCount - 1
        /\ j \in 0 .. processCount - 2 /\ j \in Nat /\ j \in 0 .. processCount - 1
    BY <1>11
  <2>2. CASE j < idx
    BY <2>1, <2>2, <1>1, <1>4, <1>9 DEF TableInv, PidsAscend
  <2>3. CASE i < idx /\ j >= idx
    BY <2>1, <2>3, <1>1, <1>4, <1>9 DEF TableInv, PidsAscend
  <2>4. CASE i >= idx
    BY <2>1, <2>4, <1>1, <1>4, <1>9 DEF TableInv, PidsAscend
  <2> QED BY <2>1, <2>2, <2>3, <2>4, <1>4
<1>18. PidsHigh'
  BY <1>1, <1>3, <1>4, <1>9, <1>11 DEF PidsHigh
<1>19. PidsPast'
  <2> SUFFICES ASSUME tick < MaxTick, NEW i \in 0 .. processCount' - 1
               PROVE  \/ processes'[i].pid < tick + processCount'
                      \/ processes'[i].pid = tick + processCount'
    BY <1>3 DEF PidsPast
  <2>1. \A k \in 0 .. processCount - 1 : processes[k].pid < tick + processCount
    <3>1. cpu.owner # WaitStub
      BY <1>3 DEF WaitStub
    <3> QED BY <3>1, <1>1 DEF PidsPast
  <2>2. \E k \in 0 .. processCount - 1 : processes'[i].pid = processes[k].pid
    BY <1>4, <1>9, <1>11
  <2> QED BY <2>1, <2>2, <1>2, <1>6, <1>8
<1>20. RunningIsCurrent'
  BY <1>3 DEF RunningIsCurrent, WaitStub, KernelMain
<1>21. ContextsOwned'
  <2> SUFFICES ASSUME NEW i \in User'
               PROVE  processes'[i].regs.owner = processes'[i].pid
    BY DEF ContextsOwned
  <2>1. i \in 0 .. processCount - 2 /\ i \in Nat /\ i \in User
    BY <1>2, <1>6 DEF User
  <2>2. CASE i < idx
    BY <2>1, <2>2, <1>1, <1>9 DEF ContextsOwned
  <2>3. CASE i >= idx
    <3>1. i + 1 \in User
      BY <2>1, <1>2 DEF User
    <3> QED BY <3>1, <2>1, <2>3, <1>1, <1>9 DEF ContextsOwned
  <2> QED BY <2>1, <2>2, <2>3, <1>4
<1>22. InitReady' /\ SchedulerNeverHangs'
  BY <1>1, <1>2, <1>3, <1>4, <1>6, <1>9 DEF InitReady, SchedulerNeverHangs
<1> QED BY <1>12, <1>13, <1>14, <1>16, <1>17, <1>18, <1>19, <1>20, <1>21, <1>22 DEF IInv

-----------------------------------------------------------------------------

(***************************************************************************)
(* Type correctness, one step per action                                   *)
(***************************************************************************)

\* Storing a byte keeps the type of the RAM.
LEMMA StoredType ==
    ASSUME TypeOK, NEW a, NEW cell \in Cell
    PROVE  Stored(a, cell) \in [Addr -> Cell]
<1>1. ram \in [Addr -> Cell]
  BY Types
<1> QED BY <1>1 DEF Stored

\* So does memcpy.
LEMMA CopiedType ==
    ASSUME TypeOK, NEW dest, NEW src, NEW n
    PROVE  Copied(dest, src, n) \in [Addr -> Cell]
<1>1. ram \in [Addr -> Cell] /\ Void \in Cell
  BY Types DEF Void, Cell
<1> QED BY <1>1 DEF Copied

\* What kill() removes is in both tables, so neither count falls below zero.
LEMMA KillTypes ==
    ASSUME IInv, NEW pid, Kill(pid)
    PROVE  /\ MemTypeOK'
           /\ processes' \in [Slots -> ProcessEntry]
           /\ processCount' \in 0 .. ProcSlots
<1>1. TypeOK /\ TablesAgree /\ MemTypeOK
  BY DEF IInv, TypeOK
<1>2. /\ processes \in [Slots -> ProcessEntry]
      /\ processCount \in Nat /\ processCount <= ProcSlots /\ ProcSlots \in Nat
      /\ memList \in [MemSlots -> MemEntry]
      /\ memIndex \in Nat /\ memIndex <= MemListSize /\ MemListSize \in Nat
      /\ \A i \in User : i \in Nat /\ i > 0 /\ i \in Slots
  BY <1>1, Types, ProcessAssumption, MemoryAssumption
<1>3. CASE Index(pid) = -1
  BY <1>1, <1>2, <1>3 DEF Kill, memVars, MemTypeOK
<1>4. CASE Index(pid) # -1
  <2> DEFINE idx == Index(pid)
             start == processes[idx].memStart
  <2>1. idx \in User
    BY <1>1, <1>4, IndexFound
  <2>2. /\ processes' = Closed(idx) /\ processCount' = processCount - 1
        /\ FreeMem(start)
    BY <1>4 DEF Kill
  <2>3. processCount > 0
    BY <2>1, <1>2 DEF User
  <2>4. /\ memIndex' = memIndex - 1
        /\ memList' = Compacted(idx + 2)
        /\ ram' \in [Addr -> Cell]
    <3>1. EntriesAt(start) # {} /\ Least(EntriesAt(start)) = idx + 2 /\ start > 0
      BY <2>1, OwnEntry
    <3>2. start \in Int
      BY <2>1, <1>1, <1>2, Fields
    <3> QED BY <3>1, <3>2, <2>2, <1>1, CopiedType DEF FreeMem
  <2>5. memIndex - 1 \in 1 .. MemListSize
    BY <2>3, <1>1, <1>2 DEF TablesAgree
  <2>6. Compacted(idx + 2) \in [MemSlots -> MemEntry]
    <3>1. \A k \in MemSlots : /\ memList[k].startAddr \in Int
                              /\ memList[k] \in MemEntry
      BY <1>2 DEF MemEntry
    <3>2. memList[idx + 2].size \in Int
      <4>1. idx + 2 \in MemSlots
        BY <2>1, <1>1, <1>2 DEF TablesAgree, MemSlots, User
      <4> QED BY <4>1, <1>2 DEF MemEntry
    <3>3. \A k \in MemSlots :
             [memList[k] EXCEPT !.startAddr = @ - memList[idx + 2].size] \in MemEntry
      BY <3>1, <3>2 DEF MemEntry
    <3>4. \A k \in MemSlots : idx + 2 <= k /\ k < memIndex - 1 => k + 1 \in MemSlots
      BY <1>2 DEF MemSlots
    <3> QED BY <3>1, <3>3, <3>4, <1>2 DEF Compacted
  <2>7. Closed(idx) \in [Slots -> ProcessEntry]
    <3>1. \A k \in Slots : /\ processes[k].memStart \in Int
                           /\ processes[k] \in ProcessEntry
      BY <1>1, Fields
    <3>2. processes[idx].memSize \in Int
      BY <2>1, <1>1, <1>2, Fields
    <3>3. \A k \in Slots :
             [processes[k] EXCEPT !.memStart = @ - processes[idx].memSize] \in ProcessEntry
      BY <3>1, <3>2 DEF ProcessEntry
    <3>4. \A k \in Slots : idx <= k /\ k < processCount - 1 => k + 1 \in Slots
      BY <1>2 DEF Slots
    <3> QED BY <3>1, <3>3, <3>4 DEF Closed
  <2> QED BY <2>2, <2>3, <2>4, <2>5, <2>6, <2>7, <1>2 DEF MemTypeOK
<1> QED BY <1>3, <1>4

\* The task switch keeps the types of all it writes.
LEMMA SwitchTypes ==
    ASSUME TypeOK, NEW procs \in [Slots -> ProcessEntry], SwitchFrom(procs)
    PROVE  /\ processes' \in [Slots -> ProcessEntry]
           /\ schedulerProcessAt' \in Slots
           /\ tick' \in Nat
           /\ saveRegs' \in BOOLEAN
           /\ cpu' \in Context
           /\ ldtBase' \in Int
           /\ halted' \in {"no", "Out of memory", "Memory list overflow", "hang", "panic"}
<1>1. /\ schedulerProcessAt \in Slots /\ tick \in Nat /\ MaxTick \in Nat
      /\ cpu \in Context /\ saveRegs \in BOOLEAN /\ ldtBase \in Int
      /\ halted \in {"no", "Out of memory", "Memory list overflow", "hang", "panic"}
  <2>1. cpu \in Context /\ schedulerProcessAt \in Slots /\ tick \in Nat
    BY Types
  <2> QED BY <2>1, KernelAssumption DEF TypeOK
<1>2. CASE Ready(procs) = {}
  BY <1>1, <1>2 DEF SwitchFrom, cpuVars
<1>3. CASE Ready(procs) # {}
  <2>1. NextProcess(procs) \in Slots
    <3>1. NextProcess(procs) \in User
      BY <1>3, NextIsReady
    <3> QED BY <3>1, Types
  <2>2. AfterSave(procs) \in [Slots -> ProcessEntry]
    <3>1. \A i \in Slots : Saved(procs[i]) \in ProcessEntry
      BY <1>1 DEF Saved, ProcessEntry, Context
    <3> QED BY <3>1, <1>1 DEF AfterSave
  <2>3. /\ processes' = AfterSave(procs)
        /\ schedulerProcessAt' = NextProcess(procs)
        /\ saveRegs' = TRUE
        /\ cpu' = processes'[NextProcess(procs)].regs
        /\ ldtBase' = processes'[NextProcess(procs)].memStart
        /\ tick' = Ticked /\ halted' = halted
    BY <1>3 DEF SwitchFrom
  <2>4. cpu' \in Context /\ ldtBase' \in Int
    <3>1. processes'[NextProcess(procs)] \in ProcessEntry
      BY <2>1, <2>2, <2>3
    <3> QED BY <3>1, <2>3 DEF ProcessEntry
  <2>5. tick' \in Nat
    <3>1. tick \in Nat /\ MaxTick \in Nat
      BY <1>1
    <3>2. Ticked \in Nat
      BY <3>1 DEF Ticked
    <3> QED BY <3>2, <2>3
  <2> QED BY <2>1, <2>2, <2>3, <2>4, <2>5, <1>1
<1> QED BY <1>2, <1>3

\* The table SC_GETUINPUT switches from: the caller waits.
LEMMA WaitingTable ==
    ASSUME TypeOK
    PROVE  [processes EXCEPT ![schedulerProcessAt].waiting = TRUE]
               \in [Slots -> ProcessEntry]
<1>1. processes \in [Slots -> ProcessEntry] /\ schedulerProcessAt \in Slots
  BY Types
<1>2. [processes[schedulerProcessAt] EXCEPT !.waiting = TRUE] \in ProcessEntry
  BY <1>1 DEF ProcessEntry
<1> QED BY <1>1, <1>2

\* A slot that createProcessEntry has filled, whatever was in it.
LEMMA NewEntryType ==
    ASSUME NEW slot \in ProcessEntry, NEW fileSize \in Nat, StackSize \in Nat,
           0 \in 0 .. QueueSize, NEW start \in Int, NEW pid \in Int,
           [owner |-> pid, val |-> 0, ebp |-> fileSize + StackSize - 1] \in Context
    PROVE  NewEntry(slot, fileSize, start, pid) \in ProcessEntry
<1> DEFINE Queues == [MsgSlots -> Message]
           Sizes == 0 .. QueueSize
           context == [owner |-> pid, val |-> 0, ebp |-> fileSize + StackSize - 1]
           size == fileSize + StackSize
<1>1. ProcessEntry =
        [pid : Int, waiting : BOOLEAN, memStart : Int, memSize : Int, regs : Context,
         IPCQueue : Queues, IPCQueueSize : Sizes]
  BY DEF ProcessEntry
<1>2. 0 \in Sizes /\ context \in Context /\ size \in Int
  OBVIOUS
<1>3. NewEntry(slot, fileSize, start, pid) =
        [slot EXCEPT !.pid = pid, !.waiting = FALSE, !.memStart = start,
                     !.memSize = size, !.regs = context, !.IPCQueueSize = 0]
  BY DEF NewEntry
<1> HIDE DEF Queues, Sizes, context, size
<1> QED BY <1>1, <1>2, <1>3

\* allocMem and createProcessEntry keep the types of the tables.
LEMMA SpawnTypes ==
    ASSUME TypeOK, InitReady, NEW fileSize \in ImageSizes, processCount < ProcSlots,
           AllocFault(fileSize + StackSize) = "no", SpawnProcess(fileSize)
    PROVE  /\ MemTypeOK'
           /\ processes' \in [Slots -> ProcessEntry]
           /\ processCount' \in 0 .. ProcSlots
<1>1. /\ processes \in [Slots -> ProcessEntry]
      /\ processCount \in Nat /\ tick \in Nat
      /\ memList \in [MemSlots -> MemEntry]
      /\ memIndex \in Nat /\ memIndex >= 1
      /\ ram \in [Addr -> Cell]
  BY Types
<1>2. /\ fileSize \in Nat /\ StackSize \in Nat /\ ProcSlots \in Nat /\ MemListSize \in Nat
  BY ProcessAssumption, MemoryAssumption
<1>3. /\ memIndex < MemListSize /\ memIndex \in MemSlots /\ memIndex - 1 \in MemSlots
  <2>1. memIndex < MemListSize
    BY <1>1, <1>2 DEF AllocFault
  <2> QED BY <2>1, <1>1, <1>2 DEF MemSlots
<1>4. AllocAddr \in Int
  <2>1. memList[memIndex - 1] \in MemEntry
    BY <1>1, <1>3
  <2> QED BY <2>1 DEF AllocAddr, MemEntry
<1>5. NewPid \in Int
  BY <1>1 DEF NewPid
<1>6. memList' \in [MemSlots -> MemEntry] /\ memIndex' \in 1 .. MemListSize
  <2>1. [startAddr |-> AllocAddr, size |-> fileSize + StackSize] \in MemEntry
    BY <1>2, <1>4 DEF MemEntry
  <2> QED BY <2>1, <1>1, <1>2, <1>3 DEF SpawnProcess, AllocMem
<1>7. ram' \in [Addr -> Cell]
  <2>1. \A a \in Addr : <<NewPid, a - AllocAddr>> \in Cell
    BY <1>4, <1>5, MemoryAssumption DEF Addr, Cell
  <2> QED BY <2>1, <1>1 DEF SpawnProcess, Loaded
<1>8. processes' \in [Slots -> ProcessEntry]
  <2>1. processCount \in Slots
    BY <1>1, <1>2 DEF Slots
  <2>2. NewEntry(processes[processCount], fileSize, AllocAddr, NewPid) \in ProcessEntry
    <3>1. processes[processCount] \in ProcessEntry
      BY <2>1, <1>1
    <3>2. [owner |-> NewPid, val |-> 0, ebp |-> fileSize + StackSize - 1] \in Context
      BY <1>2, <1>5 DEF Context
    <3>3. 0 \in 0 .. QueueSize
      BY ProcessAssumption
    <3> QED BY <3>1, <3>2, <3>3, <1>2, <1>4, <1>5, NewEntryType
  <2> QED BY <2>1, <2>2, <1>1 DEF SpawnProcess
<1>9. processCount' \in 0 .. ProcSlots
  BY <1>1, <1>2 DEF SpawnProcess
<1> QED BY <1>6, <1>7, <1>8, <1>9 DEF MemTypeOK

\* Replacing an entry's queue keeps its type.
LEMMA QueueReplaced ==
    ASSUME NEW proc \in ProcessEntry,
           NEW queue \in [MsgSlots -> Message], NEW size \in 0 .. QueueSize
    PROVE  [proc EXCEPT !.IPCQueue = queue, !.IPCQueueSize = size] \in ProcessEntry
<1> DEFINE Queues == [MsgSlots -> Message]
           Sizes == 0 .. QueueSize
<1>1. ProcessEntry =
        [pid : Int, waiting : BOOLEAN, memStart : Int, memSize : Int, regs : Context,
         IPCQueue : Queues, IPCQueueSize : Sizes]
  BY DEF ProcessEntry
<1>2. queue \in Queues /\ size \in Sizes
  OBVIOUS
<1> HIDE DEF Queues, Sizes
<1> QED BY <1>1, <1>2

\* Sending to a process with room keeps the type of the table.
LEMMA SendTypes ==
    ASSUME TypeOK, NEW pid, NEW body \in Int, CanSend(pid), SendMessageToProcess(pid, body)
    PROVE  /\ processes' \in [Slots -> ProcessEntry]
           /\ <<Stamped(body).fromPID, body>> \in Cell
<1> DEFINE i == Index(pid)
           proc == processes[i]
           queue == [proc.IPCQueue EXCEPT ![proc.IPCQueueSize] = Stamped(body)]
<1>1. i \in Slots /\ processes \in [Slots -> ProcessEntry] /\ schedulerProcessAt \in Slots
  BY Types, IndexFound DEF CanSend
<1>2. Stamped(body) \in Message /\ body \in Int
  <2>1. processes[schedulerProcessAt].pid \in Int
    BY <1>1, Fields
  <2> QED BY <2>1 DEF Stamped, Message
<1>3. /\ proc \in ProcessEntry
      /\ proc.IPCQueue \in [MsgSlots -> Message]
      /\ proc.IPCQueueSize + 1 \in 0 .. QueueSize
  BY <1>1, ProcessAssumption DEF ProcessEntry, CanSend
<1>4. queue \in [MsgSlots -> Message]
  BY <1>2, <1>3
<1>5. [proc EXCEPT !.IPCQueue = queue, !.IPCQueueSize = proc.IPCQueueSize + 1] \in ProcessEntry
  <2> HIDE DEF queue, proc
  <2> QED BY <1>3, <1>4, QueueReplaced
<1>6. processes' = [processes EXCEPT
         ![i] = [proc EXCEPT !.IPCQueue = queue, !.IPCQueueSize = proc.IPCQueueSize + 1]]
  BY <1>1, <1>3 DEF SendMessageToProcess, ProcessEntry
<1>7. <<Stamped(body).fromPID, body>> \in Cell
  BY <1>2 DEF Message, Cell
<1> QED BY <1>1, <1>5, <1>6, <1>7

\* So does popping from a queue that is not empty.
LEMMA PopTypes ==
    ASSUME TypeOK, Current.IPCQueueSize > 0
    PROVE  /\ Popped(Current) \in ProcessEntry
           /\ [processes EXCEPT ![schedulerProcessAt] = Popped(@)] \in [Slots -> ProcessEntry]
           /\ <<Current.IPCQueue[0].fromPID, Current.IPCQueue[0].msg>> \in Cell
<1> DEFINE size == Current.IPCQueueSize
           queue == [m \in MsgSlots |-> IF m < size - 1 THEN Current.IPCQueue[m + 1]
                                        ELSE Current.IPCQueue[m]]
<1>1. processes \in [Slots -> ProcessEntry] /\ schedulerProcessAt \in Slots
  BY Types
<1>2. /\ Current \in ProcessEntry
      /\ Current.IPCQueue \in [MsgSlots -> Message]
      /\ size \in 1 .. QueueSize /\ size - 1 \in 0 .. QueueSize
      /\ QueueSize \in Nat
  BY <1>1, ProcessAssumption DEF ProcessEntry, Current
<1>3. queue \in [MsgSlots -> Message]
  BY <1>2 DEF MsgSlots
<1>4. Popped(Current) \in ProcessEntry
  <2>1. Popped(Current) = [Current EXCEPT !.IPCQueue = queue, !.IPCQueueSize = size - 1]
    BY <1>2 DEF Popped, ProcessEntry
  <2>2. [Current EXCEPT !.IPCQueue = queue, !.IPCQueueSize = size - 1] \in ProcessEntry
    <3> HIDE DEF queue, size
    <3> QED BY <1>2, <1>3, QueueReplaced
  <2> QED BY <2>1, <2>2
<1>5. [processes EXCEPT ![schedulerProcessAt] = Popped(@)] \in [Slots -> ProcessEntry]
  BY <1>1, <1>4 DEF Current
<1>6. <<Current.IPCQueue[0].fromPID, Current.IPCQueue[0].msg>> \in Cell
  <2>1. Current.IPCQueue[0] \in Message
    BY <1>2, ProcessAssumption DEF MsgSlots
  <2> QED BY <2>1 DEF Message, Cell
<1> QED BY <1>4, <1>5, <1>6

\* The keyboard interrupt writes one byte and its own globals, and wakes a slot.
LEMMA KeyTypes ==
    ASSUME TypeOK, PS2KBDISR
    PROVE  /\ processes' \in [Slots -> ProcessEntry]
           /\ ram' \in [Addr -> Cell]
           /\ processBufferLoc' \in Int /\ processBufferPos' \in Int
           /\ processBufferSize' \in Int /\ processWaitingForInput' \in BOOLEAN
           /\ inputWaintingPID' \in Slots
<1>1. /\ processes \in [Slots -> ProcessEntry]
      /\ processBufferLoc \in Int /\ processBufferPos \in Int
      /\ processBufferSize \in Int /\ processWaitingForInput \in BOOLEAN
      /\ inputWaintingPID \in Slots
  BY Types DEF TypeOK, KbdTypeOK
<1>2. Nul \in Cell /\ Typed \in Cell
  BY DEF Nul, Typed, Cell
<1>3. Woken \in [Slots -> ProcessEntry]
  <2>1. [processes[inputWaintingPID] EXCEPT !.waiting = FALSE] \in ProcessEntry
    BY <1>1 DEF ProcessEntry
  <2> QED BY <2>1, <1>1 DEF Woken
<1>4. \A a : Stored(a, Nul) \in [Addr -> Cell] /\ Stored(a, Typed) \in [Addr -> Cell]
  BY <1>2, StoredType
<1>5. CASE KbdEnter
  <2>1. ram' \in [Addr -> Cell]
    BY <1>4, <1>5 DEF KbdEnter
  <2>2. processes' \in [Slots -> ProcessEntry]
    BY <1>3, <1>5 DEF KbdEnter
  <2>3. processWaitingForInput' \in BOOLEAN
    BY <1>5 DEF KbdEnter
  <2>4. /\ processBufferLoc' \in Int /\ processBufferPos' \in Int
        /\ processBufferSize' \in Int /\ inputWaintingPID' \in Slots
    BY <1>1, <1>5 DEF KbdEnter
  <2> QED BY <2>1, <2>2, <2>3, <2>4
<1>6. CASE KbdReturn
  BY <1>1, <1>4, <1>6 DEF KbdReturn
<1>7. CASE KbdChar
  BY <1>1, <1>4, <1>7 DEF KbdChar
<1> QED BY <1>5, <1>6, <1>7 DEF PS2KBDISR

\* Every step keeps every type.
LEMMA TypeStep ==
    ASSUME IInv, [Next]_vars
    PROVE  TypeOK'
<1>1. TypeOK /\ InitReady
  BY DEF IInv
<1>2. /\ MemTypeOK /\ ProcTypeOK /\ KbdTypeOK
      /\ saveRegs \in BOOLEAN /\ cpu \in Context /\ ldtBase \in Int /\ faulted \in Int
      /\ halted \in {"no", "Out of memory", "Memory list overflow", "hang", "panic"}
  BY <1>1 DEF TypeOK
<1>3. /\ memList \in [MemSlots -> MemEntry] /\ memIndex \in 1 .. MemListSize
      /\ processes \in [Slots -> ProcessEntry] /\ processCount \in 0 .. ProcSlots
      /\ schedulerProcessAt \in Slots /\ tick \in Nat
      /\ cpu.owner \in Int
      /\ reader \in Int /\ disturbed \in BOOLEAN /\ everDisturbed \in BOOLEAN
  BY <1>2 DEF MemTypeOK, ProcTypeOK, KbdTypeOK, Context
<1>4. Current.memStart \in Int /\ Current.memSize \in Int /\ Current.pid \in Int
  BY <1>1, <1>3, Fields DEF Current
<1>5. CASE PITISR
  <2>1. /\ processes' \in [Slots -> ProcessEntry] /\ schedulerProcessAt' \in Slots
        /\ tick' \in Nat /\ saveRegs' \in BOOLEAN /\ cpu' \in Context /\ ldtBase' \in Int
        /\ halted' \in {"no", "Out of memory", "Memory list overflow", "hang", "panic"}
    BY <1>1, <1>3, <1>5, SwitchTypes DEF PITISR
  <2>2. MemTypeOK' /\ KbdTypeOK' /\ processCount' = processCount /\ faulted' = faulted
    BY <1>2, <1>5 DEF PITISR, memVars, kbdVars, readVars, MemTypeOK, KbdTypeOK
  <2> QED BY <2>1, <2>2, <1>2, <1>3 DEF TypeOK, ProcTypeOK
<1>6. ASSUME NEW fileSize \in ImageSizes, SC_SPAWNPROC(fileSize)
      PROVE  TypeOK'
  <2>1. /\ KbdTypeOK' /\ schedulerProcessAt' \in Slots /\ tick' \in Nat
        /\ saveRegs' \in BOOLEAN /\ cpu' \in Context /\ ldtBase' \in Int /\ faulted' \in Int
    BY <1>2, <1>3, <1>6 DEF SC_SPAWNPROC, kbdVars, readVars, cpuVars, KbdTypeOK
  <2>2. CASE AllocFault(fileSize + StackSize) = "no"
    <3>1. /\ MemTypeOK' /\ processes' \in [Slots -> ProcessEntry]
          /\ processCount' \in 0 .. ProcSlots
      BY <2>2, <1>1, <1>6, SpawnTypes DEF SC_SPAWNPROC
    <3>2. halted' = halted
      BY <2>2, <1>6 DEF SC_SPAWNPROC
    <3> QED BY <3>1, <3>2, <2>1, <1>2 DEF TypeOK, ProcTypeOK
  <2>3. CASE AllocFault(fileSize + StackSize) # "no"
    <3>1. halted' \in {"Out of memory", "Memory list overflow"}
      BY <2>3, <1>6 DEF SC_SPAWNPROC, AllocFault
    <3>2. MemTypeOK' /\ processes' = processes /\ processCount' = processCount
      BY <2>3, <1>2, <1>6 DEF SC_SPAWNPROC, memVars, MemTypeOK
    <3> QED BY <3>1, <3>2, <2>1, <1>3 DEF TypeOK, ProcTypeOK
  <2> QED BY <2>2, <2>3
<1>7. CASE SC_EXIT
  <2>1. /\ MemTypeOK' /\ processes' \in [Slots -> ProcessEntry]
        /\ processCount' \in 0 .. ProcSlots
    BY <1>7, KillTypes DEF SC_EXIT
  <2>2. KbdTypeOK'
    BY <1>2, <1>3, <1>7 DEF SC_EXIT, DisturbedBy, kbdVars, KbdTypeOK
  <2>3. schedulerProcessAt' \in Slots /\ tick' \in Nat /\ halted' = halted /\ faulted' = faulted
    BY <1>3, <1>7 DEF SC_EXIT
  <2>4. cpu' \in Context
    BY <1>7 DEF SC_EXIT, Context, WaitStub
  <2>5. saveRegs' \in BOOLEAN
    BY <1>7 DEF SC_EXIT
  <2>6. ldtBase' \in Int
    BY <1>7 DEF SC_EXIT, WaitBase
  <2> QED BY <2>1, <2>2, <2>3, <2>4, <2>5, <2>6, <1>2
          DEF TypeOK, ProcTypeOK
<1>8. ASSUME NEW b \in Buffers, SC_GETUINPUT(b[1], b[2])
      PROVE  TypeOK'
  <2> DEFINE procs == [processes EXCEPT ![schedulerProcessAt].waiting = TRUE]
  <2>1. procs \in [Slots -> ProcessEntry] /\ SwitchFrom(procs)
    BY <1>1, <1>8, WaitingTable DEF SC_GETUINPUT
  <2>2. /\ processes' \in [Slots -> ProcessEntry] /\ schedulerProcessAt' \in Slots
        /\ tick' \in Nat /\ saveRegs' \in BOOLEAN /\ cpu' \in Context /\ ldtBase' \in Int
        /\ halted' \in {"no", "Out of memory", "Memory list overflow", "hang", "panic"}
    <3> HIDE DEF procs
    <3> QED BY <2>1, <1>1, SwitchTypes
  <2>3. KbdTypeOK'
    <3>1. b[1] \in Nat /\ b[2] \in Nat
      BY KernelAssumption
    <3>2. RequestLine(b[1], b[2])
      BY <1>8 DEF SC_GETUINPUT
    <3>3. BufferAt(b[1]) \in Int
      BY <3>1, <1>4 DEF BufferAt, Current
    <3>4. reader' \in Int /\ inputWaintingPID' \in Slots
      BY <3>2, <1>3, <1>4 DEF RequestLine, Current
    <3>5. processBufferLoc' \in Int /\ processBufferSize' \in Int
      BY <3>1, <3>2, <3>3 DEF RequestLine
    <3>6. /\ processBufferPos' \in Int /\ processWaitingForInput' \in BOOLEAN
          /\ disturbed' \in BOOLEAN /\ everDisturbed' \in BOOLEAN
      BY <3>2, <1>2 DEF RequestLine, KbdTypeOK
    <3> QED BY <3>4, <3>5, <3>6 DEF KbdTypeOK
  <2>4. MemTypeOK' /\ processCount' = processCount /\ faulted' = faulted
    BY <1>2, <1>8 DEF SC_GETUINPUT, memVars, MemTypeOK
  <2> QED BY <2>2, <2>3, <2>4, <1>2, <1>3 DEF TypeOK, ProcTypeOK
<1>9. ASSUME NEW pid, NEW body \in Bodies, SC_MSG_SEND(pid, body)
      PROVE  TypeOK'
  <2>1. processes' \in [Slots -> ProcessEntry] /\ <<Stamped(body).fromPID, body>> \in Cell
    BY <1>1, <1>9, ProcessAssumption, SendTypes DEF SC_MSG_SEND
  <2>2. ram' \in [Addr -> Cell]
    BY <2>1, <1>1, <1>9, StoredType DEF SC_MSG_SEND
  <2>3. /\ KbdTypeOK' /\ memList' = memList /\ memIndex' = memIndex
        /\ processCount' = processCount /\ schedulerProcessAt' = schedulerProcessAt
        /\ tick' = tick /\ saveRegs' = saveRegs /\ cpu' = cpu /\ ldtBase' = ldtBase
        /\ halted' = halted /\ faulted' = faulted
    BY <1>2, <1>9 DEF SC_MSG_SEND, kbdVars, readVars, cpuVars, KbdTypeOK
  <2> QED BY <2>1, <2>2, <2>3, <1>2, <1>3 DEF TypeOK, MemTypeOK, ProcTypeOK
<1>10. CASE SC_MSG_POP
  <2>1. /\ [processes EXCEPT ![schedulerProcessAt] = Popped(@)] \in [Slots -> ProcessEntry]
        /\ <<Current.IPCQueue[0].fromPID, Current.IPCQueue[0].msg>> \in Cell
    BY <1>1, <1>10, PopTypes DEF SC_MSG_POP
  <2>2. ram' \in [Addr -> Cell] /\ processes' \in [Slots -> ProcessEntry]
    BY <2>1, <1>1, <1>10, StoredType DEF SC_MSG_POP
  <2>3. /\ KbdTypeOK' /\ memList' = memList /\ memIndex' = memIndex
        /\ processCount' = processCount /\ schedulerProcessAt' = schedulerProcessAt
        /\ tick' = tick /\ saveRegs' = saveRegs /\ cpu' = cpu /\ ldtBase' = ldtBase
        /\ halted' = halted /\ faulted' = faulted
    BY <1>2, <1>10 DEF SC_MSG_POP, kbdVars, readVars, cpuVars, KbdTypeOK
  <2> QED BY <2>2, <2>3, <1>2, <1>3 DEF TypeOK, MemTypeOK, ProcTypeOK
<1>11. ASSUME NEW vector \in Exceptions, RaiseException(vector)
       PROVE  TypeOK'
  <2>1. /\ MemTypeOK' /\ processes' \in [Slots -> ProcessEntry]
        /\ processCount' \in 0 .. ProcSlots
    <3>1. CASE vector \in ErrorCodeVectors
      BY <3>1, <1>2, <1>3, <1>11 DEF RaiseException, memVars, MemTypeOK
    <3>2. CASE vector \notin ErrorCodeVectors
      <4>1. Kill(schedulerProcessAt)
        BY <3>2, <1>11 DEF RaiseException
      <4> QED BY <4>1, <1>1, <1>11, KillTypes DEF RaiseException
    <3> QED BY <3>1, <3>2
  <2>2. KbdTypeOK'
    <3>1. kbdVars' = kbdVars
      BY <1>11 DEF RaiseException
    <3>2. CASE vector \in ErrorCodeVectors
      BY <3>1, <3>2, <1>2, <1>11 DEF RaiseException, readVars, kbdVars, KbdTypeOK
    <3>3. CASE vector \notin ErrorCodeVectors
      BY <3>1, <3>3, <1>2, <1>3, <1>11 DEF RaiseException, DisturbedBy, kbdVars, KbdTypeOK
    <3> QED BY <3>2, <3>3
  <2>3. /\ schedulerProcessAt' \in Slots /\ tick' \in Nat
        /\ saveRegs' \in BOOLEAN /\ cpu' \in Context /\ ldtBase' \in Int
    BY <1>2, <1>3, <1>11 DEF RaiseException, cpuVars
  <2>4. faulted' \in Int
    BY <1>2, <1>3, <1>11 DEF RaiseException
  <2>5. halted' \in {halted, "panic"}
    BY <1>11 DEF RaiseException
  <2> QED BY <2>1, <2>2, <2>3, <2>4, <2>5, <1>2 DEF TypeOK, ProcTypeOK
<1>12. CASE Keystroke
  <2>1. /\ processes' \in [Slots -> ProcessEntry]
        /\ ram' \in [Addr -> Cell]
        /\ processBufferLoc' \in Int /\ processBufferPos' \in Int
        /\ processBufferSize' \in Int /\ processWaitingForInput' \in BOOLEAN
        /\ inputWaintingPID' \in Slots
    BY <1>1, <1>12, KeyTypes DEF Keystroke
  <2>2. /\ memList' = memList /\ memIndex' = memIndex
        /\ processCount' = processCount /\ schedulerProcessAt' = schedulerProcessAt
        /\ tick' = tick /\ saveRegs' = saveRegs /\ cpu' = cpu /\ ldtBase' = ldtBase
        /\ halted' = halted /\ faulted' = faulted
        /\ reader' = reader /\ disturbed' = disturbed /\ everDisturbed' = everDisturbed
    BY <1>12 DEF Keystroke, readVars, cpuVars
  <2> QED BY <2>1, <2>2, <1>2, <1>3 DEF TypeOK, MemTypeOK, ProcTypeOK, KbdTypeOK
<1>13. ASSUME NEW val \in RegVals, NEW ebp \in RegVals, UserCompute(val, ebp)
       PROVE  TypeOK'
  <2>1. cpu' \in Context
    BY <1>2, <1>13, ProcessAssumption DEF UserCompute, Context
  <2>2. /\ MemTypeOK' /\ ProcTypeOK' /\ KbdTypeOK' /\ saveRegs' = saveRegs
        /\ ldtBase' = ldtBase /\ halted' = halted /\ faulted' = faulted
    BY <1>2, <1>13 DEF UserCompute, memVars, tableVars, kbdVars, readVars,
                       MemTypeOK, ProcTypeOK, KbdTypeOK
  <2> QED BY <2>1, <2>2, <1>2 DEF TypeOK
<1>14. ASSUME NEW offset \in Offsets, UserStore(offset)
       PROVE  TypeOK'
  <2>1. <<cpu.owner, -1>> \in Cell
    BY <1>3 DEF Cell
  <2>2. ram' \in [Addr -> Cell]
    BY <2>1, <1>1, <1>14, StoredType DEF UserStore
  <2>3. /\ memList' = memList /\ memIndex' = memIndex /\ ProcTypeOK' /\ KbdTypeOK'
        /\ saveRegs' = saveRegs /\ cpu' = cpu /\ ldtBase' = ldtBase
        /\ halted' = halted /\ faulted' = faulted
    BY <1>2, <1>14 DEF UserStore, tableVars, kbdVars, readVars, cpuVars,
                       ProcTypeOK, KbdTypeOK
  <2> QED BY <2>2, <2>3, <1>2, <1>3 DEF TypeOK, MemTypeOK
<1>15. CASE UNCHANGED vars
  BY <1>2, <1>15 DEF vars, memVars, tableVars, kbdVars, readVars, cpuVars,
                     TypeOK, MemTypeOK, ProcTypeOK, KbdTypeOK
<1> QED BY <1>5, <1>6, <1>7, <1>8, <1>9, <1>10, <1>11, <1>12, <1>13, <1>14, <1>15
        DEF Next, SystemCall, Program

-----------------------------------------------------------------------------

(***************************************************************************)
(* The invariant holds in every reachable state                            *)
(***************************************************************************)

\* Messages, keystrokes and what programs do by themselves are calm, and so is
\* an exception: it is told to kill a pid that nobody has, or halts.
LEMMA CalmSteps ==
    ASSUME IInv
    PROVE  /\ \A pid, body : SC_MSG_SEND(pid, body) => Calm
           /\ SC_MSG_POP => Calm
           /\ \A vector : RaiseException(vector) => Calm
           /\ Keystroke => Calm
           /\ \A val, ebp : UserCompute(val, ebp) => Calm
           /\ \A offset : UserStore(offset) => Calm
<1>1. /\ processes \in [Slots -> ProcessEntry]
      /\ schedulerProcessAt \in Slots
      /\ inputWaintingPID \in Slots
      /\ cpu \in Context
  BY Types DEF IInv, TypeOK, KbdTypeOK
<1>2. ASSUME NEW pid, NEW body, SC_MSG_SEND(pid, body)
      PROVE  Calm
  BY <1>1, <1>2 DEF SC_MSG_SEND, SendMessageToProcess, cpuVars, Calm, KeepsTable, ProcessEntry
<1>3. CASE SC_MSG_POP
  BY <1>1, <1>3 DEF SC_MSG_POP, Popped, cpuVars, Calm, KeepsTable, ProcessEntry
<1>4. ASSUME NEW vector, RaiseException(vector)
      PROVE  Calm
  <2>1. Index(schedulerProcessAt) = -1
    BY <1>1, IndexIsNoPid
  <2>2. UNCHANGED <<memVars, processes, processCount, schedulerProcessAt, tick, cpuVars>>
    BY <2>1, <1>4 DEF RaiseException, Kill
  <2>3. halted' \in {halted, "panic"}
    BY <1>4 DEF RaiseException
  <2> QED BY <2>2, <2>3 DEF memVars, cpuVars, Calm, KeepsTable
<1>5. CASE Keystroke
  <2>1. processes' = processes \/ processes' = Woken
    BY <1>5 DEF Keystroke, PS2KBDISR, KbdEnter, KbdReturn, KbdChar
  <2>2. \A i \in Slots : /\ processes'[i].pid = processes[i].pid
                         /\ processes'[i].memStart = processes[i].memStart
                         /\ processes'[i].memSize = processes[i].memSize
                         /\ processes'[i].regs = processes[i].regs
                         /\ processes'[i].waiting => processes[i].waiting
    BY <2>1, <1>1 DEF Woken, ProcessEntry
  <2> QED BY <2>2, <1>5 DEF Keystroke, cpuVars, Calm, KeepsTable
<1>6. ASSUME NEW val, NEW ebp, UserCompute(val, ebp)
      PROVE  Calm
  BY <1>1, <1>6 DEF UserCompute, memVars, tableVars, Calm, KeepsTable, Context
<1>7. ASSUME NEW offset, UserStore(offset)
      PROVE  Calm
  BY <1>7 DEF UserStore, tableVars, cpuVars, Calm, KeepsTable
<1> QED BY <1>2, <1>3, <1>4, <1>5, <1>6, <1>7

\* IInv is inductive.
LEMMA IInvStep ==
    ASSUME IInv, [Next]_vars
    PROVE  IInv'
<1>1. TypeOK'
  BY TypeStep
<1>2. /\ processes \in [Slots -> ProcessEntry]
      /\ schedulerProcessAt \in Slots
      /\ ~processes[1].waiting
      /\ 1 \in Slots
  BY Types, ProcessAssumption DEF IInv, InitReady, Slots
<1>3. CASE PITISR
  <2>1. Running /\ SwitchFrom(processes) /\ UNCHANGED <<memList, memIndex, processCount>>
    BY <1>3 DEF PITISR, memVars
  <2> QED BY <2>1, <1>1, <1>2, SwitchKeepsIInv
<1>4. ASSUME NEW fileSize \in ImageSizes, SC_SPAWNPROC(fileSize)
      PROVE  IInv'
  <2>1. CASE AllocFault(fileSize + StackSize) = "no"
    BY <2>1, <1>1, <1>4, SpawnKeepsIInv
  <2>2. CASE AllocFault(fileSize + StackSize) # "no"
    <3>1. /\ memList' = memList /\ memIndex' = memIndex
          /\ processes' = processes /\ processCount' = processCount
          /\ schedulerProcessAt' = schedulerProcessAt /\ tick' = tick
          /\ saveRegs' = saveRegs /\ cpu' = cpu /\ ldtBase' = ldtBase
          /\ halted' \in {"Out of memory", "Memory list overflow"}
      BY <2>2, <1>4 DEF SC_SPAWNPROC, memVars, cpuVars, AllocFault
    <3>2. TableInv'
      BY <3>1, TableKept DEF KeepsTable
    <3>3. SchedulerNeverHangs'
      BY <3>1 DEF SchedulerNeverHangs
    <3>4. PidsHigh' /\ PidsPast' /\ RunningIsCurrent' /\ ContextsOwned' /\ InitReady'
      BY <3>1 DEF IInv, PidsHigh, PidsPast, RunningIsCurrent, ContextsOwned, InitReady,
                  User, Current
    <3> QED BY <3>2, <3>3, <3>4, <1>1 DEF IInv, TableInv
  <2> QED BY <2>1, <2>2
<1>5. CASE SC_EXIT
  BY <1>1, <1>5, ExitKeepsIInv
<1>6. ASSUME NEW b \in Buffers, SC_GETUINPUT(b[1], b[2])
      PROVE  IInv'
  <2> DEFINE procs == [processes EXCEPT ![schedulerProcessAt].waiting = TRUE]
  <2>1. procs \in [Slots -> ProcessEntry]
    BY WaitingTable DEF IInv
  <2>2. /\ Running /\ schedulerProcessAt # 1
        /\ SwitchFrom(procs)
        /\ UNCHANGED <<memList, memIndex, processCount>>
    BY <1>6 DEF SC_GETUINPUT, UserRuns, NotInit, memVars
  <2>3. \A i \in Slots : /\ procs[i].pid = processes[i].pid
                         /\ procs[i].memStart = processes[i].memStart
                         /\ procs[i].memSize = processes[i].memSize
                         /\ procs[i].regs = processes[i].regs
    BY <1>2 DEF ProcessEntry
  <2>4. ~procs[1].waiting
    BY <2>2, <1>2
  <2> HIDE DEF procs
  <2> QED BY <2>1, <2>2, <2>3, <2>4, <1>1, SwitchKeepsIInv
<1>7. CASE Calm
  BY <1>1, <1>7, CalmKeepsIInv
<1>8. CASE UNCHANGED vars
  <2>1. Calm
    BY <1>8 DEF vars, memVars, tableVars, cpuVars, Calm, KeepsTable
  <2> QED BY <2>1, <1>7
<1> QED BY <1>3, <1>4, <1>5, <1>6, <1>7, <1>8, CalmSteps DEF Next, SystemCall, Program

\* A process as kmain's spawnProcess makes it.
LEMMA BootedEntry ==
    /\ BlankEntry \in ProcessEntry
    /\ \A size \in Nat, start \in Int, pid \in Int :
          /\ Booted(size, start, pid) \in ProcessEntry
          /\ Booted(size, start, pid).pid = pid
          /\ ~Booted(size, start, pid).waiting
          /\ Booted(size, start, pid).memStart = start
          /\ Booted(size, start, pid).memSize = size + StackSize
          /\ Booted(size, start, pid).regs.owner = pid
<1>1. BlankEntry \in ProcessEntry
  <2> DEFINE Queues == [MsgSlots -> Message]
             Sizes == 0 .. QueueSize
             queue == [m \in MsgSlots |-> [fromPID |-> 0, msg |-> 0]]
             context == [owner |-> 0, val |-> 0, ebp |-> 0]
  <2>1. queue \in Queues /\ 0 \in Sizes /\ context \in Context
    BY ProcessAssumption DEF Message, Context
  <2>2. ProcessEntry =
          [pid : Int, waiting : BOOLEAN, memStart : Int, memSize : Int, regs : Context,
           IPCQueue : Queues, IPCQueueSize : Sizes]
    BY DEF ProcessEntry
  <2>3. BlankEntry = [pid |-> 0, waiting |-> FALSE, memStart |-> 0, memSize |-> 0,
                      regs |-> context, IPCQueue |-> queue, IPCQueueSize |-> 0]
    BY DEF BlankEntry
  <2> HIDE DEF Queues, Sizes, queue, context
  <2> QED BY <2>1, <2>2, <2>3
<1>2. ASSUME NEW size \in Nat, NEW start \in Int, NEW pid \in Int
      PROVE  /\ Booted(size, start, pid) \in ProcessEntry
             /\ Booted(size, start, pid).pid = pid
             /\ ~Booted(size, start, pid).waiting
             /\ Booted(size, start, pid).memStart = start
             /\ Booted(size, start, pid).memSize = size + StackSize
             /\ Booted(size, start, pid).regs.owner = pid
  <2>1. /\ 0 \in 0 .. QueueSize
        /\ [owner |-> pid, val |-> 0, ebp |-> size + StackSize - 1] \in Context
    BY ProcessAssumption DEF Context
  <2>2. Booted(size, start, pid) \in ProcessEntry
    BY <2>1, <1>1, ProcessAssumption, NewEntryType DEF Booted
  <2>3. /\ Booted(size, start, pid).pid = pid
        /\ ~Booted(size, start, pid).waiting
        /\ Booted(size, start, pid).memStart = start
        /\ Booted(size, start, pid).memSize = size + StackSize
        /\ Booted(size, start, pid).regs.owner = pid
    BY DEF Booted, NewEntry, BlankEntry
  <2> QED BY <2>2, <2>3
<1> QED BY <1>1, <1>2

\* kmain leaves two processes, back to back above the kernel, and a clock that
\* has passed the number of slots.
LEMMA InitIInv == Init => IInv
<1> SUFFICES ASSUME Init PROVE IInv
  OBVIOUS
<1>1. PICK size0 \in ImageSizes, size1 \in ImageSizes,
           t0 \in BootTicks, t1 \in BootTicks, t2 \in BootTicks :
        t0 <= t1 /\ t1 <= t2 /\ BootState(size0, size1, t0, t1, t2)
  BY DEF Init
<1> DEFINE proc0 == Booted(size0, KernelSize, t0)
           start1 == KernelSize + proc0.memSize
           proc1 == Booted(size1, start1, t1 + 1)
<1>2. /\ size0 \in Nat /\ size1 \in Nat /\ StackSize \in Nat /\ StackSize > 0
      /\ KernelSize \in Nat /\ KernelSize > 0
      /\ ProcSlots \in Nat /\ ProcSlots >= 2 /\ MaxTick \in Nat
      /\ t0 \in ProcSlots .. MaxTick /\ t1 \in ProcSlots .. MaxTick /\ t2 \in ProcSlots .. MaxTick
      /\ MemListSize \in Nat /\ MemListSize >= 4
  BY MemoryAssumption, ProcessAssumption, KernelAssumption
<1>4. BlankEntry \in ProcessEntry
  BY BootedEntry
<1>5. /\ proc0 \in ProcessEntry /\ proc0.pid = t0
      /\ proc0.memStart = KernelSize /\ proc0.memSize = size0 + StackSize
  <2>1. size0 \in Nat /\ KernelSize \in Int /\ t0 \in Int
    BY <1>2
  <2>2. proc0 \in ProcessEntry
    BY <2>1, BootedEntry
  <2>3. proc0.pid = t0
    BY <2>1, BootedEntry
  <2>4. proc0.memStart = KernelSize
    BY <2>1, BootedEntry
  <2>5. proc0.memSize = size0 + StackSize
    BY DEF Booted, NewEntry, BlankEntry
  <2> QED BY <2>2, <2>3, <2>4, <2>5
<1>6. start1 = KernelSize + size0 + StackSize /\ start1 \in Int /\ t1 + 1 \in Int
  BY <1>2, <1>5
<1>7. /\ proc1 \in ProcessEntry /\ proc1.pid = t1 + 1 /\ ~proc1.waiting
      /\ proc1.memStart = start1 /\ proc1.memSize = size1 + StackSize
      /\ proc1.regs.owner = t1 + 1
  <2> HIDE DEF start1
  <2>1. size1 \in Nat /\ start1 \in Int /\ t1 + 1 \in Int
    BY <1>2, <1>6
  <2>2. proc1 \in ProcessEntry
    BY <2>1, BootedEntry
  <2>3. proc1.pid = t1 + 1
    BY <2>1, BootedEntry
  <2>4. ~proc1.waiting
    BY <2>1, BootedEntry
  <2>5. proc1.memStart = start1
    BY <2>1, BootedEntry
  <2>6. proc1.memSize = size1 + StackSize
    BY DEF Booted, NewEntry, BlankEntry
  <2>7. proc1.regs.owner = t1 + 1
    BY DEF Booted, NewEntry, BlankEntry
  <2> QED BY <2>2, <2>3, <2>4, <2>5, <2>6, <2>7
<1>8. /\ memList = [BootList EXCEPT
                      ![2] = [startAddr |-> KernelSize, size |-> proc0.memSize],
                      ![3] = [startAddr |-> start1, size |-> proc1.memSize]]
      /\ ram = [a \in Addr |->
                  IF a \in KernelSize .. KernelSize + size0 - 1
                  THEN <<proc0.pid, a - KernelSize>>
                  ELSE IF a \in start1 .. start1 + size1 - 1
                  THEN <<proc1.pid, a - start1>>
                  ELSE Void]
      /\ processes = [i \in Slots |-> IF i = 0 THEN proc0
                                      ELSE IF i = 1 THEN proc1 ELSE BlankEntry]
      /\ tick = t2
  BY <1>1 DEF BootState
<1>9. /\ memIndex = 4 /\ processCount = 2 /\ schedulerProcessAt = 0
      /\ KbdInit /\ saveRegs = TRUE
      /\ cpu = [owner |-> KernelMain, val |-> 0, ebp |-> 0]
      /\ ldtBase = 0 /\ halted = "no" /\ faulted = -1
  BY DEF Init
<1> HIDE DEF proc0, proc1, start1
<1>10. 0 \in Slots /\ 1 \in Slots /\ processes[0] = proc0 /\ processes[1] = proc1
  BY <1>2, <1>8 DEF Slots
<1>11. /\ memList[0] = [startAddr |-> 0, size |-> 0]
       /\ memList[1] = [startAddr |-> 0, size |-> KernelSize]
       /\ memList[2] = [startAddr |-> KernelSize, size |-> proc0.memSize]
       /\ memList[3] = [startAddr |-> start1, size |-> proc1.memSize]
  <2>1. 0 \in MemSlots /\ 1 \in MemSlots /\ 2 \in MemSlots /\ 3 \in MemSlots
    BY <1>2 DEF MemSlots
  <2>2. BootList[0] = [startAddr |-> 0, size |-> 0] /\ BootList[1] = [startAddr |-> 0, size |-> KernelSize]
    BY <2>1 DEF BootList
  <2>3. DOMAIN BootList = MemSlots
    BY DEF BootList
  <2>4. memList[0] = BootList[0] /\ memList[1] = BootList[1]
    BY <2>1, <2>3, <1>8
  <2>5. memList[2] = [startAddr |-> KernelSize, size |-> proc0.memSize]
    BY <2>1, <2>3, <1>8
  <2>6. memList[3] = [startAddr |-> start1, size |-> proc1.memSize]
    BY <2>1, <2>3, <1>8
  <2> QED BY <2>2, <2>4, <2>5, <2>6
<1>12. MemTypeOK
  <2>1. memList \in [MemSlots -> MemEntry]
    <3>1. /\ [startAddr |-> KernelSize, size |-> proc0.memSize] \in MemEntry
          /\ [startAddr |-> start1, size |-> proc1.memSize] \in MemEntry
      BY <1>2, <1>5, <1>6, <1>7 DEF MemEntry
    <3>2. BootList \in [MemSlots -> MemEntry]
      BY <1>2 DEF BootList, MemEntry
    <3> QED BY <3>1, <3>2, <1>8
  <2>2. ram \in [Addr -> Cell]
    <3>1. /\ \A a \in Addr : <<proc0.pid, a - KernelSize>> \in Cell
          /\ \A a \in Addr : <<proc1.pid, a - start1>> \in Cell
          /\ Void \in Cell
      BY <1>2, <1>5, <1>6, <1>7, MemoryAssumption DEF Addr, Cell, Void
    <3> QED BY <3>1, <1>8
  <2> QED BY <2>1, <2>2, <1>2, <1>9 DEF MemTypeOK
<1>13. ProcTypeOK
  BY <1>2, <1>4, <1>5, <1>7, <1>8, <1>9, <1>10 DEF ProcTypeOK
<1>14. TypeOK
  <2>1. KbdTypeOK
    <3>1. /\ processWaitingForInput \in BOOLEAN
          /\ disturbed \in BOOLEAN /\ everDisturbed \in BOOLEAN
      BY <1>9 DEF KbdInit
    <3>2. /\ processBufferLoc \in Int /\ processBufferPos \in Int
          /\ processBufferSize \in Int /\ inputWaintingPID \in Slots /\ reader \in Int
      BY <1>9, <1>10 DEF KbdInit
    <3> QED BY <3>1, <3>2 DEF KbdTypeOK
  <2>2. cpu \in Context
    BY <1>9 DEF Context, KernelMain
  <2> QED BY <2>1, <2>2, <1>9, <1>12, <1>13 DEF TypeOK
<1>15. TablesAgree
  BY <1>5, <1>7, <1>9, <1>10, <1>11 DEF TablesAgree
<1>16. Packed
  BY <1>2, <1>5, <1>6, <1>9, <1>11 DEF Packed
<1>17. SizesPositive
  BY <1>2, <1>5, <1>7, <1>9, <1>10 DEF SizesPositive
<1>18. RegionsDisjoint
  BY <1>2, <1>5, <1>6, <1>7, <1>9, <1>10 DEF RegionsDisjoint
<1>19. PidsHigh /\ PidsAscend
  BY <1>1, <1>2, <1>5, <1>7, <1>8, <1>9, <1>10 DEF PidsHigh, PidsAscend
<1>20. PidsPast
  BY <1>1, <1>2, <1>5, <1>7, <1>8, <1>9, <1>10 DEF PidsPast
<1>21. RunningIsCurrent
  BY <1>9 DEF RunningIsCurrent, KernelMain, WaitStub
<1>22. ContextsOwned /\ InitReady /\ SchedulerNeverHangs
  BY <1>7, <1>9, <1>10 DEF ContextsOwned, User, InitReady, SchedulerNeverHangs
<1> QED BY <1>14, <1>15, <1>16, <1>17, <1>18, <1>19, <1>20, <1>21, <1>22 DEF IInv

\* Every reachable state of the kernel satisfies the inductive invariant.
THEOREM Inductive == Spec => []IInv
<1>1. Init => IInv
  BY InitIInv
<1>2. IInv /\ [Next]_vars => IInv'
  BY IInvStep
<1> QED BY <1>1, <1>2, PTL DEF Spec

-----------------------------------------------------------------------------

(***************************************************************************)
(* What the kernel guarantees                                              *)
(***************************************************************************)

\* Every variable keeps its type; no index into memList[], processes[] or a
\* message queue leaves its array.
THEOREM TypeCorrect == Spec => []TypeOK
<1>1. IInv => TypeOK
  BY DEF IInv
<1> QED BY <1>1, Inductive, PTL

\* However processes come and go, allocMem, freeMem and kill() keep memList[]
\* in step with processes[].
THEOREM TablesCorrect == Spec => []TablesAgree
<1>1. IInv => TablesAgree
  BY DEF IInv
<1> QED BY <1>1, Inductive, PTL

\* memList[] has no gap, whatever freeMem has taken out of it.
THEOREM MemoryPacked == Spec => []Packed
<1>1. IInv => Packed
  BY DEF IInv
<1> QED BY <1>1, Inductive, PTL

\* No two processes, and no process and the kernel, ever share a byte.
THEOREM IsolatedRegions == Spec => []RegionsDisjoint
<1>1. IInv => RegionsDisjoint
  BY DEF IInv
<1> QED BY <1>1, Inductive, PTL

\* Pids are unique and ascend along the table, although an exit lowers the
\* count they are computed from.
THEOREM AscendingPids == Spec => []PidsAscend
<1>1. IInv => PidsAscend
  BY DEF IInv
<1> QED BY <1>1, Inductive, PTL

\* The slot the kernel takes for the caller's is the caller's, and its segments
\* are where its memory is now.
THEOREM SwitchesCorrect == Spec => []RunningIsCurrent
<1>1. IInv => RunningIsCurrent
  BY DEF IInv
<1> QED BY <1>1, Inductive, PTL

\* No context is saved in the wrong slot.
THEOREM ContextsCorrect == Spec => []ContextsOwned
<1>1. IInv => ContextsOwned
  BY DEF IInv
<1> QED BY <1>1, Inductive, PTL

\* The scheduler's search for a ready process always ends.
THEOREM SchedulerLives == Spec => []SchedulerNeverHangs
<1>1. IInv => SchedulerNeverHangs
  BY DEF IInv
<1> QED BY <1>1, Inductive, PTL


-----------------------------------------------------------------------------

(***************************************************************************)
(* The request for input: what the keyboard driver remembers about the     *)
(* reader stays true until an exit below it, or a second reader, disturbs  *)
(* the request, and until then nobody waits in vain                        *)
(***************************************************************************)

\* The buffers that programs pass have a place for the NUL at least; the kernel
\* only logs that one has not.
BuffersHold == \A b \in Buffers : b[2] > 0

\* processBufferPos is never reset by a request: Enter leaves it at 0 for the
\* next one.
PosReset == ~processWaitingForInput => processBufferPos = 0

\* Slot w belongs to the reader and holds the whole buffer.
Serves(w) ==
    /\ w \in User
    /\ processes[w].pid = reader
    /\ processes[w].waiting
    /\ processes[w].memStart <= processBufferLoc
    /\ processBufferLoc + processBufferSize <= processes[w].memStart + processes[w].memSize

Undisturbed ==
    processWaitingForInput /\ ~disturbed =>
        /\ Serves(inputWaintingPID)
        /\ processBufferPos < processBufferSize

InputInv ==
    /\ processBufferPos >= 0
    /\ PosReset
    /\ Undisturbed
    /\ NobodyForgotten
    /\ disturbed => everDisturbed

-----------------------------------------------------------------------------

(***************************************************************************)
(* Steps that leave the request alone                                      *)
(***************************************************************************)

\* The processes there were are where they were and wait if they did; who is new
\* does not wait.
KeepsWaiting ==
    /\ \A i \in User : /\ i \in User'
                       /\ processes'[i].pid = processes[i].pid
                       /\ processes'[i].memStart = processes[i].memStart
                       /\ processes'[i].memSize = processes[i].memSize
                       /\ processes'[i].waiting = processes[i].waiting
    /\ \A i \in User' : i \in User \/ ~processes'[i].waiting

LEMMA KeptInput ==
    ASSUME InputInv, KeepsWaiting, UNCHANGED <<kbdVars, readVars>>
    PROVE  InputInv'
<1>1. /\ processBufferLoc' = processBufferLoc /\ processBufferPos' = processBufferPos
      /\ processBufferSize' = processBufferSize
      /\ processWaitingForInput' = processWaitingForInput
      /\ inputWaintingPID' = inputWaintingPID
      /\ reader' = reader /\ disturbed' = disturbed /\ everDisturbed' = everDisturbed
  BY DEF kbdVars, readVars
<1>2. PosReset' /\ processBufferPos' >= 0 /\ (disturbed' => everDisturbed')
  BY <1>1 DEF InputInv, PosReset
<1>3. Undisturbed'
  BY <1>1 DEF InputInv, Undisturbed, Serves, KeepsWaiting
<1>4. NobodyForgotten'
  BY <1>1 DEF InputInv, NobodyForgotten, KeepsWaiting
<1> QED BY <1>2, <1>3, <1>4 DEF InputInv

\* The same for a step that keeps all slots.
LEMMA SlotsKeepWaiting ==
    ASSUME IInv, processCount' = processCount,
           \A i \in Slots : /\ processes'[i].pid = processes[i].pid
                            /\ processes'[i].memStart = processes[i].memStart
                            /\ processes'[i].memSize = processes[i].memSize
                            /\ processes'[i].waiting = processes[i].waiting
    PROVE  KeepsWaiting
<1>1. \A i \in User : i \in Slots
  BY Types DEF IInv
<1>2. User' = User
  BY DEF User
<1> QED BY <1>1, <1>2 DEF KeepsWaiting

\* A new process does not wait.
LEMMA SpawnKeepsWaiting ==
    ASSUME IInv, NEW fileSize \in ImageSizes, SC_SPAWNPROC(fileSize)
    PROVE  KeepsWaiting
<1>1. /\ processCount \in Nat /\ processCount < ProcSlots /\ ProcSlots \in Nat
      /\ processes \in [Slots -> ProcessEntry] /\ TypeOK
      /\ \A i \in User : i \in Slots
  BY Types, ProcessAssumption DEF IInv, SC_SPAWNPROC
<1>2. CASE AllocFault(fileSize + StackSize) # "no"
  <2>1. processes' = processes /\ processCount' = processCount
    BY <1>2 DEF SC_SPAWNPROC
  <2> QED BY <2>1, SlotsKeepWaiting
<1>3. CASE AllocFault(fileSize + StackSize) = "no"
  <2>1. /\ processCount' = processCount + 1
        /\ processes' = [processes EXCEPT ![processCount] =
                            NewEntry(@, fileSize, AllocAddr, NewPid)]
    BY <1>3 DEF SC_SPAWNPROC, SpawnProcess
  <2>2. processCount \in Slots
    BY <1>1 DEF Slots
  <2>3. ~processes'[processCount].waiting
    <3>1. processes[processCount] \in ProcessEntry
      BY <1>1, <2>2
    <3> QED BY <3>1, <2>1, <2>2, <1>1 DEF NewEntry, ProcessEntry
  <2>4. \A i \in User : i # processCount /\ i \in User'
    BY <1>1, <2>1 DEF User
  <2>5. \A i \in User' : i \in User \/ i = processCount
    BY <1>1, <2>1 DEF User
  <2>6. \A i \in User : processes'[i] = processes[i]
    BY <1>1, <2>1, <2>4
  <2> QED BY <2>3, <2>4, <2>5, <2>6 DEF KeepsWaiting
<1> QED BY <1>2, <1>3

-----------------------------------------------------------------------------

(***************************************************************************)
(* Requests, exits and keys                                                *)
(***************************************************************************)

\* A reader that was alone with its request has its own slot and memory in it.
LEMMA RequestServed ==
    ASSUME BuffersHold, IInv, InputInv, NEW b \in Buffers, SC_GETUINPUT(b[1], b[2])
    PROVE  InputInv'
<1> DEFINE procs == [processes EXCEPT ![schedulerProcessAt].waiting = TRUE]
           w == schedulerProcessAt
<1>1. /\ cpu.owner >= 0 /\ w # 1
      /\ b[1] + b[2] <= Current.memSize
      /\ RequestLine(b[1], b[2])
      /\ SwitchFrom(procs)
      /\ processCount' = processCount
  BY DEF SC_GETUINPUT, UserRuns, NotInit
<1>2. /\ TypeOK /\ processes \in [Slots -> ProcessEntry]
      /\ w \in User /\ w \in Slots
      /\ ~processes[1].waiting /\ 1 \in Slots
      /\ \A i \in User : i \in Slots
  <2>1. TypeOK /\ processes \in [Slots -> ProcessEntry] /\ w \in Slots
        /\ \A i \in User : i \in Slots
    BY Types DEF IInv, TypeOK
  <2>2. w \in User
    BY <1>1 DEF IInv, RunningIsCurrent
  <2>3. 1 \in Slots
    BY ProcessAssumption DEF Slots
  <2>4. ~processes[1].waiting
    BY DEF IInv, InitReady
  <2> QED BY <2>1, <2>2, <2>3, <2>4
<1>3. procs \in [Slots -> ProcessEntry]
  BY <1>2, WaitingTable
<1>4. /\ ~procs[1].waiting
      /\ procs[w].waiting
      /\ \A i \in Slots : /\ procs[i].pid = processes[i].pid
                          /\ procs[i].memStart = processes[i].memStart
                          /\ procs[i].memSize = processes[i].memSize
                          /\ i # w => procs[i].waiting = processes[i].waiting
  BY <1>1, <1>2 DEF ProcessEntry
<1>5. \A i \in Slots : /\ processes'[i].pid = procs[i].pid
                       /\ processes'[i].memStart = procs[i].memStart
                       /\ processes'[i].memSize = procs[i].memSize
                       /\ processes'[i].waiting = procs[i].waiting
  <2> HIDE DEF procs
  <2> QED BY <1>1, <1>3, <1>4, SwitchKeepsEntries
<1> HIDE DEF procs
<1>6. User' = User
  BY <1>1 DEF User
<1>7. /\ processBufferLoc' = b[1] + processes[w].memStart
      /\ processBufferSize' = b[2]
      /\ processWaitingForInput'
      /\ inputWaintingPID' = w
      /\ reader' = processes[w].pid
      /\ disturbed' = processWaitingForInput
      /\ everDisturbed' = (everDisturbed \/ processWaitingForInput)
      /\ processBufferPos' = processBufferPos
  BY <1>1 DEF RequestLine, BufferAt
<1>8. /\ b[1] \in Nat /\ b[2] \in Nat /\ b[2] > 0
      /\ processes[w].memStart \in Int /\ processes[w].memSize \in Int
      /\ b[1] + b[2] <= processes[w].memSize
  BY <1>1, <1>2, Fields, KernelAssumption DEF BuffersHold, Current
<1>9. Undisturbed'
  <2> SUFFICES ASSUME ~disturbed'
               PROVE  Serves(inputWaintingPID)' /\ processBufferPos' < processBufferSize'
    BY DEF Undisturbed
  <2>1. processBufferPos' = 0
    BY <1>7 DEF InputInv, PosReset
  <2>2. /\ processes'[w].memStart <= processBufferLoc'
        /\ processBufferLoc' + processBufferSize' <= processes'[w].memStart + processes'[w].memSize
    BY <1>2, <1>4, <1>5, <1>7, <1>8
  <2>3. processes'[w].pid = reader' /\ processes'[w].waiting /\ w \in User'
    BY <1>2, <1>4, <1>5, <1>6, <1>7
  <2> QED BY <2>1, <2>2, <2>3, <1>7, <1>8 DEF Serves
<1>10. NobodyForgotten'
  BY <1>2, <1>4, <1>5, <1>6, <1>7 DEF InputInv, NobodyForgotten
<1>11. PosReset' /\ processBufferPos' >= 0 /\ (disturbed' => everDisturbed')
  BY <1>7 DEF InputInv, PosReset
<1> QED BY <1>9, <1>10, <1>11 DEF InputInv

\* The exit of a process above the reader leaves the reader's slot alone; that of
\* one below it disturbs the request.
LEMMA ExitServed ==
    ASSUME IInv, InputInv, SC_EXIT
    PROVE  InputInv'
<1> DEFINE idx == schedulerProcessAt
           w == inputWaintingPID
           moved == processWaitingForInput /\ 0 < idx /\ idx < Index(reader)
<1>1. /\ cpu.owner >= 0 /\ Kill(Current.pid) /\ DisturbedBy(Index(Current.pid))
      /\ UNCHANGED kbdVars
  BY DEF SC_EXIT, UserRuns
<1>2. /\ idx \in User /\ ~processes[idx].waiting
      /\ processCount \in Nat
      /\ processes \in [Slots -> ProcessEntry]
      /\ \A i \in User : i \in Nat /\ i > 0 /\ i \in Slots
      /\ disturbed \in BOOLEAN /\ everDisturbed \in BOOLEAN
  BY <1>1, Types DEF IInv, RunningIsCurrent, Current, TypeOK, KbdTypeOK
<1>3. Index(Current.pid) = idx /\ idx # -1
  BY <1>2, OwnIndex DEF Current
<1>4. processes' = Closed(idx) /\ processCount' = processCount - 1
  BY <1>1, <1>3 DEF Kill
<1>5. /\ processBufferLoc' = processBufferLoc /\ processBufferPos' = processBufferPos
      /\ processBufferSize' = processBufferSize
      /\ processWaitingForInput' = processWaitingForInput
      /\ inputWaintingPID' = inputWaintingPID
      /\ reader' = reader
      /\ disturbed' = (disturbed \/ moved)
      /\ everDisturbed' = (everDisturbed \/ moved)
  BY <1>1, <1>3 DEF kbdVars, DisturbedBy
<1>6. processWaitingForInput /\ ~disturbed =>
         /\ Serves(w) /\ processBufferPos < processBufferSize
         /\ Index(reader) = w /\ w # idx
  BY <1>2, OwnIndex DEF InputInv, Undisturbed, Serves
<1>7. \A i \in User' : i \in User /\ i < processCount - 1 /\ i + 1 \in User
  BY <1>2, <1>4 DEF User
<1>8. \A i \in User' : i < idx => processes'[i] = processes[i]
  BY <1>2, <1>4, <1>7 DEF Closed
<1>9. \A i \in User' : i >= idx => processes'[i].waiting = processes[i + 1].waiting
  <2> SUFFICES ASSUME NEW i \in User', i >= idx
               PROVE  processes'[i].waiting = processes[i + 1].waiting
    OBVIOUS
  <2>1. processes'[i] = [processes[i + 1] EXCEPT !.memStart = @ - processes[idx].memSize]
    BY <1>2, <1>4, <1>7 DEF Closed
  <2> QED BY <2>1, <1>2, <1>7 DEF ProcessEntry
<1>10. Undisturbed'
  <2> SUFFICES ASSUME processWaitingForInput, ~disturbed, ~moved
               PROVE  Serves(w)' /\ processBufferPos < processBufferSize
    BY <1>5 DEF Undisturbed
  <2>1. /\ Serves(w) /\ processBufferPos < processBufferSize
        /\ Index(reader) = w /\ w # idx
    BY <1>6
  <2>2. w \in User /\ w < idx
    BY <2>1, <1>2 DEF Serves
  <2>3. w \in User'
    BY <2>2, <1>2, <1>4 DEF User
  <2> QED BY <2>1, <2>2, <2>3, <1>5, <1>8 DEF Serves
<1>11. NobodyForgotten'
  <2> SUFFICES ASSUME ~everDisturbed, ~moved, NEW i \in User', processes'[i].waiting
               PROVE  processWaitingForInput /\ i = w
    BY <1>5 DEF NobodyForgotten
  <2>1. \A j \in User : processes[j].waiting => processWaitingForInput /\ j = w
    BY DEF InputInv, NobodyForgotten
  <2>2. CASE i < idx
    BY <2>1, <2>2, <1>7, <1>8
  <2>3. CASE i >= idx
    <3>1. processWaitingForInput /\ i + 1 = w
      BY <2>1, <2>3, <1>7, <1>9
    <3>2. ~disturbed
      BY DEF InputInv
    <3>3. Index(reader) = w
      BY <3>1, <3>2, <1>6
    <3> QED BY <3>1, <3>3, <2>3, <1>2, <1>7
  <2> QED BY <2>2, <2>3, <1>2, <1>7
<1>12. PosReset' /\ processBufferPos' >= 0 /\ (disturbed' => everDisturbed')
  BY <1>5 DEF InputInv, PosReset
<1> QED BY <1>10, <1>11, <1>12 DEF InputInv

\* Enter ends the request and wakes the slot it names; other keys move within
\* the buffer.
LEMMA KeyServed ==
    ASSUME IInv, InputInv, Keystroke
    PROVE  InputInv'
<1>1. /\ PS2KBDISR /\ User' = User
      /\ reader' = reader /\ disturbed' = disturbed /\ everDisturbed' = everDisturbed
  BY DEF Keystroke, readVars, User
<1>2. /\ processes \in [Slots -> ProcessEntry]
      /\ \A i \in User : i \in Slots
      /\ inputWaintingPID \in Slots
      /\ processBufferPos \in Int /\ processBufferSize \in Int /\ processBufferLoc \in Int
  BY Types DEF IInv, TypeOK, KbdTypeOK
<1>3. CASE KbdEnter
  <2>1. /\ ~processWaitingForInput' /\ processBufferPos' = 0 /\ processes' = Woken
        /\ inputWaintingPID' = inputWaintingPID
    BY <1>3 DEF KbdEnter
  <2>2. \A i \in User : i = inputWaintingPID => ~processes'[i].waiting
    BY <2>1, <1>2 DEF Woken, ProcessEntry
  <2>3. \A i \in User : i # inputWaintingPID => processes'[i].waiting = processes[i].waiting
    BY <2>1, <1>2 DEF Woken
  <2>4. NobodyForgotten'
    BY <2>2, <2>3, <1>1 DEF InputInv, NobodyForgotten
  <2>5. PosReset' /\ Undisturbed'
    BY <2>1 DEF PosReset, Undisturbed
  <2> QED BY <2>1, <2>4, <2>5, <1>1 DEF InputInv
<1>4. CASE KbdReturn \/ KbdChar
  <2>1. /\ processes' = processes /\ processBufferLoc' = processBufferLoc
        /\ processBufferSize' = processBufferSize
        /\ processWaitingForInput /\ processWaitingForInput' = processWaitingForInput
        /\ inputWaintingPID' = inputWaintingPID
    BY <1>4 DEF KbdReturn, KbdChar
  <2>2. /\ processBufferPos' >= 0
        /\ processBufferPos < processBufferSize => processBufferPos' < processBufferSize
    BY <1>2, <1>4 DEF KbdReturn, KbdChar, RoomForChar, InputInv
  <2>3. PosReset'
    BY <2>1 DEF PosReset
  <2>4. NobodyForgotten'
    BY <2>1, <1>1 DEF InputInv, NobodyForgotten
  <2>5. Undisturbed'
    BY <2>1, <2>2, <1>1 DEF InputInv, Undisturbed, Serves
  <2> QED BY <2>2, <2>3, <2>4, <2>5, <1>1 DEF InputInv
<1> QED BY <1>1, <1>3, <1>4 DEF PS2KBDISR

\* Messages, exceptions and what programs do by themselves.
LEMMA OthersKeepWaiting ==
    ASSUME IInv,
           \/ \E pid, body : SC_MSG_SEND(pid, body)
           \/ SC_MSG_POP
           \/ \E vector : RaiseException(vector)
           \/ \E val, ebp : UserCompute(val, ebp)
           \/ \E offset : UserStore(offset)
           \/ UNCHANGED vars
    PROVE  KeepsWaiting /\ UNCHANGED <<kbdVars, readVars>>
<1>1. /\ processes \in [Slots -> ProcessEntry] /\ schedulerProcessAt \in Slots
      /\ disturbed \in BOOLEAN /\ everDisturbed \in BOOLEAN
  BY Types DEF IInv, TypeOK, KbdTypeOK
<1>2. ASSUME NEW pid, NEW body, SC_MSG_SEND(pid, body)
      PROVE  KeepsWaiting /\ UNCHANGED <<kbdVars, readVars>>
  <2>1. /\ UNCHANGED <<processCount, kbdVars, readVars>>
        /\ SendMessageToProcess(pid, body)
    BY <1>2 DEF SC_MSG_SEND
  <2>2. \A i \in Slots : /\ processes'[i].pid = processes[i].pid
                         /\ processes'[i].memStart = processes[i].memStart
                         /\ processes'[i].memSize = processes[i].memSize
                         /\ processes'[i].waiting = processes[i].waiting
    BY <2>1, <1>1 DEF SendMessageToProcess, ProcessEntry
  <2> QED BY <2>1, <2>2, SlotsKeepWaiting
<1>3. CASE SC_MSG_POP
  <2>1. UNCHANGED <<processCount, kbdVars, readVars>>
    BY <1>3 DEF SC_MSG_POP
  <2>2. \A i \in Slots : /\ processes'[i].pid = processes[i].pid
                         /\ processes'[i].memStart = processes[i].memStart
                         /\ processes'[i].memSize = processes[i].memSize
                         /\ processes'[i].waiting = processes[i].waiting
    BY <1>1, <1>3 DEF SC_MSG_POP, Popped, ProcessEntry
  <2> QED BY <2>1, <2>2, SlotsKeepWaiting
<1>4. ASSUME NEW vector, RaiseException(vector)
      PROVE  KeepsWaiting /\ UNCHANGED <<kbdVars, readVars>>
  <2>1. Index(schedulerProcessAt) = -1
    BY <1>1, IndexIsNoPid
  <2>2. UNCHANGED <<processes, processCount, kbdVars>>
    BY <2>1, <1>4 DEF RaiseException, Kill
  <2>3. UNCHANGED readVars
    BY <2>1, <1>1, <1>4 DEF RaiseException, DisturbedBy, readVars
  <2> QED BY <2>2, <2>3, SlotsKeepWaiting
<1>5. ASSUME NEW val, NEW ebp, UserCompute(val, ebp)
      PROVE  KeepsWaiting /\ UNCHANGED <<kbdVars, readVars>>
  BY <1>5, SlotsKeepWaiting DEF UserCompute, tableVars
<1>6. ASSUME NEW offset, UserStore(offset)
      PROVE  KeepsWaiting /\ UNCHANGED <<kbdVars, readVars>>
  BY <1>6, SlotsKeepWaiting DEF UserStore, tableVars
<1>7. CASE UNCHANGED vars
  BY <1>7, SlotsKeepWaiting DEF vars, tableVars
<1> QED BY <1>2, <1>3, <1>4, <1>5, <1>6, <1>7

-----------------------------------------------------------------------------

(***************************************************************************)
(* What readers are promised                                               *)
(***************************************************************************)

LEMMA InputStep ==
    ASSUME BuffersHold, IInv, InputInv, [Next]_vars
    PROVE  InputInv'
<1>1. CASE PITISR
  <2>1. /\ processes \in [Slots -> ProcessEntry] /\ ~processes[1].waiting
        /\ SwitchFrom(processes) /\ processCount' = processCount
        /\ UNCHANGED <<kbdVars, readVars>>
    BY <1>1, Types DEF PITISR, IInv, InitReady
  <2>2. KeepsWaiting
    BY <2>1, SwitchKeepsEntries, SlotsKeepWaiting
  <2> QED BY <2>1, <2>2, KeptInput
<1>2. ASSUME NEW fileSize \in ImageSizes, SC_SPAWNPROC(fileSize)
      PROVE  InputInv'
  <2>1. UNCHANGED <<kbdVars, readVars>>
    BY <1>2 DEF SC_SPAWNPROC
  <2> QED BY <2>1, <1>2, SpawnKeepsWaiting, KeptInput
<1> QED BY <1>1, <1>2, RequestServed, ExitServed, KeyServed, OthersKeepWaiting, KeptInput
        DEF Next, SystemCall, Program

LEMMA InitInput == Init => InputInv
<1> SUFFICES ASSUME Init PROVE InputInv
  OBVIOUS
<1>1. /\ processBufferPos = 0 /\ ~processWaitingForInput
      /\ ~disturbed /\ processCount = 2
  BY DEF Init, KbdInit
<1>2. \A i \in User : i = 1
  BY <1>1 DEF User
<1>3. ~processes[1].waiting
  BY InitIInv DEF IInv, InitReady
<1> QED BY <1>1, <1>2, <1>3 DEF InputInv, PosReset, Undisturbed, NobodyForgotten

\* Every reachable state satisfies both invariants, if no buffer is empty.
THEOREM InputInductive ==
    ASSUME BuffersHold
    PROVE  Spec => [](IInv /\ InputInv)
<1>1. Init => IInv /\ InputInv
  BY InitIInv, InitInput
<1>2. IInv /\ InputInv /\ [Next]_vars => (IInv /\ InputInv)'
  BY IInvStep, InputStep
<1> QED BY <1>1, <1>2, PTL DEF Spec

\* While nothing has disturbed a request, the slot the keyboard will wake is the
\* reader's, the reader waits, and the line and its NUL fit into its memory.
THEOREM ReadersServed ==
    ASSUME BuffersHold
    PROVE  Spec => []InputServed
<1>1. IInv /\ InputInv => InputServed
  <2> SUFFICES ASSUME IInv, InputInv, processWaitingForInput, ~disturbed
               PROVE  InputServed
    BY DEF InputServed
  <2> DEFINE w == inputWaintingPID
  <2>1. Serves(w) /\ processBufferPos < processBufferSize /\ processBufferPos >= 0
    BY DEF InputInv, Undisturbed
  <2>2. /\ processes[w].memStart \in Int /\ processes[w].memSize \in Int
        /\ processBufferPos \in Int /\ processBufferSize \in Int /\ processBufferLoc \in Int
    <3>1. TypeOK /\ w \in Slots
      BY Types DEF IInv, TypeOK, KbdTypeOK
    <3> QED BY <3>1, Fields DEF TypeOK, KbdTypeOK
  <2> QED BY <2>1, <2>2 DEF Serves, InputServed
<1> QED BY <1>1, InputInductive, PTL

\* Until some request has been disturbed, whoever waits is the one Enter wakes.
THEOREM NobodyIsForgotten ==
    ASSUME BuffersHold
    PROVE  Spec => []NobodyForgotten
<1>1. InputInv => NobodyForgotten
  BY DEF InputInv
<1> QED BY <1>1, InputInductive, PTL

=============================================================================
