--------------------------- MODULE RefinementProofs ---------------------------
(***************************************************************************)
(* Proofs that the kernel implements its abstract specifications, for      *)
(* every size of its tables: RoundRobin for the scheduler and Mailbox for  *)
(* message passing.  The initial states map to initial states, and every   *)
(* step to a step or to a stutter.                                         *)
(***************************************************************************)
EXTENDS KernelRefinement, PreservationProofs, SequenceTheorems

-----------------------------------------------------------------------------

(***************************************************************************)
(* The row of processes                                                    *)
(***************************************************************************)

Place == [id : Int, waiting : BOOLEAN]

\* The row is a sequence with a place for every process but KPROC.
LEMMA RowIsSeq ==
    IInv => /\ RowOf \in Seq(Place)
            /\ Len(RowOf) = processCount - 1
            /\ RowOf = [i \in 1 .. processCount - 1 |->
                          [id |-> processes[i].pid, waiting |-> processes[i].waiting]]
            /\ User = 1 .. Len(RowOf)
<1> SUFFICES ASSUME IInv
             PROVE  /\ RowOf \in Seq(Place)
                    /\ Len(RowOf) = processCount - 1
                    /\ RowOf = [i \in 1 .. processCount - 1 |->
                          [id |-> processes[i].pid, waiting |-> processes[i].waiting]]
                    /\ User = 1 .. Len(RowOf)
  OBVIOUS
<1> DEFINE n == processCount - 1
<1>1. n \in Nat
  BY Types DEF IInv, InitReady
<1>2. \A i \in 1 .. n : [id |-> processes[i].pid, waiting |-> processes[i].waiting] \in Place
  <2> SUFFICES ASSUME NEW i \in 1 .. n
               PROVE  processes[i].pid \in Int /\ processes[i].waiting \in BOOLEAN
    BY DEF Place
  <2>1. i \in Slots
    BY Types DEF IInv, User
  <2> QED BY <2>1, Fields DEF IInv
<1>3. RowOf = [i \in 1 .. n |-> [id |-> processes[i].pid, waiting |-> processes[i].waiting]]
  BY DEF RowOf, User
<1>4. RowOf \in [1 .. n -> Place]
  BY <1>2, <1>3
<1>5. RowOf \in Seq(Place)
  BY <1>1, <1>4, SeqDef
<1>6. Len(RowOf) = n
  <2>1. DOMAIN RowOf = 1 .. n /\ DOMAIN RowOf = 1 .. Len(RowOf) /\ Len(RowOf) \in Nat
    BY <1>4, <1>5, LenProperties
  <2> QED BY <2>1, <1>1
<1> QED BY <1>3, <1>5, <1>6 DEF User

LEMMA RowIsSeqNext ==
    IInv' => (/\ RowOf \in Seq(Place)
              /\ Len(RowOf) = processCount - 1
              /\ RowOf = [i \in 1 .. processCount - 1 |->
                            [id |-> processes[i].pid, waiting |-> processes[i].waiting]]
              /\ User = 1 .. Len(RowOf))'
BY RowIsSeq, PTL

\* getNextProcessDry finds the one process that has its turn in the row.
LEMMA NextHasTurn ==
    ASSUME IInv, NEW procs, ~procs[1].waiting,
           NEW r \in Seq(Place), Len(r) = processCount - 1,
           \A i \in User : r[i].waiting = procs[i].waiting
    PROVE  RR!NextTurn(r) = NextProcess(procs)
<1> DEFINE at == schedulerProcessAt
           after == {i \in Ready(procs) : i > at}
           next == NextProcess(procs)
           Turn(i) == RR!Passed(r, i) \cap RR!ReadyIn(r) = {}
<1>1. /\ at \in Nat /\ processCount \in Nat /\ processCount >= 2
      /\ \A i \in User : i \in Nat /\ i > 0
  BY Types DEF IInv, InitReady
<1>2. User = 1 .. Len(r) /\ Ready(procs) = {i \in User : ~procs[i].waiting}
  BY DEF User, Ready
<1>3. RR!ReadyIn(r) = Ready(procs)
  BY <1>2 DEF RR!ReadyIn
<1>4. Ready(procs) # {} /\ Ready(procs) \in SUBSET Nat /\ after \in SUBSET Nat
  BY <1>1, <1>2 DEF User
<1>5. next \in Ready(procs)
  <2>1. Least(Ready(procs)) \in Ready(procs)
    BY <1>4, LeastIsLeast
  <2>2. after # {} => Least(after) \in after
    BY <1>4, LeastIsLeast
  <2> QED BY <2>1, <2>2 DEF NextProcess
<1>6. Turn(next)
  <2> SUFFICES ASSUME NEW k \in Ready(procs), k \in RR!Passed(r, next)
               PROVE  FALSE
    BY <1>3
  <2>0. k \in Nat /\ next \in Nat
    BY <1>4, <1>5
  <2>1. CASE after # {}
    <3>1. next \in after /\ \A i \in after : next <= i
      BY <2>1, <1>4, LeastIsLeast DEF NextProcess
    <3>2. k > at /\ k < next
      BY <3>1, <2>0, <1>1 DEF RR!Passed
    <3> QED BY <3>1, <3>2, <2>0
  <2>2. CASE after = {}
    <3>1. \A i \in Ready(procs) : next <= i
      BY <2>2, <1>4, LeastIsLeast DEF NextProcess
    <3>2. k <= at /\ next <= at
      BY <2>0, <2>2, <1>1, <1>5
    <3>3. k < next
      BY <3>2, <2>0, <1>1 DEF RR!Passed
    <3> QED BY <3>1, <3>3, <2>0
  <2> QED BY <2>1, <2>2
<1>7. ASSUME NEW i \in Ready(procs), NEW j \in Ready(procs), i < j, Turn(i), Turn(j)
      PROVE  FALSE
  <2>1. i \in 1 .. Len(r) /\ j \in 1 .. Len(r) /\ Len(r) \in Int
    BY <1>1, <1>2
  <2>2. CASE at < i
    <3>1. i \in RR!Passed(r, j)
      BY <2>1, <2>2, <1>1, <1>7 DEF RR!Passed
    <3> QED BY <3>1, <1>3, <1>7
  <2>3. CASE i <= at /\ at < j
    <3>1. j \in RR!Passed(r, i)
      BY <2>1, <2>3, <1>1 DEF RR!Passed
    <3> QED BY <3>1, <1>3, <1>7
  <2>4. CASE j <= at
    <3>1. i \in RR!Passed(r, j)
      BY <2>1, <2>4, <1>1, <1>7 DEF RR!Passed
    <3> QED BY <3>1, <1>3, <1>7
  <2> QED BY <2>1, <2>2, <2>3, <2>4, <1>1
<1>8. \A i \in Ready(procs) : Turn(i) => i = next
  <2> SUFFICES ASSUME NEW i \in Ready(procs), Turn(i), i # next PROVE FALSE
    OBVIOUS
  <2>1. i \in Nat /\ next \in Nat
    BY <1>4, <1>5
  <2>2. i < next \/ next < i
    BY <2>1
  <2> HIDE DEF Turn, next
  <2> QED BY <2>2, <1>5, <1>6, <1>7
<1> QED BY <1>3, <1>5, <1>6, <1>8 DEF RR!NextTurn

-----------------------------------------------------------------------------

(***************************************************************************)
(* Steps of the row                                                        *)
(***************************************************************************)

\* What the mode says of the CPU.
LEMMA Modes ==
    IInv => /\ UserRuns => ModeOf = "user"
            /\ Running => ModeOf # "halted"
            /\ ~Running => ModeOf = "halted"
<1> SUFFICES ASSUME IInv
             PROVE  /\ UserRuns => ModeOf = "user"
                    /\ Running => ModeOf # "halted"
                    /\ ~Running => ModeOf = "halted"
  OBVIOUS
<1>1. cpu.owner \in Int
  BY Types DEF IInv, Context
<1> QED BY <1>1 DEF ModeOf, UserRuns, Running, KernelMain, WaitStub

LEMMA ModesNext ==
    IInv' => (/\ UserRuns => ModeOf = "user"
              /\ Running => ModeOf # "halted"
              /\ ~Running => ModeOf = "halted")'
BY Modes, PTL

\* A step that changes no pid and no waiting flag leaves the row alone.
LEMMA SameRow ==
    ASSUME IInv, processCount' = processCount,
           \A i \in User : /\ processes'[i].pid = processes[i].pid
                           /\ processes'[i].waiting = processes[i].waiting
    PROVE  RowOf' = RowOf
<1>1. User' = User
  BY DEF User
<1> QED BY <1>1 DEF RowOf

\* The switch gives the turn the row asks for.
LEMMA SwitchTurns ==
    ASSUME IInv, IInv', Running,
           NEW procs \in [Slots -> ProcessEntry], ~procs[1].waiting, SwitchFrom(procs),
           processCount' = processCount,
           \A i \in Slots : procs[i].pid = processes[i].pid
    PROVE  /\ schedulerProcessAt' = RR!NextTurn(RowOf')
           /\ ModeOf' = "user"
           /\ RowOf' = [i \in User |-> [id |-> processes[i].pid, waiting |-> procs[i].waiting]]
<1> DEFINE next == NextProcess(procs)
<1>1. /\ processCount \in Nat /\ processCount >= 2
      /\ \A i \in User : i \in Slots
  BY Types DEF IInv, InitReady
<1>2. Ready(procs) # {}
  BY <1>1 DEF Ready
<1>3. /\ schedulerProcessAt' = next /\ cpu' = processes'[next].regs /\ halted' = halted
      /\ next \in User
  BY <1>2, NextIsReady DEF SwitchFrom, IInv
<1>4. \A i \in Slots : /\ processes'[i].pid = processes[i].pid
                       /\ processes'[i].waiting = procs[i].waiting
  BY SwitchKeepsEntries
<1>5. User' = User
  BY DEF User
<1>6. RowOf' = [i \in User |-> [id |-> processes[i].pid, waiting |-> procs[i].waiting]]
  BY <1>1, <1>4, <1>5 DEF RowOf
<1>7. RR!NextTurn(RowOf') = next
  <2>1. RowOf' \in Seq(Place) /\ Len(RowOf') = processCount - 1
    BY RowIsSeqNext
  <2>2. \A i \in User : RowOf'[i].waiting = procs[i].waiting
    BY <1>6
  <2> QED BY <2>1, <2>2, NextHasTurn
<1>8. ModeOf' = "user"
  <2>1. cpu'.owner = processes'[next].pid
    BY <1>3, <1>5 DEF IInv, ContextsOwned
  <2>2. processes'[next].pid = processes[next].pid /\ next \in 0 .. processCount - 1
    BY <1>1, <1>3, <1>4, Types DEF IInv
  <2>3. cpu'.owner \in Int /\ cpu'.owner >= 0
    BY <2>1, <2>2, Types, Fields, ProcessAssumption DEF IInv, PidsHigh
  <2>4. UserRuns'
    BY <2>3, <1>3 DEF UserRuns, Running
  <2> QED BY <2>4, ModesNext
<1> QED BY <1>3, <1>6, <1>7, <1>8

\* SC_SPAWNPROC appends to the row a process that is not in it, or halts.
LEMMA SpawnIsSpawn ==
    ASSUME IInv, IInv', NEW fileSize \in ImageSizes, SC_SPAWNPROC(fileSize)
    PROVE  RR!Halt \/ \E id \in PidRange : RR!Spawn(id)
<1>1. /\ UserRuns /\ processCount < ProcSlots /\ tick < MaxTick
      /\ schedulerProcessAt' = schedulerProcessAt /\ cpu' = cpu
  BY DEF SC_SPAWNPROC, cpuVars
<1>2. ModeOf = "user"
  BY <1>1, Modes
<1>3. CASE AllocFault(fileSize + StackSize) # "no"
  <2>1. /\ halted' = AllocFault(fileSize + StackSize)
        /\ processes' = processes /\ processCount' = processCount
    BY <1>3 DEF SC_SPAWNPROC
  <2>2. RowOf' = RowOf
    BY <2>1, SameRow
  <2>3. ModeOf' = "halted"
    BY <2>1, <1>3, ModesNext DEF Running
  <2> QED BY <2>2, <2>3, <1>1, <1>2 DEF RR!Halt
<1>4. CASE AllocFault(fileSize + StackSize) = "no"
  <2>1. /\ processCount' = processCount + 1
        /\ processes' = [processes EXCEPT ![processCount] =
                            NewEntry(@, fileSize, AllocAddr, NewPid)]
        /\ halted' = halted
    BY <1>4 DEF SC_SPAWNPROC, SpawnProcess
  <2>2. /\ processCount \in Nat /\ processCount >= 2 /\ ProcSlots \in Nat
        /\ processes \in [Slots -> ProcessEntry]
        /\ tick \in Nat /\ MaxTick \in Nat
        /\ \A i \in User : i \in Slots /\ i \in 0 .. processCount - 1 /\ processes[i].pid \in Int
    BY Types, Fields, ProcessAssumption, KernelAssumption DEF IInv, InitReady
  <2>3. processCount \in Slots /\ processes[processCount] \in ProcessEntry
    BY <1>1, <2>2 DEF Slots
  <2>4. processes'[processCount].pid = NewPid /\ ~processes'[processCount].waiting
    BY <2>1, <2>2, <2>3 DEF NewEntry, ProcessEntry
  <2>5. processes'[processCount].waiting = FALSE
    <3>1. processCount \in User'
      BY <2>1, <2>2 DEF User
    <3>2. processes'[processCount].waiting \in BOOLEAN
      BY <3>1, <2>1, <2>2, <2>3 DEF NewEntry, ProcessEntry
    <3> QED BY <3>2, <2>4
  <2>6. NewPid \in PidRange /\ NewPid \in Int
    BY <1>1, <2>2 DEF NewPid, PidRange
  <2>7. \A i \in User : processes[i].pid # NewPid
    <3>1. cpu.owner # WaitStub
      BY <1>1 DEF UserRuns, WaitStub
    <3>2. \A i \in User : processes[i].pid < tick + processCount
      BY <3>1, <2>2, <1>1 DEF IInv, PidsPast
    <3> QED BY <3>2, <2>2 DEF NewPid
  <2> DEFINE new == [id |-> NewPid, waiting |-> FALSE]
  <2>8. new \in Place
    BY <2>6 DEF Place
  <2>9. /\ RowOf \in Seq(Place) /\ Len(RowOf) = processCount - 1 /\ User = 1 .. Len(RowOf)
        /\ RowOf' \in Seq(Place) /\ Len(RowOf') = processCount
        /\ User' = 1 .. Len(RowOf')
    BY <2>1, <2>2, RowIsSeq, RowIsSeqNext
  <2>10. /\ \A i \in User : i \in User' /\ i # processCount
         /\ \A i \in User' : i \in User \/ i = processCount
         /\ processCount \in User' /\ processCount = Len(RowOf) + 1
    BY <2>1, <2>2, <2>9 DEF User
  <2>11. \A i \in User : RowOf'[i] = RowOf[i]
    BY <2>1, <2>2, <2>10 DEF RowOf
  <2>12. RowOf'[processCount] = new
    BY <2>4, <2>5, <2>10 DEF RowOf
  <2> HIDE DEF new
  <2>13. RowOf' = Append(RowOf, new)
    <3>1. /\ Append(RowOf, new) \in Seq(Place)
          /\ Len(Append(RowOf, new)) = Len(RowOf) + 1
          /\ \A i \in 1 .. Len(RowOf) : Append(RowOf, new)[i] = RowOf[i]
          /\ Append(RowOf, new)[Len(RowOf) + 1] = new
      BY <2>8, <2>9, AppendProperties
    <3>2. \A i \in 1 .. Len(RowOf') : RowOf'[i] = Append(RowOf, new)[i]
      BY <3>1, <2>9, <2>10, <2>11, <2>12
    <3>3. Len(RowOf') = Len(Append(RowOf, new))
      BY <3>1, <2>9, <2>10
    <3> QED BY <3>1, <3>2, <3>3, <2>9, SeqEqual
  <2>14. ModeOf' = ModeOf
    BY <1>1, <2>1 DEF ModeOf
  <2>15. Len(RowOf) < ProcSlots - 1
    BY <1>1, <2>2, <2>9
  <2>16. \A i \in RR!Positions : RowOf[i].id # NewPid
    BY <2>7, <2>9 DEF RR!Positions, RowOf
  <2>17. RR!Spawn(NewPid)
    BY <1>1, <1>2, <2>13, <2>14, <2>15, <2>16 DEF RR!Spawn, new
  <2> QED BY <2>6, <2>17
<1> QED BY <1>3, <1>4

\* SC_EXIT takes the running process out of the row.
LEMMA ExitIsExit ==
    ASSUME IInv, IInv', SC_EXIT
    PROVE  RR!Exit
<1> DEFINE idx == schedulerProcessAt
<1>1. /\ idx \in User /\ idx >= 2 /\ processCount' = processCount - 1
      /\ cpu' = [owner |-> WaitStub, val |-> 0, ebp |-> 0]
  BY ExitMoves
<1>2. UserRuns /\ idx' = idx /\ halted' = halted /\ idx # 1
  BY DEF SC_EXIT, NotInit
<1>3. ModeOf = "user" /\ ModeOf' = "idle"
  BY <1>1, <1>2, Modes DEF ModeOf, UserRuns, Running, WaitStub, KernelMain
<1>4. /\ processCount \in Nat
      /\ processes \in [Slots -> ProcessEntry]
      /\ \A k \in User : k \in Slots /\ k \in Nat
      /\ idx \in Nat
  BY Types DEF IInv
<1>5. /\ RowOf \in Seq(Place) /\ Len(RowOf) = processCount - 1 /\ User = 1 .. Len(RowOf)
      /\ User' = 1 .. Len(RowOf) - 1
  BY <1>1, <1>4, RowIsSeq DEF User
<1>6. \A i \in User' : RowOf'[i] = IF i < idx THEN RowOf[i] ELSE RowOf[i + 1]
  <2> SUFFICES ASSUME NEW i \in User'
               PROVE  RowOf'[i] = IF i < idx THEN RowOf[i] ELSE RowOf[i + 1]
    OBVIOUS
  <2>1. i \in User /\ i \in Nat
    BY <1>4, ExitMoves
  <2>2. RowOf'[i] = [id |-> processes'[i].pid, waiting |-> processes'[i].waiting]
    BY DEF RowOf
  <2>3. CASE i < idx
    <3>1. processes'[i] = processes[i]
      BY <2>3, ExitMoves
    <3> QED BY <3>1, <2>1, <2>2, <2>3 DEF RowOf
  <2>4. CASE i >= idx
    <3>1. /\ i + 1 \in User
          /\ processes'[i] = [processes[i + 1] EXCEPT !.memStart = @ - Current.memSize]
      BY <2>4, ExitMoves
    <3>2. /\ processes'[i].pid = processes[i + 1].pid
          /\ processes'[i].waiting = processes[i + 1].waiting
      BY <3>1, <1>4 DEF ProcessEntry
    <3>3. ~(i < idx)
      BY <2>1, <2>4, <1>4
    <3> QED BY <3>1, <3>2, <3>3, <2>2 DEF RowOf
  <2> QED BY <2>1, <2>3, <2>4, <1>4
<1>7. RowOf' = [i \in 1 .. Len(RowOf) - 1 |-> IF i < idx THEN RowOf[i] ELSE RowOf[i + 1]]
  <2>1. RowOf' = [i \in User' |-> RowOf'[i]]
    BY DEF RowOf
  <2> QED BY <2>1, <1>5, <1>6
<1> QED BY <1>2, <1>3, <1>7 DEF RR!Exit

\* SC_GETUINPUT takes the caller's turn until it is woken.
LEMMA RequestIsBlock ==
    ASSUME IInv, IInv', NEW offset, NEW size, SC_GETUINPUT(offset, size)
    PROVE  RR!Block
<1> DEFINE procs == [processes EXCEPT ![schedulerProcessAt].waiting = TRUE]
           at == schedulerProcessAt
<1>1. /\ procs \in [Slots -> ProcessEntry] /\ ~procs[1].waiting
      /\ SwitchFrom(procs) /\ at \in User
      /\ \A i \in Slots : /\ procs[i].pid = processes[i].pid
                          /\ i # at => procs[i].waiting = processes[i].waiting
  BY RequestTable
<1>2. UserRuns /\ at # 1 /\ processCount' = processCount
  BY DEF SC_GETUINPUT, NotInit
<1>3. ModeOf = "user" /\ Running
  BY <1>2, Modes DEF UserRuns
<1>4. /\ at \in Slots /\ processes \in [Slots -> ProcessEntry]
      /\ \A i \in User : i \in Slots
  BY <1>1, Types DEF IInv
<1>5. procs[at].waiting = TRUE
  BY <1>4 DEF ProcessEntry
<1>6. /\ at' = RR!NextTurn(RowOf') /\ ModeOf' = "user"
      /\ RowOf' = [i \in User |-> [id |-> processes[i].pid, waiting |-> procs[i].waiting]]
  <2> HIDE DEF procs
  <2> QED BY <1>1, <1>2, <1>3, SwitchTurns
<1> HIDE DEF procs
<1>7. RowOf' = [RowOf EXCEPT ![at].waiting = TRUE]
  <2>1. RowOf = [i \in User |-> [id |-> processes[i].pid, waiting |-> processes[i].waiting]]
    BY DEF RowOf
  <2>2. [RowOf EXCEPT ![at].waiting = TRUE] =
           [i \in User |-> IF i = at THEN [RowOf[at] EXCEPT !.waiting = TRUE] ELSE RowOf[i]]
    BY <2>1
  <2>3. \A i \in User : [id |-> processes[i].pid, waiting |-> procs[i].waiting] =
                          IF i = at THEN [RowOf[at] EXCEPT !.waiting = TRUE] ELSE RowOf[i]
    BY <2>1, <1>1, <1>4, <1>5
  <2> QED BY <2>2, <2>3, <1>6
<1> QED BY <1>2, <1>3, <1>6, <1>7 DEF RR!Block

\* Enter wakes whoever is in the slot recorded, if that is a process and waits.
LEMMA KeyWakes ==
    ASSUME IInv, IInv', Keystroke
    PROVE  (\E i \in RR!Positions : RR!Wake(i)) \/ UNCHANGED <<RowOf, schedulerProcessAt, ModeOf>>
<1> DEFINE w == inputWaintingPID
<1>1. /\ Running /\ PS2KBDISR
      /\ UNCHANGED <<processCount, schedulerProcessAt, cpu, halted>>
  BY DEF Keystroke, cpuVars
<1>2. ModeOf # "halted" /\ ModeOf' = ModeOf
  BY <1>1, Modes DEF ModeOf
<1>3. /\ processes \in [Slots -> ProcessEntry] /\ w \in Slots
      /\ \A i \in User : i \in Slots /\ processes[i].waiting \in BOOLEAN
  BY Types, Fields DEF IInv, TypeOK, KbdTypeOK
<1>4. CASE KbdReturn \/ KbdChar
  <2>1. processes' = processes
    BY <1>4 DEF KbdReturn, KbdChar
  <2> QED BY <2>1, <1>1, <1>2, SameRow
<1>5. CASE KbdEnter
  <2>1. processes' = Woken
    BY <1>5 DEF KbdEnter
  <2>2. /\ \A i \in Slots : processes'[i].pid = processes[i].pid
        /\ \A i \in Slots : i # w => processes'[i].waiting = processes[i].waiting
        /\ processes'[w].waiting = FALSE
    BY <2>1, <1>3 DEF Woken, ProcessEntry
  <2>3. CASE w \in User /\ processes[w].waiting
    <3>1. RowOf = [i \in User |-> [id |-> processes[i].pid, waiting |-> processes[i].waiting]]
      BY DEF RowOf
    <3>2. RowOf' = [i \in User |-> [id |-> processes'[i].pid, waiting |-> processes'[i].waiting]]
      BY <1>1 DEF RowOf, User
    <3>3. [RowOf EXCEPT ![w].waiting = FALSE] =
             [i \in User |-> IF i = w THEN [RowOf[w] EXCEPT !.waiting = FALSE] ELSE RowOf[i]]
      BY <3>1
    <3>4. \A i \in User : [id |-> processes'[i].pid, waiting |-> processes'[i].waiting] =
                            IF i = w THEN [RowOf[w] EXCEPT !.waiting = FALSE] ELSE RowOf[i]
      BY <3>1, <2>2, <1>3
    <3>5. RowOf' = [RowOf EXCEPT ![w].waiting = FALSE]
      BY <3>2, <3>3, <3>4
    <3>6. w \in RR!Positions /\ RowOf[w].waiting
      BY <2>3, <3>1, RowIsSeq DEF RR!Positions
    <3>7. RR!Wake(w)
      BY <3>5, <3>6, <1>1, <1>2 DEF RR!Wake
    <3> QED BY <3>6, <3>7
  <2>4. CASE ~(w \in User /\ processes[w].waiting)
    <3>1. \A i \in User : /\ processes'[i].pid = processes[i].pid
                          /\ processes'[i].waiting = processes[i].waiting
      BY <2>2, <2>4, <1>3
    <3> QED BY <3>1, <1>1, <1>2, SameRow
  <2> QED BY <2>3, <2>4
<1> QED BY <1>1, <1>4, <1>5 DEF PS2KBDISR

\* Every step of the kernel is a step of the row, or none.
LEMMA RowStep ==
    ASSUME IInv, IInv', [Next]_vars
    PROVE  RR!Next \/ UNCHANGED <<RowOf, schedulerProcessAt, ModeOf>>
<1>1. /\ processes \in [Slots -> ProcessEntry] /\ ~processes[1].waiting
      /\ schedulerProcessAt \in Slots /\ cpu \in Context
      /\ \A i \in User : i \in Slots
  BY Types DEF IInv, InitReady
<1>2. ASSUME UNCHANGED <<processCount, schedulerProcessAt, cpu, halted>>,
             \A i \in User : /\ processes'[i].pid = processes[i].pid
                             /\ processes'[i].waiting = processes[i].waiting
      PROVE  UNCHANGED <<RowOf, schedulerProcessAt, ModeOf>>
  BY <1>2, SameRow DEF ModeOf
<1>3. CASE PITISR
  <2>1. Running /\ SwitchFrom(processes) /\ processCount' = processCount
    BY <1>3 DEF PITISR
  <2>2. /\ schedulerProcessAt' = RR!NextTurn(RowOf') /\ ModeOf' = "user"
        /\ RowOf' = [i \in User |-> [id |-> processes[i].pid, waiting |-> processes[i].waiting]]
    BY <2>1, <1>1, SwitchTurns
  <2>3. RowOf' = RowOf
    BY <2>2 DEF RowOf
  <2>4. RR!Tick
    BY <2>1, <2>2, <2>3, Modes DEF RR!Tick
  <2> QED BY <2>4 DEF RR!Next
<1>4. ASSUME NEW fileSize \in ImageSizes, SC_SPAWNPROC(fileSize)
      PROVE  RR!Next
  BY <1>4, SpawnIsSpawn DEF RR!Next
<1>5. CASE SC_EXIT
  BY <1>5, ExitIsExit DEF RR!Next
<1>6. ASSUME NEW offset, NEW size, SC_GETUINPUT(offset, size)
      PROVE  RR!Next
  BY <1>6, RequestIsBlock DEF RR!Next
<1>7. CASE Keystroke
  BY <1>7, KeyWakes DEF RR!Next
<1>8. ASSUME NEW pid, NEW body, SC_MSG_SEND(pid, body)
      PROVE  UNCHANGED <<RowOf, schedulerProcessAt, ModeOf>>
  <2>1. /\ UNCHANGED <<processCount, schedulerProcessAt, cpu, halted>>
        /\ SendMessageToProcess(pid, body)
    BY <1>8 DEF SC_MSG_SEND, cpuVars
  <2>2. \A i \in User : /\ processes'[i].pid = processes[i].pid
                        /\ processes'[i].waiting = processes[i].waiting
    BY <2>1, <1>1 DEF SendMessageToProcess, ProcessEntry
  <2> QED BY <2>1, <2>2, <1>2
<1>9. CASE SC_MSG_POP
  <2>1. UNCHANGED <<processCount, schedulerProcessAt, cpu, halted>>
    BY <1>9 DEF SC_MSG_POP, cpuVars
  <2>2. \A i \in User : /\ processes'[i].pid = processes[i].pid
                        /\ processes'[i].waiting = processes[i].waiting
    BY <1>1, <1>9 DEF SC_MSG_POP, Popped, ProcessEntry
  <2> QED BY <2>1, <2>2, <1>2
<1>10. ASSUME NEW vector, RaiseException(vector)
       PROVE  RR!Halt \/ UNCHANGED <<RowOf, schedulerProcessAt, ModeOf>>
  <2>1. Index(schedulerProcessAt) = -1
    BY <1>1, IndexIsNoPid
  <2>2. /\ UNCHANGED <<processes, processCount, schedulerProcessAt, cpu>>
        /\ UserRuns
        /\ halted' = "panic" \/ halted' = halted
    BY <2>1, <1>10 DEF RaiseException, Kill, cpuVars
  <2>3. RowOf' = RowOf
    BY <2>2, SameRow
  <2>4. CASE halted' = "panic"
    <3>1. ModeOf = "user" /\ ModeOf' = "halted"
      BY <2>2, <2>4, Modes, ModesNext DEF Running
    <3> QED BY <3>1, <2>2, <2>3 DEF RR!Halt
  <2>5. CASE halted' = halted
    BY <2>2, <2>3, <2>5 DEF ModeOf
  <2> QED BY <2>2, <2>4, <2>5
<1>11. ASSUME NEW val, NEW ebp, UserCompute(val, ebp)
       PROVE  UNCHANGED <<RowOf, schedulerProcessAt, ModeOf>>
  <2>1. /\ UNCHANGED <<processes, processCount, schedulerProcessAt, halted>>
        /\ cpu' = [cpu EXCEPT !.val = val, !.ebp = ebp]
    BY <1>11 DEF UserCompute, tableVars
  <2>2. cpu'.owner = cpu.owner
    BY <2>1, <1>1 DEF Context
  <2> QED BY <2>1, <2>2, SameRow DEF ModeOf
<1>12. ASSUME NEW offset, UserStore(offset)
       PROVE  UNCHANGED <<RowOf, schedulerProcessAt, ModeOf>>
  BY <1>12, <1>2 DEF UserStore, tableVars, cpuVars
<1>13. CASE UNCHANGED vars
  BY <1>13, <1>2 DEF vars, tableVars, cpuVars
<1> QED BY <1>3, <1>4, <1>5, <1>6, <1>7, <1>8, <1>9, <1>10, <1>11, <1>12, <1>13
        DEF Next, SystemCall, Program, RR!Next

\* At boot INIT stands alone in the row and nobody has run.
LEMMA RowInit == Init => RR!Init
<1> SUFFICES ASSUME Init PROVE RR!Init
  OBVIOUS
<1>1. IInv
  BY InitIInv
<1>2. processCount = 2 /\ schedulerProcessAt = 0 /\ ModeOf = "boot"
  BY DEF Init, ModeOf, KernelMain
<1>3. /\ RowOf \in Seq(Place) /\ Len(RowOf) = 1
      /\ RowOf = [i \in 1 .. 1 |-> [id |-> processes[i].pid, waiting |-> processes[i].waiting]]
  BY <1>1, <1>2, RowIsSeq
<1> DEFINE init == [id |-> processes[1].pid, waiting |-> FALSE]
<1>4. 1 \in Slots /\ 1 \in 0 .. processCount - 1
  BY <1>2, ProcessAssumption DEF Slots
<1>5. processes[1].waiting = FALSE /\ processes[1].pid \in Int
  BY <1>1, <1>4, Fields DEF IInv, InitReady
<1>6. processes[1].pid \in PidRange
  <2>1. PICK size0 \in ImageSizes, size1 \in ImageSizes,
             t0 \in BootTicks, t1 \in BootTicks, t2 \in BootTicks :
                BootState(size0, size1, t0, t1, t2)
    BY DEF Init
  <2> DEFINE proc0 == Booted(size0, KernelSize, t0)
             start1 == KernelSize + proc0.memSize
  <2>2. processes[1] = Booted(size1, start1, t1 + 1)
    <3> HIDE DEF Booted
    <3> QED BY <2>1, <1>4 DEF BootState
  <2>3. /\ size0 \in Nat /\ size1 \in Nat /\ KernelSize \in Int /\ StackSize \in Nat
        /\ t0 \in Int /\ t1 \in Nat /\ t1 <= MaxTick /\ MaxTick \in Nat
        /\ t1 + 1 \in Int
        /\ ProcSlots \in Nat /\ ProcSlots >= 2
    BY <2>1, ProcessAssumption, MemoryAssumption, KernelAssumption
  <2>4. proc0.memSize = size0 + StackSize
    <3> HIDE DEF Booted
    <3> QED BY <2>3, BootedEntry
  <2>5. start1 \in Int
    <3> HIDE DEF proc0
    <3> QED BY <2>3, <2>4
  <2>6. processes[1].pid = t1 + 1
    <3>1. ASSUME NEW size \in Nat, NEW start \in Int, NEW pid \in Int
          PROVE  Booted(size, start, pid).pid = pid
      BY BootedEntry
    <3>2. size1 \in Nat
      BY <2>3
    <3>3. t1 + 1 \in Int
      BY <2>3
    <3> HIDE DEF start1
    <3>4. Booted(size1, start1, t1 + 1).pid = t1 + 1
      BY <3>1, <3>2, <3>3, <2>5
    <3> QED BY <2>2, <3>4
  <2> QED BY <2>3, <2>6 DEF PidRange
<1>7. RowOf = <<init>>
  <2>1. init \in Place
    BY <1>5 DEF Place
  <2> HIDE DEF init
  <2>2. <<init>> \in Seq(Place) /\ Len(<<init>>) = 1 /\ <<init>>[1] = init
    BY <2>1
  <2>3. RowOf[1] = init
    <3>1. RowOf[1] = [id |-> processes[1].pid, waiting |-> processes[1].waiting]
      BY <1>3
    <3> QED BY <3>1, <1>5 DEF init
  <2>4. \A i \in 1 .. Len(RowOf) : RowOf[i] = <<init>>[i]
    BY <2>2, <2>3, <1>3
  <2> QED BY <2>2, <2>4, <1>3, SeqEqual
<1> QED BY <1>2, <1>6, <1>7 DEF RR!Init

\* The kernel implements the round robin: whatever the size of its tables, each
\* interrupt, call and key is a step of the row, or leaves it alone.
THEOREM KernelSchedulesRoundRobin == Spec => SchedulesRoundRobin
<1>1. Init => RR!Init
  BY RowInit
<1>2. IInv /\ IInv' /\ [Next]_vars => [RR!Next]_<<RowOf, schedulerProcessAt, ModeOf>>
  BY RowStep
<1> QED BY <1>1, <1>2, Inductive, PTL DEF Spec, SchedulesRoundRobin, RR!Spec, RR!rrVars

-----------------------------------------------------------------------------

(***************************************************************************)
(* Queues                                                                  *)
(***************************************************************************)

\* A slot's queue is a sequence of the messages in use.
LEMMA QueueIsSeq ==
    ASSUME NEW proc \in ProcessEntry
    PROVE  /\ QueueOf(proc) \in Seq(Int \X Int)
           /\ Len(QueueOf(proc)) = proc.IPCQueueSize
           /\ \A m \in 1 .. proc.IPCQueueSize :
                 QueueOf(proc)[m] = <<proc.IPCQueue[m - 1].fromPID, proc.IPCQueue[m - 1].msg>>
<1> DEFINE n == proc.IPCQueueSize
<1>1. /\ n \in Nat /\ n <= QueueSize /\ QueueSize \in Nat
      /\ proc.IPCQueue \in [MsgSlots -> Message]
  BY ProcessAssumption DEF ProcessEntry
<1>2. \A m \in 1 .. n : <<proc.IPCQueue[m - 1].fromPID, proc.IPCQueue[m - 1].msg>> \in Int \X Int
  <2> SUFFICES ASSUME NEW m \in 1 .. n
               PROVE  proc.IPCQueue[m - 1] \in Message
    BY DEF Message
  <2>1. m - 1 \in MsgSlots
    BY <1>1 DEF MsgSlots
  <2> QED BY <2>1, <1>1
<1> HIDE DEF n
<1>3. QueueOf(proc) = [m \in 1 .. n |-> <<proc.IPCQueue[m - 1].fromPID, proc.IPCQueue[m - 1].msg>>]
  BY DEF QueueOf, n
<1>4. QueueOf(proc) \in [1 .. n -> Int \X Int]
  BY <1>2, <1>3
<1>5. QueueOf(proc) \in Seq(Int \X Int)
  BY <1>1, <1>4, SeqDef
<1>6. Len(QueueOf(proc)) = n
  <2>1. /\ DOMAIN QueueOf(proc) = 1 .. n
        /\ DOMAIN QueueOf(proc) = 1 .. Len(QueueOf(proc)) /\ Len(QueueOf(proc)) \in Nat
    BY <1>4, <1>5, LenProperties
  <2> QED BY <2>1, <1>1
<1> QED BY <1>3, <1>5, <1>6 DEF n

\* A message stored behind the last one is appended.
LEMMA QueueAppended ==
    ASSUME NEW proc \in ProcessEntry, NEW new \in ProcessEntry, NEW message \in Message,
           proc.IPCQueueSize < QueueSize,
           new.IPCQueue = [proc.IPCQueue EXCEPT ![proc.IPCQueueSize] = message],
           new.IPCQueueSize = proc.IPCQueueSize + 1
    PROVE  QueueOf(new) = Append(QueueOf(proc), <<message.fromPID, message.msg>>)
<1> DEFINE n == proc.IPCQueueSize
           cell == <<message.fromPID, message.msg>>
           q == QueueOf(proc)
           r == QueueOf(new)
<1>1. /\ n \in Nat /\ QueueSize \in Nat /\ n < QueueSize
      /\ proc.IPCQueue \in [MsgSlots -> Message]
  BY ProcessAssumption DEF ProcessEntry
<1>2. /\ q \in Seq(Int \X Int) /\ Len(q) = n
      /\ r \in Seq(Int \X Int) /\ Len(r) = n + 1
  BY QueueIsSeq
<1>3. cell \in Int \X Int
  BY DEF Message
<1>4. \A m \in 1 .. n : r[m] = q[m]
  <2> SUFFICES ASSUME NEW m \in 1 .. n PROVE r[m] = q[m]
    OBVIOUS
  <2>1. m \in 1 .. new.IPCQueueSize /\ m - 1 # n
    BY <1>1
  <2>2. new.IPCQueue[m - 1] = proc.IPCQueue[m - 1]
    BY <2>1, <1>1
  <2>3. r[m] = <<new.IPCQueue[m - 1].fromPID, new.IPCQueue[m - 1].msg>>
    BY <2>1, QueueIsSeq
  <2>4. q[m] = <<proc.IPCQueue[m - 1].fromPID, proc.IPCQueue[m - 1].msg>>
    BY QueueIsSeq
  <2> QED BY <2>2, <2>3, <2>4
<1>5. r[n + 1] = cell
  <2>1. n + 1 \in 1 .. new.IPCQueueSize /\ (n + 1) - 1 = n /\ n \in MsgSlots
    BY <1>1 DEF MsgSlots
  <2>2. new.IPCQueue[n] = message
    BY <2>1, <1>1
  <2>3. r[n + 1] = <<new.IPCQueue[(n + 1) - 1].fromPID, new.IPCQueue[(n + 1) - 1].msg>>
    BY <2>1, QueueIsSeq
  <2> QED BY <2>1, <2>2, <2>3
<1> HIDE DEF n, cell, q, r
<1>6. /\ Append(q, cell) \in Seq(Int \X Int)
      /\ Len(Append(q, cell)) = n + 1
      /\ \A m \in 1 .. n : Append(q, cell)[m] = q[m]
      /\ Append(q, cell)[n + 1] = cell
  BY <1>2, <1>3, AppendProperties
<1>7. \A m \in 1 .. Len(r) : r[m] = Append(q, cell)[m]
  <2>1. \A m \in 1 .. Len(r) : m \in 1 .. n \/ m = n + 1
    BY <1>1, <1>2
  <2> QED BY <2>1, <1>4, <1>5, <1>6
<1>8. r = Append(q, cell)
  BY <1>2, <1>6, <1>7, SeqEqual
<1> QED BY <1>8 DEF q, r, cell

\* The pop takes the first message out.
LEMMA QueuePopped ==
    ASSUME NEW proc \in ProcessEntry, proc.IPCQueueSize > 0, Popped(proc) \in ProcessEntry
    PROVE  /\ QueueOf(proc) # <<>>
           /\ Head(QueueOf(proc)) = <<proc.IPCQueue[0].fromPID, proc.IPCQueue[0].msg>>
           /\ QueueOf(Popped(proc)) = Tail(QueueOf(proc))
<1> DEFINE n == proc.IPCQueueSize
           q == QueueOf(proc)
           new == Popped(proc)
           r == QueueOf(new)
<1>1. /\ n \in Nat /\ n > 0 /\ n <= QueueSize /\ QueueSize \in Nat
      /\ proc.IPCQueue \in [MsgSlots -> Message]
  BY ProcessAssumption DEF ProcessEntry
<1>2. /\ new.IPCQueueSize = n - 1
      /\ \A m \in MsgSlots : m < n - 1 => new.IPCQueue[m] = proc.IPCQueue[m + 1]
  BY DEF Popped, ProcessEntry
<1>3. /\ q \in Seq(Int \X Int) /\ Len(q) = n
      /\ r \in Seq(Int \X Int) /\ Len(r) = n - 1
  BY <1>2, QueueIsSeq
<1>4. \A m \in 1 .. n - 1 : r[m] = q[m + 1]
  <2> SUFFICES ASSUME NEW m \in 1 .. n - 1 PROVE r[m] = q[m + 1]
    OBVIOUS
  <2>1. /\ m \in 1 .. new.IPCQueueSize /\ m - 1 \in MsgSlots /\ m - 1 < n - 1
        /\ m + 1 \in 1 .. proc.IPCQueueSize /\ (m + 1) - 1 = m /\ (m - 1) + 1 = m
    BY <1>1, <1>2 DEF MsgSlots
  <2>2. new.IPCQueue[m - 1] = proc.IPCQueue[m]
    BY <2>1, <1>2
  <2>3. r[m] = <<new.IPCQueue[m - 1].fromPID, new.IPCQueue[m - 1].msg>>
    BY <2>1, QueueIsSeq
  <2>4. q[m + 1] = <<proc.IPCQueue[(m + 1) - 1].fromPID, proc.IPCQueue[(m + 1) - 1].msg>>
    BY <2>1, QueueIsSeq
  <2> QED BY <2>1, <2>2, <2>3, <2>4
<1>5. q[1] = <<proc.IPCQueue[0].fromPID, proc.IPCQueue[0].msg>>
  <2>1. 1 \in 1 .. proc.IPCQueueSize /\ 1 - 1 = 0
    BY <1>1
  <2> QED BY <2>1, QueueIsSeq
<1> HIDE DEF n, q, r, new
<1>6. q # <<>>
  BY <1>1, <1>3, EmptySeq
<1>7. /\ Tail(q) \in Seq(Int \X Int) /\ Len(Tail(q)) = n - 1
      /\ \A m \in 1 .. Len(Tail(q)) : Tail(q)[m] = q[m + 1]
  BY <1>3, <1>6, HeadTailProperties
<1>8. r = Tail(q)
  <2>1. \A m \in 1 .. Len(r) : r[m] = Tail(q)[m]
    BY <1>3, <1>4, <1>7
  <2> QED BY <2>1, <1>3, <1>7, SeqEqual
<1>9. Head(q) = q[1]
  BY <1>3, <1>6
<1> QED BY <1>5, <1>6, <1>8, <1>9 DEF q, r, new

\* A queue is what its slot says of it.
LEMMA SameQueue ==
    ASSUME NEW proc, NEW new, new.IPCQueue = proc.IPCQueue, new.IPCQueueSize = proc.IPCQueueSize
    PROVE  QueueOf(new) = QueueOf(proc)
BY DEF QueueOf

-----------------------------------------------------------------------------

(***************************************************************************)
(* Boxes and desks                                                         *)
(***************************************************************************)

\* The message structure lies in the caller's region whatever program it runs.
DesksHold == \A s \in ImageSizes : MsgOffset < s + StackSize

\* No program reads a line into its message structure.
BuffersApart == \A b \in Buffers : MsgOffset \notin b[1] .. b[1] + b[2] - 1

\* The box and the desk of a process are those of its slot.
LEMMA Boxes ==
    IInv => /\ MB!Live = Pids
            /\ MailOf = [p \in Pids |-> MailOf[p]]
            /\ DeskOf = [p \in Pids |-> DeskOf[p]]
            /\ \A i \in User : \A p : processes[i].pid = p =>
                  /\ p \in Pids
                  /\ MailOf[p] = QueueOf(processes[i])
                  /\ DeskOf[p] = ram[processes[i].memStart + MsgOffset]
<1> SUFFICES ASSUME IInv
             PROVE  /\ MB!Live = Pids
                    /\ MailOf = [p \in Pids |-> MailOf[p]]
                    /\ DeskOf = [p \in Pids |-> DeskOf[p]]
                    /\ \A i \in User : \A p : processes[i].pid = p =>
                          /\ p \in Pids
                          /\ MailOf[p] = QueueOf(processes[i])
                          /\ DeskOf[p] = ram[processes[i].memStart + MsgOffset]
  OBVIOUS
<1>1. MB!Live = Pids
  BY DEF MB!Live, MailOf
<1>2. MailOf = [p \in Pids |-> MailOf[p]] /\ DeskOf = [p \in Pids |-> DeskOf[p]]
  BY DEF MailOf, DeskOf
<1>3. ASSUME NEW i \in User, NEW p, processes[i].pid = p
      PROVE  /\ p \in Pids
             /\ MailOf[p] = QueueOf(processes[i])
             /\ DeskOf[p] = ram[processes[i].memStart + MsgOffset]
  <2>1. p \in Pids
    BY <1>3 DEF Pids
  <2>2. Index(p) = i
    BY <1>3, IndexOfPid
  <2> QED BY <2>1, <2>2 DEF MailOf, DeskOf
<1> QED BY <1>1, <1>2, <1>3

LEMMA BoxesNext ==
    IInv' => (/\ MB!Live = Pids
              /\ MailOf = [p \in Pids |-> MailOf[p]]
              /\ DeskOf = [p \in Pids |-> DeskOf[p]]
              /\ \A i \in User : \A p : processes[i].pid = p =>
                    /\ p \in Pids
                    /\ MailOf[p] = QueueOf(processes[i])
                    /\ DeskOf[p] = ram[processes[i].memStart + MsgOffset])'
BY Boxes, PTL

\* Who runs, by its pid; nobody in the wait stub.
LEMMA Runner ==
    IInv => /\ UserRuns => /\ schedulerProcessAt \in User
                           /\ Current.pid = cpu.owner
                           /\ RunningOf = cpu.owner
                           /\ RunningOf \in Pids
            /\ cpu.owner < 0 => RunningOf = -1
<1> SUFFICES ASSUME IInv
             PROVE  /\ UserRuns => /\ schedulerProcessAt \in User
                                   /\ Current.pid = cpu.owner
                                   /\ RunningOf = cpu.owner
                                   /\ RunningOf \in Pids
                    /\ cpu.owner < 0 => RunningOf = -1
  OBVIOUS
<1>1. cpu.owner \in Int
  BY Types DEF IInv, Context
<1>2. cpu.owner < 0 => RunningOf = -1
  BY DEF RunningOf
<1>3. ASSUME UserRuns
      PROVE  /\ schedulerProcessAt \in User /\ Current.pid = cpu.owner
             /\ RunningOf = cpu.owner /\ RunningOf \in Pids
  <2>1. schedulerProcessAt \in User /\ Current.pid = cpu.owner
    BY <1>3 DEF UserRuns, IInv, RunningIsCurrent
  <2>2. RunningOf = cpu.owner
    BY <1>1, <1>3 DEF UserRuns, RunningOf
  <2> QED BY <2>1, <2>2 DEF Pids, Current
<1> QED BY <1>2, <1>3

\* The desk is a place in the memory of its process.
LEMMA DeskInMem ==
    DesksHold /\ IInv /\ InRam =>
        \A i \in User : \A p : processes[i].pid = p =>
            /\ MsgOffset \in 0 .. processes[i].memSize - 1
            /\ processes[i].memStart + MsgOffset \in Addr
            /\ MemOf(p)[MsgOffset] = ram[processes[i].memStart + MsgOffset]
<1> SUFFICES ASSUME DesksHold, IInv, InRam, NEW i \in User, NEW p, processes[i].pid = p
             PROVE  /\ MsgOffset \in 0 .. processes[i].memSize - 1
                    /\ processes[i].memStart + MsgOffset \in Addr
                    /\ MemOf(p)[MsgOffset] = ram[processes[i].memStart + MsgOffset]
  OBVIOUS
<1>1. MsgOffset \in Nat
  BY KernelAssumption
<1>2. /\ i \in 0 .. processCount - 1 /\ processes[i].memSize \in Nat
      /\ \A o \in 0 .. processes[i].memSize - 1 : processes[i].memStart + o \in Addr
  BY Regions
<1>3. PICK s \in ImageSizes : processes[i].memSize = s + StackSize
  BY <1>2 DEF InRam
<1>4. MsgOffset < processes[i].memSize
  BY <1>3 DEF DesksHold
<1>5. MsgOffset \in 0 .. processes[i].memSize - 1
  BY <1>1, <1>2, <1>4
<1>6. MemOf(p) = [o \in 0 .. processes[i].memSize - 1 |-> ram[processes[i].memStart + o]]
  BY MemOfSlot
<1> QED BY <1>2, <1>5, <1>6

LEMMA DeskInMemNext ==
    (DesksHold /\ IInv /\ InRam)' =>
        (\A i \in User : \A p : processes[i].pid = p =>
            /\ MsgOffset \in 0 .. processes[i].memSize - 1
            /\ processes[i].memStart + MsgOffset \in Addr
            /\ MemOf(p)[MsgOffset] = ram[processes[i].memStart + MsgOffset])'
BY DeskInMem, PTL

\* Memory that keeps its bytes keeps its desk.
LEMMA SameDesk ==
    ASSUME DesksHold, IInv, IInv', InRam, InRam',
           NEW p \in Pids \cap Pids', MemOf(p)' = MemOf(p)
    PROVE  DeskOf'[p] = DeskOf[p]
<1>1. PICK i \in User : processes[i].pid = p
  BY DEF Pids
<1>2. PICK j \in User' : processes'[j].pid = p
  BY DEF Pids
<1>3. DeskOf[p] = ram[processes[i].memStart + MsgOffset]
  BY <1>1, Boxes
<1>4. MemOf(p)[MsgOffset] = ram[processes[i].memStart + MsgOffset]
  BY <1>1, DeskInMem
<1>5. DeskOf'[p] = ram'[processes'[j].memStart + MsgOffset]
  BY <1>2, BoxesNext
<1>6. MemOf(p)'[MsgOffset] = ram'[processes'[j].memStart + MsgOffset]
  BY <1>2, DeskInMemNext DEF DesksHold
<1> QED BY <1>3, <1>4, <1>5, <1>6

\* Slots that stay, with their queues, keep the mail but for one box.
LEMMA OneBox ==
    ASSUME IInv, IInv', KeepsPlaces, processCount' = processCount, NEW k \in User,
           \A i \in User : i # k => /\ processes'[i].IPCQueue = processes[i].IPCQueue
                                    /\ processes'[i].IPCQueueSize = processes[i].IPCQueueSize
    PROVE  /\ Pids' = Pids
           /\ MailOf' = [MailOf EXCEPT ![processes[k].pid] = QueueOf(processes'[k])]
<1> DEFINE box == processes[k].pid
<1>1. User' = User /\ \A i \in User : processes'[i].pid = processes[i].pid
  BY DEF User, KeepsPlaces
<1>2. Pids' = Pids
  BY <1>1 DEF Pids
<1>3. MailOf = [p \in Pids |-> MailOf[p]] /\ MailOf' = [p \in Pids |-> MailOf'[p]]
  BY <1>2, Boxes, BoxesNext
<1>4. ASSUME NEW p \in Pids
      PROVE  MailOf'[p] = [MailOf EXCEPT ![box] = QueueOf(processes'[k])][p]
  <2>1. PICK i \in User : processes[i].pid = p
    BY DEF Pids
  <2>2. MailOf[p] = QueueOf(processes[i]) /\ MailOf'[p] = QueueOf(processes'[i])
    BY <1>1, <2>1, Boxes, BoxesNext
  <2>3. CASE i = k
    <3>1. [MailOf EXCEPT ![box] = QueueOf(processes'[k])][p] = QueueOf(processes'[k])
      BY <1>3, <2>1, <2>3
    <3> QED BY <3>1, <2>2, <2>3
  <2>4. CASE i # k
    <3>1. p # box
      BY <2>1, <2>4, IndexOfPid
    <3>2. [MailOf EXCEPT ![box] = QueueOf(processes'[k])][p] = MailOf[p]
      BY <1>3, <3>1
    <3>3. QueueOf(processes'[i]) = QueueOf(processes[i])
      BY <2>4, SameQueue
    <3> QED BY <3>2, <3>3, <2>2
  <2> QED BY <2>3, <2>4
<1>5. [MailOf EXCEPT ![box] = QueueOf(processes'[k])] =
         [p \in Pids |-> [MailOf EXCEPT ![box] = QueueOf(processes'[k])][p]]
  BY <1>3
<1>6. MailOf' = [MailOf EXCEPT ![box] = QueueOf(processes'[k])]
  BY <1>3, <1>4, <1>5
<1> QED BY <1>2, <1>6

LEMMA SameMail ==
    ASSUME IInv, IInv', KeepsPlaces, processCount' = processCount,
           \A i \in User : /\ processes'[i].IPCQueue = processes[i].IPCQueue
                           /\ processes'[i].IPCQueueSize = processes[i].IPCQueueSize
    PROVE  Pids' = Pids /\ MailOf' = MailOf
<1>1. 1 \in User
  BY Types DEF IInv, InitReady, User
<1>2. /\ Pids' = Pids
      /\ MailOf' = [MailOf EXCEPT ![processes[1].pid] = QueueOf(processes'[1])]
  BY <1>1, OneBox
<1>3. QueueOf(processes'[1]) = MailOf[processes[1].pid]
  BY <1>1, SameQueue, Boxes
<1> QED BY <1>2, <1>3, Boxes

\* Desks that stay, but for one.
LEMMA OneDesk ==
    ASSUME IInv, IInv', Pids' = Pids, NEW box \in Pids,
           \A p \in Pids : p # box => DeskOf'[p] = DeskOf[p]
    PROVE  DeskOf' = [DeskOf EXCEPT ![box] = DeskOf'[box]]
<1>1. DeskOf = [p \in Pids |-> DeskOf[p]] /\ DeskOf' = [p \in Pids |-> DeskOf'[p]]
  BY Boxes, BoxesNext
<1>2. [DeskOf EXCEPT ![box] = DeskOf'[box]] =
         [p \in Pids |-> [DeskOf EXCEPT ![box] = DeskOf'[box]][p]]
  BY <1>1
<1>3. \A p \in Pids : DeskOf'[p] = [DeskOf EXCEPT ![box] = DeskOf'[box]][p]
  BY <1>1
<1> QED BY <1>1, <1>2, <1>3

LEMMA SameDesks ==
    ASSUME IInv, IInv', Pids' = Pids, \A p \in Pids : DeskOf'[p] = DeskOf[p]
    PROVE  DeskOf' = DeskOf
BY Boxes, BoxesNext

-----------------------------------------------------------------------------

(***************************************************************************)
(* The request and its buffer                                              *)
(***************************************************************************)

\* While nothing has disturbed it, the outstanding request is for one of the
\* buffers programs pass, where its process lies now.
Asked ==
    processWaitingForInput /\ ~disturbed =>
        \E b \in Buffers :
            /\ processBufferLoc = processes[inputWaintingPID].memStart + b[1]
            /\ processBufferSize = b[2]

\* Slots that stay keep the request.
LEMMA AskedKept ==
    ASSUME InputInv, Asked, KeepsPlaces, UNCHANGED <<kbdVars, readVars>>
    PROVE  Asked'
<1> SUFFICES ASSUME processWaitingForInput, ~disturbed
             PROVE  Asked'
  BY DEF Asked, kbdVars, readVars
<1>1. inputWaintingPID \in User
  BY DEF InputInv, Undisturbed, Serves
<1>2. processes'[inputWaintingPID].memStart = processes[inputWaintingPID].memStart
  BY <1>1 DEF KeepsPlaces
<1> QED BY <1>2 DEF Asked, kbdVars, readVars

LEMMA AskedStep ==
    ASSUME IInv, InputInv, Asked, [Next]_vars
    PROVE  Asked'
<1> DEFINE w == inputWaintingPID
<1>1. CASE SC_EXIT
  <2>1. /\ schedulerProcessAt \in User
        /\ \A k \in User' : k < schedulerProcessAt => processes'[k] = processes[k]
        /\ \A k \in User : k < schedulerProcessAt => k \in User'
    BY <1>1, ExitMoves
  <2>2. /\ cpu.owner >= 0 /\ DisturbedBy(Index(Current.pid)) /\ UNCHANGED kbdVars
    BY <1>1 DEF SC_EXIT, UserRuns
  <2>3. Index(Current.pid) = schedulerProcessAt /\ ~processes[schedulerProcessAt].waiting
    BY <2>1, <2>2, OwnIndex DEF Current, IInv, RunningIsCurrent
  <2>4. /\ schedulerProcessAt \in Nat /\ schedulerProcessAt > 0
        /\ \A i \in User : i \in Nat
    BY <2>1, Types DEF IInv
  <2> SUFFICES ASSUME processWaitingForInput', ~disturbed'
               PROVE  Asked'
    BY DEF Asked
  <2>5. /\ processWaitingForInput /\ ~disturbed
        /\ ~(schedulerProcessAt < Index(reader))
    BY <2>2, <2>3, <2>4 DEF DisturbedBy, kbdVars
  <2>6. w \in User /\ processes[w].pid = reader /\ processes[w].waiting
    BY <2>5 DEF InputInv, Undisturbed, Serves
  <2>7. Index(reader) = w /\ w # schedulerProcessAt
    BY <2>3, <2>6, OwnIndex
  <2>8. w < schedulerProcessAt
    BY <2>4, <2>5, <2>6, <2>7
  <2>9. processes'[w] = processes[w]
    BY <2>1, <2>6, <2>8
  <2> QED BY <2>2, <2>5, <2>9 DEF Asked, kbdVars
<1>2. ASSUME NEW b \in Buffers, SC_GETUINPUT(b[1], b[2])
      PROVE  Asked'
  <2>1. /\ processBufferLoc' = b[1] + processes[schedulerProcessAt].memStart
        /\ processBufferSize' = b[2] /\ inputWaintingPID' = schedulerProcessAt
    BY <1>2 DEF SC_GETUINPUT, RequestLine, BufferAt
  <2>2. schedulerProcessAt \in User /\ KeepsPlaces
    BY <1>2, RequestTable, RequestKeepsPlaces
  <2>3. /\ b[1] \in Int
        /\ processes'[schedulerProcessAt].memStart = processes[schedulerProcessAt].memStart
        /\ processes[schedulerProcessAt].memStart \in Int
    BY <2>2, Types, Fields, KernelAssumption DEF KeepsPlaces, IInv
  <2>4. processBufferLoc' = processes'[inputWaintingPID'].memStart + b[1]
    BY <2>1, <2>3
  <2> QED BY <2>1, <2>4 DEF Asked
<1>3. CASE Keystroke
  <2>1. KeepsPlaces
    <3>1. Calm
      BY <1>3, CalmSteps
    <3> QED BY <3>1, SlotsKeepPlaces DEF Calm, KeepsTable
  <2>2. disturbed' = disturbed /\ PS2KBDISR
    BY <1>3 DEF Keystroke, readVars
  <2>3. \/ ~processWaitingForInput'
        \/ /\ processBufferLoc' = processBufferLoc /\ processBufferSize' = processBufferSize
           /\ processWaitingForInput' = processWaitingForInput
           /\ inputWaintingPID' = inputWaintingPID
    BY <2>2 DEF PS2KBDISR, KbdEnter, KbdReturn, KbdChar
  <2> SUFFICES ASSUME processWaitingForInput', ~disturbed'
               PROVE  Asked'
    BY DEF Asked
  <2>4. processWaitingForInput /\ ~disturbed /\ w \in User
    BY <2>2, <2>3 DEF InputInv, Undisturbed, Serves
  <2>5. processes'[w].memStart = processes[w].memStart
    BY <2>1, <2>4 DEF KeepsPlaces
  <2> QED BY <2>3, <2>4, <2>5 DEF Asked
<1>4. CASE PITISR
  <2>1. UNCHANGED <<kbdVars, readVars>>
    BY <1>4 DEF PITISR
  <2>2. KeepsPlaces \/ SC_EXIT
    BY OnlyExitsMove
  <2> QED BY <2>1, <2>2, <1>1, AskedKept
<1>5. ASSUME NEW fileSize \in ImageSizes, SC_SPAWNPROC(fileSize)
      PROVE  Asked'
  <2>1. UNCHANGED <<kbdVars, readVars>>
    BY <1>5 DEF SC_SPAWNPROC
  <2>2. KeepsPlaces \/ SC_EXIT
    BY OnlyExitsMove
  <2> QED BY <2>1, <2>2, <1>1, AskedKept
<1>6. ASSUME \/ \E pid, body : SC_MSG_SEND(pid, body)
             \/ SC_MSG_POP
             \/ \E vector : RaiseException(vector)
             \/ \E val, ebp : UserCompute(val, ebp)
             \/ \E offset : UserStore(offset)
             \/ UNCHANGED vars
      PROVE  Asked'
  <2>1. UNCHANGED <<kbdVars, readVars>>
    BY <1>6, OthersKeepWaiting
  <2>2. KeepsPlaces \/ SC_EXIT
    BY OnlyExitsMove
  <2> QED BY <2>1, <2>2, <1>1, AskedKept
<1> QED BY <1>1, <1>2, <1>3, <1>4, <1>5, <1>6 DEF Next, SystemCall, Program

LEMMA MailInductive ==
    ASSUME BuffersHold, RamHolds
    PROVE  Spec => [](KernelInv /\ Asked)
<1>1. Init => Asked
  BY DEF Init, KbdInit, Asked
<1>2. KernelInv /\ Asked /\ [Next]_vars => Asked'
  BY AskedStep DEF KernelInv
<1> QED BY <1>1, <1>2, KernelInductive, PTL DEF Spec

-----------------------------------------------------------------------------

(***************************************************************************)
(* The steps of the boxes                                                  *)
(***************************************************************************)

\* A switch changes contexts and waiting flags, not queues.
LEMMA SwitchKeepsQueues ==
    ASSUME IInv, NEW procs \in [Slots -> ProcessEntry], SwitchFrom(procs)
    PROVE  \A i \in Slots : /\ processes'[i].IPCQueue = procs[i].IPCQueue
                            /\ processes'[i].IPCQueueSize = procs[i].IPCQueueSize
<1>1. schedulerProcessAt \in Slots
  BY Types DEF IInv
<1>2. processes' = procs \/ processes' = AfterSave(procs)
  BY DEF SwitchFrom
<1>3. \A i \in Slots : /\ AfterSave(procs)[i].IPCQueue = procs[i].IPCQueue
                       /\ AfterSave(procs)[i].IPCQueueSize = procs[i].IPCQueueSize
  BY <1>1 DEF AfterSave, Saved, ProcessEntry
<1> QED BY <1>2, <1>3

\* Whoever runs next has a box; nothing is delivered.
LEMMA SwitchIsSwitch ==
    ASSUME KernelInv, KernelInv', DesksHold,
           NEW procs \in [Slots -> ProcessEntry], ~procs[1].waiting, SwitchFrom(procs),
           KeepsPlaces, processCount' = processCount, ram' = ram,
           \A i \in Slots : /\ procs[i].IPCQueue = processes[i].IPCQueue
                            /\ procs[i].IPCQueueSize = processes[i].IPCQueueSize
    PROVE  MB!Switch
<1> DEFINE next == NextProcess(procs)
<1>1. IInv /\ IInv' /\ InRam /\ InRam'
  BY DEF KernelInv
<1>2. \A i \in User : i \in Slots
  BY <1>1, Types DEF IInv
<1>3. Pids' = Pids /\ MailOf' = MailOf
  <2>1. \A i \in User : /\ processes'[i].IPCQueue = processes[i].IPCQueue
                        /\ processes'[i].IPCQueueSize = processes[i].IPCQueueSize
    BY <1>1, <1>2, SwitchKeepsQueues
  <2> QED BY <2>1, <1>1, SameMail
<1>4. DeskOf' = DeskOf
  <2>1. ASSUME NEW p \in Pids PROVE DeskOf'[p] = DeskOf[p]
    <3>1. PICK i \in User : processes[i].pid = p
      BY DEF Pids
    <3>2. MemOf(p)' = MemOf(p)
      BY <1>1, <3>1, SameMem
    <3> QED BY <3>2, <1>1, <1>3, SameDesk
  <2> QED BY <2>1, <1>1, <1>3, SameDesks
<1>5. RunningOf' \in Pids
  <2>1. 1 \in User /\ User' = User
    BY <1>1, Types DEF IInv, InitReady, User
  <2>2. Ready(procs) # {}
    BY <2>1 DEF Ready, User
  <2>3. cpu' = processes'[next].regs /\ next \in User
    BY <1>1, <2>2, NextIsReady DEF SwitchFrom, IInv
  <2>4. cpu'.owner = processes'[next].pid
    BY <1>1, <2>1, <2>3 DEF IInv, ContextsOwned
  <2>5. processes'[next].pid = processes[next].pid
    BY <2>3 DEF KeepsPlaces
  <2>6. next \in 0 .. processCount - 1 /\ next \in Slots
    BY <1>1, <2>3, Types DEF IInv
  <2>7. processes[next].pid \in Int /\ processes[next].pid >= 0
    BY <1>1, <2>6, Fields, ProcessAssumption DEF IInv, PidsHigh
  <2>8. RunningOf' = processes[next].pid
    BY <2>4, <2>5, <2>7 DEF RunningOf
  <2> QED BY <2>3, <2>8 DEF Pids
<1> QED BY <1>1, <1>3, <1>4, <1>5, Boxes DEF MB!Switch

\* A program's store, in its own region, reaches no desk but its own.
LEMMA OwnDeskOnly ==
    ASSUME KernelInv, KernelInv', DesksHold, UserRuns, KeepsPlaces, Pids' = Pids,
           NEW offset \in Nat, offset < Current.memSize,
           NEW cell, ram' = Stored(Current.memStart + offset, cell)
    PROVE  DeskOf' = [DeskOf EXCEPT ![RunningOf] = DeskOf'[RunningOf]]
<1> DEFINE k == schedulerProcessAt
<1>1. IInv /\ IInv' /\ InRam /\ InRam'
  BY DEF KernelInv
<1>2. RunningOf \in Pids /\ k \in User /\ processes[k].pid = RunningOf
  BY <1>1, Runner DEF Current
<1>3. /\ processes[k].memStart + offset \in Int
      /\ processes[k].memStart <= processes[k].memStart + offset
      /\ processes[k].memStart + offset < processes[k].memStart + processes[k].memSize
  <2>1. processes[k].memStart \in Int /\ processes[k].memSize \in Int
    BY <1>1, <1>2, Regions
  <2> QED BY <2>1 DEF Current
<1>4. ASSUME NEW p \in Pids, p # RunningOf
      PROVE  DeskOf'[p] = DeskOf[p]
  <2>1. PICK i \in User : processes[i].pid = p
    BY DEF Pids
  <2>2. \A o \in 0 .. processes[i].memSize - 1 :
           ram'[processes[i].memStart + o] = ram[processes[i].memStart + o]
    <3>1. i # k
      BY <2>1, <1>2, <1>4
    <3>2. ram' = Stored(processes[k].memStart + offset, cell)
      BY DEF Current
    <3> DEFINE a == processes[k].memStart + offset
    <3> HIDE DEF a, k
    <3>3. /\ a \in Int /\ processes[k].memStart <= a
          /\ a < processes[k].memStart + processes[k].memSize
          /\ ram' = Stored(a, cell)
      BY <1>3, <3>2 DEF a
    <3> QED BY <3>1, <3>3, <1>1, <1>2, StoredElsewhere
  <2>3. MemOf(p)' = MemOf(p)
    BY <1>1, <2>1, <2>2, SameMem
  <2> QED BY <2>3, <1>1, SameDesk
<1> QED BY <1>1, <1>2, <1>4, OneDesk

\* What the running process stores at MsgOffset is on its desk.
LEMMA OwnDesk ==
    ASSUME KernelInv, KernelInv', DesksHold, UserRuns, KeepsPlaces,
           NEW cell, ram' = Stored(Current.memStart + MsgOffset, cell)
    PROVE  DeskOf'[RunningOf] = cell
<1> DEFINE i == schedulerProcessAt
<1>1. IInv /\ IInv' /\ InRam /\ InRam'
  BY DEF KernelInv
<1>2. i \in User /\ Current.pid = RunningOf
  BY <1>1, Runner
<1>3. i \in User' /\ processes'[i].pid = RunningOf /\ processes'[i].memStart = processes[i].memStart
  BY <1>2 DEF KeepsPlaces, Current
<1>4. DeskOf'[RunningOf] = ram'[processes[i].memStart + MsgOffset]
  BY <1>1, <1>3, BoxesNext
<1>5. processes[i].memStart + MsgOffset \in Addr
  BY <1>1, <1>2, DeskInMem
<1> QED BY <1>4, <1>5 DEF Stored, Current

\* SC_MSG sends: the message, with the caller's pid, goes to the end of the
\* receiver's box and to the caller's desk.
LEMMA SendIsSend ==
    ASSUME KernelInv, KernelInv', DesksHold,
           NEW n \in Addressees \cap (0 .. processCount - 1), NEW body \in Bodies,
           SC_MSG_SEND(processes[n].pid, body)
    PROVE  \E to \in MB!Live : MB!Send(to, body)
<1> DEFINE pid == processes[n].pid
           k == Index(pid)
           proc == processes[k]
           queue == [proc.IPCQueue EXCEPT ![proc.IPCQueueSize] = Stamped(body)]
<1>1. IInv /\ IInv' /\ InRam /\ InRam'
  BY DEF KernelInv
<1>2. /\ UserRuns /\ CanSend(pid) /\ SendMessageToProcess(pid, body)
      /\ ram' = Stored(Current.memStart + MsgOffset, <<Stamped(body).fromPID, body>>)
      /\ processCount' = processCount /\ cpu' = cpu
  BY DEF SC_MSG_SEND, cpuVars
<1>3. k \in User /\ proc.pid = pid /\ proc.IPCQueueSize < QueueSize
  BY <1>1, <1>2, IndexFound DEF CanSend, IInv
<1>4. /\ processes \in [Slots -> ProcessEntry] /\ k \in Slots
      /\ schedulerProcessAt \in Slots
      /\ \A i \in User : i \in Slots
  BY <1>1, <1>3, Types DEF IInv
<1>5. /\ processes'[k].IPCQueue = queue
      /\ processes'[k].IPCQueueSize = proc.IPCQueueSize + 1
      /\ \A i \in User : i # k => processes'[i] = processes[i]
  BY <1>2, <1>4 DEF SendMessageToProcess, ProcessEntry
<1>6. KeepsPlaces
  <2>1. Calm
    BY <1>1, CalmSteps
  <2> QED BY <2>1, <1>1, SlotsKeepPlaces DEF Calm, KeepsTable
<1>7. Pids' = Pids /\ MailOf' = [MailOf EXCEPT ![pid] = QueueOf(processes'[k])]
  BY <1>1, <1>2, <1>3, <1>5, <1>6, OneBox
<1>8. Stamped(body) = [fromPID |-> RunningOf, msg |-> body] /\ RunningOf \in Int
  <2>1. Current.pid = RunningOf
    BY <1>1, <1>2, Runner
  <2>2. Current.pid \in Int
    BY <1>1, <1>4, Fields DEF IInv, Current
  <2> QED BY <2>1, <2>2 DEF Stamped, Current
<1>9. QueueOf(processes'[k]) = Append(QueueOf(proc), <<RunningOf, body>>)
  <2>1. processes'[k] \in ProcessEntry
    BY <1>1, <1>4 DEF IInv, TypeOK, ProcTypeOK
  <2>2. Stamped(body) \in Message
    BY <1>8, ProcessAssumption DEF Message
  <2>3. proc \in ProcessEntry
    BY <1>4
  <2>4. QueueOf(processes'[k]) = Append(QueueOf(proc), <<Stamped(body).fromPID, Stamped(body).msg>>)
    <3> HIDE DEF k
    <3> QED BY <2>1, <2>2, <2>3, <1>3, <1>5, QueueAppended
  <2> QED BY <2>4, <1>8
<1>10. MailOf[pid] = QueueOf(proc) /\ pid \in Pids
  BY <1>1, <1>3, Boxes
<1>11. Len(MailOf[pid]) < QueueSize
  BY <1>3, <1>4, <1>10, QueueIsSeq
<1>12. MailOf' = [MailOf EXCEPT ![pid] = Append(@, <<RunningOf, body>>)]
  <2> HIDE DEF pid
  <2> QED BY <1>7, <1>9, <1>10
<1>13. DeskOf' = [DeskOf EXCEPT ![RunningOf] = <<RunningOf, body>>]
  <2>1. DeskOf'[RunningOf] = <<RunningOf, body>>
    BY <1>2, <1>6, <1>8, OwnDesk
  <2>2. MsgOffset \in Nat /\ MsgOffset < Current.memSize
    BY KernelAssumption DEF SC_MSG_SEND
  <2>3. DeskOf' = [DeskOf EXCEPT ![RunningOf] = DeskOf'[RunningOf]]
    BY <1>2, <1>6, <1>7, <2>2, OwnDeskOnly
  <2> QED BY <2>1, <2>3
<1>14. RunningOf \in MB!Live /\ pid \in MB!Live
  BY <1>1, <1>2, <1>10, Boxes, Runner
<1>15. RunningOf' = RunningOf
  BY <1>2 DEF RunningOf
<1>16. MB!Send(pid, body)
  <2> HIDE DEF pid
  <2> QED BY <1>11, <1>12, <1>13, <1>14, <1>15 DEF MB!Send
<1> QED BY <1>14, <1>16

\* SC_MSG reads: the oldest message leaves the box for the desk.
LEMMA PopIsRead ==
    ASSUME KernelInv, KernelInv', DesksHold, SC_MSG_POP
    PROVE  MB!Read
<1> DEFINE k == schedulerProcessAt
           first == <<Current.IPCQueue[0].fromPID, Current.IPCQueue[0].msg>>
<1>1. IInv /\ IInv' /\ InRam /\ InRam'
  BY DEF KernelInv
<1>2. /\ UserRuns /\ Current.IPCQueueSize > 0
      /\ processes' = [processes EXCEPT ![k] = Popped(@)]
      /\ ram' = Stored(Current.memStart + MsgOffset, first)
      /\ processCount' = processCount /\ cpu' = cpu
  BY DEF SC_MSG_POP, cpuVars
<1>3. k \in User /\ Current.pid = RunningOf /\ RunningOf \in Pids
  BY <1>1, <1>2, Runner
<1>4. /\ processes \in [Slots -> ProcessEntry] /\ k \in Slots
      /\ \A i \in User : i \in Slots
  BY <1>1, Types DEF IInv
<1>5. /\ processes'[k] = Popped(Current)
      /\ \A i \in User : i # k => processes'[i] = processes[i]
  BY <1>2, <1>4 DEF Current
<1>6. KeepsPlaces
  <2>1. Calm
    BY <1>1, CalmSteps
  <2> QED BY <2>1, <1>1, SlotsKeepPlaces DEF Calm, KeepsTable
<1>7. Pids' = Pids /\ MailOf' = [MailOf EXCEPT ![RunningOf] = QueueOf(Popped(Current))]
  <2>1. Pids' = Pids /\ MailOf' = [MailOf EXCEPT ![processes[k].pid] = QueueOf(processes'[k])]
    BY <1>1, <1>2, <1>3, <1>5, <1>6, OneBox
  <2> QED BY <2>1, <1>3, <1>5 DEF Current
<1>8. MailOf[RunningOf] = QueueOf(Current)
  BY <1>1, <1>3, Boxes DEF Current
<1>9. /\ QueueOf(Current) # <<>> /\ Head(QueueOf(Current)) = first
      /\ QueueOf(Popped(Current)) = Tail(QueueOf(Current))
  <2>1. Current \in ProcessEntry
    BY <1>4 DEF Current
  <2>2. Popped(Current) \in ProcessEntry
    BY <1>1, <1>2, PopTypes DEF IInv
  <2> QED BY <2>1, <2>2, <1>2, QueuePopped
<1>10. DeskOf' = [DeskOf EXCEPT ![RunningOf] = first]
  <2>1. DeskOf'[RunningOf] = first
    BY <1>2, <1>6, OwnDesk
  <2>2. MsgOffset \in Nat /\ MsgOffset < Current.memSize
    BY KernelAssumption DEF SC_MSG_POP
  <2>3. DeskOf' = [DeskOf EXCEPT ![RunningOf] = DeskOf'[RunningOf]]
    BY <1>2, <1>6, <1>7, <2>2, OwnDeskOnly
  <2> QED BY <2>1, <2>3
<1>11. RunningOf' = RunningOf /\ RunningOf \in MB!Live
  BY <1>1, <1>2, <1>3, Boxes DEF RunningOf
<1> HIDE DEF first
<1> QED BY <1>7, <1>8, <1>9, <1>10, <1>11 DEF MB!Read

\* Any other store of the program may change its desk.
LEMMA StoreIsScribble ==
    ASSUME KernelInv, KernelInv', DesksHold, NEW offset \in Offsets, UserStore(offset)
    PROVE  MB!Scribble
<1>1. IInv /\ IInv' /\ InRam /\ InRam'
  BY DEF KernelInv
<1>2. /\ UserRuns /\ offset \in Nat /\ offset < Current.memSize
      /\ ram' = Stored(ldtBase + offset, <<cpu.owner, -1>>)
      /\ processes' = processes /\ processCount' = processCount /\ cpu' = cpu
  BY KernelAssumption DEF UserStore, tableVars, cpuVars
<1>3. ldtBase = Current.memStart
  BY <1>1, <1>2 DEF UserRuns, IInv, RunningIsCurrent
<1>4. KeepsPlaces
  BY <1>1, <1>2, SlotsKeepPlaces
<1>5. Pids' = Pids /\ MailOf' = MailOf
  BY <1>1, <1>2, <1>4, SameMail
<1>6. DeskOf' = [DeskOf EXCEPT ![RunningOf] = DeskOf'[RunningOf]]
  BY <1>2, <1>3, <1>4, <1>5, OwnDeskOnly
<1>7. RunningOf' = RunningOf /\ RunningOf \in MB!Live
  BY <1>1, <1>2, Boxes, Runner DEF RunningOf
<1> QED BY <1>5, <1>6, <1>7 DEF MB!Scribble

\* What is typed for an undisturbed request reaches no box and no desk.
LEMMA KeyIsNothing ==
    ASSUME KernelInv, KernelInv', Asked, DesksHold, BuffersApart, ~disturbed, Keystroke
    PROVE  UNCHANGED <<MailOf, DeskOf, RunningOf>>
<1> DEFINE w == inputWaintingPID
<1>1. IInv /\ IInv' /\ InRam /\ InRam' /\ InputInv
  BY DEF KernelInv
<1>2. PS2KBDISR /\ processCount' = processCount /\ cpu' = cpu
  BY DEF Keystroke, cpuVars
<1>3. KeepsPlaces
  <2>1. Calm
    BY <1>1, CalmSteps
  <2> QED BY <2>1, <1>1, SlotsKeepPlaces DEF Calm, KeepsTable
<1>4. /\ processes \in [Slots -> ProcessEntry] /\ w \in Slots
      /\ \A i \in User : i \in Slots
  BY <1>1, Types DEF IInv, TypeOK, KbdTypeOK
<1>5. \A i \in User : /\ processes'[i].IPCQueue = processes[i].IPCQueue
                      /\ processes'[i].IPCQueueSize = processes[i].IPCQueueSize
  <2>1. processes' = processes \/ processes' = Woken
    BY <1>2 DEF PS2KBDISR, KbdEnter, KbdReturn, KbdChar
  <2> QED BY <2>1, <1>4 DEF Woken, ProcessEntry
<1>6. Pids' = Pids /\ MailOf' = MailOf
  BY <1>1, <1>2, <1>3, <1>5, SameMail
<1>7. /\ w \in User
      /\ \E a \in Int, cell \in Cell :
            /\ processes[w].memStart <= a
            /\ a < processes[w].memStart + processes[w].memSize
            /\ processBufferLoc <= a /\ a < processBufferLoc + processBufferSize
            /\ ram' = Stored(a, cell)
  BY <1>1, KeysInRegion
<1>8. PICK a \in Int, cell \in Cell :
         /\ processes[w].memStart <= a
         /\ a < processes[w].memStart + processes[w].memSize
         /\ processBufferLoc <= a /\ a < processBufferLoc + processBufferSize
         /\ ram' = Stored(a, cell)
  BY <1>7
<1>9. processWaitingForInput
  BY <1>2 DEF PS2KBDISR, KbdEnter, KbdReturn, KbdChar
<1>10. PICK b \in Buffers : /\ processBufferLoc = processes[w].memStart + b[1]
                            /\ processBufferSize = b[2]
  BY <1>9 DEF Asked
<1>11. a # processes[w].memStart + MsgOffset
  <2>1. /\ b[1] \in Nat /\ b[2] \in Nat /\ MsgOffset \in Nat
        /\ processes[w].memStart \in Int
    BY <1>1, <1>7, Regions, KernelAssumption
  <2>2. MsgOffset < b[1] \/ MsgOffset >= b[1] + b[2]
    BY <2>1 DEF BuffersApart
  <2>3. /\ a >= processes[w].memStart + b[1]
        /\ a < processes[w].memStart + b[1] + b[2]
    BY <1>8, <1>10
  <2> QED BY <2>1, <2>2, <2>3
<1>12. ASSUME NEW p \in Pids
       PROVE  DeskOf'[p] = DeskOf[p]
  <2>1. PICK i \in User : processes[i].pid = p
    BY DEF Pids
  <2>2. /\ i \in User' /\ processes'[i].pid = p
        /\ processes'[i].memStart = processes[i].memStart
    BY <1>3, <2>1 DEF KeepsPlaces
  <2>3. DeskOf[p] = ram[processes[i].memStart + MsgOffset]
    BY <1>1, <2>1, Boxes
  <2>4. DeskOf'[p] = ram'[processes[i].memStart + MsgOffset]
    BY <1>1, <2>2, BoxesNext
  <2>5. processes[i].memStart + MsgOffset \in Addr /\ MsgOffset \in 0 .. processes[i].memSize - 1
    BY <1>1, <2>1, DeskInMem
  <2>6. CASE i = w
    <3>1. ram'[processes[i].memStart + MsgOffset] = ram[processes[i].memStart + MsgOffset]
      BY <2>5, <2>6, <1>8, <1>11 DEF Stored
    <3> QED BY <3>1, <2>3, <2>4
  <2>7. CASE i # w
    <3> HIDE DEF w
    <3>1. ram'[processes[i].memStart + MsgOffset] = ram[processes[i].memStart + MsgOffset]
      BY <2>5, <2>7, <1>1, <1>7, <1>8, StoredElsewhere
    <3> QED BY <3>1, <2>3, <2>4
  <2> QED BY <2>6, <2>7
<1>13. DeskOf' = DeskOf
  BY <1>1, <1>6, <1>12, SameDesks
<1> QED BY <1>2, <1>6, <1>13 DEF RunningOf

\* An empty queue.
LEMMA NoMail ==
    ASSUME NEW proc \in ProcessEntry, proc.IPCQueueSize = 0
    PROVE  QueueOf(proc) = <<>>
BY QueueIsSeq, EmptySeq

\* SC_SPAWNPROC gives the new process an empty box and a desk, and nobody else
\* loses anything; or it halts the machine.
LEMMA SpawnIsArrive ==
    ASSUME KernelInv, KernelInv', DesksHold, NEW fileSize \in ImageSizes, SC_SPAWNPROC(fileSize)
    PROVE  \/ \E id \in (PidRange \ MB!Live) \cap (DOMAIN MailOf)' : MB!Arrive(id)
           \/ UNCHANGED <<MailOf, DeskOf, RunningOf>>
<1> DEFINE n == processCount
           id == NewPid
<1>1. IInv /\ IInv' /\ InRam /\ InRam'
  BY DEF KernelInv
<1>2. /\ UserRuns /\ n < ProcSlots /\ tick < MaxTick /\ cpu' = cpu
  BY DEF SC_SPAWNPROC, cpuVars
<1>3. RunningOf' = RunningOf /\ RunningOf \in MB!Live
  BY <1>1, <1>2, Boxes, Runner DEF RunningOf
<1>4. KeepsPlaces
  BY <1>1, SpawnKeepsWaiting DEF KeepsWaiting, KeepsPlaces
<1>5. ASSUME NEW p \in Pids \cap Pids'
      PROVE  DeskOf'[p] = DeskOf[p]
  <2>1. PICK i \in User : processes[i].pid = p
    BY DEF Pids
  <2>2. MemOf(p)' = MemOf(p)
    BY <1>1, <2>1, SpawnKeepsMem
  <2> QED BY <2>2, <1>1, SameDesk
<1>6. CASE AllocFault(fileSize + StackSize) # "no"
  <2>1. processes' = processes /\ processCount' = processCount
    BY <1>6 DEF SC_SPAWNPROC
  <2>2. Pids' = Pids /\ MailOf' = MailOf
    BY <2>1, <1>1, <1>4, SameMail
  <2> QED BY <2>2, <1>1, <1>3, <1>5, SameDesks
<1>7. CASE AllocFault(fileSize + StackSize) = "no"
  <2>1. /\ processCount' = n + 1
        /\ processes' = [processes EXCEPT ![n] = NewEntry(@, fileSize, AllocAddr, id)]
    BY <1>7 DEF SC_SPAWNPROC, SpawnProcess
  <2>2. /\ n \in Nat /\ n >= 2 /\ ProcSlots \in Nat
        /\ processes \in [Slots -> ProcessEntry]
        /\ tick \in Nat /\ MaxTick \in Nat
        /\ \A i \in User : i \in Slots /\ i \in 0 .. n - 1 /\ i # n /\ processes[i].pid \in Int
    BY <1>1, Types, Fields, ProcessAssumption, KernelAssumption DEF IInv, InitReady
  <2>3. n \in Slots /\ processes[n] \in ProcessEntry
    BY <1>2, <2>2 DEF Slots
  <2>4. processes'[n].pid = id /\ processes'[n].IPCQueueSize = 0
    BY <2>1, <2>2, <2>3 DEF NewEntry, ProcessEntry
  <2>5. \A i \in User : processes'[i] = processes[i]
    BY <2>1, <2>2
  <2>6. id \in PidRange
    BY <1>2, <2>2 DEF NewPid, PidRange
  <2>7. id \notin Pids
    <3>1. cpu.owner # WaitStub
      BY <1>2 DEF UserRuns, WaitStub
    <3>2. \A i \in User : processes[i].pid < tick + n
      BY <3>1, <2>2, <1>1, <1>2 DEF IInv, PidsPast
    <3>3. \A i \in User : processes[i].pid # id
      BY <3>2, <2>2 DEF NewPid
    <3> QED BY <3>3 DEF Pids
  <2> HIDE DEF id
  <2>8. n \in User' /\ \A i \in User' : i \in User \/ i = n
    BY <2>1, <2>2 DEF User
  <2>9. Pids' = Pids \cup {id}
    <3>1. \A i \in User : i \in User'
      BY <1>4 DEF KeepsPlaces
    <3> QED BY <3>1, <2>4, <2>5, <2>8 DEF Pids
  <2>10. MailOf'[id] = <<>>
    <3>1. MailOf'[id] = QueueOf(processes'[n])
      BY <1>1, <2>4, <2>8, BoxesNext
    <3>2. processes'[n] \in ProcessEntry
      BY <1>1, <2>3 DEF IInv, TypeOK, ProcTypeOK
    <3> QED BY <3>1, <3>2, <2>4, NoMail
  <2>11. \A p \in Pids : MailOf'[p] = MailOf[p]
    <3> SUFFICES ASSUME NEW p \in Pids PROVE MailOf'[p] = MailOf[p]
      OBVIOUS
    <3>1. PICK i \in User : processes[i].pid = p
      BY DEF Pids
    <3>2. MailOf[p] = QueueOf(processes[i])
      BY <1>1, <3>1, Boxes
    <3>3. MailOf'[p] = QueueOf(processes'[i])
      BY <1>1, <1>4, <3>1, <2>5, BoxesNext DEF KeepsPlaces
    <3> QED BY <3>2, <3>3, <2>5
  <2>12. MailOf' = MB!With(MailOf, id, <<>>)
    <3>1. DOMAIN MailOf = Pids /\ MailOf' = [p \in Pids \cup {id} |-> MailOf'[p]]
      BY <1>1, <2>9, Boxes, BoxesNext
    <3>2. \A p \in Pids \cup {id} : MailOf'[p] = IF p = id THEN <<>> ELSE MailOf[p]
      BY <2>7, <2>10, <2>11
    <3> QED BY <3>1, <3>2 DEF MB!With
  <2>13. DeskOf' = MB!With(DeskOf, id, DeskOf'[id])
    <3>1. DOMAIN DeskOf = Pids /\ DeskOf' = [p \in Pids \cup {id} |-> DeskOf'[p]]
      BY <1>1, <2>9, Boxes, BoxesNext
    <3>2. \A p \in Pids \cup {id} : DeskOf'[p] = IF p = id THEN DeskOf'[id] ELSE DeskOf[p]
      BY <1>5, <2>9
    <3> QED BY <3>1, <3>2 DEF MB!With
  <2>14. MB!Arrive(id)
    BY <1>3, <2>12, <2>13 DEF MB!Arrive
  <2>15. id \notin MB!Live /\ id \in (DOMAIN MailOf)'
    BY <1>1, <2>7, <2>9, Boxes, BoxesNext
  <2> QED BY <2>6, <2>14, <2>15
<1> QED BY <1>6, <1>7

\* SC_EXIT takes the box and the desk of the running process away, and moves
\* those of the others unchanged.
LEMMA ExitIsLeave ==
    ASSUME KernelInv, KernelInv', DesksHold, SC_EXIT
    PROVE  MB!Leave
<1> DEFINE idx == schedulerProcessAt
<1>1. IInv /\ IInv' /\ InRam /\ InRam'
  BY DEF KernelInv
<1>2. /\ idx \in User /\ idx \in Nat
      /\ cpu' = [owner |-> WaitStub, val |-> 0, ebp |-> 0]
      /\ processes \in [Slots -> ProcessEntry]
      /\ \A i \in User : i \in Nat /\ i \in Slots
  BY <1>1, ExitMoves, Types DEF IInv
<1>3. UserRuns
  BY DEF SC_EXIT
<1>4. RunningOf \in Pids /\ processes[idx].pid = RunningOf
  BY <1>1, <1>3, Runner DEF Current
<1>5. RunningOf' = -1
  <2>1. cpu'.owner < 0
    BY <1>2 DEF WaitStub
  <2> QED BY <2>1 DEF RunningOf
<1>6. ASSUME NEW k \in User'
      PROVE  \E i \in User : /\ i # idx
                             /\ processes'[k].pid = processes[i].pid
                             /\ processes'[k].IPCQueue = processes[i].IPCQueue
                             /\ processes'[k].IPCQueueSize = processes[i].IPCQueueSize
  <2>1. k \in User
    BY <1>1, ExitMoves
  <2>2. CASE k < idx
    <3>1. processes'[k] = processes[k]
      BY <1>1, <2>2, ExitMoves
    <3> QED BY <3>1, <2>1, <2>2, <1>2
  <2>3. CASE k >= idx
    <3>1. /\ k + 1 \in User
          /\ processes'[k] = [processes[k + 1] EXCEPT !.memStart = @ - Current.memSize]
      BY <1>1, <2>3, ExitMoves
    <3>2. /\ processes'[k].pid = processes[k + 1].pid
          /\ processes'[k].IPCQueue = processes[k + 1].IPCQueue
          /\ processes'[k].IPCQueueSize = processes[k + 1].IPCQueueSize
      BY <3>1, <1>2 DEF ProcessEntry
    <3>3. k + 1 # idx
      BY <2>1, <2>3, <1>2
    <3> QED BY <3>1, <3>2, <3>3
  <2>4. k < idx \/ k >= idx
    BY <2>1, <1>2
  <2> QED BY <2>2, <2>3, <2>4
<1>7. Pids' = Pids \ {RunningOf}
  <2>1. ASSUME NEW p \in Pids' PROVE p \in Pids \ {RunningOf}
    <3>1. PICK k \in User' : processes'[k].pid = p
      BY DEF Pids
    <3>2. PICK i \in User : i # idx /\ processes[i].pid = p
      BY <3>1, <1>6
    <3>3. p # RunningOf
      BY <3>2, <1>1, <1>2, <1>4, IndexOfPid
    <3> QED BY <3>2, <3>3 DEF Pids
  <2>2. ASSUME NEW p \in Pids, p # RunningOf PROVE p \in Pids'
    <3>1. PICK i \in User : processes[i].pid = p
      BY DEF Pids
    <3>2. CASE i < idx
      <4>1. i \in User' /\ processes'[i] = processes[i]
        BY <1>1, <3>2, ExitMoves
      <4> QED BY <4>1, <3>1 DEF Pids
    <3>3. CASE i > idx
      <4>1. i - 1 \in User' /\ i - 1 >= idx /\ (i - 1) + 1 = i
        BY <1>1, <1>2, <3>1, <3>3, ExitMoves
      <4>2. processes'[i - 1] = [processes[i] EXCEPT !.memStart = @ - Current.memSize]
        <5>1. processes'[i - 1] = [processes[(i - 1) + 1] EXCEPT !.memStart = @ - Current.memSize]
          BY <1>1, <4>1, ExitMoves
        <5> QED BY <4>1, <5>1
      <4>3. processes'[i - 1].pid = p
        BY <4>2, <3>1, <1>2 DEF ProcessEntry
      <4> QED BY <4>1, <4>3 DEF Pids
    <3>4. i # idx
      BY <3>1, <2>2, <1>4
    <3> QED BY <3>2, <3>3, <3>4, <1>2
  <2> QED BY <2>1, <2>2
<1>8. ASSUME NEW p \in Pids'
      PROVE  MailOf'[p] = MailOf[p] /\ DeskOf'[p] = DeskOf[p]
  <2>1. PICK k \in User' : processes'[k].pid = p
    BY DEF Pids
  <2>2. PICK i \in User : /\ processes[i].pid = p
                          /\ processes'[k].IPCQueue = processes[i].IPCQueue
                          /\ processes'[k].IPCQueueSize = processes[i].IPCQueueSize
    BY <2>1, <1>6
  <2>3. MailOf[p] = QueueOf(processes[i]) /\ MailOf'[p] = QueueOf(processes'[k])
    BY <1>1, <2>1, <2>2, Boxes, BoxesNext
  <2>4. QueueOf(processes'[k]) = QueueOf(processes[i])
    BY <2>2, SameQueue
  <2>5. MemOf(p)' = MemOf(p)
    BY <1>1, <2>1, <2>2, ExitKeepsMem
  <2>6. DeskOf'[p] = DeskOf[p]
    BY <2>5, <1>1, <1>7, SameDesk
  <2> QED BY <2>3, <2>4, <2>6
<1>9. MailOf' = MB!Without(MailOf, RunningOf)
  <2>1. DOMAIN MailOf = Pids /\ MailOf' = [p \in Pids \ {RunningOf} |-> MailOf'[p]]
    BY <1>1, <1>7, Boxes, BoxesNext
  <2> QED BY <2>1, <1>7, <1>8 DEF MB!Without
<1>10. DeskOf' = MB!Without(DeskOf, RunningOf)
  <2>1. DOMAIN DeskOf = Pids /\ DeskOf' = [p \in Pids \ {RunningOf} |-> DeskOf'[p]]
    BY <1>1, <1>7, Boxes, BoxesNext
  <2> QED BY <2>1, <1>7, <1>8 DEF MB!Without
<1>11. RunningOf \in MB!Live
  BY <1>1, <1>4, Boxes
<1> QED BY <1>5, <1>9, <1>10, <1>11 DEF MB!Leave

\* The switch at the timer interrupt and at the end of SC_GETUINPUT.
LEMMA SwitchesAreSwitches ==
    ASSUME KernelInv, KernelInv', DesksHold,
           PITISR \/ \E offset, size : SC_GETUINPUT(offset, size)
    PROVE  MB!Switch
<1>1. IInv
  BY DEF KernelInv
<1>2. CASE PITISR
  <2>1. /\ processes \in [Slots -> ProcessEntry] /\ ~processes[1].waiting
        /\ SwitchFrom(processes) /\ processCount' = processCount /\ ram' = ram
    BY <1>1, <1>2, Types DEF PITISR, IInv, InitReady, memVars
  <2>2. KeepsPlaces
    BY <2>1, <1>1, SwitchKeepsEntries, SlotsKeepPlaces
  <2> QED BY <2>1, <2>2, SwitchIsSwitch
<1>3. ASSUME NEW offset, NEW size, SC_GETUINPUT(offset, size)
      PROVE  MB!Switch
  <2> DEFINE procs == [processes EXCEPT ![schedulerProcessAt].waiting = TRUE]
  <2>1. /\ procs \in [Slots -> ProcessEntry] /\ ~procs[1].waiting /\ SwitchFrom(procs)
        /\ \A i \in Slots : /\ procs[i].IPCQueue = processes[i].IPCQueue
                            /\ procs[i].IPCQueueSize = processes[i].IPCQueueSize
    BY <1>1, <1>3, RequestTable
  <2>2. KeepsPlaces /\ processCount' = processCount /\ ram' = ram
    BY <1>1, <1>3, RequestKeepsPlaces DEF SC_GETUINPUT, memVars
  <2> HIDE DEF procs
  <2> QED BY <2>1, <2>2, SwitchIsSwitch
<1> QED BY <1>2, <1>3

\* Every step of the kernel is a step of the boxes, or none, as long as no
\* request has been disturbed.
LEMMA MailStep ==
    ASSUME DesksHold, BuffersApart, KernelInv, KernelInv', Asked, ~disturbed, [Next]_vars
    PROVE  MB!Next \/ UNCHANGED <<MailOf, DeskOf, RunningOf>>
<1>1. IInv /\ IInv' /\ InRam /\ InRam'
  BY DEF KernelInv
<1>2. schedulerProcessAt \in Slots /\ cpu \in Context
  BY <1>1, Types DEF IInv
<1>3. ASSUME UNCHANGED <<processes, processCount, ram>>, cpu'.owner = cpu.owner
      PROVE  UNCHANGED <<MailOf, DeskOf, RunningOf>>
  BY <1>3 DEF MailOf, DeskOf, RunningOf, Pids, User, Index, IndexesOf
<1>4. CASE PITISR
  BY <1>4, SwitchesAreSwitches DEF MB!Next
<1>5. ASSUME NEW offset, NEW size, SC_GETUINPUT(offset, size)
      PROVE  MB!Next
  BY <1>5, SwitchesAreSwitches DEF MB!Next
<1>6. ASSUME NEW fileSize \in ImageSizes, SC_SPAWNPROC(fileSize)
      PROVE  MB!Next \/ UNCHANGED <<MailOf, DeskOf, RunningOf>>
  BY <1>6, SpawnIsArrive DEF MB!Next
<1>7. CASE SC_EXIT
  BY <1>7, ExitIsLeave DEF MB!Next
<1>8. ASSUME NEW i \in Addressees \cap (0 .. processCount - 1), NEW body \in Bodies,
             SC_MSG_SEND(processes[i].pid, body)
      PROVE  MB!Next
  <2>1. \E to \in MB!Live : MB!Send(to, body)
    BY <1>8, SendIsSend
  <2> QED BY <2>1 DEF MB!Next
<1>9. CASE SC_MSG_POP
  BY <1>9, PopIsRead DEF MB!Next
<1>10. ASSUME NEW vector, RaiseException(vector)
       PROVE  UNCHANGED <<MailOf, DeskOf, RunningOf>>
  <2>1. Index(schedulerProcessAt) = -1
    BY <1>1, <1>2, IndexIsNoPid
  <2>2. UNCHANGED <<processes, processCount, ram, cpu>>
    BY <2>1, <1>10 DEF RaiseException, Kill, cpuVars, memVars
  <2> QED BY <2>2, <1>3
<1>11. CASE Keystroke
  BY <1>11, KeyIsNothing
<1>12. ASSUME NEW val, NEW ebp, UserCompute(val, ebp)
       PROVE  UNCHANGED <<MailOf, DeskOf, RunningOf>>
  <2>1. UNCHANGED <<processes, processCount, ram>> /\ cpu' = [cpu EXCEPT !.val = val, !.ebp = ebp]
    BY <1>12 DEF UserCompute, tableVars, memVars
  <2>2. cpu'.owner = cpu.owner
    BY <2>1, <1>2 DEF Context
  <2> QED BY <2>1, <2>2, <1>3
<1>13. ASSUME NEW offset \in Offsets, UserStore(offset)
       PROVE  MB!Next
  BY <1>13, StoreIsScribble DEF MB!Next
<1>14. CASE UNCHANGED vars
  BY <1>14, <1>3 DEF vars, tableVars, cpuVars, memVars
<1> QED BY <1>4, <1>5, <1>6, <1>7, <1>8, <1>9, <1>10, <1>11, <1>12, <1>13, <1>14
        DEF Next, SystemCall, Program

\* At boot INIT alone has a box, and it is empty.
LEMMA MailInit == Init => MB!Init
<1> SUFFICES ASSUME Init PROVE MB!Init
  OBVIOUS
<1>1. IInv
  BY InitIInv
<1>2. processCount = 2 /\ cpu.owner = KernelMain
  BY DEF Init
<1>3. RunningOf = -1
  BY <1>2 DEF RunningOf, KernelMain
<1>4. /\ User = {1} /\ 1 \in Slots /\ processes[1] \in ProcessEntry
  BY <1>1, <1>2, Types, Fields, ProcessAssumption DEF User, IInv, Slots
<1> DEFINE id == processes[1].pid
<1>5. Pids = {id}
  BY <1>4 DEF Pids
<1>6. id \in PidRange
  <2>1. PICK x \in PidRange : RowOf = <<[id |-> x, waiting |-> FALSE]>>
    BY RowInit DEF RR!Init
  <2>2. RowOf[1].id = x
    BY <2>1
  <2>3. RowOf[1] = [id |-> processes[1].pid, waiting |-> processes[1].waiting]
    BY <1>4 DEF RowOf
  <2> QED BY <2>2, <2>3
<1>7. processes[1].IPCQueueSize = 0
  <2>1. PICK size0 \in ImageSizes, size1 \in ImageSizes,
             t0 \in BootTicks, t1 \in BootTicks, t2 \in BootTicks :
                BootState(size0, size1, t0, t1, t2)
    BY DEF Init
  <2>2. \E size, start, pid : processes[1] = Booted(size, start, pid)
    <3> HIDE DEF Booted
    <3> QED BY <2>1, <1>4 DEF BootState
  <2> QED BY <2>2, BootedEntry DEF Booted, NewEntry, ProcessEntry
<1>8. MailOf = [z \in {id} |-> <<>>] /\ MB!Live = {id} /\ DOMAIN DeskOf = {id}
  <2>1. MailOf[id] = <<>>
    BY <1>1, <1>4, <1>7, Boxes, NoMail
  <2>2. MailOf = [z \in {id} |-> MailOf[z]] /\ MB!Live = {id} /\ DOMAIN DeskOf = {id}
    BY <1>1, <1>5, Boxes
  <2> QED BY <2>1, <2>2
<1> QED BY <1>3, <1>6, <1>8 DEF MB!Init

\* The kernel implements the mailboxes: whatever the size of its tables and of
\* its memory, every message sent is delivered once, whole, in order, to the
\* process it was sent to and with the true sender on it, although exits move
\* the queues and the desks.
THEOREM KernelDeliversMail ==
    ASSUME BuffersHold, RamHolds, DesksHold, BuffersApart
    PROVE  Spec /\ []~disturbed => DeliversMail
<1>1. Init => MB!Init
  BY MailInit
<1>2. ASSUME KernelInv, Asked, KernelInv', ~disturbed, [Next]_vars
      PROVE  [MB!Next]_<<MailOf, DeskOf, RunningOf>>
  BY <1>2, MailStep
<1> QED BY <1>1, <1>2, MailInductive, PTL DEF Spec, DeliversMail, MB!Spec, MB!mbVars

\* Without input there is nothing to disturb.
LEMMA QuietStep ==
    ASSUME IInv, Buffers = {}, ~processWaitingForInput, ~disturbed, [Next]_vars
    PROVE  ~processWaitingForInput' /\ ~disturbed'
<1>1. CASE SC_EXIT
  BY <1>1 DEF SC_EXIT, DisturbedBy, kbdVars
<1>2. CASE Keystroke
  BY <1>2 DEF Keystroke, PS2KBDISR, KbdEnter, KbdReturn, KbdChar
<1>3. CASE PITISR
  BY <1>3 DEF PITISR, kbdVars, readVars
<1>4. ASSUME NEW fileSize, SC_SPAWNPROC(fileSize)
      PROVE  ~processWaitingForInput' /\ ~disturbed'
  BY <1>4 DEF SC_SPAWNPROC, kbdVars, readVars
<1>5. ASSUME \/ \E pid, body : SC_MSG_SEND(pid, body)
             \/ SC_MSG_POP
             \/ \E vector : RaiseException(vector)
             \/ \E val, ebp : UserCompute(val, ebp)
             \/ \E offset : UserStore(offset)
             \/ UNCHANGED vars
      PROVE  ~processWaitingForInput' /\ ~disturbed'
  BY <1>5, OthersKeepWaiting DEF kbdVars, readVars
<1> QED BY <1>1, <1>2, <1>3, <1>4, <1>5 DEF Next, SystemCall, Program

\* Then every message is delivered.
THEOREM MailWithoutInput ==
    ASSUME RamHolds, DesksHold, Buffers = {}
    PROVE  Spec => DeliversMail
<1>1. BuffersHold /\ BuffersApart
  BY DEF BuffersHold, BuffersApart
<1>2. Init => ~processWaitingForInput /\ ~disturbed
  BY DEF Init, KbdInit
<1>3. IInv /\ ~processWaitingForInput /\ ~disturbed /\ [Next]_vars
         => (~processWaitingForInput /\ ~disturbed)'
  BY QuietStep
<1>4. Spec => []~disturbed
  BY <1>2, <1>3, Inductive, PTL DEF Spec
<1> QED BY <1>1, <1>4, KernelDeliversMail, PTL

=============================================================================
