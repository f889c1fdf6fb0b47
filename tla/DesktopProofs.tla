--------------------------- MODULE DesktopProofs ---------------------------
(***************************************************************************)
(* Proofs about the kernel with its screen and its mouse, for every size   *)
(* of the tables, of the memory and of the programs.  The steps Desktop    *)
(* adds are calm in the sense of KernelProofs, so IInv still holds; on top *)
(* of it stands OwnerPast, which keeps the pid of the screen's owner, dead *)
(* or alive, below all pids to come.                                       *)
(***************************************************************************)
EXTENDS Desktop, RefinementProofs

-----------------------------------------------------------------------------

(***************************************************************************)
(* The inductive invariant                                                 *)
(***************************************************************************)

\* The owner's pid is not the next one.  An exit lowers the next pid to the
\* highest one given, until the timer interrupt that ends the wait stub.
OwnerPast ==
    /\ ownerPID \in Int
    /\ tick < MaxTick => \/ ownerPID < tick + processCount
                         \/ cpu.owner = WaitStub /\ ownerPID = tick + processCount

\* The driver's counter and the mouse's.  When the mouse has sent two bytes of a
\* packet without bit 3 in the second, the driver cannot have counted one: it
\* would have had to take the second for a first.
MouseInv ==
    /\ mouse_cycle \in 0 .. 2
    /\ phase \in 0 .. 2
    /\ settled => mouse_cycle = phase
    /\ phase = 2 /\ quiet /\ ~settled => mouse_cycle # 1

DesktopInv == IInv /\ OwnerPast /\ MouseInv

-----------------------------------------------------------------------------

(***************************************************************************)
(* What a step of the kernel does to pids and to the clock                 *)
(***************************************************************************)

SamePids == processCount' = processCount /\ \A i \in Slots : processes'[i].pid = processes[i].pid

\* Everything that is no task switch, no spawn and no exit.
StaysPut == SamePids /\ tick' = tick /\ cpu'.owner = cpu.owner

Switches == SamePids /\ tick' = Ticked

Spawns ==
    /\ cpu.owner >= 0 /\ cpu' = cpu
    /\ tick < MaxTick /\ tick' = tick
    /\ processCount' = processCount + 1
    /\ \A i \in 0 .. processCount - 1 : processes'[i].pid = processes[i].pid
    /\ processes'[processCount].pid = tick + processCount

Exits ==
    /\ cpu.owner >= 0 /\ cpu'.owner = WaitStub
    /\ tick' = tick
    /\ processCount' = processCount - 1
    /\ \A i \in User' : \E j \in User : processes'[i].pid = processes[j].pid

LEMMA CalmStaysPut == Calm => StaysPut
BY DEF Calm, KeepsTable, StaysPut, SamePids

\* A switch from a table with the pids of the present one.
LEMMA SwitchSwitches ==
    ASSUME IInv, NEW procs \in [Slots -> ProcessEntry], ~procs[1].waiting,
           \A i \in Slots : procs[i].pid = processes[i].pid,
           SwitchFrom(procs), processCount' = processCount
    PROVE  Switches
BY SwitchKeepsEntries DEF Switches, SamePids

\* The last process is appended, with a pid computed from the clock.
LEMMA SpawnSpawns ==
    ASSUME IInv, NEW fileSize \in ImageSizes, SC_SPAWNPROC(fileSize)
    PROVE  Spawns \/ StaysPut
<1>1. /\ processCount \in Nat /\ processCount < ProcSlots /\ ProcSlots \in Nat
      /\ processes \in [Slots -> ProcessEntry]
      /\ cpu.owner >= 0 /\ cpu' = cpu /\ tick < MaxTick /\ tick' = tick
  BY Types, ProcessAssumption DEF IInv, SC_SPAWNPROC, UserRuns, cpuVars
<1>2. CASE AllocFault(fileSize + StackSize) # "no"
  <2>1. processes' = processes /\ processCount' = processCount
    BY <1>2 DEF SC_SPAWNPROC
  <2> QED BY <1>1, <2>1 DEF StaysPut, SamePids
<1>3. CASE AllocFault(fileSize + StackSize) = "no"
  <2>1. /\ processCount' = processCount + 1
        /\ processes' = [processes EXCEPT ![processCount] =
                            NewEntry(@, fileSize, AllocAddr, NewPid)]
    BY <1>3 DEF SC_SPAWNPROC, SpawnProcess
  <2>2. processCount \in Slots /\ \A i \in 0 .. processCount - 1 : i # processCount
    BY <1>1 DEF Slots
  <2>3. processes'[processCount].pid = tick + processCount
    <3>1. processes[processCount] \in ProcessEntry
      BY <1>1, <2>2
    <3> QED BY <3>1, <2>1, <2>2, <1>1 DEF NewEntry, NewPid, ProcessEntry
  <2>4. \A i \in 0 .. processCount - 1 : processes'[i] = processes[i]
    BY <1>1, <2>1, <2>2
  <2> QED BY <1>1, <2>1, <2>3, <2>4 DEF Spawns
<1> QED BY <1>2, <1>3

\* kill() of the caller leaves only pids that were in the table before.
LEMMA ExitExits ==
    ASSUME IInv, SC_EXIT
    PROVE  Exits
<1> DEFINE idx == schedulerProcessAt
<1>1. /\ cpu.owner >= 0 /\ cpu'.owner = WaitStub /\ tick' = tick /\ Kill(Current.pid)
  BY DEF SC_EXIT, UserRuns
<1>2. /\ idx \in User /\ processCount \in Nat
      /\ processes \in [Slots -> ProcessEntry]
      /\ \A i \in User : i \in Nat /\ i > 0 /\ i \in Slots
  BY <1>1, Types DEF IInv, RunningIsCurrent
<1>3. Index(Current.pid) = idx /\ idx # -1
  BY <1>2, OwnIndex DEF Current
<1>4. processes' = Closed(idx) /\ processCount' = processCount - 1
  BY <1>1, <1>3 DEF Kill
<1>5. ASSUME NEW i \in User'
      PROVE  \E j \in User : processes'[i].pid = processes[j].pid
  <2>1. i \in User /\ i + 1 \in User /\ i < processCount - 1
    BY <1>2, <1>4 DEF User
  <2>2. CASE i < idx
    BY <2>1, <2>2, <1>2, <1>4 DEF Closed
  <2>3. CASE i >= idx
    <3>1. processes'[i] = [processes[i + 1] EXCEPT !.memStart = @ - processes[idx].memSize]
      BY <2>1, <2>3, <1>2, <1>4 DEF Closed
    <3>2. processes'[i].pid = processes[i + 1].pid
      BY <3>1, <2>1, <1>2 DEF ProcessEntry
    <3> QED BY <3>2, <2>1
  <2> QED BY <2>1, <2>2, <2>3, <1>2
<1> QED BY <1>1, <1>4, <1>5 DEF Exits

LEMMA TableSteps ==
    ASSUME IInv, [Next]_vars
    PROVE  \/ StaysPut
           \/ Switches
           \/ \E fileSize \in ImageSizes : SC_SPAWNPROC(fileSize)
           \/ SC_EXIT
<1>1. /\ processes \in [Slots -> ProcessEntry] /\ schedulerProcessAt \in Slots
      /\ ~processes[1].waiting /\ TypeOK
  BY Types DEF IInv, InitReady
<1>2. CASE PITISR
  BY <1>1, <1>2, SwitchSwitches DEF PITISR
<1>3. ASSUME NEW b \in Buffers, SC_GETUINPUT(b[1], b[2])
      PROVE  Switches
  <2> DEFINE procs == [processes EXCEPT ![schedulerProcessAt].waiting = TRUE]
  <2>1. procs \in [Slots -> ProcessEntry]
    BY <1>1, WaitingTable
  <2>2. SwitchFrom(procs) /\ processCount' = processCount /\ schedulerProcessAt # 1
    BY <1>3 DEF SC_GETUINPUT, NotInit
  <2>3. ~procs[1].waiting /\ \A i \in Slots : procs[i].pid = processes[i].pid
    BY <1>1, <2>2 DEF ProcessEntry
  <2> HIDE DEF procs
  <2> QED BY <2>1, <2>2, <2>3, SwitchSwitches
<1>4. CASE UNCHANGED vars
  BY <1>4 DEF vars, tableVars, cpuVars, StaysPut, SamePids
<1>5. CASE Calm
  BY <1>5, CalmStaysPut
<1> QED BY <1>2, <1>3, <1>4, <1>5, CalmSteps DEF Next, SystemCall, Program

LEMMA StepShape ==
    ASSUME IInv, [Next]_vars
    PROVE  StaysPut \/ Switches \/ Spawns \/ Exits
BY TableSteps, SpawnSpawns, ExitExits

-----------------------------------------------------------------------------

(***************************************************************************)
(* The steps that Desktop adds                                             *)
(***************************************************************************)

\* What the kernel sends by itself changes queues only.
LEMMA PostKeeps ==
    ASSUME IInv, NEW pid, NEW body \in Int, Post(pid, body)
    PROVE  /\ processes' \in [Slots -> ProcessEntry]
           /\ \A i \in Slots : /\ processes'[i].pid = processes[i].pid
                               /\ processes'[i].memStart = processes[i].memStart
                               /\ processes'[i].memSize = processes[i].memSize
                               /\ processes'[i].regs = processes[i].regs
                               /\ processes'[i].waiting = processes[i].waiting
<1>1. TypeOK /\ processes \in [Slots -> ProcessEntry]
  BY Types DEF IInv
<1>2. CASE CanSend(pid)
  <2>1. SendMessageToProcess(pid, body)
    BY <1>2 DEF Post
  <2>2. processes' \in [Slots -> ProcessEntry]
    BY <2>1, <1>1, <1>2, SendTypes
  <2> QED BY <2>1, <2>2, <1>1 DEF SendMessageToProcess, ProcessEntry
<1>3. CASE ~CanSend(pid)
  BY <1>1, <1>3 DEF Post
<1> QED BY <1>2, <1>3

\* The program that calls is the one schedulerProcessAt points to.
LEMMA CallerIsCurrent ==
    ASSUME IInv, Draws
    PROVE  /\ schedulerProcessAt \in User /\ schedulerProcessAt \in 0 .. processCount - 1
           /\ ldtBase = Current.memStart
           /\ Current.pid \in Int /\ Current.memStart \in Int
<1>1. cpu.owner >= 0
  BY DEF Draws, UserRuns
<1>2. TypeOK /\ schedulerProcessAt \in User /\ ldtBase = Current.memStart
  BY <1>1 DEF IInv, RunningIsCurrent
<1>3. schedulerProcessAt \in Slots /\ schedulerProcessAt \in 0 .. processCount - 1
  BY <1>2, Types
<1> QED BY <1>2, <1>3, Fields DEF Current

\* A step that replaces messages and one byte of the RAM at most, or halts.
LEMMA DrawingIsCalm ==
    ASSUME IInv,
           processes' \in [Slots -> ProcessEntry],
           \A i \in Slots : /\ processes'[i].pid = processes[i].pid
                            /\ processes'[i].memStart = processes[i].memStart
                            /\ processes'[i].memSize = processes[i].memSize
                            /\ processes'[i].regs = processes[i].regs
                            /\ processes'[i].waiting = processes[i].waiting,
           ram' \in [Addr -> Cell], ldtBase' = ldtBase, halted' \in {halted, "panic"},
           UNCHANGED <<memList, memIndex, processCount, schedulerProcessAt, tick, kbdVars,
                       readVars, saveRegs, cpu, faulted>>
    PROVE  IInv' /\ StaysPut
<1>1. Calm
  BY DEF Calm, KeepsTable
<1>2. TypeOK'
  BY DEF IInv, TypeOK, MemTypeOK, ProcTypeOK, KbdTypeOK, kbdVars, readVars
<1> QED BY <1>1, <1>2, CalmKeepsIInv, CalmStaysPut

\* SC_GRAPHICS and the mouse's interrupt.
LEMMA ScreenIsCalm ==
    ASSUME IInv,
           \/ SC_GRAPHICS
           \/ \E bit3 \in BOOLEAN : ps2MouseISR(bit3)
           \/ NoSegment
    PROVE  IInv' /\ StaysPut
<1>1. /\ processes \in [Slots -> ProcessEntry] /\ ram \in [Addr -> Cell] /\ TypeOK
  BY Types DEF IInv
<1>2. MouMov \in Int /\ Requests \subseteq Int
  BY DesktopAssumption
<1>3. CASE TakeScreen
  <2>1. UNCHANGED vars
    BY <1>3 DEF TakeScreen
  <2> QED BY <2>1, <1>1, DrawingIsCalm DEF vars, memVars, tableVars, cpuVars
<1>4. CASE SetMode
  <2>1. ldtBase' = ldtBase
    BY <1>4, CallerIsCurrent DEF SetMode, ModeBase
  <2>2. UNCHANGED <<memVars, tableVars, tick, kbdVars, readVars, saveRegs, cpu, halted, faulted>>
    BY <1>4 DEF SetMode
  <2> QED BY <2>1, <2>2, <1>1, DrawingIsCalm DEF memVars, tableVars
<1>5. CASE GetPixel
  <2>1. <<Current.pid, -1>> \in Cell
    BY <1>5, CallerIsCurrent DEF GetPixel, Cell
  <2>2. ram' \in [Addr -> Cell]
    BY <2>1, <1>1, <1>5, StoredType DEF GetPixel
  <2>3. UNCHANGED <<memList, memIndex, tableVars, tick, kbdVars, readVars, cpuVars, halted, faulted>>
    BY <1>5 DEF GetPixel
  <2> QED BY <2>2, <2>3, <1>1, DrawingIsCalm DEF tableVars, cpuVars
<1>6. ASSUME NEW body \in Requests, ForwardRequest(body)
      PROVE  IInv' /\ StaysPut
  <2>1. Post(ownerPID, body)
    BY <1>6 DEF ForwardRequest
  <2>2. UNCHANGED <<memVars, processCount, schedulerProcessAt, tick, kbdVars, readVars,
                    cpuVars, halted, faulted>>
    BY <1>6 DEF ForwardRequest
  <2> QED BY <2>1, <2>2, <1>1, <1>2, PostKeeps, DrawingIsCalm DEF memVars, cpuVars
<1>7. ASSUME NEW bit3 \in BOOLEAN, ps2MouseISR(bit3)
      PROVE  IInv' /\ StaysPut
  <2>1. Post(ownerPID, MouMov) \/ processes' = processes
    BY <1>7 DEF ps2MouseISR
  <2>2. UNCHANGED <<memVars, processCount, schedulerProcessAt, tick, kbdVars, readVars,
                    cpuVars, halted, faulted>>
    BY <1>7 DEF ps2MouseISR
  <2>3. CASE Post(ownerPID, MouMov)
    BY <2>2, <2>3, <1>1, <1>2, PostKeeps, DrawingIsCalm DEF memVars, cpuVars
  <2>4. CASE processes' = processes
    BY <2>2, <2>4, <1>1, DrawingIsCalm DEF memVars, cpuVars
  <2> QED BY <2>1, <2>3, <2>4
<1>8. CASE NoSegment
  <2>1. /\ halted' = "panic"
        /\ UNCHANGED <<memVars, tableVars, tick, kbdVars, readVars, cpuVars, faulted>>
    BY <1>8 DEF NoSegment
  <2> QED BY <2>1, <1>1, DrawingIsCalm DEF memVars, tableVars, cpuVars
<1> QED BY <1>3, <1>4, <1>5, <1>6, <1>7, <1>8 DEF SC_GRAPHICS

\* The other steps of Desktop are the kernel's.
LEMMA KernelsOwn ==
    ASSUME [DesktopNext]_desktopVars
    PROVE  \/ [Next]_vars /\ UNCHANGED <<screenVars, mouseVars>>
           \/ SC_GRAPHICS
           \/ \E bit3 \in BOOLEAN : ps2MouseISR(bit3)
           \/ NoSegment
BY DEF DesktopNext, Handler, Compute, Next, Program, desktopVars

-----------------------------------------------------------------------------

(***************************************************************************)
(* DesktopInv is inductive                                                 *)
(***************************************************************************)

LEMMA DesktopIInvStep ==
    ASSUME IInv, [DesktopNext]_desktopVars
    PROVE  IInv' /\ (StaysPut \/ Switches \/ Spawns \/ Exits)
BY KernelsOwn, IInvStep, StepShape, ScreenIsCalm

\* An owner that stays keeps behind the next pid.
LEMMA OwnerStaysPast ==
    ASSUME IInv, OwnerPast, ownerPID' = ownerPID,
           StaysPut \/ Switches \/ Spawns \/ Exits
    PROVE  OwnerPast'
<1>1. /\ tick \in Nat /\ MaxTick \in Nat /\ tick <= MaxTick /\ processCount \in Nat
      /\ ownerPID \in Int
  BY Types, KernelAssumption DEF IInv, PidsHigh, OwnerPast
<1>2. CASE StaysPut
  BY <1>2 DEF StaysPut, SamePids, OwnerPast
<1>3. CASE Switches
  BY <1>1, <1>3 DEF Switches, SamePids, Ticked, OwnerPast
<1>4. CASE Spawns
  BY <1>1, <1>4 DEF Spawns, OwnerPast, WaitStub
<1>5. CASE Exits
  BY <1>1, <1>5 DEF Exits, OwnerPast, WaitStub
<1> QED BY <1>2, <1>3, <1>4, <1>5

\* Who takes the screen is in the table, and pids in the table are past.
LEMMA NewOwnerPast ==
    ASSUME IInv, TakeScreen
    PROVE  OwnerPast'
<1>1. /\ schedulerProcessAt \in 0 .. processCount - 1 /\ Current.pid \in Int
  BY CallerIsCurrent DEF TakeScreen
<1>2. /\ cpu.owner # WaitStub /\ ownerPID' = Current.pid
      /\ UNCHANGED <<tick, processCount, cpu>>
  BY DEF TakeScreen, Draws, UserRuns, WaitStub, vars, tableVars, cpuVars
<1>3. tick < MaxTick => Current.pid < tick + processCount
  BY <1>1, <1>2 DEF IInv, PidsPast, Current
<1> QED BY <1>1, <1>2, <1>3 DEF OwnerPast

LEMMA MouseStep ==
    ASSUME MouseInv, [DesktopNext]_desktopVars
    PROVE  MouseInv'
<1>1. CASE UNCHANGED mouseVars
  BY <1>1 DEF MouseInv, mouseVars
<1>2. ASSUME NEW bit3 \in BOOLEAN, ps2MouseISR(bit3)
      PROVE  MouseInv'
  <2>1. /\ phase = 0 => bit3
        /\ phase' = (phase + 1) % 3
        /\ settled' = (settled \/ (phase = 2 /\ quiet /\ ~bit3))
        /\ quiet' = (settled' \/ phase # 1 \/ ~bit3)
        /\ mouse_cycle' = IF mouse_cycle # 0 \/ bit3 THEN (mouse_cycle + 1) % 3 ELSE mouse_cycle
    BY <1>2 DEF ps2MouseISR, MouseByte, Accepted
  <2>2. mouse_cycle \in {0, 1, 2} /\ phase \in {0, 1, 2}
    BY DEF MouseInv
  <2>3. mouse_cycle' \in 0 .. 2 /\ phase' \in 0 .. 2
    BY <2>1, <2>2
  <2>4. ASSUME settled'
        PROVE  mouse_cycle' = phase'
    <3>1. CASE settled
      <4>1. mouse_cycle = phase /\ (mouse_cycle # 0 \/ bit3)
        BY <3>1, <2>1 DEF MouseInv
      <4> QED BY <4>1, <2>1
    <3>2. CASE ~settled
      <4>1. phase = 2 /\ ~bit3 /\ mouse_cycle # 1
        BY <3>2, <2>1, <2>4 DEF MouseInv
      <4> QED BY <4>1, <2>1, <2>2
    <3> QED BY <3>1, <3>2
  <2>5. ASSUME phase' = 2, quiet', ~settled'
        PROVE  mouse_cycle' # 1
    <3>1. phase = 1
      BY <2>1, <2>2, <2>5
    <3>2. ~bit3
      BY <3>1, <2>1, <2>5
    <3> QED BY <3>2, <2>1, <2>2
  <2> QED BY <2>3, <2>4, <2>5 DEF MouseInv
<1> QED BY <1>1, <1>2
        DEF DesktopNext, Handler, Compute, SC_GRAPHICS, TakeScreen, SetMode, GetPixel,
            ForwardRequest, NoSegment, desktopVars

LEMMA DesktopInvStep ==
    ASSUME DesktopInv, [DesktopNext]_desktopVars
    PROVE  DesktopInv'
<1>1. IInv' /\ (StaysPut \/ Switches \/ Spawns \/ Exits)
  BY DesktopIInvStep DEF DesktopInv
<1>2. TakeScreen \/ ownerPID' = ownerPID
  BY DEF DesktopNext, Handler, Compute, SC_GRAPHICS, SetMode, GetPixel, ForwardRequest,
         ps2MouseISR, NoSegment, screenVars, desktopVars
<1>3. OwnerPast'
  BY <1>1, <1>2, OwnerStaysPast, NewOwnerPast DEF DesktopInv
<1>4. MouseInv'
  BY MouseStep DEF DesktopInv
<1> QED BY <1>1, <1>3, <1>4 DEF DesktopInv

\* Nobody owns the screen at boot; the mouse may be out of step.
LEMMA DesktopInitInv == DesktopInit => DesktopInv
<1> SUFFICES ASSUME DesktopInit PROVE DesktopInv
  OBVIOUS
<1>1. IInv
  BY InitIInv DEF DesktopInit
<1>2. OwnerPast
  <2>1. tick \in Nat /\ processCount = 2 /\ ownerPID = 0
    BY <1>1, Types DEF IInv, DesktopInit, Init
  <2> QED BY <2>1 DEF OwnerPast
<1>3. MouseInv
  BY DEF DesktopInit, MouseInv
<1> QED BY <1>1, <1>2, <1>3 DEF DesktopInv

-----------------------------------------------------------------------------

(***************************************************************************)
(* What the kernel with its desktop guarantees                             *)
(***************************************************************************)

\* Every reachable state satisfies the inductive invariant, the kernel's own
\* included: nothing SC_GRAPHICS or the mouse's interrupt does disturbs the
\* tables.
THEOREM DesktopInductive == DesktopSpec => []DesktopInv
<1>1. DesktopInit => DesktopInv
  BY DesktopInitInv
<1>2. DesktopInv /\ [DesktopNext]_desktopVars => DesktopInv'
  BY DesktopInvStep
<1> QED BY <1>1, <1>2, PTL DEF DesktopSpec

\* The mode switch goes through real mode and a new initGDT, and the segments
\* it leaves are still those of the program that asked for it.
THEOREM DesktopCurrent == DesktopSpec => []RunningIsCurrent
<1>1. DesktopInv => RunningIsCurrent
  BY DEF DesktopInv, IInv
<1> QED BY <1>1, DesktopInductive, PTL

\* The pid of the screen's owner, which nothing clears, is never given again.
THEOREM ScreenKept == DesktopSpec => ScreenNotInherited
<1>1. ASSUME DesktopInv, [DesktopNext]_desktopVars
      PROVE  \A p \in Pids' \ Pids : p # ownerPID
  <2> SUFFICES ASSUME NEW p \in Pids', p \notin Pids
               PROVE  p # ownerPID
    OBVIOUS
  <2>1. StaysPut \/ Switches \/ Spawns \/ Exits
    BY <1>1, DesktopIInvStep DEF DesktopInv
  <2>2. PICK i \in User' : p = processes'[i].pid
    BY DEF Pids
  <2>3. processCount \in Nat /\ tick \in Nat /\ \A k \in User : k \in Slots
    BY <1>1, Types DEF DesktopInv, IInv
  <2>4. ~SamePids
    <3>1. SamePids => User' = User
      BY DEF SamePids, User
    <3> QED BY <3>1, <2>2, <2>3 DEF SamePids, Pids
  <2>5. ~Exits
    BY <2>2 DEF Exits, Pids
  <2>6. Spawns
    BY <2>1, <2>4, <2>5 DEF StaysPut, Switches
  <2>7. p = tick + processCount
    <3>1. i \in User \/ i = processCount
      BY <2>3, <2>6 DEF Spawns, User
    <3>2. i \notin User
      BY <2>2, <2>6 DEF Spawns, User, Pids
    <3> QED BY <3>1, <3>2, <2>2, <2>6 DEF Spawns
  <2>8. ownerPID < tick + processCount /\ ownerPID \in Int
    BY <1>1, <2>6 DEF DesktopInv, OwnerPast, Spawns, WaitStub
  <2> QED BY <2>3, <2>7, <2>8
<1> QED BY <1>1, DesktopInductive, PTL DEF DesktopSpec, ScreenNotInherited

\* However far out of step the driver starts, one quiet packet puts it in step.
THEOREM MouseSettles == DesktopSpec => []MouseInStep
<1>1. DesktopInv => MouseInStep
  BY DEF DesktopInv, MouseInv, MouseInStep
<1> QED BY <1>1, DesktopInductive, PTL

\* A driver in step refuses no byte, so no program loses its data segment.
THEOREM SegmentsStay == DesktopSpec => SegmentsKept
<1>1. ASSUME DesktopInv
      PROVE  \A bit3 \in BOOLEAN :
                settled /\ ds = "user" /\ ps2MouseISR(bit3) => ds' = "user"
  <2> SUFFICES ASSUME NEW bit3 \in BOOLEAN, settled, ds = "user", ps2MouseISR(bit3)
               PROVE  ds' = "user"
    OBVIOUS
  <2>1. mouse_cycle = phase
    BY <1>1 DEF DesktopInv, MouseInv
  <2>2. Accepted(bit3)
    BY <2>1 DEF ps2MouseISR, MouseByte, Accepted
  <2> QED BY <2>2 DEF ps2MouseISR
<1> QED BY <1>1, DesktopInductive, PTL DEF SegmentsKept

-----------------------------------------------------------------------------

(***************************************************************************)
(* What the kernel sends by itself                                         *)
(***************************************************************************)

\* What a step of SC_GRAPHICS or of the mouse leaves alone.
LEMMA ScreenTable ==
    ASSUME IInv,
           \/ SC_GRAPHICS
           \/ \E bit3 \in BOOLEAN : ps2MouseISR(bit3)
           \/ NoSegment
    PROVE  /\ \A i \in Slots : /\ processes'[i].pid = processes[i].pid
                               /\ processes'[i].memStart = processes[i].memStart
                               /\ processes'[i].memSize = processes[i].memSize
                               /\ processes'[i].waiting = processes[i].waiting
           /\ UNCHANGED <<memList, memIndex, processCount, kbdVars, readVars, saveRegs, cpu>>
<1>1. MouMov \in Int /\ Requests \subseteq Int
  BY DesktopAssumption
<1>2. CASE TakeScreen \/ SetMode \/ GetPixel \/ NoSegment
  BY <1>2 DEF TakeScreen, SetMode, GetPixel, NoSegment, vars, memVars, tableVars, cpuVars
<1>3. ASSUME NEW body \in Int, Post(ownerPID, body) \/ processes' = processes
      PROVE  \A i \in Slots : /\ processes'[i].pid = processes[i].pid
                              /\ processes'[i].memStart = processes[i].memStart
                              /\ processes'[i].memSize = processes[i].memSize
                              /\ processes'[i].waiting = processes[i].waiting
  BY <1>3, PostKeeps
<1>4. ASSUME NEW body \in Requests, ForwardRequest(body)
      PROVE  /\ Post(ownerPID, body)
             /\ UNCHANGED <<memList, memIndex, processCount, kbdVars, readVars, saveRegs, cpu>>
  BY <1>4 DEF ForwardRequest, memVars, cpuVars
<1>5. ASSUME NEW bit3 \in BOOLEAN, ps2MouseISR(bit3)
      PROVE  /\ Post(ownerPID, MouMov) \/ processes' = processes
             /\ UNCHANGED <<memList, memIndex, processCount, kbdVars, readVars, saveRegs, cpu>>
  BY <1>5 DEF ps2MouseISR, memVars, cpuVars
<1> QED BY <1>1, <1>2, <1>3, <1>4, <1>5 DEF SC_GRAPHICS

LEMMA ScreenKeeps ==
    ASSUME KernelInv, Asked,
           \/ SC_GRAPHICS
           \/ \E bit3 \in BOOLEAN : ps2MouseISR(bit3)
           \/ NoSegment
    PROVE  KernelInv' /\ Asked' /\ KeepsPlaces
<1>1. IInv /\ IInv'
  BY ScreenIsCalm DEF KernelInv
<1>2. KeepsPlaces /\ KeepsWaiting /\ KeepsTable
  BY <1>1, ScreenTable, SlotsKeepPlaces, SlotsKeepWaiting DEF KeepsTable
<1>3. UNCHANGED <<kbdVars, readVars>>
  BY <1>1, ScreenTable
<1>4. InputInv' /\ Asked'
  BY <1>2, <1>3, KeptInput, AskedKept DEF KernelInv
<1>5. InRam'
  BY <1>1, <1>2, InRamKept DEF KernelInv
<1>6. SavesOutsideStub'
  BY <1>1, ScreenTable DEF KernelInv, SavesOutsideStub
<1> QED BY <1>1, <1>2, <1>4, <1>5, <1>6 DEF KernelInv

\* A slot holds a pid even where no process is left: the mouse's messages are
\* stamped with the pid of a slot that may be free.
SlotPids == \A i \in Slots : processes[i].pid \in PidRange

LEMMA SlotPidsInit == Init => SlotPids
<1> SUFFICES ASSUME Init PROVE SlotPids
  OBVIOUS
<1>1. PICK size0 \in ImageSizes, size1 \in ImageSizes,
           t0 \in BootTicks, t1 \in BootTicks, t2 \in BootTicks :
              BootState(size0, size1, t0, t1, t2)
  BY DEF Init
<1> DEFINE proc0 == Booted(size0, KernelSize, t0)
           start1 == KernelSize + proc0.memSize
           proc1 == Booted(size1, start1, t1 + 1)
<1>2. processes = [i \in Slots |-> IF i = 0 THEN proc0
                                   ELSE IF i = 1 THEN proc1 ELSE BlankEntry]
  BY <1>1 DEF BootState
<1>3. /\ size0 \in Nat /\ size1 \in Nat /\ StackSize \in Int /\ KernelSize \in Int
      /\ t0 \in Int /\ t0 >= 0 /\ t0 <= MaxTick /\ t1 \in Int /\ t1 >= 0 /\ t1 <= MaxTick
      /\ MaxTick \in Int /\ ProcSlots \in Int /\ ProcSlots > 0
  BY ProcessAssumption, MemoryAssumption, KernelAssumption
<1>4. proc0.pid = t0 /\ proc0.memSize = size0 + StackSize
  <2> HIDE DEF Booted
  <2> QED BY <1>3, BootedEntry
<1>5. start1 \in Int /\ t1 + 1 \in Int
  BY <1>3, <1>4
<1>6. proc1.pid = t1 + 1
  <2>1. size1 \in Nat /\ start1 \in Int /\ t1 + 1 \in Int
    BY <1>3, <1>5
  <2> HIDE DEF Booted, start1
  <2> QED BY <2>1, BootedEntry
<1>7. BlankEntry.pid = 0
  BY DEF BlankEntry
<1> HIDE DEF proc0, proc1
<1>8. proc0.pid \in PidRange /\ proc1.pid \in PidRange /\ BlankEntry.pid \in PidRange
  BY <1>3, <1>4, <1>6, <1>7 DEF PidRange
<1> QED BY <1>2, <1>8 DEF SlotPids

LEMMA SlotPidsStep ==
    ASSUME IInv, SlotPids, [Next]_vars
    PROVE  SlotPids'
<1>1. CASE StaysPut \/ Switches
  BY <1>1 DEF StaysPut, Switches, SamePids, SlotPids
<1>2. /\ processes \in [Slots -> ProcessEntry] /\ TypeOK
      /\ processCount \in Nat /\ processCount <= ProcSlots /\ ProcSlots \in Nat
      /\ tick \in Nat /\ MaxTick \in Nat
  BY Types, ProcessAssumption, KernelAssumption DEF IInv
<1>3. ASSUME NEW fileSize \in ImageSizes, SC_SPAWNPROC(fileSize)
      PROVE  SlotPids'
  <2>1. CASE processes' = processes
    BY <2>1 DEF SlotPids
  <2>2. CASE processes' # processes
    <3>1. /\ processes' = [processes EXCEPT ![processCount] =
                              NewEntry(@, fileSize, AllocAddr, NewPid)]
          /\ processCount < ProcSlots /\ tick < MaxTick
      BY <1>3, <2>2 DEF SC_SPAWNPROC, SpawnProcess
    <3>2. processCount \in Slots
      BY <1>2, <3>1 DEF Slots
    <3>3. processes'[processCount].pid = tick + processCount
      <4>1. processes[processCount] \in ProcessEntry
        BY <1>2, <3>2
      <4> QED BY <4>1, <3>1, <3>2, <1>2 DEF NewEntry, NewPid, ProcessEntry
    <3>4. tick + processCount \in PidRange
      BY <1>2, <3>1 DEF PidRange
    <3>5. \A i \in Slots : i # processCount => processes'[i] = processes[i]
      BY <1>2, <3>1
    <3> QED BY <3>3, <3>4, <3>5 DEF SlotPids
  <2> QED BY <2>1, <2>2
<1>4. CASE SC_EXIT
  <2> DEFINE idx == schedulerProcessAt
             last == processCount - 1
  <2>1. cpu.owner >= 0 /\ Kill(Current.pid)
    BY <1>4 DEF SC_EXIT, UserRuns
  <2>2. idx \in User /\ \A i \in User : i \in Nat /\ i > 0 /\ i \in Slots
    BY <2>1, <1>2, Types DEF IInv, RunningIsCurrent
  <2>3. Index(Current.pid) = idx /\ idx # -1
    BY <1>2, <2>2, OwnIndex DEF IInv, Current
  <2>4. processes' = Closed(idx)
    BY <2>1, <2>3 DEF Kill
  <2>5. ASSUME NEW i \in Slots
        PROVE  \E j \in Slots : processes'[i].pid = processes[j].pid
    <3>1. \A j \in Slots : [processes[j] EXCEPT !.memStart = @ - processes[idx].memSize].pid
                              = processes[j].pid
      BY <1>2 DEF ProcessEntry
    <3>2. idx <= i /\ i < last => i + 1 \in Slots
      BY <1>2 DEF Slots
    <3> QED BY <3>1, <3>2, <2>4 DEF Closed
  <2> QED BY <2>5 DEF SlotPids
<1> QED BY <1>1, <1>3, <1>4, TableSteps

\* What all the steps keep, as long as nobody's request is disturbed.
LEMMA DesktopMail ==
    ASSUME BuffersHold, RamHolds
    PROVE  DesktopSpec => [](KernelInv /\ Asked /\ SlotPids)
<1>1. DesktopInit => KernelInv /\ Asked /\ SlotPids
  <2> SUFFICES ASSUME DesktopInit PROVE KernelInv /\ Asked /\ SlotPids
    OBVIOUS
  <2>1. Init
    BY DEF DesktopInit
  <2>2. Asked /\ SavesOutsideStub
    BY <2>1 DEF Init, KbdInit, Asked, SavesOutsideStub
  <2> QED BY <2>1, <2>2, InitIInv, InitInput, InitInRam, SlotPidsInit DEF KernelInv
<1>2. KernelInv /\ Asked /\ SlotPids /\ [DesktopNext]_desktopVars
         => (KernelInv /\ Asked /\ SlotPids)'
  <2> SUFFICES ASSUME KernelInv, Asked, SlotPids, [DesktopNext]_desktopVars
               PROVE  KernelInv' /\ Asked' /\ SlotPids'
    OBVIOUS
  <2>1. CASE [Next]_vars
    BY <2>1, IInvStep, SavesStep, InputStep, InRamStep, AskedStep, SlotPidsStep DEF KernelInv
  <2>2. CASE \/ SC_GRAPHICS
             \/ \E bit3 \in BOOLEAN : ps2MouseISR(bit3)
             \/ NoSegment
    <3>1. SlotPids'
      BY <2>2, ScreenTable DEF KernelInv, SlotPids
    <3> QED BY <2>2, <3>1, ScreenKeeps
  <2> QED BY <2>1, <2>2, KernelsOwn
<1> QED BY <1>1, <1>2, PTL DEF DesktopSpec

\* The places of the desks and what lies there stay.
LEMMA DesksStay ==
    ASSUME IInv, IInv', KeepsPlaces, Pids' = Pids, ram' = ram
    PROVE  DeskOf' = DeskOf
<1>1. ASSUME NEW p \in Pids
      PROVE  DeskOf'[p] = DeskOf[p]
  <2>1. PICK i \in User : processes[i].pid = p
    BY DEF Pids
  <2>2. /\ i \in User' /\ processes'[i].pid = p
        /\ processes'[i].memStart = processes[i].memStart
    BY <2>1 DEF KeepsPlaces
  <2>3. DeskOf[p] = ram[processes[i].memStart + MsgOffset]
    BY <2>1, Boxes
  <2>4. DeskOf'[p] = ram'[processes'[i].memStart + MsgOffset]
    BY <2>2, BoxesNext
  <2> QED BY <2>2, <2>3, <2>4
<1> QED BY <1>1, SameDesks

\* What the kernel sends goes whole to the end of a box that has room, with the
\* pid in the slot of whoever runs.
LEMMA PostDelivers ==
    ASSUME IInv, IInv', KeepsPlaces, NEW pid, NEW body \in Int,
           CanSend(pid), SendMessageToProcess(pid, body), processCount' = processCount
    PROVE  /\ pid \in Pids /\ Pids' = Pids
           /\ Len(MailOf[pid]) < QueueSize
           /\ MailOf' = [MailOf EXCEPT ![pid] = Append(@, <<Stamped(body).fromPID, body>>)]
<1> DEFINE k == Index(pid)
           proc == processes[k]
           queue == [proc.IPCQueue EXCEPT ![proc.IPCQueueSize] = Stamped(body)]
<1>1. k \in User /\ proc.pid = pid /\ proc.IPCQueueSize < QueueSize
  BY IndexFound DEF CanSend, IInv
<1>2. /\ processes \in [Slots -> ProcessEntry] /\ k \in Slots
      /\ schedulerProcessAt \in Slots
      /\ \A i \in User : i \in Slots
  BY <1>1, Types DEF IInv
<1>3. /\ processes'[k].IPCQueue = queue
      /\ processes'[k].IPCQueueSize = proc.IPCQueueSize + 1
      /\ \A i \in User : i # k => processes'[i] = processes[i]
  BY <1>2 DEF SendMessageToProcess, ProcessEntry
<1>4. Pids' = Pids /\ MailOf' = [MailOf EXCEPT ![pid] = QueueOf(processes'[k])]
  BY <1>1, <1>3, OneBox
<1>5. Stamped(body) \in Message /\ Stamped(body).msg = body
  BY <1>2, Fields DEF IInv, Stamped, Message
<1>6. QueueOf(processes'[k]) = Append(QueueOf(proc), <<Stamped(body).fromPID, body>>)
  <2>1. processes'[k] \in ProcessEntry /\ proc \in ProcessEntry
    BY <1>2 DEF IInv, TypeOK, ProcTypeOK
  <2>2. QueueOf(processes'[k]) = Append(QueueOf(proc), <<Stamped(body).fromPID, Stamped(body).msg>>)
    <3> HIDE DEF k
    <3> QED BY <2>1, <1>1, <1>3, <1>5, QueueAppended
  <2> QED BY <2>2, <1>5
<1>7. MailOf[pid] = QueueOf(proc) /\ pid \in Pids
  BY <1>1, Boxes
<1>8. Len(MailOf[pid]) < QueueSize
  BY <1>1, <1>2, <1>7, QueueIsSeq
<1>9. MailOf' = [MailOf EXCEPT ![pid] = Append(@, <<Stamped(body).fromPID, body>>)]
  BY <1>4, <1>6, <1>7
<1> QED BY <1>4, <1>7, <1>8, <1>9

\* A drawing request reaches the owner's box under its author's name, or is lost whole.
LEMMA RequestIsForward ==
    ASSUME KernelInv, KernelInv', KeepsPlaces, NEW body \in Requests, ForwardRequest(body)
    PROVE  \/ \E to \in PB!Live : PB!Forward(to, body)
           \/ UNCHANGED <<MailOf, DeskOf, RunningOf>>
<1>1. IInv /\ IInv'
  BY DEF KernelInv
<1>2. UserRuns /\ Post(ownerPID, body) /\ ram' = ram /\ processCount' = processCount /\ cpu' = cpu
  BY DEF ForwardRequest, Draws, memVars, cpuVars
<1>3. RunningOf' = RunningOf /\ RunningOf \in Pids /\ Current.pid = RunningOf
  BY <1>1, <1>2, Runner DEF RunningOf
<1>4. Stamped(body).fromPID = RunningOf
  BY <1>3 DEF Stamped, Current
<1>5. body \in Int
  BY DesktopAssumption
<1>6. CASE CanSend(ownerPID)
  <2>1. SendMessageToProcess(ownerPID, body)
    BY <1>2, <1>6 DEF Post
  <2>2. /\ ownerPID \in Pids /\ Pids' = Pids
        /\ Len(MailOf[ownerPID]) < QueueSize
        /\ MailOf' = [MailOf EXCEPT ![ownerPID] = Append(@, <<RunningOf, body>>)]
    BY <2>1, <1>1, <1>2, <1>4, <1>5, <1>6, PostDelivers
  <2>3. DeskOf' = DeskOf
    BY <2>2, <1>1, <1>2, DesksStay
  <2>4. PB!Live = Pids
    BY DEF PB!Live, MailOf
  <2> QED BY <2>2, <2>3, <2>4, <1>3 DEF PB!Forward
<1>7. CASE ~CanSend(ownerPID)
  <2>1. processes' = processes
    BY <1>2, <1>7 DEF Post
  <2> QED BY <2>1, <1>2 DEF MailOf, DeskOf, RunningOf, Pids, User, Index, IndexesOf
<1> QED BY <1>6, <1>7

\* So does a mouse packet, under the name of anybody.
LEMMA MouseIsNotice ==
    ASSUME KernelInv, KernelInv', SlotPids, KeepsPlaces, NEW bit3 \in BOOLEAN, ps2MouseISR(bit3)
    PROVE  \/ \E to \in PB!Live : PB!Notify(to, MouMov)
           \/ UNCHANGED <<MailOf, DeskOf, RunningOf>>
<1>1. IInv /\ IInv'
  BY DEF KernelInv
<1>2. /\ Post(ownerPID, MouMov) \/ processes' = processes
      /\ ram' = ram /\ processCount' = processCount /\ cpu' = cpu
  BY DEF ps2MouseISR, memVars, cpuVars
<1>3. RunningOf' = RunningOf
  BY <1>2 DEF RunningOf
<1>4. Stamped(MouMov).fromPID \in PidRange
  BY <1>1, Types DEF Stamped, SlotPids, IInv
<1>5. MouMov \in Int
  BY DesktopAssumption
<1>6. CASE CanSend(ownerPID) /\ Post(ownerPID, MouMov)
  <2>1. SendMessageToProcess(ownerPID, MouMov)
    BY <1>6 DEF Post
  <2>2. /\ ownerPID \in Pids /\ Pids' = Pids
        /\ Len(MailOf[ownerPID]) < QueueSize
        /\ MailOf' = [MailOf EXCEPT ![ownerPID] = Append(@, <<Stamped(MouMov).fromPID, MouMov>>)]
    BY <2>1, <1>1, <1>2, <1>5, <1>6, PostDelivers
  <2>3. DeskOf' = DeskOf
    BY <2>2, <1>1, <1>2, DesksStay
  <2>4. PB!Live = Pids
    BY DEF PB!Live, MailOf
  <2> QED BY <2>2, <2>3, <2>4, <1>3, <1>4 DEF PB!Notify
<1>7. CASE processes' = processes
  BY <1>7, <1>2 DEF MailOf, DeskOf, RunningOf, Pids, User, Index, IndexesOf
<1> QED BY <1>2, <1>6, <1>7 DEF Post

\* A pixel read is stored on its reader's desk.
LEMMA PixelIsScribble ==
    ASSUME KernelInv, KernelInv', DesksHold, KeepsPlaces, GetPixel
    PROVE  PB!Scribble
<1>1. IInv /\ IInv'
  BY DEF KernelInv
<1>2. /\ UserRuns /\ MsgOffset \in Nat /\ MsgOffset < Current.memSize
      /\ ram' = Stored(Current.memStart + MsgOffset, <<Current.pid, -1>>)
      /\ processes' = processes /\ processCount' = processCount /\ cpu' = cpu
  BY KernelAssumption DEF GetPixel, Draws, tableVars, cpuVars
<1>3. Pids' = Pids /\ MailOf' = MailOf
  BY <1>1, <1>2, SameMail
<1>4. DeskOf' = [DeskOf EXCEPT ![RunningOf] = DeskOf'[RunningOf]]
  BY <1>2, <1>3, OwnDeskOnly
<1>5. RunningOf' = RunningOf /\ RunningOf \in Pids
  BY <1>1, <1>2, Runner DEF RunningOf
<1>6. PB!Live = Pids
  BY DEF PB!Live, MailOf
<1> QED BY <1>3, <1>4, <1>5, <1>6 DEF PB!Scribble

\* The mailboxes of the kernel alone are those of the kernel with its screen.
LEMMA MailIsMail == (MB!Init => PB!Init) /\ (MB!Next => PB!Next)
BY DEF MB!Init, MB!Next, MB!Live, MB!Switch, MB!Send, MB!Forward, MB!Notify, MB!Read, MB!Scribble,
       MB!Arrive, MB!Leave, MB!With, MB!Without,
       PB!Init, PB!Next, PB!Live, PB!Switch, PB!Send, PB!Forward, PB!Notify, PB!Read, PB!Scribble,
       PB!Arrive, PB!Leave, PB!With, PB!Without

LEMMA DesktopMailStep ==
    ASSUME DesksHold, BuffersApart, KernelInv, KernelInv', Asked, SlotPids, ~disturbed,
           [DesktopNext]_desktopVars
    PROVE  PB!Next \/ UNCHANGED <<MailOf, DeskOf, RunningOf>>
<1>1. CASE [Next]_vars
  BY <1>1, MailStep, MailIsMail
<1>2. CASE TakeScreen \/ SetMode \/ NoSegment
  <2>1. UNCHANGED <<processes, processCount, ram, cpu>>
    BY <1>2 DEF TakeScreen, SetMode, NoSegment, vars, memVars, tableVars, cpuVars
  <2> QED BY <2>1 DEF MailOf, DeskOf, RunningOf, Pids, User, Index, IndexesOf
<1>3. ASSUME SC_GRAPHICS \/ \E bit3 \in BOOLEAN : ps2MouseISR(bit3)
      PROVE  KeepsPlaces
  BY <1>3, ScreenKeeps
<1>4. ASSUME NEW body \in Requests, ForwardRequest(body)
      PROVE  PB!Next \/ UNCHANGED <<MailOf, DeskOf, RunningOf>>
  BY <1>3, <1>4, RequestIsForward DEF SC_GRAPHICS, PB!Next
<1>5. ASSUME NEW bit3 \in BOOLEAN, ps2MouseISR(bit3)
      PROVE  PB!Next \/ UNCHANGED <<MailOf, DeskOf, RunningOf>>
  BY <1>3, <1>5, MouseIsNotice DEF PB!Next
<1>6. CASE GetPixel
  BY <1>3, <1>6, PixelIsScribble DEF SC_GRAPHICS, PB!Next
<1> QED BY <1>1, <1>2, <1>4, <1>5, <1>6, KernelsOwn DEF SC_GRAPHICS

\* The kernel with its screen and its mouse implements the mailboxes: what it sends
\* by itself is delivered like the messages of programs, or lost whole.
THEOREM DesktopDelivers ==
    ASSUME BuffersHold, RamHolds, DesksHold, BuffersApart
    PROVE  DesktopSpec /\ []~disturbed => DeliversRequests
<1>1. DesktopInit => PB!Init
  BY MailInit, MailIsMail DEF DesktopInit
<1>2. ASSUME KernelInv, Asked, SlotPids, KernelInv', ~disturbed, [DesktopNext]_desktopVars
      PROVE  [PB!Next]_<<MailOf, DeskOf, RunningOf>>
  BY <1>2, DesktopMailStep
<1> QED BY <1>1, <1>2, DesktopMail, PTL DEF DesktopSpec, DeliversRequests, PB!Spec, PB!mbVars

\* Where no program reads input, nothing is disturbed.
THEOREM DesktopWithoutInput ==
    ASSUME RamHolds, DesksHold, Buffers = {}
    PROVE  DesktopSpec => DeliversRequests
<1>1. BuffersHold /\ BuffersApart
  BY DEF BuffersHold, BuffersApart
<1>2. DesktopInit => ~processWaitingForInput /\ ~disturbed
  BY DEF DesktopInit, Init, KbdInit
<1>3. IInv /\ ~processWaitingForInput /\ ~disturbed /\ [DesktopNext]_desktopVars
         => (~processWaitingForInput /\ ~disturbed)'
  BY KernelsOwn, ScreenTable, QuietStep DEF kbdVars, readVars
<1>4. DesktopSpec => []~disturbed
  BY <1>2, <1>3, DesktopInductive, PTL DEF DesktopSpec, DesktopInv
<1> QED BY <1>1, <1>4, DesktopDelivers, PTL

=============================================================================
