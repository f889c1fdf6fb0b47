---------------------------- MODULE ProcInfoProofs ----------------------------
(***************************************************************************)
(* Proofs about procinfo's walk over the process table (module ProcInfo),  *)
(* for every size of the table and every number of exits and spawns        *)
(* between its calls: no process is listed twice, and each process missed  *)
(* and each line of garbage is paid for by an exit.                        *)
(***************************************************************************)
EXTENDS ProcInfo, PreservationProofs, SequenceTheorems, FiniteSetTheorems

-----------------------------------------------------------------------------

(***************************************************************************)
(* The inductive invariant                                                 *)
(***************************************************************************)

\* x is a pid given already: no process to come can have it, nor a lower one.
Given(x) ==
    /\ x \in Int
    /\ tick < MaxTick => \/ x < tick + processCount
                         \/ cpu.owner = WaitStub /\ x = tick + processCount

\* Where the walk is: each index up to this one has its line.
WalkTypes ==
    /\ lister \in Int /\ count \in Nat /\ index \in Nat /\ exits \in Nat
    /\ asked \in Int
    /\ listed \in Seq(Int)
    /\ IF lister = 0
       THEN /\ count = 0 /\ index = 0 /\ asked = 0 /\ exits = 0
            /\ listed = <<>> /\ atStart = {}
       ELSE /\ index \in 1 .. count
            /\ Len(listed) = index - 1
            /\ asked # 0 => index < count

\* A pid in hand, not an error.
InHand == asked # 0 /\ asked # Error

\* What is listed is below what the walk has still to come to, and what is in
\* hand lies in between.
Ordered ==
    /\ ListingAscends
    /\ \A k \in DOMAIN listed \ GarbageLines :
          /\ Given(listed[k])
          /\ \A i \in User : i >= index => listed[k] < processes[i].pid
          /\ InHand => listed[k] < asked
    /\ InHand => /\ Given(asked)
                 /\ \A i \in User : i > index => asked < processes[i].pid

\* Lines of garbage at indexes that were in use all along.
EarlyGarbage == {k \in GarbageLines : k < count - exits}

\* The next line will be one.
LostInHand == asked # 0 /\ asked \notin Pids /\ index < count - exits

GarbagePaid ==
    /\ lister # 0 => processCount >= count - exits
    /\ Cardinality(EarlyGarbage) + (IF LostInHand THEN 1 ELSE 0) <= exits

\* Survivors the walk has passed without listing them.
Missed ==
    {s \in Survivors :
        /\ s \notin Shown /\ s # asked
        /\ \E i \in User : /\ processes[i].pid = s
                           /\ i < index \/ (i = index /\ asked # 0)}

MissesPaid ==
    /\ \A s \in atStart : Given(s)
    /\ \A i \in User : processes[i].pid \in atStart => i < count
    /\ IsFiniteSet(Missed) /\ Cardinality(Missed) <= exits

-----------------------------------------------------------------------------

(***************************************************************************)
(* How the table ages                                                      *)
(***************************************************************************)

\* A step closes the table, leaves every process where it is, or adds one with a
\* pid that is the highest ever.
LEMMA TableSteps ==
    ASSUME IInv, [Next]_vars
    PROVE  \/ SC_EXIT
           \/ /\ KeepsPlaces /\ processCount' = processCount
              /\ tick' = Ticked \/ (tick' = tick /\ cpu'.owner = cpu.owner)
           \/ /\ KeepsPlaces /\ processCount' = processCount + 1
              /\ tick' = tick /\ tick < MaxTick
              /\ cpu.owner # WaitStub
              /\ processes'[processCount].pid = tick + processCount
<1> DEFINE Stays == /\ KeepsPlaces /\ processCount' = processCount
                    /\ tick' = Ticked \/ (tick' = tick /\ cpu'.owner = cpu.owner)
           Adds == /\ KeepsPlaces /\ processCount' = processCount + 1
                   /\ tick' = tick /\ tick < MaxTick
                   /\ cpu.owner # WaitStub
                   /\ processes'[processCount].pid = tick + processCount
<1> SUFFICES ASSUME ~SC_EXIT PROVE Stays \/ Adds
  OBVIOUS
<1>1. KeepsPlaces
  BY OnlyExitsMove
<1>2. /\ processes \in [Slots -> ProcessEntry] /\ ~processes[1].waiting
      /\ processCount \in Nat /\ ProcSlots \in Nat /\ tick \in Nat
  BY Types, ProcessAssumption DEF IInv, InitReady
<1>3. CASE PITISR
  <2>1. SwitchFrom(processes) /\ processCount' = processCount
    BY <1>3 DEF PITISR
  <2>2. tick' = Ticked
    BY <2>1, <1>2, SwitchKeepsEntries
  <2> QED BY <2>1, <2>2, <1>1
<1>4. ASSUME NEW offset, NEW size, SC_GETUINPUT(offset, size)
      PROVE  Stays
  <2> DEFINE procs == [processes EXCEPT ![schedulerProcessAt].waiting = TRUE]
  <2>1. procs \in [Slots -> ProcessEntry] /\ ~procs[1].waiting /\ SwitchFrom(procs)
    BY <1>4, RequestTable
  <2>2. processCount' = processCount
    BY <1>4 DEF SC_GETUINPUT
  <2>3. tick' = Ticked
    <3> HIDE DEF procs
    <3> QED BY <2>1, SwitchKeepsEntries
  <2> QED BY <2>2, <2>3, <1>1
<1>5. ASSUME NEW fileSize \in ImageSizes, SC_SPAWNPROC(fileSize)
      PROVE  Stays \/ Adds
  <2>1. /\ cpu.owner >= 0 /\ processCount < ProcSlots /\ tick < MaxTick
        /\ tick' = tick /\ cpu' = cpu
    BY <1>5 DEF SC_SPAWNPROC, UserRuns, cpuVars
  <2>2. CASE AllocFault(fileSize + StackSize) # "no"
    BY <2>1, <2>2, <1>1, <1>5 DEF SC_SPAWNPROC
  <2>3. CASE AllocFault(fileSize + StackSize) = "no"
    <3>1. /\ processCount' = processCount + 1
          /\ processes' = [processes EXCEPT ![processCount] =
                              NewEntry(@, fileSize, AllocAddr, NewPid)]
      BY <2>3, <1>5 DEF SC_SPAWNPROC, SpawnProcess
    <3>2. processCount \in Slots /\ processes[processCount] \in ProcessEntry
      BY <2>1, <1>2 DEF Slots
    <3>3. processes'[processCount].pid = NewPid
      BY <3>1, <3>2, <1>2 DEF NewEntry, ProcessEntry
    <3> QED BY <3>1, <3>3, <2>1, <1>1 DEF NewPid, WaitStub
  <2> QED BY <2>2, <2>3
<1>6. ASSUME Calm
      PROVE  Stays
  BY <1>1, <1>6 DEF Calm, KeepsTable
<1>7. CASE UNCHANGED vars
  BY <1>1, <1>7 DEF vars, tableVars, cpuVars
<1> HIDE DEF Stays, Adds
<1> QED BY <1>3, <1>4, <1>5, <1>6, <1>7, CalmSteps DEF Next, SystemCall, Program

\* What has been given stays given.
LEMMA GivenStep ==
    ASSUME IInv, [Next]_vars, NEW x, Given(x)
    PROVE  Given(x)'
<1>1. tick \in Nat /\ processCount \in Nat /\ cpu.owner \in Int /\ MaxTick \in Nat
  BY Types, KernelAssumption DEF IInv, Context
<1>2. CASE SC_EXIT
  <2>1. /\ processCount' = processCount - 1 /\ cpu'.owner = WaitStub
        /\ tick' = tick /\ cpu.owner >= 0
    BY <1>2, ExitMoves DEF SC_EXIT, UserRuns
  <2> QED BY <2>1, <1>1 DEF Given, WaitStub
<1>3. CASE processCount' = processCount /\ (tick' = Ticked \/ (tick' = tick /\ cpu'.owner = cpu.owner))
  BY <1>1, <1>3 DEF Given, Ticked
<1>4. CASE processCount' = processCount + 1 /\ tick' = tick /\ tick < MaxTick /\ cpu.owner # WaitStub
  BY <1>1, <1>4 DEF Given
<1> QED BY <1>2, <1>3, <1>4, TableSteps

\* Those in the table have been given their pids.
LEMMA TableGiven ==
    ASSUME IInv, NEW i \in User
    PROVE  Given(processes[i].pid) /\ processes[i].pid > Error
<1>1. i \in 0 .. processCount - 1 /\ i \in Slots
  BY Types DEF IInv
<1>2. processes[i].pid \in Int
  BY <1>1, Fields DEF IInv
<1>3. processes[i].pid > Error
  BY <1>1, <1>2, ProcessAssumption DEF IInv, PidsHigh, Error
<1> QED BY <1>1, <1>2, <1>3 DEF Given, IInv, PidsPast

\* A slot is taken over from the same place or one further up, or by a process
\* younger than all there have been.
LEMMA TableAges ==
    ASSUME IInv, [Next]_vars, NEW i \in User'
    PROVE  \/ \E j \in User : j >= i /\ processes[j].pid = processes'[i].pid
           \/ \A x : Given(x) => x < processes'[i].pid
<1>1. /\ processCount \in Nat /\ tick \in Nat
      /\ processes \in [Slots -> ProcessEntry]
      /\ \A k \in User : k \in Nat /\ k \in Slots
  BY Types DEF IInv
<1>2. CASE SC_EXIT
  <2>1. i \in User
    BY <1>2, ExitMoves
  <2>2. CASE i < schedulerProcessAt
    <3>1. processes'[i] = processes[i]
      BY <1>2, <2>2, ExitMoves
    <3> QED BY <3>1, <2>1, <1>1
  <2>3. CASE i >= schedulerProcessAt
    <3>1. /\ i + 1 \in User
          /\ processes'[i] = [processes[i + 1] EXCEPT !.memStart = @ - Current.memSize]
      BY <1>2, <2>3, ExitMoves
    <3>2. processes'[i].pid = processes[i + 1].pid
      BY <3>1, <1>1 DEF ProcessEntry
    <3>3. i + 1 >= i
      BY <2>1, <1>1
    <3> QED BY <3>1, <3>2, <3>3
  <2>4. schedulerProcessAt \in User
    BY <1>2, ExitMoves
  <2>5. i < schedulerProcessAt \/ i >= schedulerProcessAt
    BY <2>1, <2>4, <1>1
  <2> QED BY <2>2, <2>3, <2>5
<1>3. CASE KeepsPlaces /\ i \in User
  <2>1. processes'[i].pid = processes[i].pid
    BY <1>3 DEF KeepsPlaces
  <2> QED BY <2>1, <1>1, <1>3
<1>4. CASE i \notin User /\ ~SC_EXIT
  <2>1. /\ processCount' = processCount + 1 /\ tick < MaxTick /\ cpu.owner # WaitStub
        /\ processes'[processCount].pid = tick + processCount
    <3>1. processCount' # processCount
      BY <1>4 DEF User
    <3> QED BY <3>1, <1>4, TableSteps
  <2>2. i = processCount
    BY <2>1, <1>1, <1>4 DEF User
  <2> QED BY <2>1, <2>2 DEF Given
<1> QED BY <1>2, <1>3, <1>4, OnlyExitsMove

-----------------------------------------------------------------------------

(***************************************************************************)
(* The walk                                                                *)
(***************************************************************************)

\* The steps of the walk: one of the kernel, or one of its three calls.
LEMMA WalkSteps ==
    ASSUME [ListingNext]_listingVars
    PROVE  \/ /\ [Next]_vars
              /\ UNCHANGED <<lister, count, index, asked, listed, atStart>>
              /\ exits' = IF lister # 0 /\ SC_EXIT THEN exits + 1 ELSE exits
           \/ UNCHANGED listingVars
           \/ GetProcCount
           \/ GetProcPIDFromIdx
           \/ GetProcInfo
BY DEF ListingNext, Others

\* A line is added.
LEMMA LineAdded ==
    ASSUME WalkTypes, GetProcInfo
    PROVE  /\ lister # 0 /\ asked # 0 /\ index < count /\ index \in Nat
           /\ index' = index + 1 /\ asked' = 0
           /\ UNCHANGED <<vars, lister, count, atStart, exits>>
           /\ DOMAIN listed = 1 .. index - 1 /\ DOMAIN listed' = 1 .. index
           /\ \A k \in 1 .. index - 1 : listed'[k] = listed[k]
           /\ listed'[index] = ProcInfoOf(asked)
           /\ ProcInfoOf(asked) \in Int => listed' \in Seq(Int)
<1>1. /\ asked # 0 /\ listed' = Append(listed, ProcInfoOf(asked)) /\ asked' = 0
      /\ index' = index + 1
      /\ UNCHANGED <<vars, lister, count, atStart, exits>>
  BY DEF GetProcInfo
<1>2. /\ lister # 0 /\ index \in 1 .. count /\ index < count /\ count \in Nat
      /\ listed \in Seq(Int) /\ Len(listed) = index - 1
  BY <1>1 DEF WalkTypes
<1> DEFINE line == ProcInfoOf(asked)
           S == Int \cup {line}
<1> HIDE DEF line
<1>3. listed \in Seq(S) /\ line \in S
  <2>1. \A k \in 1 .. Len(listed) : listed[k] \in S
    BY <1>2
  <2> QED BY <2>1, <1>2, SeqDef, LenProperties
<1>4. listed' = Append(listed, line)
  BY <1>1 DEF line
<1>5. /\ listed' \in Seq(S) /\ Len(listed') = index
      /\ \A k \in 1 .. index - 1 : listed'[k] = listed[k]
      /\ listed'[index] = line
  <2>1. Len(listed) + 1 = index
    BY <1>2
  <2> QED BY <2>1, <1>2, <1>3, <1>4, AppendProperties
<1>6. DOMAIN listed = 1 .. index - 1 /\ DOMAIN listed' = 1 .. index
  BY <1>2, <1>5, LenProperties
<1>7. line \in Int => S = Int
  OBVIOUS
<1> QED BY <1>1, <1>2, <1>5, <1>6, <1>7 DEF line

\* What procinfo prints: the pid it asked about, or garbage.
LEMMA LinePrinted ==
    ASSUME IInv, NEW x
    PROVE  /\ x \in Pids => ProcInfoOf(x) = x /\ x # Garbage /\ x \in Int
           /\ x \notin Pids => ProcInfoOf(x) = Garbage
<1>1. TypeOK
  BY DEF IInv
<1>2. ASSUME x \in Pids
      PROVE  ProcInfoOf(x) = x /\ x # Garbage /\ x \in Int
  <2>1. PICK i \in User : processes[i].pid = x
    BY <1>2 DEF Pids
  <2>2. Index(x) = i /\ i # -1
    <3>1. i \in Nat
      BY <1>1, Types
    <3> QED BY <2>1, <3>1, IndexOfPid
  <2>3. x > Error /\ x \in Int
    BY <2>1, TableGiven DEF Given
  <2> QED BY <2>1, <2>2, <2>3 DEF ProcInfoOf, Garbage, Error
<1>3. ASSUME x \notin Pids
      PROVE  ProcInfoOf(x) = Garbage
  <2>1. Index(x) = -1
    <3> SUFFICES ASSUME Index(x) # -1 PROVE FALSE
      OBVIOUS
    <3>1. Index(x) \in User /\ processes[Index(x)].pid = x
      BY <1>1, IndexFound
    <3> QED BY <3>1, <1>3 DEF Pids
  <2> QED BY <2>1 DEF ProcInfoOf
<1> QED BY <1>2, <1>3

LEMMA WalkTypesStep ==
    ASSUME IInv, WalkTypes, [ListingNext]_listingVars
    PROVE  WalkTypes'
<1>1. ASSUME UNCHANGED <<lister, count, index, asked, listed, atStart>>,
             exits' = IF lister # 0 /\ SC_EXIT THEN exits + 1 ELSE exits
      PROVE  WalkTypes'
  BY <1>1 DEF WalkTypes
<1>2. CASE UNCHANGED listingVars
  BY <1>2 DEF WalkTypes, listingVars, listVars
<1>3. CASE GetProcCount
  <2>1. /\ UserRuns /\ lister = 0 /\ lister' = Current.pid /\ count' = processCount
        /\ index' = 1 /\ UNCHANGED <<asked, listed, exits>>
    BY <1>3 DEF GetProcCount, ProcCount
  <2>2. schedulerProcessAt \in User
    BY <2>1 DEF UserRuns, IInv, RunningIsCurrent
  <2>3. Current.pid \in Int /\ Current.pid > Error
    BY <2>2, TableGiven DEF Current, Given
  <2>4. processCount \in Nat /\ processCount >= 2
    BY Types DEF IInv, InitReady
  <2>5. listed = <<>> /\ asked = 0 /\ exits = 0
    BY <2>1 DEF WalkTypes
  <2>6. Len(listed') = 1 - 1 /\ listed' \in Seq(Int)
    BY <2>1, <2>5
  <2> QED BY <2>1, <2>3, <2>4, <2>5, <2>6 DEF WalkTypes, Error
<1>4. CASE GetProcPIDFromIdx
  <2>1. /\ index < count /\ asked' = PIDFromIdx(index)
        /\ UNCHANGED <<lister, count, index, listed, atStart, exits>>
    BY <1>4 DEF GetProcPIDFromIdx, Finished, WalkTypes
  <2>2. index \in Nat /\ lister # 0
    BY <2>1 DEF WalkTypes
  <2>3. asked' \in Int
    <3>1. CASE index >= processCount
      BY <2>1, <3>1 DEF PIDFromIdx, Error
    <3>2. CASE ~(index >= processCount)
      <4>1. index \in 0 .. processCount - 1
        BY <2>2, <3>2, Types DEF IInv
      <4>2. processes[index].pid \in Int
        BY <4>1, Types, Fields DEF IInv
      <4> QED BY <2>1, <3>2, <4>2 DEF PIDFromIdx
    <3> QED BY <3>1, <3>2
  <2> QED BY <2>1, <2>2, <2>3 DEF WalkTypes
<1>5. CASE GetProcInfo
  <2>1. ProcInfoOf(asked) \in Int
    BY LinePrinted DEF Garbage
  <2>2. /\ lister # 0 /\ index < count /\ index \in Nat
        /\ index' = index + 1 /\ asked' = 0
        /\ UNCHANGED <<lister, count, atStart, exits>>
        /\ DOMAIN listed' = 1 .. index /\ listed' \in Seq(Int)
    BY <1>5, <2>1, LineAdded
  <2>3. Len(listed') = index
    BY <2>2, LenProperties
  <2>4. count \in Nat /\ lister \in Int /\ exits \in Nat
    BY DEF WalkTypes
  <2> QED BY <2>2, <2>3, <2>4 DEF WalkTypes
<1> QED BY <1>1, <1>2, <1>3, <1>4, <1>5, WalkSteps

-----------------------------------------------------------------------------

(***************************************************************************)
(* The order of the lines                                                  *)
(***************************************************************************)

\* Whatever the kernel does, the walk has nothing below its lines ahead of it.
LEMMA OrderedKept ==
    ASSUME IInv, WalkTypes, Ordered, [Next]_vars, UNCHANGED <<index, asked, listed>>
    PROVE  Ordered'
<1>1. /\ index \in Nat
      /\ \A i \in User : i \in Nat /\ processes[i].pid \in Int
  <2>1. \A i \in User : processes[i].pid \in Int
    BY TableGiven DEF Given
  <2> QED BY <2>1, Types DEF IInv, WalkTypes
<1>2. \A i \in User' : i \in Nat
  <2>1. IInv'
    BY IInvStep
  <2>2. ProcTypeOK'
    BY <2>1 DEF IInv, TypeOK
  <2>3. processCount' \in Nat
    BY <2>2, ProcessAssumption DEF ProcTypeOK
  <2> QED BY <2>3 DEF User
<1>3. ASSUME NEW x, Given(x), NEW n \in Nat, \A i \in User : i >= n => x < processes[i].pid,
             NEW i \in User', i >= n
      PROVE  x < processes'[i].pid
  <2>1. CASE \E j \in User : j >= i /\ processes[j].pid = processes'[i].pid
    <3>1. PICK j \in User : j >= i /\ processes[j].pid = processes'[i].pid
      BY <2>1
    <3>2. j >= n
      BY <3>1, <1>1, <1>2, <1>3
    <3> QED BY <3>1, <3>2, <1>3
  <2>2. CASE \A y : Given(y) => y < processes'[i].pid
    BY <2>2, <1>3
  <2> QED BY <2>1, <2>2, TableAges
<1>4. ListingAscends'
  BY DEF Ordered, ListingAscends, GarbageLines
<1>5. ASSUME NEW k \in DOMAIN listed \ GarbageLines
      PROVE  /\ Given(listed[k])'
             /\ \A i \in User' : i >= index => listed[k] < processes'[i].pid
             /\ InHand => listed[k] < asked
  <2>1. /\ Given(listed[k])
        /\ \A i \in User : i >= index => listed[k] < processes[i].pid
        /\ InHand => listed[k] < asked
    BY <1>5 DEF Ordered
  <2>2. \A i \in User' : i >= index => listed[k] < processes'[i].pid
    BY <2>1, <1>1, <1>3
  <2>3. ASSUME NEW x, x = listed[k]
        PROVE  Given(x)'
    BY <2>1, <2>3, GivenStep
  <2>4. Given(listed[k])'
    BY <2>3 DEF Given
  <2> QED BY <2>1, <2>2, <2>4
<1>6. ASSUME InHand
      PROVE  Given(asked)' /\ \A i \in User' : i > index => asked < processes'[i].pid
  <2>1. Given(asked) /\ \A i \in User : i > index => asked < processes[i].pid
    BY <1>6 DEF Ordered
  <2>2. \A i \in User : i >= index + 1 => asked < processes[i].pid
    BY <2>1, <1>1
  <2>3. \A i \in User' : i >= index + 1 => asked < processes'[i].pid
    BY <2>1, <2>2, <1>1, <1>3
  <2>4. \A i \in User' : i > index => asked < processes'[i].pid
    BY <2>3, <1>1, <1>2
  <2>5. ASSUME NEW x, x = asked
        PROVE  Given(x)'
    BY <2>1, <2>5, GivenStep
  <2>6. Given(asked)'
    BY <2>5 DEF Given
  <2> QED BY <2>4, <2>6
<1>7. /\ InHand' = InHand
      /\ (DOMAIN listed \ GarbageLines)' = DOMAIN listed \ GarbageLines
  BY DEF InHand, GarbageLines
<1> QED BY <1>4, <1>5, <1>6, <1>7 DEF Ordered

\* The pid at an index is above all lines, and below those at higher indexes.
LEMMA AskOrdered ==
    ASSUME IInv, WalkTypes, Ordered, GetProcPIDFromIdx
    PROVE  Ordered'
<1>1. /\ asked' = PIDFromIdx(index) /\ index \in Nat /\ index >= 1
      /\ UNCHANGED <<vars, index, listed>>
  BY DEF GetProcPIDFromIdx, WalkTypes, Finished
<1>2. /\ processes' = processes /\ processCount' = processCount
      /\ tick' = tick /\ cpu' = cpu
  BY <1>1 DEF vars, tableVars, cpuVars
<1>3. ASSUME InHand'
      PROVE  /\ index \in User /\ asked' = processes[index].pid
             /\ Given(asked')
             /\ \A i \in User : i > index => asked' < processes[i].pid
  <2>1. asked' # Error
    BY <1>3 DEF InHand
  <2>2. ~(index >= processCount) /\ asked' = processes[index].pid
    BY <2>1, <1>1 DEF PIDFromIdx
  <2>3. processCount \in Nat /\ \A i \in User : i \in 0 .. processCount - 1
    BY Types DEF IInv
  <2>4. index \in User
    BY <2>2, <2>3, <1>1 DEF User
  <2>5. Given(processes[index].pid)
    BY <2>4, TableGiven
  <2> QED BY <2>2, <2>3, <2>4, <2>5 DEF IInv, PidsAscend
<1>4. ASSUME NEW k \in DOMAIN listed \ GarbageLines
      PROVE  /\ Given(listed[k])
             /\ \A i \in User : i >= index => listed[k] < processes[i].pid
             /\ InHand' => listed[k] < asked'
  BY <1>1, <1>3, <1>4 DEF Ordered
<1>5. ListingAscends'
  BY <1>1 DEF Ordered, ListingAscends, GarbageLines
<1>6. User' = User /\ (DOMAIN listed \ GarbageLines)' = DOMAIN listed \ GarbageLines
  BY <1>1, <1>2 DEF User, GarbageLines
<1> HIDE DEF InHand
<1> QED BY <1>1, <1>2, <1>3, <1>4, <1>5, <1>6 DEF Ordered, Given

\* The line printed is above the lines before it.
LEMMA PrintOrdered ==
    ASSUME IInv, WalkTypes, Ordered, GetProcInfo
    PROVE  Ordered'
<1>1. /\ asked # 0 /\ index \in Nat
      /\ index' = index + 1 /\ asked' = 0
      /\ UNCHANGED vars
      /\ DOMAIN listed = 1 .. index - 1 /\ DOMAIN listed' = 1 .. index
      /\ \A k \in 1 .. index - 1 : listed'[k] = listed[k]
      /\ listed'[index] = ProcInfoOf(asked)
  BY LineAdded
<1>2. /\ processes' = processes /\ processCount' = processCount
      /\ tick' = tick /\ cpu' = cpu /\ User' = User
  BY <1>1 DEF vars, tableVars, cpuVars, User
<1>3. ~InHand'
  BY <1>1 DEF InHand
<1>4. \A i \in User : i \in Nat
  BY Types DEF IInv
<1>5. ASSUME NEW k \in 1 .. index - 1, listed[k] # Garbage
      PROVE  /\ k \in DOMAIN listed \ GarbageLines
             /\ Given(listed[k])
             /\ \A i \in User : i >= index + 1 => listed[k] < processes[i].pid
             /\ InHand => listed[k] < asked
  <2>1. k \in DOMAIN listed \ GarbageLines
    BY <1>1, <1>5 DEF GarbageLines
  <2>2. \A i \in User : i >= index => listed[k] < processes[i].pid
    BY <2>1 DEF Ordered
  <2>3. \A i \in User : i >= index + 1 => i >= index
    BY <1>1, <1>4
  <2> QED BY <2>1, <2>2, <2>3 DEF Ordered
<1>6. ASSUME listed'[index] # Garbage
      PROVE  /\ InHand /\ listed'[index] = asked /\ Given(asked)
             /\ \A i \in User : i >= index + 1 => asked < processes[i].pid
  <2>1. asked \in Pids /\ listed'[index] = asked
    BY <1>1, <1>6, LinePrinted
  <2>2. InHand
    BY <2>1, <1>1, TableGiven DEF Pids, InHand, Error
  <2>3. \A i \in User : i >= index + 1 => i > index
    BY <1>1, <1>4
  <2> QED BY <2>1, <2>2, <2>3 DEF Ordered
<1>7. (DOMAIN listed \ GarbageLines)' =
         {k \in 1 .. index - 1 : listed[k] # Garbage} \cup
         (IF listed'[index] # Garbage THEN {index} ELSE {})
  <2>1. \A k \in 1 .. index : k \in 1 .. index - 1 \/ k = index
    BY <1>1
  <2>2. index \in 1 .. index /\ \A k \in 1 .. index - 1 : k \in 1 .. index
    <3>1. index >= 1
      BY LineAdded DEF WalkTypes
    <3> QED BY <3>1, <1>1
  <2> QED BY <2>1, <2>2, <1>1 DEF GarbageLines
<1>8. ListingAscends'
  <2> SUFFICES ASSUME NEW j \in (DOMAIN listed \ GarbageLines)',
                      NEW k \in (DOMAIN listed \ GarbageLines)', j < k
               PROVE  listed'[j] < listed'[k]
    BY DEF ListingAscends
  <2>1. CASE j \in 1 .. index - 1 /\ k \in 1 .. index - 1
    <3>1. j \in DOMAIN listed \ GarbageLines /\ k \in DOMAIN listed \ GarbageLines
      BY <2>1, <1>1, <1>5, <1>7
    <3>2. listed[j] < listed[k]
      BY <3>1 DEF Ordered, ListingAscends
    <3> QED BY <3>2, <2>1, <1>1
  <2>2. CASE j \in 1 .. index - 1 /\ k = index /\ listed'[index] # Garbage
    <3>1. listed[j] # Garbage
      BY <2>2, <1>1, <1>7
    <3> QED BY <3>1, <2>2, <1>1, <1>5, <1>6
  <2>3. ~(j = index /\ (k = index \/ k \in 1 .. index - 1))
    BY <1>1
  <2> QED BY <2>1, <2>2, <2>3, <1>7
<1>9. ASSUME NEW k \in (DOMAIN listed \ GarbageLines)'
      PROVE  /\ Given(listed'[k])
             /\ \A i \in User : i >= index' => listed'[k] < processes[i].pid
  <2>1. CASE k \in 1 .. index - 1 /\ listed[k] # Garbage
    BY <2>1, <1>1, <1>5
  <2>2. CASE k = index /\ listed'[index] # Garbage
    BY <2>2, <1>1, <1>6
  <2> QED BY <2>1, <2>2, <1>7
<1> HIDE DEF InHand
<1> QED BY <1>1, <1>2, <1>3, <1>8, <1>9 DEF Ordered, Given

LEMMA OrderedStep ==
    ASSUME IInv, WalkTypes, Ordered, [ListingNext]_listingVars
    PROVE  Ordered'
<1>1. CASE UNCHANGED listingVars
  <2>1. UNCHANGED <<vars, index, asked, listed>>
    BY <1>1 DEF listingVars, listVars
  <2> QED BY <2>1, OrderedKept
<1>2. CASE GetProcCount
  <2>1. listed = <<>> /\ asked = 0 /\ listed' = listed /\ asked' = asked
    BY <1>2 DEF GetProcCount, WalkTypes
  <2>2. DOMAIN listed' = {}
    BY <2>1
  <2> QED BY <2>1, <2>2 DEF Ordered, ListingAscends, GarbageLines, InHand
<1> QED BY <1>1, <1>2, OrderedKept, AskOrdered, PrintOrdered, WalkSteps

\* Who is listed, is listed once and in the order of age, however the table moves
\* under the walk: what lies ahead of it is always younger than what it has
\* printed, because slots only move down and pids only go up.
THEOREM ListsAscending == ListingSpec => []ListingAscends
<1> DEFINE Inv == IInv /\ WalkTypes /\ Ordered
<1>1. ListingInit => Inv
  <2> SUFFICES ASSUME ListingInit PROVE Inv
    OBVIOUS
  <2>1. IInv
    BY InitIInv DEF ListingInit
  <2>2. WalkTypes
    BY DEF ListingInit, WalkTypes
  <2>3. DOMAIN listed = {} /\ asked = 0
    BY DEF ListingInit
  <2> QED BY <2>1, <2>2, <2>3 DEF Ordered, ListingAscends, GarbageLines, InHand
<1>2. Inv /\ [ListingNext]_listingVars => Inv'
  <2> SUFFICES ASSUME Inv, [ListingNext]_listingVars PROVE Inv'
    OBVIOUS
  <2>1. [Next]_vars
    BY DEF ListingNext, Others, GetProcCount, GetProcPIDFromIdx, GetProcInfo, listingVars
  <2> QED BY <2>1, IInvStep, WalkTypesStep, OrderedStep
<1>3. Inv => ListingAscends
  BY DEF Ordered
<1> QED BY <1>1, <1>2, <1>3, PTL DEF ListingSpec

-----------------------------------------------------------------------------

(***************************************************************************)
(* What garbage costs                                                      *)
(***************************************************************************)

LEMMA GarbageFinite ==
    ASSUME WalkTypes
    PROVE  /\ DOMAIN listed = 1 .. Len(listed) /\ Len(listed) \in Nat
           /\ lister = 0 => Len(listed) = 0
           /\ lister # 0 => Len(listed) = index - 1
           /\ IsFiniteSet(GarbageLines) /\ IsFiniteSet(EarlyGarbage)
           /\ Cardinality(GarbageLines) \in Nat /\ Cardinality(EarlyGarbage) \in Nat
<1>1. /\ DOMAIN listed = 1 .. Len(listed) /\ Len(listed) \in Nat
      /\ lister = 0 => Len(listed) = 0
      /\ lister # 0 => Len(listed) = index - 1
  BY LenProperties DEF WalkTypes
<1>2. IsFiniteSet(1 .. Len(listed))
  BY <1>1, FS_Interval
<1>3. IsFiniteSet(GarbageLines)
  BY <1>1, <1>2, FS_Subset DEF GarbageLines
<1>4. IsFiniteSet(EarlyGarbage)
  BY <1>3, FS_Subset DEF EarlyGarbage
<1>5. Cardinality(GarbageLines) \in Nat /\ Cardinality(EarlyGarbage) \in Nat
  BY <1>3, <1>4, FS_CardinalityType
<1> QED BY <1>1, <1>3, <1>4, <1>5

\* An exit pays for the index it leaves unused and for the pid in hand, if that was
\* the one that exited; no other step of the kernel costs the walk anything.
LEMMA GarbageKept ==
    ASSUME IInv, WalkTypes, GarbagePaid, [Next]_vars,
           UNCHANGED <<lister, count, index, asked, listed, atStart>>,
           exits' = IF lister # 0 /\ SC_EXIT THEN exits + 1 ELSE exits
    PROVE  GarbagePaid'
<1> DEFINE n == Cardinality(EarlyGarbage)
           m == Cardinality(EarlyGarbage')
<1>1. /\ processCount \in Nat /\ count \in Nat /\ exits \in Nat /\ index \in Nat
      /\ IsFiniteSet(EarlyGarbage) /\ n \in Nat
      /\ lister # 0 => processCount >= count - exits
      /\ n + (IF LostInHand THEN 1 ELSE 0) <= exits
  BY GarbageFinite, Types DEF IInv, WalkTypes, GarbagePaid
<1>2. DOMAIN listed' = DOMAIN listed /\ GarbageLines' = GarbageLines
  BY DEF GarbageLines
<1>3. CASE SC_EXIT /\ lister # 0
  <2>1. exits' = exits + 1 /\ processCount' = processCount - 1
    BY <1>3, ExitMoves
  <2>2. GarbageLines \subseteq Int
    BY GarbageFinite DEF GarbageLines
  <2>3. EarlyGarbage' \subseteq EarlyGarbage
    <3> SUFFICES ASSUME NEW k \in GarbageLines, k < count - (exits + 1)
                 PROVE  k < count - exits
      BY <1>2, <2>1 DEF EarlyGarbage
    <3> QED BY <1>1, <2>2
  <2>4. m <= n /\ m \in Nat
    BY <2>3, <1>1, FS_Subset, FS_CardinalityType
  <2>5. m + (IF LostInHand' THEN 1 ELSE 0) <= exits'
    <3> HIDE DEF m, n
    <3> QED BY <1>1, <2>1, <2>4
  <2>6. processCount' >= count' - exits'
    BY <1>1, <1>3, <2>1
  <2> QED BY <2>5, <2>6 DEF GarbagePaid
<1>4. CASE SC_EXIT /\ lister = 0
  <2>1. exits' = exits /\ asked' = 0 /\ lister' = 0
    BY <1>4 DEF WalkTypes
  <2>2. EarlyGarbage' = EarlyGarbage
    BY <1>2, <2>1 DEF EarlyGarbage
  <2>3. ~LostInHand'
    BY <2>1 DEF LostInHand
  <2>4. n + 0 <= exits
    <3> HIDE DEF n
    <3> QED BY <1>1
  <2> QED BY <2>1, <2>2, <2>3, <2>4 DEF GarbagePaid
<1>5. CASE ~SC_EXIT
  <2>1. exits' = exits /\ KeepsPlaces
        /\ processCount' \in Nat /\ processCount' >= processCount
    BY <1>1, <1>5, TableSteps
  <2>2. EarlyGarbage' = EarlyGarbage
    BY <1>2, <2>1 DEF EarlyGarbage
  <2>3. Pids \subseteq Pids'
    BY <2>1 DEF KeepsPlaces, Pids
  <2>4. LostInHand' => LostInHand
    BY <2>1, <2>3 DEF LostInHand
  <2>5. n + (IF LostInHand' THEN 1 ELSE 0) <= exits
    <3> HIDE DEF n
    <3> QED BY <1>1, <2>4
  <2>6. lister' # 0 => processCount' >= count' - exits'
    BY <1>1, <2>1
  <2> QED BY <2>1, <2>2, <2>5, <2>6 DEF GarbagePaid
<1> QED BY <1>3, <1>4, <1>5

\* A pid asked for at an index in use is one of the table's.
LEMMA GarbageAsked ==
    ASSUME IInv, WalkTypes, GarbagePaid, GetProcPIDFromIdx
    PROVE  GarbagePaid'
<1>1. /\ asked = 0 /\ asked' = PIDFromIdx(index) /\ index < count
      /\ UNCHANGED <<vars, lister, count, index, listed, exits>>
      /\ lister # 0 /\ index \in Nat /\ index >= 1
  BY DEF GetProcPIDFromIdx, WalkTypes, Finished
<1>2. processes' = processes /\ processCount' = processCount
  BY <1>1 DEF vars, tableVars
<1>3. EarlyGarbage' = EarlyGarbage /\ Pids' = Pids
  BY <1>1, <1>2 DEF EarlyGarbage, GarbageLines, Pids, User
<1>4. ~LostInHand'
  <2> SUFFICES ASSUME LostInHand' PROVE FALSE
    OBVIOUS
  <2>1. index < count - exits /\ asked' \notin Pids
    BY <1>1, <1>3 DEF LostInHand
  <2>2. count - exits <= processCount /\ processCount \in Nat
        /\ count \in Nat /\ exits \in Nat
    BY <1>1, Types DEF GarbagePaid, WalkTypes, IInv
  <2>3. index \in User /\ ~(index >= processCount)
    BY <1>1, <2>1, <2>2 DEF User
  <2>4. asked' = processes[index].pid
    BY <1>1, <2>3 DEF PIDFromIdx
  <2> QED BY <2>1, <2>3, <2>4 DEF Pids
<1>5. ~LostInHand
  BY <1>1 DEF LostInHand
<1>6. Cardinality(EarlyGarbage) + 0 <= exits
  BY <1>5 DEF GarbagePaid
<1> QED BY <1>1, <1>2, <1>3, <1>4, <1>6 DEF GarbagePaid

\* The line printed is garbage, at an index in use, only for a pid in hand that
\* was paid for.
LEMMA GarbagePrinted ==
    ASSUME IInv, WalkTypes, GarbagePaid, GetProcInfo
    PROVE  GarbagePaid'
<1> DEFINE n == Cardinality(EarlyGarbage)
<1>1. /\ lister # 0 /\ asked # 0 /\ index \in Nat
      /\ index' = index + 1 /\ asked' = 0
      /\ UNCHANGED <<vars, lister, count, exits>>
      /\ DOMAIN listed = 1 .. index - 1 /\ DOMAIN listed' = 1 .. index
      /\ \A k \in 1 .. index - 1 : listed'[k] = listed[k]
      /\ listed'[index] = ProcInfoOf(asked)
  BY LineAdded
<1>2. processCount' = processCount
  BY <1>1 DEF vars, tableVars
<1>3. /\ IsFiniteSet(EarlyGarbage) /\ n \in Nat /\ exits \in Nat /\ count \in Nat
      /\ n + (IF LostInHand THEN 1 ELSE 0) <= exits
  BY GarbageFinite DEF GarbagePaid, WalkTypes
<1>4. ~LostInHand'
  BY <1>1 DEF LostInHand
<1>5. EarlyGarbage' \subseteq
         EarlyGarbage \cup (IF LostInHand THEN {index} ELSE {})
  <2> SUFFICES ASSUME NEW k \in EarlyGarbage', k \notin EarlyGarbage
               PROVE  LostInHand /\ k = index
    OBVIOUS
  <2>1. k \in 1 .. index /\ listed'[k] = Garbage /\ k < count - exits
    BY <1>1 DEF EarlyGarbage, GarbageLines
  <2>2. k \notin 1 .. index - 1
    <3> SUFFICES ASSUME k \in 1 .. index - 1 PROVE FALSE
      OBVIOUS
    <3>1. listed[k] = Garbage
      BY <1>1, <2>1
    <3> QED BY <3>1, <2>1, <1>1 DEF EarlyGarbage, GarbageLines
  <2>3. k = index
    BY <2>1, <2>2, <1>1
  <2>4. asked \notin Pids
    BY <2>1, <2>3, <1>1, LinePrinted
  <2> QED BY <2>1, <2>3, <2>4, <1>1 DEF LostInHand
<1>6. Cardinality(EarlyGarbage') <= exits
  <2>1. CASE LostInHand
    <3>1. EarlyGarbage' \subseteq EarlyGarbage \cup {index}
      BY <1>5, <2>1
    <3>2. /\ IsFiniteSet(EarlyGarbage \cup {index})
          /\ Cardinality(EarlyGarbage \cup {index}) =
                IF index \in EarlyGarbage THEN n ELSE n + 1
      BY <1>3, FS_AddElement
    <3>3. /\ IsFiniteSet(EarlyGarbage')
          /\ Cardinality(EarlyGarbage') <= Cardinality(EarlyGarbage \cup {index})
      BY <3>1, <3>2, FS_Subset
    <3>4. Cardinality(EarlyGarbage') \in Nat
      BY <3>3, FS_CardinalityType
    <3>5. n + 1 <= exits
      <4> HIDE DEF n
      <4> QED BY <1>3, <2>1
    <3> HIDE DEF n
    <3> QED BY <3>2, <3>3, <3>4, <3>5, <1>3
  <2>2. CASE ~LostInHand
    <3>1. EarlyGarbage' \subseteq EarlyGarbage
      BY <1>5, <2>2
    <3>2. /\ IsFiniteSet(EarlyGarbage')
          /\ Cardinality(EarlyGarbage') <= n
      BY <3>1, <1>3, FS_Subset
    <3>3. Cardinality(EarlyGarbage') \in Nat
      BY <3>2, FS_CardinalityType
    <3>4. n <= exits
      <4> HIDE DEF n
      <4> QED BY <1>3, <2>2
    <3> HIDE DEF n
    <3> QED BY <3>2, <3>3, <3>4, <1>3
  <2> QED BY <2>1, <2>2
<1>7. Cardinality(EarlyGarbage') + 0 <= exits
  <2>1. IsFiniteSet(EarlyGarbage \cup {index})
    BY <1>3, FS_AddElement
  <2>2. EarlyGarbage' \subseteq EarlyGarbage \cup {index}
    BY <1>5
  <2>3. Cardinality(EarlyGarbage') \in Nat
    BY <2>1, <2>2, FS_Subset, FS_CardinalityType
  <2> QED BY <2>3, <1>6, <1>3
<1>8. lister' # 0 => processCount' >= count' - exits'
  BY <1>1, <1>2 DEF GarbagePaid
<1> QED BY <1>1, <1>4, <1>7, <1>8 DEF GarbagePaid

LEMMA GarbageStep ==
    ASSUME IInv, WalkTypes, GarbagePaid, [ListingNext]_listingVars
    PROVE  GarbagePaid'
<1>1. CASE UNCHANGED listingVars
  BY <1>1 DEF GarbagePaid, EarlyGarbage, GarbageLines, LostInHand, Pids, User,
              listingVars, listVars, vars, tableVars
<1>2. CASE GetProcCount
  <2>1. /\ count' = processCount /\ asked' = asked /\ listed' = listed
        /\ exits' = exits /\ UNCHANGED vars
        /\ listed = <<>> /\ asked = 0 /\ exits = 0
    BY <1>2 DEF GetProcCount, ProcCount, WalkTypes
  <2>2. processCount \in Nat /\ processCount' = processCount
    BY <2>1, Types DEF IInv, vars, tableVars
  <2>3. EarlyGarbage' = {} /\ ~LostInHand'
    BY <2>1 DEF EarlyGarbage, GarbageLines, LostInHand
  <2> QED BY <2>1, <2>2, <2>3, FS_EmptySet DEF GarbagePaid
<1> QED BY <1>1, <1>2, GarbageKept, GarbageAsked, GarbagePrinted, WalkSteps

\* At most two lines of garbage for each process that exits during the walk: the
\* indexes in use are at least those counted less the exits, a line at one of
\* them is garbage only if the process in hand is the one that exits, and the
\* others are no more than the exits.
THEOREM GarbageIsPaidFor == ListingSpec => []GarbageByExits
<1> DEFINE Inv == IInv /\ WalkTypes /\ GarbagePaid
<1>1. ListingInit => Inv
  <2> SUFFICES ASSUME ListingInit PROVE Inv
    OBVIOUS
  <2>1. IInv
    BY InitIInv DEF ListingInit
  <2>2. WalkTypes
    BY DEF ListingInit, WalkTypes
  <2>3. EarlyGarbage = {} /\ ~LostInHand /\ exits = 0 /\ lister = 0
    BY DEF ListingInit, EarlyGarbage, GarbageLines, LostInHand
  <2> QED BY <2>1, <2>2, <2>3, FS_EmptySet DEF GarbagePaid
<1>2. Inv /\ [ListingNext]_listingVars => Inv'
  <2> SUFFICES ASSUME Inv, [ListingNext]_listingVars PROVE Inv'
    OBVIOUS
  <2>1. [Next]_vars
    BY DEF ListingNext, Others, GetProcCount, GetProcPIDFromIdx, GetProcInfo, listingVars
  <2> QED BY <2>1, IInvStep, WalkTypesStep, GarbageStep
<1>3. Inv => GarbageByExits
  <2> SUFFICES ASSUME Inv PROVE GarbageByExits
    OBVIOUS
  <2> DEFINE Late == (count - exits) .. (count - 1)
             n == Cardinality(EarlyGarbage)
  <2>1. /\ count \in Nat /\ exits \in Nat /\ n \in Nat
        /\ IsFiniteSet(EarlyGarbage) /\ n <= exits
    <3>1. /\ count \in Nat /\ exits \in Nat /\ n \in Nat
          /\ IsFiniteSet(EarlyGarbage)
          /\ n + (IF LostInHand THEN 1 ELSE 0) <= exits
      BY GarbageFinite DEF WalkTypes, GarbagePaid
    <3> HIDE DEF n
    <3> QED BY <3>1
  <2>2. IsFiniteSet(Late) /\ Cardinality(Late) = exits
    <3>1. count - exits \in Int /\ count - 1 \in Int
      BY <2>1
    <3>2. Cardinality(Late) = IF count - exits > count - 1 THEN 0
                              ELSE (count - 1) - (count - exits) + 1
      BY <3>1, FS_Interval
    <3>3. IsFiniteSet(Late)
      BY <3>1, FS_Interval
    <3> HIDE DEF Late
    <3> QED BY <3>2, <3>3, <2>1
  <2>3. GarbageLines \subseteq EarlyGarbage \cup Late
    <3> SUFFICES ASSUME NEW k \in GarbageLines, ~(k < count - exits)
                 PROVE  k \in Late
      BY DEF EarlyGarbage
    <3>1. k \in 1 .. Len(listed) /\ Len(listed) \in Nat
          /\ (lister = 0 => Len(listed) = 0) /\ (lister # 0 => Len(listed) = index - 1)
      BY GarbageFinite DEF GarbageLines
    <3>2. lister # 0
      BY <3>1
    <3>3. index \in 1 .. count
      BY <3>2 DEF WalkTypes
    <3> QED BY <3>1, <3>2, <3>3, <2>1
  <2>4. /\ IsFiniteSet(EarlyGarbage \cup Late)
        /\ Cardinality(EarlyGarbage \cup Late) <= n + exits
    <3>1. /\ IsFiniteSet(EarlyGarbage \cup Late)
          /\ Cardinality(EarlyGarbage \cup Late) =
                n + Cardinality(Late) - Cardinality(EarlyGarbage \cap Late)
      BY <2>1, <2>2, FS_Union
    <3>2. Cardinality(EarlyGarbage \cap Late) \in Nat
      <4>1. IsFiniteSet(EarlyGarbage \cap Late)
        BY <2>1, FS_Subset
      <4> QED BY <4>1, FS_CardinalityType
    <3> HIDE DEF n, Late
    <3> QED BY <3>1, <3>2, <2>1, <2>2
  <2>5. /\ Cardinality(GarbageLines) <= Cardinality(EarlyGarbage \cup Late)
        /\ Cardinality(GarbageLines) \in Nat /\ Cardinality(EarlyGarbage \cup Late) \in Nat
    BY <2>3, <2>4, FS_Subset, FS_CardinalityType
  <2> HIDE DEF n, Late
  <2> QED BY <2>1, <2>4, <2>5 DEF GarbageByExits
<1> QED BY <1>1, <1>2, <1>3, PTL DEF ListingSpec

-----------------------------------------------------------------------------

(***************************************************************************)
(* Whom the walk misses                                                    *)
(***************************************************************************)

\* A slot the walk has passed: its line is printed, or its pid is in hand.
Passed(i) == i < index \/ (i = index /\ asked # 0)

LEMMA MissedIs ==
    \A s : s \in Missed <=> /\ s \in atStart /\ s \notin Shown /\ s # asked
                            /\ \E i \in User : processes[i].pid = s /\ Passed(i)
BY DEF Missed, Survivors, Pids, Passed

\* A kernel's step leaves those who were there at the start below the count, and
\* none but an exit has the walk miss one it had not missed yet.
LEMMA StartersStay ==
    ASSUME IInv, WalkTypes, MissesPaid, [Next]_vars,
           UNCHANGED <<lister, count, index, asked, listed, atStart>>,
           NEW i \in User', processes'[i].pid \in atStart
    PROVE  /\ i < count
           /\ \E j \in User : j >= i /\ processes[j].pid = processes'[i].pid
           /\ ~SC_EXIT => i \in User /\ processes[i].pid = processes'[i].pid
<1>1. /\ processCount \in Nat /\ count \in Nat
      /\ \A j \in User : j \in Nat
  BY Types DEF IInv, WalkTypes
<1>2. i \in Nat
  <2>1. processCount' \in Nat
    <3>1. IInv'
      BY IInvStep
    <3>2. ProcTypeOK'
      BY <3>1 DEF IInv, TypeOK
    <3> QED BY <3>2, ProcessAssumption DEF ProcTypeOK
  <2> QED BY <2>1 DEF User
<1>3. Given(processes'[i].pid)
  BY DEF MissesPaid
<1>4. PICK j \in User : j >= i /\ processes[j].pid = processes'[i].pid
  <2>1. ~(processes'[i].pid < processes'[i].pid)
    BY <1>3 DEF Given
  <2> QED BY <2>1, <1>3, TableAges
<1>5. j < count
  BY <1>4 DEF MissesPaid
<1>6. i < count
  BY <1>1, <1>2, <1>4, <1>5
<1>7. ASSUME ~SC_EXIT
      PROVE  i \in User /\ processes[i].pid = processes'[i].pid
  <2>1. i \in User
    <3>1. User = 1 .. processCount - 1 /\ User' = 1 .. processCount' - 1
      BY DEF User
    <3> QED BY <3>1, <1>1, <1>2, <1>4
  <2>2. KeepsPlaces
    BY <1>7, OnlyExitsMove
  <2> QED BY <2>1, <2>2 DEF KeepsPlaces
<1> QED BY <1>4, <1>6, <1>7

\* Of an exit, the walk misses the process that has moved to the last place it has
\* passed.
LEMMA ExitMisses ==
    ASSUME IInv, WalkTypes, MissesPaid, SC_EXIT,
           UNCHANGED <<lister, count, index, asked, listed, atStart>>
    PROVE  \E s : Missed' \subseteq Missed \cup {s}
<1> DEFINE last == IF asked = 0 THEN index ELSE index + 1
           next == processes[last].pid
<1>1. /\ processCount \in Nat /\ index \in Nat /\ processes \in [Slots -> ProcessEntry]
      /\ \A j \in User : j \in Nat /\ j \in Slots
  BY Types DEF IInv, WalkTypes
<1>2. Shown' = Shown
  BY DEF Shown
<1>3. ASSUME NEW s \in Missed', s \notin Missed
      PROVE  s = next
  <2>1. /\ s \in atStart /\ s \notin Shown /\ s # asked
        /\ \E i \in User' : processes'[i].pid = s /\ Passed(i)
    BY <1>2, <1>3 DEF Missed, Survivors, Pids, Passed
  <2>2. PICK i \in User' : processes'[i].pid = s /\ Passed(i)
    BY <2>1
  <2>3. i \in User /\ schedulerProcessAt \in User
    BY <2>2, ExitMoves
  <2>4. ~(i < schedulerProcessAt)
    <3> SUFFICES ASSUME i < schedulerProcessAt PROVE FALSE
      OBVIOUS
    <3>1. processes[i].pid = s
      BY <2>2, <2>3, ExitMoves
    <3> QED BY <3>1, <2>1, <2>2, <2>3, <1>3, MissedIs
  <2>5. i >= schedulerProcessAt
    BY <2>3, <2>4, <1>1
  <2>6. i + 1 \in User /\ processes[i + 1].pid = s
    <3>1. /\ i + 1 \in User
          /\ processes'[i] = [processes[i + 1] EXCEPT !.memStart = @ - Current.memSize]
      BY <2>2, <2>5, ExitMoves
    <3> QED BY <3>1, <2>2, <1>1 DEF ProcessEntry
  <2>7. ~Passed(i + 1)
    BY <2>1, <2>6, <1>3, MissedIs
  <2>8. i + 1 = last
    BY <2>2, <2>3, <2>7, <1>1 DEF Passed
  <2> QED BY <2>6, <2>8
<1> QED BY <1>3

LEMMA MissesKept ==
    ASSUME IInv, WalkTypes, MissesPaid, [Next]_vars,
           UNCHANGED <<lister, count, index, asked, listed, atStart>>,
           exits' = IF lister # 0 /\ SC_EXIT THEN exits + 1 ELSE exits
    PROVE  MissesPaid'
<1>1. ASSUME NEW s \in atStart'
      PROVE  Given(s)'
  <2>1. Given(s)
    BY <1>1 DEF MissesPaid
  <2>2. ASSUME NEW x, x = s
        PROVE  Given(x)'
    BY <2>1, <2>2, GivenStep
  <2> QED BY <2>2 DEF Given
<1>2. ASSUME NEW i \in User', processes'[i].pid \in atStart'
      PROVE  i < count'
  BY <1>2, StartersStay
<1>3. /\ IsFiniteSet(Missed) /\ Cardinality(Missed) <= exits /\ exits \in Nat
      /\ Cardinality(Missed) \in Nat
  BY FS_CardinalityType DEF MissesPaid, WalkTypes
<1>4. CASE SC_EXIT /\ lister # 0
  <2>1. PICK s : Missed' \subseteq Missed \cup {s}
    BY <1>4, ExitMisses
  <2>2. /\ IsFiniteSet(Missed \cup {s})
        /\ Cardinality(Missed \cup {s}) =
              IF s \in Missed THEN Cardinality(Missed) ELSE Cardinality(Missed) + 1
    BY <1>3, FS_AddElement
  <2>3. IsFiniteSet(Missed') /\ Cardinality(Missed') <= Cardinality(Missed \cup {s})
    BY <2>1, <2>2, FS_Subset
  <2>4. Cardinality(Missed') \in Nat
    BY <2>3, FS_CardinalityType
  <2>5. exits' = exits + 1
    BY <1>4
  <2>6. Cardinality(Missed') <= exits'
    BY <2>2, <2>3, <2>4, <2>5, <1>3
  <2> QED BY <1>1, <1>2, <2>3, <2>6 DEF MissesPaid
<1>5. CASE SC_EXIT /\ lister = 0
  <2>1. Missed' = {} /\ exits' = 0
    BY <1>5 DEF Missed, Survivors, WalkTypes
  <2> QED BY <1>1, <1>2, <2>1, FS_EmptySet DEF MissesPaid
<1>6. CASE ~SC_EXIT
  <2>1. Missed' \subseteq Missed
    <3> SUFFICES ASSUME NEW s \in Missed' PROVE s \in Missed
      OBVIOUS
    <3>1. /\ s \in atStart /\ s \notin Shown /\ s # asked
          /\ \E i \in User' : processes'[i].pid = s /\ Passed(i)
      BY DEF Missed, Survivors, Pids, Passed, Shown
    <3>2. PICK i \in User' : processes'[i].pid = s /\ Passed(i)
      BY <3>1
    <3>3. i \in User /\ processes[i].pid = s
      BY <3>1, <3>2, <1>6, StartersStay
    <3> QED BY <3>1, <3>2, <3>3, MissedIs
  <2>2. IsFiniteSet(Missed') /\ Cardinality(Missed') <= Cardinality(Missed)
    BY <2>1, <1>3, FS_Subset
  <2>3. Cardinality(Missed') \in Nat
    BY <2>2, FS_CardinalityType
  <2>4. exits' = exits
    BY <1>6
  <2>5. Cardinality(Missed') <= exits'
    BY <2>2, <2>3, <2>4, <1>3
  <2> QED BY <1>1, <1>2, <2>2, <2>5 DEF MissesPaid
<1> QED BY <1>4, <1>5, <1>6

\* Who is in hand is not missed, and gets its line.
LEMMA MissesSeen ==
    ASSUME IInv, WalkTypes, MissesPaid, GetProcPIDFromIdx \/ GetProcInfo
    PROVE  MissesPaid'
<1>1. /\ UNCHANGED <<vars, lister, count, atStart, exits>>
      /\ index \in Nat /\ \A i \in User : i \in Nat
  BY Types DEF GetProcPIDFromIdx, GetProcInfo, WalkTypes, IInv
<1>2. /\ processes' = processes /\ processCount' = processCount /\ User' = User
      /\ tick' = tick /\ cpu' = cpu
  BY <1>1 DEF vars, tableVars, cpuVars, User
<1>3. Missed' \subseteq Missed
  <2> SUFFICES ASSUME NEW s \in Missed' PROVE s \in Missed
    OBVIOUS
  <2>1. /\ s \in atStart /\ s \notin Shown' /\ s # asked'
        /\ \E i \in User : processes[i].pid = s /\ Passed(i)'
    BY <1>1, <1>2 DEF Missed, Survivors, Pids, Passed
  <2>2. PICK i \in User : processes[i].pid = s /\ Passed(i)'
    BY <2>1
  <2>3. s > Error /\ s \in Int /\ i \in Nat
    BY <2>2, <1>1, TableGiven DEF Given
  <2>4. CASE GetProcPIDFromIdx
    <3>1. asked = 0 /\ asked' = PIDFromIdx(index) /\ UNCHANGED <<index, listed>>
      BY <2>4 DEF GetProcPIDFromIdx
    <3>2. i # index
      <4> SUFFICES ASSUME i = index PROVE FALSE
        OBVIOUS
      <4>1. ~(index >= processCount)
        BY <2>2, Types DEF IInv
      <4> QED BY <4>1, <3>1, <2>1, <2>2 DEF PIDFromIdx
    <3>3. Passed(i)
      BY <3>1, <3>2, <2>2 DEF Passed
    <3>4. s # asked
      BY <3>1, <2>3 DEF Error
    <3>5. s \notin Shown
      BY <3>1, <2>1 DEF Shown
    <3> QED BY <3>3, <3>4, <3>5, <2>1, <2>2, MissedIs
  <2>5. CASE GetProcInfo
    <3>1. /\ asked # 0 /\ index' = index + 1 /\ asked' = 0
          /\ DOMAIN listed = 1 .. index - 1 /\ DOMAIN listed' = 1 .. index
          /\ \A k \in 1 .. index - 1 : listed'[k] = listed[k]
          /\ listed'[index] = ProcInfoOf(asked)
      BY <2>5, LineAdded
    <3>2. index \in 1 .. index /\ \A k \in 1 .. index - 1 : k \in 1 .. index
      <4>1. index >= 1
        BY <2>5, LineAdded DEF WalkTypes
      <4> QED BY <4>1, <1>1
    <3>3. Passed(i)
      BY <3>1, <2>2, <2>3, <1>1 DEF Passed
    <3>4. s # asked
      <4> SUFFICES ASSUME s = asked PROVE FALSE
        OBVIOUS
      <4>1. s \in Pids
        BY <2>2 DEF Pids
      <4>2. listed'[index] = s /\ s # Garbage
        BY <4>1, <3>1, LinePrinted
      <4> QED BY <4>2, <3>1, <3>2, <2>1 DEF Shown
    <3>5. s \notin Shown
      <4> SUFFICES ASSUME s \in Shown PROVE FALSE
        OBVIOUS
      <4>1. PICK k \in 1 .. index - 1 : listed[k] = s
        BY <3>1 DEF Shown
      <4>2. s # Garbage
        BY DEF Shown
      <4> QED BY <4>1, <4>2, <3>1, <3>2, <2>1 DEF Shown
    <3> QED BY <3>3, <3>4, <3>5, <2>1, <2>2, MissedIs
  <2> QED BY <2>4, <2>5
<1>4. IsFiniteSet(Missed) /\ Cardinality(Missed) <= exits /\ exits \in Nat
  BY DEF MissesPaid, WalkTypes
<1>5. IsFiniteSet(Missed') /\ Cardinality(Missed') <= Cardinality(Missed)
  BY <1>3, <1>4, FS_Subset
<1>6. Cardinality(Missed) \in Nat /\ Cardinality(Missed') \in Nat
  BY <1>4, <1>5, FS_CardinalityType
<1>7. Cardinality(Missed') <= exits'
  BY <1>1, <1>4, <1>5, <1>6
<1> QED BY <1>1, <1>2, <1>5, <1>7 DEF MissesPaid, Given

LEMMA MissesStep ==
    ASSUME IInv, WalkTypes, MissesPaid, [ListingNext]_listingVars
    PROVE  MissesPaid'
<1>1. CASE UNCHANGED listingVars
  <2>1. Missed' = Missed /\ User' = User /\ processes' = processes
        /\ processCount' = processCount /\ tick' = tick /\ cpu' = cpu
        /\ UNCHANGED <<atStart, count, exits>>
    BY <1>1 DEF Missed, Survivors, Shown, Pids, User,
                listingVars, listVars, vars, tableVars, cpuVars
  <2> QED BY <2>1 DEF MissesPaid, Given
<1>2. CASE GetProcCount
  <2>1. /\ count' = processCount /\ index' = 1 /\ asked' = asked /\ atStart' = Pids
        /\ exits' = exits /\ UNCHANGED vars
        /\ asked = 0 /\ exits = 0
    BY <1>2 DEF GetProcCount, ProcCount, WalkTypes
  <2>2. /\ processes' = processes /\ processCount' = processCount /\ User' = User
        /\ tick' = tick /\ cpu' = cpu
    BY <2>1 DEF vars, tableVars, cpuVars, User
  <2>3. \A i \in User : i \in Nat /\ i > 0 /\ i < processCount
    BY Types DEF IInv
  <2>4. Missed' = {}
    BY <2>1, <2>2, <2>3 DEF Missed
  <2>5. \A s \in Pids : Given(s)
    BY TableGiven DEF Pids
  <2> QED BY <2>1, <2>2, <2>3, <2>4, <2>5, FS_EmptySet DEF MissesPaid, Given
<1> QED BY <1>1, <1>2, MissesKept, MissesSeen, WalkSteps

\* At most one process missed for each that exits during the walk: an exit moves
\* one process from what is ahead of the walk to what is behind it, and no other
\* step moves any.
THEOREM MissesArePaidFor == ListingSpec => []MissedByExits
<1> DEFINE Inv == IInv /\ WalkTypes /\ MissesPaid
<1>1. ListingInit => Inv
  <2> SUFFICES ASSUME ListingInit PROVE Inv
    OBVIOUS
  <2>1. IInv
    BY InitIInv DEF ListingInit
  <2>2. WalkTypes
    BY DEF ListingInit, WalkTypes
  <2>3. atStart = {} /\ exits = 0 /\ Missed = {}
    BY DEF ListingInit, Missed, Survivors
  <2> QED BY <2>1, <2>2, <2>3, FS_EmptySet DEF MissesPaid
<1>2. Inv /\ [ListingNext]_listingVars => Inv'
  <2> SUFFICES ASSUME Inv, [ListingNext]_listingVars PROVE Inv'
    OBVIOUS
  <2>1. [Next]_vars
    BY DEF ListingNext, Others, GetProcCount, GetProcPIDFromIdx, GetProcInfo, listingVars
  <2> QED BY <2>1, IInvStep, WalkTypesStep, MissesStep
<1>3. Inv => MissedByExits
  <2> SUFFICES ASSUME Inv, lister # 0, Finished
               PROVE  Cardinality(Survivors \ Shown) <= exits
    BY DEF MissedByExits
  <2>1. index >= count /\ index \in Nat /\ count \in Nat /\ asked = 0 /\ exits \in Nat
    BY DEF Finished, WalkTypes
  <2>2. Survivors \ Shown \subseteq Missed
    <3> SUFFICES ASSUME NEW s \in Survivors, s \notin Shown PROVE s \in Missed
      OBVIOUS
    <3>1. PICK i \in User : processes[i].pid = s
      BY DEF Survivors, Pids
    <3>2. i < count /\ i \in Nat /\ s # 0
      <4>1. s \in Int /\ s > Error
        BY <3>1, TableGiven DEF Given
      <4>2. i < count
        BY <3>1 DEF MissesPaid, Survivors
      <4>3. i \in Nat
        BY Types DEF IInv
      <4> QED BY <4>1, <4>2, <4>3 DEF Error
    <3>3. i < index
      BY <3>2, <2>1
    <3> QED BY <3>1, <3>2, <3>3, <2>1 DEF Missed
  <2>3. IsFiniteSet(Missed) /\ Cardinality(Missed) <= exits
    BY DEF MissesPaid
  <2>4. /\ Cardinality(Survivors \ Shown) <= Cardinality(Missed)
        /\ IsFiniteSet(Survivors \ Shown)
    BY <2>2, <2>3, FS_Subset
  <2>5. Cardinality(Survivors \ Shown) \in Nat /\ Cardinality(Missed) \in Nat
    BY <2>3, <2>4, FS_CardinalityType
  <2> QED BY <2>1, <2>3, <2>4, <2>5
<1> QED BY <1>1, <1>2, <1>3, PTL DEF ListingSpec

=============================================================================
