------------------------------ MODULE ProcInfo ------------------------------
(***************************************************************************)
(* The program procinfo (src/user/apps/procinfo.c) over the kernel: it     *)
(* asks how many processes there are, then for the pid at each index, then *)
(* for the entry of that pid, and prints a line for each.  Each question   *)
(* is a system call of its own (src/foki/idt.c), and between two of them   *)
(* other processes exit, which moves those above to lower indexes, and     *)
(* spawn.                                                                  *)
(***************************************************************************)
EXTENDS KernelSafety, Sequences, FiniteSets

VARIABLES
    lister,     \* pid of the process that runs procinfo, 0 before there is one
    count,      \* int count: what getProcCount returned
    index,      \* int i: the index it is at
    asked,      \* uint32_t pid: what getProcPIDFromIdx returned, 0 before it is asked
    listed,     \* the lines printed: pids, or Garbage
    atStart,    \* history: the pids in the table when the count was taken
    exits       \* history: processes that have exited since

listVars == <<lister, count, index, asked, listed, atStart, exits>>
listingVars == <<vars, listVars>>

\* SRET_ERROR, which no pid equals.
Error == 1

\* The line printed from an entry that getProcInfo has not filled.
Garbage == 0

Listing == UserRuns /\ cpu.owner = lister
Finished == index >= count

-----------------------------------------------------------------------------

\* What if KPROC were not counted, or the count ran to a last index.
ProcCountOfUsers == processCount - 1
ProcCountInclusive == processCount + 1

\* SC_GETPORCNUM.
ProcCount == processCount

\* SC_GETPROCPIDFROMIDX.
PIDFromIdx(idx) == IF idx >= processCount THEN Error ELSE processes[idx].pid

\* SC_GETPROCINFO: the entry's pid; on an error the caller's structure is not
\* written, and what it holds is printed all the same.
ProcInfoOf(pid) == IF Index(pid) = -1 THEN Garbage ELSE processes[Index(pid)].pid

\* A process that has not run before turns out to be procinfo.
GetProcCount ==
    /\ UserRuns
    /\ NotInit
    /\ lister = 0
    /\ lister' = Current.pid
    /\ count' = ProcCount
    /\ index' = 1
    /\ atStart' = Pids
    /\ UNCHANGED <<vars, asked, listed, exits>>

GetProcPIDFromIdx ==
    /\ Listing
    /\ ~Finished
    /\ asked = 0
    /\ asked' = PIDFromIdx(index)
    /\ UNCHANGED <<vars, lister, count, index, listed, atStart, exits>>

GetProcInfo ==
    /\ Listing
    /\ asked # 0
    /\ listed' = Append(listed, ProcInfoOf(asked))
    /\ asked' = 0
    /\ index' = index + 1
    /\ UNCHANGED <<vars, lister, count, atStart, exits>>

\* Everybody else, and the machine; procinfo itself only exits, at its end.
Others ==
    /\ Next
    /\ ~Listing \/ PITISR \/ (SC_EXIT /\ Finished)
    /\ exits' = IF lister # 0 /\ SC_EXIT THEN exits + 1 ELSE exits
    /\ UNCHANGED <<lister, count, index, asked, listed, atStart>>

ListingInit ==
    /\ Init
    /\ lister = 0
    /\ count = 0
    /\ index = 0
    /\ asked = 0
    /\ listed = <<>>
    /\ atStart = {}
    /\ exits = 0

ListingNext ==
    \/ Others
    \/ GetProcCount
    \/ GetProcPIDFromIdx
    \/ GetProcInfo

ListingSpec == ListingInit /\ [][ListingNext]_listingVars

-----------------------------------------------------------------------------

Shown == {listed[k] : k \in DOMAIN listed} \ {Garbage}
GarbageLines == {k \in DOMAIN listed : listed[k] = Garbage}

\* No process is listed twice, and those listed stand in the order of their
\* ages, although the table moves under the walk: an exit only moves a process
\* towards what has been printed.
ListingAscends ==
    \A j, k \in DOMAIN listed \ GarbageLines : j < k => listed[j] < listed[k]

Survivors == atStart \cap Pids

\* Whoever is there from the beginning of the walk to its end is listed, but for
\* one process at most for each exit in between.
MissedByExits ==
    lister # 0 /\ Finished => Cardinality(Survivors \ Shown) <= exits

\* A line of garbage stands for an exit too: of the process whose pid was in hand,
\* or of one before it, which leaves an index at the end that is no longer used.
GarbageByExits == Cardinality(GarbageLines) <= 2 * exits

=============================================================================
