------------------------------- MODULE Memory -------------------------------
(***************************************************************************)
(* The memory manager of the Foki kernel (src/foki/memory.c).              *)
(*                                                                         *)
(* The kernel keeps one table, memList, of the regions it has handed out.  *)
(* A region is always appended right after the last one, and freeing a     *)
(* region closes the gap at once: every later entry moves down one slot,   *)
(* its start address drops by the size freed, and the bytes move with it.  *)
(* Compaction therefore MOVES the memory of processes that are alive, so   *)
(* whoever remembers an absolute address across a freeMem holds a stale    *)
(* one.                                                                    *)
(*                                                                         *)
(* The arrays keep the stale slots the code leaves behind: memList is a    *)
(* function on all slots, of which the first memIndex are in use.          *)
(***************************************************************************)
EXTENDS Integers

CONSTANTS
    MemListSize,    \* MEM_LIST_SIZE, memory.h
    KernelSize,     \* bytes given to the kernel by initMem (0x300000)
    SystemMemory,   \* getSystemMemory(): the bootloader's mem_upper, in bytes
    RamSize         \* bytes of RAM that exist (mem_upper leaves out the first MB)

ASSUME MemoryAssumption ==
    /\ MemListSize \in Nat
    /\ MemListSize >= 4                 \* null, kernel, KPROC, INIT
    /\ KernelSize \in Nat \ {0}
    /\ SystemMemory \in Nat
    /\ RamSize \in Nat

VARIABLES
    memList,        \* memEntry memList[MEM_LIST_SIZE]
    memIndex,       \* int memIndex: slots of memList in use
    ram             \* the bytes themselves

memVars == <<memList, memIndex, ram>>

-----------------------------------------------------------------------------

MemSlots == 0 .. MemListSize - 1
Addr == 0 .. RamSize - 1

\* A byte is what wrote it: <<pid, offset>> for the bytes of a process image,
\* pairs with a negative tag for what the kernel or the program stores later.
Cell == Int \X Int
Void == <<-1, 0>>

MemEntry == [startAddr : Int, size : Int]

Least(S) == CHOOSE x \in S : \A y \in S : x <= y

\* What if memcpy's loop were while(--n): one byte too few.
CopiedOneShort(dest, src, n) ==
    [a \in Addr |-> IF a \in dest .. dest + n - 2
                    THEN IF a - dest + src \in Addr THEN ram[a - dest + src] ELSE Void
                    ELSE ram[a]]

\* RAM after memcpy(dest, src, n). The loop copies upwards; both uses in the
\* kernel have dest below src, where that equals copying all bytes at once.
\* A read beyond the RAM finds nothing, a write beyond it is lost.
Copied(dest, src, n) ==
    [a \in Addr |-> IF a \in dest .. dest + n - 1
                    THEN IF a - dest + src \in Addr THEN ram[a - dest + src] ELSE Void
                    ELSE ram[a]]

-----------------------------------------------------------------------------

\* What if allocMem did not check the length of its table.
AllocFaultMemoryOnly(size) ==
    IF memList[memIndex - 1].startAddr + size > SystemMemory THEN "Out of memory" ELSE "no"

\* The two checks of allocMem, in order; each ends in herr(), which halts.
AllocFault(size) ==
    IF memList[memIndex - 1].startAddr + size > SystemMemory THEN "Out of memory"
    ELSE IF memIndex >= MemListSize THEN "Memory list overflow"
    ELSE "no"

\* What if the last byte of the last region were taken for its end.
AllocAddrLastByte == memList[memIndex - 1].startAddr + memList[memIndex - 1].size - 1

\* Where allocMem puts the next region.
AllocAddr == memList[memIndex - 1].startAddr + memList[memIndex - 1].size

AllocMem(size) ==
    /\ memList' = [memList EXCEPT ![memIndex] = [startAddr |-> AllocAddr, size |-> size]]
    /\ memIndex' = memIndex + 1

\* The slots freeMem's search can stop at; it stops at the first.
EntriesAt(start) == {i \in 0 .. memIndex - 1 : memList[i].startAddr = start}

\* What if the loop only moved the entries down.
CompactedUnlowered(i) ==
    [k \in MemSlots |-> IF i <= k /\ k < memIndex - 1 THEN memList[k + 1] ELSE memList[k]]

\* memList after the shifting loop of freeMem has removed entry i.
Compacted(i) ==
    LET last == memIndex - 1
        lowered(k) == [memList[k] EXCEPT !.startAddr = @ - memList[i].size]
    IN  [k \in MemSlots |->
            IF i <= k /\ k < last THEN lowered(k + 1)
            ELSE IF k = last /\ i < last THEN lowered(k)   \* the slot left behind
            ELSE memList[k]]

FreeMem(start) ==
    IF start <= 0 \/ EntriesAt(start) = {}
    THEN UNCHANGED memVars
    ELSE LET i == Least(EntriesAt(start))
             end == memList'[memIndex'].startAddr + memList'[memIndex'].size
         IN  /\ memList' = Compacted(i)
             /\ memIndex' = memIndex - 1
             /\ ram' = Copied(start, start + memList[i].size, end - start)

-----------------------------------------------------------------------------

\* initMem: the null entry, then allocMem(0x300000), which lands at address 0.
BootList ==
    [k \in MemSlots |-> [startAddr |-> 0, size |-> IF k = 1 THEN KernelSize ELSE 0]]

MemTypeOK ==
    /\ memList \in [MemSlots -> MemEntry]
    /\ memIndex \in 1 .. MemListSize
    /\ ram \in [Addr -> Cell]

=============================================================================
