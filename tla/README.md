# A specification of the Acky OS kernel

Acky OS (`hlelo101/acky`) is a small 32-bit operating system. Its kernel, Foki
(`src/foki`), runs programs in ring 3 under a preemptive round-robin scheduler,
keeps every program in one contiguous region of memory, moves those regions
together whenever a program exits, passes fixed-size messages between programs
and reads lines from a PS/2 keyboard. Around it stand a read-only ISO 9660 file
system, a mouse driver, and a handful of programs: a shell, a list of processes,
and a window manager. This directory holds TLA+ modules that model the kernel,
the file system and those programs, TLC configurations that check them on small
instances, and proofs, checked by TLAPS, of what holds for every size.

## 1. The system

### Components, their state and their operations

| component | state | operations | modelled in |
|---|---|---|---|
| memory manager (`memory.c`) | `memList[]`, `memIndex`, the RAM | `allocMem`, `freeMem` (compacts and moves), `initMem` | `Memory` |
| process table (`process.c`) | `processes[]`, `processCount`, `schedulerProcessAt` | `spawnProcess`, `kill`, lookups, `getNextProcess`, `sendMessageToProcess` | `Process` |
| scheduler and timer (`pit.c`, `pit.asm`) | `tick`, `saveRegs`, the CPU's registers, the LDT | `PITISR` and the trampoline | `Kernel` |
| system calls (`idt.c`) | the caller's registers and memory | `SC_SPAWNPROC`, `SC_EXIT`, `SC_GETUINPUT`, `SC_MSG`; queries; `SC_GRAPHICS`; `SC_LOADFILE`, `SC_GETFILEINFO`; `SC_PRINTCHAR`, `SC_CLEARSCR` | `Kernel`; `ProcInfo`, `Shell`; `Desktop`; `FileSystem`; `Console` |
| keyboard (`ps2kbd.c`) | `processBufferLoc/Pos/Size`, `processWaitingForInput`, `inputWaintingPID`, modifier flags | `ps2KBDISR` | `Keyboard`; its echo in `Console` |
| exceptions, panic (`herr.c`, `faultHandlers.c`) | none | `intHerr`, `herr` | `Kernel` |
| boot (`kmain.c`) | `canPreempt`, `systemInitialized` | `kmain` | `Init` of `Kernel` |
| mouse (`ps2mouse.c`) | `mouse_cycle`, packet bytes | `ps2MouseISR` | `Desktop` |
| screen (`vga.c`, SC_GRAPHICS) | `ownerPID`, `ownerSet`, the frame buffer | ownership, forwarding, mode switches; `putPixel`, `drawSquare` | `Desktop`; `WindowManager` |
| text console (`vga.c`) | `video_mem`, the text frame buffer | `printChar`, `clearScr` | `Console` |
| file system (`fs.c`, and its use in `process.c`) | `drives[]` | `initFS`, the path walk of `iso9660GetFileInfo`, `fsReadFile` | `FileSystem` |
| INIT, KPROC (`user/system`) | none | spawn the shell, loop | an assumption of `Kernel` |
| shell (`shell.c`) | the line, `reRan`, the child's pid | read, spawn, try `A:/PROGDAT/`, wait | `Shell`, `FileSystem` |
| procinfo (`procinfo.c`) | count, index, pid in hand | three system calls per line | `ProcInfo` |
| window manager (`user/apps/wm`), launcher | `windows[]`, `windowCount`, `mouseX/Y`, `mouseBG[]` | one message after the other | `WindowManager` |
| descriptors (`gdt.c`), ACPI, ATA, serial, real-mode BIOS calls, fonts, images | — | — | not modelled |

### How they interact

Programs run in ring 3 and call the kernel through `int 0x40`. System calls and
the interrupt handlers of the timer and the keyboard run with interrupts off
(gates of type 0xE), so one is never inside another; every one of them is one
action. Between two of them the CPU executes one instruction or more of the
running program, and an interrupt may come at any point: this is where the
interleavings are. The components share their state through globals:

* `kill()` closes `processes[]` *and* calls `freeMem`, which closes `memList[]`
  and moves the bytes. The two tables are kept in step by two loops.
* `schedulerProcessAt` is written by the timer only, and read by every system
  call as "the caller". After an exit it is stale until the next timer interrupt;
  the CPU spends that time in a loop of two bytes (`wait`), and `saveRegs` tells
  the timer not to save what it finds there.
* `SC_GETUINPUT` leaves a request in the keyboard's globals and jumps into the
  timer handler; the keyboard interrupt serves it later, whoever runs then.
* `sendMessageToProcess` writes into the slot of the receiver. Programs call it
  through `SC_MSG`; the kernel itself calls it for a drawing request of a program
  that does not own the screen, and from the mouse's interrupt, and does not look at the result.
* `ownerPID` is set by `SC_GRAPHICS` and read by the mouse's interrupt; nothing clears it.
* `spawnProcess` looks a path up twice: to size a buffer on the kernel's stack, and to fill it.
* The window manager is the owner of the screen. It only sees messages: mouse movements from
  the kernel, requests for windows and for drawing from programs; and it tells a program by
  message that its window has been moved.

### What is hard, and what has to be right

* **Indexes and addresses go stale.** An exit moves later slots down by one
  and later regions down by the size freed. What remembers an index or an address
  across it (the LDT, `schedulerProcessAt`, the saved contexts, the keyboard's
  request) is right only if something else makes it so.
* **Two tables, two loops.** `freeMem` searches by address; if the tables ever
  disagree it frees another process's memory.
* **Pids are computed** from the time and the number of processes, which is
  not monotone.
* **One request for input** for the whole system.
* **Nobody checks what was lost.** Messages the kernel sends by itself, and those
  of the window manager, are dropped when a queue is full. The mouse's
  packets have no frame but one bit.
* **Answers that are no answers.** A lookup of a missing file may report another
  thing found on the way; procinfo's second call may ask for a pid that is gone.
* **Saved backgrounds.** The cursor is a picture put over the screen and taken away
  again, while programs draw under it.
* **Two records of one line.** The editor counts the characters typed, the console moves a pointer
  over the screen; only together do they show the line, and any program may print meanwhile.
* **Limits**: the memory, `memList[]`, `processes[]`, message queues.
* **Progress**: the search for a ready process must end, and no process may be
  passed over for ever although an exit makes the search skip one.

`PROJECT.json` lists these hazards one by one, at their lines, with the
properties that guard them.

## 2. The modules

```
Memory <- Process <- Keyboard <- Kernel <- KernelSafety <- KernelRefinement <- MCKernel
                                            ^    ^          |  INSTANCE  ^
                                            |    |   RoundRobin, Mailbox |
                                     ProcInfo    |        ^              |
                                                 |      Shell         Desktop

FileSystem <- MCFiles        WindowManager <- MCWindows        Console
```

and the proofs, each module beside the one it is about:

```
KernelProofs <- PreservationProofs <- RefinementProofs <- DesktopProofs
(KernelSafety)          ^             (KernelRefinement)  (Desktop)
                  ProcInfoProofs
                    (ProcInfo)

FileSystemProofs (FileSystem)    WindowProofs (WindowManager)    ConsoleProofs (Console)
```

**Memory** models `memory.c`. `memList` is a function on all the slots of the C
array and keeps the stale values the code leaves in the slots past `memIndex`,
since `freeMem` reads one of them (`memory.c:87`). `ram` maps addresses to cells;
a cell records what wrote it (`<<pid, offset>>` for a byte of a program's image,
tagged pairs for what is stored later), so that a byte that has moved one place
too far, or is somebody else's, shows. `memcpy` is the operator `Copied`.

**Process** models `process.c`. `processes` keeps all 256 slots (`ProcSlots`)
as well; `createProcessEntry` reuses a slot and leaves in it the message bytes
of its last user. A saved context is a record of three parts: `owner`, whose
program counter and stack pointer it holds; `val`, standing for the registers
`PITISR` saves; and `ebp`, which it does not save but loads. C loops that stop
at the first match are `Least` of a set.

**Keyboard** models the part of `ps2kbd.c` that touches processes: Enter,
backspace (the source calls it Return) and a character. Three history variables
(`reader`, `disturbed`, `everDisturbed`) record who asked last and whether an
exit or a second request has spoiled the request; they feed the properties only.

**Kernel** has the actions: `PITISR`, `SC_SPAWNPROC`, `SC_EXIT`, `SC_GETUINPUT`
(which ends in the task switch, as the code's `jmp PITISR` does), `SC_MSG_SEND`,
`SC_MSG_POP`, `RaiseException`, `Keystroke`, and the program's own
`UserCompute` and `UserStore`. `cpu` is what the CPU holds while no handler
runs: the kernel's idle loop at the end of `kmain` (`KernelMain`), a program, or
the wait stub. `halted` is `"no"`, the message of the `herr()` that stopped the
machine, `"panic"` for the halt in `intHerr`, or `"hang"` for a `getNextProcessDry`
that never returns. `RaiseException` tells three sorts of vectors apart: those whose
handler only writes a line; those without an error code, whose handler kills and
returns; and those with one, whose handlers are compiled for a frame without it:
the "code segment" that `intHerr` tests is then the instruction pointer, and the
machine halts.

**KernelSafety** states the properties and the inductive invariant `IInv`.

**RoundRobin** is the abstract scheduler: a row of named processes, a position,
and what the CPU is doing. **Mailbox** is the abstract message passing: one
FIFO box per process, filled by the program that runs (`Send`), by the kernel on
behalf of it (`Forward`) or by nobody who runs (`Notify`). Neither knows of slots, addresses, pids that encode the
time, or memory that moves. **KernelRefinement** maps the kernel's state to theirs
and states that the kernel implements both.

**Desktop** adds the screen's owner and the mouse to the kernel. Its actions are
`TakeScreen`, `SetMode`, `GetPixel` and `ForwardRequest` (the cases of `SC_GRAPHICS`
that touch more than pixels), `ps2MouseISR`, and the kernel's own in `Handler` and `Compute`.
The mouse is part of the model: `phase` counts the bytes of its packet as it sends
them, `mouse_cycle` as the driver counts them. The two may differ from the
beginning, because the interrupt handler may have counted the bytes with which the mouse
acknowledged its initialisation. The driver's only check is bit 3 of what it takes
for a first byte; on its early return it leaves the kernel's selector in DS, which
the processor clears on the way to ring 3 (`ds`), and the program's next access to memory
is a general protection fault (`NoSegment`). The two segments set after a mode switch are
`ModeBase`. What is drawn is left out here.

**ProcInfo** runs procinfo over the kernel: its three calls are actions of their own and
everybody else's steps (`Others`) may come between any two of them.

**Shell** runs the shell over the abstract scheduler, which the kernel is shown to
implement: `Prompt` blocks it, `Start` spawns, `Poll` is the loop around
`processRunning`. What the other programs do is `Others`.

**FileSystem** models `fs.c`, `spawnProcess` up to the signature, and the shell's two
attempts. A path is the sequence of its words; a folder is the sequence of the entries in its first
block, and a name has a base and perhaps a version (`;1`), which is what tells files from
folders. `Walk` is one round of the loop over the components; `PastTheEnd` is the round the code
does when the byte after the path's end is not zero; `WalkSlave` is a lookup on the slave drive,
which is never read. A disc is a constant; the machine is chosen at the start.

**WindowManager** has the messages, the windows table, the cursor and the screen, on a
frame buffer of a few cells, addressed as `putPixel` does: a row that is too long goes
on in the next one. `PopMsg` handles one message whole (`HandleMove`, `HandleDraw`, `HandleCreate`);
programs create a window, draw, and draw again when told of a movement. History variables
(`scene`, `top`, `covered`) record what was drawn, by whom, and whether the cursor lay on it.

**Console** has the text screen and the line editor's view of it. `printChar` is the whole function, and
`Enter`, `Return` and `Character` are the keyboard's cases with their echo; `SC_PRINTCHAR` and `clearScr` are what
programs do meanwhile, one character at a time. Places are cells of two bytes and may lie before the frame
buffer, as they do when a program clears the screen under a line that is then rubbed out; no
memory answers there. `VideoMem` is the address of the frame buffer in cells: the test of the backspace for the
beginning of a row takes the address, and 0xB8000 / 2 is 32 beyond a multiple of 80, so that test holds in column 48 (the *seam*).

The eight modules whose names end in **Proofs** hold the theorems. **MCKernel**, **MCFiles** and
**MCWindows** supply the constants a configuration cannot write.

Operators named after a way a line could be wrong ("What if ...") stand beside the
ones they vary; nothing in the specifications uses them.
`PROJECT.json` pairs each property with such a variation that breaks it.

## 3. What the runs check

The `kernel_*` runs and the three that end in a violation use the specification `Spec` of
the whole kernel (`FairSpec` where a property needs fairness); the others use the
specification of the module named.

| run | module | properties | what it shows |
|---|---|---|---|
| `kernel_memory` | `MCKernel` | `TypeOK`, `TablesAgree`, `Packed`, `RegionsDisjoint`, `PidsAscend`, `InputServed`, `NobodyForgotten`, `SchedulerNeverHangs`, `MemoryPreserved` | programs of two sizes come, store, read lines and go in every order, over the limits of memory and of `memList[]` |
| `kernel_sched` | `MCKernel` | `RunningIsCurrent`, `ContextsOwned`, `RegistersPreserved`, `SchedulesRoundRobin`, `TurnsGoOn` | the timer interrupts every point, between exits, exceptions, reads and keystrokes |
| `kernel_ipc` | `MCKernel` | `DeliversMail` | messages to living processes and reused slots, full and empty queues |
| `desktop` | `Desktop` | `RunningIsCurrent`, `MouseInStep`, `DeliversRequests`, `ScreenNotInherited`, `SegmentsKept` | the screen's owner comes and goes while others draw and the mouse, in or out of step, sends bytes at every point |
| `listing` | `ProcInfo` | `ListingAscends`, `MissedByExits`, `GarbageByExits` | what procinfo prints while others exit and spawn between its calls |
| `roundrobin` | `Shell` | `NoStarvation`, `ShellReturns` | who stays ready runs again and again, and the shell comes back once its child is gone |
| `windows` | `MCWindows` | `OnlyCursorHides`, `ClientShown`, `DragKeepsHold` | windows are created, drawn in and dragged, in every order of messages, boxes and table full |
| `files` | `MCFiles` | `FindsFile`, `AnswersOnPath`, `ReadFits`, `RunsTyped` | paths that are there, elsewhere and nowhere, on six discs, with anything on the stack |
| `console` | `Console` | `EchoShown`, `BlankAhead` | a line longer than the screen is typed and rubbed out while programs print, clear the screen and ask for input |
| `stale_reader` | `MCKernel` | `KeystrokesIsolated` — violated | see below |
| `frame_pointer` | `MCKernel` | `FramePointerPreserved` — violated | see below |
| `fault` | `MCKernel` | `FaultKills` — violated | see below |

What the less obvious ones mean:

* `DeliversRequests`: the kernel with its screen and mouse implements the abstract mailboxes; a request
  the kernel forwards is in the owner's box whole, under its author's name, or not at all. The
  mouse's messages bear the name of whoever runs, which the abstract `Notify` allows; the
  code's comment "Indicates kernel" (`ps2mouse.c:40`) is what the sender then overwrites.
* `ScreenNotInherited`: `ownerPID` outlives its owner, but no later process gets that pid. Nobody
  can draw any more then, which is the code's choice and no property here.
* `MouseInStep`, `SegmentsKept`: one packet whose two data bytes have bit 3 clear puts the driver in step,
  for good, whatever it started with. Before it, a program may lose its data
  segment to the mouse: the model has those behaviours, and they end in `"panic"`.
* `MissedByExits`, `GarbageByExits`: what procinfo leaves out or prints from an unset structure is
  bounded by the exits during its walk; `ListingAscends`: it prints nobody twice.
* `AnswersOnPath`, `FindsFile`: a file that is there is found, with its own size; for one that is not,
  `fs.c` may report success, but only with a folder on the way or a file of the same name in one.
  `ReadFits`: the second lookup of `spawnProcess` never reads more than the first made room for;
  `RunsTyped`: who types a program's path, or the name of one in `PROGDAT`, gets that program.
* `OnlyCursorHides`: apart from what is drawn under the cursor, which its stale background overwrites, the
  screen is what was drawn. `ClientShown`: when all messages are read, a program's drawing is where its
  window is now; only another program may have drawn over it, since nothing clips a drawing at the windows on top. `DragKeepsHold`: a drag goes on with the same window.

* `EchoShown`: what the user sees before the cursor is the line, through the ends of rows and scrolling, until
  others print during it, or a backspace falls on several blanks at the seam: `printChar` then takes all of them off the
  screen, and the editor one off the line. Without that exception TLC finds the property violated in six keystrokes.
  `BlankAhead`: nothing is left from the pointer on, which is what keeps that loop from going forward.

Three runs show the code at odds with what the repository says of it:

* `stale_reader`. The request for input holds an absolute address and an index
  (`idt.c:103`, `idt.c:107`). When a process below the reader exits, both are stale:
  the next line goes to whoever lies at the old address, and Enter wakes
  whoever holds the old slot. `README.md:7-8` of the repository promises
  processes "in a memory isolated environment". `InputServed`, `NobodyForgotten` and
  `MemoryPreserved` say precisely what does hold: everything, until a request is
  disturbed in this way or by a second reader.
* `frame_pointer`. `pit.c:55` restores EBP from a field that no switch
  saves. The repository's programs are compiled with `-fomit-frame-pointer`, which hides it.
* `fault`. `herr.c:60` passes `kill()` an index; `kill()` wants a pid. No pid
  is that small, so the program that raised an exception without an error code (a division by zero, an
  invalid instruction) is never removed. Exceptions with an error code do not come that far: they halt.

### Bounds

* `MaxTick`: the clock stops there (the timer goes on switching), and nobody is spawned
  at it. Pids contain the tick, so this bounds the pids. With the boot at tick
  `BootTicks`, the clock leaves three to seven ticks, enough for a process to be
  spawned, to wait, and to see two others exit and spawn; the wrap of the
  32-bit clock is out of scope.
* `ProcSlots` (4 or 5): `SC_SPAWNPROC` is guarded by room in `processes[]`,
  because the code writes past the array otherwise. Four slots are KPROC, INIT and two
  more, one of which moves when the other exits; five let two move.
* `MemListSize`, `SystemMemory`: in `kernel_memory` both limits are reached, in either order.
  `RamSize` is two cells beyond `SystemMemory`, as the real RAM has the first
  megabyte that `mem_upper` leaves out: `allocMem`'s check ignores the size of the
  last region, so a region may end past the reported memory.
* `Addressees`, `Buffers`, `Offsets`, `Bodies`, `RegVals`, `QueueSize`: who is sent
  messages, the input buffers, where programs store, what they say, the
  values of registers and the queue length: one or two of each, since the
  properties only compare them.
* `desktop` has two programs beside INIT, queues of one message (so that they are full at once) and four
  ticks after the boot: an owner can exit, and two processes come after it.
* `listing` has three programs beside INIT and seven ticks: up to three exits and as many spawns fall into the walk.
* `roundrobin` has four places and five names, without a bound on time: the state space is finite.
* `console`: two rows of four cells with the seam in the third column, one character that shows and the blank; the longer
  buffer takes nine characters, more than the screen. Programs do not print backspaces (none of the repository's does).
* `files`: `Block` is 4 where the code has 2048, so that sizes round up within a few bytes; `MaxStrays` is 2
  rounds beyond the end of a path. The discs have a file with the name asked for in another folder, above and below;
  one without a file in its root, one whose root looks like a program, one without a partition,
  one with another file system, and none. `LOG` is the root's last entry, so that a lookup that fails there reports another size.
* `windows`: a screen of 4 by 4 cells, a title bar of one, a cursor of two, coordinates modulo 8; `MaxEvents` is
  two movements, which `WindowProofs` shows to be enough; three windows fit in the table and four are asked for, of
  which the programs' lie on the same place, so that they draw over each other.
  Windows that wrap, a cursor at every edge, lost messages, the overflow of the table and the power
  button are all reached.

### Assumptions on the environment

* Booting takes at least `ProcSlots` ticks (256 ms on the real machine, with a
  disk read for each of three files): pids then are no indexes.
* INIT only spawns and loops (`init.asm`): it does not exit, wait, pass messages or fault.
  `SchedulerNeverHangs` depends on it.
* Programs pass buffers they own; the kernel's own bounds checks compare with `>` and
  ignore the length, and what a program may break by passing others is not a question asked here.
* In `Kernel`, the file to spawn exists and has the signature; otherwise the call changes nothing. `FileSystem`
  models the rest of that call. A disc is well written (`WellWritten`): the first entry of a folder is
  the folder itself, names in a folder differ, and what has no version is a folder. The words of paths are anything, but what the
  stack holds beyond a path is nobody's name (or the empty one).
* The mouse sends whole packets, the first byte of each with bit 3 (the protocol's rule); what its data
  bytes have there is open. A packet's bytes are not lost on the way: the controller holds one byte
  and the interrupt handler takes it.
* Programs that draw pass a structure in their own memory. A program with a window creates one, and draws again
  for every message that its window has moved (`launcher.c` does).

### Fairness

`FairSpec` adds `WF_vars(PITISR)`: the timer is a device that interrupts a
thousand times a second for as long as the machine runs, and every handler
returns with interrupts on. Nothing is assumed of programs, nor of the user
at the keyboard. `RoundRobin` takes the corresponding `WF(Tick)` and
`kernel_sched` checks that the kernel implements it (`TurnsGoOn`; `SchedulesRoundRobin` is the rest). `NoStarvation` then holds although an
exit makes the search pass over the process that moves into the free slot: nobody
leaves the head of the row, and each time a process is passed over it has come nearer to it.

`ShellSpec` adds `SF(Poll)` to it: a round of the shell's loop is a handful of instructions and
one system call, far shorter than a tick, so a shell that gets the CPU again and again, with its child gone, does
not for ever fail to reach the end of a round. Nothing is assumed of the other programs.
The other specifications have safety properties only.

## 4. What is proved

For every value of the constants that meets their assumptions:

| module | theorem | statement |
|---|---|---|
| `KernelProofs` | `Inductive` | `Spec => []IInv` |
| | `TypeCorrect` | `Spec => []TypeOK` |
| | `TablesCorrect` | `Spec => []TablesAgree` |
| | `MemoryPacked` | `Spec => []Packed` |
| | `IsolatedRegions` | `Spec => []RegionsDisjoint` |
| | `AscendingPids` | `Spec => []PidsAscend` |
| | `SwitchesCorrect` | `Spec => []RunningIsCurrent` |
| | `ContextsCorrect` | `Spec => []ContextsOwned` |
| | `SchedulerLives` | `Spec => []SchedulerNeverHangs` |
| | `InputInductive` | `Spec => [](IInv /\ InputInv)`, if `BuffersHold` |
| | `ReadersServed` | `Spec => []InputServed`, if `BuffersHold` |
| | `NobodyIsForgotten` | `Spec => []NobodyForgotten`, if `BuffersHold` |
| `PreservationProofs` | `RegistersKept` | `Spec => RegistersPreserved` |
| | `MemoryKept` | `Spec => MemoryPreserved`, if `BuffersHold` and `RamHolds` |
| `RefinementProofs` | `KernelSchedulesRoundRobin` | `Spec => SchedulesRoundRobin` |
| | `KernelDeliversMail` | `Spec /\ []~disturbed => DeliversMail`, if `BuffersHold`, `RamHolds`, `DesksHold` and `BuffersApart` |
| | `MailWithoutInput` | `Spec => DeliversMail`, if `RamHolds`, `DesksHold` and no program reads input |
| `DesktopProofs` | `DesktopInductive` | `DesktopSpec => []DesktopInv` |
| | `DesktopCurrent` | `DesktopSpec => []RunningIsCurrent` |
| | `ScreenKept` | `DesktopSpec => ScreenNotInherited` |
| | `MouseSettles` | `DesktopSpec => []MouseInStep` |
| | `SegmentsStay` | `DesktopSpec => SegmentsKept` |
| | `DesktopDelivers` | `DesktopSpec /\ []~disturbed => DeliversRequests`, under the hypotheses of `KernelDeliversMail` |
| | `DesktopWithoutInput` | `DesktopSpec => DeliversRequests`, under those of `MailWithoutInput` |
| `ProcInfoProofs` | `ListsAscending` | `ListingSpec => []ListingAscends` |
| | `GarbageIsPaidFor` | `ListingSpec => []GarbageByExits` |
| | `MissesArePaidFor` | `ListingSpec => []MissedByExits` |
| `WindowProofs` | `CursorGivesBack` | `Spec => []OnlyCursorHides` |
| | `DragsKeepHold` | `Spec => DragKeepsHold` |
| | `ClientsShow` | `Spec => []ClientShown`, if `MarksFit` |
| `ConsoleProofs` | `NothingAhead` | `Spec => []BlankAhead` |
| | `LineShown` | `Spec => []EchoShown` |
| `FileSystemProofs` | `FileSystemTypes` | `Spec => [](FSTypes /\ Walking)` |
| | `LookupsStayOnPath` | `Spec => []AnswersOnPath` |
| | `LookupsFindFiles` | `Spec => []FindsFile` |
| | `ReadsFit` | `Spec => []ReadFits` |
| | `TypedProgramsRun` | `Spec => []RunsTyped` |

The hypotheses are about the programs and the machine, and each run whose property depends on one meets it:

* `BuffersHold`: an input buffer has a place for the NUL and lies in its owner's memory. The kernel only logs a size of 0 and goes
  on (`idt.c:99`); Enter would then store its NUL beyond the buffer.
* `RamHolds`: the RAM ends far enough beyond the memory the boot loader reports. `allocMem` ignores the size of the last region
  (`memory.c:59`), so that region may end beyond the report; where no RAM answers there, what is stored is lost.
* `DesksHold`: a program's message structure lies in its own memory. `BuffersApart`: nobody reads a line into it.
* `[]~disturbed`: no request for input is spoiled by an exit below the reader (see `stale_reader`). Otherwise the line
  typed next may be stored in somebody else's message structure, so it cannot be left out; `MailWithoutInput` shows that nothing else can
  spoil the mail.
* `MarksFit`: what a program draws lies in its window. `SC_GRAPHICS` and the manager clip nothing.

### The kernel's invariant

None of the invariants is inductive alone. `freeMem` finds the region of the
process that dies only because start addresses are all different, which needs
`Packed`, `SizesPositive` (a process has its stack) and `TablesAgree`; `kill()`
finds the right slot only because pids are unique (`PidsAscend`); that the
next pid is new needs `PidsPast`, where the exit that lowers the count is made
up for by the tick that ends the wait stub; that an exception kills nobody, and so
does not pull the memory from under the running program, needs `PidsHigh`; that
the scheduler finds somebody needs `InitReady`. `IInv` joins them.

The proof has one lemma per kind of step: `SpawnKeepsIInv` and
`ExitKeepsIInv` for the two that change the tables, `SwitchKeepsIInv` for the task
switch in the timer and in `SC_GETUINPUT`, and `CalmKeepsIInv` for all that leave the tables and
the scheduler alone (`CalmSteps` shows which); `TypeStep` is the type
correctness of every action. `LeastIsLeast`, `IndexFound`, `OwnIndex`, `OwnEntry`
are about the searches.

`InputInv` is what has to be known about the request beside `IInv`. `Undisturbed` says that the slot the
keyboard remembers is the reader's, that it waits, and that the buffer lies in its memory; an exit above the reader
keeps that because it moves neither the slot nor the region (`ExitServed`), and one below sets `disturbed`.
`PosReset` is needed because `SC_GETUINPUT` does not set `processBufferPos` and relies on Enter having left 0 there.
`NobodyForgotten` needs that to be inductive: Enter wakes the slot remembered, which must be the only one that waits.

`DesktopInv` is `IInv` with two conjuncts. `OwnerPast` says of `ownerPID` what `PidsPast` says of the
pids in the table: it is below the next pid, or equal to it right after an exit, until the timer
interrupts the wait stub. It is needed because the owner may be gone, and its pid with it from the table.
`StepShape` sums up what a step of the kernel does to the pids and the clock: nothing, a
switch (the clock goes on), a spawn (one pid more, made of the clock) or an exit (no new pid);
that is all `OwnerPast` and `ScreenNotInherited` need. `MouseInv` adds to `MouseInStep` that after two bytes of a
quiet packet the driver cannot have counted one. `ScreenIsCalm` shows that what `SC_GRAPHICS` and the mouse do
is calm, `SetMode` because the base it sets is the one the caller had (`RunningIsCurrent`).

### What survives

`RegistersPreserved` and `MemoryPreserved` compare a process before and after a step by its pid. `SlotsKeepPlaces` and
`ExitMoves` say where its slot is afterwards: nothing but an exit moves a slot, and an exit moves the slots above by one.
For the registers, `SavesOutsideStub` (`saveRegs` is set unless the CPU waits in the stub) is the part of the state that
makes the switch save what it should and nothing else. For the memory, `ExitMovesBytes` is about the copy in `freeMem`: every byte of every
region that stays is found at its owner's new place, which needs `Packed` and `RegionsDisjoint`, and that the copy ends
inside the RAM (`InRam`). What a keystroke stores is the reader's own, from `InputInv`.

### The two refinements

Each action of the kernel is mapped to an action of the abstract specification or to none. For the round robin: the switch is
`Tick` (`NextHasTurn`: the slot `getNextProcess` finds is the one the row's CPU comes to, passing over none that is ready), `SC_EXIT` is
`Exit` and the shift of the slots is the shift of the row, `SC_GETUINPUT` is `Block` with its switch, and Enter is `Wake`. For the
mailboxes: `SC_MSG_SEND` is `Send`, `SC_MSG_POP` is `Read` (the shift by hand is `Tail`, `QueuePopped`), a program's store into its
structure is `Scribble`; everything else leaves boxes and desks alone or makes one, or removes one. `Asked` adds what a reader asked for to
the invariant. That a box outlives the move of its slot is `QueueIsSeq` applied to both places; that the structure
outlives the move of its bytes is `MemStep` of the section above.

With the screen and the mouse (`DesktopDelivers`) the steps of the kernel keep their places in the mailboxes (`DesktopMailStep`
hands them to the lemmas above), and three are new. `ForwardRequest` is `Forward`: the request is the caller's own
structure, whole, and its name is the caller's, because the CPU is in a system call (`CallerIsCurrent`). The mouse's message is
`Notify`: `SlotPids` is needed for it, because the interrupt may fall into the wait stub, when `schedulerProcessAt` names
a free slot; the pid found there is still a pid, and the abstract `Notify` allows every name. `GetPixel` is `Scribble`.
`PostDelivers` is about `sendMessageToProcess` itself: the message is at the end of the receiver's box, or, when that is full,
nowhere, and no other box changes.

### procinfo

Both ends of the walk are related by `TableAges`: from one state to the next a process that stays moves to the same index or one
below, and the pid at an index only grows. So the pids printed ascend (`Ordered`) and a walk meets nobody twice. `GarbagePaid` and `MissesPaid` count against the exits so far. An exit can cost a line of garbage twice: once for the
pid in hand that has just gone (`LostInHand`), or a line before the index where the table now ends (`EarlyGarbage`, at most one for each exit), and
once for the index at the end that is no longer used. `Missed` are the processes the walk has passed without listing them.

### The window manager

`CursorHides` is `OnlyCursorHides` and says where the saved background comes from. `WinTypes` keeps the coordinates in a word and the windows in their
table. `DragHolds` splits a movement into a title bar held before and after. For `ClientShown`, `Along` follows the messages of one program:
its window is created before anything is drawn into it (`CreatedFirst`), once (`CreatedOnce`), and its drawing is
on the screen at the window's place (`Shown`), or is in the manager's box, or the program still has a movement to read. TLC checked
it as an invariant before it was proved. A bound of two windows had hidden that a program may draw over another's
drawing, which an earlier form of the property denied; the proof did not go through, and the run now has three.

### The console

`BlankAhead` bounds what the loop of the backspace can reach: `BackIs` shows that it ends at the last character before the pointer,
and that its branch `video_mem + 1` is never taken. `Stands` says that a line stands before a place on the screen, with what has scrolled
away left out; `SettleStands`, `CharacterStands` and `ReturnStands` are the three ways the echo moves it. `MaxIsGreatest` (a finite set of places has a
last one) is proved from the well-foundedness of the order.

### The file system

`FoundEntry` and `FolderScan` are about one scan of a folder, `ComponentsOf` and `FromHere` about the words of a path: at its k-th word
the loop has `From(path, k)` before it. `Walking` says that it always is at some word or beyond the end (`Strayed`), and in
a folder of the disc. `RoundAt` and `RoundBeyond` are the two kinds of rounds, `StepKinds` the kinds of steps. On that stand four invariants:

* `OnPath`: the folder the loop is in is reached from the root by the words passed so far, some of them left out. A round
  extends the route by one folder or stays (`RouteGoesOn`); beyond the end it stays, because the only
  name it can match is the empty one, which is the folder's own.
* `Finding`: if the path leads to a file, the loop is on every route to it (there is one, but that need not be known). `NamedMatched` is
  where the names in a folder have to be different.
* `Repeats`: the rounds of the second lookup of `spawnProcess` are those of the first. The first leaves a trace behind it, a function
  from words to places and sizes, which the second is led along; `BlocksOnce` shows that what is rounded up stays when it is
  rounded up again, as `iso9660Read` does. `strays = 0` is needed: what the stack holds after the path need not be the same twice.
* `Starting`: a program that was typed has been started, or its path is looked up now, or this is the shell's first try with a bare
  name (`FirstTry`), in which the loop stays at the root, so that what is read, if anything, is a folder and refused.

Two things were found on the way. `ReadFits` had been claimed of a `readSize` that an earlier spawn had left behind, and compared it with the
size of another buffer; it held on the discs of the run by the sizes of their files. It is now claimed
from the line's typing until somebody else asks, `readSize` begins with each buffer, and a disc of the run has a last
entry whose size gives a lookup that fails another size. And the references of `FindsFile` and `AnswersOnPath` had been folds over a path; they
are now stated by the routes a path describes, which says the same and can be reasoned about.

### Assumptions, and what is only model-checked

The assumptions used are `MemoryAssumption`, `ProcessAssumption`, `KernelAssumption`, `DesktopAssumption`, `WindowAssumption`,
`ConsoleAssumption` and `FileSystemAssumption`, which TLC evaluates in every run of the module that has them.

Every safety property and every refinement that a passing run checks is stated by a theorem. Only model-checked are `NoStarvation`,
`ShellReturns` and `TurnsGoOn`: they are liveness under fairness, for which this prover has no rules for `ENABLED`.

## 5. Plan

What is left, in order:

1. What a line that names no program may start: `RunsTyped` speaks of those that name one.
2. `SC_LOADFILE` of a file that is missing, whose read goes where an uninitialised structure says.
3. The descriptors' bit layout, as functions on words of fixed width.

## 6. Not modelled

* ATA transfers, the serial log and port I/O: no state outlives a call. ACPI: firmware tables read once at boot.
* The real-mode switch for VBE, which is BIOS code; the decoding of images and fonts, which only produces pixels;
  of the text console, colours, the blinking cursor and the digits of `printInt`, which nothing reads.
* The bit layout of the GDT and LDT, and the ring-0 stack in the TSS, which is read from a compiler's frame.
* A fault inside the kernel, which halts the machine; the modifier keys and
  keyboard layouts, which choose among characters no property tells apart.
* Undefined behaviour that has no bounded set of outcomes: the write past `processes[]` (guarded), a frame
  buffer write far outside it when a window's coordinates wrap (cut off at the screen), `SC_LOADFILE` of a missing
  file, which reads the place an uninitialised structure names and reports success (`fs.c:70`), and what
  `drawWindow(-1)` draws when the windows table is full (recorded in `wild`).

Two oddities of the window manager are modelled as they are: a program's window gets its height for its width and
the other way round (`wm.c:197` passes them in the order `window.h` declares, `window.c:15` takes them
in the other), and a line is drawn with its second end's height for both ends (`wm.c:187`).
