------------------------------ MODULE Desktop -------------------------------
(***************************************************************************)
(* The kernel with a screen and a mouse: who owns the screen (SC_GRAPHICS  *)
(* in src/foki/idt.c, ownerPID in src/foki/vga.c), the requests the kernel *)
(* passes on to the owner, and the PS/2 mouse driver (src/foki/ps2mouse.c) *)
(* that sends the owner every movement.  What is drawn is left out.        *)
(*                                                                         *)
(* The mouse sends packets of three bytes.  The first has bit 3 set, the   *)
(* others may; nothing else tells them apart, and the driver's counter may *)
(* start out of step, because the interrupt handler counts the bytes with  *)
(* which the mouse acknowledges its initialisation.                        *)
(***************************************************************************)
EXTENDS KernelRefinement, Sequences

CONSTANTS
    Requests,   \* bodies of the messages made from drawing requests
    MouMov      \* body of the message made from a mouse packet

ASSUME DesktopAssumption == Requests \subseteq Int /\ MouMov \in Int

VARIABLES
    ownerPID,       \* uint32_t ownerPID: owner of the screen, 0 for nobody
    ownerSet,       \* bool ownerSet
    mouse_cycle,    \* uint8_t mouse_cycle: bytes of a packet read
    ds,             \* the data segment the running program has: its own
                    \* ("user") or none ("null")
    phase,          \* the mouse: bytes of the packet sent
    quiet,          \* the mouse: the packet's second byte had bit 3 clear
    settled         \* history: a whole quiet packet has gone by

screenVars == <<ownerPID, ownerSet>>
mouseVars == <<mouse_cycle, phase, quiet, settled>>
desktopVars == <<vars, screenVars, mouseVars, ds>>

-----------------------------------------------------------------------------

(***************************************************************************)
(* SC_GRAPHICS                                                             *)
(***************************************************************************)

\* Programs that draw; the structure they pass lies in their own memory.
Draws == UserRuns /\ NotInit /\ MsgOffset < Current.memSize

\* Until somebody takes the screen, everybody draws on it directly.
MayDraw == Current.pid = ownerPID \/ ~ownerSet

\* EBX = 3.
TakeScreen ==
    /\ Draws
    /\ MayDraw
    /\ ownerPID' = Current.pid
    /\ ownerSet' = TRUE
    /\ ds' = "user"
    /\ UNCHANGED <<vars, mouseVars>>

\* What if the LDT were left as initGDT fills it.
ModeBaseUnset == 0

\* The base that the caller's segments get once the mode switch has gone through
\* real mode and initGDT.
ModeBase == Current.memStart

\* EBX = 0 and 6: graphics mode and text mode.
SetMode ==
    /\ Draws
    /\ MayDraw
    /\ ldtBase' = ModeBase
    /\ ds' = "user"
    /\ UNCHANGED <<memVars, tableVars, tick, kbdVars, readVars, saveRegs, cpu, halted,
                   faulted, screenVars, mouseVars>>

\* EBX = 4: a pixel is stored in the caller's structure.
GetPixel ==
    /\ Draws
    /\ MayDraw
    /\ ram' = Stored(Current.memStart + MsgOffset, <<Current.pid, -1>>)
    /\ ds' = "user"
    /\ UNCHANGED <<memList, memIndex, tableVars, tick, kbdVars, readVars, cpuVars,
                   halted, faulted, screenVars, mouseVars>>

\* What the kernel sends by itself; that it did not fit is not looked at.
Post(pid, body) ==
    IF CanSend(pid) THEN SendMessageToProcess(pid, body) ELSE UNCHANGED processes

\* EBX = 0, 1 and 2 of a program that does not own the screen.
ForwardRequest(body) ==
    /\ Draws
    /\ ~MayDraw
    /\ Post(ownerPID, body)
    /\ ds' = "user"
    /\ UNCHANGED <<memVars, processCount, schedulerProcessAt, tick, kbdVars, readVars,
                   cpuVars, halted, faulted, screenVars, mouseVars>>

SC_GRAPHICS ==
    \/ TakeScreen
    \/ SetMode
    \/ GetPixel
    \/ \E body \in Requests : ForwardRequest(body)

-----------------------------------------------------------------------------

(***************************************************************************)
(* The mouse                                                               *)
(***************************************************************************)

\* What if the first byte were not checked, or every byte were.
AcceptedAnyway(bit3) == TRUE
AcceptedOnlyMarked(bit3) == bit3

\* A byte is dropped if it would be a packet's first and has bit 3 clear.
Accepted(bit3) == mouse_cycle # 0 \/ bit3

\* The mouse sends its next byte, with or without bit 3.
MouseByte(bit3) ==
    /\ phase = 0 => bit3
    /\ phase' = (phase + 1) % 3
    /\ settled' = (settled \/ (phase = 2 /\ quiet /\ ~bit3))
    /\ quiet' = (settled' \/ phase # 1 \/ ~bit3)

\* The interrupt for one byte.  The early return leaves the kernel's segment in
\* DS, which the CPU takes away on the way back to ring 3.
ps2MouseISR(bit3) ==
    /\ Running
    /\ MouseByte(bit3)
    /\ IF Accepted(bit3)
       THEN /\ mouse_cycle' = (mouse_cycle + 1) % 3
            /\ ds' = "user"
            /\ IF mouse_cycle = 2 /\ ownerPID # 0 THEN Post(ownerPID, MouMov)
                                                  ELSE UNCHANGED processes
       ELSE /\ ds' = IF cpu.owner = KernelMain THEN ds ELSE "null"
            /\ UNCHANGED <<mouse_cycle, processes>>
    /\ UNCHANGED <<memVars, processCount, schedulerProcessAt, tick, kbdVars, readVars,
                   cpuVars, halted, faulted, screenVars>>

\* The next access to memory without a data segment: a general protection
\* fault, whose vector has an error code.
NoSegment ==
    /\ UserRuns
    /\ ds = "null"
    /\ halted' = "panic"
    /\ UNCHANGED <<memVars, tableVars, tick, kbdVars, readVars, cpuVars, faulted,
                   screenVars, mouseVars, ds>>

-----------------------------------------------------------------------------

\* The handlers of the kernel end with the user's data segment in DS, or in the
\* trampoline, which loads it.  SC_EXIT does not, and the wait stub needs none.
Handler ==
    /\ \/ PITISR
       \/ SystemCall
       \/ \E vector \in Exceptions : RaiseException(vector)
       \/ Keystroke
    /\ ds' = IF cpu'.owner = WaitStub THEN "null" ELSE "user"
    /\ UNCHANGED <<screenVars, mouseVars>>

Compute ==
    /\ Program
    /\ ds = "user"
    /\ UNCHANGED <<screenVars, mouseVars, ds>>

DesktopInit ==
    /\ Init
    /\ ownerPID = 0
    /\ ownerSet = FALSE
    /\ mouse_cycle \in 0 .. 2       \* four bytes acknowledged, counted or not
    /\ phase = 0
    /\ quiet = TRUE
    /\ settled = FALSE
    /\ ds = "user"

DesktopNext ==
    \/ Handler
    \/ Compute
    \/ SC_GRAPHICS
    \/ \E bit3 \in BOOLEAN : ps2MouseISR(bit3)
    \/ NoSegment

DesktopSpec == DesktopInit /\ [][DesktopNext]_desktopVars

-----------------------------------------------------------------------------

(***************************************************************************)
(* The abstract mailboxes                                                  *)
(***************************************************************************)

PB == INSTANCE Mailbox WITH
        Ids <- PidRange, Capacity <- QueueSize, Notices <- {MouMov},
        mail <- MailOf, desk <- DeskOf, running <- RunningOf

\* What the kernel sends by itself is delivered like what programs send: a drawing
\* request goes to the owner's box whole, with its true author on it, or not at
\* all; the mouse's messages take their places in between; and neither leaves
\* anything in a box that a new process gets.
DeliversRequests == PB!Spec

-----------------------------------------------------------------------------

\* ownerPID outlives its owner.  No process that comes later finds the screen to
\* be its own: its pid is never one that the owner, perhaps long gone, had,
\* although pids are computed from a count that exits lower.
ScreenNotInherited == [][\A p \in Pids' \ Pids : p # ownerPID]_desktopVars

\* Once the mouse has sent one whole packet without bit 3 in its data bytes, the
\* driver counts its bytes as the mouse does, for good, however far out of step
\* it started: its only check finds the first byte and never refuses it again.
MouseInStep == settled => mouse_cycle = phase

\* From then on no mouse interrupt takes the data segment away from the program
\* it interrupts, which would be halting the machine at its next access.
SegmentsKept ==
    [][\A bit3 \in BOOLEAN :
          settled /\ ds = "user" /\ ps2MouseISR(bit3) => ds' = "user"]_desktopVars

=============================================================================
