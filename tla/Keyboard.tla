------------------------------ MODULE Keyboard ------------------------------
(***************************************************************************)
(* The PS/2 keyboard driver (src/foki/ps2kbd.c) and the read request that  *)
(* SC_GETUINPUT (src/foki/idt.c) leaves for it.                            *)
(*                                                                         *)
(* There is one request for the whole system, in global variables: an      *)
(* ABSOLUTE address, a size and the INDEX of the process to wake.  Nothing *)
(* updates them when a process exits and the table and the memory below    *)
(* the reader close up.                                                    *)
(***************************************************************************)
EXTENDS Process

VARIABLES
    processBufferLoc,       \* char *: where the next line goes, absolute
    processBufferPos,       \* characters typed so far
    processBufferSize,      \* size the reader asked for
    processWaitingForInput, \* a request is outstanding
    inputWaintingPID,       \* index (despite the name) of the process to wake
    reader,                 \* history: pid of the last process that asked
    disturbed,              \* history: the outstanding request has overtaken
                            \* another one, or a process below the reader exited
    everDisturbed           \* history: some request so far was disturbed

kbdVars == <<processBufferLoc, processBufferPos, processBufferSize,
             processWaitingForInput, inputWaintingPID>>
readVars == <<reader, disturbed, everDisturbed>>

-----------------------------------------------------------------------------

Nul == <<-3, 0>>
Typed == <<-3, 1>>

\* RAM after one byte is stored; an address where no RAM is loses it.
Stored(a, cell) == [b \in Addr |-> IF b = a THEN cell ELSE ram[b]]

\* What if the offset were not converted to a real address.
BufferAtOffset(offset) == offset

\* The caller's offset converted to an absolute address, valid for as long as
\* the caller's region stays where it is.
BufferAt(offset) == offset + processes[schedulerProcessAt].memStart

\* The globals as SC_GETUINPUT sets them: processBufferPos is left alone.
RequestLine(offset, size) ==
    /\ processBufferLoc' = BufferAt(offset)
    /\ processBufferSize' = size
    /\ processWaitingForInput' = TRUE
    /\ inputWaintingPID' = schedulerProcessAt
    /\ reader' = processes[schedulerProcessAt].pid
    /\ disturbed' = processWaitingForInput
    /\ everDisturbed' = (everDisturbed \/ processWaitingForInput)
    /\ UNCHANGED processBufferPos

\* What if Enter woke the process it interrupts.
WokenRunning == [processes EXCEPT ![schedulerProcessAt].waiting = FALSE]

\* The slot recorded by the request is woken, whoever is in it by now.
Woken == [processes EXCEPT ![inputWaintingPID].waiting = FALSE]

\* Enter: the request is over, the process at that index runs again, and the
\* line is terminated.
KbdEnter ==
    /\ processWaitingForInput
    /\ processWaitingForInput' = FALSE
    /\ processes' = Woken
    /\ ram' = Stored(processBufferLoc + processBufferPos, Nul)
    /\ processBufferPos' = 0
    /\ processBufferSize' = 0
    /\ UNCHANGED <<processBufferLoc, inputWaintingPID>>

\* The "Return" case of the switch, which is the backspace key.
KbdReturn ==
    /\ processBufferPos > 0
    /\ processWaitingForInput
    /\ processBufferPos' = processBufferPos - 1
    /\ ram' = Stored(processBufferLoc + processBufferPos - 1, Nul)
    /\ UNCHANGED <<processes, processBufferLoc, processBufferSize,
                   processWaitingForInput, inputWaintingPID>>

\* Room for a character and the NUL after it.
RoomForChar == processBufferPos < processBufferSize - 1

\* The default case: a character, kept while it leaves room for the NUL.
KbdChar ==
    /\ processWaitingForInput
    /\ RoomForChar
    /\ ram' = Stored(processBufferLoc + processBufferPos, Typed)
    /\ processBufferPos' = processBufferPos + 1
    /\ UNCHANGED <<processes, processBufferLoc, processBufferSize,
                   processWaitingForInput, inputWaintingPID>>

\* One keyboard interrupt that changes anything beyond the modifier flags.
PS2KBDISR == KbdEnter \/ KbdReturn \/ KbdChar

KbdInit ==
    /\ processBufferLoc = 0
    /\ processBufferPos = 0
    /\ processBufferSize = 0
    /\ processWaitingForInput = FALSE
    /\ inputWaintingPID = 0
    /\ reader = 0
    /\ disturbed = FALSE
    /\ everDisturbed = FALSE

KbdTypeOK ==
    /\ processBufferLoc \in Int
    /\ processBufferPos \in Int
    /\ processBufferSize \in Int
    /\ processWaitingForInput \in BOOLEAN
    /\ inputWaintingPID \in Slots
    /\ reader \in Int
    /\ disturbed \in BOOLEAN
    /\ everDisturbed \in BOOLEAN

=============================================================================
