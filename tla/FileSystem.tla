----------------------------- MODULE FileSystem -----------------------------
(***************************************************************************)
(* The file system (src/foki/fs.c) and who asks it: spawnProcess           *)
(* (src/foki/process.c), the calls SC_LOADFILE and SC_GETFILEINFO          *)
(* (src/foki/idt.c), and the shell, which looks a program up twice.        *)
(*                                                                         *)
(* Interrupts are off during all of it, so there is one lookup at a time.  *)
(* A path is the sequence of words between its slashes; the first is a     *)
(* drive ("A:") or, when somebody has typed a bare name, the name.  The    *)
(* name of a file on the disc has a version, ";1", after its base.         *)
(***************************************************************************)
EXTENDS Naturals, Sequences, SequencesExt

CONSTANTS
    Block,          \* BLOCK_SIZE (2048)
    Discs,          \* what the master drive may be: present or not, with a partition
                    \* in its first sector or not, ISO9660 or not; the place of its
                    \* root, the entries of each folder's first block, and at each
                    \* place which bytes of a signature, 1 to 3, are there
    Words,          \* what may stand between two slashes
    DriveWords,     \* "A:", "B:"
    Initial,        \* [word -> its first character]
    Lines,          \* what is typed at the shell
    Paths,          \* what other programs ask for
    TooLong,        \* lines that leave no room for "A:/PROGDAT/" in the buffer
    MaxStrays       \* bound: components read from beyond the end of paths, per request

Nothing == 0        \* no file's place
Unknown == 1        \* the place of what an uninitialised buffer holds
Places == Nat \ {Nothing, Unknown}

Stray == "(stray)"  \* a word that is nobody's name
Empty == ""

Entries == [name : [base : Words, version : BOOLEAN], loc : Places, size : Nat]

\* A folder's first entry, whose name is empty, is the folder itself; no two
\* entries have one name; and what has no version is a folder.
WellWritten(disc) ==
    /\ {disc.present, disc.part, disc.iso} \subseteq BOOLEAN
    /\ disc.root \in DOMAIN disc.folders
    /\ \A l \in DOMAIN disc.folders :
          LET folder == disc.folders[l]
          IN  /\ l \in Places
              /\ folder \in Seq(Entries) /\ folder # <<>>
              /\ \A i, j \in DOMAIN folder : folder[i].name = folder[j].name => i = j
              /\ \A i \in DOMAIN folder :
                    ~folder[i].name.version =>
                        /\ folder[i].loc \in DOMAIN disc.folders
                        /\ folder[i].name.base = Empty => folder[i].loc = l

ASSUME FileSystemAssumption ==
    /\ Block \in Nat \ {0} /\ MaxStrays \in Nat
    /\ Stray \notin Words /\ {"A:", "PROGDAT"} \subseteq Words
    /\ "A:" \in DriveWords /\ Initial["A:"] = "A"
    /\ Lines \cup Paths \subseteq Seq(Words) \ {<<>>}
    /\ \A disc \in Discs : WellWritten(disc)

VARIABLES
    hw,             \* the machine: [disc, slave], slave in {"none", "blank", "part"}
    drives,         \* drives[0 .. driveCount - 1], as a sequence
    pc,             \* "boot", "panic", "prompt", "walk", "looked" or "failed"
    caller,         \* who waits for the lookup: "spawn" (spawnProcess, to size its
                    \* buffer), "read" (its fsReadFile), "SC_LOADFILE", "SC_GETFILEINFO"
    path, rest,     \* the path looked up, and the components not yet looked for
    lastFolderLoc, fileSize, lastDirIsFile,
    info,           \* spawnProcess's fileInfo
    bufferSize,     \* bytes of its processBuffer
    readSize,       \* bytes read into it
    line, reRan,    \* the shell's
    started,        \* place of what was spawned for the line, or Nothing
    strays          \* history: rounds beyond the end of a path, for this line or file

lookupVars == <<caller, path, rest, lastFolderLoc, fileSize, lastDirIsFile>>
spawnVars == <<info, bufferSize, readSize>>
shellVars == <<line, reRan, started>>
fsVars == <<hw, drives, pc, lookupVars, spawnVars, shellVars, strays>>

-----------------------------------------------------------------------------

(***************************************************************************)
(* Drives                                                                  *)
(***************************************************************************)

\* parsePartitionTable adds the drive if the disk has a partition.
MasterDrive ==
    IF hw.disc.part THEN <<[letter |-> "A", slave |-> FALSE, iso |-> hw.disc.iso]>> ELSE <<>>

\* Letters count disks, with a partition or not.  isISO9660 reads only from the
\* master: for the slave it looks at what is left on the stack (guess).
SlaveDrive(guess) ==
    IF hw.slave = "part"
    THEN <<[letter |-> IF hw.disc.present THEN "B" ELSE "A", slave |-> TRUE, iso |-> guess]>>
    ELSE <<>>

InitFS ==
    /\ pc = "boot"
    /\ \E guess \in BOOLEAN : drives' = MasterDrive \o SlaveDrive(guess)
    /\ pc' = IF ~hw.disc.present /\ hw.slave = "none" THEN "panic" ELSE "prompt"
    /\ UNCHANGED <<hw, lookupVars, spawnVars, shellVars, strays>>

\* getDriveIndexFromLetter.
DriveOf(p) == SelectInSeq(drives, LAMBDA d : d.letter = Initial[p[1]])

-----------------------------------------------------------------------------

(***************************************************************************)
(* iso9660GetFileInfo                                                      *)
(***************************************************************************)

\* What if the last component were looked for without its version.
ComponentsBare(p) ==
    LET words == IF p[1] \in DriveWords /\ Len(p) > 1 THEN Tail(p) ELSE <<Stray>> \o Tail(p)
    IN  [i \in DOMAIN words |-> [base |-> words[i], version |-> FALSE]]

\* ";1" is appended, and the drive and its slash are skipped: three characters,
\* whatever they are.
Components(p) ==
    LET words == IF p[1] \in DriveWords /\ Len(p) > 1 THEN Tail(p) ELSE <<Stray>> \o Tail(p)
    IN  [i \in DOMAIN words |-> [base |-> words[i], version |-> i = Len(words)]]

\* The first entry of that name, or 0.
Found(folder, name) == SelectInSeq(folder, LAMBDA e : e.name = name)

\* What if the search went on after it has found the name.
SeenAll(folder, i) == Len(folder)

\* The last entry looked at.
Seen(folder, i) == IF i = 0 THEN Len(folder) ELSE i

\* A lookup begins: fsGetFileInfo or fsReadFile.
BeginLookup(who, p) ==
    /\ caller' = who
    /\ path' = p
    /\ rest' = Components(p)
    /\ lastFolderLoc' = hw.disc.root
    /\ fileSize' = 0
    /\ lastDirIsFile' = FALSE
    /\ pc' = IF DriveOf(p) = 0 \/ ~drives[DriveOf(p)].iso THEN "failed" ELSE "walk"

\* The string that ends after the last component has one byte more than was read:
\* if what follows on the stack is not a zero, it is taken for a component.
PastTheEnd ==
    \/ pc' = "looked" /\ UNCHANGED <<rest, strays>>
    \/ /\ strays < MaxStrays
       /\ strays' = strays + 1
       /\ \E word \in {Stray, Empty} : rest' = <<[base |-> word, version |-> FALSE]>>
       /\ UNCHANGED pc

\* A round of the loop: one component is looked for in one folder.  If it is not
\* there, the next one is looked for in the same folder.
Walk ==
    /\ pc = "walk"
    /\ ~drives[DriveOf(path)].slave
    /\ LET folder == hw.disc.folders[lastFolderLoc]
           i == Found(folder, Head(rest))
           seen == SubSeq(folder, 1, Seen(folder, i))
       IN  /\ fileSize' = Last(seen).size
           /\ lastDirIsFile' = (lastDirIsFile \/ \E k \in DOMAIN seen : seen[k].name.version)
           /\ lastFolderLoc' = IF i = 0 THEN lastFolderLoc ELSE folder[i].loc
           /\ IF i # 0 /\ Head(rest) = Last(Components(path))
              THEN pc' = "looked" /\ UNCHANGED <<rest, strays>>
              ELSE IF Len(rest) > 1
              THEN rest' = Tail(rest) /\ UNCHANGED <<pc, strays>>
              ELSE PastTheEnd
    /\ UNCHANGED <<hw, drives, caller, path, spawnVars, shellVars>>

\* commonRead does not read from the slave: the buffer holds anything.
WalkSlave ==
    /\ pc = "walk"
    /\ drives[DriveOf(path)].slave
    /\ pc' = "looked"
    /\ lastDirIsFile' \in BOOLEAN
    /\ fileSize' \in {0, Block}
    /\ lastFolderLoc' = Unknown
    /\ UNCHANGED <<hw, drives, caller, path, rest, spawnVars, shellVars, strays>>

-----------------------------------------------------------------------------

(***************************************************************************)
(* Those who ask                                                           *)
(***************************************************************************)

\* What if sizes were left as they are on the disc.
BytesToBlockExact(b) == b

\* BYTES_TO_BLOCK.
BytesToBlock(b) == ((b + Block - 1) \div Block) * Block

Missing == pc = "failed" \/ (pc = "looked" /\ ~lastDirIsFile)
Answered == pc = "looked" /\ lastDirIsFile
Answer == [size |-> BytesToBlock(fileSize), lbaLoc |-> lastFolderLoc]

\* What if the signature were not looked at.
AcceptedAlways(loc) == TRUE

\* The signature is refused only if all of its characters differ.
Accepted(loc) == hw.disc.looks[loc] # {}

\* SC_LOADFILE and SC_GETFILEINFO; whoever has made the call is not modelled, nor is
\* what it is given: a SC_LOADFILE of what is missing reads from an
\* uninitialised place, and reports success.
AskForFile(p) ==
    /\ pc = "prompt"
    /\ \E who \in {"SC_LOADFILE", "SC_GETFILEINFO"} : BeginLookup(who, p)
    /\ strays' = 0
    /\ UNCHANGED <<hw, drives, spawnVars, shellVars>>

FileReturned ==
    /\ caller \in {"SC_LOADFILE", "SC_GETFILEINFO"}
    /\ Missing \/ Answered
    /\ pc' = "prompt"
    /\ UNCHANGED <<hw, drives, lookupVars, spawnVars, shellVars, strays>>

\* The shell has a line, and asks for it to be spawned.
Type(l) ==
    /\ pc = "prompt"
    /\ line' = l
    /\ reRan' = FALSE
    /\ started' = Nothing
    /\ bufferSize' = 0
    /\ readSize' = 0
    /\ BeginLookup("spawn", l)
    /\ strays' = 0
    /\ UNCHANGED <<hw, drives, info>>

\* spawnProcess has found a size for its buffer, which is a new one.
SpawnSized ==
    /\ caller = "spawn"
    /\ Answered
    /\ info' = Answer
    /\ bufferSize' = Answer.size
    /\ readSize' = 0
    /\ BeginLookup("read", path)
    /\ UNCHANGED <<hw, drives, shellVars, strays>>

Retry(l) == <<"A:", "PROGDAT">> \o l

\* spawnProcess has returned 0: the shell puts the directory of programs before
\* the line, once.
SpawnFailed ==
    IF reRan \/ line \in TooLong
    THEN pc' = "prompt" /\ UNCHANGED <<lookupVars, shellVars>>
    ELSE BeginLookup("spawn", Retry(line)) /\ reRan' = TRUE /\ UNCHANGED <<line, started>>

SpawnMissing ==
    /\ caller = "spawn"
    /\ Missing
    /\ SpawnFailed
    /\ UNCHANGED <<hw, drives, spawnVars, strays>>

\* iso9660Read ignores that nothing was found, and reads what info says.
SpawnRead ==
    LET found == IF lastDirIsFile THEN Answer ELSE info
    IN  /\ caller = "read"
        /\ pc = "looked"
        /\ info' = found
        /\ readSize' = IF found.lbaLoc = Unknown THEN 0
                       ELSE ((found.size + Block - 1) \div Block) * Block
        /\ \E accepted \in (IF found.lbaLoc = Unknown THEN BOOLEAN
                            ELSE {Accepted(found.lbaLoc)}) :
              IF accepted
              THEN /\ started' = found.lbaLoc
                   /\ pc' = "prompt"
                   /\ UNCHANGED <<lookupVars, line, reRan>>
              ELSE SpawnFailed
        /\ UNCHANGED <<hw, drives, bufferSize, strays>>

Init ==
    /\ hw \in [disc : Discs, slave : {"none", "blank", "part"}]
    /\ drives = <<>>
    /\ pc = "boot"
    /\ caller = "SC_GETFILEINFO"
    /\ path = <<Stray>>
    /\ rest = <<>>
    /\ lastFolderLoc = Nothing
    /\ fileSize = 0
    /\ lastDirIsFile = FALSE
    /\ info = [size |-> 0, lbaLoc |-> Nothing]
    /\ bufferSize = 0
    /\ readSize = 0
    /\ line = <<Stray>>
    /\ reRan = TRUE
    /\ started = Nothing
    /\ strays = 0

Next ==
    \/ InitFS
    \/ Walk
    \/ WalkSlave
    \/ \E p \in Paths : AskForFile(p)
    \/ FileReturned
    \/ \E l \in Lines : Type(l)
    \/ SpawnSized
    \/ SpawnMissing
    \/ SpawnRead

Spec == Init /\ [][Next]_fsVars

-----------------------------------------------------------------------------

FullPath(p) == p[1] = "A:" /\ Len(p) > 1
MasterIsA == hw.disc.part /\ hw.disc.iso

EntriesNamed(loc, base, version) ==
    {e \in ToSet(hw.disc.folders[loc]) : e.name = [base |-> base, version |-> version]}

\* The folders of that name in a folder.
Into(loc, word) == {e.loc : e \in EntriesNamed(loc, word, FALSE)}

\* Ways through n folders, from the root.
Routes(n) == {r \in [1 .. n -> DOMAIN hw.disc.folders] : r[1] = hw.disc.root}

\* The words of a full path, one after the other, lead along r.
Leads(r, p) == \A i \in 2 .. Len(p) - 1 : r[i] \in Into(r[i - 1], p[i])

\* The entries a full path names.
Named(p) ==
    LET routes == {r \in Routes(Len(p) - 1) : Leads(r, p)}
    IN  UNION {EntriesNamed(r[Len(p) - 1], Last(p), TRUE) : r \in routes}

\* A lookup of a file that is there, by its full path, finds it, with its own size:
\* whatever lies beside it and above it, and whoever has asked before.
FindsFile ==
    pc = "looked" /\ MasterIsA /\ FullPath(path) =>
        \A e \in Named(path) :
            lastDirIsFile /\ lastFolderLoc = e.loc /\ fileSize = e.size

\* The words of a path lead along r when any of them may be missing.
LeadsOrStays(r, p) ==
    \A i \in 2 .. Len(p) : r[i] \in {r[i - 1]} \cup Into(r[i - 1], p[i - 1])

Along(p) == {r[Len(p)] : r \in {s \in Routes(Len(p)) : LeadsOrStays(s, p)}}

\* A lookup of a file that is not there may be answered all the same; but the
\* answer is never a file of another name: it is a folder on the way, or a file of
\* the same name in a folder on the way.
AnswersOnPath ==
    Answered /\ lastFolderLoc # Unknown =>
        lastFolderLoc \in Along(path) \cup
            UNION {{e.loc : e \in EntriesNamed(l, Last(path), TRUE)} : l \in Along(path)}

\* spawnProcess looks its file up twice, and never reads more at the second time
\* than it has made room for at the first: as long as no lookup has run past the
\* end of its path, where the two need not agree.
ReadFits == caller \in {"spawn", "read"} /\ strays = 0 => readSize <= bufferSize

Program(loc) == hw.disc.looks[loc] = 1 .. 3
FoldersLookLikeData == \A l \in DOMAIN hw.disc.folders : hw.disc.looks[l] = {}
SlaveAsked == \E d \in ToSet(drives) : d.slave /\ d.letter = Initial[line[1]]

\* Whoever types the path of a program, or the name of one in PROGDAT, gets that
\* program: although a bare name may be mistaken for a path on the drive of its
\* first letter, and although a lookup of what is missing may be answered; unless
\* a folder happens to look like a program, or the line is too long.
RunsTyped ==
    pc = "prompt" /\ MasterIsA /\ FoldersLookLikeData /\ ~SlaveAsked =>
        /\ FullPath(line) =>
              \A e \in Named(line) : Program(e.loc) => started = e.loc
        /\ Len(line) = 1 /\ line \notin TooLong =>
              \A e \in Named(Retry(line)) : Program(e.loc) => started = e.loc

=============================================================================
