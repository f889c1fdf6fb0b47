-------------------------- MODULE FileSystemProofs --------------------------
(***************************************************************************)
(* Proofs about the file system (module FileSystem), for every disc whose  *)
(* folders are well written, every path and every line: what a lookup may  *)
(* answer and must find, that what is read has room, and that the shell    *)
(* starts the program it was asked for.                                    *)
(***************************************************************************)
EXTENDS FileSystem, SequenceTheorems, FiniteSetTheorems, WellFoundedInduction, TLAPS

-----------------------------------------------------------------------------

(***************************************************************************)
(* Entries, drives and components                                          *)
(***************************************************************************)

\* A set of naturals has a least element.
LEMMA MinIsLeast ==
    ASSUME NEW S \in SUBSET Nat, S # {}
    PROVE  /\ Min(S) \in S
           /\ \A y \in S : Min(S) <= y
<1> DEFINE T == {0 .. k : k \in S}
           R == StrictSubsetOrdering(Nat)
<1>1. IsWellFoundedOn(R, FiniteSubsetsOf(Nat))
  BY FS_StrictSubsetOrderingWellFounded
<1>2. T \subseteq FiniteSubsetsOf(Nat) /\ T # {}
  <2>1. \A k \in S : IsFiniteSet(0 .. k) /\ 0 .. k \in SUBSET Nat
    BY FS_Interval
  <2> QED BY <2>1 DEF FiniteSubsetsOf
<1>3. PICK X \in T : \A Y \in T : ~(<<Y, X>> \in R)
  <2> HIDE DEF R, T
  <2> QED BY <1>1, <1>2, WFMin
<1>4. PICK x \in S : X = 0 .. x
  BY <1>3
<1>5. \A y \in S : x <= y
  <2>1. SUFFICES ASSUME NEW y \in S, y < x PROVE FALSE
    OBVIOUS
  <2>2. 0 .. y \subseteq X /\ 0 .. y # X
    <3>1. x \in X /\ x \notin 0 .. y
      BY <1>4, <2>1
    <3>2. 0 .. y \subseteq X
      BY <1>4, <2>1
    <3> QED BY <3>1, <3>2
  <2>3. <<0 .. y, X>> \in R
    BY <2>2, <1>4 DEF StrictSubsetOrdering
  <2> QED BY <2>3, <1>3
<1> QED BY <1>5 DEF Min

\* A search stops at the first match.
LEMMA FirstSelected ==
    ASSUME NEW n \in Nat, NEW I \in SUBSET (1 .. n)
    PROVE  I # {} => Min(I) \in I /\ \A y \in I : Min(I) <= y
<1>1. I \in SUBSET Nat
  OBVIOUS
<1> QED BY <1>1, MinIsLeast

\* The scan of a folder finds a name that is there, and no other.
LEMMA FoundEntry ==
    ASSUME NEW folder \in Seq(Entries), NEW name
    PROVE  /\ Found(folder, name) \in 0 .. Len(folder)
           /\ Found(folder, name) = 0 => \A i \in 1 .. Len(folder) : folder[i].name # name
           /\ Found(folder, name) # 0 => folder[Found(folder, name)].name = name
<1> DEFINE I == {i \in 1 .. Len(folder) : folder[i].name = name}
<1>1. Found(folder, name) = IF I # {} THEN Min(I) ELSE 0
  BY DEF Found, SelectInSeq
<1>2. Len(folder) \in Nat /\ I \in SUBSET (1 .. Len(folder))
  BY LenProperties
<1>3. I # {} => Min(I) \in I
  BY <1>2, FirstSelected
<1> QED BY <1>1, <1>2, <1>3

Drive == [letter : {"A", "B"}, slave : BOOLEAN, iso : BOOLEAN]

\* The drives that initFS may have found.
DrivesFound == \E guess \in BOOLEAN : drives = MasterDrive \o SlaveDrive(guess)

\* A letter's drive has that letter, and A is the master if it can be used.
LEMMA DriveAsked ==
    ASSUME NEW p, WellWritten(hw.disc), DrivesFound
    PROVE  /\ drives \in Seq(Drive)
           /\ DriveOf(p) \in 0 .. Len(drives)
           /\ DriveOf(p) # 0 => drives[DriveOf(p)].letter = Initial[p[1]]
           /\ MasterIsA /\ p[1] = "A:" =>
                 DriveOf(p) = 1 /\ drives[1].iso /\ ~drives[1].slave
<1>0. ASSUME NEW d \in Drive
      PROVE  <<d>> \in Seq(Drive) /\ <<>> \in Seq(Drive)
  OBVIOUS
<1>1. MasterDrive \in Seq(Drive)
  <2>1. hw.disc.iso \in BOOLEAN
    BY DEF WellWritten
  <2>2. [letter |-> "A", slave |-> FALSE, iso |-> hw.disc.iso] \in Drive
    BY <2>1 DEF Drive
  <2> QED BY <2>2, <1>0 DEF MasterDrive
<1>2. PICK guess \in BOOLEAN : drives = MasterDrive \o SlaveDrive(guess)
  BY DEF DrivesFound
<1>3. SlaveDrive(guess) \in Seq(Drive)
  <2>1. [letter |-> IF hw.disc.present THEN "B" ELSE "A", slave |-> TRUE, iso |-> guess]
           \in Drive
    BY DEF Drive
  <2> QED BY <2>1, <1>0 DEF SlaveDrive
<1>4. drives \in Seq(Drive)
  BY <1>1, <1>2, <1>3
<1> DEFINE I == {i \in 1 .. Len(drives) : drives[i].letter = Initial[p[1]]}
<1>5. DriveOf(p) = IF I # {} THEN Min(I) ELSE 0
  BY DEF DriveOf, SelectInSeq
<1>6. Len(drives) \in Nat /\ I \in SUBSET (1 .. Len(drives))
  BY <1>4, LenProperties
<1>7. I # {} => Min(I) \in I /\ \A y \in I : Min(I) <= y
  BY <1>6, FirstSelected
<1>8. ASSUME MasterIsA, p[1] = "A:"
      PROVE  DriveOf(p) = 1 /\ drives[1].iso /\ ~drives[1].slave
  <2>1. MasterDrive = <<[letter |-> "A", slave |-> FALSE, iso |-> TRUE]>>
    BY <1>8 DEF MasterDrive, MasterIsA, WellWritten
  <2>2. Len(drives) >= 1 /\ drives[1] = [letter |-> "A", slave |-> FALSE, iso |-> TRUE]
    BY <2>1, <1>1, <1>2, <1>3, ConcatProperties
  <2>3. 1 \in I
    BY <2>2, <1>6, <1>8, FileSystemAssumption
  <2>4. Min(I) = 1
    BY <2>3, <1>6, <1>7
  <2> QED BY <2>2, <2>3, <2>4, <1>5
<1> QED BY <1>4, <1>5, <1>6, <1>7, <1>8

Name == [base : Words \cup {Stray, Empty}, version : BOOLEAN]
Path == Seq(Words \cup {Stray}) \ {<<>>}

\* What the loop looks for when it is at the k-th word of a path, and all that it
\* looks for from there on.
Component(p, k) == [base |-> IF k = 1 THEN Stray ELSE p[k], version |-> k = Len(p)]
From(p, k) == [i \in 1 .. (Len(p) - k + 1) |-> Component(p, k + i - 1)]
Start(p) == IF p[1] \in DriveWords /\ Len(p) > 1 THEN 2 ELSE 1

LEMMA PathWords ==
    ASSUME NEW p \in Path
    PROVE  /\ Len(p) \in Nat \ {0}
           /\ \A k \in 1 .. Len(p) : p[k] \in Words \cup {Stray}
           /\ \A k \in 1 .. Len(p) : Component(p, k) \in Name
           /\ Start(p) \in 1 .. Len(p)
<1>1. Len(p) \in Nat \ {0} /\ \A k \in 1 .. Len(p) : p[k] \in Words \cup {Stray}
  BY EmptySeq, ElementOfSeq DEF Path
<1> QED BY <1>1 DEF Component, Name, Start

LEMMA Versions ==
    ASSUME NEW p, NEW k, Len(p) \in Nat
    PROVE  /\ k # Len(p) => Component(p, k).version = FALSE
           /\ Component(p, Len(p)).version = TRUE
<1>1. Component(p, k).version = (k = Len(p))
      /\ Component(p, Len(p)).version = (Len(p) = Len(p))
  BY DEF Component
<1> QED BY <1>1

LEMMA FromHere ==
    ASSUME NEW p \in Path, NEW k \in 1 .. Len(p)
    PROVE  /\ From(p, k) \in Seq(Name) /\ From(p, k) # <<>>
           /\ Len(From(p, k)) = Len(p) - k + 1
           /\ Head(From(p, k)) = Component(p, k)
           /\ k < Len(p) => Tail(From(p, k)) = From(p, k + 1)
<1> DEFINE n == Len(p) - k + 1
<1>1. n \in Nat \ {0}
  BY PathWords
<1>2. \A i \in 1 .. n : Component(p, k + i - 1) \in Name
  BY PathWords, <1>1
<1>3. From(p, k) \in [1 .. n -> Name]
  BY <1>2 DEF From
<1>4. From(p, k) \in Seq(Name) /\ Len(From(p, k)) = n
  BY <1>1, <1>3
<1>5. From(p, k)[1] = Component(p, k)
  BY <1>1, PathWords DEF From
<1>6. ASSUME k < Len(p)
      PROVE  Tail(From(p, k)) = From(p, k + 1)
  <2>1. k + 1 \in 1 .. Len(p) /\ Len(p) - (k + 1) + 1 = n - 1 /\ n - 1 \in Nat
    BY <1>6, PathWords
  <2>2. \A i \in 1 .. n - 1 : Component(p, (k + 1) + i - 1) \in Name
    BY <2>1, PathWords
  <2>3. From(p, k + 1) \in [1 .. n - 1 -> Name]
    BY <2>1, <2>2 DEF From
  <2>4. From(p, k + 1) \in Seq(Name) /\ Len(From(p, k + 1)) = n - 1
    BY <2>1, <2>3
  <2>5. Tail(From(p, k)) \in Seq(Name) /\ Len(Tail(From(p, k))) = n - 1
        /\ \A i \in 1 .. n - 1 : Tail(From(p, k))[i] = From(p, k)[i + 1]
    BY <1>1, <1>4, HeadTailProperties
  <2>6. \A i \in 1 .. n - 1 : From(p, k)[i + 1] = From(p, k + 1)[i]
    <3>1. SUFFICES ASSUME NEW i \in 1 .. n - 1
                   PROVE  From(p, k)[i + 1] = From(p, k + 1)[i]
      OBVIOUS
    <3>2. i + 1 \in 1 .. n /\ k + (i + 1) - 1 = (k + 1) + i - 1
      BY <1>1, PathWords
    <3>3. From(p, k)[i + 1] = Component(p, k + (i + 1) - 1)
      BY <3>2 DEF From
    <3>4. From(p, k + 1)[i] = Component(p, (k + 1) + i - 1)
      BY <2>1 DEF From
    <3> QED BY <3>2, <3>3, <3>4
  <2> QED BY <2>4, <2>5, <2>6, SeqEqual
<1> QED BY <1>1, <1>4, <1>5, <1>6, HeadTailProperties

\* The first component is the word after the drive, or what a bare name's first
\* three characters leave; only the last has a version.
LEMMA ComponentsOf ==
    ASSUME NEW p \in Path
    PROVE  /\ Components(p) = From(p, Start(p))
           /\ Last(Components(p)) = Component(p, Len(p))
<1> DEFINE w == IF p[1] \in DriveWords /\ Len(p) > 1 THEN Tail(p) ELSE <<Stray>> \o Tail(p)
           n == Len(p) - Start(p) + 1
<1>1. Len(p) \in Nat \ {0} /\ n \in Nat \ {0} /\ Start(p) \in 1 .. Len(p)
  BY PathWords
<1>2. /\ Tail(p) \in Seq(Words \cup {Stray}) /\ Len(Tail(p)) = Len(p) - 1
      /\ \A i \in 1 .. Len(p) - 1 : Tail(p)[i] = p[i + 1]
  BY HeadTailProperties DEF Path
<1>3. /\ w \in Seq(Words \cup {Stray}) /\ Len(w) = n
      /\ \A i \in 1 .. n : w[i] = IF Start(p) + i - 1 = 1 THEN Stray ELSE p[Start(p) + i - 1]
  <2>1. CASE p[1] \in DriveWords /\ Len(p) > 1
    BY <2>1, <1>1, <1>2 DEF Start
  <2>2. CASE ~(p[1] \in DriveWords /\ Len(p) > 1)
    <3>1. <<Stray>> \in Seq(Words \cup {Stray}) /\ Len(<<Stray>>) = 1 /\ <<Stray>>[1] = Stray
      OBVIOUS
    <3>0. w = <<Stray>> \o Tail(p)
      BY <2>2
    <3> HIDE DEF w
    <3>2. /\ w \in Seq(Words \cup {Stray}) /\ Len(w) = 1 + (Len(p) - 1)
          /\ \A i \in 1 .. 1 + (Len(p) - 1) :
                w[i] = IF i <= 1 THEN <<Stray>>[i] ELSE Tail(p)[i - 1]
      <4> DEFINE t == Tail(p)
                 o == <<Stray>>
      <4> HIDE DEF t, o
      <4>1. t \in Seq(Words \cup {Stray}) /\ o \in Seq(Words \cup {Stray})
            /\ Len(t) = Len(p) - 1 /\ Len(o) = 1 /\ w = o \o t
        BY <3>0, <3>1, <1>2 DEF t, o
      <4>2. /\ w \in Seq(Words \cup {Stray}) /\ Len(w) = 1 + (Len(p) - 1)
            /\ \A i \in 1 .. 1 + (Len(p) - 1) : w[i] = IF i <= 1 THEN o[i] ELSE t[i - 1]
        <5>1. /\ o \o t \in Seq(Words \cup {Stray})
              /\ Len(o \o t) = Len(o) + Len(t)
              /\ \A i \in 1 .. Len(o) + Len(t) :
                    (o \o t)[i] = IF i <= Len(o) THEN o[i] ELSE t[i - Len(o)]
          BY <4>1, ConcatProperties
        <5> QED BY <4>1, <5>1
      <4> QED BY <4>2 DEF t, o
    <3>3. Start(p) = 1 /\ n = Len(p)
      BY <2>2, <1>1 DEF Start
    <3>4. ASSUME NEW i \in 1 .. n
          PROVE  w[i] = IF i = 1 THEN Stray ELSE p[i]
      <4>1. CASE i = 1
        <5>1. 1 \in 1 .. 1 + (Len(p) - 1)
          BY <1>1
        <5>2. w[1] = <<Stray>>[1]
          BY <5>1, <3>2
        <5> QED BY <5>2, <4>1, <3>1
      <4>2. CASE i # 1
        <5>1. i - 1 \in 1 .. Len(p) - 1 /\ ~(i <= 1) /\ i \in 1 .. 1 + (Len(p) - 1)
          BY <4>2, <3>3, <1>1
        <5>2. w[i] = Tail(p)[i - 1]
          BY <5>1, <3>2
        <5>3. Tail(p)[i - 1] = p[(i - 1) + 1]
          BY <5>1, <1>2
        <5>4. (i - 1) + 1 = i
          BY <5>1
        <5> QED BY <5>2, <5>3, <5>4, <4>2
      <4> QED BY <4>1, <4>2
    <3>5. \A i \in 1 .. n : Start(p) + i - 1 = i
      BY <3>3
    <3> HIDE DEF n
    <3> QED BY <3>2, <3>3, <3>4, <3>5, <1>1
  <2> QED BY <2>1, <2>2
<1>4. DOMAIN w = 1 .. n
  BY <1>3, LenProperties
<1>5. Components(p) = [i \in 1 .. n |-> [base |-> w[i], version |-> i = n]]
  BY <1>3, <1>4 DEF Components
<1>6. \A i \in 1 .. n : [base |-> w[i], version |-> i = n] = Component(p, Start(p) + i - 1)
  <2> HIDE DEF w
  <2>1. \A i \in 1 .. n : (i = n) = (Start(p) + i - 1 = Len(p))
    BY <1>1
  <2> QED BY <1>3, <2>1 DEF Component
<1>7. Components(p) = From(p, Start(p))
  BY <1>5, <1>6 DEF From
<1>8. Len(From(p, Start(p))) = n /\ From(p, Start(p))[n] = Component(p, Len(p))
  <2>1. n \in 1 .. n /\ Start(p) + n - 1 = Len(p)
    BY <1>1
  <2>2. From(p, Start(p))[n] = Component(p, Start(p) + n - 1)
    BY <2>1 DEF From
  <2> QED BY <1>1, <2>1, <2>2, FromHere
<1> QED BY <1>7, <1>8 DEF Last

-----------------------------------------------------------------------------

(***************************************************************************)
(* A round of the loop                                                     *)
(***************************************************************************)

\* What is in a folder.
FolderHolds(disc, l, folder) ==
    /\ folder \in Seq(Entries) /\ folder # <<>>
    /\ \A i, j \in DOMAIN folder : folder[i].name = folder[j].name => i = j
    /\ \A i \in DOMAIN folder :
          ~folder[i].name.version =>
              /\ folder[i].loc \in DOMAIN disc.folders
              /\ folder[i].name.base = Empty => folder[i].loc = l

\* What a search in a folder looks at, and where it leads.
LEMMA FolderScan ==
    ASSUME NEW disc, NEW l, NEW folder, NEW name, NEW i, NEW n,
           FolderHolds(disc, l, folder), i = Found(folder, name), n = Seen(folder, i)
    PROVE  /\ n \in 1 .. Len(folder)
           /\ folder[n] \in Entries
           /\ Last(SubSeq(folder, 1, n)) = folder[n]
           /\ DOMAIN SubSeq(folder, 1, n) = 1 .. n
           /\ \A k \in 1 .. n : SubSeq(folder, 1, n)[k] = folder[k]
           /\ i = 0 => \A k \in 1 .. Len(folder) : folder[k].name # name
           /\ i # 0 => /\ i \in 1 .. Len(folder) /\ n = i
                       /\ folder[i] \in Entries
                       /\ folder[i].name = name
                       /\ ~name.version => folder[i].loc \in DOMAIN disc.folders
                       /\ ~name.version /\ name.base = Empty => folder[i].loc = l
<1>1. folder \in Seq(Entries) /\ folder # <<>>
  BY DEF FolderHolds
<1>2. Len(folder) \in Nat \ {0} /\ DOMAIN folder = 1 .. Len(folder)
      /\ \A k \in 1 .. Len(folder) : folder[k] \in Entries
  BY <1>1, EmptySeq, LenProperties, ElementOfSeq
<1>3. /\ i \in 0 .. Len(folder)
      /\ i = 0 => \A k \in 1 .. Len(folder) : folder[k].name # name
      /\ i # 0 => folder[i].name = name
  BY <1>1, FoundEntry
<1>4. n \in 1 .. Len(folder)
  BY <1>2, <1>3 DEF Seen
<1>5. /\ SubSeq(folder, 1, n) \in Seq(Entries)
      /\ Len(SubSeq(folder, 1, n)) = n
      /\ \A k \in 1 .. n : SubSeq(folder, 1, n)[k] = folder[k]
  <2>1. n \in Nat /\ n \in Int /\ 1 \in Int /\ 1 <= n /\ n - 1 + 1 = n
    BY <1>2, <1>4
  <2>2. \A k \in 1 .. n : folder[k] \in Entries
    BY <1>2, <1>4
  <2>3. /\ SubSeq(folder, 1, n) \in Seq(Entries)
        /\ Len(SubSeq(folder, 1, n)) = IF 1 <= n THEN n - 1 + 1 ELSE 0
        /\ \A k \in 1 .. n - 1 + 1 : SubSeq(folder, 1, n)[k] = folder[1 + k - 1]
    BY <2>1, <2>2, SubSeqProperties
  <2>4. \A k \in 1 .. n : 1 + k - 1 = k
    OBVIOUS
  <2> QED BY <2>1, <2>3, <2>4
<1>6. DOMAIN SubSeq(folder, 1, n) = 1 .. n
  BY <1>5, LenProperties
<1>7. Last(SubSeq(folder, 1, n)) = folder[n]
  BY <1>4, <1>5 DEF Last
<1>8. ASSUME i # 0
      PROVE  /\ i \in 1 .. Len(folder) /\ n = i
             /\ folder[i] \in Entries
             /\ folder[i].name = name
             /\ ~name.version => folder[i].loc \in DOMAIN disc.folders
             /\ ~name.version /\ name.base = Empty => folder[i].loc = l
  <2>1. i \in 1 .. Len(folder) /\ n = i
    BY <1>2, <1>3, <1>8 DEF Seen
  <2>2. ~name.version =>
          /\ folder[i].loc \in DOMAIN disc.folders
          /\ name.base = Empty => folder[i].loc = l
    BY <2>1, <1>2, <1>3, <1>8 DEF FolderHolds
  <2> QED BY <2>1, <2>2, <1>2, <1>3, <1>8
<1> QED BY <1>2, <1>3, <1>4, <1>5, <1>6, <1>7, <1>8

Loc == Places \cup {Nothing, Unknown}
SpawnCallers == {"spawn", "read"}
OtherCallers == {"SC_LOADFILE", "SC_GETFILEINFO"}

FSTypes ==
    /\ hw \in [disc : Discs, slave : {"none", "blank", "part"}]
    /\ pc \in {"boot", "panic", "prompt", "walk", "looked", "failed"}
    /\ caller \in SpawnCallers \cup OtherCallers
    /\ path \in Path /\ line \in Path
    /\ lastFolderLoc \in Loc /\ fileSize \in Nat /\ lastDirIsFile \in BOOLEAN
    /\ info \in [size : Nat, lbaLoc : Loc]
    /\ bufferSize \in Nat /\ readSize \in Nat /\ strays \in Nat
    /\ reRan \in BOOLEAN

\* What follows on the stack has been taken for a component.
Strayed ==
    \E word \in {Stray, Empty} : rest = <<[base |-> word, version |-> FALSE]>>

\* The drive of a path that is looked up is there; the loop is in a folder, and has
\* the rest of the path before it or a word from beyond its end.
Walking ==
    /\ pc # "boot" => DrivesFound
    /\ pc \in {"walk", "looked"} => DriveOf(path) # 0 /\ drives[DriveOf(path)].iso
    /\ pc = "walk" =>
          /\ lastFolderLoc \in DOMAIN hw.disc.folders
          /\ \/ \E k \in 1 .. Len(path) : rest = From(path, k)
             \/ Strayed /\ strays > 0
    /\ pc = "failed" => DriveOf(path) = 0 \/ ~drives[DriveOf(path)].iso

LEMMA DiscWellWritten ==
    ASSUME FSTypes PROVE WellWritten(hw.disc) /\ DOMAIN hw.disc.folders \subseteq Places
<1>1. WellWritten(hw.disc)
  BY FileSystemAssumption DEF FSTypes
<1> QED BY <1>1 DEF WellWritten

LEMMA FolderHere ==
    ASSUME FSTypes, NEW l \in DOMAIN hw.disc.folders
    PROVE  FolderHolds(hw.disc, l, hw.disc.folders[l])
BY DiscWellWritten DEF WellWritten, FolderHolds

\* What a round leaves behind when it has looked for a name.
Looked(name) ==
    LET folder == hw.disc.folders[lastFolderLoc]
        i == Found(folder, name)
        n == Seen(folder, i)
    IN  /\ fileSize' = folder[n].size
        /\ lastFolderLoc' = IF i = 0 THEN lastFolderLoc ELSE folder[i].loc
        /\ lastDirIsFile' = (lastDirIsFile \/ \E k \in 1 .. n : folder[k].name.version)

\* The lookup is over, or goes on with what lies beyond its path.
OverOrBeyond ==
    \/ pc' = "looked" /\ strays' = strays
    \/ pc' = "walk" /\ Strayed' /\ strays' = strays + 1

LEMMA RoundLooks ==
    ASSUME FSTypes, Walking, Walk
    PROVE  /\ Looked(Head(rest))
           /\ fileSize' \in Nat /\ lastFolderLoc' \in Places /\ lastDirIsFile' \in BOOLEAN
<1> DEFINE name == Head(rest)
           folder == hw.disc.folders[lastFolderLoc]
           i == Found(folder, name)
           n == Seen(folder, i)
<1> HIDE DEF name
<1>1. lastFolderLoc \in DOMAIN hw.disc.folders /\ lastFolderLoc \in Places
  BY DiscWellWritten DEF Walk, Walking
<1>2. /\ n \in 1 .. Len(folder) /\ folder[n] \in Entries
      /\ Last(SubSeq(folder, 1, n)) = folder[n]
      /\ DOMAIN SubSeq(folder, 1, n) = 1 .. n
      /\ \A k \in 1 .. n : SubSeq(folder, 1, n)[k] = folder[k]
      /\ i # 0 => folder[i] \in Entries
  <2>1. FolderHolds(hw.disc, lastFolderLoc, folder)
    BY <1>1, FolderHere
  <2> HIDE DEF folder, i, n
  <2>2. i = Found(folder, name) /\ n = Seen(folder, i)
    BY DEF i, n
  <2> QED BY <2>1, <2>2, FolderScan
<1>3. /\ fileSize' = Last(SubSeq(folder, 1, n)).size
      /\ lastDirIsFile' = (lastDirIsFile \/
            \E k \in DOMAIN SubSeq(folder, 1, n) : SubSeq(folder, 1, n)[k].name.version)
      /\ lastFolderLoc' = IF i = 0 THEN lastFolderLoc ELSE folder[i].loc
  BY DEF Walk, name
<1>4. /\ fileSize' = folder[n].size
      /\ lastDirIsFile' = (lastDirIsFile \/ \E k \in 1 .. n : folder[k].name.version)
  BY <1>2, <1>3
<1>5. Looked(Head(rest))
  BY <1>3, <1>4 DEF Looked, name
<1>6. fileSize' \in Nat /\ lastFolderLoc' \in Places
  <2> HIDE DEF folder, i, n
  <2> QED BY <1>1, <1>2, <1>3, <1>4 DEF Entries
<1>7. lastDirIsFile' \in BOOLEAN
  BY <1>4
<1> QED BY <1>5, <1>6, <1>7

\* A round that is at the k-th word of the path.
LEMMA RoundAt ==
    ASSUME FSTypes, Walking, Walk, NEW k \in 1 .. Len(path), rest = From(path, k)
    PROVE  /\ Looked(Component(path, k))
           /\ k < Len(path) => /\ pc' = "walk" /\ rest' = From(path, k + 1)
                               /\ strays' = strays
                               /\ lastFolderLoc' \in DOMAIN hw.disc.folders
           /\ k = Len(path) =>
                /\ OverOrBeyond
                /\ pc' = "walk" =>
                      Found(hw.disc.folders[lastFolderLoc], Component(path, k)) = 0
<1> DEFINE c == Component(path, k)
           folder == hw.disc.folders[lastFolderLoc]
           i == Found(folder, c)
<1>1. path \in Path /\ Len(path) \in Nat \ {0}
  BY PathWords DEF FSTypes
<1>2. /\ Head(rest) = c /\ Len(rest) = Len(path) - k + 1
      /\ k < Len(path) => Tail(rest) = From(path, k + 1)
  BY <1>1, FromHere
<1>3. Last(Components(path)) = Component(path, Len(path))
  BY <1>1, ComponentsOf
<1>4. Looked(c)
  BY <1>2, RoundLooks
<1>5. IF i # 0 /\ c = Component(path, Len(path))
      THEN pc' = "looked" /\ UNCHANGED <<rest, strays>>
      ELSE IF Len(rest) > 1
      THEN rest' = Tail(rest) /\ UNCHANGED <<pc, strays>>
      ELSE PastTheEnd
  BY <1>2, <1>3 DEF Walk
<1>6. PastTheEnd /\ pc = "walk" => OverOrBeyond
  BY DEF PastTheEnd, OverOrBeyond, Strayed
<1>7. pc = "walk"
  BY DEF Walk
<1>8. ASSUME k < Len(path)
      PROVE  /\ pc' = "walk" /\ rest' = From(path, k + 1) /\ strays' = strays
             /\ lastFolderLoc' \in DOMAIN hw.disc.folders
  <2>1. ~c.version /\ c # Component(path, Len(path))
    <3>1. Component(path, k).version = FALSE /\ Component(path, Len(path)).version = TRUE
      <4>1. Len(path) \in Nat /\ k # Len(path)
        BY <1>1, <1>8
      <4> QED BY <4>1, Versions, Zenon
    <3> QED BY <3>1
  <2>2. Len(rest) > 1
    BY <1>1, <1>2, <1>8
  <2>3. rest' = Tail(rest) /\ pc' = pc /\ strays' = strays
    BY <1>5, <2>1, <2>2
  <2>4. lastFolderLoc \in DOMAIN hw.disc.folders
    BY <1>7 DEF Walking
  <2>5. i # 0 => folder[i].loc \in DOMAIN hw.disc.folders
    <3>1. FolderHolds(hw.disc, lastFolderLoc, folder)
      BY <2>4, FolderHere
    <3> HIDE DEF folder, i, c
    <3>2. i = Found(folder, c)
      BY DEF i
    <3> QED BY <2>1, <3>1, <3>2, FolderScan
  <2>6. lastFolderLoc' = IF i = 0 THEN lastFolderLoc ELSE folder[i].loc
    BY <1>4 DEF Looked
  <2> QED BY <2>3, <2>4, <2>5, <2>6, <1>2, <1>7, <1>8
<1>9. ASSUME k = Len(path)
      PROVE  OverOrBeyond /\ (pc' = "walk" => i = 0)
  <2>1. c = Component(path, Len(path)) /\ ~(Len(rest) > 1)
    BY <1>1, <1>2, <1>9
  <2>2. CASE i # 0
    BY <1>5, <2>1, <2>2 DEF OverOrBeyond
  <2>3. CASE i = 0
    <3>1. PastTheEnd
      BY <1>5, <2>1, <2>3
    <3> QED BY <3>1, <1>6, <1>7, <2>3
  <2> QED BY <2>2, <2>3
<1> QED BY <1>4, <1>8, <1>9

\* A round beyond the end of the path stays where it is.
LEMMA RoundBeyond ==
    ASSUME FSTypes, Walking, Walk, Strayed
    PROVE  OverOrBeyond /\ lastFolderLoc' = lastFolderLoc
<1> DEFINE name == Head(rest)
           folder == hw.disc.folders[lastFolderLoc]
           i == Found(folder, name)
<1> HIDE DEF name
<1>1. PICK word \in {Stray, Empty} : rest = <<[base |-> word, version |-> FALSE]>>
  BY DEF Strayed
<1>2. name = [base |-> word, version |-> FALSE] /\ ~(Len(rest) > 1)
  BY <1>1 DEF name
<1>3. lastFolderLoc' = IF i = 0 THEN lastFolderLoc ELSE folder[i].loc
  BY DEF Walk, name
<1>4. i # 0 => folder[i].loc = lastFolderLoc
  <2>1. SUFFICES ASSUME i # 0 PROVE folder[i].loc = lastFolderLoc
    OBVIOUS
  <2>2. lastFolderLoc \in DOMAIN hw.disc.folders
    BY DEF Walk, Walking
  <2>3. /\ folder[i] \in Entries /\ folder[i].name = name
        /\ ~name.version /\ name.base = Empty => folder[i].loc = lastFolderLoc
    <3>1. FolderHolds(hw.disc, lastFolderLoc, folder)
      BY <2>2, FolderHere
    <3> HIDE DEF folder, i
    <3>2. i = Found(folder, name)
      BY DEF i
    <3> QED BY <2>1, <3>1, <3>2, FolderScan
  <2>4. word \in Words
    BY <1>2, <2>3 DEF Entries
  <2>5. word = Empty
    BY <2>4, FileSystemAssumption
  <2> QED BY <1>2, <2>3, <2>5
<1>5. Last(Components(path)).version
  <2>1. path \in Path
    BY DEF FSTypes
  <2>2. Last(Components(path)) = Component(path, Len(path))
    BY <2>1, ComponentsOf
  <2> QED BY <2>1, <2>2, PathWords, Versions
<1>6. PastTheEnd
  <2>1. name # Last(Components(path))
    BY <1>2, <1>5
  <2> QED BY <1>2, <2>1 DEF Walk, name
<1>7. OverOrBeyond
  BY <1>6 DEF PastTheEnd, OverOrBeyond, Strayed, Walk
<1> QED BY <1>3, <1>4, <1>7

-----------------------------------------------------------------------------

(***************************************************************************)
(* Types, and where the loop may be                                        *)
(***************************************************************************)

LEMMA RetryPath ==
    ASSUME FSTypes
    PROVE  /\ Retry(line) \in Path
           /\ Retry(line)[1] = "A:" /\ Len(Retry(line)) = Len(line) + 2
<1> DEFINE programs == <<"A:", "PROGDAT">>
           W == Words \cup {Stray}
<1>1. line \in Seq(W) /\ Len(line) \in Nat \ {0}
  BY PathWords DEF FSTypes, Path
<1>2. programs \in Seq(W) /\ Len(programs) = 2 /\ programs[1] = "A:"
  BY FileSystemAssumption
<1> HIDE DEF programs, W
<1>3. /\ programs \o line \in Seq(W)
      /\ Len(programs \o line) = 2 + Len(line)
      /\ (programs \o line)[1] = programs[1]
  <2>1. /\ programs \o line \in Seq(W)
        /\ Len(programs \o line) = Len(programs) + Len(line)
        /\ \A i \in 1 .. Len(programs) + Len(line) :
              (programs \o line)[i] =
                  IF i <= Len(programs) THEN programs[i] ELSE line[i - Len(programs)]
    BY <1>1, <1>2, ConcatProperties
  <2>2. 1 \in 1 .. Len(programs) + Len(line) /\ 1 <= Len(programs)
    BY <1>1, <1>2
  <2> QED BY <1>2, <2>1, <2>2
<1>4. Retry(line) = programs \o line
  BY DEF Retry, programs
<1>5. Retry(line) # <<>>
  BY <1>1, <1>3, <1>4, EmptySeq
<1> QED BY <1>1, <1>2, <1>3, <1>4, <1>5 DEF Path, W

\* Every path asked for and every line is one.
LEMMA GivenPaths == Lines \cup Paths \subseteq Path
<1>1. Seq(Words) \subseteq Seq(Words \cup {Stray})
  BY SeqMonotonic
<1> QED BY <1>1, FileSystemAssumption DEF Path

Begins ==
    /\ pc # "boot" /\ UNCHANGED drives
    /\ \E who \in SpawnCallers \cup OtherCallers, p \in Path : BeginLookup(who, p)

LEMMA FailedBegins ==
    ASSUME FSTypes, pc # "boot", UNCHANGED drives, SpawnFailed
    PROVE  Begins \/ (pc' = "prompt" /\ UNCHANGED lookupVars)
<1>1. CASE reRan \/ line \in TooLong
  BY <1>1 DEF SpawnFailed
<1>2. CASE ~(reRan \/ line \in TooLong)
  <2>1. BeginLookup("spawn", Retry(line))
    BY <1>2 DEF SpawnFailed
  <2> QED BY <2>1, RetryPath DEF Begins, SpawnCallers
<1> QED BY <1>1, <1>2

\* What a step does to the lookup.
LEMMA StepKinds ==
    ASSUME FSTypes, [Next]_fsVars
    PROVE  /\ hw' = hw
           /\ \/ Walk \/ WalkSlave \/ Begins
              \/ pc' \in {"prompt", "panic"} /\ UNCHANGED lookupVars
              \/ UNCHANGED fsVars
<1>1. CASE InitFS
  BY <1>1 DEF InitFS
<1>2. CASE Walk
  BY <1>2 DEF Walk
<1>3. CASE WalkSlave
  BY <1>3 DEF WalkSlave
<1>4. ASSUME NEW p \in Paths, AskForFile(p)
      PROVE  hw' = hw /\ Begins
  <2>1. PICK who \in OtherCallers : BeginLookup(who, p)
    BY <1>4 DEF AskForFile, OtherCallers
  <2> QED BY <1>4, <2>1, GivenPaths DEF AskForFile, Begins
<1>5. CASE FileReturned
  BY <1>5 DEF FileReturned
<1>6. ASSUME NEW l \in Lines, Type(l)
      PROVE  hw' = hw /\ Begins
  BY <1>6, GivenPaths DEF Type, Begins, SpawnCallers
<1>7. CASE SpawnSized
  BY <1>7 DEF SpawnSized, Answered, Begins, FSTypes, SpawnCallers
<1>8. CASE SpawnMissing
  <2>1. pc # "boot"
    BY <1>8 DEF SpawnMissing, Missing
  <2> QED BY <1>8, <2>1, FailedBegins DEF SpawnMissing
<1>9. CASE SpawnRead
  <2>1. pc # "boot" /\ hw' = hw /\ UNCHANGED drives
    BY <1>9 DEF SpawnRead
  <2>2. SpawnFailed \/ (pc' = "prompt" /\ UNCHANGED lookupVars)
    BY <1>9 DEF SpawnRead
  <2> QED BY <2>1, <2>2, FailedBegins
<1>10. CASE UNCHANGED fsVars
  BY <1>10 DEF fsVars
<1> QED BY <1>1, <1>2, <1>3, <1>4, <1>5, <1>6, <1>7, <1>8, <1>9, <1>10 DEF Next

\* A lookup begins at the root.
LEMMA BeginsAtRoot ==
    ASSUME FSTypes, hw' = hw, Begins
    PROVE  /\ path' \in Path /\ caller' \in SpawnCallers \cup OtherCallers
           /\ lastFolderLoc' = hw.disc.root /\ hw.disc.root \in DOMAIN hw.disc.folders
           /\ lastFolderLoc' \in Loc
           /\ fileSize' = 0 /\ lastDirIsFile' = FALSE
           /\ Start(path') \in 1 .. Len(path') /\ rest' = From(path', Start(path'))
           /\ pc' \in {"walk", "failed"}
           /\ pc' = "failed" <=> DriveOf(path)' = 0 \/ ~drives'[DriveOf(path)'].iso
<1>1. PICK who \in SpawnCallers \cup OtherCallers, p \in Path : BeginLookup(who, p)
  BY DEF Begins
<1>2. /\ path' = p /\ caller' = who
      /\ lastFolderLoc' = hw.disc.root /\ fileSize' = 0 /\ lastDirIsFile' = FALSE
      /\ rest' = Components(p)
      /\ pc' = IF DriveOf(p) = 0 \/ ~drives[DriveOf(p)].iso THEN "failed" ELSE "walk"
  BY <1>1 DEF BeginLookup
<1>3. drives' = drives
  BY DEF Begins
<1>4. DriveOf(path)' = DriveOf(p)
  BY <1>2, <1>3 DEF DriveOf, SelectInSeq
<1>5. hw.disc.root \in DOMAIN hw.disc.folders /\ hw.disc.root \in Loc
  BY DiscWellWritten DEF WellWritten, Loc
<1>6. rest' = From(path', Start(path')) /\ Start(path') \in 1 .. Len(path')
  BY <1>2, ComponentsOf, PathWords
<1> QED BY <1>1, <1>2, <1>3, <1>4, <1>5, <1>6

LEMMA LookupTypes ==
    ASSUME FSTypes, Walking, [Next]_fsVars
    PROVE  /\ path' \in Path /\ caller' \in SpawnCallers \cup OtherCallers
           /\ lastFolderLoc' \in Loc /\ fileSize' \in Nat /\ lastDirIsFile' \in BOOLEAN
           /\ pc' \in {"boot", "panic", "prompt", "walk", "looked", "failed"}
           /\ hw' \in [disc : Discs, slave : {"none", "blank", "part"}]
<1>0. hw' = hw /\ hw' \in [disc : Discs, slave : {"none", "blank", "part"}]
  BY StepKinds DEF FSTypes
<1>1. CASE Walk
  <2>1. fileSize' \in Nat /\ lastFolderLoc' \in Places /\ lastDirIsFile' \in BOOLEAN
    BY <1>1, RoundLooks
  <2>2. pc' \in {"walk", "looked"} /\ UNCHANGED <<caller, path>>
    BY <1>1 DEF Walk, PastTheEnd
  <2> QED BY <1>0, <2>1, <2>2 DEF FSTypes, Loc
<1>2. CASE WalkSlave
  BY <1>0, <1>2, FileSystemAssumption DEF WalkSlave, FSTypes, Loc
<1>3. CASE Begins
  BY <1>0, <1>3, BeginsAtRoot
<1>4. CASE pc' \in {"prompt", "panic"} /\ UNCHANGED lookupVars
  BY <1>0, <1>4 DEF lookupVars, FSTypes
<1>5. CASE UNCHANGED fsVars
  BY <1>0, <1>5 DEF fsVars, lookupVars, FSTypes
<1> QED BY <1>1, <1>2, <1>3, <1>4, <1>5, StepKinds

\* A size is rounded up to a number of blocks.
LEMMA Blocks ==
    ASSUME NEW b \in Nat
    PROVE  (b + Block - 1) \div Block \in Nat /\ BytesToBlock(b) \in Nat
<1>1. Block \in Nat /\ Block > 0 /\ b + Block - 1 \in Nat
  BY FileSystemAssumption
<1>2. (b + Block - 1) \div Block \in Nat
  BY <1>1
<1> QED BY <1>1, <1>2 DEF BytesToBlock

LEMMA AnswerTyped ==
    ASSUME FSTypes PROVE Answer \in [size : Nat, lbaLoc : Loc]
BY Blocks DEF FSTypes, Answer

LEMMA FailedTypes ==
    ASSUME FSTypes, SpawnFailed PROVE line' = line /\ reRan' \in BOOLEAN
BY DEF SpawnFailed, FSTypes, shellVars

LEMMA TypesStep ==
    ASSUME FSTypes, Walking, [Next]_fsVars
    PROVE  FSTypes'
<1> DEFINE Rest == /\ line' \in Path /\ reRan' \in BOOLEAN
                   /\ info' \in [size : Nat, lbaLoc : Loc]
                   /\ bufferSize' \in Nat /\ readSize' \in Nat /\ strays' \in Nat
<1>0. Rest
  <2>1. CASE InitFS
    BY <2>1 DEF InitFS, FSTypes, spawnVars, shellVars
  <2>2. CASE Walk
    <3>1. strays' = strays \/ strays' = strays + 1
      BY <2>2 DEF Walk, PastTheEnd
    <3> QED BY <2>2, <3>1 DEF Walk, FSTypes, spawnVars, shellVars
  <2>3. CASE WalkSlave
    BY <2>3 DEF WalkSlave, FSTypes, spawnVars, shellVars
  <2>4. ASSUME NEW p \in Paths, AskForFile(p)
        PROVE  Rest
    BY <2>4 DEF AskForFile, FSTypes, spawnVars, shellVars
  <2>5. CASE FileReturned
    BY <2>5 DEF FileReturned, FSTypes, spawnVars, shellVars
  <2>6. ASSUME NEW l \in Lines, Type(l)
        PROVE  Rest
    BY <2>6, GivenPaths DEF Type, FSTypes
  <2>7. CASE SpawnSized
    <3>1. Answer.size \in Nat
      BY AnswerTyped
    <3> QED BY <2>7, <3>1, AnswerTyped DEF SpawnSized, FSTypes, shellVars
  <2>8. CASE SpawnMissing
    <3>1. line' = line /\ reRan' \in BOOLEAN
      BY <2>8, FailedTypes DEF SpawnMissing
    <3> QED BY <2>8, <3>1 DEF SpawnMissing, FSTypes, spawnVars
  <2>9. CASE SpawnRead
    <3> DEFINE found == IF lastDirIsFile THEN Answer ELSE info
    <3>1. found \in [size : Nat, lbaLoc : Loc]
      BY AnswerTyped DEF FSTypes
    <3>2. (found.size + Block - 1) \div Block \in Nat
      BY <3>1, Blocks
    <3>3. readSize' = IF found.lbaLoc = Unknown THEN 0
                      ELSE ((found.size + Block - 1) \div Block) * Block
      BY <2>9 DEF SpawnRead
    <3>4. readSize' \in Nat
      BY <3>2, <3>3, FileSystemAssumption
    <3>5. line' = line /\ reRan' \in BOOLEAN
      <4>1. SpawnFailed \/ UNCHANGED <<line, reRan>>
        BY <2>9 DEF SpawnRead
      <4> QED BY <4>1, FailedTypes DEF FSTypes
    <3>6. info' = found /\ bufferSize' = bufferSize /\ strays' = strays
      BY <2>9 DEF SpawnRead
    <3> QED BY <3>1, <3>4, <3>5, <3>6 DEF FSTypes
  <2>10. CASE UNCHANGED fsVars
    BY <2>10 DEF fsVars, FSTypes, spawnVars, shellVars
  <2> QED BY <2>1, <2>2, <2>3, <2>4, <2>5, <2>6, <2>7, <2>8, <2>9, <2>10 DEF Next
<1> QED BY <1>0, LookupTypes DEF FSTypes

LEMMA DrivesStay ==
    ASSUME FSTypes, Walking, [Next]_fsVars
    PROVE  pc' # "boot" => DrivesFound'
<1>1. CASE InitFS
  <2>1. hw' = hw /\ \E guess \in BOOLEAN : drives' = MasterDrive \o SlaveDrive(guess)
    BY <1>1 DEF InitFS
  <2> QED BY <2>1 DEF DrivesFound, MasterDrive, SlaveDrive
<1>2. CASE ~InitFS
  <2>1. hw' = hw /\ drives' = drives /\ (pc' # "boot" => pc # "boot")
    BY <1>2 DEF Next, Walk, WalkSlave, AskForFile, FileReturned, Type, SpawnSized,
                SpawnMissing, SpawnRead, Answered, Missing, fsVars
  <2> QED BY <2>1 DEF Walking, DrivesFound, MasterDrive, SlaveDrive
<1> QED BY <1>1, <1>2

LEMMA WalkingStep ==
    ASSUME FSTypes, Walking, [Next]_fsVars
    PROVE  Walking'
<1> DEFINE Here == /\ pc \in {"walk", "looked"} =>
                         DriveOf(path) # 0 /\ drives[DriveOf(path)].iso
                   /\ pc = "walk" =>
                         /\ lastFolderLoc \in DOMAIN hw.disc.folders
                         /\ \/ \E k \in 1 .. Len(path) : rest = From(path, k)
                            \/ Strayed /\ strays > 0
                   /\ pc = "failed" => DriveOf(path) = 0 \/ ~drives[DriveOf(path)].iso
<1>0. hw' = hw
  BY StepKinds
<1>1. CASE Walk
  <2>1. /\ UNCHANGED <<path, drives>> /\ pc = "walk" /\ strays \in Nat
    BY <1>1 DEF Walk, FSTypes
  <2>2. DriveOf(path)' # 0 /\ drives'[DriveOf(path)'].iso
    BY <2>1 DEF Walking, DriveOf, SelectInSeq
  <2>3. pc' = "walk" =>
          /\ lastFolderLoc' \in DOMAIN hw.disc.folders
          /\ \/ \E k \in 1 .. Len(path) : rest' = From(path, k)
             \/ Strayed' /\ strays' > 0
    <3>1. ASSUME NEW k \in 1 .. Len(path), rest = From(path, k), k < Len(path)
          PROVE  /\ lastFolderLoc' \in DOMAIN hw.disc.folders
                 /\ k + 1 \in 1 .. Len(path) /\ rest' = From(path, k + 1)
      <4>1. k + 1 \in 1 .. Len(path)
        BY <3>1, PathWords DEF FSTypes
      <4> QED BY <1>1, <3>1, <4>1, RoundAt
    <3>2. ASSUME rest = From(path, Len(path)), pc' = "walk"
          PROVE  lastFolderLoc' \in DOMAIN hw.disc.folders /\ Strayed' /\ strays' > 0
      <4>1. Len(path) \in 1 .. Len(path)
        BY PathWords DEF FSTypes
      <4>2. /\ Looked(Component(path, Len(path)))
            /\ OverOrBeyond
            /\ Found(hw.disc.folders[lastFolderLoc], Component(path, Len(path))) = 0
        BY <1>1, <3>2, <4>1, RoundAt
      <4>3. lastFolderLoc' = lastFolderLoc
        BY <4>2 DEF Looked
      <4> QED BY <2>1, <3>2, <4>2, <4>3 DEF OverOrBeyond, Walking
    <3>3. ASSUME Strayed, pc' = "walk"
          PROVE  lastFolderLoc' \in DOMAIN hw.disc.folders /\ Strayed' /\ strays' > 0
      <4>1. OverOrBeyond /\ lastFolderLoc' = lastFolderLoc
        BY <1>1, <3>3, RoundBeyond
      <4> QED BY <2>1, <3>3, <4>1 DEF OverOrBeyond, Walking
    <3>4. \/ \E k \in 1 .. Len(path) : rest = From(path, k)
          \/ Strayed
      BY <2>1 DEF Walking
    <3>5. \A k \in 1 .. Len(path) : k < Len(path) \/ k = Len(path)
      BY PathWords DEF FSTypes
    <3> QED BY <3>1, <3>2, <3>3, <3>4, <3>5
  <2>4. pc' \in {"walk", "looked"}
    BY <1>1 DEF Walk, PastTheEnd
  <2>5. Here'
    BY <1>0, <2>1, <2>2, <2>3, <2>4
  <2> QED BY <2>5, DrivesStay DEF Walking
<1>2. CASE WalkSlave
  <2>1. UNCHANGED <<path, drives>> /\ pc = "walk" /\ pc' = "looked"
    BY <1>2 DEF WalkSlave
  <2>2. DriveOf(path)' # 0 /\ drives'[DriveOf(path)'].iso
    BY <2>1 DEF Walking, DriveOf, SelectInSeq
  <2> QED BY <2>1, <2>2, DrivesStay DEF Walking
<1>3. CASE Begins
  <2>1. Here'
    BY <1>0, <1>3, BeginsAtRoot
  <2> QED BY <2>1, DrivesStay DEF Walking
<1>4. CASE pc' \in {"prompt", "panic"}
  BY <1>4, DrivesStay DEF Walking
<1>5. CASE UNCHANGED fsVars
  <2>1. UNCHANGED <<hw, drives, pc, path, rest, lastFolderLoc, strays>>
    BY <1>5 DEF fsVars, lookupVars
  <2>2. DriveOf(path)' = DriveOf(path)
    BY <2>1 DEF DriveOf, SelectInSeq
  <2>3. Strayed' = Strayed
    BY <2>1 DEF Strayed
  <2> QED BY <2>1, <2>2, <2>3, DrivesStay DEF Walking
<1> QED BY <1>1, <1>2, <1>3, <1>4, <1>5, StepKinds

LEMMA StartsTyped == Init => FSTypes /\ Walking
<1>1. SUFFICES ASSUME Init PROVE FSTypes /\ Walking
  OBVIOUS
<1>2. <<Stray>> \in Path
  BY DEF Path
<1>3. 0 \in Nat /\ Nothing \in Loc
  BY DEF Loc
<1> QED BY <1>1, <1>2, <1>3 DEF Init, FSTypes, Walking, SpawnCallers, OtherCallers

\* The lookup of a drive that is there goes on or ends, and never leaves the disc's
\* folders.
THEOREM FileSystemTypes == Spec => [](FSTypes /\ Walking)
<1>1. FSTypes /\ Walking /\ [Next]_fsVars => FSTypes' /\ Walking'
  BY TypesStep, WalkingStep
<1> QED BY <1>1, StartsTyped, PTL DEF Spec

-----------------------------------------------------------------------------

(***************************************************************************)
(* What a lookup may answer                                                *)
(***************************************************************************)

Answers(p) ==
    Along(p) \cup UNION {{e.loc : e \in EntriesNamed(l, Last(p), TRUE)} : l \in Along(p)}

\* The loop is in a folder that the words of the path lead to, some of them left out.
OnPath ==
    /\ pc = "walk" =>
          \/ \E k \in 1 .. Len(path), r \in Routes(Len(path)) :
                /\ rest = From(path, k) /\ LeadsOrStays(r, path)
                /\ \A i \in k .. Len(path) : r[i] = lastFolderLoc
          \/ Strayed /\ lastFolderLoc \in Along(path)
    /\ pc = "looked" => lastFolderLoc = Unknown \/ lastFolderLoc \in Answers(path)

\* A match leads to an entry of that name.
LEMMA MatchNamed ==
    ASSUME FSTypes, Walking, Walk, NEW k \in 1 .. Len(path), Looked(Component(path, k)),
           Found(hw.disc.folders[lastFolderLoc], Component(path, k)) # 0
    PROVE  /\ k # 1
           /\ \E e \in EntriesNamed(lastFolderLoc, path[k], k = Len(path)) :
                 lastFolderLoc' = e.loc
<1> DEFINE c == Component(path, k)
           folder == hw.disc.folders[lastFolderLoc]
           i == Found(folder, c)
           n == Seen(folder, i)
<1>1. FolderHolds(hw.disc, lastFolderLoc, folder)
  BY FolderHere DEF Walking, Walk
<1>2. /\ i \in 1 .. Len(folder) /\ folder[i] \in Entries /\ folder[i].name = c
  <2> HIDE DEF folder, c, i, n
  <2>1. i = Found(folder, c) /\ n = Seen(folder, i) /\ i # 0
    BY DEF i, n, folder, c
  <2> QED BY <1>1, <2>1, FolderScan
<1>3. k # 1
  <2>1. c.base \in Words
    BY <1>2 DEF Entries
  <2> QED BY <2>1, FileSystemAssumption DEF Component
<1>4. c = [base |-> path[k], version |-> k = Len(path)]
  BY <1>3 DEF Component
<1>5. folder[i] \in EntriesNamed(lastFolderLoc, path[k], k = Len(path))
  <2>1. folder[i] \in ToSet(folder)
    BY <1>1, <1>2, LenProperties DEF ToSet, FolderHolds
  <2> QED BY <2>1, <1>2, <1>4 DEF EntriesNamed
<1>6. lastFolderLoc' = folder[i].loc
  BY DEF Looked
<1> QED BY <1>3, <1>5, <1>6

\* From one folder on a path to the next.
LEMMA RouteGoesOn ==
    ASSUME FSTypes, hw' = hw, NEW p \in Path, NEW k \in 1 .. Len(p), k < Len(p),
           NEW r \in Routes(Len(p)), LeadsOrStays(r, p), NEW l \in DOMAIN hw.disc.folders,
           l \in {r[k]} \cup Into(r[k], p[k])
    PROVE  \E s \in Routes(Len(p)) :
              LeadsOrStays(s, p) /\ \A i \in k + 1 .. Len(p) : s[i] = l
<1> DEFINE s == [i \in 1 .. Len(p) |-> IF i <= k THEN r[i] ELSE l]
<1>1. Len(p) \in Nat \ {0}
  BY PathWords
<1>2. r \in [1 .. Len(p) -> DOMAIN hw.disc.folders] /\ r[1] = hw.disc.root
  BY DEF Routes
<1>3. s \in Routes(Len(p))
  BY <1>1, <1>2 DEF Routes
<1>4. \A i \in k + 1 .. Len(p) : s[i] = l
  BY <1>1
<1>5. ASSUME NEW i \in 2 .. Len(p)
      PROVE  s[i] \in {s[i - 1]} \cup Into(s[i - 1], p[i - 1])
  <2>1. i - 1 \in 1 .. Len(p) /\ i \in 1 .. Len(p) /\ i \in Nat
    BY <1>1
  <2>2. CASE i <= k
    BY <2>1, <2>2, <1>5 DEF LeadsOrStays
  <2>3. CASE i = k + 1
    <3>1. s[i] = l /\ s[i - 1] = r[k] /\ i - 1 = k
      BY <2>1, <2>3
    <3> QED BY <3>1
  <2>4. CASE i > k + 1
    BY <2>1, <2>4
  <2> QED BY <2>1, <2>2, <2>3, <2>4
<1>6. LeadsOrStays(s, p)
  BY <1>5 DEF LeadsOrStays
<1> QED BY <1>3, <1>4, <1>6

\* The disc does not change.
LEMMA AnswersStay ==
    ASSUME hw' = hw, path' = path
    PROVE  Along(path)' = Along(path) /\ Answers(path)' = Answers(path)
<1>1. Along(path)' = Along(path)
  BY DEF Along, Routes, LeadsOrStays, Into, EntriesNamed
<1> QED BY <1>1 DEF Answers, EntriesNamed

LEMMA OnPathStep ==
    ASSUME FSTypes, Walking, OnPath, [Next]_fsVars
    PROVE  OnPath'
<1>0. hw' = hw /\ path \in Path /\ Len(path) \in Nat \ {0}
  BY StepKinds, PathWords DEF FSTypes
<1>1. CASE Walk
  <2>1. UNCHANGED path /\ pc = "walk" /\ pc' \in {"walk", "looked"}
    BY <1>1 DEF Walk, PastTheEnd
  <2>2. ASSUME NEW k \in 1 .. Len(path), NEW r \in Routes(Len(path)),
               rest = From(path, k), LeadsOrStays(r, path),
               \A i \in k .. Len(path) : r[i] = lastFolderLoc
        PROVE  OnPath'
    <3> DEFINE i == Found(hw.disc.folders[lastFolderLoc], Component(path, k))
    <3>1. r[k] = lastFolderLoc
      BY <2>2
    <3>2. Looked(Component(path, k)) /\ (i = 0 => lastFolderLoc' = lastFolderLoc)
      BY <1>1, <2>2, RoundAt DEF Looked
    <3>3. i # 0 => \E e \in EntriesNamed(r[k], path[k], k = Len(path)) :
                      lastFolderLoc' = e.loc
      BY <1>1, <3>1, <3>2, MatchNamed
    <3>4. CASE k < Len(path)
      <4>1. /\ pc' = "walk" /\ rest' = From(path, k + 1)
            /\ lastFolderLoc' \in DOMAIN hw.disc.folders
        BY <1>1, <2>2, <3>4, RoundAt
      <4>2. lastFolderLoc' \in {r[k]} \cup Into(r[k], path[k])
        <5>1. (k = Len(path)) = FALSE
          BY <3>4, <1>0
        <5> QED BY <5>1, <3>1, <3>2, <3>3 DEF Into
      <4>3. PICK s \in Routes(Len(path)) :
               LeadsOrStays(s, path) /\ \A j \in k + 1 .. Len(path) : s[j] = lastFolderLoc'
        BY <1>0, <2>2, <3>4, <4>1, <4>2, RouteGoesOn
      <4>4. k + 1 \in 1 .. Len(path)
        BY <1>0, <3>4
      <4>5. s \in Routes(Len(path))' /\ LeadsOrStays(s, path)'
        BY <1>0, <2>1, <4>3 DEF Routes, LeadsOrStays, Into, EntriesNamed
      <4> QED BY <2>1, <4>1, <4>3, <4>4, <4>5 DEF OnPath
    <3>5. CASE k = Len(path)
      <4>1. lastFolderLoc \in Along(path)
        BY <2>2, <3>1, <3>5 DEF Along
      <4>2. OverOrBeyond /\ (pc' = "walk" => i = 0)
        BY <1>1, <2>2, <3>5, RoundAt
      <4>3. i = 0 => lastFolderLoc' \in Along(path)
        BY <3>2, <4>1
      <4>4. i # 0 => lastFolderLoc' \in Answers(path)
        <5>1. (k = Len(path)) = TRUE
          BY <3>5
        <5>2. i # 0 => \E e \in EntriesNamed(lastFolderLoc, Last(path), TRUE) :
                          lastFolderLoc' = e.loc
          BY <5>1, <3>1, <3>3, <3>5 DEF Last
        <5>3. ASSUME NEW e \in EntriesNamed(lastFolderLoc, Last(path), TRUE)
              PROVE  e.loc \in Answers(path)
          <6> DEFINE locs(l) == {x.loc : x \in EntriesNamed(l, Last(path), TRUE)}
          <6>1. e.loc \in locs(lastFolderLoc)
            BY <5>3
          <6> HIDE DEF locs
          <6>2. e.loc \in UNION {locs(l) : l \in Along(path)}
            BY <6>1, <4>1
          <6> QED BY <6>2 DEF Answers, locs
        <5> QED BY <5>2, <5>3
      <4>5. lastFolderLoc' \in Answers(path)
        BY <4>3, <4>4 DEF Answers
      <4>6. pc' = "walk" => Strayed'
        BY <4>2 DEF OverOrBeyond
      <4> HIDE DEF i
      <4>7. lastFolderLoc' \in Answers(path)' /\ (pc' = "walk" => lastFolderLoc' \in Along(path)')
        BY <2>1, <4>2, <4>3, <4>5, <1>0, AnswersStay
      <4> QED BY <4>6, <4>7 DEF OnPath
    <3> QED BY <3>4, <3>5, <1>0
  <2>3. ASSUME Strayed, lastFolderLoc \in Along(path)
        PROVE  OnPath'
    <3>1. OverOrBeyond /\ lastFolderLoc' = lastFolderLoc
      BY <1>1, <2>3, RoundBeyond
    <3>2. lastFolderLoc' \in Along(path)'
      BY <1>0, <2>1, <2>3, <3>1, AnswersStay
    <3> QED BY <3>1, <3>2 DEF OnPath, OverOrBeyond, Answers
  <2> QED BY <2>1, <2>2, <2>3 DEF OnPath
<1>2. CASE WalkSlave
  BY <1>2 DEF WalkSlave, OnPath
<1>3. CASE Begins
  <2>1. /\ path' \in Path /\ lastFolderLoc' = hw.disc.root
        /\ hw.disc.root \in DOMAIN hw.disc.folders
        /\ Start(path') \in 1 .. Len(path') /\ rest' = From(path', Start(path'))
        /\ pc' # "looked"
    BY <1>0, <1>3, BeginsAtRoot
  <2>7. PICK r : r = [i \in 1 .. Len(path') |-> hw.disc.root]
    OBVIOUS
  <2>2. Len(path') \in Nat \ {0}
    BY <2>1, PathWords
  <2>3. r \in Routes(Len(path))'
    BY <1>0, <2>1, <2>2, <2>7 DEF Routes
  <2>4. LeadsOrStays(r, path)'
    <3>1. \A i \in 2 .. Len(path') : i \in 1 .. Len(path') /\ i - 1 \in 1 .. Len(path')
      BY <2>2
    <3>2. \A i \in 2 .. Len(path') : r[i] = r[i - 1]
      BY <3>1, <2>7
    <3> QED BY <3>2 DEF LeadsOrStays
  <2>5. \A i \in Start(path') .. Len(path') : r[i] = lastFolderLoc'
    BY <2>1, <2>2, <2>7
  <2>6. \E k \in 1 .. Len(path'), s \in Routes(Len(path))' :
           /\ rest' = From(path', k) /\ LeadsOrStays(s, path)'
           /\ \A i \in k .. Len(path') : s[i] = lastFolderLoc'
    BY <2>1, <2>3, <2>4, <2>5
  <2> QED BY <2>1, <2>6 DEF OnPath
<1>4. CASE pc' \in {"prompt", "panic"}
  BY <1>4 DEF OnPath
<1>5. CASE UNCHANGED fsVars
  <2>1. UNCHANGED <<hw, pc, path, rest, lastFolderLoc>>
    BY <1>5 DEF fsVars, lookupVars
  <2>2. Along(path)' = Along(path) /\ Answers(path)' = Answers(path) /\ Strayed' = Strayed
    BY <2>1, AnswersStay DEF Strayed
  <2>3. Routes(Len(path))' = Routes(Len(path))
    BY <2>1 DEF Routes
  <2>4. \A r : LeadsOrStays(r, path)' = LeadsOrStays(r, path)
    BY <2>1 DEF LeadsOrStays, Into, EntriesNamed
  <2> QED BY <2>1, <2>2, <2>3, <2>4 DEF OnPath
<1> QED BY <1>1, <1>2, <1>3, <1>4, <1>5, StepKinds

\* What a lookup answers is a folder on the way, or a file of the name asked for in
\* one (iso9660GetFileInfo), whatever it has read beyond the end of the path.
THEOREM LookupsStayOnPath == Spec => []AnswersOnPath
<1>1. Init => OnPath
  BY DEF Init, OnPath
<1>2. FSTypes /\ Walking /\ OnPath /\ [Next]_fsVars => OnPath'
  BY OnPathStep
<1>3. OnPath => AnswersOnPath
  BY DEF OnPath, Answers, AnswersOnPath, Answered
<1> QED BY <1>1, <1>2, <1>3, FileSystemTypes, PTL DEF Spec

-----------------------------------------------------------------------------

(***************************************************************************)
(* What a lookup must find                                                 *)
(***************************************************************************)

\* The loop is on every way to a file of the name asked for.
Finding ==
    pc = "walk" /\ MasterIsA /\ FullPath(path) =>
        \A r \in Routes(Len(path) - 1) :
            Leads(r, path) /\ EntriesNamed(r[Len(path) - 1], Last(path), TRUE) # {} =>
                \E k \in 2 .. Len(path) : rest = From(path, k) /\ lastFolderLoc = r[k - 1]

\* An entry of the name looked for is the one that is found: no other has its name.
LEMMA NamedMatched ==
    ASSUME FSTypes, Walking, Walk, NEW k \in 2 .. Len(path), Looked(Component(path, k)),
           NEW v, v = (k = Len(path)), NEW e \in EntriesNamed(lastFolderLoc, path[k], v)
    PROVE  /\ Found(hw.disc.folders[lastFolderLoc], Component(path, k)) # 0
           /\ lastFolderLoc' = e.loc /\ fileSize' = e.size
           /\ k = Len(path) => lastDirIsFile'
<1> DEFINE c == Component(path, k)
           folder == hw.disc.folders[lastFolderLoc]
           i == Found(folder, c)
           n == Seen(folder, i)
<1>1. FolderHolds(hw.disc, lastFolderLoc, folder)
  BY FolderHere DEF Walking, Walk
<1>2. c = [base |-> path[k], version |-> v]
  BY DEF Component
<1>3. PICK j \in 1 .. Len(folder) : folder[j] = e /\ folder[j].name = c
  <2>1. DOMAIN folder = 1 .. Len(folder)
    BY <1>1, LenProperties DEF FolderHolds
  <2>2. e \in ToSet(folder) /\ e.name = c
    BY <1>2 DEF EntriesNamed
  <2> QED BY <2>1, <2>2 DEF ToSet
<1>4. i # 0 /\ i \in 1 .. Len(folder) /\ n = i /\ n \in 1 .. Len(folder) /\ folder[i].name = c
  <2> HIDE DEF folder, c, i, n
  <2>1. i = Found(folder, c) /\ n = Seen(folder, i)
    BY DEF i, n, folder, c
  <2> QED BY <1>1, <1>3, <2>1, FolderScan
<1>5. i = j
  BY <1>1, <1>3, <1>4, LenProperties DEF FolderHolds
<1>6. /\ fileSize' = folder[n].size
      /\ lastFolderLoc' = folder[i].loc
      /\ lastDirIsFile' = (lastDirIsFile \/ \E m \in 1 .. n : folder[m].name.version)
  BY <1>4 DEF Looked
<1>7. lastFolderLoc' = e.loc /\ fileSize' = e.size
  BY <1>3, <1>4, <1>5, <1>6
<1>8. ASSUME k = Len(path)
      PROVE  lastDirIsFile'
  <2>1. folder[i].name.version
    <3>1. v = TRUE
      BY <1>8
    <3>2. folder[i].name = [base |-> path[k], version |-> TRUE]
      BY <3>1, <1>2, <1>4
    <3> QED BY <3>2
  <2>2. i \in 1 .. n
    BY <1>4
  <2> QED BY <2>1, <2>2, <1>6
<1> QED BY <1>4, <1>7, <1>8

\* The routes to what is asked for depend on the disc and the path only.
LEMMA RoutesStay ==
    ASSUME hw' = hw, path' = path
    PROVE  /\ MasterIsA' = MasterIsA /\ FullPath(path)' = FullPath(path)
           /\ Routes(Len(path) - 1)' = Routes(Len(path) - 1)
           /\ \A r : Leads(r, path)' = Leads(r, path)
           /\ \A l : EntriesNamed(l, Last(path), TRUE)' = EntriesNamed(l, Last(path), TRUE)
           /\ Named(path)' = Named(path)
BY DEF MasterIsA, FullPath, Routes, Leads, Into, EntriesNamed, Last, Named

\* A round on the way to what is asked for.
LEMMA RoundOnRoute ==
    ASSUME FSTypes, Walking, Walk, FullPath(path),
           NEW r \in Routes(Len(path) - 1), Leads(r, path),
           NEW e \in EntriesNamed(r[Len(path) - 1], Last(path), TRUE),
           NEW k \in 2 .. Len(path), rest = From(path, k), lastFolderLoc = r[k - 1]
    PROVE  /\ k < Len(path) =>
                 pc' = "walk" /\ rest' = From(path, k + 1) /\ lastFolderLoc' = r[k]
           /\ k = Len(path) =>
                 /\ pc' = "looked"
                 /\ lastDirIsFile' /\ lastFolderLoc' = e.loc /\ fileSize' = e.size
<1>1. Len(path) \in Nat \ {0} /\ k \in 1 .. Len(path)
  BY PathWords DEF FSTypes
<1>2. Looked(Component(path, k))
  BY <1>1, RoundAt
<1>3. ASSUME k < Len(path)
      PROVE  pc' = "walk" /\ rest' = From(path, k + 1) /\ lastFolderLoc' = r[k]
  <2>1. k \in 2 .. Len(path) - 1
    BY <1>1, <1>3
  <2>2. r[k] \in Into(r[k - 1], path[k])
    BY <2>1 DEF Leads
  <2>3. PICK x \in EntriesNamed(lastFolderLoc, path[k], FALSE) : x.loc = r[k]
    BY <2>2 DEF Into
  <2>4. (k = Len(path)) = FALSE
    BY <1>1, <1>3
  <2>5. lastFolderLoc' = x.loc
    BY <1>2, <2>3, <2>4, NamedMatched
  <2> QED BY <1>1, <1>3, <2>3, <2>5, RoundAt
<1>4. ASSUME k = Len(path)
      PROVE  pc' = "looked" /\ lastDirIsFile' /\ lastFolderLoc' = e.loc /\ fileSize' = e.size
  <2>1. e \in EntriesNamed(lastFolderLoc, path[k], TRUE) /\ (k = Len(path)) = TRUE
    BY <1>4 DEF Last
  <2>2. /\ Found(hw.disc.folders[lastFolderLoc], Component(path, k)) # 0
        /\ lastDirIsFile' /\ lastFolderLoc' = e.loc /\ fileSize' = e.size
    BY <1>2, <1>4, <2>1, NamedMatched
  <2>3. OverOrBeyond /\ pc' # "walk"
    BY <1>1, <1>4, <2>2, RoundAt
  <2> QED BY <2>2, <2>3 DEF OverOrBeyond
<1> QED BY <1>3, <1>4

LEMMA FindingStep ==
    ASSUME FSTypes, Walking, Finding, FindsFile, [Next]_fsVars
    PROVE  Finding' /\ FindsFile'
<1>0. hw' = hw
  BY StepKinds
<1>1. CASE Walk
  <2>0. path' = path /\ pc = "walk" /\ Len(path) \in Nat \ {0}
    BY <1>1, PathWords DEF Walk, FSTypes
  <2>1. ASSUME pc' = "walk", MasterIsA, FullPath(path),
               NEW r \in Routes(Len(path) - 1), Leads(r, path),
               NEW e \in EntriesNamed(r[Len(path) - 1], Last(path), TRUE)
        PROVE  \E k \in 2 .. Len(path) : rest' = From(path, k) /\ lastFolderLoc' = r[k - 1]
    <3>1. PICK k \in 2 .. Len(path) : rest = From(path, k) /\ lastFolderLoc = r[k - 1]
      BY <2>0, <2>1 DEF Finding
    <3>2. k < Len(path)
      <4>1. SUFFICES ASSUME k = Len(path) PROVE FALSE
        BY <2>0
      <4>2. pc' = "looked"
        BY <1>1, <2>1, <3>1, <4>1, RoundOnRoute
      <4> QED BY <4>2, <2>1
    <3>3. rest' = From(path, k + 1) /\ lastFolderLoc' = r[k]
      BY <1>1, <2>1, <3>1, <3>2, RoundOnRoute
    <3>4. k + 1 \in 2 .. Len(path) /\ (k + 1) - 1 = k
      BY <2>0, <3>2
    <3> QED BY <3>3, <3>4
  <2>2. ASSUME pc' = "looked", MasterIsA, FullPath(path), NEW e \in Named(path)
        PROVE  lastDirIsFile' /\ lastFolderLoc' = e.loc /\ fileSize' = e.size
    <3>1. PICK r \in Routes(Len(path) - 1) :
             Leads(r, path) /\ e \in EntriesNamed(r[Len(path) - 1], Last(path), TRUE)
      BY <2>2 DEF Named
    <3>2. PICK k \in 2 .. Len(path) : rest = From(path, k) /\ lastFolderLoc = r[k - 1]
      BY <2>0, <2>2, <3>1 DEF Finding
    <3>3. k = Len(path)
      <4>1. SUFFICES ASSUME k < Len(path) PROVE FALSE
        BY <2>0
      <4>2. pc' = "walk"
        BY <1>1, <2>2, <3>1, <3>2, <4>1, RoundOnRoute
      <4> QED BY <4>2, <2>2
    <3> QED BY <1>1, <2>2, <3>1, <3>2, <3>3, RoundOnRoute
  <2>3. Finding'
    BY <1>0, <2>0, <2>1, RoutesStay DEF Finding
  <2>4. FindsFile'
    BY <1>0, <2>0, <2>2, RoutesStay DEF FindsFile
  <2> QED BY <2>3, <2>4
<1>2. CASE WalkSlave
  <2>1. /\ pc = "walk" /\ pc' = "looked" /\ path' = path
        /\ drives[DriveOf(path)].slave
    BY <1>2 DEF WalkSlave
  <2>2. ~(MasterIsA /\ FullPath(path))
    BY <2>1, DiscWellWritten, DriveAsked DEF Walking, FullPath
  <2> QED BY <1>0, <2>1, <2>2, RoutesStay DEF Finding, FindsFile
<1>3. CASE Begins
  <2>1. /\ path' \in Path /\ lastFolderLoc' = hw.disc.root /\ pc' # "looked"
        /\ Start(path') \in 1 .. Len(path') /\ rest' = From(path', Start(path'))
    BY <1>0, <1>3, BeginsAtRoot
  <2>2. ASSUME FullPath(path')
        PROVE  /\ 2 \in 2 .. Len(path') /\ rest' = From(path', 2)
               /\ \A r \in Routes(Len(path) - 1)' : lastFolderLoc' = r[2 - 1]
    <3>1. Len(path') \in Nat /\ Len(path') > 1
      BY <2>1, <2>2, PathWords DEF FullPath
    <3>2. Start(path') = 2
      BY <2>2, FileSystemAssumption DEF Start, FullPath
    <3>3. \A r \in Routes(Len(path) - 1)' : lastFolderLoc' = r[1]
      BY <1>0, <2>1 DEF Routes
    <3> QED BY <2>1, <3>1, <3>2, <3>3
  <2>3. Finding'
    <3>1. FullPath(path)' = FullPath(path')
      BY DEF FullPath
    <3> QED BY <2>2, <3>1 DEF Finding
  <2> QED BY <2>1, <2>3 DEF FindsFile
<1>4. CASE pc' \in {"prompt", "panic"}
  BY <1>4 DEF Finding, FindsFile
<1>5. CASE UNCHANGED fsVars
  <2>1. UNCHANGED <<hw, pc, path, rest, lastFolderLoc, fileSize, lastDirIsFile>>
    BY <1>5 DEF fsVars, lookupVars
  <2>2. Finding'
    BY <2>1, RoutesStay DEF Finding
  <2>3. FindsFile'
    BY <2>1, RoutesStay DEF FindsFile
  <2> QED BY <2>2, <2>3
<1> QED BY <1>1, <1>2, <1>3, <1>4, <1>5, StepKinds

LEMMA FindsAlways == Spec => [](Finding /\ FindsFile)
<1>1. Init => Finding /\ FindsFile
  BY DEF Init, Finding, FindsFile
<1>2. FSTypes /\ Walking /\ Finding /\ FindsFile /\ [Next]_fsVars => Finding' /\ FindsFile'
  BY FindingStep
<1> QED BY <1>1, <1>2, FileSystemTypes, PTL DEF Spec

\* A file that is there is found by its full path, with its own size, whatever lies
\* beside it and above it (iso9660GetFileInfo).
THEOREM LookupsFindFiles == Spec => []FindsFile
BY FindsAlways, PTL

-----------------------------------------------------------------------------

(***************************************************************************)
(* Room for what is read                                                   *)
(***************************************************************************)

\* What has been rounded up stays as it is.
LEMMA BlocksOnce ==
    ASSUME NEW b \in Nat
    PROVE  BytesToBlock(BytesToBlock(b)) = BytesToBlock(b)
<1> DEFINE q == (b + Block - 1) \div Block
           r == (q * Block + Block - 1) \div Block
<1>1. Block \in Nat /\ Block > 0 /\ q \in Nat
  BY Blocks, FileSystemAssumption
<1> HIDE DEF q
<1>2. q * Block \in Nat
  BY <1>1
<1>3. r = q
  <2>1. r \in Int /\ Block * r <= q * Block + Block - 1 /\ q * Block + Block - 1 < Block * r + Block
    <3> DEFINE a == q * Block + Block - 1
    <3>1. a \in Nat
      BY <1>1, <1>2
    <3> HIDE DEF a
    <3>2. a \div Block \in Int /\ a = Block * (a \div Block) + (a % Block)
          /\ a % Block \in 0 .. Block - 1
      BY <1>1, <3>1
    <3> QED BY <1>1, <3>1, <3>2 DEF a
  <2> HIDE DEF r
  <2>2. q * Block = Block * q
    BY <1>1
  <2>3. Block * (r - q) = Block * r - Block * q
    BY <1>1, <2>1
  <2>4. r - q < 1
    <3>1. SUFFICES ASSUME r - q >= 1 PROVE FALSE
      BY <1>1, <2>1
    <3>2. Block * (r - q) >= Block
      BY <1>1, <2>1, <3>1
    <3> QED BY <1>1, <2>1, <2>2, <2>3, <3>2
  <2>5. r - q > -1
    <3>1. SUFFICES ASSUME r - q <= -1 PROVE FALSE
      BY <1>1, <2>1
    <3>2. Block * (r - q) <= -Block
      BY <1>1, <2>1, <3>1
    <3> QED BY <1>1, <2>1, <2>2, <2>3, <3>2
  <2> QED BY <1>1, <2>1, <2>4, <2>5
<1>4. BytesToBlock(b) = q * Block
  BY DEF BytesToBlock, q
<1>5. BytesToBlock(q * Block) = r * Block
  BY DEF BytesToBlock
<1> QED BY <1>3, <1>4, <1>5

\* Where a round leads, and the size it leaves, by the disc alone.
After(at, name) ==
    LET folder == hw.disc.folders[at.loc]
        i == Found(folder, name)
    IN  [loc |-> IF i = 0 THEN at.loc ELSE folder[i].loc,
         size |-> folder[Seen(folder, i)].size]

\* t goes through the first rounds of a lookup, from the root to the k-th word.
Rounds(t, p, k) ==
    /\ t[Start(p)] = [loc |-> hw.disc.root, size |-> 0]
    /\ \A i \in Start(p) .. k - 1 : t[i + 1] = After(t[i], Component(p, i))

Sized(b) == BytesToBlock(b) = bufferSize

\* A second lookup of a path goes the way of the first, on which the buffer's size
\* was found, as long as neither has gone beyond the end of the path.
WalkRepeats ==
    pc = "walk" /\ caller \in SpawnCallers /\ strays = 0 /\ ~drives[DriveOf(path)].slave =>
        \E k \in Start(path) .. Len(path) : \E t :
            /\ rest = From(path, k) /\ Rounds(t, path, k)
            /\ t[k] = [loc |-> lastFolderLoc, size |-> fileSize]
            /\ caller = "read" =>
                 Rounds(t, path, Len(path) + 1) /\ Sized(t[Len(path) + 1].size)

EndRepeats ==
    pc = "looked" /\ caller \in SpawnCallers /\ strays = 0 =>
        \/ lastFolderLoc = Unknown /\ drives[DriveOf(path)].slave
        \/ \E t : /\ Rounds(t, path, Len(path) + 1)
                  /\ t[Len(path) + 1] = [loc |-> lastFolderLoc, size |-> fileSize]
                  /\ caller = "read" => Sized(fileSize)

BufferMade ==
    pc \in {"walk", "looked"} /\ caller = "read" =>
        info.size = bufferSize /\ \E b \in Nat : Sized(b)

Repeats == WalkRepeats /\ EndRepeats /\ BufferMade

LEMMA AfterStays ==
    ASSUME hw' = hw
    PROVE  /\ \A at, name : After(at, name)' = After(at, name)
           /\ \A t, p, k : Rounds(t, p, k)' = Rounds(t, p, k)
BY DEF After, Rounds

\* One more round.
LEMMA OneMoreRound ==
    ASSUME NEW p \in Path, NEW k \in Start(p) .. Len(p), NEW t, Rounds(t, p, k), NEW last,
           last = After(t[k], Component(p, k))
    PROVE  \E u : Rounds(u, p, k + 1) /\ u[k + 1] = last
<1> DEFINE u == [i \in 1 .. Len(p) + 1 |-> IF i = k + 1 THEN last ELSE t[i]]
<1>1. Len(p) \in Nat \ {0} /\ Start(p) \in 1 .. Len(p) /\ k \in Nat
  BY PathWords
<1>2. \A i \in Start(p) .. k : u[i] = t[i]
  BY <1>1
<1>3. u[k + 1] = last
  BY <1>1
<1>4. ASSUME NEW i \in Start(p) .. (k + 1) - 1
      PROVE  u[i + 1] = After(u[i], Component(p, i))
  <2>1. CASE i = k
    BY <1>1, <1>2, <1>3, <2>1
  <2>2. CASE i # k
    <3>1. i \in Start(p) .. k - 1 /\ i + 1 \in Start(p) .. k /\ i \in Start(p) .. k
      BY <1>1, <2>2
    <3> QED BY <1>2, <3>1 DEF Rounds
  <2> QED BY <2>1, <2>2
<1>5. u[Start(p)] = t[Start(p)]
  BY <1>1, <1>2
<1> HIDE DEF u
<1> QED BY <1>3, <1>4, <1>5 DEF Rounds

LEMMA RepeatsWalk ==
    ASSUME FSTypes, Walking, Repeats, Walk
    PROVE  Repeats'
<1>1. /\ UNCHANGED <<hw, drives, caller, path, info, bufferSize>>
      /\ pc = "walk" /\ pc' \in {"walk", "looked"} /\ ~drives[DriveOf(path)].slave
  BY DEF Walk, PastTheEnd, spawnVars
<1>2. path \in Path /\ Len(path) \in Nat \ {0} /\ strays \in Nat
  BY PathWords DEF FSTypes
<1>3. BufferMade'
  BY <1>1 DEF Repeats, BufferMade, Sized, BytesToBlock
<1>4. ASSUME caller \in SpawnCallers, strays' = 0
      PROVE  WalkRepeats' /\ EndRepeats'
  <2>1. strays = 0
    <3>1. strays' = strays \/ strays' = strays + 1
      BY DEF Walk, PastTheEnd
    <3> QED BY <3>1, <1>2, <1>4
  <2>0. PICK k \in Start(path) .. Len(path) : \E t :
           /\ rest = From(path, k) /\ Rounds(t, path, k)
           /\ t[k] = [loc |-> lastFolderLoc, size |-> fileSize]
           /\ caller = "read" =>
                Rounds(t, path, Len(path) + 1) /\ Sized(t[Len(path) + 1].size)
    BY <1>1, <1>4, <2>1 DEF Repeats, WalkRepeats
  <2>2. PICK t :
           /\ rest = From(path, k) /\ Rounds(t, path, k)
           /\ t[k] = [loc |-> lastFolderLoc, size |-> fileSize]
           /\ caller = "read" =>
                Rounds(t, path, Len(path) + 1) /\ Sized(t[Len(path) + 1].size)
    BY <2>0
  <2> DEFINE last == [loc |-> lastFolderLoc', size |-> fileSize']
  <2>3. k \in 1 .. Len(path) /\ k \in Nat
    BY <1>2, PathWords
  <2>4. last = After(t[k], Component(path, k))
    BY <2>2, <2>3, RoundAt DEF Looked, After
  <2>5. PICK u : /\ Rounds(u, path, k + 1) /\ u[k + 1] = last
                 /\ caller = "read" =>
                      Rounds(u, path, Len(path) + 1) /\ Sized(u[Len(path) + 1].size)
    <3>1. CASE caller = "read"
      <4>1. t[k + 1] = last
        <5>1. k \in Start(path) .. (Len(path) + 1) - 1
          BY <1>2, <2>3
        <5> QED BY <2>2, <2>4, <3>1, <5>1 DEF Rounds
      <4>2. Rounds(t, path, k + 1)
        <5>1. \A i \in Start(path) .. (k + 1) - 1 : i \in Start(path) .. (Len(path) + 1) - 1
          BY <1>2, <2>3, PathWords
        <5> QED BY <2>2, <3>1, <5>1 DEF Rounds
      <4> QED BY <2>2, <3>1, <4>1, <4>2
    <3>2. CASE caller # "read"
      <4> HIDE DEF last
      <4>1. \E u : Rounds(u, path, k + 1) /\ u[k + 1] = last
        BY <1>2, <2>2, <2>4, OneMoreRound
      <4> QED BY <3>2, <4>1
    <3> QED BY <3>1, <3>2
  <2>6. /\ Rounds(u, path, k + 1)'
        /\ caller' = "read" =>
             Rounds(u, path, Len(path) + 1)' /\ Sized(u[Len(path) + 1].size)'
    BY <1>1, <2>5, AfterStays DEF Sized, BytesToBlock
  <2>7. CASE k < Len(path)
    <3>1. pc' = "walk" /\ rest' = From(path, k + 1)
      BY <2>2, <2>3, <2>7, RoundAt
    <3>2. k + 1 \in Start(path) .. Len(path)
      BY <1>2, <2>3, <2>7, PathWords
    <3>3. WalkRepeats'
      BY <1>1, <2>5, <2>6, <3>1, <3>2 DEF WalkRepeats
    <3> QED BY <3>1, <3>3 DEF EndRepeats
  <2>8. CASE k = Len(path)
    <3>1. OverOrBeyond
      BY <2>2, <2>3, <2>8, RoundAt
    <3>2. pc' = "looked"
      BY <3>1, <1>4, <2>1 DEF OverOrBeyond
    <3>3. caller' = "read" => Sized(fileSize)'
      <4>1. u[Len(path) + 1].size = fileSize'
        BY <2>5, <2>8
      <4> QED BY <1>1, <2>5, <4>1 DEF Sized, BytesToBlock
    <3>4. EndRepeats'
      BY <1>1, <2>5, <2>6, <2>8, <3>3 DEF EndRepeats
    <3> QED BY <3>2, <3>4 DEF WalkRepeats
  <2> QED BY <1>2, <2>3, <2>7, <2>8
<1>5. CASE ~(caller \in SpawnCallers /\ strays' = 0)
  <2>1. ~(caller' \in SpawnCallers /\ strays' = 0)
    BY <1>1, <1>5
  <2>2. WalkRepeats'
    BY <2>1 DEF WalkRepeats
  <2>3. EndRepeats'
    BY <2>1 DEF EndRepeats
  <2> QED BY <2>2, <2>3, <1>3 DEF Repeats
<1> QED BY <1>3, <1>4, <1>5 DEF Repeats

\* A lookup to find a size has not gone anywhere yet.
LEMMA RepeatsSpawn ==
    ASSUME FSTypes, hw' = hw, Begins, caller' = "spawn"
    PROVE  Repeats'
<1>1. /\ path' \in Path /\ lastFolderLoc' = hw.disc.root /\ fileSize' = 0
      /\ Start(path') \in 1 .. Len(path') /\ rest' = From(path', Start(path'))
      /\ pc' \in {"walk", "failed"}
  BY BeginsAtRoot
<1>2. Len(path') \in Nat \ {0}
  BY <1>1, PathWords
<1>3. PICK t : t = [i \in 1 .. Len(path') |-> [loc |-> hw.disc.root, size |-> 0]]
  OBVIOUS
<1>4. t[Start(path')] = [loc |-> hw.disc.root, size |-> 0]
  BY <1>1, <1>3
<1>5. Rounds(t, path, Start(path))'
  <2>1. Start(path') .. Start(path') - 1 = {}
    BY <1>1, <1>2
  <2>2. Start(path)' = Start(path')
    BY DEF Start
  <2> QED BY <1>4, <2>1, <2>2 DEF Rounds
<1>6. Start(path') \in Start(path') .. Len(path')
  BY <1>1, <1>2
<1>7. WalkRepeats'
  BY <1>1, <1>4, <1>5, <1>6 DEF WalkRepeats, Start
<1>8. EndRepeats' /\ BufferMade'
  BY <1>1 DEF EndRepeats, BufferMade
<1> QED BY <1>7, <1>8 DEF Repeats

\* The lookup to read begins where the other began, and has its rounds to go by.
LEMMA RepeatsRead ==
    ASSUME FSTypes, Walking, Repeats, hw' = hw, SpawnSized
    PROVE  Repeats'
<1>1. /\ UNCHANGED <<drives, strays>> /\ pc = "looked" /\ caller = "spawn"
      /\ info' = Answer /\ bufferSize' = Answer.size
      /\ BeginLookup("read", path)
  BY DEF SpawnSized, Answered
<1>2. Begins /\ path' = path /\ caller' = "read"
  BY <1>1 DEF Begins, BeginLookup, FSTypes, SpawnCallers
<1>3. /\ path \in Path /\ lastFolderLoc' = hw.disc.root /\ fileSize' = 0
      /\ Start(path) \in 1 .. Len(path) /\ rest' = From(path, Start(path))
      /\ pc' \in {"walk", "failed"}
  BY <1>2, BeginsAtRoot
<1>4. info'.size = bufferSize' /\ fileSize \in Nat
  BY <1>1 DEF FSTypes
<1>5. BytesToBlock(fileSize) = bufferSize'
  BY <1>1 DEF Answer
<1>6. BufferMade'
  BY <1>4, <1>5 DEF BufferMade, Sized, BytesToBlock
<1>7. WalkRepeats'
  <2>1. SUFFICES ASSUME pc' = "walk", strays' = 0, ~drives'[DriveOf(path)'].slave
                 PROVE  WalkRepeats'
    BY DEF WalkRepeats
  <2>2. ~drives[DriveOf(path)].slave
    BY <1>1, <1>2, <2>1 DEF DriveOf, SelectInSeq
  <2>3. PICK t : /\ Rounds(t, path, Len(path) + 1)
                 /\ t[Len(path) + 1] = [loc |-> lastFolderLoc, size |-> fileSize]
    BY <1>1, <2>1, <2>2 DEF Repeats, EndRepeats, SpawnCallers
  <2>4. Rounds(t, path, Len(path) + 1)'
    BY <1>2, <2>3, AfterStays
  <2>5. Rounds(t, path, Start(path))' /\ t[Start(path)] = [loc |-> hw.disc.root, size |-> 0]
    <3>1. Start(path') = Start(path) /\ Start(path) .. Start(path) - 1 = {}
      BY <1>2, <1>3, PathWords
    <3> QED BY <1>2, <2>3, <3>1 DEF Rounds, Start
  <2>6. Sized(t[Len(path) + 1].size)'
    BY <1>2, <1>5, <2>3 DEF Sized, BytesToBlock
  <2>7. Start(path) \in Start(path) .. Len(path)
    BY <1>3, PathWords
  <2> QED BY <1>2, <1>3, <2>4, <2>5, <2>6, <2>7 DEF WalkRepeats, Start
<1>8. EndRepeats'
  BY <1>3 DEF EndRepeats
<1> QED BY <1>6, <1>7, <1>8 DEF Repeats

\* What is read has the size that the buffer was made for.
LEMMA ReadIsSized ==
    ASSUME FSTypes, Repeats, SpawnRead, strays = 0
    PROVE  readSize' <= bufferSize'
<1> DEFINE found == IF lastDirIsFile THEN Answer ELSE info
<1>1. /\ caller = "read" /\ pc = "looked" /\ bufferSize' = bufferSize /\ bufferSize \in Nat
      /\ readSize' = IF found.lbaLoc = Unknown THEN 0 ELSE BytesToBlock(found.size)
  BY DEF SpawnRead, BytesToBlock, FSTypes
<1>2. PICK b \in Nat : BytesToBlock(b) = bufferSize /\ info.size = bufferSize
  BY <1>1 DEF Repeats, BufferMade, Sized
<1>3. found.lbaLoc # Unknown => found.size = bufferSize
  <2>1. CASE ~lastDirIsFile
    BY <2>1, <1>2
  <2>2. ASSUME lastDirIsFile, lastFolderLoc # Unknown
        PROVE  found.size = bufferSize
    <3>1. Sized(fileSize)
      BY <1>1, <2>2 DEF Repeats, EndRepeats, SpawnCallers
    <3> QED BY <2>2, <3>1 DEF Answer, Sized
  <2>3. lastDirIsFile => found.lbaLoc = lastFolderLoc
    BY DEF Answer
  <2> QED BY <2>1, <2>2, <2>3
<1>4. BytesToBlock(bufferSize) = bufferSize
  BY <1>2, BlocksOnce
<1> HIDE DEF found
<1> QED BY <1>1, <1>3, <1>4

LEMMA RepeatsStep ==
    ASSUME FSTypes, Walking, Repeats, ReadFits, [Next]_fsVars
    PROVE  Repeats' /\ ReadFits'
<1>0. hw' = hw
  BY StepKinds
<1>1. CASE InitFS
  <2>1. UNCHANGED <<caller, readSize, bufferSize, strays>> /\ pc' \in {"panic", "prompt"}
    BY <1>1 DEF InitFS, lookupVars, spawnVars
  <2> QED BY <2>1 DEF Repeats, WalkRepeats, EndRepeats, BufferMade, ReadFits
<1>2. CASE Walk
  <2>1. /\ UNCHANGED <<caller, readSize, bufferSize>> /\ strays \in Nat
        /\ strays' = strays \/ strays' = strays + 1
    BY <1>2 DEF Walk, PastTheEnd, spawnVars, FSTypes
  <2>2. strays' = 0 => strays = 0
    BY <2>1
  <2> QED BY <1>2, <2>1, <2>2, RepeatsWalk DEF ReadFits
<1>3. CASE WalkSlave
  <2>1. /\ UNCHANGED <<hw, drives, caller, path, info, bufferSize, readSize, strays>>
        /\ pc = "walk" /\ pc' = "looked" /\ lastFolderLoc' = Unknown
        /\ drives[DriveOf(path)].slave
    BY <1>3 DEF WalkSlave, spawnVars
  <2>2. drives'[DriveOf(path)'].slave
    BY <2>1 DEF DriveOf, SelectInSeq
  <2>3. WalkRepeats' /\ EndRepeats'
    BY <2>1, <2>2 DEF WalkRepeats, EndRepeats
  <2>4. BufferMade'
    BY <2>1 DEF Repeats, BufferMade, Sized, BytesToBlock
  <2> QED BY <2>1, <2>3, <2>4 DEF Repeats, ReadFits
<1>4. ASSUME NEW p \in Paths, AskForFile(p)
      PROVE  Repeats' /\ ReadFits'
  <2>1. caller' \in {"SC_LOADFILE", "SC_GETFILEINFO"}
    BY <1>4 DEF AskForFile, BeginLookup
  <2> QED BY <2>1 DEF Repeats, WalkRepeats, EndRepeats, BufferMade, ReadFits, SpawnCallers
<1>5. CASE FileReturned
  <2>1. UNCHANGED <<caller, readSize, bufferSize, strays>> /\ pc' = "prompt"
    BY <1>5 DEF FileReturned, lookupVars, spawnVars
  <2> QED BY <2>1 DEF Repeats, WalkRepeats, EndRepeats, BufferMade, ReadFits
<1>6. ASSUME NEW l \in Lines, Type(l)
      PROVE  Repeats' /\ ReadFits'
  <2>1. Begins /\ caller' = "spawn" /\ readSize' = 0 /\ bufferSize' = 0
    BY <1>6, GivenPaths DEF Type, Begins, SpawnCallers, BeginLookup
  <2> QED BY <1>0, <2>1, RepeatsSpawn DEF ReadFits
<1>7. CASE SpawnSized
  <2>1. readSize' = 0 /\ bufferSize' = Answer.size /\ Answer.size \in Nat
    BY <1>7, AnswerTyped DEF SpawnSized
  <2>2. ReadFits'
    BY <2>1 DEF ReadFits
  <2> QED BY <1>0, <1>7, <2>2, RepeatsRead
<1>8. ASSUME SpawnFailed, pc # "boot", UNCHANGED drives
      PROVE  Repeats'
  <2>1. CASE reRan \/ line \in TooLong
    BY <1>8, <2>1 DEF SpawnFailed, Repeats, WalkRepeats, EndRepeats, BufferMade
  <2>2. CASE ~(reRan \/ line \in TooLong)
    <3>1. Begins /\ caller' = "spawn"
      BY <1>8, <2>2, RetryPath DEF SpawnFailed, Begins, BeginLookup, SpawnCallers
    <3> QED BY <1>0, <3>1, RepeatsSpawn
  <2> QED BY <2>1, <2>2
<1>9. CASE SpawnMissing
  <2>1. /\ caller = "spawn" /\ pc # "boot" /\ SpawnFailed
        /\ UNCHANGED <<drives, readSize, bufferSize, strays>>
    BY <1>9 DEF SpawnMissing, Missing, spawnVars
  <2> QED BY <1>8, <2>1 DEF ReadFits
<1>10. CASE SpawnRead
  <2>1. /\ caller = "read" /\ pc # "boot" /\ UNCHANGED <<drives, strays>>
        /\ SpawnFailed \/ pc' = "prompt"
    BY <1>10 DEF SpawnRead
  <2>2. ReadFits'
    BY <1>10, <2>1, ReadIsSized DEF ReadFits
  <2>3. Repeats'
    BY <1>8, <2>1 DEF Repeats, WalkRepeats, EndRepeats, BufferMade
  <2> QED BY <2>2, <2>3
<1>11. CASE UNCHANGED fsVars
  <2>1. UNCHANGED <<hw, drives, pc, caller, path, rest, lastFolderLoc, fileSize, info,
                    bufferSize, readSize, strays>>
    BY <1>11 DEF fsVars, lookupVars, spawnVars
  <2>2. /\ DriveOf(path)' = DriveOf(path)
        /\ \A t, k : Rounds(t, path, k)' = Rounds(t, path, k)
        /\ \A b : Sized(b)' = Sized(b)
    BY <2>1 DEF DriveOf, SelectInSeq, Rounds, After, Start, Sized, BytesToBlock
  <2>3. WalkRepeats'
    BY <2>1, <2>2 DEF Repeats, WalkRepeats
  <2>4. EndRepeats'
    BY <2>1, <2>2 DEF Repeats, EndRepeats
  <2>5. BufferMade' /\ ReadFits'
    BY <2>1, <2>2 DEF Repeats, BufferMade, ReadFits
  <2> QED BY <2>3, <2>4, <2>5 DEF Repeats
<1> QED
  BY <1>1, <1>2, <1>3, <1>4, <1>5, <1>6, <1>7, <1>9, <1>10, <1>11 DEF Next

\* spawnProcess never reads more into its buffer than it has made room for, as long as
\* no lookup has gone beyond the end of its path, on every disc.
THEOREM ReadsFit == Spec => []ReadFits
<1>1. Init => Repeats /\ ReadFits
  BY DEF Init, Repeats, WalkRepeats, EndRepeats, BufferMade, ReadFits
<1>2. FSTypes /\ Walking /\ Repeats /\ ReadFits /\ [Next]_fsVars => Repeats' /\ ReadFits'
  BY RepeatsStep
<1> QED BY <1>1, <1>2, FileSystemTypes, PTL DEF Spec

-----------------------------------------------------------------------------

(***************************************************************************)
(* The program that was typed                                              *)
(***************************************************************************)

\* The paths of programs that a line asks for.
Wanted(p) ==
    \/ p = line /\ FullPath(line)
    \/ p = Retry(line) /\ Len(line) = 1 /\ line \notin TooLong

Trusted == MasterIsA /\ FoldersLookLikeData /\ ~SlaveAsked

Served == pc \in {"prompt", "panic"} \/ caller \in OtherCallers

\* A bare name is looked up as a path at first: the loop stays at the root, which is
\* refused if it is read.
FirstTry ==
    /\ Len(line) = 1 /\ path = line /\ ~reRan /\ line \notin TooLong
    /\ pc \in {"walk", "looked", "failed"}
    /\ pc # "failed" => lastFolderLoc = hw.disc.root
    /\ caller = "read" => info.lbaLoc = hw.disc.root /\ pc # "failed"

Reached(p, e) ==
    \/ Served /\ started = e.loc
    \/ ~Served /\ path = p /\ pc \in {"walk", "looked"}
    \/ ~Served /\ FirstTry

\* A program that was typed runs, is looked up, or is about to be.
Starting ==
    Trusted => \A p \in Path : \A e \in Named(p) :
                  Wanted(p) /\ Program(e.loc) => Reached(p, e)

\* Nothing has been typed.
Untyped == pc = "boot" => line = <<Stray>>

\* The lookup of a full path on a good disc begins.
LEMMA WantedBegins ==
    ASSUME FSTypes, DrivesFound, MasterIsA, NEW p \in Path, FullPath(p), NEW who,
           BeginLookup(who, p)
    PROVE  pc' = "walk" /\ path' = p
<1>1. DriveOf(p) = 1 /\ drives[1].iso
  BY DiscWellWritten, DriveAsked DEF FullPath
<1> QED BY <1>1 DEF BeginLookup

LEMMA NamedStay ==
    ASSUME hw' = hw
    PROVE  /\ \A p : Named(p)' = Named(p)
           /\ \A l : Program(l)' = Program(l)
           /\ MasterIsA' = MasterIsA /\ FoldersLookLikeData' = FoldersLookLikeData
<1>1. \A p : Named(p)' = Named(p)
  BY DEF Named, Routes, Leads, Into, EntriesNamed
<1> QED BY <1>1 DEF Program, MasterIsA, FoldersLookLikeData

LEMMA NamedEntries ==
    ASSUME FSTypes, NEW p \in Path, FullPath(p), NEW e \in Named(p)
    PROVE  e \in Entries /\ e.name.base = Last(p) /\ e.loc # Unknown
<1>1. PICK r \in Routes(Len(p) - 1) : e \in EntriesNamed(r[Len(p) - 1], Last(p), TRUE)
  BY DEF Named
<1>2. r[Len(p) - 1] \in DOMAIN hw.disc.folders
  <2>1. Len(p) - 1 \in 1 .. Len(p) - 1
    BY PathWords DEF FullPath
  <2> QED BY <2>1 DEF Routes
<1>3. hw.disc.folders[r[Len(p) - 1]] \in Seq(Entries)
  BY <1>2, FolderHere DEF FolderHolds
<1>4. e \in Entries
  BY <1>1, <1>3, LenProperties, ElementOfSeq DEF EntriesNamed, ToSet
<1>5. e.name.base = Last(p)
  BY <1>1 DEF EntriesNamed
<1> QED BY <1>4, <1>5 DEF Entries, Places

LEMMA WantedFull ==
    ASSUME FSTypes, NEW p \in Path, Wanted(p)
    PROVE  FullPath(p)
<1>1. p = Retry(line) => p[1] = "A:" /\ Len(p) = Len(line) + 2
  BY RetryPath
<1> QED BY <1>1 DEF Wanted, FullPath

\* Nobody wants a program before anything is typed.
LEMMA NothingWanted ==
    ASSUME FSTypes, line = <<Stray>>, NEW p \in Path, Wanted(p), NEW e \in Named(p)
    PROVE  FALSE
<1>1. ~FullPath(line)
  BY DEF FullPath
<1>2. p = Retry(line) /\ Len(p) = 3 /\ FullPath(p)
  BY <1>1, RetryPath, WantedFull DEF Wanted
<1>3. p[3] = Stray
  BY <1>2 DEF Retry
<1>4. e.name.base = Stray /\ e \in Entries
  BY <1>2, <1>3, NamedEntries DEF Last
<1> QED BY <1>4, FileSystemAssumption DEF Entries

\* The shell's second try, when the first was refused.
LEMMA RetryReaches ==
    ASSUME FSTypes, DrivesFound, MasterIsA, hw' = hw, UNCHANGED drives, FirstTry,
           NEW p \in Path, Wanted(p), NEW e, SpawnFailed
    PROVE  Reached(p, e)'
<1>1. p = Retry(line) /\ FullPath(p)
  <2>1. ~FullPath(line)
    BY DEF FirstTry, FullPath
  <2> QED BY <2>1, WantedFull DEF Wanted
<1>2. BeginLookup("spawn", p)
  BY <1>1 DEF SpawnFailed, FirstTry
<1>3. pc' = "walk" /\ path' = p
  BY <1>1, <1>2, WantedBegins
<1>4. caller' = "spawn"
  BY <1>2 DEF BeginLookup
<1> QED BY <1>3, <1>4 DEF Reached, Served, OtherCallers

\* The first try ends where it began.
LEMMA FirstTryStays ==
    ASSUME FSTypes, Walking, FirstTry, Walk
    PROVE  lastFolderLoc' = hw.disc.root
<1>1. lastFolderLoc = hw.disc.root /\ Len(path) = 1 /\ pc = "walk"
  BY DEF FirstTry, Walk
<1>2. CASE Strayed
  BY <1>1, <1>2, RoundBeyond
<1>3. ASSUME NEW k \in 1 .. Len(path), rest = From(path, k)
      PROVE  lastFolderLoc' = lastFolderLoc
  <2>1. Looked(Component(path, k)) /\ k = 1
    BY <1>1, <1>3, RoundAt
  <2>2. Found(hw.disc.folders[lastFolderLoc], Component(path, k)) = 0
    BY <2>1, MatchNamed
  <2> QED BY <2>1, <2>2 DEF Looked
<1> QED BY <1>1, <1>2, <1>3 DEF Walking

LEMMA StartingStep ==
    ASSUME FSTypes, Walking, FindsFile, Untyped, Starting, [Next]_fsVars, Trusted',
           NEW p \in Path, NEW e \in Named(p), Wanted(p)', Program(e.loc)
    PROVE  Reached(p, e)'
<1>0. hw' = hw /\ MasterIsA /\ FoldersLookLikeData
  BY StepKinds, NamedStay DEF Trusted
<1>1. CASE InitFS
  <2>1. line = <<Stray>> /\ line' = line
    BY <1>1 DEF Untyped, InitFS, shellVars
  <2>2. Wanted(p)
    BY <2>1 DEF Wanted, FullPath, Retry
  <2> QED BY <2>1, <2>2, NothingWanted
<1>2. ASSUME line' = line, drives' = drives
      PROVE  Trusted /\ Wanted(p) /\ FullPath(p) /\ Reached(p, e)
  <2>1. Trusted
    BY <1>0, <1>2 DEF Trusted, SlaveAsked
  <2>2. Wanted(p)
    BY <1>2 DEF Wanted, FullPath, Retry
  <2> QED BY <2>1, <2>2, WantedFull DEF Starting
<1>3. CASE Walk
  <2>1. /\ UNCHANGED <<line, drives, caller, path, info, started, reRan>>
        /\ pc = "walk" /\ pc' \in {"walk", "looked"}
    BY <1>3 DEF Walk, PastTheEnd, spawnVars, shellVars
  <2>2. FirstTry => FirstTry'
    BY <1>0, <1>3, <2>1, FirstTryStays DEF FirstTry
  <2> QED BY <1>2, <2>1, <2>2 DEF Reached, Served
<1>4. CASE WalkSlave
  <2>1. /\ UNCHANGED <<line, drives, caller, path, started>>
        /\ pc = "walk" /\ pc' = "looked" /\ drives[DriveOf(path)].slave
    BY <1>4 DEF WalkSlave, shellVars
  <2>2. ~FirstTry
    <3>1. SUFFICES ASSUME FirstTry PROVE SlaveAsked
      BY <1>2, <2>1 DEF Trusted
    <3>2. DrivesFound /\ DriveOf(line) # 0 /\ drives[DriveOf(line)].slave
      BY <2>1, <3>1 DEF Walking, FirstTry
    <3>3. /\ drives \in Seq(Drive) /\ DriveOf(line) \in 1 .. Len(drives)
          /\ drives[DriveOf(line)].letter = Initial[line[1]]
      BY <3>2, DiscWellWritten, DriveAsked, LenProperties
    <3>4. drives[DriveOf(line)] \in ToSet(drives)
      BY <3>3, LenProperties DEF ToSet
    <3> QED BY <3>2, <3>3, <3>4 DEF SlaveAsked
  <2> QED BY <1>2, <2>1, <2>2 DEF Reached, Served
<1>5. ASSUME NEW q \in Paths, AskForFile(q)
      PROVE  Reached(p, e)'
  <2>1. UNCHANGED <<line, drives, started>> /\ pc = "prompt" /\ caller' \in OtherCallers
    BY <1>5 DEF AskForFile, BeginLookup, shellVars, OtherCallers
  <2> QED BY <1>2, <2>1 DEF Reached, Served
<1>6. CASE FileReturned
  <2>1. UNCHANGED <<line, drives, started>> /\ caller \in OtherCallers /\ pc' = "prompt"
    BY <1>6 DEF FileReturned, shellVars, OtherCallers
  <2> QED BY <1>2, <2>1 DEF Reached, Served
<1>7. ASSUME NEW l \in Lines, Type(l)
      PROVE  Reached(p, e)'
  <2>1. /\ line' = l /\ ~reRan' /\ BeginLookup("spawn", l) /\ UNCHANGED drives
        /\ pc = "prompt" /\ DrivesFound
    BY <1>7 DEF Type, Walking
  <2>2. caller' = "spawn" /\ path' = l /\ lastFolderLoc' = hw'.disc.root
        /\ pc' \in {"walk", "failed"}
    BY <1>0, <2>1 DEF BeginLookup
  <2>3. ~Served'
    BY <2>2 DEF Served, OtherCallers
  <2>4. CASE p = l /\ FullPath(l)
    BY <1>0, <2>1, <2>3, <2>4, WantedBegins DEF Reached
  <2>5. CASE Len(l) = 1 /\ l \notin TooLong
    BY <2>1, <2>2, <2>3, <2>5 DEF Reached, FirstTry
  <2>6. (p = l /\ FullPath(l)) \/ (Len(l) = 1 /\ l \notin TooLong)
    BY <2>1 DEF Wanted, FullPath
  <2> QED BY <2>4, <2>5, <2>6
<1>8. CASE SpawnSized
  <2>1. /\ UNCHANGED <<line, drives, started, reRan>> /\ pc = "looked" /\ caller = "spawn"
        /\ info' = Answer /\ BeginLookup("read", path)
    BY <1>8 DEF SpawnSized, Answered, shellVars
  <2>2. DriveOf(path) # 0 /\ drives[DriveOf(path)].iso
    BY <2>1 DEF Walking
  <2>3. caller' = "read" /\ path' = path /\ lastFolderLoc' = hw'.disc.root /\ pc' = "walk"
    BY <1>0, <2>1, <2>2 DEF BeginLookup
  <2>4. ~Served /\ ~Served'
    BY <2>1, <2>3 DEF Served, OtherCallers
  <2>5. FirstTry => FirstTry'
    BY <1>0, <2>1, <2>3 DEF FirstTry, Answer
  <2> QED BY <1>2, <2>1, <2>3, <2>4, <2>5 DEF Reached
<1>9. CASE SpawnMissing
  <2>1. /\ UNCHANGED drives /\ caller = "spawn" /\ Missing /\ SpawnFailed /\ line' = line
    BY <1>9 DEF SpawnMissing, SpawnFailed, shellVars
  <2>2. ~Served
    BY <2>1 DEF Served, OtherCallers, Missing
  <2>3. ~(path = p /\ pc \in {"walk", "looked"})
    BY <1>0, <1>2, <2>1 DEF FindsFile, Missing
  <2>4. FirstTry
    BY <1>2, <2>1, <2>2, <2>3 DEF Reached
  <2>5. DrivesFound
    BY <2>4 DEF Walking, FirstTry
  <2> QED BY <1>0, <1>2, <2>1, <2>4, <2>5, RetryReaches
<1>10. CASE SpawnRead
  <2> DEFINE found == IF lastDirIsFile THEN Answer ELSE info
  <2>1. /\ UNCHANGED drives /\ caller = "read" /\ pc = "looked" /\ line' = line
        /\ \E accepted \in (IF found.lbaLoc = Unknown THEN BOOLEAN
                            ELSE {Accepted(found.lbaLoc)}) :
              IF accepted
              THEN started' = found.lbaLoc /\ pc' = "prompt"
              ELSE SpawnFailed
    BY <1>10 DEF SpawnRead, SpawnFailed, shellVars
  <2>2. ~Served /\ DrivesFound
    BY <2>1 DEF Served, OtherCallers, Walking
  <2>3. CASE path = p
    <3>1. found.lbaLoc = e.loc
      BY <1>0, <1>2, <2>1, <2>3 DEF FindsFile, Answer
    <3>2. e.loc # Unknown
      BY <1>2, <2>1, NamedEntries
    <3>3. Accepted(e.loc) = TRUE
      <4>1. hw.disc.looks[e.loc] # {}
        BY DEF Program
      <4> QED BY <4>1 DEF Accepted
    <3> HIDE DEF found
    <3>4. started' = e.loc /\ pc' = "prompt"
      BY <2>1, <3>1, <3>2, <3>3
    <3> QED BY <3>4 DEF Reached, Served
  <2>4. CASE FirstTry
    <3>1. found.lbaLoc = hw.disc.root
      BY <2>1, <2>4 DEF FirstTry, Answer
    <3>2. hw.disc.root \in DOMAIN hw.disc.folders /\ hw.disc.root # Unknown
      BY DiscWellWritten DEF WellWritten, Places
    <3>3. Accepted(hw.disc.root) = FALSE
      BY <1>0, <3>2 DEF Accepted, FoldersLookLikeData
    <3> HIDE DEF found
    <3>4. SpawnFailed
      BY <2>1, <3>1, <3>2, <3>3
    <3> QED BY <1>0, <1>2, <2>1, <2>2, <2>4, <3>4, RetryReaches
  <2>5. path = p \/ FirstTry
    BY <1>2, <2>1, <2>2 DEF Reached
  <2> QED BY <2>3, <2>4, <2>5
<1>11. CASE UNCHANGED fsVars
  <2>1. UNCHANGED <<hw, drives, pc, caller, path, lastFolderLoc, info, line, reRan, started>>
    BY <1>11 DEF fsVars, lookupVars, spawnVars, shellVars
  <2> QED BY <1>2, <2>1 DEF Reached, Served, FirstTry
<1> QED
  BY <1>1, <1>3, <1>4, <1>5, <1>6, <1>7, <1>8, <1>9, <1>10, <1>11 DEF Next

LEMMA UntypedStep ==
    ASSUME FSTypes, Untyped, [Next]_fsVars
    PROVE  Untyped'
<1>1. CASE UNCHANGED fsVars
  BY <1>1 DEF Untyped, fsVars, shellVars
<1>2. CASE Next
  <2>1. pc' # "boot"
    BY <1>2, StepKinds DEF Next, InitFS, Walk, PastTheEnd, WalkSlave, AskForFile, FileReturned, Type,
                SpawnSized, SpawnMissing, SpawnRead, SpawnFailed, BeginLookup
  <2> QED BY <2>1 DEF Untyped
<1> QED BY <1>1, <1>2

\* Whoever types the path of a program, or the name of one in PROGDAT, gets it: through
\* the shell's two tries and spawnProcess's two lookups in each (main in shell.c,
\* spawnProcess, iso9660GetFileInfo), on every disc, with every drive.
THEOREM TypedProgramsRun == Spec => []RunsTyped
<1>1. Init => Starting /\ Untyped
  <2>1. SUFFICES ASSUME Init PROVE Starting /\ Untyped
    OBVIOUS
  <2>2. FSTypes /\ line = <<Stray>>
    BY <2>1, StartsTyped DEF Init
  <2> QED BY <2>2, NothingWanted DEF Starting, Untyped
<1>2. FSTypes /\ Walking /\ FindsFile /\ Starting /\ Untyped /\ [Next]_fsVars
         => Starting' /\ Untyped'
  <2>1. SUFFICES ASSUME FSTypes, Walking, FindsFile, Starting, Untyped, [Next]_fsVars
                 PROVE  Starting' /\ Untyped'
    OBVIOUS
  <2>2. hw' = hw
    BY <2>1, StepKinds
  <2>3. ASSUME Trusted', NEW p \in Path, NEW e \in Named(p), Wanted(p)', Program(e.loc)
        PROVE  Reached(p, e)'
    BY <2>1, <2>3, StartingStep
  <2>4. Starting'
    BY <2>2, <2>3, NamedStay DEF Starting
  <2> QED BY <2>1, <2>4, UntypedStep
<1>3. FSTypes /\ Starting => RunsTyped
  <2>1. SUFFICES ASSUME FSTypes, Starting, pc = "prompt", Trusted
                 PROVE  RunsTyped
    BY DEF RunsTyped, Trusted
  <2>2. Served
    BY <2>1 DEF Served
  <2>3. line \in Path /\ Retry(line) \in Path
    BY <2>1, RetryPath DEF FSTypes
  <2> QED BY <2>1, <2>2, <2>3 DEF RunsTyped, Starting, Wanted, Reached
<1> QED BY <1>1, <1>2, <1>3, FileSystemTypes, FindsAlways, PTL DEF Spec

=============================================================================
