------------------------------- MODULE MCFiles ------------------------------
(***************************************************************************)
(* The file system for TLC: a disc with a program in PROGDAT, one of the   *)
(* same name elsewhere, a file that is none, and a folder without files;   *)
(* the same disc with a root that looks like a program; a disc without a   *)
(* partition, one with another file system, and none at all.               *)
(***************************************************************************)
EXTENDS FileSystem

Entry(base, version, loc, size) ==
    [name |-> [base |-> base, version |-> version], loc |-> loc, size |-> size]
\* The name of the second entry, which is the folder above, is the byte 1.
Up == "(up)"
Folder(loc, up, entries) ==
    <<Entry(Empty, FALSE, loc, 4), Entry(Up, FALSE, up, 4)>> \o entries

Folders ==
    (10 :> Folder(10, 10, <<Entry("PROGDAT", FALSE, 20, 4), Entry("README", TRUE, 11, 6),
                            Entry("VOID", FALSE, 40, 4), Entry("LOG", TRUE, 12, 13)>>)) @@
    (20 :> Folder(20, 10, <<Entry("APP", TRUE, 21, 9), Entry("SHELL", TRUE, 22, 8),
                            Entry("WM", FALSE, 30, 4)>>)) @@
    (30 :> Folder(30, 20, <<Entry("APP", TRUE, 31, 5), Entry("BACK", TRUE, 32, 13)>>)) @@
    (40 :> Folder(40, 10, <<>>))

\* The same without a file in the root.
BareRoot == [Folders EXCEPT ![10] = <<@[1], @[2], @[3], @[5]>>]

MCWords == {"A:", "B:", "PROGDAT", "README", "VOID", "LOG", "APP", "SHELL", "WM", "BACK", Up, Empty}

Looks == [l \in {10, 11, 12, 20, 21, 22, 30, 31, 32, 40} |->
              IF l \in {21, 22, 31} THEN 1 .. 3 ELSE {}]

Good == [present |-> TRUE, part |-> TRUE, iso |-> TRUE, root |-> 10,
         folders |-> Folders, looks |-> Looks]

MCDiscs == {Good, [Good EXCEPT !.folders = BareRoot], [Good EXCEPT !.looks[10] = {1}],
            [Good EXCEPT !.part = FALSE], [Good EXCEPT !.iso = FALSE],
            [Good EXCEPT !.present = FALSE, !.part = FALSE]}

MCInitial == [w \in {"A:", "B:", "APP", "SHELL", "BACK", Empty, Stray} |->
                  IF w \in {"A:", "APP"} THEN "A" ELSE IF w \in {"B:", "BACK"} THEN "B" ELSE "S"]

MCPaths == {<<"A:", "PROGDAT", "WM", "BACK">>, <<"A:", "PROGDAT", "WM">>,
            <<"A:", "VOID", "WM", "APP">>, <<"A:", Empty, "README">>, <<"A:">>,
            <<"A:", "PROGDAT", Empty>>, <<"B:", "PROGDAT", "APP">>}
MCLines == {<<"APP">>, <<"SHELL">>, <<"BACK">>, <<"A:", "PROGDAT", "WM", "APP">>,
            <<"A:", "WM", "APP">>, <<"SHELL", "APP">>, <<"A:", "VOID", "SHELL">>}
MCTooLong == {<<"SHELL", "APP">>}

=============================================================================
