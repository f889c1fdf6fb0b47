------------------------------- MODULE Mailbox ------------------------------
(***************************************************************************)
(* What message passing promises: each process has a mailbox of its own, a *)
(* FIFO queue of bounded length; a message carries the name of the process *)
(* that really sent it; and reading one moves it, whole, to the desk of    *)
(* the process that owns the box.  Nothing else touches box or desk: no    *)
(* message is lost, doubled or passed to a process that comes later.       *)
(***************************************************************************)
EXTENDS Integers, Sequences

CONSTANTS
    Ids,        \* names of processes
    Bodies,     \* what messages say
    Requests,   \* what messages say that a program has sent for it
    Notices,    \* what messages say that nobody who runs has asked for
    Capacity    \* messages a box holds

VARIABLES
    mail,   \* per process, its unread messages, oldest first
    desk,   \* per process, the message structure it sends from and reads to
    running \* the process that runs, or -1

mbVars == <<mail, desk, running>>

Live == DOMAIN mail

\* f with x added (its value y) and f without x.
With(f, x, y) == [z \in DOMAIN f \cup {x} |-> IF z = x THEN y ELSE f[z]]
Without(f, x) == [z \in DOMAIN f \ {x} |-> f[z]]

Init ==
    /\ \E id \in Ids : mail = [z \in {id} |-> <<>>] /\ Live = {id}
    /\ DOMAIN desk = Live
    /\ running = -1

\* The sender's own structure gets the stamp too.
Send(to, body) ==
    /\ UNCHANGED running
    /\ running \in Live
    /\ Len(mail[to]) < Capacity
    /\ mail' = [mail EXCEPT ![to] = Append(@, <<running, body>>)]
    /\ desk' = [desk EXCEPT ![running] = <<running, body>>]

\* A message composed for the running process; its structure stays as it is.
Forward(to, body) ==
    /\ UNCHANGED running
    /\ running \in Live
    /\ Len(mail[to]) < Capacity
    /\ mail' = [mail EXCEPT ![to] = Append(@, <<running, body>>)]
    /\ UNCHANGED desk

\* A notice may name anybody as its sender.
Notify(to, body) ==
    /\ UNCHANGED running
    /\ Len(mail[to]) < Capacity
    /\ \E from \in Ids : mail' = [mail EXCEPT ![to] = Append(@, <<from, body>>)]
    /\ UNCHANGED desk

Read ==
    /\ UNCHANGED running
    /\ running \in Live
    /\ mail[running] # <<>>
    /\ mail' = [mail EXCEPT ![running] = Tail(@)]
    /\ desk' = [desk EXCEPT ![running] = Head(mail[running])]

\* The running process writes something else in its structure.
Scribble ==
    /\ UNCHANGED running
    /\ running \in Live
    /\ UNCHANGED mail
    /\ desk' = [desk EXCEPT ![running] = desk'[running]]

\* A new process begins with an empty box, whoever had its place before.
Arrive(id) ==
    /\ UNCHANGED running
    /\ running \in Live
    /\ mail' = With(mail, id, <<>>)
    /\ desk' = With(desk, id, desk'[id])

Leave ==
    /\ running' = -1
    /\ running \in Live
    /\ mail' = Without(mail, running)
    /\ desk' = Without(desk, running)

Switch ==
    /\ running' \in Live
    /\ UNCHANGED <<mail, desk>>

Next ==
    \/ Switch
    \/ \E to \in Live, body \in Bodies : Send(to, body)
    \/ \E to \in Live, body \in Requests : Forward(to, body)
    \/ \E to \in Live, body \in Notices : Notify(to, body)
    \/ Read
    \/ Scribble
    \/ \E id \in (Ids \ Live) \cap DOMAIN mail' : Arrive(id)
    \/ Leave

Spec == Init /\ [][Next]_mbVars

=============================================================================
