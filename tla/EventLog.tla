------------------------------ MODULE EventLog ------------------------------
(***************************************************************************)
(* What the agent promises those who follow its events, and nothing of     *)
(* how: there is one log per process, a reader gets the events it asked    *)
(* for one after the other, none left out and none twice, and it is told   *)
(* when it has fallen too far behind or when the log is another one.  No   *)
(* reader that is within reach of the end is ever told so.                 *)
(***************************************************************************)
EXTENDS Integers, Sequences

CONSTANTS
    Client, Session,
    Capacity   \* how far behind the end of the log a reader may come back

VARIABLES
    epoch,      \* which log this is
    published,  \* the log
    reader      \* what each client has asked for, where it is and what it has got

vars == <<epoch, published, reader>>

AllSessions == "all"

NewReader == [filter |-> AllSessions, epoch |-> 0, cursor |-> 0, since |-> 0, gap |-> FALSE,
              log |-> <<>>]

Init ==
    /\ epoch = 1
    /\ published = <<>>
    /\ reader = [c \in Client |-> NewReader]

\* Positions of what a reader has still to get.
Awaited(c) ==
    {n \in 1 .. Len(published) :
        /\ reader[c].cursor < n
        /\ reader[c].filter \in {AllSessions, published[n].session}}

Got(c, event) ==
    [reader[c] EXCEPT !.log = Append(@, event), !.cursor = event.seq]

\* Readers that have got everything, and want the new event too, may have it at once.
Publish(s) ==
    LET event == [seq |-> Len(published) + 1, session |-> s]
    IN  /\ published' = Append(published, event)
        /\ \E now \in SUBSET {c \in Client : /\ reader[c].epoch = epoch
                                             /\ Awaited(c) = {}
                                             /\ reader[c].filter \in {AllSessions, s}} :
              reader' = [c \in Client |-> IF c \in now THEN Got(c, event) ELSE reader[c]]
        /\ UNCHANGED epoch

\* The next event a reader awaits, whatever came and went in between.
Read(c) ==
    /\ reader[c].epoch = epoch
    /\ \E n \in Awaited(c) :
          /\ \A m \in Awaited(c) : n <= m
          /\ reader' = [reader EXCEPT ![c] = Got(c, published[n])]
    /\ UNCHANGED <<epoch, published>>

\* A reader begins within reach of the end and has everything from there on.
Follow(c, filter) ==
    /\ \E from \in 0 .. Len(published) :
          /\ Len(published) - from <= Capacity
          /\ reader' = [reader EXCEPT ![c] =
                           [filter |-> filter, epoch |-> epoch, cursor |-> from,
                            since |-> from, gap |-> FALSE, log |-> <<>>]]
    /\ UNCHANGED <<epoch, published>>

\* Only a reader out of reach is told of a gap, and goes on as close behind as it can.
FallBehind(c) ==
    LET reach == Len(published) - Capacity
    IN  /\ reader[c].epoch = epoch /\ reader[c].cursor < reach
        /\ reader' = [reader EXCEPT ![c].log = <<>>, ![c].gap = TRUE,
                                     ![c].since = reach, ![c].cursor = reach]
        /\ UNCHANGED <<epoch, published>>

\* A reader of an earlier log is told so, and only such a reader.
Forget(c) ==
    /\ reader[c].epoch \notin {0, epoch}
    /\ reader' = [reader EXCEPT ![c] = NewReader]
    /\ UNCHANGED <<epoch, published>>

NewLog ==
    /\ epoch' = epoch + 1
    /\ published' = <<>>
    /\ UNCHANGED reader

Next ==
    \/ \E s \in Session : Publish(s)
    \/ \E c \in Client :
          \/ Read(c) \/ FallBehind(c) \/ Forget(c)
          \/ \E filter \in Session \cup {AllSessions} : Follow(c, filter)
    \/ NewLog

Spec == Init /\ [][Next]_vars

=============================================================================
