------------------------------ MODULE EventBus ------------------------------
(***************************************************************************)
(* The event log between the agent and whoever watches it                  *)
(* (packages/agent-core/src/services/agent-service/event-bus.ts).          *)
(*                                                                         *)
(* Every event gets the next sequence number and goes into a ring buffer   *)
(* that overwrites the oldest, and to every open subscription.  A client   *)
(* that lost its subscription comes back with its cursor, the number of    *)
(* the last event it got, and the epoch it got it in; the bus replays what *)
(* the ring still has after the cursor, says so when that is not all, and  *)
(* refuses a cursor of another epoch: a restarted process counts from 1    *)
(* again.                                                                  *)
(***************************************************************************)
EXTENDS Integers, SequencesExt

CONSTANTS
    Client,    \* clients; each has at most one subscription at a time
    Session,   \* session ids
    Capacity,  \* historyCapacity
    MaxSeq,    \* bound: events emitted by one process
    MaxEpoch   \* bound: processes, numbered in the order they start

ASSUME CapacityAssumption == Capacity \in Nat \ {0}
ASSUME BoundAssumption == MaxSeq \in Nat /\ MaxEpoch \in Nat \ {0}

VARIABLES
    epoch,         \* _epoch of the running process
    nextSeq,       \* nextSeq
    historyBuffer, \* historyBuffer: the ring, indexed from 0
    historyHead,   \* historyHead: the slot the next event overwrites
    historyCount,  \* historyCount: slots in use
    sub,           \* the Subscriber of each client
    client,        \* what each client knows
    emitted        \* history: every event of this epoch, in order

bus  == <<epoch, nextSeq, historyBuffer, historyHead, historyCount>>
vars == <<bus, sub, client, emitted>>

NoEvent == [seq |-> 0, session |-> "none"]
AllSessions == "all"  \* a subscription without a sessionId

Matches(filter, event) == filter = AllSessions \/ event.session = filter

\* queue, an outstanding next(), closed; a client without one has it closed.
NoSubscription == [open |-> FALSE, queue |-> <<>>, waiting |-> FALSE]

\* A client's filter, the epoch of its cursor, its cursor, and since when it
\* has seen everything: the events it got after `since` are its log, which begins
\* with a gap if info.replayTruncated has made it start over.
NewClient == [filter |-> AllSessions, epoch |-> 0, cursor |-> 0, since |-> 0, gap |-> FALSE,
              log |-> <<>>]

FreshBus ==
    /\ nextSeq' = 1
    /\ historyBuffer' = [i \in 0 .. Capacity - 1 |-> NoEvent]
    /\ historyHead' = 0 /\ historyCount' = 0
    /\ sub' = [c \in Client |-> NoSubscription]
    /\ emitted' = <<>>

Init ==
    /\ epoch = 1
    /\ nextSeq = 1
    /\ historyBuffer = [i \in 0 .. Capacity - 1 |-> NoEvent]
    /\ historyHead = 0 /\ historyCount = 0
    /\ sub = [c \in Client |-> NoSubscription]
    /\ client = [c \in Client |-> NewClient]
    /\ emitted = <<>>

-----------------------------------------------------------------------------
(* The ring. *)

OldestIndex == IF historyCount < Capacity THEN 0 ELSE historyHead

Oldest == historyBuffer[OldestIndex]

\* The buffered events, oldest first.
Buffered ==
    [i \in 1 .. historyCount |-> historyBuffer[(OldestIndex + i - 1) % Capacity]]

Event == [seq : 1 .. MaxSeq, session : Session]

\* An event of the filter, after a cursor and up to a last one.
Wants(event, filter, afterSeq, last) ==
    afterSeq < event.seq /\ event.seq <= last /\ Matches(filter, event)

\* Such events of a sequence, in their order: SelectSeq, as a recursive function that
\* can be proved about.
Selected(events, filter, afterSeq, last) ==
    LET after[n \in 0 .. Len(events)] ==
            IF n = 0 THEN <<>>
            ELSE IF Wants(events[n], filter, afterSeq, last)
                 THEN Append(after[n - 1], events[n])
                 ELSE after[n - 1]
    IN  after[Len(events)]

\* historySnapshot: the buffered events after a cursor that match a filter.
HistorySnapshot(filter, afterSeq) == Selected(Buffered, filter, afterSeq, nextSeq - 1)

\* Fault: off by one, a single lost event goes unnoticed.
IsReplayTruncatedOffByOne(afterSeq) ==
    historyCount > 0 /\ Oldest.seq > afterSeq + 2

\* Fault: the oldest event being the next one counts as a gap.
IsReplayTruncatedTooEarly(afterSeq) ==
    historyCount > 0 /\ Oldest.seq > afterSeq

IsReplayTruncated(afterSeq) ==
    historyCount > 0 /\ Oldest.seq > afterSeq + 1

-----------------------------------------------------------------------------
(* What reaches the client. *)

\* Its next() resolved with an event: it moves its cursor.
Receive(c, event) ==
    [client[c] EXCEPT !.log = Append(@, event), !.cursor = event.seq]

\* push, for every open subscriber: to a waiting next() first, else queued.
Push(event) ==
    LET reached(c) == sub[c].open /\ Matches(client[c].filter, event)
    IN  /\ sub' = [c \in Client |->
                      IF ~reached(c) THEN sub[c]
                      ELSE IF sub[c].waiting THEN [sub[c] EXCEPT !.waiting = FALSE]
                      ELSE [sub[c] EXCEPT !.queue = Append(@, event)]]
        /\ client' = [c \in Client |->
                         IF reached(c) /\ sub[c].waiting THEN Receive(c, event) ELSE client[c]]

\* Fault: the write cursor runs off the end of the ring.
EmitUnwrapped(s) ==
    LET event == [seq |-> nextSeq, session |-> s]
    IN  /\ nextSeq <= MaxSeq
        /\ nextSeq' = nextSeq + 1
        /\ historyBuffer' = [historyBuffer EXCEPT ![historyHead] = event]
        /\ historyHead' = historyHead + 1
        /\ historyCount' = IF historyCount < Capacity THEN historyCount + 1 ELSE historyCount
        /\ Push(event)
        /\ emitted' = Append(emitted, event)
        /\ UNCHANGED epoch

Emit(s) ==
    LET event == [seq |-> nextSeq, session |-> s]
    IN  /\ nextSeq <= MaxSeq
        /\ nextSeq' = nextSeq + 1
        /\ historyBuffer' = [historyBuffer EXCEPT ![historyHead] = event]
        /\ historyHead' = (historyHead + 1) % Capacity
        /\ historyCount' = IF historyCount < Capacity THEN historyCount + 1 ELSE historyCount
        /\ Push(event)
        /\ emitted' = Append(emitted, event)
        /\ UNCHANGED epoch

-----------------------------------------------------------------------------
(* Subscribing, reading, closing. *)

\* A subscription, with the replay in its queue before subscribe returns.
Open(c, filter, afterSeq) ==
    sub' = [sub EXCEPT ![c] = [open |-> TRUE, waiting |-> FALSE,
                               queue |-> HistorySnapshot(filter, afterSeq)]]

\* A client without a cursor: it takes what is buffered, or brackets "events
\* from now on" with currentSeq() - 1.
SubscribeAfresh(c, filter) ==
    /\ ~sub[c].open
    /\ \E afterSeq \in {IF historyCount = 0 THEN nextSeq - 1 ELSE Oldest.seq - 1, nextSeq - 1} :
          /\ Open(c, filter, afterSeq)
          /\ client' = [client EXCEPT ![c] =
                           [filter |-> filter, epoch |-> epoch, cursor |-> afterSeq,
                            since |-> afterSeq, gap |-> FALSE, log |-> <<>>]]
    /\ UNCHANGED <<bus, emitted>>

\* A client back with a cursor of this epoch.  Told that the replay is
\* truncated it starts its log over at what the bus still had.
Resume(c) ==
    /\ ~sub[c].open /\ client[c].epoch = epoch
    /\ Open(c, client[c].filter, client[c].cursor)
    /\ client' = IF IsReplayTruncated(client[c].cursor)
                 THEN [client EXCEPT ![c].log = <<>>, ![c].gap = TRUE,
                                     ![c].since = Oldest.seq - 1, ![c].cursor = Oldest.seq - 1]
                 ELSE client
    /\ UNCHANGED <<bus, emitted>>

\* A client back with a cursor of another epoch gets a subscription that is
\* closed already and flagged, and forgets the cursor.
ResumeStale(c) ==
    /\ ~sub[c].open /\ client[c].epoch \notin {0, epoch}
    /\ client' = [client EXCEPT ![c] = NewClient]
    /\ UNCHANGED <<bus, sub, emitted>>

\* Fault: next() waits without a look at the queue.
ReadNextWaits(c) ==
    /\ sub[c].open /\ ~sub[c].waiting
    /\ sub' = [sub EXCEPT ![c].waiting = TRUE]
    /\ UNCHANGED <<bus, client, emitted>>

\* next(): the oldest queued event, or wait for one.
ReadNext(c) ==
    /\ sub[c].open /\ ~sub[c].waiting
    /\ IF sub[c].queue = <<>>
       THEN /\ sub' = [sub EXCEPT ![c].waiting = TRUE]
            /\ UNCHANGED client
       ELSE /\ sub' = [sub EXCEPT ![c].queue = Tail(@)]
            /\ client' = [client EXCEPT ![c] = Receive(c, Head(sub[c].queue))]
    /\ UNCHANGED <<bus, emitted>>

\* close() or return(): what is queued is dropped, a pending next() is done.
Close(c) ==
    /\ sub[c].open
    /\ sub' = [sub EXCEPT ![c] = NoSubscription]
    /\ UNCHANGED <<bus, client, emitted>>

\* The process dies with its bus and a new one starts; the clients live on.
Restart ==
    /\ epoch < MaxEpoch
    /\ epoch' = epoch + 1
    /\ FreshBus
    /\ UNCHANGED client

Next ==
    \/ \E s \in Session : Emit(s)
    \/ \E c \in Client :
          \/ \E filter \in Session \cup {AllSessions} : SubscribeAfresh(c, filter)
          \/ Resume(c) \/ ResumeStale(c) \/ ReadNext(c) \/ Close(c)
    \/ Restart

Spec == Init /\ [][Next]_vars

\* A client with a subscription goes on reading it (for await).
FairSpec == Spec /\ \A c \in Client : WF_vars(ReadNext(c))

-----------------------------------------------------------------------------

\* Every variable has its type, and the ring's counters stay within the ring.
TypeOK ==
    /\ epoch \in 1 .. MaxEpoch
    /\ nextSeq \in 1 .. MaxSeq + 1
    /\ historyBuffer \in [0 .. Capacity - 1 -> Event \cup {NoEvent}]
    /\ historyHead \in 0 .. Capacity - 1 /\ historyCount \in 0 .. Capacity
    /\ sub \in [Client -> [open : BOOLEAN, queue : Seq(Event), waiting : BOOLEAN]]
    /\ client \in [Client -> [filter : Session \cup {AllSessions}, epoch : 0 .. epoch,
                              cursor : 0 .. MaxSeq, since : 0 .. MaxSeq, gap : BOOLEAN,
                              log : Seq(Event)]]

\* What a client wants of this epoch: the matching events from one number on up
\* to another.
Wanted(c, last) == Selected(emitted, client[c].filter, client[c].since, last)

\* Across any number of drops and resumptions a client has got every matching
\* event exactly once and in order, up to its cursor; and what it has not got is
\* in its queue.  Truncation and restarts are the exceptions it is told of.
StreamComplete ==
    \A c \in Client :
        client[c].epoch = epoch =>
            /\ client[c].log = Wanted(c, client[c].cursor)
            /\ sub[c].open => client[c].log \o sub[c].queue = Wanted(c, nextSeq - 1)

\* Whatever is put in the queue of an open subscription is read.
QueueIsRead ==
    \A c \in Client : (sub[c].queue # <<>>) ~> (sub[c].queue = <<>>)

Log == INSTANCE EventLog WITH published <- emitted, reader <- client

\* The bus with its ring, queues and replays is a log whose readers get the next event
\* they await, each exactly once; only who is more than the ring behind the end is told
\* of a gap, and only who comes from another process loses its cursor.
ImplementsLog == Log!Spec

-----------------------------------------------------------------------------
(* What makes StreamComplete inductive. *)

\* Events are numbered from 1 without a gap.
EmittedInOrder ==
    /\ emitted \in Seq(Event) /\ nextSeq = Len(emitted) + 1
    /\ \A n \in 1 .. Len(emitted) : emitted[n].seq = n

\* The ring holds the newest events: those from the write cursor on are a lap older.
RingHoldsNewest ==
    /\ historyCount = IF Len(emitted) < Capacity THEN Len(emitted) ELSE Capacity
    /\ historyCount < Capacity => historyHead = historyCount
    /\ \A i \in 0 .. historyHead - 1 :
          historyBuffer[i] = emitted[Len(emitted) - historyHead + i + 1]
    /\ historyCount = Capacity =>
          \A i \in historyHead .. Capacity - 1 :
             historyBuffer[i] = emitted[Len(emitted) - historyHead - Capacity + i + 1]

Increasing(s) == \A i, j \in DOMAIN s : i < j => s[i].seq < s[j].seq

\* s is the matching events among some after one number up to another, in order.
Stream(s, events, filter, afterSeq, last) ==
    /\ Increasing(s)
    /\ ToSet(s) = {e \in ToSet(events) : Wants(e, filter, afterSeq, last)}

\* A subscription is of this epoch, its client has everything up to its cursor and
\* everything after it queued; who waits has nothing queued.
StreamInOrder(c) ==
    /\ sub[c].open => client[c].epoch = epoch
    /\ sub[c].waiting => sub[c].queue = <<>>
    /\ client[c].epoch = epoch =>
          /\ client[c].since <= client[c].cursor /\ client[c].cursor < nextSeq
          /\ Stream(client[c].log, emitted, client[c].filter, client[c].since,
                    client[c].cursor)
          /\ sub[c].open => Stream(sub[c].queue, emitted, client[c].filter,
                                   client[c].cursor, nextSeq - 1)

StreamsInOrder == \A c \in Client : StreamInOrder(c)

IInv == TypeOK /\ EmittedInOrder /\ RingHoldsNewest /\ StreamsInOrder

=============================================================================
