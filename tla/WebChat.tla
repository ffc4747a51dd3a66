------------------------------ MODULE WebChat -------------------------------
(***************************************************************************)
(* A web chat's turns, from the POST to the last row                       *)
(* (apps/web/app/api/chat/route.ts, lib/web-session-meta.ts,               *)
(* lib/sessions-db/recorder.ts, lib/sse-translator.ts, and in agent-core   *)
(* services/agent-service).                                                *)
(*                                                                         *)
(* A chat has at most one session in the agent service and one entry in    *)
(* the web's own table, which holds the abort controller of its turn.  A   *)
(* POST makes both in one go, then awaits the tool catalog, then lets the  *)
(* model's stream run.  A pump copies the stream into the session's events *)
(* BY CHAT ID, a recorder copies the events into the turn's row of the     *)
(* database, and a page that was reloaded follows them too.  Meanwhile the *)
(* chat may be stopped, deleted, posted to again, or evicted because the   *)
(* two tables are full; one of them has the sessions of subagents too.     *)
(*                                                                         *)
(* The events of a chat are a sequence that is never cut: what the ring    *)
(* and a subscription guarantee is the subject of module EventBus.  The    *)
(* model's stream (AI SDK) is external: once aborted it delivers no        *)
(* further part, and it ends when the tool it runs lets it.  The slot that *)
(* a turn holds in the tool catalog is the subject of module ToolsCatalog. *)
(***************************************************************************)
EXTENDS Naturals, SequencesExt

CONSTANTS
    Chats,      \* chat ids, which are session ids
    Subagents,  \* bound: session ids of subagents, each used once
    Turns,      \* bound: the turns that POSTs start, in their order
    ChatOf,     \* the chat of each turn
    MaxText,    \* bound: text parts of each turn
    Followed,   \* bound: the turns whose page is reloaded
    Unwritable, \* bound: the turns whose row the database may fail to write
    MaxSessions \* WEB_MAX_SESSIONS and MAX_WEB_SESSION_META, equal in the code

ASSUME TurnsAssumption == Turns \subseteq Nat \ {0} /\ ChatOf \in [Turns -> Chats]
ASSUME FollowedAssumption == Followed \subseteq Turns
ASSUME SubagentsAssumption == Chats \cap Subagents = {}
ASSUME TextAssumption == MaxText \in [Turns -> Nat]
ASSUME SessionsAssumption == MaxSessions \in Nat \ {0}

VARIABLES
    web,    \* what the process shares: sessions, entries, events, aborts
    turn,   \* each turn: where it is, its first event and its parts
    row,    \* the assistant's row of each turn and the recorder that fills it
    pages   \* the turns that a reloaded page follows

vars == <<web, turn, row, pages>>

NoTurn == 0

NoSession == [status |-> "none", turn |-> NoTurn]
NewTurn == [at |-> "new", first |-> 1, texts |-> 0]
NoRow == [state |-> "none", text |-> {}]

Init ==
    /\ web = [session |-> [c \in Chats \cup Subagents |-> NoSession],
              meta    |-> [c \in Chats |-> NoTurn],
              active  |-> <<>>,  \* the ids that have a session, by lastActiveAt
              recent  |-> <<>>,  \* chats with an entry, by lastActivityMs
              events  |-> [c \in Chats |-> <<>>],
              spawned |-> {},    \* subagents so far
              aborted |-> {},    \* turns whose abort controller fired
              lost    |-> {}]    \* history: turns whose session went silently
    /\ turn = [t \in Turns |-> NewTurn]
    /\ row = [t \in Turns |-> NoRow]
    /\ pages = {}

\* No id is twice in one of the two orders.
Without(seq, c) ==
    IF c \in ToSet(seq) THEN RemoveAt(seq, CHOOSE i \in DOMAIN seq : seq[i] = c) ELSE seq

ToEnd(seq, c) == Append(Without(seq, c), c)

HasSession(w, c) == w.session[c].status # "none"
Started(t) == turn[t].at # "new"

-----------------------------------------------------------------------------
(* The agent service and the web's table, on a state w of what is shared.   *)

\* emitFromRunner: the event goes to whatever session has the chat's id.  by is the
\* turn that wrote a text.
EmittedBy(w, c, kind, by) == [w EXCEPT !.events[c] = Append(@, [kind |-> kind, by |-> by])]

Emitted(w, c, kind) == EmittedBy(w, c, kind, NoTurn)

WithStatus(w, c, status) ==
    [w EXCEPT !.session[c].status = status, !.active = ToEnd(@, c)]

Deleted(w, c) == [w EXCEPT !.session[c] = NoSession, !.active = Without(@, c)]

Aborted(w, t) == [w EXCEPT !.aborted = @ \cup ({t} \ {NoTurn})]

EntryDropped(w, c) == [w EXCEPT !.meta[c] = NoTurn, !.recent = Without(@, c)]

\* stopSession: abort, tell the subscribers, delete, drop the entry.
Stopped(w, c) ==
    LET told == Aborted(w, w.meta[c])
    IN  EntryDropped(IF HasSession(told, c)
                     THEN Deleted(Emitted(told, c, "failed"), c)
                     ELSE told, c)

\* Ids are added one at a time, and so at most one is over the cap: the oldest.
OverCap(seq) == Len(seq) > MaxSessions

\* evictLruIfOver: the registry drops it and says nothing.
SessionsTrimmed(w) ==
    IF OverCap(w.active)
    THEN LET c == Head(w.active)
         IN  [Deleted(w, c) EXCEPT !.lost = @ \cup ({w.session[c].turn} \ {NoTurn})]
    ELSE w

\* createSession
SessionCreated(w, c, t) ==
    SessionsTrimmed([w EXCEPT !.session[c] = [status |-> "idle", turn |-> t],
                              !.active = ToEnd(@, c)])

\* Fault: the cap drops the entry and leaves its turn alone.
MetasForgotten(w) == IF OverCap(w.recent) THEN EntryDropped(w, Head(w.recent)) ELSE w

\* Fault: the table has no cap.
MetasKept(w) == w

\* setMeta's enforceCap
MetasTrimmed(w) == IF OverCap(w.recent) THEN Stopped(w, Head(w.recent)) ELSE w

\* createSession, setMeta, setSessionStatus and turn.started, in that order.
Created(w, c, t) ==
    LET fits == SessionCreated(w, c, t)
        kept == MetasTrimmed([fits EXCEPT !.meta[c] = t, !.recent = ToEnd(@, c)])
    IN  Emitted(WithStatus(kept, c, "running"), c, "started")

-----------------------------------------------------------------------------
(* The requests.                                                            *)

\* What is there can be followed; it is when the question has the entry's hash.
CanReconnect(w, c) ==
    /\ w.meta[c] # NoTurn
    /\ HasSession(w, c)
    /\ w.session[c].status = "running" \/ w.events[c] # <<>>

\* The same question again: the page follows the events of the turn it finds.
Reconnect(c) ==
    /\ CanReconnect(web, c) /\ web.meta[c] \in Followed
    /\ web' = [web EXCEPT !.recent = ToEnd(@, c)]
    /\ pages' = pages \cup {web.meta[c]}
    /\ UNCHANGED <<turn, row>>

\* Fault: the followers start at the oldest event there is of the chat.
FirstOfChat(w, c) == 1

\* startSeq, taken before the session is created.
FirstOfTurn(w, c) == Len(w.events[c]) + 1

\* Fault: the rows cannot be written and the session stays behind.
SessionStays(w, c) == w

\* The rows cannot be written: 503, and nothing of the turn stays.
SqliteFails(w, c) == Stopped(w, c)

\* Another question: 409 while the session runs, otherwise what is there is evicted
\* and a turn begins.  With the epoch of another process it always begins.
FreshStart(t, otherEpoch) ==
    LET c     == ChatOf[t]
        seen  == IF otherEpoch THEN Stopped(web, c) ELSE web
        clear == IF seen.meta[c] # NoTurn \/ HasSession(seen, c)
                 THEN Stopped(seen, c)
                 ELSE seen
        made  == Created(clear, c, t)
    IN  /\ ~Started(t)
        /\ \A u \in Turns : u < t => Started(u)
        /\ seen.session[c].status # "running"
        /\ \E saved \in BOOLEAN :
              /\ web' = IF saved THEN made ELSE SqliteFails(made, c)
              /\ turn' = [turn EXCEPT ![t].first = FirstOfTurn(clear, c),
                                      ![t].at = IF saved THEN "catalog" ELSE "over"]
              /\ row' = [row EXCEPT ![t].state = IF saved THEN "open" ELSE "none"]
        /\ UNCHANGED pages

\* POST /api/agents/spawn: the subagent's session goes into the same registry, and
\* nothing but its cap takes it out again.
Spawn(s) ==
    /\ s \notin web.spawned
    /\ web' = [SessionCreated(web, s, NoTurn) EXCEPT !.spawned = @ \cup {s}]
    /\ UNCHANGED <<turn, row, pages>>

\* POST /api/chat/stop
Stop(c) ==
    /\ web.meta[c] # NoTurn \/ HasSession(web, c)
    /\ web' = Stopped(web, c)
    /\ UNCHANGED <<turn, row, pages>>

\* DELETE /api/sessions/[id]: the turn is evicted before its rows go; a recorder's
\* update of a row that is gone does nothing.
Delete(c) ==
    LET Rows == {t \in Turns : ChatOf[t] = c /\ row[t].state # "none"}
    IN  /\ Rows # {}
        /\ web' = Stopped(web, c)
        /\ row' = [t \in Turns |-> IF t \in Rows THEN NoRow ELSE row[t]]
        /\ UNCHANGED <<turn, pages>>

-----------------------------------------------------------------------------
(* A turn after its request.                                                *)

\* The catalog is there: recorder and pump are set going.  Stopped meanwhile or
\* not: the route does not look at the session again.
CatalogReady(t) ==
    /\ turn[t].at = "catalog"
    /\ turn' = [turn EXCEPT ![t].at = "pumping"]
    /\ UNCHANGED <<web, row, pages>>

\* getToolsCatalog rejects, or streamText throws: the request fails and that is all.
SetupThrows(t) ==
    /\ turn[t].at = "catalog"
    /\ turn' = [turn EXCEPT ![t].at = "threw"]
    /\ UNCHANGED <<web, row, pages>>

\* A part of the answer.  emitFromRunner throws when there is no session, and the
\* pump rejects as soon as it has cancelled its copy of the stream.
PumpText(t) ==
    LET c == ChatOf[t]
    IN  /\ turn[t].at = "pumping" /\ t \notin web.aborted
        /\ turn[t].texts < MaxText[t]
        /\ IF HasSession(web, c)
           THEN /\ web' = EmittedBy(web, c, "text", t)
                /\ turn' = [turn EXCEPT ![t].texts = @ + 1]
           ELSE /\ web' = web
                /\ turn' = [turn EXCEPT ![t].at = "crashed"]
        /\ UNCHANGED <<row, pages>>

\* Whatever session has the id now gets the end and the status.
Ended(w, c, kind) == WithStatus(Emitted(w, c, kind), c, kind)

\* The stream drains: it was aborted, or the model failed, or it finished and the
\* pump emits turn.completed first.  The pump's then completes the session, if any.
PumpDrains(t) ==
    LET c == ChatOf[t]
    IN  /\ turn[t].at = "pumping"
        /\ \E finished \in BOOLEAN :
              /\ finished => t \notin web.aborted
              /\ LET told == IF finished THEN Emitted(web, c, "turnDone") ELSE web
                 IN  web' = IF HasSession(web, c)
                            THEN Ended(told, c, "completed")
                            ELSE web
              /\ turn' = [turn EXCEPT ![t].at = IF finished /\ ~HasSession(web, c)
                                                THEN "crashed"
                                                ELSE "over"]
        /\ UNCHANGED <<row, pages>>

\* The pump's catch fails whatever session has the id now.
PumpRejects(t) ==
    LET c == ChatOf[t]
    IN  /\ turn[t].at = "crashed"
        /\ web' = IF HasSession(web, c) THEN Ended(web, c, "failed") ELSE web
        /\ turn' = [turn EXCEPT ![t].at = "over"]
        /\ UNCHANGED <<row, pages>>

-----------------------------------------------------------------------------
(* The followers: the recorder of a turn and the page that reloaded.        *)

\* Fault: the recorder does not know how a stopped turn ends.
FinalWhenCompleted(kind) == kind \in {"turnDone", "completed"}

FinalForRecorder(kind) == kind \in {"turnDone", "completed", "failed"}

\* The turns whose text is in the events from the turn's first to the n-th.
TextsTo(t, n) ==
    LET log == web.events[ChatOf[t]]
    IN  {log[m].by : m \in {k \in turn[t].first..n : log[k].kind = "text"}}

Recording(t) == row[t].state = "open" /\ turn[t].at \notin {"catalog", "threw"}

\* No event before the n-th is final.
NoneFinal(t, n) ==
    \A m \in turn[t].first..(n - 1) : ~FinalForRecorder(web.events[ChatOf[t]][m].kind)

\* The recorder has come to the n-th event and is done: the row is final, with the
\* texts up to there.  The UPDATE that says so is tried twice; if it fails, the
\* recorder gives up and the row stays as an earlier snapshot left it.
RecorderEnds(t, n) ==
    /\ \/ row' = [row EXCEPT ![t] = [state |-> "final", text |-> TextsTo(t, n)]]
       \/ /\ t \in Unwritable
          /\ \E m \in (turn[t].first - 1)..n :
                row' = [row EXCEPT ![t] = [state |-> "abandoned", text |-> TextsTo(t, m)]]
    /\ UNCHANGED <<web, turn, pages>>

\* It comes to the first final event.
Record(t) ==
    LET log == web.events[ChatOf[t]]
    IN  /\ Recording(t)
        /\ \E n \in turn[t].first..Len(log) :
              FinalForRecorder(log[n].kind) /\ NoneFinal(t, n) /\ RecorderEnds(t, n)

\* A snapshot on the way to it cannot be written, and the recorder ends there.
SnapshotFails(t) ==
    LET log == web.events[ChatOf[t]]
    IN  /\ Recording(t) /\ t \in Unwritable
        /\ \E n \in turn[t].first..Len(log) : NoneFinal(t, n + 1) /\ RecorderEnds(t, n)

\* buildSubscriberStream: [DONE] at the first end of a session since the turn began.
PageEnds(t) ==
    LET log == web.events[ChatOf[t]]
    IN  /\ t \in pages
        /\ \E n \in turn[t].first..Len(log) : log[n].kind \in {"completed", "failed"}
        /\ pages' = pages \ {t}
        /\ UNCHANGED <<web, turn, row>>

-----------------------------------------------------------------------------

Request ==
    \/ \E c \in Chats : Reconnect(c) \/ Stop(c) \/ Delete(c)
    \/ \E t \in Turns, otherEpoch \in BOOLEAN : FreshStart(t, otherEpoch)
    \/ \E s \in Subagents : Spawn(s)

Setup(t) == CatalogReady(t) \/ SetupThrows(t)

Pump(t) == PumpText(t) \/ PumpDrains(t) \/ PumpRejects(t)

Next ==
    \/ Request
    \/ \E t \in Turns : Setup(t) \/ Pump(t) \/ Record(t) \/ SnapshotFails(t) \/ PageEnds(t)

Spec == Init /\ [][Next]_vars

\* The process goes on running what is ready, in whatever order: a turn has only so
\* many such steps.  Nothing is assumed of the user, of the model or of its tools, and
\* no write to the database need fail.
Fairness ==
    /\ WF_vars(\E t \in Turns : Setup(t) \/ Record(t))
    /\ WF_vars(\E t \in Turns : PageEnds(t))

FairSpec == Spec /\ Fairness

-----------------------------------------------------------------------------

Status == {"none", "idle", "running", "completed", "failed"}
EventKind == {"started", "text", "turnDone", "completed", "failed"}

Event ==
    [kind : EventKind \ {"text"}, by : {NoTurn}] \cup [kind : {"text"}, by : Turns]

Web == [session : [Chats \cup Subagents -> [status : Status, turn : Turns \cup {NoTurn}]],
        meta    : [Chats -> Turns \cup {NoTurn}],
        active  : Seq(Chats \cup Subagents),
        recent  : Seq(Chats),
        events  : [Chats -> Seq(Event)],
        spawned : SUBSET Subagents,
        aborted : SUBSET Turns,
        lost    : SUBSET Turns]

\* The two orders are those of the two tables.
Ordered(w) ==
    /\ IsInjective(w.active) /\ IsInjective(w.recent)
    /\ ToSet(w.active) = {c \in Chats \cup Subagents : HasSession(w, c)}
    /\ ToSet(w.recent) = {c \in Chats : w.meta[c] # NoTurn}

\* Every variable has its type, and the two tables are never over their cap.
TypeOK ==
    /\ web \in Web /\ Ordered(web)
    /\ Len(web.active) <= MaxSessions /\ Len(web.recent) <= MaxSessions
    /\ turn \in [Turns -> [at : {"new", "catalog", "threw", "pumping", "crashed", "over"},
                           first : Nat \ {0}, texts : Nat]]
    /\ row \in [Turns -> [state : {"none", "open", "final", "abandoned"}, text : SUBSET Turns]]
    /\ pages \subseteq Followed

\* The turn runs, or will, and has not been told to stop.
Live(t) == turn[t].at \in {"catalog", "pumping"} /\ t \notin web.aborted

\* A turn at work can be stopped: the chat's entry is its own, so that the stop
\* button, the next question and the cap reach its abort controller.  A chat has
\* therefore never two turns at work, even after the registry dropped its session.
LiveTurnIsStoppable == \A t \in Turns : Live(t) => web.meta[ChatOf[t]] = t

\* A row never gets the text of another turn, though the turns of a chat share its
\* id and its events (the recorder's afterSeq, and the abort that comes before an
\* id is used again).  The exception is a turn whose session the registry dropped:
\* its recorder goes on with the chat's next turn.
NoForeignText == \A t \in Turns : row[t].text \subseteq {t} \/ t \in web.lost

\* A session that says it is running, and so answers 409 to every other question,
\* has a turn that will say otherwise or whose setup threw.
RunningHasATurn ==
    \A c \in Chats :
        web.session[c].status = "running" => turn[web.session[c].turn].at # "over"

\* The followers of a turn that was stopped or is over come to an end, however often
\* it is reloaded: its page is done, and so is its recorder, which leaves a final row unless
\* the database failed it twice.  The exceptions are a session the registry dropped
\* silently and a turn whose setup threw.
FollowersEnd ==
    \A t \in Turns :
        []<>(t \in web.aborted \/ turn[t].at = "over" =>
                \/ row[t].state # "open" /\ t \notin pages
                \/ t \in web.lost
                \/ turn[t].at = "threw")

-----------------------------------------------------------------------------
(* What makes these inductive. *)

\* A session belongs to the turn of the chat's entry, which has a session or none.
SessionsHaveEntries ==
    \A c \in Chats :
        HasSession(web, c) =>
            LET t == web.session[c].turn
            IN  t \in Turns /\ ChatOf[t] = c /\ Started(t) /\ web.meta[c] = t

\* A turn that has begun has its session, or its events have an end, or the session
\* went silently.
TurnsHaveAnEnd ==
    \A t \in Turns :
        LET c == ChatOf[t]
        IN  Started(t) =>
              /\ turn[t].first <= Len(web.events[c]) + 1
              /\ \/ HasSession(web, c) /\ web.session[c].turn = t
                 \/ \E n \in turn[t].first .. Len(web.events[c]) :
                       FinalForRecorder(web.events[c][n].kind)
                 \/ t \in web.lost

\* A text of another turn comes after the end of a turn's events.
TextsAreOwn ==
    \A t \in Turns :
        LET log == web.events[ChatOf[t]]
        IN  Started(t) =>
              \A n \in turn[t].first .. Len(log) :
                 log[n].kind = "text" =>
                    \/ log[n].by = t
                    \/ \E m \in turn[t].first .. n - 1 : FinalForRecorder(log[m].kind)
                    \/ t \in web.lost

\* A row is opened when its turn begins.
RowsHaveTurns == \A t \in Turns : row[t].state = "open" => Started(t)

IInv ==
    /\ TypeOK /\ SessionsHaveEntries /\ TurnsHaveAnEnd /\ TextsAreOwn /\ RowsHaveTurns
    /\ LiveTurnIsStoppable /\ NoForeignText /\ RunningHasATurn

=============================================================================
