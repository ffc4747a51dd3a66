---------------------------- MODULE ToolsCatalog ----------------------------
(***************************************************************************)
(* The web's tool catalog and the turns that call its tools                *)
(* (apps/web/lib/tools-loader.ts, app/api/chat/route.ts and                *)
(* app/api/mcp/route.ts).                                                  *)
(*                                                                         *)
(* A build spawns the MCP servers of a registry, parks the registry and    *)
(* the catalog of its tools for everybody, and disconnects the registry    *)
(* that was there before.  An edited server or configuration file, or the  *)
(* user, invalidates the catalog: the registry is disconnected and the     *)
(* next reader builds again.  A turn whose tools may be running holds a    *)
(* slot, and while one is held the invalidation waits.                     *)
(*                                                                         *)
(* A build, its registry and the catalog it makes have one identity.  A    *)
(* turn keeps the clients of the servers that it was given: a reconnect    *)
(* replaces one server's client within a registry (agent-core's            *)
(* tools/registry.ts), and the turn goes on with the client that is gone.  *)
(* The model's stream (AI SDK) is external: aborted, it ends and calls     *)
(* neither onFinish nor onError unless a step was complete.                *)
(***************************************************************************)
EXTENDS Naturals, FiniteSets

CONSTANTS
    Builds,     \* bound: the builds, numbered in the order they start
    Turns,      \* bound: the chat turns and subagents
    Subagents,  \* those of the turns that are subagents
    Servers,    \* the MCP servers of the configuration
    MaxEdits    \* bound: edits of the servers' sources

ASSUME BuildsAssumption == Builds \subseteq Nat \ {0}
ASSUME TurnsAssumption == IsFiniteSet(Turns) /\ Subagents \subseteq Turns
ASSUME EditsAssumption == MaxEdits \in Nat

VARIABLES
    tools,    \* what the process shares: catalog, registry, build, slots
    build,    \* each build: where it is, what it found and which sources it runs
    turn,     \* each turn: where it is, its catalog and its slot
    sources,  \* the version of the sources, the watcher and whether its timer runs
    patch     \* the reconnect of a server that is under way: its registry, its server

vars == <<tools, build, turn, sources, patch>>

Nobody == 0

NoPatch == [at |-> "idle", build |-> Nobody, servers |-> {}]

Init ==
    /\ tools = [catalog |-> Nobody, registry |-> Nobody, inflight |-> Nobody,
                calls |-> 0, pending |-> FALSE,
                connected |-> {},   \* registries that were not disconnected
                overtaken |-> {}]   \* history: builds that wrote over a newer state
    /\ build = [b \in Builds |-> [at |-> "new", previous |-> Nobody, version |-> 0]]
    /\ turn = [t \in Turns |-> [at |-> "new", build |-> Nobody,
                                replaced |-> {},  \* servers whose client it has is gone
                                slot |-> FALSE, listens |-> FALSE, aborted |-> FALSE]]
    /\ sources = [version |-> 0, watched |-> FALSE, noticed |-> FALSE,
                  unseen |-> 0]     \* history: the last version nobody watched for
    /\ patch = NoPatch

-----------------------------------------------------------------------------
(* Operations on the shared state w.                                        *)

\* Fault: the catalog goes whoever uses its servers.
InvalidatedAtOnce(w) ==
    [w EXCEPT !.registry = Nobody, !.catalog = Nobody, !.inflight = Nobody,
              !.connected = @ \ {w.registry}]

\* invalidateToolsCatalog
Invalidated(w) ==
    IF w.calls > 0
    THEN [w EXCEPT !.pending = TRUE]
    ELSE [w EXCEPT !.registry = Nobody, !.catalog = Nobody, !.inflight = Nobody,
                   !.connected = @ \ {w.registry}]

\* markToolCallInFlight
SlotTaken(w) == [w EXCEPT !.calls = @ + 1]

\* Fault: nobody looks whether an invalidation waits.
SlotReleasedOnly(w) == [w EXCEPT !.calls = IF @ > 0 THEN @ - 1 ELSE 0]

\* Fault: the invalidation that waits is forgotten.
SlotReleasedForgets(w) ==
    [w EXCEPT !.calls = IF @ > 0 THEN @ - 1 ELSE 0, !.pending = @ /\ w.calls > 1]

\* markToolCallDone
SlotReleased(w) ==
    LET fewer == [w EXCEPT !.calls = IF @ > 0 THEN @ - 1 ELSE 0]
    IN  IF fewer.calls = 0 /\ fewer.pending
        THEN Invalidated([fewer EXCEPT !.pending = FALSE])
        ELSE fewer

\* startToolsCatalogBuild: whoever comes while a build runs waits for that one.
StartBuild(b) ==
    \/ b = tools.inflight
    \/ /\ tools.inflight = Nobody /\ build[b].at = "new"
       /\ \A a \in Builds : a < b => build[a].at # "new"

\* getToolsCatalog, which goes on with catalog b
GetCatalog(b) == IF tools.catalog # Nobody THEN b = tools.catalog ELSE StartBuild(b)

Begun(w, b) == IF build[b].at = "new" THEN [w EXCEPT !.inflight = b] ELSE w

BuildBegins(b) == build' = [build EXCEPT ![b].at = IF @ = "new" THEN "skills" ELSE @]

\* The promise that GetCatalog returned has settled.
Settled(b) == build[b].at \in {"over", "failed"} \/ tools.catalog = b

-----------------------------------------------------------------------------
(* A build.                                                                 *)

\* The skills are there; which registry is the previous one is read now.
Capture(b) ==
    /\ build[b].at = "skills"
    /\ build' = [build EXCEPT ![b] = [at |-> "loading", previous |-> tools.registry,
                                      version |-> sources.version]]
    /\ UNCHANGED <<tools, turn, sources, patch>>

\* Importing agent-core or discovering the skills fails.
BuildRejects(b) ==
    /\ build[b].at = "skills"
    /\ build' = [build EXCEPT ![b].at = "failed"]
    /\ tools' = [tools EXCEPT !.inflight = IF @ = b THEN Nobody ELSE @]
    /\ UNCHANGED <<turn, sources, patch>>

\* The servers answered, or loading them failed and the catalog has no MCP tools.  The
\* catalog is parked without looking whether the build still is the one that is awaited.
Park(b) ==
    /\ build[b].at = "loading"
    /\ \E loaded \in BOOLEAN :
          LET next == IF loaded THEN b ELSE tools.registry
          IN  tools' = [tools EXCEPT !.registry = next, !.catalog = b,
                          !.connected = (@ \cup (IF loaded THEN {b} ELSE {}))
                                            \ ({build[b].previous} \ {next}),
                          !.overtaken = IF tools.inflight = b THEN @ ELSE @ \cup {b}]
    /\ build' = [build EXCEPT ![b] = [@ EXCEPT !.at = "disconnecting", !.previous = Nobody]]
    /\ UNCHANGED <<turn, sources, patch>>

\* The registry before has been disconnected; the first build attaches the watcher.
BuildEnds(b) ==
    /\ build[b].at = "disconnecting"
    /\ build' = [build EXCEPT ![b].at = "over"]
    /\ tools' = [tools EXCEPT !.inflight = IF @ = b THEN Nobody ELSE @]
    /\ sources' = [sources EXCEPT !.watched = TRUE]
    /\ UNCHANGED <<turn, patch>>

BuildStep(b) == Capture(b) \/ BuildRejects(b) \/ Park(b) \/ BuildEnds(b)

-----------------------------------------------------------------------------
(* Files, pages and the reconnect of a server.                              *)

\* A server's source or the configuration is written, and the watcher notices.
Edit ==
    LET next == sources.version + 1
    IN  /\ sources.version < MaxEdits
        /\ sources' = IF sources.watched
                      THEN [sources EXCEPT !.version = next, !.noticed = TRUE]
                      ELSE [sources EXCEPT !.version = next, !.unseen = next]
        /\ UNCHANGED <<tools, build, turn, patch>>

\* The debounce timer of the watcher.
WatcherFires ==
    /\ sources.noticed
    /\ sources' = [sources EXCEPT !.noticed = FALSE]
    /\ tools' = Invalidated(tools)
    /\ UNCHANGED <<build, turn, patch>>

\* GET /api/tools?refresh=1, or a change of the skills.
Invalidate ==
    /\ tools' = Invalidated(tools)
    /\ UNCHANGED <<build, turn, sources, patch>>

\* GET /api/mcp?refresh=1, or without a catalog.
Refresh ==
    /\ \E b \in Builds : StartBuild(b) /\ BuildBegins(b) /\ tools' = Begun(tools, b)
    /\ UNCHANGED <<turn, sources, patch>>

\* POST /api/mcp/[name]/reconnect of server s awaits the catalog,
ReconnectStarts ==
    /\ patch.at = "idle"
    /\ \E b \in Builds, s \in Servers :
          /\ GetCatalog(b) /\ BuildBegins(b) /\ tools' = Begun(tools, b)
          /\ patch' = [at |-> "catalog", build |-> b, servers |-> {s}]
    /\ UNCHANGED <<turn, sources>>

\* takes the registry that is there and registers the server with it,
Reregister ==
    /\ patch.at = "catalog" /\ Settled(patch.build)
    /\ patch' = IF build[patch.build].at = "failed" \/ tools.registry = Nobody
                THEN NoPatch
                ELSE [patch EXCEPT !.at = "registering", !.build = tools.registry]
    /\ UNCHANGED <<tools, build, turn, sources>>

\* which, when the new client is connected, disconnects the one before it without
\* looking at the slots,
ReplaceClient ==
    /\ patch.at = "registering"
    /\ patch' = [patch EXCEPT !.at = "replaced"]
    /\ turn' = [t \in Turns |->
                  IF turn[t].build = patch.build
                  THEN [turn[t] EXCEPT !.replaced = @ \cup patch.servers]
                  ELSE turn[t]]
    /\ UNCHANGED <<tools, build, sources>>

\* and, connected or not, puts that registry's tools into the catalog that is there then.
PatchCatalog ==
    /\ patch.at \in {"registering", "replaced"}
    /\ tools' = IF tools.catalog = Nobody THEN tools
                ELSE [tools EXCEPT !.catalog = patch.build,
                        !.overtaken = IF tools.registry = patch.build
                                      THEN @ ELSE @ \cup {patch.build}]
    /\ patch' = NoPatch
    /\ UNCHANGED <<build, turn, sources>>

Reconnect == ReconnectStarts \/ Reregister \/ ReplaceClient \/ PatchCatalog

-----------------------------------------------------------------------------
(* A turn.                                                                  *)

\* What is given out of build b before the reconnect under way has patched it has the
\* client that the reconnect has disconnected.
Replaced(b) ==
    IF patch.at = "replaced" /\ patch.build = b THEN patch.servers ELSE {}

\* A chat turn takes its slot when it has the catalog, a subagent before it asks.
TurnStarts(t) ==
    /\ turn[t].at = "new"
    /\ \E b \in Builds :
          /\ GetCatalog(b) /\ BuildBegins(b)
          /\ turn' = [turn EXCEPT ![t].at = "catalog", ![t].build = b,
                                  ![t].replaced = Replaced(b), ![t].slot = t \in Subagents]
          /\ tools' = Begun(IF t \in Subagents THEN SlotTaken(tools) ELSE tools, b)
    /\ UNCHANGED <<sources, patch>>

\* Fault: the slot is given back as often as its closure is called.
ReleasedAgain(t) == SlotReleased(tools)

\* releaseToolCallSlot, once
Released(t) == IF turn[t].slot THEN SlotReleased(tools) ELSE tools

Over(t) == [turn EXCEPT ![t] = [@ EXCEPT !.at = "over", !.build = Nobody, !.replaced = {},
                                         !.slot = FALSE, !.listens = FALSE]]

\* The catalog did not come: the request fails, a subagent gives its slot back.
NoCatalog(t) ==
    /\ turn[t].at = "catalog" /\ build[turn[t].build].at = "failed"
    /\ tools' = Released(t)
    /\ turn' = Over(t)
    /\ UNCHANGED <<build, sources, patch>>

\* The catalog is there.  A listener added to a signal that has fired is never called;
\* streamText may throw at once.
StreamStarts(t) ==
    LET chat == t \notin Subagents
    IN  /\ turn[t].at = "catalog" /\ Settled(turn[t].build)
        /\ build[turn[t].build].at # "failed"
        /\ \/ /\ turn' = [turn EXCEPT ![t].at = "calling", ![t].slot = TRUE,
                                      ![t].listens = chat /\ ~turn[t].aborted]
              /\ tools' = IF chat THEN SlotTaken(tools) ELSE tools
           \/ /\ turn' = Over(t)
              /\ tools' = SlotReleased(IF chat THEN SlotTaken(tools) ELSE tools)
        /\ UNCHANGED <<build, sources, patch>>

\* The user stops the chat: its abort listener, if it has one, gives the slot back.
Stop(t) ==
    /\ t \notin Subagents /\ turn[t].at \in {"catalog", "calling", "observing"}
    /\ ~turn[t].aborted
    /\ tools' = IF turn[t].listens THEN Released(t) ELSE tools
    /\ turn' = [turn EXCEPT ![t].aborted = TRUE, ![t].listens = FALSE,
                            ![t].slot = @ /\ ~turn[t].listens]
    /\ UNCHANGED <<build, sources, patch>>

\* onFinish: the slot is kept until the observer has stored the turn.
StreamFinishes(t) ==
    /\ turn[t].at = "calling" /\ ~turn[t].aborted
    /\ turn' = [turn EXCEPT ![t].at = "observing"]
    /\ UNCHANGED <<tools, build, sources, patch>>

\* The observer has stored the turn, or onError; a subagent's finally.
SlotComesBack(t) ==
    /\ \/ turn[t].at = "observing"
       \/ turn[t].at = "calling" /\ ~turn[t].aborted
    /\ tools' = Released(t)
    /\ turn' = Over(t)
    /\ UNCHANGED <<build, sources, patch>>

\* The aborted stream ends: neither onFinish nor onError.
StreamAborts(t) ==
    /\ turn[t].at = "calling" /\ turn[t].aborted
    /\ turn' = [turn EXCEPT ![t].at = "over", ![t].build = Nobody, ![t].replaced = {}]
    /\ UNCHANGED <<tools, build, sources, patch>>

TurnStep(t) ==
    \/ NoCatalog(t) \/ StreamStarts(t) \/ StreamFinishes(t)
    \/ SlotComesBack(t) \/ StreamAborts(t)

-----------------------------------------------------------------------------

Next ==
    \/ \E b \in Builds : BuildStep(b)
    \/ Edit \/ WatcherFires \/ Invalidate \/ Refresh \/ Reconnect
    \/ \E t \in Turns : TurnStarts(t) \/ Stop(t) \/ TurnStep(t)

Spec == Init /\ [][Next]_vars

-----------------------------------------------------------------------------

Holders == {t \in Turns : turn[t].slot}

\* Every variable has its type, and the counter of the slots counts them.
TypeOK ==
    /\ tools \in [catalog : Builds \cup {Nobody}, registry : Builds \cup {Nobody},
                  inflight : Builds \cup {Nobody}, calls : Nat, pending : BOOLEAN,
                  connected : SUBSET Builds, overtaken : SUBSET Builds]
    /\ tools.calls = Cardinality(Holders)
    /\ build \in [Builds -> [at : {"new", "skills", "loading", "disconnecting", "over",
                                   "failed"},
                             previous : Builds \cup {Nobody}, version : 0..MaxEdits]]
    /\ turn \in [Turns -> [at : {"new", "catalog", "calling", "observing", "over"},
                           build : Builds \cup {Nobody}, replaced : SUBSET Servers,
                           slot : BOOLEAN, listens : BOOLEAN, aborted : BOOLEAN]]
    /\ sources \in [version : 0..MaxEdits, watched : BOOLEAN, noticed : BOOLEAN,
                    unseen : 0..MaxEdits]
    /\ sources.unseen <= sources.version
    /\ patch \in [at : {"idle", "catalog", "registering", "replaced"},
                  build : Builds \cup {Nobody}, servers : SUBSET Servers]

\* A turn whose tools may be running.
AtWork(t) == turn[t].at \in {"calling", "observing"} /\ turn[t].slot

\* The client of s that t's tools call is connected.
Serves(t, s) == turn[t].build \in tools.connected /\ s \notin turn[t].replaced

\* Build b is done and disconnects the registry of t's tools.
ReplacedBy(b, t) ==
    /\ build[b].at = "loading" /\ build'[b].at = "disconnecting"
    /\ build[b].previous = turn[t].build

\* A reconnect of s disconnects the client of s that t's tools call.
ReconnectedFor(t, s) ==
    /\ patch.at = "registering" /\ patch'.at = "replaced"
    /\ patch.build = turn[t].build /\ s \in patch.servers

\* While a turn holds its slot, no invalidation disconnects a server its calls wait on:
\* not that of a file, of a page or of another turn's end.  Two things do that do not
\* look at the slots: a build that replaces the turn's registry, and the reconnect of
\* that very server, which leaves the others alone.
CallsKeepServers ==
    [][\A t \in Turns, s \in Servers :
          AtWork(t) /\ AtWork(t)' /\ Serves(t, s)
          => \/ Serves(t, s)'
             \/ \E b \in Builds : ReplacedBy(b, t)
             \/ ReconnectedFor(t, s)
      ]_vars

\* What build b made is of the sources on disk, or it is known not to be: the watcher's
\* timer runs or the invalidation waits for a slot.  The exceptions are a build and a
\* reconnect that wrote their catalog after it had been invalidated, and sources written
\* while the first build ran, before there was a watcher.
Fresh(b) ==
    \/ b = Nobody \/ b \in tools.overtaken
    \/ build[b].version < sources.unseen
    \/ build[b].version = sources.version
    \/ sources.noticed \/ tools.pending

\* No turn is given a catalog of older sources that nobody knows to be one.
StaleIsKnown == Fresh(tools.catalog)

\* The turn was stopped while it awaited the catalog and never gave its slot back.
Leaked(t) == turn[t].at = "over" /\ turn[t].slot

\* An invalidation that waits, waits for a turn at work that holds a slot: whichever
\* turn is the last to give its slot back lets it go.  The exception is a leaked slot.
DeferredHasHolder ==
    tools.pending =>
        \E t \in Turns : turn[t].slot /\ (turn[t].at # "over" \/ turn[t].aborted)

(* What makes these inductive. *)

PendingIsHeld == tools.pending => tools.calls > 0

\* A chat turn takes its slot with the catalog, a subagent before it.
SlotsAreTaken ==
    \A t \in Turns :
        /\ turn[t].at = "new" => ~turn[t].slot
        /\ turn[t].at = "catalog" => (turn[t].slot <=> t \in Subagents)
        /\ turn[t].at = "over" /\ turn[t].slot => turn[t].aborted
        /\ t \in Subagents => ~turn[t].aborted /\ ~turn[t].listens

Built(b) == b # Nobody => build[b].at \in {"disconnecting", "over"}

CatalogsAreBuilt ==
    /\ Built(tools.catalog) /\ Built(tools.registry)
    /\ patch.at \in {"registering", "replaced"} =>
          patch.build # Nobody /\ Built(patch.build)

AllFresh ==
    /\ Fresh(tools.catalog) /\ Fresh(tools.registry)
    /\ \A b \in Builds :
          b = tools.inflight /\ build[b].at = "loading" => Fresh(b)

IInv ==
    TypeOK /\ PendingIsHeld /\ SlotsAreTaken /\ CatalogsAreBuilt /\ AllFresh

\* What route.ts says of the slot: finish, error, abort and a throw give it back.
SlotsAreReleased == \A t \in Turns : ~Leaked(t)

=============================================================================
