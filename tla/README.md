# Verification of quilin-agent

TLA+ specifications of the parts of quilin-agent in which concurrency, failure and ordering
decide whether the program is right; configurations that check them with TLC on small
instances; and theorems that TLAPS checks for every value of the constants. Every definition is
translated from the source; `PROJECT.json` ("map") names the lines each one stands for.

    tlc -workers 2 -config MCSupervisorRuntime.cfg MCSupervisorRuntime.tla
    tlapm SupervisorRuntimeProofs.tla

## 1. The system

quilin-agent is a TypeScript monorepo. `packages/agent-core` holds the agent: a loop that calls
a language model and runs tools, a terminal prompt (REPL) around it, checkpoints in SQLite, an
in-process service that tells other front ends what happens, a supervisor for child agents,
planning, safety checks, memory, skills and configuration. `apps/web` is a Next.js front end.
`providers/memory` is a Python MCP server with an idle job daemon. `crates/` has a Rust bridge
that starts the core as a child process.

Everything in TypeScript runs on one thread: code between two awaits is atomic, and the hard
behaviours are what happens *between* awaits, calls that overlap, listeners that call back, and
the process dying at any await.

| Component | State | Operations | Talks to | What makes it hard |
|---|---|---|---|---|
| Supervisor runtime (`multi-agent/supervisor-runtime.ts`) | record, slot, abort signal, pause flag, completion promise and input queue of each child run | admit, dispatch, start queued, pause, resume, wake, interrupt, cancel, defer, send input, heartbeat; the worker reads input, parks, escalates, settles | workers (async callbacks), child event listeners (sync callbacks), control plane | a worker settles while the host cancels, defers or pauses it; slots handed over by sweeps from six places |
| Event bus (`services/agent-service/event-bus.ts`) | ring of recent events, sequence counter, epoch, subscribers with queue and pending reads | emit, subscribe with cursor, next, close | REPL turn pump, web, control plane | ring wrap, seam of replay and live events, truncation, stale cursors after a restart |
| REPL session, loop, checkpoints (`repl.ts`, `loop.ts`, `loop-tool-calls.ts`, `state/`) | messages at the prompt, the loop's copy, the row in SQLite | submit, model call, tool calls, checkpoints, failure, /clear, /resume, /exit, restart | model, tools, verifiers, SQLite | three copies of one conversation; failure or crash between any two |
| Web approvals (`apps/web/lib/pending-asks.ts`, `tools/with-approval.ts`, ...) | registry of pending asks with timers, whitelist per session | register, answer, time out, evict, continue | tools, browser, event bus | answer, timer and eviction race for one promise |
| Hot reload (`config/hot-reload.ts`) | generation, loaded configuration, last success and failure, watchers, debounce timer, reconnect status | reload from four triggers, commit, activate skills, rebuild watchers | file system, skills manager, REPL | overlapping calls; state read before an await and used after it |
| REPL runtime surface (`repl.ts`, syncRuntimeSurface) | surface with its key, signatures and connections of MCP servers | sync at a turn boundary | hot reload, MCP servers | a reload commits during the sync; a registration fails halfway |
| Web chat turns (`app/api/chat/route.ts`, `stop`, `sessions/[id]`, `lib/sse-translator.ts`) | a turn between its request and its last event | start, reconnect, pump, stop, delete | agent service, web metadata, recorder, catalog | a pump outlives its session and writes by chat id |
| Agent service, session registry (`services/agent-service/`) | sessions by id, LRU cap | create, status, emit, delete, evict | REPL bridge, web | silent eviction of a session in use |
| Web session metadata (`lib/web-session-meta.ts`) | entry and abort controller per chat, LRU cap | set, touch, stop, enforce the cap | agent service | two tables of one size, trimmed in different orders |
| Web database and recorder (`lib/sessions-db/`) | rows of a chat turn | begin, record, finish, delete | SQLite, event bus | the end of a stream that was stopped before it was followed |
| Web tools catalog (`lib/tools-loader.ts`) | catalog, MCP registry, build in flight, slots, pending invalidation, watcher | build, invalidate, take and release slots, reconnect a server | chat turns, subagents, MCP servers, file system | builds that overlap; invalidation while calls run |
| Native bridge (`crates/quilin-bridge`) | child process, dashboard port | start, stop, status, readers | core | threads of an old child |
| Control plane event stream | SSE subscribers with backlog | subscribe, cancel, heartbeat | event bus | events during the awaited subscription |
| MCP client (`tools/mcp-client.ts`) | connection state, lifecycle queue, in-flight connect, pending calls | connect, call, disconnect, onclose | child processes | a reconnect that meets the last connect's promise |
| Planning executor (`planning/executor.ts`) | step statuses, scratchpad, checkpoints | execute, commit, checkpoint | memory, supervisor | one of several writes fails |
| Write authority (`safety/write-authority.ts`) | mode | decide, authorise | user, audit log | decision table |
| Live input queue (`runtime/live-input.ts`) | active turn, suspend depth | begin, finish, suspend, append | REPL | release after the turn ended |
| Skills manager (`skills/manager.ts`) | catalog, generation, watchers | discover, watch, view | file system, hot reload | overlapping discover() calls commit in the order they end |
| Idle runner, memory daemon (`daemon.py`) | quotas; leases, budgets, retries | run once, tick, heartbeat, stop | optimizer, store | a tick that goes on after stop was asked for |
| LLM clients, context assembly, text scanners, user interfaces, benchmarks, site | | | | text, rendering, external protocols |

What makes each modelled component correct is section 4; the hazards are listed, each with its
line and the properties that cover it, in `PROJECT.json`.

## 2. Modules

| Module | Is | Composes |
|---|---|---|
| `SupervisorRuntime` | the supervisor, its host and the workers, one action per synchronous call | implements `ChildRunLifecycle` |
| `ChildRunLifecycle` | what users of the supervisor see of a child run: absent, waiting, running, stopping, an outcome; slots are limited; a promise is resolved once | |
| `EventBus` | the bus and the clients that follow it with cursors | implements `EventLog` |
| `EventLog` | what followers of the events see: one log per process, the next event they await, a gap only for who is out of reach | |
| `ReplSession` | prompt, loop and saved rows of conversations | |
| `Approval` | asks, answers, timers, evictions and gated tools | |
| `HotReload` | overlapping reloads of the configuration file | |
| `RuntimeSurface` | the REPL that applies reloads at its turns, and the MCP servers it registers | extends `HotReload`: reloads and turns interleave at every await of either |
| `WebChat` | chat turns over the agent service's sessions, the web's entries, the recorder and the pages that follow | the three tables of one chat in one module, because their operations call each other |
| `ToolsCatalog` | builds, invalidations and slots of the web's tool catalog | |
| `BridgeSupervisor` | the bridge's child process and its reader threads | |
| `*Proofs` | lemmas and theorems about the module of that name; those about `HotReload` are in `RuntimeSurfaceProofs` | extend it |
| `MC*` | the instances TLC checks | extend their module |

### How state and actions correspond to the code

**SupervisorRuntime.** `status` is the status field of `records`; `activeRuns`, `paused` and
`aborted` are the keys, the pause flags and the abort signals of the map of that name
(`aborted` remembers runs whose entry is gone, as the worker's own controller does).
`completion` is what the deferred promise resolved with, `inputs` is `pendingInputs`. `worker`
says where the asynchronous function `runWorker` is: not started, running between its own
awaits, parked on one of the two promises the runtime gives it, or settled. `sweep` is the rest
of the snapshot `startQueuedRuns` iterates over: every operation that calls it sets `sweep`, and
while it is not empty only the loop's next iteration can happen, because the call is synchronous
in the code. `interrupt` and `wake` are whole calls, as are the `finally` block of
`runWorker` and the terminal write before it. `reportLifecycleEscalation` pauses before it
validates the summary, so the model may pause without writing the record. A worker that throws
is one with outcome "failed". The history variables `delivered` and `offered` are read by no
guard. Summaries, confidence, heartbeats' times and the notifications sent to listeners are left
out; listeners that call back into the runtime are not modelled (section 5).

**EventBus.** The ring has slots `0 .. Capacity - 1` as in the code, with `historyHead` the next
slot to overwrite. A client has a cursor, the epoch it belongs to, and a log since its last
fresh start, and knows whether that start was forced on it by `info.replayTruncated` (`gap`); these are
the obligations `types.ts` puts on clients. `Push` serves a pending `next()` before it queues. `Restart`
replaces the bus and keeps the clients. `EventLog` has no ring, no subscriptions and no queues: the
mapping takes the history of emitted events for its log and the clients for its readers.

**ReplSession.** `messages` is the array at the prompt, `working` the loop's `workingMessages`,
`row` the table in SQLite. `pc` is where the turn is; actions lie between two awaits that other
code, a failure or a crash can come between. A message is its role, its id and its tool calls.
`LoopFails` may come at every point of the loop where the code awaits something that can throw;
the tool router returns errors as results, so it does not while a tool runs. `Crash` loses all
but `row`. Whether an output is blocked (verifier or scanner) is nondeterministic.

**Approval.** `pending` is the registry in order of creation; the promise of an ask is `reply`,
which only the first resolution sets. The user, the timer and an eviction all go through
`ResolveAsk` or take the ask out as `Evict` does. Emitting may throw (`"failed"`), after the ask
was registered. The route does not compare kinds, so a question may get a decision and vice
versa; the call then fails. The token check is left out: a reply reaches only the ask it names.
`whitelist` is what the code allows from then on, `granted` is history and holds what the user was asked
to allow: the level that the dialog names.

**HotReload.** One `call` per generation, with what it read before its awaits. `loaded` stands for
`loaded` and `runtime`, which are always assigned together. Files are versions; some do not
parse; `ServersOf` says which MCP servers each version names and with what signature, so that a
commit compares the servers it found with those it read. The watcher notices a write at once, and
none of its events are lost: the best case.

**RuntimeSurface.** `repl` is where `syncRuntimeSurface` is and what it has captured: the key, the
version of the runtime it read before its first await, and the servers it has still to see to.
`surface`, `signature` and `registry` are `runtimeSurface`, `registeredMcpServerSignatures` and the
registry's connections. There is one action per awaited `register` or `unregister`, so a reload may
commit between any two; registrations may fail and servers may disconnect at any time. The identity
of the runtime that the key contains is the generation of its commit.

**WebChat.** `web` is what the process shares: sessions by chat, entries by chat (`meta` names the turn
whose abort controller the entry holds), the two orders in which the tables are trimmed, and the events
of each chat. A POST is one step up to its first await, and includes the eviction of what was there, the
creation of the session, both caps, each of which takes out the oldest when there is one too many, the
first event and the rows, which may fail to be written. `Spawn` is the shadow session of a subagent,
which takes a place in the same registry and is deleted by nothing but the cap. `CatalogReady` and
`SetupThrows` are the two outcomes of its setup; `PumpText`, `PumpDrains` and `PumpRejects` are the
pump's steps, all of which write by chat id, as the code does. A recorder's step is the one that ends
it: at the turn's first final event (`Record`), or before it, where a snapshot cannot be written
(`SnapshotFails`). Then the row is final with the texts up to there, or, when the last UPDATE fails
twice, abandoned with the texts of an earlier snapshot. Snapshots that succeed on the way are left out. Events are never
cut: rings and subscriptions are `EventBus`. Persistence is on. `lost` is history: turns whose session
the registry evicted silently.

**ToolsCatalog.** `tools` is the state `tools-loader.ts` keeps on `globalThis`. A build, its registry
and its catalog have one number; `Capture` reads the previous registry after the first awaits,
`Park` writes the catalog whether or not the build still is the one awaited, `BuildEnds` is the last
await. A turn keeps the clients it was given; `replaced` has the servers whose client it has is gone. The
reconnect of a server awaits the catalog, takes the registry that is there (`Reregister`), and registers
the server: the registry disconnects the client it had and takes the new one (`ReplaceClient`), or the
new one did not connect and the old one stays; either way the catalog that is there by then is patched
(`PatchCatalog`). `SlotReleased` lets a pending invalidation go when the last slot comes back. A chat turn takes its
slot after the catalog came and gives it back in `onFinish`, `onError` or its abort listener; a
subagent takes it before and gives it back in `finally`. The file watcher, which runs in development
mode, is attached after the first build. The model's stream (AI SDK) is external.

**BridgeSupervisor.** An operation of the app is one step; between its own steps only readers run,
which touch nothing but the port. A pipe keeps the lines of a child that ended, so a reader may find a
port after the child is gone. A child whose `try_wait` fails has ended, as the code takes it
(`supervisor.rs:31-34`); `kill` and `wait`, whose errors the code ignores (136-137), succeed, and the
readers' threads can be spawned (75, 96).

## 3. Runs

All runs finish well within five minutes with two workers.

| Run | Instance | Shows |
|---|---|---|
| `supervisor` | 3 runs, one of them unservable, 1 slot, 2 inputs | safety of slots, records, promises and inputs; a cancel takes effect; the queue moves; the refinement of `ChildRunLifecycle` |
| `event_bus` | 2 clients, 2 sessions, ring of 2, 3 events per process, 2 processes; 280,955 states | delivery is complete and in order or the client is told, and only who is out of the ring's reach is told; the refinement of `EventLog` |
| `repl_session` | 2 sessions, 2 inputs, 3 tool calls in batches of up to 2, maxTurns 3; 1,145,820 states | the three copies stay in step |
| `approval` | 3 calls in 2 sessions, registry of 2; 237,743 states | consent, delivery, no wait for ever |
| `hot_reload` | `RuntimeSurface`: file written twice, first with an error, then one server changed and one gone; 1 request; 468,920 states | the newest call decides, requests are served, turns are current, no removed server serves |
| `web_chat` | 3 turns, 2 of one chat and 1 of another, a subagent, tables of 1, two turns that write a text, a page of the first turn, which may also lose its row's writes; 584,442 states | turns can be stopped, rows and events are not mixed up, followers end |
| `tools_catalog` | a chat turn, a subagent, 2 builds, 2 servers, 1 edit; 5,497,373 states up to the symmetry of the servers | invalidations leave running calls their servers, invalidations are neither lost nor stuck, stale catalogs are known |
| `bridge` | 3 starts, 2 pipes each; 7,767 states | no core is left without a supervisor |
| `repl_recovery`, `repl_resume`, `hot_reload_settles`, `slot_leak` | | counterexamples, section 5 |

Why the bounds are enough. Three runs over one slot let one run hold it, one wait and a third be
offered, started out of turn or fail as unservable; with two inputs one can be pending while
another is delivered. A ring of two wraps with the third event, so a cursor can be behind it,
exactly at its edge, or inside it; a second process is enough for a stale cursor. Three blocked
outputs are the limit in the code, and batches of two let them belong to two responses; two
inputs let a turn complete and another one fail, crash or complete after /resume. A registry
of two with three asks is full, and evicts an ask of either kind for one of either kind. Two
writes and one request allow three overlapping reloads while a sync is under way, and the second
file has a server that changed beside one that is gone. Two turns of one chat and one of another over
tables of one make the other chat's start an eviction of both tables, and the subagent's an eviction
of the registry alone, so that a pump may be left without a session and then meet the chat's next
one; each property's exceptions occur in the run. Turns are numbered as they start. Two builds are
enough for one to overtake the other, a turn and a subagent for a slot to be held by either kind while
the other comes and goes, one edit for a stale catalog, two
servers for one that is reconnected beside one that is left alone; nothing tells servers apart, so their
permutations are symmetries, and the run checks no liveness. A recorder's failing writes touch only its
own row, so one turn that has them is enough: it is the one whose chat is asked again. Three starts let a start follow a stop and an
exit. Larger instances are covered by the theorems, where there are any.

Deadlock is checked except where the system stops by itself: in `MCApproval`,
`HotReloadSettles` and `MCWebChat` the bounded calls, writes and turns run out.

Every property of a run has a mutant in `PROJECT.json`: an operator, marked *Fault* in its module, that
changes one definition as a plausible bug would, under which TLC finds the property violated.

### Fairness

Nothing is assumed of users and hosts. Of the rest:

* *Supervisor*: the scheduling loop finishes (weak fairness; it is a synchronous loop). A worker
  that is not parked settles sooner or later (strong fairness, since pauses and waits may come
  between). That workers settle is their contract, not something the runtime enforces: it sets
  no deadline, and a worker that never settles keeps its slot for ever. A worker parked on input or
  on a pause need never be woken, and `QueueMovesOn` says so.
* *Event bus*: a client with a subscription goes on reading it (`for await`).
* *Approval*: timers fire, resolved promises continue. Both callers pass a positive timeout.
* *Hot reload*: timers fire, reads and scans finish. Nothing is assumed of the REPL or its servers:
  `RequestsAreServed` holds with a prompt at which nobody types.
* *Web chat*: a setup ends, a recorder reads what there is, a page's stream ends once its end is there.
  A turn has finitely many such steps, so one condition for all turns is enough. Nothing is
  assumed of the model and its tools: a pump need never drain, and a stop must end the followers all
  the same. No write to the database need fail (`SnapshotFails` has no fairness).

`ReplSession`, `ToolsCatalog` and `BridgeSupervisor` have safety properties only.

## 4. What is checked

*Supervisor.* `SlotMatchesRecord`: the maps of slots and records agree with where workers are; a worker
that executes without a slot belongs to a deferred run. `CompletionMatchesRecord`: whoever awaits a
handle is answered when and as the record says. `NoStrandedWorker`: nobody stays parked on what has
already happened. `InputsInOrder`: at most once and in order through both ways of reading. `NoIdleSlot`:
no slot is free while an offered run waits. `TerminalIsFinal`: no late report, pause or result undoes an
end. `CancelTakesEffect`, `QueueMovesOn`. `ImplementsLifecycle`: the refinement, with the phase of a run
computed from its record and slot, and the promise as the result; that slots never exceed the limit
(`CapacityRespected`, proved) is part of it.

*Event bus.* `StreamComplete` (what a client has, and what is queued for it, is exactly what it
wants since its last fresh start), `QueueIsRead`. `ImplementsLog`: each delivery is the next event
its client awaits, and a client is told of a gap only when more than `Capacity` events came after its
cursor; `StreamComplete` would hold of a bus that cries wolf.

*REPL.* `ToolCallsSavedFirst` (no tool runs before its call is on disk, and the disk is at most
one result behind), `OnlyWholeTurns` (a failed turn leaves nothing at the prompt),
`CompletedTurnsAreSaved` (a crash loses no completed turn of the conversation at hand),
`NoCallAfterThreeBlocked`.

*Approvals.* `OnlyConsentedCallsRun`: a gated tool runs on a decision about this very call, or on a
consent for good given in its own session for its level. The one exception is the code's: consent to
medium covers low. `DeliveredIsHeard`, `EveryWaitEnds`.

*Hot reload and runtime surface.* `NewestDecides`, `NeverBackwards`, `RequestsAreServed`; and of the
turns: `TurnIsCurrent` (a turn runs on the configuration that was the newest when it began, although
the key holds a generation claimed before the runtime is there, and the early return trusts the key),
`NoRemovedServerServes` (whichever registrations failed), `ReconnectIsDue` (a sync marks whatever
reconnect is pending as applied; the next turn syncs all the same).

*Web chat.* `LiveTurnIsStoppable`: the entry of a chat is that of its turn at work, so that the stop
button, the next question and the cap reach it; a chat has never two turns at work. `NoForeignText`: a
row never gets another turn's text. `RunningHasATurn`: a session that answers 409 has a turn that will
end. `FollowersEnd`: recorders and pages of turns that were stopped or are over come to their end.

*Tools catalog.* `CallsKeepServers`: while a turn holds its slot, no invalidation disconnects a server
its calls wait on, whoever invalidates and whichever slot comes back last. Two things do, and they do
not look at the slots: a build that replaces that very registry, and the reconnect of that very server,
which leaves the other servers alone. `DeferredHasHolder`: an invalidation that waits, waits for somebody. `StaleIsKnown`: a catalog
of older sources is known to be one, by the watcher's timer or a waiting invalidation; a catalog that a
build or a reconnect wrote over a newer state is excepted.

*Bridge.* `NoUnsupervisedCore`.

Some of these are weaker than a reader may wish; each exception is in the property's definition and
stands for a behaviour of the code that section 5 describes.

## 5. Where the code and its documentation disagree

Found by a run:

1. A process that dies while a tool runs leaves an unanswered tool call, and the next one sends
   it to the model (`repl_recovery`).
2. /resume changes the conversation but not the row it is saved to (`repl_resume`). The same
   holds for `/resume latest`.
3. A write of the configuration noticed while a committed reload activates its skills is dropped
   when the watchers are rebuilt (`hot_reload_settles`). `RequestsAreServed` shows that explicit
   requests are not lost.
4. A chat that is stopped while it awaits the catalog takes its slot afterwards and registers its
   release with a signal that has fired already; the slot is never given back, and every later
   invalidation waits for ever (`slot_leak`). `DeferredHasHolder` shows that it is the only way.

Met while modelling; no run checks them:

* `defer` frees a slot before the worker has stopped, so more workers may execute than
  `maxActiveRuns` (`supervisor-runtime.ts:694`). The bound on slots holds and is proved.
* A child event listener runs inside `startQueuedRuns`; one that cancels a queued run sees it started,
  since the loop's snapshot is stale (`supervisor-runtime.ts:1012`, `1258`), and a nested sweep can
  take one slot too many. No listener in the repository does so.
* The loop counts its turns on from the session's counter, so that after `maxTurns` turns every further
  turn of a session fails, also after /clear (`loop.ts:114`).
* A pump whose chat was stopped and posted to again ends by completing the session that is there now
  (`route.ts:1151`), the next turn's, and with it that turn's row and page. `NoForeignText` shows that no
  text gets there.
* Consent to medium covers low as well: `addToWhitelist` adds both (`with-approval.ts:89-90`, "transitive
  trust"). The specification says that "allow always" is "per `(sessionId, riskLevel)` — does not bleed
  across sessions or risk levels" (`docs/07-safety-guardrails/interaction-primitives-spec.md:464`), and the
  dialog asks for "本会话同等风险等级({riskLevel})自动放行", the same level of risk in this session
  (`InlineApproval.tsx:265`). Run: the user ticks the box at a medium call and allows it; from then on
  every low call of the session runs without asking. The model has it (`Levels` beside `NamedLevel`), and
  `OnlyConsentedCallsRun` excepts it by name (`Covered`): no other consent reaches another level.
* Two requests disconnect servers under running calls. A refresh of the MCP page
  (`GET /api/mcp?refresh=1`) starts a build whatever slots are held, and the build disconnects the registry
  before it (`tools-loader.ts:682-690`). The reconnect of a server registers it anew
  (`tools-loader.ts:488`), and `register` disconnects the client that is there (`registry.ts:203-207`).
  The comments at `tools-loader.ts:339-346` and `365-368` say why an invalidation must not do that: "so we
  don't kill stdio subprocesses that a running shell_exec / memory_recall / etc. is waiting on", and "orphan
  that promise". Neither asks `inFlightToolCalls`. Run: a turn calls a tool; the user refreshes the page or
  reconnects that server; the client the call waits on is gone. `CallsKeepServers` excepts the two by name.
* A recorder gives up when the UPDATE that ends its row fails twice (`recorder.ts:180-190`): the row stays
  as the last snapshot left it and is never final, though the comment at `recorder.ts:175-178` wants no row
  "left in a "pending" state forever". A snapshot that fails once in the middle of a turn ends the
  recorder there, with a row that says it is final and lacks the rest.
* A setup that throws, or a catalog that rejects (`route.ts:912`), leaves the session "running"; the
  chat answers 409 to other questions until it is stopped.
* The registry evicts its least recently used session silently. The comment in
  `web-session-meta.ts:177-181` says subscribers get a `session.failed`; but `createSession` has trimmed
  the registry before `setMeta` enforces the web's cap, so there may be no session left to tell.
  Subagents' shadow sessions (`agents/spawn/route.ts:74`) are never deleted and evict chats at work too.
  The recorder of such a turn goes on: asked again, the chat's next turn ends it and its text is in the
  earlier turn's row as well. The properties except these turns (`lost`).
* A reader thread of a killed child may write the dashboard port after the next start has reset it,
  though the comment in `supervisor.rs:55` says the reset keeps leftovers out.
* An MCP server that disconnected is to be registered again "without waiting for a capabilities config
  change" (`repl.ts:2782-2785`), but the early return on an unchanged key comes before
  (`repl.ts:2719`).
* Sources edited while the first catalog is built go unnoticed: the watcher is attached afterwards
  (`tools-loader.ts:698`). A build that was invalidated while it ran parks its catalog all the same.

## 6. What is proved

Eight modules hold proofs; `PROJECT.json` lists the theorems. All are about every value of the
constants that the named assumptions admit: any finite set of runs, any set of calls, clients, servers,
sessions and builds, any capacity, cap or limit, any bound on what happens. Every invariant and every
action property of the passing runs, and both refinements, are theorems.

**SupervisorRuntime.** All safety and action properties and the refinement, from `IInv`, which adds to
the checked properties `SweepIsQueue` (while the loop runs, the rest of its snapshot is exactly the
queue, so no sweep starts a run that is no longer queued), `OfferedAreKnown`, `AbortedIsLocked` (a
worker whose signal is set cannot end in another way) and `PausedIsLive` (no pause outlives its run).
There is one lemma per action; actions that change nothing a conjunct reads share lemmas on status
changes. Cardinality enters once, where the loop takes a slot. `InputsInOrder` has an invariant of its
own (what is delivered, pending and not yet sent is increasing); the refinement maps each action to a
step of `ChildRunLifecycle` or a stutter.

**EventBus.** `TypeOK`, `StreamComplete` and the refinement of `EventLog`. `EmittedInOrder` numbers the
history from 1 without a gap, and `RingHoldsNewest` says which event every slot of the ring holds: those
below the write cursor are of the last lap, the others one lap older. So the replay, which walks the
ring from its oldest slot, is the end of the history (`BufferedIs`, `SnapshotIs`). `StreamComplete`
equates sequences, which is hard to carry through a step; `StreamsInOrder` says the same of a client by
what determines such a sequence, that it is increasing and has the elements it should
(`IncreasingUnique`), and that is kept event by event (`StreamGrows`, `StreamReads`, `StreamJoins`).
`Selected`, the recursive function behind both, is shown to exist and to have these properties by
induction: a set of numbers with 0 and every successor is `Nat` (`Induction`), which follows from the
least element of its complement. For the refinement, the queue of an open subscription is exactly what
`EventLog` says its client awaits (`QueuedIsAwaited`): who waits on `next()` has everything, the head of
a queue is the next event, and a replay is truncated only when the ring is full and the cursor behind it.

**ReplSession.** All its properties. `IInv` adds `LoopGoesOn` (the loop's copy is the conversation and
what it has added), `StepsAreInOrder` (a turn is counted before the model is called, a response has
calls left while tools run, the third blocked output ends the loop, an answer is on disk) and
`CountsAreBounded`, without which a resumed row could start the loop past its limit. On top of it,
`TurnInOrder` makes `OnlyWholeTurns` inductive: the loop's copy is whole turns and one unfinished one,
which the results still due (`Due`) would make whole again but for its answer; so a result joins the call
it belongs to and an answer comes when nothing is due. `BlockedAreCounted` relates the counter of blocked
outputs to the transcript: it is at least the number blocked in a row at the end, also in the step where
it has counted a result that is not written yet.

**Approval.** `TypeOK`, `OnlyConsentedCallsRun`, `DeliveredIsHeard` and `WaitersAreRegistered`. The
invariant adds that synthetic replies fit their ask (`SyntheticRepliesFit`) and that whatever a whitelist
holds is covered by what was granted in its session (`ListsAreGranted`). The registry is a sequence without repetitions;
what taking out and evicting do to it are lemmas of their own.

**HotReload and RuntimeSurface.** `NewestDecides`, `BaseIsStillRunning` and `NeverBackwards` are
inductive with `ClaimsAreCounted`, `ClaimedInOrder` and `ReadsAreNewer`. `SurfaceInv` adds that the
success in a key names the version it was built of, once and for all (`KeysNameVersions`), that the
signatures are the surface's (`SignaturesOfSurface`), that a surface of the last success has no pending
reconnect (`SyncedIsApplied`), and that whatever is registered is configured or still to be seen to
(`RegisteredAreNamed`). From it follow `TurnIsCurrent`, `NoRemovedServerServes` and `ReconnectIsDue`, for
any set of servers and any contents of the files.

**WebChat.** `TypeOK`, with the caps of both tables, `LiveTurnIsStoppable`, `NoForeignText` and
`RunningHasATurn`. None is inductive by itself: whether a pump writes into another turn's row depends on
whether that turn's events have an end by then. `SessionsHaveEntries` (the chat's session is that of the
turn its entry names), `TurnsHaveAnEnd` (a turn has its session, or its events have an end, or the
registry took the session silently) and `TextsAreOwn` (a foreign text comes after that end) say so. All
of them speak of the tables and of the turns only; together they are `Good(w, tr)` of a state of the
tables `w` and the turns `tr`. A request changes the tables several times in one step, evicting, creating,
trimming and emitting, so the proof follows the operators and not the actions: each operator has a lemma
that says what it changes, and `KeptGood` shows once that `Good` survives whatever takes a session from a
turn only with an end in its events or with its name in `lost`. What is left to each action is to compose
them; `BegunGood` and `TextGood` are the two places where something new comes in, a turn and a text.

**ToolsCatalog.** All its properties. The invariant adds `PendingIsHeld` (an invalidation waits only
while the counter is positive), `SlotsAreTaken` (which turn holds a slot at which point),
`CatalogsAreBuilt` and `AllFresh` (catalog, registry and the build that is awaited are fresh or known not
to be). The counter equals the number of holders by cardinality lemmas. `CallsKeepServers` goes through
the actions that disconnect: an invalidation happens only when the counter is zero, so that nobody holds a
slot; a build takes away the registry it read as the one before it, a reconnect one client of its own
registry.

**BridgeSupervisor.** `TypeOK` and `NoUnsupervisedCore`.

Only model-checked is liveness under fairness, which this prover cannot reason about: `CancelTakesEffect`,
`QueueMovesOn`, `QueueIsRead`, `EveryWaitEnds`, `RequestsAreServed` and `FollowersEnd`. The four
counterexamples are TLC's. For the proofs, selections and removals are written as recursive functions or
with the library's `RemoveAt`, since of `SelectSeq` and the folds the provers know nothing.

## 7. Not modelled

* *Failing system calls*: a snapshot of a row that throws from its own timer, where nothing catches it; a
  watcher that cannot be set up (`hot-reload.ts:537-544`), which is recorded as a failure and decides
  nothing; what else than a registration throws in `syncRuntimeSurface`, whose catch keeps the old surface
  (`repl.ts:2882-2894`); a `disconnect` of the client before that throws in `register`
  (`registry.ts:206-214`), taken for a registration that failed; in the bridge errors of `try_wait`, `kill`
  and `wait`, which would leave a child that still runs without a supervisor, and a reader's thread that
  cannot be spawned, whose panic does the same to the child just started. `NoUnsupervisedCore` is about a
  system in which these calls succeed.
* *Signatures of servers in a turn*: `NoRemovedServerServes` is about servers that the configuration does
  not name; a server whose registration failed may serve with the configuration it had before.
* *Parts of modelled components*: context assembly, token budgets, telemetry and the other slash
  commands of the REPL; snapshots of rows between start and end, search and paging in the database;
  prompt, mock and reasoner modes of the chat route; `detectStaleRuns` and `drainChildEvents`, which
  keep the notification outbox; listeners that call back into a sweep; the REPL's bridge to the agent
  service, which keeps one session for the whole process.
* *Text and rendering*: LLM clients, context, scanners and verifiers, user interfaces, site, benchmarks.
  Their outcomes appear where they decide something: a response, a blocked output, a throw.
* *External protocols*: MCP over its library, SQLite, the AI SDK. They appear as what their callers
  depend on: connected or not, written or not, a stream that ends.
* *Not reached yet*, in the order in which they would be taken up: the idle daemon of the memory
  provider (`daemon.py`: ticks, budgets, retries and leases of idle jobs in one asyncio loop); the MCP
  client's lifecycle queue; the skills manager, whose overlapping `discover` calls commit in the order they
  end; the planning executor's steps and checkpoints; the live input queue; the checkpoint store, whose
  failed opening is remembered as a rejected promise; write authority as a decision table.

Abstract specifications worth stating next: a register of the newest readable file that `HotReload`
implements, and what a chat page sees of a turn, which `WebChat` implements for turns whose session is kept.
