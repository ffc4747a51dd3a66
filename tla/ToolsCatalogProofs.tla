-------------------------- MODULE ToolsCatalogProofs --------------------------
(***************************************************************************)
(* Theorems about the web's tool catalog, for any finite set of turns and  *)
(* any number of builds and edits.                                         *)
(***************************************************************************)
EXTENDS ToolsCatalog, FiniteSetTheorems, TLAPS

USE BuildsAssumption, TurnsAssumption, EditsAssumption

BuildOrNone == Builds \cup {Nobody}

Shared == [catalog : BuildOrNone, registry : BuildOrNone, inflight : BuildOrNone,
           calls : Nat, pending : BOOLEAN,
           connected : SUBSET Builds, overtaken : SUBSET Builds]

BuildState == [at : {"new", "skills", "loading", "disconnecting", "over", "failed"},
               previous : BuildOrNone, version : 0..MaxEdits]

TurnState == [at : {"new", "catalog", "calling", "observing", "over"}, build : BuildOrNone,
              replaced : SUBSET Servers, slot : BOOLEAN, listens : BOOLEAN, aborted : BOOLEAN]

SourceState ==
    {s \in [version : 0..MaxEdits, watched : BOOLEAN, noticed : BOOLEAN, unseen : 0..MaxEdits] :
        s.unseen <= s.version}

PatchState == [at : {"idle", "catalog", "registering", "replaced"}, build : BuildOrNone,
               servers : SUBSET Servers]

\* The types of what a step of one part leaves to the others.
LEMMA Typed ==
    TypeOK <=> /\ tools \in Shared /\ tools.calls = Cardinality(Holders)
               /\ build \in [Builds -> BuildState] /\ turn \in [Turns -> TurnState]
               /\ sources \in SourceState
               /\ patch \in PatchState
BY DEF TypeOK, Shared, BuildState, TurnState, SourceState, PatchState, BuildOrNone

LEMMA TypedNext ==
    ASSUME tools' \in Shared, tools'.calls = Cardinality(Holders)',
           build' \in [Builds -> BuildState], turn' \in [Turns -> TurnState],
           sources' \in SourceState,
           patch' \in PatchState
    PROVE  TypeOK'
BY DEF TypeOK, Shared, BuildState, TurnState, SourceState, PatchState, BuildOrNone

\* What an invalidation or a released slot does to the catalogs: nothing, or they are
\* all gone.
KeptOrGone(w, v) ==
    /\ v.overtaken = w.overtaken
    /\ \/ /\ v.catalog = w.catalog /\ v.registry = w.registry /\ v.inflight = w.inflight
          /\ w.pending => v.pending
       \/ v.catalog = Nobody /\ v.registry = Nobody /\ v.inflight = Nobody

LEMMA InvalidatedEffect ==
    ASSUME NEW w \in Shared, w.pending => w.calls > 0
    PROVE  LET v == Invalidated(w)
           IN  /\ v \in Shared /\ v.calls = w.calls
               /\ v.pending => v.calls > 0
               /\ w.calls > 0 => v.pending /\ v.connected = w.connected
               /\ KeptOrGone(w, v)
<1>1. CASE w.calls > 0
  BY <1>1 DEF Invalidated, Shared, BuildOrNone, KeptOrGone
<1>2. CASE ~(w.calls > 0)
  BY <1>2 DEF Invalidated, Shared, BuildOrNone, KeptOrGone
<1>3. QED BY <1>1, <1>2

LEMMA SlotReleasedEffect ==
    ASSUME NEW w \in Shared, w.calls > 0
    PROVE  LET v == SlotReleased(w)
           IN  /\ v \in Shared /\ v.calls = w.calls - 1
               /\ v.pending => v.calls > 0
               /\ v.calls > 0 => v.connected = w.connected
               /\ KeptOrGone(w, v)
<1> DEFINE fewer == [w EXCEPT !.calls = IF @ > 0 THEN @ - 1 ELSE 0]
           due == [fewer EXCEPT !.pending = FALSE]
<1>1. /\ fewer \in Shared /\ fewer.calls = w.calls - 1
      /\ KeptOrGone(w, fewer) /\ fewer.connected = w.connected /\ fewer.pending = w.pending
  BY DEF Shared, KeptOrGone
<1>2. CASE fewer.calls = 0 /\ fewer.pending
  <2>1. due \in Shared /\ due.calls = 0 /\ due.pending = FALSE /\ due.overtaken = w.overtaken
    BY <1>1, <1>2 DEF Shared, KeptOrGone
  <2>2. SlotReleased(w) = Invalidated(due)
    BY <1>2 DEF SlotReleased
  <2>3. Invalidated(due) =
          [due EXCEPT !.registry = Nobody, !.catalog = Nobody, !.inflight = Nobody,
                      !.connected = @ \ {due.registry}]
    BY <2>1 DEF Invalidated
  <2> HIDE DEF due, fewer
  <2>4. /\ Invalidated(due) \in Shared /\ Invalidated(due).calls = 0
        /\ Invalidated(due).pending = FALSE /\ KeptOrGone(w, Invalidated(due))
    BY <2>1, <2>3 DEF Shared, BuildOrNone, KeptOrGone
  <2>5. w.calls - 1 = 0
    BY <1>1, <1>2
  <2>6. QED BY <2>2, <2>4, <2>5
<1>3. CASE ~(fewer.calls = 0 /\ fewer.pending)
  <2>1. SlotReleased(w) = fewer
    BY <1>3 DEF SlotReleased
  <2>2. fewer.pending => fewer.calls > 0
    BY <1>1, <1>3 DEF Shared
  <2>3. QED BY <1>1, <2>1, <2>2
<1>4. QED BY <1>2, <1>3

-----------------------------------------------------------------------------

LEMMA InitInvariant == Init => IInv
<1> SUFFICES ASSUME Init PROVE IInv
    OBVIOUS
<1>1. TypeOK
  <2>1. Holders = {}
    BY DEF Init, Holders
  <2>2. tools \in Shared /\ tools.calls = 0
    BY DEF Init, Shared, BuildOrNone
  <2>3. build \in [Builds -> BuildState] /\ turn \in [Turns -> TurnState]
    BY DEF Init, BuildOrNone, BuildState, TurnState
  <2>4. sources \in SourceState
    BY EditsAssumption DEF Init, SourceState
  <2>5. patch \in PatchState
    BY DEF Init, PatchState, NoPatch, BuildOrNone
  <2>6. QED BY <2>1, <2>2, <2>3, <2>4, <2>5, FS_EmptySet, Typed
<1>2. PendingIsHeld /\ SlotsAreTaken /\ CatalogsAreBuilt /\ AllFresh
  BY DEF Init, NoPatch, PendingIsHeld, SlotsAreTaken, CatalogsAreBuilt, AllFresh, Built, Fresh
<1>3. QED BY <1>1, <1>2 DEF IInv

\* What an invalidation leaves of the catalogs is as fresh and as built as it was.
LEMMA KeptOrGoneStep ==
    ASSUME IInv, KeptOrGone(tools, tools'), UNCHANGED <<build, sources, patch>>
    PROVE  CatalogsAreBuilt' /\ AllFresh'
<1>1. CASE /\ tools'.catalog = tools.catalog /\ tools'.registry = tools.registry
           /\ tools'.inflight = tools.inflight
           /\ tools.pending => tools'.pending
           /\ tools'.overtaken = tools.overtaken
  BY <1>1 DEF IInv, CatalogsAreBuilt, AllFresh, Built, Fresh
<1>2. CASE tools'.catalog = Nobody /\ tools'.registry = Nobody /\ tools'.inflight = Nobody
  BY <1>2 DEF IInv, CatalogsAreBuilt, AllFresh, Built, Fresh, Nobody
<1>3. QED BY <1>1, <1>2 DEF KeptOrGone

\* A build that begins is nobody's catalog yet.
LEMMA BegunStep ==
    ASSUME IInv, NEW b \in Builds, NEW w \in Shared, BuildBegins(b), tools' = Begun(w, b),
           w.catalog = tools.catalog, w.registry = tools.registry,
           w.inflight = tools.inflight, w.overtaken = tools.overtaken,
           w.pending = tools.pending, UNCHANGED sources
    PROVE  /\ tools' \in Shared /\ tools'.calls = w.calls /\ tools'.pending = w.pending
           /\ tools'.connected = w.connected
           /\ build' \in [Builds -> BuildState]
           /\ \A a \in Builds : Built(a) => Built(a)'
           /\ Built(tools.catalog)' /\ Built(tools.registry)'
           /\ AllFresh'
<1>1. /\ tools' \in Shared /\ tools'.calls = w.calls /\ tools'.pending = w.pending
      /\ tools'.catalog = tools.catalog /\ tools'.registry = tools.registry
      /\ tools'.overtaken = tools.overtaken /\ tools'.connected = w.connected
      /\ tools'.inflight = IF build[b].at = "new" THEN b ELSE tools.inflight
  BY DEF Begun, Shared, BuildOrNone
<1>2. /\ build' \in [Builds -> BuildState]
      /\ \A a \in Builds :
            /\ build'[a].version = build[a].version
            /\ build'[a].at = IF a = b /\ build[a].at = "new" THEN "skills" ELSE build[a].at
  BY Typed DEF BuildBegins, IInv, BuildState
<1>3. tools.catalog \in BuildOrNone /\ tools.registry \in BuildOrNone
  BY DEF IInv, TypeOK, BuildOrNone
<1>4. \A a \in Builds : Built(a) => Built(a)'
  BY <1>2 DEF Built
<1>5. Built(tools.catalog)' /\ Built(tools.registry)'
  BY <1>1, <1>2, <1>3 DEF IInv, CatalogsAreBuilt, Built, BuildOrNone
<1>6. AllFresh'
  BY <1>1, <1>2, <1>3 DEF IInv, AllFresh, Fresh, BuildOrNone
<1>7. QED BY <1>1, <1>2, <1>4, <1>5, <1>6

-----------------------------------------------------------------------------
(* The slots. *)

LEMMA HoldersAreFinite == IsFiniteSet(Holders) /\ Cardinality(Holders) \in Nat
BY FS_Subset, FS_CardinalityType DEF Holders

LEMMA SameHolders ==
    ASSUME \A t \in Turns : turn'[t].slot = turn[t].slot
    PROVE  Cardinality(Holders)' = Cardinality(Holders)
<1>1. Holders' = Holders
  BY DEF Holders
<1>2. QED BY <1>1

LEMMA HolderAdded ==
    ASSUME NEW t \in Turns, ~turn[t].slot, turn'[t].slot,
           \A u \in Turns \ {t} : turn'[u].slot = turn[u].slot
    PROVE  Cardinality(Holders)' = Cardinality(Holders) + 1
<1>1. Holders' = Holders \cup {t} /\ t \notin Holders
  BY DEF Holders
<1>2. QED BY <1>1, HoldersAreFinite, FS_AddElement

LEMMA HolderRemoved ==
    ASSUME NEW t \in Turns, turn[t].slot, ~turn'[t].slot,
           \A u \in Turns \ {t} : turn'[u].slot = turn[u].slot
    PROVE  Cardinality(Holders)' = Cardinality(Holders) - 1
<1>1. Holders' = Holders \ {t} /\ t \in Holders
  BY DEF Holders
<1>2. QED BY <1>1, HoldersAreFinite, FS_RemoveElement

LEMMA HolderCounts ==
    ASSUME TypeOK, NEW t \in Turns, turn[t].slot
    PROVE  /\ tools.calls > 0
           /\ \A u \in Turns \ {t} : turn[u].slot => tools.calls > 1
<1>1. t \in Holders /\ tools.calls = Cardinality(Holders)
  BY DEF Holders, TypeOK
<1>2. Cardinality(Holders \ {t}) = Cardinality(Holders) - 1
  BY <1>1, HoldersAreFinite, FS_RemoveElement
<1>3. IsFiniteSet(Holders \ {t}) /\ Cardinality(Holders \ {t}) \in Nat
  BY HoldersAreFinite, FS_RemoveElement, FS_CardinalityType
<1>4. ASSUME NEW u \in Turns \ {t}, turn[u].slot PROVE Cardinality(Holders \ {t}) # 0
  <2>1. u \in Holders \ {t}
    BY <1>4 DEF Holders
  <2>2. QED BY <1>3, <2>1, FS_EmptySet
<1>5. Cardinality(Holders) > 0
  BY <1>2, <1>3, HoldersAreFinite
<1>6. ASSUME NEW u \in Turns \ {t}, turn[u].slot PROVE Cardinality(Holders) > 1
  <2>1. Cardinality(Holders \ {t}) # 0
    BY <1>4, <1>6
  <2>2. QED BY <2>1, <1>2, <1>3, HoldersAreFinite
<1>7. QED BY <1>1, <1>5, <1>6

-----------------------------------------------------------------------------
(* Steps that leave the turns alone. *)

LEMMA BuildStepKeeps ==
    ASSUME IInv, NEW b \in Builds, BuildStep(b)
    PROVE  IInv'
<1>1. /\ UNCHANGED <<turn, patch>> /\ sources' \in SourceState
      /\ sources' \in {sources, [sources EXCEPT !.watched = TRUE]}
  BY Typed DEF IInv, BuildStep, Capture, BuildRejects, Park, BuildEnds, SourceState
<1>2. /\ tools' \in Shared /\ tools'.calls = tools.calls /\ tools'.pending = tools.pending
      /\ build' \in [Builds -> BuildState]
  <2>1. /\ tools \in Shared /\ build \in [Builds -> BuildState]
        /\ sources.version \in 0..MaxEdits
    BY Typed DEF IInv, SourceState
  <2>2. CASE Capture(b)
    BY <2>1, <2>2 DEF Capture, Shared, BuildState
  <2>3. CASE BuildRejects(b)
    BY <2>1, <2>3 DEF BuildRejects, Shared, BuildState, BuildOrNone
  <2>4. CASE Park(b)
    <3>1. PICK loaded \in BOOLEAN :
             tools' = [tools EXCEPT
                 !.registry = IF loaded THEN b ELSE tools.registry, !.catalog = b,
                 !.connected = (@ \cup (IF loaded THEN {b} ELSE {}))
                                 \ ({build[b].previous}
                                      \ {IF loaded THEN b ELSE tools.registry}),
                 !.overtaken = IF tools.inflight = b THEN @ ELSE @ \cup {b}]
      BY <2>4 DEF Park
    <3>2. tools' \in Shared
      BY <2>1, <3>1 DEF Shared, BuildOrNone
    <3>3. tools'.calls = tools.calls /\ tools'.pending = tools.pending
      BY <2>1, <3>1 DEF Shared
    <3>4. build' \in [Builds -> BuildState]
      BY <2>1, <2>4 DEF Park, BuildState, BuildOrNone
    <3>5. QED BY <3>2, <3>3, <3>4
  <2>5. CASE BuildEnds(b)
    BY <2>1, <2>5 DEF BuildEnds, Shared, BuildState, BuildOrNone
  <2>6. QED BY <2>2, <2>3, <2>4, <2>5 DEF BuildStep
<1>3. TypeOK' /\ PendingIsHeld' /\ SlotsAreTaken'
  <2>1. Cardinality(Holders)' = Cardinality(Holders)
    BY <1>1, SameHolders
  <2>2. TypeOK'
    BY <1>1, <1>2, <2>1, Typed, TypedNext DEF IInv
  <2>3. QED BY <1>1, <1>2, <2>2 DEF IInv, PendingIsHeld, SlotsAreTaken
<1>4. CatalogsAreBuilt' /\ AllFresh'
  <2>1. /\ tools \in Shared /\ build \in [Builds -> BuildState] /\ patch.build \in BuildOrNone
        /\ sources'.version = sources.version /\ sources'.noticed = sources.noticed
        /\ sources'.unseen = sources.unseen
    BY <1>1, Typed DEF IInv, SourceState, PatchState
  <2>2. CASE Capture(b)
    BY <1>1, <2>1, <2>2
       DEF Capture, Shared, BuildState, BuildOrNone, IInv, CatalogsAreBuilt, AllFresh, Built, Fresh
  <2>3. CASE BuildRejects(b)
    BY <1>1, <2>1, <2>3
       DEF BuildRejects, Shared, BuildState, BuildOrNone, IInv, CatalogsAreBuilt, AllFresh, Built,
           Fresh, Nobody
  <2>4. CASE Park(b)
    BY <1>1, <2>1, <2>4
       DEF Park, Shared, BuildState, BuildOrNone, IInv, CatalogsAreBuilt, AllFresh, Built, Fresh
  <2>5. CASE BuildEnds(b)
    BY <1>1, <2>1, <2>5
       DEF BuildEnds, Shared, BuildState, BuildOrNone, IInv, CatalogsAreBuilt, AllFresh, Built,
           Fresh, Nobody
  <2>6. QED BY <2>2, <2>3, <2>4, <2>5 DEF BuildStep
<1>5. QED BY <1>3, <1>4 DEF IInv

LEMMA InvalidationStep ==
    ASSUME IInv, Edit \/ WatcherFires \/ Invalidate
    PROVE  IInv'
<1>1. UNCHANGED <<build, turn, patch>>
  BY DEF Edit, WatcherFires, Invalidate
<1>2. tools \in Shared /\ (tools.pending => tools.calls > 0)
  BY Typed DEF IInv, PendingIsHeld
<1>3. CASE Edit
  <2>1. /\ tools' = tools /\ sources' \in SourceState /\ sources \in SourceState
        /\ \/ sources'.noticed = TRUE
           \/ /\ sources'.unseen = sources.version + 1
              /\ sources'.noticed = sources.noticed
    <3>1. sources \in SourceState /\ MaxEdits \in Nat
      BY Typed, EditsAssumption DEF IInv
    <3>2. tools' = tools /\ sources.version + 1 \in 0..MaxEdits
      BY <1>3, <3>1 DEF Edit, SourceState
    <3>3. CASE sources.watched
      <4>1. sources' = [sources EXCEPT !.version = sources.version + 1, !.noticed = TRUE]
        BY <1>3, <3>3 DEF Edit
      <4>2. sources' \in [version : 0..MaxEdits, watched : BOOLEAN, noticed : BOOLEAN,
                           unseen : 0..MaxEdits]
        BY <3>1, <3>2, <4>1 DEF SourceState
      <4>3. /\ sources'.version = sources.version + 1
            /\ sources'.noticed = TRUE /\ sources'.unseen = sources.unseen
        BY <3>1, <4>1 DEF SourceState
      <4>4. sources'.unseen <= sources'.version
        BY <3>1, <3>2, <4>3 DEF SourceState
      <4>5. QED BY <3>1, <3>2, <4>2, <4>3, <4>4 DEF SourceState
    <3>4. CASE ~sources.watched
      <4>1. sources' = [sources EXCEPT !.version = sources.version + 1,
                                       !.unseen = sources.version + 1]
        BY <1>3, <3>4 DEF Edit
      <4>2. sources' \in [version : 0..MaxEdits, watched : BOOLEAN, noticed : BOOLEAN,
                           unseen : 0..MaxEdits]
        BY <3>1, <3>2, <4>1 DEF SourceState
      <4>3. /\ sources'.version = sources.version + 1
            /\ sources'.unseen = sources.version + 1 /\ sources'.noticed = sources.noticed
        BY <3>1, <4>1 DEF SourceState
      <4>4. sources'.unseen <= sources'.version
        BY <3>1, <3>2, <4>3 DEF SourceState
      <4>5. QED BY <3>1, <3>2, <4>2, <4>3, <4>4 DEF SourceState
    <3>5. QED BY <3>3, <3>4
  <2>2. TypeOK'
    BY <1>1, <2>1, SameHolders, Typed, TypedNext DEF IInv
  <2>3. ASSUME NEW b, Fresh(b), build[b].version \in Nat \/ b = Nobody PROVE Fresh(b)'
    <3>1. /\ sources.version \in Nat /\ sources.unseen \in Nat
          /\ sources.unseen <= sources.version
      BY <2>1, EditsAssumption DEF SourceState
    <3>2. QED BY <1>1, <2>1, <2>3, <3>1 DEF Fresh
  <2>4. QED
    <3>1. /\ tools \in Shared /\ build \in [Builds -> BuildState]
      BY Typed DEF IInv
    <3>2. \A b \in Builds \cup {Nobody} : Fresh(b) => Fresh(b)'
      <4>1. \A b \in Builds : build[b].version \in Nat
        BY <3>1 DEF BuildState
      <4>2. QED BY <2>3, <4>1
    <3>3. AllFresh'
      BY <1>1, <2>1, <3>1, <3>2 DEF IInv, AllFresh, Shared, BuildOrNone
    <3>4. QED
      BY <1>1, <2>1, <2>2, <3>3
         DEF IInv, PendingIsHeld, SlotsAreTaken, CatalogsAreBuilt, Built
<1>4. ASSUME tools' = Invalidated(tools) PROVE /\ tools' \in Shared /\ tools'.calls = tools.calls
                                               /\ tools'.pending => tools'.calls > 0
                                               /\ KeptOrGone(tools, tools')
                                               /\ tools.calls > 0 => tools'.pending
                                               /\ ~(tools.calls > 0) => tools'.catalog = Nobody
                                                                        /\ tools'.registry = Nobody
                                                                        /\ tools'.inflight = Nobody
  <2>1. CASE tools.calls > 0
    BY <1>2, <1>4, <2>1, InvalidatedEffect
  <2>2. CASE ~(tools.calls > 0)
    BY <1>2, <1>4, <2>2, InvalidatedEffect DEF Invalidated, Shared
  <2>3. QED BY <2>1, <2>2
<1>5. CASE Invalidate
  <2>1. UNCHANGED sources /\ tools' = Invalidated(tools)
    BY <1>5 DEF Invalidate
  <2>2. TypeOK'
    BY <1>1, <1>4, <2>1, SameHolders, Typed, TypedNext DEF IInv
  <2>3. CatalogsAreBuilt' /\ AllFresh'
    BY <1>1, <1>4, <2>1, KeptOrGoneStep
  <2>4. QED BY <1>1, <1>4, <2>1, <2>2, <2>3 DEF IInv, PendingIsHeld, SlotsAreTaken
<1>6. CASE WatcherFires
  <2>1. /\ tools' = Invalidated(tools) /\ sources'.version = sources.version
        /\ sources' \in SourceState
    BY <1>6, Typed DEF WatcherFires, IInv, SourceState
  <2>2. TypeOK'
    BY <1>1, <1>4, <2>1, SameHolders, Typed, TypedNext DEF IInv
  <2>3. CatalogsAreBuilt'
    BY <1>1, <1>4, <2>1 DEF IInv, CatalogsAreBuilt, Built, KeptOrGone, Nobody
  <2>4. AllFresh'
    <3>1. CASE tools.calls > 0
      BY <1>4, <2>1, <3>1 DEF AllFresh, Fresh
    <3>2. CASE ~(tools.calls > 0)
      BY <1>4, <2>1, <3>2 DEF AllFresh, Fresh, Nobody
    <3>3. QED BY <3>1, <3>2
  <2>5. QED BY <1>1, <1>4, <2>1, <2>2, <2>3, <2>4 DEF IInv, PendingIsHeld, SlotsAreTaken
<1>7. QED BY <1>3, <1>5, <1>6

LEMMA RefreshStep ==
    ASSUME IInv, Refresh \/ ReconnectStarts
    PROVE  IInv'
<1>1. PICK b \in Builds : BuildBegins(b) /\ tools' = Begun(tools, b)
  BY DEF Refresh, ReconnectStarts
<1>2. UNCHANGED <<turn, sources>> /\ patch' \in {patch} \cup
          [at : {"catalog"}, build : Builds, servers : SUBSET Servers]
  BY DEF Refresh, ReconnectStarts
<1>3. /\ tools \in Shared
      /\ patch \in PatchState
  BY Typed DEF IInv
<1>4. /\ tools' \in Shared /\ tools'.calls = tools.calls /\ tools'.pending = tools.pending
      /\ build' \in [Builds -> BuildState]
      /\ \A a \in Builds : Built(a) => Built(a)'
      /\ Built(tools.catalog)' /\ Built(tools.registry)'
      /\ AllFresh'
  BY <1>1, <1>2, <1>3, BegunStep
<1>5. TypeOK'
  <2>1. patch' \in PatchState
    BY <1>2, <1>3 DEF PatchState, BuildOrNone
  <2>2. QED BY <1>2, <1>4, <2>1, SameHolders, Typed, TypedNext DEF IInv
<1>6. CatalogsAreBuilt'
  <2>1. CASE patch' = patch
    BY <1>3, <1>4, <2>1 DEF IInv, CatalogsAreBuilt, PatchState, BuildOrNone
  <2>2. CASE patch'.at = "catalog"
    BY <1>4, <2>2 DEF CatalogsAreBuilt
  <2>3. QED BY <1>2, <2>1, <2>2
<1>7. QED BY <1>2, <1>4, <1>5, <1>6 DEF IInv, PendingIsHeld, SlotsAreTaken

LEMMA PatchStep ==
    ASSUME IInv, Reregister \/ PatchCatalog
    PROVE  IInv'
<1>1. UNCHANGED <<build, turn, sources>>
  BY DEF Reregister, PatchCatalog
<1>2. tools \in Shared /\ patch \in PatchState /\ NoPatch \in PatchState
  BY Typed DEF IInv, NoPatch, PatchState, BuildOrNone
<1>3. CASE Reregister
  <2>1. /\ tools' = tools
        /\ patch' \in {NoPatch, [patch EXCEPT !.at = "registering", !.build = tools.registry]}
        /\ patch' # NoPatch => tools.registry # Nobody
    BY <1>3 DEF Reregister
  <2>2. TypeOK'
    <3>1. patch' \in PatchState
      BY <1>2, <2>1 DEF PatchState, Shared
    <3>2. QED BY <1>1, <1>2, <2>1, <3>1, SameHolders, Typed, TypedNext DEF IInv
  <2>3. CatalogsAreBuilt'
    <3>1. CASE patch' = NoPatch
      BY <1>1, <2>1, <3>1 DEF IInv, CatalogsAreBuilt, Built, NoPatch
    <3>2. CASE patch' # NoPatch
      BY <1>1, <1>2, <2>1, <3>2 DEF IInv, CatalogsAreBuilt, Built, PatchState
    <3>3. QED BY <3>1, <3>2
  <2>4. QED
    BY <1>1, <2>1, <2>2, <2>3 DEF IInv, PendingIsHeld, SlotsAreTaken, AllFresh, Fresh
<1>4. CASE PatchCatalog
  <2>1. /\ patch' = NoPatch /\ patch'.at = "idle"
        /\ patch.build \in Builds /\ Built(patch.build)
    BY <1>2, <1>4
       DEF PatchCatalog, IInv, CatalogsAreBuilt, PatchState, BuildOrNone, NoPatch
  <2>2. /\ tools' \in Shared /\ tools'.calls = tools.calls
        /\ tools'.pending = tools.pending /\ tools'.registry = tools.registry
        /\ tools'.inflight = tools.inflight
        /\ tools.overtaken \subseteq tools'.overtaken
        /\ \/ tools'.catalog = tools.catalog
           \/ /\ tools'.catalog = patch.build
              /\ tools.registry = patch.build \/ patch.build \in tools'.overtaken
    BY <1>2, <1>4, <2>1 DEF PatchCatalog, Shared, BuildOrNone
  <2>3. TypeOK'
    BY <1>1, <1>2, <2>1, <2>2, SameHolders, Typed, TypedNext DEF IInv
  <2>4. CatalogsAreBuilt' /\ AllFresh'
    BY <1>1, <2>1, <2>2 DEF IInv, CatalogsAreBuilt, Built, AllFresh, Fresh
  <2>5. QED BY <1>1, <2>2, <2>3, <2>4 DEF IInv, PendingIsHeld, SlotsAreTaken
<1>5. QED BY <1>3, <1>4

LEMMA ReplaceClientStep ==
    ASSUME IInv, ReplaceClient
    PROVE  /\ IInv' /\ UNCHANGED tools
           /\ \A t \in Turns :
                 /\ turn'[t].build = turn[t].build
                 /\ turn'[t].replaced = IF turn[t].build = patch.build
                                        THEN turn[t].replaced \cup patch.servers
                                        ELSE turn[t].replaced
<1>1. /\ patch \in PatchState /\ turn \in [Turns -> TurnState]
      /\ patch.at = "registering" /\ patch' = [patch EXCEPT !.at = "replaced"]
      /\ UNCHANGED <<tools, build, sources>>
  BY Typed DEF IInv, ReplaceClient
<1>2. /\ patch' \in PatchState /\ patch'.at = "replaced" /\ patch'.build = patch.build
      /\ patch.servers \subseteq Servers
  BY <1>1 DEF PatchState
<1>3. \A t \in Turns :
        turn'[t] = IF turn[t].build = patch.build
                   THEN [turn[t] EXCEPT !.replaced = turn[t].replaced \cup patch.servers]
                   ELSE turn[t]
  BY DEF ReplaceClient
<1>4. \A t \in Turns :
        /\ turn'[t] \in TurnState
        /\ turn'[t].at = turn[t].at /\ turn'[t].slot = turn[t].slot
        /\ turn'[t].build = turn[t].build
        /\ turn'[t].listens = turn[t].listens /\ turn'[t].aborted = turn[t].aborted
        /\ turn'[t].replaced = IF turn[t].build = patch.build
                               THEN turn[t].replaced \cup patch.servers
                               ELSE turn[t].replaced
  <2> SUFFICES ASSUME NEW t \in Turns PROVE
        /\ turn'[t] \in TurnState
        /\ turn'[t].at = turn[t].at /\ turn'[t].slot = turn[t].slot
        /\ turn'[t].build = turn[t].build
        /\ turn'[t].listens = turn[t].listens /\ turn'[t].aborted = turn[t].aborted
        /\ turn'[t].replaced = IF turn[t].build = patch.build
                               THEN turn[t].replaced \cup patch.servers
                               ELSE turn[t].replaced
      OBVIOUS
  <2>1. turn[t] \in TurnState /\ turn[t].replaced \cup patch.servers \subseteq Servers
    BY <1>1, <1>2 DEF TurnState
  <2>2. CASE turn[t].build = patch.build
    <3>1. turn'[t] = [turn[t] EXCEPT !.replaced = turn[t].replaced \cup patch.servers]
      BY <1>3, <2>2
    <3>2. QED BY <2>1, <2>2, <3>1 DEF TurnState
  <2>3. CASE turn[t].build # patch.build
    BY <1>3, <2>1, <2>3
  <2>4. QED BY <2>2, <2>3
<1>5. turn' \in [Turns -> TurnState]
  BY <1>4 DEF ReplaceClient
<1>6. TypeOK'
  BY <1>1, <1>2, <1>4, <1>5, SameHolders, Typed, TypedNext DEF IInv
<1>7. SlotsAreTaken'
  BY <1>4 DEF IInv, SlotsAreTaken
<1>8. CatalogsAreBuilt'
  BY <1>1, <1>2 DEF IInv, CatalogsAreBuilt, Built
<1>9. QED BY <1>1, <1>4, <1>6, <1>7, <1>8 DEF IInv, PendingIsHeld, AllFresh, Fresh

-----------------------------------------------------------------------------
(* The turns. *)

\* What a step of turn t keeps, once it is known what it does to the slots.
LEMMA TurnKeeps ==
    ASSUME IInv, NEW t \in Turns, NEW state \in TurnState,
           turn' = [turn EXCEPT ![t] = state],
           state.at = "catalog" => (state.slot <=> t \in Subagents),
           state.at = "over" /\ state.slot => state.aborted,
           t \in Subagents => ~state.aborted /\ ~state.listens,
           state.at # "new",
           tools' \in Shared, tools'.calls = Cardinality(Holders)',
           tools'.pending => tools'.calls > 0,
           CatalogsAreBuilt', AllFresh',
           build' \in [Builds -> BuildState], UNCHANGED <<sources, patch>>
    PROVE  IInv'
<1>1. turn \in [Turns -> TurnState]
  BY Typed DEF IInv
<1>2. TypeOK'
  BY <1>1, Typed, TypedNext DEF IInv
<1>3. SlotsAreTaken'
  BY <1>1 DEF IInv, SlotsAreTaken
<1>4. QED BY <1>2, <1>3 DEF IInv, PendingIsHeld

\* A turn that ends, or is stopped, gives back the slot it has.
LEMMA ReleaseStep ==
    ASSUME IInv, NEW t \in Turns, NEW state \in TurnState,
           turn' = [turn EXCEPT ![t] = state], ~state.slot,
           tools' = Released(t), UNCHANGED <<build, sources, patch>>
    PROVE  /\ tools' \in Shared /\ tools'.calls = Cardinality(Holders)'
           /\ tools'.pending => tools'.calls > 0
           /\ tools'.calls > 0 => tools'.connected = tools.connected
           /\ CatalogsAreBuilt' /\ AllFresh'
<1>1. /\ tools \in Shared /\ turn \in [Turns -> TurnState]
      /\ tools.calls = Cardinality(Holders)
  BY Typed DEF IInv
<1>2. \A u \in Turns : turn'[u].slot = IF u = t THEN FALSE ELSE turn[u].slot
  BY <1>1 DEF TurnState
<1>3. CASE turn[t].slot
  <2>1. tools' = SlotReleased(tools) /\ tools.calls > 0
    BY <1>3, HolderCounts DEF Released, IInv
  <2>2. /\ tools' \in Shared /\ tools'.calls = tools.calls - 1
        /\ tools'.pending => tools'.calls > 0
        /\ tools'.calls > 0 => tools'.connected = tools.connected
        /\ KeptOrGone(tools, tools')
    BY <1>1, <2>1, SlotReleasedEffect
  <2>3. ~turn'[t].slot /\ \A u \in Turns \ {t} : turn'[u].slot = turn[u].slot
    BY <1>1
  <2>4. Cardinality(Holders)' = Cardinality(Holders) - 1
    BY <1>3, <2>3, HolderRemoved
  <2>5. QED BY <1>1, <2>2, <2>4, KeptOrGoneStep
<1>4. CASE ~turn[t].slot
  <2>1. tools' = tools
    BY <1>4 DEF Released
  <2>2. Cardinality(Holders)' = Cardinality(Holders)
    BY <1>1, <1>2, <1>4, SameHolders DEF TurnState
  <2>3. KeptOrGone(tools, tools')
    BY <2>1 DEF KeptOrGone
  <2>4. QED BY <1>1, <2>1, <2>2, <2>3, KeptOrGoneStep DEF IInv, PendingIsHeld
<1>5. QED BY <1>3, <1>4

LEMMA OverStep ==
    ASSUME IInv, NEW t \in Turns, NoCatalog(t) \/ SlotComesBack(t)
    PROVE  /\ IInv'
           /\ tools'.calls > 0 => tools'.connected = tools.connected
<1> DEFINE state == [turn[t] EXCEPT !.at = "over", !.build = Nobody, !.replaced = {},
                                    !.slot = FALSE, !.listens = FALSE]
<1>1. turn[t] \in TurnState /\ build \in [Builds -> BuildState]
  BY Typed DEF IInv
<1>2. /\ state \in TurnState /\ state.at = "over" /\ ~state.slot /\ ~state.listens
      /\ state.aborted = turn[t].aborted
  BY <1>1 DEF TurnState, BuildOrNone
<1>3. turn' = [turn EXCEPT ![t] = state] /\ tools' = Released(t)
  BY DEF NoCatalog, SlotComesBack, Over
<1>4. UNCHANGED <<build, sources, patch>>
  BY DEF NoCatalog, SlotComesBack
<1>5. t \in Subagents => ~state.aborted
  BY <1>2 DEF IInv, SlotsAreTaken
<1> HIDE DEF state
<1>6. /\ tools' \in Shared /\ tools'.calls = Cardinality(Holders)'
      /\ tools'.pending => tools'.calls > 0
      /\ tools'.calls > 0 => tools'.connected = tools.connected
      /\ CatalogsAreBuilt' /\ AllFresh'
  BY <1>2, <1>3, <1>4, ReleaseStep
<1>7. IInv'
  BY <1>1, <1>2, <1>3, <1>4, <1>5, <1>6, TurnKeeps
<1>8. QED BY <1>6, <1>7

LEMMA StopStep ==
    ASSUME IInv, NEW t \in Turns, Stop(t)
    PROVE  /\ IInv'
           /\ tools'.calls > 0 => tools'.connected = tools.connected
<1> DEFINE state == [turn[t] EXCEPT !.aborted = TRUE, !.listens = FALSE,
                                    !.slot = @ /\ ~turn[t].listens]
<1>1. turn[t] \in TurnState /\ build \in [Builds -> BuildState] /\ turn \in [Turns -> TurnState]
  BY Typed DEF IInv
<1>2. /\ state \in TurnState /\ state.at = turn[t].at /\ ~state.listens /\ state.aborted
      /\ state.slot = (turn[t].slot /\ ~turn[t].listens)
  BY <1>1 DEF TurnState
<1>3. turn' = [turn EXCEPT ![t] = state]
  BY <1>1 DEF Stop, TurnState
<1>4. /\ UNCHANGED <<build, sources, patch>>
      /\ t \notin Subagents /\ turn[t].at \in {"catalog", "calling", "observing"}
      /\ tools' = IF turn[t].listens THEN Released(t) ELSE tools
  BY DEF Stop
<1> HIDE DEF state
<1>5. state.at = "catalog" => ~state.slot
  BY <1>2, <1>4 DEF IInv, SlotsAreTaken
<1>6. CASE turn[t].listens
  <2>1. ~state.slot
    BY <1>2, <1>6
  <2>2. /\ tools' \in Shared /\ tools'.calls = Cardinality(Holders)'
        /\ tools'.pending => tools'.calls > 0
        /\ tools'.calls > 0 => tools'.connected = tools.connected
        /\ CatalogsAreBuilt' /\ AllFresh'
    BY <1>2, <1>3, <1>4, <1>6, <2>1, ReleaseStep
  <2>3. IInv'
    BY <1>1, <1>2, <1>3, <1>4, <1>5, <2>1, <2>2, TurnKeeps
  <2>4. QED BY <2>2, <2>3
<1>7. CASE ~turn[t].listens
  <2>1. tools' = tools /\ tools \in Shared /\ tools.calls = Cardinality(Holders)
    BY <1>4, <1>7, Typed DEF IInv
  <2>2. state.slot = turn[t].slot
    BY <1>1, <1>2, <1>7 DEF TurnState
  <2>3. Cardinality(Holders)' = Cardinality(Holders)
    BY <1>1, <1>3, <2>2, SameHolders
  <2>4. KeptOrGone(tools, tools')
    BY <2>1 DEF KeptOrGone
  <2>5. CatalogsAreBuilt' /\ AllFresh'
    BY <1>4, <2>4, KeptOrGoneStep
  <2>6. IInv'
    BY <1>1, <1>2, <1>3, <1>4, <1>5, <2>1, <2>3, <2>5, TurnKeeps DEF IInv, PendingIsHeld
  <2>7. QED BY <2>1, <2>6
<1>8. QED BY <1>6, <1>7

\* A turn that goes on as it was, as far as the slots and the catalogs are concerned.
LEMMA SameSlotStep ==
    ASSUME IInv, NEW t \in Turns, StreamFinishes(t) \/ StreamAborts(t)
    PROVE  IInv' /\ tools' = tools
<1> DEFINE observing == [turn[t] EXCEPT !.at = "observing"]
           over == [turn[t] EXCEPT !.at = "over", !.build = Nobody, !.replaced = {}]
<1>1. turn \in [Turns -> TurnState] /\ turn[t] \in TurnState
  BY Typed DEF IInv
<1>2. PICK state \in {observing, over} :
         /\ turn' = [turn EXCEPT ![t] = state]
         /\ state.at = "over" => turn[t].aborted
  BY <1>1 DEF StreamFinishes, StreamAborts, TurnState
<1>3. /\ state \in TurnState /\ state.at \in {"observing", "over"}
      /\ state.slot = turn[t].slot /\ state.listens = turn[t].listens
      /\ state.aborted = turn[t].aborted
  BY <1>1 DEF TurnState, BuildOrNone
<1> HIDE DEF observing, over
<1>4. UNCHANGED <<tools, build, sources, patch>>
  BY DEF StreamFinishes, StreamAborts
<1>5. t \in Subagents => ~state.aborted /\ ~state.listens
  BY <1>3 DEF IInv, SlotsAreTaken
<1>6. /\ tools' \in Shared /\ tools'.calls = Cardinality(Holders)'
      /\ tools'.pending => tools'.calls > 0
  <2>1. Cardinality(Holders)' = Cardinality(Holders)
    BY <1>1, <1>2, <1>3, SameHolders
  <2>2. tools \in Shared /\ tools.calls = Cardinality(Holders)
    BY Typed DEF IInv
  <2>3. QED BY <1>4, <2>1, <2>2 DEF IInv, PendingIsHeld
<1>7. CatalogsAreBuilt' /\ AllFresh'
  <2>1. KeptOrGone(tools, tools')
    BY <1>4 DEF KeptOrGone
  <2>2. QED BY <1>4, <2>1, KeptOrGoneStep
<1>8. build' \in [Builds -> BuildState]
  BY <1>4, Typed DEF IInv
<1>9. IInv'
  BY <1>2, <1>3, <1>4, <1>5, <1>6, <1>7, <1>8, TurnKeeps
<1>10. QED BY <1>4, <1>9

LEMMA TurnStartsStep ==
    ASSUME IInv, NEW t \in Turns, TurnStarts(t)
    PROVE  IInv' /\ tools'.connected = tools.connected
<1>1. PICK b \in Builds :
         /\ BuildBegins(b)
         /\ turn' = [turn EXCEPT ![t].at = "catalog", ![t].build = b,
                                 ![t].replaced = Replaced(b), ![t].slot = t \in Subagents]
         /\ tools' = Begun(IF t \in Subagents THEN SlotTaken(tools) ELSE tools, b)
  BY DEF TurnStarts
<1> DEFINE w == IF t \in Subagents THEN SlotTaken(tools) ELSE tools
           state == [turn[t] EXCEPT !.at = "catalog", !.build = b, !.replaced = Replaced(b),
                                    !.slot = t \in Subagents]
<1>2. /\ turn \in [Turns -> TurnState] /\ turn[t] \in TurnState
      /\ tools \in Shared /\ tools.calls = Cardinality(Holders) /\ tools.calls \in Nat
      /\ turn[t].at = "new" /\ ~turn[t].slot
      /\ UNCHANGED <<sources, patch>> /\ Replaced(b) \subseteq Servers
  BY Typed DEF IInv, TurnStarts, SlotsAreTaken, Shared, Replaced, PatchState
<1>3. turn' = [turn EXCEPT ![t] = state]
  BY <1>1, <1>2 DEF TurnState
<1>4. /\ state \in TurnState /\ state.at = "catalog" /\ (state.slot <=> t \in Subagents)
      /\ state.listens = turn[t].listens /\ state.aborted = turn[t].aborted
  <2>1. CASE t \in Subagents
    <3>1. state = [turn[t] EXCEPT !.at = "catalog", !.build = b,
                                    !.replaced = Replaced(b), !.slot = TRUE]
      BY <2>1
    <3>2. QED BY <1>2, <2>1, <3>1 DEF TurnState, BuildOrNone
  <2>2. CASE t \notin Subagents
    <3>1. (t \in Subagents) = FALSE
      BY <2>2
    <3>2. state = [turn[t] EXCEPT !.at = "catalog", !.build = b,
                                    !.replaced = Replaced(b), !.slot = FALSE]
      BY <3>1
    <3>3. QED BY <1>2, <2>2, <3>2 DEF TurnState, BuildOrNone
  <2>3. QED BY <2>1, <2>2
<1>5. /\ w \in Shared /\ w.calls = IF t \in Subagents THEN tools.calls + 1 ELSE tools.calls
      /\ w.catalog = tools.catalog /\ w.registry = tools.registry
      /\ w.inflight = tools.inflight /\ w.overtaken = tools.overtaken
      /\ w.pending = tools.pending /\ w.connected = tools.connected
  BY <1>2 DEF SlotTaken, Shared
<1>6. tools' = Begun(w, b)
  BY <1>1
<1> HIDE DEF w, state
<1>7. /\ tools' \in Shared /\ tools'.calls = w.calls /\ tools'.pending = w.pending
      /\ tools'.connected = w.connected
      /\ build' \in [Builds -> BuildState]
      /\ \A a \in Builds : Built(a) => Built(a)'
      /\ Built(tools.catalog)' /\ Built(tools.registry)'
      /\ AllFresh'
  BY <1>1, <1>2, <1>5, <1>6, BegunStep
<1>8. CatalogsAreBuilt'
  <2>1. patch.build \in BuildOrNone /\ patch' = patch
    BY <1>2, Typed DEF IInv, PatchState
  <2>2. QED BY <1>7, <2>1 DEF IInv, CatalogsAreBuilt, BuildOrNone
<1>9. tools'.calls = Cardinality(Holders)'
  <2>1. CASE t \in Subagents
    <3>1. turn'[t].slot /\ \A u \in Turns \ {t} : turn'[u].slot = turn[u].slot
      BY <1>2, <1>3, <1>4, <2>1
    <3>2. Cardinality(Holders)' = Cardinality(Holders) + 1
      BY <1>2, <3>1, HolderAdded
    <3>3. QED BY <1>2, <1>5, <1>7, <2>1, <3>2
  <2>2. CASE t \notin Subagents
    <3>1. state.slot = turn[t].slot
      BY <1>2, <1>4, <2>2 DEF TurnState
    <3>2. Cardinality(Holders)' = Cardinality(Holders)
      BY <1>2, <1>3, <3>1, SameHolders
    <3>3. QED BY <1>2, <1>5, <1>7, <2>2, <3>2
  <2>3. QED BY <2>1, <2>2
<1>10. tools'.pending => tools'.calls > 0
  BY <1>2, <1>5, <1>7 DEF IInv, PendingIsHeld
<1>11. t \in Subagents => ~state.aborted /\ ~state.listens
  BY <1>4 DEF IInv, SlotsAreTaken
<1>12. IInv'
  BY <1>2, <1>3, <1>4, <1>7, <1>8, <1>9, <1>10, <1>11, TurnKeeps
<1>13. QED BY <1>5, <1>7, <1>12

LEMMA StreamStartsStep ==
    ASSUME IInv, NEW t \in Turns, StreamStarts(t)
    PROVE  /\ IInv'
           /\ tools'.calls > 0 => tools'.connected = tools.connected
<1> DEFINE calling == [turn[t] EXCEPT !.at = "calling", !.slot = TRUE,
                                      !.listens = t \notin Subagents /\ ~turn[t].aborted]
           over == [turn[t] EXCEPT !.at = "over", !.build = Nobody, !.replaced = {},
                                   !.slot = FALSE, !.listens = FALSE]
           taken == SlotTaken(tools)
<1>1. /\ turn \in [Turns -> TurnState] /\ turn[t] \in TurnState
      /\ build \in [Builds -> BuildState]
      /\ tools \in Shared /\ tools.calls = Cardinality(Holders) /\ tools.calls \in Nat
      /\ turn[t].at = "catalog" /\ (turn[t].slot <=> t \in Subagents)
      /\ t \in Subagents => ~turn[t].aborted /\ ~turn[t].listens
      /\ UNCHANGED <<build, sources, patch>>
  BY Typed DEF IInv, StreamStarts, SlotsAreTaken, Shared
<1>2. /\ calling \in TurnState /\ calling.at = "calling" /\ calling.slot
      /\ calling.aborted = turn[t].aborted /\ (t \in Subagents => ~calling.listens)
  <2>1. CASE t \in Subagents
    <3>1. calling = [turn[t] EXCEPT !.at = "calling", !.slot = TRUE, !.listens = FALSE]
      BY <2>1
    <3>2. QED BY <1>1, <3>1 DEF TurnState
  <2>2. CASE t \notin Subagents
    <3>1. calling = [turn[t] EXCEPT !.at = "calling", !.slot = TRUE,
                                    !.listens = ~turn[t].aborted]
      BY <2>2
    <3>2. QED BY <1>1, <2>2, <3>1 DEF TurnState
  <2>3. QED BY <2>1, <2>2
<1>3. /\ over \in TurnState /\ over.at = "over" /\ ~over.slot /\ ~over.listens
      /\ over.aborted = turn[t].aborted
  BY <1>1 DEF TurnState, BuildOrNone
<1>4. /\ taken \in Shared /\ taken.calls = tools.calls + 1
      /\ taken.pending = tools.pending /\ taken.connected = tools.connected
      /\ KeptOrGone(tools, taken)
  BY <1>1 DEF SlotTaken, Shared, KeptOrGone
<1>5. \/ /\ turn' = [turn EXCEPT ![t] = calling]
         /\ tools' = IF t \notin Subagents THEN taken ELSE tools
      \/ /\ turn' = [turn EXCEPT ![t] = over]
         /\ tools' = SlotReleased(IF t \notin Subagents THEN taken ELSE tools)
  BY <1>1 DEF StreamStarts, Over, TurnState
<1>6. tools.pending => tools.calls > 0
  BY DEF IInv, PendingIsHeld
<1>7. t \in Subagents => SlotReleased(tools) = Released(t)
  BY <1>1 DEF Released
<1> HIDE DEF calling, over, taken
<1>8. CASE turn' = [turn EXCEPT ![t] = calling] /\ t \notin Subagents /\ tools' = taken
  <2>1. turn'[t].slot /\ \A u \in Turns \ {t} : turn'[u].slot = turn[u].slot
    BY <1>1, <1>2, <1>8
  <2>2. Cardinality(Holders)' = Cardinality(Holders) + 1
    BY <1>1, <1>8, <2>1, HolderAdded
  <2>3. CatalogsAreBuilt' /\ AllFresh'
    BY <1>1, <1>4, <1>8, KeptOrGoneStep
  <2>4. /\ tools' \in Shared /\ tools'.calls = Cardinality(Holders)' /\ tools'.calls > 0
        /\ build' \in [Builds -> BuildState]
    BY <1>1, <1>4, <1>8, <2>2
  <2>5. IInv'
    BY <1>1, <1>2, <1>8, <2>3, <2>4, TurnKeeps
  <2>6. QED BY <1>4, <1>8, <2>5
<1>9. CASE turn' = [turn EXCEPT ![t] = calling] /\ t \in Subagents /\ tools' = tools
  <2>1. calling.slot = turn[t].slot
    BY <1>1, <1>2, <1>9 DEF TurnState
  <2>2. Cardinality(Holders)' = Cardinality(Holders)
    BY <1>1, <1>9, <2>1, SameHolders
  <2>3. KeptOrGone(tools, tools')
    BY <1>9 DEF KeptOrGone
  <2>4. CatalogsAreBuilt' /\ AllFresh'
    BY <1>1, <2>3, KeptOrGoneStep
  <2>5. IInv'
    BY <1>1, <1>2, <1>6, <1>9, <2>2, <2>4, TurnKeeps
  <2>6. QED BY <1>9, <2>5
<1>10. CASE turn' = [turn EXCEPT ![t] = over] /\ t \notin Subagents
            /\ tools' = SlotReleased(taken)
  <2>1. /\ tools' \in Shared /\ tools'.calls = tools.calls
        /\ tools'.pending => tools'.calls > 0
        /\ tools'.calls > 0 => tools'.connected = tools.connected
        /\ KeptOrGone(taken, tools')
    BY <1>1, <1>4, <1>10, SlotReleasedEffect
  <2>2. KeptOrGone(tools, tools')
    BY <1>4, <2>1, <1>10 DEF KeptOrGone, SlotTaken, taken
  <2>3. over.slot = turn[t].slot
    BY <1>1, <1>3, <1>10 DEF TurnState
  <2>4. Cardinality(Holders)' = Cardinality(Holders)
    BY <1>1, <1>10, <2>3, SameHolders
  <2>5. CatalogsAreBuilt' /\ AllFresh'
    BY <1>1, <2>2, KeptOrGoneStep
  <2>6. IInv'
    BY <1>1, <1>3, <1>10, <2>1, <2>4, <2>5, TurnKeeps
  <2>7. QED BY <2>1, <2>6
<1>11. CASE turn' = [turn EXCEPT ![t] = over] /\ t \in Subagents
            /\ tools' = SlotReleased(tools)
  <2>1. /\ tools' \in Shared /\ tools'.calls = Cardinality(Holders)'
        /\ tools'.pending => tools'.calls > 0
        /\ tools'.calls > 0 => tools'.connected = tools.connected
        /\ CatalogsAreBuilt' /\ AllFresh'
    BY <1>1, <1>3, <1>7, <1>11, ReleaseStep
  <2>2. IInv'
    BY <1>1, <1>3, <1>11, <2>1, TurnKeeps
  <2>3. QED BY <2>1, <2>2
<1>12. QED BY <1>5, <1>8, <1>9, <1>10, <1>11

-----------------------------------------------------------------------------

LEMMA InvariantStep == IInv /\ [Next]_vars => IInv'
<1> SUFFICES ASSUME IInv, [Next]_vars PROVE IInv'
    OBVIOUS
<1>1. CASE UNCHANGED vars
  <2>1. UNCHANGED <<tools, build, turn, sources, patch>>
    BY <1>1 DEF vars
  <2>2. KeptOrGone(tools, tools')
    BY <2>1 DEF KeptOrGone
  <2>3. CatalogsAreBuilt' /\ AllFresh'
    BY <2>1, <2>2, KeptOrGoneStep
  <2>4. TypeOK'
    BY <2>1, SameHolders, Typed, TypedNext DEF IInv
  <2>5. QED BY <2>1, <2>3, <2>4 DEF IInv, PendingIsHeld, SlotsAreTaken
<1>2. ASSUME NEW b \in Builds, BuildStep(b) PROVE IInv'
  BY <1>2, BuildStepKeeps
<1>3. CASE Edit \/ WatcherFires \/ Invalidate
  BY <1>3, InvalidationStep
<1>4. CASE Refresh \/ ReconnectStarts
  BY <1>4, RefreshStep
<1>5. CASE Reregister \/ PatchCatalog
  BY <1>5, PatchStep
<1>6. CASE ReplaceClient
  BY <1>6, ReplaceClientStep
<1>7. ASSUME NEW t \in Turns, TurnStarts(t) PROVE IInv'
  BY <1>7, TurnStartsStep
<1>8. ASSUME NEW t \in Turns, Stop(t) PROVE IInv'
  BY <1>8, StopStep
<1>9. ASSUME NEW t \in Turns, NoCatalog(t) \/ SlotComesBack(t) PROVE IInv'
  BY <1>9, OverStep
<1>10. ASSUME NEW t \in Turns, StreamStarts(t) PROVE IInv'
  BY <1>10, StreamStartsStep
<1>11. ASSUME NEW t \in Turns, StreamFinishes(t) \/ StreamAborts(t) PROVE IInv'
  BY <1>11, SameSlotStep
<1>12. QED
  BY <1>1, <1>2, <1>3, <1>4, <1>5, <1>6, <1>7, <1>8, <1>9, <1>10, <1>11
     DEF Next, TurnStep, Reconnect

LEMMA CatalogInvariant == Spec => []IInv
BY InitInvariant, InvariantStep, PTL DEF Spec

\* Type correctness, and the counter of the slots (markToolCallInFlight and
\* markToolCallDone) counts exactly the turns that hold one.
THEOREM TypeCorrect == Spec => []TypeOK
<1>1. IInv => TypeOK
  BY DEF IInv
<1>2. QED BY <1>1, CatalogInvariant, PTL

\* No turn is given tools of older sources that neither the watcher nor a waiting
\* invalidation will replace (tools-loader.ts's builds, invalidations and reconnects).
THEOREM StaleCatalogsAreKnown == Spec => []StaleIsKnown
<1>1. IInv => StaleIsKnown
  BY DEF IInv, AllFresh, StaleIsKnown
<1>2. QED BY <1>1, CatalogInvariant, PTL

\* An invalidation that was put off waits for a turn that still holds a slot
\* (invalidateToolsCatalog and markToolCallDone).
THEOREM WaitingInvalidationsHaveHolders == Spec => []DeferredHasHolder
<1>1. ASSUME IInv, tools.pending
      PROVE  \E t \in Turns : turn[t].slot /\ (turn[t].at # "over" \/ turn[t].aborted)
  <2>1. Cardinality(Holders) > 0
    BY <1>1 DEF IInv, PendingIsHeld, TypeOK
  <2>2. Holders # {}
    BY <2>1, FS_EmptySet
  <2>3. PICK t \in Turns : turn[t].slot
    BY <2>2 DEF Holders
  <2>4. turn[t].at = "over" => turn[t].aborted
    BY <1>1, <2>3 DEF IInv, SlotsAreTaken
  <2>5. QED BY <2>3, <2>4
<1>2. IInv => DeferredHasHolder
  BY <1>1 DEF DeferredHasHolder
<1>3. QED BY <1>2, CatalogInvariant, PTL

KeepsServers ==
    \A t \in Turns, s \in Servers :
        AtWork(t) /\ AtWork(t)' /\ Serves(t, s)
        => \/ Serves(t, s)'
           \/ \E b \in Builds : ReplacedBy(b, t)
           \/ ReconnectedFor(t, s)

\* While a slot is held, no step but the end of a build disconnects a registry, and it
\* disconnects the one that it found.
LEMMA RegistriesStep ==
    ASSUME IInv, [Next]_vars
    PROVE  \/ tools'.connected = tools.connected
           \/ ~(tools'.calls > 0)
           \/ \E b \in Builds : /\ build[b].at = "loading" /\ build'[b].at = "disconnecting"
                               /\ tools.connected \ tools'.connected \subseteq {build[b].previous}
<1>1. tools \in Shared /\ build \in [Builds -> BuildState]
  BY Typed DEF IInv
<1>2. CASE UNCHANGED vars
  BY <1>2 DEF vars
<1>3. ASSUME NEW b \in Builds, BuildStep(b)
      PROVE  \/ tools'.connected = tools.connected
             \/ /\ build[b].at = "loading" /\ build'[b].at = "disconnecting"
                /\ tools.connected \ tools'.connected \subseteq {build[b].previous}
  <2>1. CASE Park(b)
    <3>1. build[b].at = "loading" /\ build'[b].at = "disconnecting"
      BY <1>1, <2>1 DEF Park, BuildState
    <3>2. PICK loaded \in BOOLEAN :
             tools'.connected = (tools.connected \cup (IF loaded THEN {b} ELSE {}))
                                  \ ({build[b].previous}
                                       \ {IF loaded THEN b ELSE tools.registry})
      BY <1>1, <2>1 DEF Park, Shared
    <3>3. QED BY <3>1, <3>2
  <2>2. CASE Capture(b) \/ BuildRejects(b) \/ BuildEnds(b)
    BY <1>1, <2>2 DEF Capture, BuildRejects, BuildEnds, Shared
  <2>3. QED BY <1>3, <2>1, <2>2 DEF BuildStep
<1>4. CASE Edit \/ WatcherFires \/ Invalidate
  <2>1. tools' = tools \/ tools' = Invalidated(tools)
    BY <1>4 DEF Edit, WatcherFires, Invalidate
  <2>2. tools.pending => tools.calls > 0
    BY DEF IInv, PendingIsHeld
  <2>3. QED BY <1>1, <2>1, <2>2, InvalidatedEffect
<1>5. CASE Refresh \/ Reconnect
  BY <1>1, <1>5
     DEF Refresh, Reconnect, ReconnectStarts, Reregister, ReplaceClient, PatchCatalog, Begun,
         Shared
<1>6. ASSUME NEW t \in Turns, TurnStarts(t) PROVE tools'.connected = tools.connected
  BY <1>6, TurnStartsStep
<1>7. ASSUME NEW t \in Turns, Stop(t)
      PROVE  tools'.calls > 0 => tools'.connected = tools.connected
  BY <1>7, StopStep
<1>8. ASSUME NEW t \in Turns, TurnStep(t)
      PROVE  tools'.calls > 0 => tools'.connected = tools.connected
  <2>1. CASE NoCatalog(t) \/ SlotComesBack(t)
    BY <2>1, OverStep
  <2>2. CASE StreamStarts(t)
    BY <2>2, StreamStartsStep
  <2>3. CASE StreamFinishes(t) \/ StreamAborts(t)
    BY <2>3, SameSlotStep
  <2>4. QED BY <1>8, <2>1, <2>2, <2>3 DEF TurnStep
<1>9. QED BY <1>2, <1>3, <1>4, <1>5, <1>6, <1>7, <1>8 DEF Next

\* A turn at work goes on with the clients it has; only a reconnect takes one from it.
LEMMA ClientsStep ==
    ASSUME IInv, [Next]_vars, NEW t \in Turns, AtWork(t), AtWork(t)'
    PROVE  /\ turn'[t].build = turn[t].build
           /\ \/ turn'[t].replaced = turn[t].replaced
              \/ /\ patch.at = "registering" /\ patch'.at = "replaced"
                 /\ patch.build = turn[t].build
                 /\ turn'[t].replaced = turn[t].replaced \cup patch.servers
<1>1. turn \in [Turns -> TurnState] /\ turn[t] \in TurnState /\ patch \in PatchState
  BY Typed DEF IInv
<1>2. turn[t].at \in {"calling", "observing"} /\ turn'[t].at \in {"calling", "observing"}
  BY DEF AtWork
<1>3. CASE ReplaceClient
  <2>1. patch.at = "registering" /\ patch'.at = "replaced"
    BY <1>1, <1>3 DEF ReplaceClient, PatchState
  <2>2. QED BY <1>3, <2>1, ReplaceClientStep
<1>4. CASE turn' = turn
  BY <1>4
<1>5. ASSUME NEW u \in Turns, TurnStarts(u) \/ Stop(u) \/ TurnStep(u)
      PROVE  turn'[t].build = turn[t].build /\ turn'[t].replaced = turn[t].replaced
  <2>1. CASE TurnStarts(u)
    BY <1>1, <1>2, <2>1 DEF TurnStarts, TurnState
  <2>2. CASE Stop(u)
    BY <1>1, <2>2 DEF Stop, TurnState
  <2>3. CASE NoCatalog(u) \/ SlotComesBack(u)
    <3>1. turn' = Over(u)
      BY <2>3 DEF NoCatalog, SlotComesBack
    <3>2. u # t
      BY <1>1, <1>2, <3>1 DEF Over, TurnState
    <3>3. QED BY <1>1, <3>1, <3>2 DEF Over
  <2>4. CASE StreamStarts(u)
    BY <1>1, <1>2, <2>4 DEF StreamStarts, Over, TurnState
  <2>5. CASE StreamFinishes(u)
    BY <1>1, <2>5 DEF StreamFinishes, TurnState
  <2>6. CASE StreamAborts(u)
    BY <1>1, <1>2, <2>6 DEF StreamAborts, TurnState
  <2>7. QED BY <1>5, <2>1, <2>2, <2>3, <2>4, <2>5, <2>6 DEF TurnStep
<1>6. ASSUME NEW b \in Builds, BuildStep(b) PROVE turn' = turn
  BY <1>6 DEF BuildStep, Capture, BuildRejects, Park, BuildEnds
<1>7. CASE Edit \/ WatcherFires \/ Invalidate \/ Refresh
  BY <1>4, <1>7 DEF Edit, WatcherFires, Invalidate, Refresh
<1>8. CASE ReconnectStarts \/ Reregister \/ PatchCatalog
  BY <1>4, <1>8 DEF ReconnectStarts, Reregister, PatchCatalog
<1>9. CASE UNCHANGED vars
  BY <1>4, <1>9 DEF vars
<1>10. QED BY <1>3, <1>4, <1>5, <1>6, <1>7, <1>8, <1>9 DEF Next, Reconnect

\* A turn that holds a slot is counted.
LEMMA HolderCountsNext ==
    ASSUME TypeOK', NEW t \in Turns, AtWork(t)'
    PROVE  tools'.calls > 0
<1>1. t \in Holders' /\ Holders' \subseteq Turns
  BY DEF Holders, AtWork
<1>2. IsFiniteSet(Holders') /\ Cardinality(Holders') \in Nat
  BY <1>1, FS_Subset, FS_CardinalityType
<1>3. tools'.calls = Cardinality(Holders') /\ Cardinality(Holders') # 0
  BY <1>1, <1>2, FS_EmptySet DEF TypeOK
<1>4. QED BY <1>2, <1>3

\* While a turn holds its slot, no file, page or end of another turn takes a server from
\* its calls (invalidateToolsCatalog, markToolCallDone); a build that replaces its
\* registry does, and a reconnect of that server, which spares the others.
THEOREM CallsKeepTheirServers == Spec => CallsKeepServers
<1>1. IInv /\ [Next]_vars => KeepsServers
  <2> SUFFICES ASSUME IInv, [Next]_vars,
                      NEW t \in Turns, NEW s \in Servers,
                      AtWork(t), AtWork(t)', Serves(t, s)
               PROVE  \/ Serves(t, s)'
                      \/ \E b \in Builds : ReplacedBy(b, t)
                      \/ ReconnectedFor(t, s)
      BY DEF KeepsServers
  <2>1. tools'.calls > 0
    BY InvariantStep, HolderCountsNext DEF IInv
  <2>2. turn'[t].build = turn[t].build
    BY ClientsStep
  <2>3. \/ turn[t].build \in tools'.connected
        \/ \E b \in Builds : ReplacedBy(b, t)
    BY <2>1, RegistriesStep DEF Serves, ReplacedBy
  <2>4. s \notin turn'[t].replaced \/ ReconnectedFor(t, s)
    BY ClientsStep DEF Serves, ReconnectedFor
  <2>5. QED BY <2>2, <2>3, <2>4 DEF Serves
<1>2. [KeepsServers]_vars => [
        \A t \in Turns, s \in Servers :
          AtWork(t) /\ AtWork(t)' /\ Serves(t, s)
          => \/ Serves(t, s)'
             \/ \E b \in Builds : ReplacedBy(b, t)
             \/ ReconnectedFor(t, s)
        ]_vars
  BY DEF KeepsServers
<1>3. QED BY <1>1, <1>2, CatalogInvariant, PTL DEF Spec, CallsKeepServers

=============================================================================
