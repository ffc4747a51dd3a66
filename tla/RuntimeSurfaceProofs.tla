------------------------ MODULE RuntimeSurfaceProofs ------------------------
(***************************************************************************)
(* Theorems about the reloaded capabilities at the REPL's turns, for any   *)
(* set of servers, any number of writes and requests and any contents of   *)
(* the file.                                                               *)
(***************************************************************************)
EXTENDS RuntimeSurface, TLAPS

USE BoundAssumption, ServersAssumption

-----------------------------------------------------------------------------
(* The reloads alone: module HotReload. *)

Call == [at : {"unclaimed", "loading", "read", "activating", "done"},
         base : Version, read : Version, asked : Version]

\* What a call's step does to the calls: it is its own, and it goes on.
LEMMA ContinueCall ==
    ASSUME TypeOK, NEW g \in Generation, Continue(g)
    PROVE  /\ call' = [call EXCEPT ![g] = call'[g]]
           /\ call'[g] \in Call
           /\ call[g].at # "unclaimed" /\ call'[g].at # "unclaimed"
           /\ call'[g].base = call[g].base
           /\ call'[g].read = IF Read(g) THEN disk ELSE call[g].read
<1> USE DEF TypeOK, Call
<1>1. call[g] \in Call
  OBVIOUS
<1>2. ASSUME NEW at \in {"done", "activating"}, call[g].at # "unclaimed", ~Read(g),
             call' = [call EXCEPT ![g].at = at]
      PROVE  /\ call' = [call EXCEPT ![g] = call'[g]]
             /\ call'[g] \in Call
             /\ call'[g].at # "unclaimed"
             /\ call'[g].base = call[g].base /\ call'[g].read = call[g].read
  <2>1. call'[g] = [call[g] EXCEPT !.at = at]
    BY <1>2
  <2>2. QED BY <1>1, <1>2, <2>1
<1>3. CASE Read(g)
  <2>1. call'[g] = [call[g] EXCEPT !.at = "read", !.read = disk]
    BY <1>3 DEF Read
  <2>2. call' = [call EXCEPT ![g] = call'[g]]
    BY <1>3, <2>1 DEF Read
  <2>3. QED BY <1>1, <1>3, <2>1, <2>2 DEF Read
<1>4. CASE GiveWay(g) \/ Fail(g) \/ Commit(g) \/ FinishActivation(g)
  BY <1>1, <1>2, <1>4 DEF GiveWay, Fail, Commit, FinishActivation, Resolved, Read
<1>5. QED BY <1>3, <1>4 DEF Continue

\* The bound on generations never stands in the way of a claim.
LEMMA GenerationBound ==
    ASSUME TypeOK, ClaimsAreCounted, timer \/ requests < MaxRequests
    PROVE  generation + 1 \in Generation
BY DEF TypeOK, ClaimsAreCounted, Generation, Version

LEMMA InitInvariant == Init => IInv
<1> SUFFICES ASSUME Init PROVE IInv
    OBVIOUS
<1> USE DEF Init, Generation, Version, Unclaimed, Bootstrap
<1>1. TypeOK
  <2>1. call \in [Generation -> Call]
    BY DEF Call
  <2>2. disk \in Version /\ loaded \in Version /\ requests \in 0 .. MaxRequests
    OBVIOUS
  <2>3. generation \in Generation /\ lastSuccess \in Generation
    OBVIOUS
  <2>4. lastFailure \in Generation \cup {0} /\ timer \in BOOLEAN
    OBVIOUS
  <2>5. QED BY <2>1, <2>2, <2>3, <2>4 DEF TypeOK, Call
<1>2. ClaimsAreCounted /\ ClaimedInOrder
  BY DEF ClaimsAreCounted, ClaimedInOrder
<1>3. ReadsAreNewer /\ NewestDecides /\ BaseIsStillRunning
  BY DEF ReadsAreNewer, NewestDecides, BaseIsStillRunning, Pending
<1>4. QED BY <1>1, <1>2, <1>3 DEF IInv

\* A claim, whoever asks for it, makes the newest call one that is still to read.
LEMMA ClaimStep ==
    ASSUME IInv, Request \/ TimerFires
    PROVE  IInv'
<1>1. /\ generation' = generation + 1 /\ generation' \in Generation
      /\ generation \in Generation
  BY GenerationBound DEF IInv, TypeOK, Request, TimerFires, Claim
<1>2. /\ UNCHANGED <<disk, loaded, lastSuccess, lastFailure, reconnect>>
      /\ \/ requests' = requests + 1 /\ requests < MaxRequests /\ timer' = timer
         \/ requests' = requests /\ timer = TRUE /\ timer' = FALSE
  BY DEF IInv, TypeOK, Request, TimerFires, Claim
<1>3. /\ call' = [call EXCEPT ![generation'] = call'[generation']]
      /\ call'[generation'] = [at |-> "loading", base |-> loaded, read |-> 0, asked |-> disk]
  BY <1>1 DEF IInv, TypeOK, Request, TimerFires, Claim
<1>4. /\ disk \in Nat /\ requests \in Nat /\ generation \in Nat
      /\ disk \in Version /\ loaded \in Version /\ 0 \in Version
      /\ requests' \in 0 .. MaxRequests
      /\ call \in [Generation -> Call]
  BY <1>2 DEF IInv, TypeOK, Version, Generation, Call
<1>5. TypeOK'
  <2>1. call'[generation'] \in Call
    BY <1>3, <1>4 DEF Call
  <2>2. call' \in [Generation -> Call]
    BY <1>1, <1>3, <1>4, <2>1
  <2>3. timer' \in BOOLEAN
    BY <1>2 DEF IInv, TypeOK
  <2>4. QED BY <1>1, <1>2, <1>4, <2>2, <2>3 DEF IInv, TypeOK, Call
<1>6. ClaimsAreCounted'
  <2>1. /\ generation <= 1 + requests + disk
        /\ timer = TRUE => generation <= requests + disk
    BY DEF IInv, ClaimsAreCounted
  <2>2. disk' = disk /\ generation' = generation + 1
    BY <1>1, <1>2
  <2>3. disk \in Nat /\ requests \in Nat /\ generation \in Nat
    BY <1>4
  <2>4. CASE requests' = requests + 1 /\ timer' = timer
    BY <2>1, <2>2, <2>3, <2>4 DEF ClaimsAreCounted
  <2>5. CASE requests' = requests /\ timer = TRUE /\ timer' = FALSE
    BY <2>1, <2>2, <2>3, <2>5 DEF ClaimsAreCounted
  <2>6. QED BY <1>2, <2>4, <2>5
<1>7. ClaimedInOrder'
  BY <1>1, <1>3, <1>4 DEF IInv, ClaimedInOrder, Generation
<1>8. ReadsAreNewer' /\ NewestDecides' /\ BaseIsStillRunning'
  BY <1>2, <1>3 DEF IInv, ReadsAreNewer, NewestDecides, BaseIsStillRunning, Pending
<1>9. QED BY <1>5, <1>6, <1>7, <1>8 DEF IInv

\* What a call's step does to the rest of the state: only the newest call commits or
\* records a failure.
LEMMA ContinueEffect ==
    ASSUME TypeOK, NEW g \in Generation, Continue(g)
    PROVE  /\ UNCHANGED <<disk, requests, generation>>
           /\ timer' \in {timer, FALSE}
           /\ \/ /\ Read(g) /\ call[g].at = "loading" /\ call'[g].at = "read"
                 /\ UNCHANGED <<loaded, lastSuccess, lastFailure, reconnect>>
              \/ /\ GiveWay(g) /\ g # generation
                 /\ UNCHANGED <<loaded, lastSuccess, lastFailure, reconnect>>
              \/ /\ Fail(g) /\ g = generation /\ lastFailure' = g /\ call'[g].at = "done"
                 /\ UNCHANGED <<loaded, lastSuccess, reconnect>>
              \/ /\ Commit(g) /\ g = generation /\ lastSuccess' = g
                 /\ call[g].at = "read" /\ loaded' = call[g].read
                 /\ call'[g].at = "activating" /\ lastFailure' = lastFailure
                 /\ reconnect' \in {"unchanged", "pending_repl_apply"}
              \/ /\ FinishActivation(g) /\ call[g].at = "activating" /\ call'[g].at = "done"
                 /\ UNCHANGED <<loaded, lastSuccess, lastFailure, reconnect>>
BY DEF TypeOK, Continue, Read, GiveWay, Fail, Commit, FinishActivation, Resolved, Current

LEMMA ContinueStep ==
    ASSUME IInv, NEW g \in Generation, Continue(g)
    PROVE  IInv'
<1>1. generation' = generation /\ generation \in Generation /\ g <= generation
  <2>1. generation' = generation /\ generation \in Generation /\ call[g].at # "unclaimed"
    BY ContinueEffect, ContinueCall DEF IInv, TypeOK
  <2>2. ~(g > generation)
    BY <2>1 DEF IInv, ClaimedInOrder, Unclaimed
  <2>3. QED BY <2>1, <2>2 DEF Generation
<1>2. /\ call \in [Generation -> Call]
      /\ call' = [call EXCEPT ![g] = call'[g]] /\ call'[g] \in Call
      /\ call'[g].base = call[g].base
      /\ call'[g].read = IF Read(g) THEN disk ELSE call[g].read
  BY ContinueCall DEF IInv, TypeOK, Call
<1>3. disk \in Nat /\ loaded \in Nat /\ call[generation] \in Call /\ disk \in Version
  BY <1>1, <1>2 DEF IInv, TypeOK, Version
<1>4. TypeOK'
  <2>1. call' \in [Generation -> Call]
    BY <1>2
  <2>2. loaded' \in Version /\ lastSuccess' \in Generation
    BY <1>1, <1>2, ContinueEffect DEF IInv, TypeOK, Call
  <2>3. lastFailure' \in Generation \cup {0} /\ timer' \in BOOLEAN
    BY ContinueEffect DEF IInv, TypeOK
  <2>4. reconnect' \in {"not_requested", "unchanged", "pending_repl_apply",
                        "applied_at_repl_turn_boundary"}
    BY ContinueEffect DEF IInv, TypeOK
  <2>5. QED BY <1>1, <2>1, <2>2, <2>3, <2>4, ContinueEffect DEF IInv, TypeOK, Call
<1>5. ClaimsAreCounted'
  <2>1. UNCHANGED <<disk, requests, generation>> /\ (timer' = timer \/ timer' = FALSE)
    BY ContinueEffect DEF IInv
  <2>2. timer' => timer
    BY <2>1, Zenon
  <2>3. QED BY <2>1, <2>2, Zenon DEF IInv, ClaimsAreCounted
<1>6. ClaimedInOrder'
  BY <1>1, <1>2 DEF IInv, ClaimedInOrder, Generation
<1>7. ReadsAreNewer' /\ NewestDecides' /\ BaseIsStillRunning'
  <2>1. CASE g = generation
    <3> USE DEF IInv, ReadsAreNewer, NewestDecides, BaseIsStillRunning, Pending
    <3>1. CASE Read(g)
      <4>1. /\ call[g].at = "loading" /\ call'[g].at = "read" /\ call'[g].read = disk
            /\ UNCHANGED <<disk, loaded, lastSuccess, lastFailure>>
        <5>1. /\ call[g].at = "loading"
              /\ call' = [call EXCEPT ![g].at = "read", ![g].read = disk]
              /\ UNCHANGED <<disk, loaded, lastSuccess, lastFailure>>
          BY <3>1 DEF Read
        <5>2. call[g] \in Call
          BY <1>2
        <5>3. call'[g] = [call[g] EXCEPT !.at = "read", !.read = disk]
          BY <1>2, <5>1
        <5>4. QED BY <5>1, <5>2, <5>3 DEF Call
      <4>2. QED BY <1>1, <1>2, <1>3, <2>1, <4>1
    <3>2. CASE FinishActivation(g)
      <4>1. /\ call[g].at = "activating" /\ call'[g].at = "done"
            /\ UNCHANGED <<disk, loaded, lastSuccess, lastFailure>>
        BY <3>2 DEF FinishActivation, TypeOK
      <4>2. QED BY <1>1, <1>2, <1>3, <2>1, <4>1
    <3>3. CASE Fail(g)
      <4>1. /\ call'[g].at = "done" /\ lastFailure' = g
            /\ UNCHANGED <<disk, loaded, lastSuccess>>
        BY <3>3 DEF Fail, Resolved, TypeOK
      <4>2. QED BY <1>1, <1>2, <1>3, <2>1, <4>1
    <3>4. CASE Commit(g)
      <4>1. /\ call[g].at = "read" /\ call'[g].at = "activating" /\ lastSuccess' = g
            /\ loaded' = call[g].read /\ UNCHANGED disk
        BY <3>4 DEF Commit, Resolved, TypeOK
      <4>2. QED BY <1>1, <1>2, <1>3, <2>1, <4>1
    <3>5. QED BY <2>1, <3>1, <3>2, <3>3, <3>4 DEF Continue, GiveWay, Current
  <2>2. CASE g # generation
    BY <1>1, <1>2, <1>3, <2>2, ContinueEffect
       DEF IInv, ReadsAreNewer, NewestDecides, BaseIsStillRunning, Pending
  <2>3. QED BY <2>1, <2>2
<1>8. QED BY <1>4, <1>5, <1>6, <1>7 DEF IInv

LEMMA InvariantStep == IInv /\ [Next]_vars => IInv'
<1> SUFFICES ASSUME IInv, [Next]_vars PROVE IInv'
    OBVIOUS
<1>1. CASE WriteConfig
  BY <1>1 DEF WriteConfig, IInv, TypeOK, ClaimsAreCounted, ClaimedInOrder, ReadsAreNewer,
              NewestDecides, BaseIsStillRunning, Pending, Version, Generation
<1>2. CASE Request
  BY <1>2, ClaimStep
<1>3. CASE TimerFires
  BY <1>3, ClaimStep
<1>4. ASSUME NEW g \in Generation, Continue(g) PROVE IInv'
  BY <1>4, ContinueStep
<1>5. CASE UNCHANGED vars
  BY <1>5 DEF vars, IInv, TypeOK, ClaimsAreCounted, ClaimedInOrder, ReadsAreNewer,
              NewestDecides, BaseIsStillRunning, Pending
<1>6. QED BY <1>1, <1>2, <1>3, <1>4, <1>5 DEF Next

\* Only the newest call commits, and what it read is no older than what runs.
LEMMA ForwardStep == IInv /\ [Next]_vars => loaded' >= loaded
<1> SUFFICES ASSUME IInv, [Next]_vars PROVE loaded' >= loaded
    OBVIOUS
<1> USE DEF IInv, TypeOK, Version
<1>1. ASSUME NEW g \in Generation, Commit(g) PROVE loaded' >= loaded
  BY <1>1 DEF Commit, Current, Resolved, ReadsAreNewer
<1>2. ASSUME ~ \E g \in Generation : Commit(g) PROVE loaded' = loaded
  BY <1>2 DEF Next, WriteConfig, Request, TimerFires, Claim, Continue, Read, GiveWay, Fail,
              FinishActivation, vars
<1>3. QED BY <1>1, <1>2

LEMMA ReloadInvariant == Spec => []IInv
BY InitInvariant, InvariantStep, PTL DEF Spec

-----------------------------------------------------------------------------
(* The surface. *)

SystemNext == Reloads \/ SurfaceNext

LEMMA SurfaceInitInvariant == SystemInit => SurfaceInv
<1> SUFFICES ASSUME Init, SurfaceInit PROVE SurfaceInv
    BY DEF SystemInit
<1>1. IInv
  BY InitInvariant
<1>2. TypeOK /\ call[lastSuccess] = Bootstrap /\ loaded = 0 /\ 0 \in Version
  BY <1>1 DEF IInv, Init, TypeOK, Generation
<1>3. SurfaceTypeOK
  BY <1>2 DEF SurfaceTypeOK, SurfaceInit, NotThere, NoConnection, SurfaceKey
<1>4. SuccessIsLoaded
  BY <1>2 DEF SuccessIsLoaded, Committed, Bootstrap
<1>5. /\ KeysNameVersions /\ SignaturesOfSurface /\ SyncedIsApplied
      /\ RegisteredAreNamed /\ TurnIsCurrent
  BY DEF SurfaceInit, KeysNameVersions, NamesVersion, SignaturesOfSurface, SyncedIsApplied,
         RegisteredAreNamed, TurnIsCurrent, NotThere, NoConnection
<1>6. QED BY <1>1, <1>3, <1>4, <1>5 DEF SurfaceInv

-----------------------------------------------------------------------------
(* A reload beside the REPL. *)

\* A call that has committed is never rewritten.
LEMMA CommittedStays ==
    ASSUME IInv, Next, NEW h \in Generation, Committed(h)
    PROVE  Committed(h)' /\ call'[h].read = call[h].read
<1> USE DEF Committed
<1>1. CASE WriteConfig
  BY <1>1 DEF WriteConfig
<1>2. CASE Request \/ TimerFires
  <2>1. h # generation + 1
    BY DEF IInv, ClaimedInOrder, Unclaimed, TypeOK, Generation
  <2>2. generation' = generation + 1 /\ generation' \in Generation
    BY <1>2, GenerationBound DEF IInv, TypeOK, Request, TimerFires, Claim
  <2>3. call'[h] = call[h]
    BY <1>2, <2>1, <2>2 DEF IInv, TypeOK, Request, TimerFires, Claim
  <2>4. QED BY <2>3
<1>3. ASSUME NEW g \in Generation, Continue(g) PROVE Committed(h)' /\ call'[h].read = call[h].read
  <2>1. CASE h # g
    BY <1>3, <2>1, ContinueCall DEF IInv, TypeOK
  <2>2. CASE h = g
    <3>1. FinishActivation(g)
      BY <1>3, <2>2 DEF Continue, Read, GiveWay, Fail, Commit, Resolved
    <3>2. ~Read(g)
      BY <2>2 DEF Read
    <3>3. call'[g].at = "done"
      BY <3>1 DEF FinishActivation, IInv, TypeOK
    <3>4. QED BY <1>3, <2>2, <3>2, <3>3, ContinueCall DEF IInv
  <2>3. QED BY <2>1, <2>2
<1>4. QED BY <1>1, <1>2, <1>3 DEF Next

\* Either a call commits, which no key names yet, or what runs stays.
LEMMA CommitOrNot ==
    ASSUME IInv, Next
    PROVE  \/ UNCHANGED <<loaded, lastSuccess, reconnect>>
           \/ \E g \in Generation :
                 /\ ~Committed(g) /\ Committed(g)'
                 /\ lastSuccess' = g /\ loaded' = call[g].read
                 /\ call'[g].read = call[g].read
<1>1. CASE WriteConfig \/ Request \/ TimerFires
  BY <1>1 DEF WriteConfig, Request, TimerFires, Claim
<1>2. ASSUME NEW g \in Generation, Commit(g)
      PROVE  /\ ~Committed(g) /\ Committed(g)'
             /\ lastSuccess' = g /\ loaded' = call[g].read
             /\ call'[g].read = call[g].read
  <2>1. call[g].at = "read" /\ call'[g].at = "activating"
    BY <1>2 DEF Commit, Resolved, IInv, TypeOK
  <2>2. call'[g].read = call[g].read
    BY <1>2, <2>1, ContinueCall DEF IInv, Continue, Read
  <2>3. QED BY <1>2, <2>1, <2>2 DEF Commit, Committed
<1>3. ASSUME NEW g \in Generation, Read(g) \/ GiveWay(g) \/ Fail(g) \/ FinishActivation(g)
      PROVE  UNCHANGED <<loaded, lastSuccess, reconnect>>
  BY <1>3 DEF Read, GiveWay, Fail, FinishActivation
<1>4. QED BY <1>1, <1>2, <1>3 DEF Next, Continue

LEMMA ReloadsStep == SurfaceInv /\ Reloads => SurfaceInv'
<1> SUFFICES ASSUME SurfaceInv, Reloads PROVE SurfaceInv'
    OBVIOUS
<1>1. IInv /\ IInv' /\ Next /\ UNCHANGED <<repl, surface, signature, registry>>
  BY InvariantStep DEF SurfaceInv, Reloads, surfaceVars
<1>2. lastSuccess \in Generation
  BY <1>1 DEF IInv, TypeOK
<1>3. SurfaceTypeOK'
  BY <1>1 DEF SurfaceInv, SurfaceTypeOK, IInv, SurfaceKey
<1>4. SuccessIsLoaded'
  <2>1. CASE UNCHANGED <<loaded, lastSuccess, reconnect>>
    BY <1>1, <1>2, <2>1, CommittedStays DEF SurfaceInv, SuccessIsLoaded, Committed
  <2>2. QED BY <1>1, <2>1, CommitOrNot DEF SuccessIsLoaded, Committed
<1>5. KeysNameVersions'
  <2>1. ASSUME NEW key, NEW version, NamesVersion(key, version), key # NoKey
        PROVE  /\ key[2] \in Generation /\ Committed(key[2])'
               /\ call'[key[2]].read = version
    BY <1>1, <2>1, CommittedStays DEF NamesVersion
  <2>2. QED
    BY <1>1, <2>1 DEF SurfaceInv, KeysNameVersions, NamesVersion, Committed
<1>6. SignaturesOfSurface' /\ RegisteredAreNamed' /\ TurnIsCurrent'
  BY <1>1 DEF SurfaceInv, SignaturesOfSurface, RegisteredAreNamed, TurnIsCurrent, Configured
<1>7. SyncedIsApplied'
  <2>1. CASE UNCHANGED <<loaded, lastSuccess, reconnect>>
    BY <1>1, <2>1 DEF SurfaceInv, SyncedIsApplied
  <2>2. ASSUME NEW g \in Generation, ~Committed(g), lastSuccess' = g
        PROVE  SyncedIsApplied'
    BY <1>1, <2>2 DEF SurfaceInv, SyncedIsApplied, KeysNameVersions, NamesVersion
  <2>3. QED BY <1>1, <2>1, <2>2, CommitOrNot
<1>8. QED BY <1>1, <1>3, <1>4, <1>5, <1>6, <1>7 DEF SurfaceInv

-----------------------------------------------------------------------------
(* The REPL's own steps. *)

\* They leave the reloads alone, but for what the status says of the servers.
LEMMA ReloadsUntouched ==
    ASSUME IInv,
           UNCHANGED <<disk, requests, generation, call, loaded, lastSuccess, lastFailure,
                       timer>>,
           reconnect' \in {reconnect, "applied_at_repl_turn_boundary"}
    PROVE  IInv'
BY DEF IInv, TypeOK, ClaimsAreCounted, ClaimedInOrder, ReadsAreNewer, NewestDecides,
       BaseIsStillRunning, Pending

LEMMA KeyOfRuntime ==
    ASSUME SurfaceInv
    PROVE  /\ RuntimeSurfaceKey # NoKey
           /\ RuntimeSurfaceKey[2] = lastSuccess
           /\ NamesVersion(RuntimeSurfaceKey, loaded)
           /\ RuntimeSurfaceKey \in SurfaceKey
<1>1. /\ generation \in Generation /\ lastSuccess \in Generation
      /\ ServersOf[loaded] \in [Servers -> Nat]
  BY DEF SurfaceInv, IInv, TypeOK, Version
<1>2. RuntimeSurfaceKey \in SurfaceKey /\ RuntimeSurfaceKey # NoKey
  BY <1>1 DEF RuntimeSurfaceKey, SurfaceKey, NoKey
<1>3. RuntimeSurfaceKey[2] = lastSuccess
  BY DEF RuntimeSurfaceKey
<1>4. QED
  BY <1>1, <1>2, <1>3 DEF NamesVersion, SurfaceInv, SuccessIsLoaded

\* The early return: the surface is the runtime's.
LEMMA KeyDecides ==
    ASSUME SurfaceInv, surface.key = RuntimeSurfaceKey
    PROVE  surface.version = loaded
BY KeyOfRuntime DEF SurfaceInv, KeysNameVersions, NamesVersion

LEMMA TurnBeginsStep == SurfaceInv /\ TurnBegins => SurfaceInv'
<1> SUFFICES ASSUME SurfaceInv, TurnBegins PROVE SurfaceInv'
    OBVIOUS
<1>1. UNCHANGED <<vars, surface, signature, registry>>
  BY DEF TurnBegins
<1>2. IInv' /\ SuccessIsLoaded' /\ SignaturesOfSurface' /\ SyncedIsApplied'
  <2>1. IInv'
    BY <1>1, ReloadsUntouched DEF SurfaceInv, vars
  <2>2. QED
    BY <1>1, <2>1 DEF SurfaceInv, vars, SuccessIsLoaded, Committed, SignaturesOfSurface,
                      SyncedIsApplied
<1>3. loaded \in Version
  BY DEF SurfaceInv, IInv, TypeOK
<1>4. CASE surface.key = RuntimeSurfaceKey
  <2>1. repl' = [repl EXCEPT !.at = "turn", !.version = loaded, !.down = Down]
    BY <1>4 DEF TurnBegins
  <2>2. SurfaceTypeOK'
    BY <1>1, <1>2, <1>3, <2>1 DEF SurfaceInv, SurfaceTypeOK, IInv, Down, Configured, SurfaceKey, vars
  <2>3. repl'.at = "turn" /\ repl'.version = loaded /\ repl.at # "syncing"
    BY <2>1 DEF TurnBegins, SurfaceInv, SurfaceTypeOK
  <2>4. KeysNameVersions' /\ TurnIsCurrent'
    BY <1>1, <1>4, <2>3, KeyOfRuntime, KeyDecides
       DEF SurfaceInv, vars, KeysNameVersions, NamesVersion, Committed, TurnIsCurrent
  <2>5. RegisteredAreNamed'
    BY <1>1, <2>3 DEF SurfaceInv, RegisteredAreNamed
  <2>6. QED BY <1>2, <2>2, <2>4, <2>5 DEF SurfaceInv
<1>5. CASE surface.key # RuntimeSurfaceKey
  <2>1. repl' = [at |-> "syncing", key |-> RuntimeSurfaceKey, version |-> loaded,
                 todo |-> Changed \cup Down, down |-> Down]
    BY <1>5 DEF TurnBegins
  <2>2. SurfaceTypeOK'
    BY <1>1, <1>2, <1>3, <2>1, KeyOfRuntime
       DEF SurfaceInv, SurfaceTypeOK, IInv, Changed, Down, Configured, SurfaceKey, vars
  <2>3. KeysNameVersions' /\ TurnIsCurrent'
    BY <1>1, <2>1, KeyOfRuntime
       DEF SurfaceInv, vars, KeysNameVersions, NamesVersion, Committed, TurnIsCurrent
  <2>4. RegisteredAreNamed'
    <3>1. repl.at # "syncing"
      BY DEF TurnBegins
    <3>2. ASSUME NEW s \in Servers, registry[s].signature # NotThere
          PROVE  s \in Configured(loaded) \cup Changed
      BY <3>1, <3>2 DEF SurfaceInv, RegisteredAreNamed, Configured, Changed
    <3>3. QED BY <1>1, <2>1, <3>2 DEF RegisteredAreNamed, Configured
  <2>5. QED BY <1>2, <2>2, <2>3, <2>4 DEF SurfaceInv
<1>6. QED BY <1>4, <1>5

LEMMA ServerStep ==
    ASSUME SurfaceInv, NEW s \in Servers, Register(s) \/ Unregister(s) \/ Disconnect(s)
    PROVE  SurfaceInv'
<1>1. UNCHANGED <<vars, surface, signature>>
  BY DEF Register, Unregister, Disconnect, Did
<1>2. IInv' /\ SuccessIsLoaded' /\ SignaturesOfSurface' /\ SyncedIsApplied'
  <2>1. IInv'
    BY <1>1, ReloadsUntouched DEF SurfaceInv, vars
  <2>2. QED
    BY <1>1, <2>1 DEF SurfaceInv, vars, SuccessIsLoaded, Committed, SignaturesOfSurface,
                      SyncedIsApplied
<1>3. /\ repl'.at = repl.at /\ repl'.key = repl.key /\ repl'.version = repl.version
      /\ repl'.todo \subseteq Servers /\ repl'.down \subseteq Servers
  BY DEF Register, Unregister, Disconnect, Did, SurfaceInv, SurfaceTypeOK
<1>4. KeysNameVersions' /\ TurnIsCurrent'
  BY <1>1, <1>3 DEF SurfaceInv, vars, KeysNameVersions, NamesVersion, Committed, TurnIsCurrent
<1>5. registry' \in [Servers -> [signature : Nat, up : BOOLEAN]]
  <2>1. CASE Register(s)
    <3>1. ServersOf[repl.version][s] \in Nat
      BY DEF SurfaceInv, SurfaceTypeOK, Version
    <3>2. QED BY <2>1, <3>1 DEF Register, SurfaceInv, SurfaceTypeOK
  <2>2. CASE Unregister(s)
    BY <2>2 DEF Unregister, NoConnection, NotThere, SurfaceInv, SurfaceTypeOK
  <2>3. CASE Disconnect(s)
    BY <2>3 DEF Disconnect, SurfaceInv, SurfaceTypeOK
  <2>4. QED BY <2>1, <2>2, <2>3
<1>6. SurfaceTypeOK'
  BY <1>1, <1>2, <1>3, <1>5 DEF SurfaceInv, SurfaceTypeOK, IInv, SurfaceKey, Register, Unregister, Disconnect, Did
<1>7. RegisteredAreNamed'
  <2>1. CASE Register(s)
    BY <1>1, <1>3, <2>1
       DEF Register, Did, SurfaceInv, SurfaceTypeOK, RegisteredAreNamed, Configured, vars
  <2>2. CASE Unregister(s)
    BY <1>1, <1>3, <2>2
       DEF Unregister, Did, SurfaceInv, SurfaceTypeOK, RegisteredAreNamed, Configured, NoConnection,
           vars
  <2>3. CASE Disconnect(s)
    BY <1>1, <1>3, <2>3
       DEF Disconnect, SurfaceInv, SurfaceTypeOK, RegisteredAreNamed, Configured, vars
  <2>4. QED BY <2>1, <2>2, <2>3
<1>8. QED BY <1>2, <1>4, <1>6, <1>7 DEF SurfaceInv

LEMMA SyncEndsStep == SurfaceInv /\ SyncEnds => SurfaceInv'
<1> SUFFICES ASSUME SurfaceInv, SyncEnds PROVE SurfaceInv'
    OBVIOUS
<1>1. /\ repl.at = "syncing" /\ repl.todo = {} /\ repl' = [repl EXCEPT !.at = "turn"]
      /\ signature' = ServersOf[repl.version]
      /\ surface' = [key |-> repl.key, version |-> repl.version]
      /\ registry' = registry /\ call' = call
      /\ loaded' = loaded /\ lastSuccess' = lastSuccess
  BY DEF SyncEnds
<1>2. reconnect' # "pending_repl_apply"
  BY DEF SyncEnds
<1>3. IInv'
  BY ReloadsUntouched DEF SyncEnds, SurfaceInv
<1>4. /\ repl'.at = "turn" /\ repl'.version = repl.version /\ repl'.key = repl.key
      /\ repl'.todo = {} /\ repl'.down = repl.down /\ repl.version \in Version
  BY <1>1 DEF SurfaceInv, SurfaceTypeOK
<1>5. SurfaceTypeOK'
  <2>1. signature' \in [Servers -> Nat]
    BY <1>1, <1>4 DEF Version
  <2>2. QED BY <1>1, <1>3, <1>4, <2>1 DEF SurfaceInv, SurfaceTypeOK, IInv, SurfaceKey
<1>6. SuccessIsLoaded' /\ KeysNameVersions'
  BY <1>1, <1>4 DEF SurfaceInv, SuccessIsLoaded, KeysNameVersions, NamesVersion, Committed
<1>7. SignaturesOfSurface' /\ SyncedIsApplied' /\ TurnIsCurrent'
  BY <1>1, <1>2, <1>4
     DEF SurfaceInv, KeysNameVersions, SignaturesOfSurface, SyncedIsApplied, TurnIsCurrent
<1>8. RegisteredAreNamed'
  BY <1>1, <1>4 DEF SurfaceInv, RegisteredAreNamed, Configured
<1>9. QED BY <1>3, <1>5, <1>6, <1>7, <1>8 DEF SurfaceInv

LEMMA TurnEndsStep == SurfaceInv /\ TurnEnds => SurfaceInv'
<1> SUFFICES ASSUME SurfaceInv, TurnEnds PROVE SurfaceInv'
    OBVIOUS
<1>1. UNCHANGED <<vars, surface, signature, registry>> /\ repl.at = "turn"
  BY DEF TurnEnds
<1>2. IInv'
  BY <1>1, ReloadsUntouched DEF SurfaceInv, vars
<1>3. /\ repl'.at = "prompt" /\ repl'.version = repl.version
      /\ repl'.todo = repl.todo /\ repl'.down = {}
  BY DEF TurnEnds, SurfaceInv, SurfaceTypeOK
<1>4. QED
  BY <1>1, <1>2, <1>3
     DEF TurnEnds, SurfaceKey, SurfaceInv, vars, SurfaceTypeOK, IInv, SuccessIsLoaded, KeysNameVersions, NamesVersion,
         Committed, SignaturesOfSurface, SyncedIsApplied, RegisteredAreNamed, TurnIsCurrent

LEMMA SystemStep == SurfaceInv /\ [SystemNext]_allVars => SurfaceInv'
<1> SUFFICES ASSUME SurfaceInv, [SystemNext]_allVars PROVE SurfaceInv'
    OBVIOUS
<1>1. CASE UNCHANGED allVars
  <2>1. IInv'
    BY <1>1, ReloadsUntouched DEF SurfaceInv, allVars, vars
  <2>2. QED
    BY <1>1, <2>1
       DEF allVars, SurfaceKey, surfaceVars, SurfaceInv, vars, SurfaceTypeOK, IInv, SuccessIsLoaded,
           KeysNameVersions, NamesVersion, Committed, SignaturesOfSurface, SyncedIsApplied,
           RegisteredAreNamed, TurnIsCurrent, Configured
<1>2. QED
  BY <1>1, ReloadsStep, TurnBeginsStep, SyncEndsStep, TurnEndsStep, ServerStep
     DEF SystemNext, SurfaceNext

LEMMA SystemInvariant == SystemSpec => []SurfaceInv
BY SurfaceInitInvariant, SystemStep, PTL DEF SystemSpec, SystemNext

-----------------------------------------------------------------------------
(* The properties the run checks. *)

\* Every reachable state is well typed.
THEOREM SurfaceTypeCorrect == SystemSpec => []SurfaceTypeOK
<1>1. SurfaceInv => SurfaceTypeOK
  BY DEF SurfaceInv
<1>2. QED BY <1>1, SystemInvariant, PTL

\* However many reloads overlap, the newest decides and leaves a record.
THEOREM NewestReloadDecides == SystemSpec => []NewestDecides
<1>1. SurfaceInv => NewestDecides
  BY DEF SurfaceInv, IInv
<1>2. QED BY <1>1, SystemInvariant, PTL

\* The running configuration never goes back to an older file.
THEOREM ReloadsGoForward == SystemSpec => NeverBackwards
<1>1. SurfaceInv /\ [SystemNext]_allVars => [loaded' >= loaded]_vars
  <2>1. SurfaceInv /\ Reloads => loaded' >= loaded
    BY ForwardStep DEF SurfaceInv, Reloads
  <2>2. SurfaceNext \/ UNCHANGED allVars => loaded' = loaded
    BY DEF SurfaceNext, TurnBegins, SyncEnds, TurnEnds, Register, Unregister, Disconnect, Did,
           vars, allVars
  <2>3. SurfaceInv /\ loaded' = loaded => loaded' >= loaded
    BY DEF SurfaceInv, IInv, TypeOK, Version
  <2>4. QED BY <2>1, <2>2, <2>3 DEF SystemNext
<1>2. QED BY <1>1, SystemInvariant, PTL DEF SystemSpec, SystemNext, NeverBackwards

\* No turn runs on a surface of an older configuration than the one it found.
THEOREM TurnsAreCurrent == SystemSpec => []TurnIsCurrent
<1>1. SurfaceInv => TurnIsCurrent
  BY DEF SurfaceInv
<1>2. QED BY <1>1, SystemInvariant, PTL

\* No turn has tools of a server that its configuration does not name.
THEOREM RemovedServersAreGone == SystemSpec => []NoRemovedServerServes
<1>1. SurfaceInv => NoRemovedServerServes
  BY DEF SurfaceInv, NoRemovedServerServes, RegisteredAreNamed, KeysNameVersions,
         SignaturesOfSurface, Configured
<1>2. QED BY <1>1, SystemInvariant, PTL

\* A change of the servers that awaits the REPL makes the next turn sync.
THEOREM PendingReconnectIsDue == SystemSpec => []ReconnectIsDue
<1>1. SurfaceInv => ReconnectIsDue
  <2> SUFFICES ASSUME SurfaceInv, surface.key = RuntimeSurfaceKey
               PROVE  reconnect # "pending_repl_apply" /\ signature = ServersOf[loaded]
    BY DEF ReconnectIsDue
  <2>1. surface.key # NoKey /\ surface.key[2] = lastSuccess /\ surface.version = loaded
    BY KeyOfRuntime, KeyDecides
  <2>2. QED BY <2>1 DEF SurfaceInv, SyncedIsApplied, SignaturesOfSurface
<1>2. QED BY <1>1, SystemInvariant, PTL

=============================================================================
