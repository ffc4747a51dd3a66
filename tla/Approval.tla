------------------------------ MODULE Approval ------------------------------
(***************************************************************************)
(* Tool calls that wait for the user                                       *)
(* (apps/web/lib/pending-asks.ts, tools/with-approval.ts,                  *)
(* tools/ask-user-question.ts and app/api/chat/answer/route.ts).           *)
(*                                                                         *)
(* A call that needs the user registers an ask, emits it to the browser    *)
(* and waits.  Three parties may end the wait: the user's answer, the      *)
(* ask's timer, and a later ask that finds the registry full and evicts    *)
(* the oldest.  The first of them wins and the others find nothing.  A     *)
(* decision may also allow a risk level for the rest of the session; calls *)
(* of that level then run without asking.                                  *)
(***************************************************************************)
EXTENDS Integers, SequencesExt

CONSTANTS
    Call,       \* tool calls, each with an ask of its own
    Session,    \* session ids
    SessionOf,  \* the session of each call
    MaxPending  \* MAX_PENDING_ASKS

ASSUME PendingAssumption == MaxPending \in Nat \ {0}
ASSUME SessionAssumption == SessionOf \in [Call -> Session]

VARIABLES
    call,      \* each call: where it is, its kind and its risk
    pending,   \* the registry, oldest ask first
    reply,     \* what the promise of each ask resolved with
    whitelist, \* the risk levels allowed for good in each session
    delivered, \* history: the answer the user was told is delivered
    granted    \* history: <<session, level>> the user allowed for good

vars == <<call, pending, reply, whitelist, delivered, granted>>

Kind     == {"user_decision", "user_answered_question"}
Risk     == {"low", "medium", "high"}  \* critical is treated as high is
Decision == {"allow", "deny", "allow_always_low", "allow_always_medium"}
Reply    == Decision \cup {"answer", "timeout"}
Place    == {"idle", "waiting", "ran", "refused", "failed"}

NewCall == [at |-> "idle", kind |-> "user_decision", risk |-> "high"]

Init ==
    /\ call = [c \in Call |-> NewCall]
    /\ pending = <<>>
    /\ reply = [c \in Call |-> "none"]
    /\ whitelist = [s \in Session |-> {}]
    /\ delivered = [c \in Call |-> "none"]
    /\ granted = {}

IsWhitelisted(s, risk) == risk \in whitelist[s]

\* The level that the user allows for good: "this session, same level of risk".
NamedLevel(decision) ==
    CASE decision = "allow_always_low"    -> {"low"}
      [] decision = "allow_always_medium" -> {"medium"}
      [] OTHER                            -> {}

\* Fault: low takes medium with it as well.
LevelsEitherWay(decision) ==
    IF decision \in {"allow_always_low", "allow_always_medium"} THEN {"low", "medium"} ELSE {}

\* addToWhitelist, what is allowed from then on: medium takes low with it.
Levels(decision) ==
    CASE decision = "allow_always_low"    -> {"low"}
      [] decision = "allow_always_medium" -> {"low", "medium"}
      [] OTHER                            -> {}

\* syntheticTimeoutReply
TimeoutReply(kind) == IF kind = "user_decision" THEN "deny" ELSE "timeout"

-----------------------------------------------------------------------------

\* The call waits for the ask it has put at the end of the registry; emitting it
\* may throw, and then the call is over and the ask stays.
Ask(c, kind, risk, asks) ==
    /\ pending' = Append(asks, c)
    /\ \E at \in {"waiting", "failed"} :
          call' = [call EXCEPT ![c] = [at |-> at, kind |-> kind, risk |-> risk]]

\* Fault: the oldest ask is dropped and nobody tells the call that waits for it.
EvictDrops(c, kind, risk) ==
    /\ Len(pending) >= MaxPending
    /\ Ask(c, kind, risk, Tail(pending))
    /\ UNCHANGED reply

\* registerAsk on a full registry: the oldest ask times out for the new one.
Evict(c, kind, risk) ==
    /\ Len(pending) >= MaxPending
    /\ Ask(c, kind, risk, Tail(pending))
    /\ reply' = [reply EXCEPT ![Head(pending)] = TimeoutReply(call[Head(pending)].kind)]

\* Fault: off by one, the registry takes an ask more than its limit.
RegisterOffByOne(c, kind, risk) ==
    /\ Len(pending) <= MaxPending
    /\ Ask(c, kind, risk, pending)
    /\ UNCHANGED reply

\* registerAsk with room left.
Register(c, kind, risk) ==
    /\ Len(pending) < MaxPending
    /\ Ask(c, kind, risk, pending)
    /\ UNCHANGED reply

\* A wrapped tool whose level is not allowed for good, or a question (whose risk
\* means nothing).
StartAsking(c) ==
    /\ call[c].at = "idle"
    /\ \E kind \in Kind, risk \in Risk :
          /\ IF kind = "user_decision" THEN ~IsWhitelisted(SessionOf[c], risk) ELSE risk = "high"
          /\ Register(c, kind, risk) \/ Evict(c, kind, risk)
    /\ UNCHANGED <<whitelist, delivered, granted>>

\* A wrapped tool whose level is allowed for good runs at once.
StartAllowed(c) ==
    /\ call[c].at = "idle"
    /\ \E risk \in Risk :
          /\ IsWhitelisted(SessionOf[c], risk)
          /\ call' = [call EXCEPT ![c] = [at |-> "ran", kind |-> "user_decision", risk |-> risk]]
    /\ UNCHANGED <<pending, reply, whitelist, delivered, granted>>

\* Fault: the ask stays in the registry.
ResolveAskKeeps(c, r) ==
    /\ c \in ToSet(pending)
    /\ reply' = [reply EXCEPT ![c] = IF @ = "none" THEN r ELSE @]
    /\ UNCHANGED pending

\* resolveAsk when it finds the ask: the ask is gone and its promise resolved,
\* which counts the first time only.
ResolveAsk(c, r) ==
    /\ \E i \in DOMAIN pending : pending[i] = c /\ pending' = RemoveAt(pending, i)
    /\ reply' = [reply EXCEPT ![c] = IF @ = "none" THEN r ELSE @]

\* POST /api/chat/answer finds the ask.  The route does not compare the kind of
\* the reply with what was asked.  (When it finds none it changes nothing.)
Answer(c) ==
    /\ call[c].at \notin {"idle", "failed"}
    /\ \E r \in Decision \cup {"answer"} :
          /\ ResolveAsk(c, r)
          /\ delivered' = [delivered EXCEPT ![c] = r]
          /\ granted' = IF call[c].kind = "user_decision"
                        THEN granted \cup ({SessionOf[c]} \X NamedLevel(r)) ELSE granted
    /\ UNCHANGED <<call, whitelist>>

\* The timer of a pending ask; resolveAsk clears it.
Timeout(c) ==
    /\ ResolveAsk(c, TimeoutReply(call[c].kind))
    /\ UNCHANGED <<call, whitelist, delivered, granted>>

\* The call goes on with its reply: a question has its answer, a wrapped tool
\* runs, is refused, or fails on a reply that is no decision.
Continue(c) ==
    /\ call[c].at = "waiting" /\ reply[c] # "none"
    /\ IF call[c].kind = "user_answered_question"
       THEN /\ call' = [call EXCEPT ![c].at = "ran"]
            /\ UNCHANGED whitelist
       ELSE /\ call' = [call EXCEPT ![c].at = CASE reply[c] \notin Decision -> "failed"
                                                [] reply[c] = "deny" -> "refused"
                                                [] OTHER -> "ran"]
            /\ whitelist' = [whitelist EXCEPT ![SessionOf[c]] = @ \cup Levels(reply[c])]
    /\ UNCHANGED <<pending, reply, delivered, granted>>

Next ==
    \E c \in Call :
        StartAsking(c) \/ StartAllowed(c) \/ Answer(c) \/ Timeout(c) \/ Continue(c)

Spec == Init /\ [][Next]_vars

\* Timers fire, and a call whose promise is resolved goes on.
FairSpec == Spec /\ \A c \in Call : WF_vars(Timeout(c)) /\ WF_vars(Continue(c))

-----------------------------------------------------------------------------

\* Every variable has its type, and the registry never exceeds its cap.
TypeOK ==
    /\ call \in [Call -> [at : Place, kind : Kind, risk : Risk]]
    /\ pending \in Seq(Call) /\ IsInjective(pending) /\ Len(pending) <= MaxPending
    /\ reply \in [Call -> Reply \cup {"none"}]
    /\ whitelist \in [Session -> SUBSET {"low", "medium"}]
    /\ delivered \in [Call -> Reply \cup {"none"}]
    /\ granted \subseteq Session \X {"low", "medium"}

\* The user has allowed calls of this risk for good, in this very session.  The code takes
\* a consent to medium for one to low too, which the user was not asked for (README,
\* section 5); no other consent goes from one level to another.
Covered(s, risk) ==
    \/ <<s, risk>> \in granted
    \/ risk = "low" /\ <<s, "medium">> \in granted

\* A gated tool runs only if the user allowed this very call, or the level that the
\* user allowed for good in the same session covers its risk; however answers, timers
\* and evictions meet.
OnlyConsentedCallsRun ==
    \A c \in Call :
        call[c].at = "ran" /\ call[c].kind = "user_decision" =>
            \/ delivered[c] \in Decision \ {"deny"}
            \/ Covered(SessionOf[c], call[c].risk)

\* The user is told that an answer is delivered exactly if that is the answer the
\* call goes on with; a call that had timed out never says so.
DeliveredIsHeard ==
    \A c \in Call : delivered[c] # "none" => reply[c] = delivered[c]

\* No call waits for ever.
EveryWaitEnds == \A c \in Call : (call[c].at = "waiting") ~> (call[c].at # "waiting")

-----------------------------------------------------------------------------
(* What makes these inductive. *)

Registered(c) == \E i \in DOMAIN pending : pending[i] = c

\* A call that still waits is in the registry, where an answer or its timer finds it,
\* and nothing in the registry has a reply.
WaitersAreRegistered ==
    \A c \in Call :
        /\ call[c].at = "waiting" /\ reply[c] = "none" => Registered(c)
        /\ Registered(c) => reply[c] = "none" /\ call[c].at # "idle"
        /\ call[c].at = "idle" => reply[c] = "none" /\ delivered[c] = "none"

\* A reply nobody gave has the shape the call expects, whoever made it up.
SyntheticRepliesFit ==
    \A c \in Call :
        reply[c] # "none" /\ delivered[c] = "none" => reply[c] = TimeoutReply(call[c].kind)

\* What calls wrote into the list of a session, the user has allowed in it.
ListsAreGranted ==
    /\ \A s \in Session : \A r \in whitelist[s] : Covered(s, r)
    /\ \A c \in Call :
          call[c].kind = "user_decision" /\ delivered[c] # "none" =>
              \A r \in NamedLevel(delivered[c]) : <<SessionOf[c], r>> \in granted

IInv ==
    /\ TypeOK /\ WaitersAreRegistered /\ SyntheticRepliesFit
    /\ DeliveredIsHeard /\ ListsAreGranted /\ OnlyConsentedCallsRun

=============================================================================
