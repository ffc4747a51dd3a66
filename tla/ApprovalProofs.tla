--------------------------- MODULE ApprovalProofs ---------------------------
(***************************************************************************)
(* Theorems about the tool calls that wait for the user, for any set of    *)
(* calls and sessions and any limit of the registry.                       *)
(***************************************************************************)
EXTENDS Approval, SequenceTheorems, TLAPS

USE PendingAssumption, SessionAssumption

In(q, c) == \E i \in DOMAIN q : q[i] = c

\* A registry: each call at most once, and no more of them than there is room for.
Registry(q) == q \in Seq(Call) /\ IsInjective(q) /\ Len(q) <= MaxPending

CallState == [at : Place, kind : Kind, risk : Risk]

LEMMA RegisteredIsIn == \A c \in Call : Registered(c) <=> In(pending, c)
BY DEF Registered, In

-----------------------------------------------------------------------------
(* The registry. *)

LEMMA Removed ==
    ASSUME NEW q, Registry(q), NEW i \in DOMAIN q
    PROVE  /\ Registry(RemoveAt(q, i)) /\ Len(RemoveAt(q, i)) = Len(q) - 1
           /\ \A d \in Call : In(RemoveAt(q, i), d) <=> In(q, d) /\ d # q[i]
<1> DEFINE r == RemoveAt(q, i)
           front == SubSeq(q, 1, i - 1)
           back == SubSeq(q, i + 1, Len(q))
<1>1. /\ q \in Seq(Call) /\ Len(q) \in Nat /\ DOMAIN q = 1..Len(q) /\ i \in 1..Len(q)
      /\ Len(q) <= MaxPending
      /\ \A a, b \in 1..Len(q) : q[a] = q[b] => a = b
  BY LenProperties DEF Registry, IsInjective
<1>2. /\ front \in Seq(Call) /\ Len(front) = i - 1 /\ \A j \in 1..(i - 1) : front[j] = q[j]
  BY <1>1, SubSeqProperties
<1>3. /\ back \in Seq(Call) /\ Len(back) = Len(q) - i
      /\ \A j \in 1..(Len(q) - i) : back[j] = q[i + j]
  BY <1>1, SubSeqProperties
<1>4. r = front \o back
  BY DEF RemoveAt
<1> HIDE DEF r, front, back
<1>5. /\ r \in Seq(Call) /\ Len(r) = Len(q) - 1 /\ DOMAIN r = 1..(Len(q) - 1)
      /\ \A j \in 1..(Len(q) - 1) : r[j] = IF j < i THEN q[j] ELSE q[j + 1]
  <2>1. /\ r \in Seq(Call) /\ Len(r) = Len(front) + Len(back)
        /\ \A j \in 1..(Len(front) + Len(back)) :
              r[j] = IF j <= Len(front) THEN front[j] ELSE back[j - Len(front)]
    BY <1>2, <1>3, <1>4, ConcatProperties
  <2>2. Len(r) = Len(q) - 1 /\ DOMAIN r = 1..(Len(q) - 1)
    BY <1>1, <1>2, <1>3, <2>1, LenProperties
  <2>3. ASSUME NEW j \in 1..(Len(q) - 1) PROVE r[j] = IF j < i THEN q[j] ELSE q[j + 1]
    <3>1. CASE j < i
      BY <1>1, <1>2, <2>1, <2>2, <3>1
    <3>2. CASE ~(j < i)
      <4>1. j - (i - 1) \in 1..(Len(q) - i) /\ i + (j - (i - 1)) = j + 1
        BY <1>1, <3>2
      <4>2. r[j] = back[j - (i - 1)]
        BY <1>1, <1>2, <1>3, <2>1, <3>2
      <4>3. back[j - (i - 1)] = q[i + (j - (i - 1))]
        BY <1>3, <4>1
      <4>4. QED BY <3>2, <4>1, <4>2, <4>3
    <3>3. QED BY <3>1, <3>2
  <2>4. QED BY <2>1, <2>2, <2>3
<1>6. IsInjective(r)
  BY <1>1, <1>5 DEF IsInjective
<1>7. ASSUME NEW d \in Call PROVE In(r, d) <=> In(q, d) /\ d # q[i]
  <2>1. ASSUME In(r, d) PROVE In(q, d) /\ d # q[i]
    <3>1. PICK j \in 1..(Len(q) - 1) : r[j] = d
      BY <1>5, <2>1 DEF In
    <3>2. PICK k \in 1..Len(q) : k # i /\ q[k] = d
      BY <1>1, <1>5, <3>1
    <3>3. QED BY <1>1, <3>2 DEF In
  <2>2. ASSUME In(q, d), d # q[i] PROVE In(r, d)
    <3>1. PICK k \in 1..Len(q) : q[k] = d /\ k # i
      BY <1>1, <2>2 DEF In
    <3>2. CASE k < i
      <4>1. k \in 1..(Len(q) - 1) /\ r[k] = d
        BY <1>1, <1>5, <3>1, <3>2
      <4>2. QED BY <1>5, <4>1 DEF In
    <3>3. CASE ~(k < i)
      <4>1. k - 1 \in 1..(Len(q) - 1) /\ ~(k - 1 < i) /\ (k - 1) + 1 = k
        BY <1>1, <3>1, <3>3
      <4>2. r[k - 1] = d
        BY <1>5, <3>1, <4>1
      <4>3. QED BY <1>5, <4>1, <4>2 DEF In
    <3>4. QED BY <3>2, <3>3
  <2>3. QED BY <2>1, <2>2
<1>8. QED BY <1>1, <1>5, <1>6, <1>7 DEF Registry, r

LEMMA Evicted ==
    ASSUME NEW q, Registry(q), Len(q) >= MaxPending
    PROVE  /\ Head(q) \in Call /\ In(q, Head(q))
           /\ Registry(Tail(q)) /\ Len(Tail(q)) < MaxPending
           /\ \A d \in Call : In(Tail(q), d) <=> In(q, d) /\ d # Head(q)
<1>1. /\ q \in Seq(Call) /\ q # <<>> /\ Len(q) \in Nat \ {0} /\ DOMAIN q = 1..Len(q)
      /\ 1 \in DOMAIN q /\ Len(q) <= MaxPending
  BY LenProperties, EmptySeq DEF Registry
<1>2. Head(q) = q[1] /\ Head(q) \in Call
  BY <1>1, HeadTailProperties
<1>3. Tail(q) = RemoveAt(q, 1)
  <2>1. SubSeq(q, 1, 0) = <<>>
    BY <1>1, SubSeqEmpty
  <2>2. SubSeq(q, 2, Len(q)) \in Seq(Call)
    BY <1>1, SubSeqProperties
  <2>3. RemoveAt(q, 1) = SubSeq(q, 2, Len(q))
    BY <2>1, <2>2, ConcatEmptySeq DEF RemoveAt
  <2>4. QED BY <1>1, <2>3, TailIsSubSeq
<1>4. In(q, Head(q))
  BY <1>1, <1>2 DEF In
<1>5. /\ Registry(RemoveAt(q, 1)) /\ Len(RemoveAt(q, 1)) = Len(q) - 1
      /\ \A d \in Call : In(RemoveAt(q, 1), d) <=> In(q, d) /\ d # q[1]
  BY <1>1, Removed
<1>6. Len(q) - 1 < MaxPending
  BY <1>1
<1>7. QED BY <1>2, <1>3, <1>4, <1>5, <1>6

LEMMA Appended ==
    ASSUME NEW q, Registry(q), Len(q) < MaxPending, NEW c \in Call, ~In(q, c)
    PROVE  /\ Registry(Append(q, c))
           /\ \A d \in Call : In(Append(q, c), d) <=> In(q, d) \/ d = c
<1> DEFINE r == Append(q, c)
<1>1. /\ q \in Seq(Call) /\ Len(q) \in Nat /\ DOMAIN q = 1..Len(q)
      /\ \A a, b \in 1..Len(q) : q[a] = q[b] => a = b
      /\ \A a \in 1..Len(q) : q[a] # c
  BY LenProperties DEF Registry, IsInjective, In
<1>2. /\ r \in Seq(Call) /\ Len(r) = Len(q) + 1 /\ DOMAIN r = 1..(Len(q) + 1)
      /\ \A j \in 1..Len(q) : r[j] = q[j]
      /\ r[Len(q) + 1] = c
  BY <1>1, AppendProperties, LenProperties
<1> HIDE DEF r
<1>3. \A j \in 1..(Len(q) + 1) : j \in 1..Len(q) \/ j = Len(q) + 1
  BY <1>1
<1>4. IsInjective(r)
  BY <1>1, <1>2, <1>3 DEF IsInjective
<1>5. Registry(r)
  BY <1>1, <1>2, <1>4 DEF Registry
<1>6. ASSUME NEW d \in Call PROVE In(r, d) <=> In(q, d) \/ d = c
  <2>1. In(q, d) => In(r, d)
    BY <1>1, <1>2 DEF In
  <2>2. d = c => In(r, d)
    BY <1>1, <1>2 DEF In
  <2>3. In(r, d) => In(q, d) \/ d = c
    BY <1>1, <1>2, <1>3 DEF In
  <2>4. QED BY <2>1, <2>2, <2>3
<1>7. QED BY <1>5, <1>6 DEF r

-----------------------------------------------------------------------------
(* Types. *)

LEMMA Typed ==
    TypeOK <=> /\ call \in [Call -> CallState] /\ Registry(pending)
               /\ reply \in [Call -> Reply \cup {"none"}]
               /\ whitelist \in [Session -> SUBSET {"low", "medium"}]
               /\ delivered \in [Call -> Reply \cup {"none"}]
               /\ granted \subseteq Session \X {"low", "medium"}
BY DEF TypeOK, Registry, CallState

LEMMA TypedNext ==
    ASSUME call' \in [Call -> CallState], Registry(pending)',
           reply' \in [Call -> Reply \cup {"none"}],
           whitelist' \in [Session -> SUBSET {"low", "medium"}],
           delivered' \in [Call -> Reply \cup {"none"}],
           granted' \subseteq Session \X {"low", "medium"}
    PROVE  TypeOK'
BY DEF TypeOK, Registry, CallState

LEMMA LevelsTyped ==
    \A r \in Reply : /\ Levels(r) \subseteq {"low", "medium"}
                     /\ NamedLevel(r) \subseteq {"low", "medium"}
BY DEF Levels, NamedLevel

LEMMA TimeoutTyped == \A k \in Kind : TimeoutReply(k) \in {"deny", "timeout"}
BY DEF TimeoutReply

\* Nobody has answered what is in the registry.
LEMMA RegisteredIsOpen ==
    ASSUME IInv, NEW c \in Call, In(pending, c)
    PROVE  reply[c] = "none" /\ delivered[c] = "none" /\ call[c].at # "idle"
BY RegisteredIsIn DEF IInv, WaitersAreRegistered, DeliveredIsHeard

-----------------------------------------------------------------------------
(* The steps. *)

\* The ask that is new, and the one that has to go for it.
LEMMA AskEffect ==
    ASSUME IInv, NEW c \in Call, call[c].at = "idle", NEW kind \in Kind, NEW risk \in Risk,
           Register(c, kind, risk) \/ Evict(c, kind, risk)
    PROVE  /\ Registry(pending)'
           /\ \E at \in {"waiting", "failed"} :
                 call' = [call EXCEPT ![c] = [at |-> at, kind |-> kind, risk |-> risk]]
           /\ \/ /\ reply' = reply
                 /\ \A d \in Call : In(pending, d)' <=> In(pending, d) \/ d = c
              \/ \E h \in Call :
                    /\ In(pending, h) /\ h # c
                    /\ reply' = [reply EXCEPT ![h] = TimeoutReply(call[h].kind)]
                    /\ \A d \in Call : In(pending, d)' <=> (In(pending, d) /\ d # h) \/ d = c
<1>1. Registry(pending) /\ ~In(pending, c) /\ Len(pending) \in Nat
  BY Typed, RegisteredIsOpen, LenProperties DEF IInv, Registry
<1>2. \E at \in {"waiting", "failed"} :
         call' = [call EXCEPT ![c] = [at |-> at, kind |-> kind, risk |-> risk]]
  BY DEF Register, Evict, Ask
<1>3. CASE Register(c, kind, risk)
  <2>1. pending' = Append(pending, c) /\ Len(pending) < MaxPending /\ reply' = reply
    BY <1>3 DEF Register, Ask
  <2>2. /\ Registry(Append(pending, c))
        /\ \A d \in Call : In(Append(pending, c), d) <=> In(pending, d) \/ d = c
    BY <1>1, <2>1, Appended
  <2>3. Registry(pending)' /\ \A d \in Call : In(pending, d)' <=> In(pending, d) \/ d = c
    BY <2>1, <2>2 DEF Registry, In
  <2>4. QED BY <1>2, <2>1, <2>3
<1>4. CASE Evict(c, kind, risk)
  <2> DEFINE h == Head(pending)
  <2>1. /\ pending' = Append(Tail(pending), c) /\ Len(pending) >= MaxPending
        /\ reply' = [reply EXCEPT ![h] = TimeoutReply(call[h].kind)]
    BY <1>4 DEF Evict, Ask
  <2>2. /\ h \in Call /\ In(pending, h)
        /\ Registry(Tail(pending)) /\ Len(Tail(pending)) < MaxPending
        /\ \A d \in Call : In(Tail(pending), d) <=> In(pending, d) /\ d # h
    BY <1>1, <2>1, Evicted
  <2>3. /\ Registry(Append(Tail(pending), c))
        /\ \A d \in Call : In(Append(Tail(pending), c), d) <=> In(Tail(pending), d) \/ d = c
    BY <1>1, <2>2, Appended
  <2>4. h # c
    BY <1>1, <2>2
  <2> HIDE DEF h
  <2>5. Registry(pending)'
    BY <2>1, <2>3 DEF Registry
  <2>6. \A d \in Call : In(pending, d)' <=> (In(pending, d) /\ d # h) \/ d = c
    BY <2>1, <2>2, <2>3 DEF In
  <2>7. QED BY <1>2, <2>1, <2>2, <2>4, <2>5, <2>6
<1>5. QED BY <1>3, <1>4

\* The rest of the invariant, told of each call and of the registry before and after.
LEMMA OpenNext ==
    ASSUME \A d \in Call :
               /\ call'[d].at = "waiting" /\ reply'[d] = "none" => In(pending, d)'
               /\ In(pending, d)' => reply'[d] = "none" /\ call'[d].at # "idle"
               /\ call'[d].at = "idle" => reply'[d] = "none" /\ delivered'[d] = "none"
    PROVE  WaitersAreRegistered'
<1>1. \A d \in Call : Registered(d)' <=> In(pending, d)'
  BY DEF Registered, In
<1>2. QED BY <1>1 DEF WaitersAreRegistered

LEMMA StartAskingStep ==
    ASSUME IInv, NEW c \in Call, StartAsking(c)
    PROVE  IInv'
<1>1. /\ call[c].at = "idle" /\ reply[c] = "none" /\ delivered[c] = "none"
      /\ UNCHANGED <<whitelist, delivered, granted>>
  BY DEF StartAsking, IInv, WaitersAreRegistered
<1>2. PICK kind \in Kind, risk \in Risk : Register(c, kind, risk) \/ Evict(c, kind, risk)
  BY DEF StartAsking
<1>3. PICK at \in {"waiting", "failed"} :
         call' = [call EXCEPT ![c] = [at |-> at, kind |-> kind, risk |-> risk]]
  BY <1>1, <1>2, AskEffect
<1>4. call \in [Call -> CallState] /\ reply \in [Call -> Reply \cup {"none"}]
  BY Typed DEF IInv
<1>5. /\ call'[c].at \in {"waiting", "failed"} /\ call'[c].kind = kind
      /\ \A d \in Call \ {c} : call'[d] = call[d]
      /\ call' \in [Call -> CallState]
  BY <1>3, <1>4 DEF CallState, Place
<1>6. /\ Registry(pending)'
      /\ \/ /\ reply' = reply
            /\ \A d \in Call : In(pending, d)' <=> In(pending, d) \/ d = c
         \/ \E h \in Call :
               /\ In(pending, h) /\ h # c
               /\ reply' = [reply EXCEPT ![h] = TimeoutReply(call[h].kind)]
               /\ \A d \in Call : In(pending, d)' <=> (In(pending, d) /\ d # h) \/ d = c
  BY <1>1, <1>2, AskEffect
<1>7. /\ reply' \in [Call -> Reply \cup {"none"}]
      /\ \A d \in Call : \/ reply'[d] = reply[d] /\ (In(pending, d)' <=> In(pending, d) \/ d = c)
                         \/ /\ d # c /\ delivered[d] = "none" /\ call[d].at # "idle"
                            /\ reply'[d] = TimeoutReply(call[d].kind) /\ ~In(pending, d)'
  <2>1. CASE /\ reply' = reply
             /\ \A d \in Call : In(pending, d)' <=> In(pending, d) \/ d = c
    BY <1>4, <2>1
  <2>2. ASSUME NEW h \in Call, In(pending, h), h # c,
               reply' = [reply EXCEPT ![h] = TimeoutReply(call[h].kind)],
               \A d \in Call : In(pending, d)' <=> (In(pending, d) /\ d # h) \/ d = c
        PROVE  <1>7
    <3>1. delivered[h] = "none" /\ call[h].at # "idle"
      BY <2>2, RegisteredIsOpen
    <3>2. TimeoutReply(call[h].kind) \in Reply
      BY <1>4 DEF TimeoutReply, Reply, Decision
    <3>3. QED BY <1>4, <2>2, <3>1, <3>2
  <2>3. QED BY <1>6, <2>1, <2>2
<1>8. TypeOK'
  BY <1>1, <1>5, <1>6, <1>7, Typed, TypedNext DEF IInv
<1>9. \A d \in Call : Registered(d) <=> In(pending, d)
  BY RegisteredIsIn
<1>10. \A k \in Kind : TimeoutReply(k) # "none"
  BY DEF TimeoutReply
<1>11. WaitersAreRegistered'
  <2> SUFFICES ASSUME NEW d \in Call
               PROVE  /\ call'[d].at = "waiting" /\ reply'[d] = "none" => In(pending, d)'
                      /\ In(pending, d)' => reply'[d] = "none" /\ call'[d].at # "idle"
                      /\ call'[d].at = "idle" => reply'[d] = "none" /\ delivered'[d] = "none"
    BY OpenNext
  <2>1. call[d].kind \in Kind
    BY <1>4 DEF CallState
  <2>2. /\ call[d].at = "waiting" /\ reply[d] = "none" => In(pending, d)
        /\ In(pending, d) => reply[d] = "none" /\ call[d].at # "idle"
        /\ call[d].at = "idle" => reply[d] = "none" /\ delivered[d] = "none"
    BY <1>9 DEF IInv, WaitersAreRegistered
  <2>3. CASE d = c
    BY <1>1, <1>5, <1>7, <2>3
  <2>4. CASE d # c
    BY <1>1, <1>5, <1>7, <1>10, <2>1, <2>2, <2>4
  <2>5. QED BY <2>3, <2>4
<1>12. SyntheticRepliesFit' /\ DeliveredIsHeard'
  BY <1>1, <1>4, <1>5, <1>7 DEF IInv, SyntheticRepliesFit, DeliveredIsHeard
<1>13. ListsAreGranted'
  BY <1>1, <1>5 DEF IInv, ListsAreGranted, Covered
<1>14. OnlyConsentedCallsRun'
  BY <1>1, <1>5 DEF IInv, OnlyConsentedCallsRun, Covered
<1>15. QED BY <1>8, <1>11, <1>12, <1>13, <1>14 DEF IInv

LEMMA StartAllowedStep ==
    ASSUME IInv, NEW c \in Call, StartAllowed(c)
    PROVE  IInv'
<1>1. /\ call[c].at = "idle" /\ reply[c] = "none" /\ delivered[c] = "none"
      /\ UNCHANGED <<pending, reply, whitelist, delivered, granted>>
  BY DEF StartAllowed, IInv, WaitersAreRegistered
<1>2. PICK risk \in Risk :
         /\ risk \in whitelist[SessionOf[c]]
         /\ call' = [call EXCEPT ![c] = [at |-> "ran", kind |-> "user_decision",
                                         risk |-> risk]]
  BY DEF StartAllowed, IsWhitelisted
<1>3. call \in [Call -> CallState]
  BY Typed DEF IInv
<1>4. /\ call'[c].at = "ran" /\ call'[c].risk = risk
      /\ \A d \in Call \ {c} : call'[d] = call[d]
      /\ call' \in [Call -> CallState]
  BY <1>2, <1>3 DEF CallState, Place, Kind
<1>5. Covered(SessionOf[c], risk)
  BY <1>2 DEF IInv, ListsAreGranted
<1>6. TypeOK'
  BY <1>1, <1>4, Typed, TypedNext DEF IInv, Registry
<1>7. WaitersAreRegistered'
  <2>1. \A d \in Call : In(pending, d)' <=> In(pending, d)
    BY <1>1 DEF In
  <2>2. \A d \in Call : Registered(d) <=> In(pending, d)
    BY RegisteredIsIn
  <2>3. QED BY <1>1, <1>4, <2>1, <2>2, OpenNext DEF IInv, WaitersAreRegistered
<1>8. SyntheticRepliesFit' /\ DeliveredIsHeard'
  BY <1>1, <1>4 DEF IInv, SyntheticRepliesFit, DeliveredIsHeard
<1>9. ListsAreGranted'
  BY <1>1, <1>4 DEF IInv, ListsAreGranted, Covered
<1>10. OnlyConsentedCallsRun'
  BY <1>1, <1>4, <1>5 DEF IInv, OnlyConsentedCallsRun, Covered
<1>11. QED BY <1>6, <1>7, <1>8, <1>9, <1>10 DEF IInv

LEMMA ResolveEffect ==
    ASSUME IInv, NEW c \in Call, NEW r \in Reply, ResolveAsk(c, r)
    PROVE  /\ reply[c] = "none" /\ delivered[c] = "none" /\ call[c].at # "idle"
           /\ reply' = [reply EXCEPT ![c] = r]
           /\ reply' \in [Call -> Reply \cup {"none"}]
           /\ Registry(pending)'
           /\ \A d \in Call : In(pending, d)' <=> In(pending, d) /\ d # c
<1>1. PICK i \in DOMAIN pending : pending[i] = c /\ pending' = RemoveAt(pending, i)
  BY DEF ResolveAsk
<1>2. In(pending, c)
  BY <1>1 DEF In
<1>3. reply[c] = "none" /\ delivered[c] = "none" /\ call[c].at # "idle"
  BY <1>2, RegisteredIsOpen
<1>4. reply \in [Call -> Reply \cup {"none"}] /\ Registry(pending)
  BY Typed DEF IInv
<1>5. /\ Registry(RemoveAt(pending, i))
      /\ \A d \in Call : In(RemoveAt(pending, i), d) <=> In(pending, d) /\ d # c
  BY <1>1, <1>4, Removed
<1>6. Registry(pending)' /\ \A d \in Call : In(pending, d)' <=> In(pending, d) /\ d # c
  BY <1>1, <1>5 DEF Registry, In
<1>7. reply' = [reply EXCEPT ![c] = r]
  BY <1>3 DEF ResolveAsk
<1>8. QED BY <1>3, <1>4, <1>6, <1>7

LEMMA AnswerStep ==
    ASSUME IInv, NEW c \in Call, Answer(c) \/ Timeout(c)
    PROVE  IInv'
<1>1. /\ call \in [Call -> CallState] /\ reply \in [Call -> Reply \cup {"none"}]
      /\ delivered \in [Call -> Reply \cup {"none"}]
      /\ granted \subseteq Session \X {"low", "medium"}
      /\ UNCHANGED <<call, whitelist>>
  BY Typed DEF IInv, Answer, Timeout
<1>2. PICK r \in Reply :
         /\ ResolveAsk(c, r)
         /\ \/ delivered' = delivered /\ granted' = granted /\ r = TimeoutReply(call[c].kind)
            \/ /\ delivered' = [delivered EXCEPT ![c] = r]
               /\ granted' = IF call[c].kind = "user_decision"
                             THEN granted \cup ({SessionOf[c]} \X NamedLevel(r)) ELSE granted
  <2>1. TimeoutReply(call[c].kind) \in Reply
    BY <1>1 DEF TimeoutReply, Reply, Decision
  <2>2. Decision \cup {"answer"} \subseteq Reply
    BY DEF Reply
  <2>3. QED BY <2>1, <2>2 DEF Answer, Timeout
<1>3. /\ reply[c] = "none" /\ delivered[c] = "none" /\ call[c].at # "idle"
      /\ reply' = [reply EXCEPT ![c] = r]
      /\ reply' \in [Call -> Reply \cup {"none"}]
      /\ Registry(pending)'
      /\ \A d \in Call : In(pending, d)' <=> In(pending, d) /\ d # c
  BY <1>2, ResolveEffect
<1>4. /\ reply'[c] = r /\ r # "none" /\ \A d \in Call \ {c} : reply'[d] = reply[d]
      /\ \A d \in Call \ {c} : delivered'[d] = delivered[d]
      /\ delivered' \in [Call -> Reply \cup {"none"}]
      /\ \/ delivered'[c] = "none" /\ r = TimeoutReply(call[c].kind)
         \/ delivered'[c] = r
  BY <1>1, <1>2, <1>3 DEF Reply, Decision
<1>5. /\ granted \subseteq granted' /\ granted' \subseteq Session \X {"low", "medium"}
      /\ call[c].kind = "user_decision" /\ delivered'[c] # "none" =>
            \A l \in NamedLevel(delivered'[c]) : <<SessionOf[c], l>> \in granted'
  <2>1. SessionOf[c] \in Session /\ NamedLevel(r) \subseteq {"low", "medium"}
    BY LevelsTyped
  <2>2. CASE delivered' = delivered /\ granted' = granted
    BY <1>1, <1>3, <2>2
  <2>3. CASE /\ delivered' = [delivered EXCEPT ![c] = r]
             /\ granted' = IF call[c].kind = "user_decision"
                           THEN granted \cup ({SessionOf[c]} \X NamedLevel(r)) ELSE granted
    <3>1. delivered'[c] = r
      BY <1>1, <2>3
    <3>2. QED BY <1>1, <2>1, <2>3, <3>1
  <2>4. QED BY <1>2, <2>2, <2>3
<1>6. TypeOK'
  BY <1>1, <1>3, <1>4, <1>5, Typed, TypedNext DEF IInv
<1>7. WaitersAreRegistered'
  <2>1. \A d \in Call : Registered(d) <=> In(pending, d)
    BY RegisteredIsIn
  <2>2. QED BY <1>1, <1>3, <1>4, <2>1, OpenNext DEF IInv, WaitersAreRegistered
<1>8. SyntheticRepliesFit'
  BY <1>1, <1>4 DEF IInv, SyntheticRepliesFit
<1>9. DeliveredIsHeard'
  BY <1>1, <1>3, <1>4 DEF IInv, DeliveredIsHeard
<1>10. ListsAreGranted'
  BY <1>1, <1>4, <1>5 DEF IInv, ListsAreGranted, Covered
<1>11. OnlyConsentedCallsRun'
  <2> SUFFICES ASSUME NEW d \in Call, call[d].at = "ran", call[d].kind = "user_decision"
               PROVE  \/ delivered'[d] \in Decision \ {"deny"}
                      \/ Covered(SessionOf[d], call[d].risk)'
    BY <1>1 DEF OnlyConsentedCallsRun, Covered
  <2>1. \/ delivered[d] \in Decision \ {"deny"}
        \/ Covered(SessionOf[d], call[d].risk)
    BY DEF IInv, OnlyConsentedCallsRun
  <2>2. CASE delivered[d] \in Decision \ {"deny"}
    <3>1. d # c
      BY <1>3, <2>2 DEF Decision
    <3>2. QED BY <1>4, <2>2, <3>1
  <2>3. CASE Covered(SessionOf[d], call[d].risk)
    <3>1. call' = call /\ granted \subseteq granted'
      BY <1>1, <1>5
    <3>2. QED BY <2>3, <3>1 DEF Covered
  <2>4. QED BY <2>1, <2>2, <2>3
<1>12. QED BY <1>6, <1>7, <1>8, <1>9, <1>10, <1>11 DEF IInv

LEMMA ContinueStep ==
    ASSUME IInv, NEW c \in Call, Continue(c)
    PROVE  IInv'
<1>1. /\ call \in [Call -> CallState] /\ call[c] \in CallState
      /\ whitelist \in [Session -> SUBSET {"low", "medium"}]
      /\ reply[c] \in Reply /\ call[c].at = "waiting"
      /\ UNCHANGED <<pending, reply, delivered, granted>>
  BY Typed DEF IInv, Continue
<1>2. /\ call' \in [Call -> CallState]
      /\ call'[c].at \in {"ran", "refused", "failed"}
      /\ call'[c].kind = call[c].kind /\ call'[c].risk = call[c].risk
      /\ \A d \in Call \ {c} : call'[d] = call[d]
      /\ call[c].kind = "user_decision" /\ call'[c].at = "ran" =>
            reply[c] \in Decision \ {"deny"}
  <2>1. PICK at \in {"ran", "refused", "failed"} :
           /\ call' = [call EXCEPT ![c].at = at]
           /\ call[c].kind = "user_decision" /\ at = "ran" => reply[c] \in Decision \ {"deny"}
    <3>1. CASE call[c].kind = "user_answered_question"
      BY <3>1 DEF Continue
    <3>2. CASE call[c].kind # "user_answered_question"
      BY <3>2 DEF Continue
    <3>3. QED BY <3>1, <3>2
  <2>2. QED BY <1>1, <2>1 DEF CallState, Place
<1>3. delivered[c] = "none" /\ call[c].kind = "user_decision" => reply[c] = "deny"
  BY <1>1 DEF IInv, SyntheticRepliesFit, TimeoutReply, Reply, Decision
<1>4. delivered[c] # "none" => delivered[c] = reply[c]
  BY DEF IInv, DeliveredIsHeard
<1>5. \/ whitelist' = whitelist
      \/ /\ call[c].kind = "user_decision"
         /\ whitelist' = [whitelist EXCEPT ![SessionOf[c]] = @ \cup Levels(reply[c])]
  BY <1>1 DEF Continue, CallState, Kind
<1>6. /\ whitelist' \in [Session -> SUBSET {"low", "medium"}]
      /\ \A s \in Session : \A l \in whitelist'[s] : Covered(s, l)
  <2>1. \A s \in Session : \A l \in whitelist[s] : Covered(s, l)
    BY DEF IInv, ListsAreGranted
  <2>2. CASE whitelist' = whitelist
    BY <1>1, <2>1, <2>2
  <2>3. CASE /\ call[c].kind = "user_decision"
             /\ whitelist' = [whitelist EXCEPT ![SessionOf[c]] = @ \cup Levels(reply[c])]
    <3>1. Levels(reply[c]) \subseteq {"low", "medium"} /\ SessionOf[c] \in Session
      BY <1>1, LevelsTyped
    <3>2. \A l \in Levels(reply[c]) : Covered(SessionOf[c], l)
      <4>1. CASE delivered[c] = "none"
        BY <1>3, <2>3, <4>1 DEF Levels
      <4>2. CASE delivered[c] # "none"
        BY <1>4, <2>3, <4>2 DEF IInv, ListsAreGranted, Levels, NamedLevel, Covered
      <4>3. QED BY <4>1, <4>2
    <3>3. QED BY <1>1, <2>1, <2>3, <3>1, <3>2
  <2>4. QED BY <1>5, <2>2, <2>3
<1>7. TypeOK'
  BY <1>1, <1>2, <1>6, Typed, TypedNext DEF IInv, Registry
<1>8. WaitersAreRegistered'
  <2>1. \A d \in Call : In(pending, d)' <=> In(pending, d)
    BY <1>1 DEF In
  <2>2. \A d \in Call : Registered(d) <=> In(pending, d)
    BY RegisteredIsIn
  <2>3. QED BY <1>1, <1>2, <2>1, <2>2, OpenNext DEF IInv, WaitersAreRegistered
<1>9. SyntheticRepliesFit' /\ DeliveredIsHeard'
  BY <1>1, <1>2 DEF IInv, SyntheticRepliesFit, DeliveredIsHeard
<1>10. ListsAreGranted'
  BY <1>1, <1>2, <1>6 DEF IInv, ListsAreGranted, Covered
<1>11. OnlyConsentedCallsRun'
  <2>1. call'[c].at = "ran" /\ call'[c].kind = "user_decision" =>
           delivered[c] \in Decision \ {"deny"}
    BY <1>2, <1>3, <1>4
  <2>2. QED BY <1>1, <1>2, <2>1 DEF IInv, OnlyConsentedCallsRun, Covered
<1>12. QED BY <1>7, <1>8, <1>9, <1>10, <1>11 DEF IInv

-----------------------------------------------------------------------------

LEMMA InitInvariant == Init => IInv
<1> SUFFICES ASSUME Init PROVE IInv
    OBVIOUS
<1>1. TypeOK
  BY EmptySeq
     DEF Init, NewCall, TypeOK, Place, Kind, Risk, Reply, Decision, IsInjective
<1>2. /\ WaitersAreRegistered /\ SyntheticRepliesFit /\ DeliveredIsHeard
      /\ ListsAreGranted /\ OnlyConsentedCallsRun
  BY DEF Init, NewCall, WaitersAreRegistered, Registered, SyntheticRepliesFit,
         DeliveredIsHeard, ListsAreGranted, OnlyConsentedCallsRun, Covered
<1>3. QED BY <1>1, <1>2 DEF IInv

LEMMA InvariantStep == IInv /\ [Next]_vars => IInv'
<1> SUFFICES ASSUME IInv, [Next]_vars PROVE IInv'
    OBVIOUS
<1>1. ASSUME NEW c \in Call,
             StartAsking(c) \/ StartAllowed(c) \/ Answer(c) \/ Timeout(c) \/ Continue(c)
      PROVE  IInv'
  BY <1>1, StartAskingStep, StartAllowedStep, AnswerStep, ContinueStep
<1>2. CASE UNCHANGED vars
  <2> USE <1>2 DEF vars
  <2>1. TypeOK'
    BY DEF IInv, TypeOK
  <2>2. /\ WaitersAreRegistered' /\ SyntheticRepliesFit' /\ DeliveredIsHeard'
        /\ ListsAreGranted' /\ OnlyConsentedCallsRun'
    BY DEF IInv, WaitersAreRegistered, Registered, SyntheticRepliesFit,
           DeliveredIsHeard, ListsAreGranted, OnlyConsentedCallsRun, Covered
  <2>3. QED BY <2>1, <2>2 DEF IInv
<1>3. QED BY <1>1, <1>2 DEF Next

LEMMA ApprovalInvariant == Spec => []IInv
BY InitInvariant, InvariantStep, PTL DEF Spec

\* Every reachable state is well typed; the registry never holds more than
\* MAX_PENDING_ASKS asks and each at most once (registerAsk and its evictions).
THEOREM TypeCorrect == Spec => []TypeOK
<1>1. IInv => TypeOK
  BY DEF IInv
<1>2. QED BY <1>1, ApprovalInvariant, PTL

\* No gated tool (wrapToolWithApproval) runs that the user has not allowed, itself or
\* by a level in this session that covers its risk: its own, or medium for low.
THEOREM OnlyConsented == Spec => []OnlyConsentedCallsRun
<1>1. IInv => OnlyConsentedCallsRun
  BY DEF IInv
<1>2. QED BY <1>1, ApprovalInvariant, PTL

\* An answer that the route (POST /api/chat/answer) said is delivered is the one the
\* call goes on with.
THEOREM AnswersAreHeard == Spec => []DeliveredIsHeard
<1>1. IInv => DeliveredIsHeard
  BY DEF IInv
<1>2. QED BY <1>1, ApprovalInvariant, PTL

\* A call that waits without a reply is in the registry, and what is in the registry
\* has none (registerAsk, resolveAsk).
THEOREM WaitersRegistered == Spec => []WaitersAreRegistered
<1>1. IInv => WaitersAreRegistered
  BY DEF IInv
<1>2. QED BY <1>1, ApprovalInvariant, PTL

=============================================================================
