---------------------------- MODULE WebChatProofs ----------------------------
(***************************************************************************)
(* Theorems about the turns of web chats, for any number of chats, of      *)
(* turns, of subagents and of sessions that the tables have room for.      *)
(***************************************************************************)
EXTENDS WebChat, SequenceTheorems, TLAPS

USE TurnsAssumption, FollowedAssumption, SubagentsAssumption, TextAssumption,
    SessionsAssumption

-----------------------------------------------------------------------------
(* The orders of the two tables. *)

LEMMA SetOfSeq ==
    ASSUME NEW S, NEW s \in Seq(S)
    PROVE  /\ Len(s) \in Nat /\ DOMAIN s = 1..Len(s) /\ ToSet(s) \subseteq S
           /\ ToSet(s) = {s[i] : i \in 1..Len(s)}
           /\ \A i \in 1..Len(s) : s[i] \in S /\ s[i] \in ToSet(s)
BY LenProperties, ElementOfSeq DEF ToSet

LEMMA RemovedAt ==
    ASSUME NEW S, NEW s \in Seq(S), NEW i \in 1..Len(s)
    PROVE  /\ RemoveAt(s, i) \in Seq(S) /\ Len(RemoveAt(s, i)) = Len(s) - 1
           /\ \A j \in 1..(Len(s) - 1) : RemoveAt(s, i)[j] = IF j < i THEN s[j] ELSE s[j + 1]
<1> DEFINE a == SubSeq(s, 1, i - 1)
           b == SubSeq(s, i + 1, Len(s))
           n == Len(s)
<1>1. n \in Nat /\ i \in Int /\ 1 <= i /\ i <= n /\ \A j \in 1..n : s[j] \in S
  BY SetOfSeq
<1>2. /\ a \in Seq(S) /\ Len(a) = i - 1
      /\ \A j \in 1..(i - 1) : a[j] = s[j]
  <2>1. \A j \in 1..(i - 1) : s[j] \in S
    BY <1>1
  <2>2. /\ a \in Seq(S) /\ Len(a) = IF 1 <= i - 1 THEN (i - 1) - 1 + 1 ELSE 0
        /\ \A j \in 1..((i - 1) - 1 + 1) : a[j] = s[1 + j - 1]
    BY <1>1, <2>1, SubSeqProperties
  <2> HIDE DEF a
  <2>3. Len(a) = i - 1 /\ (i - 1) - 1 + 1 = i - 1
    BY <1>1, <2>2
  <2>4. \A j \in 1..(i - 1) : 1 + j - 1 = j
    OBVIOUS
  <2>5. QED BY <2>2, <2>3, <2>4
<1>3. /\ b \in Seq(S) /\ Len(b) = n - i
      /\ \A j \in 1..(n - i) : b[j] = s[i + j]
  <2>1. \A j \in (i + 1)..n : s[j] \in S
    BY <1>1
  <2>2. /\ b \in Seq(S) /\ Len(b) = IF i + 1 <= n THEN n - (i + 1) + 1 ELSE 0
        /\ \A j \in 1..(n - (i + 1) + 1) : b[j] = s[(i + 1) + j - 1]
    BY <1>1, <2>1, SubSeqProperties
  <2> HIDE DEF b, n
  <2>3. Len(b) = n - i /\ n - (i + 1) + 1 = n - i
    BY <1>1, <2>2
  <2>4. \A j \in 1..(n - i) : (i + 1) + j - 1 = i + j
    BY <1>1
  <2>5. QED BY <2>2, <2>3, <2>4
<1>4. RemoveAt(s, i) = a \o b
  BY DEF RemoveAt
<1> HIDE DEF a, b, n
<1>5. /\ a \o b \in Seq(S) /\ Len(a \o b) = Len(a) + Len(b)
      /\ \A j \in 1..Len(a) + Len(b) :
            (a \o b)[j] = IF j <= Len(a) THEN a[j] ELSE b[j - Len(a)]
  <2>1. a \in Seq(S) /\ b \in Seq(S)
    BY <1>2, <1>3
  <2>2. QED BY <2>1, ConcatProperties
<1>6. Len(a) + Len(b) = n - 1
  BY <1>1, <1>2, <1>3
<1>7. ASSUME NEW j \in 1..(n - 1)
      PROVE  (a \o b)[j] = IF j < i THEN s[j] ELSE s[j + 1]
  <2>1. CASE j < i
    <3>1. j <= Len(a) /\ j \in 1..(i - 1)
      BY <1>1, <1>2, <2>1
    <3>2. QED BY <1>2, <1>5, <1>6, <2>1, <3>1
  <2>2. CASE ~(j < i)
    <3>1. /\ ~(j <= Len(a)) /\ j - Len(a) \in 1..(n - i)
          /\ i + (j - Len(a)) = j + 1
      BY <1>1, <1>2, <2>2
    <3>2. (a \o b)[j] = b[j - Len(a)]
      BY <1>5, <1>6, <3>1
    <3>3. QED BY <1>3, <2>2, <3>1, <3>2
  <2>3. QED BY <2>1, <2>2
<1>8. QED BY <1>4, <1>5, <1>6, <1>7 DEF n

LEMMA WithoutIs ==
    ASSUME NEW S, NEW s \in Seq(S), IsInjective(s), NEW c
    PROVE  /\ Without(s, c) \in Seq(S) /\ IsInjective(Without(s, c))
           /\ ToSet(Without(s, c)) = ToSet(s) \ {c}
           /\ Len(Without(s, c)) = IF c \in ToSet(s) THEN Len(s) - 1 ELSE Len(s)
<1> DEFINE n == Len(s)
<1>1. /\ n \in Nat /\ DOMAIN s = 1..n
      /\ \A j, k \in 1..n : s[j] = s[k] => j = k
  BY SetOfSeq DEF IsInjective
<1>2. CASE c \notin ToSet(s)
  BY <1>2 DEF Without
<1>3. CASE c \in ToSet(s)
  <2> DEFINE i == CHOOSE j \in DOMAIN s : s[j] = c
             r == RemoveAt(s, i)
  <2>1. i \in 1..n /\ s[i] = c
    <3>1. \E j \in DOMAIN s : s[j] = c
      BY <1>3 DEF ToSet
    <3>2. QED BY <1>1, <3>1
  <2>2. Without(s, c) = r
    BY <1>3 DEF Without
  <2> HIDE DEF i
  <2>3. /\ r \in Seq(S) /\ Len(r) = n - 1
        /\ \A j \in 1..(n - 1) : r[j] = IF j < i THEN s[j] ELSE s[j + 1]
    BY <2>1, RemovedAt
  <2> HIDE DEF r, n
  <2>4. DOMAIN r = 1..(n - 1) /\ ToSet(r) = {r[j] : j \in 1..(n - 1)}
    BY <2>3, SetOfSeq
  <2>5. ToSet(s) = {s[j] : j \in 1..n}
    BY SetOfSeq DEF n
  <2>6. ASSUME NEW j \in 1..(n - 1)
        PROVE  \E k \in 1..n : k # i /\ r[j] = s[k] /\ k = IF j < i THEN j ELSE j + 1
    <3>1. CASE j < i
      <4>1. j \in 1..n /\ j # i /\ r[j] = s[j]
        BY <1>1, <2>1, <2>3, <3>1
      <4>2. QED BY <3>1, <4>1
    <3>2. CASE ~(j < i)
      <4>1. j + 1 \in 1..n /\ j + 1 # i /\ r[j] = s[j + 1]
        BY <1>1, <2>1, <2>3, <3>2
      <4>2. QED BY <3>2, <4>1
    <3>3. QED BY <3>1, <3>2
  <2>7. IsInjective(r)
    <3>1. ASSUME NEW j \in 1..(n - 1), NEW k \in 1..(n - 1), r[j] = r[k]
          PROVE  j = k
      <4>1. (IF j < i THEN j ELSE j + 1) = (IF k < i THEN k ELSE k + 1)
        BY <1>1, <2>6, <3>1
      <4>2. QED BY <2>1, <4>1
    <3>2. QED BY <2>4, <3>1 DEF IsInjective
  <2>8. ToSet(r) = ToSet(s) \ {c}
    <3>1. ASSUME NEW x \in ToSet(r) PROVE x \in ToSet(s) \ {c}
      <4>1. PICK j \in 1..(n - 1) : x = r[j]
        BY <2>4
      <4>2. PICK k \in 1..n : k # i /\ r[j] = s[k]
        BY <2>6
      <4>3. QED BY <1>1, <2>1, <2>5, <4>1, <4>2
    <3>2. ASSUME NEW x \in ToSet(s) \ {c} PROVE x \in ToSet(r)
      <4>1. PICK k \in 1..n : x = s[k]
        BY <2>5
      <4>2. k # i
        BY <2>1, <4>1
      <4>3. CASE k < i
        <5>1. k \in 1..(n - 1) /\ r[k] = s[k]
          BY <1>1, <2>1, <2>3, <4>3
        <5>2. QED BY <2>4, <4>1, <5>1
      <4>4. CASE k > i
        <5>1. k - 1 \in 1..(n - 1) /\ ~(k - 1 < i) /\ (k - 1) + 1 = k
          BY <1>1, <2>1, <4>4
        <5>2. r[k - 1] = s[k]
          BY <2>3, <5>1
        <5>3. QED BY <2>4, <4>1, <5>1, <5>2
      <4>5. QED BY <2>1, <4>2, <4>3, <4>4
    <3>3. QED BY <3>1, <3>2
  <2>9. QED BY <1>3, <2>2, <2>3, <2>7, <2>8 DEF n
<1>4. QED BY <1>2, <1>3

LEMMA ToEndIs ==
    ASSUME NEW S, NEW s \in Seq(S), IsInjective(s), NEW c \in S
    PROVE  /\ ToEnd(s, c) \in Seq(S) /\ IsInjective(ToEnd(s, c))
           /\ ToSet(ToEnd(s, c)) = ToSet(s) \cup {c}
           /\ Len(ToEnd(s, c)) = IF c \in ToSet(s) THEN Len(s) ELSE Len(s) + 1
           /\ Len(ToEnd(s, c)) > 1 =>
                 Head(ToEnd(s, c)) \in ToSet(s) /\ Head(ToEnd(s, c)) # c
<1> DEFINE r == Without(s, c)
           e == Append(r, c)
           n == Len(r)
<1>1. /\ r \in Seq(S) /\ IsInjective(r) /\ ToSet(r) = ToSet(s) \ {c}
      /\ n = IF c \in ToSet(s) THEN Len(s) - 1 ELSE Len(s)
      /\ Len(s) \in Nat
  BY WithoutIs, SetOfSeq
<1>2. e = ToEnd(s, c)
  BY DEF ToEnd
<1> HIDE DEF r
<1>3. /\ n \in Nat /\ DOMAIN r = 1..n /\ ToSet(r) = {r[j] : j \in 1..n}
      /\ \A j \in 1..n : r[j] \in ToSet(r)
  BY <1>1, SetOfSeq
<1>4. /\ e \in Seq(S) /\ Len(e) = n + 1 /\ e[n + 1] = c
      /\ \A j \in 1..n : e[j] = r[j]
  BY <1>1, AppendProperties
<1>5. DOMAIN e = 1..(n + 1) /\ ToSet(e) = {e[j] : j \in 1..(n + 1)} /\ Head(e) = e[1]
  <2>1. e \in Seq(S) /\ Len(e) = n + 1 /\ e # <<>>
    BY <1>3, <1>4, EmptySeq
  <2> HIDE DEF e, n
  <2>2. Head(e) = e[1]
    BY <2>1, HeadTailProperties
  <2>3. QED BY <2>1, <2>2, SetOfSeq
<1> HIDE DEF e, n
<1>6. ToSet(e) = ToSet(r) \cup {c}
  <2>1. \A j \in 1..(n + 1) : j \in 1..n \/ j = n + 1
    BY <1>3
  <2>2. n + 1 \in 1..(n + 1) /\ \A j \in 1..n : j \in 1..(n + 1)
    BY <1>3
  <2>3. QED BY <1>3, <1>4, <1>5, <2>1, <2>2
<1>7. IsInjective(e)
  <2>1. ASSUME NEW j \in 1..(n + 1), NEW k \in 1..(n + 1), e[j] = e[k]
        PROVE  j = k
    <3>1. CASE j \in 1..n /\ k \in 1..n
      BY <1>1, <1>3, <1>4, <2>1, <3>1 DEF IsInjective
    <3>2. CASE j = n + 1 /\ k \in 1..n
      BY <1>1, <1>3, <1>4, <2>1, <3>2
    <3>3. CASE j \in 1..n /\ k = n + 1
      BY <1>1, <1>3, <1>4, <2>1, <3>3
    <3>4. QED BY <1>3, <3>1, <3>2, <3>3
  <2>2. QED BY <1>5, <2>1 DEF IsInjective
<1>8. Len(e) > 1 => Head(e) \in ToSet(s) /\ Head(e) # c
  <2>1. ASSUME Len(e) > 1 PROVE 1 \in 1..n
    BY <1>3, <1>4, <2>1
  <2>2. QED BY <1>1, <1>3, <1>4, <1>5, <2>1
<1>9. Len(e) = IF c \in ToSet(s) THEN Len(s) ELSE Len(s) + 1
  <2>1. CASE c \in ToSet(s)
    BY <1>1, <1>4, <2>1
  <2>2. CASE c \notin ToSet(s)
    BY <1>1, <1>4, <2>2
  <2>3. QED BY <2>1, <2>2
<1>10. ToSet(e) = ToSet(s) \cup {c}
  BY <1>1, <1>6
<1>11. QED BY <1>2, <1>4, <1>7, <1>8, <1>9, <1>10

-----------------------------------------------------------------------------
(* What the operators of the service do to what is shared. *)

Tables(w) == w \in Web /\ Ordered(w)

Id == Chats \cup Subagents

Session == [status : Status, turn : Turns \cup {NoTurn}]

LEMMA TablesAre ==
    ASSUME NEW w, Tables(w)
    PROVE  /\ w.session \in [Id -> Session] /\ w.meta \in [Chats -> Turns \cup {NoTurn}]
           /\ w.active \in Seq(Id) /\ w.recent \in Seq(Chats)
           /\ Len(w.active) \in Nat /\ Len(w.recent) \in Nat
           /\ w.events \in [Chats -> Seq(Event)]
           /\ w.spawned \in SUBSET Subagents /\ w.aborted \in SUBSET Turns
           /\ w.lost \in SUBSET Turns
           /\ IsInjective(w.active) /\ IsInjective(w.recent)
           /\ ToSet(w.active) = {c \in Id : HasSession(w, c)}
           /\ ToSet(w.recent) = {c \in Chats : w.meta[c] # NoTurn}
BY LenProperties DEF Tables, Web, Ordered, Id, Session

Note(kind, by) == [kind |-> kind, by |-> by]

LEMMA NoteIs ==
    ASSUME NEW kind, NEW by
    PROVE  /\ Note(kind, by).kind = kind /\ Note(kind, by).by = by
           /\ kind \in EventKind \ {"text"} /\ by = NoTurn => Note(kind, by) \in Event
           /\ kind = "text" /\ by \in Turns => Note(kind, by) \in Event
<1>1. Note(kind, by).kind = kind /\ Note(kind, by).by = by
  BY DEF Note
<1>2. kind \in EventKind \ {"text"} /\ by = NoTurn => Note(kind, by) \in Event
  BY DEF Note, Event
<1>3. kind = "text" /\ by \in Turns => Note(kind, by) \in Event
  BY DEF Note, Event
<1>4. QED BY <1>1, <1>2, <1>3

\* Only the events of one chat differ.
LEMMA EmittedIs ==
    ASSUME NEW w, Tables(w), NEW c \in Chats, NEW kind, NEW by, Note(kind, by) \in Event,
           NEW v, v = EmittedBy(w, c, kind, by)
    PROVE  /\ Tables(v)
           /\ v.session = w.session /\ v.meta = w.meta
           /\ v.active = w.active /\ v.recent = w.recent
           /\ v.spawned = w.spawned /\ v.aborted = w.aborted /\ v.lost = w.lost
           /\ v.events[c] = Append(w.events[c], Note(kind, by))
           /\ \A d \in Chats : d # c => v.events[d] = w.events[d]
<1> DEFINE e == Note(kind, by)
           log == [w.events EXCEPT ![c] = Append(w.events[c], e)]
<1>1. w \in Web /\ v = [w EXCEPT !.events = log]
  BY DEF Tables, EmittedBy, Web, Note
<1>2. e \in Event
  OBVIOUS
<1>3. /\ log \in [Chats -> Seq(Event)] /\ log[c] = Append(w.events[c], e)
      /\ \A d \in Chats : d # c => log[d] = w.events[d]
  <2>1. w.events \in [Chats -> Seq(Event)]
    BY TablesAre
  <2>2. Append(w.events[c], e) \in Seq(Event)
    BY <1>2, <2>1, AppendProperties
  <2>3. QED BY <2>1, <2>2
<1> HIDE DEF log, e
<1>4. /\ v \in Web /\ v.events = log
      /\ v.session = w.session /\ v.meta = w.meta
      /\ v.active = w.active /\ v.recent = w.recent
      /\ v.spawned = w.spawned /\ v.aborted = w.aborted /\ v.lost = w.lost
  BY <1>1, <1>3 DEF Web
<1>5. Tables(v)
  BY <1>4 DEF Tables, Ordered, HasSession
<1>6. QED BY <1>3, <1>4, <1>5 DEF e

\* v is w with e at the end of the events of c.
Tells(w, v, c, e) ==
    /\ v.session = w.session /\ v.meta = w.meta
    /\ v.active = w.active /\ v.recent = w.recent
    /\ v.spawned = w.spawned /\ v.aborted = w.aborted /\ v.lost = w.lost
    /\ v.events[c] = Append(w.events[c], e)
    /\ \A d \in Chats : d # c => v.events[d] = w.events[d]

LEMMA EmittedByIs ==
    ASSUME NEW w, Tables(w), NEW c \in Chats, NEW kind, NEW by, Note(kind, by) \in Event,
           NEW v, v = EmittedBy(w, c, kind, by)
    PROVE  Tables(v) /\ Tells(w, v, c, Note(kind, by))
<1>1. Tables(v)
  BY EmittedIs
<1>2. Tells(w, v, c, Note(kind, by))
  BY EmittedIs DEF Tells
<1>3. QED BY <1>1, <1>2

LEMMA MarkedIs ==
    ASSUME NEW w, Tables(w), NEW c \in Chats, NEW kind \in EventKind \ {"text"},
           NEW v, v = Emitted(w, c, kind)
    PROVE  Tables(v) /\ Tells(w, v, c, Note(kind, NoTurn))
<1>1. Note(kind, NoTurn) \in Event /\ v = EmittedBy(w, c, kind, NoTurn)
  BY NoteIs DEF Emitted
<1>2. QED BY <1>1, EmittedByIs

\* c has another status and is the youngest.
Restates(w, v, c, status) ==
    /\ v.meta = w.meta /\ v.recent = w.recent /\ Len(v.active) = Len(w.active)
    /\ v.spawned = w.spawned /\ v.aborted = w.aborted /\ v.lost = w.lost
    /\ v.events = w.events
    /\ v.session[c].status = status /\ v.session[c].turn = w.session[c].turn
    /\ \A d \in Id : d # c => v.session[d] = w.session[d]

LEMMA WithStatusIs ==
    ASSUME NEW w, Tables(w), NEW c \in Chats, HasSession(w, c),
           NEW status \in Status \ {"none"}, NEW v, v = WithStatus(w, c, status)
    PROVE  Tables(v) /\ Restates(w, v, c, status)
<1> DEFINE s == [w.session EXCEPT ![c].status = status]
           a == ToEnd(w.active, c)
<1>1. w \in Web /\ v = [w EXCEPT !.session = s, !.active = a]
  BY DEF Tables, WithStatus, Web
<1>2. /\ s \in [Id -> Session] /\ s[c].status = status /\ s[c].turn = w.session[c].turn
      /\ \A d \in Id : d # c => s[d] = w.session[d]
  <2>1. w.session \in [Id -> Session] /\ c \in Id /\ status \in Status
    BY TablesAre DEF Id
  <2>2. /\ w.session[c] \in Session
        /\ [w.session[c] EXCEPT !.status = status] \in Session
        /\ [w.session[c] EXCEPT !.status = status].status = status
        /\ [w.session[c] EXCEPT !.status = status].turn = w.session[c].turn
    BY <2>1 DEF Session
  <2>3. QED BY <2>1, <2>2
<1>3. /\ a \in Seq(Id) /\ IsInjective(a) /\ ToSet(a) = ToSet(w.active)
      /\ Len(a) = Len(w.active)
  <2>1. c \in Id /\ w.active \in Seq(Id) /\ IsInjective(w.active)
    BY TablesAre DEF Id
  <2>2. c \in ToSet(w.active)
    BY <2>1, TablesAre
  <2>3. ToSet(w.active) \cup {c} = ToSet(w.active)
    BY <2>2
  <2>4. QED BY <2>1, <2>2, <2>3, ToEndIs
<1> HIDE DEF s, a
<1>4. /\ v \in Web /\ v.events = w.events /\ v.session = s /\ v.active = a
      /\ v.meta = w.meta /\ v.recent = w.recent
      /\ v.spawned = w.spawned /\ v.aborted = w.aborted /\ v.lost = w.lost
  BY <1>1, <1>2, <1>3 DEF Web, Id, Session
<1>5. \A d \in Id : HasSession(v, d) <=> HasSession(w, d)
  BY <1>2, <1>4 DEF HasSession
<1>6. Tables(v)
  BY <1>3, <1>4, <1>5, TablesAre DEF Tables, Ordered, Id
<1>7. QED BY <1>2, <1>3, <1>4, <1>6 DEF Restates

LEMMA DeletedIs ==
    ASSUME NEW w, Tables(w), NEW c \in Id
    PROVE  LET v == Deleted(w, c)
           IN  /\ Tables(v) /\ v.meta = w.meta /\ v.recent = w.recent
               /\ Len(v.active) = IF HasSession(w, c) THEN Len(w.active) - 1
                                  ELSE Len(w.active)
               /\ v.spawned = w.spawned /\ v.aborted = w.aborted /\ v.lost = w.lost
               /\ v.events = w.events /\ ~HasSession(v, c)
               /\ \A d \in Id : d # c => v.session[d] = w.session[d]
<1> DEFINE s == [w.session EXCEPT ![c] = NoSession]
           a == Without(w.active, c)
           v == [w EXCEPT !.session = s, !.active = a]
<1>1. w \in Web /\ Deleted(w, c) = v
  BY DEF Tables, Deleted, Web
<1>2. /\ s \in [Id -> Session] /\ s[c].status = "none"
      /\ \A d \in Id : d # c => s[d] = w.session[d]
  BY TablesAre DEF Session, NoSession, Status
<1>3. /\ a \in Seq(Id) /\ IsInjective(a) /\ ToSet(a) = ToSet(w.active) \ {c}
      /\ Len(a) = IF HasSession(w, c) THEN Len(w.active) - 1 ELSE Len(w.active)
  <2>1. c \in ToSet(w.active) <=> HasSession(w, c)
    BY TablesAre
  <2>2. QED BY <2>1, TablesAre, WithoutIs
<1> HIDE DEF s, a
<1>4. /\ v \in Web /\ v.events = w.events /\ v.session = s /\ v.active = a
      /\ v.meta = w.meta /\ v.recent = w.recent
      /\ v.spawned = w.spawned /\ v.aborted = w.aborted /\ v.lost = w.lost
  BY <1>1, <1>2, <1>3 DEF Web, Id, Session
<1> HIDE DEF v
<1>5. \A d \in Id : HasSession(v, d) <=> HasSession(w, d) /\ d # c
  BY <1>2, <1>4 DEF HasSession
<1>6. Tables(v)
  BY <1>3, <1>4, <1>5, TablesAre DEF Tables, Ordered, Id
<1>7. QED BY <1>1, <1>2, <1>3, <1>4, <1>5, <1>6

Aborts(w, v, t) ==
    /\ v.meta = w.meta /\ v.recent = w.recent
    /\ v.active = w.active /\ v.session = w.session
    /\ v.spawned = w.spawned /\ v.lost = w.lost /\ v.events = w.events
    /\ v.aborted = w.aborted \cup ({t} \ {NoTurn})

LEMMA AbortedIs ==
    ASSUME NEW w, Tables(w), NEW t \in Turns \cup {NoTurn}, NEW v, v = Aborted(w, t)
    PROVE  Tables(v) /\ Aborts(w, v, t)
<1>1. w \in Web
  BY DEF Tables
<1>2. v \in Web /\ Aborts(w, v, t)
  BY <1>1 DEF Aborted, Aborts, Web
<1>3. Tables(v)
  BY <1>2 DEF Tables, Aborts, Ordered, HasSession
<1>4. QED BY <1>2, <1>3

LEMMA EntryDroppedIs ==
    ASSUME NEW w, Tables(w), NEW c \in Chats, NEW v, v = EntryDropped(w, c)
    PROVE  /\ Tables(v) /\ v.meta = [w.meta EXCEPT ![c] = NoTurn]
           /\ Len(v.recent) = IF w.meta[c] # NoTurn THEN Len(w.recent) - 1
                              ELSE Len(w.recent)
           /\ v.active = w.active /\ v.session = w.session /\ v.spawned = w.spawned
           /\ v.lost = w.lost /\ v.events = w.events /\ v.aborted = w.aborted
<1> DEFINE m == [w.meta EXCEPT ![c] = NoTurn]
           a == Without(w.recent, c)
<1>1. w \in Web /\ v = [w EXCEPT !.meta = m, !.recent = a]
  BY DEF Tables, EntryDropped, Web
<1>2. /\ m \in [Chats -> Turns \cup {NoTurn}] /\ m[c] = NoTurn
      /\ \A d \in Chats : d # c => m[d] = w.meta[d]
  BY TablesAre
<1>3. /\ a \in Seq(Chats) /\ IsInjective(a) /\ ToSet(a) = ToSet(w.recent) \ {c}
      /\ Len(a) = IF w.meta[c] # NoTurn THEN Len(w.recent) - 1 ELSE Len(w.recent)
  <2>1. c \in ToSet(w.recent) <=> w.meta[c] # NoTurn
    BY TablesAre
  <2>2. QED BY <2>1, TablesAre, WithoutIs
<1>4. m = [w.meta EXCEPT ![c] = NoTurn]
  OBVIOUS
<1> HIDE DEF m, a
<1>5. /\ v \in Web /\ v.events = w.events /\ v.session = w.session /\ v.active = w.active
      /\ v.meta = m /\ v.recent = a
      /\ v.spawned = w.spawned /\ v.aborted = w.aborted /\ v.lost = w.lost
  BY <1>1, <1>2, <1>3 DEF Web
<1>6. Tables(v)
  <2>1. \A d \in Id : HasSession(v, d) <=> HasSession(w, d)
    BY <1>5 DEF HasSession
  <2>2. {d \in Chats : v.meta[d] # NoTurn} = {d \in Chats : w.meta[d] # NoTurn} \ {c}
    BY <1>2, <1>5
  <2>3. QED BY <1>3, <1>5, <2>1, <2>2, TablesAre DEF Tables, Ordered, Id
<1>7. QED BY <1>3, <1>4, <1>5, <1>6

\* The session and the entry go, the turn of the entry is aborted and the subscribers
\* of the session are told.
Stops(w, v, c) ==
    /\ ~HasSession(v, c) /\ v.meta = [w.meta EXCEPT ![c] = NoTurn]
    /\ Len(v.recent) = IF w.meta[c] # NoTurn THEN Len(w.recent) - 1 ELSE Len(w.recent)
    /\ Len(v.active) <= Len(w.active)
    /\ v.spawned = w.spawned /\ v.lost = w.lost
    /\ v.aborted = w.aborted \cup ({w.meta[c]} \ {NoTurn})
    /\ \A d \in Id : d # c => v.session[d] = w.session[d]
    /\ v.events[c] = IF HasSession(w, c)
                     THEN Append(w.events[c], Note("failed", NoTurn))
                     ELSE w.events[c]
    /\ \A d \in Chats : d # c => v.events[d] = w.events[d]

LEMMA StoppedIs ==
    ASSUME NEW w, Tables(w), NEW c \in Chats, NEW v, v = Stopped(w, c)
    PROVE  Tables(v) /\ Stops(w, v, c)
<1> DEFINE told == Aborted(w, w.meta[c])
           sent == Emitted(told, c, "failed")
           gone == Deleted(sent, c)
<1>1. w.meta[c] \in Turns \cup {NoTurn} /\ c \in Id /\ Len(w.active) \in Nat
  BY TablesAre DEF Id
<1>2. /\ Tables(told) /\ told.meta = w.meta /\ told.recent = w.recent
      /\ told.active = w.active /\ told.session = w.session
      /\ told.spawned = w.spawned /\ told.lost = w.lost /\ told.events = w.events
      /\ told.aborted = w.aborted \cup ({w.meta[c]} \ {NoTurn})
  <2>1. Tables(told) /\ Aborts(w, told, w.meta[c])
    BY <1>1, AbortedIs
  <2>2. QED BY <2>1 DEF Aborts
<1>3. v = EntryDropped(IF HasSession(told, c) THEN gone ELSE told, c)
  BY DEF Stopped
<1> HIDE DEF told
<1>4. HasSession(told, c) <=> HasSession(w, c)
  BY <1>2 DEF HasSession
<1>5. CASE HasSession(w, c)
  <2>1. "failed" \in EventKind \ {"text"}
    BY DEF EventKind
  <2>2. /\ Tables(sent) /\ sent.session = w.session /\ sent.meta = w.meta
        /\ sent.active = w.active /\ sent.recent = w.recent
        /\ sent.spawned = w.spawned /\ sent.aborted = told.aborted /\ sent.lost = w.lost
        /\ sent.events[c] = Append(w.events[c], Note("failed", NoTurn))
        /\ \A d \in Chats : d # c => sent.events[d] = w.events[d]
    <3>1. /\ Tables(sent) /\ sent.session = told.session /\ sent.meta = told.meta
          /\ sent.active = told.active /\ sent.recent = told.recent
          /\ sent.spawned = told.spawned /\ sent.aborted = told.aborted
          /\ sent.lost = told.lost
          /\ sent.events[c] = Append(told.events[c], Note("failed", NoTurn))
          /\ \A d \in Chats : d # c => sent.events[d] = told.events[d]
      <4>1. Tables(told)
        BY <1>2
      <4>2. sent = Emitted(told, c, "failed")
        OBVIOUS
      <4> HIDE DEF sent
      <4>3. Tables(sent) /\ Tells(told, sent, c, Note("failed", NoTurn))
        BY <2>1, <4>1, <4>2, MarkedIs
      <4>4. QED BY <4>3 DEF Tells
    <3> HIDE DEF sent
    <3>2. QED BY <1>2, <3>1
  <2> HIDE DEF sent
  <2>3. /\ Tables(gone) /\ gone.meta = w.meta /\ gone.recent = w.recent
        /\ Len(gone.active) = IF HasSession(sent, c) THEN Len(w.active) - 1 ELSE Len(w.active)
        /\ gone.spawned = w.spawned /\ gone.aborted = told.aborted /\ gone.lost = w.lost
        /\ gone.events = sent.events /\ ~HasSession(gone, c)
        /\ \A d \in Id : d # c => gone.session[d] = w.session[d]
    BY <1>1, <2>2, DeletedIs
  <2> HIDE DEF gone
  <2>4. v = EntryDropped(gone, c)
    BY <1>3, <1>4, <1>5
  <2>5. Len(gone.active) <= Len(w.active)
    BY <1>1, <2>3
  <2>6. /\ Tables(v) /\ v.meta = [w.meta EXCEPT ![c] = NoTurn]
        /\ Len(v.recent) = IF w.meta[c] # NoTurn THEN Len(w.recent) - 1 ELSE Len(w.recent)
        /\ v.active = gone.active /\ v.session = gone.session /\ v.spawned = w.spawned
        /\ v.lost = w.lost /\ v.events = sent.events /\ v.aborted = told.aborted
    BY <2>3, <2>4, EntryDroppedIs
  <2>7. ~HasSession(v, c)
    BY <2>3, <2>6 DEF HasSession
  <2>8. QED BY <1>2, <1>5, <2>2, <2>3, <2>4, <2>5, <2>6, <2>7 DEF Stops
<1>6. CASE ~HasSession(w, c)
  <2>1. /\ Tables(v) /\ v.meta = [w.meta EXCEPT ![c] = NoTurn]
        /\ Len(v.recent) = IF w.meta[c] # NoTurn THEN Len(w.recent) - 1 ELSE Len(w.recent)
        /\ v.active = w.active /\ v.session = w.session /\ v.spawned = w.spawned
        /\ v.lost = w.lost /\ v.events = w.events /\ v.aborted = told.aborted
    <3>1. /\ Tables(v) /\ v.meta = [told.meta EXCEPT ![c] = NoTurn]
          /\ Len(v.recent) = IF told.meta[c] # NoTurn THEN Len(told.recent) - 1
                             ELSE Len(told.recent)
          /\ v.active = told.active /\ v.session = told.session /\ v.spawned = told.spawned
          /\ v.lost = told.lost /\ v.events = told.events /\ v.aborted = told.aborted
      <4>1. v = EntryDropped(told, c)
        BY <1>3, <1>4, <1>6
      <4>2. QED BY <1>2, <4>1, EntryDroppedIs
    <3>2. QED BY <1>2, <3>1
  <2>2. ~HasSession(v, c)
    BY <1>6, <2>1 DEF HasSession
  <2>3. QED BY <1>1, <1>2, <1>6, <2>1, <2>2 DEF Stops
<1>7. QED BY <1>5, <1>6

\* A table over its cap has an oldest, which is in it.
LEMMA HeadIs ==
    ASSUME NEW S, NEW s \in Seq(S), OverCap(s)
    PROVE  Head(s) \in S /\ Head(s) \in ToSet(s) /\ Len(s) > 1 /\ Len(s) \in Nat
<1>1. Len(s) \in Nat /\ Len(s) > MaxSessions /\ MaxSessions \in Nat \ {0}
  BY LenProperties DEF OverCap
<1>2. Len(s) > 1 /\ 1 \in 1..Len(s)
  BY <1>1
<1>3. s # <<>>
  BY <1>2, EmptySeq
<1>4. Head(s) = s[1]
  BY <1>3, HeadTailProperties
<1>5. QED BY <1>1, <1>2, <1>4, SetOfSeq

\* The oldest session goes when there is one too many, and its turn is lost.
Trims(w, v) ==
    /\ Len(v.active) <= MaxSessions
    /\ v.meta = w.meta /\ v.recent = w.recent /\ v.events = w.events
    /\ v.spawned = w.spawned /\ v.aborted = w.aborted /\ w.lost \subseteq v.lost
    /\ \A d \in Id :
          \/ v.session[d] = w.session[d]
          \/ /\ OverCap(w.active) /\ d = Head(w.active) /\ ~HasSession(v, d)
             /\ w.session[d].turn \in v.lost \cup {NoTurn}

LEMMA SessionsTrimmedIs ==
    ASSUME NEW w, Tables(w), Len(w.active) <= MaxSessions + 1,
           NEW v, v = SessionsTrimmed(w)
    PROVE  Tables(v) /\ Trims(w, v)
<1>1. Len(w.active) \in Nat /\ w.active \in Seq(Id) /\ MaxSessions \in Nat
  BY TablesAre
<1>2. CASE ~OverCap(w.active)
  <2>1. v = w
    BY <1>2 DEF SessionsTrimmed
  <2>2. Len(w.active) <= MaxSessions
    BY <1>1, <1>2 DEF OverCap
  <2>3. QED BY <2>1, <2>2 DEF Trims
<1>3. CASE OverCap(w.active)
  <2> DEFINE c == Head(w.active)
             gone == Deleted(w, c)
             more == gone.lost \cup ({w.session[c].turn} \ {NoTurn})
  <2>1. c \in Id /\ c \in ToSet(w.active)
    BY <1>1, <1>3, HeadIs
  <2>2. HasSession(w, c) /\ w.session[c].turn \in Turns \cup {NoTurn}
    <3>1. HasSession(w, c)
      BY <2>1, TablesAre
    <3>2. w.session[c] \in Session
      BY <2>1, TablesAre
    <3>3. QED BY <3>1, <3>2 DEF Session
  <2>3. v = [gone EXCEPT !.lost = more]
    BY <1>3 DEF SessionsTrimmed
  <2> HIDE DEF c
  <2>4. /\ Tables(gone) /\ gone.meta = w.meta /\ gone.recent = w.recent
        /\ Len(gone.active) = IF HasSession(w, c) THEN Len(w.active) - 1
                              ELSE Len(w.active)
        /\ gone.spawned = w.spawned /\ gone.aborted = w.aborted /\ gone.lost = w.lost
        /\ gone.events = w.events /\ ~HasSession(gone, c)
        /\ \A d \in Id : d # c => gone.session[d] = w.session[d]
    BY <2>1, DeletedIs
  <2> HIDE DEF gone
  <2>5. gone \in Web /\ more \in SUBSET Turns /\ w.lost \subseteq more
        /\ w.session[c].turn \in more \cup {NoTurn}
    <3>1. gone \in Web /\ gone.lost \in SUBSET Turns
      BY <2>4, TablesAre DEF Tables
    <3>2. QED BY <2>2, <2>4, <3>1
  <2> HIDE DEF more
  <2>6. /\ v \in Web /\ v.lost = more /\ v.meta = gone.meta /\ v.recent = gone.recent
        /\ v.events = gone.events /\ v.spawned = gone.spawned /\ v.aborted = gone.aborted
        /\ v.session = gone.session /\ v.active = gone.active
    BY <2>3, <2>5 DEF Web
  <2>7. Tables(v)
    BY <2>4, <2>6 DEF Tables, Ordered, HasSession
  <2>8. Len(v.active) <= MaxSessions
    BY <1>1, <2>2, <2>4, <2>6
  <2>9. ~HasSession(v, c)
    BY <2>4, <2>6 DEF HasSession
  <2>10. QED BY <1>3, <2>4, <2>5, <2>6, <2>7, <2>8, <2>9 DEF c, Trims
<1>4. QED BY <1>2, <1>3

\* What the cap of the entries does is a stop of the oldest.
LEMMA MetasTrimmedIs ==
    ASSUME NEW w, Tables(w), Len(w.recent) <= MaxSessions + 1,
           NEW v, v = MetasTrimmed(w)
    PROVE  /\ Tables(v) /\ Len(v.recent) <= MaxSessions
           /\ Len(v.active) <= Len(w.active)
           /\ \/ v = w
              \/ OverCap(w.recent) /\ Head(w.recent) \in Chats /\ v = Stopped(w, Head(w.recent))
<1>1. /\ Len(w.recent) \in Nat /\ w.recent \in Seq(Chats) /\ MaxSessions \in Nat
      /\ Len(w.active) \in Nat
  BY TablesAre
<1>2. CASE ~OverCap(w.recent)
  <2>1. v = w
    BY <1>2 DEF MetasTrimmed
  <2>2. Len(w.recent) <= MaxSessions
    BY <1>1, <1>2 DEF OverCap
  <2>3. QED BY <1>1, <2>1, <2>2
<1>3. CASE OverCap(w.recent)
  <2> DEFINE c == Head(w.recent)
  <2>1. c \in Chats /\ c \in ToSet(w.recent)
    BY <1>1, <1>3, HeadIs
  <2>2. v = Stopped(w, c)
    BY <1>3 DEF MetasTrimmed
  <2>3. w.meta[c] # NoTurn
    BY <2>1, TablesAre
  <2> HIDE DEF c
  <2>4. /\ Tables(v) /\ Len(v.active) <= Len(w.active)
        /\ Len(v.recent) = Len(w.recent) - 1
    <3>1. Tables(v) /\ Stops(w, v, c)
      BY <2>1, <2>2, StoppedIs
    <3>2. QED BY <2>3, <3>1 DEF Stops
  <2>5. QED BY <1>1, <1>3, <2>1, <2>2, <2>4 DEF c
<1>4. QED BY <1>2, <1>3

\* v is w with a session of t under the id c.
Opens(w, v, c, t) ==
    /\ v.meta = w.meta /\ v.recent = w.recent /\ v.events = w.events
    /\ v.spawned = w.spawned /\ v.aborted = w.aborted /\ v.lost = w.lost
    /\ v.session[c] = [status |-> "idle", turn |-> t]
    /\ \A d \in Id : d # c => v.session[d] = w.session[d]
    /\ Len(v.active) <= Len(w.active) + 1
    /\ Len(v.active) > 1 => Head(v.active) # c

Opened(w, c, t) ==
    [w EXCEPT !.session[c] = [status |-> "idle", turn |-> t], !.active = ToEnd(@, c)]

LEMMA OpenedIs ==
    ASSUME NEW w, Tables(w), NEW c \in Id, NEW t \in Turns \cup {NoTurn},
           NEW v, v = Opened(w, c, t)
    PROVE  Tables(v) /\ Opens(w, v, c, t)
<1> DEFINE new == [status |-> "idle", turn |-> t]
           s == [w.session EXCEPT ![c] = new]
           a == ToEnd(w.active, c)
<1>1. w \in Web /\ v = [w EXCEPT !.session = s, !.active = a]
  BY DEF Tables, Opened, Web
<1>2. new \in Session /\ new.status = "idle"
  BY DEF Session, Status
<1>3. new = [status |-> "idle", turn |-> t]
  OBVIOUS
<1> HIDE DEF new
<1>4. /\ s \in [Id -> Session] /\ s[c] = new
      /\ \A d \in Id : d # c => s[d] = w.session[d]
  BY <1>2, TablesAre
<1>5. /\ a \in Seq(Id) /\ IsInjective(a) /\ ToSet(a) = ToSet(w.active) \cup {c}
      /\ Len(a) = IF c \in ToSet(w.active) THEN Len(w.active) ELSE Len(w.active) + 1
      /\ Len(a) > 1 => Head(a) # c
  <2>1. w.active \in Seq(Id) /\ IsInjective(w.active)
    BY TablesAre
  <2>2. QED BY <2>1, ToEndIs
<1> HIDE DEF s, a
<1>6. /\ v \in Web /\ v.events = w.events /\ v.session = s /\ v.active = a
      /\ v.meta = w.meta /\ v.recent = w.recent
      /\ v.spawned = w.spawned /\ v.aborted = w.aborted /\ v.lost = w.lost
  BY <1>1, <1>4, <1>5 DEF Web, Id, Session
<1>7. \A d \in Id : HasSession(v, d) <=> HasSession(w, d) \/ d = c
  BY <1>2, <1>4, <1>6 DEF HasSession
<1>8. Tables(v)
  BY <1>5, <1>6, <1>7, TablesAre DEF Tables, Ordered, Id
<1>9. Len(v.active) <= Len(w.active) + 1
  <2>1. Len(w.active) \in Nat
    BY TablesAre
  <2>2. QED BY <1>5, <1>6, <2>1
<1>10. QED BY <1>3, <1>4, <1>5, <1>6, <1>8, <1>9 DEF Opens

\* v is w with the entry of t for the chat c.
Enters(w, v, c, t) ==
    /\ v.session = w.session /\ v.active = w.active /\ v.events = w.events
    /\ v.spawned = w.spawned /\ v.aborted = w.aborted /\ v.lost = w.lost
    /\ v.meta = [w.meta EXCEPT ![c] = t] /\ v.recent = ToEnd(w.recent, c)
    /\ Len(v.recent) <= Len(w.recent) + 1
    /\ Len(v.recent) > 1 => Head(v.recent) # c

Entered(w, c, t) == [w EXCEPT !.meta[c] = t, !.recent = ToEnd(@, c)]

LEMMA EnteredIs ==
    ASSUME NEW w, Tables(w), NEW c \in Chats, NEW t \in Turns, NEW v, v = Entered(w, c, t)
    PROVE  Tables(v) /\ Enters(w, v, c, t)
<1> DEFINE m == [w.meta EXCEPT ![c] = t]
           a == ToEnd(w.recent, c)
<1>1. w \in Web /\ v = [w EXCEPT !.meta = m, !.recent = a]
  BY DEF Tables, Entered, Web
<1>2. t # NoTurn
  BY DEF NoTurn
<1>3. /\ m \in [Chats -> Turns \cup {NoTurn}] /\ m[c] = t
      /\ \A d \in Chats : d # c => m[d] = w.meta[d]
  BY TablesAre
<1>4. m = [w.meta EXCEPT ![c] = t] /\ a = ToEnd(w.recent, c)
  OBVIOUS
<1>5. /\ a \in Seq(Chats) /\ IsInjective(a) /\ ToSet(a) = ToSet(w.recent) \cup {c}
      /\ Len(a) = IF c \in ToSet(w.recent) THEN Len(w.recent) ELSE Len(w.recent) + 1
      /\ Len(a) > 1 => Head(a) # c
  <2>1. w.recent \in Seq(Chats) /\ IsInjective(w.recent)
    BY TablesAre
  <2>2. QED BY <2>1, ToEndIs
<1> HIDE DEF m, a
<1>6. /\ v \in Web /\ v.events = w.events /\ v.session = w.session /\ v.active = w.active
      /\ v.meta = m /\ v.recent = a
      /\ v.spawned = w.spawned /\ v.aborted = w.aborted /\ v.lost = w.lost
  BY <1>1, <1>3, <1>5 DEF Web
<1>7. Tables(v)
  <2>1. \A d \in Id : HasSession(v, d) <=> HasSession(w, d)
    BY <1>6 DEF HasSession
  <2>2. {d \in Chats : v.meta[d] # NoTurn} = {d \in Chats : w.meta[d] # NoTurn} \cup {c}
    BY <1>2, <1>3, <1>6
  <2>3. QED BY <1>5, <1>6, <2>1, <2>2, TablesAre DEF Tables, Ordered, Id
<1>8. Len(v.recent) <= Len(w.recent) + 1
  <2>1. Len(w.recent) \in Nat
    BY TablesAre
  <2>2. QED BY <1>5, <1>6, <2>1
<1>9. QED BY <1>4, <1>5, <1>6, <1>7, <1>8 DEF Enters

\* An entry that is there gets younger.
Touches(w, v) ==
    /\ v.session = w.session /\ v.active = w.active /\ v.events = w.events
    /\ v.spawned = w.spawned /\ v.aborted = w.aborted /\ v.lost = w.lost
    /\ v.meta = w.meta /\ Len(v.recent) = Len(w.recent)

Touched(w, c) == [w EXCEPT !.recent = ToEnd(@, c)]

LEMMA TouchedIs ==
    ASSUME NEW w, Tables(w), NEW c \in Chats, w.meta[c] # NoTurn, NEW v, v = Touched(w, c)
    PROVE  Tables(v) /\ Touches(w, v)
<1> DEFINE a == ToEnd(w.recent, c)
<1>1. w \in Web /\ v = [w EXCEPT !.recent = a]
  BY DEF Tables, Touched, Web
<1>2. /\ a \in Seq(Chats) /\ IsInjective(a) /\ ToSet(a) = ToSet(w.recent)
      /\ Len(a) = Len(w.recent)
  <2>1. w.recent \in Seq(Chats) /\ IsInjective(w.recent)
    BY TablesAre
  <2>2. c \in ToSet(w.recent)
    BY TablesAre
  <2>3. ToSet(w.recent) \cup {c} = ToSet(w.recent)
    BY <2>2
  <2>4. QED BY <2>1, <2>2, <2>3, ToEndIs
<1> HIDE DEF a
<1>3. /\ v \in Web /\ v.events = w.events /\ v.session = w.session /\ v.active = w.active
      /\ v.meta = w.meta /\ v.recent = a
      /\ v.spawned = w.spawned /\ v.aborted = w.aborted /\ v.lost = w.lost
  BY <1>1, <1>2 DEF Web
<1>4. Tables(v)
  BY <1>2, <1>3, TablesAre DEF Tables, Ordered, HasSession, Id
<1>5. QED BY <1>2, <1>3, <1>4 DEF Touches

-----------------------------------------------------------------------------
(* What the events of a chat mean for a turn whose first event is number f. *)

EndIn(log, f) == \E n \in f .. Len(log) : FinalForRecorder(log[n].kind)

OwnIn(log, f, t) ==
    \A n \in f .. Len(log) :
       log[n].kind = "text" =>
          log[n].by = t \/ \E m \in f .. n - 1 : FinalForRecorder(log[m].kind)

LEMMA LogGrows ==
    ASSUME NEW log \in Seq(Event), NEW e \in Event, NEW f \in Nat \ {0}, NEW t,
           f <= Len(log) + 1
    PROVE  /\ f <= Len(Append(log, e)) + 1
           /\ EndIn(log, f) => EndIn(Append(log, e), f)
           /\ FinalForRecorder(e.kind) => EndIn(Append(log, e), f)
           /\ OwnIn(log, f, t) /\ (e.kind # "text" \/ e.by = t \/ EndIn(log, f))
                 => OwnIn(Append(log, e), f, t)
<1> DEFINE n == Len(log)
           more == Append(log, e)
<1>1. n \in Nat /\ Len(more) = n + 1 /\ more[n + 1] = e /\ \A i \in 1..n : more[i] = log[i]
  BY AppendProperties, LenProperties
<1>2. f \in Nat /\ 1 <= f /\ f <= n + 1
  BY <1>1
<1> HIDE DEF more
<1>3. /\ \A i \in f..n : i \in 1..n /\ i \in f..(n + 1)
      /\ n + 1 \in f..(n + 1) /\ f <= (n + 1) + 1
      /\ \A i \in f..(n + 1) : i \in f..n \/ i = n + 1
  BY <1>1, <1>2
<1>4. EndIn(log, f) <=> \E i \in f..n : FinalForRecorder(log[i].kind)
  BY DEF EndIn
<1>5. EndIn(more, f) <=> \E i \in f..(n + 1) : FinalForRecorder(more[i].kind)
  BY <1>1 DEF EndIn
<1>6. OwnIn(log, f, t) <=>
         \A i \in f..n :
            log[i].kind = "text" =>
               log[i].by = t \/ \E m \in f..(i - 1) : FinalForRecorder(log[m].kind)
  BY DEF OwnIn
<1>7. OwnIn(more, f, t) <=>
         \A i \in f..(n + 1) :
            more[i].kind = "text" =>
               more[i].by = t \/ \E m \in f..(i - 1) : FinalForRecorder(more[m].kind)
  BY <1>1 DEF OwnIn
<1> HIDE DEF n
<1>8. EndIn(log, f) => EndIn(more, f)
  BY <1>1, <1>3, <1>4, <1>5
<1>9. FinalForRecorder(e.kind) => EndIn(more, f)
  BY <1>1, <1>3, <1>5
<1>10. ASSUME OwnIn(log, f, t), e.kind # "text" \/ e.by = t \/ EndIn(log, f)
       PROVE  OwnIn(more, f, t)
  <2>1. ASSUME NEW i \in f..(n + 1), more[i].kind = "text"
        PROVE  more[i].by = t \/ \E m \in f..(i - 1) : FinalForRecorder(more[m].kind)
    <3>1. CASE i \in f..n
      <4>1. more[i] = log[i]
        BY <1>1, <1>3, <3>1
      <4>2. CASE log[i].by = t
        BY <4>1, <4>2
      <4>3. CASE \E m \in f..(i - 1) : FinalForRecorder(log[m].kind)
        <5>1. PICK m \in f..(i - 1) : FinalForRecorder(log[m].kind)
          BY <4>3
        <5>2. m \in 1..n
          BY <1>1, <1>2, <3>1
        <5>3. more[m] = log[m]
          BY <1>1, <5>2
        <5>4. QED BY <5>1, <5>3
      <4>4. QED BY <1>6, <1>10, <2>1, <3>1, <4>1, <4>2, <4>3
    <3>2. CASE i = n + 1
      <4>1. more[i] = e
        BY <1>1, <3>2
      <4>2. CASE EndIn(log, f)
        <5>1. PICK m \in f..n : FinalForRecorder(log[m].kind)
          BY <1>4, <4>2
        <5>2. m \in f..(i - 1) /\ more[m] = log[m]
          BY <1>1, <1>3, <3>2
        <5>3. QED BY <5>1, <5>2
      <4>3. QED BY <1>10, <2>1, <4>1, <4>2
    <3>3. QED BY <1>3, <3>1, <3>2
  <2>2. QED BY <1>7, <2>1
<1>11. f <= Len(more) + 1
  BY <1>1, <1>2
<1>12. QED BY <1>8, <1>9, <1>10, <1>11 DEF more

-----------------------------------------------------------------------------
(* The inductive invariant, on a state w of what is shared and the turns tr. *)

\* The session of c belongs to the turn of its entry.
SessionIs(w, tr, c) ==
    HasSession(w, c) => LET t == w.session[c].turn
                        IN  /\ t \in Turns /\ ChatOf[t] = c /\ tr[t].at # "new"
                            /\ w.meta[c] = t

Holds(w, t) == HasSession(w, ChatOf[t]) /\ w.session[ChatOf[t]].turn = t

\* What turn t can rely on.
TurnIs(w, tr, t) ==
    /\ tr[t].at # "new" =>
          LET log == w.events[ChatOf[t]]
              f   == tr[t].first
          IN  /\ f <= Len(log) + 1
              /\ Holds(w, t) \/ EndIn(log, f) \/ t \in w.lost
              /\ OwnIn(log, f, t) \/ t \in w.lost
    /\ tr[t].at \in {"catalog", "pumping"} /\ t \notin w.aborted => w.meta[ChatOf[t]] = t

RunsFor(w, tr, c) ==
    w.session[c].status = "running" => tr[w.session[c].turn].at # "over"

Good(w, tr) ==
    /\ \A c \in Chats : SessionIs(w, tr, c) /\ RunsFor(w, tr, c)
    /\ \A t \in Turns : TurnIs(w, tr, t)

TurnRecords ==
    [Turns -> [at : {"new", "catalog", "threw", "pumping", "crashed", "over"},
               first : Nat \ {0}, texts : Nat]]

LEMMA IInvIs ==
    IInv <=> TypeOK /\ Good(web, turn) /\ NoForeignText /\ RowsHaveTurns
<1>1. SessionsHaveEntries <=> \A c \in Chats : SessionIs(web, turn, c)
  BY DEF SessionsHaveEntries, SessionIs, Started
<1>2. RunningHasATurn <=> \A c \in Chats : RunsFor(web, turn, c)
  BY DEF RunningHasATurn, RunsFor
<1>3. TurnsHaveAnEnd /\ TextsAreOwn /\ LiveTurnIsStoppable <=>
         \A t \in Turns : TurnIs(web, turn, t)
  <2> DEFINE P(t) == LET c == ChatOf[t]
                     IN  Started(t) =>
                            /\ turn[t].first <= Len(web.events[c]) + 1
                            /\ Holds(web, t) \/ EndIn(web.events[c], turn[t].first)
                                 \/ t \in web.lost
             Q(t) == Started(t) => OwnIn(web.events[ChatOf[t]], turn[t].first, t)
                                     \/ t \in web.lost
             R(t) == Live(t) => web.meta[ChatOf[t]] = t
  <2>1. TurnsHaveAnEnd <=> \A t \in Turns : P(t)
    BY DEF TurnsHaveAnEnd, EndIn, Holds
  <2>2. TextsAreOwn <=> \A t \in Turns : Q(t)
    BY DEF TextsAreOwn, OwnIn
  <2>3. LiveTurnIsStoppable <=> \A t \in Turns : R(t)
    BY DEF LiveTurnIsStoppable
  <2>4. ASSUME NEW t \in Turns PROVE TurnIs(web, turn, t) <=> P(t) /\ Q(t) /\ R(t)
    BY DEF TurnIs, Started, Live
  <2> HIDE DEF P, Q, R
  <2>5. QED BY <2>1, <2>2, <2>3, <2>4
<1>4. QED BY <1>1, <1>2, <1>3 DEF IInv, Good

-----------------------------------------------------------------------------
(* The steps that take nothing from a turn without an end.                  *)

EventsKept(w, v, c) ==
    \/ v.events[c] = w.events[c]
    \/ \E kind \in EventKind \ {"text"} :
          v.events[c] = Append(w.events[c], Note(kind, NoTurn))

\* A session stays, or it ends, or its turn is lost.
SessionKept(w, v, c) ==
    \/ /\ HasSession(w, c) <=> HasSession(v, c)
       /\ v.session[c].turn = w.session[c].turn
    \/ /\ ~HasSession(v, c)
       /\ HasSession(w, c) =>
             \/ w.session[c].turn \in v.lost \cup {NoTurn}
             \/ v.events[c] = Append(w.events[c], Note("failed", NoTurn))

\* An entry stays, or it goes with the session and its turn is aborted.
EntryKept(w, v, c) ==
    \/ v.meta[c] = w.meta[c]
    \/ v.meta[c] = NoTurn /\ ~HasSession(v, c) /\ w.meta[c] \in v.aborted \cup {NoTurn}

RunningKept(w, v, tr, c) ==
    v.session[c].status = "running" =>
       /\ v.session[c].turn = w.session[c].turn
       /\ w.session[c].status = "running" \/ tr[w.session[c].turn].at # "over"

Kept(w, v, tr) ==
    /\ w.lost \subseteq v.lost /\ w.aborted \subseteq v.aborted
    /\ \A c \in Chats : /\ EventsKept(w, v, c) /\ SessionKept(w, v, c)
                        /\ EntryKept(w, v, c) /\ RunningKept(w, v, tr, c)

LEMMA KeptGood ==
    ASSUME NEW w, Tables(w), NEW v, Tables(v), NEW tr \in TurnRecords,
           Good(w, tr), Kept(w, v, tr)
    PROVE  Good(v, tr)
<1>1. ASSUME NEW c \in Chats PROVE SessionIs(v, tr, c)
  <2>1. SessionIs(w, tr, c) /\ SessionKept(w, v, c) /\ EntryKept(w, v, c)
    BY DEF Good, Kept
  <2>2. QED BY <2>1 DEF SessionIs, SessionKept, EntryKept
<1>2. ASSUME NEW c \in Chats PROVE RunsFor(v, tr, c)
  <2>1. RunsFor(w, tr, c) /\ RunningKept(w, v, tr, c)
    BY DEF Good, Kept
  <2>2. QED BY <2>1 DEF RunsFor, RunningKept
<1>3. ASSUME NEW t \in Turns PROVE TurnIs(v, tr, t)
  <2> DEFINE c == ChatOf[t]
             f == tr[t].first
             old == w.events[c]
             new == v.events[c]
  <2>1. c \in Chats /\ f \in Nat \ {0} /\ t # NoTurn
    BY DEF TurnRecords, NoTurn
  <2>2. /\ TurnIs(w, tr, t) /\ EventsKept(w, v, c) /\ SessionKept(w, v, c)
        /\ EntryKept(w, v, c)
    BY <2>1 DEF Good, Kept
  <2>3. w.lost \subseteq v.lost /\ w.aborted \subseteq v.aborted
    BY DEF Kept
  <2>4. old \in Seq(Event)
    BY <2>1, TablesAre
  <2> HIDE DEF f, old, new
  <2>5. ASSUME f <= Len(old) + 1
        PROVE  /\ f <= Len(new) + 1
               /\ EndIn(old, f) => EndIn(new, f)
               /\ new = Append(old, Note("failed", NoTurn)) => EndIn(new, f)
               /\ OwnIn(old, f, t) => OwnIn(new, f, t)
    <3>1. CASE new = old
      <4>1. new = Append(old, Note("failed", NoTurn)) => EndIn(new, f)
        <5>1. Len(Append(old, Note("failed", NoTurn))) = Len(old) + 1 /\ Len(old) \in Nat
          <6>1. Note("failed", NoTurn) \in Event
            BY NoteIs DEF EventKind
          <6>2. QED BY <2>4, <6>1, AppendProperties, LenProperties
        <5>2. Len(old) # Len(old) + 1
          BY <5>1
        <5>3. QED BY <3>1, <5>1, <5>2
      <4>2. QED BY <2>5, <3>1, <4>1
    <3>2. ASSUME NEW kind \in EventKind \ {"text"}, new = Append(old, Note(kind, NoTurn))
          PROVE  /\ f <= Len(new) + 1
                 /\ EndIn(old, f) => EndIn(new, f)
                 /\ new = Append(old, Note("failed", NoTurn)) => EndIn(new, f)
                 /\ OwnIn(old, f, t) => OwnIn(new, f, t)
      <4> DEFINE e == Note(kind, NoTurn)
      <4>1. e \in Event /\ e.kind # "text"
        BY NoteIs
      <4>2. new = Append(old, e)
        BY <3>2
      <4> HIDE DEF e
      <4>3. /\ f <= Len(new) + 1
            /\ EndIn(old, f) => EndIn(new, f)
            /\ OwnIn(old, f, t) => OwnIn(new, f, t)
        BY <2>1, <2>4, <2>5, <4>1, <4>2, LogGrows
      <4>4. ASSUME new = Append(old, Note("failed", NoTurn)) PROVE EndIn(new, f)
        <5> DEFINE d == Note("failed", NoTurn)
        <5>1. d \in Event /\ FinalForRecorder(d.kind) /\ new = Append(old, d)
          BY <4>4, NoteIs DEF EventKind, FinalForRecorder
        <5> HIDE DEF d
        <5>2. QED BY <2>1, <2>4, <2>5, <5>1, LogGrows
      <4>5. QED BY <4>3, <4>4
    <3>3. QED BY <2>2, <3>1, <3>2 DEF EventsKept, old, new
  <2>6. ASSUME tr[t].at # "new"
        PROVE  /\ f <= Len(new) + 1
               /\ Holds(v, t) \/ EndIn(new, f) \/ t \in v.lost
               /\ OwnIn(new, f, t) \/ t \in v.lost
    <3>1. /\ f <= Len(old) + 1
          /\ Holds(w, t) \/ EndIn(old, f) \/ t \in w.lost
          /\ OwnIn(old, f, t) \/ t \in w.lost
      BY <2>2, <2>6 DEF TurnIs, f, old
    <3>2. Holds(w, t) =>
             Holds(v, t) \/ t \in v.lost \/ new = Append(old, Note("failed", NoTurn))
      BY <2>1, <2>2 DEF Holds, SessionKept, old, new
    <3>3. /\ f <= Len(new) + 1
          /\ EndIn(old, f) => EndIn(new, f)
          /\ new = Append(old, Note("failed", NoTurn)) => EndIn(new, f)
          /\ OwnIn(old, f, t) => OwnIn(new, f, t)
      BY <2>5, <3>1
    <3>4. t \in w.lost => t \in v.lost
      BY <2>3
    <3>5. QED BY <3>1, <3>2, <3>3, <3>4
  <2>7. ASSUME tr[t].at \in {"catalog", "pumping"}, t \notin v.aborted
        PROVE  v.meta[c] = t
    <3>1. w.meta[c] = t
      BY <2>2, <2>3, <2>7 DEF TurnIs
    <3>2. QED BY <2>1, <2>2, <2>7, <3>1 DEF EntryKept
  <2>8. QED BY <2>6, <2>7 DEF TurnIs, f, new
<1>4. QED BY <1>1, <1>2, <1>3 DEF Good

LEMMA StoppedGood ==
    ASSUME NEW w, Tables(w), NEW c \in Chats, NEW v, v = Stopped(w, c),
           NEW tr \in TurnRecords, Good(w, tr)
    PROVE  Tables(v) /\ Stops(w, v, c) /\ Good(v, tr)
<1>1. Tables(v) /\ Stops(w, v, c)
  BY StoppedIs
<1>2. v.meta[c] = NoTurn /\ \A d \in Chats : d # c => v.meta[d] = w.meta[d]
  BY <1>1, TablesAre DEF Stops
<1>3. "failed" \in EventKind \ {"text"}
  BY DEF EventKind
<1>4. EventsKept(w, v, c) /\ SessionKept(w, v, c) /\ RunningKept(w, v, tr, c)
  BY <1>1, <1>3 DEF EventsKept, SessionKept, RunningKept, Stops, HasSession
<1>5. EntryKept(w, v, c)
  <2>1. w.meta[c] \in v.aborted \cup {NoTurn}
    BY <1>1 DEF Stops
  <2>2. ~HasSession(v, c)
    BY <1>1 DEF Stops
  <2>3. QED BY <1>2, <2>1, <2>2 DEF EntryKept
<1>6. ASSUME NEW d \in Chats, d # c
      PROVE  /\ EventsKept(w, v, d) /\ SessionKept(w, v, d)
             /\ EntryKept(w, v, d) /\ RunningKept(w, v, tr, d)
  <2>1. v.session[d] = w.session[d] /\ v.events[d] = w.events[d] /\ v.meta[d] = w.meta[d]
    BY <1>1, <1>2, <1>6 DEF Stops, Id
  <2>2. QED BY <2>1 DEF EventsKept, SessionKept, EntryKept, RunningKept, HasSession
<1>7. w.lost \subseteq v.lost /\ w.aborted \subseteq v.aborted
  BY <1>1 DEF Stops
<1>8. Kept(w, v, tr)
  BY <1>4, <1>5, <1>6, <1>7 DEF Kept
<1>9. QED BY <1>1, <1>8, KeptGood

LEMMA TrimmedGood ==
    ASSUME NEW w, Tables(w), NEW v, Tables(v), Trims(w, v),
           NEW tr \in TurnRecords, Good(w, tr)
    PROVE  Good(v, tr)
<1>1. ASSUME NEW d \in Chats
      PROVE  /\ EventsKept(w, v, d) /\ SessionKept(w, v, d)
             /\ EntryKept(w, v, d) /\ RunningKept(w, v, tr, d)
  <2>1. v.events[d] = w.events[d] /\ v.meta[d] = w.meta[d]
    BY DEF Trims
  <2>2. CASE v.session[d] = w.session[d]
    BY <2>1, <2>2 DEF EventsKept, SessionKept, EntryKept, RunningKept, HasSession
  <2>3. CASE ~HasSession(v, d) /\ w.session[d].turn \in v.lost \cup {NoTurn}
    <3>1. SessionKept(w, v, d)
      BY <2>3 DEF SessionKept
    <3>2. RunningKept(w, v, tr, d)
      BY <2>3 DEF RunningKept, HasSession
    <3>3. QED BY <2>1, <3>1, <3>2 DEF EventsKept, EntryKept
  <2>4. QED BY <2>2, <2>3 DEF Trims, Id
<1>2. w.lost \subseteq v.lost /\ w.aborted \subseteq v.aborted
  BY DEF Trims
<1>3. Kept(w, v, tr)
  BY <1>1, <1>2 DEF Kept
<1>4. QED BY <1>3, KeptGood

LEMMA MarkedGood ==
    ASSUME NEW w, Tables(w), NEW c \in Chats, NEW kind \in EventKind \ {"text"},
           NEW v, v = Emitted(w, c, kind),
           NEW tr \in TurnRecords, Good(w, tr)
    PROVE  Tables(v) /\ Tells(w, v, c, Note(kind, NoTurn)) /\ Good(v, tr)
<1>1. Tables(v) /\ Tells(w, v, c, Note(kind, NoTurn))
  BY MarkedIs
<1>2. ASSUME NEW d \in Chats
      PROVE  /\ EventsKept(w, v, d) /\ SessionKept(w, v, d)
             /\ EntryKept(w, v, d) /\ RunningKept(w, v, tr, d)
  <2>1. v.session[d] = w.session[d] /\ v.meta[d] = w.meta[d]
    BY <1>1 DEF Tells
  <2>2. EventsKept(w, v, d)
    BY <1>1 DEF Tells, EventsKept
  <2>3. QED BY <2>1, <2>2 DEF SessionKept, EntryKept, RunningKept, HasSession
<1>3. w.lost \subseteq v.lost /\ w.aborted \subseteq v.aborted
  BY <1>1 DEF Tells
<1>4. Kept(w, v, tr)
  BY <1>2, <1>3 DEF Kept
<1>5. QED BY <1>1, <1>4, KeptGood

LEMMA RestatedGood ==
    ASSUME NEW w, Tables(w), NEW c \in Chats, HasSession(w, c),
           NEW status \in Status \ {"none"}, NEW v, v = WithStatus(w, c, status),
           NEW tr \in TurnRecords, Good(w, tr),
           status = "running" => tr[w.session[c].turn].at # "over"
    PROVE  Tables(v) /\ Restates(w, v, c, status) /\ Good(v, tr)
<1>1. Tables(v) /\ Restates(w, v, c, status)
  BY WithStatusIs
<1>2. ASSUME NEW d \in Chats
      PROVE  /\ EventsKept(w, v, d) /\ SessionKept(w, v, d)
             /\ EntryKept(w, v, d) /\ RunningKept(w, v, tr, d)
  <2>1. v.events[d] = w.events[d] /\ v.meta[d] = w.meta[d]
    BY <1>1 DEF Restates
  <2>2. EventsKept(w, v, d) /\ EntryKept(w, v, d)
    BY <2>1 DEF EventsKept, EntryKept
  <2>3. CASE d # c
    <3>1. v.session[d] = w.session[d]
      BY <1>1, <2>3 DEF Restates, Id
    <3>2. QED BY <2>2, <3>1 DEF SessionKept, RunningKept, HasSession
  <2>4. CASE d = c
    <3>1. v.session[c].status = status /\ v.session[c].turn = w.session[c].turn
      BY <1>1 DEF Restates
    <3>2. SessionKept(w, v, c)
      BY <3>1 DEF SessionKept, HasSession
    <3>3. RunningKept(w, v, tr, c)
      BY <3>1 DEF RunningKept
    <3>4. QED BY <2>2, <2>4, <3>2, <3>3
  <2>5. QED BY <2>3, <2>4
<1>3. w.lost \subseteq v.lost /\ w.aborted \subseteq v.aborted
  BY <1>1 DEF Restates
<1>4. Kept(w, v, tr)
  BY <1>2, <1>3 DEF Kept
<1>5. QED BY <1>1, <1>4, KeptGood

\* Nothing of a chat changes.
LEMMA SameChatsGood ==
    ASSUME NEW w, Tables(w), NEW v, Tables(v),
           v.meta = w.meta, v.events = w.events, v.aborted = w.aborted, v.lost = w.lost,
           \A d \in Chats : v.session[d] = w.session[d],
           NEW tr \in TurnRecords, Good(w, tr)
    PROVE  Good(v, tr)
<1>1. ASSUME NEW d \in Chats
      PROVE  /\ EventsKept(w, v, d) /\ SessionKept(w, v, d)
             /\ EntryKept(w, v, d) /\ RunningKept(w, v, tr, d)
  BY DEF EventsKept, SessionKept, EntryKept, RunningKept, HasSession
<1>2. Kept(w, v, tr)
  BY <1>1 DEF Kept
<1>3. QED BY <1>2, KeptGood

-----------------------------------------------------------------------------
(* The steps of a turn. *)

\* A turn goes on or ends: it is not at work again, and over only when no session
\* runs for it.
Moves(w, tr, nr, t) ==
    /\ \A u \in Turns : u # t => nr[u] = tr[u]
    /\ tr[t].at # "new" /\ nr[t].at # "new" /\ nr[t].first = tr[t].first
    /\ nr[t].at \in {"catalog", "pumping"} => tr[t].at \in {"catalog", "pumping"}
    /\ nr[t].at = "over" => \/ w.session[ChatOf[t]].status # "running"
                            \/ w.session[ChatOf[t]].turn # t

LEMMA TurnedGood ==
    ASSUME NEW w, Tables(w), NEW tr \in TurnRecords, Good(w, tr), NEW t \in Turns,
           NEW nr \in TurnRecords, Moves(w, tr, nr, t)
    PROVE  Good(w, nr)
<1> USE DEF Moves
<1>1. ASSUME NEW c \in Chats PROVE SessionIs(w, nr, c)
  <2>1. SessionIs(w, tr, c)
    BY DEF Good
  <2>2. \A u \in Turns : tr[u].at # "new" => nr[u].at # "new"
    OBVIOUS
  <2>3. QED BY <2>1, <2>2 DEF SessionIs
<1>2. ASSUME NEW c \in Chats PROVE RunsFor(w, nr, c)
  <2>1. ASSUME w.session[c].status = "running"
        PROVE  nr[w.session[c].turn].at # "over"
    <3>1. SessionIs(w, tr, c) /\ RunsFor(w, tr, c) /\ HasSession(w, c)
      BY <2>1 DEF Good, HasSession
    <3>2. w.session[c].turn \in Turns /\ ChatOf[w.session[c].turn] = c
      BY <3>1 DEF SessionIs
    <3>3. CASE w.session[c].turn = t
      BY <2>1, <3>2, <3>3
    <3>4. CASE w.session[c].turn # t
      BY <2>1, <3>1, <3>2, <3>4 DEF RunsFor
    <3>5. QED BY <3>3, <3>4
  <2>2. QED BY <2>1 DEF RunsFor
<1>3. ASSUME NEW u \in Turns PROVE TurnIs(w, nr, u)
  <2>1. TurnIs(w, tr, u)
    BY DEF Good
  <2>2. CASE u = t
    BY <2>1, <2>2 DEF TurnIs
  <2>3. CASE u # t
    <3>1. nr[u] = tr[u]
      BY <2>3
    <3>2. QED BY <2>1, <3>1 DEF TurnIs
  <2>4. QED BY <2>2, <2>3
<1>4. QED BY <1>1, <1>2, <1>3 DEF Good

\* A text of a turn at work: the chat's session is its own, and every other turn of
\* the chat has an end or is lost.
LEMMA TextGood ==
    ASSUME NEW w, Tables(w), NEW tr \in TurnRecords, Good(w, tr), NEW t \in Turns,
           tr[t].at = "pumping", t \notin w.aborted, HasSession(w, ChatOf[t]),
           NEW v, v = EmittedBy(w, ChatOf[t], "text", t)
    PROVE  Tables(v) /\ Tells(w, v, ChatOf[t], Note("text", t)) /\ Good(v, tr)
<1> DEFINE c == ChatOf[t]
           e == Note("text", t)
<1>1. c \in Chats /\ e \in Event /\ e.kind = "text" /\ e.by = t
  BY NoteIs
<1>2. Tables(v) /\ Tells(w, v, c, e)
  BY <1>1, EmittedByIs
<1>3. /\ w.session[c].turn = t /\ HasSession(w, c)
  <2>1. SessionIs(w, tr, c) /\ TurnIs(w, tr, t)
    BY <1>1 DEF Good
  <2>2. QED BY <2>1 DEF SessionIs, TurnIs
<1> HIDE DEF e
<1>4. /\ v.session = w.session /\ v.meta = w.meta /\ v.aborted = w.aborted
      /\ v.lost = w.lost /\ v.events[c] = Append(w.events[c], e)
      /\ \A d \in Chats : d # c => v.events[d] = w.events[d]
  BY <1>2 DEF Tells
<1>5. ASSUME NEW d \in Chats PROVE SessionIs(v, tr, d) /\ RunsFor(v, tr, d)
  <2>1. SessionIs(w, tr, d) /\ RunsFor(w, tr, d)
    BY DEF Good
  <2>2. QED BY <1>4, <2>1 DEF SessionIs, RunsFor, HasSession
<1>6. ASSUME NEW u \in Turns PROVE TurnIs(v, tr, u)
  <2> DEFINE f == tr[u].first
             old == w.events[ChatOf[u]]
             new == v.events[ChatOf[u]]
  <2>1. TurnIs(w, tr, u) /\ ChatOf[u] \in Chats
    BY DEF Good
  <2>2. f \in Nat \ {0} /\ old \in Seq(Event)
    BY <2>1, TablesAre DEF TurnRecords
  <2>3. CASE ChatOf[u] # c
    BY <1>4, <2>1, <2>3 DEF TurnIs, Holds, HasSession
  <2>4. CASE ChatOf[u] = c
    <3>1. new = Append(old, e)
      BY <1>4, <2>4
    <3> HIDE DEF f, old, new
    <3>2. Holds(w, u) => u = t
      BY <1>3, <2>4 DEF Holds
    <3>3. Holds(w, u) => Holds(v, u)
      BY <1>4 DEF Holds, HasSession
    <3>4. ASSUME tr[u].at # "new"
          PROVE  /\ f <= Len(new) + 1
                 /\ Holds(v, u) \/ EndIn(new, f) \/ u \in v.lost
                 /\ OwnIn(new, f, u) \/ u \in v.lost
      <4>1. /\ f <= Len(old) + 1
            /\ Holds(w, u) \/ EndIn(old, f) \/ u \in w.lost
            /\ OwnIn(old, f, u) \/ u \in w.lost
        BY <2>1, <3>4 DEF TurnIs, f, old
      <4>2. /\ f <= Len(new) + 1
            /\ EndIn(old, f) => EndIn(new, f)
            /\ OwnIn(old, f, u) /\ (e.by = u \/ EndIn(old, f)) => OwnIn(new, f, u)
        BY <1>1, <2>2, <3>1, <4>1, LogGrows
      <4>3. QED BY <1>1, <1>4, <3>2, <3>3, <4>1, <4>2
    <3>5. QED BY <1>4, <2>1, <3>4 DEF TurnIs, f, new
  <2>5. QED BY <2>3, <2>4
<1>7. Good(v, tr)
  BY <1>5, <1>6 DEF Good
<1>8. QED BY <1>2, <1>7 DEF e

\* Turn t begins: its chat has neither session nor entry until it gets those of the
\* turn, and its events begin after those there are.
Begins(w, tr, nr, t) ==
    /\ ~HasSession(w, ChatOf[t]) /\ w.meta[ChatOf[t]] = NoTurn /\ tr[t].at = "new"
    /\ \A u \in Turns : u # t => nr[u] = tr[u]
    /\ nr[t].at = "catalog" /\ nr[t].first = Len(w.events[ChatOf[t]]) + 1

LEMMA BegunGood ==
    ASSUME NEW w, Tables(w), NEW tr \in TurnRecords, Good(w, tr), NEW t \in Turns,
           NEW nr \in TurnRecords, Begins(w, tr, nr, t),
           NEW o, Tables(o), Opens(w, o, ChatOf[t], t),
           NEW v, Tables(v), Enters(o, v, ChatOf[t], t)
    PROVE  Good(v, nr)
<1> USE DEF Begins
<1> DEFINE c == ChatOf[t]
<1>1. c \in Chats /\ c \in Id /\ t # NoTurn
  BY DEF Id, NoTurn
<1>2. /\ v.events = w.events /\ v.aborted = w.aborted /\ v.lost = w.lost
      /\ v.session[c] = [status |-> "idle", turn |-> t]
      /\ \A d \in Id : d # c => v.session[d] = w.session[d]
  BY DEF Opens, Enters
<1>3. v.meta[c] = t /\ \A d \in Chats : d # c => v.meta[d] = w.meta[d]
  <2>1. v.meta = [w.meta EXCEPT ![c] = t]
    BY DEF Opens, Enters
  <2>2. QED BY <1>1, <2>1, TablesAre
<1>4. v.session[c].status = "idle" /\ v.session[c].turn = t
  BY <1>2
<1>5. ASSUME NEW d \in Chats PROVE SessionIs(v, nr, d) /\ RunsFor(v, nr, d)
  <2>1. CASE d = c
    <3>1. SessionIs(v, nr, c)
      BY <1>3, <1>4 DEF SessionIs
    <3>2. RunsFor(v, nr, c)
      BY <1>4 DEF RunsFor
    <3>3. QED BY <2>1, <3>1, <3>2
  <2>2. CASE d # c
    <3>1. v.session[d] = w.session[d] /\ v.meta[d] = w.meta[d]
      BY <1>2, <1>3, <2>2 DEF Id
    <3>2. SessionIs(w, tr, d) /\ RunsFor(w, tr, d)
      BY DEF Good
    <3>3. HasSession(w, d) => /\ w.session[d].turn \in Turns \ {t}
                              /\ ChatOf[w.session[d].turn] = d
                              /\ w.meta[d] = w.session[d].turn
                              /\ tr[w.session[d].turn].at # "new"
      BY <2>2, <3>2 DEF SessionIs
    <3>4. SessionIs(v, nr, d)
      BY <3>1, <3>3 DEF SessionIs, HasSession
    <3>5. RunsFor(v, nr, d)
      <4>1. w.session[d].status = "running" => HasSession(w, d)
        BY DEF HasSession
      <4>2. QED BY <3>1, <3>2, <3>3, <4>1 DEF RunsFor
    <3>6. QED BY <3>4, <3>5
  <2>3. QED BY <2>1, <2>2
<1>6. TurnIs(v, nr, t)
  <2> DEFINE log == w.events[c]
             n == Len(log)
  <2>1. n \in Nat
    BY <1>1, TablesAre, LenProperties
  <2>2. v.events[c] = log /\ nr[t].first = n + 1
    BY <1>2
  <2> HIDE DEF n
  <2>3. (n + 1)..n = {} /\ n + 1 <= n + 1
    BY <2>1
  <2>4. OwnIn(log, n + 1, t)
    BY <2>3 DEF OwnIn, n
  <2>5. Holds(v, t)
    BY <1>4 DEF Holds, HasSession
  <2>6. nr[t].first <= Len(v.events[c]) + 1
    BY <2>2, <2>3 DEF n
  <2>7. QED BY <1>3, <2>2, <2>4, <2>5, <2>6 DEF TurnIs
<1>7. ASSUME NEW u \in Turns, u # t PROVE TurnIs(v, nr, u)
  <2>1. TurnIs(w, tr, u) /\ nr[u] = tr[u] /\ ChatOf[u] \in Chats /\ u # NoTurn
    BY <1>7 DEF Good, NoTurn
  <2>2. CASE ChatOf[u] = c
    <3>1. ~Holds(w, u)
      BY <2>2 DEF Holds
    <3>2. ~(tr[u].at \in {"catalog", "pumping"} /\ u \notin w.aborted)
      BY <2>1, <2>2 DEF TurnIs
    <3>3. QED BY <1>2, <2>1, <3>1, <3>2 DEF TurnIs
  <2>3. CASE ChatOf[u] # c
    <3>1. /\ v.session[ChatOf[u]] = w.session[ChatOf[u]]
          /\ v.meta[ChatOf[u]] = w.meta[ChatOf[u]]
      BY <1>2, <1>3, <2>1, <2>3 DEF Id
    <3>2. Holds(w, u) => Holds(v, u)
      BY <3>1 DEF Holds, HasSession
    <3>3. QED BY <1>2, <2>1, <3>1, <3>2 DEF TurnIs
  <2>4. QED BY <2>2, <2>3
<1>8. QED BY <1>5, <1>6, <1>7 DEF Good

WithinCaps(w) == Len(w.active) <= MaxSessions /\ Len(w.recent) <= MaxSessions

LEMMA SessionCreatedIs ==
    ASSUME NEW w, Tables(w), WithinCaps(w), NEW c \in Id, NEW t \in Turns \cup {NoTurn},
           NEW o, o = Opened(w, c, t), NEW v, v = SessionCreated(w, c, t)
    PROVE  /\ Tables(o) /\ Opens(w, o, c, t)
           /\ Tables(v) /\ Trims(o, v) /\ WithinCaps(v)
<1>1. Tables(o) /\ Opens(w, o, c, t)
  BY OpenedIs
<1>2. v = SessionsTrimmed(o)
  BY DEF SessionCreated, Opened
<1>3. Len(o.active) <= MaxSessions + 1 /\ o.recent = w.recent
  <2>1. /\ Len(o.active) \in Nat /\ Len(w.active) \in Nat /\ MaxSessions \in Nat
        /\ Len(o.active) <= Len(w.active) + 1 /\ o.recent = w.recent
    BY <1>1, TablesAre DEF Opens
  <2>2. QED BY <2>1 DEF WithinCaps
<1>4. Tables(v) /\ Trims(o, v)
  BY <1>1, <1>2, <1>3, SessionsTrimmedIs
<1>5. WithinCaps(v)
  BY <1>3, <1>4 DEF WithinCaps, Trims
<1>6. QED BY <1>1, <1>4, <1>5

\* The caps take the oldest of others, never what has just been made.
LEMMA CreatedGood ==
    ASSUME NEW w, Tables(w), WithinCaps(w), NEW tr \in TurnRecords, Good(w, tr),
           NEW t \in Turns, NEW nr \in TurnRecords, Begins(w, tr, nr, t),
           NEW v, v = Created(w, ChatOf[t], t)
    PROVE  Tables(v) /\ WithinCaps(v) /\ Good(v, nr) /\ w.lost \subseteq v.lost
<1> DEFINE c == ChatOf[t]
           o == Opened(w, c, t)
           x == Entered(o, c, t)
           fits == SessionCreated(w, c, t)
           raw == Entered(fits, c, t)
           kept == MetasTrimmed(raw)
           on == WithStatus(kept, c, "running")
<1>1. c \in Chats /\ c \in Id /\ t \in Turns \cup {NoTurn} /\ MaxSessions \in Nat \ {0}
  BY DEF Id
<1>2. v = Emitted(on, c, "started")
  BY DEF Created, Entered
<1>3. /\ Tables(o) /\ Opens(w, o, c, t)
      /\ Tables(fits) /\ Trims(o, fits) /\ WithinCaps(fits)
  BY <1>1, SessionCreatedIs
<1> HIDE DEF o, fits
<1>4. Tables(x) /\ Enters(o, x, c, t) /\ Tables(raw) /\ Enters(fits, raw, c, t)
  BY <1>1, <1>3, EnteredIs
<1> HIDE DEF x, raw
<1>5. Good(x, nr)
  BY <1>3, <1>4, BegunGood
<1>6. Trims(x, raw)
  <2>1. /\ x.session = o.session /\ x.active = o.active /\ x.events = o.events
        /\ x.spawned = o.spawned /\ x.aborted = o.aborted /\ x.lost = o.lost
        /\ x.meta = [o.meta EXCEPT ![c] = t] /\ x.recent = ToEnd(o.recent, c)
    BY <1>4 DEF Enters
  <2>2. /\ raw.session = fits.session /\ raw.active = fits.active
        /\ raw.events = fits.events /\ raw.spawned = fits.spawned
        /\ raw.aborted = fits.aborted /\ raw.lost = fits.lost
        /\ raw.meta = [fits.meta EXCEPT ![c] = t] /\ raw.recent = ToEnd(fits.recent, c)
    BY <1>4 DEF Enters
  <2>3. /\ Len(fits.active) <= MaxSessions
        /\ fits.meta = o.meta /\ fits.recent = o.recent /\ fits.events = o.events
        /\ fits.spawned = o.spawned /\ fits.aborted = o.aborted
        /\ o.lost \subseteq fits.lost
    BY <1>3 DEF Trims
  <2>4. \A d \in Id :
           \/ fits.session[d] = o.session[d]
           \/ /\ OverCap(o.active) /\ d = Head(o.active) /\ ~HasSession(fits, d)
              /\ o.session[d].turn \in fits.lost \cup {NoTurn}
    BY <1>3 DEF Trims
  <2>5. \A d \in Id : HasSession(raw, d) <=> HasSession(fits, d)
    BY <2>2 DEF HasSession
  <2>6. \A d \in Id :
           \/ raw.session[d] = x.session[d]
           \/ /\ OverCap(x.active) /\ d = Head(x.active) /\ ~HasSession(raw, d)
              /\ x.session[d].turn \in raw.lost \cup {NoTurn}
    BY <2>1, <2>2, <2>4, <2>5
  <2>7. QED BY <2>1, <2>2, <2>3, <2>6 DEF Trims
<1>7. Good(raw, nr)
  BY <1>4, <1>5, <1>6, TrimmedGood
<1>8. raw.session[c].status = "idle" /\ raw.session[c].turn = t
  <2>1. /\ o.session[c] = [status |-> "idle", turn |-> t]
        /\ Len(o.active) > 1 => Head(o.active) # c
    BY <1>3 DEF Opens
  <2>2. x.session = o.session /\ x.active = o.active
    BY <1>4 DEF Enters
  <2>3. OverCap(x.active) => Head(x.active) # c
    <3>1. x.active \in Seq(Id)
      BY <1>4, TablesAre
    <3>2. OverCap(x.active) => Len(x.active) > 1
      BY <3>1, HeadIs
    <3>3. QED BY <2>1, <2>2, <3>2
  <2>4. raw.session[c] = x.session[c]
    BY <1>1, <1>6, <2>3 DEF Trims
  <2>5. QED BY <2>1, <2>2, <2>4
<1>9. /\ Len(raw.recent) <= MaxSessions + 1 /\ Len(raw.active) <= MaxSessions
      /\ OverCap(raw.recent) => Head(raw.recent) # c
  <2>1. /\ Len(raw.recent) <= Len(fits.recent) + 1 /\ raw.active = fits.active
        /\ Len(raw.recent) > 1 => Head(raw.recent) # c
    BY <1>4 DEF Enters
  <2>2. Len(fits.recent) <= MaxSessions /\ Len(fits.active) <= MaxSessions
    BY <1>3 DEF WithinCaps
  <2>3. Len(raw.recent) \in Nat /\ Len(fits.recent) \in Nat /\ raw.recent \in Seq(Chats)
    BY <1>3, <1>4, TablesAre
  <2>4. OverCap(raw.recent) => Len(raw.recent) > 1
    BY <2>3, HeadIs
  <2>5. Len(raw.recent) <= MaxSessions + 1
    BY <1>1, <2>1, <2>2, <2>3
  <2>6. QED BY <2>1, <2>2, <2>4, <2>5
<1>10. /\ Tables(kept) /\ WithinCaps(kept) /\ Good(kept, nr)
       /\ kept.session[c] = raw.session[c] /\ kept.lost = raw.lost
  <2>1. /\ Tables(kept) /\ Len(kept.recent) <= MaxSessions
        /\ Len(kept.active) <= Len(raw.active)
        /\ \/ kept = raw
           \/ /\ OverCap(raw.recent) /\ Head(raw.recent) \in Chats
              /\ kept = Stopped(raw, Head(raw.recent))
    BY <1>4, <1>9, MetasTrimmedIs
  <2>2. WithinCaps(kept)
    <3>1. Len(kept.active) \in Nat /\ Len(raw.active) \in Nat
      BY <1>4, <2>1, TablesAre
    <3>2. Len(kept.active) <= MaxSessions
      BY <1>1, <1>9, <2>1, <3>1
    <3>3. QED BY <2>1, <3>2 DEF WithinCaps
  <2> HIDE DEF kept
  <2>3. CASE kept = raw
    BY <1>7, <2>1, <2>2, <2>3
  <2>4. CASE /\ OverCap(raw.recent) /\ Head(raw.recent) \in Chats
             /\ kept = Stopped(raw, Head(raw.recent))
    <3> DEFINE h == Head(raw.recent)
    <3>1. h \in Chats /\ h # c /\ kept = Stopped(raw, h)
      BY <1>9, <2>4
    <3> HIDE DEF h
    <3>2. Stops(raw, kept, h) /\ Good(kept, nr)
      BY <1>4, <1>7, <3>1, StoppedGood
    <3>3. kept.session[c] = raw.session[c] /\ kept.lost = raw.lost
      BY <1>1, <3>1, <3>2 DEF Stops
    <3>4. QED BY <2>1, <2>2, <3>2, <3>3
  <2>5. QED BY <2>1, <2>3, <2>4
<1> HIDE DEF kept
<1>11. /\ HasSession(kept, c) /\ nr[kept.session[c].turn].at # "over"
       /\ "running" \in Status \ {"none"} /\ "started" \in EventKind \ {"text"}
  BY <1>8, <1>10 DEF HasSession, Status, EventKind, Begins
<1>12. Tables(on) /\ Restates(kept, on, c, "running") /\ Good(on, nr)
  BY <1>1, <1>10, <1>11, RestatedGood
<1> HIDE DEF on
<1>13. Tables(v) /\ Tells(on, v, c, Note("started", NoTurn)) /\ Good(v, nr)
  BY <1>1, <1>2, <1>11, <1>12, MarkedGood
<1>14. WithinCaps(v)
  BY <1>10, <1>12, <1>13 DEF WithinCaps, Restates, Tells
<1>15. w.lost \subseteq v.lost
  BY <1>3, <1>4, <1>10, <1>12, <1>13 DEF Opens, Trims, Enters, Restates, Tells
<1>16. QED BY <1>13, <1>14, <1>15

-----------------------------------------------------------------------------
(* The inductive invariant holds initially and is kept. *)

RowRecords == [Turns -> [state : {"none", "open", "final", "abandoned"}, text : SUBSET Turns]]

Parts ==
    /\ Tables(web) /\ WithinCaps(web) /\ turn \in TurnRecords /\ Good(web, turn)
    /\ row \in RowRecords /\ pages \subseteq Followed /\ NoForeignText /\ RowsHaveTurns

LEMMA IInvParts == IInv <=> Parts
BY IInvIs DEF Parts, TypeOK, Tables, WithinCaps, TurnRecords, RowRecords

LEMMA IInvPartsNext == IInv' <=> Parts'
BY IInvParts, PTL

\* What is left to show of a step that leaves every row as it is.
LEMMA RowsKept ==
    ASSUME IInv, row' = row, Tables(web'), WithinCaps(web'), web.lost \subseteq web'.lost,
           turn' \in TurnRecords, Good(web', turn'), pages' \subseteq Followed,
           \A t \in Turns : turn[t].at # "new" => turn'[t].at # "new"
    PROVE  IInv'
<1>1. Parts
  BY IInvParts
<1>2. NoForeignText'
  <2>1. NoForeignText
    BY <1>1 DEF Parts
  <2>2. QED BY <2>1 DEF NoForeignText
<1>3. RowsHaveTurns'
  BY <1>1 DEF Parts, RowsHaveTurns, Started
<1>4. Parts'
  BY <1>1, <1>2, <1>3 DEF Parts
<1>5. QED BY <1>4, IInvPartsNext

LEMMA InitInvariant == Init => IInv
<1> SUFFICES ASSUME Init PROVE Parts
  BY IInvParts
<1> DEFINE none == [c \in Id |-> NoSession]
           clear == [c \in Chats |-> NoTurn]
           blank == [c \in Chats |-> <<>>]
<1>1. /\ web = [session |-> none, meta |-> clear, active |-> <<>>, recent |-> <<>>,
                events |-> blank, spawned |-> {}, aborted |-> {}, lost |-> {}]
      /\ turn = [t \in Turns |-> NewTurn] /\ row = [t \in Turns |-> NoRow] /\ pages = {}
  BY DEF Init, Id
<1>2. none \in [Id -> Session] /\ \A c \in Id : none[c].status = "none"
  BY DEF NoSession, Session, Status
<1>3. clear \in [Chats -> Turns \cup {NoTurn}] /\ \A c \in Chats : clear[c] = NoTurn
  OBVIOUS
<1>4. blank \in [Chats -> Seq(Event)]
  BY EmptySeq
<1> HIDE DEF none, clear, blank
<1>5. /\ web.session = none /\ web.meta = clear /\ web.active = <<>> /\ web.recent = <<>>
      /\ web.aborted = {} /\ web.lost = {}
  BY <1>1
<1>6. web \in Web
  <2>1. <<>> \in Seq(Id) /\ <<>> \in Seq(Chats)
    BY EmptySeq
  <2>2. QED BY <1>1, <1>2, <1>3, <1>4, <2>1 DEF Web, Id, Session
<1>7. Ordered(web) /\ WithinCaps(web)
  <2>1. Len(<<>>) = 0 /\ MaxSessions \in Nat
    BY EmptySeq
  <2>2. DOMAIN <<>> = {}
    BY <2>1, LenProperties, EmptySeq
  <2>3. IsInjective(<<>>) /\ ToSet(<<>>) = {}
    BY <2>2 DEF IsInjective, ToSet
  <2>4. {c \in Id : HasSession(web, c)} = {}
    BY <1>2, <1>5 DEF HasSession
  <2>5. {c \in Chats : web.meta[c] # NoTurn} = {}
    BY <1>3, <1>5
  <2>6. WithinCaps(web)
    BY <1>5, <2>1 DEF WithinCaps
  <2>7. QED BY <1>5, <2>3, <2>4, <2>5, <2>6 DEF Ordered, Id
<1>8. turn \in TurnRecords /\ \A t \in Turns : turn[t].at = "new"
  BY <1>1 DEF TurnRecords, NewTurn
<1>9. row \in RowRecords /\ \A t \in Turns : row[t].text = {}
  BY <1>1 DEF RowRecords, NoRow
<1>10. Good(web, turn)
  <2>1. \A c \in Chats : web.session[c].status = "none"
    BY <1>2, <1>5 DEF Id
  <2>2. \A c \in Chats : SessionIs(web, turn, c) /\ RunsFor(web, turn, c)
    BY <2>1 DEF SessionIs, RunsFor, HasSession
  <2>3. \A t \in Turns : TurnIs(web, turn, t)
    BY <1>8 DEF TurnIs
  <2>4. QED BY <2>2, <2>3 DEF Good
<1>11. NoForeignText /\ RowsHaveTurns
  BY <1>1, <1>9 DEF NoForeignText, RowsHaveTurns, NoRow
<1>12. QED BY <1>1, <1>6, <1>7, <1>8, <1>9, <1>10, <1>11 DEF Parts, Tables

LEMMA ReconnectStep == ASSUME IInv, NEW c \in Chats, Reconnect(c) PROVE IInv'
<1>1. Parts
  BY IInvParts
<1>2. /\ web.meta[c] # NoTurn /\ web.meta[c] \in Followed
      /\ web' = Touched(web, c)
      /\ pages' = pages \cup {web.meta[c]} /\ turn' = turn /\ row' = row
  BY DEF Reconnect, CanReconnect, Touched
<1>3. Tables(web') /\ Touches(web, web')
  BY <1>1, <1>2, TouchedIs DEF Parts
<1>4. Good(web', turn)
  BY <1>1, <1>3, SameChatsGood DEF Parts, Touches
<1>5. WithinCaps(web') /\ pages' \subseteq Followed /\ web.lost \subseteq web'.lost
  BY <1>1, <1>2, <1>3 DEF Parts, WithinCaps, Touches
<1>6. QED BY <1>1, <1>2, <1>3, <1>4, <1>5, RowsKept DEF Parts

\* A stop keeps the caps.
LEMMA StoppedFits ==
    ASSUME NEW w, Tables(w), WithinCaps(w), NEW tr \in TurnRecords, Good(w, tr),
           NEW c \in Chats, NEW v, v = Stopped(w, c)
    PROVE  /\ Tables(v) /\ WithinCaps(v) /\ Good(v, tr) /\ v.lost = w.lost
           /\ ~HasSession(v, c) /\ v.meta[c] = NoTurn
<1>1. Tables(v) /\ Stops(w, v, c) /\ Good(v, tr)
  BY StoppedGood
<1>2. /\ Len(v.active) \in Nat /\ Len(v.recent) \in Nat /\ MaxSessions \in Nat
      /\ Len(w.active) \in Nat /\ Len(w.recent) \in Nat
  BY <1>1, TablesAre
<1>3. Len(v.active) <= Len(w.active) /\ Len(v.recent) <= Len(w.recent)
  <2>1. /\ Len(v.active) <= Len(w.active)
        /\ Len(v.recent) = IF w.meta[c] # NoTurn THEN Len(w.recent) - 1 ELSE Len(w.recent)
    BY <1>1 DEF Stops
  <2>2. QED BY <1>2, <2>1
<1>4. Len(v.active) <= MaxSessions /\ Len(v.recent) <= MaxSessions
  BY <1>2, <1>3 DEF WithinCaps
<1>5. v.meta[c] = NoTurn
  BY <1>1, TablesAre DEF Stops
<1>6. QED BY <1>1, <1>4, <1>5 DEF WithinCaps, Stops

LEMMA StopStep == ASSUME IInv, NEW c \in Chats, Stop(c) PROVE IInv'
<1>1. Parts
  BY IInvParts
<1>2. web' = Stopped(web, c) /\ turn' = turn /\ row' = row /\ pages' = pages
  BY DEF Stop
<1>3. Tables(web') /\ WithinCaps(web') /\ Good(web', turn) /\ web'.lost = web.lost
  BY <1>1, <1>2, StoppedFits DEF Parts
<1>4. QED BY <1>1, <1>2, <1>3, RowsKept DEF Parts

LEMMA DeleteStep == ASSUME IInv, NEW c \in Chats, Delete(c) PROVE IInv'
<1>1. Parts
  BY IInvParts
<1>2. /\ web' = Stopped(web, c) /\ turn' = turn /\ pages' = pages
      /\ \E Rows \in SUBSET Turns : row' = [t \in Turns |-> IF t \in Rows THEN NoRow ELSE row[t]]
  BY DEF Delete
<1>3. Tables(web') /\ WithinCaps(web') /\ Good(web', turn) /\ web'.lost = web.lost
  BY <1>1, <1>2, StoppedFits DEF Parts
<1>4. row \in RowRecords /\ NoForeignText
  BY <1>1 DEF Parts
<1>5. NoRow \in [state : {"none", "open", "final", "abandoned"}, text : SUBSET Turns] /\ NoRow.text = {}
  BY DEF NoRow
<1>6. row' \in RowRecords /\ \A t \in Turns : row'[t] \in {row[t], NoRow}
  BY <1>2, <1>4, <1>5 DEF RowRecords
<1>7. NoForeignText' /\ RowsHaveTurns'
  <2>1. NoForeignText'
    BY <1>3, <1>4, <1>5, <1>6 DEF NoForeignText
  <2>2. NoRow.state # "open" /\ RowsHaveTurns
    BY <1>1 DEF NoRow, Parts
  <2>3. QED BY <1>2, <1>6, <2>1, <2>2 DEF RowsHaveTurns, Started
<1>8. Parts'
  BY <1>1, <1>2, <1>3, <1>6, <1>7 DEF Parts
<1>9. QED BY <1>8, IInvPartsNext

LEMMA SpawnStep == ASSUME IInv, NEW s \in Subagents, Spawn(s) PROVE IInv'
<1>1. Parts
  BY IInvParts
<1> DEFINE o == Opened(web, s, NoTurn)
           v == SessionCreated(web, s, NoTurn)
           more == v.spawned \cup {s}
<1>2. web' = [v EXCEPT !.spawned = more] /\ turn' = turn /\ row' = row /\ pages' = pages
  BY DEF Spawn
<1>3. s \in Id /\ NoTurn \in Turns \cup {NoTurn} /\ s \notin Chats
  BY DEF Id
<1>4. /\ Tables(o) /\ Opens(web, o, s, NoTurn)
      /\ Tables(v) /\ Trims(o, v) /\ WithinCaps(v)
  BY <1>1, <1>3, SessionCreatedIs DEF Parts
<1> HIDE DEF o, v
<1>5. Good(o, turn)
  <2>1. /\ o.meta = web.meta /\ o.events = web.events /\ o.aborted = web.aborted
        /\ o.lost = web.lost /\ \A d \in Chats : o.session[d] = web.session[d]
    BY <1>3, <1>4 DEF Opens, Id
  <2>2. QED BY <1>1, <1>4, <2>1, SameChatsGood DEF Parts
<1>6. Good(v, turn)
  BY <1>1, <1>4, <1>5, TrimmedGood DEF Parts
<1>7. v \in Web /\ more \in SUBSET Subagents
  BY <1>4, TablesAre DEF Tables
<1> HIDE DEF more
<1>8. /\ web' \in Web
      /\ web'.session = v.session /\ web'.meta = v.meta /\ web'.active = v.active
      /\ web'.recent = v.recent /\ web'.events = v.events /\ web'.aborted = v.aborted
      /\ web'.lost = v.lost
  BY <1>2, <1>7 DEF Web
<1>9. Tables(web') /\ WithinCaps(web')
  BY <1>4, <1>8 DEF Tables, Ordered, HasSession, WithinCaps
<1>10. Good(web', turn)
  BY <1>1, <1>4, <1>6, <1>8, <1>9, SameChatsGood DEF Parts
<1>11. web.lost \subseteq web'.lost
  BY <1>4, <1>8 DEF Opens, Trims
<1>12. QED BY <1>1, <1>2, <1>9, <1>10, <1>11, RowsKept DEF Parts

Put(tr, t, first, at) == [tr EXCEPT ![t].first = first, ![t].at = at]

Puts(tr, nr, t, first, at) ==
    /\ nr[t].at = at /\ nr[t].first = first
    /\ \A u \in Turns : u # t => nr[u] = tr[u]

LEMMA PutIs ==
    ASSUME NEW tr \in TurnRecords, NEW t \in Turns, NEW first \in Nat \ {0},
           NEW at \in {"catalog", "over"}, NEW nr, nr = Put(tr, t, first, at)
    PROVE  nr \in TurnRecords /\ Puts(tr, nr, t, first, at)
<1> DEFINE R == [at : {"new", "catalog", "threw", "pumping", "crashed", "over"},
                 first : Nat \ {0}, texts : Nat]
           r == [tr[t] EXCEPT !.first = first, !.at = at]
<1>1. tr \in [Turns -> R] /\ nr = [tr EXCEPT ![t] = r]
  BY DEF TurnRecords, Put
<1>2. tr[t] \in R
  BY <1>1
<1>3. r \in R /\ r.at = at /\ r.first = first
  BY <1>2
<1> HIDE DEF r, R
<1>4. nr \in [Turns -> R] /\ nr[t] = r /\ \A u \in Turns : u # t => nr[u] = tr[u]
  BY <1>1, <1>3
<1>5. QED BY <1>3, <1>4 DEF TurnRecords, Puts, R

\* A turn begins with its chat cleared, and ends at once when its rows are not saved.
LEMMA FreshStartStep ==
    ASSUME IInv, NEW t \in Turns, NEW otherEpoch \in BOOLEAN, FreshStart(t, otherEpoch)
    PROVE  IInv'
<1> DEFINE c == ChatOf[t]
           seen == IF otherEpoch THEN Stopped(web, c) ELSE web
           clear == IF seen.meta[c] # NoTurn \/ HasSession(seen, c)
                    THEN Stopped(seen, c)
                    ELSE seen
           made == Created(clear, c, t)
           first == FirstOfTurn(clear, c)
<1>1. Parts
  BY IInvParts
<1>2. PICK saved \in BOOLEAN :
         /\ turn[t].at = "new" /\ pages' = pages
         /\ web' = IF saved THEN made ELSE SqliteFails(made, c)
         /\ turn' = [turn EXCEPT ![t].first = first,
                                 ![t].at = IF saved THEN "catalog" ELSE "over"]
         /\ row' = [row EXCEPT ![t].state = IF saved THEN "open" ELSE "none"]
  BY DEF FreshStart, Started
<1>3. c \in Chats /\ c \in Id
  BY DEF Id
<1>4. Tables(seen) /\ WithinCaps(seen) /\ Good(seen, turn) /\ seen.lost = web.lost
  <2>1. CASE otherEpoch
    BY <1>1, <1>3, <2>1, StoppedFits DEF Parts
  <2>2. CASE ~otherEpoch
    BY <1>1, <2>2 DEF Parts
  <2>3. QED BY <2>1, <2>2
<1> HIDE DEF seen
<1>5. /\ Tables(clear) /\ WithinCaps(clear) /\ Good(clear, turn) /\ clear.lost = web.lost
      /\ ~HasSession(clear, c) /\ clear.meta[c] = NoTurn
  <2>1. CASE seen.meta[c] # NoTurn \/ HasSession(seen, c)
    <3>1. clear = Stopped(seen, c)
      BY <2>1
    <3> HIDE DEF clear
    <3>2. QED BY <1>1, <1>3, <1>4, <3>1, StoppedFits DEF Parts
  <2>2. CASE ~(seen.meta[c] # NoTurn \/ HasSession(seen, c))
    BY <1>4, <2>2
  <2>3. QED BY <2>1, <2>2
<1> HIDE DEF clear
<1>6. first = Len(clear.events[c]) + 1 /\ first \in Nat \ {0}
  <2>1. Len(clear.events[c]) \in Nat
    BY <1>3, <1>5, TablesAre, LenProperties
  <2>2. QED BY <2>1 DEF FirstOfTurn
<1> HIDE DEF first
<1> DEFINE mid == Put(turn, t, first, "catalog")
           dead == Put(turn, t, first, "over")
<1>7. turn \in TurnRecords
  BY <1>1 DEF Parts
<1>8. /\ mid \in TurnRecords /\ mid[t].at = "catalog" /\ mid[t].first = first
      /\ \A u \in Turns : u # t => mid[u] = turn[u]
  <2>1. mid \in TurnRecords /\ Puts(turn, mid, t, first, "catalog")
    BY <1>6, <1>7, PutIs
  <2>2. QED BY <2>1 DEF Puts
<1>9. /\ dead \in TurnRecords /\ dead[t].at = "over" /\ dead[t].first = first
      /\ \A u \in Turns : u # t => dead[u] = turn[u]
  <2>1. dead \in TurnRecords /\ Puts(turn, dead, t, first, "over")
    BY <1>6, <1>7, PutIs
  <2>2. QED BY <2>1 DEF Puts
<1>10. turn' = IF saved THEN mid ELSE dead
  BY <1>2 DEF Put
<1> HIDE DEF mid, dead
<1>11. Begins(clear, turn, mid, t)
  BY <1>2, <1>5, <1>6, <1>8 DEF Begins
<1>12. Tables(made) /\ WithinCaps(made) /\ Good(made, mid) /\ clear.lost \subseteq made.lost
  BY <1>5, <1>7, <1>8, <1>11, CreatedGood
<1> HIDE DEF made
<1>13. /\ Tables(web') /\ WithinCaps(web') /\ Good(web', turn') /\ turn' \in TurnRecords
       /\ web.lost \subseteq web'.lost
  <2>1. CASE saved
    BY <1>2, <1>5, <1>8, <1>10, <1>12, <2>1
  <2>2. CASE ~saved
    <3>1. web' = Stopped(made, c) /\ turn' = dead
      BY <1>2, <1>10, <2>2 DEF SqliteFails
    <3>2. /\ Tables(web') /\ WithinCaps(web') /\ Good(web', mid) /\ web'.lost = made.lost
          /\ ~HasSession(web', c)
      BY <1>3, <1>8, <1>12, <3>1, StoppedFits
    <3>3. web'.session[c].status # "running"
      BY <3>2 DEF HasSession
    <3>4. \A u \in Turns : u # t => dead[u] = mid[u]
      BY <1>8, <1>9
    <3>5. mid[t].at # "new" /\ dead[t].first = mid[t].first
          /\ dead[t].at \notin {"catalog", "pumping"} /\ dead[t].at # "new"
      BY <1>8, <1>9
    <3>6. Moves(web', mid, dead, t)
      BY <3>3, <3>4, <3>5 DEF Moves
    <3>7. Good(web', dead)
      BY <1>8, <1>9, <3>2, <3>6, TurnedGood
    <3>8. QED BY <1>5, <1>9, <1>12, <3>1, <3>2, <3>7
  <2>3. QED BY <2>1, <2>2
<1>14. /\ row' \in RowRecords /\ \A u \in Turns : row'[u].text = row[u].text
       /\ \A u \in Turns : u # t => row'[u] = row[u]
  <2>1. row \in RowRecords
    BY <1>1 DEF Parts
  <2>2. QED BY <1>2, <2>1 DEF RowRecords
<1>15. NoForeignText'
  <2>1. NoForeignText
    BY <1>1 DEF Parts
  <2>2. QED BY <1>13, <1>14, <2>1 DEF NoForeignText
<1>16. RowsHaveTurns'
  <2>1. RowsHaveTurns
    BY <1>1 DEF Parts
  <2>2. turn'[t].at # "new" /\ \A u \in Turns : u # t => turn'[u] = turn[u]
    BY <1>8, <1>9, <1>10
  <2>3. QED BY <1>14, <2>1, <2>2 DEF RowsHaveTurns, Started
<1>17. Parts'
  BY <1>1, <1>2, <1>13, <1>14, <1>15, <1>16 DEF Parts
<1>18. QED BY <1>17, IInvPartsNext

\* A turn whose chat is left alone, in terms of where it was and is.
LEMMA TurnMoved ==
    ASSUME IInv, NEW t \in Turns, NEW w, Tables(w), WithinCaps(w), Good(w, turn),
           web' = w, web.lost \subseteq w.lost,
           turn[t].at # "new", NEW at \in {"catalog", "threw", "pumping", "crashed", "over"},
           at \in {"catalog", "pumping"} => turn[t].at \in {"catalog", "pumping"},
           at = "over" => \/ w.session[ChatOf[t]].status # "running"
                          \/ w.session[ChatOf[t]].turn # t,
           turn' = [turn EXCEPT ![t].at = at], row' = row, pages' = pages
    PROVE  IInv'
<1>1. Parts
  BY IInvParts
<1>2. turn \in TurnRecords
  BY <1>1 DEF Parts
<1>3. /\ turn' \in TurnRecords /\ turn'[t].at = at /\ turn'[t].first = turn[t].first
      /\ \A u \in Turns : u # t => turn'[u] = turn[u]
  BY <1>2 DEF TurnRecords
<1>4. Moves(w, turn, turn', t)
  BY <1>3 DEF Moves
<1>5. Good(w, turn')
  BY <1>2, <1>3, <1>4, TurnedGood
<1>6. QED BY <1>1, <1>3, <1>5, RowsKept DEF Parts

LEMMA SetupStep == ASSUME IInv, NEW t \in Turns, Setup(t) PROVE IInv'
<1>1. Parts
  BY IInvParts
<1>2. CASE CatalogReady(t)
  BY <1>1, <1>2, TurnMoved DEF Parts, CatalogReady
<1>3. CASE SetupThrows(t)
  BY <1>1, <1>3, TurnMoved DEF Parts, SetupThrows
<1>4. QED BY <1>2, <1>3 DEF Setup

LEMMA MarkedFits ==
    ASSUME NEW w, Tables(w), WithinCaps(w), NEW tr \in TurnRecords, Good(w, tr),
           NEW c \in Chats, NEW kind \in EventKind \ {"text"}, NEW v, v = Emitted(w, c, kind)
    PROVE  /\ Tables(v) /\ WithinCaps(v) /\ Good(v, tr) /\ v.lost = w.lost
           /\ v.session = w.session
<1>1. Tables(v) /\ Tells(w, v, c, Note(kind, NoTurn)) /\ Good(v, tr)
  BY MarkedGood
<1>2. QED BY <1>1 DEF Tells, WithinCaps

LEMMA EndedFits ==
    ASSUME NEW w, Tables(w), WithinCaps(w), NEW tr \in TurnRecords, Good(w, tr),
           NEW c \in Chats, HasSession(w, c), NEW kind \in {"completed", "failed"},
           NEW v, v = Ended(w, c, kind)
    PROVE  /\ Tables(v) /\ WithinCaps(v) /\ Good(v, tr) /\ v.lost = w.lost
           /\ v.session[c].status # "running"
<1> DEFINE told == Emitted(w, c, kind)
<1>1. /\ kind \in EventKind \ {"text"} /\ kind \in Status \ {"none"} /\ kind # "running"
      /\ v = WithStatus(told, c, kind)
  BY DEF EventKind, Status, Ended
<1>2. /\ Tables(told) /\ WithinCaps(told) /\ Good(told, tr) /\ told.lost = w.lost
      /\ told.session = w.session
  BY <1>1, MarkedFits
<1> HIDE DEF told
<1>3. HasSession(told, c)
  BY <1>2 DEF HasSession
<1>4. Tables(v) /\ Restates(told, v, c, kind) /\ Good(v, tr)
  BY <1>1, <1>2, <1>3, RestatedGood
<1>5. QED BY <1>1, <1>2, <1>4 DEF Restates, WithinCaps

LEMMA PumpTextStep == ASSUME IInv, NEW t \in Turns, PumpText(t) PROVE IInv'
<1> DEFINE c == ChatOf[t]
<1>1. Parts
  BY IInvParts
<1>2. /\ turn[t].at = "pumping" /\ t \notin web.aborted
      /\ row' = row /\ pages' = pages /\ c \in Chats
  BY DEF PumpText
<1>3. CASE HasSession(web, c)
  <2>1. /\ web' = EmittedBy(web, c, "text", t)
        /\ turn' = [turn EXCEPT ![t].texts = turn[t].texts + 1]
    BY <1>3 DEF PumpText
  <2>2. Tables(web') /\ Tells(web, web', c, Note("text", t)) /\ Good(web', turn)
    BY <1>1, <1>2, <1>3, <2>1, TextGood DEF Parts
  <2>3. WithinCaps(web') /\ web.lost \subseteq web'.lost
    BY <1>1, <2>2 DEF Parts, WithinCaps, Tells
  <2>4. /\ turn' \in TurnRecords /\ turn'[t].at = turn[t].at /\ turn'[t].first = turn[t].first
        /\ \A u \in Turns : u # t => turn'[u] = turn[u]
    <3>1. turn \in TurnRecords
      BY <1>1 DEF Parts
    <3>2. QED BY <2>1, <3>1 DEF TurnRecords
  <2>5. Moves(web', turn, turn', t)
    BY <1>2, <2>4 DEF Moves
  <2>6. Good(web', turn')
    BY <1>1, <2>2, <2>4, <2>5, TurnedGood DEF Parts
  <2>7. QED BY <1>1, <1>2, <2>2, <2>3, <2>4, <2>6, RowsKept DEF Parts
<1>4. CASE ~HasSession(web, c)
  <2>1. web' = web /\ turn' = [turn EXCEPT ![t].at = "crashed"]
    BY <1>4 DEF PumpText
  <2>2. QED BY <1>1, <1>2, <2>1, TurnMoved DEF Parts
<1>5. QED BY <1>3, <1>4

LEMMA PumpDrainsStep == ASSUME IInv, NEW t \in Turns, PumpDrains(t) PROVE IInv'
<1> DEFINE c == ChatOf[t]
<1>1. Parts
  BY IInvParts
<1>2. PICK finished \in BOOLEAN :
         /\ turn[t].at = "pumping" /\ row' = row /\ pages' = pages /\ c \in Chats
         /\ LET told == IF finished THEN Emitted(web, c, "turnDone") ELSE web
            IN  web' = IF HasSession(web, c) THEN Ended(told, c, "completed") ELSE web
         /\ turn' = [turn EXCEPT ![t].at = IF finished /\ ~HasSession(web, c)
                                           THEN "crashed"
                                           ELSE "over"]
  BY DEF PumpDrains
<1>3. CASE HasSession(web, c)
  <2> DEFINE told == IF finished THEN Emitted(web, c, "turnDone") ELSE web
  <2>1. web' = Ended(told, c, "completed") /\ turn' = [turn EXCEPT ![t].at = "over"]
    BY <1>2, <1>3
  <2>2. /\ Tables(told) /\ WithinCaps(told) /\ Good(told, turn) /\ told.lost = web.lost
        /\ told.session = web.session
    <3>1. CASE finished
      <4>1. "turnDone" \in EventKind \ {"text"}
        BY DEF EventKind
      <4>2. told = Emitted(web, c, "turnDone")
        BY <3>1
      <4> HIDE DEF told
      <4>3. QED BY <1>1, <1>2, <4>1, <4>2, MarkedFits DEF Parts
    <3>2. CASE ~finished
      BY <1>1, <3>2 DEF Parts
    <3>3. QED BY <3>1, <3>2
  <2> HIDE DEF told
  <2>3. HasSession(told, c)
    BY <1>3, <2>2 DEF HasSession
  <2>4. /\ Tables(web') /\ WithinCaps(web') /\ Good(web', turn) /\ web'.lost = told.lost
        /\ web'.session[c].status # "running"
    BY <1>1, <1>2, <2>1, <2>2, <2>3, EndedFits DEF Parts
  <2>5. web.lost \subseteq web'.lost /\ turn[t].at # "new" /\ row' = row /\ pages' = pages
    BY <1>2, <2>2, <2>4
  <2>6. QED BY <2>1, <2>4, <2>5, TurnMoved
<1>4. CASE ~HasSession(web, c)
  <2>1. web.session[c].status # "running"
    BY <1>4 DEF HasSession
  <2>2. web' = web
    BY <1>2, <1>4
  <2>3. CASE finished
    <3>1. turn' = [turn EXCEPT ![t].at = "crashed"]
      BY <1>2, <1>4, <2>3
    <3>2. QED BY <1>1, <1>2, <2>2, <3>1, TurnMoved DEF Parts
  <2>4. CASE ~finished
    <3>1. turn' = [turn EXCEPT ![t].at = "over"]
      BY <1>2, <1>4, <2>4
    <3>2. QED BY <1>1, <1>2, <2>1, <2>2, <3>1, TurnMoved DEF Parts
  <2>5. QED BY <2>3, <2>4
<1>5. QED BY <1>3, <1>4

LEMMA PumpRejectsStep == ASSUME IInv, NEW t \in Turns, PumpRejects(t) PROVE IInv'
<1> DEFINE c == ChatOf[t]
<1>1. Parts
  BY IInvParts
<1>2. /\ turn[t].at = "crashed" /\ row' = row /\ pages' = pages /\ c \in Chats
      /\ web' = IF HasSession(web, c) THEN Ended(web, c, "failed") ELSE web
      /\ turn' = [turn EXCEPT ![t].at = "over"]
  BY DEF PumpRejects
<1>3. /\ Tables(web') /\ WithinCaps(web') /\ Good(web', turn) /\ web'.lost = web.lost
      /\ web'.session[c].status # "running"
  <2>1. CASE HasSession(web, c)
    BY <1>1, <1>2, <2>1, EndedFits DEF Parts
  <2>2. CASE ~HasSession(web, c)
    BY <1>1, <1>2, <2>2 DEF Parts, HasSession
  <2>3. QED BY <2>1, <2>2
<1>4. QED BY <1>2, <1>3, TurnMoved

\* A recorder that has come to no more than the first end of its turn's events has
\* seen no text but its own.
LEMMA TextsToAreOwn ==
    ASSUME IInv, NEW t \in Turns, NEW n \in Nat, n <= Len(web.events[ChatOf[t]]),
           NoneFinal(t, n)
    PROVE  /\ TextsTo(t, n) \subseteq Turns
           /\ Started(t) => TextsTo(t, n) \subseteq {t} \/ t \in web.lost
<1> DEFINE log == web.events[ChatOf[t]]
           f == turn[t].first
<1>1. Parts
  BY IInvParts
<1>2. /\ log \in Seq(Event) /\ f \in Nat \ {0} /\ Len(log) \in Nat
      /\ \A m \in 1..Len(log) : log[m] \in Event
  <2>1. log \in Seq(Event)
    <3>1. Tables(web) /\ ChatOf[t] \in Chats
      BY <1>1 DEF Parts
    <3>2. web.events \in [Chats -> Seq(Event)]
      BY <3>1, TablesAre
    <3>3. QED BY <3>1, <3>2
  <2>2. f \in Nat \ {0}
    BY <1>1 DEF Parts, TurnRecords
  <2>3. QED BY <2>1, <2>2, LenProperties, SetOfSeq
<1>3. TextsTo(t, n) = {log[m].by : m \in {k \in f..n : log[k].kind = "text"}}
  BY DEF TextsTo
<1>4. Started(t) => OwnIn(log, f, t) \/ t \in web.lost
  BY <1>1 DEF Parts, Good, TurnIs, Started
<1>5. \A m \in f..(n - 1) : ~FinalForRecorder(log[m].kind)
  BY DEF NoneFinal
<1> HIDE DEF log, f
<1>6. ASSUME NEW m \in f..n, log[m].kind = "text"
      PROVE  log[m].by \in Turns /\ (Started(t) => log[m].by = t \/ t \in web.lost)
  <2>1. m \in 1..Len(log) /\ m \in f..Len(log) /\ (f .. m - 1) \subseteq f .. (n - 1)
    BY <1>2 DEF log
  <2>2. log[m].by \in Turns
    BY <1>2, <1>6, <2>1 DEF Event
  <2>3. ASSUME OwnIn(log, f, t) PROVE log[m].by = t \/ t \in web.lost
    BY <1>5, <1>6, <2>1, <2>3 DEF OwnIn
  <2>4. QED BY <1>4, <2>2, <2>3
<1>7. QED BY <1>3, <1>6

\* However far it came, its row has no text but those.
LEMMA RecorderEndsStep ==
    ASSUME IInv, NEW t \in Turns, NEW n \in Nat, n <= Len(web.events[ChatOf[t]]),
           Recording(t), turn[t].first <= n, NoneFinal(t, n), RecorderEnds(t, n)
    PROVE  IInv'
<1>1. Parts
  BY IInvParts
<1>2. PICK state \in {"final", "abandoned"}, m \in (turn[t].first - 1)..n :
         row' = [row EXCEPT ![t] = [state |-> state, text |-> TextsTo(t, m)]]
  <2>1. turn[t].first \in Nat \ {0}
    BY <1>1 DEF Parts, TurnRecords
  <2>2. n \in (turn[t].first - 1)..n
    BY <2>1
  <2>3. QED BY <2>2 DEF RecorderEnds
<1>3. web' = web /\ turn' = turn /\ pages' = pages /\ row[t].state = "open"
  BY DEF RecorderEnds, Recording
<1> DEFINE by == TextsTo(t, m)
<1>4. by \subseteq Turns /\ (Started(t) => by \subseteq {t} \/ t \in web.lost)
  <2>1. turn[t].first \in Nat \ {0} /\ Len(web.events[ChatOf[t]]) \in Nat
    <3>1. Tables(web) /\ ChatOf[t] \in Chats /\ turn[t].first \in Nat \ {0}
      BY <1>1 DEF Parts, TurnRecords
    <3>2. web.events \in [Chats -> Seq(Event)]
      BY <3>1, TablesAre
    <3>3. QED BY <3>1, <3>2, LenProperties
  <2>2. m \in Nat /\ m <= Len(web.events[ChatOf[t]]) /\ m <= n
    BY <2>1
  <2>3. NoneFinal(t, m)
    BY <2>1, <2>2 DEF NoneFinal
  <2>4. QED BY <2>2, <2>3, TextsToAreOwn
<1> HIDE DEF by
<1>5. row' \in RowRecords /\ row'[t].text = by /\ row'[t].state # "open"
      /\ \A u \in Turns : u # t => row'[u] = row[u]
  <2>1. row \in RowRecords
    BY <1>1 DEF Parts
  <2>2. row' = [row EXCEPT ![t] = [state |-> state, text |-> by]]
    BY <1>2 DEF by
  <2>3. QED BY <1>2, <1>4, <2>1, <2>2 DEF RowRecords
<1>6. NoForeignText'
  <2>1. NoForeignText /\ Started(t)
    BY <1>1, <1>3 DEF Parts, RowsHaveTurns
  <2>2. by \subseteq {t} \/ t \in web.lost
    BY <1>4, <2>1
  <2>3. QED BY <1>3, <1>5, <2>1, <2>2 DEF NoForeignText
<1>7. RowsHaveTurns'
  <2>1. RowsHaveTurns
    BY <1>1 DEF Parts
  <2>2. QED BY <1>3, <1>5, <2>1 DEF RowsHaveTurns, Started
<1>8. Parts'
  BY <1>1, <1>3, <1>5, <1>6, <1>7 DEF Parts
<1>9. QED BY <1>8, IInvPartsNext

LEMMA RecordStep ==
    ASSUME IInv, NEW t \in Turns, Record(t) \/ SnapshotFails(t)
    PROVE  IInv'
<1>1. turn[t].first \in Nat \ {0} /\ Len(web.events[ChatOf[t]]) \in Nat
  <2>1. Tables(web) /\ ChatOf[t] \in Chats /\ turn[t].first \in Nat \ {0}
    BY IInvParts DEF Parts, TurnRecords
  <2>2. web.events \in [Chats -> Seq(Event)]
    BY <2>1, TablesAre
  <2>3. QED BY <2>1, <2>2, LenProperties
<1>2. PICK n \in turn[t].first..Len(web.events[ChatOf[t]]) :
         Recording(t) /\ (NoneFinal(t, n) \/ NoneFinal(t, n + 1)) /\ RecorderEnds(t, n)
  BY DEF Record, SnapshotFails
<1>3. n \in Nat /\ n <= Len(web.events[ChatOf[t]]) /\ turn[t].first <= n
  BY <1>1
<1>4. NoneFinal(t, n)
  BY <1>1, <1>2, <1>3 DEF NoneFinal
<1>5. QED BY <1>2, <1>3, <1>4, RecorderEndsStep

LEMMA PageEndsStep == ASSUME IInv, NEW t \in Turns, PageEnds(t) PROVE IInv'
<1>1. Parts
  BY IInvParts
<1>2. web' = web /\ turn' = turn /\ row' = row /\ pages' \subseteq pages
  BY DEF PageEnds
<1>3. QED BY <1>1, <1>2, RowsKept DEF Parts

LEMMA InvariantStep == IInv /\ [Next]_vars => IInv'
<1> SUFFICES ASSUME IInv, [Next]_vars PROVE IInv'
  OBVIOUS
<1>1. CASE UNCHANGED vars
  <2>1. web' = web /\ turn' = turn /\ row' = row /\ pages' = pages /\ Parts
    BY <1>1, IInvParts DEF vars
  <2>2. QED BY <2>1, RowsKept DEF Parts
<1>2. ASSUME NEW c \in Chats, Reconnect(c) \/ Stop(c) \/ Delete(c) PROVE IInv'
  BY <1>2, ReconnectStep, StopStep, DeleteStep
<1>3. ASSUME NEW t \in Turns, NEW otherEpoch \in BOOLEAN, FreshStart(t, otherEpoch)
      PROVE  IInv'
  BY <1>3, FreshStartStep
<1>4. ASSUME NEW s \in Subagents, Spawn(s) PROVE IInv'
  BY <1>4, SpawnStep
<1>5. ASSUME NEW t \in Turns,
             Setup(t) \/ Pump(t) \/ Record(t) \/ SnapshotFails(t) \/ PageEnds(t)
      PROVE  IInv'
  <2>1. CASE Pump(t)
    BY <2>1, PumpTextStep, PumpDrainsStep, PumpRejectsStep DEF Pump
  <2>2. QED BY <1>5, <2>1, SetupStep, RecordStep, PageEndsStep
<1>6. QED BY <1>1, <1>2, <1>3, <1>4, <1>5 DEF Next, Request

LEMMA InvariantHolds == Spec => []IInv
BY InitInvariant, InvariantStep, PTL DEF Spec

-----------------------------------------------------------------------------

\* Every variable has its type, the two orders are those of the two tables, no id is
\* in one of them twice, and neither is ever over its cap: evictLruIfOver and
\* enforceCap each take one entry out, and that is enough.
THEOREM TypeCorrect == Spec => []TypeOK
<1>1. IInv => TypeOK
  BY DEF IInv
<1>2. QED BY <1>1, InvariantHolds, PTL

\* A turn at work is the turn of its chat's entry, so that a stop, a deletion, the
\* next question and the cap all reach its abort controller (evictSession and
\* enforceCap abort before they drop), however small the cap is.
THEOREM LiveTurnsAreStoppable == Spec => []LiveTurnIsStoppable
<1>1. IInv => LiveTurnIsStoppable
  BY DEF IInv
<1>2. QED BY <1>1, InvariantHolds, PTL

\* The recorder copies by chat id and yet a row has no text of another turn, unless
\* the registry dropped the turn's session without a word: the stop of a chat tells
\* its subscribers before its id is used again.
THEOREM NoForeignTexts == Spec => []NoForeignText
<1>1. IInv => NoForeignText
  BY DEF IInv
<1>2. QED BY <1>1, InvariantHolds, PTL

\* A session that answers 409 to every other question has a turn whose pump will
\* complete or fail it, or whose setup threw.
THEOREM RunningHasItsTurn == Spec => []RunningHasATurn
<1>1. IInv => RunningHasATurn
  BY DEF IInv
<1>2. QED BY <1>1, InvariantHolds, PTL

=============================================================================
