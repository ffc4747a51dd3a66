-------------------------- MODULE ReplSessionProofs --------------------------
(***************************************************************************)
(* Theorems about a conversation at the prompt, for any number of          *)
(* sessions, of turns and of tool calls.                                   *)
(***************************************************************************)
EXTENDS ReplSession, SequenceTheorems, TLAPS

USE ReplAssumption

-----------------------------------------------------------------------------
(* Prefixes. *)

LEMMA PrefixIs ==
    ASSUME NEW S, NEW s \in Seq(S), NEW t \in Seq(S)
    PROVE  IsPrefix(s, t) <=> Len(s) <= Len(t) /\ \A i \in 1..Len(s) : s[i] = t[i]
<1>1. /\ Len(s) \in Nat /\ Len(t) \in Nat
      /\ \A i \in 1..Len(s) : s[i] \in S
      /\ \A i \in 1..Len(t) : t[i] \in S
  BY LenProperties, ElementOfSeq
<1>2. CASE Len(s) <= Len(t)
  <2>1. /\ SubSeq(s, 1, Len(s)) \in Seq(S) /\ Len(SubSeq(s, 1, Len(s))) = Len(s)
        /\ \A i \in 1..Len(s) : SubSeq(s, 1, Len(s))[i] = s[i]
    BY <1>1, SubSeqProperties
  <2>2. /\ SubSeq(t, 1, Len(s)) \in Seq(S) /\ Len(SubSeq(t, 1, Len(s))) = Len(s)
        /\ \A i \in 1..Len(s) : SubSeq(t, 1, Len(s))[i] = t[i]
    <3>1. \A i \in 1..Len(s) : t[i] \in S
      BY <1>1, <1>2
    <3>2. QED BY <1>1, <3>1, SubSeqProperties
  <2>3. SubSeq(s, 1, Len(s)) = SubSeq(t, 1, Len(s)) <=> \A i \in 1..Len(s) : s[i] = t[i]
    <3>1. ASSUME SubSeq(s, 1, Len(s)) = SubSeq(t, 1, Len(s)), NEW i \in 1..Len(s)
          PROVE  s[i] = t[i]
      BY <2>1, <2>2, <3>1
    <3>2. ASSUME \A i \in 1..Len(s) : s[i] = t[i]
          PROVE  SubSeq(s, 1, Len(s)) = SubSeq(t, 1, Len(s))
      BY <2>1, <2>2, <3>2, SeqEqual
    <3>3. QED BY <3>1, <3>2
  <2>4. QED BY <1>2, <2>3 DEF IsPrefix
<1>3. CASE ~(Len(s) <= Len(t))
  BY <1>3 DEF IsPrefix
<1>4. QED BY <1>2, <1>3

LEMMA PrefixOfItself ==
    ASSUME NEW S, NEW s \in Seq(S)
    PROVE  IsPrefix(s, s)
BY PrefixIs, LenProperties

LEMMA PrefixOfPrefix ==
    ASSUME NEW S, NEW s \in Seq(S), NEW t \in Seq(S), NEW u \in Seq(S),
           IsPrefix(s, t), IsPrefix(t, u)
    PROVE  IsPrefix(s, u)
<1>1. Len(s) \in Nat /\ Len(t) \in Nat /\ Len(u) \in Nat
  BY LenProperties
<1>2. /\ Len(s) <= Len(t) /\ \A i \in 1..Len(s) : s[i] = t[i]
      /\ Len(t) <= Len(u) /\ \A i \in 1..Len(t) : t[i] = u[i]
  BY PrefixIs
<1>3. Len(s) <= Len(u) /\ \A i \in 1..Len(s) : s[i] = u[i]
  BY <1>1, <1>2
<1>4. QED BY <1>3, PrefixIs

LEMMA PrefixOfAppend ==
    ASSUME NEW S, NEW s \in Seq(S), NEW e \in S
    PROVE  /\ Append(s, e) \in Seq(S) /\ Len(Append(s, e)) = Len(s) + 1
           /\ IsPrefix(s, Append(s, e))
<1> DEFINE t == Append(s, e)
<1>1. /\ Len(s) \in Nat /\ t \in Seq(S) /\ Len(t) = Len(s) + 1
      /\ \A i \in 1..Len(s) : t[i] = s[i]
  BY LenProperties, AppendProperties
<1> HIDE DEF t
<1>2. Len(s) <= Len(t) /\ \A i \in 1..Len(s) : s[i] = t[i]
  BY <1>1
<1>3. IsPrefix(s, t)
  BY <1>1, <1>2, PrefixIs
<1>4. QED BY <1>1, <1>3 DEF t

LEMMA FrontOf ==
    ASSUME NEW S, NEW s \in Seq(S), Len(s) > 0
    PROVE  Front(s) \in Seq(S) /\ Len(Front(s)) = Len(s) - 1 /\ IsPrefix(Front(s), s)
<1> DEFINE f == Front(s)
<1>1. Len(s) \in Nat /\ \A i \in 1..Len(s) : s[i] \in S
  BY LenProperties, ElementOfSeq
<1>2. \A i \in 1..(Len(s) - 1) : s[i] \in S
  BY <1>1
<1>3. /\ f \in Seq(S) /\ Len(f) = IF 1 <= Len(s) - 1 THEN (Len(s) - 1) - 1 + 1 ELSE 0
      /\ \A i \in 1..((Len(s) - 1) - 1 + 1) : f[i] = s[1 + i - 1]
  BY <1>1, <1>2, SubSeqProperties DEF Front
<1> HIDE DEF f
<1>4. Len(f) = Len(s) - 1 /\ (Len(s) - 1) - 1 + 1 = Len(s) - 1
  <2>1. \A n \in Nat : n > 0 => /\ (n - 1) - 1 + 1 = n - 1
                               /\ (IF 1 <= n - 1 THEN (n - 1) - 1 + 1 ELSE 0) = n - 1
    OBVIOUS
  <2>2. QED BY <1>1, <1>3, <2>1
<1>5. \A i \in 1..Len(f) : f[i] = s[i]
  <2> SUFFICES ASSUME NEW i \in 1..Len(f) PROVE f[i] = s[i]
      OBVIOUS
  <2>1. i \in 1..((Len(s) - 1) - 1 + 1) /\ 1 + i - 1 = i
    BY <1>1, <1>4
  <2>2. QED BY <1>3, <2>1
<1>6. Len(f) <= Len(s)
  BY <1>1, <1>4
<1>7. IsPrefix(f, s)
  BY <1>3, <1>5, <1>6, PrefixIs
<1>8. QED BY <1>3, <1>4, <1>7 DEF f

LEMMA FrontOfAppend ==
    ASSUME NEW S, NEW s \in Seq(S), NEW e \in S
    PROVE  Front(Append(s, e)) = s
<1> DEFINE t == Append(s, e)
           f == Front(t)
<1>1. /\ t \in Seq(S) /\ Len(t) = Len(s) + 1 /\ Len(s) \in Nat
      /\ IsPrefix(s, t)
  BY PrefixOfAppend, LenProperties
<1> HIDE DEF t
<1>2. f \in Seq(S) /\ Len(f) = Len(t) - 1 /\ IsPrefix(f, t)
  <2>1. Len(t) > 0
    BY <1>1
  <2>2. QED BY <1>1, <2>1, FrontOf
<1> HIDE DEF f
<1>3. \A i \in 1..Len(f) : f[i] = t[i]
  BY <1>1, <1>2, PrefixIs
<1>4. \A i \in 1..Len(s) : s[i] = t[i]
  BY <1>1, PrefixIs
<1>5. Len(f) = Len(s)
  BY <1>1, <1>2
<1>6. f = s
  BY <1>2, <1>3, <1>4, <1>5, SeqEqual
<1>7. QED BY <1>6 DEF f, t

-----------------------------------------------------------------------------
(* Types. *)

Row == [messages : Seq(Message), turnCount : Nat, saved : BOOLEAN]

LEMMA MessagesTyped ==
    /\ \A n \in 0..MaxInputs : User(n) \in Message /\ Answer(n) \in Message
    /\ \A batch \in UNION {[1..n -> 1..MaxCalls] : n \in 0..MaxBatch} :
          ToolCalls(batch) \in Message
    /\ \A c \in 1..MaxCalls : ToolResult(c, TRUE) \in Message /\ ToolResult(c, FALSE) \in Message
<1>1. <<>> \in UNION {[1..n -> 1..MaxCalls] : n \in 0..MaxBatch}
  <2>1. <<>> \in [1..0 -> 1..MaxCalls]
    BY EmptySeq, LenProperties
  <2>2. 0 \in 0..MaxBatch
    OBVIOUS
  <2>3. QED BY <2>1, <2>2
<1>2. /\ \A n \in 0..MaxInputs : n \in 0..MaxInputs + MaxCalls
      /\ \A c \in 1..MaxCalls : c \in 0..MaxInputs + MaxCalls
      /\ 0 \in 0..MaxInputs + MaxCalls
  OBVIOUS
<1> DEFINE Batch == UNION {[1..n -> 1..MaxCalls] : n \in 0..MaxBatch}
<1>3. Message = [role : {"user", "assistant", "tool"}, id : 0..MaxInputs + MaxCalls,
                 calls : Batch, blocked : BOOLEAN]
  BY DEF Message
<1>4. <<>> \in Batch
  BY <1>1
<1> HIDE DEF Batch
<1>5. \A n \in 0..MaxInputs : User(n) \in Message /\ Answer(n) \in Message
  BY <1>2, <1>3, <1>4 DEF User, Answer
<1>6. \A batch \in Batch : ToolCalls(batch) \in Message
  BY <1>2, <1>3 DEF ToolCalls
<1>7. \A c \in 1..MaxCalls : ToolResult(c, TRUE) \in Message /\ ToolResult(c, FALSE) \in Message
  BY <1>2, <1>3, <1>4 DEF ToolResult
<1>8. QED BY <1>5, <1>6, <1>7 DEF Batch

LEMMA NoCallsAsked ==
    ASSUME NEW t \in Seq(Message), NEW m \in Message, m.calls = <<>>
    PROVE  Asked(Append(t, m)) = Asked(t)
<1>1. /\ DOMAIN t = 1..Len(t) /\ Len(t) \in Nat
      /\ DOMAIN Append(t, m) = 1..(Len(t) + 1)
      /\ \A i \in 1..Len(t) : Append(t, m)[i] = t[i]
      /\ Append(t, m)[Len(t) + 1] = m
  BY LenProperties, AppendProperties
<1>2. ToSet(Append(t, m)) = ToSet(t) \cup {m}
  BY <1>1 DEF ToSet
<1>3. ToSet(m.calls) = {}
  BY DEF ToSet
<1>4. QED BY <1>2, <1>3 DEF Asked

LEMMA Typed ==
    ASSUME IInv
    PROVE  /\ row \in [Session -> Row]
           /\ own \in Session /\ pc \in InLoop \cup {"prompt", "down"}
           /\ messages \in Seq(Message) /\ working \in Seq(Message)
           /\ Len(messages) \in Nat /\ Len(working) \in Nat
           /\ turnCount \in Nat /\ loopTurn \in 0..MaxTurns /\ blocked \in 0..3
           /\ pending \in Seq(1..MaxCalls)
           /\ inputs \in 0..MaxInputs /\ calls \in 0..MaxCalls
           /\ restored \in 0..Len(messages) /\ done \subseteq 1..MaxInputs
BY LenProperties DEF IInv, TypeOK, Row

-----------------------------------------------------------------------------
(* What the parts of the invariant say of a state before and after a step. *)

LEMMA TypedNext ==
    ASSUME row' \in [Session -> Row], own' \in Session, pc' \in InLoop \cup {"prompt", "down"},
           messages' \in Seq(Message), working' \in Seq(Message),
           turnCount' \in Nat, loopTurn' \in 0..MaxTurns, blocked' \in 0..3,
           pending' \in Seq(1..MaxCalls), inputs' \in 0..MaxInputs, calls' \in 0..MaxCalls,
           restored' \in 0..Len(messages)', done' \subseteq 1..MaxInputs
    PROVE  TypeOK'
BY DEF TypeOK, Row

\* Saving replaces the row of this process's session and no other.
LEMMA SaveEffect ==
    ASSUME row \in [Session -> Row], own \in Session, NEW t \in Seq(Message),
           NEW n \in Nat, Save(t, n)
    PROVE  /\ row' \in [Session -> Row]
           /\ row'[own].messages = t /\ row'[own].turnCount = n
           /\ \A s \in Session \ {own} : row'[s] = row[s]
BY DEF Save, Row

\* The turns that are settled: what the prompt shows, without the input at work.
Settled == IF pc = "prompt" THEN messages ELSE Front(messages)

LEMMA SavedIs ==
    CompletedTurnsAreSaved <=>
        (pc # "down" /\ Len(Settled) > restored => IsPrefix(Settled, row[own].messages))
BY DEF CompletedTurnsAreSaved, Settled

LEMMA SavedNextIs ==
    CompletedTurnsAreSaved' <=>
        (pc' # "down" /\ Len(Settled') > restored' => IsPrefix(Settled', row'[own'].messages))
BY DEF CompletedTurnsAreSaved, Settled

\* In the loop, what is settled is the start of the loop's copy.
LEMMA SettledIsWorkedOn ==
    ASSUME IInv, pc \in InLoop
    PROVE  /\ Settled = Front(messages)
           /\ Settled \in Seq(Message) /\ Len(Settled) = Len(messages) - 1
           /\ IsPrefix(Settled, working) /\ IsPrefix(Settled, messages)
<1>1. /\ messages \in Seq(Message) /\ working \in Seq(Message) /\ Len(messages) \in Nat
      /\ restored \in 0..Len(messages)
  BY Typed
<1>2. Len(messages) > restored /\ IsPrefix(messages, working)
  BY DEF IInv, LoopGoesOn
<1>3. Settled = Front(messages)
  BY DEF Settled, InLoop
<1>4. Len(messages) > 0
  BY <1>1, <1>2
<1>5. /\ Front(messages) \in Seq(Message) /\ Len(Front(messages)) = Len(messages) - 1
      /\ IsPrefix(Front(messages), messages)
  BY <1>1, <1>4, FrontOf
<1>6. IsPrefix(Front(messages), working)
  BY <1>1, <1>2, <1>5, PrefixOfPrefix
<1>7. QED BY <1>3, <1>5, <1>6

\* A step of the loop that saves its copy, or saves nothing, and lets it grow.
LEMMA LoopKeepsTurns ==
    ASSUME IInv, pc \in InLoop, pc' \in InLoop, UNCHANGED <<own, messages, restored>>,
           row' = row \/ row'[own].messages = working \/ row'[own].messages = working',
           working' \in Seq(Message), IsPrefix(working, working')
    PROVE  CompletedTurnsAreSaved'
<1>1. /\ Settled = Front(messages) /\ Settled \in Seq(Message)
      /\ IsPrefix(Settled, working)
  BY SettledIsWorkedOn
<1>2. Settled' = Settled
  BY <1>1 DEF Settled, InLoop
<1>3. working \in Seq(Message)
  BY Typed
<1>4. IsPrefix(Settled, working')
  BY <1>1, <1>3, PrefixOfPrefix
<1>5. Len(Settled) > restored => IsPrefix(Settled, row[own].messages)
  BY SavedIs DEF IInv, InLoop
<1>6. Len(Settled') > restored' => IsPrefix(Settled', row'[own'].messages)
  BY <1>1, <1>2, <1>4, <1>5
<1>7. QED BY <1>6, SavedNextIs

-----------------------------------------------------------------------------
(* The prompt. *)

LEMMA SubmitStep ==
    ASSUME IInv, Submit
    PROVE  IInv'
<1> DEFINE typed == User(inputs + 1)
<1>1. /\ pc = "prompt" /\ inputs < MaxInputs /\ inputs' = inputs + 1
      /\ messages' = Append(messages, typed) /\ working' = messages'
      /\ loopTurn' = turnCount /\ pending' = <<>> /\ blocked' = 0 /\ pc' = "turn"
      /\ UNCHANGED <<row, own, turnCount, calls, restored, done>>
  BY DEF Submit
<1>2. typed \in Message
  BY <1>1, Typed, MessagesTyped
<1>3. /\ messages \in Seq(Message) /\ Len(messages) \in Nat
      /\ restored \in 0..Len(messages) /\ inputs \in 0..MaxInputs /\ turnCount \in Nat
      /\ turnCount <= MaxTurns
  BY Typed DEF IInv, CountsAreBounded
<1> HIDE DEF typed
<1>4. /\ messages' \in Seq(Message) /\ Len(messages') = Len(messages) + 1
  BY <1>1, <1>2, <1>3, PrefixOfAppend
<1>5. TypeOK'
  <2>1. pending' \in Seq(1..MaxCalls)
    BY <1>1, EmptySeq
  <2>2. restored' \in 0..Len(messages)' /\ inputs' \in 0..MaxInputs /\ loopTurn' \in 0..MaxTurns
    BY <1>1, <1>3, <1>4
  <2>3. pc' \in InLoop \cup {"prompt", "down"}
    BY <1>1 DEF InLoop
  <2>4. QED BY <1>1, <1>4, <2>1, <2>2, <2>3, Typed, TypedNext
<1>6. LoopGoesOn'
  <2>1. IsPrefix(messages', working')
    BY <1>1, <1>4, PrefixOfItself
  <2>2. QED BY <1>1, <1>3, <1>4, <2>1 DEF LoopGoesOn
<1>7. StepsAreInOrder' /\ CountsAreBounded' /\ ToolCallsSavedFirst'
  BY <1>1 DEF IInv, StepsAreInOrder, CountsAreBounded, ToolCallsSavedFirst
<1>8. CompletedTurnsAreSaved'
  <2>1. Settled' = messages /\ Settled = messages
    BY <1>1, <1>2, <1>3, FrontOfAppend DEF Settled
  <2>2. QED BY <1>1, <2>1, SavedIs, SavedNextIs DEF IInv
<1>9. QED BY <1>5, <1>6, <1>7, <1>8 DEF IInv

\* A turn that failed takes its user's message with it.
LEMMA FailureStep ==
    ASSUME IInv, pc \in InLoop, messages' = Front(messages), pc' = "prompt",
           row' = row \/ (row' \in [Session -> Row] /\ row'[own].messages = working
                           /\ \A s \in Session : row'[s].turnCount <= MaxTurns),
           UNCHANGED <<own, turnCount, loop, issued, restored, done>>
    PROVE  IInv'
<1>1. /\ messages \in Seq(Message) /\ Len(messages) \in Nat /\ row \in [Session -> Row]
      /\ restored \in 0..Len(messages) /\ Len(messages) > restored
  BY Typed DEF IInv, LoopGoesOn
<1>2. /\ Settled = Front(messages) /\ Settled \in Seq(Message)
      /\ Len(Settled) = Len(messages) - 1 /\ IsPrefix(Settled, working)
  BY SettledIsWorkedOn
<1>3. TypeOK'
  <2>1. messages' \in Seq(Message) /\ restored' \in 0..Len(messages)'
    BY <1>1, <1>2
  <2>2. row' \in [Session -> Row]
    BY <1>1
  <2>3. QED BY <2>1, <2>2, Typed, TypedNext DEF loop, issued
<1>4. LoopGoesOn' /\ ToolCallsSavedFirst'
  BY DEF LoopGoesOn, ToolCallsSavedFirst, InLoop
<1>5. StepsAreInOrder' /\ CountsAreBounded'
  BY DEF IInv, StepsAreInOrder, CountsAreBounded, InLoop
<1>6. CompletedTurnsAreSaved'
  <2>1. Settled' = Settled
    BY <1>2 DEF Settled
  <2>2. Len(Settled) > restored => IsPrefix(Settled, row[own].messages)
    BY SavedIs DEF IInv, InLoop
  <2>3. QED BY <1>2, <2>1, <2>2, SavedNextIs
<1>7. QED BY <1>3, <1>4, <1>5, <1>6 DEF IInv

LEMMA TurnDoneStep ==
    ASSUME IInv, TurnDone
    PROVE  IInv'
<1>1. /\ pc = "answered" /\ messages' = working /\ turnCount' = turnCount + 1
      /\ done' = done \cup {inputs} /\ pc' = "prompt"
      /\ UNCHANGED <<row, own, working, loopTurn, pending, blocked, inputs, calls, restored>>
  BY DEF TurnDone, loop, issued
<1>2. /\ messages \in Seq(Message) /\ working \in Seq(Message)
      /\ IsPrefix(messages, working) /\ Len(working) \in Nat /\ Len(messages) \in Nat
      /\ restored \in 0..Len(messages) /\ inputs \in 1..MaxInputs
      /\ turnCount \in Nat /\ loopTurn \in 0..MaxTurns /\ turnCount < loopTurn
      /\ row[own].messages = working
  BY <1>1, Typed DEF IInv, LoopGoesOn, StepsAreInOrder, InLoop
<1>3. Len(messages) <= Len(working)
  BY <1>2, PrefixIs
<1>4. TypeOK'
  <2>1. restored' \in 0..Len(messages)' /\ turnCount' \in Nat /\ done' \subseteq 1..MaxInputs
    BY <1>1, <1>2, <1>3, Typed
  <2>2. QED BY <1>1, <1>2, <2>1, Typed, TypedNext
<1>5. LoopGoesOn' /\ ToolCallsSavedFirst' /\ StepsAreInOrder'
  BY <1>1 DEF LoopGoesOn, ToolCallsSavedFirst, StepsAreInOrder, InLoop
<1>6. CountsAreBounded'
  BY <1>1, <1>2 DEF IInv, CountsAreBounded
<1>7. CompletedTurnsAreSaved'
  <2>1. Settled' = working /\ row'[own'].messages = working
    BY <1>1, <1>2 DEF Settled
  <2>2. IsPrefix(working, working)
    BY <1>2, PrefixOfItself
  <2>3. QED BY <2>1, <2>2, SavedNextIs
<1>8. QED BY <1>4, <1>5, <1>6, <1>7 DEF IInv

LEMMA PromptStep ==
    ASSUME IInv, Clear \/ Exit \/ Crash \/ \E s \in Session : Resume(s) \/ Start(s)
    PROVE  IInv'
<1>1. /\ row \in [Session -> Row] /\ own \in Session
      /\ messages \in Seq(Message) /\ Len(messages) \in Nat /\ turnCount \in Nat
      /\ turnCount <= MaxTurns /\ \A s \in Session : row[s].turnCount <= MaxTurns
      /\ \A s \in Session : /\ row[s].messages \in Seq(Message)
                             /\ Len(row[s].messages) \in Nat /\ row[s].turnCount \in Nat
  BY Typed, LenProperties DEF IInv, CountsAreBounded, Row
<1>2. CASE Clear
  <2>1. /\ pc = "prompt" /\ pc' = "prompt" /\ messages' = <<>> /\ restored' = 0
        /\ done' \subseteq done
        /\ UNCHANGED <<row, own, turnCount, working, loopTurn, pending, blocked, inputs, calls>>
    BY <1>2 DEF Clear, loop, issued
  <2>2. messages' \in Seq(Message) /\ Len(messages') = 0
    BY <2>1, EmptySeq
  <2>3. TypeOK'
    BY <2>1, <2>2, Typed, TypedNext
  <2>4. CompletedTurnsAreSaved'
    BY <2>1, <2>2, SavedNextIs DEF Settled
  <2>5. QED
    BY <2>1, <2>3, <2>4
       DEF IInv, LoopGoesOn, StepsAreInOrder, CountsAreBounded, ToolCallsSavedFirst, InLoop
<1>3. CASE Exit \/ Crash
  <2>1. /\ pc' = "down" /\ row' \in [Session -> Row]
        /\ \A s \in Session : row'[s].turnCount <= MaxTurns
        /\ UNCHANGED <<own, messages, turnCount, working, loopTurn, pending, blocked, inputs,
                       calls, restored, done>>
    BY <1>1, <1>3, SaveEffect DEF Exit, Crash, prompt, loop, issued
  <2>2. TypeOK'
    BY <2>1, Typed, TypedNext
  <2>3. CompletedTurnsAreSaved'
    BY <2>1, SavedNextIs
  <2>4. QED
    BY <1>1, <2>1, <2>2, <2>3
       DEF IInv, LoopGoesOn, StepsAreInOrder, CountsAreBounded, ToolCallsSavedFirst, InLoop
<1>4. ASSUME NEW s \in Session, Resume(s) \/ Start(s) PROVE IInv'
  <2>1. /\ pc' = "prompt" /\ messages' = row[s].messages /\ turnCount' = row[s].turnCount
        /\ restored' = Len(row[s].messages) /\ own' \in Session
        /\ UNCHANGED <<inputs, calls, done>>
        /\ \/ UNCHANGED <<working, loopTurn, pending, blocked>>
           \/ working' = <<>> /\ loopTurn' = 0 /\ pending' = <<>> /\ blocked' = 0
    BY <1>1, <1>4 DEF Resume, Start, loop, issued
  <2>2. row' \in [Session -> Row] /\ \A u \in Session : row'[u].turnCount <= MaxTurns
    <3>1. CASE Resume(s)
      BY <1>1, <3>1, SaveEffect DEF Resume
    <3>2. CASE Start(s)
      BY <1>1, <3>2 DEF Start
    <3>3. QED BY <1>4, <3>1, <3>2
  <2>3. /\ working' \in Seq(Message) /\ pending' \in Seq(1..MaxCalls)
        /\ loopTurn' \in 0..MaxTurns /\ blocked' \in 0..3
    <3>1. /\ <<>> \in Seq(Message) /\ <<>> \in Seq(1..MaxCalls)
          /\ 0 \in 0..MaxTurns /\ 0 \in 0..3
      BY EmptySeq
    <3>2. CASE UNCHANGED <<working, loopTurn, pending, blocked>>
      BY <3>2, Typed
    <3>3. CASE working' = <<>> /\ loopTurn' = 0 /\ pending' = <<>> /\ blocked' = 0
      BY <3>1, <3>3
    <3>4. QED BY <2>1, <3>2, <3>3
  <2>4. TypeOK'
    BY <1>1, <2>1, <2>2, <2>3, Typed, TypedNext
  <2>5. CompletedTurnsAreSaved'
    BY <1>1, <2>1, SavedNextIs DEF Settled
  <2>6. QED
    BY <1>1, <2>1, <2>2, <2>4, <2>5
       DEF IInv, LoopGoesOn, StepsAreInOrder, CountsAreBounded, ToolCallsSavedFirst, InLoop
<1>5. QED BY <1>2, <1>3, <1>4

-----------------------------------------------------------------------------
(* The loop. *)

\* What every step of the loop leaves to the next, once it is known what it adds to the
\* copy and to the row.
LEMMA LoopKeeps ==
    ASSUME IInv, pc \in InLoop, pc' \in InLoop,
           UNCHANGED <<own, messages, turnCount, inputs, restored, done>>,
           row' \in [Session -> Row], \A s \in Session : row'[s].turnCount <= MaxTurns,
           row' = row \/ row'[own].messages = working \/ row'[own].messages = working',
           working' \in Seq(Message), IsPrefix(working, working'),
           loopTurn' \in 0..MaxTurns, loopTurn <= loopTurn',
           blocked' \in 0..3, pending' \in Seq(1..MaxCalls), calls' \in 0..MaxCalls,
           StepsAreInOrder', ToolCallsSavedFirst'
    PROVE  IInv'
<1>1. TypeOK'
  BY Typed, TypedNext
<1>2. /\ messages \in Seq(Message) /\ working \in Seq(Message)
      /\ turnCount \in Nat /\ loopTurn \in 0..MaxTurns
      /\ Len(messages) > restored /\ IsPrefix(messages, working)
      /\ inputs > 0 /\ turnCount <= loopTurn /\ turnCount <= MaxTurns
  BY Typed DEF IInv, LoopGoesOn, CountsAreBounded
<1>3. IsPrefix(messages, working')
  BY <1>2, PrefixOfPrefix
<1>4. turnCount' <= loopTurn'
  BY <1>2
<1>5. LoopGoesOn'
  BY <1>2, <1>3, <1>4 DEF LoopGoesOn
<1>6. CountsAreBounded'
  BY <1>2 DEF CountsAreBounded
<1>7. CompletedTurnsAreSaved'
  BY LoopKeepsTurns
<1>8. QED BY <1>1, <1>5, <1>6, <1>7 DEF IInv

LEMMA StartTurnStep ==
    ASSUME IInv, StartTurn
    PROVE  IInv'
<1>1. /\ pc = "turn" /\ loopTurn < MaxTurns /\ loopTurn' = loopTurn + 1
      /\ Save(working, loopTurn') /\ pc' = "llm"
      /\ UNCHANGED <<own, messages, turnCount, working, pending, blocked, inputs, calls,
                     restored, done>>
  BY DEF StartTurn, prompt, issued
<1>2. /\ row \in [Session -> Row] /\ own \in Session /\ working \in Seq(Message)
      /\ loopTurn \in 0..MaxTurns /\ turnCount \in Nat /\ turnCount <= loopTurn
      /\ \A s \in Session : row[s].turnCount <= MaxTurns
  BY <1>1, Typed DEF IInv, LoopGoesOn, CountsAreBounded, InLoop
<1>3. loopTurn' \in 0..MaxTurns /\ loopTurn' \in Nat /\ loopTurn <= loopTurn'
      /\ loopTurn' <= MaxTurns /\ turnCount' < loopTurn'
  BY <1>1, <1>2
<1>4. /\ row' \in [Session -> Row]
      /\ row'[own].messages = working /\ row'[own].turnCount = loopTurn'
      /\ \A s \in Session \ {own} : row'[s] = row[s]
  BY <1>1, <1>2, <1>3, SaveEffect
<1>5. StepsAreInOrder' /\ ToolCallsSavedFirst'
  BY <1>1, <1>3 DEF IInv, StepsAreInOrder, ToolCallsSavedFirst
<1>6. pc \in InLoop /\ pc' \in InLoop
  BY <1>1 DEF InLoop
<1>7. IsPrefix(working, working')
  BY <1>1, <1>2, PrefixOfItself
<1>8. \A s \in Session : row'[s].turnCount <= MaxTurns
  BY <1>2, <1>3, <1>4
<1>9. QED BY <1>1, <1>2, <1>3, <1>4, <1>5, <1>6, <1>7, <1>8, Typed, LoopKeeps

LEMMA ReceiveAnswerStep ==
    ASSUME IInv, ReceiveAnswer
    PROVE  IInv'
<1>1. /\ pc = "llm" /\ working' = Append(working, Answer(inputs))
      /\ Save(working', loopTurn) /\ pc' = "answered"
      /\ UNCHANGED <<own, messages, turnCount, loopTurn, pending, blocked, inputs, calls,
                     restored, done>>
  BY DEF ReceiveAnswer, prompt, issued
<1>2. /\ row \in [Session -> Row] /\ own \in Session /\ working \in Seq(Message)
      /\ loopTurn \in 0..MaxTurns /\ loopTurn \in Nat /\ inputs \in 0..MaxInputs
      /\ turnCount < loopTurn /\ \A s \in Session : row[s].turnCount <= MaxTurns
  BY <1>1, Typed DEF IInv, StepsAreInOrder, CountsAreBounded, InLoop
<1>3. Answer(inputs) \in Message
  BY <1>2, MessagesTyped
<1>4. working' \in Seq(Message) /\ IsPrefix(working, working')
  BY <1>1, <1>2, <1>3, PrefixOfAppend
<1>5. /\ row' \in [Session -> Row]
      /\ row'[own].messages = working' /\ row'[own].turnCount = loopTurn
      /\ \A s \in Session \ {own} : row'[s] = row[s]
  BY <1>1, <1>2, <1>4, SaveEffect
<1>6. StepsAreInOrder' /\ ToolCallsSavedFirst'
  BY <1>1, <1>2, <1>5 DEF StepsAreInOrder, ToolCallsSavedFirst
<1>7. pc \in InLoop /\ pc' \in InLoop
  BY <1>1 DEF InLoop
<1>8. \A s \in Session : row'[s].turnCount <= MaxTurns
  BY <1>2, <1>5
<1>9. loopTurn <= loopTurn' /\ loopTurn' \in 0..MaxTurns
  BY <1>1, <1>2
<1>10. QED BY <1>1, <1>4, <1>5, <1>6, <1>7, <1>8, <1>9, Typed, LoopKeeps

LEMMA ReceiveToolCallsStep ==
    ASSUME IInv, ReceiveToolCalls
    PROVE  IInv'
<1>1. PICK n \in 1..MaxBatch :
         /\ calls + n <= MaxCalls /\ calls' = calls + n
         /\ pending' = [i \in 1..n |-> calls + i]
         /\ working' = Append(working, ToolCalls(pending'))
  BY DEF ReceiveToolCalls
<1>2. /\ pc = "llm" /\ pc' = "calls"
      /\ UNCHANGED <<row, own, messages, turnCount, loopTurn, blocked, inputs, restored, done>>
  BY DEF ReceiveToolCalls, prompt
<1>3. /\ row \in [Session -> Row] /\ working \in Seq(Message) /\ calls \in 0..MaxCalls
      /\ loopTurn \in 0..MaxTurns /\ blocked \in 0..3
      /\ \A s \in Session : row[s].turnCount <= MaxTurns
  BY Typed DEF IInv, CountsAreBounded
<1>4. /\ pending' \in [1..n -> 1..MaxCalls] /\ n \in Nat \ {0}
      /\ calls' \in 0..MaxCalls
  BY <1>1, <1>3
<1>5. pending' \in Seq(1..MaxCalls) /\ pending' # <<>>
  <2>1. pending' \in Seq(1..MaxCalls)
    BY <1>4
  <2>2. DOMAIN pending' = 1..n /\ DOMAIN pending' = 1..Len(pending')
    BY <1>4, <2>1, LenProperties
  <2>3. 1 \in DOMAIN pending'
    BY <1>4, <2>2
  <2>4. QED BY <2>1, <2>2, <2>3, EmptySeq
<1>6. ToolCalls(pending') \in Message
  BY <1>4, MessagesTyped
<1>7. working' \in Seq(Message) /\ IsPrefix(working, working')
  BY <1>1, <1>3, <1>6, PrefixOfAppend
<1>8. StepsAreInOrder'
  BY <1>2, <1>5 DEF IInv, StepsAreInOrder, InLoop
<1>9. ToolCallsSavedFirst' /\ pc \in InLoop /\ pc' \in InLoop
  BY <1>2 DEF ToolCallsSavedFirst, InLoop
<1>10. loopTurn <= loopTurn' /\ loopTurn' \in 0..MaxTurns
  BY <1>2, <1>3
<1>11. QED BY <1>2, <1>3, <1>4, <1>5, <1>7, <1>8, <1>9, <1>10, LoopKeeps

LEMMA CheckpointCallsStep ==
    ASSUME IInv, CheckpointCalls
    PROVE  IInv'
<1>1. /\ pc = "calls" /\ Save(working, loopTurn) /\ pc' = "tools"
      /\ UNCHANGED <<own, messages, turnCount, working, loopTurn, pending, blocked, inputs,
                     calls, restored, done>>
  BY DEF CheckpointCalls, prompt, loop, issued
<1>2. /\ row \in [Session -> Row] /\ own \in Session /\ working \in Seq(Message)
      /\ loopTurn \in 0..MaxTurns /\ loopTurn \in Nat /\ Len(working) \in Nat
      /\ \A s \in Session : row[s].turnCount <= MaxTurns
  BY Typed DEF IInv, CountsAreBounded
<1>3. /\ row' \in [Session -> Row]
      /\ row'[own].messages = working /\ row'[own].turnCount = loopTurn
      /\ \A s \in Session \ {own} : row'[s] = row[s]
  BY <1>1, <1>2, SaveEffect
<1>4. IsPrefix(working, working)
  BY <1>2, PrefixOfItself
<1>5. ToolCallsSavedFirst'
  BY <1>1, <1>2, <1>3, <1>4 DEF ToolCallsSavedFirst
<1>6. StepsAreInOrder' /\ pc \in InLoop /\ pc' \in InLoop
  BY <1>1 DEF IInv, StepsAreInOrder, InLoop
<1>7. \A s \in Session : row'[s].turnCount <= MaxTurns
  BY <1>2, <1>3
<1>8. loopTurn <= loopTurn'
  BY <1>1, <1>2
<1>9. QED BY <1>1, <1>3, <1>4, <1>5, <1>6, <1>7, <1>8, Typed, LoopKeeps

LEMMA RunToolStep ==
    ASSUME IInv, RunTool
    PROVE  IInv'
<1>1. /\ pc = "tools" /\ pc' = "output" /\ (blocked' = blocked + 1 \/ blocked' = 0)
      /\ UNCHANGED <<row, own, messages, turnCount, working, loopTurn, pending, inputs,
                     calls, restored, done>>
  BY DEF RunTool, prompt, issued
<1>2. /\ row \in [Session -> Row] /\ working \in Seq(Message)
      /\ loopTurn \in 0..MaxTurns /\ blocked \in 0..3 /\ blocked <= 2
      /\ \A s \in Session : row[s].turnCount <= MaxTurns
  BY <1>1, Typed DEF IInv, StepsAreInOrder, CountsAreBounded
<1>3. blocked' \in 0..3 /\ loopTurn <= loopTurn'
  BY <1>1, <1>2
<1>4. IsPrefix(working, working')
  BY <1>1, <1>2, PrefixOfItself
<1>5. ToolCallsSavedFirst' /\ StepsAreInOrder' /\ pc \in InLoop /\ pc' \in InLoop
  BY <1>1 DEF IInv, ToolCallsSavedFirst, StepsAreInOrder, InLoop
<1>6. QED BY <1>1, <1>2, <1>3, <1>4, <1>5, Typed, LoopKeeps

LEMMA AppendResultStep ==
    ASSUME IInv, AppendResult
    PROVE  IInv'
<1> DEFINE result == ToolResult(Head(pending), blocked > 0)
<1>1. /\ pc = "output" /\ pc' = "result" /\ working' = Append(working, result)
      /\ pending' = Tail(pending)
      /\ UNCHANGED <<row, own, messages, turnCount, loopTurn, blocked, inputs, calls,
                     restored, done>>
  BY DEF AppendResult, prompt, issued
<1>2. /\ row \in [Session -> Row] /\ own \in Session /\ working \in Seq(Message)
      /\ Len(working) \in Nat
      /\ loopTurn \in 0..MaxTurns /\ blocked \in 0..3
      /\ pending \in Seq(1..MaxCalls) /\ pending # <<>>
      /\ \A s \in Session : row[s].turnCount <= MaxTurns
  BY <1>1, Typed DEF IInv, StepsAreInOrder, CountsAreBounded
<1>3. Head(pending) \in 1..MaxCalls /\ pending' \in Seq(1..MaxCalls)
  BY <1>1, <1>2, HeadTailProperties
<1>4. result \in Message /\ result.calls = <<>>
  <2>1. (blocked > 0) \in BOOLEAN
    BY <1>2
  <2>2. CASE blocked > 0
    <3>1. result = ToolResult(Head(pending), TRUE)
      BY <2>2 DEF ToolResult
    <3>2. QED BY <1>3, <3>1, MessagesTyped DEF ToolResult
  <2>3. CASE ~(blocked > 0)
    <3>1. (blocked > 0) = FALSE
      BY <2>3
    <3>2. result = ToolResult(Head(pending), FALSE)
      BY <3>1
    <3>3. QED BY <1>3, <3>2, MessagesTyped DEF ToolResult
  <2>4. QED BY <2>2, <2>3
<1> HIDE DEF result
<1>5. /\ working' \in Seq(Message) /\ IsPrefix(working, working')
      /\ Len(working') = Len(working) + 1
  BY <1>1, <1>2, <1>4, PrefixOfAppend
<1>6. ToolCallsSavedFirst'
  <2>1. /\ Asked(working) \subseteq Asked(row[own].messages)
        /\ IsPrefix(row[own].messages, working)
        /\ Len(working) - Len(row[own].messages) = 0
    BY <1>1 DEF IInv, ToolCallsSavedFirst
  <2>2. Asked(working') = Asked(working)
    BY <1>1, <1>2, <1>4, NoCallsAsked
  <2>3. row[own].messages \in Seq(Message) /\ Len(row[own].messages) \in Nat
    BY <1>2, LenProperties DEF Row
  <2>4. IsPrefix(row[own].messages, working')
    BY <1>2, <1>5, <2>1, <2>3, PrefixOfPrefix
  <2>5. Len(working') - Len(row[own].messages) = 1
    BY <1>2, <1>5, <2>1, <2>3
  <2>6. Asked(working)' = Asked(working') /\ Asked(row[own].messages)' = Asked(row[own].messages)
    BY <1>1 DEF Asked, ToSet
  <2>7. QED BY <1>1, <2>1, <2>2, <2>4, <2>5, <2>6 DEF ToolCallsSavedFirst
<1>7. StepsAreInOrder' /\ pc \in InLoop /\ pc' \in InLoop
  BY <1>1 DEF IInv, StepsAreInOrder, InLoop
<1>8. loopTurn <= loopTurn'
  BY <1>1, <1>2
<1>9. QED BY <1>1, <1>2, <1>3, <1>5, <1>6, <1>7, <1>8, Typed, LoopKeeps

LEMMA CheckpointResultStep ==
    ASSUME IInv, CheckpointResult
    PROVE  IInv'
<1>1. /\ pc = "result" /\ Save(working, loopTurn)
      /\ UNCHANGED <<own, turnCount, working, loopTurn, pending, blocked, inputs, calls,
                     restored, done>>
      /\ \/ /\ blocked >= 3 /\ messages' = Front(messages) /\ pc' = "prompt"
         \/ /\ ~(blocked >= 3) /\ pc' = IF pending = <<>> THEN "turn" ELSE "tools"
            /\ messages' = messages
  BY DEF CheckpointResult, loop, issued
<1>2. /\ row \in [Session -> Row] /\ own \in Session /\ working \in Seq(Message)
      /\ loopTurn \in 0..MaxTurns /\ loopTurn \in Nat /\ Len(working) \in Nat
      /\ blocked \in 0..3 /\ turnCount < loopTurn
      /\ \A s \in Session : row[s].turnCount <= MaxTurns
  BY <1>1, Typed DEF IInv, StepsAreInOrder, CountsAreBounded, InLoop
<1>3. /\ row' \in [Session -> Row]
      /\ row'[own].messages = working /\ row'[own].turnCount = loopTurn
      /\ \A s \in Session \ {own} : row'[s] = row[s]
  BY <1>1, <1>2, SaveEffect
<1>4. \A s \in Session : row'[s].turnCount <= MaxTurns
  BY <1>2, <1>3
<1>5. pc \in InLoop /\ IsPrefix(working, working)
  BY <1>1, <1>2, PrefixOfItself DEF InLoop
<1>6. CASE messages' = Front(messages) /\ pc' = "prompt"
  BY <1>1, <1>3, <1>4, <1>5, <1>6, FailureStep DEF loop, issued
<1>7. CASE ~(blocked >= 3) /\ pc' = (IF pending = <<>> THEN "turn" ELSE "tools")
           /\ messages' = messages
  <2>1. StepsAreInOrder'
    BY <1>1, <1>2, <1>7 DEF StepsAreInOrder, InLoop
  <2>2. ToolCallsSavedFirst'
    BY <1>1, <1>2, <1>3, <1>5, <1>7 DEF ToolCallsSavedFirst
  <2>3. pc' \in InLoop /\ loopTurn <= loopTurn'
    BY <1>1, <1>2, <1>7 DEF InLoop
  <2>4. QED BY <1>1, <1>3, <1>4, <1>5, <1>7, <2>1, <2>2, <2>3, Typed, LoopKeeps
<1>8. QED BY <1>1, <1>6, <1>7

-----------------------------------------------------------------------------

LEMMA InitInvariant == Init => IInv
<1> SUFFICES ASSUME Init PROVE IInv
    OBVIOUS
<1>1. /\ <<>> \in Seq(Message) /\ <<>> \in Seq(1..MaxCalls) /\ Len(<<>>) = 0
  BY EmptySeq
<1>2. TypeOK
  BY <1>1 DEF Init, NoRow, TypeOK
<1>3. CompletedTurnsAreSaved
  BY <1>1, SavedIs DEF Init, Settled
<1>4. LoopGoesOn /\ StepsAreInOrder /\ CountsAreBounded /\ ToolCallsSavedFirst
  BY DEF Init, NoRow, InLoop, LoopGoesOn, StepsAreInOrder, CountsAreBounded,
         ToolCallsSavedFirst
<1>5. QED BY <1>2, <1>3, <1>4 DEF IInv

LEMMA InvariantStep == IInv /\ [Next]_vars => IInv'
<1> SUFFICES ASSUME IInv, [Next]_vars PROVE IInv'
    OBVIOUS
<1>1. CASE LoopStep
  BY <1>1, StartTurnStep, ReceiveAnswerStep, ReceiveToolCallsStep, CheckpointCallsStep,
     RunToolStep, AppendResultStep, CheckpointResultStep DEF LoopStep
<1>2. CASE LoopFails
  BY <1>2, FailureStep DEF LoopFails
<1>3. CASE Submit
  BY <1>3, SubmitStep
<1>4. CASE TurnDone
  BY <1>4, TurnDoneStep
<1>5. CASE Clear \/ Exit \/ Crash \/ \E s \in Session : Resume(s) \/ Start(s)
  BY <1>5, PromptStep
<1>6. CASE UNCHANGED vars
  <2>1. UNCHANGED <<row, own, messages, turnCount, pc, working, loopTurn, pending, blocked,
                    inputs, calls, restored, done>>
    BY <1>6 DEF vars, prompt, loop, issued
  <2>2. TypeOK' /\ LoopGoesOn' /\ StepsAreInOrder' /\ CountsAreBounded'
    BY <2>1 DEF IInv, TypeOK, LoopGoesOn, StepsAreInOrder, CountsAreBounded
  <2>3. ToolCallsSavedFirst'
    <3>1. /\ Asked(working)' = Asked(working)
          /\ Asked(row[own].messages)' = Asked(row[own].messages)
      BY <2>1 DEF Asked, ToSet
    <3>2. IsPrefix(row[own].messages, working)' = IsPrefix(row[own].messages, working)
      BY <2>1 DEF IsPrefix
    <3>3. QED BY <2>1, <3>1, <3>2 DEF IInv, ToolCallsSavedFirst
  <2>4. CompletedTurnsAreSaved'
    BY <2>1, SavedIs, SavedNextIs DEF IInv, Settled
  <2>5. QED BY <2>2, <2>3, <2>4 DEF IInv
<1>7. QED BY <1>1, <1>2, <1>3, <1>4, <1>5, <1>6 DEF Next

LEMMA ReplInvariant == Spec => []IInv
BY InitInvariant, InvariantStep, PTL DEF Spec

\* Every reachable state is well typed; the loop never counts past maxTurns and never
\* goes on after a third blocked output (runAgentLoop, executeToolCalls).
THEOREM TypeCorrect == Spec => []TypeOK
<1>1. IInv => TypeOK
  BY DEF IInv
<1>2. QED BY <1>1, ReplInvariant, PTL

\* No tool runs before the response that asked for it is on disk (the
\* assistant_tool_calls checkpoint of runAgentLoop).
THEOREM CallsAreSavedFirst == Spec => []ToolCallsSavedFirst
<1>1. IInv => ToolCallsSavedFirst
  BY DEF IInv
<1>2. QED BY <1>1, ReplInvariant, PTL

\* However turns fail, processes die and sessions are resumed: the turns completed at
\* this prompt are in the row of its session (the checkpoints of runAgentLoop).
THEOREM CompletedTurnsSaved == Spec => []CompletedTurnsAreSaved
<1>1. IInv => CompletedTurnsAreSaved
  BY DEF IInv
<1>2. QED BY <1>1, ReplInvariant, PTL

-----------------------------------------------------------------------------
(* What one more message does to a transcript. *)

LEMMA Appended ==
    ASSUME NEW t \in Seq(Message), NEW m \in Message
    PROVE  /\ Append(t, m) \in Seq(Message) /\ Len(t) \in Nat
           /\ Len(Append(t, m)) = Len(t) + 1 /\ Append(t, m)[Len(t) + 1] = m
           /\ \A i \in 1..Len(t) : Append(t, m)[i] = t[i]
BY LenProperties, AppendProperties

LEMMA CallsOf ==
    ASSUME NEW m \in Message
    PROVE  /\ m.calls \in Seq(1..MaxCalls) /\ DOMAIN m.calls = 1..Len(m.calls)
           /\ Len(m.calls) \in Nat /\ \A k \in DOMAIN m.calls : k \in Nat \ {0}
<1>1. PICK n \in 0..MaxBatch : m.calls \in [1..n -> 1..MaxCalls]
  BY DEF Message
<1>2. m.calls \in Seq(1..MaxCalls)
  BY <1>1
<1>3. QED BY <1>2, LenProperties

LEMMA NoTurns ==
    ASSUME NEW t \in Seq(Message)
    PROVE  CompleteTurns(t, Len(t))
<1>1. /\ Len(t) \in Nat /\ ~(Len(t) > Len(t))
      /\ Len(t) + 1..Len(t) = {} /\ Len(t) + 1..Len(t) - 1 = {}
  <2>1. Len(t) \in Nat
    BY LenProperties
  <2>2. QED BY <2>1
<1>2. QED BY <1>1 DEF CompleteTurns, Turns

\* The user begins a turn after an answer; a turn that has begun gets an answer.
LEMMA TurnsAppend ==
    ASSUME NEW t \in Seq(Message), NEW from \in 0..Len(t), Turns(t, from),
           NEW m \in Message, m.calls = <<>>, m.role # "tool",
           m.role = "user" <=> (Len(t) > from => Final(t[Len(t)]))
    PROVE  Turns(Append(t, m), from)
<1> DEFINE u == Append(t, m)
           n == Len(t)
<1>1. /\ n \in Nat /\ from \in Nat /\ from <= n /\ Len(u) = n + 1 /\ u[n + 1] = m
      /\ \A i \in 1..n : u[i] = t[i]
  <2>1. n \in Nat
    BY LenProperties
  <2>2. QED BY <2>1, Appended
<1>2. /\ n > from => t[from + 1].role = "user"
      /\ \A i \in from + 1..n - 1 : t[i + 1].role = "user" <=> Final(t[i])
      /\ \A i \in from + 1..n : \A k \in DOMAIN t[i].calls :
            i + k <= n /\ t[i + k].role = "tool" /\ t[i + k].id = t[i].calls[k]
      /\ \A j \in from + 1..n :
            t[j].role = "tool" =>
               \E i \in from + 1..j - 1 :
                  j - i \in DOMAIN t[i].calls /\ t[i].calls[j - i] = t[j].id
  BY DEF Turns
<1>3. m.role = "user" <=> (n > from => Final(t[n]))
  OBVIOUS
<1> HIDE DEF u, n
<1>4. u[from + 1].role = "user"
  <2>1. CASE n > from
    <3>1. from + 1 \in 1..n
      BY <1>1, <2>1
    <3>2. QED BY <1>1, <1>2, <2>1, <3>1
  <2>2. CASE ~(n > from)
    <3>1. from + 1 = n + 1
      BY <1>1, <2>2
    <3>2. QED BY <1>1, <1>3, <2>2, <3>1
  <2>3. QED BY <2>1, <2>2
<1>5. ASSUME NEW i \in from + 1..Len(u) - 1
      PROVE  u[i + 1].role = "user" <=> Final(u[i])
  <2>1. CASE i = n
    <3>1. n > from /\ n \in 1..n
      BY <1>1, <2>1
    <3>2. u[i] = t[n] /\ u[i + 1] = m
      BY <1>1, <2>1, <3>1
    <3>3. QED BY <1>3, <3>1, <3>2
  <2>2. CASE i # n
    <3>1. i \in from + 1..n - 1 /\ i \in 1..n /\ i + 1 \in 1..n
      BY <1>1, <2>2
    <3>2. u[i] = t[i] /\ u[i + 1] = t[i + 1]
      BY <1>1, <3>1
    <3>3. QED BY <1>2, <3>1, <3>2
  <2>3. QED BY <2>1, <2>2
<1>6. ASSUME NEW i \in from + 1..Len(u), NEW k \in DOMAIN u[i].calls
      PROVE  i + k <= Len(u) /\ u[i + k].role = "tool" /\ u[i + k].id = u[i].calls[k]
  <2>1. i # n + 1
    <3>1. DOMAIN <<>> = {}
      BY EmptySeq, LenProperties
    <3>2. QED BY <1>1, <3>1
  <2>2. i \in from + 1..n /\ i \in 1..n
    BY <1>1, <2>1
  <2>3. u[i] = t[i]
    BY <1>1, <2>2
  <2>4. i + k <= n /\ t[i + k].role = "tool" /\ t[i + k].id = t[i].calls[k]
    BY <1>2, <2>2, <2>3
  <2>5. k \in Nat \ {0}
    <3>1. t[i] \in Message
      BY <2>2, ElementOfSeq DEF n
    <3>2. QED BY <2>3, <3>1, CallsOf
  <2>6. i + k \in 1..n /\ i + k <= Len(u)
    BY <1>1, <2>2, <2>4, <2>5
  <2>7. QED BY <1>1, <2>3, <2>4, <2>6
<1>7. ASSUME NEW j \in from + 1..Len(u), u[j].role = "tool"
      PROVE  \E i \in from + 1..j - 1 :
                j - i \in DOMAIN u[i].calls /\ u[i].calls[j - i] = u[j].id
  <2>1. j # n + 1
    BY <1>1, <1>7
  <2>2. j \in from + 1..n /\ j \in 1..n
    BY <1>1, <2>1
  <2>3. u[j] = t[j]
    BY <1>1, <2>2
  <2>4. PICK i \in from + 1..j - 1 :
           j - i \in DOMAIN t[i].calls /\ t[i].calls[j - i] = t[j].id
    BY <1>2, <1>7, <2>2, <2>3
  <2>5. i \in 1..n
    BY <1>1, <2>2
  <2>6. u[i] = t[i]
    BY <1>1, <2>5
  <2>7. QED BY <2>3, <2>4, <2>6
<1>8. Turns(u, from)
  BY <1>4, <1>5, <1>6, <1>7 DEF Turns
<1>9. QED BY <1>8 DEF u

\* Whether a result was blocked does not matter to the turns.
LEMMA TurnsAlike ==
    ASSUME NEW t \in Seq(Message), NEW u \in Seq(Message), NEW from \in Nat, Turns(t, from),
           Len(u) = Len(t),
           \A i \in 1..Len(t) :
              /\ u[i].role = t[i].role /\ u[i].id = t[i].id /\ u[i].calls = t[i].calls
              /\ u[i] = t[i] \/ u[i].role = "tool"
    PROVE  Turns(u, from)
<1>1. Len(t) \in Nat
  BY LenProperties
<1>2. /\ Len(t) > from => t[from + 1].role = "user"
      /\ \A i \in from + 1..Len(t) - 1 : t[i + 1].role = "user" <=> Final(t[i])
      /\ \A i \in from + 1..Len(t) : \A k \in DOMAIN t[i].calls :
            i + k <= Len(t) /\ t[i + k].role = "tool" /\ t[i + k].id = t[i].calls[k]
      /\ \A j \in from + 1..Len(t) :
            t[j].role = "tool" =>
               \E i \in from + 1..j - 1 :
                  j - i \in DOMAIN t[i].calls /\ t[i].calls[j - i] = t[j].id
  BY DEF Turns
<1>3. ASSUME NEW i \in 1..Len(t) PROVE Final(u[i]) <=> Final(t[i])
  <2>1. CASE u[i] = t[i]
    BY <2>1
  <2>2. CASE u[i].role = "tool"
    <3>1. t[i].role = "tool"
      BY <2>2
    <3>2. \A m : Final(m) => m.role = "assistant"
      BY DEF Final, Answer
    <3>3. QED BY <2>2, <3>1, <3>2
  <2>3. QED BY <2>1, <2>2
<1>4. Len(u) > from => u[from + 1].role = "user"
  <2>1. ASSUME Len(u) > from PROVE from + 1 \in 1..Len(t)
    BY <1>1, <2>1
  <2>2. QED BY <1>2, <2>1
<1>5. ASSUME NEW i \in from + 1..Len(u) - 1
      PROVE  u[i + 1].role = "user" <=> Final(u[i])
  <2>1. i \in 1..Len(t) /\ i + 1 \in 1..Len(t) /\ i \in from + 1..Len(t) - 1
    BY <1>1
  <2>2. u[i + 1].role = t[i + 1].role /\ (Final(u[i]) <=> Final(t[i]))
    BY <1>3, <2>1
  <2>3. QED BY <1>2, <2>1, <2>2
<1>6. ASSUME NEW i \in from + 1..Len(u), NEW k \in DOMAIN u[i].calls
      PROVE  i + k <= Len(u) /\ u[i + k].role = "tool" /\ u[i + k].id = u[i].calls[k]
  <2>1. i \in 1..Len(t) /\ i \in from + 1..Len(t)
    BY <1>1
  <2>2. u[i].calls = t[i].calls
    BY <2>1
  <2>3. i + k <= Len(t) /\ t[i + k].role = "tool" /\ t[i + k].id = t[i].calls[k]
    BY <1>2, <2>1, <2>2
  <2>4. k \in Nat \ {0}
    BY <2>1, <2>2, CallsOf, ElementOfSeq
  <2>5. i + k \in 1..Len(t)
    BY <1>1, <2>1, <2>3, <2>4
  <2>6. u[i + k].role = t[i + k].role /\ u[i + k].id = t[i + k].id
    BY <2>5
  <2>7. QED BY <2>2, <2>3, <2>6
<1>7. ASSUME NEW j \in from + 1..Len(u), u[j].role = "tool"
      PROVE  \E i \in from + 1..j - 1 :
                j - i \in DOMAIN u[i].calls /\ u[i].calls[j - i] = u[j].id
  <2>1. j \in 1..Len(t) /\ j \in from + 1..Len(t)
    BY <1>1
  <2>2. u[j].id = t[j].id /\ u[j].role = t[j].role
    BY <2>1
  <2>3. PICK i \in from + 1..j - 1 :
           j - i \in DOMAIN t[i].calls /\ t[i].calls[j - i] = t[j].id
    BY <1>2, <1>7, <2>1, <2>2
  <2>4. i \in 1..Len(t)
    BY <1>1, <2>1
  <2>5. u[i].calls = t[i].calls
    BY <2>4
  <2>6. QED BY <2>2, <2>3, <2>5
<1>8. QED BY <1>4, <1>5, <1>6, <1>7 DEF Turns

LEMMA DueIs ==
    ASSUME NEW t \in Seq(Message), NEW q \in Seq(1..MaxCalls)
    PROVE  /\ Len(t) \in Nat /\ Len(q) \in Nat
           /\ Due(t, q) \in Seq(Message) /\ Len(Due(t, q)) = Len(t) + Len(q)
           /\ \A i \in 1..Len(t) : Due(t, q)[i] = t[i]
           /\ \A k \in 1..Len(q) : Due(t, q)[Len(t) + k] = ToolResult(q[k], FALSE)
<1> DEFINE r == [i \in DOMAIN q |-> ToolResult(q[i], FALSE)]
<1>1. Len(t) \in Nat /\ Len(q) \in Nat /\ DOMAIN q = 1..Len(q)
      /\ \A k \in 1..Len(q) : q[k] \in 1..MaxCalls
  BY LenProperties, ElementOfSeq
<1>2. \A k \in 1..Len(q) : ToolResult(q[k], FALSE) \in Message
  BY <1>1, MessagesTyped
<1>3. r \in [1..Len(q) -> Message]
  BY <1>1, <1>2
<1>4. \A k \in 1..Len(q) : r[k] = ToolResult(q[k], FALSE)
  BY <1>1
<1>5. Due(t, q) = t \o r
  BY DEF Due
<1> HIDE DEF r
<1>6. r \in Seq(Message) /\ Len(r) = Len(q)
  <2>1. r \in Seq(Message)
    BY <1>1, <1>3
  <2>2. DOMAIN r = 1..Len(q) /\ DOMAIN r = 1..Len(r) /\ Len(r) \in Nat
    BY <1>3, <2>1, LenProperties
  <2>3. QED BY <1>1, <2>1, <2>2
<1>7. /\ t \o r \in Seq(Message) /\ Len(t \o r) = Len(t) + Len(r)
      /\ \A i \in 1..Len(t) + Len(r) :
            (t \o r)[i] = IF i <= Len(t) THEN t[i] ELSE r[i - Len(t)]
  BY <1>6, ConcatProperties
<1>8. \A i \in 1..Len(t) : i \in 1..Len(t) + Len(r) /\ i <= Len(t)
  BY <1>1, <1>6
<1>9. \A k \in 1..Len(q) : /\ Len(t) + k \in 1..Len(t) + Len(r) /\ ~(Len(t) + k <= Len(t))
                           /\ Len(t) + k - Len(t) = k
  BY <1>1, <1>6
<1>10. \A i \in 1..Len(t) : (t \o r)[i] = t[i]
  BY <1>7, <1>8
<1>11. ASSUME NEW k \in 1..Len(q)
       PROVE  (t \o r)[Len(t) + k] = ToolResult(q[k], FALSE)
  <2>1. (t \o r)[Len(t) + k] = r[Len(t) + k - Len(t)]
    BY <1>7, <1>9
  <2>2. QED BY <1>4, <1>9, <2>1
<1>12. QED BY <1>1, <1>6, <1>5, <1>7, <1>10, <1>11

LEMMA NothingDue ==
    ASSUME NEW t \in Seq(Message)
    PROVE  Due(t, <<>>) = t
<1>1. <<>> \in Seq(1..MaxCalls) /\ Len(<<>>) = 0
  BY EmptySeq
<1>2. /\ Len(t) \in Nat /\ Due(t, <<>>) \in Seq(Message) /\ Len(Due(t, <<>>)) = Len(t) + 0
      /\ \A i \in 1..Len(t) : Due(t, <<>>)[i] = t[i]
  BY <1>1, DueIs
<1>3. Len(Due(t, <<>>)) = Len(t)
  BY <1>2
<1>4. QED BY <1>2, <1>3, SeqEqual

\* A response that asks for tools goes on a turn once its results are there.
LEMMA TurnsRespond ==
    ASSUME NEW t \in Seq(Message), NEW from \in 0..Len(t), from < Len(t), Turns(t, from),
           ~Final(t[Len(t)]), NEW batch \in Seq(1..MaxCalls), batch # <<>>,
           ToolCalls(batch) \in Message
    PROVE  Turns(Due(Append(t, ToolCalls(batch)), batch), from)
<1> DEFINE n == Len(t)
           b == Len(batch)
           c == ToolCalls(batch)
           s == Append(t, c)
           u == Due(s, batch)
<1>1. /\ n \in Nat /\ from \in Nat /\ from < n /\ b \in Nat /\ b # 0
      /\ s \in Seq(Message) /\ Len(s) = n + 1 /\ s[n + 1] = c
      /\ \A i \in 1..n : s[i] = t[i]
  <2>1. n \in Nat /\ b \in Nat /\ b # 0
    BY LenProperties, EmptySeq
  <2>2. QED BY <2>1, Appended
<1>2. /\ u \in Seq(Message) /\ Len(u) = Len(s) + b
      /\ \A i \in 1..Len(s) : u[i] = s[i]
      /\ \A k \in 1..b : u[Len(s) + k] = ToolResult(batch[k], FALSE)
  BY <1>1, DueIs
<1>3. c.calls = batch /\ DOMAIN batch = 1..b /\ c.role = "assistant" /\ ~Final(c)
  BY LenProperties DEF ToolCalls, Final, Answer
<1>4. /\ n > from => t[from + 1].role = "user"
      /\ \A i \in from + 1..n - 1 : t[i + 1].role = "user" <=> Final(t[i])
      /\ \A i \in from + 1..n : \A k \in DOMAIN t[i].calls :
            i + k <= n /\ t[i + k].role = "tool" /\ t[i + k].id = t[i].calls[k]
      /\ \A j \in from + 1..n :
            t[j].role = "tool" =>
               \E i \in from + 1..j - 1 :
                  j - i \in DOMAIN t[i].calls /\ t[i].calls[j - i] = t[j].id
  BY DEF Turns
<1>5. ~Final(t[n])
  OBVIOUS
<1> HIDE DEF n, b, c, s, u
<1>6. /\ Len(u) = n + 1 + b /\ u[n + 1] = c
      /\ \A i \in 1..n : u[i] = t[i]
  <2>1. n + 1 \in 1..(n + 1) /\ \A i \in 1..n : i \in 1..(n + 1)
    BY <1>1
  <2>2. Len(u) = n + 1 + b
    BY <1>1, <1>2
  <2>3. \A i \in 1..(n + 1) : u[i] = s[i]
    BY <1>1, <1>2
  <2>4. QED BY <1>1, <2>1, <2>2, <2>3
<1>7. \A k \in 1..b : u[n + 1 + k] = ToolResult(batch[k], FALSE)
  BY <1>1, <1>2
<1>8. ASSUME NEW i \in n + 2..Len(u)
      PROVE  /\ i - (n + 1) \in 1..b
             /\ u[i].role = "tool" /\ u[i].calls = <<>> /\ u[i].id = batch[i - (n + 1)]
             /\ ~Final(u[i])
  <2>1. i - (n + 1) \in 1..b /\ n + 1 + (i - (n + 1)) = i
    <3>1. i \in Int /\ n \in Int /\ b \in Int /\ n + 2 <= i /\ i <= n + 1 + b
      BY <1>1, <1>6
    <3>2. QED BY <3>1
  <2>2. u[i] = ToolResult(batch[i - (n + 1)], FALSE)
    BY <1>7, <2>1
  <2>3. QED BY <2>1, <2>2 DEF ToolResult, Final, Answer
<1>9. Len(u) > from /\ u[from + 1].role = "user"
  <2>1. Len(u) > from /\ from + 1 \in 1..n
    BY <1>1, <1>6
  <2>2. QED BY <1>1, <1>4, <1>6, <2>1
<1>10. ASSUME NEW i \in from + 1..Len(u) - 1
       PROVE  u[i + 1].role = "user" <=> Final(u[i])
  <2>1. CASE i < n
    <3>1. i \in from + 1..n - 1 /\ i \in 1..n /\ i + 1 \in 1..n
      BY <1>1, <2>1
    <3>2. QED BY <1>4, <1>6, <3>1
  <2>2. CASE i = n
    <3>1. n \in 1..n
      BY <1>1
    <3>2. u[i] = t[n] /\ u[i + 1] = c
      BY <1>6, <2>2, <3>1
    <3>3. QED BY <1>3, <1>5, <3>2
  <2>3. CASE i > n
    <3>1. i + 1 \in n + 2..Len(u)
      BY <1>1, <1>6, <2>3
    <3>2. ~Final(u[i])
      <4>1. CASE i = n + 1
        BY <1>3, <1>6, <4>1
      <4>2. CASE i # n + 1
        <5>1. i \in n + 2..Len(u)
          BY <1>1, <1>6, <2>3, <4>2
        <5>2. QED BY <1>8, <5>1
      <4>3. QED BY <4>1, <4>2
    <3>3. QED BY <1>8, <3>1, <3>2
  <2>4. QED BY <1>1, <2>1, <2>2, <2>3
<1>11. ASSUME NEW i \in from + 1..Len(u), NEW k \in DOMAIN u[i].calls
       PROVE  i + k <= Len(u) /\ u[i + k].role = "tool" /\ u[i + k].id = u[i].calls[k]
  <2>1. CASE i <= n
    <3>1. i \in from + 1..n /\ i \in 1..n
      BY <1>1, <2>1
    <3>2. u[i] = t[i] /\ t[i] \in Message
      BY <1>6, <3>1, ElementOfSeq DEF n
    <3>3. i + k <= n /\ t[i + k].role = "tool" /\ t[i + k].id = t[i].calls[k]
      BY <1>4, <3>1, <3>2
    <3>4. k \in Nat \ {0}
      BY <3>2, CallsOf
    <3>5. i + k \in 1..n /\ i + k <= Len(u)
      <4>1. i \in Int /\ k \in Int /\ n \in Int /\ b \in Int /\ 1 <= i /\ 1 <= k /\ 0 <= b
        BY <1>1, <3>1, <3>4
      <4>2. i + k <= n
        BY <3>3
      <4>3. QED BY <1>6, <4>1, <4>2
    <3>6. QED BY <1>6, <3>2, <3>3, <3>5
  <2>2. CASE i = n + 1
    <3>1. k \in 1..b /\ u[i].calls = batch
      BY <1>3, <1>6, <2>2
    <3> DEFINE j == i + k
    <3>2. j \in n + 2..Len(u) /\ j - (n + 1) = k /\ j <= Len(u)
      <4>1. k \in Int /\ n \in Int /\ b \in Int /\ 1 <= k /\ k <= b
        BY <1>1, <3>1
      <4>2. QED BY <1>6, <2>2, <4>1
    <3> HIDE DEF j
    <3>3. u[j].role = "tool" /\ u[j].id = batch[j - (n + 1)]
      BY <1>8, <3>2
    <3>4. u[j].role = "tool" /\ u[j].id = u[i].calls[k]
      BY <3>1, <3>2, <3>3
    <3>5. QED BY <3>2, <3>4 DEF j
  <2>3. CASE i > n + 1
    <3>1. i \in n + 2..Len(u)
      BY <1>1, <1>6, <2>3
    <3>2. DOMAIN <<>> = {}
      BY EmptySeq, LenProperties
    <3>3. QED BY <1>8, <3>1, <3>2
  <2>4. QED BY <1>1, <2>1, <2>2, <2>3
<1>12. ASSUME NEW j \in from + 1..Len(u), u[j].role = "tool"
       PROVE  \E i \in from + 1..j - 1 :
                 j - i \in DOMAIN u[i].calls /\ u[i].calls[j - i] = u[j].id
  <2>1. CASE j <= n
    <3>1. j \in from + 1..n /\ j \in 1..n
      BY <1>1, <2>1
    <3>2. PICK i \in from + 1..j - 1 :
             j - i \in DOMAIN t[i].calls /\ t[i].calls[j - i] = t[j].id
      BY <1>4, <1>6, <1>12, <3>1
    <3>3. i \in 1..n
      BY <1>1, <3>1
    <3>4. QED BY <1>6, <3>1, <3>2, <3>3
  <2>2. CASE j = n + 1
    BY <1>3, <1>6, <1>12, <2>2
  <2>3. CASE j > n + 1
    <3>1. j \in n + 2..Len(u)
      BY <1>1, <1>6, <2>3
    <3>2. n + 1 \in from + 1..j - 1
      BY <1>1, <2>3, <3>1
    <3>3. j - (n + 1) \in DOMAIN u[n + 1].calls /\ u[n + 1].calls[j - (n + 1)] = u[j].id
      BY <1>3, <1>6, <1>8, <3>1
    <3>4. QED BY <3>2, <3>3
  <2>4. QED BY <1>1, <2>1, <2>2, <2>3
<1>13. Turns(u, from)
  BY <1>9, <1>10, <1>11, <1>12 DEF Turns
<1>14. QED BY <1>13 DEF u, s, c

-----------------------------------------------------------------------------
(* The turns of a conversation. *)

LEMMA LoopTyped ==
    ASSUME IInv, pc \in InLoop
    PROVE  /\ messages \in Seq(Message) /\ working \in Seq(Message)
           /\ pending \in Seq(1..MaxCalls)
           /\ Len(messages) \in Nat /\ Len(working) \in Nat /\ restored \in Nat
           /\ restored < Len(messages) /\ Len(messages) <= Len(working)
           /\ Last(working) = working[Len(working)]
<1>1. Len(messages) > restored /\ IsPrefix(messages, working)
  BY DEF IInv, LoopGoesOn
<1>2. Len(messages) <= Len(working)
  BY <1>1, Typed, PrefixIs
<1>3. QED BY <1>1, <1>2, Typed DEF Last

LEMMA SubmitTurn ==
    ASSUME IInv, TurnsInv, Submit
    PROVE  TurnsInv'
<1> DEFINE typed == User(inputs + 1)
<1>1. /\ pc = "prompt" /\ pc' = "turn" /\ inputs < MaxInputs
      /\ messages' = Append(messages, typed) /\ working' = messages' /\ pending' = <<>>
      /\ restored' = restored
  BY DEF Submit
<1>2. typed \in Message /\ typed.role = "user" /\ typed.calls = <<>> /\ ~Final(typed)
  BY <1>1, Typed, MessagesTyped DEF User, Final, Answer
<1>3. messages \in Seq(Message) /\ restored \in 0..Len(messages)
  BY Typed
<1> HIDE DEF typed
<1>4. CompleteTurns(messages, restored)
  BY <1>1 DEF TurnsInv, OnlyWholeTurns
<1>5. Turns(messages', restored)
  BY <1>1, <1>2, <1>3, <1>4, TurnsAppend DEF CompleteTurns
<1>6. /\ messages' \in Seq(Message) /\ Last(messages') = typed
  BY <1>1, <1>2, <1>3, Appended DEF Last
<1>7. Front(messages') = messages /\ Due(working', <<>>) = working'
  BY <1>1, <1>2, <1>3, <1>6, FrontOfAppend, NothingDue
<1>8. /\ CompleteTurns(Front(messages'), restored') /\ Turns(Due(working', pending'), restored')
      /\ pending' = <<>> /\ ~Final(Last(working'))
  BY <1>1, <1>2, <1>4, <1>5, <1>6, <1>7
<1>9. QED BY <1>1, <1>8 DEF TurnsInv, OnlyWholeTurns, TurnInOrder

\* A step of the loop that adds nothing to its copy.
LEMMA QuietTurn ==
    ASSUME IInv, TurnsInv, pc \in InLoop \ {"answered"}, pc' \in InLoop \ {"answered"},
           UNCHANGED <<messages, restored, working, pending>>,
           pc' \in {"turn", "llm"} => pending = <<>>
    PROVE  TurnsInv'
<1>1. /\ CompleteTurns(Front(messages), restored)
      /\ Turns(Due(working, pending), restored) /\ ~Final(Last(working))
  BY DEF TurnsInv, TurnInOrder
<1>2. /\ CompleteTurns(Front(messages'), restored')
      /\ Turns(Due(working', pending'), restored') /\ ~Final(Last(working'))
  BY <1>1
<1>3. pc' # "prompt"
  BY DEF InLoop
<1>4. QED BY <1>2, <1>3 DEF TurnsInv, OnlyWholeTurns, TurnInOrder

LEMMA ReceiveAnswerTurn ==
    ASSUME IInv, TurnsInv, ReceiveAnswer
    PROVE  TurnsInv'
<1> DEFINE answer == Answer(inputs)
<1>1. /\ pc = "llm" /\ pc' = "answered" /\ working' = Append(working, answer)
      /\ UNCHANGED <<messages, pending, restored>>
  BY DEF ReceiveAnswer, prompt
<1>2. answer \in Message /\ answer.role = "assistant" /\ answer.calls = <<>> /\ Final(answer)
  BY Typed, MessagesTyped DEF Answer, Final
<1> HIDE DEF answer
<1>3. /\ working \in Seq(Message) /\ Len(working) \in Nat /\ restored \in 0..Len(working)
      /\ Len(working) > restored /\ Last(working) = working[Len(working)]
  BY <1>1, LoopTyped DEF InLoop
<1>4. /\ CompleteTurns(Front(messages), restored) /\ pending = <<>>
      /\ Turns(Due(working, pending), restored) /\ ~Final(Last(working))
  BY <1>1 DEF TurnsInv, TurnInOrder, InLoop
<1>5. Turns(working, restored)
  BY <1>3, <1>4, NothingDue
<1>6. Turns(working', restored)
  BY <1>1, <1>2, <1>3, <1>4, <1>5, TurnsAppend
<1>7. working' \in Seq(Message) /\ Last(working') = answer
  BY <1>1, <1>2, <1>3, Appended DEF Last
<1>8. Turns(Due(working', pending'), restored')
  BY <1>1, <1>4, <1>6, <1>7, NothingDue
<1>9. CompleteTurns(Front(messages'), restored') /\ pending' = <<>> /\ Final(Last(working'))
  BY <1>1, <1>2, <1>4, <1>7
<1>10. QED BY <1>1, <1>8, <1>9 DEF TurnsInv, OnlyWholeTurns, TurnInOrder

LEMMA ReceiveToolCallsTurn ==
    ASSUME IInv, TurnsInv, ReceiveToolCalls
    PROVE  TurnsInv'
<1> DEFINE response == ToolCalls(pending')
<1>1. /\ pc = "llm" /\ pc' = "calls" /\ UNCHANGED <<messages, restored>>
  BY DEF ReceiveToolCalls, prompt
<1>2. PICK n \in 1..MaxBatch :
         /\ calls + n <= MaxCalls /\ pending' = [i \in 1..n |-> calls + i]
         /\ working' = Append(working, response)
  BY DEF ReceiveToolCalls
<1>3. pending' \in [1..n -> 1..MaxCalls] /\ n \in Nat \ {0}
  <2>1. calls \in Nat /\ MaxCalls \in Nat /\ n \in Nat \ {0}
    BY Typed
  <2>2. \A i \in 1..n : calls + i \in 1..MaxCalls
    BY <1>2, <2>1
  <2>3. QED BY <1>2, <2>1, <2>2
<1>4. pending' \in Seq(1..MaxCalls) /\ pending' # <<>>
  <2>1. pending' \in Seq(1..MaxCalls)
    BY <1>3
  <2>2. 1 \in DOMAIN pending'
    BY <1>3
  <2>3. QED BY <2>1, <2>2, EmptySeq, LenProperties
<1>5. response \in Message /\ ~Final(response)
  BY <1>3, <1>4, MessagesTyped DEF ToolCalls, Final, Answer
<1>6. /\ working \in Seq(Message) /\ Len(working) \in Nat /\ restored \in 0..Len(working)
      /\ restored < Len(working) /\ Last(working) = working[Len(working)]
  BY <1>1, LoopTyped DEF InLoop
<1>7. /\ CompleteTurns(Front(messages), restored) /\ pending = <<>>
      /\ Turns(Due(working, pending), restored) /\ ~Final(Last(working))
  BY <1>1 DEF TurnsInv, TurnInOrder, InLoop
<1>8. Turns(working, restored)
  BY <1>6, <1>7, NothingDue
<1>9. Turns(Due(Append(working, response), pending'), restored)
  BY <1>4, <1>5, <1>6, <1>7, <1>8, TurnsRespond
<1>10. Last(working') = response
  BY <1>2, <1>5, <1>6, Appended DEF Last
<1> HIDE DEF response
<1>11. /\ CompleteTurns(Front(messages'), restored')
       /\ Turns(Due(working', pending'), restored') /\ ~Final(Last(working'))
  BY <1>1, <1>2, <1>5, <1>7, <1>9, <1>10
<1>12. QED BY <1>1, <1>11 DEF TurnsInv, OnlyWholeTurns, TurnInOrder

LEMMA AppendResultTurn ==
    ASSUME IInv, TurnsInv, AppendResult
    PROVE  TurnsInv'
<1> DEFINE result == ToolResult(Head(pending), blocked > 0)
           t == Due(working, pending)
           u == Due(working', pending')
           n == Len(working)
<1>1. /\ pc = "output" /\ pc' = "result" /\ working' = Append(working, result)
      /\ pending' = Tail(pending) /\ UNCHANGED <<messages, restored>>
  BY DEF AppendResult, prompt
<1>2. /\ working \in Seq(Message) /\ n \in Nat /\ restored \in Nat
      /\ pending \in Seq(1..MaxCalls)
  BY <1>1, LoopTyped DEF InLoop
<1>3. /\ pending # <<>> /\ Head(pending) = pending[1] /\ Head(pending) \in 1..MaxCalls
      /\ pending' \in Seq(1..MaxCalls) /\ Len(pending) \in Nat /\ Len(pending) >= 1
      /\ Len(pending') = Len(pending) - 1
      /\ \A k \in 1..Len(pending') : pending'[k] = pending[k + 1]
  <2>1. pending # <<>>
    BY <1>1 DEF IInv, StepsAreInOrder
  <2>2. Len(pending) \in Nat /\ Len(pending) # 0
    BY <1>2, <2>1, LenProperties, EmptySeq
  <2>3. Len(pending) >= 1
    BY <2>2
  <2>4. QED BY <1>1, <1>2, <2>1, <2>2, <2>3, HeadTailProperties
<1>4. /\ result.role = "tool" /\ result.id = pending[1] /\ result.calls = <<>> /\ ~Final(result)
  BY <1>3 DEF ToolResult, Final, Answer
<1>5. result \in Message
  <2>1. CASE blocked > 0
    <3>1. result = ToolResult(Head(pending), TRUE)
      BY <2>1 DEF ToolResult
    <3>2. QED BY <1>3, <3>1, MessagesTyped DEF ToolResult
  <2>2. CASE ~(blocked > 0)
    <3>1. (blocked > 0) = FALSE
      BY <2>2
    <3>2. result = ToolResult(Head(pending), FALSE)
      BY <3>1
    <3>3. QED BY <1>3, <3>2, MessagesTyped DEF ToolResult
  <2>3. QED BY <2>1, <2>2
<1> HIDE DEF result
<1>6. /\ working' \in Seq(Message) /\ Len(working') = n + 1 /\ working'[n + 1] = result
      /\ \A i \in 1..n : working'[i] = working[i]
  BY <1>1, <1>2, <1>5, Appended
<1>7. /\ t \in Seq(Message) /\ Len(t) = n + Len(pending)
      /\ \A i \in 1..n : t[i] = working[i]
      /\ \A k \in 1..Len(pending) : t[n + k] = ToolResult(pending[k], FALSE)
  BY <1>2, DueIs
<1>8. /\ u \in Seq(Message) /\ Len(u) = Len(working') + Len(pending')
      /\ \A i \in 1..Len(working') : u[i] = working'[i]
      /\ \A k \in 1..Len(pending') : u[Len(working') + k] = ToolResult(pending'[k], FALSE)
  BY <1>3, <1>6, DueIs
<1>9. /\ CompleteTurns(Front(messages), restored) /\ Turns(t, restored)
  BY <1>1 DEF TurnsInv, TurnInOrder, InLoop
<1> HIDE DEF t, u, n
<1>10. Len(u) = Len(t)
  BY <1>2, <1>3, <1>6, <1>7, <1>8
<1>11. ASSUME NEW i \in 1..Len(t)
       PROVE  /\ u[i].role = t[i].role /\ u[i].id = t[i].id /\ u[i].calls = t[i].calls
              /\ u[i] = t[i] \/ u[i].role = "tool"
  <2>1. CASE i <= n
    <3>1. i \in 1..n /\ i \in 1..Len(working')
      BY <1>2, <1>6, <2>1
    <3>2. u[i] = t[i]
      BY <1>6, <1>7, <1>8, <3>1
    <3>3. QED BY <3>2
  <2>2. CASE i = n + 1
    <3>1. i \in 1..Len(working') /\ 1 \in 1..Len(pending)
      BY <1>2, <1>3, <1>6, <2>2
    <3>2. u[i] = result /\ t[i] = ToolResult(pending[1], FALSE)
      BY <1>6, <1>7, <1>8, <2>2, <3>1
    <3>3. QED BY <1>4, <3>2 DEF ToolResult
  <2>3. CASE i > n + 1
    <3>1. PICK k \in 1..Len(pending') : i = n + 1 + k
      <4>1. i \in Int /\ n \in Int /\ Len(pending) \in Int /\ n + 1 < i /\ i <= n + Len(pending)
        BY <1>2, <1>3, <1>7, <2>3
      <4>2. i - (n + 1) \in 1..(Len(pending) - 1) /\ i = n + 1 + (i - (n + 1))
        BY <4>1
      <4>3. QED BY <1>3, <4>2
    <3>2. u[i] = ToolResult(pending'[k], FALSE)
      BY <1>6, <1>8, <3>1
    <3>3. k + 1 \in 1..Len(pending) /\ n + (k + 1) = i
      BY <1>2, <1>3, <3>1
    <3>4. t[i] = ToolResult(pending[k + 1], FALSE)
      BY <1>7, <3>3
    <3>5. QED BY <1>3, <3>2, <3>4
  <2>4. QED BY <1>2, <2>1, <2>2, <2>3
<1>12. Turns(u, restored)
  BY <1>2, <1>7, <1>8, <1>9, <1>10, <1>11, TurnsAlike
<1>13. Last(working') = result
  BY <1>6 DEF Last
<1>14. /\ CompleteTurns(Front(messages'), restored')
       /\ Turns(Due(working', pending'), restored') /\ ~Final(Last(working'))
  BY <1>1, <1>4, <1>9, <1>12, <1>13 DEF u
<1>15. QED BY <1>1, <1>14 DEF TurnsInv, OnlyWholeTurns, TurnInOrder

\* A turn that failed leaves the whole turns before it.
LEMMA FailedTurn ==
    ASSUME TurnsInv, pc \in InLoop, messages' = Front(messages), pc' = "prompt",
           UNCHANGED restored
    PROVE  TurnsInv'
<1>1. CompleteTurns(messages', restored')
  BY DEF TurnsInv, TurnInOrder
<1>2. QED BY <1>1 DEF TurnsInv, OnlyWholeTurns, TurnInOrder, InLoop

LEMMA TurnDoneTurn ==
    ASSUME IInv, TurnsInv, TurnDone
    PROVE  TurnsInv'
<1>1. pc = "answered" /\ pc' = "prompt" /\ messages' = working /\ UNCHANGED restored
  BY DEF TurnDone
<1>2. working \in Seq(Message) /\ Last(working) = working[Len(working)]
  BY <1>1, LoopTyped DEF InLoop
<1>3. pending = <<>> /\ Turns(Due(working, pending), restored) /\ Final(Last(working))
  BY <1>1 DEF TurnsInv, TurnInOrder, InLoop
<1>4. CompleteTurns(working, restored)
  BY <1>2, <1>3, NothingDue DEF CompleteTurns
<1>5. CompleteTurns(messages', restored')
  BY <1>1, <1>4
<1>6. QED BY <1>1, <1>5 DEF TurnsInv, OnlyWholeTurns, TurnInOrder, InLoop

\* What is loaded has not been lived through.
LEMMA LoadedTurn ==
    ASSUME IInv, Clear \/ \E s \in Session : Resume(s) \/ Start(s)
    PROVE  TurnsInv'
<1>1. CASE Clear
  <2>1. pc' = "prompt" /\ messages' = <<>> /\ restored' = 0
    BY <1>1 DEF Clear
  <2>2. <<>> \in Seq(Message) /\ Len(<<>>) = 0
    BY EmptySeq
  <2>3. CompleteTurns(messages', restored')
    BY <2>1, <2>2, NoTurns
  <2>4. QED BY <2>1, <2>3 DEF TurnsInv, OnlyWholeTurns, TurnInOrder, InLoop
<1>2. ASSUME NEW s \in Session, Resume(s) \/ Start(s) PROVE TurnsInv'
  <2>1. /\ pc' = "prompt" /\ messages' = row[s].messages
        /\ restored' = Len(row[s].messages)
    BY <1>2 DEF Resume, Start
  <2>2. row[s].messages \in Seq(Message)
    BY Typed DEF Row
  <2>3. CompleteTurns(messages', restored')
    BY <2>1, <2>2, NoTurns
  <2>4. QED BY <2>1, <2>3 DEF TurnsInv, OnlyWholeTurns, TurnInOrder, InLoop
<1>3. QED BY <1>1, <1>2

LEMMA TurnsInit == Init => TurnsInv
<1> SUFFICES ASSUME Init PROVE TurnsInv
    OBVIOUS
<1>1. <<>> \in Seq(Message) /\ Len(<<>>) = 0
  BY EmptySeq
<1>2. CompleteTurns(messages, restored)
  BY <1>1, NoTurns DEF Init
<1>3. QED BY <1>2 DEF Init, TurnsInv, OnlyWholeTurns, TurnInOrder, InLoop

LEMMA TurnsStep == IInv /\ TurnsInv /\ [Next]_vars => TurnsInv'
<1> SUFFICES ASSUME IInv, TurnsInv, [Next]_vars PROVE TurnsInv'
    OBVIOUS
<1>1. CASE StartTurn
  <2>1. /\ pc = "turn" /\ pc' = "llm" /\ UNCHANGED <<messages, restored, working, pending>>
    BY <1>1 DEF StartTurn, prompt
  <2>2. pending = <<>>
    BY <2>1 DEF TurnsInv, TurnInOrder, InLoop
  <2>3. QED BY <2>1, <2>2, QuietTurn DEF InLoop
<1>2. CASE CheckpointCalls \/ RunTool
  <2>1. /\ pc \in {"calls", "tools"} /\ pc' \in {"tools", "output"}
        /\ UNCHANGED <<messages, restored, working, pending>>
    BY <1>2 DEF CheckpointCalls, RunTool, prompt, loop
  <2>2. QED BY <2>1, QuietTurn DEF InLoop
<1>3. CASE CheckpointResult
  <2>1. /\ pc = "result" /\ UNCHANGED <<restored, working, pending>>
        /\ \/ messages' = Front(messages) /\ pc' = "prompt"
           \/ messages' = messages /\ pc' = IF pending = <<>> THEN "turn" ELSE "tools"
    BY <1>3 DEF CheckpointResult, loop
  <2>2. CASE messages' = Front(messages) /\ pc' = "prompt"
    BY <2>1, <2>2, FailedTurn DEF InLoop
  <2>3. CASE messages' = messages /\ pc' = IF pending = <<>> THEN "turn" ELSE "tools"
    <3>1. /\ pc \in InLoop \ {"answered"} /\ pc' \in InLoop \ {"answered"}
          /\ pc' \in {"turn", "llm"} => pending = <<>>
      BY <2>1, <2>3 DEF InLoop
    <3>2. QED BY <2>1, <2>3, <3>1, QuietTurn
  <2>4. QED BY <2>1, <2>2, <2>3
<1>4. CASE ReceiveAnswer
  BY <1>4, ReceiveAnswerTurn
<1>5. CASE ReceiveToolCalls
  BY <1>5, ReceiveToolCallsTurn
<1>6. CASE AppendResult
  BY <1>6, AppendResultTurn
<1>7. CASE LoopFails
  BY <1>7, FailedTurn DEF LoopFails
<1>8. CASE Submit
  BY <1>8, SubmitTurn
<1>9. CASE TurnDone
  BY <1>9, TurnDoneTurn
<1>10. CASE Clear \/ \E s \in Session : Resume(s) \/ Start(s)
  BY <1>10, LoadedTurn
<1>11. CASE Exit \/ Crash
  BY <1>11 DEF Exit, Crash, TurnsInv, OnlyWholeTurns, TurnInOrder, InLoop
<1>12. CASE UNCHANGED vars
  <2>1. UNCHANGED <<pc, messages, restored, working, pending>>
    BY <1>12 DEF vars, prompt, loop
  <2>2. QED BY <2>1 DEF TurnsInv, OnlyWholeTurns, TurnInOrder
<1>13. QED BY <1>1, <1>2, <1>3, <1>4, <1>5, <1>6, <1>7, <1>8, <1>9, <1>10, <1>11, <1>12
        DEF Next, LoopStep

\* However turns fail, are blocked or are resumed: at the prompt the conversation is made
\* of the user's messages and their answers, with every tool call in between answered in
\* order (the push, the pop and the take-over around runAgentLoop).
THEOREM TurnsAreWhole == Spec => []OnlyWholeTurns
<1>1. Spec => []TurnsInv
  BY TurnsInit, TurnsStep, ReplInvariant, PTL DEF Spec
<1>2. TurnsInv => OnlyWholeTurns
  BY DEF TurnsInv
<1>3. QED BY <1>1, <1>2, PTL

-----------------------------------------------------------------------------
(* Tool results blocked in a row. *)

LEMMA OtherAppended ==
    ASSUME NEW t \in Seq(Message), NEW from \in Nat, NEW m \in Message, m.role # "tool"
    PROVE  /\ LastBlocked(Append(t, m), from) => LastBlocked(t, from)
           /\ LastTwoBlocked(Append(t, m), from) => LastTwoBlocked(t, from)
           /\ ThreeBlocked(Append(t, m), from) => ThreeBlocked(t, from)
<1> DEFINE u == Append(t, m)
           n == Len(t)
<1>1. /\ n \in Nat /\ Len(u) = n + 1 /\ u[n + 1] = m
      /\ \A i \in 1..n : u[i] = t[i]
  BY Appended
<1> HIDE DEF u
<1>2. \A i \in from + 1..Len(u) : u[i].role = "tool" => i \in from + 1..n
  BY <1>1
<1>3. \A i \in from + 1..n : u[i] = t[i]
  BY <1>1
<1>4. ASSUME LastBlocked(u, from) PROVE LastBlocked(t, from)
  <2>1. PICK i \in from + 1..Len(u) :
           u[i].role = "tool" /\ \A k \in i..Len(u) : u[k].role = "tool" => u[k].blocked
    BY <1>4 DEF LastBlocked
  <2>2. i \in from + 1..n
    BY <1>2, <2>1
  <2>3. \A k \in i..n : k \in i..Len(u) /\ k \in from + 1..n
    BY <1>1, <2>2
  <2>4. t[i].role = "tool" /\ \A k \in i..n : t[k].role = "tool" => t[k].blocked
    BY <1>3, <2>1, <2>2, <2>3
  <2>5. QED BY <2>2, <2>4 DEF LastBlocked
<1>5. ASSUME LastTwoBlocked(u, from) PROVE LastTwoBlocked(t, from)
  <2>1. PICK i \in from + 1..Len(u), j \in from + 1..Len(u) :
           /\ i < j /\ u[i].role = "tool" /\ u[j].role = "tool"
           /\ \A k \in i..Len(u) : u[k].role = "tool" => u[k].blocked
    BY <1>5 DEF LastTwoBlocked
  <2>2. i \in from + 1..n /\ j \in from + 1..n
    BY <1>2, <2>1
  <2>3. \A k \in i..n : k \in i..Len(u) /\ k \in from + 1..n
    BY <1>1, <2>2
  <2>4. /\ t[i].role = "tool" /\ t[j].role = "tool"
        /\ \A k \in i..n : t[k].role = "tool" => t[k].blocked
    BY <1>3, <2>1, <2>2, <2>3
  <2>5. QED BY <2>1, <2>2, <2>4 DEF LastTwoBlocked
<1>6. ASSUME ThreeBlocked(u, from) PROVE ThreeBlocked(t, from)
  <2>1. PICK i \in from + 1..Len(u), j \in from + 1..Len(u), k \in from + 1..Len(u) :
           /\ i < j /\ j < k
           /\ u[i].role = "tool" /\ u[j].role = "tool" /\ u[k].role = "tool"
           /\ \A l \in i..k : u[l].role = "tool" => u[l].blocked
    BY <1>6 DEF ThreeBlocked
  <2>2. i \in from + 1..n /\ j \in from + 1..n /\ k \in from + 1..n
    BY <1>2, <2>1
  <2>3. \A l \in i..k : l \in from + 1..n
    BY <1>1, <2>2
  <2>4. /\ t[i].role = "tool" /\ t[j].role = "tool" /\ t[k].role = "tool"
        /\ \A l \in i..k : t[l].role = "tool" => t[l].blocked
    BY <1>3, <2>1, <2>2, <2>3
  <2>5. QED BY <2>1, <2>2, <2>4 DEF ThreeBlocked
<1>7. QED BY <1>4, <1>5, <1>6 DEF u

LEMMA ResultAppended ==
    ASSUME NEW t \in Seq(Message), NEW from \in 0..Len(t), NEW m \in Message, m.role = "tool"
    PROVE  /\ LastBlocked(Append(t, m), from) => m.blocked
           /\ LastTwoBlocked(Append(t, m), from) => m.blocked /\ LastBlocked(t, from)
           /\ ThreeBlocked(Append(t, m), from) =>
                 ThreeBlocked(t, from) \/ (m.blocked /\ LastTwoBlocked(t, from))
<1> DEFINE u == Append(t, m)
           n == Len(t)
<1>1. /\ n \in Nat /\ from \in 0..n /\ Len(u) = n + 1 /\ u[n + 1] = m
      /\ \A i \in 1..n : u[i] = t[i]
  BY Appended
<1> HIDE DEF u, n
<1>2. \A i \in from + 1..n : u[i] = t[i]
  BY <1>1
<1>3. ASSUME LastBlocked(u, from) PROVE m.blocked
  <2>1. PICK i \in from + 1..Len(u) :
           u[i].role = "tool" /\ \A k \in i..Len(u) : u[k].role = "tool" => u[k].blocked
    BY <1>3 DEF LastBlocked
  <2>2. n + 1 \in i..Len(u)
    BY <1>1
  <2>3. QED BY <1>1, <2>1, <2>2
<1>4. ASSUME LastTwoBlocked(u, from) PROVE m.blocked /\ LastBlocked(t, from)
  <2>1. PICK i \in from + 1..Len(u), j \in from + 1..Len(u) :
           /\ i < j /\ u[i].role = "tool" /\ u[j].role = "tool"
           /\ \A k \in i..Len(u) : u[k].role = "tool" => u[k].blocked
    BY <1>4 DEF LastTwoBlocked
  <2>2. i \in from + 1..n /\ n + 1 \in i..Len(u)
    BY <1>1, <2>1
  <2>3. \A k \in i..n : k \in i..Len(u) /\ k \in from + 1..n
    BY <1>1, <2>2
  <2>4. t[i].role = "tool" /\ \A k \in i..n : t[k].role = "tool" => t[k].blocked
    BY <1>2, <2>1, <2>2, <2>3
  <2>5. m.blocked
    BY <1>1, <2>1, <2>2
  <2>6. QED BY <2>2, <2>4, <2>5 DEF LastBlocked, n
<1>5. ASSUME ThreeBlocked(u, from)
      PROVE  ThreeBlocked(t, from) \/ (m.blocked /\ LastTwoBlocked(t, from))
  <2>1. PICK i \in from + 1..Len(u), j \in from + 1..Len(u), k \in from + 1..Len(u) :
           /\ i < j /\ j < k
           /\ u[i].role = "tool" /\ u[j].role = "tool" /\ u[k].role = "tool"
           /\ \A l \in i..k : u[l].role = "tool" => u[l].blocked
    BY <1>5 DEF ThreeBlocked
  <2>2. i \in from + 1..n /\ j \in from + 1..n
    BY <1>1, <2>1
  <2>3. t[i].role = "tool" /\ t[j].role = "tool"
    BY <1>2, <2>1, <2>2
  <2>4. CASE k = n + 1
    <3>1. \A l \in i..n : l \in i..k /\ l \in from + 1..n
      BY <1>1, <2>2, <2>4
    <3>2. \A l \in i..n : t[l].role = "tool" => t[l].blocked
      BY <1>2, <2>1, <3>1
    <3>3. LastTwoBlocked(t, from)
      BY <2>1, <2>2, <2>3, <3>2 DEF LastTwoBlocked, n
    <3>4. k \in i..k
      BY <2>1
    <3>5. m.blocked
      BY <1>1, <2>1, <2>4, <3>4
    <3>6. QED BY <3>3, <3>5
  <2>5. CASE k # n + 1
    <3>1. k \in from + 1..n
      BY <1>1, <2>1, <2>5
    <3>2. \A l \in i..k : l \in from + 1..n
      BY <1>1, <2>2, <3>1
    <3>3. t[k].role = "tool" /\ \A l \in i..k : t[l].role = "tool" => t[l].blocked
      BY <1>2, <2>1, <3>1, <3>2
    <3>4. ThreeBlocked(t, from)
      BY <2>1, <2>2, <2>3, <3>1, <3>3 DEF ThreeBlocked, n
    <3>5. QED BY <3>4
  <2>6. QED BY <2>4, <2>5
<1>6. QED BY <1>3, <1>4, <1>5 DEF u

LEMMA NoneBlocked ==
    ASSUME NEW t \in Seq(Message)
    PROVE  ~LastBlocked(t, Len(t)) /\ ~LastTwoBlocked(t, Len(t)) /\ ~ThreeBlocked(t, Len(t))
<1>1. Len(t) + 1..Len(t) = {}
  <2>1. Len(t) \in Nat
    BY LenProperties
  <2>2. QED BY <2>1
<1>2. QED BY <1>1 DEF LastBlocked, LastTwoBlocked, ThreeBlocked

\* A step of the loop that adds no result and leaves the count.
LEMMA CountKept ==
    ASSUME IInv, BlockedAreCounted, pc \in InLoop \ {"output"}, pc' \in InLoop \ {"output"},
           UNCHANGED <<messages, blocked>>,
           working' = working \/ \E m \in Message : m.role # "tool" /\ working' = Append(working, m)
    PROVE  BlockedAreCounted'
<1>1. working \in Seq(Message) /\ Len(messages) \in Nat
  BY LoopTyped
<1>2. /\ LastBlocked(working, Len(messages)) => blocked >= 1
      /\ LastTwoBlocked(working, Len(messages)) => blocked >= 2
      /\ ThreeBlocked(working, Len(messages)) => blocked >= 3
  BY DEF BlockedAreCounted
<1>3. /\ LastBlocked(working', Len(messages)) => LastBlocked(working, Len(messages))
      /\ LastTwoBlocked(working', Len(messages)) => LastTwoBlocked(working, Len(messages))
      /\ ThreeBlocked(working', Len(messages)) => ThreeBlocked(working, Len(messages))
  <2>1. CASE working' = working
    BY <2>1
  <2>2. ASSUME NEW m \in Message, m.role # "tool", working' = Append(working, m)
        PROVE  <1>3!1 /\ <1>3!2 /\ <1>3!3
    BY <1>1, <2>2, OtherAppended
  <2>3. QED BY <2>1, <2>2
<1>4. /\ LastBlocked(working', Len(messages')) => blocked' >= 1
      /\ LastTwoBlocked(working', Len(messages')) => blocked' >= 2
      /\ ThreeBlocked(working', Len(messages')) => blocked' >= 3
  BY <1>2, <1>3
<1>5. QED BY <1>4 DEF BlockedAreCounted

LEMMA RunToolCount ==
    ASSUME IInv, BlockedAreCounted, RunTool
    PROVE  BlockedAreCounted'
<1>1. /\ pc = "tools" /\ pc' = "output" /\ (blocked' = blocked + 1 \/ blocked' = 0)
      /\ UNCHANGED <<messages, working>>
  BY DEF RunTool, prompt
<1>2. blocked \in 0..3 /\ blocked <= 2
  BY <1>1, Typed DEF IInv, StepsAreInOrder
<1>3. /\ LastBlocked(working, Len(messages)) => blocked >= 1
      /\ LastTwoBlocked(working, Len(messages)) => blocked >= 2
      /\ ThreeBlocked(working, Len(messages)) => blocked >= 3
  BY <1>1 DEF BlockedAreCounted, InLoop
<1>4. /\ LastBlocked(working, Len(messages)) => blocked' # 1
      /\ LastTwoBlocked(working, Len(messages)) => blocked' \notin {1, 2}
      /\ ~ThreeBlocked(working, Len(messages))
  BY <1>1, <1>2, <1>3
<1>5. /\ LastBlocked(working', Len(messages')) => blocked' # 1
      /\ LastTwoBlocked(working', Len(messages')) => blocked' \notin {1, 2}
      /\ ~ThreeBlocked(working', Len(messages'))
  BY <1>1, <1>4
<1>6. QED BY <1>1, <1>5 DEF BlockedAreCounted

LEMMA AppendResultCount ==
    ASSUME IInv, BlockedAreCounted, AppendResult
    PROVE  BlockedAreCounted'
<1> DEFINE result == ToolResult(Head(pending), blocked > 0)
<1>1. /\ pc = "output" /\ pc' = "result" /\ working' = Append(working, result)
      /\ UNCHANGED <<messages, blocked>>
  BY DEF AppendResult, prompt
<1>2. /\ working \in Seq(Message) /\ Len(messages) \in 0..Len(working) /\ blocked \in 0..3
      /\ pending \in Seq(1..MaxCalls) /\ pending # <<>>
  BY <1>1, LoopTyped, Typed DEF IInv, StepsAreInOrder, InLoop
<1>3. result \in Message /\ result.role = "tool" /\ (result.blocked <=> blocked > 0)
  <2>1. Head(pending) \in 1..MaxCalls
    BY <1>2, HeadTailProperties
  <2>2. CASE blocked > 0
    <3>1. result = ToolResult(Head(pending), TRUE)
      BY <2>2 DEF ToolResult
    <3>2. QED BY <2>1, <2>2, <3>1, MessagesTyped DEF ToolResult
  <2>3. CASE ~(blocked > 0)
    <3>1. (blocked > 0) = FALSE
      BY <2>3
    <3>2. result = ToolResult(Head(pending), FALSE)
      BY <3>1
    <3>3. QED BY <2>1, <2>3, <3>2, MessagesTyped DEF ToolResult
  <2>4. QED BY <2>2, <2>3
<1> HIDE DEF result
<1>4. /\ LastBlocked(working, Len(messages)) => blocked # 1
      /\ LastTwoBlocked(working, Len(messages)) => blocked \notin {1, 2}
      /\ ~ThreeBlocked(working, Len(messages))
  BY <1>1 DEF BlockedAreCounted
<1>5. /\ LastBlocked(working', Len(messages)) => blocked > 0
      /\ LastTwoBlocked(working', Len(messages)) =>
            blocked > 0 /\ LastBlocked(working, Len(messages))
      /\ ThreeBlocked(working', Len(messages)) =>
            blocked > 0 /\ LastTwoBlocked(working, Len(messages))
  BY <1>1, <1>2, <1>3, <1>4, ResultAppended
<1>6. /\ LastBlocked(working', Len(messages)) => blocked >= 1
      /\ LastTwoBlocked(working', Len(messages)) => blocked >= 2
      /\ ThreeBlocked(working', Len(messages)) => blocked >= 3
  BY <1>2, <1>4, <1>5
<1>7. /\ LastBlocked(working', Len(messages')) => blocked' >= 1
      /\ LastTwoBlocked(working', Len(messages')) => blocked' >= 2
      /\ ThreeBlocked(working', Len(messages')) => blocked' >= 3
  BY <1>1, <1>6
<1>8. QED BY <1>1, <1>7 DEF BlockedAreCounted

LEMMA BlockedStep == IInv /\ BlockedAreCounted /\ [Next]_vars => BlockedAreCounted'
<1> SUFFICES ASSUME IInv, BlockedAreCounted, [Next]_vars PROVE BlockedAreCounted'
    OBVIOUS
<1>1. CASE RunTool
  BY <1>1, RunToolCount
<1>2. CASE AppendResult
  BY <1>2, AppendResultCount
<1>3. CASE StartTurn \/ CheckpointCalls
  <2>1. /\ pc \in {"turn", "calls"} /\ pc' \in {"llm", "tools"}
        /\ UNCHANGED <<messages, blocked, working>>
    BY <1>3 DEF StartTurn, CheckpointCalls, prompt, loop
  <2>2. QED BY <2>1, CountKept DEF InLoop
<1>4. CASE ReceiveAnswer
  <2>1. /\ pc = "llm" /\ pc' = "answered" /\ working' = Append(working, Answer(inputs))
        /\ UNCHANGED <<messages, blocked>>
    BY <1>4 DEF ReceiveAnswer, prompt
  <2>2. Answer(inputs) \in Message /\ Answer(inputs).role # "tool"
    BY Typed, MessagesTyped DEF Answer
  <2>3. QED BY <2>1, <2>2, CountKept DEF InLoop
<1>5. CASE ReceiveToolCalls
  <2>1. PICK n \in 1..MaxBatch :
           /\ calls + n <= MaxCalls /\ pending' = [i \in 1..n |-> calls + i]
           /\ working' = Append(working, ToolCalls(pending'))
    BY <1>5 DEF ReceiveToolCalls
  <2>2. pc = "llm" /\ pc' = "calls" /\ UNCHANGED <<messages, blocked>>
    BY <1>5 DEF ReceiveToolCalls, prompt
  <2>3. pending' \in [1..n -> 1..MaxCalls]
    <3>1. calls \in Nat
      BY Typed
    <3>2. \A i \in 1..n : calls + i \in 1..MaxCalls
      BY <2>1, <3>1
    <3>3. QED BY <2>1, <3>2
  <2>4. ToolCalls(pending') \in Message /\ ToolCalls(pending').role # "tool"
    BY <2>3, MessagesTyped DEF ToolCalls
  <2>5. QED BY <2>1, <2>2, <2>4, CountKept DEF InLoop
<1>6. CASE CheckpointResult
  <2>1. /\ pc = "result" /\ UNCHANGED <<blocked, working>>
        /\ \/ pc' = "prompt"
           \/ messages' = messages /\ pc' \in {"turn", "tools"}
    BY <1>6 DEF CheckpointResult, loop
  <2>2. CASE pc' = "prompt"
    BY <2>2 DEF BlockedAreCounted, InLoop
  <2>3. CASE messages' = messages /\ pc' \in {"turn", "tools"}
    BY <2>1, <2>3, CountKept DEF InLoop
  <2>4. QED BY <2>1, <2>2, <2>3
<1>7. CASE Submit
  <2>1. /\ pc' = "turn" /\ working' = messages' /\ messages' = Append(messages, User(inputs'))
        /\ inputs' = inputs + 1 /\ inputs < MaxInputs
    BY <1>7 DEF Submit
  <2>2. User(inputs') \in Message
    BY <2>1, Typed, MessagesTyped
  <2>3. messages' \in Seq(Message)
    BY <2>1, <2>2, Typed, Appended
  <2>4. /\ ~LastBlocked(working', Len(messages')) /\ ~LastTwoBlocked(working', Len(messages'))
        /\ ~ThreeBlocked(working', Len(messages'))
    BY <2>1, <2>3, NoneBlocked
  <2>5. QED BY <2>1, <2>4 DEF BlockedAreCounted
<1>8. CASE \/ LoopFails \/ TurnDone \/ Clear \/ Exit \/ Crash
           \/ \E s \in Session : Resume(s) \/ Start(s)
  <2>1. pc' \in {"prompt", "down"}
    BY <1>8 DEF LoopFails, TurnDone, Clear, Exit, Crash, Resume, Start
  <2>2. QED BY <2>1 DEF BlockedAreCounted, InLoop
<1>9. CASE UNCHANGED vars
  <2>1. UNCHANGED <<pc, messages, working, blocked>>
    BY <1>9 DEF vars, prompt, loop
  <2>2. QED BY <2>1 DEF BlockedAreCounted
<1>10. QED BY <1>1, <1>2, <1>3, <1>4, <1>5, <1>6, <1>7, <1>8, <1>9 DEF Next, LoopStep

\* After three blocked tool outputs in a row, of one response or of several, the model is
\* not called again in that turn (consecutiveBlockedToolOutputs of runAgentLoop).
THEOREM BlockedEndTheTurn == Spec => []NoCallAfterThreeBlocked
<1>1. Init => BlockedAreCounted
  BY DEF Init, BlockedAreCounted, InLoop
<1>2. Spec => []BlockedAreCounted
  BY <1>1, BlockedStep, ReplInvariant, PTL DEF Spec
<1>3. IInv /\ BlockedAreCounted => NoCallAfterThreeBlocked
  <2> SUFFICES ASSUME IInv, BlockedAreCounted, pc = "llm", ThreeBlocked(working, Len(messages))
               PROVE  FALSE
      BY DEF NoCallAfterThreeBlocked
  <2>1. blocked >= 3
    BY DEF BlockedAreCounted, InLoop
  <2>2. blocked \in 0..3 /\ blocked <= 2
    BY Typed DEF IInv, StepsAreInOrder
  <2>3. QED BY <2>1, <2>2
<1>4. QED BY <1>2, <1>3, ReplInvariant, PTL

=============================================================================
