---------------------------- MODULE ReplSession ----------------------------
(***************************************************************************)
(* A conversation at the prompt, and what of it is on disk                 *)
(* (packages/agent-core/src/repl.ts, loop.ts, loop-tool-calls.ts and       *)
(* state/checkpoint.ts).                                                   *)
(*                                                                         *)
(* The prompt keeps the conversation as a message array.  A turn pushes    *)
(* the user's message, runs the agent loop on a copy and takes the copy    *)
(* over when the loop succeeds; when it fails the message is popped again. *)
(* The loop itself saves the copy after every step of the turn, in the row *)
(* of the session the process was started with, so that a process that     *)
(* dies can be followed by one that goes on from the row.                  *)
(***************************************************************************)
EXTENDS Integers, SequencesExt

CONSTANTS
    Session,    \* session ids
    MaxTurns,   \* maxTurns: calls of the model, counted from the session's turnCount
    MaxBatch,   \* bound: tool calls in one response
    MaxInputs,  \* bound: messages the user types
    MaxCalls    \* bound: tool calls the model asks for

ASSUME ReplAssumption ==
    /\ MaxTurns \in Nat /\ MaxBatch \in Nat /\ MaxInputs \in Nat /\ MaxCalls \in Nat

VARIABLES
    row,       \* the sessions table: what is saved of each session
    own,       \* resolvedSessionId: the row this process saves to
    messages,  \* the conversation at the prompt
    turnCount, \* state.turnCount
    pc,        \* where the process is
    working,   \* workingMessages: the loop's copy
    loopTurn,  \* turnCount of the loop
    pending,   \* tool calls of this response that have not run yet
    blocked,   \* consecutiveBlockedToolOutputs
    inputs,    \* how many messages the user has typed
    calls,     \* how many tool calls the model has asked for
    restored,  \* history: how much of `messages` was loaded, not lived through
    done       \* history: the inputs answered and not cleared by the user

prompt == <<own, messages, turnCount>>
loop   == <<working, loopTurn, pending, blocked>>
issued == <<inputs, calls>>
vars   == <<row, prompt, pc, loop, issued, restored, done>>

\* The loop between two of its steps: before a turn's checkpoint, waiting for the
\* model, with an answer saved, with a response that asks for tools, between two
\* tool calls, with a tool's output, with the output in the transcript.
InLoop == {"turn", "llm", "answered", "calls", "tools", "output", "result"}

User(n)            == [role |-> "user", id |-> n, calls |-> <<>>, blocked |-> FALSE]
Answer(n)          == [role |-> "assistant", id |-> n, calls |-> <<>>, blocked |-> FALSE]
ToolCalls(batch)   == [role |-> "assistant", id |-> 0, calls |-> batch, blocked |-> FALSE]
ToolResult(c, bad) == [role |-> "tool", id |-> c, calls |-> <<>>, blocked |-> bad]

NoRow == [messages |-> <<>>, turnCount |-> 0, saved |-> FALSE]

Init ==
    /\ row = [s \in Session |-> NoRow]
    /\ own \in Session
    /\ messages = <<>> /\ turnCount = 0
    /\ pc = "prompt"
    /\ working = <<>> /\ loopTurn = 0 /\ pending = <<>> /\ blocked = 0
    /\ inputs = 0 /\ calls = 0
    /\ restored = 0 /\ done = {}

\* checkpoint.save: the row of this process's session is replaced.
Save(transcript, count) ==
    row' = [row EXCEPT ![own] =
               [messages |-> transcript, turnCount |-> count, saved |-> TRUE]]

-----------------------------------------------------------------------------
(* The prompt. *)

\* The user's message is pushed and the loop gets a copy of the conversation.
Submit ==
    /\ pc = "prompt" /\ inputs < MaxInputs
    /\ inputs' = inputs + 1
    /\ messages' = Append(messages, User(inputs'))
    /\ working' = messages'
    /\ loopTurn' = turnCount
    /\ pending' = <<>> /\ blocked' = 0
    /\ pc' = "turn"
    /\ UNCHANGED <<row, own, turnCount, calls, restored, done>>

\* Fault: what the loop got to is kept when it fails.
LoopFailsKeeps ==
    /\ pc \in InLoop \ {"tools"}
    /\ messages' = working
    /\ pc' = "prompt"
    /\ UNCHANGED <<row, own, turnCount, loop, issued, restored, done>>

\* The loop threw: the model or a save failed, a hook, the token budget, the
\* meta verifier, too many turns or blocked outputs.  The user's message goes.
LoopFails ==
    /\ pc \in InLoop \ {"tools"}
    /\ messages' = Front(messages)
    /\ pc' = "prompt"
    /\ UNCHANGED <<row, own, turnCount, loop, issued, restored, done>>

\* The loop returned: its transcript becomes the conversation.
TurnDone ==
    /\ pc = "answered"
    /\ messages' = working
    /\ turnCount' = turnCount + 1
    /\ done' = done \cup {inputs}
    /\ pc' = "prompt"
    /\ UNCHANGED <<row, own, loop, issued, restored>>

\* /clear
Clear ==
    /\ pc = "prompt"
    /\ messages' = <<>>
    /\ done' = done \ {n \in done : User(n) \in ToSet(messages)}
    /\ restored' = 0
    /\ UNCHANGED <<row, own, turnCount, pc, loop, issued>>

\* /resume <n>, /resume latest: the row is read, the conversation at hand is
\* saved, and what was read takes its place.
Resume(s) ==
    /\ pc = "prompt" /\ row[s].saved
    /\ Save(messages, turnCount)
    /\ messages' = row[s].messages /\ turnCount' = row[s].turnCount
    /\ restored' = Len(row[s].messages)
    /\ UNCHANGED <<own, pc, loop, issued, done>>

\* /exit
Exit ==
    /\ pc = "prompt"
    /\ Save(messages, turnCount)
    /\ pc' = "down"
    /\ UNCHANGED <<prompt, loop, issued, restored, done>>

\* The process is gone, and with it all it had not saved.
Crash ==
    /\ pc \notin {"down"}
    /\ pc' = "down"
    /\ UNCHANGED <<row, prompt, loop, issued, restored, done>>

\* A new process, for a new session or one that has a row.
Start(s) ==
    /\ pc = "down"
    /\ own' = s
    /\ messages' = row[s].messages /\ turnCount' = row[s].turnCount
    /\ restored' = Len(row[s].messages)
    /\ working' = <<>> /\ loopTurn' = 0 /\ pending' = <<>> /\ blocked' = 0
    /\ pc' = "prompt"
    /\ UNCHANGED <<row, issued, done>>

-----------------------------------------------------------------------------
(* The loop. *)

\* Fault: off by one, a turn more than maxTurns.
StartTurnOffByOne ==
    /\ pc = "turn" /\ loopTurn <= MaxTurns
    /\ loopTurn' = loopTurn + 1
    /\ Save(working, loopTurn')
    /\ pc' = "llm"
    /\ UNCHANGED <<prompt, working, pending, blocked, issued, restored, done>>

\* The turn_start checkpoint, then the model is called.
StartTurn ==
    /\ pc = "turn" /\ loopTurn < MaxTurns
    /\ loopTurn' = loopTurn + 1
    /\ Save(working, loopTurn')
    /\ pc' = "llm"
    /\ UNCHANGED <<prompt, working, pending, blocked, issued, restored, done>>

\* Fault: the answer is not saved.
ReceiveAnswerUnsaved ==
    /\ pc = "llm"
    /\ working' = Append(working, Answer(inputs))
    /\ pc' = "answered"
    /\ UNCHANGED <<row, prompt, loopTurn, pending, blocked, issued, restored, done>>

\* The final answer and its assistant_response checkpoint; onIdle comes after.
ReceiveAnswer ==
    /\ pc = "llm"
    /\ working' = Append(working, Answer(inputs))
    /\ Save(working', loopTurn)
    /\ pc' = "answered"
    /\ UNCHANGED <<prompt, loopTurn, pending, blocked, issued, restored, done>>

\* A response that asks for tools, in the transcript but not saved yet.
ReceiveToolCalls ==
    /\ pc = "llm"
    /\ \E n \in 1 .. MaxBatch :
          /\ calls + n <= MaxCalls
          /\ calls' = calls + n
          /\ pending' = [i \in 1 .. n |-> calls + i]
          /\ working' = Append(working, ToolCalls(pending'))
    /\ pc' = "calls"
    /\ UNCHANGED <<row, prompt, loopTurn, blocked, inputs, restored, done>>

\* Fault: the tools run before the response is saved.
CheckpointCallsSkipped ==
    /\ pc = "calls"
    /\ pc' = "tools"
    /\ UNCHANGED <<row, prompt, loop, issued, restored, done>>

\* The assistant_tool_calls checkpoint; tools run after it.
CheckpointCalls ==
    /\ pc = "calls"
    /\ Save(working, loopTurn)
    /\ pc' = "tools"
    /\ UNCHANGED <<prompt, loop, issued, restored, done>>

\* Fault: the count of blocked outputs starts over with every response.
RunToolForgetful ==
    /\ pc = "tools"
    /\ \E bad \in BOOLEAN :
          blocked' = IF ~bad THEN 0
                     ELSE IF Last(working).role = "tool" THEN blocked + 1 ELSE 1
    /\ pc' = "output"
    /\ UNCHANGED <<row, prompt, working, loopTurn, pending, issued, restored, done>>

\* The next tool call is verified and, if allowed, run; its output is scanned.
\* It counts as blocked if the verifier refused it or the scan blocks it.
RunTool ==
    /\ pc = "tools"
    /\ \E bad \in BOOLEAN : blocked' = IF bad THEN blocked + 1 ELSE 0
    /\ pc' = "output"
    /\ UNCHANGED <<row, prompt, working, loopTurn, pending, issued, restored, done>>

\* The meta verifier agreed: the output goes into the transcript.
AppendResult ==
    /\ pc = "output"
    /\ working' = Append(working, ToolResult(Head(pending), blocked > 0))
    /\ pending' = Tail(pending)
    /\ pc' = "result"
    /\ UNCHANGED <<row, prompt, loopTurn, blocked, issued, restored, done>>

\* The tool_result checkpoint.  The third blocked output in a row ends the loop
\* after it; otherwise the next tool call, or the next turn of the loop.
CheckpointResult ==
    /\ pc = "result"
    /\ Save(working, loopTurn)
    /\ IF blocked >= 3
       THEN /\ messages' = Front(messages)
            /\ pc' = "prompt"
       ELSE /\ pc' = IF pending = <<>> THEN "turn" ELSE "tools"
            /\ UNCHANGED messages
    /\ UNCHANGED <<own, turnCount, loop, issued, restored, done>>

LoopStep ==
    \/ StartTurn \/ ReceiveAnswer \/ ReceiveToolCalls \/ CheckpointCalls
    \/ RunTool \/ AppendResult \/ CheckpointResult

Next ==
    \/ Submit \/ LoopStep \/ LoopFails \/ TurnDone
    \/ Clear \/ Exit \/ Crash
    \/ \E s \in Session : Resume(s) \/ Start(s)

Spec == Init /\ [][Next]_vars

-----------------------------------------------------------------------------

Message == [role : {"user", "assistant", "tool"}, id : 0 .. MaxInputs + MaxCalls,
            calls : UNION {[1 .. n -> 1 .. MaxCalls] : n \in 0 .. MaxBatch},
            blocked : BOOLEAN]

\* Every variable has its type: the loop never counts past maxTurns, nor past a third
\* blocked output.
TypeOK ==
    /\ row \in [Session -> [messages : Seq(Message), turnCount : Nat, saved : BOOLEAN]]
    /\ own \in Session /\ pc \in InLoop \cup {"prompt", "down"}
    /\ messages \in Seq(Message) /\ working \in Seq(Message)
    /\ turnCount \in Nat /\ loopTurn \in 0 .. MaxTurns /\ blocked \in 0 .. 3
    /\ pending \in Seq(1 .. MaxCalls)
    /\ inputs \in 0 .. MaxInputs /\ calls \in 0 .. MaxCalls
    /\ restored \in 0 .. Len(messages) /\ done \subseteq 1 .. MaxInputs

\* The tool calls a transcript asks for, and those it has the result of.
Asked(transcript)    == UNION {ToSet(m.calls) : m \in ToSet(transcript)}
Answered(transcript) == {m.id : m \in {r \in ToSet(transcript) : r.role = "tool"}}

\* No tool runs before the response that asked for it is on disk, and what is on
\* disk is at most one tool result behind.  A process that dies while a tool runs
\* leaves a row that shows the call.
ToolCallsSavedFirst ==
    pc \in {"tools", "output", "result"} =>
        /\ Asked(working) \subseteq Asked(row[own].messages)
        /\ IsPrefix(row[own].messages, working)
        /\ Len(working) - Len(row[own].messages) = IF pc = "result" THEN 1 ELSE 0

\* The answer that ends a turn.
Final(m) == m = Answer(m.id)

\* After its first `from` messages a transcript is made of turns, each begun by the
\* user: a response that asks for tools is followed by the results in the order of the
\* calls, and there are no other results.
Turns(t, from) ==
    /\ Len(t) > from => t[from + 1].role = "user"
    /\ \A i \in from + 1 .. Len(t) - 1 : t[i + 1].role = "user" <=> Final(t[i])
    /\ \A i \in from + 1 .. Len(t) :
          \A k \in DOMAIN t[i].calls :
             /\ i + k <= Len(t)
             /\ t[i + k].role = "tool" /\ t[i + k].id = t[i].calls[k]
    /\ \A n \in from + 1 .. Len(t) :
          t[n].role = "tool" =>
             \E i \in from + 1 .. n - 1 :
                n - i \in DOMAIN t[i].calls /\ t[i].calls[n - i] = t[n].id

\* Turns that all have their answer.
CompleteTurns(t, from) == Turns(t, from) /\ (Len(t) > from => Final(t[Len(t)]))

\* Whatever went wrong on the way, the part of the conversation that this process
\* has lived through is made of whole turns when the prompt is back.
OnlyWholeTurns == pc = "prompt" => CompleteTurns(messages, restored)

\* A turn completed since the conversation was loaded is never more than a crash
\* away: the row of this process's session starts with all of it, at the prompt
\* and during the next turn.
CompletedTurnsAreSaved ==
    LET settled == IF pc = "prompt" THEN messages ELSE Front(messages)
    IN  pc # "down" /\ Len(settled) > restored => IsPrefix(settled, row[own].messages)

\* Among the messages after `from`: three tool results blocked in a row, with no other
\* result between them, and the last one or two that way.
ThreeBlocked(t, from) ==
    \E i, j, k \in from + 1 .. Len(t) :
       /\ i < j /\ j < k /\ t[i].role = "tool" /\ t[j].role = "tool" /\ t[k].role = "tool"
       /\ \A n \in i .. k : t[n].role = "tool" => t[n].blocked

LastTwoBlocked(t, from) ==
    \E i, j \in from + 1 .. Len(t) :
       /\ i < j /\ t[i].role = "tool" /\ t[j].role = "tool"
       /\ \A n \in i .. Len(t) : t[n].role = "tool" => t[n].blocked

LastBlocked(t, from) ==
    \E i \in from + 1 .. Len(t) :
       t[i].role = "tool" /\ \A n \in i .. Len(t) : t[n].role = "tool" => t[n].blocked

\* The model is never called again after three blocked tool outputs in a row,
\* whether they belong to one response or to several.
NoCallAfterThreeBlocked == pc = "llm" => ~ThreeBlocked(working, Len(messages))

\* What the recovery test says of a loop that dies in the middle of its tool
\* calls, that one can go on from what was saved: then no request to the model
\* holds a tool call without its result.  It does not hold: the row of a process
\* that died while a tool ran is loaded as it is.
RequestsAnswerToolCalls ==
    pc = "llm" => Asked(working) \subseteq Answered(working)

\* What the prompt says of a finished turn, that it is safe in the checkpoint:
\* it is in some row unless the user cleared it.  It does not hold: after /resume
\* the conversation that was left is still the one whose row is written.
CompletedTurnsAreKept ==
    pc # "answered" =>
        \A n \in done : \E s \in Session : Answer(n) \in ToSet(row[s].messages)

-----------------------------------------------------------------------------
(* What makes these inductive. *)

\* The loop works on the conversation and what it has added to it.
LoopGoesOn ==
    pc \in InLoop =>
        /\ Len(messages) > restored /\ IsPrefix(messages, working)
        /\ inputs > 0 /\ turnCount <= loopTurn

\* A turn of the loop has been counted before the model is called, a response has calls
\* left while tools run, the third blocked output ends the loop and an answer is saved.
StepsAreInOrder ==
    /\ pc \in InLoop \ {"turn"} => turnCount < loopTurn
    /\ pc \in {"calls", "tools", "output"} => pending # <<>>
    /\ pc \in {"turn", "llm", "calls", "tools"} => blocked <= 2
    /\ pc = "answered" => row[own].messages = working

\* The loop's copy with the results that its last response still lacks.
Due(transcript, calls_) == transcript \o [i \in DOMAIN calls_ |-> ToolResult(calls_[i], FALSE)]

\* The turn at work follows whole turns and is one itself as far as it has got.
TurnInOrder ==
    pc \in InLoop =>
        /\ CompleteTurns(Front(messages), restored)
        /\ Turns(Due(working, pending), restored)
        /\ pc \in {"turn", "llm", "answered"} => pending = <<>>
        /\ Final(Last(working)) <=> pc = "answered"

\* The counter knows the results blocked in a row; it counts one before it is in the
\* transcript.
BlockedAreCounted ==
    LET one   == LastBlocked(working, Len(messages))
        two   == LastTwoBlocked(working, Len(messages))
        three == ThreeBlocked(working, Len(messages))
    IN  /\ pc \in InLoop \ {"output"} =>
              (one => blocked >= 1) /\ (two => blocked >= 2) /\ (three => blocked >= 3)
        /\ pc = "output" =>
              (one => blocked # 1) /\ (two => blocked \notin {1, 2}) /\ ~three

CountsAreBounded ==
    turnCount <= MaxTurns /\ \A s \in Session : row[s].turnCount <= MaxTurns

IInv ==
    /\ TypeOK /\ LoopGoesOn /\ StepsAreInOrder /\ CountsAreBounded
    /\ ToolCallsSavedFirst /\ CompletedTurnsAreSaved

\* On top of which the turns are inductive, and the count of blocked results.
TurnsInv == OnlyWholeTurns /\ TurnInOrder

=============================================================================
