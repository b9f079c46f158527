------------------------------ MODULE StudyTurns ------------------------------
(***************************************************************************)
(* The study assistant of one user: conversations, their branches, and the *)
(* turns of the assistant (api/v1/auxilio.py, services/auxilio_service.py, *)
(* services/auxilio_agent.py, services/llm_client.py).                     *)
(*                                                                         *)
(* A turn is one POST /chat.  It stores the question, stores a run, streams*)
(* the events of at most MaxRounds calls of the model and of the tools they*)
(* ask for, and at the end stores the answer and the outcome of the run,   *)
(* each in a transaction of its own.  The stream can be left by the client,*)
(* and a statement can fail; after a rollback every row the session had    *)
(* loaded is expired, and reading one of them outside a statement raises.  *)
(*                                                                         *)
(* Renaming, archiving, branching and deletion are requests of two steps,  *)
(* what they read and what they write, and run beside the turns.           *)
(*                                                                         *)
(* A turn that has called the model has used one unit of tokens, whatever  *)
(* the number of its rounds.  Tools only read, and an exception of a tool  *)
(* becomes its result.                                                     *)
(***************************************************************************)
EXTENDS Integers, Sequences, FiniteSets

CONSTANTS
    Conversations, \* how many conversations there may be: ids are 1..Conversations
    Turn,          \* the requests to the assistant, each with its run
    Op,            \* the other requests
    MaxRounds,     \* MAX_TOOL_ROUNDS
    Budget         \* LLM_DAILY_BUDGET, in units of a turn; 0 is no limit

ASSUME StudyAssumption ==
    /\ Conversations \in Nat
    /\ MaxRounds \in Nat \ {0}
    /\ Budget \in Nat

Conv == 1..Conversations

Titles == {"new", "guessed", "chosen"}

\* A row of conversations; a branch has the conversation it was made from.
ConvRow ==
    [st : {"none", "open", "deleted"}, archived : BOOLEAN,
     parent : Conv \cup {0}, title : Titles]

\* A row of chat_messages: whose turn it is of, copies in branches included.
Message == [turn : Turn, role : {"user", "assistant"}]

\* The status of a row of agent_runs.
RunStatus == {"none", "running", "completed", "failed", "cancelled"}

\* What the generator of a turn yields, "raise" being an exception instead.
EventType ==
    {"delta", "tool_call", "tool_result", "usage", "error", "done", "titled", "raise"}

\* The state of one request to the assistant.
TurnState ==
    [pc : {"idle", "append", "start", "plan", "model", "closing", "store",
           "finish", "ended"},
     conv : Conv \cup {0},
     seen : Titles,          \* the title conv had when it was loaded
     round : 0..MaxRounds,   \* calls of the model made
     called : BOOLEAN,       \* the last call asked for tools
     wrote : BOOLEAN,        \* the last call wrote text
     queue : Seq(EventType), \* events not yet yielded
     said : BOOLEAN,         \* assistant_text is not empty
     titled : BOOLEAN,       \* new_title is set
     used : BOOLEAN,         \* usage is set
     status : RunStatus,     \* run_status
     expired : BOOLEAN,      \* the rows of the session are expired
     output : BOOLEAN]       \* output_message_id is set

\* The state of one other request: what it read of the conversations.
OpState ==
    [kind : {"none", "rename", "archive", "unarchive", "fork", "delete"},
     conv : Conv \cup {0}, targets : SUBSET Conv]

VARIABLES
    conv,    \* [Conv -> ConvRow], the table conversations
    msgs,    \* [Conv -> Seq(Message)], chat_messages in the order of their ids
    run,     \* [Turn -> RunStatus], agent_runs
    output,  \* [Turn -> BOOLEAN], agent_runs.output_message_id
    logged,  \* SUBSET Turn, the turns llm_usage_logs has a row of
    turn,    \* [Turn -> TurnState]
    op       \* [Op -> OpState]

rows == <<conv, msgs>>
vars == <<conv, msgs, run, output, logged, turn, op>>

IdleTurn ==
    [pc |-> "idle", conv |-> 0, seen |-> "new", round |-> 0, called |-> FALSE,
     wrote |-> FALSE, queue |-> <<>>, said |-> FALSE, titled |-> FALSE,
     used |-> FALSE, status |-> "none", expired |-> FALSE, output |-> FALSE]

IdleOp == [kind |-> "none", conv |-> 0, targets |-> {}]

NoConv == [st |-> "none", archived |-> FALSE, parent |-> 0, title |-> "new"]

Init ==
    /\ conv = [c \in Conv |-> NoConv]
    /\ msgs = [c \in Conv |-> <<>>]
    /\ run = [t \in Turn |-> "none"]
    /\ output = [t \in Turn |-> FALSE]
    /\ logged = {}
    /\ turn = [t \in Turn |-> IdleTurn]
    /\ op = [o \in Op |-> IdleOp]

-----------------------------------------------------------------------------
(* Conversations.                                                          *)

\* What the user's requests find: conversations that are not deleted.
Own(c) == conv[c].st = "open"

\* The id the next conversation gets.
NextId(c) == conv[c].st = "none" /\ \A d \in Conv : d < c => conv[d].st # "none"

Question(t) == [turn |-> t, role |-> "user"]
Answer(t) == [turn |-> t, role |-> "assistant"]

\* Mistake, for SerialTreeKept: only the branches made from c itself.
Children(c) == {d \in Conv : conv[d].parent = c}

\* The conversations below c, deleted ones included.
Below(c) ==
    LET under[d \in 0..Conversations] ==
          d # 0 /\ (conv[d].parent = c
                      \/ (conv[d].parent < d /\ under[conv[d].parent]))
    IN  {d \in Conv : under[d]}

\* A rename, an archiving or its reverse has loaded its conversation.
BeginUpdate(o, c, kind) ==
    /\ op[o] = IdleOp /\ Own(c)
    /\ kind \in {"rename", "archive", "unarchive"}
    /\ op' = [op EXCEPT ![o] = [IdleOp EXCEPT !.kind = kind, !.conv = c]]
    /\ UNCHANGED <<conv, msgs, run, output, logged, turn>>

CommitUpdate(o) ==
    /\ op[o].kind \in {"rename", "archive", "unarchive"}
    /\ conv' = [conv EXCEPT ![op[o].conv] =
                  IF op[o].kind = "rename"
                    THEN [@ EXCEPT !.title = "chosen"]
                    ELSE [@ EXCEPT !.archived = (op[o].kind = "archive")]]
    /\ op' = [op EXCEPT ![o] = IdleOp]
    /\ UNCHANGED <<msgs, run, output, logged, turn>>

\* A request to branch off c has loaded it.
BeginFork(o, c) ==
    /\ op[o] = IdleOp /\ Own(c)
    /\ op' = [op EXCEPT ![o] = [IdleOp EXCEPT !.kind = "fork", !.conv = c]]
    /\ UNCHANGED <<conv, msgs, run, output, logged, turn>>

\* Mistake, for QuestionsFirst: the messages from the one the branch starts from.
CopiedFrom(c, upto) == SubSeq(msgs[c], upto, Len(msgs[c]))

\* The messages of c up to the one the branch starts from.
Copied(c, upto) == SubSeq(msgs[c], 1, upto)

\* The branch is made under a lock of its source, which is not checked again: from
\* the messages it has by now, up to the one the request names or to the last.
CommitFork(o, b) ==
    LET c == op[o].conv IN
    /\ op[o].kind = "fork" /\ NextId(b)
    /\ conv' = [conv EXCEPT ![b] =
                  [st |-> "open", archived |-> FALSE, parent |-> c, title |-> "chosen"]]
    /\ \E upto \in 1..Len(msgs[c]) : msgs' = [msgs EXCEPT ![b] = Copied(c, upto)]
    /\ op' = [op EXCEPT ![o] = IdleOp]
    /\ UNCHANGED <<run, output, logged, turn>>

\* A deletion has loaded the user's conversations: without cascade it refuses
\* a conversation with a branch that is not deleted, with it the branches go too.
BeginDelete(o, c, cascade) ==
    /\ op[o] = IdleOp /\ Own(c)
    /\ cascade \/ \A d \in Below(c) : conv[d].st = "deleted"
    /\ op' = [op EXCEPT ![o] =
                [IdleOp EXCEPT !.kind = "delete", !.conv = c,
                               !.targets = {c} \cup
                                 {d \in Below(c) : cascade /\ conv[d].st = "open"}]]
    /\ UNCHANGED <<conv, msgs, run, output, logged, turn>>

CommitDelete(o) ==
    /\ op[o].kind = "delete"
    /\ conv' = [c \in Conv |->
                  IF c \in op[o].targets
                    THEN [conv[c] EXCEPT !.st = "deleted", !.archived = TRUE]
                    ELSE conv[c]]
    /\ op' = [op EXCEPT ![o] = IdleOp]
    /\ UNCHANGED <<msgs, run, output, logged, turn>>

-----------------------------------------------------------------------------
(* The question and the run.                                               *)

\* A turn in an existing conversation, which must not be archived.
Ask(t, c) ==
    /\ turn[t].pc = "idle" /\ Own(c) /\ ~conv[c].archived
    /\ turn' = [turn EXCEPT ![t] = [@ EXCEPT !.pc = "append", !.conv = c,
                                             !.seen = conv[c].title]]
    /\ UNCHANGED <<conv, msgs, run, output, logged, op>>

\* append_user_message.
AppendQuestion(t) ==
    /\ turn[t].pc = "append"
    /\ msgs' = [msgs EXCEPT ![turn[t].conv] = Append(@, Question(t))]
    /\ turn' = [turn EXCEPT ![t].pc = "start"]
    /\ UNCHANGED <<conv, run, output, logged, op>>

\* A turn in a conversation of its own, stored with the question.
AskNew(t, c) ==
    /\ turn[t].pc = "idle" /\ NextId(c)
    /\ conv' = [conv EXCEPT ![c] = [NoConv EXCEPT !.st = "open"]]
    /\ msgs' = [msgs EXCEPT ![c] = <<Question(t)>>]
    /\ turn' = [turn EXCEPT ![t] = [@ EXCEPT !.pc = "start", !.conv = c]]
    /\ UNCHANGED <<run, output, logged, op>>

\* create_agent_run.
Start(t) ==
    /\ turn[t].pc = "start"
    /\ run' = [run EXCEPT ![t] = "running"]
    /\ turn' = [turn EXCEPT ![t] = [@ EXCEPT !.pc = "plan", !.status = "completed"]]
    /\ UNCHANGED <<conv, msgs, output, logged, op>>

-----------------------------------------------------------------------------
(* The stream: run_chat and stream_chat.                                   *)

\* What llm_usage_today_tokens sums.
BudgetLeft == Budget = 0 \/ Cardinality(logged) < Budget

\* Without a model, or over the budget, a fixed text is all there is to say.  The
\* profile, the settings of the user or the check of the budget may raise instead.
Plan(t) ==
    /\ turn[t].pc = "plan"
    /\ \/ BudgetLeft /\ turn' = [turn EXCEPT ![t].pc = "model"]
       \/ turn' = [turn EXCEPT ![t] = [@ EXCEPT !.pc = "closing", !.queue = <<"delta", "done">>]]
       \/ turn' = [turn EXCEPT ![t] = [@ EXCEPT !.pc = "store", !.status = "failed"]]
    /\ UNCHANGED <<conv, msgs, run, output, logged, op>>

\* The loop goes on while the model asks for tools.
MoreRounds(t) == turn[t].called /\ turn[t].round < MaxRounds

\* What run_chat passes on of what the client of the model streams.
Forwarded(event) == IF event \in {"delta", "error"} THEN <<event>> ELSE <<>>

\* The events of one call of the model: text or none, then how the call ends,
\* with what it used; after it, those of the tools it asks for.
Heard(wrote, end) ==
    (IF wrote THEN Forwarded("delta") ELSE <<>>)
      \o (CASE end = "calls" -> Forwarded("usage") \o <<"tool_call", "tool_result">>
            [] end = "stop"  -> Forwarded("usage")
            [] end = "error" -> Forwarded("error")
            [] end = "raise" -> <<"raise">>)

\* One call of the model, and the tools it asks for.
Round(t) ==
    /\ turn[t].pc = "model" /\ turn[t].queue = <<>>
    /\ turn[t].round = 0 \/ MoreRounds(t)
    /\ \E wrote \in BOOLEAN, end \in {"calls", "stop", "error", "raise"} :
         turn' = [turn EXCEPT ![t] =
                    [@ EXCEPT !.round = turn[t].round + 1, !.called = (end = "calls"), !.wrote = wrote,
                              !.queue = Heard(wrote, end),
                              !.pc = IF end = "error" THEN "closing" ELSE "model"]]
    /\ UNCHANGED <<conv, msgs, run, output, logged, op>>

\* The loop is over: a sentence if the last round wrote none, and the title.
Close(t) ==
    /\ turn[t].pc = "model" /\ turn[t].queue = <<>>
    /\ turn[t].round > 0 /\ ~MoreRounds(t)
    /\ turn' = [turn EXCEPT ![t] =
                  [@ EXCEPT !.pc = "closing",
                            !.queue = IF turn[t].called /\ ~turn[t].wrote
                                        THEN <<"delta", "titled">> ELSE <<"titled">>]]
    /\ UNCHANGED <<conv, msgs, run, output, logged, op>>

\* What the route notes of an event.
Noted(ts, event) ==
    [ts EXCEPT !.said = @ \/ event = "delta",
               !.titled = @ \/ event = "titled",
               !.used = @ \/ event = "usage",
               !.status = IF event = "error" THEN "failed" ELSE @]

\* The next event is stored and sent.
Emit(t) ==
    /\ turn[t].queue # <<>> /\ Head(turn[t].queue) # "raise"
    /\ turn' = [turn EXCEPT ![t] =
                  [Noted(@, Head(turn[t].queue)) EXCEPT !.queue = Tail(turn[t].queue)]]
    /\ UNCHANGED <<conv, msgs, run, output, logged, op>>

\* The generator raises, and the stream ends with an error.
Raise(t) ==
    /\ turn[t].queue # <<>> /\ Head(turn[t].queue) = "raise"
    /\ turn' = [turn EXCEPT ![t] =
                  [@ EXCEPT !.queue = <<>>, !.status = "failed", !.pc = "store"]]
    /\ UNCHANGED <<conv, msgs, run, output, logged, op>>

\* Storing an event fails.  After the rollback the warning reads run.id, which
\* raises, and the stream ends with an error.
LoseEvent(t) ==
    /\ turn[t].queue # <<>> /\ Head(turn[t].queue) # "raise"
    /\ turn' = [turn EXCEPT ![t] =
                  [@ EXCEPT !.queue = <<>>, !.status = "failed", !.pc = "store",
                            !.expired = TRUE]]
    /\ UNCHANGED <<conv, msgs, run, output, logged, op>>

\* The stream is at its end.
EndStream(t) ==
    /\ turn[t].pc = "closing" /\ turn[t].queue = <<>>
    /\ turn' = [turn EXCEPT ![t].pc = "store"]
    /\ UNCHANGED <<conv, msgs, run, output, logged, op>>

Streaming(t) == turn[t].pc \in {"plan", "model", "closing"}

\* The client goes away: the task is cancelled where it waits, or the generator
\* is closed where it has just yielded.
Leave(t) ==
    /\ Streaming(t)
    /\ \E status \in {"cancelled", turn[t].status} :
         turn' = [turn EXCEPT ![t] =
                    [@ EXCEPT !.queue = <<>>, !.pc = "store", !.status = status]]
    /\ UNCHANGED <<conv, msgs, run, output, logged, op>>

\* The worker stops, or a cancellation is delivered again while the turn waits
\* in its last statements.
Cut(t) ==
    /\ turn[t].pc \notin {"idle", "ended"}
    /\ turn' = [turn EXCEPT ![t] = [@ EXCEPT !.pc = "ended", !.queue = <<>>]]
    /\ UNCHANGED <<conv, msgs, run, output, logged, op>>

-----------------------------------------------------------------------------
(* The end of the turn: usage, answer, outcome.                            *)

\* The title the answer's transaction writes: the guess, if the conversation
\* had none when the turn loaded it.
TitleWritten(t) ==
    IF turn[t].titled /\ turn[t].seen = "new" THEN "guessed" ELSE conv[turn[t].conv].title

\* persist_assistant_message, after the row of llm_usage_logs.  The rows of a
\* session that was rolled back cannot be read: with text there is then no
\* answer, and no outcome either.
Store(t) ==
    /\ turn[t].pc = "store"
    /\ logged' = IF turn[t].used THEN logged \cup {t} ELSE logged
    /\ IF turn[t].said /\ turn[t].expired
         THEN /\ turn' = [turn EXCEPT ![t].pc = "ended"]
              /\ UNCHANGED rows
         ELSE /\ msgs' = [msgs EXCEPT ![turn[t].conv] =
                            IF turn[t].said THEN Append(@, Answer(t)) ELSE @]
              /\ conv' = [conv EXCEPT ![turn[t].conv].title = TitleWritten(t)]
              /\ turn' = [turn EXCEPT ![t] =
                            [@ EXCEPT !.pc = "finish", !.output = turn[t].said]]
    /\ UNCHANGED <<run, output, op>>

\* Mistake, for RunsHonest: the turn goes on as if the answer were stored.
StoreFailsQuietly(t) ==
    /\ turn[t].pc = "store"
    /\ logged' = IF turn[t].used THEN logged \cup {t} ELSE logged
    /\ turn' = [turn EXCEPT ![t].pc = "finish"]
    /\ UNCHANGED <<conv, msgs, run, output, op>>

\* The transaction fails, and so does the warning, which reads conv.id.
StoreFails(t) ==
    /\ turn[t].pc = "store"
    /\ logged' = IF turn[t].used THEN logged \cup {t} ELSE logged
    /\ turn' = [turn EXCEPT ![t].pc = "ended"]
    /\ UNCHANGED <<conv, msgs, run, output, op>>

\* Mistake, for RunsEnd: the outcome is set and not committed.
FinishUncommitted(t) ==
    /\ turn[t].pc = "finish"
    /\ turn' = [turn EXCEPT ![t].pc = "ended"]
    /\ UNCHANGED <<conv, msgs, run, output, logged, op>>

\* finish_agent_run.
Finish(t) ==
    /\ turn[t].pc = "finish"
    /\ run' = [run EXCEPT ![t] = turn[t].status]
    /\ output' = [output EXCEPT ![t] = turn[t].output]
    /\ turn' = [turn EXCEPT ![t].pc = "ended"]
    /\ UNCHANGED <<conv, msgs, logged, op>>

FinishFails(t) ==
    /\ turn[t].pc = "finish"
    /\ turn' = [turn EXCEPT ![t].pc = "ended"]
    /\ UNCHANGED <<conv, msgs, run, output, logged, op>>

-----------------------------------------------------------------------------
\* What the server does of itself for a turn under way.
Step(t) ==
    \/ AppendQuestion(t) \/ Start(t) \/ Plan(t) \/ Round(t) \/ Close(t)
    \/ Emit(t) \/ Raise(t) \/ EndStream(t) \/ Store(t) \/ Finish(t)

\* What goes wrong in a turn.
Fault(t) == LoseEvent(t) \/ Leave(t) \/ Cut(t) \/ StoreFails(t) \/ FinishFails(t)

Begin(o) ==
    \E c \in Conv :
      \/ \E kind \in {"rename", "archive", "unarchive"} : BeginUpdate(o, c, kind)
      \/ BeginFork(o, c)
      \/ \E cascade \in BOOLEAN : BeginDelete(o, c, cascade)

Commit(o) == CommitUpdate(o) \/ CommitDelete(o) \/ \E b \in Conv : CommitFork(o, b)

Next ==
    \/ \E t \in Turn :
         \/ Step(t) \/ Fault(t)
         \/ \E c \in Conv : Ask(t, c) \/ AskNew(t, c)
    \/ \E o \in Op : Begin(o) \/ Commit(o)

Fairness == \A t \in Turn : WF_vars(Step(t))

Spec == Init /\ [][Next]_vars /\ Fairness

-----------------------------------------------------------------------------
TypeOK ==
    /\ conv \in [Conv -> ConvRow]
    /\ msgs \in [Conv -> Seq(Message)]
    /\ run \in [Turn -> RunStatus]
    /\ output \in [Turn -> BOOLEAN]
    /\ logged \in SUBSET Turn
    /\ turn \in [Turn -> TurnState]
    /\ op \in [Op -> OpState]

Has(s, m) == \E i \in 1..Len(s) : s[i] = m

InOrder(s) ==
    \A i \in 1..Len(s) :
      s[i].role = "assistant" => \E j \in 1..(i - 1) : s[j] = Question(s[i].turn)

\* A run that is recorded as completed is honest: if its turn sent text to the
\* user, the answer is stored in the turn's conversation and the run names it.
\* persist_assistant_message and finish_agent_run are separate transactions, and
\* either can fail after the text was sent.
RunsHonest ==
    \A t \in Turn :
      run[t] = "completed" /\ turn[t].said =>
        output[t] /\ Has(msgs[turn[t].conv], Answer(t))

\* A message of the assistant never stands before the question it answers, in
\* the conversation it was given in and in every branch copied from it.
QuestionsFirst == \A c \in Conv : InOrder(msgs[c])

\* Events wait for the client only while the stream runs.
Queued == \A t \in Turn : turn[t].queue # <<>> => turn[t].pc \in {"model", "closing"}

\* What makes the two inductive.  A conversation that does not exist has no
\* messages, and a turn under way is in one that does.
RowsExist ==
    /\ \A c \in Conv : conv[c].st = "none" => msgs[c] = <<>>
    /\ \A t \in Turn : turn[t].pc # "idle" =>
         turn[t].conv \in Conv /\ conv[turn[t].conv].st # "none"

\* What the other requests have read is still there.
OpsKnown ==
    \A o \in Op :
      /\ \A c \in op[o].targets : conv[c].st # "none"
      /\ op[o].kind = "fork" =>
           op[o].conv \in Conv /\ conv[op[o].conv].st # "none"

\* The conversation of a turn under way holds its question, and its answer once
\* that is stored.
Asked ==
    \A t \in Turn :
      turn[t].pc \notin {"idle", "append", "ended"} =>
        Has(msgs[turn[t].conv], Question(t))

Answered ==
    \A t \in Turn :
      turn[t].pc = "finish" /\ turn[t].said =>
        turn[t].output /\ Has(msgs[turn[t].conv], Answer(t))

\* A run is completed by the end of its turn only.
CompletedEnded == \A t \in Turn : run[t] = "completed" => turn[t].pc = "ended"

IInv ==
    /\ TypeOK
    /\ Queued
    /\ RowsExist
    /\ OpsKnown
    /\ QuestionsFirst
    /\ Asked
    /\ Answered
    /\ CompletedEnded
    /\ RunsHonest
=============================================================================
