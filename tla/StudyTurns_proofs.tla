--------------------------- MODULE StudyTurns_proofs ---------------------------
(***************************************************************************)
(* Proofs about the study assistant.  For the turns alone (Spec): a run     *)
(* recorded as completed is honest, and questions stand before answers.     *)
(* For the turns, the other requests and the inbox together (ServiceSpec):*)
(* no conversation is left below a deleted one, suggestions keep their      *)
(* cooldown, and what is answered stays answered.                           *)
(***************************************************************************)
EXTENDS MCAssistant, FiniteSetTheorems, TLAPS

\* What appending a message does to a conversation.
LEMMA AppendIs ==
  ASSUME NEW s \in Seq(Message), NEW m \in Message
  PROVE  /\ Append(s, m) \in Seq(Message)
         /\ Len(Append(s, m)) = Len(s) + 1
         /\ \A i \in 1..Len(s) : Append(s, m)[i] = s[i]
         /\ Append(s, m)[Len(s) + 1] = m
  OBVIOUS

\* Appending keeps what was there and adds one.
LEMMA AppendHas ==
  ASSUME NEW s \in Seq(Message), NEW m \in Message
  PROVE  /\ Has(Append(s, m), m)
         /\ \A n \in Message : Has(s, n) => Has(Append(s, m), n)
<1>1. Len(s) \in Nat
  OBVIOUS
<1> QED
  BY <1>1, AppendIs DEF Has

\* A question may be appended to a conversation in order, an answer if its
\* question is there.
LEMMA AppendInOrder ==
  ASSUME NEW s \in Seq(Message), InOrder(s), NEW m \in Message,
         m.role = "assistant" => Has(s, Question(m.turn))
  PROVE  InOrder(Append(s, m))
<1> DEFINE r == Append(s, m)
<1>1. Len(s) \in Nat
  OBVIOUS
<1>2. ASSUME NEW i \in 1..Len(r), r[i].role = "assistant"
      PROVE  \E j \in 1..(i - 1) : r[j] = Question(r[i].turn)
  <2>1. CASE i \in 1..Len(s)
    <3>1. r[i] = s[i]
      BY <2>1, AppendIs
    <3>2. PICK j \in 1..(i - 1) : s[j] = Question(s[i].turn)
      BY <1>2, <2>1, <3>1 DEF InOrder
    <3>3. j \in 1..Len(s)
      BY <1>1, <2>1
    <3>4. r[j] = s[j]
      BY <3>3, AppendIs
    <3> QED
      BY <3>1, <3>2, <3>4
  <2>2. CASE i = Len(s) + 1
    <3>1. r[i] = m
      BY <2>2, AppendIs
    <3>2. PICK j \in 1..Len(s) : s[j] = Question(m.turn)
      BY <1>2, <3>1 DEF Has
    <3>3. r[j] = s[j]
      BY AppendIs
    <3>4. j \in 1..(i - 1)
      BY <1>1, <2>2
    <3> QED
      BY <3>1, <3>2, <3>3, <3>4
  <2>3. i \in 1..Len(s) \/ i = Len(s) + 1
    BY <1>1, AppendIs
  <2> QED
    BY <2>1, <2>2, <2>3
<1> QED
  BY <1>2 DEF InOrder

\* A branch is in order if its source is.
LEMMA CopiedInOrder ==
  ASSUME NEW s \in Seq(Message), InOrder(s), NEW n \in 1..Len(s)
  PROVE  /\ SubSeq(s, 1, n) \in Seq(Message)
         /\ InOrder(SubSeq(s, 1, n))
<1> DEFINE r == SubSeq(s, 1, n)
<1>1. Len(s) \in Nat /\ n \in Nat
  OBVIOUS
<1>2. r \in Seq(Message) /\ Len(r) = n /\ \A i \in 1..n : r[i] = s[i]
  BY <1>1
<1>3. ASSUME NEW i \in 1..n, r[i].role = "assistant"
      PROVE  \E j \in 1..(i - 1) : r[j] = Question(r[i].turn)
  <2>1. i \in 1..Len(s) /\ r[i] = s[i]
    BY <1>1, <1>2
  <2>2. PICK j \in 1..(i - 1) : s[j] = Question(s[i].turn)
    BY <1>3, <2>1 DEF InOrder
  <2>3. j \in 1..n
    BY <1>1
  <2>4. r[j] = s[j]
    BY <1>2, <2>3
  <2> QED
    BY <2>1, <2>2, <2>4
<1> QED
  BY <1>2, <1>3 DEF InOrder

LEMMA MessagesOf ==
  ASSUME NEW t \in Turn
  PROVE  /\ Question(t) \in Message /\ Question(t).role = "user"
         /\ Answer(t) \in Message /\ Answer(t).role = "assistant" /\ Answer(t).turn = t
  BY DEF Question, Answer, Message

-----------------------------------------------------------------------------

\* The invariant holds before the first question.
LEMMA InitIInv == Init => IInv
<1> SUFFICES ASSUME Init PROVE IInv
  OBVIOUS
<1>1. IdleTurn \in TurnState /\ IdleTurn.pc = "idle" /\ IdleTurn.queue = <<>>
  BY StudyAssumption DEF IdleTurn, TurnState, Titles, RunStatus
<1>2. IdleOp \in OpState /\ NoConv \in ConvRow
  BY StudyAssumption DEF IdleOp, OpState, NoConv, ConvRow, Titles
<1>3. TypeOK
  BY <1>1, <1>2 DEF Init, TypeOK, RunStatus
<1>4. Queued /\ RowsExist /\ Asked /\ Answered /\ CompletedEnded /\ RunsHonest
  BY <1>1 DEF Init, Queued, RowsExist, Asked, Answered, CompletedEnded, RunsHonest
<1>5. QuestionsFirst /\ OpsKnown
  BY DEF Init, QuestionsFirst, InOrder, OpsKnown, IdleOp
<1> QED
  BY <1>3, <1>4, <1>5 DEF IInv

-----------------------------------------------------------------------------
\* A step of a turn that writes no row of its conversation or of its run.
LEMMA TurnStep ==
  ASSUME IInv, NEW t \in Turn, NEW ts \in TurnState,
         turn' = [turn EXCEPT ![t] = ts],
         UNCHANGED <<conv, msgs, run, output, op>>, logged' \in SUBSET Turn,
         turn[t].pc # "ended", ts.pc # "idle",
         ts.conv \in Conv, conv[ts.conv].st # "none",
         ts.queue # <<>> => ts.pc \in {"model", "closing"},
         \/ ts.pc \in {"append", "ended"}
         \/ /\ turn[t].pc \notin {"idle", "append", "ended"}
            /\ ts.pc # "finish" /\ ts.conv = turn[t].conv
  PROVE  IInv'
<1> USE DEF IInv
<1>1. turn \in [Turn -> TurnState]
  BY DEF TypeOK
<1>2. turn'[t] = ts /\ \A u \in Turn : u # t => turn'[u] = turn[u]
  BY <1>1
<1>3. TypeOK'
  BY <1>1 DEF TypeOK
<1>4. RowsExist' /\ Queued'
  BY <1>2 DEF RowsExist, Queued
<1>5. QuestionsFirst' /\ OpsKnown'
  BY DEF QuestionsFirst, OpsKnown
<1>6. Asked'
  BY <1>2 DEF Asked
<1>7. Answered'
  BY <1>2 DEF Answered
<1>8. CompletedEnded'
  BY <1>2 DEF CompletedEnded
<1>9. RunsHonest'
  BY <1>2, <1>8 DEF RunsHonest, CompletedEnded
<1> QED
  BY <1>3, <1>4, <1>5, <1>6, <1>7, <1>8, <1>9

\* Each action keeps the invariant of turns and requests.
LEMMA AskStep ==
  ASSUME IInv, NEW t \in Turn, NEW c \in Conv, Ask(t, c)
  PROVE  IInv'
<1> DEFINE ts == [turn[t] EXCEPT !.pc = "append", !.conv = c, !.seen = conv[c].title]
<1>1. turn[t] \in TurnState /\ conv[c].title \in Titles
  BY DEF IInv, TypeOK, ConvRow
<1>2. turn' = [turn EXCEPT ![t] = ts] /\ turn[t].pc = "idle" /\ conv[c].st = "open"
  BY DEF Ask, Own
<1>3. ts \in TurnState /\ ts.pc = "append" /\ ts.conv = c /\ ts.queue = <<>>
  BY <1>1, <1>2 DEF TurnState, IInv, Queued
<1> HIDE DEF ts
<1> QED
  BY <1>2, <1>3, TurnStep DEF Ask, IInv, TypeOK

\* The steps of the stream.
LEMMA HeardTyped ==
  ASSUME NEW wrote \in BOOLEAN, NEW end \in {"calls", "stop", "error", "raise"}
  PROVE  Heard(wrote, end) \in Seq(EventType)
<1>1. Forwarded("delta") \in Seq(EventType) /\ Forwarded("usage") \in Seq(EventType)
        /\ Forwarded("error") \in Seq(EventType)
  BY DEF Forwarded, EventType
<1>2. <<"tool_call", "tool_result">> \in Seq(EventType) /\ <<"raise">> \in Seq(EventType)
        /\ <<>> \in Seq(EventType)
  BY DEF EventType
<1>3. (IF wrote THEN Forwarded("delta") ELSE <<>>) \in Seq(EventType)
  BY <1>1, <1>2
<1>4. (CASE end = "calls" -> Forwarded("usage") \o <<"tool_call", "tool_result">>
         [] end = "stop"  -> Forwarded("usage")
         [] end = "error" -> Forwarded("error")
         [] end = "raise" -> <<"raise">>) \in Seq(EventType)
  <2>1. Forwarded("usage") \o <<"tool_call", "tool_result">> \in Seq(EventType)
    BY <1>1, <1>2
  <2> QED
    BY <1>1, <1>2, <2>1
<1> HIDE DEF Forwarded
<1> QED
  BY <1>3, <1>4 DEF Heard

LEMMA QueueTyped ==
  /\ <<>> \in Seq(EventType)
  /\ <<"titled">> \in Seq(EventType)
  /\ <<"delta", "titled">> \in Seq(EventType)
  /\ <<"delta", "done">> \in Seq(EventType)
  BY DEF EventType

LEMMA NotedIs ==
  ASSUME NEW ts \in TurnState, NEW e
  PROVE  /\ Noted(ts, e) \in TurnState
         /\ Noted(ts, e).queue = ts.queue
         /\ Noted(ts, e).pc = ts.pc
         /\ Noted(ts, e).conv = ts.conv
<1> DEFINE a == ts.said \/ e = "delta"
           b == ts.titled \/ e = "titled"
           c == ts.used \/ e = "usage"
           d == IF e = "error" THEN "failed" ELSE ts.status
<1>1. a \in BOOLEAN /\ b \in BOOLEAN /\ c \in BOOLEAN
  OBVIOUS
<1>2. d \in RunStatus
  BY DEF TurnState, RunStatus
<1>3. Noted(ts, e) = [ts EXCEPT !.said = a, !.titled = b, !.used = c, !.status = d]
  BY DEF Noted
<1> HIDE DEF a, b, c, d
<1> DEFINE r == [ts EXCEPT !.said = a, !.titled = b, !.used = c, !.status = d]
<1>4. r \in TurnState
  BY <1>1, <1>2 DEF TurnState
<1>5. r.queue = ts.queue /\ r.pc = ts.pc /\ r.conv = ts.conv
  BY DEF TurnState
<1> HIDE DEF r
<1> QED
  BY <1>3, <1>4, <1>5 DEF r

LEMMA StreamStep ==
  ASSUME IInv, NEW t \in Turn,
         \/ Plan(t) \/ Round(t) \/ Close(t) \/ Emit(t) \/ Raise(t)
         \/ LoseEvent(t) \/ EndStream(t) \/ Leave(t)
  PROVE  IInv'
<1>1. turn[t] \in TurnState /\ turn \in [Turn -> TurnState] /\ logged \in SUBSET Turn
  BY DEF IInv, TypeOK
<1>2. ASSUME NEW ts \in TurnState, turn' = [turn EXCEPT ![t] = ts],
             UNCHANGED <<conv, msgs, run, output, logged, op>>,
             turn[t].pc \in {"plan", "model", "closing"},
             ts.pc \in {"model", "closing", "store"},
             ts.pc = "store" => ts.queue = <<>>,
             ts.conv = turn[t].conv
      PROVE  IInv'
  BY <1>1, <1>2, TurnStep DEF IInv, RowsExist
<1>3. CASE Plan(t)
  <2>1. PICK ts : /\ turn' = [turn EXCEPT ![t] = ts]
                  /\ \/ ts = [turn[t] EXCEPT !.pc = "model"]
                     \/ ts = [turn[t] EXCEPT !.pc = "closing", !.queue = <<"delta", "done">>]
                     \/ ts = [turn[t] EXCEPT !.pc = "store", !.status = "failed"]
    BY <1>1, <1>3 DEF Plan
  <2>2. <<"delta", "done">> \in Seq(EventType) /\ "failed" \in RunStatus
    BY DEF EventType, RunStatus
  <2>3. turn[t].pc = "plan" /\ turn[t].queue = <<>> /\ UNCHANGED <<conv, msgs, run, output, logged, op>>
    BY <1>3 DEF Plan, IInv, Queued
  <2>4. ts \in TurnState
    <3>1. [turn[t] EXCEPT !.pc = "model"] \in TurnState
      BY <1>1 DEF TurnState
    <3>2. [turn[t] EXCEPT !.pc = "closing", !.queue = <<"delta", "done">>] \in TurnState
      BY <1>1, <2>2 DEF TurnState
    <3>3. [turn[t] EXCEPT !.pc = "store", !.status = "failed"] \in TurnState
      BY <1>1, <2>2 DEF TurnState
    <3> QED
      BY <2>1, <3>1, <3>2, <3>3
  <2>5. ts.pc \in {"model", "closing", "store"} /\ ts.conv = turn[t].conv /\ (ts.pc = "store" => ts.queue = <<>>)
    BY <1>1, <2>1, <2>3 DEF TurnState
  <2> QED
    BY <1>2, <2>1, <2>3, <2>4, <2>5
<1>4. CASE Round(t)
  <2>1. PICK wrote \in BOOLEAN, end \in {"calls", "stop", "error", "raise"} :
         turn' = [turn EXCEPT ![t] =
                    [@ EXCEPT !.round = turn[t].round + 1, !.called = (end = "calls"),
                              !.wrote = wrote,
                              !.queue = Heard(wrote, end),
                              !.pc = IF end = "error" THEN "closing" ELSE "model"]]
    BY <1>4 DEF Round
  <2> DEFINE ts == [turn[t] EXCEPT !.round = turn[t].round + 1, !.called = (end = "calls"),
                                   !.wrote = wrote, !.queue = Heard(wrote, end),
                                   !.pc = IF end = "error" THEN "closing" ELSE "model"]
  <2>0. turn[t].round \in 0..MaxRounds
    BY <1>1 DEF TurnState
  <2>00. turn[t].round = 0 \/ turn[t].round < MaxRounds
    BY <1>4 DEF Round, MoreRounds
  <2>2. turn[t].round + 1 \in 0..MaxRounds
    BY <2>0, <2>00, StudyAssumption
  <2>3. Heard(wrote, end) \in Seq(EventType) /\ (end = "calls") \in BOOLEAN
    BY HeardTyped
  <2>4. ts \in TurnState /\ ts.pc \in {"model", "closing"} /\ ts.conv = turn[t].conv
    BY ZenonT(40), <1>1, <2>2, <2>3 DEF TurnState
  <2>5. turn' = [turn EXCEPT ![t] = ts]
    BY <1>1, <2>1
  <2>9. turn[t].pc \in {"plan", "model", "closing"} /\ UNCHANGED <<conv, msgs, run, output, logged, op>>
    BY <1>4 DEF Round
  <2> HIDE DEF ts
  <2> QED
    BY <1>2, <2>4, <2>5, <2>9
<1>5. CASE Close(t)
  <2> DEFINE q == IF turn[t].called /\ ~turn[t].wrote THEN <<"delta", "titled">> ELSE <<"titled">>
             ts == [turn[t] EXCEPT !.pc = "closing", !.queue = q]
  <2>1. q \in Seq(EventType)
    BY QueueTyped
  <2>2. ts \in TurnState /\ ts.pc = "closing" /\ ts.conv = turn[t].conv
    BY <1>1, <2>1 DEF TurnState
  <2>3. turn' = [turn EXCEPT ![t] = ts]
    BY <1>1, <1>5 DEF Close
  <2>9. turn[t].pc \in {"plan", "model", "closing"} /\ UNCHANGED <<conv, msgs, run, output, logged, op>>
    BY <1>5 DEF Close
  <2> HIDE DEF ts
  <2> QED
    BY <1>2, <2>2, <2>3, <2>9
<1>6. CASE Emit(t)
  <2> DEFINE n == Noted(turn[t], Head(turn[t].queue))
             ts == [n EXCEPT !.queue = Tail(turn[t].queue)]
  <2>1. /\ turn[t].queue \in Seq(EventType) /\ turn[t].queue # <<>>
        /\ turn[t].pc \in {"model", "closing"}
    BY <1>1, <1>6 DEF Emit, TurnState, IInv, Queued
  <2>2. Tail(turn[t].queue) \in Seq(EventType)
    BY <2>1
  <2>3. n \in TurnState /\ n.queue = turn[t].queue /\ n.pc = turn[t].pc /\ n.conv = turn[t].conv
    BY <1>1, NotedIs
  <2> HIDE DEF n
  <2>4. ts \in TurnState /\ ts.pc = turn[t].pc /\ ts.conv = turn[t].conv
    BY <2>2, <2>3 DEF TurnState
  <2>5. turn' = [turn EXCEPT ![t] = ts]
    BY <1>1, <1>6 DEF Emit, n
  <2>9. turn[t].pc \in {"plan", "model", "closing"} /\ UNCHANGED <<conv, msgs, run, output, logged, op>>
    BY <1>6, <2>1 DEF Emit
  <2> HIDE DEF ts
  <2>6. turn[t].pc \in {"model", "closing"}
    BY <2>1
  <2> QED
    BY <1>2, <2>4, <2>5, <2>6, <2>9
<1>7. CASE Raise(t)
  <2> DEFINE ts == [turn[t] EXCEPT !.queue = <<>>, !.status = "failed", !.pc = "store"]
  <2>1. ts \in TurnState /\ ts.pc = "store" /\ ts.queue = <<>> /\ ts.conv = turn[t].conv
    BY <1>1, QueueTyped DEF TurnState, RunStatus
  <2>2. turn' = [turn EXCEPT ![t] = ts] /\ turn[t].queue # <<>>
    BY <1>1, <1>7 DEF Raise
  <2> HIDE DEF ts
  <2> QED
    BY <1>2, <1>7, <2>1, <2>2 DEF Raise, IInv, Queued
<1>8. CASE LoseEvent(t)
  <2> DEFINE ts == [turn[t] EXCEPT !.queue = <<>>, !.status = "failed", !.pc = "store",
                                   !.expired = TRUE]
  <2>1. ts \in TurnState /\ ts.pc = "store" /\ ts.queue = <<>> /\ ts.conv = turn[t].conv
    BY <1>1, QueueTyped DEF TurnState, RunStatus
  <2>2. turn' = [turn EXCEPT ![t] = ts] /\ turn[t].queue # <<>>
    BY <1>1, <1>8 DEF LoseEvent
  <2> HIDE DEF ts
  <2> QED
    BY <1>2, <1>8, <2>1, <2>2 DEF LoseEvent, IInv, Queued
<1>9. CASE EndStream(t)
  <2> DEFINE ts == [turn[t] EXCEPT !.pc = "store"]
  <2>1. ts \in TurnState /\ ts.pc = "store" /\ ts.queue = <<>> /\ ts.conv = turn[t].conv
    BY <1>1, <1>9 DEF TurnState, EndStream
  <2>2. turn' = [turn EXCEPT ![t] = ts]
    BY <1>1, <1>9 DEF EndStream
  <2> HIDE DEF ts
  <2> QED
    BY <1>2, <1>9, <2>1, <2>2 DEF EndStream
<1>10. CASE Leave(t)
  <2>1. PICK status \in {"cancelled", turn[t].status} :
         turn' = [turn EXCEPT ![t] =
                    [@ EXCEPT !.queue = <<>>, !.pc = "store", !.status = status]]
    BY <1>10 DEF Leave
  <2> DEFINE ts == [turn[t] EXCEPT !.queue = <<>>, !.pc = "store", !.status = status]
  <2>2. status \in RunStatus
    BY <1>1, QueueTyped DEF TurnState, RunStatus
  <2>3. ts \in TurnState /\ ts.pc = "store" /\ ts.queue = <<>> /\ ts.conv = turn[t].conv
    BY <1>1, <2>2, QueueTyped DEF TurnState
  <2>4. turn' = [turn EXCEPT ![t] = ts]
    BY <1>1, <2>1
  <2> HIDE DEF ts
  <2> QED
    BY <1>2, <1>10, <2>3, <2>4 DEF Leave, Streaming
<1> QED
  BY <1>3, <1>4, <1>5, <1>6, <1>7, <1>8, <1>9, <1>10

-----------------------------------------------------------------------------
\* The turns that are cut off, and those whose last statements fail.
LEMMA CutStep ==
  ASSUME IInv, NEW t \in Turn, Cut(t) \/ StoreFails(t) \/ FinishFails(t)
  PROVE  IInv'
<1>1. turn[t] \in TurnState /\ turn \in [Turn -> TurnState] /\ logged \in SUBSET Turn
  BY DEF IInv, TypeOK
<1>2. turn[t].pc \notin {"idle", "ended"}
  BY DEF Cut, StoreFails, FinishFails
<1>3. turn[t].conv \in Conv /\ conv[turn[t].conv].st # "none"
  BY <1>2 DEF IInv, RowsExist
<1>4. UNCHANGED <<conv, msgs, run, output, op>> /\ logged' \in SUBSET Turn
  BY <1>1 DEF Cut, StoreFails, FinishFails
<1>5. ASSUME NEW ts \in TurnState, turn' = [turn EXCEPT ![t] = ts],
             ts.pc = "ended", ts.conv = turn[t].conv, ts.queue = <<>>
      PROVE  IInv'
  BY <1>2, <1>3, <1>4, <1>5, TurnStep
<1>6. CASE Cut(t)
  <2> DEFINE ts == [turn[t] EXCEPT !.pc = "ended", !.queue = <<>>]
  <2>1. ts \in TurnState /\ ts.pc = "ended" /\ ts.conv = turn[t].conv /\ ts.queue = <<>>
    BY <1>1, QueueTyped DEF TurnState
  <2>2. turn' = [turn EXCEPT ![t] = ts]
    BY <1>1, <1>6 DEF Cut
  <2> HIDE DEF ts
  <2> QED
    BY <1>5, <2>1, <2>2
<1>7. CASE StoreFails(t) \/ FinishFails(t)
  <2> DEFINE ts == [turn[t] EXCEPT !.pc = "ended"]
  <2>1. turn' = [turn EXCEPT ![t] = ts] /\ turn[t].pc \in {"store", "finish"}
    BY <1>1, <1>7 DEF StoreFails, FinishFails
  <2>2. turn[t].queue = <<>>
    BY <2>1 DEF IInv, Queued
  <2>3. ts \in TurnState /\ ts.pc = "ended" /\ ts.conv = turn[t].conv /\ ts.queue = <<>>
    BY <1>1, <2>2 DEF TurnState
  <2> HIDE DEF ts
  <2> QED
    BY <1>5, <2>1, <2>3
<1> QED
  BY <1>6, <1>7

LEMMA StartStep ==
  ASSUME IInv, NEW t \in Turn, Start(t)
  PROVE  IInv'
<1> DEFINE ts == [turn[t] EXCEPT !.pc = "plan", !.status = "completed"]
<1>1. turn[t] \in TurnState /\ turn \in [Turn -> TurnState]
  BY DEF IInv, TypeOK
<1>2. ts \in TurnState /\ ts.pc = "plan" /\ ts.conv = turn[t].conv /\ ts.queue = turn[t].queue
        /\ ts.said = turn[t].said
  BY <1>1 DEF TurnState, RunStatus
<1>3. turn' = [turn EXCEPT ![t] = ts] /\ turn[t].pc = "start"
        /\ run' = [run EXCEPT ![t] = "running"]
        /\ UNCHANGED <<conv, msgs, output, logged, op>>
  BY <1>1 DEF Start
<1> HIDE DEF ts
<1>4. turn'[t] = ts /\ \A u \in Turn : u # t => turn'[u] = turn[u]
  BY <1>1, <1>3
<1>5. run' \in [Turn -> RunStatus] /\ \A u \in Turn : u # t => run'[u] = run[u]
  BY <1>3 DEF IInv, TypeOK, RunStatus
<1>6. run'[t] = "running"
  BY <1>3 DEF IInv, TypeOK
<1>7. TypeOK'
  BY <1>1, <1>2, <1>3, <1>5 DEF IInv, TypeOK
<1>8. Queued' /\ RowsExist' /\ Asked' /\ Answered'
  BY <1>2, <1>3, <1>4 DEF IInv, Queued, RowsExist, Asked, Answered
<1>9. QuestionsFirst' /\ OpsKnown'
  BY <1>3 DEF IInv, QuestionsFirst, OpsKnown
<1>10. CompletedEnded' /\ RunsHonest'
  BY <1>3, <1>4, <1>5, <1>6 DEF IInv, CompletedEnded, RunsHonest
<1> QED
  BY <1>7, <1>8, <1>9, <1>10 DEF IInv

\* finish_agent_run: the outcome is recorded after the answer.
LEMMA FinishStep ==
  ASSUME IInv, NEW t \in Turn, Finish(t)
  PROVE  IInv'
<1> DEFINE ts == [turn[t] EXCEPT !.pc = "ended"]
<1>1. turn[t] \in TurnState /\ turn \in [Turn -> TurnState]
  BY DEF IInv, TypeOK
<1>2. ts \in TurnState /\ ts.pc = "ended" /\ ts.conv = turn[t].conv /\ ts.queue = turn[t].queue
        /\ ts.said = turn[t].said
  BY <1>1 DEF TurnState
<1>3. turn' = [turn EXCEPT ![t] = ts] /\ turn[t].pc = "finish"
        /\ run' = [run EXCEPT ![t] = turn[t].status]
        /\ output' = [output EXCEPT ![t] = turn[t].output]
        /\ UNCHANGED <<conv, msgs, logged, op>>
  BY <1>1 DEF Finish
<1> HIDE DEF ts
<1>4. turn'[t] = ts /\ \A u \in Turn : u # t => turn'[u] = turn[u]
  BY <1>1, <1>3
<1>5. /\ run' \in [Turn -> RunStatus] /\ \A u \in Turn : u # t => run'[u] = run[u]
      /\ output' \in [Turn -> BOOLEAN] /\ \A u \in Turn : u # t => output'[u] = output[u]
      /\ output'[t] = turn[t].output
  BY <1>1, <1>3 DEF IInv, TypeOK, TurnState
<1>6. TypeOK'
  BY <1>1, <1>2, <1>3, <1>5 DEF IInv, TypeOK
<1>7. Queued' /\ RowsExist' /\ Asked' /\ Answered'
  BY <1>2, <1>3, <1>4 DEF IInv, Queued, RowsExist, Asked, Answered
<1>8. QuestionsFirst' /\ OpsKnown'
  BY <1>3 DEF IInv, QuestionsFirst, OpsKnown
<1>9. CompletedEnded' /\ RunsHonest'
  BY <1>2, <1>3, <1>4, <1>5 DEF IInv, CompletedEnded, RunsHonest, Answered
<1> QED
  BY <1>6, <1>7, <1>8, <1>9 DEF IInv

-----------------------------------------------------------------------------
(* The steps that write messages.                                          *)

\* The messages of conversation d become s, which holds all it held before and
\* is in order, and one turn moves on in it.
LEMMA WriteStep ==
  ASSUME IInv, NEW t \in Turn, NEW d \in Conv, NEW s \in Seq(Message), InOrder(s),
         \A m \in Message : Has(msgs[d], m) => Has(s, m), Len(msgs[d]) <= Len(s),
         NEW ts \in TurnState, NEW cr \in ConvRow, cr.st # "none",
         conv' = [conv EXCEPT ![d] = cr],
         msgs' = [msgs EXCEPT ![d] = s],
         turn' = [turn EXCEPT ![t] = ts],
         logged' \in SUBSET Turn, UNCHANGED <<run, output, op>>,
         turn[t].pc # "ended", ts.pc \in {"start", "finish"}, ts.queue = <<>>, ts.conv = d,
         Has(s, Question(t)),
         ts.pc = "finish" /\ ts.said => ts.output /\ Has(s, Answer(t))
  PROVE  IInv'
<1>1. turn \in [Turn -> TurnState] /\ msgs \in [Conv -> Seq(Message)] /\ conv \in [Conv -> ConvRow]
  BY DEF IInv, TypeOK
<1>2. turn'[t] = ts /\ \A u \in Turn : u # t => turn'[u] = turn[u]
  BY <1>1
<1>3. msgs'[d] = s /\ \A c \in Conv : c # d => msgs'[c] = msgs[c]
  BY <1>1
<1>4. conv'[d] = cr /\ \A c \in Conv : c # d => conv'[c] = conv[c]
  BY <1>1
<1>5. \A c \in Conv, m \in Message : Has(msgs[c], m) => Has(msgs'[c], m)
  BY <1>3
<1>6. TypeOK'
  BY <1>1 DEF IInv, TypeOK
<1>7. RowsExist' /\ Queued'
  BY <1>2, <1>3, <1>4 DEF IInv, RowsExist, Queued
<1>8. QuestionsFirst'
  BY <1>3 DEF IInv, QuestionsFirst
<1>81. OpsKnown'
  <2>1. ASSUME NEW o \in Op, op[o].kind = "fork"
        PROVE  op[o].conv \in Conv /\ conv'[op[o].conv].st # "none"
    BY <1>4, <2>1 DEF IInv, OpsKnown
  <2>2. ASSUME NEW o \in Op, NEW c \in op[o].targets
        PROVE  conv'[c].st # "none"
    BY <1>4 DEF IInv, OpsKnown, TypeOK, OpState
  <2> QED
    BY <2>1, <2>2 DEF OpsKnown
<1>9. Asked'
  <2>1. ASSUME NEW u \in Turn, turn'[u].pc \notin {"idle", "append", "ended"}
        PROVE  Has(msgs'[turn'[u].conv], Question(u))
    <3>1. CASE u = t
      BY <1>2, <1>3, <3>1
    <3>2. CASE u # t
      BY <1>2, <1>5, <2>1, <3>2, MessagesOf DEF IInv, Asked, RowsExist
    <3> QED
      BY <3>1, <3>2
  <2> QED
    BY <2>1 DEF Asked
<1>10. Answered'
  <2>1. ASSUME NEW u \in Turn, turn'[u].pc = "finish", turn'[u].said
        PROVE  turn'[u].output /\ Has(msgs'[turn'[u].conv], Answer(u))
    <3>1. CASE u = t
      BY <1>2, <1>3, <2>1, <3>1
    <3>2. CASE u # t
      BY <1>2, <1>5, <2>1, <3>2, MessagesOf DEF IInv, Answered, RowsExist
    <3> QED
      BY <3>1, <3>2
  <2> QED
    BY <2>1 DEF Answered
<1>11. CompletedEnded'
  BY <1>2 DEF IInv, CompletedEnded
<1>12. RunsHonest'
  <2>1. ASSUME NEW u \in Turn, run'[u] = "completed", turn'[u].said
        PROVE  output'[u] /\ Has(msgs'[turn'[u].conv], Answer(u))
    <3>1. u # t
      BY <2>1 DEF IInv, CompletedEnded
    <3>2. turn[u].pc = "ended" /\ turn'[u] = turn[u]
      BY <1>2, <2>1, <3>1 DEF IInv, CompletedEnded
    <3>3. output[u] /\ Has(msgs[turn[u].conv], Answer(u)) /\ turn[u].conv \in Conv
      BY <2>1, <3>2 DEF IInv, RunsHonest, RowsExist
    <3> QED
      BY <1>5, <3>2, <3>3, MessagesOf
  <2> QED
    BY <2>1 DEF RunsHonest
<1> QED
  BY <1>6, <1>7, <1>8, <1>81, <1>9, <1>10, <1>11, <1>12 DEF IInv

LEMMA AppendQuestionStep ==
  ASSUME IInv, NEW t \in Turn, AppendQuestion(t)
  PROVE  IInv'
<1> DEFINE d == turn[t].conv
           s == Append(msgs[d], Question(t))
           ts == [turn[t] EXCEPT !.pc = "start"]
<1>1. /\ turn[t] \in TurnState /\ turn \in [Turn -> TurnState]
      /\ conv \in [Conv -> ConvRow] /\ msgs \in [Conv -> Seq(Message)]
  BY DEF IInv, TypeOK
<1>2. /\ turn[t].pc = "append" /\ msgs' = [msgs EXCEPT ![d] = s]
      /\ turn' = [turn EXCEPT ![t] = ts] /\ UNCHANGED <<conv, run, output, logged, op>>
  BY <1>1 DEF AppendQuestion
<1>3. d \in Conv /\ conv[d].st # "none" /\ turn[t].queue = <<>>
  BY <1>2 DEF IInv, RowsExist, Queued
<1>4. ts \in TurnState /\ ts.pc = "start" /\ ts.conv = d /\ ts.queue = <<>>
  BY <1>1, <1>3 DEF TurnState
<1>5. /\ s \in Seq(Message) /\ Has(s, Question(t)) /\ Len(msgs[d]) <= Len(s)
      /\ \A m \in Message : Has(msgs[d], m) => Has(s, m)
  BY <1>1, <1>3, MessagesOf, AppendHas, AppendIs
<1>6. InOrder(s)
  BY <1>1, <1>3, MessagesOf, AppendInOrder DEF IInv, QuestionsFirst
<1>7. conv' = [conv EXCEPT ![d] = conv[d]] /\ conv[d] \in ConvRow
  BY <1>1, <1>2, <1>3
<1>8. logged' \in SUBSET Turn
  BY <1>2 DEF IInv, TypeOK
<1> HIDE DEF d, s, ts
<1> QED
  BY <1>2, <1>3, <1>4, <1>5, <1>6, <1>7, <1>8, WriteStep

LEMMA AskNewStep ==
  ASSUME IInv, NEW t \in Turn, NEW c \in Conv, AskNew(t, c)
  PROVE  IInv'
<1> DEFINE s == <<Question(t)>>
           ts == [turn[t] EXCEPT !.pc = "start", !.conv = c]
           cr == [NoConv EXCEPT !.st = "open"]
<1>1. /\ turn[t] \in TurnState /\ turn \in [Turn -> TurnState]
      /\ conv \in [Conv -> ConvRow] /\ msgs \in [Conv -> Seq(Message)]
  BY DEF IInv, TypeOK
<1>2. /\ turn[t].pc = "idle" /\ msgs' = [msgs EXCEPT ![c] = s] /\ conv' = [conv EXCEPT ![c] = cr]
      /\ turn' = [turn EXCEPT ![t] = ts] /\ UNCHANGED <<run, output, logged, op>>
      /\ conv[c].st = "none"
  BY <1>1 DEF AskNew, NextId
<1>3. turn[t].queue = <<>> /\ msgs[c] = <<>>
  BY <1>2 DEF IInv, RowsExist, Queued
<1>4. ts \in TurnState /\ ts.pc = "start" /\ ts.conv = c /\ ts.queue = <<>>
  BY <1>1, <1>3 DEF TurnState
<1>5. s \in Seq(Message) /\ Len(s) = 1 /\ s[1] = Question(t)
  BY MessagesOf
<1>6. /\ Has(s, Question(t)) /\ Len(msgs[c]) <= Len(s)
      /\ \A m \in Message : Has(msgs[c], m) => Has(s, m)
  BY <1>3, <1>5 DEF Has
<1>7. InOrder(s)
  BY <1>5, MessagesOf DEF InOrder
<1>8. cr \in ConvRow /\ cr.st # "none"
  BY DEF NoConv, ConvRow, Titles
<1>9. logged' \in SUBSET Turn
  BY <1>2 DEF IInv, TypeOK
<1> HIDE DEF s, ts, cr
<1> QED
  BY <1>2, <1>4, <1>5, <1>6, <1>7, <1>8, <1>9, WriteStep

\* persist_assistant_message.
LEMMA StoreStep ==
  ASSUME IInv, NEW t \in Turn, Store(t)
  PROVE  IInv'
<1> DEFINE d == turn[t].conv
<1>1. /\ turn[t] \in TurnState /\ turn \in [Turn -> TurnState] /\ logged \in SUBSET Turn
      /\ conv \in [Conv -> ConvRow] /\ msgs \in [Conv -> Seq(Message)]
  BY DEF IInv, TypeOK
<1>2. turn[t].pc = "store" /\ UNCHANGED <<run, output, op>> /\ logged' \in SUBSET Turn
  BY <1>1 DEF Store
<1>3. d \in Conv /\ conv[d].st # "none" /\ turn[t].queue = <<>> /\ Has(msgs[d], Question(t))
  BY <1>2 DEF IInv, RowsExist, Queued, Asked
<1>4. CASE turn[t].said /\ turn[t].expired
  <2> DEFINE ts == [turn[t] EXCEPT !.pc = "ended"]
  <2>1. turn' = [turn EXCEPT ![t] = ts] /\ UNCHANGED <<conv, msgs>>
    BY <1>1, <1>4 DEF Store, rows
  <2>2. ts \in TurnState /\ ts.pc = "ended" /\ ts.conv = turn[t].conv /\ ts.queue = <<>>
    BY <1>1, <1>3 DEF TurnState
  <2> HIDE DEF ts
  <2> QED
    BY <1>2, <1>3, <2>1, <2>2, TurnStep
<1>5. CASE ~(turn[t].said /\ turn[t].expired)
  <2> DEFINE s == IF turn[t].said THEN Append(msgs[d], Answer(t)) ELSE msgs[d]
             ts == [turn[t] EXCEPT !.pc = "finish", !.output = turn[t].said]
             cr == [conv[d] EXCEPT !.title = TitleWritten(t)]
  <2>1. /\ msgs' = [msgs EXCEPT ![d] = s] /\ conv' = [conv EXCEPT ![d] = cr]
        /\ turn' = [turn EXCEPT ![t] = ts]
    BY <1>1, <1>3, <1>5 DEF Store
  <2>2. ts \in TurnState /\ ts.pc = "finish" /\ ts.conv = d /\ ts.queue = <<>>
          /\ ts.said = turn[t].said /\ ts.output = turn[t].said
    BY <1>1, <1>3 DEF TurnState
  <2>3. conv[d] \in ConvRow /\ conv[d].title \in Titles
    BY <1>1, <1>3 DEF ConvRow
  <2>4. cr \in ConvRow /\ cr.st # "none"
    BY <1>3, <2>3 DEF TitleWritten, ConvRow, Titles
  <2>5. msgs[d] \in Seq(Message) /\ InOrder(msgs[d])
    BY <1>1, <1>3 DEF IInv, QuestionsFirst
  <2>6. /\ s \in Seq(Message) /\ Has(s, Question(t)) /\ InOrder(s)
        /\ \A m \in Message : Has(msgs[d], m) => Has(s, m)
        /\ (turn[t].said => Has(s, Answer(t))) /\ Len(msgs[d]) <= Len(s)
    <3>1. CASE turn[t].said
      BY <1>3, <2>5, <3>1, MessagesOf, AppendHas, AppendIs, AppendInOrder
    <3>2. CASE ~turn[t].said
      BY <1>3, <2>5, <3>2
    <3> QED
      BY <3>1, <3>2
  <2> HIDE DEF s, ts, cr, d
  <2> QED
    BY <1>2, <1>3, <2>1, <2>2, <2>4, <2>6, WriteStep
<1> QED
  BY <1>4, <1>5

-----------------------------------------------------------------------------
(* The other requests.                                                     *)

\* A step that writes nothing but the requests, or rows of conversations
\* without making or losing one.
LEMMA OtherStep ==
  ASSUME IInv, op' \in [Op -> OpState], conv' \in [Conv -> ConvRow],
         \A c \in Conv : conv'[c].st = "none" <=> conv[c].st = "none", OpsKnown',
         UNCHANGED <<msgs, run, output, logged, turn>>
  PROVE  IInv'
<1>1. TypeOK'
  BY DEF IInv, TypeOK
<1>2. RowsExist' /\ Queued' /\ QuestionsFirst' /\ Asked' /\ Answered' /\ CompletedEnded'
        /\ RunsHonest'
  BY DEF IInv, RowsExist, Queued, QuestionsFirst, Asked, Answered, CompletedEnded, RunsHonest
<1> QED
  BY <1>1, <1>2 DEF IInv

LEMMA BeginStep ==
  ASSUME IInv, NEW o \in Op, Begin(o)
  PROVE  IInv'
<1>1. op \in [Op -> OpState] /\ conv \in [Conv -> ConvRow] /\ msgs \in [Conv -> Seq(Message)]
  BY DEF IInv, TypeOK
<1>2. UNCHANGED <<conv, msgs, run, output, logged, turn>>
  BY DEF Begin, BeginUpdate, BeginFork, BeginDelete
<1>3. IdleOp \in OpState
  BY DEF IdleOp, OpState
<1>4. op' \in [Op -> OpState]
  <2>1. PICK c \in Conv :
           \/ \E kind \in {"rename", "archive", "unarchive"} : BeginUpdate(o, c, kind)
           \/ BeginFork(o, c)
           \/ \E cascade \in BOOLEAN : BeginDelete(o, c, cascade)
    BY DEF Begin
  <2>2. ASSUME NEW kind \in {"rename", "archive", "unarchive"}, BeginUpdate(o, c, kind)
        PROVE  op' \in [Op -> OpState]
    BY <1>1, <1>3, <2>2 DEF BeginUpdate, OpState
  <2>3. ASSUME BeginFork(o, c) PROVE op' \in [Op -> OpState]
    BY <1>1, <1>3, <2>3 DEF BeginFork, OpState
  <2>4. ASSUME NEW cascade \in BOOLEAN, BeginDelete(o, c, cascade)
        PROVE  op' \in [Op -> OpState]
    <3> DEFINE T == {c} \cup {d \in Below(c) : cascade /\ conv[d].st = "open"}
    <3>1. T \in SUBSET Conv
      BY DEF Below
    <3>2. op' = [op EXCEPT ![o] = [IdleOp EXCEPT !.kind = "delete", !.conv = c, !.targets = T]]
      BY <2>4 DEF BeginDelete
    <3> HIDE DEF T
    <3> QED
      BY <1>1, <1>3, <3>1, <3>2 DEF OpState
  <2> QED
    BY <2>1, <2>2, <2>3, <2>4
<1>5. OpsKnown'
  <2>1. \A u \in Op : u # o => op'[u] = op[u]
    BY <1>1 DEF Begin, BeginUpdate, BeginFork, BeginDelete
  <2>2. /\ \A c \in op'[o].targets : conv[c].st # "none"
        /\ op'[o].kind = "fork" =>
             op'[o].conv \in Conv /\ conv[op'[o].conv].st # "none"
    <3>1. PICK c \in Conv :
             \/ \E kind \in {"rename", "archive", "unarchive"} : BeginUpdate(o, c, kind)
             \/ BeginFork(o, c)
             \/ \E cascade \in BOOLEAN : BeginDelete(o, c, cascade)
      BY DEF Begin
    <3>2. ASSUME NEW kind \in {"rename", "archive", "unarchive"}, BeginUpdate(o, c, kind)
          PROVE  op'[o].targets = {} /\ op'[o].kind # "fork"
      BY <1>1, <3>2 DEF BeginUpdate, IdleOp
    <3>3. ASSUME BeginFork(o, c)
          PROVE  op'[o].targets = {} /\ op'[o].conv = c /\ conv[c].st = "open"
      BY <1>1, <3>3 DEF BeginFork, IdleOp, Own
    <3>4. ASSUME NEW cascade \in BOOLEAN, BeginDelete(o, c, cascade)
          PROVE  op'[o].kind # "fork" /\ \A d \in op'[o].targets : conv[d].st = "open"
      BY <1>1, <3>4 DEF BeginDelete, IdleOp, Own
    <3> QED
      BY <3>1, <3>2, <3>3, <3>4
  <2> QED
    BY <1>2, <2>1, <2>2 DEF IInv, OpsKnown
<1> QED
  BY <1>1, <1>2, <1>4, <1>5, OtherStep

LEMMA CommitStep ==
  ASSUME IInv, NEW o \in Op, CommitUpdate(o) \/ CommitDelete(o)
  PROVE  IInv'
<1>1. op \in [Op -> OpState] /\ conv \in [Conv -> ConvRow] /\ IdleOp \in OpState
  BY DEF IInv, TypeOK, IdleOp, OpState
<1>2. UNCHANGED <<msgs, run, output, logged, turn>> /\ op' \in [Op -> OpState]
  BY <1>1 DEF CommitUpdate, CommitDelete
<1>3. conv' \in [Conv -> ConvRow] /\ \A c \in Conv : conv'[c].st = "none" <=> conv[c].st = "none"
  <2>1. CASE CommitUpdate(o)
    <3> DEFINE d == op[o].conv
               r == IF op[o].kind = "rename" THEN [conv[d] EXCEPT !.title = "chosen"]
                    ELSE [conv[d] EXCEPT !.archived = (op[o].kind = "archive")]
    <3>1. conv' = [conv EXCEPT ![d] = r]
      BY <1>1, <2>1 DEF CommitUpdate
    <3>2. CASE d \in Conv
      <4>1. conv[d] \in ConvRow
        BY <1>1, <3>2
      <4>2. r \in ConvRow /\ r.st = conv[d].st
        BY <4>1 DEF ConvRow, Titles
      <4> HIDE DEF r, d
      <4> QED
        BY <1>1, <3>1, <3>2, <4>2
    <3>3. CASE d \notin Conv
      <4> HIDE DEF r, d
      <4> QED
        BY <1>1, <3>1, <3>3
    <3> QED
      BY <3>2, <3>3
  <2>2. CASE CommitDelete(o)
    <3>1. ASSUME NEW c \in Conv
          PROVE  conv'[c] \in ConvRow /\ (conv'[c].st = "none" <=> conv[c].st = "none")
      <4>1. CASE c \in op[o].targets
        <5>1. conv'[c] = [conv[c] EXCEPT !.st = "deleted", !.archived = TRUE]
          BY <2>2, <4>1 DEF CommitDelete
        <5>2. conv[c] \in ConvRow /\ conv[c].st # "none"
          BY <1>1, <4>1 DEF IInv, OpsKnown
        <5> QED
          BY <5>1, <5>2 DEF ConvRow
      <4>2. CASE c \notin op[o].targets
        BY <1>1, <2>2, <4>2 DEF CommitDelete
      <4> QED
        BY <4>1, <4>2
    <3> QED
      BY <2>2, <3>1 DEF CommitDelete
  <2> QED
    BY <2>1, <2>2
<1>4. OpsKnown'
  <2>1. op'[o] = IdleOp /\ \A u \in Op : u # o => op'[u] = op[u]
    BY <1>1 DEF CommitUpdate, CommitDelete
  <2>2. op \in [Op -> OpState] /\ \A u \in Op : op[u].targets \subseteq Conv
    BY <1>1 DEF OpState
  <2> QED
    BY <1>2, <1>3, <2>1, <2>2 DEF IInv, OpsKnown, IdleOp
<1> QED
  BY <1>2, <1>3, <1>4, OtherStep

\* fork_conversation: a branch is a new conversation with a copy of the first
\* messages of its source.
LEMMA ForkStep ==
  ASSUME IInv, NEW o \in Op, NEW b \in Conv, CommitFork(o, b)
  PROVE  IInv'
<1> DEFINE d == op[o].conv
           cr == [st |-> "open", archived |-> FALSE, parent |-> d, title |-> "chosen"]
<1>1. op \in [Op -> OpState] /\ conv \in [Conv -> ConvRow] /\ msgs \in [Conv -> Seq(Message)]
        /\ IdleOp \in OpState
  BY DEF IInv, TypeOK, IdleOp, OpState
<1>0. PICK upto \in 1..Len(msgs[d]) : msgs' = [msgs EXCEPT ![b] = SubSeq(msgs[d], 1, upto)]
  BY DEF CommitFork, Copied
<1>2. /\ op[o].kind = "fork" /\ conv[b].st = "none" /\ op' = [op EXCEPT ![o] = IdleOp]
      /\ conv' = [conv EXCEPT ![b] = cr]
      /\ UNCHANGED <<run, output, logged, turn>>
  BY DEF CommitFork, NextId
<1>3. d \in Conv /\ msgs[b] = <<>>
  BY <1>2 DEF IInv, OpsKnown, RowsExist
<1> DEFINE s == SubSeq(msgs[d], 1, upto)
<1>4. s \in Seq(Message) /\ InOrder(s)
  BY <1>0, <1>1, <1>3, CopiedInOrder DEF IInv, QuestionsFirst
<1>41. msgs' = [msgs EXCEPT ![b] = s]
  BY <1>0
<1>5. cr \in ConvRow /\ cr.st = "open"
  BY <1>3 DEF ConvRow, Titles
<1> HIDE DEF d, s, cr
<1>6. msgs'[b] = s /\ conv'[b] = cr
        /\ \A c \in Conv : c # b => msgs'[c] = msgs[c] /\ conv'[c] = conv[c]
  BY <1>1, <1>2, <1>41
<1>7. TypeOK'
  BY <1>1, <1>2, <1>4, <1>41, <1>5 DEF IInv, TypeOK
<1>8. RowsExist' /\ Queued'
  BY <1>2, <1>5, <1>6 DEF IInv, RowsExist, Queued
<1>9. QuestionsFirst'
  BY <1>4, <1>6 DEF IInv, QuestionsFirst
<1>10. \A t \in Turn : turn[t].pc # "idle" => turn[t].conv \in Conv /\ turn[t].conv # b
  BY <1>2 DEF IInv, RowsExist
<1>11. Asked' /\ Answered' /\ CompletedEnded'
  BY <1>2, <1>6, <1>10 DEF IInv, Asked, Answered, CompletedEnded
<1>12. RunsHonest'
  <2>1. ASSUME NEW t \in Turn, run[t] = "completed"
        PROVE  turn[t].conv \in Conv /\ turn[t].conv # b
    BY <1>10, <2>1 DEF IInv, CompletedEnded
  <2> QED
    BY <1>2, <1>6, <2>1 DEF IInv, RunsHonest
<1>13. OpsKnown'
  <2>1. op'[o] = IdleOp /\ \A u \in Op : u # o => op'[u] = op[u]
    BY <1>1, <1>2
  <2>2. \A u \in Op : op[u].targets \subseteq Conv
    BY <1>1 DEF OpState
  <2>4. ASSUME NEW u \in Op, op'[u].kind = "fork"
        PROVE  op'[u].conv \in Conv /\ conv'[op'[u].conv].st # "none"
    BY <1>5, <1>6, <2>1, <2>4 DEF IInv, OpsKnown, IdleOp
  <2>5. ASSUME NEW u \in Op, NEW c \in op'[u].targets
        PROVE  conv'[c].st # "none"
    BY <1>5, <1>6, <2>1, <2>2 DEF IInv, OpsKnown, IdleOp
  <2> QED
    BY <2>4, <2>5 DEF OpsKnown
<1> QED
  BY <1>7, <1>8, <1>9, <1>11, <1>12, <1>13 DEF IInv

-----------------------------------------------------------------------------
\* All of them together.
LEMMA NextIInv == IInv /\ [Next]_vars => IInv'
<1> SUFFICES ASSUME IInv, [Next]_vars PROVE IInv'
  OBVIOUS
<1>1. ASSUME NEW t \in Turn, Step(t) PROVE IInv'
  BY <1>1, AppendQuestionStep, StartStep, StreamStep, StoreStep, FinishStep DEF Step
<1>2. ASSUME NEW t \in Turn, Fault(t) PROVE IInv'
  BY <1>2, StreamStep, CutStep DEF Fault
<1>3. ASSUME NEW t \in Turn, NEW c \in Conv, Ask(t, c) \/ AskNew(t, c) PROVE IInv'
  BY <1>3, AskStep, AskNewStep
<1>4. ASSUME NEW o \in Op, Begin(o) \/ Commit(o) PROVE IInv'
  BY <1>4, BeginStep, CommitStep, ForkStep DEF Commit
<1>5. CASE UNCHANGED vars
  <2>1. OpsKnown' /\ conv' \in [Conv -> ConvRow] /\ op' \in [Op -> OpState]
    BY <1>5 DEF vars, IInv, TypeOK, OpsKnown
  <2> QED
    BY <1>5, <2>1, OtherStep DEF vars
<1> QED
  BY <1>1, <1>2, <1>3, <1>4, <1>5 DEF Next

\* The invariant of the assistant.
THEOREM SpecIInv == Spec => []IInv
  BY InitIInv, NextIInv, PTL DEF Spec

\* A run recorded as completed whose turn sent text has its answer stored in the
\* conversation of the turn, whatever fails and wherever the turn is cut off.
THEOREM SpecRunsHonest == Spec => []RunsHonest
<1>1. IInv => RunsHonest
  BY DEF IInv
<1> QED
  BY <1>1, SpecIInv, PTL

\* In every conversation and branch the question of a turn stands before its
\* answer.
THEOREM SpecQuestionsFirst == Spec => []QuestionsFirst
<1>1. IInv => QuestionsFirst
  BY DEF IInv
<1> QED
  BY <1>1, SpecIInv, PTL
-----------------------------------------------------------------------------
\* The least set of conversations that holds the branches of c and, where a
\* branch is younger than its source, those of its members.
LEMMA BelowClosed ==
  ASSUME StudyAssumption, Younger, NEW c \in Conv, NEW d \in Conv,
         conv \in [Conv -> ConvRow],
         conv[d].parent = c \/ conv[d].parent \in Below(c)
  PROVE  d \in Below(c)
<1> DEFINE All == 0..Conversations
           Takes(e, S) == e # 0 /\ (conv[e].parent = c \/ (conv[e].parent < e /\ conv[e].parent \in S))
           Closed(S) == \A e \in All : Takes(e, S) => e \in S
           Least == {e \in All : \A S \in SUBSET All : Closed(S) => e \in S}
           g == [e \in All |-> e \in Least]
<1>1. Conversations \in Nat
  BY DEF StudyAssumption
<1>2. Closed(Least)
  OBVIOUS
<1>3. \A e \in Least : Takes(e, Least)
  <2> DEFINE T == {e \in All : Takes(e, Least)}
  <2>1. T \in SUBSET Least
    BY <1>2
  <2>2. Closed(T)
    BY <2>1
  <2> QED
    BY <2>2
<1>4. \A e \in 1..Conversations : conv[e].parent \in All
  BY <1>1 DEF Conv, ConvRow
<1>5. \A e \in All : Takes(e, Least) <=> e \in Least
  BY <1>2, <1>3
<1>6. g = [e \in All |-> e # 0 /\ (conv[e].parent = c \/ (conv[e].parent < e /\ g[conv[e].parent]))]
  <2> SUFFICES ASSUME NEW e \in All
               PROVE  (e \in Least) = (e # 0 /\ (conv[e].parent = c \/ (conv[e].parent < e /\ g[conv[e].parent])))
    OBVIOUS
  <2>1. CASE e = 0
    BY <2>1, <1>5
  <2>2. CASE e # 0
    <3>1. conv[e].parent \in All
      BY <1>1, <1>4, <2>2
    <3>2. g[conv[e].parent] <=> conv[e].parent \in Least
      BY <3>1
    <3> HIDE DEF g, Least
    <3> QED
      BY <2>2, <1>5, <3>2
  <2> QED
    BY <2>1, <2>2
<1> DEFINE under == CHOOSE f : f = [e \in All |-> e # 0 /\ (conv[e].parent = c \/ (conv[e].parent < e /\ f[conv[e].parent]))]
<1> HIDE DEF g
<1>7. under = [e \in All |-> e # 0 /\ (conv[e].parent = c \/ (conv[e].parent < e /\ under[conv[e].parent]))]
  BY <1>6
<1>8. Below(c) = {e \in Conv : under[e]}
  BY DEF Below
<1> HIDE DEF under
<1>9. under[d] <=> d # 0 /\ (conv[d].parent = c \/ (conv[d].parent < d /\ under[conv[d].parent]))
  <2>1. d \in All
    BY <1>1 DEF Conv
  <2> QED
    BY <1>7, <2>1, Zenon
<1>10. d # 0 /\ conv[d].parent < d
  BY <1>1 DEF Conv, Younger
<1> QED
  BY <1>8, <1>9, <1>10

-----------------------------------------------------------------------------
\* The scene of trees begins in a state of the assistant.
LEMMA GrownIInv == TurnsAssumption /\ GrownInit => IInv
<1> SUFFICES ASSUME TurnsAssumption, GrownInit PROVE IInv
  OBVIOUS
<1> DEFINE two == <<Question(First), Answer(First)>>
<1>1. First \in Turn /\ 1 \in Conv
  BY StudyAssumption DEF TurnsAssumption, First, StudyAssumption, Conv
<1>2. /\ IdleTurn \in TurnState /\ IdleTurn.pc = "idle" /\ IdleTurn.queue = <<>>
      /\ EndedTurn \in TurnState /\ EndedTurn.pc = "ended" /\ EndedTurn.queue = <<>>
      /\ EndedTurn.conv = 1
  <2>1. IdleTurn \in TurnState /\ IdleTurn.pc = "idle" /\ IdleTurn.queue = <<>>
    BY StudyAssumption DEF StudyAssumption, IdleTurn, TurnState, Titles, RunStatus
  <2>2. 1 \in 0..MaxRounds /\ 1 \in Conv \cup {0}
    BY <1>1, StudyAssumption DEF StudyAssumption
  <2>3. \A s : s \in TurnState =>
          [s EXCEPT !.pc = "ended", !.conv = 1, !.round = 1, !.wrote = TRUE,
                    !.said = TRUE, !.titled = TRUE, !.status = "completed",
                    !.output = TRUE] \in TurnState
    BY ZenonT(40), <2>2 DEF TurnState, RunStatus
  <2>4. EndedTurn \in TurnState
    BY <2>1, <2>3 DEF EndedTurn
  <2> QED
    BY <2>1, <2>4 DEF EndedTurn, IdleTurn
<1>3. IdleOp \in OpState /\ NoConv \in ConvRow /\ \A c \in Conv : OpenRow(c) \in ConvRow
  BY StudyAssumption DEF StudyAssumption, IdleOp, OpState, NoConv, OpenRow, ConvRow, Titles, Conv
<1>4. /\ two \in Seq(Message) /\ Len(two) = 2
      /\ two[1] = Question(First) /\ two[2] = Answer(First)
  BY <1>1, MessagesOf
<1>5. InOrder(two) /\ Has(two, Answer(First))
  BY <1>4 DEF InOrder, Has, Question, Answer
<1>6. InOrder(<<>>)
  BY DEF InOrder
<1>7. turn = [t \in Turn |-> IF t = First THEN EndedTurn ELSE IdleTurn]
  BY DEF GrownInit
<1>8. msgs = [c \in Conv |-> IF c <= 3 THEN two ELSE <<>>]
  BY DEF GrownInit
<1>9. conv = [c \in Conv |-> IF c <= 3 THEN OpenRow(c) ELSE NoConv]
  BY DEF GrownInit
<1>10. op = [o \in Op |-> IdleOp] /\ logged = {}
  BY DEF GrownInit
<1>11. /\ run = [t \in Turn |-> IF t = First THEN "completed" ELSE "none"]
       /\ output = [t \in Turn |-> t = First]
  BY DEF GrownInit
<1> HIDE DEF two
<1>12. turn \in [Turn -> TurnState] /\ conv \in [Conv -> ConvRow] /\ msgs \in [Conv -> Seq(Message)]
  BY <1>2, <1>3, <1>4, <1>7, <1>8, <1>9
<1>13. TypeOK
  BY <1>3, <1>10, <1>11, <1>12 DEF TypeOK, RunStatus
<1>14. Queued /\ Asked /\ Answered
  BY <1>2, <1>7 DEF Queued, Asked, Answered
<1>15. CompletedEnded /\ RunsHonest
  <2>1. 1 <= 3 /\ msgs[1] = two
    BY <1>1, <1>8
  <2> QED
    BY <1>2, <1>5, <1>7, <1>11, <2>1 DEF CompletedEnded, RunsHonest
<1>16. RowsExist
  <2>1. \A c \in Conv : conv[c].st = "none" => msgs[c] = <<>>
    BY <1>8, <1>9 DEF OpenRow
  <2>2. 1 <= 3 /\ conv[1].st = "open"
    BY <1>1, <1>9 DEF OpenRow
  <2> QED
    BY <1>1, <1>2, <1>7, <2>1, <2>2 DEF RowsExist
<1>17. QuestionsFirst /\ OpsKnown
  BY <1>5, <1>6, <1>8, <1>10 DEF QuestionsFirst, OpsKnown, IdleOp
<1> QED
  BY <1>13, <1>14, <1>15, <1>16, <1>17 DEF IInv

\* The tree is in order in the beginning, ...
LEMMA TreeBegins ==
  ASSUME TurnsAssumption, GrownInit \/ Init, crossed = FALSE
  PROVE  TreeInv
<1>1. IInv
  BY GrownIInv, InitIInv
<1>2. op = [o \in Op |-> IdleOp]
  BY DEF GrownInit, Init
<1>3. TakesBranches /\ SourceOpen
  BY <1>2 DEF TakesBranches, SourceOpen, IdleOp
<1>4. CASE Init
  BY <1>1, <1>3, <1>4 DEF Init, TreeInv, Younger, SerialTreeKept, NoConv, Own, Conv
<1>5. CASE GrownInit
  <2>1. conv = [c \in Conv |-> IF c <= 3 THEN OpenRow(c) ELSE NoConv]
    BY <1>5 DEF GrownInit
  <2>2. \A c \in Conv : /\ c <= 3 => conv[c].st = "open" /\ conv[c].parent = c - 1
                        /\ ~(c <= 3) => conv[c].st = "none" /\ conv[c].parent = 0
    BY <2>1 DEF OpenRow, NoConv
  <2>3. Conv \subseteq Nat \ {0} /\ \A c \in Conv : c - 1 # 0 => c - 1 \in Conv
    BY StudyAssumption DEF StudyAssumption, Conv
  <2>4. Younger
    BY <2>2, <2>3 DEF Younger
  <2>5. SerialTreeKept
    BY <2>2, <2>3 DEF SerialTreeKept, Own
  <2> QED
    BY <1>1, <1>3, <2>4, <2>5 DEF TreeInv
<1> QED
  BY <1>4, <1>5

-----------------------------------------------------------------------------
\* A step that makes, deletes and moves no conversation, and no other request.
LEMMA TreeKeeps ==
  ASSUME TreeInv, IInv', op' = op, crossed => crossed',
         \A c \in Conv : conv'[c].st = conv[c].st /\ conv'[c].parent = conv[c].parent
  PROVE  TreeInv'
<1>1. Younger'
  BY DEF TreeInv, Younger
<1>2. SerialTreeKept'
  <2>1. \A c \in Conv : conv[c].parent \in Conv \cup {0}
    BY DEF TreeInv, IInv, TypeOK, ConvRow
  <2> QED
    BY <2>1 DEF TreeInv, SerialTreeKept, Own
<1>3. ~crossed' => TakesBranches'
  BY DEF TreeInv, TakesBranches, Own
<1>4. ~crossed' => SourceOpen'
  BY DEF TreeInv, SourceOpen, Own, IInv, OpsKnown
<1> QED
  BY <1>1, <1>2, <1>3, <1>4 DEF TreeInv

\* ... a turn deletes nothing and makes no branch, ...
LEMMA TurnTree ==
  ASSUME TreeInv, IInv', crossed => crossed', NEW t \in Turn,
         Step(t) \/ Fault(t) \/ \E c \in Conv : Ask(t, c)
  PROVE  TreeInv'
<1>1. conv \in [Conv -> ConvRow]
  BY DEF TreeInv, IInv, TypeOK
<1>2. CASE Store(t)
  <2>1. turn[t].conv \in Conv
    BY <1>2 DEF TreeInv, IInv, RowsExist, Store
  <2>2. op' = op /\ \/ conv' = conv
                    \/ conv' = [conv EXCEPT ![turn[t].conv].title = TitleWritten(t)]
    BY <1>2 DEF Store, rows
  <2>3. \A c \in Conv : conv'[c].st = conv[c].st /\ conv'[c].parent = conv[c].parent
    BY <1>1, <2>1, <2>2 DEF ConvRow
  <2> QED
    BY <2>2, <2>3, TreeKeeps
<1>3. CASE ~Store(t)
  <2>1. op' = op /\ conv' = conv
    BY <1>3 DEF Step, Fault, Ask, AppendQuestion, Start, Plan, Round, Close, Emit, Raise,
                EndStream, Finish, LoseEvent, Leave, Cut, StoreFails, FinishFails
  <2> QED
    BY <2>1, TreeKeeps
<1> QED
  BY <1>2, <1>3

\* A new conversation is a branch of none.
LEMMA NewTree ==
  ASSUME TreeInv, IInv', crossed => crossed', NEW t \in Turn, NEW b \in Conv, AskNew(t, b)
  PROVE  TreeInv'
<1>1. conv \in [Conv -> ConvRow] /\ op \in [Op -> OpState]
  BY DEF TreeInv, IInv, TypeOK
<1>2. /\ conv[b].st = "none" /\ \A c \in Conv : c < b => conv[c].st # "none"
      /\ conv' = [conv EXCEPT ![b] = [NoConv EXCEPT !.st = "open"]] /\ op' = op
  BY DEF AskNew, NextId
<1>3. /\ conv'[b].st = "open" /\ conv'[b].parent = 0
      /\ \A c \in Conv : c # b => conv'[c] = conv[c]
  BY <1>1, <1>2 DEF NoConv
<1>4. Conv \subseteq Nat \ {0}
  BY StudyAssumption DEF StudyAssumption, Conv
<1>5. Younger'
  BY <1>2, <1>3, <1>4 DEF TreeInv, Younger
<1>6. SerialTreeKept'
  <2>1. \A c \in Conv : conv[c].parent \in Conv \cup {0}
    BY <1>1 DEF ConvRow
  <2> QED
    BY <1>2, <1>3, <2>1 DEF TreeInv, SerialTreeKept, Own
<1>7. ~crossed' => TakesBranches'
  <2>1. \A o \in Op : op[o].targets \subseteq Conv
    BY <1>1 DEF OpState
  <2> QED
    BY <1>2, <1>3, <1>4, <2>1 DEF TreeInv, TakesBranches, Own
<1>8. ~crossed' => SourceOpen'
  BY <1>2, <1>3 DEF TreeInv, SourceOpen, Own, IInv, OpsKnown
<1> QED
  BY <1>5, <1>6, <1>7, <1>8 DEF TreeInv

\* What a deletion loads holds, with each conversation it takes, its branches
\* that are not deleted.
LEMMA BeginDeleteTakes ==
  ASSUME StudyAssumption, TreeInv, NEW o \in Op, NEW c \in Conv, NEW cascade \in BOOLEAN,
         BeginDelete(o, c, cascade), NEW d \in Conv, Own(d),
         conv[d].parent \in op'[o].targets
  PROVE  d \in op'[o].targets
<1> DEFINE T == {c} \cup {e \in Below(c) : cascade /\ conv[e].st = "open"}
<1>1. op \in [Op -> OpState] /\ conv \in [Conv -> ConvRow]
  BY DEF TreeInv, IInv, TypeOK
<1>2. op'[o].targets = T
  BY <1>1 DEF BeginDelete, IdleOp
<1>3. conv[d].parent = c \/ conv[d].parent \in Below(c)
  BY <1>2
<1>4. d \in Below(c)
  BY <1>1, <1>3, BelowClosed DEF TreeInv
<1>5. cascade
  BY <1>4 DEF BeginDelete, Own
<1> QED
  BY <1>2, <1>4, <1>5 DEF Own

\* ... and each step of a request keeps it.
LEMMA BeginTree ==
  ASSUME StudyAssumption, TreeInv, IInv', crossed => crossed', NEW o \in Op, Begin(o)
  PROVE  TreeInv'
<1>1. op \in [Op -> OpState] /\ conv \in [Conv -> ConvRow] /\ msgs \in [Conv -> Seq(Message)]
  BY DEF TreeInv, IInv, TypeOK
<1>2. conv' = conv /\ \A u \in Op : u # o => op'[u] = op[u]
  BY <1>1 DEF Begin, BeginUpdate, BeginFork, BeginDelete
<1>3. PICK c \in Conv :
         \/ \E kind \in {"rename", "archive", "unarchive"} : BeginUpdate(o, c, kind)
         \/ BeginFork(o, c)
         \/ \E cascade \in BOOLEAN : BeginDelete(o, c, cascade)
  BY DEF Begin
<1>4. op'[o].kind = "delete" =>
        \A d \in Conv : Own(d) /\ conv[d].parent \in op'[o].targets => d \in op'[o].targets
  <2>1. ASSUME op'[o].kind = "delete"
        PROVE  \E cascade \in BOOLEAN : BeginDelete(o, c, cascade)
    BY <1>1, <1>3, <2>1 DEF BeginUpdate, BeginFork, IdleOp
  <2> QED
    BY <2>1, BeginDeleteTakes
<1>5. op'[o].kind = "fork" => Own(op'[o].conv)
  <2>1. ASSUME op'[o].kind = "fork"
        PROVE  BeginFork(o, c)
    BY <1>1, <1>3, <2>1 DEF BeginUpdate, BeginDelete, IdleOp
  <2>2. ASSUME BeginFork(o, c) PROVE op'[o].conv = c /\ Own(c)
    BY <1>1, <2>2 DEF BeginFork, IdleOp
  <2> QED
    BY <2>1, <2>2
<1>6. ~crossed' => TakesBranches'
  BY <1>2, <1>4 DEF TreeInv, TakesBranches, Own
<1>7. ~crossed' => SourceOpen'
  BY <1>2, <1>5 DEF TreeInv, SourceOpen, Own
<1>8. Younger' /\ SerialTreeKept'
  BY <1>2 DEF TreeInv, Younger, SerialTreeKept, Own
<1> QED
  BY <1>6, <1>7, <1>8 DEF TreeInv

LEMMA UpdateTree ==
  ASSUME TreeInv, IInv', crossed => crossed', NEW o \in Op, CommitUpdate(o)
  PROVE  TreeInv'
<1>1. op \in [Op -> OpState] /\ conv \in [Conv -> ConvRow]
  BY DEF TreeInv, IInv, TypeOK
<1>2. \A c \in Conv : conv'[c].st = conv[c].st /\ conv'[c].parent = conv[c].parent
  <2> DEFINE r == IF op[o].kind = "rename" THEN [conv[op[o].conv] EXCEPT !.title = "chosen"]
                  ELSE [conv[op[o].conv] EXCEPT !.archived = (op[o].kind = "archive")]
  <2>1. conv' = [conv EXCEPT ![op[o].conv] = r]
    BY <1>1 DEF CommitUpdate
  <2>2. op[o].conv \in Conv => r.st = conv[op[o].conv].st /\ r.parent = conv[op[o].conv].parent
    BY <1>1 DEF ConvRow
  <2> HIDE DEF r
  <2> QED
    BY <1>1, <2>1, <2>2
<1>3. op'[o] = IdleOp /\ \A u \in Op : u # o => op'[u] = op[u]
  BY <1>1 DEF CommitUpdate
<1>4. Younger'
  BY <1>2 DEF TreeInv, Younger
<1>5. SerialTreeKept'
  <2>1. \A c \in Conv : conv[c].parent \in Conv \cup {0}
    BY <1>1 DEF ConvRow
  <2> QED
    BY <1>2, <2>1 DEF TreeInv, SerialTreeKept, Own
<1>6. ~crossed' => TakesBranches'
  BY <1>2, <1>3 DEF TreeInv, TakesBranches, Own, IdleOp
<1>7. ~crossed' => SourceOpen'
  BY <1>2, <1>3 DEF TreeInv, SourceOpen, Own, IInv, OpsKnown, IdleOp
<1> QED
  BY <1>4, <1>5, <1>6, <1>7 DEF TreeInv

\* A deletion leaves no branch behind.
LEMMA DeleteTree ==
  ASSUME TreeInv, IInv', crossed' = (crossed \/ (Pending("fork") /\ Pending("delete"))),
         NEW o \in Op, CommitDelete(o)
  PROVE  TreeInv'
<1>1. op \in [Op -> OpState] /\ conv \in [Conv -> ConvRow]
  BY DEF TreeInv, IInv, TypeOK
<1>2. \A c \in Conv : /\ conv'[c].parent = conv[c].parent
                      /\ conv'[c].st = IF c \in op[o].targets THEN "deleted" ELSE conv[c].st
  BY <1>1 DEF CommitDelete, ConvRow
<1>3. op'[o] = IdleOp /\ (\A u \in Op : u # o => op'[u] = op[u]) /\ op[o].kind = "delete"
  BY <1>1 DEF CommitDelete
<1>4. \A c \in op[o].targets : conv[c].st # "none"
  BY DEF TreeInv, IInv, OpsKnown
<1>5. Younger'
  BY <1>2, <1>4 DEF TreeInv, Younger
<1>6. \A c \in Conv : conv[c].parent \in Conv \cup {0}
  BY <1>1 DEF ConvRow
<1>7. crossed => crossed'
  OBVIOUS
<1>8. SerialTreeKept'
  BY <1>2, <1>3, <1>6, <1>7 DEF TreeInv, SerialTreeKept, Own, TakesBranches
<1>9. ~crossed' => TakesBranches'
  BY <1>2, <1>3, <1>7 DEF TreeInv, TakesBranches, Own, IdleOp
<1>10. ~crossed' => SourceOpen'
  <2>1. ~crossed' => \A u \in Op : op[u].kind # "fork"
    BY <1>3 DEF Pending
  <2> QED
    BY <1>3, <2>1 DEF SourceOpen, IdleOp
<1> QED
  BY <1>5, <1>8, <1>9, <1>10 DEF TreeInv

\* A branch is made from a conversation that is there.
LEMMA ForkTree ==
  ASSUME StudyAssumption, TreeInv, IInv',
         crossed' = (crossed \/ (Pending("fork") /\ Pending("delete"))),
         NEW o \in Op, NEW b \in Conv, CommitFork(o, b)
  PROVE  TreeInv'
<1> DEFINE s == op[o].conv
<1>1. op \in [Op -> OpState] /\ conv \in [Conv -> ConvRow]
  BY DEF TreeInv, IInv, TypeOK
<1>2. /\ op[o].kind = "fork" /\ conv[b].st = "none"
      /\ \A c \in Conv : c < b => conv[c].st # "none"
      /\ conv' = [conv EXCEPT ![b] = [st |-> "open", archived |-> FALSE, parent |-> s,
                                      title |-> "chosen"]]
      /\ op'[o] = IdleOp /\ \A u \in Op : u # o => op'[u] = op[u]
  BY <1>1 DEF CommitFork, NextId
<1>3. crossed => crossed'
  OBVIOUS
<1>4. s \in Conv /\ conv[s].st # "none"
  BY <1>2 DEF TreeInv, IInv, OpsKnown
<1>5. /\ conv'[b].st = "open" /\ conv'[b].parent = s
      /\ \A c \in Conv : c # b => conv'[c] = conv[c]
  BY <1>1, <1>2
<1>6. Conv \subseteq Nat \ {0}
  BY DEF StudyAssumption, Conv
<1> HIDE DEF s
<1>7. s < b
  BY <1>2, <1>4, <1>6 DEF TreeInv, Younger
<1>8. Younger'
  BY <1>2, <1>5, <1>6, <1>7 DEF TreeInv, Younger
<1>9. ~crossed' => Own(s) /\ \A u \in Op : op[u].kind # "delete"
  BY <1>2 DEF TreeInv, SourceOpen, Pending, s
<1>10. SerialTreeKept'
  <2>1. \A c \in Conv : conv[c].parent \in Conv \cup {0}
    BY <1>1 DEF ConvRow
  <2> QED
    BY <1>2, <1>4, <1>5, <1>9, <1>3, <2>1 DEF TreeInv, SerialTreeKept, Own
<1>11. ~crossed' => TakesBranches'
  BY <1>2, <1>9 DEF TakesBranches, IdleOp
<1>12. ~crossed' => SourceOpen'
  BY <1>2, <1>5, <1>3 DEF TreeInv, SourceOpen, Own, IInv, OpsKnown, IdleOp
<1> QED
  BY <1>8, <1>10, <1>11, <1>12 DEF TreeInv

LEMMA TreeStays == StudyAssumption /\ TreeInv /\ [TurnsNext]_MCvars => TreeInv'
<1> SUFFICES ASSUME StudyAssumption, TreeInv, [TurnsNext]_MCvars PROVE TreeInv'
  OBVIOUS
<1>1. CASE TurnsNext
  <2>1. IInv'
    <3>1. Next
      BY <1>1 DEF TurnsNext, Next
    <3> QED
      BY <3>1, NextIInv DEF TreeInv
  <2>2. crossed' = (crossed \/ (Pending("fork") /\ Pending("delete")))
    BY <1>1 DEF TurnsNext
  <2>3. crossed => crossed'
    BY <2>2
  <2>4. ASSUME NEW t \in Turn, Step(t) \/ Fault(t) \/ \E c \in Conv : Ask(t, c)
        PROVE  TreeInv'
    BY <2>1, <2>3, <2>4, TurnTree
  <2>5. ASSUME NEW t \in Turn, NEW c \in Conv, AskNew(t, c) PROVE TreeInv'
    BY <2>1, <2>3, <2>5, NewTree
  <2>6. ASSUME NEW o \in Op, Begin(o) PROVE TreeInv'
    BY <2>1, <2>3, <2>6, BeginTree
  <2>7. ASSUME NEW o \in Op, Commit(o) PROVE TreeInv'
    BY <2>1, <2>2, <2>3, <2>7, UpdateTree, DeleteTree, ForkTree DEF Commit
  <2> QED
    BY <1>1, <2>4, <2>5, <2>6, <2>7 DEF TurnsNext
<1>2. CASE UNCHANGED MCvars
  <2>1. UNCHANGED vars /\ UNCHANGED crossed
    BY <1>2 DEF MCvars
  <2>2. IInv'
    BY <2>1, NextIInv DEF TreeInv
  <2> QED
    BY <2>1, <2>2, TreeKeeps DEF vars
<1> QED
  BY <1>1, <1>2

-----------------------------------------------------------------------------
\* A later time is on no earlier day.
LEMMA DivMono ==
  ASSUME NEW d \in Nat \ {0}, NEW m \in Nat, NEW t \in 0..m
  PROVE  t \div d \in 0..(m \div d)
<1>1. PICK q : q = t \div d
  OBVIOUS
<1>2. PICK p : p = m \div d
  OBVIOUS
<1>3. q \in Nat /\ d * q <= t /\ t < d * (q + 1)
  BY <1>1
<1>4. p \in Nat /\ d * p <= m /\ m < d * (p + 1)
  BY <1>2
<1>5. d * q < d * (p + 1)
  BY <1>3, <1>4
<1>6. q < p + 1
  BY <1>3, <1>4, <1>5
<1> QED
  BY <1>1, <1>2, <1>3, <1>4, <1>6

\* Days, and what the rows of rules may hold.
LEMMA DaysAre ==
  \A t \in 0..MaxTime : Agent!DayOf(t) \in Agent!Day
  BY RulesAssumption, DivMono DEF Agent!Day, Agent!DayOf

LEMMA RowsAre ==
  /\ \A s \in Settings : s.cooldown \in Nat
  /\ \A x \in Agent!RuleRow : /\ x.fired \in 0..MaxTime
                              /\ x.set \in Settings /\ x.set.cooldown \in Nat
                              /\ \A s \in Settings : [x EXCEPT !.set = s] \in Agent!RuleRow
                              /\ \A on \in BOOLEAN : [x EXCEPT !.on = on] \in Agent!RuleRow
                              /\ \A t \in 0..MaxTime : [x EXCEPT !.fired = t] \in Agent!RuleRow
                              /\ [x EXCEPT !.st = "gone", !.on = FALSE] \in Agent!RuleRow
<1>1. \A s \in Settings : s.cooldown \in Nat
  BY RulesAssumption
<1>2. \A x \in Agent!RuleRow : x.set \in Settings
  BY DEF Agent!RuleRow
<1> QED
  BY <1>1, <1>2 DEF Agent!RuleRow

\* The job's own record.
LEMMA ScansAre ==
  /\ Agent!NoScan.pc = "idle" /\ Agent!NoScan.todo = {} /\ Agent!NoScan.cur = {}
  /\ \A x \in Agent!Scan :
       /\ x.pc \in {"idle", "gate", "suggest", "mark", "broken"}
       /\ x.todo \in SUBSET Rule /\ x.cur \in SUBSET Rule /\ x.at \in 0..MaxTime
       /\ x.seen \in [Rule -> Agent!RuleRow]
       /\ \A p \in {"idle", "gate", "suggest", "mark", "broken"}, T, C \in SUBSET Rule :
            [x EXCEPT !.pc = p, !.todo = T, !.cur = C] \in Agent!Scan
BY DEF Agent!NoScan, Agent!Scan

\* The rows of the inbox: what answers, the sweep and a new suggestion make.
LEMMA ItemsAre ==
  ASSUME NEW x \in Agent!ItemRow
  PROVE  /\ \A a \in {"accept", "dismiss", "snooze"}, t \in 0..MaxTime :
              Agent!Answered(x, a, t) \in Agent!ItemRow
         /\ now \in 1..MaxTime => Agent!Expired(Agent!Promoted(x)) \in Agent!ItemRow
         /\ now \in 1..MaxTime =>
              [status |-> "pending", until |-> 0, made |-> now, ends |-> now + DayLen]
                \in Agent!ItemRow
<1>1. ASSUME NEW a \in {"accept", "dismiss", "snooze"}, NEW t \in 0..MaxTime
      PROVE  Agent!Answered(x, a, t) \in Agent!ItemRow
  BY DEF Agent!Answered, Agent!ItemRow
<1>2. Agent!Promoted(x) \in Agent!ItemRow
  <2>1. 0 \in 0..MaxTime
    BY RulesAssumption
  <2>2. [x EXCEPT !.status = "pending", !.until = 0] \in Agent!ItemRow
    BY <2>1 DEF Agent!ItemRow
  <2> QED
    BY <2>2 DEF Agent!Promoted
<1>3. \A y \in Agent!ItemRow : Agent!Expired(y) \in Agent!ItemRow
  BY DEF Agent!Expired, Agent!ItemRow
<1>4. now \in 1..MaxTime =>
        [status |-> "pending", until |-> 0, made |-> now, ends |-> now + DayLen]
          \in Agent!ItemRow
  BY RulesAssumption DEF Agent!ItemRow
<1> QED
  BY <1>1, <1>2, <1>3, <1>4

\* A step of the members that changes neither rules nor the job.
LEMMA AnswerStep ==
  ASSUME Agent!IInv, UNCHANGED <<now, rule, scan, passes>>,
         item' \in [Rule -> [Agent!Day -> Agent!ItemRow]],
         asked' \in [Slot -> Agent!Answer]
  PROVE  Agent!IInv'
<1>1. Agent!TypeOK'
  BY DEF Agent!IInv, Agent!TypeOK
<1>2. Agent!FiredLast' /\ Agent!SeenLast'
  BY DEF Agent!IInv, Agent!FiredLast, Agent!SeenLast
<1> QED
  BY <1>1, <1>2 DEF Agent!IInv

\* Each action on rules and suggestions keeps the invariant of the inbox.
LEMMA RespondStep ==
  ASSUME Agent!IInv, NEW q \in Slot, Agent!Respond(q)
  PROVE  Agent!IInv'
<1>1. /\ item \in [Rule -> [Agent!Day -> Agent!ItemRow]] /\ asked \in [Slot -> Agent!Answer]
      /\ now \in 1..MaxTime
  BY DEF Agent!IInv, Agent!TypeOK
<1>2. Agent!Idle \in Agent!Answer
  BY DEF Agent!Idle, Agent!Answer
<1>3. ASSUME NEW r \in Rule, NEW d \in Agent!Day, NEW a \in {"accept", "dismiss", "snooze"},
             Agent!ReadItem(q, r, d, a)
      PROVE  Agent!IInv'
  <2>1. [st |-> "read", rule |-> r, day |-> d, action |-> a] \in Agent!Answer
    BY DEF Agent!Answer
  <2>2. asked' \in [Slot -> Agent!Answer]
    BY <1>1, <1>3, <2>1 DEF Agent!ReadItem
  <2> QED
    BY <1>1, <1>3, <2>2, AnswerStep DEF Agent!ReadItem
<1>4. CASE Agent!GiveUp(q)
  <2>1. asked' \in [Slot -> Agent!Answer]
    BY <1>1, <1>2, <1>4 DEF Agent!GiveUp
  <2> QED
    BY <1>1, <1>4, <2>1, AnswerStep DEF Agent!GiveUp
<1>5. CASE Agent!CommitAnswer(q)
  <2>1. asked' \in [Slot -> Agent!Answer]
    BY <1>1, <1>2, <1>5 DEF Agent!CommitAnswer
  <2>2. PICK t \in (now + 1)..MaxTime :
          item' = [item EXCEPT ![asked[q].rule][asked[q].day] = Agent!Answered(@, asked[q].action, t)]
    BY <1>5 DEF Agent!CommitAnswer
  <2>3. PICK r \in Rule, d \in Agent!Day, a \in {"accept", "dismiss", "snooze"} :
          asked[q].rule = r /\ asked[q].day = d /\ asked[q].action = a
    BY <1>1, <1>5 DEF Agent!CommitAnswer, Agent!Answer
  <2>4. t \in 0..MaxTime
    BY <1>1, RulesAssumption
  <2>5. item[r][d] \in Agent!ItemRow
    BY <1>1
  <2>6. Agent!Answered(item[r][d], a, t) \in Agent!ItemRow
    BY <2>4, <2>5, ItemsAre
  <2>7. item' = [item EXCEPT ![r] = [item[r] EXCEPT ![d] = Agent!Answered(item[r][d], a, t)]]
    BY <1>1, <2>2, <2>3
  <2>8. item' \in [Rule -> [Agent!Day -> Agent!ItemRow]]
    BY <1>1, <2>6, <2>7
  <2> QED
    BY <1>5, <2>1, <2>8, AnswerStep DEF Agent!CommitAnswer
<1> QED
  BY <1>3, <1>4, <1>5 DEF Agent!Respond

LEMMA SweepStep ==
  ASSUME Agent!IInv, Agent!Sweep \/ \E m \in Member : Agent!ListInbox(m)
  PROVE  Agent!IInv'
<1>1. /\ item \in [Rule -> [Agent!Day -> Agent!ItemRow]] /\ asked \in [Slot -> Agent!Answer]
      /\ now \in 1..MaxTime
  BY DEF Agent!IInv, Agent!TypeOK
<1>2. PICK rs : item' = Agent!Reclaimed(rs)
  BY DEF Agent!Sweep, Agent!ListInbox
<1>3. ASSUME NEW r \in Rule, NEW d \in Agent!Day
      PROVE  (IF r \in rs THEN Agent!Expired(Agent!Promoted(item[r][d])) ELSE item[r][d])
               \in Agent!ItemRow
  <2>1. item[r][d] \in Agent!ItemRow
    BY <1>1
  <2> QED
    BY <1>1, <2>1, ItemsAre
<1>4. item' \in [Rule -> [Agent!Day -> Agent!ItemRow]]
  BY <1>2, <1>3 DEF Agent!Reclaimed
<1>5. UNCHANGED <<now, rule, scan, asked, passes>>
  BY DEF Agent!Sweep, Agent!ListInbox
<1> QED
  BY <1>1, <1>4, <1>5, AnswerStep

LEMMA TickStep ==
  ASSUME Agent!IInv, Agent!Tick
  PROVE  Agent!IInv'
<1>1. now \in 1..MaxTime /\ now' = now + 1 /\ now < MaxTime
  BY DEF Agent!IInv, Agent!TypeOK, Agent!Tick
<1>2. UNCHANGED <<rule, item, scan, asked, passes>> /\ now' \in 1..MaxTime
  BY <1>1, RulesAssumption DEF Agent!Tick
<1>3. Agent!TypeOK'
  BY <1>2 DEF Agent!IInv, Agent!TypeOK
<1>4. rule \in [Rule -> Agent!RuleRow] /\ \A r \in Rule : rule[r].fired \in 0..MaxTime
  BY RowsAre DEF Agent!IInv, Agent!TypeOK
<1>5. Agent!FiredLast'
  BY <1>1, <1>2, <1>4, RulesAssumption DEF Agent!IInv, Agent!FiredLast
<1>6. scan.pc # "idle" => \A r \in scan.todo : scan.seen[r].fired \in 0..MaxTime
  BY ScansAre, RowsAre DEF Agent!IInv, Agent!TypeOK
<1>7. scan.pc # "idle" => scan.at \in 0..MaxTime
  BY ScansAre DEF Agent!IInv, Agent!TypeOK
<1>8. Agent!SeenLast'
  BY <1>1, <1>2, <1>6, <1>7, RulesAssumption DEF Agent!IInv, Agent!SeenLast
<1> QED
  BY <1>3, <1>5, <1>8 DEF Agent!IInv

\* A member makes, changes, switches or deletes a rule.
LEMMA RowStep ==
  ASSUME Agent!IInv, NEW r \in Rule, NEW x \in Agent!RuleRow,
         rule' = [rule EXCEPT ![r] = x], UNCHANGED <<now, item, scan, asked, passes>>,
         x.st # "free", x.fired = rule[r].fired \/ (rule[r].st = "free" /\ x.fired = 0)
  PROVE  Agent!IInv'
<1>1. rule \in [Rule -> Agent!RuleRow] /\ now \in 1..MaxTime
  BY DEF Agent!IInv, Agent!TypeOK
<1>2. rule'[r] = x /\ \A s \in Rule : s # r => rule'[s] = rule[s]
  BY <1>1
<1>3. Agent!TypeOK'
  BY <1>1 DEF Agent!IInv, Agent!TypeOK
<1>4. Agent!FiredLast'
  <2>1. 0 <= now
    BY <1>1, RulesAssumption
  <2> QED
    BY <1>2, <2>1 DEF Agent!IInv, Agent!FiredLast
<1>5. Agent!SeenLast'
  BY DEF Agent!IInv, Agent!SeenLast
<1> QED
  BY <1>3, <1>4, <1>5 DEF Agent!IInv

LEMMA EditStep ==
  ASSUME Agent!IInv, NEW r \in Rule, Agent!Edit(r)
  PROVE  Agent!IInv'
<1>1. rule \in [Rule -> Agent!RuleRow] /\ rule[r] \in Agent!RuleRow
  BY DEF Agent!IInv, Agent!TypeOK
<1>2. UNCHANGED <<now, item, scan, asked, passes>>
  BY DEF Agent!Edit, Agent!DeleteRule, Agent!CreateRule, Agent!UpdateRule, Agent!SetEnabled
<1>3. CASE Agent!DeleteRule(r)
  <2> DEFINE x == [rule[r] EXCEPT !.st = "gone", !.on = FALSE]
  <2>1. x \in Agent!RuleRow /\ x.st = "gone" /\ x.fired = rule[r].fired
    BY <1>1, RowsAre DEF Agent!RuleRow
  <2>2. rule' = [rule EXCEPT ![r] = x]
    BY <1>1, <1>3 DEF Agent!DeleteRule
  <2> HIDE DEF x
  <2> QED
    BY <1>2, <2>1, <2>2, RowStep
<1>4. ASSUME NEW s \in Settings, Agent!CreateRule(r, s)
      PROVE  Agent!IInv'
  <2> DEFINE x == [st |-> "live", on |-> FALSE, set |-> s, fired |-> 0]
  <2>1. x \in Agent!RuleRow /\ x.st = "live" /\ x.fired = 0
    BY RulesAssumption DEF Agent!RuleRow
  <2>2. rule' = [rule EXCEPT ![r] = x] /\ rule[r].st = "free"
    BY <1>4 DEF Agent!CreateRule
  <2> HIDE DEF x
  <2> QED
    BY <1>2, <2>1, <2>2, RowStep
<1>5. ASSUME NEW s \in Settings, Agent!UpdateRule(r, s)
      PROVE  Agent!IInv'
  <2> DEFINE x == [rule[r] EXCEPT !.set = s]
  <2>1. x \in Agent!RuleRow /\ x.st = rule[r].st /\ x.fired = rule[r].fired
    BY <1>1, RowsAre DEF Agent!RuleRow
  <2>2. rule' = [rule EXCEPT ![r] = x] /\ rule[r].st = "live"
    BY <1>1, <1>5 DEF Agent!UpdateRule
  <2> HIDE DEF x
  <2> QED
    BY <1>2, <2>1, <2>2, RowStep
<1>6. ASSUME NEW on \in BOOLEAN, Agent!SetEnabled(r, on)
      PROVE  Agent!IInv'
  <2> DEFINE x == [rule[r] EXCEPT !.on = on]
  <2>1. x \in Agent!RuleRow /\ x.st = rule[r].st /\ x.fired = rule[r].fired
    BY <1>1, RowsAre DEF Agent!RuleRow
  <2>2. rule' = [rule EXCEPT ![r] = x] /\ rule[r].st = "live"
    BY <1>1, <1>6 DEF Agent!SetEnabled
  <2> HIDE DEF x
  <2> QED
    BY <1>2, <2>1, <2>2, RowStep
<1> QED
  BY <1>3, <1>4, <1>5, <1>6 DEF Agent!Edit

-----------------------------------------------------------------------------
\* The steps of the trigger job.
LEMMA JobStep ==
  ASSUME Agent!IInv, UNCHANGED <<now, rule, item, asked, passes>>,
         scan' = Agent!NoScan \/ scan' \in Agent!Scan, Agent!SeenLast'
  PROVE  Agent!IInv'
<1>1. Agent!TypeOK'
  BY DEF Agent!IInv, Agent!TypeOK
<1>2. Agent!FiredLast'
  BY DEF Agent!IInv, Agent!FiredLast
<1> QED
  BY <1>1, <1>2 DEF Agent!IInv

LEMMA StartScanStep ==
  ASSUME Agent!IInv, Agent!StartScan
  PROVE  Agent!IInv'
<1> DEFINE on == {r \in Rule : rule[r].st = "live" /\ rule[r].on}
<1>1. rule \in [Rule -> Agent!RuleRow] /\ now \in 1..MaxTime
  BY DEF Agent!IInv, Agent!TypeOK
<1>2. /\ scan' = [pc |-> "gate", todo |-> on, cur |-> {}, seen |-> rule, at |-> 0]
      /\ UNCHANGED <<now, rule, item, asked, passes>>
  BY DEF Agent!StartScan
<1>3. on \in SUBSET Rule
  OBVIOUS
<1> HIDE DEF on
<1>4. scan' \in Agent!Scan
  BY <1>1, <1>2, <1>3, RulesAssumption DEF Agent!Scan
<1>5. Agent!SeenLast'
  BY <1>2, <1>3 DEF Agent!SeenLast, Agent!IInv, Agent!FiredLast
<1> QED
  BY <1>2, <1>4, <1>5, JobStep

\* The job ends, is lost, or drops a rule.
LEMMA EndScanStep ==
  ASSUME Agent!IInv, Agent!EndScan \/ Agent!ScanDies
  PROVE  Agent!IInv'
<1>1. scan' = Agent!NoScan /\ UNCHANGED <<now, rule, item, asked, passes>>
  BY DEF Agent!EndScan, Agent!ScanDies
<1>2. Agent!SeenLast'
  BY <1>1 DEF Agent!SeenLast, Agent!NoScan
<1> QED
  BY <1>1, <1>2, JobStep

\* The arbiter looks at the time of firing the job read, which is that of the
\* last firing.
LEMMA GateStep ==
  ASSUME Agent!IInv, NEW r \in Rule, Agent!Gate(r)
  PROVE  Agent!IInv'
<1>1. now \in 1..MaxTime /\ scan.pc = "gate" /\ r \in scan.todo
        /\ UNCHANGED <<now, rule, item, asked, passes>>
  BY DEF Agent!IInv, Agent!TypeOK, Agent!Gate
<1>2. scan \in Agent!Scan
  BY <1>1, ScansAre DEF Agent!IInv, Agent!TypeOK
<1>3. \A s \in scan.todo :
        scan.seen[s].fired <= now /\ \A t \in passes[s] : t <= scan.seen[s].fired
  BY <1>1 DEF Agent!IInv, Agent!SeenLast
<1>4. scan.seen \in [Rule -> Agent!RuleRow] /\ scan.todo \in SUBSET Rule
  BY <1>2, ScansAre
<1>5. CASE /\ Agent!Allowed(r, scan.seen[r])
           /\ scan' = [scan EXCEPT !.pc = "suggest", !.cur = {r}, !.at = now]
  <2>1. scan' \in Agent!Scan /\ scan'.pc = "suggest" /\ scan'.cur = {r} /\ scan'.at = now
          /\ scan'.todo = scan.todo /\ scan'.seen = scan.seen
    <3>1. now \in 0..MaxTime
      BY <1>1, RulesAssumption
    <3>2. {r} \in SUBSET Rule
      BY <1>1, <1>4
    <3> QED
      BY <1>2, <1>5, <3>1, <3>2 DEF Agent!Scan
  <2>2. \A t \in passes[r] : now >= t + scan.seen[r].set.cooldown
    <3>1. scan.seen[r].fired \in 0..MaxTime /\ scan.seen[r].set.cooldown \in Nat
      BY <1>1, <1>4, RowsAre
    <3>2. \A t \in passes[r] : t \in Int /\ 0 < t /\ t <= scan.seen[r].fired
      <4>1. \A t \in passes[r] : t \in 0..MaxTime
        BY DEF Agent!IInv, Agent!TypeOK
      <4> QED
        BY <1>1, <1>3, <4>1, RulesAssumption DEF Agent!IInv, Agent!FiredLast
    <3>3. ~Agent!InCooldown(scan.seen[r], now)
      BY <1>5 DEF Agent!Allowed
    <3> QED
      BY <1>1, <1>3, <3>1, <3>2, <3>3, RulesAssumption DEF Agent!InCooldown
  <2>3. Agent!SeenLast'
    BY <1>1, <1>3, <2>1, <2>2, RulesAssumption DEF Agent!SeenLast
  <2> QED
    BY <1>1, <2>1, <2>3, JobStep
<1>6. CASE scan' = [scan EXCEPT !.todo = @ \ {r}]
  <2>1. scan' \in Agent!Scan /\ scan'.pc = "gate" /\ scan'.todo \subseteq scan.todo
          /\ scan'.seen = scan.seen
    BY <1>1, <1>2, <1>6 DEF Agent!Scan
  <2>2. Agent!SeenLast'
    BY <1>1, <1>3, <2>1 DEF Agent!SeenLast
  <2> QED
    BY <1>1, <2>1, <2>2, JobStep
<1> QED
  BY <1>5, <1>6 DEF Agent!Gate

LEMMA SuggestStep ==
  ASSUME Agent!IInv, NEW r \in Rule, Agent!Suggest(r)
  PROVE  Agent!IInv'
<1>1. now \in 1..MaxTime /\ scan.pc = "suggest" /\ r \in scan.cur
        /\ UNCHANGED <<now, rule, asked, passes>>
        /\ item \in [Rule -> [Agent!Day -> Agent!ItemRow]]
  BY DEF Agent!IInv, Agent!TypeOK, Agent!Suggest
<1>2. scan \in Agent!Scan
  BY <1>1, ScansAre DEF Agent!IInv, Agent!TypeOK
<1>3. /\ scan' \in Agent!Scan /\ scan'.pc \in {"gate", "mark"} /\ scan'.at = scan.at
      /\ scan'.todo \subseteq scan.todo /\ scan'.seen = scan.seen
      /\ scan'.pc = "mark" => scan'.cur = scan.cur
  <2>1. CASE scan' = [scan EXCEPT !.pc = "gate", !.todo = @ \ {r}, !.cur = {}]
    BY <1>2, <2>1 DEF Agent!Scan
  <2>2. CASE scan' = [scan EXCEPT !.pc = "mark"]
    BY <1>2, <2>2 DEF Agent!Scan
  <2> QED
    BY <2>1, <2>2 DEF Agent!Suggest
<1>4. item' \in [Rule -> [Agent!Day -> Agent!ItemRow]]
  <2> DEFINE x == [status |-> "pending", until |-> 0, made |-> now, ends |-> now + DayLen]
             d == Agent!DayOf(scan.at)
  <2>1. d \in Agent!Day
    BY <1>2, ScansAre, DaysAre
  <2>2. item[r][d] \in Agent!ItemRow
    BY <1>1, <2>1
  <2>3. x \in Agent!ItemRow
    BY <1>1, <2>2, ItemsAre
  <2>4. item' = item \/ item' = [item EXCEPT ![r][d] = x]
    BY DEF Agent!Suggest
  <2>5. item' = item \/ item' = [item EXCEPT ![r] = [item[r] EXCEPT ![d] = x]]
    BY <1>1, <2>4
  <2> HIDE DEF x, d
  <2> QED
    BY <1>1, <2>1, <2>3, <2>5
<1>5. Agent!TypeOK'
  BY <1>1, <1>3, <1>4 DEF Agent!IInv, Agent!TypeOK
<1>6. Agent!SeenLast'
  BY <1>1, <1>3 DEF Agent!IInv, Agent!SeenLast
<1>7. Agent!FiredLast'
  BY <1>1 DEF Agent!IInv, Agent!FiredLast
<1> QED
  BY <1>5, <1>6, <1>7 DEF Agent!IInv

\* The firing that is stored is no earlier than the pass it is of, and the job
\* does not come back to the rule.
LEMMA MarkStep ==
  ASSUME Agent!IInv, NEW r \in Rule, Agent!Mark(r)
  PROVE  Agent!IInv'
<1>1. now \in 1..MaxTime /\ scan.pc = "mark" /\ r \in scan.cur
        /\ UNCHANGED <<now, item, asked>> /\ rule \in [Rule -> Agent!RuleRow]
        /\ \A s \in Rule : passes[s] \subseteq 0..MaxTime
  BY DEF Agent!IInv, Agent!TypeOK, Agent!Mark
<1>2. scan \in Agent!Scan
  BY <1>1, ScansAre DEF Agent!IInv, Agent!TypeOK
<1>3. /\ 0 < scan.at /\ scan.at <= now /\ scan.at \in 0..MaxTime
      /\ \A s \in scan.todo :
           scan.seen[s].fired <= now /\ \A t \in passes[s] : t <= scan.seen[s].fired
  BY <1>1, <1>2, ScansAre DEF Agent!IInv, Agent!SeenLast
<1>4. CASE rule[r].st = "live"
  <2>1. /\ rule' = [rule EXCEPT ![r].fired = now]
        /\ passes' = [passes EXCEPT ![r] = @ \cup {scan.at}]
        /\ scan' = [scan EXCEPT !.pc = "gate", !.todo = @ \ {r}, !.cur = {}]
    BY <1>4 DEF Agent!Mark
  <2>2. /\ scan' \in Agent!Scan /\ scan'.pc = "gate" /\ scan'.todo = scan.todo \ {r}
        /\ scan'.seen = scan.seen
    BY <1>2, <2>1 DEF Agent!Scan
  <2>3. [rule[r] EXCEPT !.fired = now] \in Agent!RuleRow
    <3>1. now \in 0..MaxTime
      BY <1>1, RulesAssumption
    <3>2. rule[r] \in Agent!RuleRow
      BY <1>1
    <3> QED
      BY <3>1, <3>2, RowsAre
  <2>4. [rule[r] EXCEPT !.fired = now].fired = now /\ [rule[r] EXCEPT !.fired = now].st = "live"
    BY <1>1, <1>4 DEF Agent!RuleRow
  <2>5. /\ rule' \in [Rule -> Agent!RuleRow]
        /\ rule'[r].fired = now /\ rule'[r].st = "live"
        /\ \A s \in Rule : s # r => rule'[s] = rule[s]
    BY <1>1, <2>1, <2>3, <2>4
  <2>6. \A s \in Rule : /\ s # r => passes'[s] = passes[s]
                        /\ passes'[s] \subseteq passes[s] \cup {scan.at}
    BY <2>1
  <2>7. Agent!TypeOK'
    BY <1>1, <1>3, <2>2, <2>5, <2>6 DEF Agent!IInv, Agent!TypeOK
  <2>8. Agent!FiredLast'
    <3>1. ASSUME NEW t \in passes'[r] PROVE 0 < t /\ t <= now
      <4>1. rule[r].fired \in 0..MaxTime
        BY <1>1, RowsAre
      <4>2. \A u \in passes[r] : u \in 0..MaxTime /\ 0 < u /\ u <= rule[r].fired
        BY <1>1 DEF Agent!IInv, Agent!FiredLast
      <4> QED
        BY <1>1, <1>3, <2>6, <4>1, <4>2, RulesAssumption DEF Agent!IInv, Agent!FiredLast
    <3>2. now <= now
      BY <1>1, RulesAssumption
    <3> QED
      BY <1>1, <2>5, <2>6, <3>1, <3>2 DEF Agent!IInv, Agent!FiredLast
  <2>9. Agent!SeenLast'
    BY <1>1, <1>2, <1>3, <2>2, <2>6, ScansAre DEF Agent!SeenLast
  <2> QED
    BY <2>7, <2>8, <2>9 DEF Agent!IInv
<1>5. CASE rule[r].st # "live"
  <2>1. scan' = [scan EXCEPT !.pc = "broken", !.todo = @ \ {r}] /\ UNCHANGED <<rule, passes>>
    BY <1>5 DEF Agent!Mark
  <2>2. /\ scan' \in Agent!Scan /\ scan'.pc = "broken" /\ scan'.todo \subseteq scan.todo
        /\ scan'.seen = scan.seen
    BY <1>2, <2>1 DEF Agent!Scan
  <2>3. Agent!SeenLast'
    BY <1>1, <1>3, <2>1, <2>2 DEF Agent!SeenLast
  <2> QED
    BY <1>1, <2>1, <2>2, <2>3, JobStep
<1> QED
  BY <1>4, <1>5

\* All of them together.
LEMMA AgentStays == Agent!IInv /\ [Agent!Next]_AgentVars => Agent!IInv'
<1> SUFFICES ASSUME Agent!IInv, [Agent!Next]_AgentVars PROVE Agent!IInv'
  OBVIOUS
<1>1. CASE UNCHANGED AgentVars
  BY <1>1, AnswerStep DEF AgentVars, Agent!IInv, Agent!TypeOK
<1>2. ASSUME NEW r \in Rule, Agent!Gate(r) \/ Agent!Suggest(r) \/ Agent!Mark(r)
      PROVE  Agent!IInv'
  BY <1>2, GateStep, SuggestStep, MarkStep
<1>3. CASE Agent!Trigger
  BY <1>2, <1>3, StartScanStep, EndScanStep DEF Agent!Trigger
<1>4. CASE Agent!Tick \/ Agent!Sweep \/ \E m \in Member : Agent!ListInbox(m)
  BY <1>4, TickStep, SweepStep
<1>5. CASE (\E r \in Rule : Agent!Edit(r)) \/ \E q \in Slot : Agent!Respond(q)
  BY <1>5, EditStep, RespondStep
<1> QED
  BY <1>1, <1>3, <1>4, <1>5 DEF Agent!Next

-----------------------------------------------------------------------------
\* The inbox of the scenes begins in a state of the invariant.
LEMMA AgentBegins ==
  ASSUME Agent!Init \/ Delivered({}) \/ \E days \in {{0}, {0, 1}} : Delivered(days)
  PROVE  Agent!IInv
<1>1. now = 1 /\ scan = Agent!NoScan /\ asked = [q \in Slot |-> Agent!Idle]
        /\ passes = [r \in Rule |-> {}]
  BY DEF Agent!Init, Delivered
<1>2. now \in 1..MaxTime /\ 0 \in 0..MaxTime /\ 1 \in 0..MaxTime
        /\ 0 \in 0..(MaxTime + DayLen) /\ 1 + DayLen \in 0..(MaxTime + DayLen)
  BY <1>1, RulesAssumption
<1>3. Agent!Idle \in Agent!Answer
  BY DEF Agent!Idle, Agent!Answer
<1>4. rule \in [Rule -> Agent!RuleRow] /\ \A r \in Rule : rule[r].fired = 0
  <2>1. CASE Agent!Init
    BY <2>1 DEF Agent!Init
  <2>2. CASE ~Agent!Init
    <3> DEFINE x == [st |-> "gone", on |-> FALSE, fired |-> 0,
                     set |-> CHOOSE s \in Settings : TRUE]
    <3>1. rule = [r \in Rule |-> x]
      BY <2>2 DEF Delivered
    <3>2. (CHOOSE s \in Settings : TRUE) \in Settings
      BY RulesAssumption
    <3>3. x \in Agent!RuleRow /\ x.fired = 0
      BY <1>2, <3>2 DEF Agent!RuleRow
    <3> HIDE DEF x
    <3> QED
      BY <3>1, <3>3
  <2> QED
    BY <2>1, <2>2
<1>5. item \in [Rule -> [Agent!Day -> Agent!ItemRow]]
  <2>1. Agent!NoItem \in Agent!ItemRow
    BY <1>2 DEF Agent!NoItem, Agent!ItemRow
  <2>2. [status |-> "pending", until |-> 0, made |-> 1, ends |-> 1 + DayLen] \in Agent!ItemRow
    BY <1>2 DEF Agent!ItemRow
  <2>3. CASE Agent!Init
    BY <2>1, <2>3 DEF Agent!Init
  <2>4. ASSUME NEW days, Delivered(days)
        PROVE  item \in [Rule -> [Agent!Day -> Agent!ItemRow]]
    BY <2>1, <2>2, <2>4 DEF Delivered
  <2> QED
    BY <2>3, <2>4
<1>6. Agent!TypeOK
  BY <1>1, <1>2, <1>3, <1>4, <1>5 DEF Agent!TypeOK
<1>7. Agent!FiredLast
  BY <1>1, <1>4 DEF Agent!FiredLast
<1>8. Agent!SeenLast
  BY <1>1, ScansAre DEF Agent!SeenLast
<1> QED
  BY <1>6, <1>7, <1>8 DEF Agent!IInv

\* A set of at most one element has no two.
LEMMA OneAtMost ==
  ASSUME NEW S, IsFiniteSet(S), Cardinality(S) <= 1, NEW x \in S, NEW y \in S
  PROVE  x = y
<1>1. Cardinality({x}) = 1 /\ Cardinality({y}) = 1
  BY FS_Singleton
<1>2. Cardinality(S) \in Nat /\ Cardinality({x}) <= Cardinality(S)
  BY FS_CardinalityType, FS_Subset
<1>3. {x} = S
  BY <1>1, <1>2, FS_Subset
<1> QED
  BY <1>3

\* What a step does to the answers under way.
LEMMA AnswerMoves ==
  ASSUME Agent!IInv, Agent!Next, NEW q \in Slot, asked'[q].st = "read"
  PROVE  \/ asked'[q] = asked[q]
         \/ item' = item /\ item[asked'[q].rule][asked'[q].day].status = "pending"
<1>1. asked \in [Slot -> Agent!Answer] /\ Agent!Idle.st = "idle"
  BY DEF Agent!IInv, Agent!TypeOK, Agent!Idle
<1>2. ASSUME NEW p \in Slot, Agent!CommitAnswer(p) \/ Agent!GiveUp(p)
      PROVE  asked'[q] = asked[q]
  BY <1>1, <1>2 DEF Agent!CommitAnswer, Agent!GiveUp
<1>3. ASSUME NEW p \in Slot, NEW r \in Rule, NEW d \in Agent!Day,
             NEW a \in {"accept", "dismiss", "snooze"}, Agent!ReadItem(p, r, d, a)
      PROVE  \/ asked'[q] = asked[q]
             \/ item' = item /\ item[asked'[q].rule][asked'[q].day].status = "pending"
  BY <1>1, <1>3 DEF Agent!ReadItem
<1>4. CASE asked' = asked
  BY <1>4
<1>5. CASE asked' # asked
  <2>1. PICK p \in Slot : Agent!Respond(p)
    BY <1>5 DEF Agent!Next, Agent!Tick, Agent!Sweep, Agent!ListInbox, Agent!Edit, Agent!DeleteRule,
       Agent!CreateRule, Agent!UpdateRule, Agent!SetEnabled, Agent!Trigger, Agent!StartScan,
       Agent!EndScan, Agent!ScanDies, Agent!Gate, Agent!Suggest, Agent!Mark
  <2> QED
    BY <1>2, <1>3, <2>1 DEF Agent!Respond
<1> QED
  BY <1>4, <1>5

\* While answers and sweeps do not overlap, what one has read stays so.
LEMMA AnswersStay ==
  ASSUME IsFiniteSet(Slot), Agent!IInv, AnswersKnown, AgentNext
  PROVE  AnswersKnown'
<1> SUFFICES ASSUME alone' PROVE AnswersKnown'
  BY DEF AnswersKnown
<1> DEFINE S == {q \in Slot : asked[q].st = "read"}
           T == {q \in Slot : asked'[q].st = "read"}
<1>1. alone /\ Cardinality(T) <= 1 /\ (Cardinality(S) = 1 /\ item' # item => Cardinality(T) = 0)
  BY DEF AgentNext, Answering
<1>2. IsFiniteSet(S) /\ IsFiniteSet(T)
  BY FS_Subset
<1>3. \A p, q \in Slot : asked'[p].st = "read" /\ asked'[q].st = "read" => p = q
  BY <1>1, <1>2, OneAtMost
<1>4. ASSUME NEW q \in Slot, asked'[q].st = "read"
      PROVE  item'[asked'[q].rule][asked'[q].day].status = "pending"
  <2>1. CASE asked'[q] = asked[q]
    <3>1. S = {q}
      BY <1>1, <1>4, <2>1 DEF AnswersKnown
    <3>2. Cardinality(S) = 1
      BY <3>1, FS_Singleton
    <3>3. Cardinality(T) # 0
      BY <1>2, <1>4, FS_EmptySet
    <3>4. item' = item
      BY <1>1, <3>2, <3>3
    <3> QED
      BY <1>1, <1>4, <2>1, <3>4 DEF AnswersKnown
  <2>2. CASE asked'[q] # asked[q]
    BY <1>4, <2>2, AnswerMoves DEF AgentNext
  <2> QED
    BY <2>1, <2>2
<1> QED
  BY <1>3, <1>4 DEF AnswersKnown

\* No step takes back what is accepted, dismissed or expired, if what is
\* answered is still pending.
LEMMA FinalKept ==
  ASSUME Agent!IInv, Agent!Next, NEW r \in Rule, NEW d \in Agent!Day,
         \A q \in Slot : asked[q].st = "read" =>
           item[asked[q].rule][asked[q].day].status = "pending",
         item[r][d].status \in Agent!Final
  PROVE  item'[r][d].status = item[r][d].status
<1>1. item \in [Rule -> [Agent!Day -> Agent!ItemRow]] /\ (scan = Agent!NoScan \/ scan \in Agent!Scan)
  BY DEF Agent!IInv, Agent!TypeOK
<1>2. item[r][d].status \notin {"none", "pending", "snoozed"}
  BY DEF Agent!Final
<1>3. ASSUME NEW s \in Rule, Agent!Suggest(s)
      PROVE  item'[r][d] = item[r][d]
  <2>1. CASE item' = item
    BY <2>1
  <2>2. CASE item' # item
    <3>1. item[s][Agent!DayOf(scan.at)].status = "none"
      BY <1>3, <2>2 DEF Agent!Suggest
    <3>2. PICK x : item' = [item EXCEPT ![s][Agent!DayOf(scan.at)] = x]
      BY <1>3, <2>2 DEF Agent!Suggest
    <3>3. ~(s = r /\ Agent!DayOf(scan.at) = d)
      BY <1>2, <3>1
    <3> HIDE DEF Agent!DayOf
    <3> QED
      BY <1>1, <3>2, <3>3
  <2> QED
    BY <2>1, <2>2
<1>4. ASSUME NEW q \in Slot, Agent!CommitAnswer(q)
      PROVE  item'[r][d] = item[r][d]
  <2>1. item[asked[q].rule][asked[q].day].status = "pending"
    BY <1>4 DEF Agent!CommitAnswer
  <2>2. ~(asked[q].rule = r /\ asked[q].day = d)
    BY <1>2, <2>1
  <2>3. PICK t : item' = [item EXCEPT ![asked[q].rule][asked[q].day] =
                            Agent!Answered(@, asked[q].action, t)]
    BY <1>4 DEF Agent!CommitAnswer
  <2> QED
    BY <1>1, <2>2, <2>3
<1>5. ASSUME NEW rs, item' = Agent!Reclaimed(rs)
      PROVE  item'[r][d].status = item[r][d].status
  <2>1. Agent!Expired(Agent!Promoted(item[r][d])) = item[r][d]
    BY <1>2 DEF Agent!Promoted, Agent!Expired
  <2> QED
    BY <1>5, <2>1 DEF Agent!Reclaimed
<1>6. CASE item' = item
  BY <1>6
<1>7. CASE item' # item
  <2>1. \/ \E s \in Rule : Agent!Suggest(s)
        \/ \E q \in Slot : Agent!CommitAnswer(q)
        \/ \E rs : item' = Agent!Reclaimed(rs)
    BY <1>7 DEF Agent!Next, Agent!Tick, Agent!Sweep, Agent!ListInbox, Agent!Edit, Agent!DeleteRule,
       Agent!CreateRule, Agent!UpdateRule, Agent!SetEnabled, Agent!Trigger, Agent!StartScan,
       Agent!EndScan, Agent!ScanDies, Agent!Gate, Agent!Mark, Agent!Respond, Agent!GiveUp,
       Agent!ReadItem
  <2> QED
    BY <1>3, <1>4, <1>5, <2>1
<1> QED
  BY <1>6, <1>7

-----------------------------------------------------------------------------
\* The invariant of the assistant and of the inbox together.
LEMMA AssistantInvariant == ServiceSpec => [](TreeInv /\ Agent!IInv)
<1> DEFINE Inv == TreeInv /\ Agent!IInv
<1>1. AssistantInit => Inv
  <2> SUFFICES ASSUME AssistantInit PROVE Inv
    OBVIOUS
  <2>1. Agent!Init \/ Delivered({}) \/ \E days \in {{0}, {0, 1}} : Delivered(days)
    BY DEF AssistantInit
  <2>2. Agent!IInv
    BY <2>1, AgentBegins
  <2>3. (GrownInit \/ Init) /\ crossed = FALSE
    BY DEF AssistantInit, MCInit
  <2>4. TreeInv
    BY <2>3, TurnsAssumption, TreeBegins
  <2> QED
    BY <2>2, <2>4
<1>2. Inv /\ [ServiceNext]_<<MCvars, AgentVars>> => Inv'
  <2> SUFFICES ASSUME Inv, [ServiceNext]_<<MCvars, AgentVars>> PROVE Inv'
    OBVIOUS
  <2>1. [TurnsNext]_MCvars /\ [AgentNext]_AgentVars
    BY DEF ServiceNext
  <2>2. TreeInv'
    BY <2>1, StudyAssumption, TreeStays
  <2>3. Agent!IInv'
    <3>1. [Agent!Next]_AgentVars
      BY <2>1 DEF AgentNext
    <3> QED
      BY <3>1, AgentStays
  <2> QED
    BY <2>2, <2>3
<1> HIDE DEF Inv
<1>3. ServiceSpec => []Inv
  BY <1>1, <1>2, PTL DEF ServiceSpec
<1> QED
  BY <1>3, PTL DEF Inv

\* A conversation that is not deleted has no deleted conversation above it, as
\* long as no branch is made while a deletion is under way: what a deletion
\* loads is closed under branches, down the whole tree.
THEOREM SpecTreeKept == ServiceSpec => []SerialTreeKept
<1>1. TreeInv => SerialTreeKept
  BY DEF TreeInv
<1> QED
  BY <1>1, AssistantInvariant, PTL

\* Two suggestions of a rule are the cooldown apart, whatever the members do to
\* the rule meanwhile and wherever the job dies, unless the firing of the first
\* was never stored.
THEOREM SpecSuggestionsSpaced == ServiceSpec => []SuggestionsSpaced
<1>1. Agent!IInv => SuggestionsSpaced
  <2> SUFFICES ASSUME Agent!IInv, scan.pc = "mark" PROVE Agent!SuggestionsSpaced
    BY DEF SuggestionsSpaced, Agent!SuggestionsSpaced
  <2> QED
    BY DEF Agent!IInv, Agent!SeenLast, Agent!SuggestionsSpaced
<1> QED
  BY <1>1, AssistantInvariant, PTL

\* An answer that is alone under way is about a pending suggestion.
LEMMA AnswersInvariant ==
  ASSUME IsFiniteSet(Slot)
  PROVE  ServiceSpec => []AnswersKnown
<1>1. AssistantInit => AnswersKnown
  <2> SUFFICES ASSUME AssistantInit PROVE AnswersKnown
    OBVIOUS
  <2>1. asked = [q \in Slot |-> Agent!Idle]
    BY DEF AssistantInit, Agent!Init, Delivered
  <2> QED
    BY <2>1 DEF AnswersKnown, Agent!Idle
<1>2. Agent!IInv /\ AnswersKnown /\ [ServiceNext]_<<MCvars, AgentVars>> => AnswersKnown'
  <2> SUFFICES ASSUME Agent!IInv, AnswersKnown, [ServiceNext]_<<MCvars, AgentVars>>
               PROVE  AnswersKnown'
    OBVIOUS
  <2>1. CASE AgentNext
    BY <2>1, AnswersStay
  <2>2. CASE UNCHANGED AgentVars
    BY <2>2 DEF AgentVars, AnswersKnown
  <2> QED
    BY <2>1, <2>2 DEF ServiceNext
<1> QED
  BY <1>1, <1>2, AssistantInvariant, PTL DEF ServiceSpec

\* What is accepted, dismissed or expired stays so as long as answers and sweeps
\* come one at a time.
THEOREM SpecFinalStays ==
  ASSUME IsFiniteSet(Slot)
  PROVE  ServiceSpec => SerialFinalStays
<1> DEFINE A == ~Turns /\ alone' =>
                  \A r \in Rule, d \in Agent!Day :
                    item[r][d].status \in Agent!Final => item'[r][d].status = item[r][d].status
<1>1. Agent!IInv /\ AnswersKnown /\ [ServiceNext]_<<MCvars, AgentVars>> => [A]_AgentVars
  <2> SUFFICES ASSUME Agent!IInv, AnswersKnown, ServiceNext, ~Turns, alone',
                      NEW r \in Rule, NEW d \in Agent!Day, item[r][d].status \in Agent!Final
               PROVE  item'[r][d].status = item[r][d].status
    BY DEF AgentVars
  <2>1. AgentNext
    BY DEF ServiceNext
  <2>2. alone /\ Agent!Next
    BY <2>1 DEF AgentNext
  <2> QED
    BY <2>2, FinalKept DEF AnswersKnown
<1> QED
  BY <1>1, AssistantInvariant, AnswersInvariant, PTL DEF ServiceSpec, SerialFinalStays
=============================================================================
