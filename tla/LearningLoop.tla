----------------------------- MODULE LearningLoop -----------------------------
(***************************************************************************)
(* What one user learns from one exam: the answers, the mistakes they leave*)
(* behind, the reviews of the mistakes, and the plan of a day that is made *)
(* of the due ones (services/exam_service.py, repositories/tools_repo.py,  *)
(* services/auxilio_service.py, api/v1/auxilio.py).                        *)
(*                                                                         *)
(* Requests run side by side in transactions of their own (READ COMMITTED).*)
(* A request is one action per statement where another request may come    *)
(* between; a flushed row stays locked until its transaction ends.         *)
(***************************************************************************)
EXTENDS Integers, Sequences, FiniteSets

CONSTANTS
    Question,  \* the exam's questions, all of type single_choice; numbers
    Request,   \* the requests under way at one time
    Days,      \* days a plan can be made for: 1..Days
    Items,     \* how many plan items there may be: ids are 1..Items
    MaxNow,    \* bound of the clock
    Limit,     \* duration_minutes, in ticks of the clock; 0 is no limit
    DailyBudget, \* minutes per day the goals give: their weekly sum div 7
    Knowledge, \* a plan item about a weak tag
    Resource,  \* a plan item about a resource with that tag
    None

ASSUME LearningAssumption ==
    /\ Question \subseteq Nat /\ IsFiniteSet(Question)
    /\ Days \in Nat /\ Items \in Nat /\ MaxNow \in Nat
    /\ Limit \in Nat /\ DailyBudget \in Nat
    /\ None \notin Nat \cup Request

Day == 1..Days
Time == 0..MaxNow

\* What a plan item is about: a mistake, the weak tag of the exam, a resource.
Source == Question \cup {Knowledge, Resource}

ExamRow ==
    [status : {"draft", "published", "ended"},
     start : Time \cup {None}, end : Time \cup {None}]

AttemptRow == [at : Time, right : BOOLEAN]

\* A row of learning_wrong_answers; no row has count 0.
MistakeRow ==
    [count : Nat, streak : 0..6, status : {"new", "reviewing", "mastered"}, due : Nat]

ItemRow ==
    [day : Day, made : Day, source : Source,
     status : {"planned", "completed", "deferred", "skipped"}, locked : BOOLEAN]

ASSUME NoItemAssumption == None \notin ItemRow

RequestState ==
    [pc : {"none", "lookup", "flush", "commit", "review", "insert", "update"},
     q : Question \cup {None}, right : BOOLEAN, checked : Time \cup {None},
     found : BOOLEAN,       \* get_attempt found a row
     seen : MistakeRow,     \* the mistake as read
     feedback : {"again", "hard", "good", "easy", "mark", "reopen", None},
     day : Day \cup {None}, \* of the plan, or the one to defer to
     chosen : Seq(Source), granted : Nat,
     item : 0..Items, edit : {"completed", "deferred", "skipped", "lock", "unlock", "move", None}]

VARIABLES
    now,
    exam,     \* ExamRow
    attempt,  \* [Question -> AttemptRow \cup {None}], exam_attempts
    mistake,  \* [Question -> MistakeRow], learning_wrong_answers
    locked,   \* [Question -> Request \cup {None}], who has flushed an attempt
    focused,  \* [Day -> minutes of focus_sessions]
    item,     \* [1..Items -> ItemRow \cup {None}], learning_plan_items
    req       \* [Request -> RequestState]

learned == <<attempt, mistake, locked>>
vars == <<now, exam, attempt, mistake, locked, focused, item, req>>

NoMistake == [count |-> 0, streak |-> 0, status |-> "new", due |-> 0]

Idle ==
    [pc |-> "none", q |-> None, right |-> FALSE, checked |-> None, found |-> FALSE,
     seen |-> NoMistake, feedback |-> None, day |-> None, chosen |-> <<>>,
     granted |-> 0, item |-> 0, edit |-> None]

Init ==
    /\ now = 0
    /\ exam = [status |-> "draft", start |-> None, end |-> None]
    /\ attempt = [q \in Question |-> None]
    /\ mistake = [q \in Question |-> NoMistake]
    /\ locked = [q \in Question |-> None]
    /\ focused = [d \in Day |-> 0]
    /\ item = [i \in 1..Items |-> None]
    /\ req = [r \in Request |-> Idle]

Goes(r, state) == req' = [req EXCEPT ![r] = state]

Tick ==
    /\ now < MaxNow /\ now' = now + 1
    /\ UNCHANGED <<exam, learned, focused, item, req>>

-----------------------------------------------------------------------------
(* The exam.                                                               *)

\* update_exam: an administrator sets any of the columns.
EditExam(status, start, end) ==
    /\ exam' = [status |-> status, start |-> start, end |-> end]
    /\ UNCHANGED <<now, learned, focused, item, req>>

PublishExam == EditExam("published", exam.start, exam.end)

EndExam == EditExam("ended", exam.start, now)

-----------------------------------------------------------------------------
(* Answers.                                                                *)

Answered == {q \in Question : attempt[q] # None}

\* first_attempt_at: the earliest submitted_at among the rows there are.
FirstAttempt == CHOOSE t \in {attempt[q].at : q \in Answered} :
                  \A q \in Answered : t <= attempt[q].at

\* The exam takes answers now.
Open ==
    /\ exam.status = "published"
    /\ exam.start # None => exam.start <= now
    /\ exam.end # None => now <= exam.end

InTime == Limit > 0 /\ Answered # {} => now - FirstAttempt <= Limit

\* submit_answer, its checks.
BeginSubmit(r, q, right) ==
    /\ req[r] = Idle /\ Open /\ InTime
    /\ Goes(r, [Idle EXCEPT !.pc = "lookup", !.q = q, !.right = right, !.checked = now])
    /\ UNCHANGED <<now, exam, learned, focused, item>>

\* get_attempt.
Lookup(r) ==
    /\ req[r].pc = "lookup"
    /\ Goes(r, [req[r] EXCEPT !.pc = "flush", !.found = (attempt[req[r].q] # None)])
    /\ UNCHANGED <<now, exam, learned, focused, item>>

\* Mistake, for MistakesExact: the flush does not wait, as if the row were
\* written at the end of the transaction only.
AnyTime(r, q) == TRUE

\* No other request has flushed the row of q, or one with its key.
Free(r, q) == locked[q] \in {None, r}

\* The flush of upsert_attempt waits for the row; an insert beside one that was
\* committed meanwhile fails on ux_exam_attempts_unique.  Then the mistake is read.
Flush(r) ==
    LET q == req[r].q IN
    /\ req[r].pc = "flush" /\ Free(r, q)
    /\ IF ~req[r].found /\ attempt[q] # None
         THEN Goes(r, Idle) /\ UNCHANGED locked
         ELSE /\ locked' = [locked EXCEPT ![q] = r]
              /\ Goes(r, [req[r] EXCEPT !.pc = "commit", !.seen = mistake[q]])
    /\ UNCHANGED <<now, exam, attempt, mistake, focused, item>>

\* The session writes a column only if its value is not the one it read.
Written(current, seen, value) == IF value = seen THEN current ELSE value

\* Mistake, for SerialReviewsCount: the snapshot is refreshed, the status kept.
StillMastered(old, seen) == [old EXCEPT !.count = seen.count + 1, !.due = now]

\* _sync_wrong_answer on a wrong answer; the streak is left as it is.
WrongAgain(old, seen) ==
    [old EXCEPT !.count = seen.count + 1, !.due = now,
                !.status = IF seen.count = 0 THEN "new" ELSE Written(@, seen.status, "new")]

\* The answer and the mistake are committed.
CommitSubmit(r) ==
    LET q == req[r].q IN
    /\ req[r].pc = "commit"
    /\ attempt' = [attempt EXCEPT ![q] = [at |-> now, right |-> req[r].right]]
    /\ mistake' = IF req[r].right THEN mistake
                  ELSE [mistake EXCEPT ![q] = WrongAgain(@, req[r].seen)]
    /\ locked' = [locked EXCEPT ![q] = None]
    /\ Goes(r, Idle)
    /\ UNCHANGED <<now, exam, focused, item>>

-----------------------------------------------------------------------------
(* Reviews.                                                                *)

\* A review, or a status set by hand, has read its mistake.
BeginReview(r, q, feedback) ==
    /\ req[r] = Idle /\ mistake[q].count > 0
    /\ Goes(r, [Idle EXCEPT !.pc = "review", !.q = q, !.feedback = feedback,
                            !.seen = mistake[q]])
    /\ UNCHANGED <<now, exam, learned, focused, item>>

AtLeast1(n) == IF n < 1 THEN 1 ELSE n
AtMost6(n) == IF n > 6 THEN 6 ELSE n

\* review_wrong_answer: the streak, the status and the days to wait that follow
\* from a feedback.  Days are ticks, and the intervals of good and easy, one for
\* each streak of 1..6, grow with it.  "mark" and "reopen" are update_mistake.
Outcome(seen, feedback) ==
    CASE feedback = "again"  -> [streak |-> 0, status |-> "new", wait |-> 0]
      [] feedback = "hard"   -> [streak |-> AtLeast1(seen.streak), status |-> "reviewing", wait |-> 1]
      [] feedback = "good"   -> [streak |-> AtMost6(seen.streak + 1), status |-> "reviewing",
                                 wait |-> AtMost6(seen.streak + 1)]
      [] feedback = "easy"   -> [streak |-> AtMost6(seen.streak + 1), status |-> "mastered",
                                 wait |-> 3 * AtMost6(seen.streak + 1)]
      [] feedback = "mark"   -> [streak |-> seen.streak, status |-> "mastered", wait |-> 0]
      [] feedback = "reopen" -> [streak |-> seen.streak, status |-> "new", wait |-> 0]

Reviewed(old, seen, feedback) ==
    LET new == Outcome(seen, feedback) IN
    [old EXCEPT !.streak = Written(@, seen.streak, new.streak),
                !.status = Written(@, seen.status, new.status),
                !.due = IF feedback = "reopen" THEN @ ELSE now + new.wait]

CommitReview(r) ==
    LET q == req[r].q IN
    /\ req[r].pc = "review"
    /\ mistake' = [mistake EXCEPT ![q] = Reviewed(@, req[r].seen, req[r].feedback)]
    /\ Goes(r, Idle)
    /\ UNCHANGED <<now, exam, attempt, locked, focused, item>>

-----------------------------------------------------------------------------
(* The plan of a day.                                                      *)

Ids == {i \in 1..Items : item[i] # None}
On(d) == {i \in Ids : item[i].day = d}

\* A round of the pomodoro timer is reported.
Focus(d, minutes) ==
    /\ focused' = [focused EXCEPT ![d] = @ + minutes]
    /\ UNCHANGED <<now, exam, learned, item, req>>

\* estimated_minutes.
Minutes(s) == CASE s = Knowledge -> 25 [] s = Resource -> 30 [] OTHER -> 15

\* The due mistakes, the one due longest first.
Due == {q \in Question : mistake[q].count > 0 /\ mistake[q].status # "mastered"
                           /\ mistake[q].due <= now}
Before(p, q) == mistake[p].due < mistake[q].due \/ (mistake[p].due = mistake[q].due /\ p < q)
DueInOrder == CHOOSE s \in [1..Cardinality(Due) -> Due] :
                \A i, j \in 1..Cardinality(Due) : i < j => Before(s[i], s[j])

\* The candidates in the order they are considered.  A tag is weak by the score
\* analyze_learning_profile computes, which needs an answer.
Candidates(weak) == DueInOrder \o IF weak THEN <<Knowledge, Resource>> ELSE <<>>

\* Mistake, for SerialPlanFits: what was taken before is not counted.
TakenSingly(cands, left) ==
    SelectSeq(cands, LAMBDA s : Minutes(s) <= left)

\* What is chosen of the candidates: each that still fits.
Taken(cands, left) ==
    LET after[i \in 0..Len(cands)] ==
          IF i = 0 THEN [took |-> <<>>, left |-> left]
          ELSE IF Minutes(cands[i]) <= after[i - 1].left
                 THEN [took |-> Append(after[i - 1].took, cands[i]),
                       left |-> after[i - 1].left - Minutes(cands[i])]
                 ELSE after[i - 1]
    IN  after[Len(cands)].took

\* What the goals of the user leave for the day: paused ones count, completed
\* ones do not.
Remaining(d) == IF DailyBudget > focused[d] THEN DailyBudget - focused[d] ELSE 0

\* generate_learning_plan: nothing if the day has an item, whatever put it there.
BeginPlan(r, d) ==
    /\ req[r] = Idle /\ On(d) = {} /\ Remaining(d) >= 15
    /\ \E weak \in BOOLEAN :
         /\ weak => Answered # {}
         /\ Goes(r, [Idle EXCEPT !.pc = "insert", !.day = d, !.granted = Remaining(d),
                                 !.chosen = Taken(Candidates(weak), Remaining(d))])
    /\ UNCHANGED <<now, exam, learned, focused, item>>

\* The items are inserted together, or not at all if the day has one of them by
\* now (ux_learning_plan_items_user_date_source).
CommitPlan(r) ==
    LET d == req[r].day
        chosen == req[r].chosen
        last == Cardinality(Ids)
    IN
    /\ req[r].pc = "insert"
    /\ IF \E i \in On(d), k \in 1..Len(chosen) : item[i].source = chosen[k]
         THEN UNCHANGED item
         ELSE /\ last + Len(chosen) <= Items
              /\ item' = [i \in 1..Items |->
                   IF i \in (last + 1)..(last + Len(chosen))
                     THEN [day |-> d, made |-> d, source |-> chosen[i - last],
                           status |-> "planned", locked |-> FALSE]
                     ELSE item[i]]
    /\ Goes(r, Idle)
    /\ UNCHANGED <<now, exam, learned, focused>>

\* update_learning_plan_item has read its item and checked the change: a locked
\* item is not moved, an item moves to a later day that lacks its like.
BeginEdit(r, i, edit, d) ==
    /\ req[r] = Idle /\ i \in Ids
    /\ edit = "move" =>
         /\ ~item[i].locked /\ d > item[i].day
         /\ \A j \in On(d) : item[j].source # item[i].source
    /\ Goes(r, [Idle EXCEPT !.pc = "update", !.item = i, !.edit = edit,
                            !.day = IF edit = "move" THEN d ELSE None])
    /\ UNCHANGED <<now, exam, learned, focused, item>>

Edited(old, edit, d) ==
    CASE edit = "move" -> [old EXCEPT !.day = d, !.status = "planned"]
      [] edit = "lock" -> [old EXCEPT !.locked = TRUE]
      [] edit = "unlock" -> [old EXCEPT !.locked = FALSE]
      [] OTHER -> [old EXCEPT !.status = edit]

CommitEdit(r) ==
    LET i == req[r].item IN
    /\ req[r].pc = "update"
    /\ item' = IF req[r].edit = "move"
                    /\ \E j \in On(req[r].day) \ {i} : item[j].source = item[i].source
                 THEN item
                 ELSE [item EXCEPT ![i] = Edited(@, req[r].edit, req[r].day)]
    /\ Goes(r, Idle)
    /\ UNCHANGED <<now, exam, learned, focused>>

-----------------------------------------------------------------------------
Administer ==
    \/ PublishExam \/ EndExam
    \/ \E status \in {"draft", "published", "ended"}, start, end \in Time \cup {None} :
         EditExam(status, start, end)

Begin(r) ==
    \/ \E q \in Question, right \in BOOLEAN : BeginSubmit(r, q, right)
    \/ \E q \in Question, f \in {"again", "hard", "good", "easy", "mark", "reopen"} : BeginReview(r, q, f)
    \/ \E d \in Day : BeginPlan(r, d)
    \/ \E i \in 1..Items, d \in Day, e \in {"completed", "deferred", "skipped", "lock", "unlock", "move"} :
         BeginEdit(r, i, e, d)

Commit(r) == CommitSubmit(r) \/ CommitReview(r) \/ CommitPlan(r) \/ CommitEdit(r)

Next ==
    \/ Tick \/ Administer
    \/ \E d \in Day, minutes \in {15, 25} : Focus(d, minutes)
    \/ \E r \in Request : Begin(r) \/ Lookup(r) \/ Flush(r) \/ Commit(r)

Spec == Init /\ [][Next]_vars

-----------------------------------------------------------------------------
TypeOK ==
    /\ now \in Time
    /\ exam \in ExamRow
    /\ attempt \in [Question -> AttemptRow \cup {None}]
    /\ mistake \in [Question -> MistakeRow]
    /\ locked \in [Question -> Request \cup {None}]
    /\ focused \in [Day -> Nat]
    /\ item \in [1..Items -> ItemRow \cup {None}]
    /\ req \in [Request -> RequestState]
=============================================================================
