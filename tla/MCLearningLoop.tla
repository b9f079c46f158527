---------------------------- MODULE MCLearningLoop ----------------------------
(* Small instances of LearningLoop for TLC. *)
EXTENDS LearningLoop, TLC

\* Bounds of a behaviour: requests begun, ticks, changes of the exam, questions,
\* and rounds of the timer.
Bounds ==
    [answers |-> [begun |-> 3, ticks |-> 1, edits |-> 2, questions |-> {1}, rounds |-> 0,
                  kinds |-> {"lookup", "review"}],
     limited |-> [begun |-> 3, ticks |-> 3, edits |-> 1, questions |-> {1, 2}, rounds |-> 0,
                  kinds |-> {"lookup"}],
     plans   |-> [begun |-> 3, ticks |-> 1, edits |-> 0, questions |-> {1, 2}, rounds |-> 1,
                  kinds |-> {"insert", "update"}]]

Symmetric == Permutations(Request)

VARIABLES
    scene, begun, edits, rounds,   \* which bounds, and what they bound
    wrong,     \* history: the wrong answers to each question that were committed
    unseen,    \* history: no review since the last wrong answer
    crossed,   \* history: a review and a wrong answer had both read the mistake
    granted,   \* history: the minutes left for a day when its plan was made
    doubled,   \* history: two plans of a day were made at the same time
    firstAt,   \* history: when the first answer of all was checked
    late       \* history: the latest time an answer that was committed was checked

\* In the scene of plans both questions have been answered wrong, and the second
\* one is due at once or has been put off.
Learned ==
    /\ now = 0
    /\ exam = [status |-> "published", start |-> None, end |-> None]
    /\ attempt = [q \in Question |-> [at |-> 0, right |-> FALSE]]
    /\ \E due \in {0, 1} :
         mistake = [q \in Question |-> [NoMistake EXCEPT !.count = 1, !.due = IF q = 2 THEN due ELSE 0]]
    /\ locked = [q \in Question |-> None]
    /\ focused = [d \in Day |-> 0]
    /\ item = [i \in 1..Items |-> None]
    /\ req = [r \in Request |-> Idle]

LearnInit ==
    /\ Init \/ Learned
    /\ wrong = [q \in Question |-> mistake[q].count]
    /\ unseen = [q \in Question |-> FALSE]
    /\ crossed = [q \in Question |-> FALSE]
    /\ granted = [d \in Day |-> 0]
    /\ doubled = [d \in Day |-> FALSE]
    /\ firstAt = None /\ late = None

\* The request that ends in this step, and what it was.
Ended(pc) == {r \in Request : req[r].pc = pc /\ req'[r].pc = "none"}

Answers(q) == \E r \in Ended("commit") : req[r].q = q /\ ~req[r].right

Reads(q, pc) == \E r \in Request : req[r].pc = pc /\ req[r].q = q

Plans(r, d) == req[r].pc = "insert" /\ req[r].day = d

Histories ==
    /\ wrong' = [q \in Question |-> IF Answers(q) THEN wrong[q] + 1 ELSE wrong[q]]
    /\ unseen' = [q \in Question |->
                   IF Answers(q) THEN TRUE
                   ELSE IF \E r \in Ended("review") : req[r].q = q THEN FALSE ELSE unseen[q]]
    /\ crossed' = [q \in Question |-> crossed[q] \/ (Reads(q, "commit") /\ Reads(q, "review"))]
    /\ granted' = [d \in Day |->
                    IF item' # item /\ \E r \in Ended("insert") : req[r].day = d
                      THEN req[CHOOSE r \in Ended("insert") : TRUE].granted ELSE granted[d]]
    /\ doubled' = [d \in Day |->
                    doubled[d] \/ \E r, s \in Request : r # s /\ Plans(r, d) /\ Plans(s, d)]
    /\ firstAt' = IF firstAt = None /\ Ended("commit") # {}
                    THEN req[CHOOSE r \in Ended("commit") : TRUE].checked ELSE firstAt
    /\ late' = IF Ended("commit") # {} THEN req[CHOOSE r \in Ended("commit") : TRUE].checked ELSE late

history == <<wrong, unseen, crossed, granted, doubled, firstAt, late>>

\* With histories and without bounds.
LearnNext == Next /\ Histories
LearnSpec == LearnInit /\ [][LearnNext]_<<vars, history>>

MCInit ==
    /\ LearnInit
    /\ scene \in DOMAIN Bounds
    /\ IF scene = "plans" THEN Learned ELSE Init
    /\ begun = 0 /\ edits = 0 /\ rounds = 0

b == Bounds[scene]

Within ==
    /\ begun <= b.begun /\ edits <= b.edits /\ rounds <= b.rounds /\ now <= b.ticks
    /\ \A r \in Request : req[r].pc \in b.kinds \cup {"none", "flush", "commit"}
    /\ \A r \in Request : req[r].q \in b.questions \cup {None}

Changes ==
    \/ /\ Tick
       /\ UNCHANGED <<begun, edits, rounds>>
    \/ /\ \/ PublishExam \/ EndExam
          \/ scene = "answers" /\ EditExam("published", 0, 0)
       /\ edits' = edits + 1 /\ UNCHANGED <<begun, rounds>>
    \/ /\ \E d \in Day, minutes \in {15, 25} : Focus(d, minutes)
       /\ rounds' = rounds + 1 /\ UNCHANGED <<begun, edits>>
    \/ /\ \E r \in Request : Begin(r)
       /\ begun' = begun + 1 /\ UNCHANGED <<edits, rounds>>
    \/ /\ \E r \in Request : Lookup(r) \/ Flush(r) \/ Commit(r)
       /\ UNCHANGED <<begun, edits, rounds>>

MCNext ==
    /\ Changes /\ Histories
    /\ UNCHANGED scene
    /\ Within'

MCSpec == MCInit /\ [][MCNext]_<<vars, history, scene, begun, edits, rounds>>

\* The mistake of a question counts exactly the wrong answers to it, whatever
\* requests answer it at the same time: the flush of the attempt comes before
\* the count is read.
MistakesExact == \A q \in Question : mistake[q].count = wrong[q]

\* After a wrong answer the question is to be learned again and due, until a
\* review that began after the answer says otherwise.  (A review that had read
\* the mistake before the answer may mark it as mastered.)
SerialReviewsCount ==
    \A q \in Question :
      unseen[q] /\ ~crossed[q] => mistake[q].status = "new" /\ mistake[q].due <= now

\* w[1] + ... + w[n].
Sum(w, n) ==
    LET sum[i \in 0..n] == IF i = 0 THEN 0 ELSE sum[i - 1] + w[i]
    IN  sum[n]

\* The items the plan made for a day and that are still on it, and their minutes.
MadeFor(d) == {i \in On(d) : item[i].made = d}
Weight(d) == [i \in 1..Items |-> IF i \in MadeFor(d) THEN Minutes(item[i].source) ELSE 0]

\* The items a plan made for its day fit in what the goals and the timer had left
\* of it, unless two plans of the day were made at the same time.
SerialPlanFits == \A d \in Day : ~doubled[d] => Sum(Weight(d), Items) <= granted[d]

-----------------------------------------------------------------------------
(* What holds of every reachable state and makes the properties above so.     *)

\* What a request works on is there.
RequestsPlaced ==
    \A r \in Request : LET x == req[r] IN
      /\ x.pc \in {"lookup", "flush", "commit", "review"} => x.q \in Question
      /\ x.pc = "review" => x.feedback \in {"again", "hard", "good", "easy", "mark", "reopen"}
      /\ x.pc = "insert" => x.day \in Day
      /\ x.pc = "update" =>
           /\ x.item \in Ids
           /\ x.edit \in {"completed", "deferred", "skipped", "lock", "unlock", "move"}
           /\ x.edit = "move" => x.day \in Day /\ x.day > item[x.item].made

\* A flushed answer keeps its row locked, and what its request read of the
\* mistake is still so; its status unless a review came between.
OneWriter ==
    \A r \in Request :
      req[r].pc = "commit" =>
        /\ locked[req[r].q] = r
        /\ req[r].seen.count = mistake[req[r].q].count
        /\ ~crossed[req[r].q] => req[r].seen.status = mistake[req[r].q].status

\* The minutes of chosen candidates.
Lengths(chosen) == [k \in 1..Len(chosen) |-> Minutes(chosen[k])]

\* Items are numbered as they are inserted, and move to later days only.
ItemsInOrder ==
    /\ \E last \in 0..Items : Ids = 1..last
    /\ \A i \in Ids : item[i].made <= item[i].day

\* A plan to be inserted fits, and no other plan of its day has been.
PlansReady ==
    \A r \in Request :
      req[r].pc = "insert" =>
        /\ Sum(Lengths(req[r].chosen), Len(req[r].chosen)) <= req[r].granted
        /\ ~doubled[req[r].day] => MadeFor(req[r].day) = {}

LearnInv ==
    /\ TypeOK
    /\ wrong \in [Question -> Nat] /\ unseen \in [Question -> BOOLEAN]
    /\ crossed \in [Question -> BOOLEAN] /\ doubled \in [Day -> BOOLEAN]
    /\ granted \in [Day -> Nat]
    /\ RequestsPlaced /\ OneWriter /\ MistakesExact /\ SerialReviewsCount
    /\ ItemsInOrder /\ PlansReady /\ SerialPlanFits

\* No answer is taken more than the time limit after the first one.
NoLateAnswer == firstAt # None /\ Limit > 0 => late <= firstAt + Limit

\* A question answered wrong is to be learned again, whenever it was reviewed.
ReviewsCount == \A q \in Question : unseen[q] => mistake[q].status = "new"
=============================================================================
