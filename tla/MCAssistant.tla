----------------------------- MODULE MCAssistant -----------------------------
(* The study assistant for TLC: conversations (MCStudyTurns) in some          *)
(* behaviours, the automation rules and the inbox (AgentInbox) in others.     *)
EXTENDS MCStudyTurns

CONSTANTS
    Rule, Member, Slot, Owner, Settings, DayLen, HourLen, SnoozeCap, MaxTime,  \* of AgentInbox
    r1,     \* the rule whose suggestions are there in the scene "inbox"
    Scenes  \* the scenes of a run

ASSUME RulesAssumption ==
    /\ DayLen \in Nat \ {0} /\ MaxTime \in Nat \ {0}
    /\ Settings # {} /\ \A s \in Settings : s.cooldown \in Nat

\* Values of Settings and Owner.
TwoSettings ==
    {[cooldown |-> 3, cap |-> 1, quiet |-> [start |-> 0, end |-> 0]],
     [cooldown |-> 1, cap |-> 1, quiet |-> [start |-> 1, end |-> 0]]}

OneOwner == [r \in Rule |-> CHOOSE m \in Member : TRUE]

VARIABLES now, rule, item, scan, asked, passes

Agent == INSTANCE AgentInbox

\* quiet_hours_active agrees with walking round the clock from start to end.
ASSUME QuietHoursAreAnArc ==
    \A s, e \in 0..(DayLen - 1), t \in 0..MaxTime :
      Agent!QuietAt([start |-> s, end |-> e], t)
        <=> \E k \in 0..(DayLen - 1) :
              t % DayLen = (s + k) % DayLen /\ \A j \in 0..k : (s + j) % DayLen # e

\* No rules, and in the inbox of r1's owner one suggestion for each of the days.
Delivered(days) ==
    /\ now = 1
    /\ rule = [r \in Rule |-> [st |-> "gone", on |-> FALSE, fired |-> 0,
                               set |-> CHOOSE s \in Settings : TRUE]]
    /\ item = [r \in Rule |-> [d \in Agent!Day |->
                 IF r = r1 /\ d \in days
                   THEN [status |-> "pending", until |-> 0, made |-> 1, ends |-> 1 + DayLen]
                   ELSE Agent!NoItem]]
    /\ scan = Agent!NoScan
    /\ asked = [q \in Slot |-> Agent!Idle]
    /\ passes = [r \in Rule |-> {}]

Turns == scene \in DOMAIN Bounds

\* History: no two answers have been under way at the same time, and no sweep
\* while one was.
VARIABLE alone

AssistantInit ==
    /\ scene \in Scenes /\ alone = TRUE
    /\ IF Turns THEN MCInit /\ Delivered({})
       ELSE /\ Init /\ faults = 0 /\ ops = 0 /\ crossed = FALSE
            /\ IF scene = "inbox" THEN \E days \in {{0}, {0, 1}} : Delivered(days) ELSE Agent!Init

Answering == Cardinality({q \in Slot : asked[q].st = "read"})

AgentNext ==
    /\ Agent!Next
    /\ alone' = (alone /\ Answering' <= 1 /\ (Answering = 1 /\ item' # item => Answering' = 0))

AgentVars == <<now, rule, item, scan, asked, passes, alone>>

\* Both without bounds.
ServiceNext ==
    \/ Turns /\ TurnsNext /\ UNCHANGED AgentVars
    \/ ~Turns /\ AgentNext /\ UNCHANGED MCvars

ServiceSpec == AssistantInit /\ [][ServiceNext]_<<MCvars, AgentVars>>

\* Bounds: those of MCStudyTurns, and where rules are about there are no answers and
\* the inbox changes by the job.
AssistantNext ==
    /\ ServiceNext
    /\ Turns => Bounded
    /\ scene = "rules" => asked' = asked /\ (item' = item \/ scan.pc = "suggest")

AssistantSpec ==
    /\ AssistantInit /\ [][AssistantNext]_<<MCvars, AgentVars>>
    /\ Fairness /\ WF_AgentVars(~Turns /\ Agent!Tick /\ alone' = alone /\ UNCHANGED MCvars)
    /\ WF_AgentVars(~Turns /\ Agent!Sweep /\ UNCHANGED MCvars /\ alone' = (alone /\ Answering = 0))

\* A postponed suggestion comes back, or is answered, or expires; no member has
\* to open the inbox for that (agent_cron: "the sweep guarantees it").
SnoozedReturns == ~Turns => Agent!SnoozedReturns

\* A rule never makes two suggestions within its cooldown, over midnight and
\* through restarts and edits, unless the worker died before it stored the
\* firing of the first.
SuggestionsSpaced == ~Turns => Agent!SuggestionsSpaced

\* What is accepted, dismissed or expired stays so as long as answers and sweeps
\* come one at a time.
SerialFinalStays ==
    [][~Turns /\ alone' =>
         \A r \in Rule, d \in Agent!Day :
           item[r][d].status \in Agent!Final => item'[r][d].status = item[r][d].status]_AgentVars

\* What makes it inductive: a suggestion that is being answered alone is still
\* the one that was read.
AnswersKnown ==
    alone =>
      /\ \A p, q \in Slot : asked[p].st = "read" /\ asked[q].st = "read" => p = q
      /\ \A q \in Slot : asked[q].st = "read" =>
           item[asked[q].rule][asked[q].day].status = "pending"

\* What agent_trigger_service says: one failing rule does not stop the scan.
ScanReachesAll == ~Turns => Agent!ScanReachesAll
=============================================================================
