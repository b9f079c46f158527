----------------------------- MODULE AgentInbox -----------------------------
(***************************************************************************)
(* Automation rules and the inbox of suggestions:                           *)
(* app/services/agent_automation_service.py, agent_trigger_service.py,      *)
(* agent_inbox_service.py, agent_cron.py and their repositories.            *)
(*                                                                          *)
(* The trigger job reads all enabled rules once, then takes one after the   *)
(* other: the arbiter lets the rule pass or not, the suggestion is          *)
(* committed under the rule's key of that day, and only then the time of    *)
(* firing is stored.  Members answer suggestions, change and delete rules   *)
(* meanwhile, and the sweep job brings postponed suggestions back.  arq     *)
(* runs one instance of each job.  A suggestion is named by its key: its    *)
(* rule and its day.                                                        *)
(***************************************************************************)
EXTENDS Integers, FiniteSets

CONSTANTS
    Rule,       \* automation rules, named by their id
    Member,     \* accounts
    Owner,      \* Owner[r]: the member whose rule r is
    Slot,       \* slots for requests that answer suggestions
    Settings,   \* the values the members give [cooldown, cap, quiet]
    DayLen,     \* ticks of a day
    HourLen,    \* ticks of an hour
    SnoozeCap,  \* _SNOOZE_CAP_MINUTES
    MaxTime     \* bound on the clock

VARIABLES
    now,   \* now_utc(), in ticks; 0 is never a time, it stands for NULL
    rule,  \* table agent_automation_rules
    item,  \* table agent_inbox_items, by rule and day
    scan,  \* the run of the trigger job
    asked, \* the requests under way that answer a suggestion
    passes \* history: when the arbiter let a suggestion pass whose firing was stored

vars == <<now, rule, item, scan, asked, passes>>

Day == 0..(MaxTime \div DayLen)
DayOf(t) == t \div DayLen

RuleRow == [st: {"free", "live", "gone"}, on: BOOLEAN, set: Settings, fired: 0..MaxTime]

ItemRow == [status: {"none", "pending", "accepted", "dismissed", "snoozed", "expired"},
            until: 0..MaxTime, made: 0..MaxTime, ends: 0..(MaxTime + DayLen)]

NoItem == [status |-> "none", until |-> 0, made |-> 0, ends |-> 0]

Scan == [pc: {"idle", "gate", "suggest", "mark", "broken"}, todo: SUBSET Rule,
         cur: SUBSET Rule, seen: [Rule -> RuleRow], at: 0..MaxTime]

NoScan == [pc |-> "idle", todo |-> {}, cur |-> {}, seen |-> <<>>, at |-> 0]

Answer == [st: {"idle"}] \cup [st: {"read"}, rule: Rule, day: Day,
                               action: {"accept", "dismiss", "snooze"}]

Idle == [st |-> "idle"]

\* Some rules are there, enabled or not, and the inbox is empty.
Init ==
    /\ now = 1
    /\ rule \in [Rule -> {x \in RuleRow : x.st # "gone" /\ x.fired = 0
                                            /\ (x.st = "free" => ~x.on)}]
    /\ item = [r \in Rule |-> [d \in Day |-> NoItem]]
    /\ scan = NoScan
    /\ asked = [q \in Slot |-> Idle]
    /\ passes = [r \in Rule |-> {}]

-----------------------------------------------------------------------------
(* AgentAutomationService: the members' rules *)

CreateRule(r, s) ==
    /\ rule[r].st = "free"
    /\ rule' = [rule EXCEPT ![r] = [st |-> "live", on |-> FALSE, set |-> s, fired |-> 0]]
    /\ UNCHANGED <<now, item, scan, asked, passes>>

UpdateRule(r, s) ==
    /\ rule[r].st = "live" /\ rule[r].set # s
    /\ rule' = [rule EXCEPT ![r].set = s]
    /\ UNCHANGED <<now, item, scan, asked, passes>>

SetEnabled(r, on) ==
    /\ rule[r].st = "live" /\ rule[r].on # on
    /\ rule' = [rule EXCEPT ![r].on = on]
    /\ UNCHANGED <<now, item, scan, asked, passes>>

DeleteRule(r) ==
    /\ rule[r].st = "live"
    /\ rule' = [rule EXCEPT ![r] = [@ EXCEPT !.st = "gone", !.on = FALSE]]
    /\ UNCHANGED <<now, item, scan, asked, passes>>

-----------------------------------------------------------------------------
(* The arbiter *)

\* quiet_hours_active: from start up to end, over midnight if end comes first.
\* A rule without quiet hours has two equal times here.
QuietAt(q, t) == LET cur == t % DayLen IN
    IF q.start <= q.end THEN q.start <= cur /\ cur < q.end
                        ELSE cur >= q.start \/ cur < q.end

InCooldown(x, t) == x.fired # 0 /\ x.set.cooldown > 0 /\ t < x.fired + x.set.cooldown

\* count_fired_since counts the keys of the rule, whatever became of the items.
FiredSince(r, t) == Cardinality({d \in Day : item[r][d].status # "none" /\ item[r][d].made >= t})

\* arbitrate, on the row the job read when it began.
Allowed(r, x) ==
    /\ x.on
    /\ ~QuietAt(x.set.quiet, now)
    /\ ~InCooldown(x, now)
    /\ FiredSince(r, now - HourLen) < x.set.cap

-----------------------------------------------------------------------------
(* The trigger job *)

StartScan ==
    /\ scan.pc = "idle"
    /\ LET on == {r \in Rule : rule[r].st = "live" /\ rule[r].on} IN
         /\ on # {}
         /\ scan' = [pc |-> "gate", todo |-> on, cur |-> {}, seen |-> rule, at |-> 0]
    /\ UNCHANGED <<now, rule, item, asked, passes>>

\* evaluate_rule up to the signal: whether there is anything to suggest depends
\* on tables that are not modelled here.
Gate(r) ==
    /\ scan.pc = "gate" /\ r \in scan.todo
    /\ \/ /\ Allowed(r, scan.seen[r])
          /\ scan' = [scan EXCEPT !.pc = "suggest", !.cur = {r}, !.at = now]
       \/ scan' = [scan EXCEPT !.todo = @ \ {r}]
    /\ UNCHANGED <<now, rule, item, asked, passes>>

\* create_suggestion: an item with that key is there, or it is inserted and
\* committed.
Suggest(r) ==
    /\ scan.pc = "suggest" /\ r \in scan.cur
    /\ IF item[r][DayOf(scan.at)].status # "none"
         THEN /\ scan' = [scan EXCEPT !.pc = "gate", !.todo = @ \ {r}, !.cur = {}]
              /\ item' = item
         ELSE /\ item' = [item EXCEPT ![r][DayOf(scan.at)] =
                            [status |-> "pending", until |-> 0, made |-> now,
                             ends |-> now + DayLen]]
              /\ scan' = [scan EXCEPT !.pc = "mark"]
    /\ UNCHANGED <<now, rule, asked, passes>>

\* Mistake: the time of firing is assigned and never committed.
MarkForgotten(r) ==
    /\ scan.pc = "mark" /\ r \in scan.cur /\ rule[r].st = "live"
    /\ passes' = [passes EXCEPT ![r] = @ \cup {scan.at}]
    /\ scan' = [scan EXCEPT !.pc = "gate", !.todo = @ \ {r}, !.cur = {}]
    /\ UNCHANGED <<now, rule, item, asked>>

\* mark_fired: the UPDATE of a row that was deleted meanwhile raises
\* StaleDataError, after which the session, and with it the scan, is lost.
Mark(r) ==
    /\ scan.pc = "mark" /\ r \in scan.cur
    /\ IF rule[r].st = "live"
         THEN /\ rule' = [rule EXCEPT ![r].fired = now]
              /\ passes' = [passes EXCEPT ![r] = @ \cup {scan.at}]
              /\ scan' = [scan EXCEPT !.pc = "gate", !.todo = @ \ {r}, !.cur = {}]
         ELSE /\ scan' = [scan EXCEPT !.pc = "broken", !.todo = @ \ {r}]
              /\ UNCHANGED <<rule, passes>>
    /\ UNCHANGED <<now, item, asked>>

EndScan ==
    /\ scan.pc = "broken" \/ (scan.pc = "gate" /\ scan.todo = {})
    /\ scan' = NoScan
    /\ UNCHANGED <<now, rule, item, asked, passes>>

\* The worker dies or job_timeout ends the job.
ScanDies ==
    /\ scan.pc \in {"gate", "suggest", "mark"}
    /\ scan' = NoScan
    /\ UNCHANGED <<now, rule, item, asked, passes>>

-----------------------------------------------------------------------------
(* AgentInboxService: the members' answers and the sweep *)

\* Mistake: whatever is over expires, also what a member has answered.
ExpiredWhatever(x) == IF x.status # "none" /\ x.ends <= now THEN [x EXCEPT !.status = "expired"] ELSE x

\* promote_due_snoozes
Promoted(x) ==
    IF x.status = "snoozed" /\ x.until # 0 /\ x.until <= now
      THEN [x EXCEPT !.status = "pending", !.until = 0] ELSE x

\* expire_stale
Expired(x) ==
    IF x.status = "pending" /\ x.ends # 0 /\ x.ends <= now
      THEN [x EXCEPT !.status = "expired"] ELSE x

\* Both updates, in one transaction.
Reclaimed(rs) == [r \in Rule |-> [d \in Day |->
    IF r \in rs THEN Expired(Promoted(item[r][d])) ELSE item[r][d]]]

\* agent_inbox_sweep_cron
Sweep ==
    /\ item' = Reclaimed(Rule) /\ item' # item
    /\ UNCHANGED <<now, rule, scan, asked, passes>>

ListInbox(m) ==
    /\ item' = Reclaimed({r \in Rule : Owner[r] = m}) /\ item' # item
    /\ UNCHANGED <<now, rule, scan, asked, passes>>

\* update_status reads the item and checks that it is pending ...
ReadItem(q, r, d, a) ==
    /\ asked[q].st = "idle" /\ item[r][d].status = "pending"
    /\ asked' = [asked EXCEPT ![q] = [st |-> "read", rule |-> r, day |-> d, action |-> a]]
    /\ UNCHANGED <<now, rule, item, scan, passes>>

\* Mistake: the time a postponed suggestion comes back is not stored.
AnsweredTimeless(x, a, t) ==
    [x EXCEPT !.status = CASE a = "accept" -> "accepted" [] a = "dismiss" -> "dismissed"
                           [] a = "snooze" -> "snoozed"]

\* _ALLOWED_ACTIONS, and the columns the UPDATE names.
Answered(x, a, t) ==
    CASE a = "accept" -> [x EXCEPT !.status = "accepted"]
      [] a = "dismiss" -> [x EXCEPT !.status = "dismissed"]
      [] a = "snooze" -> [x EXCEPT !.status = "snoozed", !.until = t]

\* ... and writes the answer, whatever the row is by then.
CommitAnswer(q) ==
    /\ asked[q].st = "read"
    /\ \E t \in (now + 1)..MaxTime :
         /\ asked[q].action = "snooze" => t <= now + SnoozeCap
         /\ item' = [item EXCEPT ![asked[q].rule][asked[q].day] = Answered(@, asked[q].action, t)]
    /\ asked' = [asked EXCEPT ![q] = Idle]
    /\ UNCHANGED <<now, rule, scan, passes>>

GiveUp(q) ==
    /\ asked[q].st = "read"
    /\ asked' = [asked EXCEPT ![q] = Idle]
    /\ UNCHANGED <<now, rule, item, scan, passes>>

Tick ==
    /\ now < MaxTime
    /\ now' = now + 1
    /\ UNCHANGED <<rule, item, scan, asked, passes>>

Edit(r) ==
    \/ DeleteRule(r)
    \/ \E s \in Settings : CreateRule(r, s) \/ UpdateRule(r, s)
    \/ \E on \in BOOLEAN : SetEnabled(r, on)

Trigger == StartScan \/ EndScan \/ ScanDies \/ \E r \in Rule : Gate(r) \/ Suggest(r) \/ Mark(r)

Respond(q) ==
    \/ CommitAnswer(q) \/ GiveUp(q)
    \/ \E r \in Rule, d \in Day, a \in {"accept", "dismiss", "snooze"} : ReadItem(q, r, d, a)

Next ==
    \/ Tick
    \/ Sweep
    \/ \E m \in Member : ListInbox(m)
    \/ \E r \in Rule : Edit(r)
    \/ Trigger
    \/ \E q \in Slot : Respond(q)

Spec == Init /\ [][Next]_vars

\* Time passes, and arq runs the sweep every quarter of an hour.
Fairness == WF_vars(Tick) /\ WF_vars(Sweep)

-----------------------------------------------------------------------------
(* Properties *)

TypeOK ==
    /\ now \in 1..MaxTime
    /\ rule \in [Rule -> RuleRow]
    /\ item \in [Rule -> [Day -> ItemRow]]
    /\ scan = NoScan \/ scan \in Scan
    /\ asked \in [Slot -> Answer]
    /\ \A r \in Rule : passes[r] \subseteq 0..MaxTime

\* A postponed suggestion comes back, or is answered, or expires; no member has
\* to open the inbox for that (agent_cron: "the sweep guarantees it").
SnoozedReturns ==
    \A r \in Rule, d \in Day : item[r][d].status = "snoozed" ~> item[r][d].status # "snoozed"

\* The suggestion that passes the arbiter now, and is made, comes at least the
\* cooldown after every one of the same rule whose firing was stored: over
\* midnight, where the key changes, through restarts and edits of the rule.
SuggestionsSpaced ==
    \A r \in Rule :
      scan.pc = "mark" /\ r \in scan.cur =>
        \A t \in passes[r] : scan.at >= t + scan.seen[r].set.cooldown

\* What makes it inductive.  A stored firing is no earlier than any time the
\* arbiter let the rule pass,
FiredLast ==
    \A r \in Rule :
      /\ rule[r].fired <= now
      /\ rule[r].st = "free" => passes[r] = {}
      /\ \A t \in passes[r] : 0 < t /\ t <= rule[r].fired

\* and what the job read of a rule it has yet to take is still the last of it.
SeenLast ==
    /\ scan.pc # "idle" =>
         \A r \in scan.todo :
           scan.seen[r].fired <= now /\ \A t \in passes[r] : t <= scan.seen[r].fired
    /\ scan.pc \in {"suggest", "mark"} =>
         /\ 0 < scan.at /\ scan.at <= now
         /\ \A r \in scan.cur : \A t \in passes[r] :
              scan.at >= t + scan.seen[r].set.cooldown

IInv == TypeOK /\ FiredLast /\ SeenLast

Final == {"accepted", "dismissed", "expired"}

\* What is accepted, dismissed or expired stays so.
FinalStays ==
    [][\A r \in Rule, d \in Day :
         item[r][d].status \in Final => item'[r][d].status = item[r][d].status]_vars

\* "The failure of a single rule does not affect the other rules"
\* (agent_trigger_service): a scan leaves no rule out unless the worker dies.
ScanReachesAll == scan.pc = "broken" => scan.todo = {}
=============================================================================
