-------------------------------- MODULE Notices --------------------------------
(***************************************************************************)
(* What the application tells its users.  A request that made something      *)
(* happen emits an event on the bus of its process (app/core/events.py); a   *)
(* listener with a session of its own stores a notification for each         *)
(* recipient (services/notification_events.py).  With MULTI_INSTANCE the     *)
(* event also travels as a job of the queue (app/core/queue) to a worker,    *)
(* which dispatches it to its own listeners; mail is such a job, too.        *)
(***************************************************************************)
EXTENDS Integers, FiniteSets

CONSTANTS
    User,     \* by their ids
    Fact,     \* what happens: each is announced by one event
    Mail,
    Page,     \* the page UserRepository.list_active returns
    MaxTries  \* WorkerSettings.max_tries

\* "early": a like, a favourite, a follow, announced before their commit;
\* "late": a sign-up, a registration or its cancellation, a mention, a reply;
\* "all": a new event, announced to all users.  Administrators write to all users,
\* too ("everyone"), or to named ones.
Kind == {"early", "late", "all"}
ToAll == {"all", "everyone"}

\* The listeners run in the process of the request, and once for each try of the job.
Try == 0..MaxTries

VARIABLES
    setting, \* MULTI_INSTANCE, and whether jobs reach arq: QUEUE_ENABLED and a broker
    fact, listener, job,
    row,     \* notifications: of which run of the listener, to whom
    read,
    account, \* of each user: "active", "deleted" (the row stays) or "erased"
    sent,    \* how often a mail went out
    hurt     \* history: facts of which a process or a listener died

vars == <<setting, fact, listener, job, row, read, account, sent, hurt>>

Erased == {u \in User : account[u] = "erased"}

NoListener == [pc |-> "off", left |-> {}]

Init ==
    /\ setting \in [multi: BOOLEAN, queue: BOOLEAN]
    /\ fact = [f \in Fact |-> [st |-> "none", kind |-> "late", to |-> {},
                               happened |-> FALSE, emitted |-> FALSE]]
    /\ listener = [f \in Fact |-> [i \in Try |-> NoListener]]
    /\ job = [j \in Fact \cup Mail |-> [st |-> "none", tries |-> 0]]
    /\ row = {} /\ read = {} /\ hurt = {}
    /\ account = [u \in User |-> "active"]
    /\ sent = [m \in Mail |-> 0]

-----------------------------------------------------------------------------
(* A request and its event. *)

\* A follow has another user, a like its author, a mention any number.
Begin(f, kind, to) ==
    /\ fact[f].st = "none"
    /\ to \cap Erased = {}
    /\ kind = "early" => Cardinality(to) = 1
    /\ (kind = "all") = (to = {})
    /\ fact' = [fact EXCEPT ![f].st = "open", ![f].kind = kind, ![f].to = to]
    /\ UNCHANGED <<setting, listener, job, row, read, account, sent, hurt>>

\* EventBus.emit: the listener becomes a task of this process, and with
\* MULTI_INSTANCE another task puts the event on the queue.
Dispatched(f, i) == [listener EXCEPT ![f][i] = [pc |-> "running", left |-> fact[f].to]]

\* Mistake: the event is emitted before the commit whatever it is about.
RipeEarly(f) == fact[f].st \in {"open", "committed"}

Ripe(f) == fact[f].st = IF fact[f].kind = "early" THEN "open" ELSE "committed"

Emit(f) ==
    /\ ~fact[f].emitted /\ Ripe(f)
    /\ fact' = [fact EXCEPT ![f].emitted = TRUE, ![f].st = IF @ = "open" THEN @ ELSE "over"]
    /\ listener' = Dispatched(f, 0)
    /\ job' = IF setting.multi THEN [job EXCEPT ![f].st = "sending"] ELSE job
    /\ UNCHANGED <<setting, row, read, account, sent, hurt>>

\* A like of one's own content is not announced, nor that of a comment: _notify_like
\* asks for its title, a comment has none, and the exception is logged.
Commit(f) ==
    /\ fact[f].st = "open"
    /\ fact' = [fact EXCEPT ![f].happened = TRUE,
                            ![f].st = IF fact[f].kind = "early" THEN "over" ELSE "committed"]
    /\ UNCHANGED <<setting, listener, job, row, read, account, sent, hurt>>

\* The transaction fails; a listener that was started goes on.
Abort(f) ==
    /\ fact[f].st = "open"
    /\ fact' = [fact EXCEPT ![f].st = "over"]
    /\ UNCHANGED <<setting, listener, job, row, read, account, sent, hurt>>

\* The route of administrators: to the users it names, or to all.
Send(f, to) ==
    /\ fact[f].st = "none"
    /\ fact' = [fact EXCEPT ![f] = [st |-> "over", kind |-> IF to = {} THEN "everyone" ELSE "named",
                                   to |-> to, happened |-> TRUE, emitted |-> TRUE]]
    /\ listener' = [listener EXCEPT ![f][0] =
                       [pc |-> IF to = {} THEN "running" ELSE "writing", left |-> to]]
    /\ UNCHANGED <<setting, job, row, read, account, sent, hurt>>

-----------------------------------------------------------------------------
(* Listeners *)

\* The first page of the users that are not deleted.
Listed ==
    LET active == {u \in User : account[u] = "active"} IN
    {u \in active : Cardinality({v \in active : v < u}) < Page}

\* NotificationService.broadcast reads whom it writes to.
ListActive(f, i) ==
    /\ listener[f][i].pc = "running" /\ fact[f].kind \in ToAll
    /\ listener' = [listener EXCEPT ![f][i] = [pc |-> "writing", left |-> Listed]]
    /\ UNCHANGED <<setting, fact, job, row, read, account, sent, hurt>>

Ended(f, i) == [listener EXCEPT ![f][i] = [pc |-> "ended", left |-> {}]]

\* One transaction for all of them; a row for an erased user violates its key.
Broadcast(f, i) ==
    LET to == listener[f][i].left IN
    /\ listener[f][i].pc = "writing"
    /\ listener' = Ended(f, i)
    /\ \/ to \cap Erased = {} /\ row' = row \cup {<<f, i, u>> : u \in to} /\ hurt' = hurt
       \/ row' = row /\ hurt' = hurt \cup {f}
    /\ UNCHANGED <<setting, fact, job, read, account, sent>>

\* A transaction for each recipient.
Create(f, i, u) ==
    /\ listener[f][i].pc = "running" /\ fact[f].kind \notin ToAll
    /\ u \in listener[f][i].left \ Erased
    /\ row' = row \cup {<<f, i, u>>}
    /\ listener' = [listener EXCEPT ![f][i].left = @ \ {u}]
    /\ UNCHANGED <<setting, fact, job, read, account, sent, hurt>>

EndListener(f, i) ==
    /\ listener[f][i].pc = "running" /\ fact[f].kind \notin ToAll /\ listener[f][i].left = {}
    /\ listener' = Ended(f, i)
    /\ UNCHANGED <<setting, fact, job, row, read, account, sent, hurt>>

\* _safe_run logs what a listener raises; who comes later is not told.
FailListener(f, i) ==
    /\ listener[f][i].pc = "running"
    /\ listener[f][i].left # {} \/ fact[f].kind \in ToAll
    /\ listener' = Ended(f, i)
    /\ hurt' = hurt \cup {f}
    /\ UNCHANGED <<setting, fact, job, row, read, account, sent>>

-----------------------------------------------------------------------------
(* Jobs *)

SendMail(m) ==
    /\ job[m].st = "none"
    /\ job' = [job EXCEPT ![m].st = "sending"]
    /\ UNCHANGED <<setting, fact, listener, row, read, account, sent, hurt>>

\* enqueue: arq takes the job, or refuses it; without arq it runs on the spot.
Enqueue(j) ==
    /\ job[j].st = "sending"
    /\ \/ /\ job' = [job EXCEPT ![j].st = IF setting.queue THEN "queued" ELSE "running",
                                ![j].tries = IF setting.queue THEN 0 ELSE 1]
          /\ hurt' = hurt
       \/ /\ setting.queue
          /\ job' = [job EXCEPT ![j].st = "over"]
          /\ hurt' = hurt \cup ({j} \cap Fact)
    /\ UNCHANGED <<setting, fact, listener, row, read, account, sent>>

Take(j) ==
    /\ job[j].st = "queued"
    /\ job' = [job EXCEPT ![j].st = "running", ![j].tries = @ + 1]
    /\ UNCHANGED <<setting, fact, listener, row, read, account, sent, hurt>>

\* dispatch_event_broadcast emits with broadcast=False.
PerformEvent(f) ==
    /\ job[f].st = "running"
    /\ job' = [job EXCEPT ![f].st = "performed"]
    /\ listener' = Dispatched(f, job[f].tries)
    /\ UNCHANGED <<setting, fact, row, read, account, sent, hurt>>

\* _send_sync hands the mail over, or raises: then arq may try again.
Again(j) == IF setting.queue /\ job[j].tries < MaxTries THEN {"queued", "over"} ELSE {"over"}

PerformMail(m) ==
    /\ job[m].st = "running"
    /\ \/ sent' = [sent EXCEPT ![m] = @ + 1] /\ job' = [job EXCEPT ![m].st = "performed"]
       \/ sent' = sent /\ \E st \in Again(m) : job' = [job EXCEPT ![m].st = st]
    /\ UNCHANGED <<setting, fact, listener, row, read, account, hurt>>

Acknowledge(j) ==
    /\ job[j].st = "performed"
    /\ job' = [job EXCEPT ![j].st = "over"]
    /\ UNCHANGED <<setting, fact, listener, row, read, account, sent, hurt>>

-----------------------------------------------------------------------------
(* Processes that die, and users. *)

\* The listeners of a process die with it.
Runs(inWorker) == {i \in Try : (i > 0 /\ setting.queue) = inWorker}

\* In the workers: jobs that arq has given out and the listeners of their events.
Underway(f, inWorker) ==
    \/ \E i \in Runs(inWorker) : listener[f][i].pc \in {"running", "writing"}
    \/ (inWorker = setting.queue) /\ job[f].st \in {"running", "performed"}
    \/ ~inWorker /\ (job[f].st = "sending" \/ fact[f].st \in {"open", "committed"})

Killed(inWorker) ==
    [f \in Fact |-> [i \in Try |->
       IF i \in Runs(inWorker) /\ listener[f][i].pc # "off"
       THEN [pc |-> "ended", left |-> {}] ELSE listener[f][i]]]

WebDies ==
    /\ hurt' = hurt \cup {f \in Fact : Underway(f, FALSE)}
    /\ fact' = [f \in Fact |-> IF fact[f].st \in {"open", "committed"}
                               THEN [fact[f] EXCEPT !.st = "over"] ELSE fact[f]]
    /\ listener' = Killed(FALSE)
    /\ job' = [j \in DOMAIN job |->
                 IF job[j].st = "sending" \/ (~setting.queue /\ job[j].st # "none")
                 THEN [job[j] EXCEPT !.st = "over"] ELSE job[j]]
    /\ UNCHANGED <<setting, row, read, account, sent>>

\* arq gives a job whose worker died to another worker.
WorkerDies ==
    /\ setting.queue
    /\ hurt' = hurt \cup {f \in Fact : Underway(f, TRUE)}
    /\ listener' = Killed(TRUE)
    /\ job' = [j \in DOMAIN job |->
                 IF job[j].st \in {"running", "performed"}
                 THEN [job[j] EXCEPT !.st = IF job[j].tries < MaxTries THEN "queued" ELSE "over"]
                 ELSE job[j]]
    /\ UNCHANGED <<setting, fact, row, read, account, sent>>

\* mark_read, mark_all_read: notifications of the user who asks.
MarkRead(u, some) ==
    /\ some # {} /\ some \subseteq {n \in row \ read : n[3] = u}
    /\ Cardinality(some) = 1 \/ some = {n \in row \ read : n[3] = u}
    /\ read' = read \cup some
    /\ UNCHANGED <<setting, fact, listener, job, row, account, sent, hurt>>

\* The row stays.
DeleteUser(u) ==
    /\ account[u] = "active"
    /\ account' = [account EXCEPT ![u] = "deleted"]
    /\ UNCHANGED <<setting, fact, listener, job, row, read, sent, hurt>>

\* The row goes, unless notifications hold it.
EraseUser(u) ==
    /\ account[u] = "active"
    /\ \A n \in row : n[3] # u
    /\ account' = [account EXCEPT ![u] = "erased"]
    /\ UNCHANGED <<setting, fact, listener, job, row, read, sent, hurt>>

Step(f) ==
    \/ \E kind \in Kind, to \in SUBSET User : Begin(f, kind, to)
    \/ \E to \in SUBSET User : Send(f, to)
    \/ Emit(f) \/ Commit(f) \/ Abort(f) \/ PerformEvent(f)
    \/ \E i \in Try : ListActive(f, i) \/ Broadcast(f, i) \/ EndListener(f, i) \/ FailListener(f, i)
    \/ \E i \in Try, u \in User : Create(f, i, u)

Next ==
    \/ \E f \in Fact : Step(f)
    \/ \E m \in Mail : SendMail(m) \/ PerformMail(m)
    \/ \E j \in Fact \cup Mail : Enqueue(j) \/ Take(j) \/ Acknowledge(j)
    \/ WebDies \/ WorkerDies
    \/ \E u \in User : DeleteUser(u) \/ EraseUser(u) \/ \E some \in SUBSET row : MarkRead(u, some)

Spec == Init /\ [][Next]_vars

-----------------------------------------------------------------------------

Copies(f, u) == Cardinality({i \in Try : <<f, i, u>> \in row})

\* A user is told of what was committed, unless it is announced early; and once,
\* as long as there is one instance.
ToldTruly ==
    \A n \in row : /\ fact[n[1]].kind # "early" => fact[n[1]].happened
                   /\ ~setting.multi => Copies(n[1], n[3]) = 1

\* The event is for the process that emits it alone.
Solo(f) == ~setting.multi \/ fact[f].kind \in {"named", "everyone"}

\* Active users that are on the first page whoever else is deleted.
OnPage == {u \in User : account[u] = "active" /\ Cardinality({v \in User : v < u}) < Page}

\* Who must be told of f.
Addressed(f) == IF fact[f].kind \in ToAll THEN OnPage ELSE fact[f].to

\* When an event has run its course and nothing died or failed on the way, each
\* recipient was told, and of what concerns all users everyone on the first page:
\* once, and once more for the queue with MULTI_INSTANCE.
AllTold ==
    \A f \in Fact \ hurt :
      /\ fact[f].emitted
      /\ \A i \in Try : listener[f][i].pc \in {"off", "ended"}
      /\ job[f].st \in {"none", "over"}
      => \A u \in Addressed(f) : Copies(f, u) = IF Solo(f) THEN 1 ELSE 2

\* A mail that its job calls done went out, and none goes out more than once a try.
MailsTried ==
    \A m \in Mail : /\ sent[m] <= job[m].tries
                    /\ job[m].st = "performed" => sent[m] > 0

\* The docstring of broadcast: all active users are told.
BroadcastReachesAll ==
    \A f \in Fact \ hurt : fact[f].kind \in ToAll /\ listener[f][0].pc = "ended" =>
      \A u \in User : account[u] = "active" => Copies(f, u) > 0

\* The docstring of notification_events: an event is emitted after its commit.
OnlyFactsTold == \A n \in row : fact[n[1]].happened

ToldOnce == \A f \in Fact, u \in User : Copies(f, u) <= 1
-----------------------------------------------------------------------------
(* The inductive invariant behind ToldTruly, AllTold and MailsTried. *)

JobState == {"none", "sending", "queued", "running", "performed", "over"}
FactState == {"none", "open", "committed", "over"}

FactRecord == [st: FactState, kind: Kind \cup {"named", "everyone"}, to: SUBSET User,
               happened: BOOLEAN, emitted: BOOLEAN]
JobRecord == [st: JobState, tries: Try]
ListenerRecord == [pc: {"off", "running", "writing", "ended"}, left: SUBSET User]

TypeOK ==
    /\ setting \in [multi: BOOLEAN, queue: BOOLEAN]
    /\ fact \in [Fact -> FactRecord]
    /\ listener \in [Fact -> [Try -> ListenerRecord]]
    /\ job \in [Fact \cup Mail -> JobRecord]
    /\ row \subseteq Fact \X Try \X User
    /\ account \in [User -> {"active", "deleted", "erased"}]
    /\ sent \in [Mail -> Nat]

\* An event follows its commit, unless it is early, and starts a listener and a job.
Announced ==
    \A f \in Fact :
      /\ fact[f].st = "none" => ~fact[f].emitted
      /\ fact[f].st = "committed" => fact[f].happened
      /\ fact[f].emitted /\ fact[f].kind # "early" => fact[f].happened
      /\ fact[f].emitted <=> (listener[f][0].pc # "off")
      /\ job[f].st # "none" => fact[f].emitted /\ ~Solo(f)
      /\ fact[f].emitted /\ ~Solo(f) => job[f].st # "none"

\* Rows come from listeners that were started, those of the job by one of its tries.
Listened ==
    \A f \in Fact, i \in Try :
      /\ listener[f][i].pc = "ended" => listener[f][i].left = {}
      /\ i > 0 /\ listener[f][i].pc # "off" =>
           i <= job[f].tries /\ job[f].st \notin {"none", "sending"}
      /\ \A u \in User : <<f, i, u>> \in row => listener[f][i].pc # "off"

\* A listener for all users asks first who they are.
Knows(f, i) ==
    listener[f][i].pc \in IF fact[f].kind \in ToAll THEN {"writing", "ended"}
                          ELSE {"running", "writing", "ended"}

\* Whoever is to be told is told or still to come, once the listener knows whom it
\* writes to and unless something died or failed.
Reached ==
    \A f \in Fact \ hurt, i \in Try :
      Knows(f, i) => \A u \in Addressed(f) : u \in listener[f][i].left \/ <<f, i, u>> \in row

\* The job of an event that was not hurt is tried once.
TriedOnce ==
    \A f \in Fact \ hurt :
      /\ job[f].tries = IF job[f].st \in {"none", "sending", "queued"} THEN 0 ELSE 1
      /\ job[f].st \in {"performed", "over"} => listener[f][1].pc # "off"

\* A job waits in arq and has a try left, and a mail that is tried has gone out less
\* often than that.
Tried ==
    /\ \A j \in Fact \cup Mail : job[j].st = "queued" => setting.queue /\ job[j].tries < MaxTries
    /\ \A m \in Mail :
         /\ job[m].st \in {"none", "sending"} => sent[m] = 0
         /\ sent[m] <= job[m].tries
         /\ job[m].st = "running" => sent[m] < job[m].tries
         /\ job[m].st = "performed" => sent[m] > 0

IInv == TypeOK /\ Announced /\ Listened /\ Reached /\ TriedOnce /\ Tried
=============================================================================
