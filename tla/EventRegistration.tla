-------------------------- MODULE EventRegistration --------------------------
(***************************************************************************)
(* Registration for an event and check-in at it:                            *)
(* app/services/event/event_service.py over app/repositories/event_repo.py. *)
(*                                                                          *)
(* Events share nothing, so one event is modelled.  Every request runs one  *)
(* READ COMMITTED transaction: each read is an action, and the writes that  *)
(* SQLAlchemy flushes at the end are one action with the commit.  The flush *)
(* writes only the columns that differ from the values the request loaded.  *)
(***************************************************************************)
EXTENDS Integers, FiniteSets

CONSTANTS
    Member,    \* users
    Req,       \* request slots
    None,      \* SQL NULL / "nobody"
    Caps,      \* values an administrator gives to capacity; 0 means no limit
    Code,      \* check-in codes
    Overrides, \* statuses administrators set on a registration
    MaxUse     \* bound on the recorded uses of one code

Status == {"registered", "cancelled", "waitlisted"}

ASSUME NoneAssumption == None \notin Member \cup Req \cup Code
ASSUME CapsAssumption == Caps \in SUBSET Nat /\ Caps # {}
ASSUME OverridesAssumption == Overrides \subseteq Status
ASSUME MaxUseAssumption == MaxUse \in Nat

VARIABLES
    event,   \* row of events; `past` says that its date lies before today
    elock,   \* row lock on the event
    reg,     \* event_registrations: at most one row per member and event
    checkin, \* event_checkins: at most one row per registration
    txn      \* the open transaction of each request slot

vars == <<event, elock, reg, checkin, txn>>

Event == [status: {"open", "ended", "deleted"}, cap: Caps, past: BOOLEAN]

\* "none" is a row that does not exist.
Reg == [status: Status \cup {"none"}, cancelledAt: BOOLEAN]

\* `uses` counts the requests that were told the check-in succeeded.
Checkin == [code: Code \cup {None}, uses: 0..MaxUse]

NoReg == [status |-> "none", cancelledAt |-> FALSE]

TxnRec == [pc: {"idle", "existing", "count", "book", "set", "codes", "generate", "checkin"},
           op: {"none", "register", "add", "cancel", "override", "generate", "checkin"},
           who: Member \cup {None}, old: Reg, status: Status \cup {"none"},
           todo: SUBSET Member]

IdleTxn == [pc |-> "idle", op |-> "none", who |-> None, old |-> NoReg,
            status |-> "none", todo |-> {}]

Init ==
    /\ event \in [status: {"open"}, cap: Caps, past: {FALSE}]
    /\ elock = None
    /\ reg = [m \in Member |-> NoReg]
    /\ checkin = [m \in Member |-> [code |-> None, uses |-> 0]]
    /\ txn = [r \in Req |-> IdleTxn]

-----------------------------------------------------------------------------

Idle(r) == txn[r].pc = "idle"

Registered == {m \in Member : reg[m].status = "registered"}

HasRoom == event.cap = 0 \/ Cardinality(Registered) < event.cap

Released(r) == IF elock = r THEN None ELSE elock

Becomes(r, rec) == txn' = [txn EXCEPT ![r] = rec]

Goto(r, pc) == txn' = [txn EXCEPT ![r].pc = pc]

\* The request ends and changed nothing.
Rollback(r) ==
    /\ txn' = [txn EXCEPT ![r] = IdleTxn]
    /\ elock' = Released(r)
    /\ UNCHANGED <<event, reg, checkin>>

\* Mistake: a new registration keeps the cancelled_at of the old one.
FlushedKeepingTime(m, old, status) ==
    [status |-> status, cancelledAt |-> old.cancelledAt \/ status = "cancelled"]

\* set_status and the flush: the columns that differ from the loaded row.
\* A new cancelled_at always differs.
Flushed(m, old, status) ==
    LET at == status = "cancelled" IN
      [status      |-> IF status = old.status THEN reg[m].status ELSE status,
       cancelledAt |-> IF at = old.cancelledAt /\ ~at THEN reg[m].cancelledAt ELSE at]

-----------------------------------------------------------------------------
(* The event row.  Each of these waits for its lock. *)

\* update_event and batch_update.
EditEvent ==
    /\ elock = None /\ event.status # "deleted"
    /\ event' \in [status: {"open", "ended"}, cap: Caps, past: BOOLEAN]
    /\ UNCHANGED <<elock, reg, checkin, txn>>

\* The nightly job.
AutoArchive ==
    /\ elock = None /\ event.status = "open" /\ event.past
    /\ event' = [event EXCEPT !.status = "ended"]
    /\ UNCHANGED <<elock, reg, checkin, txn>>

\* The foreign key of event_registrations keeps an event with registrations.
DeleteEvent ==
    /\ elock = None /\ event.status # "deleted"
    /\ \A m \in Member : reg[m].status = "none"
    /\ event' = [event EXCEPT !.status = "deleted"]
    /\ UNCHANGED <<elock, reg, checkin, txn>>

DayPasses ==
    /\ ~event.past
    /\ event' = [event EXCEPT !.past = TRUE]
    /\ UNCHANGED <<elock, reg, checkin, txn>>

-----------------------------------------------------------------------------
(* register and admin_add_registration. *)

\* The event may be booked; an administrator may add to one that has ended.
\* (For a past event register writes "ended" and raises: nothing is kept.)
Bookable(op) == event.status # "deleted" /\ (op = "register" => event.status # "ended" /\ ~event.past)

\* Mistake: the event is read without FOR UPDATE.
LockEventUnlocked(r, m, op) ==
    /\ Idle(r) /\ elock = None
    /\ Bookable(op)
    /\ Becomes(r, [IdleTxn EXCEPT !.pc = "existing", !.op = op, !.who = m])
    /\ UNCHANGED <<event, elock, reg, checkin>>

\* SELECT ... FOR UPDATE on the event.
LockEvent(r, m, op) ==
    /\ Idle(r) /\ elock = None
    /\ Bookable(op)
    /\ elock' = r
    /\ Becomes(r, [IdleTxn EXCEPT !.pc = "existing", !.op = op, !.who = m])
    /\ UNCHANGED <<event, reg, checkin>>

ReadExisting(r) ==
    /\ txn[r].pc = "existing"
    /\ LET old == reg[txn[r].who] IN
         \/ /\ old.status # "registered"
            /\ txn' = [txn EXCEPT ![r].pc = "count", ![r].old = old]
            /\ UNCHANGED <<event, elock, reg, checkin>>
         \/ old.status = "registered" /\ Rollback(r)

CountRegistered(r) ==
    /\ txn[r].pc = "count"
    /\ \/ HasRoom /\ Goto(r, "book") /\ UNCHANGED <<event, elock, reg, checkin>>
       \/ ~HasRoom /\ Rollback(r)

\* Insert the registration or update the cancelled one, and commit.
Book(r) ==
    /\ txn[r].pc = "book"
    /\ reg' = [reg EXCEPT ![txn[r].who] = Flushed(txn[r].who, txn[r].old, "registered")]
    /\ txn' = [txn EXCEPT ![r] = IdleTxn]
    /\ elock' = Released(r)
    /\ UNCHANGED <<event, checkin>>

-----------------------------------------------------------------------------
(* cancel and admin_update_registration_status: neither locks the event. *)

ReadToCancel(r, m) ==
    /\ Idle(r) /\ reg[m].status \notin {"none", "cancelled"}
    /\ Becomes(r, [IdleTxn EXCEPT !.pc = "set", !.op = "cancel", !.who = m,
                                !.old = reg[m], !.status = "cancelled"])
    /\ UNCHANGED <<event, elock, reg, checkin>>

ReadToOverride(r, m) ==
    /\ Idle(r) /\ reg[m].status # "none"
    /\ \E s \in Overrides :
         Becomes(r, [IdleTxn EXCEPT !.pc = "set", !.op = "override", !.who = m,
                                  !.old = reg[m], !.status = s])
    /\ UNCHANGED <<event, elock, reg, checkin>>

SetStatus(r) ==
    /\ txn[r].pc = "set"
    /\ reg' = [reg EXCEPT ![txn[r].who] = Flushed(txn[r].who, txn[r].old, txn[r].status)]
    /\ txn' = [txn EXCEPT ![r] = IdleTxn]
    /\ UNCHANGED <<event, elock, checkin>>

-----------------------------------------------------------------------------
(* Check-in codes. *)

\* generate_checkin_codes: the registered members, ...
ReadRegistered(r) ==
    /\ Idle(r) /\ event.status # "deleted"
    /\ Becomes(r, [IdleTxn EXCEPT !.pc = "codes", !.op = "generate", !.todo = Registered])
    /\ UNCHANGED <<event, elock, reg, checkin>>

\* ... less those that have a code.
ReadCodes(r) ==
    /\ txn[r].pc = "codes"
    /\ LET missing == {m \in txn[r].todo : checkin[m].code = None} IN
         Becomes(r, [IdleTxn EXCEPT !.pc = "generate", !.op = "generate", !.todo = missing])
    /\ UNCHANGED <<event, elock, reg, checkin>>

\* Mistake: no unique constraint on registration_id, the last code wins.
CodesFreeAlways(M) == M \subseteq Member

\* The insert passes the unique constraint on registration_id.
CodesFree(M) == \A m \in M : checkin[m].code = None

\* All codes or none are inserted.  The foreign key waits for the event row.
\* The codes are random numbers, and two may be equal.
GenerateCodes(r) ==
    /\ txn[r].pc = "generate"
    /\ \/ /\ CodesFree(txn[r].todo)
          /\ txn[r].todo # {} => elock = None
          /\ \E f \in [txn[r].todo -> Code] :
               checkin' = [m \in Member |-> IF m \in txn[r].todo
                                              THEN [code |-> f[m], uses |-> 0]
                                              ELSE checkin[m]]
          /\ txn' = [txn EXCEPT ![r] = IdleTxn]
          /\ UNCHANGED <<event, elock, reg>>
       \/ ~CodesFree(txn[r].todo) /\ Rollback(r)

\* checkin_by_code: scalar_one_or_none raises when two rows have the code.
\* The status of the registration is not read.
ReadCode(r, c) ==
    /\ Idle(r)
    /\ \E m \in Member :
         /\ {n \in Member : checkin[n].code = c} = {m}
         /\ checkin[m].uses = 0
         /\ Becomes(r, [IdleTxn EXCEPT !.pc = "checkin", !.op = "checkin", !.who = m])
    /\ UNCHANGED <<event, elock, reg, checkin>>

CheckIn(r) ==
    /\ txn[r].pc = "checkin" /\ checkin[txn[r].who].uses < MaxUse
    /\ checkin' = [checkin EXCEPT ![txn[r].who].uses = @ + 1]
    /\ txn' = [txn EXCEPT ![r] = IdleTxn]
    /\ UNCHANGED <<event, elock, reg>>

-----------------------------------------------------------------------------

\* An invalid form, an exception, a lost connection.
Abort(r) == ~Idle(r) /\ Rollback(r)

Next ==
    \/ EditEvent \/ AutoArchive \/ DeleteEvent \/ DayPasses
    \/ \E r \in Req :
         \/ \E m \in Member :
              \/ LockEvent(r, m, "register") \/ LockEvent(r, m, "add")
              \/ ReadToCancel(r, m) \/ ReadToOverride(r, m)
         \/ ReadExisting(r) \/ CountRegistered(r) \/ Book(r) \/ SetStatus(r)
         \/ ReadRegistered(r) \/ ReadCodes(r) \/ GenerateCodes(r)
         \/ (\E c \in Code : ReadCode(r, c)) \/ CheckIn(r)
         \/ Abort(r)

Spec == Init /\ [][Next]_vars

-----------------------------------------------------------------------------
(* Properties. *)

\* Rows have the shape of their tables, and the event is locked by the one
\* request that books, from the read of the event to its end.
TypeOK ==
    /\ event \in Event
    /\ elock \in Req \cup {None}
    /\ reg \in [Member -> Reg]
    /\ checkin \in [Member -> Checkin]
    /\ txn \in [Req -> TxnRec]
    /\ \A r \in Req : txn[r].op \in {"register", "add"} <=> elock = r

\* A user's own registration never lands on an event that was ended before
\* it committed, however registration, edits and the archive job interleave.
NoneAfterEnd ==
    [][\A r \in Req : txn[r].pc = "book" /\ txn[r].op = "register" /\ reg' # reg
         => event.status = "open"]_vars

\* Registration hands out seats the event has.  It holds as long as no
\* administrator sets a status by hand, which checks no capacity.
Seats == INSTANCE SeatBooking WITH taken <- Cardinality(Registered), cap <- event.cap
SeatsPromised == Seats!Spec

\* A check-in code that was handed out stays valid: generating codes twice,
\* also at the same time, replaces none and forgets no check-in.
CodesStay ==
    [][\A m \in Member : checkin[m].code # None =>
         checkin'[m].code = checkin[m].code /\ checkin'[m].uses >= checkin[m].uses]_vars

\* What a request knows at each point of its code.
RequestKnows ==
    \A r \in Req :
        /\ txn[r].op \in {"register", "add"} => txn[r].pc \in {"existing", "count", "book"}
        /\ txn[r].pc \in {"existing", "count", "book"} => txn[r].op \in {"register", "add"}
        /\ txn[r].pc \notin {"idle", "codes", "generate"} => txn[r].who \in Member
        /\ txn[r].pc \in {"count", "book"} => txn[r].old.status # "registered"
        /\ txn[r].pc = "set" => txn[r].status \in Overrides \cup {"cancelled"}

IInv == TypeOK /\ RequestKnows

\* The inductive invariant behind SeatsPromised, with IInv: a booking that has
\* counted still has its seat, since it holds the event's lock and the others
\* only give seats up.
SeatKept == \A r \in Req : txn[r].pc = "book" => HasRoom

\* What EventCheckin says: one registration checks in once.
CheckedInOnce == \A m \in Member : checkin[m].uses <= 1

\* A registration is cancelled exactly when it says when.  Two writers of one
\* row may break it: each flushes only the columns that differ from what it
\* loaded, and an override to another status leaves a time it did not see.
CancelledHasTime == \A m \in Member : reg[m].cancelledAt <=> reg[m].status = "cancelled"
=============================================================================
