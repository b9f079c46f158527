---------------------- MODULE EventRegistration_proofs ----------------------
(***************************************************************************)
(* What is proved of event registration, for every number of members,       *)
(* requests and seats: that it implements SeatBooking, as long as no        *)
(* administrator sets the status "registered" by hand, what a booking and a *)
(* check-in code can rely on, and when a registration says that it was      *)
(* cancelled; and of the notices that follow it: whom they reach.           *)
(***************************************************************************)
EXTENDS MCEventRegistration, FiniteSetTheorems, TLAPS

\* A set that only shrinks keeps its room.
LEMMA RoomKept ==
    ASSUME IsFiniteSet(Member), NEW S, NEW T, S \subseteq T, T \subseteq Member,
           NEW n \in Nat, n = 0 \/ Cardinality(T) < n
    PROVE  n = 0 \/ Cardinality(S) < n
<1>1. IsFiniteSet(T)
  BY FS_Subset
<1>2. IsFiniteSet(S) /\ Cardinality(S) <= Cardinality(T)
  BY <1>1, FS_Subset
<1>3. Cardinality(S) \in Nat /\ Cardinality(T) \in Nat
  BY <1>1, <1>2, FS_CardinalityType
<1> QED
  BY <1>2, <1>3

\* A request that ended.
LEMMA IdleTyped == IdleTxn \in TxnRec /\ IdleTxn.op = "none" /\ IdleTxn.pc = "idle"
  BY DEF IdleTxn, TxnRec, NoReg, Reg, Status

\* The initial states are well formed.
LEMMA InitIInv == Init => IInv
<1> SUFFICES ASSUME Init PROVE IInv
  OBVIOUS
<1>1. TypeOK
  <2>2. event \in Event /\ reg \in [Member -> Reg] /\ checkin \in [Member -> Checkin]
    <3>1. [code |-> None, uses |-> 0] \in Checkin /\ NoReg \in Reg
      BY MaxUseAssumption DEF Checkin, NoReg, Reg, Status
    <3>2. event \in Event
      BY DEF Init, Event
    <3> QED
      BY <3>1, <3>2 DEF Init
  <2> QED
    BY <2>2, NoneAssumption, IdleTyped DEF Init, TypeOK
<1>2. RequestKnows
  BY DEF Init, RequestKnows, IdleTxn
<1> QED
  BY <1>1, <1>2 DEF IInv

\* What the flush writes is a registration.
LEMMA FlushedType ==
    ASSUME NEW m \in Member, NEW old, NEW status \in Status, reg \in [Member -> Reg],
           old \in Reg
    PROVE  Flushed(m, old, status) \in Reg
  BY DEF Flushed, Reg, Status

\* Every step keeps the shapes.
LEMMA NextType ==
    ASSUME IInv, [Next]_vars
    PROVE  TypeOK'
<1> USE DEF IInv, TypeOK, RequestKnows, Idle
<1>1. CASE UNCHANGED vars
  BY <1>1 DEF vars
<1>2. CASE EditEvent \/ AutoArchive \/ DeleteEvent \/ DayPasses
  BY <1>2 DEF EditEvent, AutoArchive, DeleteEvent, DayPasses, Event
<1>3. ASSUME NEW r \in Req, Rollback(r) PROVE TypeOK'
  BY <1>3, NoneAssumption DEF Rollback, Released, IdleTxn, TxnRec, NoReg, Reg, Status
<1>4. ASSUME NEW r \in Req, NEW m \in Member, NEW op \in {"register", "add"},
             LockEvent(r, m, op)
      PROVE  TypeOK'
  BY <1>4, NoneAssumption DEF LockEvent, Becomes, TxnRec, IdleTxn, NoReg, Reg, Status
<1>5. ASSUME NEW r \in Req, NEW m \in Member, ReadToCancel(r, m) \/ ReadToOverride(r, m)
      PROVE  TypeOK'
  <2>1. PICK op \in {"cancel", "override"}, s \in Status :
          txn' = [txn EXCEPT ![r] = [IdleTxn EXCEPT !.pc = "set", !.op = op, !.who = m,
                                                    !.old = reg[m], !.status = s]]
    BY <1>5, OverridesAssumption DEF ReadToCancel, ReadToOverride, Status, Becomes
  <2>2. reg[m] \in Reg
    OBVIOUS
  <2>3. [IdleTxn EXCEPT !.pc = "set", !.op = op, !.who = m,
                        !.old = reg[m], !.status = s] \in TxnRec
    BY <2>2 DEF TxnRec, IdleTxn
  <2>4. txn[r].op \notin {"register", "add"}
    BY <1>5 DEF ReadToCancel, ReadToOverride
  <2>5. txn' \in [Req -> TxnRec] /\ txn'[r].op \notin {"register", "add"}
    BY <2>1, <2>3 DEF IdleTxn
  <2> QED
    BY <1>5, <2>1, <2>4, <2>5 DEF ReadToCancel, ReadToOverride
<1>6. ASSUME NEW r \in Req, ReadExisting(r) PROVE TypeOK'
  BY <1>6, <1>3 DEF ReadExisting, TxnRec
<1>7. ASSUME NEW r \in Req, CountRegistered(r) PROVE TypeOK'
  BY <1>7, <1>3 DEF CountRegistered, TxnRec, Goto
<1>8. ASSUME NEW r \in Req, Book(r) PROVE TypeOK'
  <2>1. Flushed(txn[r].who, txn[r].old, "registered") \in Reg
    BY <1>8, FlushedType DEF Book, Status, TxnRec
  <2> QED
    BY <1>8, <2>1, NoneAssumption DEF Book, Released, IdleTxn, TxnRec, NoReg, Reg, Status
<1>9. ASSUME NEW r \in Req, SetStatus(r) PROVE TypeOK'
  <2>1. Flushed(txn[r].who, txn[r].old, txn[r].status) \in Reg
    BY <1>9, FlushedType, OverridesAssumption DEF SetStatus, Status, TxnRec
  <2> QED
    BY <1>9, <2>1, NoneAssumption DEF SetStatus, IdleTxn, TxnRec, NoReg, Reg, Status
<1>10. ASSUME NEW r \in Req, ReadRegistered(r) PROVE TypeOK'
  <2>1. [IdleTxn EXCEPT !.pc = "codes", !.op = "generate", !.todo = Registered] \in TxnRec
    BY DEF Registered, TxnRec, IdleTxn, NoReg, Reg, Status
  <2>2. txn' \in [Req -> TxnRec]
    BY <1>10, <2>1 DEF ReadRegistered, Becomes
  <2>3. txn'[r].op = "generate"
    BY <1>10 DEF ReadRegistered, Becomes, IdleTxn
  <2> QED
    BY <1>10, <2>2, <2>3 DEF ReadRegistered, Becomes
<1>14. ASSUME NEW r \in Req, ReadCodes(r) PROVE TypeOK'
  <2> DEFINE S == {m \in txn[r].todo : checkin[m].code = None}
  <2>0. S \in SUBSET Member
    BY DEF TxnRec
  <2>1. Becomes(r, [IdleTxn EXCEPT !.pc = "generate", !.op = "generate", !.todo = S])
    BY <1>14 DEF ReadCodes
  <2> HIDE DEF S
  <2>2. [IdleTxn EXCEPT !.pc = "generate", !.op = "generate", !.todo = S] \in TxnRec
    BY <2>0 DEF TxnRec, IdleTxn, NoReg, Reg, Status
  <2>3. txn' \in [Req -> TxnRec]
    BY <2>1, <2>2 DEF Becomes
  <2>4. txn'[r].op = "generate"
    BY <2>1 DEF Becomes, IdleTxn
  <2> QED
    BY <1>14, <2>1, <2>3, <2>4 DEF ReadCodes, Becomes
<1>11. ASSUME NEW r \in Req, GenerateCodes(r) PROVE TypeOK'
  <2>1. CASE Rollback(r)
    BY <2>1, <1>3
  <2>2. CASE ~Rollback(r)
    <3>1. PICK f \in [txn[r].todo -> Code] :
            checkin' = [m \in Member |-> IF m \in txn[r].todo
                                           THEN [code |-> f[m], uses |-> 0]
                                           ELSE checkin[m]]
      BY <1>11, <2>2 DEF GenerateCodes
    <3>2. checkin' \in [Member -> Checkin]
      BY <3>1, MaxUseAssumption DEF Checkin
    <3>3. txn[r].pc = "generate" /\ txn' = [txn EXCEPT ![r] = IdleTxn]
          /\ UNCHANGED <<event, elock, reg>>
      BY <1>11, <2>2 DEF GenerateCodes
    <3> QED
      BY <3>2, <3>3, IdleTyped
  <2> QED
    BY <2>1, <2>2
<1>12. ASSUME NEW r \in Req, CheckIn(r) PROVE TypeOK'
  <2>1. checkin' \in [Member -> Checkin]
    BY <1>12, MaxUseAssumption DEF CheckIn, Checkin
  <2> QED
    BY <2>1, <1>12, IdleTyped DEF CheckIn
<1>13. ASSUME NEW r \in Req, NEW c \in Code, ReadCode(r, c) PROVE TypeOK'
  <2>1. PICK m \in Member :
          txn' = [txn EXCEPT ![r] = [IdleTxn EXCEPT !.pc = "checkin", !.op = "checkin",
                                                    !.who = m]]
    BY <1>13 DEF ReadCode, Becomes
  <2>2. [IdleTxn EXCEPT !.pc = "checkin", !.op = "checkin", !.who = m] \in TxnRec
    BY DEF TxnRec, IdleTxn, NoReg, Reg, Status
  <2>3. txn' \in [Req -> TxnRec] /\ txn'[r].op \notin {"register", "add"}
    BY <2>1, <2>2 DEF IdleTxn
  <2> QED
    BY <1>13, <2>1, <2>3 DEF ReadCode
<1> QED
  BY <1>1, <1>2, <1>3, <1>4, <1>5, <1>6, <1>7, <1>8, <1>9, <1>10, <1>11, <1>12, <1>13, <1>14 DEF Next, Abort

\* Only a booking adds to the seats.
LEMMA SeatsShrink ==
    ASSUME IInv, [Next]_vars, "registered" \notin Overrides, \A r \in Req : ~Book(r)
    PROVE  Registered' \subseteq Registered
<1>1. ASSUME NEW r \in Req, SetStatus(r) PROVE Registered' \subseteq Registered
  <2>1. txn[r].status # "registered" /\ txn[r].who \in Member
    BY <1>1 DEF SetStatus, IInv, RequestKnows
  <2>2. reg' = [reg EXCEPT ![txn[r].who] = Flushed(txn[r].who, txn[r].old, txn[r].status)]
    BY <1>1 DEF SetStatus
  <2>3. Flushed(txn[r].who, txn[r].old, txn[r].status).status = "registered"
          => reg[txn[r].who].status = "registered"
    BY <2>1 DEF Flushed
  <2> QED
    BY <2>1, <2>2, <2>3 DEF Registered, IInv, TypeOK
<1>2. ASSUME \A r \in Req : ~SetStatus(r) PROVE reg' = reg
  BY <1>2 DEF Next, vars, EditEvent, AutoArchive, DeleteEvent, DayPasses, LockEvent,
     ReadToCancel, ReadToOverride, ReadExisting, CountRegistered, ReadRegistered,
     ReadCodes, GenerateCodes, ReadCode, CheckIn, Abort, Rollback
<1> QED
  BY <1>1, <1>2 DEF Registered

\* While a request holds the lock, nobody changes capacity or status.
LEMMA EventHeld ==
    ASSUME IInv, [Next]_vars, elock # None
    PROVE  event'.cap = event.cap /\ event'.status = event.status
  BY DEF Next, vars, EditEvent, AutoArchive, DeleteEvent, DayPasses, LockEvent,
     ReadToCancel, ReadToOverride, ReadExisting, CountRegistered, ReadRegistered,
     ReadCodes, GenerateCodes, ReadCode, CheckIn, Abort, Rollback, Book, SetStatus,
     IInv, TypeOK, Event

\* A booking waits at most for its own commit: its seat stays free.
LEMMA RoomStays ==
    ASSUME IInv, SeatKept, [Next]_vars, "registered" \notin Overrides, IsFiniteSet(Member),
           NEW r \in Req, txn[r].pc = "book", ~Book(r)
    PROVE  HasRoom'
<1>1. elock = r
  BY DEF IInv, TypeOK, RequestKnows
<1>2. \A q \in Req : ~Book(q)
  BY <1>1 DEF Book, IInv, TypeOK, RequestKnows
<1>3. Registered' \subseteq Registered
  BY <1>2, SeatsShrink
<1>4. event'.cap = event.cap /\ event.cap \in Nat
  BY <1>1, EventHeld, NoneAssumption, CapsAssumption DEF IInv, TypeOK, Event
<1>5. HasRoom
  BY DEF SeatKept
<1>6. Registered \subseteq Member
  BY DEF Registered
<1>7. event.cap = 0 \/ Cardinality(Registered') < event.cap
  <2>1. event.cap = 0 \/ Cardinality(Registered) < event.cap
    BY <1>5 DEF HasRoom
  <2> QED
    BY <1>3, <1>4, <1>6, <2>1, RoomKept
<1> QED
  BY <1>4, <1>7 DEF HasRoom

\* What a step leaves in the transaction of the request that takes it.
OneStep(r) ==
    \/ txn'[r] = IdleTxn
    \/ /\ txn'[r].pc = "existing" /\ txn'[r].op \in {"register", "add"}
       /\ txn'[r].who \in Member /\ event' = event
       /\ txn'[r].op = "register" => event.status = "open"
    \/ /\ txn[r].pc = "existing" /\ txn'[r].pc = "count"
       /\ txn'[r].op = txn[r].op /\ txn'[r].who = txn[r].who
       /\ txn'[r].old.status # "registered" /\ event' = event
    \/ /\ txn[r].pc = "count" /\ txn'[r] = [txn[r] EXCEPT !.pc = "book"] /\ HasRoom
       /\ UNCHANGED <<event, reg>>
    \/ /\ txn'[r].pc = "set" /\ txn'[r].op \in {"cancel", "override"} /\ txn'[r].who \in Member
       /\ txn'[r].status \in Overrides \cup {"cancelled"}
    \/ txn'[r].pc \in {"codes", "generate"} /\ txn'[r].op = "generate"
    \/ txn'[r].pc = "checkin" /\ txn'[r].op = "checkin" /\ txn'[r].who \in Member

\* Every step is of that form, for the request whose transaction it changes.
LEMMA NextOneStep ==
    ASSUME IInv, [Next]_vars, NEW r \in Req, txn'[r] # txn[r]
    PROVE  OneStep(r)
<1> USE DEF OneStep, IInv, TypeOK
<1>1. txn' # txn /\ Next
  BY DEF vars
<1>2. ASSUME NEW q \in Req, q # r, txn' = [txn EXCEPT ![q] = txn'[q]] PROVE FALSE
  BY <1>2
<1>3. PICK q \in Req :
         \/ \E m \in Member :
              \/ LockEvent(q, m, "register") \/ LockEvent(q, m, "add")
              \/ ReadToCancel(q, m) \/ ReadToOverride(q, m)
         \/ ReadExisting(q) \/ CountRegistered(q) \/ Book(q) \/ SetStatus(q)
         \/ ReadRegistered(q) \/ ReadCodes(q) \/ GenerateCodes(q)
         \/ (\E c \in Code : ReadCode(q, c)) \/ CheckIn(q)
         \/ Abort(q)
  BY <1>1 DEF Next, EditEvent, AutoArchive, DeleteEvent, DayPasses
<1>4. CASE Rollback(q)
  BY <1>4 DEF Rollback
<1>5. ASSUME NEW m \in Member, NEW op \in {"register", "add"}, LockEvent(q, m, op)
      PROVE OneStep(r)
  <2>1. r = q /\ txn'[r] = [IdleTxn EXCEPT !.pc = "existing", !.op = op, !.who = m]
    BY <1>5 DEF LockEvent, Becomes
  <2>2. event' = event /\ (op = "register" => event.status = "open")
    BY <1>5 DEF LockEvent, Bookable, Event
  <2> QED
    BY <2>1, <2>2 DEF IdleTxn
<1>6. ASSUME NEW m \in Member, ReadToCancel(q, m) PROVE OneStep(r)
  BY <1>6 DEF ReadToCancel, Becomes, IdleTxn
<1>7. ASSUME NEW m \in Member, ReadToOverride(q, m) PROVE OneStep(r)
  BY <1>7 DEF ReadToOverride, Becomes, IdleTxn
<1>8. CASE ReadExisting(q)
  BY <1>8, <1>4 DEF ReadExisting, TxnRec
<1>9. CASE CountRegistered(q)
  BY <1>9, <1>4 DEF CountRegistered, Goto, TxnRec
<1>10. CASE Book(q) \/ SetStatus(q) \/ CheckIn(q) \/ GenerateCodes(q) \/ Abort(q)
  BY <1>10, <1>4 DEF Book, SetStatus, CheckIn, GenerateCodes, Abort
<1>11. CASE ReadRegistered(q)
  BY <1>11 DEF ReadRegistered, Becomes, IdleTxn
<1>13. CASE ReadCodes(q)
  BY <1>13 DEF ReadCodes, Becomes, IdleTxn
<1>12. ASSUME NEW c \in Code, ReadCode(q, c) PROVE OneStep(r)
  BY <1>12 DEF ReadCode, Becomes, IdleTxn
<1> QED
  BY <1>3, <1>5, <1>6, <1>7, <1>8, <1>9, <1>10, <1>11, <1>12, <1>13

\* Every step keeps what the requests know.
LEMMA NextKnows == ASSUME IInv, [Next]_vars PROVE RequestKnows'
<1> SUFFICES ASSUME NEW r \in Req
             PROVE  /\ txn'[r].op \in {"register", "add"} =>
                         txn'[r].pc \in {"existing", "count", "book"}
                    /\ txn'[r].pc \in {"existing", "count", "book"} =>
                         txn'[r].op \in {"register", "add"}
                    /\ txn'[r].pc \notin {"idle", "codes", "generate"} => txn'[r].who \in Member
                    /\ txn'[r].pc \in {"count", "book"} => txn'[r].old.status # "registered"
                    /\ txn'[r].pc = "set" => txn'[r].status \in Overrides \cup {"cancelled"}
  BY DEF RequestKnows
<1>1. CASE txn'[r] = txn[r]
  BY <1>1 DEF IInv, RequestKnows
<1>2. CASE txn'[r] # txn[r]
  <2>1. OneStep(r)
    BY <1>2, NextOneStep
  <2> QED
    BY <2>1 DEF OneStep, IInv, TypeOK, RequestKnows, IdleTxn, TxnRec
<1> QED
  BY <1>1, <1>2

\* Every step keeps the seats.
LEMMA NextSeatKept ==
    ASSUME IInv, SeatKept, [Next]_vars, "registered" \notin Overrides, IsFiniteSet(Member)
    PROVE  SeatKept'
<1> SUFFICES ASSUME NEW r \in Req, txn'[r].pc = "book" PROVE HasRoom'
  BY DEF SeatKept
<1>1. CASE txn'[r] = txn[r]
  <2>1. ~Book(r)
    BY <1>1, IdleTyped DEF Book, IInv, TypeOK
  <2> QED
    BY <1>1, <2>1, RoomStays
<1>2. CASE txn'[r] # txn[r]
  <2>1. OneStep(r)
    BY <1>2, NextOneStep
  <2>2. HasRoom /\ UNCHANGED <<event, reg>>
    BY <2>1 DEF OneStep, IInv, TypeOK, IdleTxn, TxnRec
  <2> QED
    BY <2>2 DEF HasRoom, Registered
<1> QED
  BY <1>1, <1>2

\* Every step is a step of SeatBooking, or leaves seats and capacity alone.
LEMMA NextSeats ==
    ASSUME IInv, SeatKept, [Next]_vars, "registered" \notin Overrides, IsFiniteSet(Member)
    PROVE  [Seats!Next]_<<Cardinality(Registered), event.cap>>
<1> USE DEF Seats!Next, Seats!Resize, Seats!Take, Seats!Leave
<1>0. IsFiniteSet(Registered) /\ Cardinality(Registered) \in Nat
  BY FS_Subset, FS_CardinalityType DEF Registered
<1>1. ASSUME NEW r \in Req, Book(r) PROVE [Seats!Next]_<<Cardinality(Registered), event.cap>>
  <2> DEFINE m == txn[r].who
  <2>1. m \in Member /\ HasRoom /\ txn[r].old.status # "registered"
    BY <1>1 DEF Book, IInv, RequestKnows, SeatKept
  <2>2. reg' = [reg EXCEPT ![m] = Flushed(m, txn[r].old, "registered")]
        /\ event' = event
    BY <1>1 DEF Book
  <2>3. Flushed(m, txn[r].old, "registered").status = "registered"
    BY <2>1 DEF Flushed
  <2>4. Registered' = Registered \cup {m}
    BY <2>1, <2>2, <2>3 DEF Registered, IInv, TypeOK
  <2>5. CASE m \in Registered
    BY <2>2, <2>4, <2>5
  <2>6. CASE m \notin Registered
    <3>1. Cardinality(Registered') = Cardinality(Registered) + 1
      BY <1>0, <2>4, <2>6, FS_AddElement
    <3> QED
      BY <2>1, <2>2, <3>1 DEF HasRoom
  <2> QED
    BY <2>5, <2>6
<1>2. ASSUME NEW r \in Req, SetStatus(r) PROVE [Seats!Next]_<<Cardinality(Registered), event.cap>>
  <2> DEFINE m == txn[r].who
  <2>1. m \in Member /\ txn[r].status # "registered"
    BY <1>2 DEF SetStatus, IInv, RequestKnows
  <2>2. reg' = [reg EXCEPT ![m] = Flushed(m, txn[r].old, txn[r].status)] /\ event' = event
    BY <1>2 DEF SetStatus
  <2>3. Flushed(m, txn[r].old, txn[r].status).status = "registered"
          => reg[m].status = "registered"
    BY <2>1 DEF Flushed
  <2>4. Registered' = Registered \/ (m \in Registered /\ Registered' = Registered \ {m})
    BY <2>1, <2>2, <2>3 DEF Registered, IInv, TypeOK
  <2>5. CASE Registered' = Registered
    BY <2>2, <2>5
  <2>6. CASE m \in Registered /\ Registered' = Registered \ {m}
    <3>1. Cardinality(Registered') = Cardinality(Registered) - 1 /\ Cardinality(Registered') \in Nat
      BY <1>0, <2>6, FS_RemoveElement, FS_CardinalityType
    <3> QED
      BY <1>0, <2>2, <3>1
  <2> QED
    BY <2>4, <2>5, <2>6
<1>3. ASSUME \A r \in Req : ~Book(r) /\ ~SetStatus(r)
      PROVE  [Seats!Next]_<<Cardinality(Registered), event.cap>>
  <2>1. Registered' = Registered
    BY <1>3 DEF Registered, Next, vars, EditEvent, AutoArchive, DeleteEvent, DayPasses,
       LockEvent, ReadToCancel, ReadToOverride, ReadExisting, CountRegistered,
       ReadRegistered, ReadCodes, GenerateCodes, ReadCode, CheckIn, Abort, Rollback
  <2>2. event'.cap \in Caps
    BY NextType DEF TypeOK, Event
  <2> QED
    BY <2>1, <2>2
<1> QED
  BY <1>1, <1>2, <1>3

\* Type correctness, the event's lock in the hands of the one request that
\* books, and what each request knows hold in every reachable state.
THEOREM SpecIInv == Spec => []IInv
<1>1. IInv /\ [Next]_vars => IInv'
  BY NextType, NextKnows DEF IInv
<1> QED
  BY <1>1, InitIInv, PTL DEF Spec

\* A booking that has counted the registrations still has its seat when it
\* commits, whatever edits, cancellations and other bookings run meanwhile.
THEOREM SpecSeatKept ==
    ASSUME "registered" \notin Overrides, IsFiniteSet(Member)
    PROVE  Spec => []SeatKept
<1>1. Init => SeatKept
  BY DEF Init, SeatKept, IdleTxn
<1>2. IInv /\ SeatKept /\ [Next]_vars => SeatKept'
  BY NextSeatKept
<1> QED
  BY <1>1, <1>2, SpecIInv, PTL DEF Spec

\* register and admin_add_registration hand out seats the event has,
\* whatever edits, cancellations and other registrations run meanwhile.
THEOREM SpecSeatsPromised ==
    ASSUME "registered" \notin Overrides, IsFiniteSet(Member)
    PROVE  Spec => SeatsPromised
<1>1. Init => Seats!Init
  <2> SUFFICES ASSUME Init PROVE Seats!Init
    OBVIOUS
  <2>1. Registered = {}
    BY DEF Init, Registered, NoReg
  <2> QED
    BY <2>1, FS_EmptySet DEF Init, Seats!Init
<1>2. IInv /\ SeatKept /\ [Next]_vars => [Seats!Next]_<<Cardinality(Registered), event.cap>>
  BY NextSeats
<1> QED
  BY <1>1, <1>2, SpecIInv, SpecSeatKept, PTL DEF Spec, SeatsPromised, Seats!Spec

-----------------------------------------------------------------------------
(* Action properties of registrations and codes. *)

\* A user's booking is under way only while its event is open.
OpenWhileBooking == \A r \in Req : txn[r].op = "register" => event.status = "open"

\* A booking keeps the event open until it commits.
LEMMA OpenStep == IInv /\ OpenWhileBooking /\ [Next]_vars => OpenWhileBooking'
<1> SUFFICES ASSUME IInv, OpenWhileBooking, [Next]_vars, NEW r \in Req,
                    txn'[r].op = "register"
             PROVE  event'.status = "open"
  BY DEF OpenWhileBooking
<1>1. CASE txn'[r] = txn[r]
  <2>1. elock = r /\ event.status = "open"
    BY <1>1 DEF IInv, TypeOK, OpenWhileBooking
  <2> QED
    BY <2>1, EventHeld, NoneAssumption
<1>2. CASE txn'[r] # txn[r]
  <2>1. OneStep(r)
    BY <1>2, NextOneStep
  <2> QED
    BY <2>1 DEF OneStep, IInv, TypeOK, OpenWhileBooking, IdleTxn, TxnRec
<1> QED
  BY <1>1, <1>2

\* register never commits on an event that was ended before: FOR UPDATE keeps
\* edits and the archive job out until the booking is committed.
THEOREM SpecNoneAfterEnd == Spec => NoneAfterEnd
<1> DEFINE Step == \A r \in Req : txn[r].pc = "book" /\ txn[r].op = "register" /\ reg' # reg
                     => event.status = "open"
<1>1. OpenWhileBooking => [Step]_vars
  BY DEF OpenWhileBooking
<1>2. Init => OpenWhileBooking
  BY DEF Init, OpenWhileBooking, IdleTxn
<1> QED
  BY <1>1, <1>2, OpenStep, SpecIInv, PTL DEF Spec, NoneAfterEnd

\* generate_checkin_codes never replaces a code, and no check-in is forgotten.
THEOREM SpecCodesStay == Spec => CodesStay
<1> DEFINE Step == \A m \in Member : checkin[m].code # None =>
         checkin'[m].code = checkin[m].code /\ checkin'[m].uses >= checkin[m].uses
<1>1. IInv /\ [Next]_vars => [Step]_vars
  <2> SUFFICES ASSUME IInv, Next, NEW m \in Member, checkin[m].code # None
               PROVE  checkin'[m].code = checkin[m].code /\ checkin'[m].uses >= checkin[m].uses
    BY DEF vars
  <2>1. checkin \in [Member -> Checkin] /\ checkin[m].uses \in Int
    BY MaxUseAssumption DEF IInv, TypeOK, Checkin
  <2>2. CASE checkin' = checkin
    BY <2>1, <2>2
  <2>3. ASSUME NEW r \in Req, GenerateCodes(r), checkin' # checkin
        PROVE  checkin'[m] = checkin[m]
    BY <2>3 DEF GenerateCodes, CodesFree, Rollback
  <2>4. ASSUME NEW r \in Req, CheckIn(r)
        PROVE  checkin'[m].code = checkin[m].code /\ checkin'[m].uses >= checkin[m].uses
    BY <2>1, <2>4 DEF CheckIn, Checkin
  <2>5. CASE \A r \in Req : ~GenerateCodes(r) /\ ~CheckIn(r)
    <3>1. checkin' = checkin
      BY <2>5 DEF Next, EditEvent, AutoArchive, DeleteEvent, DayPasses, LockEvent,
         ReadToCancel, ReadToOverride, ReadExisting, CountRegistered, ReadRegistered,
         ReadCodes, ReadCode, Abort, Rollback, Book, SetStatus
    <3> QED
      BY <3>1, <2>2
  <2> QED
    BY <2>1, <2>2, <2>3, <2>4, <2>5
<1> QED
  BY <1>1, SpecIInv, PTL DEF Spec, CodesStay

-----------------------------------------------------------------------------
(* Times of cancellation. *)

\* A step of the registrations keeps what members' requests know of the rows.
LEMMA NextMembersAlone ==
    ASSUME IInv, MembersAlone, Next, \A r \in Req : txn'[r].op # "override"
    PROVE  MembersAlone'
<1> USE DEF IInv, MembersAlone, CancelledHasTime
<1>0. /\ reg \in [Member -> Reg] /\ txn \in [Req -> TxnRec]
      /\ \A r \in Req : txn[r].pc \in {"existing", "count", "book"} => elock = r
      /\ \A r \in Req : txn[r].pc \in {"existing", "count", "book", "set"} => txn[r].who \in Member
  BY DEF TypeOK, RequestKnows
<1> HIDE DEF IInv
<1>1. ASSUME NEW r \in Req, txn' = [txn EXCEPT ![r] = IdleTxn], reg' = reg PROVE MembersAlone'
  BY <1>0, <1>1 DEF IdleTxn
<1>2. ASSUME NEW r \in Req, Book(r) PROVE MembersAlone'
  <2> DEFINE m == txn[r].who
  <2>1. /\ m \in Member /\ elock = r
        /\ reg' = [reg EXCEPT ![m] = Flushed(m, txn[r].old, "registered")]
        /\ txn' = [txn EXCEPT ![r] = IdleTxn]
    BY <1>0, <1>2 DEF Book
  <2>2. \A q \in Req : txn'[q].pc \notin {"count", "book"}
    BY <1>0, <2>1, NoneAssumption DEF IdleTxn
  <2>3. /\ Flushed(m, txn[r].old, "registered").status = "registered"
        /\ Flushed(m, txn[r].old, "registered").cancelledAt = FALSE
    <3>1. txn[r].old.status \in {"none", "cancelled"} /\ (txn[r].old.cancelledAt <=> txn[r].old.status = "cancelled")
          /\ (txn[r].old.status = "none" => reg[m].status = "none")
      BY <1>2 DEF Book
    <3>2. txn[r].old \in Reg /\ reg[m] \in Reg
      BY <1>0, <2>1 DEF TxnRec
    <3> QED
      BY <2>1, <3>1, <3>2 DEF Flushed, Reg
  <2>4. reg'[m].status = "registered" /\ ~reg'[m].cancelledAt /\ \A n \in Member : n # m => reg'[n] = reg[n]
    BY <1>0, <2>1, <2>3
  <2>5. \A q \in Req : txn'[q] = IdleTxn \/ txn'[q] = txn[q]
    BY <1>0, <2>1
  <2> QED
    BY <1>0, <2>2, <2>4, <2>5 DEF IdleTxn
<1>3. ASSUME NEW r \in Req, SetStatus(r) PROVE MembersAlone'
  <2> DEFINE m == txn[r].who
  <2>1. /\ m \in Member /\ txn[r].status = "cancelled" /\ txn[r].old.status # "cancelled"
        /\ reg[m].status # "none"
        /\ reg' = [reg EXCEPT ![m] = Flushed(m, txn[r].old, "cancelled")]
        /\ txn' = [txn EXCEPT ![r] = IdleTxn]
    BY <1>0, <1>3 DEF SetStatus
  <2>2. /\ Flushed(m, txn[r].old, "cancelled").status = "cancelled"
        /\ Flushed(m, txn[r].old, "cancelled").cancelledAt = TRUE
    BY <2>1 DEF Flushed
  <2>3. reg'[m].status = "cancelled" /\ reg'[m].cancelledAt /\ \A n \in Member : n # m => reg'[n] = reg[n]
    BY <1>0, <2>1, <2>2
  <2>4. \A q \in Req : txn'[q] = IdleTxn \/ txn'[q] = txn[q]
    BY <1>0, <2>1
  <2> QED
    BY <1>0, <2>1, <2>3, <2>4 DEF IdleTxn
<1>4. ASSUME NEW r \in Req, ReadExisting(r), ~Rollback(r) PROVE MembersAlone'
  <2>1. /\ txn' = [txn EXCEPT ![r].pc = "count", ![r].old = reg[txn[r].who]] /\ reg' = reg
        /\ txn[r].who \in Member /\ reg[txn[r].who].status # "registered"
    BY <1>0, <1>4 DEF ReadExisting
  <2>2. txn'[r] = [txn[r] EXCEPT !.pc = "count", !.old = reg[txn[r].who]]
        /\ \A q \in Req : q # r => txn'[q] = txn[q]
    BY <1>0, <2>1
  <2>3. reg[txn[r].who].status \in {"none", "cancelled"}
    BY <1>0, <2>1 DEF Reg, Status
  <2> QED
    BY <1>0, <2>1, <2>2, <2>3 DEF TxnRec
<1>5. ASSUME NEW r \in Req, NEW m \in Member, ReadToCancel(r, m) PROVE MembersAlone'
  <2>1. /\ txn'[r] = [IdleTxn EXCEPT !.pc = "set", !.op = "cancel", !.who = m,
                                     !.old = reg[m], !.status = "cancelled"]
        /\ reg' = reg /\ reg[m].status \notin {"none", "cancelled"}
        /\ \A q \in Req : q # r => txn'[q] = txn[q]
    BY <1>0, <1>5 DEF ReadToCancel, Becomes
  <2>2. /\ txn'[r].pc = "set" /\ txn'[r].op = "cancel" /\ txn'[r].who = m
        /\ txn'[r].old = reg[m] /\ txn'[r].status = "cancelled"
    BY <2>1 DEF IdleTxn
  <2>3. ASSUME NEW q \in Req, q # r
        PROVE  /\ txn'[q].op # "override" /\ reg' = reg /\ txn'[q] = txn[q]
    BY <2>1, <2>3
  <2>4. reg' = reg /\ reg[m].status \notin {"none", "cancelled"}
    BY <2>1
  <2>5. /\ CancelledHasTime' /\ \A n \in Member : reg'[n].status # "waitlisted"
    BY <2>4
  <2>6. ASSUME NEW q \in Req
        PROVE  /\ txn'[q].op # "override"
               /\ txn'[q].pc = "set" => txn'[q].status = "cancelled" /\ txn'[q].old.status # "cancelled"
                                        /\ reg'[txn'[q].who].status # "none"
               /\ txn'[q].pc \in {"count", "book"} =>
                    /\ txn'[q].old.status \in {"none", "cancelled"}
                    /\ txn'[q].old.cancelledAt <=> txn'[q].old.status = "cancelled"
                    /\ txn'[q].old.status = "none" => reg'[txn'[q].who].status = "none"
    <3>1. CASE q = r
      BY <2>2, <2>4, <3>1
    <3>2. CASE q # r
      BY <2>3, <3>2
    <3> QED
      BY <3>1, <3>2
  <2> QED
    BY <2>5, <2>6
<1>6. ASSUME NEW r \in Req, NEW m \in Member, ReadToOverride(r, m) PROVE FALSE
  <2>1. txn'[r].op = "override"
    BY <1>0, <1>6 DEF ReadToOverride, Becomes, IdleTxn
  <2> QED
    BY <2>1
<1>7. ASSUME NEW r \in Req, CountRegistered(r), ~Rollback(r) PROVE MembersAlone'
  <2>1. /\ txn' = [txn EXCEPT ![r].pc = "book"] /\ reg' = reg /\ txn[r].pc = "count"
    BY <1>7 DEF CountRegistered, Goto
  <2>2. txn'[r] = [txn[r] EXCEPT !.pc = "book"] /\ \A q \in Req : q # r => txn'[q] = txn[q]
    BY <1>0, <2>1
  <2> QED
    BY <1>0, <2>1, <2>2 DEF TxnRec
<1>8. ASSUME NEW r \in Req, reg' = reg, \A q \in Req : q # r => txn'[q] = txn[q],
             txn'[r].pc \notin {"count", "book", "set"}
      PROVE  MembersAlone'
  BY <1>0, <1>8
<1>9. ASSUME NEW r \in Req, NEW m \in Member, LockEvent(r, m, "register") \/ LockEvent(r, m, "add")
      PROVE  MembersAlone'
  <2>1. reg' = reg /\ txn'[r].pc = "existing" /\ \A q \in Req : q # r => txn'[q] = txn[q]
    BY <1>0, <1>9 DEF LockEvent, Becomes, IdleTxn
  <2> QED
    BY <1>8, <2>1
<1>10. ASSUME NEW r \in Req, ReadRegistered(r) \/ ReadCodes(r) PROVE MembersAlone'
  <2>1. reg' = reg /\ txn'[r].pc \in {"codes", "generate"} /\ \A q \in Req : q # r => txn'[q] = txn[q]
    BY <1>0, <1>10 DEF ReadRegistered, ReadCodes, Becomes, IdleTxn
  <2> QED
    BY <1>8, <2>1
<1>11. ASSUME NEW r \in Req, NEW c \in Code, ReadCode(r, c) PROVE MembersAlone'
  <2>1. reg' = reg /\ txn'[r].pc = "checkin" /\ \A q \in Req : q # r => txn'[q] = txn[q]
    BY <1>0, <1>11 DEF ReadCode, Becomes, IdleTxn
  <2> QED
    BY <1>8, <2>1
<1>12. ASSUME NEW r \in Req, Rollback(r) PROVE MembersAlone'
  BY <1>1, <1>12 DEF Rollback
<1>13. ASSUME NEW r \in Req, GenerateCodes(r) \/ CheckIn(r) PROVE MembersAlone'
  BY <1>1, <1>12, <1>13 DEF GenerateCodes, CheckIn
<1>14. CASE EditEvent \/ AutoArchive \/ DeleteEvent \/ DayPasses
  BY <1>0, <1>14 DEF EditEvent, AutoArchive, DeleteEvent, DayPasses
<1> HIDE DEF MembersAlone, CancelledHasTime
<1> QED
  BY <1>2, <1>3, <1>4, <1>5, <1>6, <1>7, <1>9, <1>10, <1>11, <1>12, <1>13, <1>14 DEF Next, Abort

\* The registrations of the instance are those of Spec, for any number of
\* members and requests: a step of the notices leaves them alone.
LEMMA ServiceStep == [ServiceNext]_<<vars, byHand, scene, notices>> => [Next]_vars
  BY DEF ServiceNext

\* IInv holds in the instance, too.
THEOREM ServiceIInv == ServiceSpec => []IInv
<1>1. MCInit => Init
  BY DEF MCInit
<1>2. ServiceSpec => Spec
  BY <1>1, ServiceStep, PTL DEF ServiceSpec, Spec
<1> QED
  BY <1>2, SpecIInv, PTL

\* Until an administrator begins to set a status by hand, a registration is
\* cancelled exactly when it says when, however members' own requests overlap.
THEOREM SpecCancelledHasTime == ServiceSpec => []CancelledHasTimeByMembers
<1>1. MCInit => MembersTimes
  BY DEF MCInit, Init, MembersTimes, MembersAlone, CancelledHasTime, NoReg, IdleTxn
<1>2. IInv /\ MembersTimes /\ [ServiceNext]_<<vars, byHand, scene, notices>> => MembersTimes'
  <2>1. ASSUME IInv, MembersTimes, Next, byHand' = (byHand \/ \E r \in Req : txn'[r].op = "override")
        PROVE  MembersTimes'
    BY <2>1, NextMembersAlone DEF MembersTimes
  <2>2. ASSUME MembersTimes, UNCHANGED <<vars, byHand>> PROVE MembersTimes'
    BY <2>2 DEF vars, MembersTimes, MembersAlone, CancelledHasTime
  <2> QED
    BY <2>1, <2>2 DEF ServiceNext
<1>3. MembersTimes => CancelledHasTimeByMembers
  BY DEF MembersTimes, MembersAlone, CancelledHasTimeByMembers
<1> QED
  BY <1>1, <1>2, <1>3, ServiceIInv, PTL DEF ServiceSpec

-----------------------------------------------------------------------------
(* Notices *)

\* Nothing has happened yet.
LEMMA NoticesInit == N!Init => N!IInv
<1> USE JobsAssumption DEF N!Init, N!Try
<1>1. N!Init => N!TypeOK
  BY DEF N!TypeOK, N!Kind, N!NoListener, N!JobState, N!FactState, N!FactRecord, N!JobRecord, N!ListenerRecord
<1>2. N!Init => N!Announced /\ N!Listened /\ N!TriedOnce /\ N!Tried
  BY DEF N!Announced, N!Listened, N!TriedOnce, N!Tried, N!NoListener
<1>3. N!Init => N!Reached
  <2>1. N!Init => \A f \in Fact, i \in N!Try : listener[f][i].pc = "off"
    BY DEF N!NoListener
  <2> QED
    BY <2>1 DEF N!Reached, N!Knows
<1> QED
  BY <1>1, <1>2, <1>3 DEF N!IInv

\* What the actions change in a record leaves it one.
LEMMA FactRecs ==
  ASSUME NEW x \in N!FactRecord, NEW st \in N!FactState
  PROVE  /\ [x EXCEPT !.st = st] \in N!FactRecord
         /\ [x EXCEPT !.emitted = TRUE, !.st = st] \in N!FactRecord
         /\ [x EXCEPT !.happened = TRUE, !.st = st] \in N!FactRecord
         /\ \A kind \in N!Kind, to \in SUBSET User :
               [x EXCEPT !.st = st, !.kind = kind, !.to = to] \in N!FactRecord
         /\ x.st \in N!FactState /\ x.to \in SUBSET User
  BY DEF N!FactRecord, N!FactState, N!Kind

\* Records of jobs and of listeners stay such records.
LEMMA JobRecs ==
  ASSUME NEW x \in N!JobRecord, NEW st \in N!JobState, NEW k \in N!Try
  PROVE  /\ [x EXCEPT !.st = st] \in N!JobRecord
         /\ [x EXCEPT !.st = st, !.tries = k] \in N!JobRecord
         /\ x.st \in N!JobState /\ x.tries \in N!Try
  BY DEF N!JobRecord, N!JobState

LEMMA ListenerRecs ==
  ASSUME NEW left \in SUBSET User, NEW pc \in {"off", "running", "writing", "ended"}
  PROVE  [pc |-> pc, left |-> left] \in N!ListenerRecord
  BY DEF N!ListenerRecord

\* Every step keeps the shapes of facts, ...
LEMMA FactTypeStep ==
  ASSUME N!TypeOK, N!Next PROVE fact' \in [Fact -> N!FactRecord]
<1>0. fact \in [Fact -> N!FactRecord]
  BY DEF N!TypeOK
<1>1. ASSUME NEW f \in Fact, NEW kind \in N!Kind, NEW to \in SUBSET User, N!Begin(f, kind, to)
      PROVE  fact' \in [Fact -> N!FactRecord]
  <2>1. "open" \in N!FactState
    BY DEF N!FactState
  <2>2. [fact[f] EXCEPT !.st = "open", !.kind = kind, !.to = to] \in N!FactRecord
    BY <1>0, <2>1, FactRecs
  <2> QED
    BY <1>0, <1>1, <2>2 DEF N!Begin
<1>2. ASSUME NEW f \in Fact, NEW to \in SUBSET User, N!Send(f, to)
      PROVE  fact' \in [Fact -> N!FactRecord]
  BY <1>0, <1>2 DEF N!Send, N!FactRecord, N!FactState, N!Kind
<1>3. ASSUME NEW f \in Fact, N!Emit(f) PROVE fact' \in [Fact -> N!FactRecord]
  <2>1. PICK st \in N!FactState : st = IF fact[f].st = "open" THEN fact[f].st ELSE "over"
    BY DEF N!FactState
  <2>2. fact' = [fact EXCEPT ![f] = [fact[f] EXCEPT !.emitted = TRUE, !.st = st]]
    BY <1>0, <1>3, <2>1 DEF N!Emit
  <2>3. [fact[f] EXCEPT !.emitted = TRUE, !.st = st] \in N!FactRecord
    BY <1>0, FactRecs
  <2> QED
    BY <1>0, <2>2, <2>3
<1>4. ASSUME NEW f \in Fact, N!Commit(f) PROVE fact' \in [Fact -> N!FactRecord]
  <2>1. PICK st \in N!FactState : st = IF fact[f].kind = "early" THEN "over" ELSE "committed"
    BY DEF N!FactState
  <2>2. fact' = [fact EXCEPT ![f] = [fact[f] EXCEPT !.happened = TRUE, !.st = st]]
    BY <1>0, <1>4, <2>1 DEF N!Commit
  <2>3. [fact[f] EXCEPT !.happened = TRUE, !.st = st] \in N!FactRecord
    BY <1>0, FactRecs
  <2> QED
    BY <1>0, <2>2, <2>3
<1>5. ASSUME NEW f \in Fact PROVE [fact[f] EXCEPT !.st = "over"] \in N!FactRecord
  BY <1>0, FactRecs DEF N!FactState
<1>6. ASSUME NEW f \in Fact, N!Abort(f) PROVE fact' \in [Fact -> N!FactRecord]
  BY <1>0, <1>5, <1>6 DEF N!Abort
<1>7. ASSUME N!WebDies PROVE fact' \in [Fact -> N!FactRecord]
  BY <1>0, <1>5, <1>7 DEF N!WebDies
<1>8. CASE fact' = fact
  BY <1>0, <1>8
<1> QED
  BY <1>1, <1>2, <1>3, <1>4, <1>6, <1>7, <1>8 DEF N!Next, N!Step, N!ListActive, N!Broadcast, N!Create,
     N!EndListener, N!FailListener, N!SendMail, N!Enqueue, N!Take, N!PerformEvent, N!PerformMail,
     N!Acknowledge, N!WorkerDies, N!MarkRead, N!DeleteUser, N!EraseUser

\* ... those of jobs, whose tries end with max_tries, ...
LEMMA JobTypeStep ==
  ASSUME N!IInv, N!Next PROVE job' \in [Fact \cup Mail -> N!JobRecord]
<1>0. job \in [Fact \cup Mail -> N!JobRecord]
  BY DEF N!IInv, N!TypeOK
<1>1. ASSUME NEW j \in Fact \cup Mail, NEW st \in N!JobState PROVE [job[j] EXCEPT !.st = st] \in N!JobRecord
  <2>1. 0 \in N!Try
    BY JobsAssumption DEF N!Try
  <2>2. job[j] \in N!JobRecord
    BY <1>0
  <2> QED
    BY <2>1, <2>2, JobRecs
<1>2. \A st \in {"none", "sending", "queued", "running", "performed", "over"} : st \in N!JobState
  BY DEF N!JobState
<1>3. ASSUME NEW f \in Fact, N!Emit(f) PROVE job' \in [Fact \cup Mail -> N!JobRecord]
  <2>1. [job[f] EXCEPT !.st = "sending"] \in N!JobRecord
    BY <1>1, <1>2
  <2>2. CASE job' = job
    BY <1>0, <2>2
  <2>3. CASE job' = [job EXCEPT ![f] = [job[f] EXCEPT !.st = "sending"]]
    BY <1>0, <2>1, <2>3
  <2> QED
    BY <1>3, <2>2, <2>3 DEF N!Emit
<1>4. ASSUME NEW m \in Mail, N!SendMail(m) PROVE job' \in [Fact \cup Mail -> N!JobRecord]
  <2>1. [job[m] EXCEPT !.st = "sending"] \in N!JobRecord
    BY <1>1, <1>2
  <2> QED
    BY <1>0, <1>4, <2>1 DEF N!SendMail
<1>5. ASSUME NEW j \in Fact \cup Mail, N!Enqueue(j) PROVE job' \in [Fact \cup Mail -> N!JobRecord]
  <2>1. PICK st \in N!JobState : st = IF setting.queue THEN "queued" ELSE "running"
    BY <1>2
  <2>2. PICK k \in N!Try : k = IF setting.queue THEN 0 ELSE 1
    BY JobsAssumption DEF N!Try
  <2>3. [job[j] EXCEPT !.st = st, !.tries = k] \in N!JobRecord
    BY <1>0, JobRecs
  <2>4. [job[j] EXCEPT !.st = "over"] \in N!JobRecord
    BY <1>1, <1>2
  <2>5. CASE job' = [job EXCEPT ![j] = [job[j] EXCEPT !.st = "over"]]
    BY <1>0, <2>4, <2>5
  <2>6. CASE job' = [job EXCEPT ![j] = [job[j] EXCEPT !.st = st, !.tries = k]]
    BY <1>0, <2>3, <2>6
  <2> QED
    BY <1>0, <1>5, <2>1, <2>2, <2>5, <2>6 DEF N!Enqueue
<1>6. ASSUME NEW j \in Fact \cup Mail, N!Take(j) PROVE job' \in [Fact \cup Mail -> N!JobRecord]
  <2>1. job[j].tries < MaxTries /\ job[j].tries \in N!Try
    BY <1>0, <1>6, JobRecs DEF N!Take, N!IInv, N!Tried, N!JobRecord
  <2>2. job[j].tries + 1 \in N!Try
    BY <2>1, JobsAssumption DEF N!Try
  <2>3. [job[j] EXCEPT !.st = "running", !.tries = job[j].tries + 1] \in N!JobRecord
    BY <1>0, <1>2, <2>2, JobRecs
  <2>4. job' = [job EXCEPT ![j] = [job[j] EXCEPT !.st = "running", !.tries = job[j].tries + 1]]
    BY <1>0, <1>6 DEF N!Take, N!JobRecord
  <2> QED
    BY <1>0, <2>3, <2>4
<1>7. ASSUME NEW f \in Fact, N!PerformEvent(f) PROVE job' \in [Fact \cup Mail -> N!JobRecord]
  <2>1. [job[f] EXCEPT !.st = "performed"] \in N!JobRecord
    BY <1>1, <1>2
  <2> QED
    BY <1>0, <1>7, <2>1 DEF N!PerformEvent
<1>8. ASSUME NEW m \in Mail, N!PerformMail(m) PROVE job' \in [Fact \cup Mail -> N!JobRecord]
  <2>1. PICK st \in N!JobState : job' = [job EXCEPT ![m] = [job[m] EXCEPT !.st = st]]
    BY <1>2, <1>8 DEF N!PerformMail, N!Again
  <2>2. [job[m] EXCEPT !.st = st] \in N!JobRecord
    BY <1>1
  <2> QED
    BY <1>0, <2>1, <2>2
<1>9. ASSUME NEW j \in Fact \cup Mail, N!Acknowledge(j) PROVE job' \in [Fact \cup Mail -> N!JobRecord]
  <2>1. [job[j] EXCEPT !.st = "over"] \in N!JobRecord
    BY <1>1, <1>2
  <2> QED
    BY <1>0, <1>9, <2>1 DEF N!Acknowledge
<1>10. ASSUME N!WebDies \/ N!WorkerDies PROVE job' \in [Fact \cup Mail -> N!JobRecord]
  <2>1. \A j \in Fact \cup Mail : [job[j] EXCEPT !.st = "over"] \in N!JobRecord
                               /\ [job[j] EXCEPT !.st = "queued"] \in N!JobRecord
    BY <1>1, <1>2
  <2>2. DOMAIN job = Fact \cup Mail
    BY <1>0
  <2>3. \A j \in Fact \cup Mail : job'[j] \in {job[j], [job[j] EXCEPT !.st = "over"], [job[j] EXCEPT !.st = "queued"]}
    BY <1>10, <2>2 DEF N!WebDies, N!WorkerDies
  <2>4. job' = [j \in Fact \cup Mail |-> job'[j]]
    BY <1>10, <2>2 DEF N!WebDies, N!WorkerDies
  <2> QED
    BY <1>0, <2>1, <2>3, <2>4
<1>11. CASE job' = job
  BY <1>0, <1>11
<1> QED
  BY ZenonT(40), <1>3, <1>4, <1>5, <1>6, <1>7, <1>8, <1>9, <1>10, <1>11 DEF N!Next, N!Step, N!Begin, N!Send, N!Commit,
     N!Abort, N!ListActive, N!Broadcast, N!Create, N!EndListener, N!FailListener, N!MarkRead, N!DeleteUser,
     N!EraseUser

\* Users change when they are deleted alone.
LEMMA OnlyDeletions ==
  ASSUME N!Next
  PROVE  account' = account \/ \E u \in User : N!DeleteUser(u) \/ N!EraseUser(u)
<1>1. ASSUME NEW f \in Fact, N!Step(f) PROVE account' = account
  BY <1>1 DEF N!Step, N!Begin, N!Send, N!Emit, N!Commit, N!Abort, N!PerformEvent, N!ListActive,
     N!Broadcast, N!EndListener, N!FailListener, N!Create
<1>2. ASSUME NEW j \in Fact \cup Mail, N!Enqueue(j) \/ N!Take(j) \/ N!Acknowledge(j)
      PROVE  account' = account
  BY <1>2 DEF N!Enqueue, N!Take, N!Acknowledge
<1> QED
  BY ZenonT(40), <1>1, <1>2 DEF N!Next, N!SendMail, N!PerformMail, N!WebDies, N!WorkerDies, N!MarkRead

\* ... and the others.
LEMMA NoticesTypes == ASSUME N!IInv, N!Next PROVE N!TypeOK'
<1> USE JobsAssumption DEF N!IInv
<1>1. fact' \in [Fact -> N!FactRecord] /\ job' \in [Fact \cup Mail -> N!JobRecord]
  BY FactTypeStep, JobTypeStep
<1>2. setting' \in [multi: BOOLEAN, queue: BOOLEAN]
  <2>1. ASSUME NEW f \in Fact, N!Step(f) PROVE setting' = setting
    BY <2>1 DEF N!Step, N!Begin, N!Send, N!Emit, N!Commit, N!Abort, N!PerformEvent, N!ListActive,
       N!Broadcast, N!EndListener, N!FailListener, N!Create
  <2>2. ASSUME NEW j \in Fact \cup Mail, N!Enqueue(j) \/ N!Take(j) \/ N!Acknowledge(j)
        PROVE  setting' = setting
    BY <2>2 DEF N!Enqueue, N!Take, N!Acknowledge
  <2>3. setting' = setting
    BY <2>1, <2>2 DEF N!Next, N!SendMail, N!PerformMail, N!WebDies, N!WorkerDies, N!DeleteUser,
       N!EraseUser, N!MarkRead
  <2> QED
    BY <2>3 DEF N!TypeOK
<1>3. listener' \in [Fact -> [N!Try -> N!ListenerRecord]]
  <2>0. listener \in [Fact -> [N!Try -> N!ListenerRecord]]
    BY DEF N!TypeOK
  <2>1. ASSUME NEW f \in Fact, NEW i \in N!Try, NEW r \in N!ListenerRecord
        PROVE  [listener EXCEPT ![f][i] = r] \in [Fact -> [N!Try -> N!ListenerRecord]]
    BY <2>0
  <2>2. ASSUME NEW f \in Fact, NEW i \in N!Try, listener' = N!Dispatched(f, i)
        PROVE  listener' \in [Fact -> [N!Try -> N!ListenerRecord]]
    <3>1. fact[f].to \in SUBSET User
      BY DEF N!TypeOK, N!FactRecord
    <3>2. [pc |-> "running", left |-> fact[f].to] \in N!ListenerRecord
      BY <3>1, ListenerRecs
    <3> QED
      BY <2>1, <2>2, <3>2 DEF N!Dispatched
  <2>3. ASSUME NEW f \in Fact, NEW i \in N!Try, listener' = N!Ended(f, i)
        PROVE  listener' \in [Fact -> [N!Try -> N!ListenerRecord]]
    <3>1. [pc |-> "ended", left |-> {}] \in N!ListenerRecord
      BY ListenerRecs
    <3> QED
      BY <2>1, <2>3, <3>1 DEF N!Ended
  <2>4. ASSUME NEW f \in Fact, NEW to \in SUBSET User, N!Send(f, to)
        PROVE  listener' \in [Fact -> [N!Try -> N!ListenerRecord]]
    <3>1. 0 \in N!Try
      BY DEF N!Try
    <3>2. [pc |-> IF to = {} THEN "running" ELSE "writing", left |-> to] \in N!ListenerRecord
      BY DEF N!ListenerRecord
    <3> QED
      BY <2>1, <2>4, <3>1, <3>2 DEF N!Send
  <2>5. ASSUME NEW f \in Fact, NEW i \in N!Try, N!ListActive(f, i)
        PROVE  listener' \in [Fact -> [N!Try -> N!ListenerRecord]]
    <3>1. [pc |-> "writing", left |-> N!Listed] \in N!ListenerRecord
      BY ListenerRecs DEF N!Listed
    <3> QED
      BY <2>1, <2>5, <3>1 DEF N!ListActive
  <2>6. ASSUME NEW f \in Fact, NEW i \in N!Try, NEW u \in User, N!Create(f, i, u)
        PROVE  listener' \in [Fact -> [N!Try -> N!ListenerRecord]]
    <3>1. listener[f][i] \in N!ListenerRecord
      BY <2>0
    <3>2. [listener[f][i] EXCEPT !.left = listener[f][i].left \ {u}] \in N!ListenerRecord
      BY <3>1 DEF N!ListenerRecord
    <3>3. listener' = [listener EXCEPT ![f][i] = [listener[f][i] EXCEPT !.left = listener[f][i].left \ {u}]]
      BY <2>0, <2>6 DEF N!Create
    <3> QED
      BY <2>1, <3>2, <3>3
  <2>7. ASSUME NEW inWorker \in BOOLEAN, listener' = N!Killed(inWorker)
        PROVE  listener' \in [Fact -> [N!Try -> N!ListenerRecord]]
    <3>1. [pc |-> "ended", left |-> {}] \in N!ListenerRecord
      BY ListenerRecs
    <3> QED
      BY <2>0, <2>7, <3>1 DEF N!Killed
  <2>8. CASE listener' = listener
    BY <2>0, <2>8
  <2>9. ASSUME NEW f \in Fact, N!PerformEvent(f) PROVE listener' \in [Fact -> [N!Try -> N!ListenerRecord]]
    <3>1. job[f].tries \in N!Try
      BY DEF N!TypeOK, N!JobRecord
    <3> QED
      BY <2>2, <2>9, <3>1 DEF N!PerformEvent
  <2>10. ASSUME NEW f \in Fact, N!Emit(f) PROVE listener' \in [Fact -> [N!Try -> N!ListenerRecord]]
    BY <2>2, <2>10 DEF N!Emit, N!Try
  <2>11. ASSUME N!WebDies \/ N!WorkerDies PROVE listener' \in [Fact -> [N!Try -> N!ListenerRecord]]
    BY <2>7, <2>11 DEF N!WebDies, N!WorkerDies
  <2> QED
    BY ZenonT(40), <2>3, <2>4, <2>5, <2>6, <2>8, <2>9, <2>10, <2>11 DEF N!Next, N!Step, N!Begin, N!Commit, N!Abort,
       N!Broadcast, N!EndListener, N!FailListener, N!SendMail, N!PerformMail, N!Enqueue, N!Take,
       N!Acknowledge, N!DeleteUser, N!EraseUser, N!MarkRead
<1>4. row' \subseteq Fact \X N!Try \X User
  <2>1. ASSUME NEW f \in Fact, NEW i \in N!Try, N!Broadcast(f, i) PROVE row' \subseteq Fact \X N!Try \X User
    <3>1. listener[f][i].left \subseteq User
      BY DEF N!TypeOK, N!ListenerRecord
    <3> QED
      BY <2>1, <3>1 DEF N!Broadcast, N!TypeOK
  <2>2. ASSUME NEW f \in Fact, NEW i \in N!Try, NEW u \in User, N!Create(f, i, u)
        PROVE  row' \subseteq Fact \X N!Try \X User
    BY <2>2 DEF N!Create, N!TypeOK
  <2>3. CASE row' = row
    BY <2>3 DEF N!TypeOK
  <2> QED
    BY ZenonT(40), <2>1, <2>2, <2>3 DEF N!Next, N!Step, N!Begin, N!Send, N!Emit, N!Commit, N!Abort, N!PerformEvent,
       N!ListActive, N!EndListener, N!FailListener, N!SendMail, N!PerformMail, N!Enqueue, N!Take,
       N!Acknowledge, N!WebDies, N!WorkerDies, N!DeleteUser, N!EraseUser, N!MarkRead
<1>6. account' \in [User -> {"active", "deleted", "erased"}]
  <2>1. ASSUME NEW u \in User, N!DeleteUser(u) \/ N!EraseUser(u)
        PROVE  account' \in [User -> {"active", "deleted", "erased"}]
    BY <2>1 DEF N!DeleteUser, N!EraseUser, N!TypeOK
  <2>2. CASE account' = account
    BY <2>2 DEF N!TypeOK
  <2> QED
    BY ZenonT(40), <2>1, <2>2, OnlyDeletions
<1>5. sent' \in [Mail -> Nat]
  <2>1. ASSUME NEW m \in Mail, N!PerformMail(m) PROVE sent' \in [Mail -> Nat]
    <3>1. sent' = sent \/ sent' = [sent EXCEPT ![m] = sent[m] + 1]
      BY <2>1 DEF N!PerformMail
    <3> QED
      BY <3>1 DEF N!TypeOK
  <2>2. CASE sent' = sent
    BY <2>2 DEF N!TypeOK
  <2>3. ASSUME NEW f \in Fact, N!Step(f) PROVE sent' = sent
    BY <2>3 DEF N!Step, N!Begin, N!Send, N!Emit, N!Commit, N!Abort, N!PerformEvent, N!ListActive,
       N!Broadcast, N!EndListener, N!FailListener, N!Create
  <2>4. ASSUME NEW j \in Fact \cup Mail, N!Enqueue(j) \/ N!Take(j) \/ N!Acknowledge(j)
        PROVE  sent' = sent
    BY <2>4 DEF N!Enqueue, N!Take, N!Acknowledge
  <2> QED
    BY <2>1, <2>2, <2>3, <2>4 DEF N!Next, N!SendMail, N!WebDies, N!WorkerDies, N!DeleteUser, N!EraseUser,
       N!MarkRead
<1> QED
  BY <1>1, <1>2, <1>3, <1>4, <1>5, <1>6 DEF N!TypeOK

\* What enqueue does to a job, case by case.
LEMMA NoticesEnqueue ==
  ASSUME N!TypeOK, NEW j \in Fact \cup Mail, N!Enqueue(j)
  PROVE  /\ UNCHANGED <<setting, fact, listener, row, sent>>
         /\ job[j].st = "sending"
         /\ \A k \in Fact \cup Mail : k # j => job'[k] = job[k]
         /\ \/ setting.queue /\ job'[j].st = "queued" /\ job'[j].tries = 0 /\ hurt' = hurt
            \/ job'[j].st = "running" /\ job'[j].tries = 1 /\ hurt' = hurt
            \/ job'[j].st = "over" /\ job'[j].tries = job[j].tries /\ hurt' = hurt \cup ({j} \cap Fact)
<1>1. job \in [Fact \cup Mail -> N!JobRecord]
  BY DEF N!TypeOK
<1>2. job[j] = [st |-> job[j].st, tries |-> job[j].tries]
  BY <1>1 DEF N!JobRecord
<1>3. CASE job' = [job EXCEPT ![j].st = "over"] /\ hurt' = hurt \cup ({j} \cap Fact)
  BY <1>1, <1>2, <1>3 DEF N!Enqueue
<1>4. CASE /\ job' = [job EXCEPT ![j].st = IF setting.queue THEN "queued" ELSE "running",
                                ![j].tries = IF setting.queue THEN 0 ELSE 1]
           /\ hurt' = hurt
  <2>1. CASE setting.queue
    BY <1>1, <1>2, <1>4, <2>1 DEF N!Enqueue
  <2>2. CASE ~setting.queue
    BY <1>1, <1>2, <1>4, <2>2 DEF N!Enqueue
  <2> QED
    BY <2>1, <2>2
<1> QED
  BY <1>3, <1>4 DEF N!Enqueue

\* What a mail job does.
LEMMA NoticesPerformMail ==
  ASSUME N!TypeOK, NEW m \in Mail, N!PerformMail(m)
  PROVE  /\ UNCHANGED <<setting, fact, listener, row, hurt>>
         /\ job[m].st = "running"
         /\ \A k \in Fact \cup Mail : k # m => job'[k] = job[k]
         /\ \A k \in Mail : k # m => sent'[k] = sent[k]
         /\ job'[m].tries = job[m].tries
         /\ \/ sent'[m] = sent[m] + 1 /\ job'[m].st = "performed"
            \/ sent'[m] = sent[m] /\ job'[m].st \in {"queued", "over"}
         /\ job'[m].st = "queued" => setting.queue /\ job[m].tries < MaxTries
<1>1. job \in [Fact \cup Mail -> N!JobRecord] /\ sent \in [Mail -> Nat]
  BY DEF N!TypeOK
<1>2. job[m] = [st |-> job[m].st, tries |-> job[m].tries]
  BY <1>1 DEF N!JobRecord
<1>3. CASE sent' = [sent EXCEPT ![m] = @ + 1] /\ job' = [job EXCEPT ![m].st = "performed"]
  BY <1>1, <1>2, <1>3 DEF N!PerformMail
<1>4. ASSUME NEW st \in N!Again(m), sent' = sent, job' = [job EXCEPT ![m].st = st]
      PROVE  /\ \A k \in Fact \cup Mail : k # m => job'[k] = job[k]
             /\ sent'[m] = sent[m] /\ job'[m].st \in {"queued", "over"}
             /\ job'[m].tries = job[m].tries
             /\ job'[m].st = "queued" => setting.queue /\ job[m].tries < MaxTries
             /\ \A k \in Mail : k # m => sent'[k] = sent[k]
  <2>1. st \in {"queued", "over"} /\ (st = "queued" => setting.queue /\ job[m].tries < MaxTries)
    BY <1>4 DEF N!Again
  <2> QED
    BY <1>1, <1>2, <1>4, <2>1
<1> QED
  BY <1>3, <1>4 DEF N!PerformMail


\* Every step keeps the order of commit, event, listener and job.
LEMMA NoticesAnnounced == ASSUME N!IInv, N!Next PROVE N!Announced'
<1> USE JobsAssumption DEF N!IInv, N!Try, N!TypeOK, N!FactRecord, N!FactState, N!JobRecord, N!ListenerRecord, N!JobState, N!Kind, N!Announced, N!Listened, N!TriedOnce, N!Tried, N!Solo, N!ToAll
<1>1. ASSUME NEW f \in Fact, NEW kind \in N!Kind, NEW to \in SUBSET User, N!Begin(f, kind, to) PROVE N!Announced'
  BY <1>1 DEF N!Begin
<1>2. ASSUME NEW f \in Fact, N!Emit(f) PROVE N!Announced'
  BY <1>2 DEF N!Emit, N!Ripe, N!Dispatched
<1>3. ASSUME NEW f \in Fact, N!Commit(f) PROVE N!Announced'
  BY <1>3 DEF N!Commit
<1>4. ASSUME NEW f \in Fact, N!Abort(f) PROVE N!Announced'
  BY <1>4 DEF N!Abort
<1>5. ASSUME NEW f \in Fact, NEW to \in SUBSET User, N!Send(f, to) PROVE N!Announced'
  BY <1>5 DEF N!Send
<1>6. ASSUME NEW f \in Fact, NEW i \in N!Try, N!ListActive(f, i) PROVE N!Announced'
  BY <1>6 DEF N!ListActive, N!Listed
<1>7. ASSUME NEW f \in Fact, NEW i \in N!Try, N!Broadcast(f, i) PROVE N!Announced'
  BY <1>7 DEF N!Broadcast, N!Ended
<1>8. ASSUME NEW f \in Fact, NEW i \in N!Try, NEW u \in User, N!Create(f, i, u) PROVE N!Announced'
  BY <1>8 DEF N!Create
<1>9. ASSUME NEW f \in Fact, NEW i \in N!Try, N!EndListener(f, i) PROVE N!Announced'
  BY <1>9 DEF N!EndListener, N!Ended
<1>10. ASSUME NEW f \in Fact, NEW i \in N!Try, N!FailListener(f, i) PROVE N!Announced'
  BY <1>10 DEF N!FailListener, N!Ended
<1>11. ASSUME NEW m \in Mail, N!SendMail(m) PROVE N!Announced'
  BY <1>11 DEF N!SendMail
<1>12. ASSUME NEW j \in Fact \cup Mail, N!Enqueue(j) PROVE N!Announced'
  <2> HIDE DEF N!TypeOK
  <2> QED
    BY <1>12, NoticesEnqueue
<1>13. ASSUME NEW j \in Fact \cup Mail, N!Take(j) PROVE N!Announced'
  BY <1>13 DEF N!Take
<1>14. ASSUME NEW f \in Fact, N!PerformEvent(f) PROVE N!Announced'
  BY <1>14 DEF N!PerformEvent, N!Dispatched
<1>15. ASSUME NEW m \in Mail, N!PerformMail(m) PROVE N!Announced'
  <2>1. N!TypeOK
    OBVIOUS
  <2> HIDE DEF N!TypeOK
  <2>2. sent \in [Mail -> Nat] /\ job \in [Fact \cup Mail -> N!JobRecord]
    BY <2>1 DEF N!TypeOK
  <2> QED
    BY <1>15, <2>2, NoticesPerformMail
<1>16. ASSUME NEW j \in Fact \cup Mail, N!Acknowledge(j) PROVE N!Announced'
  BY <1>16 DEF N!Acknowledge
<1>17. ASSUME N!WebDies PROVE N!Announced'
  BY <1>17 DEF N!WebDies, N!Killed, N!Underway, N!Runs
<1>18. ASSUME N!WorkerDies PROVE N!Announced'
  BY <1>18 DEF N!WorkerDies, N!Killed, N!Underway, N!Runs
<1>19. ASSUME NEW u \in User, NEW some \in SUBSET row, N!MarkRead(u, some) PROVE N!Announced'
  BY <1>19 DEF N!MarkRead
<1>20. ASSUME NEW u \in User, N!DeleteUser(u) PROVE N!Announced'
  BY <1>20 DEF N!DeleteUser
<1>21. ASSUME NEW u \in User, N!EraseUser(u) PROVE N!Announced'
  BY <1>21 DEF N!EraseUser
<1> HIDE DEF N!IInv, N!Try, N!TypeOK, N!FactRecord, N!FactState, N!JobRecord, N!ListenerRecord, N!JobState, N!Kind, N!Announced, N!Listened, N!TriedOnce, N!Tried, N!Solo, N!ToAll
<1> QED
  BY <1>1, <1>2, <1>3, <1>4, <1>5, <1>6, <1>7, <1>8, <1>9, <1>10, <1>11, <1>12, <1>13, <1>14, <1>15, <1>16, <1>17, <1>18, <1>19, <1>20, <1>21 DEF N!Next, N!Step

\* The instance has a Cardinality of its own.
LEMMA SameCardinality == ASSUME NEW S PROVE N!Cardinality(S) = Cardinality(S)
  BY DEF N!Cardinality, Cardinality

\* Of the users that are on the first page whoever is deleted, the page holds all, ...
LEMMA PageHolds == N!OnPage \subseteq N!Listed
<1> SUFFICES ASSUME NEW u \in N!OnPage PROVE u \in N!Listed
  OBVIOUS
<1>1. u \in User /\ account[u] = "active" /\ Cardinality({v \in User : v < u}) < Page
  BY SameCardinality DEF N!OnPage
<1> DEFINE active == {v \in User : account[v] = "active"}
           before == {v \in active : v < u}
<1>2. before \subseteq {v \in User : v < u} /\ {v \in User : v < u} \subseteq User
  OBVIOUS
<1>3. IsFiniteSet({v \in User : v < u})
  BY <1>2, PageAssumption, FS_Subset
<1>4. /\ Cardinality(before) <= Cardinality({v \in User : v < u})
      /\ Cardinality(before) \in Nat /\ Cardinality({v \in User : v < u}) \in Nat
  BY <1>2, <1>3, FS_Subset, FS_CardinalityType
<1> HIDE DEF before
<1>5. Cardinality(before) < Page
  BY <1>1, <1>4, PageAssumption
<1> QED
  BY <1>1, <1>5, SameCardinality DEF N!Listed, before

\* ... and no step brings a user back.
LEMMA NoticesPage == ASSUME N!TypeOK, N!Next PROVE N!OnPage' \subseteq N!OnPage
<1>1. \A u \in User : account'[u] = "active" => account[u] = "active"
  <2>1. ASSUME NEW u \in User, N!DeleteUser(u) \/ N!EraseUser(u)
        PROVE  \A v \in User : account'[v] = "active" => account[v] = "active"
    BY <2>1 DEF N!DeleteUser, N!EraseUser, N!TypeOK
  <2>2. CASE account' = account
    BY <2>2
  <2> QED
    BY <2>1, <2>2, OnlyDeletions
<1> QED
  BY <1>1 DEF N!OnPage

\* Every step accounts for those who are to be told.
LEMMA NoticesListened == ASSUME N!IInv, N!Next PROVE N!Listened'
<1> USE JobsAssumption DEF N!IInv, N!Try, N!TypeOK, N!FactRecord, N!FactState, N!JobRecord, N!ListenerRecord, N!JobState, N!Kind, N!Announced, N!Listened, N!TriedOnce, N!Tried, N!Solo, N!ToAll
<1>1. ASSUME NEW f \in Fact, NEW kind \in N!Kind, NEW to \in SUBSET User, N!Begin(f, kind, to) PROVE N!Listened'
  BY <1>1 DEF N!Begin
<1>2. ASSUME NEW f \in Fact, N!Emit(f) PROVE N!Listened'
  BY <1>2 DEF N!Emit, N!Ripe, N!Dispatched
<1>3. ASSUME NEW f \in Fact, N!Commit(f) PROVE N!Listened'
  BY <1>3 DEF N!Commit
<1>4. ASSUME NEW f \in Fact, N!Abort(f) PROVE N!Listened'
  BY <1>4 DEF N!Abort
<1>5. ASSUME NEW f \in Fact, NEW to \in SUBSET User, N!Send(f, to) PROVE N!Listened'
  BY <1>5 DEF N!Send
<1>6. ASSUME NEW f \in Fact, NEW i \in N!Try, N!ListActive(f, i) PROVE N!Listened'
  BY <1>6 DEF N!ListActive
<1>7. ASSUME NEW f \in Fact, NEW i \in N!Try, N!Broadcast(f, i) PROVE N!Listened'
  BY <1>7 DEF N!Broadcast, N!Ended
<1>8. ASSUME NEW f \in Fact, NEW i \in N!Try, NEW u \in User, N!Create(f, i, u) PROVE N!Listened'
  BY <1>8 DEF N!Create
<1>9. ASSUME NEW f \in Fact, NEW i \in N!Try, N!EndListener(f, i) PROVE N!Listened'
  BY <1>9 DEF N!EndListener, N!Ended
<1>10. ASSUME NEW f \in Fact, NEW i \in N!Try, N!FailListener(f, i) PROVE N!Listened'
  BY <1>10 DEF N!FailListener, N!Ended
<1>11. ASSUME NEW m \in Mail, N!SendMail(m) PROVE N!Listened'
  BY <1>11 DEF N!SendMail
<1>12. ASSUME NEW j \in Fact \cup Mail, N!Enqueue(j) PROVE N!Listened'
  <2> HIDE DEF N!TypeOK
  <2> QED
    BY <1>12, NoticesEnqueue
<1>13. ASSUME NEW j \in Fact \cup Mail, N!Take(j) PROVE N!Listened'
  BY <1>13 DEF N!Take
<1>14. ASSUME NEW f \in Fact, N!PerformEvent(f) PROVE N!Listened'
  BY <1>14 DEF N!PerformEvent, N!Dispatched
<1>15. ASSUME NEW m \in Mail, N!PerformMail(m) PROVE N!Listened'
  <2>1. N!TypeOK
    OBVIOUS
  <2> HIDE DEF N!TypeOK
  <2>2. sent \in [Mail -> Nat] /\ job \in [Fact \cup Mail -> N!JobRecord]
    BY <2>1 DEF N!TypeOK
  <2> QED
    BY <1>15, <2>2, NoticesPerformMail
<1>16. ASSUME NEW j \in Fact \cup Mail, N!Acknowledge(j) PROVE N!Listened'
  BY <1>16 DEF N!Acknowledge
<1>17. ASSUME N!WebDies PROVE N!Listened'
  BY <1>17 DEF N!WebDies, N!Killed, N!Underway, N!Runs
<1>18. ASSUME N!WorkerDies PROVE N!Listened'
  BY <1>18 DEF N!WorkerDies, N!Killed, N!Underway, N!Runs
<1>19. ASSUME NEW u \in User, NEW some \in SUBSET row, N!MarkRead(u, some) PROVE N!Listened'
  BY <1>19 DEF N!MarkRead
<1>20. ASSUME NEW u \in User, N!DeleteUser(u) PROVE N!Listened'
  BY <1>20 DEF N!DeleteUser
<1>21. ASSUME NEW u \in User, N!EraseUser(u) PROVE N!Listened'
  BY <1>21 DEF N!EraseUser
<1> HIDE DEF N!IInv, N!Try, N!TypeOK, N!FactRecord, N!FactState, N!JobRecord, N!ListenerRecord, N!JobState, N!Kind, N!Announced, N!Listened, N!TriedOnce, N!Tried, N!Solo, N!ToAll
<1> QED
  BY <1>1, <1>2, <1>3, <1>4, <1>5, <1>6, <1>7, <1>8, <1>9, <1>10, <1>11, <1>12, <1>13, <1>14, <1>15, <1>16, <1>17, <1>18, <1>19, <1>20, <1>21 DEF N!Next, N!Step

\* What a step leaves alone: it takes back no row and heals nothing, ...
LEMMA RowsStay == ASSUME N!Next PROVE row \subseteq row' /\ hurt \subseteq hurt'
<1>1. ASSUME NEW f \in Fact, N!Step(f) PROVE row \subseteq row' /\ hurt \subseteq hurt'
  BY <1>1 DEF N!Step, N!Begin, N!Send, N!Emit, N!Commit, N!Abort, N!PerformEvent, N!ListActive,
     N!Broadcast, N!EndListener, N!FailListener, N!Create
<1>2. ASSUME NEW j \in Fact \cup Mail, N!Enqueue(j) \/ N!Take(j) \/ N!Acknowledge(j)
      PROVE  row \subseteq row' /\ hurt \subseteq hurt'
  BY <1>2 DEF N!Enqueue, N!Take, N!Acknowledge
<1> QED
  BY ZenonT(40), <1>1, <1>2 DEF N!Next, N!SendMail, N!PerformMail, N!WebDies, N!WorkerDies, N!MarkRead,
     N!DeleteUser, N!EraseUser

\* ... and a fact that was announced stays what it is.
LEMMA SameFacts ==
  ASSUME N!IInv, N!Next
  PROVE  \A f \in Fact, i \in N!Try : listener[f][i].pc # "off" =>
            fact'[f].kind = fact[f].kind /\ fact'[f].to = fact[f].to
<1> USE DEF N!IInv, N!TypeOK
<1>1. \A f \in Fact, i \in N!Try : listener[f][i].pc # "off" => fact[f].st # "none"
  BY DEF N!Announced, N!Listened, N!Try
<1>2. ASSUME NEW g \in Fact, N!Step(g)
      PROVE  \A f \in Fact : fact[f].st # "none" => fact'[f].kind = fact[f].kind /\ fact'[f].to = fact[f].to
  <2>1. CASE N!Emit(g) \/ N!Commit(g) \/ N!Abort(g)
    <3>1. fact \in [Fact -> N!FactRecord]
      OBVIOUS
    <3> HIDE DEF N!IInv, N!TypeOK
    <3>2. CASE N!Emit(g)
      BY <3>1, <3>2 DEF N!Emit, N!FactRecord
    <3>3. CASE N!Commit(g)
      BY <3>1, <3>3 DEF N!Commit, N!FactRecord
    <3>4. CASE N!Abort(g)
      BY <3>1, <3>4 DEF N!Abort, N!FactRecord
    <3> QED
      BY <2>1, <3>2, <3>3, <3>4
  <2>2. ASSUME NEW kind \in N!Kind, NEW to \in SUBSET User, N!Begin(g, kind, to)
        PROVE  \A f \in Fact : fact[f].st # "none" => fact'[f] = fact[f]
    BY <2>2 DEF N!Begin
  <2>3. ASSUME NEW to \in SUBSET User, N!Send(g, to)
        PROVE  \A f \in Fact : fact[f].st # "none" => fact'[f] = fact[f]
    BY <2>3 DEF N!Send
  <2>4. CASE fact' = fact
    BY <2>4
  <2> HIDE DEF N!IInv, N!TypeOK
  <2> QED
    BY ZenonT(40), <1>2, <2>1, <2>2, <2>3, <2>4 DEF N!Step, N!PerformEvent, N!ListActive,
       N!Broadcast, N!EndListener, N!FailListener, N!Create
<1>3. ASSUME N!WebDies
      PROVE  \A f \in Fact : fact'[f].kind = fact[f].kind /\ fact'[f].to = fact[f].to
  BY <1>3 DEF N!WebDies, N!FactRecord
<1>4. ASSUME NEW j \in Fact \cup Mail, N!Enqueue(j) \/ N!Take(j) \/ N!Acknowledge(j)
      PROVE  fact' = fact
  BY <1>4 DEF N!Enqueue, N!Take, N!Acknowledge
<1> HIDE DEF N!IInv, N!TypeOK
<1>5. \/ \E g \in Fact : N!Step(g)
      \/ N!WebDies
      \/ fact' = fact
  BY ZenonT(40), <1>4 DEF N!Next, N!SendMail, N!PerformMail, N!WorkerDies, N!MarkRead, N!DeleteUser, N!EraseUser
<1> QED
  BY <1>1, <1>2, <1>3, <1>5

\* A listener that was not at work begins, or it goes on with whom it still has to
\* tell, or its event is hurt.
LEMMA ListenerSteps ==
  ASSUME N!IInv, N!Next, NEW f \in Fact, NEW i \in N!Try, f \notin hurt'
  PROVE  \/ listener'[f][i] = listener[f][i]
         \/ listener'[f][i] = [pc |-> "running", left |-> fact'[f].to]
         \/ fact'[f].kind = "named" /\ listener'[f][i].left = fact'[f].to
         \/ fact'[f].kind = "everyone" /\ listener'[f][i].pc = "running"
         \/ listener'[f][i].left = N!Listed /\ fact'[f].kind \in N!ToAll
         \/ /\ N!Knows(f, i)
            /\ \A u \in User : u \in listener[f][i].left =>
                 u \in listener'[f][i].left \/ <<f, i, u>> \in row'
<1> USE DEF N!IInv, N!TypeOK, N!ListenerRecord
<1>2. ASSUME NEW g \in Fact, N!Emit(g) PROVE listener'[f][i] = listener[f][i] \/ listener'[f][i] = [pc |-> "running", left |-> fact'[f].to]
  BY <1>2 DEF N!Emit, N!Dispatched, N!FactRecord
<1>3. ASSUME NEW g \in Fact, N!PerformEvent(g) PROVE listener'[f][i] = listener[f][i] \/ listener'[f][i] = [pc |-> "running", left |-> fact'[f].to]
  BY <1>3 DEF N!PerformEvent, N!Dispatched
<1>5. ASSUME NEW g \in Fact, NEW to \in SUBSET User, N!Send(g, to)
      PROVE  \/ listener'[f][i] = listener[f][i]
             \/ fact'[f].kind = "named" /\ listener'[f][i].left = fact'[f].to
             \/ fact'[f].kind = "everyone" /\ listener'[f][i].pc = "running"
  BY <1>5 DEF N!Send, N!FactRecord
<1>6. ASSUME NEW g \in Fact, NEW k \in N!Try, N!ListActive(g, k)
      PROVE  \/ listener'[f][i] = listener[f][i]
             \/ listener'[f][i].left = N!Listed /\ fact'[f].kind \in N!ToAll
  BY <1>6 DEF N!ListActive
<1>7. ASSUME NEW g \in Fact, NEW k \in N!Try, N!Broadcast(g, k)
      PROVE  \/ listener'[f][i] = listener[f][i]
             \/ /\ N!Knows(f, i)
                /\ \A u \in User : u \in listener[f][i].left =>
                     u \in listener'[f][i].left \/ <<f, i, u>> \in row'
  BY <1>7 DEF N!Broadcast, N!Ended, N!Knows
<1>8. ASSUME NEW g \in Fact, NEW k \in N!Try, NEW v \in User, N!Create(g, k, v)
      PROVE  \/ listener'[f][i] = listener[f][i]
             \/ /\ N!Knows(f, i)
                /\ \A u \in User : u \in listener[f][i].left =>
                     u \in listener'[f][i].left \/ <<f, i, u>> \in row'
  BY <1>8 DEF N!Create, N!Knows
<1>9. ASSUME NEW g \in Fact, NEW k \in N!Try, N!EndListener(g, k)
      PROVE  \/ listener'[f][i] = listener[f][i]
             \/ N!Knows(f, i) /\ listener[f][i].left = {}
  BY <1>9 DEF N!EndListener, N!Ended, N!Knows
<1>10. ASSUME NEW g \in Fact, NEW k \in N!Try, N!FailListener(g, k) PROVE listener'[f][i] = listener[f][i]
  BY <1>10 DEF N!FailListener, N!Ended
<1>11. ASSUME N!WebDies \/ N!WorkerDies PROVE listener'[f][i] = listener[f][i]
  <2>1. ASSUME NEW inWorker \in BOOLEAN, listener' = N!Killed(inWorker), hurt' = hurt \cup {g \in Fact : N!Underway(g, inWorker)}
        PROVE  listener'[f][i] = listener[f][i]
    <3>1. i \in N!Runs(inWorker) => listener[f][i].pc \in {"off", "ended"}
      BY <2>1 DEF N!Underway
    <3>2. listener[f][i] = [pc |-> listener[f][i].pc, left |-> listener[f][i].left]
      OBVIOUS
    <3>3. listener[f][i].pc = "ended" => listener[f][i].left = {}
      BY DEF N!Listened
    <3> QED
      BY <2>1, <3>1, <3>2, <3>3 DEF N!Killed
  <2> QED
    BY <1>11, <2>1 DEF N!WebDies, N!WorkerDies
<1> HIDE DEF N!IInv, N!TypeOK, N!ListenerRecord
<1>12. CASE listener' = listener
  BY <1>12
<1> QED
  BY ZenonT(40), <1>2, <1>3, <1>5, <1>6, <1>7, <1>8, <1>9, <1>10, <1>11, <1>12 DEF N!Next, N!Step, N!Begin, N!Commit, N!Abort,
     N!SendMail, N!PerformMail, N!Enqueue, N!Take, N!Acknowledge, N!DeleteUser, N!EraseUser, N!MarkRead

\* Whoever is to be told stays told or to come.
LEMMA NoticesReached == ASSUME N!IInv, N!Next PROVE N!Reached'
<1> SUFFICES ASSUME NEW f \in Fact, f \notin hurt', NEW i \in N!Try, N!Knows(f, i)', NEW u \in N!Addressed(f)'
             PROVE  u \in listener'[f][i].left \/ <<f, i, u>> \in row'
  BY DEF N!Reached
<1>0. f \notin hurt /\ row \subseteq row'
  BY RowsStay
<1>1. u \in User /\ (fact'[f].kind \in N!ToAll => u \in N!OnPage /\ u \in N!OnPage')
  <2>1. N!TypeOK /\ N!TypeOK'
    BY NoticesTypes DEF N!IInv
  <2>2. N!OnPage' \subseteq N!OnPage /\ fact'[f].to \subseteq User
    BY <2>1, NoticesPage DEF N!TypeOK, N!FactRecord
  <2> QED
    BY <2>2 DEF N!Addressed, N!OnPage
<1>2. ASSUME N!Knows(f, i) PROVE u \in listener[f][i].left \/ <<f, i, u>> \in row
  <2>1. fact'[f].kind = fact[f].kind /\ fact'[f].to = fact[f].to
    <3>1. listener[f][i].pc # "off"
      BY <1>2 DEF N!Knows
    <3> QED
      BY <3>1, SameFacts
  <2>2. u \in N!Addressed(f)
    BY <1>1, <2>1 DEF N!Addressed
  <2> QED
    BY <1>0, <1>2, <2>2 DEF N!IInv, N!Reached
<1>3. CASE listener'[f][i] = listener[f][i]
  <2>1. listener[f][i].pc # "off"
    BY <1>3 DEF N!Knows
  <2>2. fact'[f].kind = fact[f].kind
    BY <2>1, SameFacts
  <2>3. N!Knows(f, i)
    BY <1>3, <2>2 DEF N!Knows
  <2> QED
    BY <1>0, <1>2, <1>3, <2>3
<1>4. CASE listener'[f][i] = [pc |-> "running", left |-> fact'[f].to]
  <2>1. fact'[f].kind \notin N!ToAll
    BY <1>4 DEF N!Knows
  <2> QED
    BY <1>4, <2>1 DEF N!Addressed
<1>5. CASE fact'[f].kind = "named" /\ listener'[f][i].left = fact'[f].to
  BY <1>5 DEF N!Addressed, N!ToAll
<1>6. CASE fact'[f].kind = "everyone" /\ listener'[f][i].pc = "running"
  BY <1>6 DEF N!Knows, N!ToAll
<1>7. CASE listener'[f][i].left = N!Listed /\ fact'[f].kind \in N!ToAll
  BY <1>1, <1>7, PageHolds
<1>8. CASE /\ N!Knows(f, i)
           /\ \A v \in User : v \in listener[f][i].left =>
                v \in listener'[f][i].left \/ <<f, i, v>> \in row'
  BY <1>0, <1>1, <1>2, <1>8
<1> QED
  BY <1>3, <1>4, <1>5, <1>6, <1>7, <1>8, ListenerSteps

\* Every step tries the job of an event once, unless the event is hurt.
LEMMA NoticesTriedOnce == ASSUME N!IInv, N!Next PROVE N!TriedOnce'
<1> USE JobsAssumption DEF N!IInv, N!Try, N!TypeOK, N!FactRecord, N!FactState, N!JobRecord, N!ListenerRecord, N!JobState, N!Kind, N!Announced, N!Listened, N!TriedOnce, N!Tried, N!Solo, N!ToAll
<1>1. ASSUME NEW f \in Fact, NEW kind \in N!Kind, NEW to \in SUBSET User, N!Begin(f, kind, to) PROVE N!TriedOnce'
  BY <1>1 DEF N!Begin
<1>2. ASSUME NEW f \in Fact, N!Emit(f) PROVE N!TriedOnce'
  BY <1>2 DEF N!Emit, N!Ripe, N!Dispatched
<1>3. ASSUME NEW f \in Fact, N!Commit(f) PROVE N!TriedOnce'
  BY <1>3 DEF N!Commit
<1>4. ASSUME NEW f \in Fact, N!Abort(f) PROVE N!TriedOnce'
  BY <1>4 DEF N!Abort
<1>5. ASSUME NEW f \in Fact, NEW to \in SUBSET User, N!Send(f, to) PROVE N!TriedOnce'
  BY <1>5 DEF N!Send
<1>6. ASSUME NEW f \in Fact, NEW i \in N!Try, N!ListActive(f, i) PROVE N!TriedOnce'
  BY <1>6 DEF N!ListActive, N!Listed
<1>7. ASSUME NEW f \in Fact, NEW i \in N!Try, N!Broadcast(f, i) PROVE N!TriedOnce'
  BY <1>7 DEF N!Broadcast, N!Ended
<1>8. ASSUME NEW f \in Fact, NEW i \in N!Try, NEW u \in User, N!Create(f, i, u) PROVE N!TriedOnce'
  BY <1>8 DEF N!Create
<1>9. ASSUME NEW f \in Fact, NEW i \in N!Try, N!EndListener(f, i) PROVE N!TriedOnce'
  BY <1>9 DEF N!EndListener, N!Ended
<1>10. ASSUME NEW f \in Fact, NEW i \in N!Try, N!FailListener(f, i) PROVE N!TriedOnce'
  BY <1>10 DEF N!FailListener, N!Ended
<1>11. ASSUME NEW m \in Mail, N!SendMail(m) PROVE N!TriedOnce'
  BY <1>11 DEF N!SendMail
<1>12. ASSUME NEW j \in Fact \cup Mail, N!Enqueue(j) PROVE N!TriedOnce'
  <2> HIDE DEF N!TypeOK
  <2> QED
    BY <1>12, NoticesEnqueue
<1>13. ASSUME NEW j \in Fact \cup Mail, N!Take(j) PROVE N!TriedOnce'
  BY <1>13 DEF N!Take
<1>14. ASSUME NEW f \in Fact, N!PerformEvent(f) PROVE N!TriedOnce'
  BY <1>14 DEF N!PerformEvent, N!Dispatched
<1>15. ASSUME NEW m \in Mail, N!PerformMail(m) PROVE N!TriedOnce'
  <2>1. N!TypeOK
    OBVIOUS
  <2> HIDE DEF N!TypeOK
  <2>2. sent \in [Mail -> Nat] /\ job \in [Fact \cup Mail -> N!JobRecord]
    BY <2>1 DEF N!TypeOK
  <2> QED
    BY <1>15, <2>2, NoticesPerformMail
<1>16. ASSUME NEW j \in Fact \cup Mail, N!Acknowledge(j) PROVE N!TriedOnce'
  BY <1>16 DEF N!Acknowledge
<1>17. ASSUME N!WebDies PROVE N!TriedOnce'
  <2>1. ASSUME NEW f \in Fact, f \notin hurt' PROVE job'[f] = job[f] /\ f \notin hurt
    <3>1. job[f].st # "sending" /\ f \notin hurt
      BY <1>17, <2>1 DEF N!WebDies, N!Underway
    <3>2. ~setting.queue => job[f].st \in {"none", "over"}
      BY ZenonT(40), <1>17, <2>1, <3>1 DEF N!WebDies, N!Underway
    <3>3. job[f] = [st |-> job[f].st, tries |-> job[f].tries]
      OBVIOUS
    <3>4. job'[f] = IF job[f].st = "sending" \/ (~setting.queue /\ job[f].st # "none")
                    THEN [job[f] EXCEPT !.st = "over"] ELSE job[f]
      BY <1>17 DEF N!WebDies
    <3> QED
      BY <3>1, <3>2, <3>3, <3>4
  <2>2. \A f \in Fact : listener[f][1].pc # "off" => listener'[f][1].pc # "off"
    <3>1. 1 \in N!Try
      OBVIOUS
    <3> QED
      BY <1>17, <3>1 DEF N!WebDies, N!Killed
  <2> QED
    BY <2>1, <2>2
<1>18. ASSUME N!WorkerDies PROVE N!TriedOnce'
  BY <1>18 DEF N!WorkerDies, N!Killed, N!Underway, N!Runs
<1>19. ASSUME NEW u \in User, NEW some \in SUBSET row, N!MarkRead(u, some) PROVE N!TriedOnce'
  BY <1>19 DEF N!MarkRead
<1>20. ASSUME NEW u \in User, N!DeleteUser(u) PROVE N!TriedOnce'
  BY <1>20 DEF N!DeleteUser
<1>21. ASSUME NEW u \in User, N!EraseUser(u) PROVE N!TriedOnce'
  BY <1>21 DEF N!EraseUser
<1> HIDE DEF N!IInv, N!Try, N!TypeOK, N!FactRecord, N!FactState, N!JobRecord, N!ListenerRecord, N!JobState, N!Kind, N!Announced, N!Listened, N!TriedOnce, N!Tried, N!Solo, N!ToAll
<1> QED
  BY <1>1, <1>2, <1>3, <1>4, <1>5, <1>6, <1>7, <1>8, <1>9, <1>10, <1>11, <1>12, <1>13, <1>14, <1>15, <1>16, <1>17, <1>18, <1>19, <1>20, <1>21 DEF N!Next, N!Step

\* Every step keeps the tries of the jobs within their number.
LEMMA NoticesTried == ASSUME N!IInv, N!Next PROVE N!Tried'
<1> USE JobsAssumption DEF N!IInv, N!Try, N!TypeOK, N!FactRecord, N!FactState, N!JobRecord, N!ListenerRecord, N!JobState, N!Kind, N!Announced, N!Listened, N!TriedOnce, N!Tried, N!Solo, N!ToAll
<1>1. ASSUME NEW f \in Fact, NEW kind \in N!Kind, NEW to \in SUBSET User, N!Begin(f, kind, to) PROVE N!Tried'
  BY <1>1 DEF N!Begin
<1>2. ASSUME NEW f \in Fact, N!Emit(f) PROVE N!Tried'
  BY <1>2 DEF N!Emit, N!Ripe, N!Dispatched
<1>3. ASSUME NEW f \in Fact, N!Commit(f) PROVE N!Tried'
  BY <1>3 DEF N!Commit
<1>4. ASSUME NEW f \in Fact, N!Abort(f) PROVE N!Tried'
  BY <1>4 DEF N!Abort
<1>5. ASSUME NEW f \in Fact, NEW to \in SUBSET User, N!Send(f, to) PROVE N!Tried'
  BY <1>5 DEF N!Send
<1>6. ASSUME NEW f \in Fact, NEW i \in N!Try, N!ListActive(f, i) PROVE N!Tried'
  BY <1>6 DEF N!ListActive, N!Listed
<1>7. ASSUME NEW f \in Fact, NEW i \in N!Try, N!Broadcast(f, i) PROVE N!Tried'
  BY <1>7 DEF N!Broadcast, N!Ended
<1>8. ASSUME NEW f \in Fact, NEW i \in N!Try, NEW u \in User, N!Create(f, i, u) PROVE N!Tried'
  BY <1>8 DEF N!Create
<1>9. ASSUME NEW f \in Fact, NEW i \in N!Try, N!EndListener(f, i) PROVE N!Tried'
  BY <1>9 DEF N!EndListener, N!Ended
<1>10. ASSUME NEW f \in Fact, NEW i \in N!Try, N!FailListener(f, i) PROVE N!Tried'
  BY <1>10 DEF N!FailListener, N!Ended
<1>11. ASSUME NEW m \in Mail, N!SendMail(m) PROVE N!Tried'
  BY <1>11 DEF N!SendMail
<1>12. ASSUME NEW j \in Fact \cup Mail, N!Enqueue(j) PROVE N!Tried'
  <2> HIDE DEF N!TypeOK
  <2> QED
    BY <1>12, NoticesEnqueue
<1>13. ASSUME NEW j \in Fact \cup Mail, N!Take(j) PROVE N!Tried'
  BY <1>13 DEF N!Take
<1>14. ASSUME NEW f \in Fact, N!PerformEvent(f) PROVE N!Tried'
  BY <1>14 DEF N!PerformEvent, N!Dispatched
<1>15. ASSUME NEW m \in Mail, N!PerformMail(m) PROVE N!Tried'
  <2>1. N!TypeOK
    OBVIOUS
  <2> HIDE DEF N!TypeOK
  <2>2. sent \in [Mail -> Nat] /\ job \in [Fact \cup Mail -> N!JobRecord]
    BY <2>1 DEF N!TypeOK
  <2>3. sent' \in [Mail -> Nat] /\ job' \in [Fact \cup Mail -> N!JobRecord]
    BY NoticesTypes DEF N!TypeOK
  <2>4. ASSUME NEW k \in Mail, k # m PROVE sent'[k] = sent[k] /\ job'[k] = job[k]
    BY <1>15, <2>1, <2>4, NoticesPerformMail
  <2>5. \A j \in Fact \cup Mail : job'[j].st = "queued" => setting.queue /\ job'[j].tries < MaxTries
    BY <1>15, <2>1, NoticesPerformMail
  <2>6. /\ job'[m].st \notin {"none", "sending", "running"}
        /\ sent'[m] <= job'[m].tries
        /\ job'[m].st = "performed" => sent'[m] > 0
    <3>1. sent[m] < job[m].tries /\ sent[m] \in Nat /\ job[m].tries \in Nat
      BY <1>15, <2>1, <2>2, NoticesPerformMail
    <3> QED
      BY <1>15, <2>1, <3>1, NoticesPerformMail
  <2>7. setting' = setting
    BY <1>15, <2>1, NoticesPerformMail
  <2> QED
    BY <2>4, <2>5, <2>6, <2>7
<1>16. ASSUME NEW j \in Fact \cup Mail, N!Acknowledge(j) PROVE N!Tried'
  BY <1>16 DEF N!Acknowledge
<1>17. ASSUME N!WebDies PROVE N!Tried'
  BY <1>17 DEF N!WebDies, N!Killed, N!Underway, N!Runs
<1>18. ASSUME N!WorkerDies PROVE N!Tried'
  BY <1>18 DEF N!WorkerDies, N!Killed, N!Underway, N!Runs
<1>19. ASSUME NEW u \in User, NEW some \in SUBSET row, N!MarkRead(u, some) PROVE N!Tried'
  BY <1>19 DEF N!MarkRead
<1>20. ASSUME NEW u \in User, N!DeleteUser(u) PROVE N!Tried'
  BY <1>20 DEF N!DeleteUser
<1>21. ASSUME NEW u \in User, N!EraseUser(u) PROVE N!Tried'
  BY <1>21 DEF N!EraseUser
<1> HIDE DEF N!IInv, N!Try, N!TypeOK, N!FactRecord, N!FactState, N!JobRecord, N!ListenerRecord, N!JobState, N!Kind, N!Announced, N!Listened, N!TriedOnce, N!Tried, N!Solo, N!ToAll
<1> QED
  BY <1>1, <1>2, <1>3, <1>4, <1>5, <1>6, <1>7, <1>8, <1>9, <1>10, <1>11, <1>12, <1>13, <1>14, <1>15, <1>16, <1>17, <1>18, <1>19, <1>20, <1>21 DEF N!Next, N!Step


\* The invariant of the notices is inductive.
LEMMA NoticesNext == N!IInv /\ [N!Next]_notices => N!IInv'
<1>1. ASSUME N!IInv, N!Next PROVE N!IInv'
  BY <1>1, NoticesTypes, NoticesAnnounced, NoticesListened, NoticesReached, NoticesTriedOnce, NoticesTried DEF N!IInv
<1>2. ASSUME N!IInv, UNCHANGED notices PROVE N!IInv'
  BY <1>2 DEF notices, N!IInv, N!TypeOK, N!Announced, N!Listened, N!Reached, N!Knows, N!Addressed,
     N!OnPage, N!TriedOnce, N!Tried, N!Solo, N!ToAll
<1> QED
  BY <1>1, <1>2

\* How often a user was told: by the listener of the request, and by that of the job.
LEMMA OneCopy ==
  ASSUME N!IInv, NEW f \in Fact, NEW u \in User, job[f].st = "none"
  PROVE  /\ <<f, 0, u>> \in row => N!Copies(f, u) = 1
         /\ \A i \in N!Try : <<f, i, u>> \in row => i = 0
<1>1. \A i \in N!Try : <<f, i, u>> \in row => i = 0
  BY DEF N!IInv, N!Listened, N!Try
<1>2. ASSUME <<f, 0, u>> \in row PROVE N!Copies(f, u) = 1
  <2>1. {i \in N!Try : <<f, i, u>> \in row} = {0}
    BY <1>1, <1>2, JobsAssumption DEF N!Try
  <2> QED
    BY <2>1, FS_Singleton, SameCardinality DEF N!Copies
<1> QED
  BY <1>1, <1>2

\* A listener in the process and one of the job: two notifications.
LEMMA TwoCopies ==
  ASSUME N!IInv, NEW f \in Fact, NEW u \in User, <<f, 0, u>> \in row, <<f, 1, u>> \in row, job[f].tries = 1
  PROVE  N!Copies(f, u) = 2
<1>1. \A i \in N!Try : <<f, i, u>> \in row => i \in {0, 1}
  BY DEF N!IInv, N!Listened, N!Try
<1>2. {i \in N!Try : <<f, i, u>> \in row} = {0} \cup {1}
  BY <1>1, JobsAssumption DEF N!Try
<1>3. Cardinality({0} \cup {1}) = 2
  <2>1. ASSUME NEW S, S = {0} PROVE Cardinality(S \cup {1}) = 2
    <3>0. 1 \notin S
      BY <2>1
    <3>1. IsFiniteSet(S) /\ Cardinality(S) = 1
      BY <2>1, FS_Singleton
    <3>2. Cardinality(S \cup {1}) = Cardinality(S) + 1
      BY <3>0, <3>1, FS_AddElement
    <3> QED
      BY <3>1, <3>2
  <2> QED
    BY <2>1
<1> QED
  BY <1>2, <1>3, SameCardinality DEF N!Copies

\* The invariant says what users are told.
LEMMA NoticesTold == N!IInv => N!ToldTruly /\ N!AllTold /\ N!MailsTried
<1> SUFFICES ASSUME N!IInv PROVE N!ToldTruly /\ N!AllTold /\ N!MailsTried
  OBVIOUS
<1>1. ASSUME NEW n \in row
      PROVE  /\ fact[n[1]].kind # "early" => fact[n[1]].happened
             /\ ~setting.multi => N!Copies(n[1], n[3]) = 1
  <2>1. PICK f \in Fact, i \in N!Try, u \in User : n = <<f, i, u>>
    BY <1>1 DEF N!IInv, N!TypeOK
  <2>2. listener[f][i].pc # "off"
    BY <1>1, <2>1 DEF N!IInv, N!Listened
  <2>3. fact[f].emitted
    BY <2>1, <2>2 DEF N!IInv, N!Listened, N!Announced, N!Try
  <2>4. ASSUME ~setting.multi PROVE N!Copies(f, u) = 1
    <3>1. job[f].st = "none"
      BY <2>4 DEF N!IInv, N!Announced, N!Solo
    <3>2. i = 0
      BY <1>1, <2>1, <3>1, OneCopy
    <3> QED
      BY <1>1, <2>1, <3>1, <3>2, OneCopy
  <2> QED
    BY <2>1, <2>3, <2>4 DEF N!IInv, N!Announced
<1>2. ASSUME NEW f \in Fact \ hurt, fact[f].emitted,
             \A i \in N!Try : listener[f][i].pc \in {"off", "ended"},
             job[f].st \in {"none", "over"}, NEW u \in N!Addressed(f)
      PROVE  N!Copies(f, u) = IF N!Solo(f) THEN 1 ELSE 2
  <2>1. u \in User /\ 0 \in N!Try /\ 1 \in N!Try
    BY <1>2, JobsAssumption DEF N!IInv, N!TypeOK, N!FactRecord, N!Try, N!Addressed, N!OnPage
  <2>2. \A i \in N!Try : listener[f][i].pc # "off" => <<f, i, u>> \in row
    <3>1. ASSUME NEW i \in N!Try, listener[f][i].pc # "off"
          PROVE  <<f, i, u>> \in row
      <4>1. listener[f][i].pc = "ended" /\ listener[f][i].left = {}
        BY <1>2, <3>1 DEF N!IInv, N!Listened
      <4>2. N!Knows(f, i)
        BY <4>1 DEF N!Knows
      <4> QED
        BY <1>2, <4>1, <4>2 DEF N!IInv, N!Reached
    <3> QED
      BY <3>1
  <2>3. <<f, 0, u>> \in row
    BY <1>2, <2>1, <2>2 DEF N!IInv, N!Announced
  <2>4. CASE N!Solo(f)
    <3>1. job[f].st = "none"
      BY <1>2, <2>4 DEF N!IInv, N!Announced
    <3> QED
      BY <2>1, <2>3, <2>4, <3>1, OneCopy DEF N!Solo
  <2>5. CASE ~N!Solo(f)
    <3>1. job[f].st = "over"
      BY <1>2, <2>5 DEF N!IInv, N!Announced
    <3>2. job[f].tries = 1 /\ <<f, 1, u>> \in row
      BY <1>2, <2>1, <2>2, <3>1 DEF N!IInv, N!TriedOnce
    <3> QED
      BY <2>1, <2>3, <2>5, <3>2, TwoCopies DEF N!Solo
  <2> QED
    BY <2>4, <2>5
<1>3. N!ToldTruly
  BY <1>1 DEF N!ToldTruly
<1>4. N!AllTold
  BY <1>2 DEF N!AllTold
<1>5. N!MailsTried
  BY DEF N!MailsTried, N!IInv, N!Tried
<1> QED
  BY <1>3, <1>4, <1>5

\* Users are told what happened, all of them and as often as they should, and a
\* mail whose job is done went out, through dying processes and repeated jobs,
\* for any number of users, facts, mails and tries.
THEOREM SpecNoticesSound == ServiceSpec => []NoticesSound
<1>1. MCInit => N!IInv
  BY NoticesInit DEF MCInit
<1>2. N!IInv /\ [ServiceNext]_<<vars, byHand, scene, notices>> => N!IInv'
  <2>1. [ServiceNext]_<<vars, byHand, scene, notices>> => [N!Next]_notices
    BY DEF ServiceNext
  <2> QED
    BY <2>1, NoticesNext
<1>3. N!IInv => NoticesSound
  BY NoticesTold DEF NoticesSound
<1> QED
  BY <1>1, <1>2, <1>3, PTL DEF ServiceSpec
=============================================================================
