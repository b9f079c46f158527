------------------------ MODULE MCEventRegistration ------------------------
(* Small instances for TLC of EventRegistration and of Notices, which tells   *)
(* members what became of their registrations.                               *)
EXTENDS EventRegistration, TLC

\* Of Notices.
CONSTANTS User, Fact, Mail, Page, MaxTries

ASSUME JobsAssumption == Fact \cap Mail = {} /\ MaxTries \in Nat \ {0}
ASSUME PageAssumption == IsFiniteSet(User) /\ Page \in Nat

VARIABLES
    byHand, \* history: an administrator has begun to set a status by hand
    scene,  \* "booking" for EventRegistration, "notices" for Notices
    setting, fact, listener, job, row, read, account, sent, hurt

notices == <<setting, fact, listener, job, row, read, account, sent, hurt>>

N == INSTANCE Notices

MCInit ==
    /\ scene \in {"booking", "notices"}
    /\ Init /\ N!Init /\ byHand = FALSE
    /\ scene = "booking" => setting = [multi |-> FALSE, queue |-> FALSE]
    /\ scene = "notices" => event.cap = 0

\* Both without bounds.
ServiceNext ==
    \/ /\ scene = "booking" /\ Next
       /\ byHand' = (byHand \/ \E r \in Req : txn'[r].op = "override")
       /\ UNCHANGED <<scene, notices>>
    \/ /\ scene = "notices" /\ N!Next
       /\ UNCHANGED <<scene, byHand, vars>>

ServiceSpec == MCInit /\ [][ServiceNext]_<<vars, byHand, scene, notices>>

\* Bounds of the notices: a behaviour has an event or a mail; one of the users is
\* deleted, and notifications are read while no listener is at work.
Within ==
    /\ (\E m \in Mail : job'[m].st # "none") =>
         account' = account /\ \A f \in Fact : fact'[f].st = "none"
    /\ Cardinality({u \in User : account'[u] # "active"}) <= 1
    /\ read' # read => \A f \in Fact, i \in N!Try : listener[f][i].pc \in {"off", "ended"}

MCNext == ServiceNext /\ (scene = "notices" => Within)

MCSpec == MCInit /\ [][MCNext]_<<vars, byHand, scene, notices>>

\* A registration is cancelled exactly when it says when, however members'
\* requests interleave, as long as administrators set no status by hand.
CancelledHasTimeByMembers == ~byHand => CancelledHasTime

\* The inductive invariant behind it, with IInv: members' requests leave no
\* row on the waiting list, and one that books knows the row it writes, since
\* it alone could have created it.
MembersAlone ==
    /\ CancelledHasTime
    /\ \A m \in Member : reg[m].status # "waitlisted"
    /\ \A r \in Req :
         LET old == txn[r].old IN
         /\ txn[r].op # "override"
         /\ txn[r].pc = "set" => txn[r].status = "cancelled" /\ old.status # "cancelled"
                                 /\ reg[txn[r].who].status # "none"
         /\ txn[r].pc \in {"count", "book"} =>
              /\ old.status \in {"none", "cancelled"}
              /\ old.cancelledAt <=> old.status = "cancelled"
              /\ old.status = "none" => reg[txn[r].who].status = "none"

MembersTimes == ~byHand => MembersAlone

\* What a user is told happened, unless it was announced before its commit; he is
\* told of everything he should know, and of what concerns all users if he is on the
\* first page of them, when nothing fails; and a mail whose job is done went out,
\* through dying processes, repeated jobs and deleted users.
NoticesSound == scene = "notices" => N!ToldTruly /\ N!AllTold /\ N!MailsTried

Symmetry == Permutations(Member) \cup Permutations(Req) \cup Permutations(Code)
=============================================================================
