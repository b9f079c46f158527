----------------------------- MODULE AdminAccounts -----------------------------
(***************************************************************************)
(* Administrators change accounts: app/services/user/user_service.py and    *)
(* the role assignments of app/services/rbac/rbac_assignments.py.           *)
(*                                                                          *)
(* A request loads its actor, loads the account it is about, may count the  *)
(* active administrators, and writes what it decided on; nothing is locked  *)
(* in between.  Sessions and passwords are in AuthSessions, the permissions *)
(* that the routes ask for in PermissionCache: here anyone may hold them.   *)
(***************************************************************************)
EXTENDS Integers, FiniteSets

CONSTANTS
    User,
    Req \* slots for requests under way

VARIABLES
    account, \* users and their admin role
    request, \* the requests under way
    bypass   \* history: a route without a check for the last administrator
             \* took an administrator away

vars == <<account, request, bypass>>

Account == [there: {"yes", "deleted", "gone"}, super: BOOLEAN, admin: BOOLEAN, active: BOOLEAN]

Gone == [there |-> "gone", super |-> FALSE, admin |-> FALSE, active |-> FALSE]

Op == {"promote", "demote", "activate", "deactivate", \* update_user_admin
       "enable", "disable",                            \* set_user_active_admin
       "erase",                                        \* delete_user_admin
       "put on", "put off",                            \* update_user
       "delete",                                       \* delete_user
       "grant", "revoke"}                              \* role assignments

RequestState ==
    [pc: {"idle"}] \cup
    [pc: {"begun", "counting", "refreshing", "decided"}, op: Op, actor: User, target: User, by: Account, to: Account]

Idle == [pc |-> "idle"]
IsIdle(r) == request[r].pc = "idle"
Ends(r) == request' = [request EXCEPT ![r] = Idle]

IsAdmin(a) == a.super \/ a.admin
ActiveAdmin(u) == account[u].there = "yes" /\ account[u].active /\ IsAdmin(account[u])
ActiveAdmins == {u \in User : ActiveAdmin(u)}

Init ==
    /\ account \in [User -> {a \in Account : a.there = "yes" \/ a = Gone}]
    /\ request = [r \in Req |-> Idle]
    /\ bypass = FALSE

-----------------------------------------------------------------------------
(* The rules *)

\* ROOT_PROTECTED
Protected(op, to) ==
    \/ op \in {"promote", "demote", "activate", "deactivate", "erase"} /\ to.super
    \/ op = "disable" /\ to.super

\* What an operation asks of its actor; isAdmin is read again with the actor's roles.
MayAct(op, by, isAdmin, to) ==
    CASE op \in {"promote", "demote", "activate", "deactivate"} -> by.super
      [] op \in {"enable", "disable"} -> by.super \/ (isAdmin /\ ~IsAdmin(to))
      [] op \in {"put on", "put off", "delete"} -> by.super \/ ~to.super
      [] op \in {"grant", "revoke"} -> by.super
      [] op = "erase" -> TRUE

\* SELF_DEMOTE, SELF_DISABLE, SELF_DELETE
OnOneself(op) == op \in {"promote", "demote", "deactivate", "disable", "erase", "delete"}

\* Where the last administrator is looked for.
Counts(op, to) == op \in {"demote", "deactivate", "disable", "erase"} /\ IsAdmin(to)

\* Mistake: the account in question is not counted.
RoomWithout(r) == ActiveAdmins # {}

\* LAST_ADMIN is raised otherwise.
Room(r) == Cardinality(ActiveAdmins) > 1

-----------------------------------------------------------------------------

\* get_current_active_user
Start(r, actor, target, op) ==
    /\ IsIdle(r)
    /\ account[actor].there = "yes" /\ account[actor].active
    /\ ~(actor = target /\ OnOneself(op))
    /\ request' = [request EXCEPT ![r] =
                     [pc |-> "begun", op |-> op, actor |-> actor, target |-> target,
                      by |-> account[actor], to |-> account[actor]]]
    /\ UNCHANGED <<account, bypass>>

\* _set_user_role loads the roles again before it takes them away.
Then(op) == IF op = "demote" THEN "refreshing" ELSE "decided"

Load(r) ==
    /\ request[r].pc = "begun"
    /\ LET q == request[r]  to == account[q.target]
           same == q.op \in {"enable", "disable"} /\ to.active = (q.op = "enable")
       IN IF /\ to.there = "yes" /\ ~Protected(q.op, to) /\ (same => Counts(q.op, to))
             /\ MayAct(q.op, q.by, account[q.actor].admin, to)
            THEN request' = [request EXCEPT
                               ![r].pc = IF Counts(q.op, to) THEN "counting" ELSE Then(q.op),
                               ![r].to = to]
            ELSE Ends(r)
    /\ UNCHANGED <<account, bypass>>

Count(r) ==
    /\ request[r].pc = "counting"
    /\ IF Room(r) /\ (request[r].op = "disable" => request[r].to.active)
         THEN request' = [request EXCEPT ![r].pc = Then(request[r].op)]
         ELSE Ends(r)
    /\ UNCHANGED <<account, bypass>>

\* A row that is gone cannot be refreshed.
Refresh(r) ==
    /\ request[r].pc = "refreshing"
    /\ LET now == account[request[r].target] IN
         IF now.there = "gone" THEN Ends(r)
         ELSE request' = [request EXCEPT ![r].pc = "decided", ![r].to.admin = now.admin]
    /\ UNCHANGED <<account, bypass>>

\* The columns an operation writes: those that differ from what was loaded.
Changed(op, to, now) ==
    CASE op \in {"promote", "grant"} -> [now EXCEPT !.admin = TRUE]
      [] op \in {"demote", "revoke"} -> [now EXCEPT !.admin = IF to.admin THEN FALSE ELSE @]
      [] op \in {"activate", "enable", "put on"} ->
           [now EXCEPT !.active = IF to.active THEN @ ELSE TRUE]
      [] op \in {"deactivate", "disable", "put off"} ->
           [now EXCEPT !.active = IF to.active THEN FALSE ELSE @]
      [] op = "delete" -> [now EXCEPT !.there = "deleted",
                                      !.active = IF to.active THEN FALSE ELSE @]
      [] op = "erase" -> Gone

\* The write and its audit record commit together, or fail if the row is gone.
Commit(r) ==
    LET q == request[r]  u == q.target IN
      /\ q.pc = "decided"
      /\ account' = IF account[u].there = "gone" THEN account
                    ELSE [account EXCEPT ![u] = Changed(q.op, q.to, @)]
      /\ bypass' = (bypass \/ (q.op \in {"put off", "delete", "revoke"} /\ IsAdmin(q.to)))
      /\ Ends(r)

Next ==
    \E r \in Req :
      \/ \E actor, target \in User, op \in Op : Start(r, actor, target, op)
      \/ Load(r) \/ Count(r) \/ Refresh(r) \/ Commit(r)

Spec == Init /\ [][Next]_vars

-----------------------------------------------------------------------------
(* Properties *)

\* Somebody can still administrate, unless PUT or DELETE /users/{id} or a role
\* assignment took an administrator away: those look for no last administrator.
AdminRemains == ~bypass => ActiveAdmins # {}
=============================================================================
