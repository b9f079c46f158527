--------------------------- MODULE MCAdministration ---------------------------
(* Administrators and permissions, for TLC: in some behaviours the permission  *)
(* cache (MCPermissionCache), in others the accounts of administrators         *)
(* (AdminAccounts).                                                             *)
EXTENDS MCPermissionCache

CONSTANTS Member, m3

VARIABLES part, account, changing, bypass

Admins == INSTANCE AdminAccounts WITH User <- Member, request <- changing

CacheVars == <<vars, scene>>
AdminVars == <<account, changing, bypass>>

\* Of accounts with a superuser requests overlap; without one they come one at a time.
Parts == {"cache", "rooted", "rootless"}

\* Both without bounds on the accounts.
ServiceInit ==
    /\ part \in Parts
    /\ IF part = "cache" THEN SceneInit
       ELSE Init /\ scene = "serial" /\ \A ro \in Role : db.role[ro] = "absent"
    /\ Admins!Init
    /\ CASE part = "cache" -> \A m \in Member : account[m] = Admins!Gone
         [] part = "rooted" -> \E m \in Member : account[m].super /\ account[m].active
         [] part = "rootless" -> /\ \A m \in Member : ~account[m].super
                                 /\ Admins!ActiveAdmins # {}

ServiceNext ==
    /\ part' = part
    /\ \/ part = "cache" /\ SceneNext /\ UNCHANGED AdminVars
       \/ /\ part # "cache" /\ Admins!Next /\ UNCHANGED CacheVars
          /\ part = "rootless" => \A r \in Req \ {r1} : Admins!IsIdle(r)'

ServiceSpec == ServiceInit /\ [][ServiceNext]_<<part, CacheVars, AdminVars>>

\* Bounds: with a superuser requests take rights away and are about two users.
Takes == {"demote", "deactivate", "disable", "erase", "put off", "delete", "revoke"}

AdministrationInit == ServiceInit /\ (part = "rooted" => account[m3] = Admins!Gone)

AdministrationNext ==
    /\ ServiceNext
    /\ part = "rooted" => \A r \in Req : ~Admins!IsIdle(r)' => changing'[r].op \in Takes

AdministrationSpec == AdministrationInit /\ [][AdministrationNext]_<<part, CacheVars, AdminVars>>

\* Somebody can still administrate, unless PUT or DELETE /users/{id} or a role
\* assignment took an administrator away, which look for no last administrator:
\* with a superuser however requests overlap, without one as long as they do not.
AdminRemains == part # "cache" => Admins!AdminRemains

\* The inductive invariant behind it.
AdminTypes ==
    /\ part \in Parts /\ bypass \in BOOLEAN
    /\ account \in [Member -> Admins!Account]
    /\ changing \in [Req -> Admins!RequestState]

Loaded(r) == changing[r].pc \in {"counting", "refreshing", "decided"}

\* Nobody becomes a superuser, and no request that looks for the last
\* administrator is about one, so a superuser stays.
RootStays ==
    /\ ~bypass => \E m \in Member : Admins!ActiveAdmin(m) /\ account[m].super
    /\ \A r \in Req : Loaded(r) =>
         /\ account[changing[r].target].super => changing[r].to.super
         /\ changing[r].op \in {"demote", "deactivate", "disable", "erase"} => ~changing[r].to.super

\* What the only request has loaded and counted is what there is.
OneDecides ==
    /\ \A r \in Req \ {r1} : Admins!IsIdle(r)
    /\ ~bypass => Admins!ActiveAdmins # {}
    /\ \A r \in Req :
         /\ Loaded(r) => changing[r].to = account[changing[r].target]
         /\ changing[r].pc \in {"refreshing", "decided"} /\ Admins!Counts(changing[r].op, changing[r].to) =>
              Admins!Room(r)

AdminInv == AdminTypes /\ (part = "rooted" => RootStays) /\ (part = "rootless" => OneDecides)

MemberSymmetry == Symmetry \cup Permutations(Member \ {m3})
=============================================================================
