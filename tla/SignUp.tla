-------------------------------- MODULE SignUp --------------------------------
(***************************************************************************)
(* How accounts are opened: mailed codes                                    *)
(* (app/services/verification_service.py), register and login_with_github   *)
(* (app/services/auth/auth_service.py), and the states of the GitHub        *)
(* exchange (app/services/oauth_service.py).                                *)
(*                                                                          *)
(* A step of a request ends where it awaits the database or GitHub.  Only   *)
(* the unique columns of "users" keep two requests apart.                   *)
(***************************************************************************)
EXTENDS Integers, FiniteSets

CONSTANTS
    Req,     \* slots for requests under way
    Email,   \* addresses
    BaseName,\* BaseName[e]: derive_username(e)
    Worker,  \* processes; each keeps the OAuth states it gave out
    State,   \* OAuth states
    MaxCode, \* bound on the codes that are mailed
    Suffixes \* how many suffixes of a user name are tried

VARIABLES
    mail,    \* verification_codes: the address, used and fresh of each code
    users,   \* the accounts: address, user name and whether GitHub opened it
    states,  \* each worker's _states
    request, \* the requests under way
    consumed,\* history: how often each code was accepted
    misled   \* history: a request was told that its free address is taken

vars == <<mail, users, states, request, consumed, misled>>

Code == 1..MaxCode
Letter == [email: Email \cup {"none"}, used: BOOLEAN, fresh: BOOLEAN]
NoMail == [email |-> "none", used |-> TRUE, fresh |-> FALSE]
Mailed == {c \in Code : mail[c] # NoMail}

\* The user name an address gets: its local part and the suffix.
Name == {BaseName[e] : e \in Email} \X (0..Suffixes)
NoName == <<"none", 0>>
Account == [email: Email, name: Name, github: BOOLEAN]

RequestState ==
    [pc: {"idle", "sending", "verified", "registering", "creating", "signing in", "joining"},
     email: Email \cup {"none"}, code: 0..MaxCode, stale: SUBSET Code, name: Name \cup {NoName}]
Idle == [pc |-> "idle", email |-> "none", code |-> 0, stale |-> {}, name |-> NoName]

Init ==
    /\ mail = [c \in Code |-> NoMail]
    /\ users = {}
    /\ states = [w \in Worker |-> {}]
    /\ request = [r \in Req |-> Idle]
    /\ consumed = [c \in Code |-> 0]
    /\ misled = FALSE

IsIdle(r) == request[r].pc = "idle"
Ends(r) == request' = [request EXCEPT ![r] = Idle]
Taken(e) == \E u \in users : u.email = e

-----------------------------------------------------------------------------
(* Mailed codes *)

\* What invalidate_for_email sees.
Stale(e) == {c \in Mailed : mail[c].email = e /\ ~mail[c].used}

\* send_code and generate, up to the statement that invalidates older codes.
BeginSend(r, e) ==
    /\ IsIdle(r) /\ ~Taken(e)
    /\ request' = [request EXCEPT ![r] = [Idle EXCEPT !.pc = "sending", !.email = e,
                                                      !.stale = Stale(e)]]
    /\ UNCHANGED <<mail, users, states, consumed, misled>>

\* The next code, in the order of created_at.
CommitSend(r) ==
    /\ request[r].pc = "sending" /\ Mailed # Code
    /\ LET new == Cardinality(Mailed) + 1 IN
         mail' = [c \in Code |->
                    IF c = new
                      THEN [email |-> request[r].email, used |-> FALSE, fresh |-> TRUE]
                      ELSE [mail[c] EXCEPT !.used = @ \/ c \in request[r].stale]]
    /\ Ends(r)
    /\ UNCHANGED <<users, states, consumed, misled>>

\* Past expires_at a code is as good as removed by purge_expired.
Expire(c) ==
    /\ mail[c].fresh
    /\ mail' = [mail EXCEPT ![c].fresh = FALSE]
    /\ UNCHANGED <<users, states, request, consumed, misled>>

Usable(e) == {c \in Mailed : mail[c].email = e /\ mail[c].fresh /\ ~mail[c].used}

IsLatest(c, codes) == c \in codes /\ \A d \in codes : d <= c

\* verify: only the latest usable code is compared with the one presented.
BeginRegister(r, e, c) ==
    /\ IsIdle(r) /\ IsLatest(c, Usable(e))
    /\ request' = [request EXCEPT ![r] = [Idle EXCEPT !.pc = "verified", !.email = e, !.code = c]]
    /\ UNCHANGED <<mail, users, states, consumed, misled>>

MarkUsed(r) ==
    /\ request[r].pc = "verified"
    /\ mail' = [mail EXCEPT ![request[r].code].used = TRUE]
    /\ consumed' = [consumed EXCEPT ![request[r].code] = @ + 1]
    /\ request' = [request EXCEPT ![r].pc = "registering"]
    /\ UNCHANGED <<users, states, misled>>

-----------------------------------------------------------------------------
(* New accounts *)

\* The first user name that is free, or the last one that was tried.
FreeName(e) ==
    LET free == {i \in 0..Suffixes : ~\E u \in users : u.name = <<BaseName[e], i>>}
    IN <<BaseName[e], IF free = {} THEN Suffixes
                      ELSE CHOOSE i \in free : \A j \in free : i <= j>>

\* register and login_with_github look whether the address is taken and then for
\* a user name.  The password is hashed before the account is written.
Choose(r) ==
    /\ request[r].pc \in {"registering", "signing in"}
    /\ IF Taken(request[r].email)
         THEN Ends(r)
         ELSE request' = [request EXCEPT ![r].name = FreeName(request[r].email),
                                         ![r].pc = IF @ = "registering" THEN "creating" ELSE "joining"]
    /\ UNCHANGED <<mail, users, states, consumed, misled>>

Unique(e, name) == ~\E u \in users : u.email = e \/ u.name = name

\* The insert fails if the address or the user name is taken by now, or the
\* GitHub account bound by an overlapping callback: register says that it is the
\* address, login_with_github fails.
Create(r) ==
    LET e == request[r].email  name == request[r].name
        registers == request[r].pc = "creating"
    IN
      /\ request[r].pc \in {"creating", "joining"}
      /\ \/ users' = IF Unique(e, name)
                       THEN users \cup {[email |-> e, name |-> name, github |-> ~registers]}
                       ELSE users
         \/ ~registers /\ (\E u \in users : u.github) /\ users' = users
      /\ misled' = (misled \/ (registers /\ ~Unique(e, name) /\ ~Taken(e)))
      /\ Ends(r)
      /\ UNCHANGED <<mail, states, consumed>>

-----------------------------------------------------------------------------
(* GitHub *)

\* generate_state, in the worker that serves the entry.
SendToGitHub(w, s) ==
    /\ \A x \in Worker : s \notin states[x]
    /\ states' = [states EXCEPT ![w] = @ \cup {s}]
    /\ UNCHANGED <<mail, users, request, consumed, misled>>

\* The callback reaches some worker and brings the state it was given and an
\* address GitHub has verified, which the account it is bound to need not have.  A
\* bound account (by its github_id) signs in, which is an operation of AuthSessions;
\* a new one goes on.
Callback(r, w, s, e) ==
    /\ IsIdle(r) /\ s \in states[w]
    /\ states' = [states EXCEPT ![w] = @ \ {s}]
    /\ \/ (\E u \in users : u.github) /\ request' = request
       \/ request' = [request EXCEPT ![r] = [Idle EXCEPT !.pc = "signing in", !.email = e]]
    /\ UNCHANGED <<mail, users, consumed, misled>>

\* A state that runs out, or whose user never comes back.
ForgetState(w, s) ==
    /\ s \in states[w]
    /\ states' = [states EXCEPT ![w] = @ \ {s}]
    /\ UNCHANGED <<mail, users, request, consumed, misled>>

Next ==
    \/ \E c \in Code : Expire(c)
    \/ \E w \in Worker, s \in State : SendToGitHub(w, s) \/ ForgetState(w, s)
    \/ \E r \in Req :
         \/ \E e \in Email :
              \/ BeginSend(r, e)
              \/ \E c \in Code : BeginRegister(r, e, c)
              \/ \E w \in Worker, s \in State : Callback(r, w, s, e)
         \/ CommitSend(r) \/ MarkUsed(r) \/ Choose(r) \/ Create(r)

Spec == Init /\ [][Next]_vars

-----------------------------------------------------------------------------
(* Properties *)

\* "A new code makes all older codes of the address void, and a code that was
\* accepted is used up" (verification_service.py).
MailedOnce ==
    /\ \A c, d \in Mailed : mail[c] = mail[d] /\ mail[c].fresh /\ ~mail[c].used => c = d
    /\ \A c \in Code : consumed[c] <= 1

\* Whoever is told that an address is registered already can sign in with it.
ConflictIsReal == ~misled

\* However requests overlap, an address opens one account, and every account was
\* opened by GitHub or by a code that was mailed to its address.
AccountsProven ==
    \A u \in users :
      /\ \A x \in users : x.email = u.email => x = u
      /\ u.github \/ \E c \in Mailed : mail[c].email = u.email /\ consumed[c] > 0

\* What makes AccountsProven inductive.
TypeOK ==
    /\ mail \in [Code -> Letter]
    /\ users \in SUBSET Account
    /\ request \in [Req -> RequestState]
    /\ consumed \in [Code -> Nat]
    /\ misled \in BOOLEAN

\* Codes are mailed in order; who registers showed one that was mailed to the
\* address, and by then it is used.
CodesShown ==
    /\ \E k \in 0..MaxCode : Mailed = 1..k
    /\ \A c \in Mailed : mail[c].email \in Email
    /\ \A r \in Req :
         /\ ~IsIdle(r) => request[r].email \in Email
         /\ request[r].pc \in {"verified", "registering", "creating"} =>
              request[r].code \in Mailed /\ mail[request[r].code].email = request[r].email
         /\ request[r].pc \in {"registering", "creating"} => consumed[request[r].code] > 0
         /\ request[r].pc \in {"creating", "joining"} => request[r].name \in Name

AccountsInv == TypeOK /\ CodesShown /\ AccountsProven

\* What makes the other two inductive, as long as requests come one at a time:
\* an address has one code that is not used, and a request knows what it read.
Single == \A p, q \in Req : ~IsIdle(p) /\ ~IsIdle(q) => p = q

OneUnused ==
    /\ \A c \in Code : (c \in Mailed => ~mail[c].used) => consumed[c] = 0
    /\ \A c, d \in Mailed :
         ~mail[c].used /\ ~mail[d].used /\ mail[c].email = mail[d].email => c = d

ReadHolds ==
    \A r \in Req :
      /\ request[r].pc = "sending" => request[r].stale = Stale(request[r].email)
      /\ request[r].pc = "verified" => ~mail[request[r].code].used
      /\ request[r].pc = "creating" => Unique(request[r].email, request[r].name)

SerialInv == AccountsInv /\ Single /\ OneUnused /\ ReadHolds /\ MailedOnce /\ ConflictIsReal
=============================================================================
