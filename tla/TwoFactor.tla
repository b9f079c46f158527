------------------------------ MODULE TwoFactor ------------------------------
(***************************************************************************)
(* The second step of a sign-in: app/services/totp_service.py and the       *)
(* pre-auth token of app/services/auth/auth_service.py, for one user.       *)
(*                                                                          *)
(* No statement locks the row, so what a request writes follows from what   *)
(* it loaded.  Secrets and sets of recovery codes are named by the number   *)
(* of the request that made them.                                           *)
(***************************************************************************)
EXTENDS Integers, FiniteSets

CONSTANTS
    Req,    \* slots for requests under way
    Ticket, \* pre-auth tokens, named by their jti
    MaxGen  \* bound on the secrets and sets of recovery codes

VARIABLES
    record,  \* the row of two_factor_auth
    made,    \* how many secrets and sets of codes have been made
    ticket,  \* the life of each pre-auth token: none, fresh, ending or expired
    noted,   \* pre-auth tokens that were put on the blacklist
    request, \* the requests under way
    opened,  \* history: the sign-ins each pre-auth token began while fresh and completed
    accepted,\* history: how often each recovery code was accepted
    proven   \* history: secrets of which the user has shown a code to confirm()

vars == <<record, made, ticket, noted, request, opened, accepted, proven>>

Gen == 1..MaxGen
BackupCode == Gen \X {1, 2}
CodesOf(g) == {g} \X {1, 2}

Record == [there: BOOLEAN, secret: 0..MaxGen, enabled: BOOLEAN, codes: SUBSET BackupCode]
NoRecord == [there |-> FALSE, secret |-> 0, enabled |-> FALSE, codes |-> {}]

\* A user presents the current code of a secret, or a recovery code.
Totp(s) == <<s, 0>>
Presented == BackupCode \cup {Totp(s) : s \in Gen}

NoTicket == "no ticket"
RequestState ==
    [pc: {"idle", "pending", "confirmed", "checked", "matched", "passed"},
     op: {"none", "setup", "confirm", "complete", "disable", "regenerate"},
     code: Presented \cup {<<0, 0>>}, ticket: Ticket \cup {NoTicket},
     young: BOOLEAN, loaded: Record]
Idle == [pc |-> "idle", op |-> "none", code |-> <<0, 0>>, ticket |-> NoTicket,
         young |-> FALSE, loaded |-> NoRecord]

Init ==
    /\ record = NoRecord
    /\ made = 0
    /\ ticket = [t \in Ticket |-> "none"]
    /\ noted = {}
    /\ request = [r \in Req |-> Idle]
    /\ opened = [t \in Ticket |-> 0]
    /\ accepted = [c \in BackupCode |-> 0]
    /\ proven = {}

Goes(r, op, pc) == request' = [request EXCEPT ![r].op = op, ![r].pc = pc, ![r].loaded = record]
Ends(r) == request' = [request EXCEPT ![r] = Idle]
IsIdle(r) == request[r].pc = "idle"

-----------------------------------------------------------------------------
(* setup and confirm *)

BeginSetup(r) ==
    /\ IsIdle(r) /\ made < MaxGen
    /\ Goes(r, "setup", "pending")
    /\ UNCHANGED <<record, made, ticket, noted, opened, accepted, proven>>

\* The row after upsert_pending.  A column is written if it differs from what
\* was loaded, so "enabled" is reset only if it was loaded as true.
Reset(loaded, g) ==
    [there |-> TRUE, secret |-> g, codes |-> CodesOf(g),
     enabled |-> record.enabled /\ ~loaded.enabled]

\* The insert fails if there is a row by now, the update if there is none any more.
CommitSetup(r) ==
    /\ request[r].op = "setup"
    /\ IF record.there = request[r].loaded.there /\ made < MaxGen
         THEN record' = Reset(request[r].loaded, made + 1) /\ made' = made + 1
         ELSE UNCHANGED <<record, made>>
    /\ Ends(r)
    /\ UNCHANGED <<ticket, noted, opened, accepted, proven>>

BeginConfirm(r) ==
    /\ IsIdle(r) /\ record.there /\ ~record.enabled
    /\ Goes(r, "confirm", "confirmed")
    /\ proven' = proven \cup {record.secret}
    /\ UNCHANGED <<record, made, ticket, noted, opened, accepted>>

CommitConfirm(r) ==
    /\ request[r].op = "confirm"
    /\ record' = IF record.there THEN [record EXCEPT !.enabled = TRUE] ELSE record
    /\ Ends(r)
    /\ UNCHANGED <<made, ticket, noted, opened, accepted, proven>>

-----------------------------------------------------------------------------
(* The two steps of a sign-in *)

\* login_by_email or login_with_github, where the second factor is on.
IssueTicket(t) ==
    /\ ticket[t] = "none" /\ record.enabled
    /\ ticket' = [ticket EXCEPT ![t] = "fresh"]
    /\ UNCHANGED <<record, made, noted, request, opened, accepted, proven>>

\* A pre-auth token is in its last second, then expires.  The blacklist keeps
\* whole seconds, and so may have dropped it one second earlier.
Age(t) ==
    /\ \/ ticket[t] = "fresh" /\ ticket' = [ticket EXCEPT ![t] = "ending"] /\ noted' = noted
       \/ ticket[t] = "fresh" /\ ticket' = [ticket EXCEPT ![t] = "ending"] /\ noted' = noted \ {t}
       \/ ticket[t] = "ending" /\ ticket' = [ticket EXCEPT ![t] = "expired"] /\ noted' = noted
    /\ UNCHANGED <<record, made, request, opened, accepted, proven>>

\* complete_two_factor_login: the token was not used before.
BeginComplete(r, t, code) ==
    /\ IsIdle(r) /\ ticket[t] \in {"fresh", "ending"} /\ t \notin noted
    /\ request' = [request EXCEPT ![r] = [Idle EXCEPT
                     !.pc = "checked", !.op = "complete", !.code = code, !.ticket = t,
                     !.young = ticket[t] = "fresh"]]
    /\ UNCHANGED <<record, made, ticket, noted, opened, accepted, proven>>

-----------------------------------------------------------------------------
(* verify *)

Passes(code) == ~record.enabled \/ code = Totp(record.secret)
Matches(code) == ~Passes(code) /\ code \in record.codes

\* What verify() answers before it writes anything.
Verified(r, op, code) ==
    /\ \/ Passes(code) /\ request' = [request EXCEPT ![r].op = op, ![r].pc = "passed", ![r].code = code]
       \/ /\ Matches(code)
          /\ request' = [request EXCEPT ![r].op = op, ![r].pc = "matched", ![r].code = code,
                                        ![r].loaded = record]
       \/ ~Passes(code) /\ ~Matches(code) /\ Ends(r)

\* The pre-auth token is used up, whatever verify says, unless no whole second
\* of it is left.
SpendTicket(r) ==
    /\ request[r].pc = "checked"
    /\ noted' = IF ticket[request[r].ticket] = "fresh"
                  THEN noted \cup {request[r].ticket} ELSE noted
    /\ Verified(r, "complete", request[r].code)
    /\ UNCHANGED <<record, made, ticket, opened, accepted, proven>>

\* disable and regenerate_backup_codes
BeginChange(r, op, code) ==
    /\ IsIdle(r) /\ op \in {"disable", "regenerate"}
    /\ Verified(r, op, code)
    /\ UNCHANGED <<record, made, ticket, noted, opened, accepted, proven>>

\* Mistake: the shortened list is not written.
RemainingAll(loaded, code) == loaded.codes

\* The list of codes without the accepted one, as it was loaded.
Remaining(loaded, code) == loaded.codes \ {code}

\* The update of the list fails if the row is gone.
Pop(r) ==
    /\ request[r].pc = "matched"
    /\ IF record.there
         THEN /\ record' = [record EXCEPT !.codes = Remaining(request[r].loaded, request[r].code)]
              /\ accepted' = [accepted EXCEPT ![request[r].code] = @ + 1]
              /\ request' = [request EXCEPT ![r].pc = "passed"]
         ELSE UNCHANGED <<record, accepted>> /\ Ends(r)
    /\ UNCHANGED <<made, ticket, noted, opened, proven>>

-----------------------------------------------------------------------------
(* What follows a code that was accepted *)

OpenSession(r) ==
    /\ request[r].pc = "passed" /\ request[r].op = "complete"
    /\ opened' = [opened EXCEPT ![request[r].ticket] = @ + IF request[r].young THEN 1 ELSE 0]
    /\ Ends(r)
    /\ UNCHANGED <<record, made, ticket, noted, accepted, proven>>

Disable(r) ==
    /\ request[r].pc = "passed" /\ request[r].op = "disable"
    /\ record' = NoRecord
    /\ Ends(r)
    /\ UNCHANGED <<made, ticket, noted, opened, accepted, proven>>

Regenerate(r) ==
    /\ request[r].pc = "passed" /\ request[r].op = "regenerate"
    /\ IF record.there /\ made < MaxGen
         THEN record' = [record EXCEPT !.codes = CodesOf(made + 1)] /\ made' = made + 1
         ELSE UNCHANGED <<record, made>>
    /\ Ends(r)
    /\ UNCHANGED <<ticket, noted, opened, accepted, proven>>

Next ==
    \/ \E t \in Ticket : IssueTicket(t) \/ Age(t)
    \/ \E r \in Req :
         \/ BeginSetup(r) \/ CommitSetup(r) \/ BeginConfirm(r) \/ CommitConfirm(r)
         \/ \E code \in Presented :
              \/ \E t \in Ticket : BeginComplete(r, t, code)
              \/ \E op \in {"disable", "regenerate"} : BeginChange(r, op, code)
         \/ SpendTicket(r) \/ Pop(r) \/ OpenSession(r) \/ Disable(r) \/ Regenerate(r)

Spec == Init /\ [][Next]_vars

-----------------------------------------------------------------------------
(* Properties *)

\* "A recovery code is used once: it leaves the list when it was accepted"
\* (TOTPService.verify).
CodesOnce == \A c \in BackupCode : accepted[c] <= 1

\* The second factor is on only if the user has shown a code of the secret that
\* is asked for: nobody is locked out by a secret that never reached the phone.
EnabledIsProven == record.enabled => record.secret \in proven

\* One pre-auth token completes one sign-in, leaving out its last second.
TicketsOnce == \A t \in Ticket : opened[t] <= 1

\* What makes the three inductive, as long as requests come one at a time.
Single == \A p, q \in Req : ~IsIdle(p) /\ ~IsIdle(q) => p = q

TypeOK ==
    /\ record \in Record
    /\ made \in 0..MaxGen
    /\ ticket \in [Ticket -> {"none", "fresh", "ending", "expired"}]
    /\ noted \in SUBSET Ticket
    /\ request \in [Req -> RequestState]
    /\ opened \in [Ticket -> Nat]
    /\ accepted \in [BackupCode -> Nat]

\* Codes are of a set that was made, and a code that was accepted is gone.
CodesKept ==
    \A c \in BackupCode :
      /\ accepted[c] > 0 \/ c \in record.codes => c[1] <= made
      /\ c \in record.codes => accepted[c] = 0

\* The row is still the one a request loaded.
RowKnown ==
    \A r \in Req :
      /\ request[r].pc = "idle" => request[r] = Idle
      /\ request[r].op \in {"setup", "confirm"} \/ request[r].pc = "matched" =>
           request[r].loaded = record
      /\ request[r].pc = "checked" => request[r].op = "complete"
      /\ request[r].op = "confirm" => record.secret \in proven
      /\ request[r].pc = "matched" =>
           request[r].code \in record.codes /\ request[r].op \notin {"setup", "confirm"}

\* A pre-auth token with which a sign-in was or will be completed is noted, as
\* long as it is more than a second from its end.
TicketsNoted ==
    /\ \A t \in Ticket :
         opened[t] > 0 => ticket[t] # "none" /\ (ticket[t] = "fresh" => t \in noted)
    /\ \A r \in Req :
         request[r].op = "complete" =>
           LET t == request[r].ticket IN
             /\ t \in Ticket /\ ticket[t] # "none"
             /\ request[r].young => opened[t] = 0
             /\ request[r].pc # "checked" /\ ticket[t] = "fresh" => t \in noted

SerialInv ==
    /\ TypeOK /\ Single /\ CodesKept /\ RowKnown /\ TicketsNoted
    /\ CodesOnce /\ EnabledIsProven /\ TicketsOnce
=============================================================================
