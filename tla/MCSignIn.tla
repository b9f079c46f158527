------------------------------- MODULE MCSignIn -------------------------------
(* Signing in, for TLC: rotations of refresh tokens (MCAuthSessions), the      *)
(* second step of a sign-in (TwoFactor) and new accounts (SignUp).  A          *)
(* behaviour is about one of them.                                             *)
EXTENDS MCAuthSessions

CONSTANTS
    Ticket, MaxGen,                                     \* of TwoFactor
    Email, State, MaxCode, BaseName, Worker, Suffixes   \* of SignUp

\* There are as many user names as addresses.
ASSUME SignInAssumption ==
    /\ MaxGen \in Nat /\ MaxCode \in Nat /\ Suffixes \in Nat
    /\ "none" \notin Email /\ IsFiniteSet(Email) /\ Cardinality(Email) <= Suffixes + 1

\* A value of BaseName: all addresses have the same local part.
OneName == [e \in Email |-> "alice"]

VARIABLES part, record, made, ticket, noted, presenting, opened, accepted, proven,
          mail, users, states, registering, consumed, misled

SecondFactor == INSTANCE TwoFactor WITH request <- presenting

Accounts == INSTANCE SignUp WITH request <- registering

SessionVars == <<vars, scene>>
FactorVars == <<record, made, ticket, noted, presenting, opened, accepted, proven>>
AccountVars == <<mail, users, states, registering, consumed, misled>>

\* In the parts whose name says so, requests come one at a time.
Parts == {"sessions", "serial codes", "serial accounts", "accounts"}

SignInInit ==
    /\ part \in Parts
    /\ SceneInit /\ SecondFactor!Init /\ Accounts!Init
    /\ part # "sessions" => scene = CHOOSE sc \in Scenes : TRUE

OneAtATime == \A r \in Req \ {r1} : presenting'[r].pc = "idle" /\ registering'[r].pc = "idle"

SignInNext ==
    /\ part' = part
    /\ \/ part = "sessions" /\ SceneNext /\ UNCHANGED <<FactorVars, AccountVars>>
       \/ part = "serial codes" /\ SecondFactor!Next /\ UNCHANGED <<SessionVars, AccountVars>>
       \/ /\ part \in {"serial accounts", "accounts"} /\ Accounts!Next
          /\ UNCHANGED <<SessionVars, FactorVars>>
    /\ part \in {"serial codes", "serial accounts"} => OneAtATime

SignInSpec == SignInInit /\ [][SignInNext]_<<part, SessionVars, FactorVars, AccountVars>> /\ Fairness

\* As long as requests come one at a time, what may be used once is used once:
\* recovery codes, pre-auth tokens and mailed codes; the second factor asks only
\* for a secret that reached the user's phone, and an address that register calls
\* taken has an account.  However requests overlap, an address opens one account,
\* and every account was opened by GitHub or by a code mailed to its address.
SignInSound ==
    CASE part = "serial codes" ->
           SecondFactor!CodesOnce /\ SecondFactor!TicketsOnce /\ SecondFactor!EnabledIsProven
      [] part = "serial accounts" -> Accounts!MailedOnce /\ Accounts!ConflictIsReal
      [] part = "accounts" -> Accounts!AccountsProven
      [] OTHER -> TRUE

\* What makes it inductive.
SignInInv ==
    /\ Accounts!AccountsInv
    /\ part = "serial codes" => SecondFactor!SerialInv
    /\ part = "serial accounts" => Accounts!SerialInv

\* register calls an address taken only if it has an account.  When requests
\* overlap, the user name may be what was taken.
ConflictIsReal == Accounts!ConflictIsReal
=============================================================================
