----------------------------- MODULE MCStudyTurns -----------------------------
(* Small instances of StudyTurns for TLC. *)
EXTENDS StudyTurns, TLC

\* Bounds of a behaviour: turns, conversations, turns in which something goes
\* wrong, and other requests.
Bounds ==
    [turns    |-> [turns |-> 2, convs |-> 2, faults |-> 1, ops |-> 0],
     branches |-> [turns |-> 1, convs |-> 3, faults |-> 0, ops |-> 2],
     tree     |-> [turns |-> 0, convs |-> 4, faults |-> 0, ops |-> 3]]

\* There is a first turn, and a conversation it can be in.
ASSUME TurnsAssumption ==
    Conversations > 0 /\ \E t \in Turn : \A u \in Turn : t <= u

VARIABLES
    scene,
    faults,  \* history: how often something went wrong in a turn
    ops,     \* history: the other requests
    crossed  \* history: a branch was made while a deletion was under way

\* In the scene of trees one turn has ended, and its conversation has a branch,
\* from which a third was made.
First == CHOOSE t \in Turn : \A u \in Turn : t <= u

OpenRow(c) == [st |-> "open", archived |-> FALSE, parent |-> c - 1,
               title |-> IF c = 1 THEN "guessed" ELSE "chosen"]

EndedTurn ==
    [IdleTurn EXCEPT !.pc = "ended", !.conv = 1, !.round = 1, !.wrote = TRUE,
                     !.said = TRUE, !.titled = TRUE, !.status = "completed",
                     !.output = TRUE]

GrownInit ==
    /\ conv = [c \in Conv |-> IF c <= 3 THEN OpenRow(c) ELSE NoConv]
    /\ msgs = [c \in Conv |-> IF c <= 3 THEN <<Question(First), Answer(First)>> ELSE <<>>]
    /\ run = [t \in Turn |-> IF t = First THEN "completed" ELSE "none"]
    /\ output = [t \in Turn |-> t = First]
    /\ logged = {}
    /\ turn = [t \in Turn |-> IF t = First THEN EndedTurn ELSE IdleTurn]
    /\ op = [o \in Op |-> IdleOp]

MCInit ==
    /\ scene \in DOMAIN Bounds
    /\ IF scene = "tree" THEN GrownInit ELSE Init
    /\ faults = 0 /\ ops = 0 /\ crossed = FALSE

Pending(kind) == \E o \in Op : op[o].kind = kind

Begun == {t \in Turn : turn[t].pc # "idle"}

Within(b) ==
    /\ Cardinality(Begun) <= IF scene = "tree" THEN 1 ELSE b.turns
    /\ Cardinality({c \in Conv : conv[c].st # "none"}) <= b.convs
    /\ faults <= b.faults
    /\ ops <= b.ops

\* Turns are taken in order.
InTurn == \A t, u \in Turn : t < u /\ turn[t].pc = "idle" => turn[u].pc = "idle"

\* Without bounds.
TurnsNext ==
    /\ \/ /\ \E t \in Turn : Step(t) \/ \E c \in Conv : Ask(t, c) \/ AskNew(t, c)
          /\ UNCHANGED <<faults, ops>>
       \/ /\ \E t \in Turn : Fault(t)
          /\ faults' = faults + 1 /\ UNCHANGED ops
       \/ /\ \E o \in Op : Begin(o)
          /\ ops' = ops + 1 /\ UNCHANGED faults
       \/ /\ \E o \in Op : Commit(o)
          /\ UNCHANGED <<faults, ops>>
    /\ crossed' = (crossed \/ (Pending("fork") /\ Pending("delete")))
    /\ UNCHANGED scene

Bounded == Within(Bounds[scene])' /\ InTurn'

MCNext == TurnsNext /\ Bounded

MCvars == <<vars, scene, faults, ops, crossed>>

MCSpec == MCInit /\ [][MCNext]_MCvars /\ Fairness

\* A conversation that is not deleted has no deleted conversation above it, as
\* long as no branch is made while a deletion is under way.  (Then it can: the
\* source is locked but not checked again.)
SerialTreeKept ==
    ~crossed =>
      \A c \in Conv : Own(c) /\ conv[c].parent # 0 => Own(conv[c].parent)

\* What makes it inductive.  Ids are given in order, so that a branch is younger
\* than what it was made from,
Younger ==
    /\ \A c, d \in Conv : conv[c].st = "none" /\ c < d => conv[d].st = "none"
    /\ \A c \in Conv : conv[c].parent < c

\* a deletion under way takes, with a conversation, all of its branches,
TakesBranches ==
    \A o \in Op : op[o].kind = "delete" =>
      \A c \in Conv : Own(c) /\ conv[c].parent \in op[o].targets => c \in op[o].targets

\* and the source of a branch under way is not deleted.
SourceOpen == \A o \in Op : op[o].kind = "fork" => Own(op[o].conv)

TreeInv ==
    /\ IInv
    /\ Younger
    /\ ~crossed => TakesBranches /\ SourceOpen
    /\ SerialTreeKept

\* A run that is recorded as running ends, unless something goes wrong: there
\* is nothing that would end it later.
RunsEnd == \A t \in Turn : run[t] = "running" ~> (run[t] # "running" \/ faults > 0)

\* What the comment before the check in run_chat says: once the finished turns
\* of the day have used the budget, no turn calls the model.
BudgetBites ==
    [][\A t \in Turn :
         turn[t].round = 0 /\ turn'[t].round > 0 =>
           Cardinality({u \in Turn : turn[u].pc = "ended" /\ turn[u].round > 0}) < Budget]_MCvars

\* A title the user chose is not replaced.
ChosenTitleStays ==
    [][\A c \in Conv : conv[c].title = "chosen" => conv'[c].title = "chosen"]_MCvars

\* A completed run said all there was to say.
CompletedIsWhole ==
    \A t \in Turn : run[t] = "completed" => turn[t].round = 0 \/ turn[t].titled

\* A conversation that is not deleted has no deleted conversation above it.
TreeKept == \A c \in Conv : Own(c) /\ conv[c].parent # 0 => Own(conv[c].parent)
=============================================================================
