------------------------------ MODULE Migrations ------------------------------
(***************************************************************************)
(* The upgrades and downgrades that alembic/env.py runs, of the revisions   *)
(* in Revisions.                                                            *)
(*                                                                          *)
(* A run is one transaction, which rolls everything back when a statement   *)
(* fails, and from its first statement on it holds the row of               *)
(* alembic_version: its revisions are one step here.  The advisory lock of  *)
(* app/database.py keeps workers apart, not a worker and an operator.       *)
(***************************************************************************)
EXTENDS Revisions, FiniteSets

CONSTANTS
    Script,       \* the revisions, in order
    Migrator,     \* workers that start, and operators with the alembic command
    Run,          \* runs of the assistant
    Conversation, \* of each run
    None

VARIABLES
    db,        \* what is committed, and whether the server offers zhparser
    seq,       \* of each run: the number of its latest event, stored or not
    migrator

vars == <<db, seq, migrator>>

Latest == Len(Script)
-----------------------------------------------------------------------------
\* What a statement needs and does.

Rowless(d, i) ==
    CASE i = "uq_permission_resource_action" -> ~d.twins
      [] i = "uq_chat_events_conv_seq" ->
            \A e, f \in DOMAIN d.events :
                e # f => \/ d.events[e].conversation # d.events[f].conversation
                         \/ d.events[e].seq # d.events[f].seq
      [] i = "uq_chat_events_run_seq" ->
            \A e, f \in DOMAIN d.events :
                e # f => \/ d.events[e].run = None
                         \/ d.events[e].run # d.events[f].run
                         \/ d.events[e].seq # d.events[f].seq
      [] OTHER -> TRUE

Addable(d, o) ==
    /\ o \notin d.schema
    /\ o[1] = "index" => Rowless(d, o[3])
    /\ o[1] = "ref" => \A r \in {To(o[3], o[4]), Cascade(o[3], o[4]), SetNull(o[3], o[4])} :
                            Ref(o[2], r) \notin d.schema

Fits(d, st) ==
    CASE st.do = "add" ->
            /\ \A o \in st.objects : Addable(d, o)
            /\ \A o \in st.objects :
                 /\ Table(o[2]) \in d.schema \cup st.objects
                 /\ o[1] = "ref" => Table(o[4]) \in d.schema \cup st.objects
      [] st.do = "remove" -> st.objects \subseteq d.schema
      [] st.do = "drop" ->
            /\ Table(st.table) \in d.schema
            /\ \A o \in d.schema : o[1] = "ref" /\ o[4] = st.table => o[2] = st.table
      [] st.do = "rename" -> Table(st.as) \notin d.schema
      [] st.do = "new triggers" -> d.trigger = "none"
      [] st.do = "refuse twins" -> ~d.twins
      [] OTHER -> st.do # "refuse"

Without(d, table) ==
    [d EXCEPT !.schema = {o \in @ : o[2] # table /\ ~(o[1] = "ref" /\ o[4] = table)},
              !.events = IF table = "chat_events" THEN <<>> ELSE @,
              !.twins = @ /\ table # "permissions"]

Renamed(o, t, u) == [i \in DOMAIN o |-> IF (i = 2 \/ i = 4) /\ o[i] = t THEN u ELSE o[i]]

WithTriggers(d, trigger) == [d EXCEPT !.trigger = trigger]

\* row_number() over a conversation's events by time.
Renumbered(events) ==
    [e \in DOMAIN events |->
        [events[e] EXCEPT !.seq =
            Cardinality({f \in 1..e : events[f].conversation = events[e].conversation})]]

RunsForgotten(events) == [e \in DOMAIN events |-> [events[e] EXCEPT !.run = None]]

Effect(d, st) ==
    CASE st.do = "add" -> [d EXCEPT !.schema = @ \cup st.objects]
      [] st.do = "remove" ->
            [d EXCEPT !.schema = @ \ st.objects,
                      !.events = IF RunColumn \subseteq st.objects THEN RunsForgotten(@) ELSE @]
      [] st.do \in {"drop", "drop cascade"} -> Without(d, st.table)
      [] st.do = "rename" -> [d EXCEPT !.schema = {Renamed(o, st.table, st.as) : o \in @}]
      [] st.do \in {"new triggers", "simple triggers"} -> WithTriggers(d, "simple")
      [] st.do = "no triggers" -> WithTriggers(d, "none")
      [] st.do = "best triggers" ->
            [WithTriggers(d, IF d.zhparser THEN "chinese" ELSE "simple") EXCEPT !.config = d.zhparser]
      [] st.do = "renumber" -> [d EXCEPT !.events = Renumbered(@)]
      [] OTHER -> d

Reason(st) ==
    IF st.do \in {"refuse", "refuse twins"} THEN "refused" ELSE "statement"

\* The database after the statements, or the reason of the first that fails.
Executed(r, statements) ==
    LET after[i \in 0..Len(statements)] ==
          IF i = 0 THEN r
          ELSE LET before == after[i - 1]
                   st == statements[i]
               IN  CASE before.why # "none" -> before
                     [] before.why = "none" /\ Fits(before.d, st) ->
                          [before EXCEPT !.d = Effect(@, st)]
                     [] OTHER -> [before EXCEPT !.why = Reason(st)]
    IN  IF r.why = "none" THEN after[Len(statements)] ELSE r

\* The same for the revisions between two versions.
Moved(r, from, goal) ==
    LET steps == IF from < goal THEN goal - from ELSE from - goal
        after[i \in 0..steps] ==
          IF i = 0 THEN r
          ELSE Executed(after[i - 1], IF from < goal THEN Script[from + i].up
                                      ELSE Script[from - i + 1].down)
    IN  after[steps]

EmptyDb ==
    [version |-> 0, schema |-> {}, trigger |-> "none", config |-> FALSE, twins |-> FALSE,
     events |-> <<>>, zhparser |-> FALSE]

Intact(d) == [why |-> "none", d |-> d]

\* What the upgrades make of an empty database.
SchemaAt ==
    LET made[i \in 0..Latest] ==
          IF i = 0 THEN EmptyDb ELSE Executed(Intact(made[i - 1]), Script[i].up).d
    IN  [version \in 0..Latest |-> made[version].schema]
-----------------------------------------------------------------------------
Idle(why) == [from |-> None, goal |-> None, why |-> why]

Init ==
    /\ \E offered \in BOOLEAN : db = [EmptyDb EXCEPT !.zhparser = offered]
    /\ seq = [r \in Run |-> 0]
    /\ migrator = [m \in Migrator |-> Idle("none")]

\* upgrade head (a start under DB_AUTO_MIGRATE, or an operator), upgrade +1,
\* downgrade -1, downgrade base.
Goals(version) ==
    {g \in {Latest, version + 1, version - 1, 0} : g \in 0..Latest /\ g # version}

\* The run reads alembic_version and lists its revisions.
Plan(m) ==
    /\ migrator[m].from = None
    /\ \E goal \in Goals(db.version) :
         migrator' = [migrator EXCEPT ![m] = [from |-> db.version, goal |-> goal, why |-> "none"]]
    /\ UNCHANGED <<db, seq>>

\* After another run has moved the version, a statement fails or the update of
\* alembic_version matches no row.
Migrate(m) ==
    LET r == Moved(Intact(db), db.version, migrator[m].goal) IN
    /\ migrator[m].from # None
    /\ IF migrator[m].from # db.version
       THEN migrator' = [migrator EXCEPT ![m] = Idle("refused")] /\ UNCHANGED db
       ELSE /\ migrator' = [migrator EXCEPT ![m] = Idle(r.why)]
            /\ db' = IF r.why = "none" THEN [r.d EXCEPT !.version = migrator[m].goal] ELSE db
    /\ UNCHANGED seq

\* The lock timeout of ten seconds, or the process ends.
Abort(m) ==
    /\ migrator[m].from # None
    /\ migrator' = [migrator EXCEPT ![m] = Idle("none")]
    /\ UNCHANGED <<db, seq>>

\* A run of the assistant numbers its next event and stores it unless the row
\* is refused, which stops nothing.  The code is that of the schema's version.
StoreEvent(r) ==
    LET event == [conversation |-> Conversation[r], seq |-> seq[r] + 1,
                  run |-> IF RunColumn \subseteq db.schema THEN r ELSE None]
        stored == [db EXCEPT !.events = Append(@, event)]
        unique == {o \in db.schema : o[1] = "index" /\ o[2] = "chat_events"}
    IN  /\ Table("chat_events") \in db.schema
        /\ seq' = [seq EXCEPT ![r] = @ + 1]
        /\ db' = IF \A o \in unique : Rowless(stored, o[3]) THEN stored ELSE db
        /\ UNCHANGED migrator

\* An administrator adds a second permission for a resource and action, and
\* merges the two again.
AddTwin ==
    /\ Table("permissions") \in db.schema
    /\ Index("permissions", "uq_permission_resource_action") \notin db.schema
    /\ ~db.twins
    /\ db' = [db EXCEPT !.twins = TRUE]
    /\ UNCHANGED <<seq, migrator>>

MergeTwins ==
    /\ db.twins
    /\ db' = [db EXCEPT !.twins = FALSE]
    /\ UNCHANGED <<seq, migrator>>

InstallParser ==
    /\ ~db.zhparser
    /\ db' = [db EXCEPT !.zhparser = TRUE]
    /\ UNCHANGED <<seq, migrator>>

Next ==
    \/ \E m \in Migrator : Plan(m) \/ Migrate(m) \/ Abort(m)
    \/ \E r \in Run : StoreEvent(r)
    \/ AddTwin
    \/ MergeTwins
    \/ InstallParser

Spec == Init /\ [][Next]_vars
-----------------------------------------------------------------------------
\* Whatever upgrades, downgrades and refusals led to the present version, no
\* statement of a run fails: a run is refused only by the two revisions that say
\* so, or because another run was faster.
StatementsFit == \A m \in Migrator : migrator[m].why # "statement"

\* The triggers use a search configuration that is there.
TriggersConfigured == db.trigger = "chinese" => db.config

\* Rows that the code of the last revision deletes, and the tables it clears
\* before; all but users.
Deleted ==
    {<<"exams", {}>>, <<"exam_questions", {}>>, <<"tasks", {}>>, <<"task_claims", {}>>,
     <<"events", {}>>, <<"resources", {}>>, <<"announcements", {}>>,
     <<"component_registry_items", {}>>, <<"community_categories", {}>>,
     <<"community_series", {}>>, <<"learning_goals", {}>>, <<"agent_automation_rules", {}>>,
     <<"roles", {"role_permissions", "user_roles"}>>, <<"permissions", {"role_permissions"}>>}

Referring(schema, table) == {o \in schema : o[1] = "ref" /\ o[4] = table}

\* The tables that lose rows with a row of the given table.
Cascaded(schema, table) ==
    LET step(ts) == ts \cup {o[2] : o \in {o \in schema : o[1] = "ref" /\ o[4] \in ts /\ o[5] = "cascade"}}
    IN  step(step(step({table})))

\* What the code deletes can be deleted: no row of another table that the code
\* leaves in place holds on to it, or to a row that goes with it.
DeletesGoThrough ==
    db.version = Latest =>
        \A d \in Deleted : \A t \in Cascaded(db.schema, d[1]) :
            \A o \in Referring(db.schema, t) : o[5] # "no action" \/ o[2] \in d[2]
=============================================================================
