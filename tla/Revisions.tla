------------------------------- MODULE Revisions -------------------------------
(***************************************************************************)
(* The revisions of the schema, as alembic/versions has them.               *)
(*                                                                          *)
(* A schema is a set of objects: tables, and of their columns and indexes   *)
(* those that a revision adds or removes by name; a column or an index that *)
(* comes and goes with its table belongs to the table.  Foreign keys are    *)
(* all there, with what a deletion of the parent row does.  Types,          *)
(* nullability, defaults and comments are left out: every NOT NULL column   *)
(* that is added later has a server default.                                *)
(***************************************************************************)
EXTENDS Integers, SequencesExt

Table(t) == <<"table", t>>
Column(t, c) == <<"column", t, c>>
Index(t, i) == <<"index", t, i>>
Ref(t, r) == <<"ref", t>> \o r

\* A foreign key column, its parent table and what a deletion there does.
To(c, parent) == <<c, parent, "no action">>
Cascade(c, parent) == <<c, parent, "cascade">>
SetNull(c, parent) == <<c, parent, "set null">>

\* Statements.
Add(objects) == [do |-> "add", objects |-> objects]
Cut(objects) == [do |-> "remove", objects |-> objects]
Create(t, refs) == Add({Table(t)} \cup {Ref(t, r) : r \in refs})
Drop(t) == [do |-> "drop", table |-> t]
DropCascade(t) == [do |-> "drop cascade", table |-> t]
Rename(t, u) == [do |-> "rename", table |-> t, as |-> u]
Do(what) == [do |-> what]

Columns(t, names) == {Column(t, c) : c \in names}
Indexes(t, names) == {Index(t, i) : i \in names}
Swap(t, old, new) == <<Cut({Ref(t, old)}), Add({Ref(t, new)})>>
Drops(tables) == [i \in DOMAIN tables |-> Drop(tables[i])]

Revision(up, down) == [up |-> up, down |-> down]
-----------------------------------------------------------------------------
\* 36bbae24c38c

ExceptionIndexes ==
    Indexes("exception_logs",
        {"idx_created_at_severity", "idx_traceback_id_user", "ix_exception_logs_endpoint",
         "ix_exception_logs_priority", "ix_exception_logs_related_incident_id",
         "ix_exception_logs_request_id", "ix_exception_logs_severity"})

PrefixIndexes ==
    Indexes("exception_logs",
        {"ix_exception_logs_exception_type", "ix_exception_logs_error_code",
         "ix_exception_logs_status_code", "ix_exception_logs_user_id"})

IdIndex(t) == Index(t, "ix_" \o t \o "_id")

ExceptionLogs ==
    <<Create("exception_logs", {To("parent_exception_id", "exception_logs")}),
      Add(ExceptionIndexes \cup PrefixIndexes \cup {IdIndex("exception_logs")})>>

AccountTables ==
    <<Create("permissions", {}), Add({IdIndex("permissions")}),
      Create("roles", {}), Add({IdIndex("roles")}),
      Create("users", {}), Add({IdIndex("users")}),
      Create("refresh_tokens", {Cascade("user_id", "users")}), Add({IdIndex("refresh_tokens")}),
      Create("role_permissions", {To("permission_id", "permissions"), To("role_id", "roles")}),
      Create("user_roles", {To("role_id", "roles"), To("user_id", "users")})>>

DropInitial ==
    <<Drop("user_roles"), Drop("role_permissions"),
      Cut({IdIndex("refresh_tokens")}), Drop("refresh_tokens"),
      Cut({IdIndex("users")}), Drop("users"), Cut({IdIndex("roles")}), Drop("roles"),
      Cut({IdIndex("permissions")}), Drop("permissions"),
      Cut({IdIndex("exception_logs")} \cup PrefixIndexes \cup ExceptionIndexes),
      Drop("exception_logs")>>

InitialSchema == Revision(ExceptionLogs \o AccountTables, DropInitial)

\* a7c3e91f2b04
PasswordChangedAt ==
    Revision(<<Add(Columns("users", {"password_changed_at"}))>>,
             <<Cut(Columns("users", {"password_changed_at"}))>>)

\* b8d4f02c3e15
OldAuditIndexes ==
    Indexes("audit_logs", {"ix_audit_logs_action", "ix_audit_logs_resource_type",
                           "ix_audit_logs_resource_id", "ix_audit_logs_actor_id"})

SoftDelete ==
    Revision(<<Add(Columns("users", {"deleted_at"})), Create("audit_logs", {}),
               Add({IdIndex("audit_logs")} \cup OldAuditIndexes)>>,
             <<Cut({IdIndex("audit_logs")} \cup OldAuditIndexes), Drop("audit_logs"),
               Cut(Columns("users", {"deleted_at"}))>>)

\* c41e8d7a2f90: refuses while two permissions have one resource and action.
UniquePermission ==
    LET unique == Indexes("permissions", {"uq_permission_resource_action"}) IN
    Revision(<<Do("refuse twins"), Add(unique)>>, <<Cut(unique)>>)

\* 8c9d0e1f2a3b
TrimExceptionIndexes == Revision(<<Cut(ExceptionIndexes)>>, <<Add(ExceptionIndexes)>>)

\* d52f1a6c8b73
RedundantIndexes ==
    {IdIndex(t) : t \in {"users", "roles", "permissions", "refresh_tokens", "audit_logs",
                         "exception_logs"}} \cup PrefixIndexes

ReverseIndexes ==
    {Index("user_roles", "ix_user_roles_role_id"),
     Index("role_permissions", "ix_role_permissions_permission_id")}

PruneIndexes ==
    Revision(<<Cut(RedundantIndexes), Add(ReverseIndexes)>>,
             <<Cut(ReverseIndexes), Add(RedundantIndexes)>>)

\* e6a4b91d70c2
NewAuditIndexes ==
    Indexes("audit_logs", {"idx_audit_action_created", "idx_audit_resource_type_created",
                           "idx_audit_resource_id_created", "idx_audit_actor_created"})

AuditIndexes ==
    Revision(<<Cut(OldAuditIndexes), Add(NewAuditIndexes)>>,
             <<Cut(NewAuditIndexes), Add(OldAuditIndexes)>>)
-----------------------------------------------------------------------------
\* d1e2f3a4b5c6: the business tables.

ProfileColumns ==
    Columns("users", {"display_name", "bio", "avatar_url", "avatar_type", "github_url",
                      "website_url", "github_id", "tech_tags"})

SecurityTables ==
    <<Create("login_history", {To("user_id", "users")}),
      Create("password_history", {Cascade("user_id", "users")}),
      Create("verification_codes", {}),
      Create("password_reset_requests", {To("admin_id", "users")}),
      Create("two_factor_auth", {Cascade("user_id", "users")}),
      Create("settings", {})>>

ResourceTables ==
    <<Create("resources", {To("submitted_by", "users"), To("reviewed_by", "users")}),
      Create("component_registry_items", {}),
      Create("component_registry_variants", {To("item_id", "component_registry_items")}),
      Create("component_registry_guides", {To("item_id", "component_registry_items")})>>

ApplicationTables ==
    <<Create("join_applications", {To("user_id", "users"), To("reviewed_by", "users")}),
      Create("events", {To("created_by", "users")})>>

EventTables ==
    <<Create("event_registrations", {To("user_id", "users"), To("event_id", "events")}),
      Create("event_checkins",
          {To("event_id", "events"), To("registration_id", "event_registrations"),
           To("user_id", "users"), To("checked_in_by", "users")}),
      Create("activity_participations", {To("user_id", "users")})>>

LastReply == Ref("forum_topics", To("last_reply_id", "forum_replies"))

\* Topics and replies refer to each other.
ForumTables ==
    <<Create("forum_categories", {To("created_by", "users")}),
      Create("forum_topics",
          {To("category_id", "forum_categories"), To("author_id", "users"),
           To("hidden_by", "users")}),
      Create("forum_replies",
          {To("topic_id", "forum_topics"), To("author_id", "users"),
           To("parent_reply_id", "forum_replies"), To("hidden_by", "users")}),
      Add({LastReply})>>

ForumUseTables ==
    <<Create("forum_likes", {To("user_id", "users")}),
      Create("forum_favorites", {To("user_id", "users"), To("topic_id", "forum_topics")}),
      Create("forum_topic_views", {To("topic_id", "forum_topics"), To("user_id", "users")}),
      Create("forum_mentions", {To("mentioned_user_id", "users"), To("source_author_id", "users")})>>

BlogTables ==
    <<Create("blog_series", {To("created_by", "users")}),
      Create("blog_posts", {To("author_id", "users"), To("series_id", "blog_series")}),
      Create("blog_likes", {To("post_id", "blog_posts"), To("user_id", "users")}),
      Create("notifications", {To("user_id", "users"), To("sender_id", "users")}),
      Create("announcements", {To("created_by", "users")})>>

ExamTables ==
    <<Create("exams", {To("created_by", "users")}),
      Create("exam_questions", {To("exam_id", "exams")}),
      Create("exam_question_options", {To("question_id", "exam_questions")}),
      Create("exam_attempts",
          {To("user_id", "users"), To("exam_id", "exams"), To("question_id", "exam_questions")})>>

TaskTables ==
    <<Create("tasks", {To("created_by", "users")}),
      Create("task_claims",
          {To("task_id", "tasks"), To("user_id", "users"), To("reviewed_by", "users")}),
      Create("points_transactions", {To("user_id", "users")})>>

DropContent ==
    Drops(<<"points_transactions", "task_claims", "tasks", "exam_attempts",
            "exam_question_options", "exam_questions", "exams", "announcements",
            "notifications", "blog_likes", "blog_posts", "blog_series", "forum_mentions",
            "forum_topic_views", "forum_favorites", "forum_likes">>)
    \o <<Cut({LastReply})>>
    \o Drops(<<"forum_replies", "forum_topics", "forum_categories">>)

DropRecords ==
    Drops(<<"activity_participations", "event_checkins", "event_registrations", "events",
            "join_applications", "component_registry_guides", "component_registry_variants",
            "component_registry_items", "resources", "settings", "password_reset_requests",
            "two_factor_auth", "verification_codes", "password_history", "login_history">>)

BusinessTables ==
    Revision(<<Add(ProfileColumns)>> \o SecurityTables \o ResourceTables \o ApplicationTables
                 \o EventTables \o ForumTables \o ForumUseTables \o BlogTables \o ExamTables
                 \o TaskTables,
             DropContent \o DropRecords \o <<Cut(ProfileColumns)>>)
-----------------------------------------------------------------------------
\* f6a7b8c9d0e1
DeviceInfo ==
    LET columns == Columns("refresh_tokens", {"ip_address", "user_agent"}) IN
    Revision(<<Add(columns)>>, <<Cut(columns)>>)

\* 7e8f9a0b1c2d
RoleDisplay ==
    LET columns == Columns("roles", {"display_name", "is_system", "sort_order"}) IN
    Revision(<<Add(columns)>>, <<Cut(columns)>>)

\* 5c6d7e8f9a0b: the community.

PostTables ==
    <<Create("community_categories", {SetNull("created_by", "users")}),
      Create("community_posts",
          {Cascade("category_id", "community_categories"), Cascade("author_id", "users"),
           SetNull("hidden_by", "users"), SetNull("series_id", "blog_series")})>>

CommentTables ==
    <<Create("community_comments",
          {Cascade("post_id", "community_posts"), Cascade("author_id", "users"),
           Cascade("parent_comment_id", "community_comments"), SetNull("hidden_by", "users")}),
      Create("community_reactions", {Cascade("user_id", "users")}),
      Create("community_favorites", {Cascade("user_id", "users")})>>

ReaderTables ==
    <<Create("community_post_views", {Cascade("post_id", "community_posts"), Cascade("user_id", "users")}),
      Create("community_mentions",
          {Cascade("mentioned_user_id", "users"), SetNull("source_author_id", "users")}),
      Create("community_follows", {Cascade("follower_id", "users"), Cascade("following_id", "users")})>>

ReportTables ==
    <<Create("community_reports", {Cascade("reporter_id", "users"), SetNull("handled_by", "users")})>>

DropCommunity ==
    Drops(<<"community_reports", "community_follows", "community_mentions",
            "community_post_views", "community_favorites", "community_reactions",
            "community_comments", "community_posts", "community_categories">>)

CommunityTables ==
    Revision(PostTables \o CommentTables \o ReaderTables \o ReportTables, DropCommunity)

\* 3a4b5c6d7e8f
ComponentCascade ==
    LET item(R(_, _)) == R("item_id", "component_registry_items")
        swap(Old(_, _), New(_, _)) ==
            Swap("component_registry_variants", item(Old), item(New))
            \o Swap("component_registry_guides", item(Old), item(New))
    IN  Revision(swap(To, Cascade), swap(Cascade, To))

\* 1b2c3d4e5f6a
OwnedRows ==
    <<<<"exam_questions", "exam_id", "exams">>,
      <<"exam_question_options", "question_id", "exam_questions">>,
      <<"exam_attempts", "exam_id", "exams">>,
      <<"exam_attempts", "question_id", "exam_questions">>,
      <<"task_claims", "task_id", "tasks">>,
      <<"event_registrations", "event_id", "events">>,
      <<"event_checkins", "event_id", "events">>,
      <<"event_checkins", "registration_id", "event_registrations">>>>

BusinessCascade ==
    LET swap(owned, Old(_, _), New(_, _)) ==
            FlattenSeq([i \in DOMAIN owned |->
                Swap(owned[i][1], Old(owned[i][2], owned[i][3]), New(owned[i][2], owned[i][3]))])
    IN  Revision(swap(OwnedRows, To, Cascade), swap(Reverse(OwnedRows), Cascade, To))

\* 9f1c2a3b4d5e
SenderSetNull ==
    Revision(Swap("notifications", To("sender_id", "users"), SetNull("sender_id", "users")),
             Swap("notifications", SetNull("sender_id", "users"), To("sender_id", "users")))

\* 6e7f8a9b0c1d: the vectors of the full-text search, kept by triggers.
SearchVectors ==
    LET vectors == {Column("community_posts", "search_vector"), Column("users", "search_vector")} IN
    Revision(<<Add(vectors), Do("new triggers")>>, <<Do("no triggers"), Cut(vectors)>>)

\* 4f5a6b7c8d9e
LegacyTables ==
    <<"forum_topics", "forum_posts", "forum_post_likes", "forum_post_tags", "forum_post_views",
      "blog_posts", "blog_likes">>

DropLegacy ==
    Revision([i \in DOMAIN LegacyTables |-> DropCascade(LegacyTables[i])], <<Do("refuse")>>)

\* 2a3b4c5d6e7f
RenameSeries ==
    Revision(<<Rename("blog_series", "community_series")>>,
             <<Rename("community_series", "blog_series")>>)

\* a3b4c5d6e7f8
ChineseSearch == Revision(<<Do("best triggers")>>, <<Do("simple triggers")>>)
-----------------------------------------------------------------------------
\* b0b1c2d3e4f5
WorkbenchTables ==
    Revision(<<Create("contribution_cache", {To("user_id", "users")}),
               Create("api_call_logs", {To("user_id", "users")}),
               Create("conversations", {To("user_id", "users")}),
               Create("chat_messages", {To("conversation_id", "conversations")})>>,
             Drops(<<"chat_messages", "conversations", "api_call_logs", "contribution_cache">>))

\* c2d3e4f5a6b7
FocusSessions ==
    Revision(<<Create("focus_sessions", {To("user_id", "users")})>>, <<Drop("focus_sessions")>>)

\* d3e4f5a6b7c8
ModelUsage ==
    Revision(<<Create("llm_usage_logs", {To("user_id", "users")}),
               Create("llm_configs", {To("user_id", "users")})>>,
             Drops(<<"llm_configs", "llm_usage_logs">>))

\* d4e5f6a7b8c9
ConversationUnique == Indexes("chat_events", {"uq_chat_events_conv_seq"})

ChatEvents ==
    Revision(<<Create("chat_events", {To("conversation_id", "conversations"), To("user_id", "users")}),
               Add(ConversationUnique)>>,
             <<Drop("chat_events")>>)

\* e5f6a7b8c9d0
FeatureToggles ==
    LET columns == Columns("llm_configs", {"web_search_enabled", "trajectory_enabled"}) IN
    Revision(<<Add(columns)>>, <<Cut(columns)>>)

\* f7a8b9c0d1e2: events are numbered per run, no longer per conversation.
BranchColumns ==
    Columns("conversations",
        {"parent_conversation_id", "root_conversation_id", "forked_from_message_id"})

BranchRefs ==
    {Ref("conversations", SetNull("parent_conversation_id", "conversations")),
     Ref("conversations", SetNull("root_conversation_id", "conversations")),
     Ref("conversations", SetNull("forked_from_message_id", "chat_messages"))}

RunColumn == Columns("chat_events", {"run_id"})

RunRef == {Ref("chat_events", SetNull("run_id", "agent_runs"))}

RunUnique == Indexes("chat_events", {"uq_chat_events_run_seq"})

AddRuns ==
    <<Create("agent_runs",
          {To("user_id", "users"), SetNull("conversation_id", "conversations"),
           SetNull("input_message_id", "chat_messages"),
           SetNull("output_message_id", "chat_messages")}),
      Add(BranchColumns), Add(BranchRefs), Add(RunColumn), Add(RunRef),
      Cut(ConversationUnique), Add(RunUnique)>>

\* Mistake: the numbers are left as the runs gave them.
RemoveRunsNumbered ==
    <<Cut(RunUnique), Add(ConversationUnique), Cut(RunRef), Cut(RunColumn), Cut(BranchRefs),
      Cut(BranchColumns), Drop("agent_runs")>>

RemoveRuns ==
    <<Cut(RunUnique), Do("renumber"), Add(ConversationUnique), Cut(RunRef),
      Cut(RunColumn), Cut(BranchRefs), Cut(BranchColumns), Drop("agent_runs")>>

AgentRuns == Revision(AddRuns, RemoveRuns)

\* a8b9c0d1e2f3
ConversationLifecycle ==
    LET columns == Columns("conversations", {"archived_at", "deleted_at"}) IN
    Revision(<<Add(columns)>>, <<Cut(columns)>>)

\* b9c0d1e2f3a4
WrongAnswers ==
    Revision(<<Create("learning_wrong_answers",
                   {Cascade("user_id", "users"), Cascade("exam_id", "exams"),
                    Cascade("question_id", "exam_questions")})>>,
             <<Drop("learning_wrong_answers")>>)

\* c0d1e2f3a4b5
ReviewStreak ==
    LET columns == Columns("learning_wrong_answers", {"review_streak"}) IN
    Revision(<<Add(columns)>>, <<Cut(columns)>>)

\* e2f3a4b5c6d7
LearningGoals ==
    Revision(<<Create("learning_goals", {Cascade("user_id", "users"), SetNull("exam_id", "exams")})>>,
             <<Drop("learning_goals")>>)

\* f3a4b5c6d7e8
PlanItems ==
    Revision(<<Create("learning_plan_items",
                   {Cascade("user_id", "users"), SetNull("goal_id", "learning_goals")})>>,
             <<Drop("learning_plan_items")>>)

\* b8c9d0e1f2a3
SubmissionUrl ==
    LET columns == Columns("task_claims", {"submission_url"}) IN
    Revision(<<Add(columns)>>, <<Cut(columns)>>)

OfUser(t) == Revision(<<Create(t, {Cascade("user_id", "users")})>>, <<Drop(t)>>)

\* c1d2e3f4a5b6, d2e3f4a5b6c7, e3f4a5b6c7d8 and f4a5b6c7d8e9
InboxItems == OfUser("agent_inbox_items")
AutomationRules == OfUser("agent_automation_rules")
DailyBriefings == OfUser("agent_daily_briefings")
WeeklyReviews == OfUser("agent_weekly_reviews")

\* Each revision's down_revision is the one before it.
Chain ==
    <<InitialSchema, PasswordChangedAt, SoftDelete, UniquePermission, TrimExceptionIndexes,
      PruneIndexes, AuditIndexes, BusinessTables, DeviceInfo, RoleDisplay, CommunityTables,
      ComponentCascade, BusinessCascade, SenderSetNull, SearchVectors, DropLegacy, RenameSeries,
      ChineseSearch, WorkbenchTables, FocusSessions, ModelUsage, ChatEvents, FeatureToggles,
      AgentRuns, ConversationLifecycle, WrongAnswers, ReviewStreak, LearningGoals, PlanItems,
      SubmissionUrl, InboxItems, AutomationRules, DailyBriefings, WeeklyReviews>>
=============================================================================
