-------------------------------- MODULE Schema --------------------------------
(***************************************************************************)
(* One hotel's database while migrations (alembic/versions) and releases   *)
(* of the servers come and go in any order: what is upgraded can be        *)
(* downgraded, servers of several releases run at once, and a migration    *)
(* can die at any statement. PostgreSQL runs a migration in one            *)
(* transaction (alembic/env.py) and keeps the tables it alters locked, so  *)
(* servers see the database as it was before or as it is afterwards.       *)
(*                                                                         *)
(* A column is a pair of a table and a name. Types, lengths and indexes    *)
(* that only make queries fast are left out, unless a migration drops      *)
(* them by name. Guests' data is one conversation.                         *)
(***************************************************************************)
EXTENDS Naturals, Sequences, SequencesExt

CONSTANTS
    Servers,
    MaxMessages    \* bound: messages of the guest

SchemaAssumption == MaxMessages \in Nat

VARIABLES
    db,         \* the database as committed
    work,       \* as the migration's transaction sees it
    todo,       \* the statements the migration still has to execute
    target,     \* the revision it goes to
    runs,       \* the release a server runs
    missed      \* history: a server that does not know last_inbound_at took it

vars == <<db, work, todo, target, runs, missed>>

-----------------------------------------------------------------------------
(* Statements.                                                             *)

Columns(table, names) == {table} \X names

(* op.create_table: the columns an INSERT must give, those it may leave    *)
(* out (nullable, or with a server_default), and the tables it refers to.  *)
(* op.add_column likewise.                                                 *)
Table(t, must, may, refs) ==
    [do |-> "create", table |-> t, must |-> must, may |-> may, refs |-> refs]
Column(t, c) == [do |-> "add", table |-> t, must |-> {}, may |-> {c}]
Unique(t, key) == [do |-> "unique", table |-> t, key |-> key]
Index(t, i) == [do |-> "index", table |-> t, index |-> i]
DropTable(t) == [do |-> "drop_table", table |-> t]
DropColumn(t, c) == [do |-> "drop_column", table |-> t, column |-> c]
DropIndex(t, i) == [do |-> "drop_index", table |-> t, index |-> i]
Backfill == [do |-> "backfill", table |-> "conversations"]

Up1 == <<
    Table("hotels", {"id", "name", "whatsapp_phone_number_id", "whatsapp_business_phone_e164",
                     "whatsapp_access_token_enc", "manager_wa_e164", "created_at"}, {}, {}),
    Unique("hotels", {"whatsapp_phone_number_id"}),
    Index("hotels", "ix_hotels_whatsapp_phone_number_id"),
    Table("staff_users", {"id", "hotel_id", "email", "password_hash", "role", "created_at"},
                         {"is_active"}, {"hotels"}),
    Unique("staff_users", {"hotel_id", "email"}),
    Table("rooms", {"id", "hotel_id", "room_number", "created_at"}, {"room_type", "status"},
                   {"hotels"}),
    Unique("rooms", {"hotel_id", "room_number"}),
    Table("guest_stays", {"id", "hotel_id", "guest_name", "arrival_date", "departure_date",
                          "room_number", "created_at"},
                         {"guest_phone", "language", "reservation_id"}, {"hotels"}),
    Table("conversations", {"id", "hotel_id", "wa_id", "created_at"},
                           {"room_number", "stay_id", "last_message_at"},
                           {"hotels", "guest_stays"}),
    Unique("conversations", {"hotel_id", "wa_id"}),
    Table("messages", {"id", "hotel_id", "conversation_id", "direction", "body",
                       "received_at", "status", "created_at"},
                      {"wa_message_id", "actioned_at", "actioned_type", "actioned_by_user_id",
                       "escalated_at"},
                      {"hotels", "conversations", "staff_users"}),
    Unique("messages", {"hotel_id", "wa_message_id"}),
    Table("escalations", {"id", "hotel_id", "message_id", "triggered_at", "status"},
                         {"whatsapp_notified_at", "push_notified_at", "resolved_at"},
                         {"hotels", "messages"}),
    Unique("escalations", {"message_id"}),
    Table("push_subscriptions", {"id", "hotel_id", "staff_user_id", "endpoint", "p256dh",
                                 "auth", "created_at"}, {}, {"hotels", "staff_users"}),
    Unique("push_subscriptions", {"staff_user_id", "endpoint"}) >>

\* Mutant: the tables go in the order of the alphabet.
Down1_Alphabetical == <<
    DropTable("conversations"), DropTable("escalations"), DropTable("guest_stays"),
    DropTable("messages"), DropTable("push_subscriptions"), DropTable("rooms"),
    DropTable("staff_users"), DropIndex("hotels", "ix_hotels_whatsapp_phone_number_id"),
    DropTable("hotels") >>

Down1 == <<
    DropTable("push_subscriptions"), DropTable("escalations"), DropTable("messages"),
    DropTable("conversations"), DropTable("guest_stays"), DropTable("rooms"),
    DropTable("staff_users"), DropIndex("hotels", "ix_hotels_whatsapp_phone_number_id"),
    DropTable("hotels") >>

\* Mutant: whether a guest has opted out has no server_default.
Up2_NoDefault == <<
    Column("hotels", "sla_seconds"),
    [Column("conversations", "opted_out") EXCEPT !.must = {"opted_out"}],
    Column("messages", "wa_status"),
    Table("knowledge_chunks", {"id", "hotel_id", "content", "created_at"}, {"is_active"},
                              {"hotels"}),
    Index("knowledge_chunks", "ix_knowledge_chunks_hotel_id") >>

Up2 == <<
    Column("hotels", "sla_seconds"),
    Column("conversations", "opted_out"),
    Column("messages", "wa_status"),
    Table("knowledge_chunks", {"id", "hotel_id", "content", "created_at"}, {"is_active"},
                              {"hotels"}),
    Index("knowledge_chunks", "ix_knowledge_chunks_hotel_id") >>

Down2 == <<
    DropIndex("knowledge_chunks", "ix_knowledge_chunks_hotel_id"),
    DropTable("knowledge_chunks"),
    DropColumn("messages", "wa_status"),
    DropColumn("conversations", "opted_out"),
    DropColumn("hotels", "sla_seconds") >>

\* Mutant: conversations that are there already get no window.
Up3_NoBackfill == <<
    Column("conversations", "last_inbound_at"), Column("conversations", "opted_out_at"),
    Column("messages", "wa_error_code"), Column("messages", "wa_error_title"),
    Index("messages", "ix_messages_wa_message_id") >>

Up3 == <<
    Column("conversations", "last_inbound_at"), Column("conversations", "opted_out_at"),
    Backfill,
    Column("messages", "wa_error_code"), Column("messages", "wa_error_title"),
    Index("messages", "ix_messages_wa_message_id") >>

Down3 == <<
    DropIndex("messages", "ix_messages_wa_message_id"),
    DropColumn("messages", "wa_error_title"), DropColumn("messages", "wa_error_code"),
    DropColumn("conversations", "opted_out_at"), DropColumn("conversations", "last_inbound_at") >>

Up == <<Up1, Up2, Up3>>
Down == <<Down1, Down2, Down3>>
Newest == 3

-----------------------------------------------------------------------------
(* What a statement needs of the database, and what it makes of it.        *)

(* Columns of a table, whatever their names. *)
OfTable(pairs, t) == {p \in pairs : p[1] = t}

Applies(s, d) ==
    CASE s.do = "create" -> s.table \notin d.tables /\ s.refs \subseteq d.tables
      [] s.do = "add" -> /\ s.table \in d.tables
                         /\ Columns(s.table, s.must \cup s.may) \cap d.columns = {}
                         /\ s.must # {} => d.lastMessage = 0
      [] s.do = "unique" -> Columns(s.table, s.key) \subseteq d.columns
      [] s.do = "index" -> s.table \in d.tables /\ <<s.table, s.index>> \notin d.indexes
      [] s.do = "drop_table" -> s.table \in d.tables /\ \A r \in d.refs : r[2] # s.table
      [] s.do = "drop_column" -> <<s.table, s.column>> \in d.columns
      [] s.do = "drop_index" -> <<s.table, s.index>> \in d.indexes
      [] s.do = "backfill" -> <<s.table, "last_inbound_at">> \in d.columns

Applied(d, s) ==
    CASE s.do = "create" ->
            [d EXCEPT !.tables = @ \cup {s.table},
                      !.columns = @ \cup Columns(s.table, s.must \cup s.may),
                      !.must = @ \cup Columns(s.table, s.must),
                      !.refs = @ \cup Columns(s.table, s.refs)]
      [] s.do = "add" ->
            [d EXCEPT !.columns = @ \cup Columns(s.table, s.must \cup s.may),
                      !.must = @ \cup Columns(s.table, s.must)]
      [] s.do = "unique" -> [d EXCEPT !.unique = @ \cup {<<s.table, s.key>>}]
      [] s.do = "index" -> [d EXCEPT !.indexes = @ \cup {<<s.table, s.index>>}]
      [] s.do = "drop_table" ->
            [d EXCEPT !.tables = @ \ {s.table},
                      !.columns = @ \ OfTable(@, s.table), !.must = @ \ OfTable(@, s.table),
                      !.refs = @ \ OfTable(@, s.table), !.unique = @ \ OfTable(@, s.table),
                      !.indexes = @ \ OfTable(@, s.table),
                      !.lastMessage = IF s.table = "messages" THEN 0 ELSE @]
      [] s.do = "drop_column" ->
            [d EXCEPT !.columns = @ \ {<<s.table, s.column>>},
                      !.must = @ \ {<<s.table, s.column>>},
                      !.lastInbound = IF s.column = "last_inbound_at" THEN 0 ELSE @]
      [] s.do = "drop_index" -> [d EXCEPT !.indexes = @ \ {<<s.table, s.index>>}]
      [] s.do = "backfill" -> [d EXCEPT !.lastInbound = d.lastMessage]

Empty == [revision |-> 0, tables |-> {}, columns |-> {}, must |-> {}, refs |-> {}, unique |-> {},
          indexes |-> {}, lastMessage |-> 0, lastInbound |-> 0]

(* alembic goes through the revisions in between, in their order. *)
Between(r, from, to) == IF r \in from + 1 .. to THEN Up[r] ELSE <<>>
Upgrades(from, to) == Between(1, from, to) \o Between(2, from, to) \o Between(3, from, to)

(* What upgrades leave behind: they only add, so their order is no matter. *)
Made(done) ==
    LET created == {s \in done : s.do = "create"}
        brought == {s \in done : s.do \in {"create", "add"}} IN
    [tables |-> {s.table : s \in created},
     columns |-> UNION {Columns(s.table, s.must \cup s.may) : s \in brought},
     must |-> UNION {Columns(s.table, s.must) : s \in brought},
     refs |-> UNION {Columns(s.table, s.refs) : s \in created},
     unique |-> {<<s.table, s.key>> : s \in {u \in done : u.do = "unique"}},
     indexes |-> {<<s.table, s.index>> : s \in {i \in done : i.do = "index"}}]

(* A database that was upgraded to a revision and never anything else.     *)
SchemaAt == [r \in 0..Newest |-> Made(ToSet(Upgrades(0, r)))]

SameSchema(d, e) ==
    /\ d.tables = e.tables /\ d.columns = e.columns /\ d.must = e.must
    /\ d.refs = e.refs /\ d.unique = e.unique /\ d.indexes = e.indexes

-----------------------------------------------------------------------------
(* The release in the repository (app/models.py): what it selects and      *)
(* inserts of every table, and the keys its handlers count on.             *)
Models ==
    [hotels |-> {"id", "name", "whatsapp_phone_number_id", "whatsapp_business_phone_e164",
                 "whatsapp_access_token_enc", "manager_wa_e164", "sla_seconds", "created_at"},
     staff_users |-> {"id", "hotel_id", "email", "password_hash", "role", "is_active",
                      "created_at"},
     rooms |-> {"id", "hotel_id", "room_number", "room_type", "status", "created_at"},
     guest_stays |-> {"id", "hotel_id", "guest_name", "arrival_date", "departure_date",
                      "room_number", "guest_phone", "language", "reservation_id", "created_at"},
     conversations |-> {"id", "hotel_id", "wa_id", "room_number", "stay_id", "last_message_at",
                        "last_inbound_at", "opted_out", "opted_out_at", "created_at"},
     messages |-> {"id", "hotel_id", "conversation_id", "direction", "wa_message_id", "body",
                   "wa_status", "wa_error_code", "wa_error_title", "received_at", "actioned_at",
                   "actioned_type", "actioned_by_user_id", "status", "escalated_at",
                   "created_at"},
     escalations |-> {"id", "hotel_id", "message_id", "triggered_at", "whatsapp_notified_at",
                      "push_notified_at", "status", "resolved_at"},
     push_subscriptions |-> {"id", "hotel_id", "staff_user_id", "endpoint", "p256dh", "auth",
                             "created_at"},
     knowledge_chunks |-> {"id", "hotel_id", "content", "is_active", "created_at"}]

ModelColumns == UNION {Columns(t, Models[t]) : t \in DOMAIN Models}

ModelKeys ==
    {<<"hotels", {"whatsapp_phone_number_id"}>>, <<"staff_users", {"hotel_id", "email"}>>,
     <<"rooms", {"hotel_id", "room_number"}>>, <<"conversations", {"hotel_id", "wa_id"}>>,
     <<"messages", {"hotel_id", "wa_message_id"}>>, <<"escalations", {"message_id"}>>,
     <<"push_subscriptions", {"staff_user_id", "endpoint"}>>}

(* An earlier release maps what its own newest revision has. *)
Mapped(release) ==
    IF release = Newest THEN ModelColumns ELSE SchemaAt[release].columns

(* A query selects every mapped column of its table, and an INSERT gives   *)
(* them all.                                                               *)
Serves(release, d) ==
    /\ Mapped(release) \subseteq d.columns
    /\ \A c \in d.must : (\E m \in Mapped(release) : m[1] = c[1]) => c \in Mapped(release)

-----------------------------------------------------------------------------
Idle == todo = <<>> /\ target = db.revision

(* What belongs to a table goes with it. *)
Consistent(d) ==
    /\ d.revision \in 0..Newest
    /\ d.must \subseteq d.columns
    /\ \A p \in d.columns : p[1] \in d.tables
    /\ \A p \in d.refs : p[1] \in d.tables
    /\ \A p \in d.unique : p[1] \in d.tables
    /\ d.lastMessage \in 0..MaxMessages /\ d.lastInbound \in 0..d.lastMessage

TypeOK ==
    /\ Consistent(db) /\ Consistent(work) /\ target \in 0..Newest
    /\ runs \in [Servers -> 1..Newest]
    /\ missed \in BOOLEAN

(* A database that was just created, and servers of any release.           *)
Init ==
    /\ db = Empty
    /\ work = Empty
    /\ todo = <<>>
    /\ target = 0
    /\ runs \in [Servers -> 1..Newest]
    /\ missed = FALSE

(* alembic upgrade: to the newest revision that the release has on disk.   *)
StartUpgrade(r) ==
    /\ Idle /\ r \in db.revision + 1 .. Newest
    /\ target' = r
    /\ todo' = Upgrades(db.revision, r)
    /\ work' = db
    /\ UNCHANGED <<db, runs, missed>>

(* alembic downgrade -1. *)
StartDowngrade ==
    /\ Idle /\ db.revision > 0
    /\ target' = db.revision - 1
    /\ todo' = Down[db.revision]
    /\ work' = db
    /\ UNCHANGED <<db, runs, missed>>

Execute ==
    /\ todo # <<>>
    /\ Applies(Head(todo), work)
    /\ work' = Applied(work, Head(todo))
    /\ todo' = Tail(todo)
    /\ UNCHANGED <<db, target, runs, missed>>

Commit ==
    /\ todo = <<>> /\ target # db.revision
    /\ work' = [work EXCEPT !.revision = target]
    /\ db' = work'
    /\ missed' = FALSE
    /\ UNCHANGED <<todo, target, runs>>

(* The process dies or a statement fails: the transaction is rolled back.  *)
RollBack ==
    /\ ~Idle
    /\ work' = db
    /\ todo' = <<>>
    /\ target' = db.revision
    /\ UNCHANGED <<db, runs, missed>>

(* A message of the guest. It waits for a migration that has the tables    *)
(* locked; a server the schema does not serve fails, and stores nothing.   *)
Receive(s) ==
    /\ Idle /\ db.lastMessage < MaxMessages
    /\ Serves(runs[s], db)
    /\ db' = [db EXCEPT !.lastMessage = @ + 1,
                        !.lastInbound = IF runs[s] = Newest THEN db.lastMessage + 1 ELSE @]
    /\ work' = db'
    /\ missed' = (db.revision = Newest /\ runs[s] # Newest)
    /\ UNCHANGED <<todo, target, runs>>

(* A server is replaced by one of another release, newer or older.         *)
Restart(s, r) ==
    /\ r # runs[s]
    /\ runs' = [runs EXCEPT ![s] = r]
    /\ UNCHANGED <<db, work, todo, target, missed>>

Next ==
    \/ \E r \in 1..Newest : StartUpgrade(r)
    \/ StartDowngrade \/ Execute \/ Commit \/ RollBack
    \/ \E s \in Servers : Receive(s) \/ \E r \in 1..Newest : Restart(s, r)

Spec == Init /\ [][Next]_vars

-----------------------------------------------------------------------------
(* No statement of a migration fails on a database that reached its        *)
(* revision by any way up and down (a table that others refer to is not    *)
(* dropped, nothing is created twice or dropped when it is not there).     *)
EveryStatementApplies == todo # <<>> => Applies(Head(todo), work)

(* The revision in alembic_version tells what the schema is: a downgrade   *)
(* takes back exactly what its upgrade has done.                           *)
RevisionTellsSchema == SameSchema(db, SchemaAt[db.revision])

(* The newest revision is what app/models.py maps: every column, and every *)
(* unique key that the handlers' check-then-insert steps count on.         *)
ModelsMatchHead ==
    db.revision = Newest => db.columns = ModelColumns /\ db.unique = ModelKeys

(* A migration that comes before the restart of the servers cuts none of   *)
(* them off: a release works with its own and every later revision.        *)
OldReleasesGoOn == \A s \in Servers : runs[s] <= db.revision => Serves(runs[s], db)

(* The service window is known as soon as the column is there, for the     *)
(* conversations of before as well, and stays known, except through a      *)
(* message that a server of an older release has stored since.             *)
WindowIsKnown == db.revision = Newest /\ ~missed => db.lastInbound = db.lastMessage
=============================================================================
