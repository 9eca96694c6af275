# Verification of hotel-whatsapp-sla

TLA+ specifications of the application under `app/`: what happens to a guest's WhatsApp
message between the webhook that receives it, the staff and the automatic answer that
deal with it, and the SLA scan that escalates it; and the parts around that core: the
WhatsApp client, the routing of deliveries and scans to the hotels, their migrations,
accounts, subscriptions, the inbox stream, the start of a server and the vector cache. TLC
checks small instances; TLAPS proves every safety property of the passing runs but one
(`FailureIsDiagnosable`, section 4) for every instance.

    tlc -workers 2 -config staff_and_scan.cfg MCHotelSla     # section 3 names the module
    tlapm SafetyProofs.tla                                   # any *Proofs.tla here

## 1. The system

| Part | Code | State it keeps | Operations |
|---|---|---|---|
| Tables | `models.py` | hotels (with their SLA), conversations (opt-out, last inbound, room), messages (status, who actioned, `escalated_at`), escalations (notified marks), subscriptions, staff users, knowledge chunks; unique keys on `(hotel, wa_message_id)`, `(hotel, guest)` and `escalations.message_id` | used by all parts |
| Webhook | `main.py` 295-650 | a database session per delivery | handle a batch: per message, opt-out and opt-in, store, read receipt, room binding, automatic answer; status callbacks |
| Staff message API | `main.py` 1107-1286 | a database session per request | ack, reply, change the SLA |
| SLA scan | `tasks.py` | the rows and the SLAs of one scan | select, escalate, alert the manager, push |
| WhatsApp client | `whatsapp.py` | none | send with retries, chunking, template fallback, 24-hour window |
| Web push | `push.py`, `static/` | subscriptions | push, subscribe |
| Tenant routing | `control_plane.py`, `tenant_db.py`, `db.py`, `crypto.py` | engine cache | phone number to tenant to session |
| Provisioning, migrations | `db_provisioner.py`, `tenant_migrations.py`, `scripts/migrate_tenants.py` | schema revision per tenant | provision, status, migrate |
| Retrieval | `ai.py` | bounded vector cache | embed, rank |
| Accounts | `auth.py`, `main.py` 160-276 and 1131-1184 | staff users, tokens in the browsers | log in, log out, add, deactivate, change a role |
| Operator admin | `admin_router.py`, `admin_auth.py` | tenants | create, edit, toggle a hotel |
| Inbox stream | `main.py` 653-690, `templates/base.html` | the count a stream has sent, the badge of the page | poll, connect again |
| Start-up | `main.py` 68-137, `seed.py`, `control_plane.py` | - | seed the hotel, the control plane and the tenant where they are missing |
| Pages, rooms, knowledge, CSV, config, logs | rest of `app/` | - | read tables, write single rows |

How they interact. Webhooks and staff requests run in the server processes: coroutines
(`whatsapp_webhook`, `reply_message`) share the event loop of a process and call the
database synchronously, so one of them is interrupted only where it awaits; plain
functions (`ack_message`, `update_sla`) run on threads and are interrupted anywhere. The
scans are Celery tasks in processes of their own, started by the beat every two seconds,
and overlap when one takes longer. They meet only in the database, where each commit
makes a change visible. Towards the outside all of them call WhatsApp, which may take a
message and still report an error.

What is hard, and what makes each part correct:

* *Webhook.* Meta delivers at least once, also while an earlier delivery is being
  handled; a process may die in the middle of a batch. A message must be stored,
  receipted and answered at most once, and stored in the end; a STOP must stay out of
  the queue; the subscription must be what the last keyword says.
* *Staff.* Columns are written from rows loaded before an await. A row that says
  "replied" must stand for a reply; what is handled must not come back.
* *Scan.* Two scans select the same message; a message changes after it was selected; a
  worker dies between two commits. One escalation, one alert; nothing waits for ever.
* *WhatsApp client.* An answer is lost and the request tried again; a later chunk fails;
  a template cannot be used. A call that returns has sent everything, in order, with the
  ids in that order; only what may help is tried again; every call ends.
* *Status callbacks.* Reports come in any order, again, and to several processes. The
  reason of a failure must reach the row and stay there.
* *Tenants.* Cached engines outlive a deactivation, one hotel's database cannot be
  reached, one delivery has messages for several hotels, the handling of one message
  fails. An OK must leave nothing behind but what is in the log, and one hotel's trouble
  must not be another's.
* *Migrations.* Commands, forms and deploys overlap and each access may fail; a migration
  dies at any statement while servers of two releases run. Exit code 0 must be true, a
  hotel is registered only with its schema, and no server is cut off.
* *Accounts.* Tokens are believed until they expire; two managers change the same account.
* *Vector cache.* Read and filled in two locked parts with an embedding between them.
* *Push, stream, start.* One endpoint raises in a loop; a connection is lost in the middle
  of an event; processes race to insert the same rows.

`PROJECT.json` lists each hazard at its line.

## 2. The modules

| Module | Models | Notes |
|---|---|---|
| `HotelDb` | `models.py`; time | a table is a function on its key, "absent" where there is no row; `Flushed` is SQLAlchemy's UPDATE of changed columns |
| `EventLoop` | asyncio | who is running on each process; `Hold` until the next await, `Yield` at one |
| `Wire` | WhatsApp and push (external) | counters of calls that arrived; "accepted", "refused", "lost_answer" |
| `Webhook` | `whatsapp_webhook`, `_handle_inbound_message`, `_get_or_create_conversation`, `_maybe_auto_answer` | `wpc` is where a delivery is; `wconv` the columns its session has loaded |
| `StaffDesk` | `ack_message`, `reply_message`, `update_sla` | `cmsg` is the row as it was loaded |
| `SlaScan` | `_scan_db` | `found` is what the query returned, `seen` the SLAs as last read: commits and rollbacks expire them |
| `HotelSla` | all of these over one database, failures, fairness | `Next`, `Spec`, `FairSpec` |
| `RequestBoard` | abstract | the life of one guest request: taken in once, handled, raised once, alerted once |
| `Subscription` | abstract | each message counts once, the last keyword decides |
| `Promises` | - | the properties |
| `Invariants` | - | the strengthenings that are inductive |
| `MCHotelSla` | - | values for the constants |
| `TrafficProofs`, `SafetyProofs` | - | proofs |

| `MetaClient` | `send_whatsapp_text`, `_post_async`, `_post_sync`, `_interpret`, `_merge_sends`; the alert of `tasks.py` with its fallback | `part` is what is being posted, `attempt` how often that has failed; Meta may have taken what it does not confirm; implements `Call` |
| `Call` | abstract | what a caller may rely on: parts arrive in order, "returned" means all of them |
| `TextSplitter` | `split_text` | texts as letters and blanks; one loop round is one or two steps |
| `StatusCallbacks` | `_apply_status_callbacks` | `loaded` is the row as a session has read it; `answered` what Meta has an OK for |
| `TenantRouting` | `tenant_db.py`, the loop over changes and hotels of `whatsapp_webhook` and `scan_sla_and_escalate`, toggle and edit of `admin_router.py` | `cache` is each process's engines, `down` the databases out of reach, `admitted` the rate limit's counter, `dropped` what failed in its own handling and was logged |
| `TenantMigrations` | `tenant_migrations.py`, `db_provisioner.py`, `scripts/migrate_tenants.py`, the form that creates a hotel | revisions are numbers; `cpc` is where a command is, `opc` where a form is |
| `Schema` | `alembic/versions`, `alembic/env.py`, the columns and keys of `models.py` | a migration is a sequence of statements with what PostgreSQL needs for each; the schema of a revision is what the set of its upgrades' statements makes; `db` is committed, `work` the transaction |
| `VectorCache` | `_chunk_vectors`, `clear_vector_cache` | `cache` is the order of the `OrderedDict`; one round of each of the two loops is a step, and a thread in a loop has the lock |
| `StaffAccess` | `auth.py`, login and logout, `staff_add`, `staff_deactivate`, `staff_change_role` | `req` is a request that has checked its token and read the account; `token` the cookie |
| `PushDevices` | `push_subscribe`, the push loop of `_scan_db` | `rows` are pairs of a user and a browser |
| `InboxStream` | `_inbox_event_stream`, `inbox_sse`, the badge of `base.html` | `last_count` is the stream's, `badge` the page's |
| `Seeding` | `_startup`, `seed_demo`, `_seed_control_plane` | six items, each looked for and inserted by every process |
| `MCServers`, `MCHotels`, `MCStaff` | - | several of these in one run, see section 3 |
| `SchemaProofs`, `HotelProofs`, `ServerProofs`, `StaffProofs`, `ClientProofs`, `RoutingProofs` | - | proofs: the first four of what `MCHotels`, `MCServers` and `MCStaff` promise, the last two of `MetaClient` and `TenantRouting` |

A change of a delivery has three ends in `TenantRouting`. An unknown number is skipped
(`Skips`). An inactive hotel without an engine, or one whose database does not answer the
first query (`main.py` 616, 623), raises out of the handler: the delivery is answered 500
and what is left of it is dropped for this time (`Fails`). Otherwise its messages are
handled (`Takes`): stored, or, when the handling of a message raises, rolled back, logged
and passed over, and the delivery goes on to its OK (`main.py` 637-649, `Store`).

A step of the model ends where the code commits or awaits: between two such points
nothing of a handler can be seen by anybody else. The exceptions are the two SELECTs of
the webhook, which are steps of their own because another *process* can come between
them and the commit; on one process `EventLoop` rules that out, and the model shows it
rather than assumes it. In the same way a request of `StaffAccess` or `StatusCallbacks`
is two steps, what it reads and what it commits. Definitions of the form `Name_What` next
to `Name` are mutants: plausible errors in `Name`, used to see that a property can fail.

Data is abstracted to what the properties tell apart. The body of a message is its kind
("stop", "start", "qr", "text", or "bad" for a message that makes the handler raise);
`received_at` is an age in ticks; `last_inbound_at` is whether the 24-hour window is
open; `opted_out_at` is whether it is set; `room_number` is the QR message it came from.
Outbound rows are counted. The embedding and the ranking are a free choice in
`ComposeAnswer`. In `HotelSla` the retries inside one call are one outcome of the call;
`MetaClient` has them one by one, and what it hands on is the contract `Call`. A hotel, a
user, a browser or a text of the knowledge is a model value; an SQL column is a pair of a
table and a name, without its type.

## 3. The runs

The bounds are constants: `MaxAge` (ticks after which a message gets no older),
`MaxDeliveries` per batch, `MaxRequests` of the staff, `MaxFaults`, `BatchLimit` (the
LIMIT of 50 of the scan), the sets, and those named below. Every run sets
`CHECK_DEADLOCK FALSE`: when the bounds are used up, or a call or a command has ended,
there is nothing left to do.

The core (module `MCHotelSla`):

| Run | Instance | Question |
|---|---|---|
| `staff_and_scan` | one webhook with a text and a STOP, two clerks, one scan, two SLAs, one crash or failed commit | do the tables say only what was sent (`HonestRecords`, `EveryRowWasSent`), does a STOP stay silent (`StopIsSilent`), do all of them together keep the request board (`BoardKept`) |
| `redelivery` | text, STOP, START in two batches, each delivered twice, two webhooks, one process, one failure of any kind | is a message answered once (`AnsweredOnce`), does the last keyword count (`LastKeywordCounts`), do the columns agree (`ColumnsAgree`) |
| `overlapping_scans` | two hotels with SLAs of their own, two scans with a LIMIT of one, crashes | one escalation, one alert, one push (`OneAlertPerBreach`) |
| `two_servers` | two processes, a delivery of the same batch on each: a bad message, a text twice in the batch, a QR message; receipts, a clerk, a window that closes | is a message that both processes handle at once answered and receipted once, without the protection of a single loop (`AnsweredOnce`) |
| `every_message_stored` | a batch of two, three deliveries, two webhooks, one crash, `FairSpec` | is every message stored in the end (`EveryMessageIsStored`) |
| `nothing_waits` | two texts, a LIMIT of one, a clerk, one crash, `FairSpec` | is every queued message handled or escalated (`NothingWaitsForever`) |
| `answer_after_stop` | two deliveries, the second a STOP; no receipts, no clerk | violated, see below |
| `lost_alert` | one scan, one crash, `FairSpec` | violated, see below |

Why these bounds are enough. The races are between two actors over one message: two
webhooks, two scans, two clerks, or one of each, and each has as many steps left as it
takes to finish. A second hotel matters only to the cutoff of the scan, a second process
only to the gap between SELECT and commit; both have a run, the latter with two deliveries
of one batch, so that each message can be on both processes between any two statements. One failure already gives
every place a failure can strike at; a LIMIT of one with two messages gives a query that
does not return everything. An SLA of one or two ticks and ages up to two give "not due",
"due for one hotel" and "due for both". `staff_and_scan` uses that the two clerks are
interchangeable (`ClerkSymmetry`); no liveness is checked there.

Fairness (`FairSpec`): the server runs every request that can run, the beat starts scans
and Celery runs them, Meta tries again until it has an OK, and time passes. All of it is
weak fairness of one actor's next step. Staff, guests and failures are not fair.
`MaxDeliveries` is one more than the deliveries a crash can cost, so that the bound does
not stop Meta from trying; `every_message_stored` leaves out failures inside a handler,
after which the code answers OK and gives the message up on purpose (`main.py` 634-645).

The parts around it. Those that share no state are checked in one run: a variable `part`
is chosen at the start and says which of them moves, the others stay in one initial
state. Side by side they would give the product of their states and the same answers,
because no property speaks of two of them.

| Run, module | Instance | Question |
|---|---|---|
| `servers`, `MCServers` | *start*: three processes, two of which may be killed, on databases seeded up to any point | does nobody serve a hotel that is seeded in part (`ServesASeededHotel`), do all come up and is everything seeded (`SeedingSucceeds`) |
| | *routing*: a delivery for two hotels (one of them unseeded), one for the unseeded hotel and an unknown number; one delivery a minute, two toggles or outages, one restart or failed message | does every delivery arrive once the hotels it is for stay active and in reach (`BatchesArrive`), are the scans of hotels isolated (`ScansAreIsolated`) |
| | *inbox*: counts up to two, three changes, two lost connections, one count that raises | does the page catch up (`BadgeCatchesUp`) |
| | *split*: every text of up to ten characters at a limit of five | are the chunks within the limit, is nothing lost and no word cut needlessly (`SplitIsFaithful`) |
| | *post*: text of up to three chunks, template, receipt, alert; two attempts; every answer of Meta to every attempt | ids in order (`IdsInSendOrder`), no needless second copy (`CopiesAreJustified`), the contract (`ContractKept`); with *split*: the end (`SendingEnds`) |
| | *report*: callbacks in any order to two processes, two crashes or failed commits | has every failure its reason (`FailureIsDiagnosable`) |
| `hotels`, `MCHotels` | *migrations*: two commands, one form, two hotels, two releases, any failure | `ZeroIsHonest`, `FailuresAreLocal`, `RegisteredIsMigrated` |
| | *schema*: the three migrations up and down, dying anywhere, two servers of any release | `MigrationsCompose`, `ServersGoOn`, `WindowIsKnown` |
| | *routing*: two servers, a delivery for two hotels, two toggles or outages, one restart or failed message | does an OK leave nothing behind but what is in the log (`AcknowledgedMeansStored`) |
| | *vectors*: two threads, calls of up to three of three texts, a cache of two | the bound (in `Types`), least recently used across threads (`KeepsTheMostRecent`), a row per chunk (`EveryChunkHasItsRow`) |
| `staff_access`, `MCStaff` | *accounts*: two users, one manager at first, two lives of a token | how long do a token (`AccessExpires`) and a manager's rights (`AuthorityExpires`) outlive the account |
| | *devices*: two users, two browsers, one shared, endpoints that end | is everybody told whose push works, and is the mark true (`PushesAreHonest`) |
| `staff_changes`, `MCStaff` | two managers, three accounts, concurrent requests, no clock and no devices | does no request undo a deactivation (`DeactivationStays`), does nobody change his own role (`OthersGiveRoles`) |

Why these bounds are enough. Two attempts are a first and a last one; three chunks are a
first, a middle and a last. Ten characters at a limit of five give texts of one, two and
more chunks, cuts before and after 60% of the limit, words longer than a chunk, and blanks
at every place. Three threads of a start are a winner, a loser and one that comes later.
Two releases are "behind" and "at head", and a head that moves under a command. Three
texts over a cache of two force an eviction, in both orders of two threads; threads and
texts are interchangeable (`Alike`; `hotels` checks no liveness). Requests of
`StaffAccess` race in pairs; the third account of `staff_changes` is the one two managers
add or change at once. Token lives are an hour of an hour's clock: only their order counts.

Fairness of `MCServers`: requests and tasks run and the minutes pass. Meta tries each
delivery again until it has an OK ("Meta retries it forever", `tests/test_webhook_inbound.py`
379), and the fairness of that is strong: a delivery does not meet a full minute at every
one of its attempts. With weak fairness other deliveries could fill each minute before it.
Further, a start goes on and the supervisor starts again what is down; the stream polls
and the browser reconnects (`EventSource` does); the splitter's loop runs, requests are
answered or time out and sleeps end. Operators, outages, lost connections and failures
(those of a message's handling too) are not fair. Failed counts are excepted in `BadgeCatchesUp`, see below. `CallbacksWait` and `Chunks = 1` say
that Meta reports after the commit and about the first chunk; see below for the others.

### Where the code and its documentation differ

Two runs show it:

* `answer_after_stop` violates `NoTrafficAfterStop`. `tests/test_webhook_inbound.py` 209
  asks for "no further outbound traffic to this guest" after a STOP. The automatic answer
  looks at `opted_out` before it awaits the embedding and the send, and a STOP stored in
  between is followed by the answer. Read receipts are switched off in this run: one that
  is sent for an earlier message after the STOP would be the shorter behaviour. A staff
  reply does the same (`main.py` 1225): the configuration with `Workers <- OneWorker` and
  `Clerks <- OneClerk`, where no answer is under way while the STOP is stored, shows it.
* `lost_alert` violates `AlertIsNotLost`. `tasks.py` 47 calls the alert "the one message
  in this system that must not be lost". `escalated_at` is committed before the alert is
  sent and keeps the message out of every later scan: when the worker dies in between,
  the manager never hears of it.

The models show more, which no run checks. Each is seen by changing a configuration as
said and running it again:

* A failure that Meta reports before the outbound row is committed, or for a later chunk
  of a long text, finds no row and is answered OK (`main.py` 369, `whatsapp.py` 463);
  `models.py` 98 says that failed callbacks make "undelivered sends diagnosable".
  `servers.cfg` with `CallbacksWait = FALSE`, or with `Chunks = 2`: `FailureIsDiagnosable`.
* An inactive hotel raises out of the webhook (`tenant_db.py` 36), and so does a hotel
  whose database is out of reach (`main.py` 623, outside any `try`); either takes the
  changes after it in the same delivery with it, each time. `main.py` 603 warns that
  reading only the first change "silently drops the rest". `servers.cfg` with the property
  `OthersArrive`.
* The webhook's rate limit (`main.py` 589) answers 429; `tests/test_webhook_inbound.py`
  379 says "never 4xx a valid-signature delivery". `servers.cfg` with the invariant
  `NeverRefused`.
* A hotel whose URL cannot be decrypted is left out of the status (`tenant_migrations.py`
  64) and the command exits with 0; `migrate_tenants.py` 10 says "0 all tenants at head".
  `hotels.cfg` with `Undecryptable = {palace}` and the invariant `ZeroMeansAllAtHead`.
* Two of the staff who subscribe at one browser are two rows, and it shows an escalation
  twice; `main.py` 1308 speaks of avoiding duplicates. Module `PushDevices` with the
  invariant `ToldOnce`.
* A count that raises blanks the badge, and the stream sends the same number no more
  (`main.py` 680): `BadgeCatchesUp` without its exception.
* Of two QR scans the earlier can bind its room last, when its read receipt takes longer
  (`main.py` 582). `redelivery.cfg` with the `TwoQrs` values of `MCHotelSla` and the
  property `RoomFollowsTheGuest`.

## 4. What is proved

For every set of hotels, guests, messages, batches, webhooks, clerks and scans, and every
bound, under the named assumptions on the constants only:

| Theorem | States | For |
|---|---|---|
| `TypeCorrect` | `Spec => []TypeOK` | any number of processes |
| `Strengthening` | `Spec => []IInv` | any number of processes |
| `AlertedOnce` | `Spec => []OneAlertPerBreach` | any number of processes |
| `RepliedOnce` | `Spec => []AnsweredOnce` | any number of processes |
| `RecordsHonest` | `Spec => []HonestRecords` | any number of processes |
| `StopStaysSilent` | `Spec => []StopIsSilent` | any number of processes |
| `RowsWereSent` | `Spec => []EveryRowWasSent` | any number of processes |
| `KeepsTheBoard` | `Spec => BoardKept`, that is, `HotelSla` implements `RequestBoard!Safe` | any number of processes |
| `LoopGuardsTheColumns` | `Spec => []SubscriptionInv` | one process |
| `ColumnsStayTogether` | `Spec => []ColumnsAgree` | one process |
| `KeywordsCountOnce` | `Spec => LastKeywordCounts`, that is, `HotelSla` implements `Subscription` | one process |

None of the properties is inductive as it stands: `OneAlertPerBreach` says nothing of a
scan that is about to alert. `IInv` (module `Invariants`) adds what holds half-way:

* `Taken`: whoever works on a message works on one that is stored, and a scan only on
  one that is or was in the queue.
* `AlertInv`: an escalation belongs to the scan that made it. No two scans are busy with
  the same message, because `Escalate` needs a message without an escalation and none is
  ever deleted; and where the scan is says whether alert and push have been sent.
* `AnswerInv`: the same for a message and the webhook that stored it. A webhook gets past
  "store" only by the insert, which the unique key allows once.
* `ReplyInv`: a clerk who is about to record a reply has sent one.
* `StopInv`: a STOP is stored as closed, so that no scan selects it, no clerk can
  acknowledge it, and no webhook goes on with it.

`EveryRowWasSent` has an invariant of its own, `RowInv`: for every message, its outbound
rows of the staff together with the clerks who have sent a reply and not yet come to the
second commit (`Unrecorded`) are no more than the replies that arrived. A send takes both
sides up by one, a commit moves a clerk into the rows, a failure or a crash only takes
clerks away.

`TrafficProofs` proves `TypeOK` action by action, states what each kind of step leaves
alone and how one message can change (`MessageMoves`), then proves `Taken`
and `AlertInv`, and after them `AnswerInv` and `ReplyInv`; `SafetyProofs` proves `StopInv`,
puts `IInv` together, derives the properties, counts the rows with the library's facts
on cardinality, and maps every step to `Receive`, `Handle`, `Raise`,
`Alert` or a stutter of the board. Its part on the subscription needs one event loop: a
webhook between its SELECT and its commit holds the loop (`LoopKept`), so the columns it
loaded are those of the row and `ConversationAfter` is exactly what `Subscription!Count`
says. With several processes `ColumnsAgree` and `LastKeywordCounts`
do not hold, which is why the assumption is there.

Of the parts around the core, for every set and every bound as well. The components on
their own:

| Module | Theorem | States |
|---|---|---|
| `HotelProofs` | `MigrationTypes` | `TenantMigrations!Spec => []TypeOK` |
| | `ZeroCanBeTrusted` | `=> []ZeroIsHonest` |
| | `OthersAreMigrated` | `=> []FailuresAreLocal` |
| | `NoUnmigratedHotel` | `=> []RegisteredIsMigrated` |
| `StaffProofs` | `StaffTypes` | `StaffAccess!Spec => []TypeOK` |
| | `TokensRunOut` | `=> []AccessExpires` |
| | `AuthorityRunsOut` | `=> []AuthorityExpires` |
| | `DeactivationIsFinal` | `=> DeactivationStays` |
| | `NobodyPromotesHimself` | `=> OthersGiveRoles` |
| `ClientProofs` | `ClientKeepsContract` | `MetaClient!Spec => ContractKept`, that is, `MetaClient` implements `Call` |
| `RoutingProofs` | `RoutingTypes` | `TenantRouting!Spec => []TypeOK` |
| | `NothingLeftBehind` | `=> []AcknowledgedMeansStored` |

And of the specifications that the runs check, in which one part moves and the others rest:

| Module | Theorem | States |
|---|---|---|
| `SchemaProofs` | `MigrationsAlwaysCompose` | `MCHotels!MCSpec => []MigrationsCompose` |
| | `ServersAlwaysGoOn` | `=> []ServersGoOn` |
| | `WindowIsAlwaysKnown` | `=> []WindowIsKnown` |
| `HotelProofs` | `AcknowledgedIsStored` | `=> []AcknowledgedMeansStored` |
| | `CacheKeepsTheMostRecent` | `=> []KeepsTheMostRecent` |
| | `ChunksHaveTheirRows` | `=> []EveryChunkHasItsRow` |
| | `HotelTypes` | `=> []Types` |
| `ServerProofs` | `HotelIsSeeded` | `MCServers!MCSpec => []ServesASeededHotel` |
| | `ReasonsStay` | `=> [][row.wa_error => row'.wa_error]_row`, with callbacks at any time and chunks of any number |
| | `FirstChunkIsDiagnosable` | `=> []FirstIsDiagnosed`: under `CallbacksWait`, of the first chunk |
| | `IdsAreInOrder` | `=> []IdsInSendOrder` |
| | `CopiesHaveAReason` | `=> []CopiesAreJustified` |
| | `CallsKeepTheContract` | `=> ContractKept` |
| | `TextsAreSplitFaithfully` | `=> []SplitIsFaithful` |
| | `ServerTypes` | `=> []Types` |
| `StaffProofs` | `PushesAreHonestlyMarked` | `MCStaff!MCSpec => []PushesAreHonest` |
| | `StaffAndDeviceTypes` | `=> []Types` |

None of the specifications assumes more of its constants than the named assumptions of its
modules (`PartsAssumption` collects those of the parts). `Types` speaks of every variable
of the parts; only in `MCHotels` two are left to other properties, the statements a
migration still has to run (`MigrationsCompose`) and the history of the cache
(`KeepsTheMostRecent`).

The lemmas `PartsStart` and `PartsStep` of `SchemaProofs`, `ServerProofs` and
`StaffProofs` (`StaffParts`) say once that every part starts in one of its initial states
and takes its own steps or none. From there each part has an inductive invariant:

* *Migrations* (`HotelProofs`). A command migrates only if it is to, and has upgraded what
  it verifies (`Upgrading`); what it has reported is still true, because no database goes
  back (`Truthful`); every hotel of its list is still to be looked at, being migrated or in
  the report (`Complete`). A form that is about to insert has migrated its database
  (`FormInv`).
* *Schema* (`SchemaProofs`). The upgrades are one list `All` of 27 statements, of which a
  revision has the first `Bound[revision]`. Their effects commute as far as sets go, so
  what a prefix leaves behind is a function of the *set* of its statements
  (`Layout!Made(Part(n))`), and no induction is needed: `UpgradeGoes` says that the
  transaction has what the prefix makes and that the rest of the list is still to run,
  `DowngradeGoes` that it has what the revision had, less what the statements so far take
  away (`Fallen`). A statement applies because its table is created before it (`Birth`) and
  its columns with it, and a table falls after all that refer to it (`Fall`). Death in the
  middle is then trivial: `work` goes back to `db`, and `db` was never anything else.
  `LayoutInv` is about the data: wherever the column is without its value, the back-fill is
  still in the script or a downgrade is about to take the column (`Windows`).
* *Vector cache* (`HotelProofs`). `CacheInv`: `touched` has every text once and ends with
  the cache; a thread has the vector of every chunk, or still has the chunk before it
  (`Provided`). Moving a text to the end and dropping the oldest keep "ends with" for any
  length, which is what least-recently-used across threads means.
* *Routing*. `RoutingProofs` shows that of a delivery every hotel is still to come, has the
  messages, or is in the log with them (`DoneIsStored`), which no deactivation, outage,
  eviction or scan changes, because none of them takes a message away; and a delivery that
  raises at a hotel is answered 500 and claims nothing. `HotelProofs` and `ServerProofs` carry that invariant
  over to the compositions, lemma by lemma.
* *Accounts and devices* (`StaffProofs`). The histories never run ahead of the clock and
  are at it while the account is active (`Times`), a login is over within the hour
  (`LoginIsFresh`), what a request has read is an account that is still there (`Seen`).
  `PushInv`: each row that the scan has read waits, has raised or has been shown.
* *Client*. `ClientProofs`: a part is posted once all before it have arrived (`Progress`);
  a history of the attempts (`HistoryInv`) says which ids belong to which part, that an
  attempt follows one that was busy or silent, and that the copies of a part are at most
  one more than its lost answers.
* *Status callbacks* (`ServerProofs`). `ReportInv`: what a worker has loaded knows of no
  error that the row has not. `Flushed` writes the columns that differ, so a "delivered"
  without an error, loaded before, leaves the error alone.
* *Splitter* (`ServerProofs`). `SplitInv` has a witness instead of a recursion: there is a
  function `g` that lays the pieces into the text, piece `k` after position `g[k]`, so that
  between one piece and the next there are only blanks (`Laid`). A cut replaces the last
  piece by two and gives `g` one more place. Where the cut falls is a least or a greatest
  element of a set of positions, which exists by well-founded induction on the naturals.
* *Start* (`ServerProofs`). `SeedingInv`: what lies before the item a process is at is
  there, whoever inserted it, and only a process past the hotel's items serves.

Model-checked only, and why:

* liveness, which is out of the prover's reach, as is everything under fairness or
  ENABLED: `EveryMessageIsStored`, `NothingWaitsForever`, `BatchesArrive`,
  `ScansAreIsolated`, `SeedingSucceeds`, `BadgeCatchesUp`, `SendingEnds`;
* `FailureIsDiagnosable`, which holds only of texts of one chunk whose reports come after
  the commit, as `servers.cfg` has them and the code does not promise; what holds of any
  text is `FirstChunkIsDiagnosable` and, whenever reports come, `ReasonsStay`;
* the two violations, which are single behaviours.

## 5. What is not modelled, and the plan

Not modelled, and why:

* the dashboard, board and analytics pages: they read tables and render them;
* rooms, stays and knowledge chunks, the CSV and the PDF import: single transactions
  without a second step. Their tables have their schema in `Schema`;
* the operator's accounts: an account is inserted once and never changed, its tokens are
  those of `StaffAccess`;
* the numbers inside embedding and ranking, the payloads of messages, the check of a
  signature, passwords and encryption: pure functions, whose outcome is a free choice or a
  model value where it matters;
* configuration, logging and the QR script: no state that changes;
* the replacement of the database's name in the administrative URL (`db_provisioner.py`
  86), a string function; a push without a timeout (`tasks.py` 173), which holds up every
  scan alike;
* that managers may deactivate each other until none is left: nothing asks for the
  contrary.

Left of the plan: the safety half of what the liveness properties rest on, as theorems. A
scan in which one hotel's database fails leaves no other hotel out (the step behind
`ScansAreIsolated`); with each round of its loop the splitter has less to cut, and with
each attempt the client fewer to make, so that neither can go on for ever (behind
`SendingEnds`); what the stream has sent is what the page shows or what a new connection
sends again (behind `BadgeCatchesUp`).

No `RECURSIVE` operator is used anywhere.
