------------------------------- MODULE MCServers ------------------------------
(***************************************************************************)
(* What server processes and workers do around the messages of HotelSla:   *)
(* they start and seed (Seeding), route deliveries and scans to the hotels *)
(* (TenantRouting), stream a count to a page (InboxStream), and split a    *)
(* text (TextSplitter), post it (MetaClient) and take the reports of it    *)
(* (StatusCallbacks). These share no state (splitting, posting and reports *)
(* hand on a number of chunks, which each takes for arbitrary), so a       *)
(* behaviour is one of any of them: side by side they would show no more.  *)
(***************************************************************************)
EXTENDS TenantRouting, Integers, Sequences

CONSTANTS
    Starting, MaxDeaths,                                   \* Seeding
    MaxCount, MaxChanges, MaxDrops, MaxFailures, Blank,    \* InboxStream
    Limit, MaxLength,                                      \* TextSplitter
    MaxAttempts, MaxChunks,                                \* MetaClient
    Workers, Chunks, CallbacksWait, MaxErrors, ErrorKinds  \* StatusCallbacks

VARIABLES
    part,                                                  \* which of them it is
    seeded, at, pc, deaths,
    count, last_count, badge, connected, changes, drops, failures,
    text, parts, remaining, spc,
    op, chunks, cpc, current, attempt, ids, copies, posts,
    fate, row, answered, givenUp, handling, loaded, errors

startVars == <<seeded, at, pc, deaths>>
inboxVars == <<count, last_count, badge, connected, changes, drops, failures>>
splitVars == <<text, parts, remaining, spc>>
clientVars == <<op, chunks, cpc, current, attempt, ids, copies, posts>>
reportVars == <<fate, row, answered, givenUp, handling, loaded, errors>>
all == <<part, vars, startVars, inboxVars, splitVars, clientVars, reportVars>>

Start == INSTANCE Seeding WITH Processes <- Starting, MaxFaults <- MaxDeaths, faults <- deaths
Inbox == INSTANCE InboxStream
Split == INSTANCE TextSplitter WITH pc <- spc
Client == INSTANCE MetaClient WITH pc <- cpc, part <- current
Reports == INSTANCE StatusCallbacks WITH
    MaxFaults <- MaxErrors, FaultKinds <- ErrorKinds, faults <- errors

ASSUME PartsAssumption ==
    /\ Start!SeedingAssumption /\ Inbox!InboxStreamAssumption
    /\ Split!TextSplitterAssumption /\ Client!MetaClientAssumption
    /\ Reports!StatusCallbacksAssumption

(* The others are each in one of their initial states. *)
MCInit ==
    /\ part \in {"routing", "start", "inbox", "split", "post", "report"}
    /\ Init /\ Start!Init /\ Inbox!Init /\ Client!Init /\ Reports!Init
    /\ IF part = "split" THEN Split!Init ELSE text = <<>> /\ Split!Start
    /\ part # "start" => seeded = {}
    /\ part # "inbox" => count = 0
    /\ part # "post" => op = "text" /\ chunks = 1
    /\ part # "report" => \A c \in 1..Chunks : fate[c] = "read"

(* What the others leave alone. *)
Others(mine) ==
    /\ UNCHANGED part
    /\ mine # "routing" => UNCHANGED vars
    /\ mine # "start" => UNCHANGED startVars
    /\ mine # "inbox" => UNCHANGED inboxVars
    /\ mine # "split" => UNCHANGED splitVars
    /\ mine # "post" => UNCHANGED clientVars
    /\ mine # "report" => UNCHANGED reportVars

MCNext ==
    \/ part = "routing" /\ Next /\ Others("routing")
    \/ part = "start" /\ Start!Next /\ Others("start")
    \/ part = "inbox" /\ Inbox!Next /\ Others("inbox")
    \/ part = "split" /\ Split!Next /\ Others("split")
    \/ part = "post" /\ Client!Next /\ Others("post")
    \/ part = "report" /\ Reports!Next /\ Others("report")

-----------------------------------------------------------------------------
(* Requests and tasks run, the minutes pass, and Meta tries again until it *)
(* has an OK: it waits longer each time, so that a delivery that the limit *)
(* lets in again and again is one of those in the end. Operators, outages  *)
(* and failures are not fair.                                              *)
RoutingIsFair ==
    /\ \A p \in Servers : WF_vars(part = "routing" /\ (Change(p) \/ Respond(p)))
    /\ \A p \in Celery : /\ WF_vars(part = "routing" /\ ScanStart(p))
                         /\ WF_vars(part = "routing" /\ ScanTenant(p))
    /\ \A b \in Batches : SF_vars(part = "routing" /\ \E p \in Servers : Deliver(p, b))
    /\ WF_vars(part = "routing" /\ NextMinute)

(* A process that starts goes on, and one that is down is started again.   *)
StartIsFair ==
    \A p \in Starting : /\ WF_startVars(part = "start" /\ Start!Start(p))
                        /\ WF_startVars(part = "start" /\ Start!Restart(p))

(* The stream polls for ever, and the browser connects again.              *)
InboxIsFair ==
    /\ WF_inboxVars(part = "inbox" /\ Inbox!Poll)
    /\ WF_inboxVars(part = "inbox" /\ Inbox!Connect)

(* Nothing keeps the splitter from running; a request is answered or times *)
(* out, and a sleep ends.                                                  *)
SendIsFair ==
    /\ WF_splitVars(part = "split" /\ Split!Next)
    /\ WF_clientVars(part = "post" /\ Client!Next)

MCSpec == MCInit /\ [][MCNext]_all /\ RoutingIsFair /\ StartIsFair /\ InboxIsFair /\ SendIsFair

-----------------------------------------------------------------------------
(* Every variable stays in its range, those of every part among them. *)
Types ==
    /\ TypeOK /\ Start!TypeOK /\ Inbox!TypeOK
    /\ Split!TypeOK /\ Client!TypeOK /\ Reports!TypeOK

(* Every delivery whose hotels stay active and in reach from some time on  *)
(* is acknowledged in the end (TenantRouting).                             *)
BatchesArrive == part = "routing" => EveryBatchArrives

(* The messages of such a hotel are handled, whoever else's come with      *)
(* them. Not so, see TenantRouting.                                        *)
OthersArrive == part = "routing" => OthersAreServed

(* No process serves a hotel that is seeded in part (app/seed.py).         *)
ServesASeededHotel == Start!ServesASeededHotel

(* However the starts race, all of them come up for good (a process that   *)
(* loses a race wins or passes over that item at its next start), and      *)
(* everything is seeded, also what the loser of a race has skipped, as     *)
(* long as the databases answer: a start that cannot insert the tenant is  *)
(* not repeated.                                                           *)
SeedingSucceeds ==
    /\ <>[](part = "start" => Start!AllServe)
    /\ <>(part = "start" => Start!AllSeeded)

(* While no count raises, the page comes to show the number of messages    *)
(* that wait, also over lost connections.                                  *)
BadgeCatchesUp == <>[](part = "inbox" => Inbox!UpToDate) \/ <>Inbox!CountFailed

(* A text is split into chunks that Meta takes, nothing of it is lost, and *)
(* no word is cut that need not be (TextSplitter).                         *)
SplitIsFaithful == Split!ChunksAreSendable /\ Split!NothingIsLost /\ Split!WordsAreKept

(* The ids that a call returns are in the order of its parts (MetaClient). *)
IdsInSendOrder == Client!IdsInSendOrder

(* Only what may help is tried again, and the guest gets a second copy     *)
(* only after an answer that was lost (MetaClient).                        *)
CopiesAreJustified == Client!RetriesAreJustified /\ Client!CopiesNeedLostAnswers

(* A call keeps the contract of Call, however its attempts are answered.   *)
ContractKept == Client!ContractKept

(* split_text ends for every text, and every call ends.                    *)
SendingEnds ==
    /\ <>(part = "split" => Split!Ended)
    /\ <>(part = "post" => Client!Contract!Ended)

(* A failure that Meta reported has its reason in the row, and keeps it    *)
(* whatever is reported later (StatusCallbacks).                           *)
FailureIsDiagnosable == Reports!FailureIsDiagnosable
=============================================================================
