------------------------------- MODULE HotelDb -------------------------------
(***************************************************************************)
(* The tables of one database (app/models.py) that the webhook handlers,   *)
(* the staff endpoints and the SLA scan share, and the passing of time     *)
(* they all read with utcnow().  One database holds one or more hotels.    *)
(*                                                                         *)
(* A row that is not there is a total function's "absent" value, so that   *)
(* every table is a function on its key: conversations on the guest's      *)
(* wa_id, messages on the wa_message_id of the inbound message, the        *)
(* escalations on that same id (message_id is unique there).  The unique   *)
(* constraints of the code are the guards of the inserts.                  *)
(***************************************************************************)
EXTENDS Naturals, FiniteSets

CONSTANTS
    Hotels,      \* the hotels of this database
    Guests,      \* WhatsApp users, by wa_id
    Ids,         \* wa_message_ids of inbound messages
    HotelOf,     \* the hotel a guest writes to
    GuestOf,     \* the guest a message comes from
    Kind,        \* what the body of a message asks for
    Users,       \* staff users
    Nobody,      \* NULL in actioned_by_user_id
    NoId,        \* NULL in a column that refers to a message
    MaxAge       \* the longest age of a message, and the longest SLA, in ticks

(* "text" stands for every body that is no keyword; "bad" for a message    *)
(* whose handling raises before it touches a table (no "from" field).      *)
Kinds == {"text", "stop", "start", "qr", "bad"}

ASSUME HotelDbAssumption ==
    /\ HotelOf \in [Guests -> Hotels]
    /\ GuestOf \in [Ids -> Guests]
    /\ Kind \in [Ids -> Kinds]
    /\ Nobody \notin Users
    /\ NoId \notin Ids
    /\ MaxAge \in Nat \ {0}

VARIABLES
    conversations,   \* table conversations, by guest
    messages,        \* inbound rows of table messages, by wa_message_id
    replies,         \* outbound rows of table messages, by the message they answer
    escalations,     \* table escalations, by message
    sla,             \* hotels.sla_seconds, in ticks
    age              \* now - received_at, in ticks

dbVars == <<conversations, messages, replies, escalations, sla, age>>

-----------------------------------------------------------------------------
(* Rows. opted_out_at is kept as "is not NULL"; last_inbound_at as "less    *)
(* than 24 hours ago"; room_number as the QR message it was taken from.    *)
ConversationRow ==
    [known: BOOLEAN, opted_out: BOOLEAN, opted_out_at: BOOLEAN,
     window: BOOLEAN, room: Ids \cup {NoId}]

Statuses == {"absent", "unactioned", "closed", "acknowledged", "replied", "auto_replied"}

MessageRow ==
    [status: Statuses,
     actioned_type: {"none", "opted_out", "ack", "reply", "auto"},
     actioned_by: Users \cup {Nobody},
     escalated_at: BOOLEAN]

ReplyRows == [auto: Nat, staff: Nat]

EscalationRow ==
    [made: BOOLEAN, whatsapp_notified: BOOLEAN, push_notified: BOOLEAN]

NoConversation ==
    [known |-> FALSE, opted_out |-> FALSE, opted_out_at |-> FALSE,
     window |-> FALSE, room |-> NoId]

NewConversation == [NoConversation EXCEPT !.known = TRUE]

NoMessage ==
    [status |-> "absent", actioned_type |-> "none",
     actioned_by |-> Nobody, escalated_at |-> FALSE]

NoEscalation ==
    [made |-> FALSE, whatsapp_notified |-> FALSE, push_notified |-> FALSE]

NewEscalation == [NoEscalation EXCEPT !.made = TRUE]

Stored(m) == messages[m].status # "absent"

(* The hotel a message belongs to (messages.hotel_id). *)
MessageHotel(m) == HotelOf[GuestOf[m]]

DbTypeOK ==
    /\ conversations \in [Guests -> ConversationRow]
    /\ messages \in [Ids -> MessageRow]
    /\ replies \in [Ids -> ReplyRows]
    /\ escalations \in [Ids -> EscalationRow]
    /\ sla \in [Hotels -> 1..MaxAge]
    /\ age \in [Ids -> 0..MaxAge]

DbInit ==
    /\ conversations = [g \in Guests |-> NoConversation]
    /\ messages = [m \in Ids |-> NoMessage]
    /\ replies = [m \in Ids |-> [auto |-> 0, staff |-> 0]]
    /\ escalations = [m \in Ids |-> NoEscalation]
    /\ sla \in [Hotels -> 1..MaxAge]
    /\ age = [m \in Ids |-> 0]

-----------------------------------------------------------------------------
(* What a flush of the unit of work leaves in a column: an UPDATE names    *)
(* only the columns whose new value differs from the one this session      *)
(* loaded; the others keep what the row holds by then.                     *)
Flushed(loaded, new, current) == IF new # loaded THEN new ELSE current

(* A message is old enough for the SLA of hotel h. *)
Overdue(m, h) == age[m] >= sla[h]

(* The clock: every stored message gets older together. *)
Tick ==
    /\ \E m \in Ids : Stored(m) /\ age[m] < MaxAge
    /\ age' = [m \in Ids |->
                 IF Stored(m) /\ age[m] < MaxAge THEN age[m] + 1 ELSE age[m]]
    /\ UNCHANGED <<conversations, messages, replies, escalations, sla>>

(* Twenty-four hours pass since the guest's last message. *)
WindowCloses(g) ==
    /\ conversations[g].window
    /\ conversations' = [conversations EXCEPT ![g].window = FALSE]
    /\ UNCHANGED <<messages, replies, escalations, sla, age>>

=============================================================================
