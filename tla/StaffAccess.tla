----------------------------- MODULE StaffAccess ------------------------------
(***************************************************************************)
(* Who may work for one hotel: logins and the tokens they give (app/auth.py*)
(* and the login of app/main.py), and the managers' changes of accounts    *)
(* (add, deactivate, role), each a request that checks its token and reads *)
(* the account, and commits later, while other requests do the same. A     *)
(* token says what the account was at the login and is believed until it   *)
(* expires. A user sends one request at a time. Time counts hours; a login *)
(* takes far less than one. That the hotel itself may be closed is         *)
(* TenantRouting's part.                                                   *)
(***************************************************************************)
EXTENDS Integers

CONSTANTS
    Users,         \* e-mail addresses
    Browsers,      \* those of them that log in
    Managers,      \* those that are managers from the start
    Life,          \* jwt_expiry_hours
    MaxTime,       \* bound: hours
    None

Role == {"agent", "manager"}
Account == [role : Role, active : BOOLEAN]

ASSUME StaffAccessAssumption ==
    /\ Managers \subseteq Users /\ Browsers \subseteq Users
    /\ Life \in Nat \ {0}
    /\ MaxTime \in Nat
    /\ None \notin Account

VARIABLES
    clock,
    account,       \* the row of an address, or None
    login,         \* the role a login has found, or None
    token,         \* the cookie in the user's browser, or None
    req,           \* what a user's request is about to commit, or None
    wasActive,     \* history: the last hour an account was active
    wasManager     \* history: and the last hour it was a manager's

history == <<wasActive, wasManager>>
vars == <<clock, account, login, token, req, history>>

Token == [role : Role, exp : 0..MaxTime + Life]
Request ==
    [at : Int, kind : {"add", "deactivate", "role"}, on : Users, role : Role,
     saw : Account \cup {None}]

TypeOK ==
    /\ clock \in 0..MaxTime
    /\ account \in [Users -> Account \cup {None}]
    /\ login \in [Browsers -> Role \cup {None}]
    /\ token \in [Browsers -> Token \cup {None}]
    /\ req \in [Browsers -> Request \cup {None}]
    /\ wasActive \in [Users -> Int]
    /\ wasManager \in [Users -> Int]

IsActive(a) == a # None /\ a.active
IsManager(a) == IsActive(a) /\ a.role = "manager"

Never == -1 - Life

(* The histories follow the state: they are at the clock as long as the    *)
(* condition holds.                                                        *)
Remember ==
    /\ wasActive' = [u \in Users |-> IF IsActive(account'[u]) THEN clock' ELSE wasActive[u]]
    /\ wasManager' = [u \in Users |-> IF IsManager(account'[u]) THEN clock' ELSE wasManager[u]]

Init ==
    /\ clock = 0
    /\ account = [u \in Users |->
                    IF u \in Managers THEN [role |-> "manager", active |-> TRUE] ELSE None]
    /\ login = [u \in Browsers |-> None]
    /\ token = [u \in Browsers |-> None]
    /\ req = [u \in Browsers |-> None]
    /\ wasActive = [u \in Users |-> IF u \in Managers THEN 0 ELSE Never]
    /\ wasManager = wasActive

-----------------------------------------------------------------------------
Tick ==
    /\ clock < MaxTime
    /\ \A u \in Browsers : login[u] = None
    /\ clock' = clock + 1
    /\ UNCHANGED <<account, login, token, req>> /\ Remember

\* Mutant: whether the account is active is not asked.
Mine_Any(u) == account[u] # None

(* authenticate_user: only an active account is found. *)
Mine(u) == IsActive(account[u])

(* login_submit finds the hotel and in its database the account, *)
Find(u) ==
    /\ login[u] = None
    /\ Mine(u)
    /\ login' = [login EXCEPT ![u] = account[u].role]
    /\ UNCHANGED <<clock, account, token, req>> /\ Remember

(* create_access_token. *)
Expiry(u) == clock + Life

(* and, when the password is right, gives the browser a token.             *)
Issue(u) ==
    /\ login[u] # None
    /\ token' = [token EXCEPT ![u] = [role |-> login[u], exp |-> Expiry(u)]]
    /\ login' = [login EXCEPT ![u] = None]
    /\ UNCHANGED <<clock, account, req>> /\ Remember

(* A wrong password, or a failure. *)
Refuse(u) ==
    /\ login[u] # None
    /\ login' = [login EXCEPT ![u] = None]
    /\ UNCHANGED <<clock, account, token, req>> /\ Remember

Logout(u) ==
    /\ token[u] # None
    /\ token' = [token EXCEPT ![u] = None]
    /\ UNCHANGED <<clock, account, login, req>> /\ Remember

-----------------------------------------------------------------------------
(* decode_token believes a token that has not expired. *)
LoggedIn(u) == token[u] # None /\ clock < token[u].exp

\* Mutant: whoever is logged in may.
MayManage_LoggedIn(u) == LoggedIn(u)

(* require_manager: the role is the token's. *)
MayManage(u) == LoggedIn(u) /\ token[u].role = "manager"

(* An account that exists is not added, one that does not is not changed,  *)
(* and nobody changes his own role.                                        *)
Proceeds(u, kind, on) ==
    CASE kind = "add" -> account[on] = None
      [] kind = "deactivate" -> account[on] # None
      [] kind = "role" -> account[on] # None /\ on # u

(* A request is let in, reads the account, and goes on to change it.       *)
Begin(u, kind, on, role) ==
    /\ req[u] = None
    /\ MayManage(u)
    /\ Proceeds(u, kind, on)
    /\ req' = [req EXCEPT ![u] = [at |-> clock, kind |-> kind, on |-> on,
                                  role |-> role, saw |-> account[on]]]
    /\ UNCHANGED <<clock, account, login, token>> /\ Remember

(* The handler fails, or its process dies. *)
Drop(u) ==
    /\ req[u] # None
    /\ req' = [req EXCEPT ![u] = None]
    /\ UNCHANGED <<clock, account, login, token>> /\ Remember

\* Mutant: the whole row is written, as it was read.
Written_WholeRow(q) ==
    CASE q.kind = "add" -> [role |-> q.role, active |-> TRUE]
      [] q.kind = "deactivate" -> [q.saw EXCEPT !.active = FALSE]
      [] q.kind = "role" -> [q.saw EXCEPT !.role = q.role]

\* Mutant: an account that is added once more is replaced.
Written_Upsert(q) ==
    CASE q.kind = "add" -> [role |-> q.role, active |-> TRUE]
      [] q.kind = "deactivate" -> [account[q.on] EXCEPT !.active = FALSE]
      [] q.kind = "role" -> [account[q.on] EXCEPT !.role = q.role]

(* What the row is afterwards. The unique key refuses a second row of an   *)
(* address; the session writes the one column the handler has set, and     *)
(* only when it differs from what was read.                                *)
Written(q) ==
    CASE q.kind = "add" ->
            IF account[q.on] = None THEN [role |-> q.role, active |-> TRUE] ELSE account[q.on]
      [] q.kind = "deactivate" -> [account[q.on] EXCEPT !.active = @ /\ ~q.saw.active]
      [] q.kind = "role" ->
            [account[q.on] EXCEPT !.role = IF q.saw.role = q.role THEN @ ELSE q.role]

Commit(u) ==
    /\ req[u] # None
    /\ account' = [account EXCEPT ![req[u].on] = Written(req[u])]
    /\ req' = [req EXCEPT ![u] = None]
    /\ UNCHANGED <<clock, login, token>> /\ Remember

UserStep(u) == Find(u) \/ Issue(u) \/ Refuse(u) \/ Logout(u)

RequestStep(u) ==
    \/ \E on \in Users :
          \/ \E kind \in {"add", "role"}, role \in Role : Begin(u, kind, on, role)
          \/ Begin(u, "deactivate", on, "agent")
    \/ Commit(u) \/ Drop(u)

Next ==
    \/ Tick
    \/ \E u \in Browsers : UserStep(u) \/ RequestStep(u)

Spec == Init /\ [][Next]_vars

-----------------------------------------------------------------------------
(* A token is believed for at most Life hours after the account was last   *)
(* active, even when it is deactivated in the middle of the login, and as  *)
(* a manager's for at most as long after it was last a manager's.          *)
AccessExpires ==
    \A u \in Browsers : token[u] # None =>
        /\ token[u].exp <= wasActive[u] + Life
        /\ token[u].role = "manager" => token[u].exp <= wasManager[u] + Life

(* Whoever changes accounts has been an active manager less than Life      *)
(* hours before his request was let in.                                    *)
AuthorityExpires ==
    \A u \in Browsers : req[u] # None => req[u].at < wasManager[u] + Life

(* No request undoes what another has done while it ran: a deactivated     *)
(* account stays so whatever is changed in it by a request that has read   *)
(* it before, or by one that was adding it.                                *)
DeactivationStays ==
    [][\A u \in Users : account[u] # None /\ ~account[u].active =>
                            account'[u] # None /\ ~account'[u].active]_vars

(* An address has one account, with the first role it was added with, when *)
(* two managers add it at once: only a request that changes roles, made by *)
(* somebody else, changes a role.                                          *)
OthersGiveRoles ==
    [][\A u \in Users : account[u] # None /\ account'[u].role # account[u].role =>
           \E m \in Browsers \ {u} : /\ req[m] # None /\ req'[m] = None
                                   /\ req[m].kind = "role" /\ req[m].on = u]_vars
=============================================================================
