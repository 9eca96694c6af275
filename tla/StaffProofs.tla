------------------------------ MODULE StaffProofs ------------------------------
(***************************************************************************)
(* What StaffAccess promises, for any number of users, logins and changes, *)
(* and for tokens of any life; and what PushDevices promises, for any      *)
(* number of staff and browsers, when both run as in MCStaff.              *)
(***************************************************************************)
EXTENDS MCStaff, TLAPS

(* The histories are right about the past and about now. *)
Times ==
    \A u \in Users :
        /\ wasActive[u] <= clock /\ wasManager[u] <= clock
        /\ IsActive(account[u]) => wasActive[u] = clock
        /\ IsManager(account[u]) => wasManager[u] = clock

(* A login is over before the hour is, so what it has found is recent.     *)
LoginIsFresh ==
    \A u \in Browsers : login[u] # None =>
        /\ wasActive[u] = clock
        /\ login[u] = "manager" => wasManager[u] = clock

(* A request to change an account has read one, and accounts remain.       *)
Seen ==
    \A u \in Browsers : req[u] # None =>
        /\ req[u].kind # "add" => req[u].saw \in Account /\ account[req[u].on] \in Account
        /\ req[u].kind = "role" => req[u].on # u

IInv == TypeOK /\ Times /\ LoginIsFresh /\ Seen /\ AccessExpires /\ AuthorityExpires

-----------------------------------------------------------------------------
(* Accounts.                                                               *)

LEMMA RowTypes ==
    ASSUME TypeOK, NEW u \in Users, account[u] # None
    PROVE  account[u] \in Account /\ account[u].role \in Role /\ account[u].active \in BOOLEAN
BY DEF TypeOK, Account

(* A request that is under way has a type, and names an address. *)
LEMMA RequestTypes ==
    ASSUME TypeOK, NEW u \in Browsers, req[u] # None
    PROVE  /\ req[u] \in Request
           /\ req[u].at \in Int
           /\ req[u].kind \in {"add", "deactivate", "role"}
           /\ req[u].on \in Users /\ req[u].role \in Role
BY DEF TypeOK, Request

LEMMA WrittenTypes ==
    ASSUME TypeOK, Seen, NEW u \in Browsers, req[u] # None
    PROVE  Written(req[u]) \in Account
<1> DEFINE q == req[u]
<1>0. q.kind \in {"add", "deactivate", "role"} /\ q.on \in Users /\ q.role \in Role
  BY RequestTypes
<1>1. CASE q.kind = "add"
  <2>1. CASE account[q.on] = None
    <3>1. Written(q) = [role |-> q.role, active |-> TRUE]
      BY <1>1, <2>1 DEF Written
    <3> QED  BY <1>0, <3>1 DEF Account
  <2>2. CASE account[q.on] # None
    <3>1. Written(q) = account[q.on]
      BY <1>1, <2>2 DEF Written
    <3> QED  BY <1>0, <2>2, <3>1, RowTypes
  <2> QED  BY <2>1, <2>2
<1>2. CASE q.kind = "deactivate"
  <2>1. q.saw \in Account /\ account[q.on] \in Account
    BY <1>2 DEF Seen
  <2>2. Written(q) = [account[q.on] EXCEPT !.active = @ /\ ~q.saw.active]
    BY <1>2 DEF Written
  <2> QED  BY <2>1, <2>2 DEF Account
<1>3. CASE q.kind = "role"
  <2>1. q.saw \in Account /\ account[q.on] \in Account
    BY <1>3 DEF Seen
  <2>2. Written(q) = [account[q.on] EXCEPT !.role = IF q.saw.role = q.role THEN @ ELSE q.role]
    BY <1>3 DEF Written
  <2> QED  BY <1>0, <2>1, <2>2 DEF Account
<1> QED  BY <1>0, <1>1, <1>2, <1>3

(* An account that is there stays there, whatever a step does. *)
LEMMA AccountsRemain ==
    ASSUME TypeOK, Seen, [Next]_vars, NEW u \in Users, account[u] \in Account
    PROVE  account'[u] \in Account
<1>1. ASSUME NEW m \in Browsers, Commit(m)
      PROVE  account'[u] \in Account
  <2>1. req[m].on \in Users /\ Written(req[m]) \in Account
    BY <1>1, RequestTypes, WrittenTypes DEF Commit
  <2>2. account' = [account EXCEPT ![req[m].on] = Written(req[m])]
    BY <1>1 DEF Commit
  <2> QED  BY <2>1, <2>2 DEF TypeOK
<1>2. CASE UNCHANGED account
  BY <1>2
<1>3. ASSUME NEW m \in Browsers, UserStep(m) \/ RequestStep(m), ~Commit(m)
      PROVE  UNCHANGED account
  BY <1>3 DEF UserStep, RequestStep, Find, Issue, Refuse, Logout, Begin, Drop
<1>4. CASE Tick \/ UNCHANGED vars
  BY <1>2, <1>4 DEF Tick, vars
<1> QED  BY <1>1, <1>2, <1>3, <1>4 DEF Next

-----------------------------------------------------------------------------
(* Types.                                                                  *)

LEMMA RememberTypes ==
    ASSUME TypeOK, clock' \in Int, Remember
    PROVE  wasActive' \in [Users -> Int] /\ wasManager' \in [Users -> Int]
BY DEF TypeOK, Remember

LEMMA UserTypes ==
    ASSUME TypeOK, NEW u \in Browsers, UserStep(u)
    PROVE  TypeOK'
<1>0. clock \in Int /\ u \in Users
  BY StaffAccessAssumption DEF TypeOK
<1>1. CASE Find(u)
  <2>1. account[u].role \in Role
    BY <1>0, <1>1, RowTypes DEF Find, Mine, IsActive
  <2>2. wasActive' \in [Users -> Int] /\ wasManager' \in [Users -> Int]
    BY <1>0, <1>1, RememberTypes DEF Find
  <2> QED  BY <1>1, <2>1, <2>2 DEF Find, TypeOK
<1>2. CASE Issue(u)
  <2>1. login[u] \in Role /\ clock + Life \in 0..MaxTime + Life
    BY <1>2, StaffAccessAssumption DEF Issue, TypeOK
  <2>2. [role |-> login[u], exp |-> Expiry(u)] \in Token
    BY <2>1 DEF Token, Expiry
  <2>3. wasActive' \in [Users -> Int] /\ wasManager' \in [Users -> Int]
    BY <1>0, <1>2, RememberTypes DEF Issue
  <2> QED  BY <1>2, <2>2, <2>3 DEF Issue, TypeOK
<1>3. CASE Refuse(u)
  <2>1. wasActive' \in [Users -> Int] /\ wasManager' \in [Users -> Int]
    BY <1>0, <1>3, RememberTypes DEF Refuse
  <2> QED  BY <1>3, <2>1 DEF Refuse, TypeOK
<1>4. CASE Logout(u)
  <2>1. wasActive' \in [Users -> Int] /\ wasManager' \in [Users -> Int]
    BY <1>0, <1>4, RememberTypes DEF Logout
  <2> QED  BY <1>4, <2>1 DEF Logout, TypeOK
<1> QED  BY <1>1, <1>2, <1>3, <1>4 DEF UserStep

LEMMA BeginTypes ==
    ASSUME TypeOK, NEW u \in Browsers, NEW kind \in {"add", "deactivate", "role"},
           NEW on \in Users, NEW role \in Role, Begin(u, kind, on, role)
    PROVE  TypeOK'
<1>1. clock \in Int /\ account[on] \in Account \cup {None}
  BY DEF TypeOK
<1>2. [at |-> clock, kind |-> kind, on |-> on, role |-> role, saw |-> account[on]] \in Request
  BY <1>1 DEF Request
<1>3. wasActive' \in [Users -> Int] /\ wasManager' \in [Users -> Int]
  BY <1>1, RememberTypes DEF Begin
<1> QED  BY <1>2, <1>3 DEF Begin, TypeOK

LEMMA TypeStep ==
    ASSUME TypeOK, Seen, [Next]_vars
    PROVE  TypeOK'
<1>0. clock \in Nat /\ MaxTime \in Nat
  BY StaffAccessAssumption DEF TypeOK
<1>1. CASE Tick
  <2>1. wasActive' \in [Users -> Int] /\ wasManager' \in [Users -> Int]
    BY <1>0, <1>1, RememberTypes DEF Tick
  <2> QED  BY <1>0, <1>1, <2>1 DEF Tick, TypeOK
<1>2. ASSUME NEW u \in Browsers, UserStep(u)
      PROVE  TypeOK'
  BY <1>2, UserTypes
<1>3. ASSUME NEW u \in Browsers, RequestStep(u)
      PROVE  TypeOK'
  <2>1. ASSUME NEW on \in Users, NEW kind \in {"add", "role"}, NEW role \in Role,
               Begin(u, kind, on, role)
        PROVE  TypeOK'
    BY <2>1, BeginTypes
  <2>2. ASSUME NEW on \in Users, Begin(u, "deactivate", on, "agent")
        PROVE  TypeOK'
    <3>1. "agent" \in Role
      BY DEF Role
    <3> QED  BY <2>2, <3>1, BeginTypes
  <2>3. CASE Drop(u)
    <3>1. wasActive' \in [Users -> Int] /\ wasManager' \in [Users -> Int]
      BY <1>0, <2>3, RememberTypes DEF Drop
    <3> QED  BY <2>3, <3>1 DEF Drop, TypeOK
  <2>4. CASE Commit(u)
    <3>1. Written(req[u]) \in Account
      BY <2>4, WrittenTypes DEF Commit
    <3>2. wasActive' \in [Users -> Int] /\ wasManager' \in [Users -> Int]
      BY <1>0, <2>4, RememberTypes DEF Commit
    <3> QED  BY <2>4, <3>1, <3>2 DEF Commit, TypeOK
  <2> QED  BY <1>3, <2>1, <2>2, <2>3, <2>4 DEF RequestStep
<1>4. CASE UNCHANGED vars
  BY <1>4 DEF vars, history, TypeOK
<1> QED  BY <1>1, <1>2, <1>3, <1>4 DEF Next

-----------------------------------------------------------------------------
(* Histories.                                                              *)

(* A step remembers what it leaves. *)
LEMMA RememberStep ==
    ASSUME TypeOK, TypeOK', Times, clock' >= clock, Remember
    PROVE  /\ Times'
           /\ \A u \in Users : wasActive'[u] >= wasActive[u] /\ wasManager'[u] >= wasManager[u]
<1>1. clock \in Int /\ clock' \in Int
  BY DEF TypeOK
<1> SUFFICES ASSUME NEW u \in Users
             PROVE  /\ wasActive'[u] >= wasActive[u] /\ wasManager'[u] >= wasManager[u]
                    /\ wasActive'[u] <= clock' /\ wasManager'[u] <= clock'
                    /\ IsActive(account'[u]) => wasActive'[u] = clock'
                    /\ IsManager(account'[u]) => wasManager'[u] = clock'
  BY DEF Times
<1>2. /\ wasActive[u] \in Int /\ wasManager[u] \in Int
      /\ wasActive[u] <= clock /\ wasManager[u] <= clock
  BY DEF TypeOK, Times
<1>3. /\ wasActive'[u] = IF IsActive(account'[u]) THEN clock' ELSE wasActive[u]
      /\ wasManager'[u] = IF IsManager(account'[u]) THEN clock' ELSE wasManager[u]
  BY DEF Remember
<1>4. /\ wasActive'[u] >= wasActive[u] /\ wasActive'[u] <= clock'
      /\ IsActive(account'[u]) => wasActive'[u] = clock'
  <2>1. CASE IsActive(account'[u])
    BY <1>1, <1>2, <1>3, <2>1
  <2>2. CASE ~IsActive(account'[u])
    BY <1>1, <1>2, <1>3, <2>2
  <2> QED  BY <2>1, <2>2
<1>5. /\ wasManager'[u] >= wasManager[u] /\ wasManager'[u] <= clock'
      /\ IsManager(account'[u]) => wasManager'[u] = clock'
  <2>1. CASE IsManager(account'[u])
    BY <1>1, <1>2, <1>3, <2>1
  <2>2. CASE ~IsManager(account'[u])
    BY <1>1, <1>2, <1>3, <2>2
  <2> QED  BY <2>1, <2>2
<1> QED  BY <1>4, <1>5

LEMMA HistoryStep ==
    ASSUME TypeOK, TypeOK', Times, [Next]_vars
    PROVE  /\ Times'
           /\ clock' >= clock
           /\ \A u \in Users : wasActive'[u] >= wasActive[u] /\ wasManager'[u] >= wasManager[u]
<1>1. clock \in Int
  BY DEF TypeOK
<1>2. CASE Next
  <2>1. Remember /\ clock' >= clock
    BY <1>1, <1>2 DEF Next, Tick, UserStep, RequestStep, Find, Issue, Refuse, Logout, Begin, Drop,
                      Commit
  <2> QED  BY <2>1, RememberStep
<1>3. CASE UNCHANGED vars
  <2>1. /\ UNCHANGED <<clock, account, wasActive, wasManager>>
        /\ \A u \in Users : wasActive[u] \in Int /\ wasManager[u] \in Int
    BY <1>3 DEF vars, history, TypeOK
  <2> QED  BY <1>1, <2>1 DEF Times
<1> QED  BY <1>2, <1>3

(* Only Tick moves the clock, and not while anybody logs in. *)
LEMMA ClockStep ==
    ASSUME [Next]_vars
    PROVE  clock' = clock \/ (\A u \in Browsers : login'[u] = None)
BY DEF Next, Tick, UserStep, RequestStep, Find, Issue, Refuse, Logout, Begin, Drop, Commit, vars

-----------------------------------------------------------------------------
(* Logins and tokens.                                                      *)

LEMMA LoginStep ==
    ASSUME TypeOK, TypeOK', Times, Times', LoginIsFresh, [Next]_vars
    PROVE  LoginIsFresh'
<1> SUFFICES ASSUME NEW u \in Browsers, login'[u] # None
             PROVE  wasActive'[u] = clock' /\ (login'[u] = "manager" => wasManager'[u] = clock')
  BY DEF LoginIsFresh
<1>0. u \in Users
  BY StaffAccessAssumption
<1>1. clock' = clock
  BY ClockStep
<1>2. /\ clock \in Int /\ wasActive[u] \in Int /\ wasManager[u] \in Int
      /\ wasActive'[u] \in Int /\ wasManager'[u] \in Int
      /\ wasActive'[u] >= wasActive[u] /\ wasManager'[u] >= wasManager[u]
      /\ wasActive'[u] <= clock /\ wasManager'[u] <= clock
  BY <1>0, <1>1, HistoryStep DEF TypeOK, Times
<1>3. CASE Find(u)
  <2>1. IsActive(account[u]) /\ login'[u] = account[u].role
    BY <1>3 DEF Find, Mine, TypeOK
  <2>2. wasActive[u] = clock /\ (login'[u] = "manager" => wasManager[u] = clock)
    BY <1>0, <2>1 DEF Times, IsManager
  <2> QED  BY <1>1, <1>2, <2>2
<1>4. CASE login'[u] = login[u]
  <2>1. wasActive[u] = clock /\ (login'[u] = "manager" => wasManager[u] = clock)
    BY <1>4 DEF LoginIsFresh
  <2> QED  BY <1>1, <1>2, <2>1
<1>5. Find(u) \/ login'[u] = login[u]
  <2>1. ASSUME NEW m \in Browsers, Find(m) \/ Issue(m) \/ Refuse(m), ~Find(u)
        PROVE  login'[u] = login[u]
    BY <2>1 DEF Find, Issue, Refuse, TypeOK
  <2>2. ASSUME NEW m \in Browsers, Logout(m) \/ RequestStep(m)
        PROVE  login'[u] = login[u]
    BY <2>2 DEF Logout, RequestStep, Begin, Drop, Commit
  <2>3. CASE Tick \/ UNCHANGED vars
    BY <2>3 DEF Tick, vars
  <2> QED  BY <2>1, <2>2, <2>3 DEF Next, UserStep
<1> QED  BY <1>3, <1>4, <1>5

LEMMA TokenStep ==
    ASSUME TypeOK, TypeOK', Times, LoginIsFresh, AccessExpires, [Next]_vars
    PROVE  AccessExpires'
<1> SUFFICES ASSUME NEW u \in Browsers, token'[u] # None
             PROVE  /\ token'[u].exp <= wasActive'[u] + Life
                    /\ token'[u].role = "manager" => token'[u].exp <= wasManager'[u] + Life
  BY DEF AccessExpires
<1>0. u \in Users /\ Life \in Int /\ MaxTime \in Int
  BY StaffAccessAssumption
<1>1. /\ clock \in Int /\ wasActive[u] \in Int /\ wasManager[u] \in Int
      /\ wasActive'[u] \in Int /\ wasManager'[u] \in Int
      /\ wasActive'[u] >= wasActive[u] /\ wasManager'[u] >= wasManager[u]
  BY <1>0, HistoryStep DEF TypeOK
<1>2. CASE Issue(u)
  <2>1. login[u] # None /\ token'[u] = [role |-> login[u], exp |-> clock + Life]
    BY <1>2 DEF Issue, Expiry, TypeOK
  <2>2. wasActive[u] = clock /\ (login[u] = "manager" => wasManager[u] = clock)
    BY <2>1 DEF LoginIsFresh
  <2> QED  BY <1>0, <1>1, <2>1, <2>2
<1>3. CASE token'[u] = token[u]
  <2>1. token[u].exp \in Int
    BY <1>0, <1>3 DEF TypeOK, Token
  <2>2. /\ token[u].exp <= wasActive[u] + Life
        /\ token[u].role = "manager" => token[u].exp <= wasManager[u] + Life
    BY <1>3 DEF AccessExpires
  <2> QED  BY <1>0, <1>1, <1>3, <2>1, <2>2
<1>4. Issue(u) \/ token'[u] = token[u]
  <2>1. ASSUME NEW m \in Browsers, Issue(m) \/ Logout(m), ~Issue(u)
        PROVE  token'[u] = token[u]
    BY <2>1 DEF Issue, Logout, TypeOK
  <2>2. ASSUME NEW m \in Browsers, Find(m) \/ Refuse(m) \/ RequestStep(m)
        PROVE  token'[u] = token[u]
    BY <2>2 DEF Find, Refuse, RequestStep, Begin, Drop, Commit
  <2>3. CASE Tick \/ UNCHANGED vars
    BY <2>3 DEF Tick, vars
  <2> QED  BY <2>1, <2>2, <2>3 DEF Next, UserStep
<1> QED  BY <1>2, <1>3, <1>4

-----------------------------------------------------------------------------
(* Requests.                                                               *)

(* A request of a user in the next state is one that begins, or one that   *)
(* is under way already.                                                   *)
LEMMA RequestCases ==
    ASSUME TypeOK, [Next]_vars, NEW u \in Browsers, req'[u] # None
    PROVE  \/ req'[u] = req[u]
           \/ \E kind \in {"add", "deactivate", "role"}, on \in Users, role \in Role :
                 Begin(u, kind, on, role)
<1>1. ASSUME NEW m \in Browsers, RequestStep(m), m # u
      PROVE  req'[u] = req[u]
  BY <1>1 DEF RequestStep, Begin, Drop, Commit, TypeOK
<1>2. CASE RequestStep(u)
  <2>1. ~Drop(u) /\ ~Commit(u)
    BY DEF Drop, Commit, TypeOK
  <2>2. "agent" \in Role
    BY DEF Role
  <2> QED  BY <1>2, <2>1, <2>2 DEF RequestStep
<1>3. ASSUME NEW m \in Browsers, UserStep(m)
      PROVE  req'[u] = req[u]
  BY <1>3 DEF UserStep, Find, Issue, Refuse, Logout
<1>4. CASE Tick \/ UNCHANGED vars
  BY <1>4 DEF Tick, vars
<1> QED  BY <1>1, <1>2, <1>3, <1>4 DEF Next

LEMMA SeenStep ==
    ASSUME TypeOK, TypeOK', Seen, [Next]_vars
    PROVE  Seen'
<1> SUFFICES ASSUME NEW u \in Browsers, req'[u] # None
             PROVE  /\ req'[u].kind # "add" => /\ req'[u].saw \in Account
                                               /\ account'[req'[u].on] \in Account
                    /\ req'[u].kind = "role" => req'[u].on # u
  BY DEF Seen
<1>1. CASE req'[u] = req[u]
  <2>1. req[u].on \in Users
    BY <1>1, RequestTypes
  <2>2. /\ req[u].kind # "add" => req[u].saw \in Account /\ account[req[u].on] \in Account
        /\ req[u].kind = "role" => req[u].on # u
    BY <1>1 DEF Seen
  <2>3. req[u].kind # "add" => account'[req[u].on] \in Account
    BY <2>1, <2>2, AccountsRemain
  <2> QED  BY <1>1, <2>2, <2>3
<1>2. ASSUME NEW kind \in {"add", "deactivate", "role"}, NEW on \in Users, NEW role \in Role,
             Begin(u, kind, on, role)
      PROVE  /\ req'[u].kind # "add" => /\ req'[u].saw \in Account
                                        /\ account'[req'[u].on] \in Account
             /\ req'[u].kind = "role" => req'[u].on # u
  <2>1. /\ req'[u] = [at |-> clock, kind |-> kind, on |-> on, role |-> role, saw |-> account[on]]
        /\ Proceeds(u, kind, on) /\ account' = account
    BY <1>2 DEF Begin, TypeOK
  <2>2. kind # "add" => account[on] # None
    BY <2>1 DEF Proceeds
  <2>3. kind # "add" => account[on] \in Account
    BY <2>2, RowTypes
  <2>4. kind = "role" => on # u
    BY <2>1 DEF Proceeds
  <2> QED  BY <2>1, <2>3, <2>4
<1> QED  BY <1>1, <1>2, RequestCases

LEMMA AuthorityStep ==
    ASSUME TypeOK, TypeOK', Times, AccessExpires, AuthorityExpires, [Next]_vars
    PROVE  AuthorityExpires'
<1> SUFFICES ASSUME NEW u \in Browsers, req'[u] # None
             PROVE  req'[u].at < wasManager'[u] + Life
  BY DEF AuthorityExpires
<1>0. u \in Users /\ Life \in Int /\ MaxTime \in Int
  BY StaffAccessAssumption
<1>1. /\ clock \in Int /\ wasManager[u] \in Int /\ wasManager'[u] \in Int
      /\ wasManager'[u] >= wasManager[u]
  BY <1>0, HistoryStep DEF TypeOK
<1>2. CASE req'[u] = req[u]
  <2>1. req[u].at \in Int /\ req[u].at < wasManager[u] + Life
    BY <1>2, RequestTypes DEF AuthorityExpires
  <2> QED  BY <1>0, <1>1, <1>2, <2>1
<1>3. ASSUME NEW kind \in {"add", "deactivate", "role"}, NEW on \in Users, NEW role \in Role,
             Begin(u, kind, on, role)
      PROVE  req'[u].at < wasManager'[u] + Life
  <2>1. req'[u].at = clock /\ token[u] # None /\ clock < token[u].exp /\ token[u].role = "manager"
    BY <1>3 DEF Begin, MayManage, LoggedIn, TypeOK
  <2>2. token[u].exp \in Int /\ token[u].exp <= wasManager[u] + Life
    BY <1>0, <2>1 DEF AccessExpires, TypeOK, Token
  <2> QED  BY <1>0, <1>1, <2>1, <2>2
<1> QED  BY <1>2, <1>3, RequestCases

-----------------------------------------------------------------------------
(* The theorems.                                                           *)

LEMMA IInvInit == Init => IInv
<1> SUFFICES ASSUME Init
             PROVE  IInv
  OBVIOUS
<1> USE StaffAccessAssumption
<1>1. /\ clock \in 0..MaxTime /\ Never \in Int /\ Never <= 0
      /\ [role |-> "manager", active |-> TRUE] \in Account
  BY DEF Init, Never, Account, Role
<1>2. TypeOK
  BY <1>1 DEF Init, TypeOK
<1>3. Times
  <2> SUFFICES ASSUME NEW u \in Users
               PROVE  /\ wasActive[u] <= 0 /\ wasManager[u] = wasActive[u]
                      /\ IsActive(account[u]) => wasActive[u] = 0
    BY DEF Init, Times, IsManager
  <2> QED  BY <1>1 DEF Init, IsActive
<1>4. LoginIsFresh /\ Seen /\ AccessExpires /\ AuthorityExpires
  BY DEF Init, LoginIsFresh, Seen, AccessExpires, AuthorityExpires
<1> QED  BY <1>2, <1>3, <1>4 DEF IInv

LEMMA IInvStep ==
    ASSUME IInv, [Next]_vars
    PROVE  IInv'
<1>1. TypeOK /\ TypeOK' /\ Times /\ Times'
  BY TypeStep, HistoryStep DEF IInv
<1>2. LoginIsFresh' /\ AccessExpires'
  BY <1>1, LoginStep, TokenStep DEF IInv
<1>3. Seen' /\ AuthorityExpires'
  BY <1>1, SeenStep, AuthorityStep DEF IInv
<1> QED  BY <1>1, <1>2, <1>3 DEF IInv

(* The invariant is inductive: every reachable state has it. *)
THEOREM InductiveInvariant == Spec => []IInv
BY IInvInit, IInvStep, PTL DEF Spec

(* Every variable stays in its range: no account disappears under a        *)
(* request, and no token lives longer than its hours.                      *)
THEOREM StaffTypes == Spec => []TypeOK
<1>1. IInv => TypeOK
  BY DEF IInv
<1> QED  BY <1>1, InductiveInvariant, PTL

(* A deactivated or demoted user is out after the life of a token.         *)
THEOREM TokensRunOut == Spec => []AccessExpires
<1>1. IInv => AccessExpires
  BY DEF IInv
<1> QED  BY <1>1, InductiveInvariant, PTL

(* And so is his authority over the accounts of others.                    *)
THEOREM AuthorityRunsOut == Spec => []AuthorityExpires
<1>1. IInv => AuthorityExpires
  BY DEF IInv
<1> QED  BY <1>1, InductiveInvariant, PTL

(* No interleaving of changes brings a deactivated account back.           *)
THEOREM DeactivationIsFinal == Spec => DeactivationStays
<1>1. IInv /\ [Next]_vars =>
         [\A u \in Users : account[u] # None /\ ~account[u].active =>
                               account'[u] # None /\ ~account'[u].active]_vars
  <2> SUFFICES ASSUME IInv, [Next]_vars, NEW u \in Users, account[u] # None, ~account[u].active
               PROVE  account'[u] # None /\ ~account'[u].active
    OBVIOUS
  <2>0. TypeOK /\ Seen /\ account[u] \in Account
    BY RowTypes DEF IInv
  <2>1. account'[u] # None
    BY <2>0, AccountsRemain, StaffAccessAssumption
  <2>2. CASE UNCHANGED account
    BY <2>2
  <2>3. ASSUME NEW m \in Browsers, Commit(m)
        PROVE  ~account'[u].active
    <3>1. req[m] # None /\ account' = [account EXCEPT ![req[m].on] = Written(req[m])]
      BY <2>3 DEF Commit
    <3>2. CASE req[m].on # u
      BY <2>0, <3>1, <3>2 DEF TypeOK
    <3>3. CASE req[m].on = u
      <4>1. account'[u] = Written(req[m])
        BY <2>0, <3>1, <3>3 DEF TypeOK
      <4>2. CASE req[m].kind = "add"
        BY <3>3, <4>1, <4>2 DEF Written
      <4>3. CASE req[m].kind = "deactivate"
        BY <2>0, <3>3, <4>1, <4>3 DEF Written, Account
      <4>4. CASE req[m].kind = "role"
        BY <2>0, <3>3, <4>1, <4>4 DEF Written, Account
      <4> QED  BY <2>0, <3>1, <4>2, <4>3, <4>4, RequestTypes
    <3> QED  BY <3>2, <3>3
  <2>4. ASSUME NEW m \in Browsers, UserStep(m) \/ RequestStep(m), ~Commit(m)
        PROVE  UNCHANGED account
    BY <2>4 DEF UserStep, RequestStep, Find, Issue, Refuse, Logout, Begin, Drop
  <2>5. CASE Tick \/ UNCHANGED vars
    BY <2>2, <2>5 DEF Tick, vars
  <2> QED  BY <2>1, <2>2, <2>3, <2>4, <2>5 DEF Next
<1> QED  BY <1>1, InductiveInvariant, PTL DEF Spec, DeactivationStays

(* A role changes only by the request of another user for that change.     *)
THEOREM NobodyPromotesHimself == Spec => OthersGiveRoles
<1>1. IInv /\ [Next]_vars =>
         [\A u \in Users : account[u] # None /\ account'[u].role # account[u].role =>
             \E m \in Browsers \ {u} : /\ req[m] # None /\ req'[m] = None
                                     /\ req[m].kind = "role" /\ req[m].on = u]_vars
  <2> SUFFICES ASSUME IInv, [Next]_vars, NEW u \in Users, account[u] # None,
                      account'[u].role # account[u].role
               PROVE  \E m \in Browsers \ {u} : /\ req[m] # None /\ req'[m] = None
                                              /\ req[m].kind = "role" /\ req[m].on = u
    OBVIOUS
  <2>0. TypeOK /\ Seen /\ account[u] \in Account
    BY RowTypes DEF IInv
  <2>1. \E m \in Browsers : Commit(m)
    <3>1. ASSUME NEW m \in Browsers, UserStep(m) \/ RequestStep(m), ~Commit(m)
          PROVE  UNCHANGED account
      BY <3>1 DEF UserStep, RequestStep, Find, Issue, Refuse, Logout, Begin, Drop
    <3>2. CASE Tick \/ UNCHANGED vars
      BY <3>2 DEF Tick, vars
    <3> QED  BY <3>1, <3>2 DEF Next
  <2>2. PICK m \in Browsers : Commit(m)
    BY <2>1
  <2>3. /\ req[m] # None /\ req'[m] = None
        /\ account' = [account EXCEPT ![req[m].on] = Written(req[m])]
    BY <2>0, <2>2 DEF Commit, TypeOK
  <2>4. req[m].on = u /\ account'[u] = Written(req[m])
    BY <2>0, <2>3 DEF TypeOK
  <2>5. CASE req[m].kind = "add"
    BY <2>4, <2>5 DEF Written
  <2>6. CASE req[m].kind = "deactivate"
    BY <2>0, <2>4, <2>6 DEF Written, Account
  <2>7. CASE req[m].kind = "role"
    <3>1. m # u
      BY <2>0, <2>3, <2>4, <2>7 DEF Seen
    <3> QED  BY <2>3, <2>4, <2>7, <3>1
  <2> QED  BY <2>0, <2>3, <2>5, <2>6, <2>7, RequestTypes
<1> QED  BY <1>1, InductiveInvariant, PTL DEF Spec, OthersGiveRoles

-----------------------------------------------------------------------------
(* Push devices.                                                           *)

(* Of the rows that the scan has read, each waits, has raised or has been  *)
(* shown; a browser was told by one that neither waits nor has raised.     *)
PushInv ==
    /\ Push!TypeOK
    /\ scan = "idle" => asked = {}
    /\ scan # "marked" => ~notified
    /\ scan \in {"mark", "marked"} => left = {}
    /\ left \cap refused = {}
    /\ \A r \in asked : r \in left \/ r \in refused \/ told[r[2]] > 0
    /\ \A b \in Devices : told[b] > 0 =>
          \E r \in asked : r[2] = b /\ r \notin left /\ r \notin refused
    /\ scan = "mark" => Push!Succeeded
    /\ scan = "marked" => (notified <=> Push!Succeeded)

LEMMA PushStarts ==
    ASSUME Push!Init
    PROVE  PushInv
<1>1. Push!TypeOK  BY DEF Push!Init, Push!TypeOK
<1>2. /\ scan = "idle" /\ asked = {} /\ left = {} /\ refused = {} /\ notified = FALSE
      /\ \A b \in Devices : ~(told[b] > 0)
  BY DEF Push!Init
<1> QED  BY <1>1, <1>2 DEF PushInv

LEMMA SendKeeps ==
    ASSUME PushInv, NEW r \in left, Push!Push(r)
    PROVE  PushInv'
<1>1. /\ scan = "push" /\ scan' = "push" /\ asked' = asked /\ rows' = rows /\ notified' = notified
      /\ user' = user /\ request' = request /\ gone' = gone /\ left' = left \ {r}
  BY DEF Push!Push, Push!staffVars, Push!Pushed, Push!Raised
<1>2. /\ r \in asked /\ r \in rows /\ r[2] \in Devices /\ told \in [Devices -> Nat]
      /\ r \notin refused /\ left \subseteq asked /\ asked \subseteq Users \X Devices
  BY DEF PushInv, Push!TypeOK
<1>3. CASE Push!Pushed(r)
  <2>1. told' = [told EXCEPT ![r[2]] = @ + 1] /\ refused' = refused
    BY <1>3 DEF Push!Pushed
  <2>2. told' \in [Devices -> Nat] /\ told'[r[2]] > 0
        /\ \A b \in Devices : b # r[2] => told'[b] = told[b]
    BY <1>2, <2>1
  <2>3. Push!TypeOK'  BY <1>1, <2>1, <2>2 DEF PushInv, Push!TypeOK
  <2>4. ASSUME NEW q \in asked  PROVE q \in left' \/ q \in refused' \/ told'[q[2]] > 0
    <3>1. q[2] \in Devices  BY <1>2
    <3> QED  BY <1>1, <2>1, <2>2, <3>1 DEF PushInv
  <2>5. ASSUME NEW b \in Devices, told'[b] > 0
        PROVE  \E q \in asked : q[2] = b /\ q \notin left' /\ q \notin refused'
    <3>1. CASE b = r[2]  BY <1>1, <1>2, <2>1, <3>1
    <3>2. CASE b # r[2]
      <4>1. told[b] > 0  BY <2>2, <2>5, <3>2
      <4> QED  BY <1>1, <2>1, <4>1 DEF PushInv
    <3> QED  BY <3>1, <3>2
  <2> QED  BY <1>1, <2>1, <2>3, <2>4, <2>5 DEF PushInv
<1>4. CASE Push!Raised(r)
  <2>1. told' = told /\ refused' = refused \cup {r}  BY <1>4 DEF Push!Raised
  <2>2. Push!TypeOK'  BY <1>1, <1>2, <2>1 DEF PushInv, Push!TypeOK
  <2>3. ASSUME NEW b \in Devices, told[b] > 0
        PROVE  \E q \in asked : q[2] = b /\ q \notin left' /\ q \notin refused'
    <3>1. PICK q \in asked : q[2] = b /\ q \notin left /\ q \notin refused
      BY <2>3 DEF PushInv
    <3> QED  BY <1>1, <2>1, <3>1
  <2> QED  BY <1>1, <2>1, <2>2, <2>3 DEF PushInv
<1> QED  BY <1>3, <1>4 DEF Push!Push

LEMMA PushStep ==
    ASSUME PushInv, [Push!Next]_deviceVars
    PROVE  PushInv'
<1>1. ASSUME NEW b \in Devices, NEW u \in Users, Push!LogIn(b, u)  PROVE PushInv'
  BY <1>1 DEF Push!LogIn, PushInv, Push!TypeOK, Push!scanVars, Push!Succeeded
<1>2. ASSUME NEW b \in Devices, Push!Subscribe(b)  PROVE PushInv'
  BY <1>2 DEF Push!Subscribe, PushInv, Push!TypeOK, Push!scanVars, Push!Succeeded
<1>3. ASSUME NEW b \in Devices, Push!Insert(b)  PROVE PushInv'
  <2>1. request[b] \in Users  BY <1>3 DEF Push!Insert, PushInv, Push!TypeOK
  <2>2. rows' = rows \cup {<<request[b], b>>} /\ request' \in [Devices -> Users \cup {None}]
    BY <1>3 DEF Push!Insert, PushInv, Push!TypeOK
  <2> QED  BY <1>3, <2>1, <2>2 DEF Push!Insert, PushInv, Push!TypeOK, Push!scanVars, Push!Succeeded
<1>4. ASSUME NEW b \in Devices, Push!Expire(b)  PROVE PushInv'
  BY <1>4 DEF Push!Expire, PushInv, Push!TypeOK, Push!staffVars, Push!scanVars, Push!Succeeded
<1>5. CASE Push!Read
  <2>1. /\ scan = "idle" /\ scan' = "push" /\ left' = rows /\ asked' = rows /\ refused = {}
        /\ UNCHANGED <<user, request, rows, gone, refused, told, notified>>
    BY <1>5 DEF Push!Read, Push!staffVars, PushInv, Push!TypeOK
  <2>2. \A b \in Devices : ~(told[b] > 0)
    BY <2>1 DEF PushInv
  <2> QED  BY <2>1, <2>2 DEF PushInv, Push!TypeOK
<1>6. ASSUME NEW r \in left, Push!Push(r)  PROVE PushInv'
  BY <1>6, SendKeeps
<1>7. CASE Push!EndOfLoop
  BY <1>7 DEF Push!EndOfLoop, PushInv, Push!TypeOK, Push!staffVars, Push!Succeeded
<1>8. CASE Push!Mark
  BY <1>8 DEF Push!Mark, PushInv, Push!TypeOK, Push!staffVars, Push!Succeeded
<1>9. CASE UNCHANGED deviceVars
  BY <1>9 DEF deviceVars, PushInv, Push!TypeOK, Push!Succeeded
<1> QED  BY <1>1, <1>2, <1>3, <1>4, <1>5, <1>6, <1>7, <1>8, <1>9 DEF Push!Next

LEMMA StaffParts ==
    /\ MCInit => Init /\ Push!Init
    /\ [MCNext]_<<part, vars, deviceVars>> => [Next]_vars /\ [Push!Next]_deviceVars
  BY DEF MCInit, MCNext

LEMMA PushInvariant == MCSpec => []PushInv
<1>1. MCInit => PushInv  BY StaffParts, PushStarts
<1>2. PushInv /\ [MCNext]_<<part, vars, deviceVars>> => PushInv'
  BY StaffParts, PushStep
<1> QED  BY <1>1, <1>2, PTL DEF MCSpec

(* The scan's loop over push_subscriptions: a browser that was subscribed  *)
(* is told unless its own push raised, whoever subscribes meanwhile and    *)
(* whatever other pushes do, and push_notified_at is set if and only if    *)
(* some browser was told.                                                  *)
THEOREM PushesAreHonestlyMarked == MCSpec => []PushesAreHonest
<1>1. PushInv => Push!EveryDeviceIsTold
  BY DEF PushInv, Push!EveryDeviceIsTold
<1>2. PushInv => Push!NotifiedWhenTold
  <2> SUFFICES ASSUME PushInv, scan = "marked"
               PROVE  Push!Succeeded <=> \E b \in Devices : told[b] > 0
    BY DEF PushInv, Push!NotifiedWhenTold
  <2>1. left = {} /\ refused \subseteq asked /\ asked \subseteq Users \X Devices
    BY DEF PushInv, Push!TypeOK
  <2>2. ASSUME Push!Succeeded  PROVE \E b \in Devices : told[b] > 0
    <3>1. PICK r \in asked : r \notin refused  BY <2>1, <2>2 DEF Push!Succeeded
    <3>2. told[r[2]] > 0 /\ r[2] \in Devices  BY <2>1, <3>1 DEF PushInv
    <3> QED  BY <3>2
  <2>3. ASSUME NEW b \in Devices, told[b] > 0  PROVE Push!Succeeded
    BY <2>3 DEF PushInv, Push!Succeeded
  <2> QED  BY <2>2, <2>3
<1>3. PushInv => PushesAreHonest  BY <1>1, <1>2 DEF PushesAreHonest
<1> QED  BY <1>3, PushInvariant, PTL

(* Every variable stays in its range, for any staff and any browsers.      *)
THEOREM StaffAndDeviceTypes == MCSpec => []Types
<1>1. MCInit => IInv  BY StaffParts, IInvInit
<1>2. IInv /\ [MCNext]_<<part, vars, deviceVars>> => IInv'
  BY StaffParts, IInvStep
<1>3. IInv /\ PushInv => Types  BY DEF IInv, PushInv, Types
<1> QED  BY <1>1, <1>2, <1>3, PushInvariant, PTL DEF MCSpec
=============================================================================
