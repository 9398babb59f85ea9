--------------------------- MODULE AccountsProofs ---------------------------
(***************************************************************************)
(* Proofs about Accounts for any set of users, any number of browsers and  *)
(* any bound on the log: an administrator stays active, and the users      *)
(* table and the custody log agree.                                        *)
(***************************************************************************)
EXTENDS Accounts, TLAPS

(* A call under way was made for an account that exists, and what it        *)
(* remembers of the role still holds: accounts are not deleted and roles do *)
(* not change.  The active flag it may have read is not part of this.       *)
CallInv == \A b \in Browser :
              /\ call[b].op = "setActive" =>
                    /\ Exists(call[b].user)
                    /\ call[b].isAdmin = IsAdmin(call[b].user)
              /\ call[b].op = "signIn" => Exists(call[b].user)

AdminInv == TypeOK /\ CallInv /\ SomeAdminRemains

(* The row of a new account is a row, so it is not taken for a missing one. *)
LEMMA NewRow ==
  ASSUME NEW role \in Role
  PROVE  [role |-> role, active |-> TRUE] # Nobody
<1>1. [role |-> role, active |-> TRUE] \in Row
  BY DEF Row
<1> QED BY <1>1, NobodyAssumption

(* Initially there is no account at all.                                    *)
LEMMA AdminInvInit == Init => AdminInv
BY NobodyAssumption
   DEF Init, AdminInv, TypeOK, CallInv, SomeAdminRemains, Exists, IsAdmin, Idle, Row, Entry

(* Appending an entry of the right type keeps the log well typed.           *)
LEMMA LogTyped ==
  ASSUME TypeOK, NEW action \in {"user_created", "user_login", "user_deactivated",
                                 "user_reactivated"},
         NEW u \in User, NEW actor \in User, Log(action, u, actor)
  PROVE  log' \in Seq(Entry)
BY DEF TypeOK, Log, Entry

(* Every operation keeps the invariant; only a new account and a change of  *)
(* status touch the users table.                                            *)
LEMMA AdminInvNext == AdminInv /\ [Next]_vars => AdminInv'
<1> SUFFICES ASSUME AdminInv, [Next]_vars
             PROVE  AdminInv'
  OBVIOUS
<1> USE NobodyAssumption DEF AdminInv
<1>1. ASSUME NEW u \in User, NEW actor \in User, NEW role \in Role, CreateUser(u, role, actor)
      PROVE  AdminInv'
  <2>1. TypeOK'
    BY <1>1, LogTyped DEF CreateUser, TypeOK, Row
  <2>2. /\ users' = [users EXCEPT ![u] = [role |-> role, active |-> TRUE]]
        /\ users[u] = Nobody /\ UNCHANGED call
    BY <1>1 DEF CreateUser, Exists
  <2>3. [role |-> role, active |-> TRUE] # Nobody
    BY NewRow
  <2>4. CallInv'
    BY <2>2, <2>3 DEF CallInv, Exists, IsAdmin, TypeOK
  <2>5. SomeAdminRemains'
    BY <2>2, <2>3 DEF SomeAdminRemains, ActiveAdmins, Exists, IsAdmin, TypeOK
  <2> QED BY <2>1, <2>4, <2>5
<1>2. ASSUME NEW b \in Browser, NEW u \in User, SignInRead(b, u)
      PROVE  AdminInv'
  BY <1>2 DEF SignInRead, TypeOK, SignIn, CallInv, SomeAdminRemains, ActiveAdmins, IsAdmin, Exists
<1>3. ASSUME NEW b \in Browser, SignInFails(b) \/ SetActiveFails(b)
      PROVE  AdminInv'
  BY <1>3 DEF SignInFails, SetActiveFails, Done, Idle, TypeOK, CallInv, SomeAdminRemains,
              ActiveAdmins, IsAdmin, Exists
<1>4. ASSUME NEW b \in Browser, SignInLog(b)
      PROVE  AdminInv'
  <2>1. call[b].user \in User
    BY <1>4 DEF SignInLog, TypeOK, SignIn, Change, Idle
  <2>2. log' \in Seq(Entry)
    BY <1>4, <2>1, LogTyped DEF SignInLog
  <2> QED BY <1>4, <2>1, <2>2 DEF SignInLog, Done, Idle, TypeOK, CallInv, SomeAdminRemains,
                                  ActiveAdmins, IsAdmin, Exists
<1>5. ASSUME NEW b \in Browser, SignOut(b)
      PROVE  AdminInv'
  BY <1>5 DEF SignOut, TypeOK, CallInv, SomeAdminRemains, ActiveAdmins, IsAdmin, Exists
<1>6. ASSUME NEW b \in Browser, NEW u \in User, NEW active \in BOOLEAN, LookUp(b, u, active)
      PROVE  AdminInv'
  <2>1. session[b] \in User
    BY <1>6 DEF LookUp, TypeOK
  <2>2. IsAdmin(u) \in BOOLEAN
    BY DEF IsAdmin
  <2>3. call' \in [Browser -> SignIn \cup Change \cup {Idle}]
    BY <1>6, <2>1, <2>2 DEF LookUp, TypeOK, Change
  <2>4. CallInv'
    BY <1>6, <2>1, <2>2 DEF LookUp, CallInv, IsAdmin, Exists, TypeOK
  <2> QED BY <1>6, <2>3, <2>4 DEF LookUp, TypeOK, SomeAdminRemains, ActiveAdmins, IsAdmin, Exists
<1>7. ASSUME NEW b \in Browser, SetActive(b)
      PROVE  AdminInv'
  <2> DEFINE u == call[b].user  active == call[b].active
  <2>1. call[b] \in Change
    BY <1>7 DEF SetActive, TypeOK, SignIn, Idle
  <2>2. /\ u \in User /\ active \in BOOLEAN /\ call[b].actor \in User
        /\ Exists(u) /\ call[b].isAdmin = IsAdmin(u)
    BY <1>7, <2>1 DEF SetActive, Change, CallInv
  <2>3. users[u] \in Row
    BY <2>2 DEF TypeOK, Exists
  <2>4. users' = [users EXCEPT ![u] = [users[u] EXCEPT !.active = active]]
    BY <1>7, <2>2 DEF SetActive, WithStatus, TypeOK
  <2>5. /\ users'[u] \in Row
        /\ users'[u].role = users[u].role /\ users'[u].active = active
    BY <2>2, <2>3, <2>4 DEF TypeOK, Row
  <2>6. users' \in [User -> Row \cup {Nobody}]
    BY <2>2, <2>4, <2>5 DEF TypeOK
  <2>7. users'[u] # Nobody
    BY <2>5, NobodyAssumption
  <2>8. log' \in Seq(Entry)
    BY <1>7, <2>2, LogTyped DEF SetActive, StatusAction
  <2>9. TypeOK'
    BY <1>7, <2>6, <2>8 DEF SetActive, Done, TypeOK
  <2>10. \A v \in User : Exists(v)' = Exists(v) /\ IsAdmin(v)' = IsAdmin(v)
    BY <2>2, <2>4, <2>5, <2>7 DEF Exists, IsAdmin, TypeOK
  <2>11. CallInv'
    BY <1>7, <2>10, <2>9 DEF SetActive, Done, Idle, CallInv, TypeOK, SignIn, Change
  <2>12. SomeAdminRemains'
    <3>1. CASE active
      <4>1. \A v \in ActiveAdmins : v \in ActiveAdmins'
        BY <2>2, <2>4, <2>5, <2>10, <3>1 DEF ActiveAdmins, TypeOK
      <4> QED BY <4>1, <2>10 DEF SomeAdminRemains
    <3>2. CASE ~active /\ IsAdmin(u)
      <4>1. PICK v \in ActiveAdmins \ {u} : TRUE
        BY <1>7, <2>2, <3>2 DEF SetActive, OtherActiveAdmins
      <4>2. v \in ActiveAdmins'
        BY <4>1, <2>2, <2>4, <2>10 DEF ActiveAdmins, TypeOK
      <4> QED BY <4>2 DEF SomeAdminRemains
    <3>3. CASE ~active /\ ~IsAdmin(u)
      <4>1. \A v \in ActiveAdmins : v # u /\ v \in ActiveAdmins'
        BY <2>2, <2>4, <2>10, <3>3 DEF ActiveAdmins, TypeOK
      <4> QED BY <4>1, <2>10 DEF SomeAdminRemains
    <3> QED BY <3>1, <3>2, <3>3, <2>2
  <2> QED BY <2>9, <2>11, <2>12
<1>8. CASE UNCHANGED vars
  BY <1>8 DEF vars, TypeOK, CallInv, SomeAdminRemains, ActiveAdmins, IsAdmin, Exists
<1> QED BY <1>1, <1>2, <1>3, <1>4, <1>5, <1>6, <1>7, <1>8 DEF Next

(* Once a workspace has an administrator, one of its administrators is      *)
(* active in every later state, whatever set_user_active calls overlap.     *)
THEOREM AdminAlwaysActive == Spec => []SomeAdminRemains
<1>1. AdminInv => SomeAdminRemains
  BY DEF AdminInv
<1> QED BY AdminInvInit, AdminInvNext, <1>1, PTL DEF Spec

(* The accounts, sessions, calls and log keep their types.                  *)
THEOREM AccountsTyped == Spec => []TypeOK
<1>1. AdminInv => TypeOK
  BY DEF AdminInv
<1> QED BY AdminInvInit, AdminInvNext, <1>1, PTL DEF Spec

-----------------------------------------------------------------------------
(* What one more entry does to whom the log lets in.                        *)
LEMMA ActiveByStep ==
  ASSUME log \in Seq(Entry),
         NEW action, NEW v \in User, NEW actor \in User, NEW u \in User,
         Log(action, v, actor)
  PROVE  ActiveBy(u, Len(log))' <=>
            \/ v = u /\ action \in {"user_created", "user_reactivated"}
            \/ ~(v = u /\ action = "user_deactivated") /\ ActiveBy(u, Len(log))
<1> DEFINE e == [action |-> action, user |-> v, actor |-> actor]
           n == Len(log)
<1>1. /\ n \in Nat /\ Len(log') = n + 1
      /\ \A i \in 1..n : log'[i] = log[i]
      /\ log'[n + 1] = e
  BY DEF Log
<1>2. e.action = action /\ e.user = v
  OBVIOUS
<1> HIDE DEF e, n
<1>3. ASSUME v = u /\ action \in {"user_created", "user_reactivated"}
      PROVE  ActiveBy(u, Len(log))'
  <2>1. /\ n + 1 \in 1..(n + 1)
        /\ log'[n + 1].user = u /\ log'[n + 1].action \in {"user_created", "user_reactivated"}
        /\ \A j \in (n + 2)..(n + 1) : FALSE
    BY <1>1, <1>2, <1>3
  <2> QED BY <1>1, <2>1 DEF ActiveBy
<1>4. ASSUME ~(v = u /\ action = "user_deactivated"), ActiveBy(u, n)
      PROVE  ActiveBy(u, Len(log))'
  <2>1. PICK i \in 1..n : /\ log[i].user = u
                          /\ log[i].action \in {"user_created", "user_reactivated"}
                          /\ \A j \in (i + 1)..n :
                                log[j].user = u => log[j].action # "user_deactivated"
    BY <1>4 DEF ActiveBy
  <2>2. \A j \in (i + 1)..(n + 1) :
           log'[j].user = u => log'[j].action # "user_deactivated"
    <3> TAKE j \in (i + 1)..(n + 1)
    <3>1. CASE j = n + 1
      BY <1>1, <1>2, <1>4, <3>1
    <3>2. CASE j # n + 1
      <4>1. j \in (i + 1)..n /\ j \in 1..n
        BY <1>1, <3>2
      <4> QED BY <1>1, <2>1, <4>1
    <3> QED BY <3>1, <3>2
  <2>3. i \in 1..(n + 1) /\ log'[i] = log[i]
    BY <1>1
  <2> QED BY <1>1, <2>1, <2>2, <2>3 DEF ActiveBy
<1>5. ASSUME ActiveBy(u, Len(log))'
      PROVE  \/ v = u /\ action \in {"user_created", "user_reactivated"}
             \/ ~(v = u /\ action = "user_deactivated") /\ ActiveBy(u, n)
  <2>1. PICK i \in 1..(n + 1) :
             /\ log'[i].user = u
             /\ log'[i].action \in {"user_created", "user_reactivated"}
             /\ \A j \in (i + 1)..(n + 1) :
                   log'[j].user = u => log'[j].action # "user_deactivated"
    BY <1>1, <1>5 DEF ActiveBy
  <2>2. CASE i = n + 1
    BY <1>1, <1>2, <2>1, <2>2
  <2>3. CASE i # n + 1
    <3>1. i \in 1..n /\ n + 1 \in (i + 1)..(n + 1) /\ (i + 1)..n \subseteq (i + 1)..(n + 1)
      BY <1>1, <2>3
    <3>2. ~(v = u /\ action = "user_deactivated")
      BY <1>1, <1>2, <2>1, <3>1
    <3>3. \A j \in (i + 1)..n : log'[j] = log[j]
      BY <1>1, <3>1
    <3>4. ActiveBy(u, n)
      BY <1>1, <2>1, <3>1, <3>3 DEF ActiveBy
    <3> QED BY <3>2, <3>4
  <2> QED BY <2>2, <2>3
<1> QED BY <1>3, <1>4, <1>5 DEF n

(* The table and the log move together: a row changes only in a step that   *)
(* appends the entry saying so, and a login entry changes neither.          *)
LEMMA StatusNext ==
  AdminInv /\ StatusFollowsLog /\ [Next]_vars => StatusFollowsLog'
<1> SUFFICES ASSUME AdminInv, StatusFollowsLog, [Next]_vars, NEW u \in User
             PROVE  (Exists(u) /\ users[u].active)' <=> ActiveBy(u, Len(log))'
  BY DEF StatusFollowsLog
<1>1. log \in Seq(Entry) /\ ((Exists(u) /\ users[u].active) <=> ActiveBy(u, Len(log)))
  BY DEF AdminInv, TypeOK, StatusFollowsLog
<1>2. ASSUME NEW v \in User, NEW actor \in User, NEW role \in Role, CreateUser(v, role, actor)
      PROVE  (Exists(u) /\ users[u].active)' <=> ActiveBy(u, Len(log))'
  <2>1. Log("user_created", v, actor)
    BY <1>2 DEF CreateUser
  <2>2. ActiveBy(u, Len(log))' <=> v = u \/ ActiveBy(u, Len(log))
    BY <1>1, <2>1, ActiveByStep
  <2>3. [role |-> role, active |-> TRUE] # Nobody
    BY NewRow
  <2>4. (Exists(u) /\ users[u].active)' <=> v = u \/ (Exists(u) /\ users[u].active)
    BY <1>2, <2>3 DEF CreateUser, Exists, AdminInv, TypeOK
  <2> QED BY <1>1, <2>2, <2>4
<1>3. ASSUME NEW b \in Browser, SignInLog(b)
      PROVE  (Exists(u) /\ users[u].active)' <=> ActiveBy(u, Len(log))'
  <2>1. call[b].user \in User /\ Log("user_login", call[b].user, call[b].user)
    BY <1>3 DEF SignInLog, AdminInv, TypeOK, SignIn, Change, Idle
  <2>2. ActiveBy(u, Len(log))' <=> ActiveBy(u, Len(log))
    BY <1>1, <2>1, ActiveByStep
  <2> QED BY <1>1, <1>3, <2>2 DEF SignInLog, Exists
<1>4. ASSUME NEW b \in Browser, SetActive(b)
      PROVE  (Exists(u) /\ users[u].active)' <=> ActiveBy(u, Len(log))'
  <2> DEFINE v == call[b].user  active == call[b].active
  <2>1. call[b] \in Change
    BY <1>4 DEF SetActive, AdminInv, TypeOK, SignIn, Idle
  <2>2. /\ v \in User /\ active \in BOOLEAN /\ call[b].actor \in User /\ Exists(v)
    BY <1>4, <2>1 DEF SetActive, Change, AdminInv, CallInv
  <2>3. users[v] \in Row
    BY <2>2 DEF AdminInv, TypeOK, Exists
  <2>4. /\ users' = [users EXCEPT ![v].active = active]
        /\ Log(StatusAction(active), v, call[b].actor)
    BY <1>4 DEF SetActive, WithStatus
  <2>5. users'[v] # Nobody /\ users'[v].active = active
    <3>1. users'[v] \in Row /\ users'[v].active = active
      BY <2>2, <2>3, <2>4 DEF AdminInv, TypeOK, Row
    <3> QED BY <3>1, NobodyAssumption
  <2>6. CASE v = u /\ active
    <3>1. ActiveBy(u, Len(log))'
      BY <1>1, <2>2, <2>4, <2>6, ActiveByStep DEF StatusAction
    <3> QED BY <2>5, <2>6, <3>1 DEF Exists
  <2>7. CASE v = u /\ ~active
    <3>1. ~ActiveBy(u, Len(log))'
      BY <1>1, <2>2, <2>4, <2>7, ActiveByStep DEF StatusAction
    <3> QED BY <2>5, <2>7, <3>1 DEF Exists
  <2>8. CASE v # u
    <3>1. ActiveBy(u, Len(log))' <=> ActiveBy(u, Len(log))
      BY <1>1, <2>2, <2>4, <2>8, ActiveByStep
    <3>2. users'[u] = users[u]
      BY <2>2, <2>4, <2>8 DEF AdminInv, TypeOK
    <3> QED BY <1>1, <3>1, <3>2 DEF Exists
  <2> QED BY <2>2, <2>6, <2>7, <2>8
<1>5. CASE UNCHANGED <<users, log>>
  BY <1>1, <1>5 DEF Exists, ActiveBy
<1>6. ASSUME NEW b \in Browser,
             \/ \E v \in User : SignInRead(b, v)
             \/ SignInFails(b) \/ SignOut(b) \/ SetActiveFails(b)
             \/ \E v \in User, active \in BOOLEAN : LookUp(b, v, active)
      PROVE  UNCHANGED <<users, log>>
  BY <1>6 DEF SignInRead, SignInFails, SignOut, SetActiveFails, LookUp
<1>7. CASE UNCHANGED vars
  BY <1>5, <1>7 DEF vars
<1> QED BY <1>2, <1>3, <1>4, <1>5, <1>6, <1>7 DEF Next

(* In every reachable state the users table agrees with the custody log     *)
(* about who is active: no interleaving of set_user_active, create_user and *)
(* authenticate leaves a status without the entry that explains it.         *)
THEOREM StatusIsLogged == Spec => []StatusFollowsLog
<1>1. Init => StatusFollowsLog
  <2> SUFFICES ASSUME Init, NEW u \in User
               PROVE  ~Exists(u) /\ ~ActiveBy(u, Len(log))
    BY DEF StatusFollowsLog
  <2>1. users[u] = Nobody /\ Len(log) = 0
    BY DEF Init
  <2>2. 1..Len(log) = {}
    BY <2>1
  <2> QED BY <2>1, <2>2 DEF Exists, ActiveBy
<1> QED BY <1>1, AdminInvInit, AdminInvNext, StatusNext, PTL DEF Spec
=============================================================================
