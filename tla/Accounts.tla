------------------------------ MODULE Accounts ------------------------------
(***************************************************************************)
(* Examiner accounts: create_user, authenticate and set_user_active of     *)
(* coc/service.py with the web sessions of coc/web that call them.  Web    *)
(* requests run in threads of their own, so what a call read before it     *)
(* took the write lock may be stale when it writes; the read and the       *)
(* transaction are separate steps.  The transaction, row and custody entry *)
(* together, is one step, which CustodyLog justifies.                      *)
(***************************************************************************)
EXTENDS Naturals, Sequences

CONSTANTS User,       \* usernames
          Browser,    \* web clients, one call at a time each
          Nobody,     \* no user
          MaxEntries  \* bound on the log


VARIABLES users,    \* rows of the users table; Nobody where there is none
          session,  \* per browser: the user its cookie names
          call,     \* per browser: a call between its read and its transaction
          log       \* committed custody entries about accounts

vars == <<users, session, call, log>>

Role == {"admin", "examiner"}
Row  == [role: Role, active: BOOLEAN]

ASSUME NobodyAssumption == Nobody \notin User \cup Row
ASSUME BoundAssumption  == MaxEntries \in Nat

Idle   == [op |-> "none"]
SignIn == [op: {"signIn"}, user: User]
Change == [op: {"setActive"}, user: User, isAdmin: BOOLEAN, active: BOOLEAN, actor: User]

Entry == [action: {"user_created", "user_login", "user_deactivated", "user_reactivated"},
          user: User, actor: User]

Init == /\ users = [u \in User |-> Nobody]
        /\ session = [b \in Browser |-> Nobody]
        /\ call = [b \in Browser |-> Idle]
        /\ log = << >>

-----------------------------------------------------------------------------
Exists(u)  == users[u] # Nobody
IsAdmin(u) == Exists(u) /\ users[u].role = "admin"
ActiveAdmins == {u \in User : IsAdmin(u) /\ users[u].active}

Log(action, u, actor) ==
    /\ Len(log) < MaxEntries
    /\ log' = Append(log, [action |-> action, user |-> u, actor |-> actor])

Done(b) == call' = [call EXCEPT ![b] = Idle]

(* The actor is an existing user, or the new one where none is named (the   *)
(* first user of a workspace, or the CLI without --as).                     *)
CreateUser(u, role, actor) ==
    /\ ~Exists(u)
    /\ actor = u \/ Exists(actor)
    /\ users' = [users EXCEPT ![u] = [role |-> role, active |-> TRUE]]
    /\ Log("user_created", u, actor)
    /\ UNCHANGED <<session, call>>

-----------------------------------------------------------------------------
(* authenticate *)

(* SELECT ... AND active = 1; the key derivation that follows is slow. *)
SignInRead(b, u) ==
    /\ call[b] = Idle
    /\ Exists(u)
    /\ users[u].active
    /\ call' = [call EXCEPT ![b] = [op |-> "signIn", user |-> u]]
    /\ UNCHANGED <<users, session, log>>

(* The key is wrong, or the database stays busy. *)
SignInFails(b) ==
    /\ call[b].op = "signIn"
    /\ Done(b)
    /\ UNCHANGED <<users, session, log>>

SignInLog(b) ==
    /\ call[b].op = "signIn"
    /\ Log("user_login", call[b].user, call[b].user)
    /\ session' = [session EXCEPT ![b] = call[b].user]
    /\ Done(b)
    /\ UNCHANGED users

SignOut(b) ==
    /\ session[b] # Nobody
    /\ session' = [session EXCEPT ![b] = Nobody]
    /\ UNCHANGED <<users, call, log>>

-----------------------------------------------------------------------------
(* set_user_active, behind admin_required.  current_examiner takes the user *)
(* of the session from the users table, whether active or not.              *)

LookUp(b, u, active) ==
    LET actor == session[b]
    IN  /\ call[b] = Idle
        /\ actor # Nobody
        /\ IsAdmin(actor)
        /\ Exists(u)
        /\ u # actor \/ active
        /\ call' = [call EXCEPT ![b] =
                      [op |-> "setActive", user |-> u, isAdmin |-> IsAdmin(u),
                       active |-> active, actor |-> actor]]
        /\ UNCHANGED <<users, session, log>>

(* Faulty variant: SELECT COUNT without "AND id != ?". *)
AllActiveAdmins(u) == ActiveAdmins

OtherActiveAdmins(u) == ActiveAdmins \ {u}

(* Faulty variant: both directions are logged alike. *)
DeactivatedAlways(active) == "user_deactivated"

StatusAction(active) == IF active THEN "user_reactivated" ELSE "user_deactivated"

(* Faulty variant: the row is written anew and loses its role. *)
WithoutRole(u, active) == [users EXCEPT ![u] = [role |-> "", active |-> active]]

WithStatus(u, active) == [users EXCEPT ![u].active = active]

SetActive(b) ==
    /\ call[b].op = "setActive"
    /\ ~call[b].active /\ call[b].isAdmin => OtherActiveAdmins(call[b].user) # {}
    /\ users' = WithStatus(call[b].user, call[b].active)
    /\ Log(StatusAction(call[b].active), call[b].user, call[b].actor)
    /\ Done(b)
    /\ UNCHANGED session

(* The last active administrator is refused, or the database stays busy. *)
SetActiveFails(b) ==
    /\ call[b].op = "setActive"
    /\ Done(b)
    /\ UNCHANGED <<users, session, log>>

-----------------------------------------------------------------------------
Next == \/ \E u, actor \in User, role \in Role : CreateUser(u, role, actor)
        \/ \E b \in Browser :
              \/ \E u \in User : SignInRead(b, u)
              \/ SignInFails(b) \/ SignInLog(b) \/ SignOut(b)
              \/ \E u \in User, active \in BOOLEAN : LookUp(b, u, active)
              \/ SetActive(b) \/ SetActiveFails(b)

Spec == Init /\ [][Next]_vars

-----------------------------------------------------------------------------
TypeOK == /\ users \in [User -> Row \cup {Nobody}]
          /\ session \in [Browser -> User \cup {Nobody}]
          /\ call \in [Browser -> SignIn \cup Change \cup {Idle}]
          /\ log \in Seq(Entry)

(* "Otherwise the workspace becomes unadministrable with no way back"       *)
(* (tests/test_operations.py:228): once there is an administrator, one is   *)
(* active, even when administrators deactivate each other at the same time  *)
(* or one acts whose own account was deactivated meanwhile.                 *)
SomeAdminRemains == (\E u \in User : IsAdmin(u)) => ActiveAdmins # {}

(* By the first n entries u is active: something let u in and nothing later *)
(* put u out.                                                               *)
ActiveBy(u, n) ==
    \E i \in 1..n : /\ log[i].user = u
                    /\ log[i].action \in {"user_created", "user_reactivated"}
                    /\ \A j \in (i + 1)..n :
                          log[j].user = u => log[j].action # "user_deactivated"

(* The users table is what the custody log says it is: a user is active in  *)
(* the one exactly when active by the other.                                *)
StatusFollowsLog ==
    \A u \in User : (Exists(u) /\ users[u].active) <=> ActiveBy(u, Len(log))
=============================================================================
