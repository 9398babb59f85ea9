------------------------------ MODULE Sessions ------------------------------
(***************************************************************************)
(* Who acts in a browser: the session cookie and CSRF token of             *)
(* coc/web/security.py and coc/web/api.py, the token and the examiner that *)
(* the pages of api.js and boot.js remember, and the requests and answers  *)
(* between them, which overlap, overtake each other and get lost.          *)
(*                                                                         *)
(* Flask keeps the session in a signed cookie and nothing of it on the     *)
(* server: a request carries the cookie the browser had when it was sent,  *)
(* and an answer brings one when the session changed, or when it is        *)
(* permanent, which sign_in makes it.  The tabs of a browser share it.     *)
(***************************************************************************)
EXTENDS Naturals, FiniteSets

CONSTANTS Tab, User,
          Nobody,      \* no examiner
          NoTab,       \* the page that sent the request is gone
          MaxTokens,   \* bound: CSRF tokens minted
          MaxFlight,   \* bound: requests and answers under way
          MaxLost      \* bound: requests and answers lost

ASSUME NobodyAssumption == Nobody \notin User
ASSUME NoTabAssumption  == NoTab \notin Tab
ASSUME BoundAssumption  == MaxTokens \in Nat /\ MaxFlight \in Nat /\ MaxLost \in Nat

VARIABLES cookie,   \* the session the browser holds
          tab,      \* per tab: what its page shows and remembers
          flight,   \* requests and answers under way
          minted,   \* CSRF tokens minted so far; each is a new number
          gone,     \* history: how the last sign-out ended that met no other request
          lost

vars == <<cookie, tab, flight, minted, gone, lost>>

Token   == 0..MaxTokens                  \* 0 is no token
Session == [user: User \cup {Nobody}, token: Token]
Empty   == [user |-> Nobody, token |-> 0]

Kind == {"session", "signIn", "signOut", "post", "view"}

(* shown is history: the examiner on the page when the request was sent.    *)
(* alone is history too: no other message was under way with this one.      *)
(* A sign-in names an examiner, and so does the session it ends in.         *)
Request == {r \in [dir: {"request"}, kind: Kind, tab: Tab \cup {NoTab}, cookie: Session,
                   token: Token, as: User \cup {Nobody}, shown: User \cup {Nobody},
                   alone: BOOLEAN] :
              r.kind = "signIn" => r.as \in User}
Answer  == {a \in [dir: {"answer"}, kind: Kind, tab: Tab \cup {NoTab}, cookie: Session,
                   sets: BOOLEAN, ok: BOOLEAN, alone: BOOLEAN] :
              a.kind = "signIn" /\ a.ok => a.cookie.user \in User}

NoPage == [page |-> "none", shown |-> Nobody, token |-> 0]
Page   == [page: {"none", "booting", "gate", "turning", "turned", "inside"},
           shown: User \cup {Nobody}, token: Token]

Init == /\ cookie = Empty
        /\ tab = [t \in Tab |-> NoPage]
        /\ flight = {}
        /\ minted = 0
        /\ gone = "in"
        /\ lost = 0

-----------------------------------------------------------------------------
(* The pages: api.js request() and upload(), called from boot.js. *)

Crowded(messages) == {[m EXCEPT !.alone = FALSE] : m \in messages}

(* The browser adds its cookie, api.js the token it remembers. *)
Sent(messages, t, kind, token, as, shown) ==
    Crowded(messages) \cup
       {[dir |-> "request", kind |-> kind, tab |-> t, cookie |-> cookie, token |-> token,
         as |-> as, shown |-> shown, alone |-> messages = {}]}

Send(t, kind, as) ==
    /\ Cardinality(flight) < MaxFlight
    /\ flight' = Sent(flight, t, kind, tab[t].token, as, tab[t].shown)
    /\ UNCHANGED <<cookie, minted, lost>>

(* The page is loaded, or loaded again: what the old one waited for has     *)
(* nobody to come to.  boot() asks for the session.                         *)
Load(t) ==
    /\ Cardinality(flight) < MaxFlight
    /\ tab' = [tab EXCEPT ![t] = [NoPage EXCEPT !.page = "booting"]]
    /\ flight' = Sent({IF m.tab = t THEN [m EXCEPT !.tab = NoTab] ELSE m : m \in flight},
                      t, "session", 0, Nobody, Nobody)
    /\ UNCHANGED <<cookie, minted, gone, lost>>

SignIn(t, u) == /\ tab[t].page = "gate"
                /\ tab' = [tab EXCEPT ![t].page = "turning"]
                /\ Send(t, "signIn", u)
                /\ gone' = "in"

SignOut(t) == /\ tab[t].page = "inside"
              /\ Send(t, "signOut", Nobody)
              /\ UNCHANGED <<tab, gone>>

(* Any call that changes the case: POST and PATCH, uploads included. *)
Post(t) == /\ tab[t].page = "inside"
           /\ Send(t, "post", Nobody)
           /\ UNCHANGED <<tab, gone>>

View(t) == /\ tab[t].page = "inside"
           /\ Send(t, "view", Nobody)
           /\ UNCHANGED <<tab, gone>>

-----------------------------------------------------------------------------
(* The server: one step per request; s is the session it leaves. *)

Answered(r, ok, s) ==
    /\ flight' = (flight \ {r}) \cup
          {[dir |-> "answer", kind |-> r.kind, tab |-> r.tab, cookie |-> s,
            sets |-> s # r.cookie \/ s.user # Nobody, ok |-> ok, alone |-> r.alone]}
    /\ UNCHANGED <<cookie, tab, gone, lost>>

Arrived(r, kind) == r.dir = "request" /\ r.kind = kind

(* check_csrf lets safe methods pass and compares the tokens of the others. *)
PassesCsrf(r) == \/ r.kind \in {"session", "view"}
                 \/ r.token # 0 /\ r.token = r.cookie.token

RefuseCsrf(r) == /\ r.dir = "request"
                 /\ ~PassesCsrf(r)
                 /\ Answered(r, FALSE, r.cookie)
                 /\ UNCHANGED minted

Mint == minted < MaxTokens /\ minted' = minted + 1

(* Faulty variant: a token for the answer that the session does not keep. *)
ReadSessionOnce(r) ==
    /\ Arrived(r, "session")
    /\ IF r.cookie.token = 0 /\ r.cookie.user = Nobody
       THEN /\ Mint
            /\ flight' = (flight \ {r}) \cup
                  {[dir |-> "answer", kind |-> r.kind, tab |-> r.tab,
                    cookie |-> [r.cookie EXCEPT !.token = minted + 1],
                    sets |-> FALSE, ok |-> TRUE, alone |-> r.alone]}
            /\ UNCHANGED <<cookie, tab, gone, lost>>
       ELSE Answered(r, TRUE, r.cookie) /\ UNCHANGED minted

(* csrf_token mints on first use. *)
ReadSession(r) ==
    /\ Arrived(r, "session")
    /\ IF r.cookie.token = 0
       THEN Mint /\ Answered(r, TRUE, [r.cookie EXCEPT !.token = minted + 1])
       ELSE Answered(r, TRUE, r.cookie) /\ UNCHANGED minted

(* Faulty variant: sign_in without session.clear(), the token staying. *)
CreateSessionKeeping(r) ==
    /\ Arrived(r, "signIn") /\ PassesCsrf(r)
    /\ Answered(r, TRUE, [r.cookie EXCEPT !.user = r.as])
    /\ UNCHANGED minted

(* sign_in clears the session, names the examiner and mints a token. *)
CreateSession(r) ==
    /\ Arrived(r, "signIn") /\ PassesCsrf(r)
    /\ Mint
    /\ Answered(r, TRUE, [user |-> r.as, token |-> minted + 1])

RejectKey(r) == /\ Arrived(r, "signIn") /\ PassesCsrf(r)
                /\ Answered(r, FALSE, r.cookie)
                /\ UNCHANGED minted

(* Faulty variant: sign_out only takes the token away. *)
DestroySessionPartly(r) ==
    /\ Arrived(r, "signOut") /\ PassesCsrf(r)
    /\ r.cookie.user # Nobody
    /\ Answered(r, TRUE, [r.cookie EXCEPT !.token = 0])
    /\ UNCHANGED minted

DestroySession(r) ==
    /\ Arrived(r, "signOut") /\ PassesCsrf(r)
    /\ r.cookie.user # Nobody
    /\ Answered(r, TRUE, Empty)
    /\ UNCHANGED minted

(* login_required, then the handler, which logs in the session's name. *)
Perform(r) ==
    /\ Arrived(r, "post") \/ Arrived(r, "view")
    /\ PassesCsrf(r)
    /\ Answered(r, r.cookie.user # Nobody, r.cookie)
    /\ UNCHANGED minted

(* login_required turns away a sign-out without a session. *)
NotSignedIn(r) ==
    /\ Arrived(r, "signOut") /\ PassesCsrf(r)
    /\ r.cookie.user = Nobody
    /\ Answered(r, FALSE, r.cookie)
    /\ UNCHANGED minted

-----------------------------------------------------------------------------
(* Back in the browser *)

Entered(s) == [page |-> IF s.user = Nobody THEN "gate" ELSE "inside",
               shown |-> s.user, token |-> s.token]

(* Faulty variant: the gate is shown, the examiner not forgotten. *)
ShowGateOnly(old) == [old EXCEPT !.page = "gate"]

(* A key that is being turned goes on turning. *)
ShowGate(old) == IF old.page \in {"turning", "turned"} THEN old
                 ELSE [old EXCEPT !.page = "gate", !.shown = Nobody]

(* The key fits: request() keeps the token at once, the examiner is shown   *)
(* when the key has stopped moving.                                         *)
Turned(s) == [page |-> "turned", shown |-> s.user, token |-> s.token]

(* What the handler of the page makes of the end of a call.  A sign-out     *)
(* leads to the gate whatever came of it.                                   *)
Handled(old, kind, ok, s) ==
    CASE kind = "session" -> IF ok THEN Entered(s) ELSE ShowGate(old)
      [] kind = "signIn"  -> IF ok THEN Turned(s)
                             ELSE IF old.page = "turning" THEN [old EXCEPT !.page = "gate"] ELSE old
      [] kind = "signOut" -> ShowGate(old)
      [] OTHER            -> old

HandledBy(m, ok) ==
    /\ tab' = [t \in Tab |-> IF t = m.tab THEN Handled(tab[t], m.kind, ok, m.cookie) ELSE tab[t]]
    /\ gone' = IF m.kind = "signOut" /\ m.alone /\ m.tab \in Tab
               THEN (IF ok THEN "confirmed" ELSE "claimed") ELSE gone
    /\ flight' = flight \ {m}
    /\ UNCHANGED minted

Arrives(m) == m.dir = "answer" /\ cookie' = IF m.sets THEN m.cookie ELSE cookie

Deliver(m) == Arrives(m) /\ HandledBy(m, m.ok) /\ UNCHANGED lost

(* goto() takes a 401 for the end of the session; other views show their    *)
(* error and stay, which is Deliver.                                        *)
SentAway(m) ==
    /\ Arrives(m)
    /\ m.kind = "view" /\ ~m.ok /\ m.tab \in Tab
    /\ tab' = [tab EXCEPT ![m.tab] = ShowGate(@)]
    /\ flight' = flight \ {m}
    /\ UNCHANGED <<minted, gone, lost>>

(* enterVault, the key having stopped. *)
Enter(t) == /\ tab[t].page = "turned"
            /\ tab' = [tab EXCEPT ![t].page = "inside"]
            /\ UNCHANGED <<cookie, flight, minted, gone, lost>>

(* The network fails on the way there or back. *)
Lose(m) == /\ lost < MaxLost
           /\ lost' = lost + 1
           /\ HandledBy(m, FALSE)
           /\ UNCHANGED cookie

(* The browser gives up what a page that is gone was waiting for. *)
Abort(m) == /\ m.tab = NoTab
            /\ flight' = flight \ {m}
            /\ UNCHANGED <<cookie, tab, minted, gone, lost>>

-----------------------------------------------------------------------------
Serve(r) == \/ ReadSession(r) \/ RefuseCsrf(r)
            \/ CreateSession(r) \/ RejectKey(r)
            \/ DestroySession(r) \/ NotSignedIn(r)
            \/ Perform(r)

Next == \/ \E t \in Tab : \/ Load(t) \/ SignOut(t) \/ Post(t) \/ View(t) \/ Enter(t)
                          \/ \E u \in User : SignIn(t, u)
        \/ \E m \in flight : Serve(m) \/ Deliver(m) \/ SentAway(m) \/ Lose(m) \/ Abort(m)

Spec == Init /\ [][Next]_vars

-----------------------------------------------------------------------------
TypeOK == /\ cookie \in Session
          /\ tab \in [Tab -> Page]
          /\ \A t \in Tab : tab[t].page \in {"turned", "inside"} <=> tab[t].shown # Nobody
          /\ flight \subseteq Request \cup Answer
          /\ minted \in 0..MaxTokens
          /\ gone \in {"in", "confirmed", "claimed"}
          /\ lost \in 0..MaxLost

(* A change is logged under the name on the page it was made from: of the   *)
(* requests under way, check_csrf lets a POST pass only if the session it   *)
(* carries is that of the examiner the page showed, whoever signed in or    *)
(* out in other tabs and whichever answer came last (security.py:61-74; the *)
(* actor is current_examiner, api.py).                                      *)
PostsActAsShown ==
    \A r \in flight : Arrived(r, "post") /\ PassesCsrf(r) => r.cookie.user = r.shown

(* Signed out is signed out: after a sign-out that the server confirmed and *)
(* that met no other request, the browser stays without an examiner until   *)
(* somebody turns a key again, whatever is loaded, lost or overtaken.       *)
SignOutHolds == gone = "confirmed" => cookie.user = Nobody

(* A page that boots, or signs in, while nothing else is under way comes    *)
(* out with the browser's own session, the token and the examiner that it   *)
(* shows or is about to show: its next change is not refused for "Stale     *)
(* session token" and carries that name.                                    *)
BootedPageIsCurrent ==
    [][\A m \in flight :
          Deliver(m) /\ m.alone /\ m.tab \in Tab /\ m.ok /\ m.kind \in {"session", "signIn"} =>
             /\ tab'[m.tab].token = cookie'.token /\ cookie'.token # 0
             /\ tab'[m.tab].shown = cookie'.user]_vars

(* "the session is going away regardless" (boot.js:832): once a sign-out    *)
(* that met no other request has led to the gate, whatever the answer, the  *)
(* browser holds no examiner's session.                                     *)
SessionGoesAway == gone # "in" => cookie.user = Nobody
=============================================================================
