--------------------------- MODULE SessionsProofs ---------------------------
(***************************************************************************)
(* Proofs about Sessions for any set of tabs and examiners and any number  *)
(* of requests under way, lost or late: a change that check_csrf lets pass *)
(* is logged under the name on the page it was made from, who signed out   *)
(* stays signed out, and a page that boots alone has the browser's session.*)
(***************************************************************************)
EXTENDS Sessions, TLAPS

Name == User \cup {Nobody}

(* Somebody takes token n for one of u's session: the browser, a message    *)
(* that carries the session, a change on its way, or a page that shows u or *)
(* is about to.                                                             *)
MessageClaims(m, u, n) == \/ m.cookie.user = u /\ m.cookie.token = n
                          \/ Arrived(m, "post") /\ m.shown = u /\ m.token = n
PageClaims(p, u, n) == p.page \in {"turned", "inside"} /\ p.shown = u /\ p.token = n

Claims(u, n) == \/ cookie.user = u /\ cookie.token = n
                \/ \E m \in flight : MessageClaims(m, u, n)
                \/ \E t \in Tab : PageClaims(tab[t], u, n)

(* A token belongs to one session, and the next one is still unknown.       *)
OwnerInv == \A u, v \in Name, n \in Token \ {0} : Claims(u, n) /\ Claims(v, n) => u = v
FreshInv == \A u \in Name, n \in Token \ {0} : Claims(u, n) => n <= minted

IndInv == TypeOK /\ OwnerInv /\ FreshInv

(* What the sets of messages say of their members.                          *)
LEMMA MessageTyped ==
  ASSUME TypeOK, NEW m \in flight
  PROVE  /\ m \in Request \/ m \in Answer
         /\ m.dir = "request" => m \in Request
         /\ m.dir = "answer" => m \in Answer
         /\ m.cookie \in Session /\ m.kind \in Kind /\ m.tab \in Tab \cup {NoTab}
         /\ m.alone \in BOOLEAN
BY DEF TypeOK, Request, Answer

(* Marking messages as not alone keeps what they are.                       *)
LEMMA CrowdedTyped ==
  ASSUME NEW S \in SUBSET (Request \cup Answer)
  PROVE  Crowded(S) \subseteq Request \cup Answer
<1> SUFFICES ASSUME NEW m \in S
             PROVE  [m EXCEPT !.alone = FALSE] \in Request \cup Answer
  BY DEF Crowded
<1>1. CASE m \in Request
  BY <1>1 DEF Request
<1>2. CASE m \in Answer
  BY <1>2 DEF Answer
<1> QED BY <1>1, <1>2

(* A request is put under way beside the others.                            *)
LEMMA SentTyped ==
  ASSUME TypeOK, NEW S \in SUBSET (Request \cup Answer), NEW t \in Tab, NEW kind \in Kind,
         NEW token \in Token, NEW who \in Name, NEW shown \in Name,
         kind = "signIn" => who \in User
  PROVE  Sent(S, t, kind, token, who, shown) \subseteq Request \cup Answer
<1>1. [dir |-> "request", kind |-> kind, tab |-> t, cookie |-> cookie, token |-> token,
       as |-> who, shown |-> shown, alone |-> S = {}] \in Request
  BY DEF TypeOK, Request, Name
<1> QED BY <1>1, CrowdedTyped DEF Sent

LEMMA SendTyped ==
  ASSUME TypeOK, NEW t \in Tab, NEW kind \in Kind, NEW who \in Name, Send(t, kind, who),
         kind = "signIn" => who \in User
  PROVE  flight' \subseteq Request \cup Answer
<1>1. tab[t].token \in Token /\ tab[t].shown \in Name /\ flight \in SUBSET (Request \cup Answer)
  BY DEF TypeOK, Page, Name
<1> QED BY <1>1, SentTyped DEF Send

(* An answer takes the place of its request.                                *)
LEMMA AnsweredTyped ==
  ASSUME TypeOK, NEW r \in flight, r.dir = "request", NEW ok \in BOOLEAN, NEW s \in Session,
         Answered(r, ok, s), r.kind = "signIn" /\ ok => s.user \in User
  PROVE  flight' \subseteq Request \cup Answer
<1>1. [dir |-> "answer", kind |-> r.kind, tab |-> r.tab, cookie |-> s,
       sets |-> s # r.cookie \/ s.user # Nobody, ok |-> ok, alone |-> r.alone] \in Answer
  BY MessageTyped DEF Answer
<1> QED BY <1>1 DEF Answered, TypeOK

(* A page names an examiner exactly when it is inside or about to be.       *)
Naming(p) == p.page \in {"turned", "inside"} <=> p.shown # Nobody

(* Showing the gate leaves such a page, and so does every handler.          *)
LEMMA GateTyped ==
  ASSUME NEW old \in Page, Naming(old)
  PROVE  ShowGate(old) \in Page /\ Naming(ShowGate(old))
BY DEF ShowGate, Page, Naming

LEMMA HandledTyped ==
  ASSUME NEW old \in Page, Naming(old),
         NEW kind \in Kind, NEW ok \in BOOLEAN, NEW s \in Session,
         kind = "signIn" /\ ok => s.user \in User
  PROVE  LET new == Handled(old, kind, ok, s)
         IN  new \in Page /\ Naming(new)
<1>1. CASE kind = "session"
  <2>1. Entered(s) \in Page /\ Naming(Entered(s))
    BY DEF Entered, Page, Session, Naming
  <2> QED BY <1>1, <2>1, GateTyped DEF Handled
<1>2. CASE kind = "signIn"
  BY <1>2, NobodyAssumption DEF Handled, Turned, Page, Session, Naming
<1>3. CASE kind = "signOut"
  BY <1>3, GateTyped DEF Handled
<1>4. CASE kind \in {"post", "view"}
  BY <1>4 DEF Handled
<1> QED BY <1>1, <1>2, <1>3, <1>4 DEF Kind

(* A message handled leaves pages of the right type.                        *)
LEMMA HandledByTyped ==
  ASSUME TypeOK, NEW m \in flight, NEW ok \in BOOLEAN, HandledBy(m, ok),
         m.kind = "signIn" /\ ok => m.cookie.user \in User
  PROVE  /\ tab' \in [Tab -> Page]
         /\ \A t \in Tab : Naming(tab'[t])
         /\ flight' \subseteq Request \cup Answer
         /\ gone' \in {"in", "confirmed", "claimed"}
<1>1. ASSUME NEW t \in Tab
      PROVE  LET new == IF t = m.tab THEN Handled(tab[t], m.kind, ok, m.cookie) ELSE tab[t]
             IN  new \in Page /\ Naming(new)
  <2>1. tab[t] \in Page /\ Naming(tab[t])
    BY DEF TypeOK, Naming
  <2> QED BY <2>1, MessageTyped, HandledTyped
<1>2. tab' = [t \in Tab |-> IF t = m.tab THEN Handled(tab[t], m.kind, ok, m.cookie) ELSE tab[t]]
  BY DEF HandledBy
<1> QED BY <1>1, <1>2 DEF HandledBy, TypeOK

(* The server's steps keep the types.                                       *)
LEMMA ServeTyped ==
  ASSUME TypeOK, NEW r \in flight, Serve(r)
  PROVE  TypeOK'
<1> USE BoundAssumption
<1>1. r.cookie \in Session /\ (r.dir = "request" => r \in Request)
  BY MessageTyped
<1>2. Empty \in Session /\ (minted < MaxTokens => minted + 1 \in Token)
  BY DEF Empty, Session, Token, TypeOK
<1>3. ASSUME ReadSession(r) PROVE TypeOK'
  <2>1. CASE r.cookie.token = 0
    <3>1. /\ Mint /\ Answered(r, TRUE, [r.cookie EXCEPT !.token = minted + 1])
          /\ r.dir = "request" /\ r.kind = "session"
      BY <1>3, <2>1 DEF ReadSession, Arrived
    <3>2. [r.cookie EXCEPT !.token = minted + 1] \in Session
      BY <1>1, <1>2, <3>1 DEF Mint, Session
    <3>3. flight' \subseteq Request \cup Answer
      BY <3>1, <3>2, AnsweredTyped
    <3> QED BY <3>1, <3>3 DEF Mint, Answered, TypeOK
  <2>2. CASE r.cookie.token # 0
    <3>1. Answered(r, TRUE, r.cookie) /\ r.dir = "request" /\ r.kind = "session"
          /\ UNCHANGED minted
      BY <1>3, <2>2 DEF ReadSession, Arrived
    <3>2. flight' \subseteq Request \cup Answer
      BY <1>1, <3>1, AnsweredTyped
    <3> QED BY <3>1, <3>2 DEF Answered, TypeOK
  <2> QED BY <2>1, <2>2
<1>4. ASSUME CreateSession(r) PROVE TypeOK'
  <2>1. Mint /\ Answered(r, TRUE, [user |-> r.as, token |-> minted + 1]) /\ r.dir = "request"
    BY <1>4 DEF CreateSession, Arrived
  <2>2. [user |-> r.as, token |-> minted + 1] \in Session /\ r.as \in User
    BY <1>1, <1>2, <1>4, <2>1 DEF CreateSession, Arrived, Mint, Session, Request
  <2>3. flight' \subseteq Request \cup Answer
    BY <2>1, <2>2, AnsweredTyped
  <2> QED BY <2>1, <2>3 DEF Mint, Answered, TypeOK
<1>5. ASSUME \E ok \in BOOLEAN, s \in {r.cookie, Empty} :
                Answered(r, ok, s) /\ (r.kind = "signIn" => ~ok),
             r.dir = "request", UNCHANGED minted
      PROVE  TypeOK'
  <2>1. PICK ok \in BOOLEAN, s \in {r.cookie, Empty} :
                Answered(r, ok, s) /\ (r.kind = "signIn" => ~ok)
    BY <1>5
  <2>2. flight' \subseteq Request \cup Answer
    BY <1>1, <1>2, <1>5, <2>1, AnsweredTyped
  <2> QED BY <1>5, <2>1, <2>2 DEF Answered, TypeOK
<1>6. ASSUME RefuseCsrf(r) \/ RejectKey(r) \/ DestroySession(r) \/ NotSignedIn(r) \/ Perform(r)
      PROVE  TypeOK'
  <2>1. r.dir = "request" /\ UNCHANGED minted
    BY <1>6 DEF RefuseCsrf, RejectKey, DestroySession, NotSignedIn, Perform, Arrived
  <2>2. \E ok \in BOOLEAN, s \in {r.cookie, Empty} :
                Answered(r, ok, s) /\ (r.kind = "signIn" => ~ok)
    BY <1>6 DEF RefuseCsrf, RejectKey, DestroySession, NotSignedIn, Perform, Arrived
  <2> QED BY <1>5, <2>1, <2>2
<1> QED BY <1>3, <1>4, <1>6 DEF Serve

(* Every step keeps the types.                                              *)
LEMMA TypeNext == TypeOK /\ [Next]_vars => TypeOK'
<1> SUFFICES ASSUME TypeOK, [Next]_vars
             PROVE  TypeOK'
  OBVIOUS
<1> USE BoundAssumption, NobodyAssumption
<1>1. ASSUME NEW t \in Tab, Load(t) PROVE TypeOK'
  <2> DEFINE old == {IF m.tab = t THEN [m EXCEPT !.tab = NoTab] ELSE m : m \in flight}
  <2>1. old \in SUBSET (Request \cup Answer)
    <3> SUFFICES ASSUME NEW m \in flight
                 PROVE  [m EXCEPT !.tab = NoTab] \in Request \cup Answer
      BY DEF TypeOK
    <3>1. CASE m \in Request
      BY <3>1 DEF Request
    <3>2. CASE m \in Answer
      BY <3>2 DEF Answer
    <3> QED BY <3>1, <3>2, MessageTyped
  <2>2. flight' = Sent(old, t, "session", 0, Nobody, Nobody)
    BY <1>1 DEF Load
  <2>3. flight' \subseteq Request \cup Answer
    <3>1. "session" \in Kind /\ 0 \in Token /\ Nobody \in Name
      BY DEF Kind, Token, Name
    <3> HIDE DEF old
    <3> QED BY <2>1, <2>2, <3>1, SentTyped
  <2>4. [NoPage EXCEPT !.page = "booting"] = [page |-> "booting", shown |-> Nobody, token |-> 0]
    BY DEF NoPage
  <2>5. /\ tab' \in [Tab -> Page]
        /\ \A x \in Tab : tab'[x].page \in {"turned", "inside"} <=> tab'[x].shown # Nobody
    BY <1>1, <2>4 DEF Load, TypeOK, Page, Token
  <2> QED BY <1>1, <2>3, <2>5 DEF Load, TypeOK
<1>2. ASSUME NEW t \in Tab, NEW u \in User, SignIn(t, u) PROVE TypeOK'
  <2>1. flight' \subseteq Request \cup Answer
    BY <1>2, SendTyped DEF SignIn, Kind, Name
  <2> QED BY <1>2, <2>1 DEF SignIn, Send, TypeOK, Page
<1>3. ASSUME NEW t \in Tab, SignOut(t) \/ Post(t) \/ View(t) PROVE TypeOK'
  <2>1. PICK kind \in Kind \ {"signIn"} : Send(t, kind, Nobody)
    BY <1>3 DEF SignOut, Post, View, Kind
  <2>2. flight' \subseteq Request \cup Answer
    BY <2>1, SendTyped DEF Name
  <2> QED BY <1>3, <2>1, <2>2 DEF SignOut, Post, View, Send, TypeOK
<1>4. ASSUME NEW m \in flight, Serve(m) PROVE TypeOK'
  BY <1>4, ServeTyped
<1>5. ASSUME NEW m \in flight, Deliver(m) PROVE TypeOK'
  <2>1. /\ m.cookie \in Session /\ m.ok \in BOOLEAN
        /\ m.kind = "signIn" /\ m.ok => m.cookie.user \in User
    BY <1>5, MessageTyped DEF Deliver, Arrives, Answer
  <2>2. HandledBy(m, m.ok)
    BY <1>5 DEF Deliver
  <2> QED BY <1>5, <2>1, <2>2, HandledByTyped DEF Deliver, Arrives, HandledBy, TypeOK, Naming
<1>6. ASSUME NEW m \in flight, Lose(m) PROVE TypeOK'
  <2>1. HandledBy(m, FALSE) /\ FALSE \in BOOLEAN
    BY <1>6 DEF Lose
  <2>2. /\ tab' \in [Tab -> Page]
        /\ \A t \in Tab : Naming(tab'[t])
        /\ flight' \subseteq Request \cup Answer
        /\ gone' \in {"in", "confirmed", "claimed"}
    BY <2>1, HandledByTyped
  <2>3. lost' \in 0..MaxLost /\ cookie' = cookie /\ minted' = minted
    BY <1>6 DEF Lose, HandledBy, TypeOK
  <2> QED BY <2>2, <2>3 DEF TypeOK, Naming
<1>7. ASSUME NEW m \in flight, Abort(m) PROVE TypeOK'
  BY <1>7 DEF Abort, TypeOK
<1>8. CASE UNCHANGED vars
  BY <1>8 DEF vars, TypeOK
<1>9. ASSUME NEW m \in flight, SentAway(m) PROVE TypeOK'
  <2>1. m.cookie \in Session /\ tab[m.tab] \in Page /\ Naming(tab[m.tab])
    BY <1>9, MessageTyped DEF SentAway, TypeOK, Naming
  <2>2. /\ ShowGate(tab[m.tab]) \in Page /\ Naming(ShowGate(tab[m.tab]))
        /\ tab' = [tab EXCEPT ![m.tab] = ShowGate(tab[m.tab])]
    BY <1>9, <2>1, GateTyped DEF SentAway
  <2> QED BY <1>9, <2>1, <2>2 DEF SentAway, Arrives, TypeOK, Naming
<1>10. ASSUME NEW t \in Tab, Enter(t) PROVE TypeOK'
  BY <1>10 DEF Enter, TypeOK, Page
<1> QED BY <1>1, <1>2, <1>3, <1>4, <1>5, <1>6, <1>7, <1>8, <1>9, <1>10 DEF Next

(* What a step says about the claims: none is new, but one on the token it  *)
(* mints, for one examiner.                                                 *)
Minting(w) == minted' = minted + 1
              /\ \A u \in Name, n \in Token \ {0} :
                    Claims(u, n)' => Claims(u, n) \/ (u = w /\ n = minted + 1)
Quiet == minted' = minted
         /\ \A u \in Name, n \in Token \ {0} : Claims(u, n)' => Claims(u, n)

(* Such a step keeps every token with its owner.                            *)
LEMMA OwnerStep ==
  ASSUME TypeOK, OwnerInv, FreshInv, Quiet \/ \E w \in Name : Minting(w)
  PROVE  OwnerInv' /\ FreshInv'
<1> USE BoundAssumption
<1>1. minted \in Nat /\ \A n \in Token : n \in Nat
  BY DEF TypeOK, Token
<1>2. CASE Quiet
  BY <1>1, <1>2 DEF Quiet, OwnerInv, FreshInv
<1>3. ASSUME NEW w \in Name, Minting(w) PROVE OwnerInv' /\ FreshInv'
  <2>1. ASSUME NEW u \in Name, NEW n \in Token \ {0}, Claims(u, n)'
        PROVE  (n <= minted /\ Claims(u, n)) \/ (u = w /\ n = minted + 1)
    BY <1>3, <2>1 DEF Minting, FreshInv
  <2>2. OwnerInv'
    <3> SUFFICES ASSUME NEW u \in Name, NEW v \in Name, NEW n \in Token \ {0},
                        Claims(u, n)', Claims(v, n)'
                 PROVE  u = v
      BY DEF OwnerInv
    <3> QED BY <1>1, <2>1 DEF OwnerInv
  <2>3. FreshInv'
    <3> SUFFICES ASSUME NEW u \in Name, NEW n \in Token \ {0}, Claims(u, n)'
                 PROVE  n <= minted'
      BY DEF FreshInv
    <3> QED BY <1>1, <1>3, <2>1 DEF Minting
  <2> QED BY <2>2, <2>3
<1> QED BY <1>2, <1>3

(* Marking messages as not alone adds no claim.                             *)
LEMMA CrowdedClaims ==
  ASSUME NEW S \in SUBSET (Request \cup Answer), NEW u, NEW n,
         NEW m \in Crowded(S), MessageClaims(m, u, n)
  PROVE  \E k \in S : MessageClaims(k, u, n)
<1>1. PICK k \in S : m = [k EXCEPT !.alone = FALSE]
  BY DEF Crowded
<1>2. CASE k \in Request
  BY <1>1, <1>2 DEF MessageClaims, Arrived, Request
<1>3. CASE k \in Answer
  BY <1>1, <1>3 DEF MessageClaims, Arrived, Answer
<1> QED BY <1>2, <1>3

(* A request sent claims what the browser claims and, when it makes a       *)
(* change, what its page claims.                                            *)
LEMMA SentClaims ==
  ASSUME NEW S \in SUBSET (Request \cup Answer), NEW t \in Tab, NEW kind \in Kind, NEW token,
         NEW who, NEW shown, NEW u, NEW n,
         NEW m \in Sent(S, t, kind, token, who, shown), MessageClaims(m, u, n)
  PROVE  \/ \E k \in S : MessageClaims(k, u, n)
         \/ cookie.user = u /\ cookie.token = n
         \/ kind = "post" /\ shown = u /\ token = n
<1>1. CASE m \in Crowded(S)
  BY <1>1, CrowdedClaims
<1>2. CASE m \notin Crowded(S)
  <2>1. m = [dir |-> "request", kind |-> kind, tab |-> t, cookie |-> cookie, token |-> token,
             as |-> who, shown |-> shown, alone |-> S = {}]
    BY <1>2 DEF Sent
  <2> QED BY <2>1 DEF MessageClaims, Arrived
<1> QED BY <1>1, <1>2

LEMMA SendClaims ==
  ASSUME TypeOK, NEW t \in Tab, NEW kind \in Kind, NEW who, Send(t, kind, who), NEW u, NEW n,
         NEW m \in flight', MessageClaims(m, u, n)
  PROVE  \/ \E k \in flight : MessageClaims(k, u, n)
         \/ cookie.user = u /\ cookie.token = n
         \/ kind = "post" /\ tab[t].shown = u /\ tab[t].token = n
<1>1. flight \in SUBSET (Request \cup Answer)
  BY DEF TypeOK
<1>2. m \in Sent(flight, t, kind, tab[t].token, who, tab[t].shown)
  BY DEF Send
<1> QED BY <1>1, <1>2, SentClaims

(* A request sent from a page that is inside adds no claim, and no page     *)
(* comes inside by sending one.                                             *)
LEMMA SendQuiet ==
  ASSUME TypeOK, NEW t \in Tab, NEW kind \in Kind, NEW who, Send(t, kind, who),
         kind = "post" => tab[t].page = "inside",
         \A x \in Tab : tab'[x].page \in {"turned", "inside"} => tab'[x] = tab[x]
  PROVE  Quiet
<1> SUFFICES ASSUME NEW u \in Name, NEW n \in Token \ {0}, Claims(u, n)'
             PROVE  Claims(u, n)
  BY DEF Quiet, Send
<1>1. CASE (cookie.user = u /\ cookie.token = n)'
  BY <1>1 DEF Claims, Send
<1>2. ASSUME NEW m \in flight', MessageClaims(m, u, n) PROVE Claims(u, n)
  BY <1>2, SendClaims DEF Claims, PageClaims
<1>3. ASSUME NEW x \in Tab, PageClaims(tab'[x], u, n) PROVE Claims(u, n)
  BY <1>3 DEF Claims, PageClaims
<1> QED BY <1>1, <1>2, <1>3 DEF Claims

(* An answer claims what the session it leaves claims.                      *)
LEMMA AnsweredClaims ==
  ASSUME NEW r, NEW ok, NEW s, Answered(r, ok, s), NEW u, NEW n, Claims(u, n)'
  PROVE  Claims(u, n) \/ (s.user = u /\ s.token = n)
<1>1. CASE (cookie.user = u /\ cookie.token = n)'
  BY <1>1 DEF Claims, Answered
<1>2. ASSUME NEW m \in flight', MessageClaims(m, u, n)
      PROVE  Claims(u, n) \/ (s.user = u /\ s.token = n)
  <2>1. CASE m \in flight
    BY <1>2, <2>1 DEF Claims
  <2>2. CASE m \notin flight
    <3>1. m = [dir |-> "answer", kind |-> r.kind, tab |-> r.tab, cookie |-> s,
               sets |-> s # r.cookie \/ s.user # Nobody, ok |-> ok, alone |-> r.alone]
      BY <2>2 DEF Answered
    <3>2. m.dir = "answer" /\ m.cookie = s
      BY <3>1
    <3> QED BY <1>2, <3>2 DEF MessageClaims, Arrived
  <2> QED BY <2>1, <2>2
<1>3. ASSUME NEW x \in Tab, PageClaims(tab'[x], u, n) PROVE Claims(u, n)
  BY <1>3 DEF Claims, Answered
<1> QED BY <1>1, <1>2, <1>3 DEF Claims

(* The server's steps: a session read or created mints, the others add      *)
(* nothing.                                                                 *)
LEMMA ServeClaims ==
  ASSUME TypeOK, NEW r \in flight, Serve(r)
  PROVE  Quiet \/ \E w \in Name : Minting(w)
<1>1. /\ r.cookie \in Session /\ r.cookie.user \in Name
      /\ r.dir = "request" => r \in Request
  BY MessageTyped DEF Session, Name
<1>2. ASSUME NEW ok, NEW s, s = r.cookie \/ s = Empty, Answered(r, ok, s), UNCHANGED minted
      PROVE  Quiet
  <2> SUFFICES ASSUME NEW u \in Name, NEW n \in Token \ {0}, Claims(u, n)'
               PROVE  Claims(u, n)
    BY <1>2 DEF Quiet
  <2>1. Claims(u, n) \/ (s.user = u /\ s.token = n)
    BY <1>2, AnsweredClaims
  <2>2. n # 0
    OBVIOUS
  <2> QED BY <1>2, <2>1, <2>2 DEF Claims, MessageClaims, Empty
<1>3. ASSUME NEW ok, NEW w \in Name, NEW s, s.user = w, s.token = minted + 1,
             Answered(r, ok, s), Mint
      PROVE  Minting(w)
  BY <1>3, AnsweredClaims DEF Minting, Mint
<1>4. CASE ReadSession(r)
  <2>1. CASE r.cookie.token = 0
    <3>1. [r.cookie EXCEPT !.token = minted + 1].user = r.cookie.user
          /\ [r.cookie EXCEPT !.token = minted + 1].token = minted + 1
      BY <1>1 DEF Session
    <3> QED BY <1>1, <1>3, <1>4, <2>1, <3>1 DEF ReadSession
  <2>2. CASE r.cookie.token # 0
    BY <1>2, <1>4, <2>2 DEF ReadSession
  <2> QED BY <2>1, <2>2
<1>5. CASE CreateSession(r)
  <2>1. r.as \in Name
    BY <1>1, <1>5 DEF CreateSession, Arrived, Request, Name
  <2>2. Mint /\ Answered(r, TRUE, [user |-> r.as, token |-> minted + 1])
    BY <1>5 DEF CreateSession
  <2> QED BY <1>3, <2>1, <2>2
<1>6. CASE RefuseCsrf(r) \/ RejectKey(r) \/ DestroySession(r) \/ NotSignedIn(r) \/ Perform(r)
  BY <1>2, <1>6 DEF RefuseCsrf, RejectKey, DestroySession, NotSignedIn, Perform
<1> QED BY <1>4, <1>5, <1>6 DEF Serve

(* A page that shows the gate claims no more than it did.                   *)
LEMMA GateClaims ==
  ASSUME NEW old \in Page, NEW u, NEW n, PageClaims(ShowGate(old), u, n)
  PROVE  PageClaims(old, u, n)
BY DEF PageClaims, ShowGate, Page

(* A page that is inside after a call came in with the session it brought.  *)
LEMMA HandledClaims ==
  ASSUME NEW old \in Page, NEW kind, NEW ok, NEW s, NEW u, NEW n,
         PageClaims(Handled(old, kind, ok, s), u, n)
  PROVE  PageClaims(old, u, n) \/ (s.user = u /\ s.token = n)
<1>1. CASE kind \in {"session", "signIn"} /\ ok
  BY <1>1 DEF PageClaims, Handled, Entered, Turned
<1>2. CASE kind = "session" /\ ~ok
  BY <1>2, GateClaims DEF Handled
<1>3. CASE kind = "signIn" /\ ~ok
  BY <1>3 DEF PageClaims, Handled, Page
<1>4. CASE kind = "signOut"
  BY <1>4, GateClaims DEF Handled
<1>5. CASE kind \notin {"session", "signIn", "signOut"}
  BY <1>5 DEF Handled
<1> QED BY <1>1, <1>2, <1>3, <1>4, <1>5

LEMMA HandledByQuiet ==
  ASSUME TypeOK, NEW m \in flight, NEW ok, HandledBy(m, ok),
         cookie' = cookie \/ cookie' = m.cookie
  PROVE  Quiet
<1> SUFFICES ASSUME NEW u \in Name, NEW n \in Token \ {0}, Claims(u, n)'
             PROVE  Claims(u, n)
  BY DEF Quiet, HandledBy
<1>1. CASE (cookie.user = u /\ cookie.token = n)'
  BY <1>1 DEF Claims, MessageClaims
<1>2. ASSUME NEW k \in flight', MessageClaims(k, u, n) PROVE Claims(u, n)
  BY <1>2 DEF Claims, HandledBy
<1>3. ASSUME NEW t \in Tab, PageClaims(tab'[t], u, n) PROVE Claims(u, n)
  <2>1. tab[t] \in Page
    BY DEF TypeOK
  <2>2. tab'[t] = IF t = m.tab THEN Handled(tab[t], m.kind, ok, m.cookie) ELSE tab[t]
    BY DEF HandledBy
  <2>3. PageClaims(tab[t], u, n) \/ (m.cookie.user = u /\ m.cookie.token = n)
    BY <1>3, <2>1, <2>2, HandledClaims
  <2> QED BY <2>3 DEF Claims, MessageClaims
<1> QED BY <1>1, <1>2, <1>3 DEF Claims

(* So does a page that is sent to the gate.                                 *)
LEMMA SentAwayQuiet ==
  ASSUME TypeOK, NEW m \in flight, SentAway(m)
  PROVE  Quiet
<1> SUFFICES ASSUME NEW u \in Name, NEW n \in Token \ {0}, Claims(u, n)'
             PROVE  Claims(u, n)
  BY DEF Quiet, SentAway
<1>1. CASE (cookie.user = u /\ cookie.token = n)'
  BY <1>1 DEF Claims, MessageClaims, SentAway, Arrives
<1>2. ASSUME NEW k \in flight', MessageClaims(k, u, n) PROVE Claims(u, n)
  BY <1>2 DEF Claims, SentAway
<1>3. ASSUME NEW t \in Tab, PageClaims(tab'[t], u, n) PROVE Claims(u, n)
  <2>1. tab[t] \in Page
    BY DEF TypeOK
  <2>2. tab'[t] = tab[t] \/ tab'[t] = ShowGate(tab[t])
    BY DEF SentAway, TypeOK
  <2>3. PageClaims(tab[t], u, n)
    BY <1>3, <2>1, <2>2, GateClaims
  <2> QED BY <2>3 DEF Claims
<1> QED BY <1>1, <1>2, <1>3 DEF Claims

(* A page loaded again forgets what it claimed.                             *)
LEMMA LoadQuiet ==
  ASSUME TypeOK, NEW t \in Tab, Load(t)
  PROVE  Quiet
<1> DEFINE old == {IF m.tab = t THEN [m EXCEPT !.tab = NoTab] ELSE m : m \in flight}
<1>1. ASSUME NEW m \in old
      PROVE  /\ m \in Request \cup Answer
             /\ \A u, n : MessageClaims(m, u, n) => \E k \in flight : MessageClaims(k, u, n)
  <2>1. PICK k \in flight : m = IF k.tab = t THEN [k EXCEPT !.tab = NoTab] ELSE k
    OBVIOUS
  <2>2. CASE k \in Request
    BY <2>1, <2>2 DEF MessageClaims, Arrived, Request
  <2>3. CASE k \in Answer
    BY <2>1, <2>3 DEF MessageClaims, Arrived, Answer
  <2> QED BY <2>2, <2>3 DEF TypeOK
<1>2. flight' = Sent(old, t, "session", 0, Nobody, Nobody)
  BY DEF Load
<1>3. old \in SUBSET (Request \cup Answer)
  BY <1>1
<1> HIDE DEF old
<1> SUFFICES ASSUME NEW u \in Name, NEW n \in Token \ {0}, Claims(u, n)'
             PROVE  Claims(u, n)
  BY DEF Quiet, Load
<1>4. CASE (cookie.user = u /\ cookie.token = n)'
  BY <1>4 DEF Claims, Load
<1>5. ASSUME NEW m \in flight', MessageClaims(m, u, n) PROVE Claims(u, n)
  <2> "session" \in Kind
    BY DEF Kind
  <2>1. \/ \E k \in old : MessageClaims(k, u, n)
        \/ cookie.user = u /\ cookie.token = n
    BY <1>2, <1>3, <1>5, SentClaims
  <2> QED BY <1>1, <2>1 DEF Claims
<1>6. ASSUME NEW x \in Tab, PageClaims(tab'[x], u, n) PROVE Claims(u, n)
  <2>1. CASE x = t
    BY <1>6, <2>1 DEF PageClaims, Load, NoPage, TypeOK
  <2>2. CASE x # t
    BY <1>6, <2>2 DEF Claims, Load, TypeOK
  <2> QED BY <2>1, <2>2
<1> QED BY <1>4, <1>5, <1>6 DEF Claims

(* Every step keeps the tokens with their owners.                           *)
LEMMA OwnerNext == IndInv /\ [Next]_vars => OwnerInv' /\ FreshInv'
<1> SUFFICES ASSUME IndInv, [Next]_vars
             PROVE  Quiet \/ \E w \in Name : Minting(w)
  BY OwnerStep DEF IndInv
<1> USE DEF IndInv
<1>1. ASSUME NEW t \in Tab, Load(t) PROVE Quiet
  BY <1>1, LoadQuiet
<1>2. ASSUME NEW t \in Tab, NEW u \in User, SignIn(t, u) PROVE Quiet
  <2>1. "signIn" \in Kind /\ Send(t, "signIn", u)
    BY <1>2 DEF SignIn, Kind
  <2>2. \A x \in Tab : tab'[x].page \in {"turned", "inside"} => tab'[x] = tab[x]
    BY <1>2 DEF SignIn, TypeOK, Page
  <2> QED BY <2>1, <2>2, SendQuiet
<1>3. ASSUME NEW t \in Tab, SignOut(t) \/ Post(t) \/ View(t) PROVE Quiet
  <2>1. PICK kind \in Kind : Send(t, kind, Nobody)
    BY <1>3 DEF SignOut, Post, View, Kind
  <2>2. tab[t].page = "inside" /\ tab' = tab
    BY <1>3 DEF SignOut, Post, View
  <2> QED BY <2>1, <2>2, SendQuiet
<1>4. ASSUME NEW m \in flight, Serve(m) PROVE Quiet \/ \E w \in Name : Minting(w)
  BY <1>4, ServeClaims
<1>5. ASSUME NEW m \in flight, Deliver(m) PROVE Quiet
  <2>1. HandledBy(m, m.ok) /\ (cookie' = cookie \/ cookie' = m.cookie)
    BY <1>5 DEF Deliver, Arrives
  <2> QED BY <2>1, HandledByQuiet
<1>6. ASSUME NEW m \in flight, Lose(m) PROVE Quiet
  <2>1. HandledBy(m, FALSE) /\ cookie' = cookie
    BY <1>6 DEF Lose
  <2> QED BY <2>1, HandledByQuiet
<1>7. ASSUME NEW m \in flight, Abort(m) PROVE Quiet
  BY <1>7 DEF Abort, Quiet, Claims
<1>8. CASE UNCHANGED vars
  BY <1>8 DEF vars, Quiet, Claims
<1>9. ASSUME NEW m \in flight, SentAway(m) PROVE Quiet
  BY <1>9, SentAwayQuiet
<1>10. ASSUME NEW t \in Tab, Enter(t) PROVE Quiet
  <2>1. ASSUME NEW x \in Tab, NEW u, NEW n, PageClaims(tab'[x], u, n)
        PROVE  PageClaims(tab[x], u, n)
    BY <1>10, <2>1 DEF Enter, PageClaims, TypeOK, Page
  <2> QED BY <1>10, <2>1 DEF Enter, Quiet, Claims
<1> QED BY <1>1, <1>2, <1>3, <1>4, <1>5, <1>6, <1>7, <1>8, <1>9, <1>10 DEF Next

-----------------------------------------------------------------------------
(* Nobody holds a token before the first page is loaded.                    *)
LEMMA InitIndInv == Init => IndInv
<1> SUFFICES ASSUME Init PROVE IndInv
  OBVIOUS
<1> USE BoundAssumption, NobodyAssumption
<1>1. TypeOK
  BY DEF Init, TypeOK, Session, Token, Empty, NoPage, Page
<1>2. \A u \in Name, n \in Token \ {0} : ~Claims(u, n)
  BY DEF Init, Claims, PageClaims, Empty, NoPage
<1> QED BY <1>1, <1>2 DEF IndInv, OwnerInv, FreshInv

(* The tokens' owners, with the types, are an inductive invariant.          *)
THEOREM OwnersHold == Spec => []IndInv
<1>1. IndInv /\ [Next]_vars => IndInv'
  BY TypeNext, OwnerNext DEF IndInv
<1> QED BY <1>1, InitIndInv, PTL DEF Spec

(* The browser's pages and session, and what is under way, keep their       *)
(* types, and a page names an examiner exactly when it is, or is about to   *)
(* be, inside.                                                              *)
THEOREM SessionsTyped == Spec => []TypeOK
<1>1. IndInv => TypeOK
  BY DEF IndInv
<1> QED BY <1>1, OwnersHold, PTL

(* check_csrf and the token of the page together see to it that a change is *)
(* logged under the examiner that its page showed.                          *)
THEOREM PostsNamed == Spec => []PostsActAsShown
<1>1. IndInv => PostsActAsShown
  <2> SUFFICES ASSUME IndInv, NEW r \in flight, Arrived(r, "post"), PassesCsrf(r)
               PROVE  r.cookie.user = r.shown
    BY DEF PostsActAsShown
  <2>1. r \in Request /\ r.cookie \in Session
    BY MessageTyped DEF IndInv, Arrived
  <2>2. /\ r.cookie.user \in Name /\ r.shown \in Name
        /\ r.token \in Token \ {0} /\ r.token = r.cookie.token
    BY <2>1 DEF Request, Session, Name, PassesCsrf, Arrived
  <2>3. Claims(r.cookie.user, r.token) /\ Claims(r.shown, r.token)
    BY <2>2 DEF Claims, MessageClaims
  <2> QED BY <2>2, <2>3 DEF IndInv, OwnerInv
<1> QED BY <1>1, OwnersHold, PTL
-----------------------------------------------------------------------------
(* Signing out, and pages that come in alone *)

(* A message that is alone is all there is, and the browser's session is    *)
(* still the one it was sent with.                                          *)
AloneInv ==
    \A m \in flight : m.alone =>
       /\ flight = {m}
       /\ m.dir = "request" \/ ~m.sets => m.cookie = cookie

(* What the answers that say ok bring.                                      *)
AnswerInv ==
    \A m \in flight : m.dir = "answer" /\ m.ok =>
       /\ m.kind = "signOut" => m.cookie = Empty /\ m.sets
       /\ m.kind \in {"session", "signIn"} => m.cookie.token # 0

(* After a sign-out that was confirmed nothing under way names an examiner. *)
GoneInv ==
    gone = "confirmed" =>
       /\ cookie.user = Nobody
       /\ \A m \in flight : m.cookie.user = Nobody /\ m.kind # "signIn"

LeavingInv == AloneInv /\ AnswerInv /\ GoneInv

(* What is on the way once a request is sent beside S: the request, alone   *)
(* if nothing else is, and S, none of it alone.                             *)
LEMMA SentMessages ==
  ASSUME NEW S \in SUBSET (Request \cup Answer), NEW t, NEW kind, NEW token, NEW who, NEW shown,
         NEW m \in Sent(S, t, kind, token, who, shown)
  PROVE  \/ /\ m.dir = "request" /\ m.kind = kind /\ m.cookie = cookie
            /\ m.alone => S = {} /\ Sent(S, t, kind, token, who, shown) = {m}
         \/ /\ ~m.alone
            /\ \E k \in S : /\ m.dir = k.dir /\ m.kind = k.kind /\ m.cookie = k.cookie
                            /\ k.dir = "answer" => m.ok = k.ok /\ m.sets = k.sets
<1> DEFINE new == [dir |-> "request", kind |-> kind, tab |-> t, cookie |-> cookie, token |-> token,
                   as |-> who, shown |-> shown, alone |-> S = {}]
<1>1. Sent(S, t, kind, token, who, shown) = Crowded(S) \cup {new}
  BY DEF Sent
<1>2. CASE m = new
  <2>1. /\ m.dir = "request" /\ m.kind = kind /\ m.cookie = cookie
        /\ m.alone <=> S = {}
    BY <1>2
  <2>2. S = {} => Crowded(S) = {}
    BY DEF Crowded
  <2> HIDE DEF new
  <2> QED BY <1>1, <1>2, <2>1, <2>2
<1>3. CASE m \in Crowded(S)
  <2>1. PICK k \in S : m = [k EXCEPT !.alone = FALSE]
    BY <1>3 DEF Crowded
  <2>2. CASE k \in Request
    BY <2>1, <2>2 DEF Request
  <2>3. CASE k \in Answer
    BY <2>1, <2>3 DEF Answer
  <2> QED BY <2>2, <2>3
<1> HIDE DEF new
<1> QED BY <1>1, <1>2, <1>3

(* Sending keeps them: it turns a key only when it leaves "confirmed".      *)
LEMMA SentLeaves ==
  ASSUME LeavingInv, NEW S \in SUBSET (Request \cup Answer),
         \A k \in S : \E m \in flight :
            /\ m.dir = k.dir /\ m.kind = k.kind /\ m.cookie = k.cookie
            /\ k.dir = "answer" => m.ok = k.ok /\ m.sets = k.sets,
         NEW t, NEW kind, NEW token, NEW who, NEW shown,
         flight' = Sent(S, t, kind, token, who, shown),
         UNCHANGED cookie,
         gone' = "confirmed" => gone = "confirmed" /\ kind # "signIn"
  PROVE  LeavingInv'
<1>1. ASSUME NEW m \in flight'
      PROVE  \/ /\ m.dir = "request" /\ m.kind = kind /\ m.cookie = cookie
                /\ m.alone => flight' = {m}
             \/ /\ ~m.alone
                /\ \E k \in flight : /\ m.dir = k.dir /\ m.kind = k.kind /\ m.cookie = k.cookie
                                     /\ k.dir = "answer" => m.ok = k.ok /\ m.sets = k.sets
  BY SentMessages
<1>2. AloneInv'
  BY <1>1 DEF AloneInv
<1>3. AnswerInv'
  BY <1>1 DEF LeavingInv, AnswerInv
<1>4. GoneInv'
  BY <1>1 DEF LeavingInv, GoneInv
<1> QED BY <1>2, <1>3, <1>4 DEF LeavingInv

(* An answer takes its request's place.                                     *)
LEMMA AnsweredLeaves ==
  ASSUME TypeOK, LeavingInv, NEW r \in flight, r.dir = "request",
         NEW ok \in BOOLEAN, NEW s \in Session, Answered(r, ok, s),
         ok /\ r.kind = "signOut" => s = Empty /\ r.cookie.user # Nobody,
         ok /\ r.kind \in {"session", "signIn"} => s.token # 0,
         r.kind # "signIn" /\ r.cookie.user = Nobody => s.user = Nobody
  PROVE  LeavingInv'
<1> DEFINE a == [dir |-> "answer", kind |-> r.kind, tab |-> r.tab, cookie |-> s,
                 sets |-> s # r.cookie \/ s.user # Nobody, ok |-> ok, alone |-> r.alone]
<1>1. /\ a.dir = "answer" /\ a.kind = r.kind /\ a.cookie = s /\ a.ok = ok /\ a.alone = r.alone
      /\ a.sets <=> s # r.cookie \/ s.user # Nobody
  OBVIOUS
<1>2. flight' = (flight \ {r}) \cup {a} /\ UNCHANGED <<cookie, gone>>
  BY DEF Answered
<1> HIDE DEF a
<1>3. AloneInv'
  <2> SUFFICES ASSUME NEW m \in flight', m.alone
               PROVE  /\ flight' = {m}
                      /\ m.dir = "request" \/ ~m.sets => m.cookie = cookie
    BY <1>2 DEF AloneInv
  <2>1. CASE m = a
    <3>1. flight = {r} /\ r.cookie = cookie
      BY <1>1, <2>1 DEF LeavingInv, AloneInv
    <3> QED BY <1>1, <1>2, <2>1, <3>1
  <2>2. CASE m # a
    <3>1. m \in flight /\ m # r
      BY <1>2, <2>2
    <3> QED BY <3>1 DEF LeavingInv, AloneInv
  <2> QED BY <2>1, <2>2
<1>4. AnswerInv'
  <2>1. Empty.user = Nobody
    BY DEF Empty
  <2>2. a.ok /\ a.kind = "signOut" => a.cookie = Empty /\ a.sets
    BY <1>1, <2>1
  <2> QED BY <1>1, <1>2, <2>2 DEF LeavingInv, AnswerInv
<1>5. GoneInv'
  BY <1>1, <1>2 DEF LeavingInv, GoneInv
<1> QED BY <1>3, <1>4, <1>5 DEF LeavingInv

(* The server's answers.                                                    *)
LEMMA ServeLeaves ==
  ASSUME TypeOK, LeavingInv, NEW r \in flight, Serve(r)
  PROVE  LeavingInv'
<1> USE BoundAssumption
<1>1. r.cookie \in Session /\ (r.dir = "request" => r \in Request) /\ minted \in Nat
  BY MessageTyped DEF TypeOK
<1>2. Empty \in Session /\ (minted < MaxTokens => minted + 1 \in Token \ {0})
  BY <1>1 DEF Empty, Session, Token
<1>3. CASE ReadSession(r)
  <2>1. r.dir = "request" /\ r.kind = "session"
    BY <1>3 DEF ReadSession, Arrived
  <2>2. CASE r.cookie.token = 0
    <3> DEFINE s == [r.cookie EXCEPT !.token = minted + 1]
    <3>1. Mint /\ Answered(r, TRUE, s)
      BY <1>3, <2>2 DEF ReadSession
    <3>2. s \in Session /\ s.token # 0 /\ s.user = r.cookie.user
      BY <1>1, <1>2, <3>1 DEF Mint, Session
    <3> HIDE DEF s
    <3> QED BY <2>1, <3>1, <3>2, AnsweredLeaves
  <2>3. CASE r.cookie.token # 0
    <3>1. Answered(r, TRUE, r.cookie)
      BY <1>3, <2>3 DEF ReadSession
    <3> QED BY <1>1, <2>1, <2>3, <3>1, AnsweredLeaves
  <2> QED BY <2>2, <2>3
<1>4. CASE CreateSession(r)
  <2> DEFINE s == [user |-> r.as, token |-> minted + 1]
  <2>1. r.dir = "request" /\ r.kind = "signIn" /\ Mint /\ Answered(r, TRUE, s)
    BY <1>4 DEF CreateSession, Arrived
  <2>2. s \in Session /\ s.token # 0
    BY <1>1, <1>2, <2>1 DEF Mint, Session, Request
  <2> HIDE DEF s
  <2> QED BY <2>1, <2>2, AnsweredLeaves
<1>5. CASE DestroySession(r)
  <2>1. r.dir = "request" /\ r.kind = "signOut" /\ r.cookie.user # Nobody
        /\ Answered(r, TRUE, Empty)
    BY <1>5 DEF DestroySession, Arrived
  <2> QED BY <1>2, <2>1, AnsweredLeaves
<1>6. CASE RefuseCsrf(r) \/ RejectKey(r) \/ NotSignedIn(r)
  <2>1. r.dir = "request" /\ Answered(r, FALSE, r.cookie)
    BY <1>6 DEF RefuseCsrf, RejectKey, NotSignedIn, Arrived
  <2> QED BY <1>1, <2>1, AnsweredLeaves
<1>7. CASE Perform(r)
  <2>1. r.dir = "request" /\ r.kind \in {"post", "view"}
        /\ Answered(r, r.cookie.user # Nobody, r.cookie)
    BY <1>7 DEF Perform, Arrived
  <2>2. PICK ok \in BOOLEAN : Answered(r, ok, r.cookie)
    BY <2>1
  <2> QED BY <1>1, <2>1, <2>2, AnsweredLeaves
<1> QED BY <1>3, <1>4, <1>5, <1>6, <1>7 DEF Serve

(* A message that goes leaves the rest as it was.                           *)
LEMMA GoingLeaves ==
  ASSUME LeavingInv, NEW m \in flight, flight' = flight \ {m},
         gone' = "confirmed" =>
            /\ cookie'.user = Nobody
            /\ gone = "confirmed" \/ flight' = {}
  PROVE  LeavingInv'
<1>1. ASSUME NEW k \in flight', k.alone PROVE FALSE
  BY <1>1 DEF LeavingInv, AloneInv
<1>2. AloneInv'
  BY <1>1 DEF AloneInv
<1>3. AnswerInv'
  BY DEF LeavingInv, AnswerInv
<1>4. GoneInv'
  BY DEF LeavingInv, GoneInv
<1> QED BY <1>2, <1>3, <1>4 DEF LeavingInv

(* An answer delivered, or a message lost.  Only a sign-out that the        *)
(* server confirmed, delivered with nothing beside it, makes gone           *)
(* "confirmed".                                                             *)
LEMMA HandledLeaves ==
  ASSUME LeavingInv, NEW m \in flight, NEW ok \in BOOLEAN, HandledBy(m, ok),
         \/ cookie' = cookie /\ ok = FALSE
         \/ /\ m.dir = "answer" /\ ok = m.ok
            /\ cookie' = IF m.sets THEN m.cookie ELSE cookie
  PROVE  LeavingInv'
<1>1. flight' = flight \ {m}
      /\ gone' = IF m.kind = "signOut" /\ m.alone /\ m.tab \in Tab
                 THEN (IF ok THEN "confirmed" ELSE "claimed") ELSE gone
  BY DEF HandledBy
<1>2. m.alone => flight' = {}
  BY <1>1 DEF LeavingInv, AloneInv
<1>3. gone' = "confirmed" =>
         /\ cookie'.user = Nobody
         /\ gone = "confirmed" \/ flight' = {}
  <2>1. CASE gone' = "confirmed" /\ gone = "confirmed"
    <3>1. cookie.user = Nobody /\ m.cookie.user = Nobody
      BY <2>1 DEF LeavingInv, GoneInv
    <3>2. cookie' = cookie \/ cookie' = m.cookie
      OBVIOUS
    <3> QED BY <2>1, <3>1, <3>2
  <2>2. CASE gone' = "confirmed" /\ m.kind = "signOut" /\ m.alone /\ ok
    <3>1. m.cookie = Empty /\ m.sets /\ cookie' = m.cookie
      BY <2>2 DEF LeavingInv, AnswerInv
    <3> QED BY <1>2, <2>2, <3>1 DEF Empty
  <2>3. gone' = "confirmed" => gone = "confirmed" \/ (m.kind = "signOut" /\ m.alone /\ ok)
    BY <1>1
  <2> QED BY <2>1, <2>2, <2>3
<1> QED BY <1>1, <1>3, GoingLeaves

(* Every step keeps them.                                                   *)
LEMMA LeavingNext == TypeOK /\ LeavingInv /\ [Next]_vars => LeavingInv'
<1> SUFFICES ASSUME TypeOK, LeavingInv, [Next]_vars
             PROVE  LeavingInv'
  OBVIOUS
<1>1. ASSUME NEW t \in Tab, Load(t) PROVE LeavingInv'
  <2> DEFINE old == {IF m.tab = t THEN [m EXCEPT !.tab = NoTab] ELSE m : m \in flight}
  <2>1. ASSUME NEW k \in old
        PROVE  /\ k \in Request \cup Answer
               /\ \E m \in flight :
                     /\ m.dir = k.dir /\ m.kind = k.kind /\ m.cookie = k.cookie
                     /\ k.dir = "answer" => m.ok = k.ok /\ m.sets = k.sets
    <3>1. PICK m \in flight : k = IF m.tab = t THEN [m EXCEPT !.tab = NoTab] ELSE m
      BY <2>1
    <3>2. CASE m \in Request
      BY <3>1, <3>2 DEF Request
    <3>3. CASE m \in Answer
      BY <3>1, <3>3 DEF Answer
    <3> QED BY <3>2, <3>3, MessageTyped
  <2>2. flight' = Sent(old, t, "session", 0, Nobody, Nobody) /\ UNCHANGED <<cookie, gone>>
    BY <1>1 DEF Load
  <2>3. old \in SUBSET (Request \cup Answer)
    BY <2>1
  <2> HIDE DEF old
  <2> QED BY <2>1, <2>2, <2>3, SentLeaves
<1>2. ASSUME NEW t \in Tab, NEW kind, NEW who, Send(t, kind, who),
             gone' = "confirmed" => gone = "confirmed" /\ kind # "signIn"
      PROVE  LeavingInv'
  <2>1. flight \in SUBSET (Request \cup Answer)
    BY DEF TypeOK
  <2>2. flight' = Sent(flight, t, kind, tab[t].token, who, tab[t].shown) /\ UNCHANGED cookie
    BY <1>2 DEF Send
  <2> QED BY <1>2, <2>1, <2>2, SentLeaves
<1>3. ASSUME NEW t \in Tab, NEW u \in User, SignIn(t, u) PROVE LeavingInv'
  BY <1>2, <1>3 DEF SignIn
<1>4. ASSUME NEW t \in Tab, SignOut(t) \/ Post(t) \/ View(t) PROVE LeavingInv'
  <2>1. PICK kind \in {"signOut", "post", "view"} : Send(t, kind, Nobody)
    BY <1>4 DEF SignOut, Post, View
  <2>2. gone' = gone
    BY <1>4 DEF SignOut, Post, View
  <2> QED BY <1>2, <2>1, <2>2
<1>5. ASSUME NEW m \in flight, Serve(m) PROVE LeavingInv'
  BY <1>5, ServeLeaves
<1>6. ASSUME NEW m \in flight, Deliver(m) PROVE LeavingInv'
  <2>1. m.dir = "answer" /\ m.ok \in BOOLEAN
    BY <1>6, MessageTyped DEF Deliver, Arrives, Answer
  <2> QED BY <1>6, <2>1, HandledLeaves DEF Deliver, Arrives
<1>7. ASSUME NEW m \in flight, Lose(m) PROVE LeavingInv'
  BY <1>7, HandledLeaves DEF Lose
<1>8. ASSUME NEW m \in flight, Abort(m) PROVE LeavingInv'
  <2>1. flight' = flight \ {m} /\ UNCHANGED <<cookie, gone>>
    BY <1>8 DEF Abort
  <2> QED BY <2>1, GoingLeaves DEF LeavingInv, GoneInv
<1>9. CASE UNCHANGED vars
  BY <1>9 DEF vars, LeavingInv, AloneInv, AnswerInv, GoneInv
<1>10. ASSUME NEW m \in flight, SentAway(m) PROVE LeavingInv'
  <2>1. flight' = flight \ {m} /\ UNCHANGED gone /\ (cookie' = cookie \/ cookie' = m.cookie)
    BY <1>10 DEF SentAway, Arrives
  <2> QED BY <2>1, GoingLeaves DEF LeavingInv, GoneInv
<1>11. ASSUME NEW t \in Tab, Enter(t) PROVE LeavingInv'
  BY <1>11 DEF Enter, LeavingInv, AloneInv, AnswerInv, GoneInv
<1> QED BY <1>1, <1>3, <1>4, <1>5, <1>6, <1>7, <1>8, <1>9, <1>10, <1>11 DEF Next

(* Who is alone, what ok answers bring and who may still be named.          *)
THEOREM LeavingHolds == Spec => []LeavingInv
<1>1. Init => LeavingInv
  BY DEF Init, LeavingInv, AloneInv, AnswerInv, GoneInv
<1> QED BY <1>1, LeavingNext, SessionsTyped, PTL DEF Spec

(* After a confirmed sign-out that met no other request the browser stays   *)
(* without an examiner until a key is turned again.                         *)
THEOREM SignedOutHolds == Spec => []SignOutHolds
<1>1. LeavingInv => SignOutHolds
  BY DEF LeavingInv, GoneInv, SignOutHolds
<1> QED BY <1>1, LeavingHolds, PTL

(* A page that boots or signs in with nothing else under way comes out with *)
(* the browser's own session, whose token its next change will carry.       *)
THEOREM BootedCurrent == Spec => BootedPageIsCurrent
<1>1. ASSUME TypeOK, LeavingInv, NEW m \in flight,
             Deliver(m), m.alone, m.tab \in Tab, m.ok, m.kind \in {"session", "signIn"}
      PROVE  /\ tab'[m.tab].token = cookie'.token /\ cookie'.token # 0
             /\ tab'[m.tab].shown = cookie'.user
  <2>1. m.dir = "answer" /\ cookie' = IF m.sets THEN m.cookie ELSE cookie
    BY <1>1 DEF Deliver, Arrives
  <2>2. cookie' = m.cookie
    BY <1>1, <2>1 DEF LeavingInv, AloneInv
  <2>3. m.cookie.token # 0
    BY <1>1, <2>1 DEF LeavingInv, AnswerInv
  <2>4. tab'[m.tab] = Handled(tab[m.tab], m.kind, m.ok, m.cookie)
    BY <1>1 DEF Deliver, HandledBy
  <2>5. tab'[m.tab] = Entered(m.cookie) \/ tab'[m.tab] = Turned(m.cookie)
    BY <1>1, <2>4 DEF Handled
  <2> QED BY <2>2, <2>3, <2>5 DEF Entered, Turned
<1>2. TypeOK /\ LeavingInv /\ [Next]_vars => [\A m \in flight :
          Deliver(m) /\ m.alone /\ m.tab \in Tab /\ m.ok /\ m.kind \in {"session", "signIn"} =>
             /\ tab'[m.tab].token = cookie'.token /\ cookie'.token # 0
             /\ tab'[m.tab].shown = cookie'.user]_vars
  BY <1>1
<1> QED BY <1>2, LeavingHolds, SessionsTyped, PTL DEF Spec, BootedPageIsCurrent
=============================================================================
