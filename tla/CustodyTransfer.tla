--------------------------- MODULE CustodyTransfer --------------------------
(***************************************************************************)
(* Who holds an item: transfer_custody and accept_custody of               *)
(* coc/service.py, called by examiners from several sessions at once (CLI  *)
(* processes, web requests).  The pending transfer and the holder are not  *)
(* stored anywhere; both are read off the custody log.                     *)
(*                                                                         *)
(* The log is the sequence of committed entries; appending to it is one    *)
(* step, which CustodyLog justifies.  What the calls read before they take *)
(* the write lock is read in a step of its own.                            *)
(***************************************************************************)
EXTENDS Naturals, Sequences

CONSTANTS Item, Examiner, Session,
          Nobody,      \* no examiner
          MaxEntries   \* bound on the log

ASSUME NobodyAssumption == Nobody \notin Examiner
ASSUME BoundAssumption  == MaxEntries \in Nat

VARIABLES log,        \* committed entries
          accepting,  \* per session: the accept_custody call between its read and its write
          raced       \* history: items whose custody moved under such a call

vars == <<log, accepting, raced>>

Entry == [action : {"ingested", "transferred", "accepted", "other"},
          item   : Item,
          actor  : Examiner,
          from   : Examiner \cup {Nobody},
          to     : Examiner \cup {Nobody},
          ref    : Nat]              \* transfer_seq of an acceptance, else 0

Idle == [item |-> Nobody, actor |-> Nobody, from |-> Nobody, seq |-> 0]

Init == /\ log = << >>
        /\ accepting = [s \in Session |-> Idle]
        /\ raced = {}

-----------------------------------------------------------------------------
(* Reading the log *)

Positions(i, actions) == {n \in DOMAIN log : log[n].item = i /\ log[n].action \in actions}

(* ... ORDER BY seq DESC LIMIT 1; 0 when there is no such entry. *)
Latest(S) == IF S = {} THEN 0 ELSE CHOOSE n \in S : \A m \in S : m <= n

(* Faulty variant: any entry of the item, not only handovers and acceptances. *)
PendingByLastEntry(i) ==
    LET n == Latest(Positions(i, {"ingested", "transferred", "accepted", "other"}))
    IN  IF n # 0 /\ log[n].action = "transferred" THEN n ELSE 0

(* Faulty variant: acceptances are not looked at. *)
PendingForever(i) == Latest(Positions(i, {"transferred"}))

PendingTransfer(i) ==
    LET n == Latest(Positions(i, {"transferred", "accepted"}))
    IN  IF n # 0 /\ log[n].action = "transferred" THEN n ELSE 0

(* Faulty variant: the receiving side of a handover counts as the holder. *)
HolderOnHandover(i) ==
    LET n == Latest(Positions(i, {"ingested", "transferred", "accepted"}))
    IN  IF n = 0 THEN Nobody
        ELSE IF log[n].action = "transferred" THEN log[n].to ELSE log[n].actor

CurrentHolder(i) ==
    LET n == Latest(Positions(i, {"ingested", "accepted"}))
    IN  IF n = 0 THEN Nobody ELSE log[n].actor

Ingested(i) == Positions(i, {"ingested"}) # {}

-----------------------------------------------------------------------------
(* Entries *)

(* Faulty variant: an acceptance logged without its actor. *)
WriteAnonymous(action, i, x, from, to, ref) ==
    /\ Len(log) < MaxEntries
    /\ log' = Append(log, [action |-> action, item |-> i,
                           actor |-> IF action = "accepted" THEN Nobody ELSE x,
                           from |-> from, to |-> to, ref |-> ref])

Write(action, i, x, from, to, ref) ==
    /\ Len(log) < MaxEntries
    /\ log' = Append(log, [action |-> action, item |-> i, actor |-> x,
                           from |-> from, to |-> to, ref |-> ref])

(* Custody of i moves: whoever is about to accept i has read a stale log. *)
Races(i, s) == raced' = IF \E t \in Session \ {s} : accepting[t].item = i
                        THEN raced \cup {i} ELSE raced

Ingest(x, i) ==
    /\ ~Ingested(i)
    /\ Write("ingested", i, x, Nobody, Nobody, 0)
    /\ UNCHANGED <<accepting, raced>>

(* Viewing, downloading or verifying the item. *)
Touch(x, i) ==
    /\ Ingested(i)
    /\ Write("other", i, x, Nobody, Nobody, 0)
    /\ UNCHANGED <<accepting, raced>>

(* transfer_custody: nothing it checks is read from the log. *)
TransferCustody(s, x, to, i) ==
    /\ accepting[s] = Idle
    /\ Ingested(i)
    /\ to # x
    /\ Write("transferred", i, x, x, to, 0)
    /\ Races(i, s)
    /\ UNCHANGED accepting

(* Faulty variant: anybody may accept. *)
AcceptAnyone(s, x, i) ==
    LET n == PendingTransfer(i)
    IN  /\ accepting[s] = Idle
        /\ n # 0
        /\ accepting' = [accepting EXCEPT ![s] =
                            [item |-> i, actor |-> x, from |-> log[n].from, seq |-> n]]
        /\ UNCHANGED <<log, raced>>

(* accept_custody up to its transaction: the pending transfer, and that it  *)
(* names the caller.                                                        *)
AcceptRead(s, x, i) ==
    LET n == PendingTransfer(i)
    IN  /\ accepting[s] = Idle
        /\ n # 0
        /\ log[n].to = x
        /\ accepting' = [accepting EXCEPT ![s] =
                            [item |-> i, actor |-> x, from |-> log[n].from, seq |-> n]]
        /\ UNCHANGED <<log, raced>>

(* ... and the transaction, which looks at nothing again. *)
AcceptWrite(s) ==
    LET a == accepting[s]
    IN  /\ a # Idle
        /\ Write("accepted", a.item, a.actor, a.from, a.actor, a.seq)
        /\ accepting' = [accepting EXCEPT ![s] = Idle]
        /\ Races(a.item, s)

(* The transaction does not happen: the lock stays busy, or the session's   *)
(* process dies.                                                            *)
AcceptFails(s) ==
    /\ accepting[s] # Idle
    /\ accepting' = [accepting EXCEPT ![s] = Idle]
    /\ UNCHANGED <<log, raced>>

Next == \/ \E i \in Item, x \in Examiner : Ingest(x, i) \/ Touch(x, i)
        \/ \E s \in Session :
              \/ \E i \in Item, x \in Examiner :
                    \/ \E to \in Examiner : TransferCustody(s, x, to, i)
                    \/ AcceptRead(s, x, i)
              \/ AcceptWrite(s)
              \/ AcceptFails(s)

Spec == Init /\ [][Next]_vars

-----------------------------------------------------------------------------
TypeOK == /\ log \in Seq(Entry)
          /\ \A s \in Session :
                \/ accepting[s] = Idle
                \/ accepting[s] \in [item: Item, actor: Examiner, from: Examiner, seq: Nat \ {0}]
          /\ raced \subseteq Item

(* Only the named recipient accepts: every acceptance in the log answers an *)
(* earlier handover of the same item, made out to the examiner who accepts  *)
(* (docs/STANDARDS.md:83-84), stale read or not.                            *)
AcceptanceAnswersHandover ==
    \A n \in DOMAIN log :
       log[n].action = "accepted" =>
          LET t == log[n].ref
          IN  /\ t \in 1..(n - 1)
              /\ log[t].action = "transferred" /\ log[t].item = log[n].item
              /\ log[t].to = log[n].actor /\ log[t].from = log[n].from

(* A handover nobody acknowledged moves nothing (service.py:758-759): the   *)
(* holder of an ingested item changes only to an examiner to whom it was    *)
(* handed over, by that examiner's own acceptance.                          *)
HolderByAcceptance ==
    [][\A i \in Item :
          CurrentHolder(i) \notin {Nobody, CurrentHolder(i)'} =>
             LET e == log'[Len(log')]
             IN  /\ e.action = "accepted" /\ e.item = i /\ e.actor = CurrentHolder(i)'
                 /\ \E n \in DOMAIN log : /\ log[n].action = "transferred"
                                          /\ log[n].item = i /\ log[n].to = e.actor]_vars

AcceptedBy(t) == {n \in DOMAIN log : log[n].action = "accepted" /\ log[n].ref = t}

LatestUnaccepted(i) ==
    LET t == Latest(Positions(i, {"transferred"}))
    IN  IF t # 0 /\ AcceptedBy(t) = {} THEN t ELSE 0

(* Where no other custody write of the item fell between an acceptance's    *)
(* read and its write, pending_transfer is what its docstring says, "the    *)
(* most recent transfer for an item, if it has not been accepted".          *)
PendingUnlessRaced == \A i \in Item \ raced : PendingTransfer(i) = LatestUnaccepted(i)

(* ... and a transfer is two entries, one handover and one acceptance.      *)
OneAcceptanceUnlessRaced ==
    \A t \in DOMAIN log : \A m, n \in AcceptedBy(t) : log[t].item \notin raced => m = n

(* The docstring of pending_transfer without the proviso (service.py:808).  *)
PendingIsLatestUnaccepted == \A i \in Item : PendingTransfer(i) = LatestUnaccepted(i)
=============================================================================
