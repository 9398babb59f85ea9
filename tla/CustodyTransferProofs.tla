------------------------ MODULE CustodyTransferProofs -----------------------
(***************************************************************************)
(* Proofs about CustodyTransfer for any items, examiners and sessions and  *)
(* any bound on the log: every acceptance answers a handover made out to  *)
(* the examiner who accepts, however stale the read it rests on, and the   *)
(* holder of an item changes by such an acceptance only.                   *)
(***************************************************************************)
EXTENDS CustodyTransfer, PositionFacts, TLAPS

(* ORDER BY seq DESC LIMIT 1: Latest is 0 when no entry qualifies, else the *)
(* last that does.                                                          *)
LEMMA LatestIn ==
  ASSUME NEW N \in Nat, NEW S \in SUBSET (1..N)
  PROVE  /\ S = {} => Latest(S) = 0
         /\ S # {} => (Latest(S) \in S /\ \A m \in S : m <= Latest(S))
BY GreatestExists DEF Latest

(* A position after all the others is the latest.                           *)
LEMMA LatestAdded ==
  ASSUME NEW N \in Nat, NEW S \in SUBSET (1..N)
  PROVE  Latest(S \cup {N + 1}) = N + 1
<1>1. \A m \in S \cup {N + 1} : m <= N + 1
  OBVIOUS
<1>2. \A n \in S \cup {N + 1} : (\A m \in S \cup {N + 1} : m <= n) => n = N + 1
  OBVIOUS
<1> QED BY <1>1, <1>2 DEF Latest

-----------------------------------------------------------------------------
(* The inductive invariant.  A call that has read its pending transfer      *)
(* keeps pointing at a handover to its caller, because entries stay where   *)
(* they are; that, and not a second look, is what its write rests on.       *)

AcceptingAnswers ==
    \A s \in Session : accepting[s] # Idle =>
       LET a == accepting[s]
       IN  /\ a.seq \in DOMAIN log
           /\ log[a.seq].action = "transferred" /\ log[a.seq].item = a.item
           /\ log[a.seq].to = a.actor /\ log[a.seq].from = a.from

HandoversNamed ==
    \A n \in DOMAIN log : log[n].action = "transferred" =>
       log[n].from \in Examiner /\ Ingested(log[n].item)

IndInv == /\ TypeOK
          /\ accepting = [s \in Session |-> accepting[s]]
          /\ AcceptanceAnswersHandover
          /\ AcceptingAnswers
          /\ HandoversNamed

(* pending_transfer returns 0 or the position of a handover of the item.    *)
LEMMA PendingIsHandover ==
  ASSUME TypeOK, NEW i \in Item, PendingTransfer(i) # 0
  PROVE  /\ PendingTransfer(i) \in DOMAIN log
         /\ log[PendingTransfer(i)].action = "transferred"
         /\ log[PendingTransfer(i)].item = i
<1> DEFINE S == Positions(i, {"transferred", "accepted"})
<1>1. Len(log) \in Nat /\ DOMAIN log = 1..Len(log)
  BY DEF TypeOK
<1>2. S \in SUBSET (1..Len(log))
  BY <1>1 DEF Positions
<1>3. /\ PendingTransfer(i) = Latest(S)
      /\ Latest(S) # 0
      /\ log[Latest(S)].action = "transferred"
  BY DEF PendingTransfer
<1>4. Latest(S) \in S
  BY <1>1, <1>2, <1>3, LatestIn
<1> QED BY <1>3, <1>4 DEF Positions

(* What a write does to the log: one entry at the end, the others in place. *)
LEMMA Appended ==
  ASSUME log \in Seq(Entry), NEW e \in Entry, log' = Append(log, e)
  PROVE  /\ log' \in Seq(Entry)
         /\ Len(log) \in Nat /\ DOMAIN log = 1..Len(log)
         /\ Len(log') = Len(log) + 1 /\ DOMAIN log' = 1..(Len(log) + 1)
         /\ \A n \in DOMAIN log : log'[n] = log[n]
         /\ log'[Len(log) + 1] = e
OBVIOUS

(* An entry of any kind keeps an ingested item ingested.                    *)
LEMMA IngestedStays ==
  ASSUME log \in Seq(Entry), NEW e \in Entry, log' = Append(log, e), NEW i,
         Ingested(i)
  PROVE  Ingested(i)'
BY Appended DEF Ingested, Positions

(* The log part of the invariant survives an entry that, if a handover, is  *)
(* of an ingested item and, if an acceptance, answers a handover.           *)
LEMMA AnswersKept ==
  ASSUME log \in Seq(Entry), AcceptanceAnswersHandover,
         NEW e \in Entry, log' = Append(log, e),
         e.action = "accepted" =>
            (/\ e.ref \in DOMAIN log
             /\ log[e.ref].action = "transferred" /\ log[e.ref].item = e.item
             /\ log[e.ref].to = e.actor /\ log[e.ref].from = e.from)
  PROVE  AcceptanceAnswersHandover'
<1>1. /\ Len(log) \in Nat /\ DOMAIN log = 1..Len(log)
      /\ DOMAIN log' = 1..(Len(log) + 1)
      /\ \A n \in DOMAIN log : log'[n] = log[n]
      /\ log'[Len(log) + 1] = e
  BY Appended
<1>2. SUFFICES ASSUME NEW n \in DOMAIN log', log'[n].action = "accepted"
               PROVE  /\ log'[n].ref \in 1..(n - 1)
                      /\ log'[log'[n].ref].action = "transferred"
                      /\ log'[log'[n].ref].item = log'[n].item
                      /\ log'[log'[n].ref].to = log'[n].actor
                      /\ log'[log'[n].ref].from = log'[n].from
  BY DEF AcceptanceAnswersHandover
<1>3. CASE n \in DOMAIN log
  <2>1. log'[n] = log[n]
    BY <1>1, <1>3
  <2>2. /\ log[n].ref \in 1..(n - 1)
        /\ log[log[n].ref].action = "transferred"
        /\ log[log[n].ref].item = log[n].item
        /\ log[log[n].ref].to = log[n].actor
        /\ log[log[n].ref].from = log[n].from
    BY <1>2, <1>3, <2>1 DEF AcceptanceAnswersHandover
  <2>3. log[n].ref \in DOMAIN log
    BY <1>1, <1>3, <2>2
  <2> QED BY <1>1, <2>1, <2>2, <2>3
<1>4. CASE n = Len(log) + 1
  <2>1. log'[n] = e
    BY <1>1, <1>4
  <2>2. e.ref \in 1..(n - 1) /\ log'[e.ref] = log[e.ref]
    BY <1>1, <1>2, <1>4, <2>1
  <2> QED BY <1>2, <2>1, <2>2
<1> QED BY <1>1, <1>3, <1>4

(* Handovers stay named, and of ingested items, if the new one is.          *)
LEMMA NamedKept ==
  ASSUME log \in Seq(Entry), HandoversNamed,
         NEW e \in Entry, log' = Append(log, e),
         e.action = "transferred" => (e.from \in Examiner /\ Ingested(e.item))
  PROVE  HandoversNamed'
<1>1. /\ Len(log) \in Nat /\ DOMAIN log = 1..Len(log)
      /\ DOMAIN log' = 1..(Len(log) + 1)
      /\ \A n \in DOMAIN log : log'[n] = log[n]
      /\ log'[Len(log) + 1] = e
  BY Appended
<1>2. SUFFICES ASSUME NEW n \in DOMAIN log', log'[n].action = "transferred"
               PROVE  log'[n].from \in Examiner /\ Ingested(log[n].item)'
  BY DEF HandoversNamed
<1>3. CASE n \in DOMAIN log
  <2>1. log'[n] = log[n]
    BY <1>1, <1>3
  <2>2. log[n].from \in Examiner /\ Ingested(log[n].item)
    BY <1>2, <1>3, <2>1 DEF HandoversNamed
  <2>3. Ingested(log[n].item)'
    BY <2>1, <2>2, IngestedStays
  <2> QED BY <2>1, <2>2, <2>3
<1>4. CASE n = Len(log) + 1
  <2>1. log'[n] = e
    BY <1>1, <1>4
  <2>2. e.from \in Examiner /\ Ingested(e.item)
    BY <1>2, <2>1
  <2>3. Ingested(log[n].item)'
    BY <2>1, <2>2, IngestedStays
  <2> QED BY <2>1, <2>2, <2>3
<1> QED BY <1>1, <1>3, <1>4

(* A call under way still points at its handover after any entry.           *)
LEMMA PointingKept ==
  ASSUME log \in Seq(Entry), AcceptingAnswers,
         NEW e \in Entry, log' = Append(log, e),
         \A s \in Session : accepting'[s] \in {accepting[s], Idle}
  PROVE  AcceptingAnswers'
<1>1. /\ DOMAIN log \subseteq DOMAIN log'
      /\ \A n \in DOMAIN log : log'[n] = log[n]
  BY Appended
<1>2. SUFFICES ASSUME NEW s \in Session, accepting'[s] # Idle
               PROVE  /\ accepting'[s].seq \in DOMAIN log'
                      /\ log'[accepting'[s].seq].action = "transferred"
                      /\ log'[accepting'[s].seq].item = accepting'[s].item
                      /\ log'[accepting'[s].seq].to = accepting'[s].actor
                      /\ log'[accepting'[s].seq].from = accepting'[s].from
  BY DEF AcceptingAnswers, Idle
<1>3. accepting'[s] = accepting[s] /\ accepting[s] # Idle
  BY <1>2
<1> QED BY <1>1, <1>3 DEF AcceptingAnswers

-----------------------------------------------------------------------------
(* The empty log with no call under way satisfies the invariant.            *)
LEMMA Initially == Init => IndInv
BY DEF Init, IndInv, TypeOK, AcceptanceAnswersHandover, AcceptingAnswers, HandoversNamed, Idle

(* A step that writes an entry and starts no acceptance.                    *)
LEMMA WritingKeeps ==
  ASSUME IndInv, NEW e \in Entry, log' = Append(log, e),
         accepting' = [s \in Session |-> accepting'[s]],
         \A s \in Session : accepting'[s] \in {accepting[s], Idle},
         raced' \subseteq Item,
         e.action = "transferred" => (e.from \in Examiner /\ Ingested(e.item)),
         e.action = "accepted" =>
            (/\ e.ref \in DOMAIN log
             /\ log[e.ref].action = "transferred" /\ log[e.ref].item = e.item
             /\ log[e.ref].to = e.actor /\ log[e.ref].from = e.from)
  PROVE  IndInv'
<1>1. /\ log \in Seq(Entry)
      /\ \A s \in Session : \/ accepting[s] = Idle
                            \/ accepting[s] \in [item: Item, actor: Examiner,
                                                 from: Examiner, seq: Nat \ {0}]
      /\ AcceptanceAnswersHandover /\ AcceptingAnswers /\ HandoversNamed
  BY DEF IndInv, TypeOK
<1>2. log' \in Seq(Entry)
  BY <1>1
<1>3. TypeOK'
  BY <1>1, <1>2 DEF TypeOK, Idle
<1>4. AcceptanceAnswersHandover'
  BY <1>1, AnswersKept
<1>5. HandoversNamed'
  BY <1>1, NamedKept
<1>6. AcceptingAnswers'
  BY <1>1, PointingKept
<1> QED BY <1>3, <1>4, <1>5, <1>6 DEF IndInv

(* The race bookkeeping names items only.                                   *)
LEMMA RacesTyped ==
  ASSUME TypeOK, NEW i \in Item, NEW s, Races(i, s)
  PROVE  raced' \subseteq Item
BY DEF TypeOK, Races

(* Entries that move no custody.                                            *)
LEMMA IngestKeeps ==
  ASSUME IndInv, NEW x \in Examiner, NEW i \in Item, Ingest(x, i) \/ Touch(x, i)
  PROVE  IndInv'
<1>1. PICK e \in Entry : log' = Append(log, e) /\ e.action \in {"ingested", "other"}
  BY DEF Ingest, Touch, Write, Entry
<1>2. UNCHANGED <<accepting, raced>>
  BY DEF Ingest, Touch
<1>3. accepting = [s \in Session |-> accepting[s]] /\ raced \subseteq Item
  BY DEF IndInv, TypeOK
<1> QED BY <1>1, <1>2, <1>3, WritingKeeps

(* transfer_custody: a handover by the caller, of an ingested item.         *)
LEMMA TransferKeeps ==
  ASSUME IndInv, NEW s \in Session, NEW x \in Examiner, NEW to \in Examiner, NEW i \in Item,
         TransferCustody(s, x, to, i)
  PROVE  IndInv'
<1> DEFINE e == [action |-> "transferred", item |-> i, actor |-> x,
                 from |-> x, to |-> to, ref |-> 0]
<1>1. e \in Entry
  BY DEF Entry
<1>2. log' = Append(log, e) /\ Ingested(i) /\ UNCHANGED accepting /\ Races(i, s)
  BY DEF TransferCustody, Write
<1>3. accepting = [r \in Session |-> accepting[r]] /\ TypeOK
  BY DEF IndInv
<1>4. raced' \subseteq Item
  BY <1>2, <1>3, RacesTyped
<1>5. e.action = "transferred" /\ e.from \in Examiner /\ e.item = i
  OBVIOUS
<1> HIDE DEF e
<1> QED BY <1>1, <1>2, <1>3, <1>4, <1>5, WritingKeeps

(* The read of accept_custody: the invariant of the calls under way starts  *)
(* from the handover just read, and its check of the recipient.             *)
LEMMA AcceptReadKeeps ==
  ASSUME IndInv, NEW s \in Session, NEW x \in Examiner, NEW i \in Item,
         AcceptRead(s, x, i)
  PROVE  IndInv'
<1> DEFINE n == PendingTransfer(i)
           a == [item |-> i, actor |-> x, from |-> log[n].from, seq |-> n]
<1>1. /\ log \in Seq(Entry) /\ raced \subseteq Item /\ TypeOK
      /\ accepting = [r \in Session |-> accepting[r]]
      /\ \A r \in Session : \/ accepting[r] = Idle
                            \/ accepting[r] \in [item: Item, actor: Examiner,
                                                 from: Examiner, seq: Nat \ {0}]
      /\ AcceptanceAnswersHandover /\ AcceptingAnswers /\ HandoversNamed
  BY DEF IndInv, TypeOK
<1>2. /\ n # 0 /\ log[n].to = x
      /\ accepting' = [accepting EXCEPT ![s] = a]
      /\ UNCHANGED <<log, raced>>
  BY DEF AcceptRead
<1>3. n \in DOMAIN log /\ log[n].action = "transferred" /\ log[n].item = i
  BY <1>1, <1>2, PendingIsHandover
<1>4. log[n].from \in Examiner /\ n \in Nat \ {0}
  BY <1>1, <1>3 DEF HandoversNamed
<1> HIDE DEF n
<1>5. /\ accepting'[s] = a
      /\ \A r \in Session \ {s} : accepting'[r] = accepting[r]
      /\ accepting' = [r \in Session |-> accepting'[r]]
  BY <1>1, <1>2
<1>6. a \in [item: Item, actor: Examiner, from: Examiner, seq: Nat \ {0}]
  BY <1>4
<1>7. TypeOK'
  <2>1. log' \in Seq(Entry) /\ raced' \subseteq Item
    BY <1>1, <1>2
  <2>2. \A r \in Session :
           \/ accepting'[r] = Idle
           \/ accepting'[r] \in [item: Item, actor: Examiner, from: Examiner, seq: Nat \ {0}]
    BY <1>1, <1>5, <1>6
  <2> QED BY <2>1, <2>2 DEF TypeOK, Idle
<1>8. AcceptingAnswers'
  <2> SUFFICES ASSUME NEW r \in Session, accepting'[r] # Idle
               PROVE  /\ accepting'[r].seq \in DOMAIN log
                      /\ log[accepting'[r].seq].action = "transferred"
                      /\ log[accepting'[r].seq].item = accepting'[r].item
                      /\ log[accepting'[r].seq].to = accepting'[r].actor
                      /\ log[accepting'[r].seq].from = accepting'[r].from
    BY <1>2 DEF AcceptingAnswers, Idle
  <2>1. CASE r = s
    BY <1>2, <1>3, <1>5, <2>1
  <2>2. CASE r # s
    BY <1>1, <1>5, <2>2 DEF AcceptingAnswers
  <2> QED BY <2>1, <2>2
<1>9. AcceptanceAnswersHandover' /\ HandoversNamed'
  BY <1>1, <1>2 DEF AcceptanceAnswersHandover, HandoversNamed, Ingested, Positions
<1> QED BY <1>5, <1>7, <1>8, <1>9 DEF IndInv

(* ... and its write, which looks at nothing again.                         *)
LEMMA AcceptWriteKeeps ==
  ASSUME IndInv, NEW s \in Session, AcceptWrite(s)
  PROVE  /\ IndInv'
         /\ \E e \in Entry : /\ log' = Append(log, e)
                             /\ e.action = "accepted"
                             /\ e.ref \in DOMAIN log
                             /\ log[e.ref].action = "transferred"
                             /\ log[e.ref].item = e.item
                             /\ log[e.ref].to = e.actor
<1> DEFINE a == accepting[s]
           e == [action |-> "accepted", item |-> a.item, actor |-> a.actor,
                 from |-> a.from, to |-> a.actor, ref |-> a.seq]
<1>1. /\ TypeOK /\ AcceptingAnswers /\ accepting = [r \in Session |-> accepting[r]]
      /\ a # Idle /\ log' = Append(log, e)
      /\ accepting' = [accepting EXCEPT ![s] = Idle]
      /\ Races(a.item, s)
  BY DEF IndInv, AcceptWrite, Write
<1>2. a \in [item: Item, actor: Examiner, from: Examiner, seq: Nat \ {0}]
  BY <1>1 DEF TypeOK
<1>3. e \in Entry
  BY <1>2 DEF Entry
<1>4. /\ a.seq \in DOMAIN log
      /\ log[a.seq].action = "transferred" /\ log[a.seq].item = a.item
      /\ log[a.seq].to = a.actor /\ log[a.seq].from = a.from
  BY <1>1 DEF AcceptingAnswers
<1>5. raced' \subseteq Item
  BY <1>1, <1>2, RacesTyped
<1>6. /\ accepting' = [r \in Session |-> accepting'[r]]
      /\ \A r \in Session : accepting'[r] \in {accepting[r], Idle}
  BY <1>1
<1>7. /\ e.action = "accepted" /\ e.item = a.item /\ e.actor = a.actor
      /\ e.from = a.from /\ e.ref = a.seq
  OBVIOUS
<1> HIDE DEF e, a
<1>8. IndInv'
  BY <1>1, <1>3, <1>4, <1>5, <1>6, <1>7, WritingKeeps
<1> QED BY <1>1, <1>3, <1>4, <1>7, <1>8

(* A call that ends without its write leaves the log as it was.             *)
LEMMA AcceptFailsKeeps ==
  ASSUME IndInv, NEW s \in Session, AcceptFails(s)
  PROVE  IndInv'
<1>1. /\ TypeOK /\ AcceptingAnswers /\ AcceptanceAnswersHandover /\ HandoversNamed
      /\ accepting = [r \in Session |-> accepting[r]]
      /\ accepting' = [accepting EXCEPT ![s] = Idle]
      /\ UNCHANGED <<log, raced>>
  BY DEF IndInv, AcceptFails
<1>2. /\ accepting' = [r \in Session |-> accepting'[r]]
      /\ \A r \in Session : accepting'[r] \in {accepting[r], Idle}
  BY <1>1
<1>3. TypeOK'
  BY <1>1, <1>2 DEF TypeOK, Idle
<1>4. AcceptingAnswers'
  BY <1>1, <1>2 DEF AcceptingAnswers, Idle
<1>5. AcceptanceAnswersHandover' /\ HandoversNamed'
  BY <1>1 DEF AcceptanceAnswersHandover, HandoversNamed, Ingested, Positions
<1> QED BY <1>2, <1>3, <1>4, <1>5 DEF IndInv

(* One case for each action of Next.                                        *)
LEMMA StepKeeps == IndInv /\ [Next]_vars => IndInv'
<1> SUFFICES ASSUME IndInv, [Next]_vars
             PROVE  IndInv'
  OBVIOUS
<1>1. ASSUME NEW i \in Item, NEW x \in Examiner, Ingest(x, i) \/ Touch(x, i)
      PROVE  IndInv'
  BY <1>1, IngestKeeps
<1>2. ASSUME NEW s \in Session, NEW i \in Item, NEW x \in Examiner, NEW to \in Examiner,
             TransferCustody(s, x, to, i)
      PROVE  IndInv'
  BY <1>2, TransferKeeps
<1>3. ASSUME NEW s \in Session, NEW i \in Item, NEW x \in Examiner, AcceptRead(s, x, i)
      PROVE  IndInv'
  BY <1>3, AcceptReadKeeps
<1>4. ASSUME NEW s \in Session, AcceptWrite(s)
      PROVE  IndInv'
  BY <1>4, AcceptWriteKeeps
<1>5. ASSUME NEW s \in Session, AcceptFails(s)
      PROVE  IndInv'
  BY <1>5, AcceptFailsKeeps
<1>6. CASE UNCHANGED vars
  BY <1>6 DEF vars, IndInv, TypeOK, AcceptanceAnswersHandover, AcceptingAnswers,
              HandoversNamed, Ingested, Positions, Idle
<1> QED BY <1>1, <1>2, <1>3, <1>4, <1>5, <1>6 DEF Next

(* Typing, answered acceptances, calls pointing at a handover to their      *)
(* caller, and handovers of ingested items only: together inductive under   *)
(* transfer_custody, both halves of accept_custody, and everything else     *)
(* that writes to the log.                                                  *)
THEOREM HandoversAnswered == Spec => []IndInv
BY Initially, StepKeeps, PTL DEF Spec

(* Log, calls under way and race history keep their types.                  *)
THEOREM TransferTyped == Spec => []TypeOK
<1>1. IndInv => TypeOK
  BY DEF IndInv
<1> QED BY <1>1, HandoversAnswered, PTL

(* Only the named recipient accepts: although the transaction of            *)
(* accept_custody (service.py) looks at nothing again, every acceptance in  *)
(* the log answers an earlier handover of the item to the accepting         *)
(* examiner, however many sessions race.                                    *)
THEOREM RecipientAccepts == Spec => []AcceptanceAnswersHandover
<1>1. IndInv => AcceptanceAnswersHandover
  BY DEF IndInv
<1> QED BY <1>1, HandoversAnswered, PTL

-----------------------------------------------------------------------------
(* The holder, read off the log.                                            *)

(* Only an ingest or an acceptance of the item can move its holder.         *)
LEMMA HolderKept ==
  ASSUME log \in Seq(Entry), NEW e \in Entry, log' = Append(log, e), NEW i \in Item,
         ~(e.item = i /\ e.action \in {"ingested", "accepted"})
  PROVE  CurrentHolder(i)' = CurrentHolder(i)
<1> DEFINE S == Positions(i, {"ingested", "accepted"})
<1>1. /\ Len(log) \in Nat /\ DOMAIN log = 1..Len(log)
      /\ DOMAIN log' = 1..(Len(log) + 1)
      /\ \A n \in DOMAIN log : log'[n] = log[n]
      /\ log'[Len(log) + 1] = e
  BY Appended
<1>2. S' = S /\ S \in SUBSET (1..Len(log))
  BY <1>1 DEF Positions
<1>3. Latest(S) # 0 => Latest(S) \in DOMAIN log
  BY <1>1, <1>2, LatestIn
<1>4. Latest(S') = Latest(S)
  BY <1>2
<1>5. CurrentHolder(i) = IF Latest(S) = 0 THEN Nobody ELSE log[Latest(S)].actor
  BY DEF CurrentHolder
<1>6. CurrentHolder(i)' = IF Latest(S') = 0 THEN Nobody ELSE log'[Latest(S')].actor
  BY DEF CurrentHolder, Latest, Positions
<1> HIDE DEF S
<1> QED BY <1>1, <1>3, <1>4, <1>5, <1>6

(* After an acceptance, the holder is the examiner who accepted.            *)
LEMMA HolderMoves ==
  ASSUME log \in Seq(Entry), NEW e \in Entry, log' = Append(log, e), e.action = "accepted"
  PROVE  CurrentHolder(e.item)' = e.actor
<1> DEFINE S == Positions(e.item, {"ingested", "accepted"})
<1>1. /\ Len(log) \in Nat /\ DOMAIN log = 1..Len(log)
      /\ DOMAIN log' = 1..(Len(log) + 1)
      /\ \A n \in DOMAIN log : log'[n] = log[n]
      /\ log'[Len(log) + 1] = e
  BY Appended
<1>2. S' = S \cup {Len(log) + 1} /\ S \in SUBSET (1..Len(log))
  BY <1>1 DEF Positions
<1>3. Latest(S') = Len(log) + 1
  BY <1>1, <1>2, LatestAdded
<1>4. CurrentHolder(e.item)' = IF Latest(S') = 0 THEN Nobody ELSE log'[Latest(S')].actor
  BY DEF CurrentHolder, Latest, Positions
<1> HIDE DEF S
<1> QED BY <1>1, <1>3, <1>4

(* Only an ingested item has a holder: an acceptance answers a handover,    *)
(* and only ingested items are handed over.                                 *)
LEMMA HeldIsIngested ==
  ASSUME IndInv, NEW i \in Item, CurrentHolder(i) # Nobody
  PROVE  Ingested(i)
<1> DEFINE S == Positions(i, {"ingested", "accepted"})
<1>1. Len(log) \in Nat /\ DOMAIN log = 1..Len(log)
  BY DEF IndInv, TypeOK
<1>2. S \in SUBSET (1..Len(log)) /\ Latest(S) # 0
  BY <1>1 DEF Positions, CurrentHolder
<1>3. PICK n \in DOMAIN log : log[n].item = i /\ log[n].action \in {"ingested", "accepted"}
  BY <1>2, LatestIn, <1>1 DEF Positions
<1>4. CASE log[n].action = "ingested"
  BY <1>3, <1>4 DEF Ingested, Positions
<1>5. CASE log[n].action = "accepted"
  <2> DEFINE t == log[n].ref
  <2>1. t \in 1..(n - 1) /\ log[t].action = "transferred" /\ log[t].item = i
    BY <1>3, <1>5 DEF IndInv, AcceptanceAnswersHandover
  <2>2. t \in DOMAIN log
    BY <1>1, <1>3, <2>1
  <2> QED BY <2>1, <2>2 DEF IndInv, HandoversNamed
<1> QED BY <1>3, <1>4, <1>5

(* What a step that writes e does to the holder of i.                       *)
LEMMA HolderStep ==
  ASSUME IndInv, NEW e \in Entry, log' = Append(log, e), NEW i \in Item,
         CurrentHolder(i) \notin {Nobody, CurrentHolder(i)'},
         e.action = "ingested" => ~Ingested(e.item),
         e.action = "accepted" =>
            (/\ e.ref \in DOMAIN log
             /\ log[e.ref].action = "transferred" /\ log[e.ref].item = e.item
             /\ log[e.ref].to = e.actor)
  PROVE  LET l == log'[Len(log')]
         IN  /\ l.action = "accepted" /\ l.item = i /\ l.actor = CurrentHolder(i)'
             /\ \E n \in DOMAIN log : /\ log[n].action = "transferred"
                                      /\ log[n].item = i /\ log[n].to = l.actor
<1>1. log \in Seq(Entry)
  BY DEF IndInv, TypeOK
<1>2. log'[Len(log')] = e
  BY <1>1, Appended
<1>3. e.item = i /\ e.action \in {"ingested", "accepted"}
  BY <1>1, HolderKept
<1>4. Ingested(i)
  BY HeldIsIngested
<1>5. e.action = "accepted"
  BY <1>3, <1>4
<1>6. CurrentHolder(i)' = e.actor
  <2>1. CurrentHolder(e.item)' = e.actor
    BY <1>1, <1>5, HolderMoves
  <2> QED BY <1>3, <2>1
<1> QED BY <1>2, <1>3, <1>5, <1>6

(* A handover nobody acknowledged moves nothing (transfer_custody,          *)
(* service.py): the holder of an ingested item changes only by an           *)
(* acceptance of the new holder, to whom the item had been handed over,     *)
(* for any number of racing sessions and any length of the log.             *)
THEOREM HolderMovesByAcceptance == Spec => HolderByAcceptance
<1> DEFINE Moved(i) ==
             LET l == log'[Len(log')]
             IN  /\ l.action = "accepted" /\ l.item = i /\ l.actor = CurrentHolder(i)'
                 /\ \E n \in DOMAIN log : /\ log[n].action = "transferred"
                                          /\ log[n].item = i /\ log[n].to = l.actor
           Step == \A i \in Item : CurrentHolder(i) \notin {Nobody, CurrentHolder(i)'} => Moved(i)
<1>1. IndInv /\ [Next]_vars => [Step]_vars
  <2> SUFFICES ASSUME IndInv, Next, NEW i \in Item,
                      CurrentHolder(i) \notin {Nobody, CurrentHolder(i)'}
               PROVE  Moved(i)
    OBVIOUS
  <2>1. ASSUME NEW j \in Item, NEW x \in Examiner, Ingest(x, j) \/ Touch(x, j)
        PROVE  Moved(i)
    <3>1. PICK e \in Entry : /\ log' = Append(log, e)
                             /\ e.action \in {"ingested", "other"}
                             /\ e.action = "ingested" => ~Ingested(e.item)
      BY <2>1 DEF Ingest, Touch, Write, Entry
    <3> QED BY <3>1, HolderStep
  <2>2. ASSUME NEW s \in Session, NEW j \in Item, NEW x \in Examiner, NEW to \in Examiner,
               TransferCustody(s, x, to, j)
        PROVE  Moved(i)
    <3>1. PICK e \in Entry : log' = Append(log, e) /\ e.action = "transferred"
      BY <2>2 DEF TransferCustody, Write, Entry
    <3> QED BY <3>1, HolderStep
  <2>3. ASSUME NEW s \in Session, AcceptWrite(s)
        PROVE  Moved(i)
    <3>1. PICK e \in Entry : /\ log' = Append(log, e)
                             /\ e.action = "accepted"
                             /\ e.ref \in DOMAIN log
                             /\ log[e.ref].action = "transferred"
                             /\ log[e.ref].item = e.item
                             /\ log[e.ref].to = e.actor
      BY <2>3, AcceptWriteKeeps
    <3> QED BY <3>1, HolderStep
  <2>4. ASSUME log' = log
        PROVE  FALSE
    BY <2>4 DEF CurrentHolder, Positions, Latest
  <2>5. /\ \A s \in Session, j \in Item, x \in Examiner : ~AcceptRead(s, x, j)
        /\ \A s \in Session : ~AcceptFails(s)
    BY <2>4 DEF AcceptRead, AcceptFails
  <2> HIDE DEF Moved, Step
  <2>6. CASE \E j \in Item, x \in Examiner : Ingest(x, j) \/ Touch(x, j)
    BY <2>1, <2>6
  <2>7. CASE \E s \in Session, j \in Item, x \in Examiner, to \in Examiner :
                TransferCustody(s, x, to, j)
    BY <2>2, <2>7
  <2>8. CASE \E s \in Session : AcceptWrite(s)
    BY <2>3, <2>8
  <2> QED BY <2>5, <2>6, <2>7, <2>8 DEF Next
<1>2. Spec => [][Step]_vars
  BY <1>1, HandoversAnswered, PTL DEF Spec
<1> QED BY <1>2 DEF HolderByAcceptance

-----------------------------------------------------------------------------
(* Where nothing raced.  An acceptance under way rests on the pending       *)
(* transfer of the moment unless its item is marked as raced, because every *)
(* other session's write about the item marks it.                           *)

ReadsCurrent ==
    \A s \in Session :
       accepting[s] # Idle /\ accepting[s].item \notin raced =>
          accepting[s].seq = PendingTransfer(accepting[s].item)

RaceInv == ReadsCurrent /\ PendingUnlessRaced /\ OneAcceptanceUnlessRaced

(* What Latest says of the handovers and of the custody entries of an item. *)
LEMMA PositionsTyped ==
  ASSUME log \in Seq(Entry), NEW i, NEW actions
  PROVE  Positions(i, actions) \in SUBSET (1..Len(log)) /\ Len(log) \in Nat
BY DEF Positions

(* A pending transfer is the last handover, and nobody has accepted it.     *)
LEMMA PendingIsLast ==
  ASSUME log \in Seq(Entry), NEW i \in Item, PendingTransfer(i) # 0
  PROVE  Latest(Positions(i, {"transferred"})) = PendingTransfer(i)
<1> DEFINE P == Positions(i, {"transferred", "accepted"})
           T == Positions(i, {"transferred"})
<1>1. P \in SUBSET (1..Len(log)) /\ T \in SUBSET (1..Len(log)) /\ Len(log) \in Nat
  BY PositionsTyped
<1>2. T \subseteq P
  BY DEF Positions
<1>3. /\ PendingTransfer(i) = Latest(P) /\ Latest(P) # 0
      /\ log[Latest(P)].action = "transferred"
  BY DEF PendingTransfer
<1>4. Latest(P) \in P /\ \A m \in P : m <= Latest(P)
  BY <1>1, <1>3, LatestIn
<1>5. Latest(P) \in T
  BY <1>3, <1>4 DEF Positions
<1>6. Latest(T) \in T /\ \A m \in T : m <= Latest(T)
  BY <1>1, <1>5, LatestIn
<1>7. Latest(T) \in 1..Len(log) /\ Latest(P) \in 1..Len(log)
  <2> HIDE DEF P, T
  <2> QED BY <1>1, <1>4, <1>6
<1>8. Latest(T) <= Latest(P) /\ Latest(P) <= Latest(T)
  <2> HIDE DEF P, T
  <2> QED BY <1>2, <1>4, <1>5, <1>6
<1> HIDE DEF P, T
<1>9. Latest(T) = Latest(P)
  BY <1>1, <1>7, <1>8
<1> QED BY <1>3, <1>9 DEF T

(* An entry about another item, or no custody entry, changes neither what   *)
(* is pending nor what was accepted.                                        *)
LEMMA PendingKept ==
  ASSUME log \in Seq(Entry), NEW e \in Entry, log' = Append(log, e), NEW i \in Item,
         ~(e.item = i /\ e.action \in {"transferred", "accepted"}),
         e.action = "accepted" => (e.ref \in DOMAIN log /\ log[e.ref].item = e.item)
  PROVE  /\ PendingTransfer(i)' = PendingTransfer(i)
         /\ LatestUnaccepted(i)' = LatestUnaccepted(i)
<1> DEFINE P == Positions(i, {"transferred", "accepted"})
           T == Positions(i, {"transferred"})
<1>1. /\ Len(log) \in Nat /\ DOMAIN log = 1..Len(log)
      /\ DOMAIN log' = 1..(Len(log) + 1)
      /\ \A n \in DOMAIN log : log'[n] = log[n]
      /\ log'[Len(log) + 1] = e
  BY Appended
<1>2. P' = P /\ T' = T
  BY <1>1 DEF Positions
<1>3. P \in SUBSET (1..Len(log)) /\ T \in SUBSET (1..Len(log))
  BY PositionsTyped
<1>4. /\ Latest(P) # 0 => Latest(P) \in DOMAIN log
      /\ Latest(T) # 0 => Latest(T) \in T
  BY <1>1, <1>3, LatestIn
<1>5. PendingTransfer(i) = IF Latest(P) # 0 /\ log[Latest(P)].action = "transferred"
                           THEN Latest(P) ELSE 0
  BY DEF PendingTransfer
<1>6. PendingTransfer(i)' = IF Latest(P') # 0 /\ log'[Latest(P')].action = "transferred"
                            THEN Latest(P') ELSE 0
  BY DEF PendingTransfer, Latest, Positions
<1>7. PendingTransfer(i)' = PendingTransfer(i)
  <2> HIDE DEF P, T
  <2> QED BY <1>1, <1>2, <1>4, <1>5, <1>6
<1>8. ASSUME NEW t \in DOMAIN log, log[t].item = i
      PROVE  {n \in DOMAIN log' : log'[n].action = "accepted" /\ log'[n].ref = t}
               = {n \in DOMAIN log : log[n].action = "accepted" /\ log[n].ref = t}
  BY <1>1, <1>8
<1>9. Latest(T) # 0 => Latest(T) \in DOMAIN log /\ log[Latest(T)].item = i
  BY <1>4 DEF Positions
<1>10. LatestUnaccepted(i) =
          IF Latest(T) # 0
             /\ {n \in DOMAIN log : log[n].action = "accepted" /\ log[n].ref = Latest(T)} = {}
          THEN Latest(T) ELSE 0
  BY DEF LatestUnaccepted, AcceptedBy
<1>11. LatestUnaccepted(i)' =
          IF Latest(T') # 0
             /\ {n \in DOMAIN log' : log'[n].action = "accepted" /\ log'[n].ref = Latest(T')} = {}
          THEN Latest(T') ELSE 0
  BY DEF LatestUnaccepted, AcceptedBy, Latest, Positions
<1>12. LatestUnaccepted(i)' = LatestUnaccepted(i)
  <2> HIDE DEF T
  <2> QED BY <1>2, <1>8, <1>9, <1>10, <1>11
<1> QED BY <1>7, <1>12

(* A handover is pending at once, and not accepted.                         *)
LEMMA PendingAfterHandover ==
  ASSUME IndInv, NEW e \in Entry, log' = Append(log, e), e.action = "transferred"
  PROVE  PendingTransfer(e.item)' = LatestUnaccepted(e.item)'
<1> DEFINE P == Positions(e.item, {"transferred", "accepted"})
           T == Positions(e.item, {"transferred"})
           N == Len(log)
<1>1. log \in Seq(Entry) /\ AcceptanceAnswersHandover
  BY DEF IndInv, TypeOK
<1>2. /\ Len(log) \in Nat /\ DOMAIN log = 1..Len(log)
      /\ DOMAIN log' = 1..(Len(log) + 1)
      /\ \A n \in DOMAIN log : log'[n] = log[n]
      /\ log'[Len(log) + 1] = e
  BY <1>1, Appended
<1>3. P' = P \cup {N + 1} /\ T' = T \cup {N + 1}
  BY <1>2 DEF Positions
<1>4. P \in SUBSET (1..N) /\ T \in SUBSET (1..N)
  BY <1>1, PositionsTyped
<1>5. Latest(P') = N + 1 /\ Latest(T') = N + 1
  BY <1>2, <1>3, <1>4, LatestAdded
<1>6. {n \in DOMAIN log' : log'[n].action = "accepted" /\ log'[n].ref = N + 1} = {}
  <2> SUFFICES ASSUME NEW n \in DOMAIN log', log'[n].action = "accepted", log'[n].ref = N + 1
               PROVE  FALSE
    OBVIOUS
  <2>1. n \in DOMAIN log /\ log'[n] = log[n]
    BY <1>2
  <2>2. log[n].ref \in 1..(n - 1)
    BY <1>1, <2>1 DEF AcceptanceAnswersHandover
  <2> QED BY <1>2, <2>1, <2>2
<1>7. PendingTransfer(e.item)' = IF Latest(P') # 0 /\ log'[Latest(P')].action = "transferred"
                                 THEN Latest(P') ELSE 0
  BY DEF PendingTransfer, Latest, Positions
<1>8. LatestUnaccepted(e.item)' =
         IF Latest(T') # 0
            /\ {n \in DOMAIN log' : log'[n].action = "accepted" /\ log'[n].ref = Latest(T')} = {}
         THEN Latest(T') ELSE 0
  BY DEF LatestUnaccepted, AcceptedBy, Latest, Positions
<1> HIDE DEF P, T
<1> QED BY <1>2, <1>5, <1>6, <1>7, <1>8

(* An acceptance of what is pending leaves nothing pending or unaccepted.   *)
LEMMA PendingAfterAcceptance ==
  ASSUME log \in Seq(Entry), NEW e \in Entry, log' = Append(log, e),
         e.action = "accepted", e.ref = PendingTransfer(e.item), e.ref # 0
  PROVE  PendingTransfer(e.item)' = LatestUnaccepted(e.item)'
<1> DEFINE P == Positions(e.item, {"transferred", "accepted"})
           T == Positions(e.item, {"transferred"})
           N == Len(log)
<1>1. /\ Len(log) \in Nat /\ DOMAIN log = 1..Len(log)
      /\ DOMAIN log' = 1..(Len(log) + 1)
      /\ \A n \in DOMAIN log : log'[n] = log[n]
      /\ log'[Len(log) + 1] = e
  BY Appended
<1>2. P' = P \cup {N + 1} /\ T' = T
  BY <1>1 DEF Positions
<1>3. P \in SUBSET (1..N)
  BY PositionsTyped
<1>4. Latest(P') = N + 1
  BY <1>1, <1>2, <1>3, LatestAdded
<1>5. e.item \in Item
  BY DEF Entry
<1>6. Latest(T) = e.ref
  BY <1>5, PendingIsLast
<1>7. Latest(T') = e.ref
  BY <1>2, <1>6
<1>8. N + 1 \in {n \in DOMAIN log' : log'[n].action = "accepted" /\ log'[n].ref = e.ref}
  BY <1>1
<1>9. PendingTransfer(e.item)' = IF Latest(P') # 0 /\ log'[Latest(P')].action = "transferred"
                                 THEN Latest(P') ELSE 0
  BY DEF PendingTransfer, Latest, Positions
<1>10. LatestUnaccepted(e.item)' =
         IF Latest(T') # 0
            /\ {n \in DOMAIN log' : log'[n].action = "accepted" /\ log'[n].ref = Latest(T')} = {}
         THEN Latest(T') ELSE 0
  BY DEF LatestUnaccepted, AcceptedBy, Latest, Positions
<1> HIDE DEF P, T
<1>11. PendingTransfer(e.item)' = 0
  BY <1>1, <1>4, <1>9
<1>12. LatestUnaccepted(e.item)' = 0
  BY <1>7, <1>8, <1>10
<1> QED BY <1>11, <1>12

(* A write that marks what it races with keeps the two apart.               *)
LEMMA RaceWriteKeeps ==
  ASSUME IndInv, RaceInv, NEW e \in Entry, log' = Append(log, e),
         \A s \in Session : accepting'[s] \in {accepting[s], Idle},
         raced \subseteq raced',
         e.action \in {"transferred", "accepted"} =>
            \A s \in Session : accepting'[s] # Idle /\ accepting'[s].item = e.item
                                  => e.item \in raced',
         e.action = "accepted" =>
            /\ e.ref \in DOMAIN log /\ log[e.ref].item = e.item
            /\ e.item \notin raced' => e.ref = PendingTransfer(e.item)
  PROVE  RaceInv'
<1>1. /\ log \in Seq(Entry)
      /\ ReadsCurrent /\ PendingUnlessRaced /\ OneAcceptanceUnlessRaced
  BY DEF IndInv, TypeOK, RaceInv
<1>2. /\ Len(log) \in Nat /\ DOMAIN log = 1..Len(log)
      /\ DOMAIN log' = 1..(Len(log) + 1)
      /\ \A n \in DOMAIN log : log'[n] = log[n]
      /\ log'[Len(log) + 1] = e
  BY <1>1, Appended
<1>3. ASSUME NEW i \in Item, ~(e.item = i /\ e.action \in {"transferred", "accepted"})
      PROVE  /\ PendingTransfer(i)' = PendingTransfer(i)
             /\ LatestUnaccepted(i)' = LatestUnaccepted(i)
  BY <1>1, <1>3, PendingKept
<1>4. e.action = "accepted" => e.ref # 0
  BY <1>2
<1>5. PendingUnlessRaced'
  <2> SUFFICES ASSUME NEW i \in Item \ raced'
               PROVE  PendingTransfer(i)' = LatestUnaccepted(i)'
    BY DEF PendingUnlessRaced
  <2>1. CASE ~(e.item = i /\ e.action \in {"transferred", "accepted"})
    BY <1>1, <1>3, <2>1 DEF PendingUnlessRaced
  <2>2. CASE e.item = i /\ e.action = "transferred"
    <3>1. PendingTransfer(e.item)' = LatestUnaccepted(e.item)'
      BY <2>2, PendingAfterHandover
    <3> QED BY <2>2, <3>1
  <2>3. CASE e.item = i /\ e.action = "accepted"
    <3>1. PendingTransfer(e.item)' = LatestUnaccepted(e.item)'
      BY <1>1, <1>4, <2>3, PendingAfterAcceptance
    <3> QED BY <2>3, <3>1
  <2> QED BY <2>1, <2>2, <2>3
<1>6. ReadsCurrent'
  <2> SUFFICES ASSUME NEW s \in Session, accepting'[s] # Idle, accepting'[s].item \notin raced'
               PROVE  accepting'[s].seq = PendingTransfer(accepting[s].item)'
    BY DEF ReadsCurrent, Idle
  <2>1. accepting'[s] = accepting[s] /\ accepting[s] # Idle
    OBVIOUS
  <2>2. accepting[s].item \in Item
    BY <2>1 DEF IndInv, TypeOK
  <2>3. ~(e.item = accepting[s].item /\ e.action \in {"transferred", "accepted"})
    BY <2>1
  <2>4. accepting[s].seq = PendingTransfer(accepting[s].item)
    BY <1>1, <2>1 DEF ReadsCurrent
  <2>5. \A i \in Item : i = accepting[s].item => PendingTransfer(i)' = PendingTransfer(i)
    BY <1>3, <2>3
  <2> QED BY <2>1, <2>2, <2>4, <2>5
<1>7. OneAcceptanceUnlessRaced'
  <2> SUFFICES ASSUME NEW t \in DOMAIN log', NEW m \in DOMAIN log', NEW n \in DOMAIN log',
                      log'[m].action = "accepted", log'[m].ref = t,
                      log'[n].action = "accepted", log'[n].ref = t,
                      log'[t].item \notin raced'
               PROVE  m = n
    BY DEF OneAcceptanceUnlessRaced, AcceptedBy
  <2>1. ASSUME NEW r \in DOMAIN log, log[r].action = "accepted", log[r].ref = t
        PROVE  e.action = "accepted" => e.ref # t
    <3> SUFFICES ASSUME e.action = "accepted", e.ref = t PROVE FALSE
      OBVIOUS
    <3>1. t \in DOMAIN log /\ log'[t] = log[t] /\ log[t].item = e.item
      BY <1>2
    <3>2. e.item \notin raced' /\ e.item \in Item
      BY <3>1 DEF Entry
    <3>3. t = PendingTransfer(e.item)
      BY <3>2
    <3>4. t = LatestUnaccepted(e.item) /\ t # 0
      BY <1>1, <1>4, <3>2, <3>3 DEF PendingUnlessRaced
    <3>5. AcceptedBy(t) = {}
      BY <3>4 DEF LatestUnaccepted
    <3> QED BY <2>1, <3>5 DEF AcceptedBy
  <2>2. CASE m \in DOMAIN log /\ n \in DOMAIN log
    <3>1. m \in AcceptedBy(t) /\ n \in AcceptedBy(t)
      BY <1>2, <2>2 DEF AcceptedBy
    <3>2. t \in DOMAIN log
      BY <1>2, <2>2 DEF IndInv, AcceptanceAnswersHandover
    <3>3. log[t].item \notin raced
      BY <1>2, <3>2
    <3> QED BY <1>1, <3>1, <3>2, <3>3 DEF OneAcceptanceUnlessRaced
  <2>3. CASE m = Len(log) + 1 /\ n = Len(log) + 1
    BY <2>3
  <2>4. CASE m \in DOMAIN log /\ n = Len(log) + 1
    BY <1>2, <2>1, <2>4
  <2>5. CASE m = Len(log) + 1 /\ n \in DOMAIN log
    BY <1>2, <2>1, <2>5
  <2> QED BY <1>2, <2>2, <2>3, <2>4, <2>5
<1> QED BY <1>5, <1>6, <1>7 DEF RaceInv

(* What is read off the log is a function of the log.                       *)
LEMMA SameLog ==
  ASSUME log' = log
  PROVE  /\ \A i \in Item : /\ PendingTransfer(i)' = PendingTransfer(i)
                          /\ LatestUnaccepted(i)' = LatestUnaccepted(i)
         /\ \A t : AcceptedBy(t)' = AcceptedBy(t)
<1>1. \A i, A : Positions(i, A)' = Positions(i, A)
  BY DEF Positions
<1>2. \A t : AcceptedBy(t)' = AcceptedBy(t)
  BY DEF AcceptedBy
<1>3. ASSUME NEW i \in Item
      PROVE  PendingTransfer(i)' = PendingTransfer(i)
  <2> DEFINE P == Positions(i, {"transferred", "accepted"})
  <2>1. P' = P
    BY <1>1
  <2>2. PendingTransfer(i) = IF Latest(P) # 0 /\ log[Latest(P)].action = "transferred"
                             THEN Latest(P) ELSE 0
    BY DEF PendingTransfer
  <2>3. PendingTransfer(i)' = IF Latest(P') # 0 /\ log'[Latest(P')].action = "transferred"
                              THEN Latest(P') ELSE 0
    BY DEF PendingTransfer, Latest, Positions
  <2> HIDE DEF P
  <2> QED BY <2>1, <2>2, <2>3
<1>4. ASSUME NEW i \in Item
      PROVE  LatestUnaccepted(i)' = LatestUnaccepted(i)
  <2> DEFINE T == Positions(i, {"transferred"})
  <2>1. T' = T
    BY <1>1
  <2>2. LatestUnaccepted(i) = IF Latest(T) # 0 /\ AcceptedBy(Latest(T)) = {}
                              THEN Latest(T) ELSE 0
    BY DEF LatestUnaccepted
  <2>3. LatestUnaccepted(i)' =
           IF Latest(T') # 0
              /\ {n \in DOMAIN log' : log'[n].action = "accepted" /\ log'[n].ref = Latest(T')} = {}
           THEN Latest(T') ELSE 0
    BY DEF LatestUnaccepted, AcceptedBy, Latest, Positions
  <2>4. AcceptedBy(Latest(T))
          = {n \in DOMAIN log' : log'[n].action = "accepted" /\ log'[n].ref = Latest(T)}
    BY DEF AcceptedBy
  <2> HIDE DEF T
  <2> QED BY <2>1, <2>2, <2>3, <2>4
<1> QED BY <1>2, <1>3, <1>4

(* Steps that leave the log alone and start no acceptance.                  *)
LEMMA RaceQuietKeeps ==
  ASSUME TypeOK, RaceInv, UNCHANGED <<log, raced>>,
         \A s \in Session : accepting'[s] \in {accepting[s], Idle}
  PROVE  RaceInv'
<1>1. ReadsCurrent'
  <2> SUFFICES ASSUME NEW s \in Session, accepting'[s] # Idle, accepting'[s].item \notin raced'
               PROVE  accepting'[s].seq = PendingTransfer(accepting[s].item)'
    BY DEF ReadsCurrent, Idle
  <2>1. accepting'[s] = accepting[s] /\ accepting[s] # Idle /\ accepting[s].item \in Item
    BY DEF TypeOK
  <2>2. accepting[s].seq = PendingTransfer(accepting[s].item)
    BY <2>1 DEF RaceInv, ReadsCurrent
  <2>3. \A i \in Item : PendingTransfer(i)' = PendingTransfer(i)
    BY SameLog
  <2>4. \A i \in Item : i = accepting[s].item => PendingTransfer(i)' = PendingTransfer(i)
    BY <2>3
  <2> QED BY <2>1, <2>2, <2>4
<1>2. PendingUnlessRaced' /\ OneAcceptanceUnlessRaced'
  BY SameLog DEF RaceInv, PendingUnlessRaced, OneAcceptanceUnlessRaced
<1> QED BY <1>1, <1>2 DEF RaceInv

(* Every step keeps the two apart.                                          *)
LEMMA RaceStepKeeps == IndInv /\ RaceInv /\ [Next]_vars => RaceInv'
<1> SUFFICES ASSUME IndInv, RaceInv, [Next]_vars
             PROVE  RaceInv'
  OBVIOUS
<1>1. TypeOK /\ AcceptingAnswers /\ accepting = [s \in Session |-> accepting[s]]
  BY DEF IndInv
<1>2. ASSUME NEW i \in Item, NEW x \in Examiner, Ingest(x, i) \/ Touch(x, i)
      PROVE  RaceInv'
  <2>1. PICK e \in Entry : log' = Append(log, e) /\ e.action \in {"ingested", "other"}
    BY <1>2 DEF Ingest, Touch, Write, Entry
  <2>2. UNCHANGED <<accepting, raced>>
    BY <1>2 DEF Ingest, Touch
  <2> QED BY <2>1, <2>2, RaceWriteKeeps
<1>3. ASSUME NEW s \in Session, NEW i \in Item, NEW x \in Examiner, NEW to \in Examiner,
             TransferCustody(s, x, to, i)
      PROVE  RaceInv'
  <2>1. PICK e \in Entry : log' = Append(log, e) /\ e.action = "transferred" /\ e.item = i
    BY <1>3 DEF TransferCustody, Write, Entry
  <2>2. accepting[s] = Idle /\ UNCHANGED accepting /\ Races(i, s)
    BY <1>3 DEF TransferCustody
  <2>3. raced \subseteq raced'
        /\ \A r \in Session : accepting'[r] # Idle /\ accepting'[r].item = i => i \in raced'
    BY <2>2 DEF Races
  <2> QED BY <2>1, <2>2, <2>3, RaceWriteKeeps
<1>4. ASSUME NEW s \in Session, NEW i \in Item, NEW x \in Examiner, AcceptRead(s, x, i)
      PROVE  RaceInv'
  <2> DEFINE a == [item |-> i, actor |-> x, from |-> log[PendingTransfer(i)].from,
                   seq |-> PendingTransfer(i)]
  <2>1. accepting' = [accepting EXCEPT ![s] = a] /\ UNCHANGED <<log, raced>>
    BY <1>4 DEF AcceptRead
  <2>2. a.item = i /\ a.seq = PendingTransfer(i)
    OBVIOUS
  <2> HIDE DEF a
  <2>3. ReadsCurrent'
    <3> SUFFICES ASSUME NEW r \in Session, accepting'[r] # Idle, accepting'[r].item \notin raced'
                 PROVE  accepting'[r].seq = PendingTransfer(accepting[r].item)'
      BY DEF ReadsCurrent, Idle
    <3>1. /\ accepting'[r].item \in Item
          /\ \A j \in Item : j = accepting'[r].item => accepting'[r].seq = PendingTransfer(j)
      <4>1. CASE r = s
        BY <1>1, <2>1, <2>2, <4>1
      <4>2. CASE r # s
        <5>1. accepting'[r] = accepting[r] /\ accepting[r] # Idle
          BY <1>1, <2>1, <4>2
        <5> QED BY <1>1, <2>1, <5>1 DEF RaceInv, ReadsCurrent, TypeOK
      <4> QED BY <4>1, <4>2
    <3>2. \A j \in Item : PendingTransfer(j)' = PendingTransfer(j)
      BY <2>1, SameLog
    <3>3. \A j \in Item : j = accepting'[r].item => PendingTransfer(j)' = accepting'[r].seq
      BY <3>1, <3>2
    <3> QED BY <3>1, <3>3
  <2>4. PendingUnlessRaced' /\ OneAcceptanceUnlessRaced'
    BY <2>1, SameLog DEF RaceInv, PendingUnlessRaced, OneAcceptanceUnlessRaced
  <2> QED BY <2>3, <2>4 DEF RaceInv
<1>5. ASSUME NEW s \in Session, AcceptWrite(s)
      PROVE  RaceInv'
  <2> DEFINE a == accepting[s]
             e == [action |-> "accepted", item |-> a.item, actor |-> a.actor,
                   from |-> a.from, to |-> a.actor, ref |-> a.seq]
  <2>1. /\ a # Idle /\ log' = Append(log, e) /\ Races(a.item, s)
        /\ accepting' = [accepting EXCEPT ![s] = Idle]
    BY <1>5 DEF AcceptWrite, Write
  <2>2. a \in [item: Item, actor: Examiner, from: Examiner, seq: Nat \ {0}]
    BY <1>1, <2>1 DEF TypeOK
  <2>3. /\ e \in Entry /\ e.action = "accepted" /\ e.item = a.item /\ e.ref = a.seq
    BY <2>2 DEF Entry
  <2>4. a.seq \in DOMAIN log /\ log[a.seq].item = a.item
    BY <1>1, <2>1 DEF AcceptingAnswers
  <2>5. /\ raced \subseteq raced'
        /\ \A r \in Session : accepting'[r] \in {accepting[r], Idle}
        /\ \A r \in Session : accepting'[r] # Idle /\ accepting'[r].item = a.item
                                 => a.item \in raced'
    BY <1>1, <2>1 DEF Races
  <2>6. a.item \notin raced' => a.seq = PendingTransfer(a.item)
    BY <2>1, <2>5 DEF RaceInv, ReadsCurrent
  <2> HIDE DEF a, e
  <2> QED BY <2>1, <2>3, <2>4, <2>5, <2>6, RaceWriteKeeps
<1>6. ASSUME NEW s \in Session, AcceptFails(s)
      PROVE  RaceInv'
  BY <1>1, <1>6, RaceQuietKeeps DEF AcceptFails
<1>7. CASE UNCHANGED vars
  BY <1>1, <1>7, RaceQuietKeeps DEF vars
<1> QED BY <1>2, <1>3, <1>4, <1>5, <1>6, <1>7 DEF Next

(* With both invariants, the reads of calls under way are current except    *)
(* where another session wrote about the item.                              *)
THEOREM RacesMarked == Spec => []RaceInv
<1>1. Init => RaceInv
  BY LatestIn DEF Init, RaceInv, ReadsCurrent, PendingUnlessRaced, OneAcceptanceUnlessRaced,
         PendingTransfer, LatestUnaccepted, AcceptedBy, Positions, Latest
<1> QED BY <1>1, RaceStepKeeps, HandoversAnswered, PTL DEF Spec

(* pending_transfer is the latest transfer not accepted (its docstring,     *)
(* service.py:808) for every item whose custody never moved under an        *)
(* acceptance between its read and its write.                               *)
THEOREM PendingIsUnaccepted == Spec => []PendingUnlessRaced
<1>1. RaceInv => PendingUnlessRaced
  BY DEF RaceInv
<1> QED BY <1>1, RacesMarked, PTL

(* ... and of such an item a handover is accepted at most once.             *)
THEOREM AcceptedOnce == Spec => []OneAcceptanceUnlessRaced
<1>1. RaceInv => OneAcceptanceUnlessRaced
  BY DEF RaceInv
<1> QED BY <1>1, RacesMarked, PTL
=============================================================================
