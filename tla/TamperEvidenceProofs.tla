------------------------- MODULE TamperEvidenceProofs ------------------------
(***************************************************************************)
(* What holds of TamperEvidence for any contents and any number of         *)
(* entries, raw changes and reports: what verify accepts is what was       *)
(* written, a printed head pins everything before it, and verify names     *)
(* what was edited or deleted and keeps naming it.                         *)
(***************************************************************************)
EXTENDS TamperEvidence, PositionFacts, SequenceTheorems, TLAPS

-----------------------------------------------------------------------------
(* Lemmas about the operators of chain.py *)

(* head() returns values of the right types, whatever the table holds.      *)
LEMMA ChainHeadType ==
  ASSUME NEW L \in Seq(Entry)
  PROVE  ChainHead(L) \in [seq: Nat, entry_hash: Digest]
<1>1. CASE L = << >>
  BY <1>1 DEF ChainHead, ZeroDigest, Digest, Payload
<1>2. CASE L # << >>
  <2>1. L[Len(L)] \in Entry
    BY <1>2
  <2> QED BY <1>2, <2>1 DEF ChainHead, Entry
<1> QED BY <1>1, <1>2

(* The record append_entry builds is an entry, and carries its own digest.  *)
LEMMA NextEntryType ==
  ASSUME NEW t \in [seq: Nat, entry_hash: Digest], NEW b \in Body
  PROVE  LET e == NextEntry(t, b)
         IN  /\ e \in Entry
             /\ e.entry_hash = EntryHash(e.seq, e.body, e.prev_hash)
             /\ e.seq = t.seq + 1
<1>1. EntryHash(t.seq + 1, b, t.entry_hash) \in Digest
  BY DEF EntryHash, CanonicalPayload, Digest, Payload
<1> QED BY <1>1 DEF NextEntry, Entry

(* A digest names everything hashed into it.                                *)
LEMMA HashInjective ==
  ASSUME NEW s \in Nat, NEW b \in Body, NEW p \in Digest,
         NEW t \in Nat, NEW c \in Body, NEW q \in Digest,
         EntryHash(s, b, p) = EntryHash(t, c, q)
  PROVE  s = t /\ b = c /\ p = q
<1>1. <<s, b>> \in Payload /\ <<t, c>> \in Payload
  BY DEF Payload
<1>2. Append(p, <<s, b>>) = Append(q, <<t, c>>)
  BY DEF EntryHash, CanonicalPayload
<1>3. p \in Seq(Payload) /\ q \in Seq(Payload)
  BY DEF Digest
<1>4. \A d, e \in Payload : Append(p, d) = Append(q, e) => p = q /\ d = e
  BY <1>3, AppendInjective
<1>5. <<s, b>> = <<t, c>> /\ p = q
  BY <1>1, <1>2, <1>4
<1> QED BY <1>5

(* Entries that agree in their columns are the same.                        *)
LEMMA SameEntry ==
  ASSUME NEW e \in Entry, NEW f \in Entry, e.seq = f.seq, e.body = f.body,
         e.prev_hash = f.prev_hash, e.entry_hash = f.entry_hash
  PROVE  e = f
BY DEF Entry

(* Two tables that verify and agree on one entry's digest agree on that     *)
(* entry and on every one before it.                                        *)
LEMMA DigestPinsPrefix ==
  ASSUME NEW A \in Seq(Entry), NEW B \in Seq(Entry), Intact(A), Intact(B),
         NEW n \in Nat, n \in DOMAIN A, n \in DOMAIN B,
         A[n].entry_hash = B[n].entry_hash
  PROVE  \A p \in 1..n : A[p] = B[p]
<1> DEFINE Differ == {p \in 1..n : A[p] # B[p]}
<1>1. ASSUME NEW p \in 1..n, A[p].entry_hash = B[p].entry_hash
      PROVE  A[p] = B[p]
  <2>1. p \in DOMAIN A /\ p \in DOMAIN B /\ A[p] \in Entry /\ B[p] \in Entry
    OBVIOUS
  <2>2. ~Altered(A, p) /\ ~Altered(B, p)
    BY <2>1 DEF Intact, BrokenPositions, Broken
  <2>3. EntryHash(A[p].seq, A[p].body, A[p].prev_hash)
          = EntryHash(B[p].seq, B[p].body, B[p].prev_hash)
    BY <1>1, <2>2 DEF Altered
  <2>4. /\ A[p].seq \in Nat /\ A[p].body \in Body /\ A[p].prev_hash \in Digest
        /\ B[p].seq \in Nat /\ B[p].body \in Body /\ B[p].prev_hash \in Digest
    BY <2>1 DEF Entry
  <2>5. A[p].seq = B[p].seq /\ A[p].body = B[p].body /\ A[p].prev_hash = B[p].prev_hash
    BY <2>3, <2>4, HashInjective
  <2> QED BY <1>1, <2>1, <2>5, SameEntry
<1>2. ASSUME Differ # {} PROVE FALSE
  <2>1. PICK p \in Differ : \A q \in Differ : q <= p
    BY <1>2, GreatestExists
  <2>2. p \in 1..n /\ p # n
    BY <1>1
  <2>3. A[p + 1] = B[p + 1]
    BY <2>1, <2>2
  <2>4. /\ p + 1 \in DOMAIN A /\ p + 1 \in DOMAIN B /\ p + 1 # 1 /\ (p + 1) - 1 = p
    BY <2>2
  <2>5. /\ A[p + 1].prev_hash = A[p].entry_hash
        /\ B[p + 1].prev_hash = B[p].entry_hash
    BY <2>4 DEF Intact, BrokenPositions, Broken, WrongPredecessor, ExpectedPrev
  <2> QED BY <1>1, <2>1, <2>2, <2>3, <2>5
<1> QED BY <1>2

(* The positions append_entry leaves alone keep their verdict.              *)
LEMMA VerdictKept ==
  ASSUME NEW L \in Seq(Entry), NEW e \in Entry, NEW p \in DOMAIN L
  PROVE  /\ p \in DOMAIN Append(L, e) /\ Append(L, e)[p] = L[p]
         /\ Broken(Append(L, e), p) <=> Broken(L, p)
<1> DEFINE M == Append(L, e)
<1>1. /\ p \in 1..Len(L) /\ DOMAIN M = 1..(Len(L) + 1)
      /\ \A q \in 1..Len(L) : M[q] = L[q]
  OBVIOUS
<1>2. M[p] = L[p] /\ (p # 1 => M[p - 1] = L[p - 1])
  BY <1>1
<1> HIDE DEF M
<1>3. Broken(M, p) <=> Broken(L, p)
  BY <1>2 DEF Broken, SequenceBreak, WrongPredecessor, ExpectedPrev, Altered
<1>4. p \in DOMAIN M
  BY <1>1
<1> QED BY <1>2, <1>3, <1>4 DEF M

-----------------------------------------------------------------------------
(* The inductive invariant.  The raw changes move rows about and edit their *)
(* bodies and numbers, but a row keeps the two digests it was inserted      *)
(* with; so a row that carries its own digest is the one that was inserted. *)

InSeqOrder ==
    /\ \A p \in DOMAIN rows : rows[p].seq > 0
    /\ \A p, q \in DOMAIN rows : p < q => rows[p].seq < rows[q].seq

DigestsWritten ==
    \A p \in DOMAIN rows : \E w \in written :
       rows[p].prev_hash = w.prev_hash /\ rows[p].entry_hash = w.entry_hash

WrittenSound ==
    \A w \in written : w.entry_hash = EntryHash(w.seq, w.body, w.prev_hash)

PinsSound ==
    \A r \in reports : /\ r.ok => Intact(r.rows)
                       /\ r.head = ChainHead(r.rows).entry_hash

IndInv == TypeOK /\ InSeqOrder /\ DigestsWritten /\ WrittenSound /\ PinsSound

(* The empty table satisfies it.                                            *)
LEMMA Initially == Init => IndInv
BY BoundAssumption
   DEF Init, IndInv, TypeOK, InSeqOrder, DigestsWritten, WrittenSound, PinsSound

(* append_entry, be it called for a report or not.                          *)
LEMMA AppendedKeeps ==
  ASSUME IndInv, NEW b \in Body, Appended(b)
  PROVE  /\ rows' \in Seq(Entry) /\ Len(rows') <= MaxEntries /\ written' \subseteq Entry
         /\ InSeqOrder' /\ DigestsWritten' /\ WrittenSound'
<1> DEFINE e == NextEntry(ChainHead(rows), b)
<1>1. /\ rows \in Seq(Entry) /\ written \subseteq Entry
      /\ InSeqOrder /\ DigestsWritten /\ WrittenSound
  BY DEF IndInv, TypeOK
<1>2. e \in Entry /\ e.entry_hash = EntryHash(e.seq, e.body, e.prev_hash)
      /\ e.seq = ChainHead(rows).seq + 1 /\ ChainHead(rows).seq \in Nat
  BY <1>1, ChainHeadType, NextEntryType
<1>3. Len(rows) < MaxEntries /\ rows' = Append(rows, e) /\ written' = written \cup {e}
  BY DEF Appended
<1> HIDE DEF e
<1>4. /\ rows' \in Seq(Entry) /\ Len(rows') = Len(rows) + 1
      /\ DOMAIN rows = 1..Len(rows) /\ DOMAIN rows' = 1..(Len(rows) + 1)
      /\ \A p \in DOMAIN rows : rows'[p] = rows[p]
      /\ rows'[Len(rows) + 1] = e
  BY <1>1, <1>2, <1>3
<1>5. \A p \in DOMAIN rows : rows[p].seq < e.seq
  <2> SUFFICES ASSUME NEW p \in DOMAIN rows PROVE rows[p].seq < e.seq
    OBVIOUS
  <2>1. ChainHead(rows).seq = rows[Len(rows)].seq
    BY <1>4 DEF ChainHead
  <2>2. p = Len(rows) \/ rows[p].seq < rows[Len(rows)].seq
    BY <1>1, <1>4 DEF InSeqOrder
  <2>3. rows[p] \in Entry /\ rows[Len(rows)] \in Entry
    BY <1>1, <1>4
  <2>4. rows[p].seq \in Nat /\ rows[Len(rows)].seq \in Nat
    BY <2>3 DEF Entry
  <2> QED BY <1>2, <2>1, <2>2, <2>4
<1>6. InSeqOrder'
  <2>1. e.seq > 0
    BY <1>2
  <2> QED BY <1>1, <1>4, <1>5, <2>1 DEF InSeqOrder
<1>7. DigestsWritten'
  BY <1>1, <1>3, <1>4 DEF DigestsWritten
<1>8. WrittenSound'
  BY <1>1, <1>2, <1>3 DEF WrittenSound
<1>9. Len(rows') <= MaxEntries
  BY <1>1, <1>3, <1>4, BoundAssumption
<1> QED BY <1>1, <1>2, <1>3, <1>4, <1>6, <1>7, <1>8, <1>9

LEMMA AppendEntryKeeps ==
  ASSUME IndInv, NEW b \in Body, AppendEntry(b)
  PROVE  IndInv'
BY AppendedKeeps DEF AppendEntry, IndInv, TypeOK, PinsSound

(* build_case_report pins what verify finds, then appends.                  *)
LEMMA IssueReportKeeps ==
  ASSUME IndInv, NEW b \in Body, IssueReport(b)
  PROVE  IndInv'
<1>1. rows \in Seq(Entry) /\ TypeOK /\ PinsSound
  BY DEF IndInv, TypeOK
<1>2. reports' = reports \cup {Pin} /\ UNCHANGED edits /\ Appended(b)
  BY DEF IssueReport
<1>3. /\ Pin.ok \in BOOLEAN /\ Pin.n = Len(Pin.rows) /\ Pin.rows \in Seq(Entry)
      /\ Pin.head = ChainHead(Pin.rows).entry_hash
      /\ Pin.ok => Intact(Pin.rows)
  BY <1>1 DEF Pin, Verify, Intact
<1>4. Pin.head \in Digest
  BY <1>3, ChainHeadType
<1>5. PinsSound'
  BY <1>1, <1>2, <1>3 DEF PinsSound
<1>6. TypeOK'
  BY <1>1, <1>2, <1>3, <1>4, AppendedKeeps DEF TypeOK
<1> QED BY <1>2, <1>5, <1>6, AppendedKeeps DEF IndInv

(* A raw change, whatever it does, leaves each row the digests of some row. *)
LEMMA RawChangeKeeps ==
  ASSUME IndInv, RawChange,
         rows' \in Seq(Entry), Len(rows') <= Len(rows), InSeqOrder',
         \A p \in DOMAIN rows' : \E q \in DOMAIN rows :
            /\ rows'[p].prev_hash = rows[q].prev_hash
            /\ rows'[p].entry_hash = rows[q].entry_hash
  PROVE  IndInv'
<1>1. TypeOK /\ DigestsWritten /\ WrittenSound /\ PinsSound
  BY DEF IndInv
<1>2. edits < MaxEdits /\ edits' = edits + 1 /\ written' = written /\ reports' = reports
  BY DEF RawChange
<1>3. TypeOK'
  <2>1. Len(rows') <= MaxEntries
    BY <1>1, BoundAssumption DEF TypeOK
  <2>2. edits' \in 0..MaxEdits
    BY <1>1, <1>2, BoundAssumption DEF TypeOK
  <2> QED BY <1>1, <1>2, <2>1, <2>2 DEF TypeOK
<1>4. DigestsWritten'
  BY <1>1, <1>2 DEF DigestsWritten
<1>5. WrittenSound' /\ PinsSound'
  BY <1>1, <1>2 DEF WrittenSound, PinsSound
<1> QED BY <1>3, <1>4, <1>5 DEF IndInv

(* UPDATE of one row's body.                                                *)
LEMMA EditRowKeeps ==
  ASSUME IndInv, NEW p \in Positions, NEW b \in Body, EditRow(p, b)
  PROVE  IndInv'
<1>1. /\ rows \in Seq(Entry) /\ InSeqOrder /\ RawChange
      /\ p \in DOMAIN rows /\ rows' = [rows EXCEPT ![p].body = b]
  BY DEF IndInv, TypeOK, EditRow
<1>2. rows[p] \in Entry /\ [rows[p] EXCEPT !.body = b] \in Entry
  <2>1. rows[p] \in Entry
    BY <1>1
  <2> QED BY <2>1 DEF Entry
<1>3. /\ DOMAIN rows' = DOMAIN rows
      /\ rows'[p] = [rows[p] EXCEPT !.body = b]
      /\ \A q \in DOMAIN rows \ {p} : rows'[q] = rows[q]
  BY <1>1
<1>4. rows' \in Seq(Entry) /\ Len(rows') = Len(rows)
  BY <1>1, <1>2, ExceptSeq
<1>5. \A q \in DOMAIN rows : /\ rows'[q].seq = rows[q].seq
                             /\ rows'[q].prev_hash = rows[q].prev_hash
                             /\ rows'[q].entry_hash = rows[q].entry_hash
  BY <1>1, <1>2, <1>3 DEF Entry
<1>6. InSeqOrder'
  BY <1>1, <1>3, <1>5 DEF InSeqOrder
<1>7. Len(rows') <= Len(rows)
  BY <1>1, <1>4
<1> QED BY <1>1, <1>3, <1>4, <1>5, <1>6, <1>7, RawChangeKeeps

(* What is left when one row is taken out.                                  *)
LEMMA WithoutIs ==
  ASSUME rows \in Seq(Entry), NEW p \in DOMAIN rows
  PROVE  /\ Without(p) \in Seq(Entry)
         /\ Len(Without(p)) = Len(rows) - 1
         /\ \A q \in 1..(Len(rows) - 1) :
               Without(p)[q] = IF q < p THEN rows[q] ELSE rows[q + 1]
<1> DEFINE A == SubSeq(rows, 1, p - 1)
           B == SubSeq(rows, p + 1, Len(rows))
<1>1. Len(rows) \in Nat /\ p \in 1..Len(rows)
  OBVIOUS
<1>2. /\ A \in Seq(Entry) /\ Len(A) = p - 1
      /\ \A q \in 1..(p - 1) : A[q] = rows[q]
  BY <1>1
<1>3. /\ B \in Seq(Entry) /\ Len(B) = Len(rows) - p
      /\ \A q \in 1..(Len(rows) - p) : B[q] = rows[p + q]
  BY <1>1
<1> HIDE DEF A, B
<1>4. /\ A \o B \in Seq(Entry)
      /\ Len(A \o B) = Len(A) + Len(B)
      /\ \A q \in 1..(Len(A) + Len(B)) :
            (A \o B)[q] = IF q <= Len(A) THEN A[q] ELSE B[q - Len(A)]
  BY <1>2, <1>3, ConcatProperties
<1>5. ASSUME NEW q \in 1..(Len(rows) - 1)
      PROVE  (A \o B)[q] = IF q < p THEN rows[q] ELSE rows[q + 1]
  <2>1. CASE q < p
    <3>1. q \in 1..(p - 1) /\ q <= Len(A) /\ q \in 1..(Len(A) + Len(B))
      BY <1>1, <1>2, <1>3, <2>1
    <3>2. (A \o B)[q] = A[q]
      BY <1>4, <3>1
    <3> QED BY <1>2, <2>1, <3>1, <3>2
  <2>2. CASE ~(q < p)
    <3>1. q - (p - 1) \in 1..(Len(rows) - p) /\ p + (q - (p - 1)) = q + 1
      BY <1>1, <2>2
    <3>2. B[q - (p - 1)] = rows[q + 1]
      BY <1>3, <3>1
    <3>3. q \in 1..(Len(A) + Len(B)) /\ ~(q <= Len(A))
      BY <1>1, <1>2, <1>3, <2>2
    <3>4. (A \o B)[q] = B[q - Len(A)]
      BY <1>4, <3>3
    <3> QED BY <1>2, <2>2, <3>2, <3>4
  <2> QED BY <2>1, <2>2
<1>6. Without(p) = A \o B
  BY DEF Without, A, B
<1>7. Len(A \o B) = Len(rows) - 1
  BY <1>1, <1>2, <1>3, <1>4
<1> QED BY <1>4, <1>5, <1>6, <1>7

(* DELETE of one row.                                                       *)
LEMMA DeleteRowKeeps ==
  ASSUME IndInv, NEW p \in Positions, DeleteRow(p)
  PROVE  IndInv'
<1>1. /\ rows \in Seq(Entry) /\ InSeqOrder /\ RawChange
      /\ p \in DOMAIN rows /\ rows' = Without(p)
  BY DEF IndInv, TypeOK, DeleteRow
<1>2. /\ Without(p) \in Seq(Entry)
      /\ Len(Without(p)) = Len(rows) - 1
      /\ \A q \in 1..(Len(rows) - 1) :
            Without(p)[q] = IF q < p THEN rows[q] ELSE rows[q + 1]
  BY <1>1, WithoutIs
<1>3. /\ rows' \in Seq(Entry) /\ Len(rows') = Len(rows) - 1
      /\ DOMAIN rows = 1..Len(rows) /\ DOMAIN rows' = 1..(Len(rows) - 1)
      /\ Len(rows) \in Nat
      /\ \A q \in 1..(Len(rows) - 1) : rows'[q] = IF q < p THEN rows[q] ELSE rows[q + 1]
  BY <1>1, <1>2
<1>4. \A q \in DOMAIN rows' : \E r \in DOMAIN rows : rows'[q] = rows[r]
  BY <1>3
<1>5. InSeqOrder'
  <2>1. \A q \in DOMAIN rows' : rows'[q].seq > 0
    BY <1>1, <1>4 DEF InSeqOrder
  <2>2. ASSUME NEW q \in DOMAIN rows', NEW r \in DOMAIN rows', q < r
        PROVE  rows'[q].seq < rows'[r].seq
    <3>1. /\ q \in DOMAIN rows /\ r \in DOMAIN rows
          /\ q + 1 \in DOMAIN rows /\ r + 1 \in DOMAIN rows
          /\ q < r /\ q < r + 1 /\ q + 1 < r + 1
      BY <1>3, <2>2
    <3>2. /\ rows[q].seq < rows[r].seq /\ rows[q].seq < rows[r + 1].seq
          /\ rows[q + 1].seq < rows[r + 1].seq
      BY <1>1, <3>1 DEF InSeqOrder
    <3>3. /\ rows'[q] = IF q < p THEN rows[q] ELSE rows[q + 1]
          /\ rows'[r] = IF r < p THEN rows[r] ELSE rows[r + 1]
      BY <1>3
    <3>4. r < p => q < p
      BY <1>1, <1>3, <2>2
    <3> QED BY <3>2, <3>3, <3>4
  <2> QED BY <2>1, <2>2 DEF InSeqOrder
<1>6. Len(rows') <= Len(rows)
  BY <1>3
<1> QED BY <1>1, <1>3, <1>4, <1>5, <1>6, RawChangeKeeps

(* DELETE of the tail.                                                      *)
LEMMA TruncateKeeps ==
  ASSUME IndInv, NEW k \in 0..MaxEntries, Truncate(k)
  PROVE  IndInv'
<1>1. /\ rows \in Seq(Entry) /\ InSeqOrder /\ RawChange
      /\ k \in 0..(Len(rows) - 2) /\ rows' = SubSeq(rows, 1, k)
  BY DEF IndInv, TypeOK, Truncate
<1>2. /\ rows' \in Seq(Entry) /\ Len(rows') = k
      /\ DOMAIN rows = 1..Len(rows) /\ DOMAIN rows' = 1..k
      /\ \A q \in 1..k : q \in DOMAIN rows /\ rows'[q] = rows[q]
  BY <1>1
<1>3. InSeqOrder'
  BY <1>1, <1>2 DEF InSeqOrder
<1>4. Len(rows') <= Len(rows)
  BY <1>1, <1>2
<1> QED BY <1>1, <1>2, <1>3, <1>4, RawChangeKeeps

(* Two rows trade places, keeping the seq of the place.                     *)
LEMMA SwapRowsKeeps ==
  ASSUME IndInv, NEW p \in Positions, NEW q \in Positions, SwapRows(p, q)
  PROVE  IndInv'
<1> DEFINE rp == [rows[q] EXCEPT !.seq = rows[p].seq]
           rq == [rows[p] EXCEPT !.seq = rows[q].seq]
<1>1. /\ rows \in Seq(Entry) /\ InSeqOrder /\ RawChange
      /\ p \in DOMAIN rows /\ q \in DOMAIN rows /\ p < q
      /\ rows' = [rows EXCEPT ![p] = rp, ![q] = rq]
  BY DEF IndInv, TypeOK, SwapRows
<1>2. rows[p] \in Entry /\ rows[q] \in Entry
  BY <1>1
<1>3. /\ rp \in Entry /\ rp.seq = rows[p].seq
      /\ rp.prev_hash = rows[q].prev_hash /\ rp.entry_hash = rows[q].entry_hash
      /\ rq \in Entry /\ rq.seq = rows[q].seq
      /\ rq.prev_hash = rows[p].prev_hash /\ rq.entry_hash = rows[p].entry_hash
  BY <1>2 DEF Entry
<1> HIDE DEF rp, rq
<1>4. /\ DOMAIN rows' = DOMAIN rows /\ rows'[p] = rp /\ rows'[q] = rq
      /\ \A r \in DOMAIN rows \ {p, q} : rows'[r] = rows[r]
      /\ Len(rows') = Len(rows) /\ rows' \in Seq(Entry)
  <2> DEFINE once == [rows EXCEPT ![p] = rp]
  <2>1. once \in Seq(Entry) /\ Len(once) = Len(rows) /\ DOMAIN once = DOMAIN rows
    BY <1>1, <1>3, ExceptSeq
  <2>2. rows' = [once EXCEPT ![q] = rq]
    BY <1>1
  <2>3. rows' \in Seq(Entry) /\ Len(rows') = Len(once) /\ DOMAIN rows' = DOMAIN once
    BY <1>1, <1>3, <2>1, <2>2, ExceptSeq
  <2> QED BY <1>1, <2>1, <2>2, <2>3
<1>5. \A r \in DOMAIN rows : rows'[r].seq = rows[r].seq
  BY <1>3, <1>4
<1>6. InSeqOrder'
  BY <1>1, <1>4, <1>5 DEF InSeqOrder
<1>7. \A r \in DOMAIN rows' : \E s \in DOMAIN rows :
         rows'[r].prev_hash = rows[s].prev_hash /\ rows'[r].entry_hash = rows[s].entry_hash
  BY <1>1, <1>3, <1>4
<1>8. Len(rows') <= Len(rows)
  BY <1>1, <1>4
<1> QED BY <1>1, <1>4, <1>6, <1>7, <1>8, RawChangeKeeps

(* A row is deleted and the gap closed: the numbers stay positive because   *)
(* they were in order.                                                      *)
LEMMA DeleteAndRenumberKeeps ==
  ASSUME IndInv, NEW p \in Positions, DeleteAndRenumber(p)
  PROVE  IndInv'
<1> DEFINE New(q) == [Without(p)[q] EXCEPT !.seq = IF q < p THEN @ ELSE @ - 1]
<1>1. /\ rows \in Seq(Entry) /\ InSeqOrder /\ RawChange
      /\ Len(rows) \in Nat /\ DOMAIN rows = 1..Len(rows)
      /\ p \in 1..(Len(rows) - 1) /\ p \in DOMAIN rows
      /\ rows' = [q \in 1..(Len(rows) - 1) |-> New(q)]
  BY DEF IndInv, TypeOK, DeleteAndRenumber
<1>2. ASSUME NEW q \in 1..(Len(rows) - 1)
      PROVE  LET r == IF q < p THEN q ELSE q + 1
             IN  /\ New(q) \in Entry
                 /\ New(q).seq = IF q < p THEN rows[q].seq ELSE rows[q + 1].seq - 1
                 /\ New(q).seq > 0
                 /\ r \in DOMAIN rows
                 /\ New(q).prev_hash = rows[r].prev_hash
                 /\ New(q).entry_hash = rows[r].entry_hash
  <2> DEFINE r == IF q < p THEN q ELSE q + 1
  <2>0. \A t \in 1..(Len(rows) - 1) :
           Without(p)[t] = IF t < p THEN rows[t] ELSE rows[t + 1]
    BY <1>1, WithoutIs
  <2>1. r \in DOMAIN rows /\ Without(p)[q] = rows[r]
    BY <1>1, <2>0
  <2>2. rows[r] \in Entry /\ rows[r].seq > 0 /\ rows[r].seq \in Nat
    <3> HIDE DEF r
    <3>1. rows[r] \in Entry
      BY <1>1, <2>1
    <3> QED BY <1>1, <2>1, <3>1 DEF InSeqOrder, Entry
  <2>3. ~(q < p) => rows[q + 1].seq > rows[q].seq /\ rows[q].seq > 0 /\ rows[q].seq \in Nat
    <3>1. q \in DOMAIN rows /\ q + 1 \in DOMAIN rows /\ q < q + 1
      BY <1>1
    <3>2. rows[q] \in Entry
      BY <1>1, <3>1
    <3> QED BY <1>1, <3>1, <3>2 DEF InSeqOrder, Entry
  <2>4. /\ New(q).seq = IF q < p THEN rows[r].seq ELSE rows[r].seq - 1
        /\ New(q).prev_hash = rows[r].prev_hash
        /\ New(q).entry_hash = rows[r].entry_hash
        /\ New(q).body = rows[r].body
        /\ New(q) = [rows[r] EXCEPT !.seq = New(q).seq]
    BY <2>1, <2>2 DEF Entry
  <2>5. New(q).seq \in Nat /\ New(q).seq > 0
    BY <2>2, <2>3, <2>4
  <2>6. New(q) \in Entry
    BY <2>2, <2>4, <2>5 DEF Entry
  <2> QED BY <2>1, <2>4, <2>5, <2>6
<1> HIDE DEF New
<1>3. /\ rows' \in Seq(Entry) /\ Len(rows') = Len(rows) - 1
      /\ DOMAIN rows' = 1..(Len(rows) - 1)
      /\ \A q \in 1..(Len(rows) - 1) : rows'[q] = New(q)
  BY <1>1, <1>2
<1>4. InSeqOrder'
  <2>1. \A q \in DOMAIN rows' : rows'[q].seq > 0
    BY <1>2, <1>3
  <2>2. ASSUME NEW q \in DOMAIN rows', NEW s \in DOMAIN rows', q < s
        PROVE  rows'[q].seq < rows'[s].seq
    <3>1. /\ rows'[q].seq = IF q < p THEN rows[q].seq ELSE rows[q + 1].seq - 1
          /\ rows'[s].seq = IF s < p THEN rows[s].seq ELSE rows[s + 1].seq - 1
      BY <1>2, <1>3
    <3>2. /\ q \in DOMAIN rows /\ s \in DOMAIN rows
          /\ q + 1 \in DOMAIN rows /\ s + 1 \in DOMAIN rows
          /\ q < s /\ q + 1 < s + 1 /\ s < s + 1
      BY <1>1, <1>3, <2>2
    <3>3. /\ rows[q].seq < rows[s].seq /\ rows[s].seq < rows[s + 1].seq
          /\ rows[q + 1].seq < rows[s + 1].seq
      BY <1>1, <3>2 DEF InSeqOrder
    <3>4. rows[q] \in Entry /\ rows[s] \in Entry /\ rows[q + 1] \in Entry /\ rows[s + 1] \in Entry
      BY <1>1, <3>2
    <3>5. /\ rows[q].seq \in Nat /\ rows[s].seq \in Nat
          /\ rows[q + 1].seq \in Nat /\ rows[s + 1].seq \in Nat
      BY <3>4 DEF Entry
    <3>6. q \in Nat /\ s \in Nat /\ p \in Nat
      BY <1>1, <1>3
    <3>7. CASE s < p
      BY <2>2, <3>1, <3>3, <3>6, <3>7
    <3>8. CASE ~(s < p) /\ q < p
      BY <3>1, <3>3, <3>5, <3>8
    <3>9. CASE ~(s < p) /\ ~(q < p)
      BY <3>1, <3>3, <3>5, <3>9
    <3> QED BY <2>2, <3>6, <3>7, <3>8, <3>9
  <2> QED BY <2>1, <2>2 DEF InSeqOrder
<1>5. \A q \in DOMAIN rows' : \E r \in DOMAIN rows :
         rows'[q].prev_hash = rows[r].prev_hash /\ rows'[q].entry_hash = rows[r].entry_hash
  BY <1>2, <1>3
<1>6. Len(rows') <= Len(rows)
  BY <1>1, <1>3
<1> QED BY <1>1, <1>3, <1>4, <1>5, <1>6, RawChangeKeeps

(* One case for each action of Next.                                        *)
LEMMA StepKeeps == IndInv /\ [Next]_vars => IndInv'
<1> SUFFICES ASSUME IndInv, [Next]_vars PROVE IndInv'
  OBVIOUS
<1>1. ASSUME NEW b \in Body, AppendEntry(b) PROVE IndInv'
  BY <1>1, AppendEntryKeeps
<1>2. ASSUME NEW b \in Body, IssueReport(b) PROVE IndInv'
  BY <1>2, IssueReportKeeps
<1>3. ASSUME NEW p \in Positions, NEW b \in Body, EditRow(p, b) PROVE IndInv'
  BY <1>3, EditRowKeeps
<1>4. ASSUME NEW p \in Positions, DeleteRow(p) PROVE IndInv'
  BY <1>4, DeleteRowKeeps
<1>5. ASSUME NEW p \in Positions, DeleteAndRenumber(p) PROVE IndInv'
  BY <1>5, DeleteAndRenumberKeeps
<1>6. ASSUME NEW p \in Positions, NEW q \in Positions, SwapRows(p, q) PROVE IndInv'
  BY <1>6, SwapRowsKeeps
<1>7. ASSUME NEW k \in 0..MaxEntries, Truncate(k) PROVE IndInv'
  BY <1>7, TruncateKeeps
<1>8. CASE UNCHANGED vars
  BY <1>8 DEF vars, IndInv, TypeOK, InSeqOrder, DigestsWritten, WrittenSound, PinsSound
<1> QED BY <1>1, <1>2, <1>3, <1>4, <1>5, <1>6, <1>7, <1>8 DEF Next

-----------------------------------------------------------------------------
(* The order of the numbers, the written digests and the sound pins are     *)
(* together inductive under the application's appends and every raw change. *)
THEOREM TableInvariance == Spec => []IndInv
BY Initially, StepKeeps, PTL DEF Spec

(* Table, history and reports keep their types; in particular renumbering   *)
(* never takes a seq below 1.                                               *)
THEOREM TableTyped == Spec => []TypeOK
<1>1. IndInv => TypeOK
  BY DEF IndInv
<1> QED BY <1>1, TableInvariance, PTL

(* Nothing false verifies: whatever was edited, deleted, cut, swapped or    *)
(* renumbered, the rows of a table that chain.verify accepts are rows the   *)
(* application wrote.                                                       *)
THEOREM NothingFalseVerifies == Spec => []VerifiedRowsAreOriginal
<1>1. ASSUME IndInv, Intact(rows), NEW p \in DOMAIN rows
      PROVE  rows[p] \in written
  <2>1. PICK w \in written : rows[p].prev_hash = w.prev_hash
                             /\ rows[p].entry_hash = w.entry_hash
    BY <1>1 DEF IndInv, DigestsWritten
  <2>2. rows[p] \in Entry /\ w \in Entry
    BY <1>1 DEF IndInv, TypeOK
  <2>3. /\ rows[p].seq \in Nat /\ rows[p].body \in Body /\ rows[p].prev_hash \in Digest
        /\ w.seq \in Nat /\ w.body \in Body /\ w.prev_hash \in Digest
    BY <2>2 DEF Entry
  <2>4. EntryHash(rows[p].seq, rows[p].body, rows[p].prev_hash) = rows[p].entry_hash
    BY <1>1 DEF Intact, BrokenPositions, Broken, Altered
  <2>5. w.entry_hash = EntryHash(w.seq, w.body, w.prev_hash)
    BY <1>1 DEF IndInv, WrittenSound
  <2>6. rows[p].seq = w.seq /\ rows[p].body = w.body
    BY <2>1, <2>3, <2>4, <2>5, HashInjective
  <2>7. rows[p] = w
    BY <2>1, <2>2, <2>3, <2>6, SameEntry
  <2> QED BY <2>7
<1>2. IndInv => VerifiedRowsAreOriginal
  BY <1>1 DEF VerifiedRowsAreOriginal
<1> QED BY <1>2, TableInvariance, PTL

(* A printed head pins the past (docs/DESIGN.md:71-77): a table that        *)
(* verifies and shows it at its place has, up to there, the entries the     *)
(* report was issued over.                                                  *)
THEOREM PrintedHeadPins == Spec => []ReportPinsHistory
<1>1. ASSUME IndInv, NEW r \in reports, r.ok, r.n > 0, Intact(rows), r.n <= Len(rows),
             rows[r.n].entry_hash = r.head
      PROVE  SubSeq(rows, 1, r.n) = r.rows
  <2>1. /\ rows \in Seq(Entry) /\ r.rows \in Seq(Entry) /\ r.n = Len(r.rows)
        /\ Intact(r.rows) /\ r.head = ChainHead(r.rows).entry_hash
    BY <1>1 DEF IndInv, TypeOK, PinsSound
  <2>2. r.n \in Nat /\ r.n \in DOMAIN rows /\ r.n \in DOMAIN r.rows
    BY <1>1, <2>1
  <2>3. r.head = r.rows[r.n].entry_hash
    BY <1>1, <2>1, <2>2 DEF ChainHead
  <2>4. \A p \in 1..r.n : rows[p] = r.rows[p]
    BY <1>1, <2>1, <2>2, <2>3, DigestPinsPrefix
  <2>5. /\ SubSeq(rows, 1, r.n) \in Seq(Entry)
        /\ Len(SubSeq(rows, 1, r.n)) = r.n
        /\ \A p \in 1..r.n : SubSeq(rows, 1, r.n)[p] = rows[p]
    BY <2>1, <2>2
  <2>6. \A p \in 1..Len(r.rows) : SubSeq(rows, 1, r.n)[p] = r.rows[p]
    BY <2>1, <2>4, <2>5
  <2>7. Len(SubSeq(rows, 1, r.n)) = Len(r.rows)
    BY <2>1, <2>5
  <2> QED BY <2>1, <2>5, <2>6, <2>7, SeqEqual
<1>2. IndInv => ReportPinsHistory
  BY <1>1 DEF ReportPinsHistory
<1> QED BY <1>2, TableInvariance, PTL

(* verify names the first broken entry, the least of the broken positions.  *)
LEMMA FirstBrokenIs ==
  ASSUME NEW L, BrokenPositions(L) \in SUBSET Nat, NEW p \in BrokenPositions(L),
         \A q \in BrokenPositions(L) : p <= q
  PROVE  ~Intact(L) /\ FirstBroken(L) = p
<1>1. \A r \in BrokenPositions(L) : (\A q \in BrokenPositions(L) : r <= q) => r = p
  OBVIOUS
<1> QED BY <1>1 DEF Intact, FirstBroken

(* The verdict names the row: an edit of one row of a sound chain breaks    *)
(* that entry, as altered, and no other (chain.verify carries the recorded  *)
(* digest forward).                                                         *)
THEOREM EditNamed == Spec => EditNamedExactly
<1>1. ASSUME IndInv, NEW p \in Positions, NEW b \in Body, Intact(rows), EditRow(p, b)
      PROVE  /\ Verify(rows').broken_entries = {p}
             /\ Verify(rows').reason = "altered"
  <2>1. /\ rows \in Seq(Entry) /\ p \in DOMAIN rows /\ b # rows[p].body
        /\ rows' = [rows EXCEPT ![p].body = b]
    BY <1>1 DEF IndInv, TypeOK, EditRow
  <2>2. rows[p] \in Entry
    BY <2>1
  <2>3. /\ DOMAIN rows' = DOMAIN rows /\ DOMAIN rows \in SUBSET Nat
        /\ \A q \in DOMAIN rows \ {p} : rows'[q] = rows[q]
        /\ rows'[p].seq = rows[p].seq /\ rows'[p].body = b
        /\ rows'[p].prev_hash = rows[p].prev_hash
        /\ rows'[p].entry_hash = rows[p].entry_hash
    BY <2>1, <2>2 DEF Entry
  <2>4. \A q \in DOMAIN rows : ~Broken(rows, q)
    BY <1>1 DEF Intact, BrokenPositions
  <2>5. \A q \in DOMAIN rows : rows'[q].entry_hash = rows[q].entry_hash
    BY <2>3
  <2>6. \A q \in DOMAIN rows : q # 1 => q - 1 \in DOMAIN rows
    BY <2>1
  <2>7. ASSUME NEW q \in DOMAIN rows, q # p
        PROVE  ~Broken(rows', q)
    BY <2>3, <2>4, <2>5, <2>6, <2>7
       DEF Broken, SequenceBreak, WrongPredecessor, ExpectedPrev, Altered
  <2>8. ~SequenceBreak(rows', p) /\ ~WrongPredecessor(rows', p)
    BY <2>1, <2>3, <2>4, <2>5, <2>6
       DEF Broken, SequenceBreak, WrongPredecessor, ExpectedPrev
  <2>9. Altered(rows', p)
    <3>1. EntryHash(rows[p].seq, rows[p].body, rows[p].prev_hash) = rows[p].entry_hash
      BY <2>1, <2>4 DEF Broken, Altered
    <3>2. rows[p].seq \in Nat /\ rows[p].body \in Body /\ rows[p].prev_hash \in Digest
      BY <2>2 DEF Entry
    <3>3. EntryHash(rows[p].seq, b, rows[p].prev_hash) # rows[p].entry_hash
      BY <2>1, <3>1, <3>2, HashInjective
    <3> QED BY <2>3, <3>3 DEF Altered
  <2>10. BrokenPositions(rows') = {p}
    BY <2>1, <2>3, <2>7, <2>9 DEF BrokenPositions, Broken
  <2>11. ~Intact(rows') /\ FirstBroken(rows') = p
    <3>1. p \in Nat
      BY <2>1, <2>3
    <3> QED BY <2>10, <3>1, FirstBrokenIs
  <2>12. rows'[p].seq = p
    BY <2>1, <2>3, <2>4 DEF Broken, SequenceBreak
  <2>13. Verify(rows').broken_entries = {p}
    BY <2>10, <2>12 DEF Verify
  <2>14. Verify(rows').reason = "altered"
    BY <2>8, <2>11 DEF Verify, Reason
  <2> QED BY <2>13, <2>14
<1> DEFINE Named == \A p \in Positions, b \in Body :
                       Intact(rows) /\ EditRow(p, b) =>
                          /\ Verify(rows').broken_entries = {p}
                          /\ Verify(rows').reason = "altered"
<1>2. IndInv => Named
  BY <1>1
<1> HIDE DEF Named
<1>3. IndInv => [Named]_vars
  BY <1>2
<1>4. Spec => [][Named]_vars
  BY <1>3, TableInvariance, PTL
<1> QED BY <1>4 DEF EditNamedExactly, Named

(* A deleted row that was not the last breaks every entry after the gap,    *)
(* and the verdict names the first of them.                                 *)
THEOREM GapNamed == Spec => DeletionNamed
<1>1. ASSUME IndInv, NEW p \in Positions, Intact(rows), p < Len(rows), DeleteRow(p)
      PROVE  /\ Verify(rows').broken_entries = (p + 1)..Len(rows)
             /\ Verify(rows').first_broken_seq = p + 1
             /\ Verify(rows').reason = "sequence break"
  <2>1. /\ rows \in Seq(Entry) /\ p \in DOMAIN rows /\ rows' = Without(p)
        /\ Len(rows) \in Nat /\ DOMAIN rows = 1..Len(rows)
    BY <1>1 DEF IndInv, TypeOK, DeleteRow
  <2>2. /\ Without(p) \in Seq(Entry)
        /\ Len(Without(p)) = Len(rows) - 1
        /\ \A q \in 1..(Len(rows) - 1) :
              Without(p)[q] = IF q < p THEN rows[q] ELSE rows[q + 1]
    BY <2>1, WithoutIs
  <2>3. /\ DOMAIN rows' = 1..(Len(rows) - 1)
        /\ \A q \in 1..(Len(rows) - 1) : rows'[q] = IF q < p THEN rows[q] ELSE rows[q + 1]
    BY <2>1, <2>2
  <2>4. \A q \in DOMAIN rows : ~Broken(rows, q) /\ rows[q].seq = q
    BY <1>1 DEF Intact, BrokenPositions, Broken, SequenceBreak
  <2>5. ASSUME NEW q \in DOMAIN rows', q < p
        PROVE  ~Broken(rows', q)
    <3>1. q \in DOMAIN rows /\ rows'[q] = rows[q] /\ (q # 1 => rows'[q - 1] = rows[q - 1])
      BY <2>1, <2>3, <2>5
    <3> QED BY <2>4, <3>1 DEF Broken, SequenceBreak, WrongPredecessor, ExpectedPrev, Altered
  <2>6. ASSUME NEW q \in DOMAIN rows', q >= p
        PROVE  rows'[q].seq = q + 1 /\ SequenceBreak(rows', q)
    <3>1. q + 1 \in DOMAIN rows /\ rows'[q] = rows[q + 1] /\ q \in Nat
      BY <2>1, <2>3, <2>6
    <3>2. rows'[q].seq = q + 1
      BY <2>4, <3>1
    <3>3. q + 1 # q
      BY <3>1
    <3> QED BY <3>2, <3>3 DEF SequenceBreak
  <2>7. BrokenPositions(rows') = p..(Len(rows) - 1)
    <3>1. \A q \in DOMAIN rows' : Broken(rows', q) <=> q >= p
      BY <2>1, <2>3, <2>5, <2>6 DEF Broken
    <3> QED BY <2>1, <2>3, <3>1 DEF BrokenPositions
  <2>8. p \in BrokenPositions(rows') /\ BrokenPositions(rows') \in SUBSET Nat
        /\ \A q \in BrokenPositions(rows') : p <= q
    BY <1>1, <2>1, <2>7
  <2>9. ~Intact(rows') /\ FirstBroken(rows') = p
    BY <2>8, FirstBrokenIs
  <2>10. p \in DOMAIN rows' /\ p >= p
    BY <1>1, <2>1, <2>3
  <2>11. rows'[p].seq = p + 1 /\ SequenceBreak(rows', p)
    BY <2>6, <2>10
  <2>12. Verify(rows').broken_entries = (p + 1)..Len(rows)
    <3>1. Verify(rows').broken_entries = {rows'[q].seq : q \in p..(Len(rows) - 1)}
      BY <2>7 DEF Verify
    <3>2. \A q \in p..(Len(rows) - 1) : rows'[q].seq = q + 1
      BY <2>1, <2>3, <2>6
    <3>3. \A s \in (p + 1)..Len(rows) : s - 1 \in p..(Len(rows) - 1) /\ s = (s - 1) + 1
      BY <2>1
    <3>4. \A q \in p..(Len(rows) - 1) : q + 1 \in (p + 1)..Len(rows)
      BY <2>1
    <3> QED BY <3>1, <3>2, <3>3, <3>4
  <2>13. Verify(rows').first_broken_seq = p + 1
    BY <2>9, <2>11 DEF Verify
  <2>14. Verify(rows').reason = "sequence break"
    BY <2>9, <2>11 DEF Verify, Reason
  <2> QED BY <2>12, <2>13, <2>14
<1> DEFINE Named == \A p \in Positions :
                       Intact(rows) /\ p < Len(rows) /\ DeleteRow(p) =>
                          /\ Verify(rows').broken_entries = (p + 1)..Len(rows)
                          /\ Verify(rows').first_broken_seq = p + 1
                          /\ Verify(rows').reason = "sequence break"
<1>2. IndInv => Named
  BY <1>1
<1> HIDE DEF Named
<1>3. IndInv => [Named]_vars
  BY <1>2
<1>4. Spec => [][Named]_vars
  BY <1>3, TableInvariance, PTL
<1> QED BY <1>4 DEF DeletionNamed, Named

(* Damage does not heal: append_entry builds on the recorded head and goes  *)
(* on over a broken chain, but no entry's verdict changes by it.            *)
THEOREM DamageRemains == Spec => DamageStays
<1>1. ASSUME IndInv, NEW b \in Body, Appended(b)
      PROVE  Verify(rows).broken_entries \subseteq Verify(rows').broken_entries
  <2> DEFINE e == NextEntry(ChainHead(rows), b)
  <2>1. rows \in Seq(Entry) /\ rows' = Append(rows, e)
    BY <1>1 DEF IndInv, TypeOK, Appended
  <2>2. e \in Entry
    BY <2>1, ChainHeadType, NextEntryType
  <2> HIDE DEF e
  <2>3. \A p \in BrokenPositions(rows) :
           p \in BrokenPositions(rows') /\ rows'[p].seq = rows[p].seq
    BY <2>1, <2>2, VerdictKept DEF BrokenPositions
  <2> QED BY <2>3 DEF Verify
<1> DEFINE Stays == \A b \in Body : AppendEntry(b) \/ IssueReport(b) =>
                       Verify(rows).broken_entries \subseteq Verify(rows').broken_entries
<1>2. IndInv => Stays
  BY <1>1 DEF AppendEntry, IssueReport
<1> HIDE DEF Stays
<1>3. IndInv => [Stays]_vars
  BY <1>2
<1>4. Spec => [][Stays]_vars
  BY <1>3, TableInvariance, PTL
<1> QED BY <1>4 DEF DamageStays, Stays
=============================================================================
