-------------------------- MODULE CustodyLogProofs --------------------------
(***************************************************************************)
(* What holds of CustodyLog for any writers, calls and number of faults.   *)
(***************************************************************************)
EXTENDS CustodyLog, SequenceTheorems, TLAPS

-----------------------------------------------------------------------------
(* Lemmas about the operators of chain.py *)

(* head() returns values of the right types, whatever the table holds. *)
LEMMA ChainHeadType ==
    ASSUME NEW L \in Seq(Entry)
    PROVE  ChainHead(L) \in [seq: Nat, entry_hash: Digest]
<1>1. CASE L = << >>
  BY <1>1 DEF ChainHead, ZeroDigest, Digest, Payload
<1>2. CASE L # << >>
  <2>1. Len(L) \in 1..Len(L)
    BY <1>2
  <2>2. L[Len(L)] \in Entry
    BY <2>1
  <2> QED BY <1>2, <2>2 DEF ChainHead, Entry
<1> QED BY <1>1, <1>2

(* The record append_entry builds is an entry. *)
LEMMA NextEntryType ==
    ASSUME NEW t \in [seq: Nat, entry_hash: Digest], NEW c \in Call
    PROVE  NextEntry(t, c) \in Entry
<1>1. EntryHash(t.seq + 1, c, t.entry_hash) \in Digest
  BY DEF EntryHash, CanonicalPayload, Digest, Payload
<1> QED BY <1>1 DEF NextEntry, Entry

(* Appending the entry built on the current head keeps the chain intact:    *)
(* verify finds nothing broken in the longer table.                         *)
LEMMA AppendKeepsIntact ==
    ASSUME NEW L \in Seq(Entry), Intact(L), NEW c \in Call
    PROVE  Intact(Append(L, NextEntry(ChainHead(L), c)))
<1> DEFINE e == NextEntry(ChainHead(L), c)
           M == Append(L, e)
<1>1. e \in Entry
  BY ChainHeadType, NextEntryType
<1>2. M \in Seq(Entry) /\ Len(M) = Len(L) + 1 /\ DOMAIN M = 1..(Len(L) + 1)
  BY <1>1
<1>3. \A p \in 1..Len(L) : M[p] = L[p]
  BY <1>1
<1>4. M[Len(L) + 1] = e
  BY <1>1
<1>5. ASSUME NEW p \in 1..Len(L) PROVE ~Broken(M, p)
  <2>1. ~Broken(L, p)
    BY <1>5 DEF Intact, BrokenPositions
  <2>2. M[p] = L[p] /\ (p # 1 => M[p - 1] = L[p - 1])
    BY <1>3
  <2> QED BY <2>1, <2>2 DEF Broken, SequenceBreak, WrongPredecessor, ExpectedPrev, Altered
<1>6. ~Broken(M, Len(L) + 1)
  <2>1. ChainHead(L).seq = Len(L)
    <3>1. CASE L = << >>
      BY <3>1 DEF ChainHead
    <3>2. CASE L # << >>
      <4>1. Len(L) \in DOMAIN L
        BY <3>2
      <4>2. L[Len(L)].seq = Len(L)
        BY <4>1 DEF Intact, BrokenPositions, Broken, SequenceBreak
      <4> QED BY <3>2, <4>2 DEF ChainHead
    <3> QED BY <3>1, <3>2
  <2>2. ChainHead(L).entry_hash = ExpectedPrev(M, Len(L) + 1)
    <3>1. CASE L = << >>
      BY <3>1 DEF ChainHead, ExpectedPrev
    <3>2. CASE L # << >>
      <4>1. Len(L) \in 1..Len(L) /\ Len(L) + 1 # 1 /\ (Len(L) + 1) - 1 = Len(L)
        BY <3>2
      <4>2. M[Len(L)] = L[Len(L)]
        BY <4>1, <1>3
      <4> QED BY <3>2, <4>1, <4>2 DEF ChainHead, ExpectedPrev
    <3> QED BY <3>1, <3>2
  <2>3. /\ e.seq = ChainHead(L).seq + 1
        /\ e.prev_hash = ChainHead(L).entry_hash
        /\ e.entry_hash = EntryHash(e.seq, e.body, e.prev_hash)
    BY DEF NextEntry
  <2> HIDE DEF e, M
  <2> QED BY <1>4, <2>1, <2>2, <2>3
          DEF Broken, SequenceBreak, WrongPredecessor, Altered
<1> HIDE DEF M
<1>7. \A p \in DOMAIN M : ~Broken(M, p)
  BY <1>2, <1>5, <1>6
<1>8. Intact(M)
  BY <1>7 DEF Intact, BrokenPositions
<1> QED BY <1>8 DEF M

-----------------------------------------------------------------------------
(* The inductive invariant holds of the initial states. *)
LEMMA IndInvInit == Init => IndInv
<1> SUFFICES ASSUME Init PROVE IndInv
  OBVIOUS
<1> USE NobodyAssumption, FaultAssumption DEF Init
<1>1. TypeOK
  BY DEF TypeOK, Start, PC, InTransaction, ZeroDigest, Digest, Payload
<1>2. ChainIntact /\ RowIffEntry
  BY DEF ChainIntact, Intact, BrokenPositions, RowIffEntry, Logged
<1>3. HolderInv /\ StagedInv
  BY DEF HolderInv, StagedInv, InTransaction
<1>4. OwnerInv /\ StatusInv
  BY DEF OwnerInv, StatusInv, Logged
<1> QED BY <1>1, <1>2, <1>3, <1>4 DEF IndInv

(* A writer that is neither idle nor stuck is executing a call. *)
LEMMA ActiveCall ==
    ASSUME TypeOK, OwnerInv, NEW w \in Writer, pc[w] \notin {"idle", "stuck"}
    PROVE  call[w] \in Call /\ status[call[w]] = "running"
<1>1. call[w] \in Call \cup {NoCall}
  BY DEF TypeOK
<1>2. call[w] # NoCall
  BY DEF OwnerInv
<1> QED BY <1>1, <1>2 DEF OwnerInv

(* Every action keeps the inductive invariant. *)
LEMMA IndInvNext == IndInv /\ [Next]_vars => IndInv'
<1> SUFFICES ASSUME IndInv, [Next]_vars PROVE IndInv'
  OBVIOUS
<1> USE NobodyAssumption, FaultAssumption, CallAssumption DEF IndInv
<1>1. CASE UNCHANGED vars
  BY <1>1 DEF vars, TypeOK, ChainIntact, RowIffEntry, Logged, HolderInv, StagedInv, OwnerInv, StatusInv
<1>2. ASSUME NEW w \in Writer, NEW c \in Call, Invoke(w, c) PROVE IndInv'
  <2> USE <1>2 DEF Invoke, At
  <2>1. TypeOK'
    BY DEF TypeOK, OwnerInv, InTransaction, PC
  <2>2. ChainIntact' /\ RowIffEntry'
    BY DEF ChainIntact, RowIffEntry, Logged
  <2>3. HolderInv'
    BY DEF HolderInv, TypeOK, InTransaction
  <2>4. StagedInv'
    BY DEF StagedInv, HolderInv, OwnerInv, TypeOK, InTransaction
  <2>5. OwnerInv'
    BY DEF OwnerInv, TypeOK, InTransaction
  <2>6. StatusInv'
    BY DEF StatusInv, OwnerInv, TypeOK, Logged, InTransaction
  <2> QED BY <2>1, <2>2, <2>3, <2>4, <2>5, <2>6 DEF IndInv
<1>3. ASSUME NEW w \in Writer, NEW c \in Call, BeginWithin(w, c) PROVE IndInv'
  <2> USE <1>3 DEF BeginWithin
  <2>1. TypeOK'
    BY DEF TypeOK, OwnerInv, InTransaction, PC
  <2>2. ChainIntact' /\ RowIffEntry'
    BY DEF ChainIntact, RowIffEntry, Logged
  <2>3. HolderInv'
    BY DEF HolderInv, TypeOK, InTransaction
  <2>4. StagedInv'
    BY DEF StagedInv, HolderInv, OwnerInv, TypeOK, InTransaction
  <2>5. OwnerInv'
    BY DEF OwnerInv, TypeOK, InTransaction
  <2>6. StatusInv'
    BY DEF StatusInv, OwnerInv, TypeOK, Logged, InTransaction
  <2> QED BY <2>1, <2>2, <2>3, <2>4, <2>5, <2>6 DEF IndInv
<1>4. ASSUME NEW w \in Writer, BeginImmediate(w) PROVE IndInv'
  <2> USE <1>4 DEF BeginImmediate, At
  <2>1. TypeOK'
    BY DEF TypeOK, OwnerInv, InTransaction, PC
  <2>2. ChainIntact' /\ RowIffEntry'
    BY DEF ChainIntact, RowIffEntry, Logged
  <2>3. HolderInv'
    BY DEF HolderInv, TypeOK, InTransaction
  <2>4. StagedInv'
    BY DEF StagedInv, HolderInv, OwnerInv, TypeOK, InTransaction
  <2>5. OwnerInv'
    BY DEF OwnerInv, TypeOK, InTransaction
  <2>6. StatusInv'
    BY DEF StatusInv, OwnerInv, TypeOK, Logged, InTransaction
  <2> QED BY <2>1, <2>2, <2>3, <2>4, <2>5, <2>6 DEF IndInv
<1>5. ASSUME NEW w \in Writer, BusyTimeout(w) PROVE IndInv'
  <2> USE <1>5 DEF BusyTimeout, At, Answer
  <2>1. TypeOK'
    BY DEF TypeOK, OwnerInv, InTransaction, PC
  <2>2. ChainIntact' /\ RowIffEntry'
    BY DEF ChainIntact, RowIffEntry, Logged
  <2>3. HolderInv'
    BY DEF HolderInv, TypeOK, InTransaction
  <2>4. StagedInv'
    BY DEF StagedInv, HolderInv, OwnerInv, TypeOK, InTransaction
  <2>5. OwnerInv'
    BY DEF OwnerInv, TypeOK, InTransaction
  <2>6. StatusInv'
    BY DEF StatusInv, OwnerInv, TypeOK, Logged, InTransaction
  <2> QED BY <2>1, <2>2, <2>3, <2>4, <2>5, <2>6 DEF IndInv
<1>6. ASSUME NEW w \in Writer, WriteRow(w) PROVE IndInv'
  <2> USE <1>6 DEF WriteRow, At
  <2>1. TypeOK'
    BY DEF TypeOK, OwnerInv, InTransaction, PC
  <2>2. ChainIntact' /\ RowIffEntry'
    BY DEF ChainIntact, RowIffEntry, Logged
  <2>3. HolderInv'
    BY DEF HolderInv, TypeOK, InTransaction
  <2>4. StagedInv'
    BY DEF StagedInv, HolderInv, OwnerInv, TypeOK, InTransaction
  <2>5. OwnerInv'
    BY DEF OwnerInv, TypeOK, InTransaction
  <2>6. StatusInv'
    BY DEF StatusInv, OwnerInv, TypeOK, Logged, InTransaction
  <2> QED BY <2>1, <2>2, <2>3, <2>4, <2>5, <2>6 DEF IndInv
<1>7. ASSUME NEW w \in Writer, ReadTail(w) PROVE IndInv'
  <2> USE <1>7 DEF ReadTail, At
  <2>1. TypeOK'
    BY ChainHeadType DEF TypeOK, OwnerInv, InTransaction, PC
  <2>2. ChainIntact' /\ RowIffEntry'
    BY DEF ChainIntact, RowIffEntry, Logged
  <2>3. HolderInv'
    BY DEF HolderInv, TypeOK, InTransaction
  <2>4. StagedInv'
    BY DEF StagedInv, HolderInv, OwnerInv, TypeOK, InTransaction
  <2>5. OwnerInv'
    BY DEF OwnerInv, TypeOK, InTransaction
  <2>6. StatusInv'
    BY DEF StatusInv, OwnerInv, TypeOK, Logged, InTransaction
  <2> QED BY <2>1, <2>2, <2>3, <2>4, <2>5, <2>6 DEF IndInv
<1>8. ASSUME NEW w \in Writer, InsertEntry(w) PROVE IndInv'
  <2> USE <1>8 DEF InsertEntry, At
  <2>1. TypeOK'
    <3>1. call[w] \in Call /\ tail[w] \in [seq: Nat, entry_hash: Digest]
      BY ActiveCall DEF TypeOK
    <3>2. NextEntry(tail[w], call[w]) \in Entry
      BY <3>1, NextEntryType
    <3>3. <<NextEntry(tail[w], call[w])>> \in Seq(Entry)
      BY <3>2
    <3>4. stagedLog' \in [Writer -> Seq(Entry)]
      BY <3>3 DEF TypeOK
    <3> QED BY <3>4 DEF TypeOK, PC, InTransaction
  <2>2. ChainIntact' /\ RowIffEntry'
    BY DEF ChainIntact, RowIffEntry, Logged
  <2>3. HolderInv'
    BY DEF HolderInv, TypeOK, InTransaction
  <2>4. StagedInv'
    BY DEF StagedInv, HolderInv, OwnerInv, TypeOK, InTransaction
  <2>5. OwnerInv'
    BY DEF OwnerInv, TypeOK, InTransaction
  <2>6. StatusInv'
    BY DEF StatusInv, OwnerInv, TypeOK, Logged, InTransaction
  <2> QED BY <2>1, <2>2, <2>3, <2>4, <2>5, <2>6 DEF IndInv
<1>9. ASSUME NEW w \in Writer, Raise(w) PROVE IndInv'
  <2> USE <1>9 DEF Raise, Discard, Answer
  <2>1. TypeOK'
    <3>1. call[w] \in Call
      BY ActiveCall
    <3>2. status' \in [Call -> {"new", "running", "ok", "error", "lost"}]
      BY <3>1 DEF TypeOK
    <3>3. /\ lock' \in Writer \cup {NoWriter}
          /\ stagedRow' \in [Writer -> SUBSET RowCall]
          /\ stagedLog' \in [Writer -> Seq(Entry)]
      BY DEF TypeOK
    <3>4. /\ pc' \in [Writer -> PC]
          /\ call' \in [Writer -> Call \cup {NoCall}]
      BY DEF TypeOK, PC
    <3> QED BY <3>2, <3>3, <3>4 DEF TypeOK
  <2>2. ChainIntact' /\ RowIffEntry'
    BY DEF ChainIntact, RowIffEntry, Logged
  <2>3. HolderInv'
    BY DEF HolderInv, TypeOK, InTransaction
  <2>4. StagedInv'
    BY DEF StagedInv, HolderInv, OwnerInv, TypeOK, InTransaction
  <2>5. OwnerInv'
    BY DEF OwnerInv, TypeOK, InTransaction
  <2>6. StatusInv'
    BY DEF StatusInv, OwnerInv, TypeOK, Logged, InTransaction
  <2> QED BY <2>1, <2>2, <2>3, <2>4, <2>5, <2>6 DEF IndInv
<1>10. ASSUME NEW w \in Writer, Return(w) PROVE IndInv'
  <2> USE <1>10 DEF Return, At, Answer
  <2>1. TypeOK'
    BY DEF TypeOK, OwnerInv, InTransaction, PC
  <2>2. ChainIntact' /\ RowIffEntry'
    BY DEF ChainIntact, RowIffEntry, Logged
  <2>3. HolderInv'
    BY DEF HolderInv, TypeOK, InTransaction
  <2>4. StagedInv'
    BY DEF StagedInv, HolderInv, OwnerInv, TypeOK, InTransaction
  <2>5. OwnerInv'
    BY DEF OwnerInv, TypeOK, InTransaction
  <2>6. StatusInv'
    <3>1. call[w] \in Call /\ call[w] \in Logged
      BY ActiveCall DEF StatusInv
    <3>2. \A c \in Call : c # call[w] => status'[c] = status[c]
      BY DEF TypeOK
    <3>3. status'[call[w]] = "ok"
      BY <3>1 DEF TypeOK
    <3>4. \A v \in Writer \ {w} : pc'[v] = pc[v] /\ call'[v] = call[v]
      BY DEF TypeOK
    <3>5. pc'[w] = "idle"
      BY DEF TypeOK
    <3>6. Logged' = Logged
      BY DEF Logged
    <3> QED BY <3>1, <3>2, <3>3, <3>4, <3>5, <3>6 DEF StatusInv
  <2> QED BY <2>1, <2>2, <2>3, <2>4, <2>5, <2>6 DEF IndInv
<1>11. ASSUME NEW w \in Writer, CommitRaises(w) PROVE IndInv'
  <2> USE <1>11 DEF CommitRaises, At, Answer
  <2>1. TypeOK'
    <3>1. call[w] \in Call
      BY ActiveCall
    <3>2. status' \in [Call -> {"new", "running", "ok", "error", "lost"}]
      BY <3>1 DEF TypeOK
    <3>3. /\ pc' \in [Writer -> PC]
          /\ call' \in [Writer -> Call \cup {NoCall}]
      BY DEF TypeOK, PC, InTransaction
    <3>4. faults' \in 0..MaxFaults
      BY DEF TypeOK
    <3> QED BY <3>2, <3>3, <3>4 DEF TypeOK
  <2>2. ChainIntact' /\ RowIffEntry'
    BY DEF ChainIntact, RowIffEntry, Logged
  <2>3. HolderInv'
    BY DEF HolderInv, TypeOK, InTransaction
  <2>4. StagedInv'
    BY DEF StagedInv, HolderInv, OwnerInv, TypeOK, InTransaction
  <2>5. OwnerInv'
    BY DEF OwnerInv, TypeOK, InTransaction
  <2>6. StatusInv'
    BY DEF StatusInv, OwnerInv, TypeOK, Logged, InTransaction
  <2> QED BY <2>1, <2>2, <2>3, <2>4, <2>5, <2>6 DEF IndInv
<1>12. ASSUME NEW w \in Writer, Crash(w) PROVE IndInv'
  <2> USE <1>12 DEF Crash, Discard
  <2>1. TypeOK'
    BY DEF TypeOK, OwnerInv, InTransaction, PC
  <2>2. ChainIntact' /\ RowIffEntry'
    BY DEF ChainIntact, RowIffEntry, Logged
  <2>3. HolderInv'
    BY DEF HolderInv, TypeOK, InTransaction
  <2>4. StagedInv'
    BY DEF StagedInv, HolderInv, OwnerInv, TypeOK, InTransaction
  <2>5. OwnerInv'
    BY DEF OwnerInv, TypeOK, InTransaction
  <2>6. StatusInv'
    BY DEF StatusInv, OwnerInv, TypeOK, Logged, InTransaction
  <2> QED BY <2>1, <2>2, <2>3, <2>4, <2>5, <2>6 DEF IndInv
<1>13. ASSUME NEW w \in Writer, Commit(w) PROVE IndInv'
  <2> DEFINE e == NextEntry(ChainHead(log), call[w])
  <2> USE <1>13 DEF Commit, At, Discard, Publish
  <2>1. /\ call[w] \in Call
        /\ status[call[w]] = "running"
        /\ call[w] \notin Logged
    BY ActiveCall DEF StatusInv
  <2>2. log \in Seq(Entry) /\ e \in Entry
    BY <2>1, ChainHeadType, NextEntryType DEF TypeOK
  <2>3. /\ stagedLog[w] = <<e>>
        /\ stagedRow[w] = {call[w]} \cap RowCall
        /\ lock = w
    BY DEF StagedInv, HolderInv, InTransaction
  <2> HIDE DEF e
  <2>4. log' = Append(log, e) /\ rows' = rows \cup ({call[w]} \cap RowCall)
    BY <2>2, <2>3
  <2>5. e.body = call[w]
    BY DEF e, NextEntry
  <2>6. Logged' = Logged \cup {call[w]}
    <3>1. /\ DOMAIN log' = DOMAIN log \cup {Len(log) + 1}
          /\ \A i \in DOMAIN log : log'[i] = log[i]
          /\ log'[Len(log) + 1] = e
      BY <2>2, <2>4
    <3> QED BY <3>1, <2>5 DEF Logged
  <2>7. \A v \in Writer \ {w} : pc[v] \notin InTransaction
    BY <2>3 DEF HolderInv
  <2>8. /\ pc' = [pc EXCEPT ![w] = "committed"]
        /\ lock' = NoWriter
        /\ stagedRow' = [stagedRow EXCEPT ![w] = {}]
        /\ stagedLog' = [stagedLog EXCEPT ![w] = << >>]
        /\ UNCHANGED <<call, tail, status, faults>>
    BY <2>3
  <2>9. TypeOK'
    BY <2>1, <2>2, <2>4, <2>8 DEF TypeOK, PC
  <2>10. ChainIntact'
    BY <2>1, <2>2, <2>4, AppendKeepsIntact DEF ChainIntact, e
  <2>11. RowIffEntry'
    BY <2>4, <2>6 DEF RowIffEntry
  <2>12. HolderInv'
    BY <2>7, <2>8 DEF HolderInv, InTransaction, TypeOK
  <2>13. StagedInv'
    BY <2>7, <2>8 DEF StagedInv, InTransaction, TypeOK
  <2>14. OwnerInv'
    BY <2>8 DEF OwnerInv, TypeOK
  <2>15. StatusInv'
    BY <2>1, <2>6, <2>8 DEF StatusInv, OwnerInv, TypeOK
  <2> QED BY <2>9, <2>10, <2>11, <2>12, <2>13, <2>14, <2>15 DEF IndInv
<1> HIDE DEF IndInv
<1> QED
  BY <1>1, <1>2, <1>3, <1>4, <1>5, <1>6, <1>7, <1>8, <1>9, <1>10, <1>11, <1>12, <1>13
     DEF Next, Step

(* The inductive invariant holds of every behaviour. *)
THEOREM Invariance == Spec => []IndInv
<1> QED BY IndInvInit, IndInvNext, PTL DEF Spec

(* Every reachable state is well typed. *)
THEOREM TypeCorrect == Spec => []TypeOK
<1>1. IndInv => TypeOK
  BY DEF IndInv
<1> QED BY <1>1, Invariance, PTL

(* Whatever writers interleave and whoever is killed, the committed chain   *)
(* never forks and verify finds it whole.                                   *)
THEOREM ChainNeverForks == Spec => []ChainIntact
<1>1. IndInv => ChainIntact
  BY DEF IndInv
<1> QED BY <1>1, Invariance, PTL

(* A change and its custody entry are committed together or not at all. *)
THEOREM ChangeAndEntryTogether == Spec => []RowIffEntry
<1>1. IndInv => RowIffEntry
  BY DEF IndInv
<1> QED BY <1>1, Invariance, PTL

-----------------------------------------------------------------------------
(* Only Commit touches the log, and it appends one entry: the entry of the  *)
(* committing call, built on the head of the log.                           *)
LEMMA LogStep ==
    ASSUME IndInv, [Next]_vars
    PROVE  \/ log' = log
           \/ \E w \in Writer : /\ Commit(w)
                               /\ call[w] \in Call /\ status[call[w]] = "running"
                               /\ call[w] \notin Logged
                               /\ log' = Append(log, NextEntry(ChainHead(log), call[w]))
<1>1. ASSUME NEW w \in Writer, Commit(w)
      PROVE  /\ call[w] \in Call /\ status[call[w]] = "running"
             /\ call[w] \notin Logged
             /\ log' = Append(log, NextEntry(ChainHead(log), call[w]))
  <2>1. pc[w] = "inserted"
    BY <1>1 DEF Commit, At
  <2>2. /\ call[w] \in Call /\ status[call[w]] = "running"
        /\ call[w] \notin Logged
    BY <2>1, ActiveCall DEF IndInv, StatusInv
  <2>3. NextEntry(ChainHead(log), call[w]) \in Entry /\ log \in Seq(Entry)
    BY <2>2, ChainHeadType, NextEntryType DEF IndInv, TypeOK
  <2>4. log' = log \o <<NextEntry(ChainHead(log), call[w])>>
    BY <1>1, <2>1 DEF Commit, Publish, IndInv, StagedInv
  <2> QED BY <2>2, <2>3, <2>4
<1>2. CASE UNCHANGED vars
  BY <1>2 DEF vars
<1>3. CASE \E w \in Writer : Commit(w)
  BY <1>1, <1>3
<1>4. CASE Next /\ ~\E w \in Writer : Commit(w)
  BY <1>4 DEF Next, Step, Invoke, BeginWithin, BeginImmediate, BusyTimeout, WriteRow,
              ReadTail, InsertEntry, Raise, Return, CommitRaises, Crash
<1> QED BY <1>2, <1>3, <1>4

-----------------------------------------------------------------------------
(* Refinement: how each step of the writers looks to their callers. *)

Ledgered == [i \in DOMAIN log |-> log[i].body]
Told == [c \in Call |-> IF status[c] \in {"ok", "error"} THEN status[c] ELSE "nothing"]

(* A call is recorded in the ledger exactly when the log has its entry. *)
LEMMA RecordedIsLogged ==
    ASSUME TypeOK, NEW c \in Call
    PROVE  Ledger!Recorded(c) <=> c \in Logged
  BY DEF Ledger!Recorded, Logged, TypeOK

(* A step that leaves the log alone and answers no caller is not visible. *)
LEMMA SilentStep ==
    ASSUME log' = log, Told' = Told
    PROVE  UNCHANGED <<Ledgered, Told>>
  BY DEF Ledgered

(* An answer to one caller confirms a recorded call or refuses one that is  *)
(* not in the log.                                                          *)
LEMMA AnswerStep ==
    ASSUME TypeOK, NEW c \in Call, status[c] \in {"new", "running"}, log' = log,
           \/ c \in Logged /\ status' = [status EXCEPT ![c] = "ok"]
           \/ c \notin Logged /\ status' = [status EXCEPT ![c] = "error"]
    PROVE  Ledger!Next
<1>1. UNCHANGED Ledgered
  BY DEF Ledgered
<1>2. Told[c] = "nothing"
  BY DEF Told
<1>3. CASE c \in Logged /\ status' = [status EXCEPT ![c] = "ok"]
  <2>1. Told' = [Told EXCEPT ![c] = "ok"]
    BY <1>3 DEF Told, TypeOK
  <2>2. Ledger!Confirm(c)
    BY <1>1, <1>2, <1>3, <2>1, RecordedIsLogged DEF Ledger!Confirm, Told, Ledgered
  <2> QED BY <2>2 DEF Ledger!Next
<1>4. CASE c \notin Logged /\ status' = [status EXCEPT ![c] = "error"]
  <2>1. Told' = [Told EXCEPT ![c] = "error"]
    BY <1>4 DEF Told, TypeOK
  <2>2. Ledger!Refuse(c)
    BY <1>1, <1>2, <1>4, <2>1, RecordedIsLogged DEF Ledger!Refuse, Told, Ledgered
  <2> QED BY <2>2 DEF Ledger!Next
<1> QED BY <1>3, <1>4

(* A commit is the recording of the committing call. *)
LEMMA CommitStep ==
    ASSUME TypeOK, NEW c \in Call, status[c] = "running", c \notin Logged,
           status' = status, log' = Append(log, NextEntry(ChainHead(log), c))
    PROVE  Ledger!Next
<1> DEFINE e == NextEntry(ChainHead(log), c)
<1>1. log \in Seq(Entry) /\ e \in Entry /\ e.body = c
  <2>1. e.body = c
    BY DEF NextEntry
  <2> QED BY <2>1, ChainHeadType, NextEntryType DEF TypeOK
<1> HIDE DEF e
<1>2. log' = Append(log, e)
  BY DEF e
<1>3. /\ DOMAIN log = 1..Len(log) /\ Len(log) \in Nat
      /\ DOMAIN log' = 1..(Len(log) + 1)
      /\ \A i \in 1..Len(log) : log'[i] = log[i]
      /\ log'[Len(log) + 1] = e
  BY <1>1, <1>2
<1>4. Ledgered \in Seq(Call) /\ Len(Ledgered) = Len(log)
  <2>1. \A i \in 1..Len(log) : log[i] \in Entry
    BY <1>1
  <2>2. \A i \in 1..Len(log) : log[i].body \in Call
    BY <2>1 DEF Entry
  <2> QED BY <1>3, <2>2 DEF Ledgered
<1>5. Ledgered' = Append(Ledgered, c)
  <2> DEFINE A == Append(Ledgered, c)
  <2>1. /\ A \in Seq(Call) /\ Len(A) = Len(log) + 1
        /\ \A i \in 1..Len(log) : A[i] = log[i].body
        /\ A[Len(log) + 1] = c
    <3>1. \A i \in 1..Len(log) : Ledgered[i] = log[i].body
      BY <1>3 DEF Ledgered
    <3> QED BY <1>4, <3>1, AppendProperties
  <2> HIDE DEF A
  <2>2. \A i \in 1..(Len(log) + 1) : log'[i].body = A[i]
    BY <1>1, <1>3, <2>1
  <2>3. /\ Ledgered' \in Seq(Call) /\ Len(Ledgered') = Len(log) + 1
        /\ \A i \in 1..(Len(log) + 1) : Ledgered'[i] = A[i]
    <3>1. \A i \in 1..(Len(log) + 1) : A[i] \in Call
      BY <2>1
    <3> QED BY <1>3, <2>2, <3>1 DEF Ledgered
  <2>4. Ledgered' = A
    BY <2>1, <2>3, SeqEqual
  <2> QED BY <2>4 DEF A
<1>6. UNCHANGED Told /\ Told[c] = "nothing"
  BY DEF Told
<1>7. Ledger!Record(c)
  BY <1>5, <1>6, RecordedIsLogged DEF Ledger!Record, Told, Ledgered
<1> QED BY <1>7 DEF Ledger!Next

(* Every step of the writers is a step of the ledger or invisible there. *)
LEMMA LedgerStep ==
    ASSUME IndInv, [Next]_vars
    PROVE  [Ledger!Next]_<<Ledgered, Told>>
<1> USE DEF IndInv
<1>1. CASE UNCHANGED vars
  BY <1>1 DEF vars, Told, Ledgered
<1>2. ASSUME NEW w \in Writer, NEW c \in Call, Invoke(w, c)
      PROVE  UNCHANGED <<Ledgered, Told>>
  BY <1>2, SilentStep DEF Invoke, Told, TypeOK
<1>3. ASSUME NEW w \in Writer, NEW c \in Call, BeginWithin(w, c)
      PROVE  Ledger!Next
  BY <1>3, AnswerStep DEF BeginWithin, StatusInv
<1>4. ASSUME NEW w \in Writer,
             BeginImmediate(w) \/ WriteRow(w) \/ ReadTail(w) \/ InsertEntry(w)
      PROVE  UNCHANGED <<Ledgered, Told>>
  BY <1>4, SilentStep DEF BeginImmediate, WriteRow, ReadTail, InsertEntry, Told
<1>5. ASSUME NEW w \in Writer, BusyTimeout(w) \/ Raise(w) \/ CommitRaises(w)
      PROVE  Ledger!Next
  <2>1. pc[w] \in {"waiting", "begun", "read", "inserted"}
    BY <1>5 DEF BusyTimeout, Raise, CommitRaises, At
  <2>2. call[w] \in Call /\ status[call[w]] = "running" /\ call[w] \notin Logged
    BY <2>1, ActiveCall DEF StatusInv
  <2>3. log' = log /\ status' = [status EXCEPT ![call[w]] = "error"]
    BY <1>5 DEF BusyTimeout, Raise, CommitRaises, Answer
  <2> QED BY <2>2, <2>3, AnswerStep
<1>6. ASSUME NEW w \in Writer, Return(w)
      PROVE  Ledger!Next
  <2>1. pc[w] = "committed"
    BY <1>6 DEF Return, At
  <2>2. call[w] \in Call /\ status[call[w]] = "running" /\ call[w] \in Logged
    BY <2>1, ActiveCall DEF StatusInv
  <2>3. log' = log /\ status' = [status EXCEPT ![call[w]] = "ok"]
    BY <1>6 DEF Return, Answer
  <2> QED BY <2>2, <2>3, AnswerStep
<1>7. ASSUME NEW w \in Writer, Crash(w)
      PROVE  UNCHANGED <<Ledgered, Told>>
  <2>1. log' = log
    BY <1>7 DEF Crash
  <2>2. Told' = Told
    <3>1. CASE call[w] = NoCall
      BY <1>7, <3>1 DEF Crash, Told
    <3>2. CASE call[w] # NoCall
      <4>1. status[call[w]] = "running" /\ status' = [status EXCEPT ![call[w]] = "lost"]
        BY <1>7, <3>2 DEF Crash, OwnerInv
      <4> QED BY <4>1 DEF Told, TypeOK
    <3> QED BY <3>1, <3>2
  <2> QED BY <2>1, <2>2, SilentStep
<1>8. ASSUME NEW w \in Writer, Commit(w)
      PROVE  [Ledger!Next]_<<Ledgered, Told>>
  <2>1. CASE log' = log
    BY <1>8, <2>1, SilentStep DEF Commit, Told
  <2>2. ASSUME NEW v \in Writer, Commit(v),
               call[v] \in Call /\ status[call[v]] = "running", call[v] \notin Logged,
               log' = Append(log, NextEntry(ChainHead(log), call[v]))
        PROVE  Ledger!Next
    BY <2>2, CommitStep DEF Commit
  <2> QED BY <2>1, <2>2, LogStep
<1> HIDE DEF IndInv
<1> QED BY <1>1, <1>2, <1>3, <1>4, <1>5, <1>6, <1>7, <1>8 DEF Next, Step

(* To its callers the custody log is an append-only ledger: every behaviour *)
(* of the writers, the timeouts and the crashes is a behaviour of it.       *)
THEOREM LedgerImplemented == Spec => ImplementsLedger
<1>1. Init => Ledger!Init
  BY DEF Init, Ledger!Init
<1>2. ASSUME IndInv, [Next]_vars
      PROVE  [Ledger!Next]_<<Ledgered, Told>>
  BY <1>2, LedgerStep
<1> QED BY <1>1, <1>2, Invariance, PTL DEF Spec, ImplementsLedger, Ledger!Spec, Ledgered, Told
=============================================================================
