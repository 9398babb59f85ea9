----------------------------- MODULE CustodyLog -----------------------------
(***************************************************************************)
(* Writers of one workspace database appending to the custody log.  A      *)
(* writer is a connection: a CLI process, or a thread of the web server.   *)
(* Every call that changes state has the same shape in coc/service.py:     *)
(* inside one immediate_transaction it writes its own row (an evidence     *)
(* row, a user, a case, a flag) or none, and appends one entry.            *)
(*                                                                         *)
(* SQLite is modelled by what the code relies on: BEGIN IMMEDIATE takes    *)
(* the one write lock or, after the 30 s busy timeout, raises; statements  *)
(* of an open transaction are private; COMMIT publishes all of them; a     *)
(* process that dies loses its transaction and its lock.                   *)
(***************************************************************************)
EXTENDS Naturals, Sequences, FiniteSets

CONSTANTS Writer,     \* connections
          Call,       \* service calls, each made at most once
          RowCall,    \* those that also write a row of their own
          NoWriter, NoCall,
          MaxFaults   \* bound: crashes plus COMMITs that raise

ASSUME CallAssumption   == RowCall \subseteq Call
ASSUME NobodyAssumption == NoWriter \notin Writer /\ NoCall \notin Call
ASSUME FaultAssumption  == MaxFaults \in Nat

INSTANCE CustodyChain WITH Body <- Call

VARIABLES
    rows,       \* committed rows, named by the calls that wrote them
    log,        \* the committed custody_log table
    lock,       \* the connection holding the write lock
    pc,         \* where each writer is
    call,       \* the call it is executing
    tail,       \* what head() returned to it
    stagedRow,  \* its uncommitted row, if any
    stagedLog,  \* its uncommitted entry, if any
    status,     \* what became of each call
    faults      \* faults so far

vars == <<rows, log, lock, pc, call, tail, stagedRow, stagedLog, status, faults>>

InTransaction == {"begun", "read", "inserted", "stuck"}

PC == {"idle", "waiting", "committed"} \cup InTransaction

Start == [seq |-> 0, entry_hash |-> ZeroDigest]

Init == /\ rows = {}
        /\ log = << >>
        /\ lock = NoWriter
        /\ pc = [w \in Writer |-> "idle"]
        /\ call = [w \in Writer |-> NoCall]
        /\ tail = [w \in Writer |-> Start]
        /\ stagedRow = [w \in Writer |-> {}]
        /\ stagedLog = [w \in Writer |-> << >>]
        /\ status = [c \in Call |-> "new"]
        /\ faults = 0

-----------------------------------------------------------------------------
At(w, from, to) == pc[w] = from /\ pc' = [pc EXCEPT ![w] = to]

(* The writer's transaction is gone: nothing staged, lock free if it had it. *)
Discard(w) ==
    /\ lock' = IF lock = w THEN NoWriter ELSE lock
    /\ stagedRow' = [stagedRow EXCEPT ![w] = {}]
    /\ stagedLog' = [stagedLog EXCEPT ![w] = << >>]

Answer(w, s) == /\ status' = [status EXCEPT ![call[w]] = s]
                /\ call' = [call EXCEPT ![w] = NoCall]

Invoke(w, c) ==
    /\ status[c] = "new"
    /\ At(w, "idle", "waiting")
    /\ call' = [call EXCEPT ![w] = c]
    /\ status' = [status EXCEPT ![c] = "running"]
    /\ UNCHANGED <<rows, log, lock, tail, stagedRow, stagedLog, faults>>

(* Faulty variant: a plain BEGIN, which takes no lock. *)
BeginDeferred(w) ==
    /\ At(w, "waiting", "begun")
    /\ lock' = w
    /\ UNCHANGED <<rows, log, call, tail, stagedRow, stagedLog, status, faults>>

(* BEGIN IMMEDIATE: takes the lock when nobody holds it, and raises when it *)
(* stays held for the whole busy timeout.                                   *)
BeginImmediate(w) ==
    /\ At(w, "waiting", "begun")
    /\ lock = NoWriter
    /\ lock' = w
    /\ UNCHANGED <<rows, log, call, tail, stagedRow, stagedLog, status, faults>>

(* Faulty variant: wait for the lock without limit. *)
BusyForever(w) ==
    /\ At(w, "waiting", "waiting")
    /\ lock # NoWriter
    /\ UNCHANGED <<rows, log, lock, call, tail, stagedRow, stagedLog, status, faults>>

BusyTimeout(w) ==
    /\ At(w, "waiting", "idle")
    /\ lock # NoWriter
    /\ Answer(w, "error")
    /\ UNCHANGED <<rows, log, lock, tail, stagedRow, stagedLog, faults>>

(* Faulty variant: a row for a call that has none. *)
WriteAnyRow(w) ==
    /\ At(w, "begun", "begun")
    /\ call[w] \notin stagedRow[w]
    /\ stagedRow' = [stagedRow EXCEPT ![w] = {call[w]}]
    /\ UNCHANGED <<rows, log, lock, call, tail, stagedLog, status, faults>>

(* Faulty variant: the row is written on the autocommit connection. *)
WriteRowOutside(w) ==
    /\ At(w, "begun", "begun")
    /\ call[w] \in RowCall \ stagedRow[w]
    /\ stagedRow' = [stagedRow EXCEPT ![w] = {call[w]}]
    /\ rows' = rows \cup {call[w]}
    /\ UNCHANGED <<log, lock, call, tail, stagedLog, status, faults>>

WriteRow(w) ==
    /\ At(w, "begun", "begun")
    /\ call[w] \in RowCall \ stagedRow[w]
    /\ stagedRow' = [stagedRow EXCEPT ![w] = {call[w]}]
    /\ UNCHANGED <<rows, log, lock, call, tail, stagedLog, status, faults>>

(* append_entry: head(), after the call's own row is written ... *)
ReadTail(w) ==
    /\ At(w, "begun", "read")
    /\ call[w] \notin RowCall \ stagedRow[w]
    /\ tail' = [tail EXCEPT ![w] = ChainHead(log)]
    /\ UNCHANGED <<rows, log, lock, call, stagedRow, stagedLog, status, faults>>

(* ... and the INSERT, which both UNIQUE constraints must let through. *)
Unique(e) == \A i \in DOMAIN log : log[i].seq # e.seq /\ log[i].entry_hash # e.entry_hash

InsertEntry(w) ==
    /\ At(w, "read", "inserted")
    /\ LET e == NextEntry(tail[w], call[w])
       IN  /\ Unique(e)
           /\ stagedLog' = [stagedLog EXCEPT ![w] = <<e>>]
    /\ UNCHANGED <<rows, log, lock, call, tail, stagedRow, status, faults>>

(* Faulty variant: the exception leaves without ROLLBACK. *)
RaiseInside(w) ==
    /\ pc[w] \in {"begun", "read", "inserted"}
    /\ pc' = [pc EXCEPT ![w] = "idle"]
    /\ Answer(w, "error")
    /\ UNCHANGED <<rows, log, lock, tail, stagedRow, stagedLog, faults>>

(* A statement of the block raises: ROLLBACK, and the call fails; the same  *)
(* when COMMIT raises on an error after which SQLite rolls back by itself.  *)
Raise(w) ==
    /\ pc[w] \in {"begun", "read", "inserted"}
    /\ pc' = [pc EXCEPT ![w] = "idle"]
    /\ Discard(w)
    /\ Answer(w, "error")
    /\ UNCHANGED <<rows, log, tail, faults>>

Publish(w) == /\ rows' = rows \cup stagedRow[w]
              /\ log' = log \o stagedLog[w]

Commit(w) ==
    /\ At(w, "inserted", "committed")
    /\ Publish(w)
    /\ Discard(w)
    /\ UNCHANGED <<call, tail, status, faults>>

(* Faulty variant: the call raises after its work became durable. *)
CommitThenRaise(w) ==
    /\ faults < MaxFaults
    /\ At(w, "inserted", "idle")
    /\ Publish(w)
    /\ Discard(w)
    /\ Answer(w, "error")
    /\ faults' = faults + 1
    /\ UNCHANGED tail

(* COMMIT stands outside the try: when it raises on an error after which    *)
(* SQLite does not roll back, nothing else does, and the thread's           *)
(* connection stays inside its transaction, lock in hand.                   *)
CommitRaises(w) ==
    /\ faults < MaxFaults
    /\ At(w, "inserted", "stuck")
    /\ Answer(w, "error")
    /\ faults' = faults + 1
    /\ UNCHANGED <<rows, log, lock, tail, stagedRow, stagedLog>>

(* Every later BEGIN on that connection raises at once. *)
BeginWithin(w, c) ==
    /\ pc[w] = "stuck"
    /\ status[c] = "new"
    /\ status' = [status EXCEPT ![c] = "error"]
    /\ UNCHANGED <<rows, log, lock, pc, call, tail, stagedRow, stagedLog, faults>>

(* The call answers; that reading its row back for the answer may raise,    *)
(* after the COMMIT, is left out.                                           *)
Return(w) ==
    /\ At(w, "committed", "idle")
    /\ Answer(w, "ok")
    /\ UNCHANGED <<rows, log, lock, tail, stagedRow, stagedLog, faults>>

(* The writer's process dies and a new one takes its place. *)
Crash(w) ==
    /\ faults < MaxFaults
    /\ pc[w] # "idle"
    /\ pc' = [pc EXCEPT ![w] = "idle"]
    /\ Discard(w)
    /\ call' = [call EXCEPT ![w] = NoCall]
    /\ status' = IF call[w] = NoCall THEN status ELSE [status EXCEPT ![call[w]] = "lost"]
    /\ faults' = faults + 1
    /\ UNCHANGED <<rows, log, tail>>

-----------------------------------------------------------------------------
(* What a live writer does once called; its step is always taken in the end. *)
Step(w) == \/ BeginImmediate(w) \/ BusyTimeout(w) \/ WriteRow(w) \/ ReadTail(w)
           \/ InsertEntry(w) \/ Raise(w) \/ Commit(w) \/ Return(w)

Next == \E w \in Writer : \/ \E c \in Call : Invoke(w, c) \/ BeginWithin(w, c)
                          \/ Step(w)
                          \/ CommitRaises(w)
                          \/ Crash(w)

Spec == Init /\ [][Next]_vars

Fairness == \A w \in Writer : WF_vars(Step(w))

FairSpec == Spec /\ Fairness

-----------------------------------------------------------------------------
TypeOK ==
    /\ rows \subseteq Call
    /\ log \in Seq(Entry)
    /\ lock \in Writer \cup {NoWriter}
    /\ pc \in [Writer -> PC]
    /\ call \in [Writer -> Call \cup {NoCall}]
    /\ tail \in [Writer -> [seq: Nat, entry_hash: Digest]]
    /\ stagedRow \in [Writer -> SUBSET RowCall]
    /\ stagedLog \in [Writer -> Seq(Entry)]
    /\ status \in [Call -> {"new", "running", "ok", "error", "lost"}]
    /\ faults \in 0..MaxFaults

(* The chain never forks: whoever wrote the entries, and whoever was killed *)
(* while writing, verify finds the committed table whole (service.py:95-97, *)
(* db.py:202-206).                                                          *)
ChainIntact == Intact(log)

Logged == {log[i].body : i \in DOMAIN log}

(* No change without its entry, no entry without its change: a committed    *)
(* row and the entry of the call that wrote it stand or fall together       *)
(* (README.md:72, tests/test_service.py "no orphan log entry").             *)
RowIffEntry == rows = Logged \cap RowCall

(* The inductive invariant.  Exactly the writer inside a transaction holds   *)
(* the lock, so what it read of the tail and what it staged stay current    *)
(* until it commits; a running call belongs to one writer and is in the log *)
(* only once committed.                                                     *)
HolderInv == \A w \in Writer : (pc[w] \in InTransaction) <=> (lock = w)

StagedInv ==
    \A w \in Writer :
       /\ pc[w] = "read" => tail[w] = ChainHead(log)
       /\ pc[w] = "inserted" => stagedLog[w] = <<NextEntry(ChainHead(log), call[w])>>
       /\ pc[w] \in {"read", "inserted"} => stagedRow[w] = {call[w]} \cap RowCall
       /\ pc[w] = "begun" => stagedRow[w] \subseteq {call[w]}
       /\ pc[w] \notin InTransaction => stagedRow[w] = {}
       /\ pc[w] \notin {"inserted", "stuck"} => stagedLog[w] = << >>

OwnerInv ==
    /\ \A w \in Writer : /\ pc[w] \in {"idle", "stuck"} <=> call[w] = NoCall
                         /\ call[w] # NoCall => status[call[w]] = "running"
    /\ \A v, w \in Writer : call[v] = call[w] /\ call[v] # NoCall => v = w

StatusInv ==
    /\ \A c \in Call : /\ status[c] \in {"new", "error"} => c \notin Logged
                       /\ status[c] = "ok" => c \in Logged
    /\ \A w \in Writer :
          /\ pc[w] \in {"waiting", "begun", "read", "inserted"} => call[w] \notin Logged
          /\ pc[w] = "committed" => call[w] \in Logged

IndInv == /\ TypeOK
          /\ ChainIntact
          /\ RowIffEntry
          /\ HolderInv
          /\ StagedInv
          /\ OwnerInv
          /\ StatusInv

(* Callers see an append-only ledger of calls and are told the truth: a     *)
(* call answered "ok" is in the committed log, one that raised never is,    *)
(* whatever the other writers, the timeouts and the crashes do.             *)
Ledger == INSTANCE AppendOnlyLedger WITH
            ledger <- [i \in DOMAIN log |-> log[i].body],
            told   <- [c \in Call |-> IF status[c] \in {"ok", "error"} THEN status[c]
                                                                       ELSE "nothing"]

ImplementsLedger == Ledger!Spec

(* No call is left hanging: it is answered, or its process died. *)
EveryCallEnds == \A c \in Call : status[c] = "running" ~> status[c] # "running"

(* The write lock is given up, unless a COMMIT raised under it. *)
LockReleased == \A w \in Writer : lock = w ~> (lock # w \/ pc[w] = "stuck")
=============================================================================
