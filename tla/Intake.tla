------------------------------- MODULE Intake -------------------------------
(***************************************************************************)
(* Evidence and attachments from the source file to the custody log, and   *)
(* the verification of evidence afterwards: ingest_evidence, attach and    *)
(* verify_evidence of coc/service.py over the Vault.  The vault is written *)
(* first, outside any transaction; then one transaction writes the row and *)
(* its entry, one step here because CustodyLog shows it to be atomic.      *)
(***************************************************************************)
EXTENDS Vault, Sequences

CONSTANTS Case,
          NoNumber,     \* no item number given
          MaxItemNumber,\* bound: explicit numbers ITEM-001, ITEM-002, ...
          MaxEntries    \* bound on the log

ASSUME NumberAssumption == MaxItemNumber \in Nat /\ MaxEntries \in Nat /\ NoNumber \notin Nat

VARIABLES request,      \* per process: what it is storing the file for
          check,        \* per process: the verify_evidence call it is in
          evidence,     \* rows of the evidence table; the id is the index, and
                        \* auto is history: was the number assigned by the code
          attachments,  \* rows of the attachments table
          log           \* committed custody entries of these calls

records == <<evidence, attachments, log>>
vars    == <<vaultVars, request, check, records>>

Number  == 1..MaxItemNumber
NoRequest == [table |-> "none"]
Request == [table: {"evidence"}, case: Case, number: Number \cup {NoNumber}]
           \cup [table: {"attachments"}, case: Case, of: Nat]
NoCheck == [stage |-> "none"]

Init == /\ VaultInit
        /\ request = [p \in Process |-> NoRequest]
        /\ check = [p \in Process |-> NoCheck]
        /\ evidence = << >>
        /\ attachments = << >>
        /\ log = << >>

Free(p) == step[p] = "idle" /\ check[p] = NoCheck

Log(action, e, c, result) ==
    /\ Len(log) < MaxEntries
    /\ log' = Append(log, [action |-> action, evidence |-> e, sha256 |-> c, result |-> result])

Bytes(file) == IF file = Absent THEN Absent ELSE file.bytes

(* A check under way is raced when the bytes at its address change. *)
RaceChecks ==
    check' = [p \in Process |->
                IF /\ check[p] # NoCheck
                   /\ LET c == evidence[check[p].evidence].sha256
                      IN  Bytes(vault'[c]) # Bytes(vault[c])
                THEN [check[p] EXCEPT !.raced = TRUE] ELSE check[p]]

-----------------------------------------------------------------------------
(* Intake *)

Begin(p, r) ==
    /\ Free(p)
    /\ BeginStore(p)
    /\ request' = [request EXCEPT ![p] = r]
    /\ UNCHANGED <<touched, check, records>>

Storing(p) == /\ StoreStep(p)
              /\ request' = IF step'[p] = "idle" THEN [request EXCEPT ![p] = NoRequest]
                                                 ELSE request
              /\ RaceChecks
              /\ UNCHANGED records

InCase(k) == {e \in DOMAIN evidence : evidence[e].case = k}

NumbersUsed(k) == {evidence[e].number : e \in InCase(k)}

(* Faulty variant: number by the count of all items, not by the case's. *)
NextNumberOverall(k) == Len(evidence) + 1

(* _next_item_number: ITEM-00n, n one more than the case has items. *)
NextItemNumber(k) == Cardinality(InCase(k)) + 1

Finish(p) == /\ EndStore(p)
             /\ request' = [request EXCEPT ![p] = NoRequest]
             /\ UNCHANGED <<touched, check>>

(* _record_evidence; UNIQUE (case_id, item_number) lets the row in. *)
RecordEvidence(p) ==
    LET r == request[p]
        n == IF r.number = NoNumber THEN NextItemNumber(r.case) ELSE r.number
    IN  /\ r.table = "evidence"
        /\ n \notin NumbersUsed(r.case)
        /\ evidence' = Append(evidence, [case |-> r.case, number |-> n, sha256 |-> digest[p],
                                         auto |-> r.number = NoNumber])
        /\ Log("evidence_ingested", Len(evidence) + 1, digest[p], "pass")
        /\ Finish(p)
        /\ UNCHANGED attachments

(* attach: the evidence it hangs from, if any, must be in the same case. *)
RecordAttachment(p) ==
    LET r == request[p]
    IN  /\ r.table = "attachments"
        /\ r.of # 0 => r.of \in InCase(r.case)
        /\ attachments' = Append(attachments, [case |-> r.case, of |-> r.of,
                                               sha256 |-> digest[p]])
        /\ Log("attachment_uploaded", r.of, digest[p], "pass")
        /\ Finish(p)
        /\ UNCHANGED evidence

(* The transaction raises (no such case, evidence of another case, number   *)
(* taken, database busy) and is rolled back; the file stays in the vault.   *)
RecordFails(p) ==
    /\ request[p] # NoRequest
    /\ Finish(p)
    /\ UNCHANGED records

-----------------------------------------------------------------------------
(* verify_evidence *)

(* The row is read, then rehash asks is_file. *)
CheckBegin(p, e) ==
    /\ Free(p)
    /\ e \in DOMAIN evidence
    /\ check' = [check EXCEPT ![p] =
                   IF Present(evidence[e].sha256)
                   THEN [stage |-> "found", evidence |-> e, raced |-> FALSE]
                   ELSE [stage |-> "read", evidence |-> e, passed |-> FALSE, raced |-> FALSE]]
    /\ UNCHANGED <<vaultVars, request, records>>

(* Faulty variant: trust that a file at the address has the right bytes. *)
CheckTrusts(p) ==
    LET e == check[p].evidence
    IN  /\ check[p].stage = "found"
        /\ Present(evidence[e].sha256)
        /\ check' = [check EXCEPT ![p] = [stage |-> "read", evidence |-> e, passed |-> TRUE,
                                          raced |-> check[p].raced]]
        /\ UNCHANGED <<vaultVars, request, records>>

(* The bytes are read back and hashed. *)
CheckRead(p) ==
    LET e == check[p].evidence  c == evidence[e].sha256
    IN  /\ check[p].stage = "found"
        /\ Present(c)
        /\ check' = [check EXCEPT ![p] = [stage |-> "read", evidence |-> e,
                                          passed |-> vault[c].bytes = c,
                                          raced |-> check[p].raced]]
        /\ UNCHANGED <<vaultVars, request, records>>

(* The file went away after is_file: open raises an OSError, which is not a *)
(* StorageError, and verify_evidence ends without an entry.                 *)
CheckEscapes(p) ==
    /\ check[p].stage = "found"
    /\ ~Present(evidence[check[p].evidence].sha256)
    /\ check' = [check EXCEPT ![p] = NoCheck]
    /\ UNCHANGED <<vaultVars, request, records>>

(* The transaction raises, the database staying busy, or the process dies. *)
CheckFails(p) ==
    /\ check[p].stage = "read"
    /\ check' = [check EXCEPT ![p] = NoCheck]
    /\ UNCHANGED <<vaultVars, request, records>>

CheckLog(p) ==
    LET e == check[p].evidence
    IN  /\ check[p].stage = "read"
        /\ Log("evidence_verified", e, evidence[e].sha256,
               IF check[p].passed THEN "pass" ELSE "fail")
        /\ check' = [check EXCEPT ![p] = NoCheck]
        /\ UNCHANGED <<vaultVars, request, evidence, attachments>>

-----------------------------------------------------------------------------
Crash(p) == /\ CrashStore(p)
            /\ request' = [request EXCEPT ![p] = NoRequest]
            /\ UNCHANGED <<touched, check, records>>

Outside(c) == /\ AlterFile(c) \/ RemoveFile(c)
              /\ RaceChecks
              /\ UNCHANGED <<request, records>>

Next == \/ \E p \in Process :
              \/ \E k \in Case, n \in Number \cup {NoNumber} :
                    Begin(p, [table |-> "evidence", case |-> k, number |-> n])
              \/ \E k \in Case, e \in {0} \cup DOMAIN evidence :
                    Begin(p, [table |-> "attachments", case |-> k, of |-> e])
              \/ Storing(p)
              \/ RecordEvidence(p) \/ RecordAttachment(p) \/ RecordFails(p)
              \/ \E e \in DOMAIN evidence : CheckBegin(p, e)
              \/ CheckRead(p) \/ CheckEscapes(p) \/ CheckFails(p) \/ CheckLog(p)
              \/ Crash(p)
        \/ \E c \in Content : Outside(c)

Spec == Init /\ [][Next]_vars

-----------------------------------------------------------------------------
EvidenceRow   == [case: Case, number: Nat, sha256: Content, auto: BOOLEAN]
AttachmentRow == [case: Case, of: Nat, sha256: Content]
LogEntry == [action: {"evidence_ingested", "attachment_uploaded", "evidence_verified"},
             evidence: Nat, sha256: Content, result: {"pass", "fail"}]
Check == [stage: {"found"}, evidence: Nat, raced: BOOLEAN]
         \cup [stage: {"read"}, evidence: Nat, passed: BOOLEAN, raced: BOOLEAN]

TypeOK == /\ VaultTypeOK
          /\ request \in [Process -> Request \cup {NoRequest}]
          /\ check \in [Process -> Check \cup {NoCheck}]
          /\ evidence \in Seq(EvidenceRow)
          /\ attachments \in Seq(AttachmentRow)
          /\ log \in Seq(LogEntry)

Rows == {evidence[e].sha256 : e \in DOMAIN evidence}
        \cup {attachments[a].sha256 : a \in DOMAIN attachments}

(* What is recorded can be produced: unless somebody removed it from        *)
(* outside, every row's file is in the vault, although file and row are     *)
(* written separately, by several processes, any of which may die between.  *)
RowHasFile == \A c \in Rows \ touched : Present(c)

(* A verification entry tells the truth: if nobody changed the file while   *)
(* the call ran, the entry says "pass" exactly when the file is there and   *)
(* has the recorded digest at the moment the entry is written.              *)
VerdictTrue ==
    [][\A p \in Process :
          CheckLog(p) /\ ~check[p].raced =>
             LET entry == log'[Len(log')]
             IN  entry.result = "pass" <=> Bytes(vault[entry.sha256]) = entry.sha256]_vars

(* As long as a case's numbers were all assigned, they are ITEM-001 to the  *)
(* number of its items and the next one is free.                            *)
AssignedNumbersContiguous ==
    \A k \in Case : (\A e \in InCase(k) : evidence[e].auto) =>
                       NumbersUsed(k) = 1..Cardinality(InCase(k))

(* "assigned automatically if omitted" (cli.py:719): the next number of a   *)
(* case is one that its items leave free.                                   *)
NextNumberFree == \A k \in Case : NextItemNumber(k) \notin NumbersUsed(k)

(* "Stored files are chmod'ed read-only" (storage.py:16): with no store     *)
(* under way, the file of every item that was not changed from outside is.  *)
RecordedIsSealed ==
    (\A p \in Process : step[p] = "idle") =>
       \A c \in Rows \ touched : vault[c].mode = "0444"
=============================================================================
