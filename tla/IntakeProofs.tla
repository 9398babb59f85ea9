---------------------------- MODULE IntakeProofs -----------------------------
(***************************************************************************)
(* What holds of the Vault and of Intake for any processes, contents and   *)
(* cases and any number of faults and changes from outside: an address     *)
(* holds its own bytes and no part of them, every row's file is there, a   *)
(* verification tells the truth, and assigned numbers leave no gap.        *)
(***************************************************************************)
EXTENDS Intake, FiniteSetTheorems, TLAPS

-----------------------------------------------------------------------------
(* The invariants *)

(* What a store is about to return is at its address.                       *)
StoredIsThere ==
    \A p \in Process : step[p] = "stored" => digest[p] \in touched \/ Present(digest[p])

(* A verification under way is of a row.                                    *)
ChecksNameRows ==
    \A p \in Process : check[p] # NoCheck => check[p].evidence \in DOMAIN evidence

(* A result read but not logged yet is the one a reading now would have.    *)
FindingCurrent ==
    \A p \in Process :
       check[p].stage = "read" /\ ~check[p].raced =>
          LET c == evidence[check[p].evidence].sha256
          IN  check[p].passed <=> Bytes(vault[c]) = c

VaultInv == /\ VaultTypeOK /\ StoredIsThere
            /\ AddressIsContent /\ SealedUnlessInFlight /\ LeftoverOnlyByFault

IndInv == /\ TypeOK /\ VaultInv
          /\ ChecksNameRows /\ FindingCurrent
          /\ RowHasFile /\ AssignedNumbersContiguous

(* No step takes a file away but those from outside.                        *)
FilesStay == \A c \in Content \ touched' : Present(c) => Present(c)'

-----------------------------------------------------------------------------
(* The steps of the vault *)

(* A step of one store that leaves the vault alone.                         *)
LEMMA AloneKeeps ==
  ASSUME VaultInv, NEW p \in Process, VaultTypeOK', UNCHANGED <<vault, touched>>,
         \A q \in Process \ {p} : step'[q] = step[q] /\ digest'[q] = digest[q],
         step'[p] = "stored" => digest'[p] \in touched \/ Present(digest'[p]),
         leftover' <= faults', faults' >= faults,
         step[p] = "replaced" =>
            \/ step'[p] = "replaced" /\ digest'[p] = digest[p]
            \/ faults' # 0 \/ ~Present(digest[p])
  PROVE  VaultInv' /\ FilesStay
<1>1. StoredIsThere'
  BY DEF VaultInv, StoredIsThere, Present
<1>2. AddressIsContent' /\ FilesStay
  BY DEF VaultInv, AddressIsContent, FilesStay, Present
<1>3. SealedUnlessInFlight'
  <2> SUFFICES ASSUME faults' = 0, NEW c \in Content \ touched, Present(c), vault[c].mode # "0444"
               PROVE  \E q \in Process : step'[q] = "replaced" /\ digest'[q] = c
    BY DEF SealedUnlessInFlight, Present
  <2>1. faults = 0
    BY DEF VaultInv, VaultTypeOK
  <2>2. PICK q \in Process : step[q] = "replaced" /\ digest[q] = c
    BY <2>1 DEF VaultInv, SealedUnlessInFlight
  <2>3. step'[q] = "replaced" /\ digest'[q] = c
    BY <2>2
  <2> QED BY <2>3
<1> QED BY <1>1, <1>2, <1>3 DEF VaultInv, LeftoverOnlyByFault

(* Files stay what they are: contents and whatever altered them.            *)
LEMMA FileFacts ==
  /\ \A c \in Content, m \in {"0600", "0444"} : [bytes |-> c, mode |-> m] \in File
  /\ [bytes |-> Altered, mode |-> "0600"] \in File
  /\ \A f \in File : [f EXCEPT !.mode = "0444"] \in File
  /\ \A f \in File : f # Absent
BY AbsentAssumption DEF File

(* One store's step keeps the types.                                        *)
LEMMA StoreStepTyped ==
  ASSUME VaultTypeOK, NEW p \in Process, StoreStep(p)
  PROVE  VaultTypeOK'
<1> USE SentinelAssumption, BoundAssumption DEF At, Forget
<1>1. ASSUME NEW c \in Content, CopyDone(p, c) PROVE VaultTypeOK'
  BY <1>1 DEF VaultTypeOK, StoreStep, CopyDone
<1>2. ASSUME StoreFails(p) PROVE VaultTypeOK'
  BY <1>2 DEF VaultTypeOK, StoreStep, StoreFails
<1>3. ASSUME Deduplicate(p) PROVE VaultTypeOK'
  BY <1>3 DEF VaultTypeOK, StoreStep, Deduplicate
<1>4. ASSUME NotThere(p) PROVE VaultTypeOK'
  BY <1>4 DEF VaultTypeOK, StoreStep, NotThere
<1>5. ASSUME Replace(p) PROVE VaultTypeOK'
  BY <1>5, FileFacts DEF VaultTypeOK, StoreStep, Replace
<1>6. ASSUME Chmod(p) PROVE VaultTypeOK'
  BY <1>6, FileFacts DEF VaultTypeOK, StoreStep, Chmod, Present
<1>7. ASSUME ChmodFails(p) PROVE VaultTypeOK'
  BY <1>7 DEF VaultTypeOK, StoreStep, ChmodFails
<1> QED BY <1>1, <1>2, <1>3, <1>4, <1>5, <1>6, <1>7 DEF StoreStep

(* ... and what the vault promises.                                         *)
LEMMA StoreStepKeeps ==
  ASSUME VaultInv, NEW p \in Process, StoreStep(p)
  PROVE  VaultInv' /\ FilesStay
<1> USE SentinelAssumption, BoundAssumption DEF At, Forget
<1>1. VaultTypeOK /\ VaultTypeOK' /\ UNCHANGED touched
  BY StoreStepTyped DEF VaultInv, StoreStep
<1>2. ASSUME NEW c \in Content, CopyDone(p, c) PROVE VaultInv' /\ FilesStay
  BY <1>1, <1>2, AloneKeeps DEF CopyDone, VaultTypeOK, VaultInv, LeftoverOnlyByFault
<1>3. ASSUME StoreFails(p) PROVE VaultInv' /\ FilesStay
  BY <1>1, <1>3, AloneKeeps DEF StoreFails, VaultTypeOK, VaultInv, LeftoverOnlyByFault
<1>4. ASSUME Deduplicate(p) PROVE VaultInv' /\ FilesStay
  BY <1>1, <1>4, AloneKeeps DEF Deduplicate, VaultTypeOK, VaultInv, LeftoverOnlyByFault
<1>5. ASSUME NotThere(p) PROVE VaultInv' /\ FilesStay
  BY <1>1, <1>5, AloneKeeps DEF NotThere, VaultTypeOK, VaultInv, LeftoverOnlyByFault
<1>6. ASSUME ChmodFails(p) PROVE VaultInv' /\ FilesStay
  BY <1>1, <1>6, AloneKeeps DEF ChmodFails, VaultTypeOK, VaultInv, LeftoverOnlyByFault
<1>7. ASSUME Replace(p) PROVE VaultInv' /\ FilesStay
  <2> DEFINE d == digest[p]
             f == [bytes |-> d, mode |-> "0600"]
  <2>1. /\ d \in Content /\ f \in File /\ f # Absent /\ f.bytes = d
        /\ vault' = [vault EXCEPT ![d] = f]
        /\ step' = [step EXCEPT ![p] = "replaced"]
        /\ UNCHANGED <<digest, leftover, faults>>
    BY <1>1, <1>7, FileFacts DEF Replace, VaultTypeOK
  <2> HIDE DEF f
  <2>2. /\ \A c \in Content : vault'[c] = IF c = d THEN f ELSE vault[c]
        /\ \A q \in Process : step'[q] = IF q = p THEN "replaced" ELSE step[q]
    BY <1>1, <2>1 DEF VaultTypeOK
  <2>3. StoredIsThere' /\ AddressIsContent' /\ FilesStay
    BY <1>1, <2>1, <2>2 DEF VaultInv, StoredIsThere, AddressIsContent, FilesStay, Present, VaultTypeOK
  <2>4. SealedUnlessInFlight'
    BY <1>1, <2>1, <2>2, <1>7 DEF VaultInv, SealedUnlessInFlight, Present, Replace
  <2> QED BY <1>1, <2>1, <2>3, <2>4 DEF VaultInv, LeftoverOnlyByFault
<1>8. ASSUME Chmod(p) PROVE VaultInv' /\ FilesStay
  <2> DEFINE d == digest[p]
             f == [vault[d] EXCEPT !.mode = "0444"]
  <2>1. /\ d \in Content /\ vault[d] \in File /\ f \in File /\ f # Absent
        /\ f.bytes = vault[d].bytes /\ f.mode = "0444"
        /\ vault' = [vault EXCEPT ![d] = f]
        /\ step' = [step EXCEPT ![p] = "stored"]
        /\ UNCHANGED <<digest, leftover, faults>>
    BY <1>1, <1>8, FileFacts DEF Chmod, Present, VaultTypeOK, File
  <2> HIDE DEF f
  <2>2. /\ \A c \in Content : vault'[c] = IF c = d THEN f ELSE vault[c]
        /\ \A q \in Process : step'[q] = IF q = p THEN "stored" ELSE step[q]
    BY <1>1, <2>1 DEF VaultTypeOK
  <2>3. StoredIsThere' /\ AddressIsContent' /\ FilesStay
    BY <1>1, <1>8, <2>1, <2>2 DEF VaultInv, StoredIsThere, AddressIsContent, FilesStay,
                                  Present, Chmod, VaultTypeOK
  <2>4. SealedUnlessInFlight'
    BY <1>1, <2>1, <2>2 DEF VaultInv, SealedUnlessInFlight, Present
  <2> QED BY <1>1, <2>1, <2>3, <2>4 DEF VaultInv, LeftoverOnlyByFault
<1> QED BY <1>2, <1>3, <1>4, <1>5, <1>6, <1>7, <1>8 DEF StoreStep

(* A store beginning, ending, or dying with its process.                    *)
LEMMA StoreEdgeKeeps ==
  ASSUME VaultInv, NEW p \in Process, BeginStore(p) \/ EndStore(p) \/ CrashStore(p),
         UNCHANGED touched
  PROVE  VaultInv' /\ FilesStay
<1> USE SentinelAssumption, BoundAssumption DEF At, Forget
<1>1. VaultTypeOK /\ leftover <= faults
  BY DEF VaultInv, LeftoverOnlyByFault
<1>2. CASE BeginStore(p)
  <2>1. VaultTypeOK'
    BY <1>1, <1>2 DEF BeginStore, VaultTypeOK
  <2> QED BY <1>1, <1>2, <2>1, AloneKeeps DEF BeginStore, VaultTypeOK
<1>3. CASE EndStore(p)
  <2>1. VaultTypeOK'
    BY <1>1, <1>3 DEF EndStore, VaultTypeOK
  <2> QED BY <1>1, <1>3, <2>1, AloneKeeps DEF EndStore, VaultTypeOK
<1>4. CASE CrashStore(p)
  <2>1. VaultTypeOK'
    BY <1>1, <1>4 DEF CrashStore, VaultTypeOK
  <2>2. leftover' <= faults' /\ faults' > faults /\ faults' # 0
    BY <1>1, <1>4 DEF CrashStore, VaultTypeOK
  <2> QED BY <1>1, <1>4, <2>1, <2>2, AloneKeeps DEF CrashStore, VaultTypeOK
<1> QED BY <1>2, <1>3, <1>4

(* A change from outside is remembered in touched.                          *)
LEMMA OutsideKeeps ==
  ASSUME VaultInv, NEW c \in Content, AlterFile(c) \/ RemoveFile(c)
  PROVE  VaultInv' /\ FilesStay
<1>1. PICK f \in File \cup {Absent} : OutsideChange(c, f)
  BY FileFacts DEF AlterFile, RemoveFile
<1>2. /\ \A d \in Content \ {c} : vault'[d] = vault[d]
      /\ touched' = touched \cup {c}
      /\ UNCHANGED <<step, digest, leftover, faults>>
  BY <1>1 DEF OutsideChange, VaultInv, VaultTypeOK
<1>3. VaultTypeOK'
  BY <1>1, <1>2 DEF OutsideChange, VaultInv, VaultTypeOK
<1>4. StoredIsThere'
  <2> SUFFICES ASSUME NEW p \in Process, step[p] = "stored", digest[p] \notin touched'
               PROVE  vault'[digest[p]] # Absent
    BY <1>2 DEF StoredIsThere, Present
  <2>1. digest[p] \in Content
    BY DEF VaultInv, VaultTypeOK
  <2> QED BY <1>2, <2>1 DEF VaultInv, StoredIsThere, Present
<1>5. AddressIsContent' /\ FilesStay
  BY <1>2 DEF VaultInv, AddressIsContent, FilesStay, Present
<1>6. SealedUnlessInFlight'
  BY <1>2 DEF VaultInv, SealedUnlessInFlight, Present
<1> QED BY <1>2, <1>3, <1>4, <1>5, <1>6 DEF VaultInv, LeftoverOnlyByFault

-----------------------------------------------------------------------------
(* The records *)

(* What Append does to a table.                                             *)
LEMMA Appended ==
  ASSUME NEW R, NEW T \in Seq(R), NEW r \in R
  PROVE  /\ Len(T) \in Nat /\ DOMAIN T = 1..Len(T)
         /\ Append(T, r) \in Seq(R)
         /\ DOMAIN Append(T, r) = 1..(Len(T) + 1)
         /\ \A n \in DOMAIN T : Append(T, r)[n] = T[n]
         /\ Append(T, r)[Len(T) + 1] = r
OBVIOUS

(* The items of a case can be counted.                                      *)
LEMMA CaseFinite ==
  ASSUME evidence \in Seq(EvidenceRow), NEW k
  PROVE  IsFiniteSet(InCase(k)) /\ Cardinality(InCase(k)) \in Nat
<1>1. IsFiniteSet(1..Len(evidence))
  BY FS_Interval
<1>2. InCase(k) \in SUBSET (1..Len(evidence))
  BY DEF InCase
<1>3. IsFiniteSet(InCase(k))
  BY <1>1, <1>2, FS_Subset
<1> QED BY <1>3, FS_CardinalityType

(* The number of a new item continues the case's assigned ones.             *)
LEMMA NumbersContinue ==
  ASSUME evidence \in Seq(EvidenceRow), AssignedNumbersContiguous,
         NEW r \in EvidenceRow, evidence' = Append(evidence, r),
         r.auto => r.number = NextItemNumber(r.case)
  PROVE  AssignedNumbersContiguous'
<1> DEFINE N == Len(evidence)
<1>1. /\ N \in Nat /\ DOMAIN evidence = 1..N
      /\ DOMAIN evidence' = 1..(N + 1)
      /\ \A n \in DOMAIN evidence : evidence'[n] = evidence[n]
      /\ evidence'[N + 1] = r
  BY Appended
<1> HIDE DEF N
<1> SUFFICES ASSUME NEW k \in Case, \A e \in InCase(k)' : evidence'[e].auto
             PROVE  NumbersUsed(k)' = 1..Cardinality(InCase(k)')
  BY DEF AssignedNumbersContiguous
<1>2. CASE r.case # k
  <2>1. InCase(k)' = InCase(k)
    BY <1>1, <1>2 DEF InCase
  <2>2. NumbersUsed(k)' = NumbersUsed(k)
    BY <1>1, <2>1 DEF NumbersUsed, InCase
  <2>3. \A e \in InCase(k) : evidence[e].auto
    BY <1>1, <2>1 DEF InCase
  <2> QED BY <2>1, <2>2, <2>3 DEF AssignedNumbersContiguous
<1>3. CASE r.case = k
  <2>1. InCase(k)' = InCase(k) \cup {N + 1} /\ N + 1 \notin InCase(k)
    BY <1>1, <1>3 DEF InCase
  <2>2. /\ Cardinality(InCase(k)) \in Nat
        /\ Cardinality(InCase(k)') = Cardinality(InCase(k)) + 1
    BY <2>1, CaseFinite, FS_AddElement
  <2>3. NumbersUsed(k)' = NumbersUsed(k) \cup {r.number}
    BY <1>1, <2>1 DEF NumbersUsed, InCase
  <2>4. r.auto /\ \A e \in InCase(k) : evidence[e].auto
    BY <1>1, <2>1 DEF InCase
  <2>5. r.number = Cardinality(InCase(k)) + 1
    BY <1>3, <2>4 DEF NextItemNumber
  <2>6. NumbersUsed(k) = 1..Cardinality(InCase(k))
    BY <2>4 DEF AssignedNumbersContiguous
  <2> QED BY <2>2, <2>3, <2>5, <2>6
<1> QED BY <1>2, <1>3

-----------------------------------------------------------------------------
(* The calls *)

(* While the tables stay, files going nowhere keep every row's file.        *)
LEMMA RowsKeep ==
  ASSUME TypeOK, RowHasFile, FilesStay, touched \subseteq touched',
         UNCHANGED <<evidence, attachments>>
  PROVE  RowHasFile'
<1>1. Rows' = Rows
  BY DEF Rows
<1>2. Rows \subseteq Content
  <2>1. \A e \in DOMAIN evidence : evidence[e] \in EvidenceRow
    BY DEF TypeOK
  <2>2. \A a \in DOMAIN attachments : attachments[a] \in AttachmentRow
    BY DEF TypeOK
  <2> QED BY <2>1, <2>2 DEF Rows, EvidenceRow, AttachmentRow
<1> QED BY <1>1, <1>2 DEF RowHasFile, FilesStay

LEMMA NumbersKeep ==
  ASSUME AssignedNumbersContiguous, UNCHANGED evidence
  PROVE  AssignedNumbersContiguous'
BY DEF AssignedNumbersContiguous, InCase, NumbersUsed

(* What RaceChecks leaves of one check.                                     *)
LEMMA RaceChecksKeep ==
  ASSUME TypeOK, ChecksNameRows, FindingCurrent, RaceChecks, UNCHANGED evidence
  PROVE  /\ check' \in [Process -> Check \cup {NoCheck}]
         /\ ChecksNameRows' /\ FindingCurrent'
<1>1. ASSUME NEW p \in Process
      PROVE  /\ check'[p] \in Check \cup {NoCheck}
             /\ check'[p] # NoCheck =>
                   check[p] # NoCheck /\ check'[p].evidence = check[p].evidence
             /\ check'[p].stage = check[p].stage
             /\ check'[p].stage = "read" => check'[p].passed = check[p].passed
             /\ check'[p].stage = "read" /\ ~check'[p].raced =>
                   /\ ~check[p].raced
                   /\ LET c == evidence[check[p].evidence].sha256
                      IN  Bytes(vault'[c]) = Bytes(vault[c])
  <2>1. check[p] \in Check \cup {NoCheck}
    BY DEF TypeOK
  <2>2. \/ check'[p] = check[p]
        \/ check'[p] = [check[p] EXCEPT !.raced = TRUE] /\ check[p] # NoCheck
    <3> DEFINE marked == [check[p] EXCEPT !.raced = TRUE]
    <3>1. check'[p] = IF /\ check[p] # NoCheck
                         /\ LET c == evidence[check[p].evidence].sha256
                            IN  Bytes(vault'[c]) # Bytes(vault[c])
                      THEN marked ELSE check[p]
      BY DEF RaceChecks
    <3> HIDE DEF marked
    <3>2. check'[p] = check[p] \/ (check'[p] = marked /\ check[p] # NoCheck)
      BY <3>1
    <3> QED BY <3>2 DEF marked
  <2>3. CASE check[p] = NoCheck
    BY <2>2, <2>3 DEF NoCheck
  <2>4. CASE check[p] \in Check /\ check'[p] = check[p]
    <3>1. check[p] # NoCheck
      BY <2>4 DEF Check, NoCheck
    <3>2. check[p].raced \/ LET c == evidence[check[p].evidence].sha256
                            IN  Bytes(vault'[c]) = Bytes(vault[c])
      <4> SUFFICES ASSUME LET c == evidence[check[p].evidence].sha256
                          IN  Bytes(vault'[c]) # Bytes(vault[c])
                   PROVE  check[p].raced
        OBVIOUS
      <4>1. check'[p] = [check[p] EXCEPT !.raced = TRUE]
        BY <3>1 DEF RaceChecks
      <4> QED BY <2>4, <4>1 DEF Check
    <3> QED BY <2>4, <3>1, <3>2
  <2>5. CASE check[p] \in Check /\ check'[p] = [check[p] EXCEPT !.raced = TRUE]
    BY <2>5 DEF Check, NoCheck
  <2> QED BY <2>1, <2>2, <2>3, <2>4, <2>5
<1>2. check' \in [Process -> Check \cup {NoCheck}]
  BY <1>1 DEF RaceChecks
<1>3. ChecksNameRows'
  BY <1>1 DEF ChecksNameRows
<1>4. FindingCurrent'
  <2> SUFFICES ASSUME NEW p \in Process, check'[p].stage = "read", ~check'[p].raced
               PROVE  LET c == evidence'[check'[p].evidence].sha256
                      IN  check'[p].passed <=> Bytes(vault'[c]) = c
    BY DEF FindingCurrent, Bytes
  <2>1. check'[p] # NoCheck
    BY DEF NoCheck
  <2> QED BY <1>1, <2>1 DEF FindingCurrent
<1> QED BY <1>2, <1>3, <1>4

(* A check that ends or moves on touches neither files nor tables.          *)
LEMMA CheckStepKeeps ==
  ASSUME IndInv, UNCHANGED <<vaultVars, request, evidence, attachments>>, log' \in Seq(LogEntry),
         NEW p \in Process, NEW k \in Check \cup {NoCheck}, check' = [check EXCEPT ![p] = k],
         k # NoCheck => k.evidence \in DOMAIN evidence,
         k.stage = "read" /\ ~k.raced =>
            LET c == evidence[k.evidence].sha256
            IN  k.passed <=> Bytes(vault[c]) = c
  PROVE  IndInv'
<1>1. \A q \in Process : check'[q] = IF q = p THEN k ELSE check[q]
  BY DEF IndInv, TypeOK
<1>2. VaultTypeOK' /\ VaultInv'
  BY DEF IndInv, TypeOK, VaultInv, vaultVars, fileVars, VaultTypeOK, StoredIsThere,
         AddressIsContent, SealedUnlessInFlight, LeftoverOnlyByFault, Present
<1>3. TypeOK'
  BY <1>2 DEF IndInv, TypeOK
<1>4. ChecksNameRows'
  BY <1>1 DEF IndInv, ChecksNameRows
<1>5. FindingCurrent'
  BY <1>1 DEF IndInv, FindingCurrent, Bytes, vaultVars, fileVars
<1>6. RowHasFile'
  BY RowsKeep DEF IndInv, FilesStay, Present, vaultVars, fileVars
<1>7. AssignedNumbersContiguous'
  BY NumbersKeep DEF IndInv
<1> QED BY <1>2, <1>3, <1>4, <1>5, <1>6, <1>7 DEF IndInv

(* A step of a store that leaves the tables alone.                          *)
LEMMA FileStepKeeps ==
  ASSUME IndInv, VaultInv', FilesStay, touched \subseteq touched',
         request' \in [Process -> Request \cup {NoRequest}],
         RaceChecks \/ (UNCHANGED check /\ UNCHANGED vault), UNCHANGED records
  PROVE  IndInv'
<1> USE DEF records
<1>1. /\ check' \in [Process -> Check \cup {NoCheck}]
      /\ ChecksNameRows' /\ FindingCurrent'
  <2>1. CASE RaceChecks
    BY <2>1, RaceChecksKeep DEF IndInv
  <2>2. CASE UNCHANGED check /\ UNCHANGED vault
    BY <2>2 DEF IndInv, TypeOK, ChecksNameRows, FindingCurrent, Bytes
  <2> QED BY <2>1, <2>2
<1>2. TypeOK'
  BY <1>1 DEF IndInv, TypeOK, VaultInv
<1>3. RowHasFile' /\ AssignedNumbersContiguous'
  BY RowsKeep, NumbersKeep DEF IndInv
<1> QED BY <1>1, <1>2, <1>3 DEF IndInv

(* An item is recorded.                                                     *)
LEMMA RecordEvidenceKeeps ==
  ASSUME IndInv, NEW p \in Process, RecordEvidence(p)
  PROVE  IndInv'
<1> DEFINE q == request[p]
           n == IF q.number = NoNumber THEN NextItemNumber(q.case) ELSE q.number
           r == [case |-> q.case, number |-> n, sha256 |-> digest[p], auto |-> q.number = NoNumber]
           l == [action |-> "evidence_ingested", evidence |-> Len(evidence) + 1,
                 sha256 |-> digest[p], result |-> "pass"]
<1>1. TypeOK /\ evidence \in Seq(EvidenceRow) /\ attachments \in Seq(AttachmentRow)
  BY DEF IndInv, TypeOK
<1>2. /\ q.table = "evidence" /\ evidence' = Append(evidence, r) /\ log' = Append(log, l)
      /\ EndStore(p) /\ request' = [request EXCEPT ![p] = NoRequest]
      /\ UNCHANGED <<touched, check, attachments, vault>>
  <2>1. evidence' = Append(evidence, r)
    BY DEF RecordEvidence
  <2> QED BY <2>1 DEF RecordEvidence, Log, Finish, EndStore
<1>3. q.case \in Case /\ q.number \in Number \cup {NoNumber}
  <2>1. q \in Request \cup {NoRequest}
    BY <1>1 DEF TypeOK
  <2> HIDE DEF q
  <2> QED BY <1>2, <2>1 DEF Request, NoRequest
<1>4. n \in Nat
  <2>1. NextItemNumber(q.case) \in Nat
    BY <1>1, CaseFinite DEF NextItemNumber
  <2>2. Number \subseteq Nat
    BY DEF Number
  <2> QED BY <1>3, <2>1, <2>2
<1>5. digest[p] \in Content /\ step[p] = "stored"
  BY <1>1, <1>2 DEF EndStore, At, TypeOK, VaultTypeOK
<1>6. r \in EvidenceRow /\ r.sha256 = digest[p]
      /\ (r.auto => r.number = NextItemNumber(r.case))
  BY <1>3, <1>4, <1>5 DEF EvidenceRow
<1>7. l \in LogEntry
  BY <1>1, <1>5 DEF LogEntry
<1> HIDE DEF r, l, n
<1>8. /\ Len(evidence) \in Nat /\ DOMAIN evidence = 1..Len(evidence)
      /\ DOMAIN evidence' = 1..(Len(evidence) + 1)
      /\ \A e \in DOMAIN evidence : evidence'[e] = evidence[e]
      /\ evidence'[Len(evidence) + 1] = r
      /\ evidence' \in Seq(EvidenceRow)
  BY <1>1, <1>2, <1>6, Appended
<1>9. VaultInv' /\ FilesStay
  BY <1>2, StoreEdgeKeeps DEF IndInv
<1>10. TypeOK'
  BY <1>2, <1>7, <1>8, <1>9 DEF IndInv, TypeOK, VaultInv
<1>11. ChecksNameRows'
  BY <1>2, <1>8 DEF IndInv, ChecksNameRows
<1>12. FindingCurrent'
  <2> SUFFICES ASSUME NEW s \in Process, check[s].stage = "read", ~check[s].raced
               PROVE  LET c == evidence'[check[s].evidence].sha256
                      IN  check[s].passed <=> Bytes(vault[c]) = c
    BY <1>2 DEF FindingCurrent, Bytes
  <2>1. check[s].evidence \in DOMAIN evidence
    BY DEF IndInv, ChecksNameRows, NoCheck
  <2> QED BY <1>8, <2>1 DEF IndInv, FindingCurrent
<1>13. RowHasFile'
  <2>1. Rows' = Rows \cup {digest[p]}
    BY <1>2, <1>6, <1>8 DEF Rows
  <2>2. \A c \in Rows \ touched : Present(c)
    BY DEF IndInv, RowHasFile
  <2>3. digest[p] \in touched \/ Present(digest[p])
    BY <1>5 DEF IndInv, VaultInv, StoredIsThere
  <2> QED BY <1>2, <2>1, <2>2, <2>3 DEF RowHasFile, Present
<1>14. AssignedNumbersContiguous'
  BY <1>1, <1>2, <1>6, NumbersContinue DEF IndInv
<1> QED BY <1>9, <1>10, <1>11, <1>12, <1>13, <1>14 DEF IndInv

(* An attachment is recorded.                                               *)
LEMMA RecordAttachmentKeeps ==
  ASSUME IndInv, NEW p \in Process, RecordAttachment(p)
  PROVE  IndInv'
<1> DEFINE q == request[p]
           r == [case |-> q.case, of |-> q.of, sha256 |-> digest[p]]
           l == [action |-> "attachment_uploaded", evidence |-> q.of,
                 sha256 |-> digest[p], result |-> "pass"]
<1>1. TypeOK /\ attachments \in Seq(AttachmentRow)
  BY DEF IndInv, TypeOK
<1>2. /\ q.table = "attachments" /\ attachments' = Append(attachments, r) /\ log' = Append(log, l)
      /\ EndStore(p) /\ request' = [request EXCEPT ![p] = NoRequest]
      /\ UNCHANGED <<touched, check, evidence, vault>>
  BY DEF RecordAttachment, Log, Finish, EndStore
<1>3. q.case \in Case /\ q.of \in Nat
  BY <1>1, <1>2 DEF TypeOK, Request, NoRequest
<1>4. digest[p] \in Content /\ step[p] = "stored"
  BY <1>1, <1>2 DEF EndStore, At, TypeOK, VaultTypeOK
<1>5. r \in AttachmentRow /\ r.sha256 = digest[p] /\ l \in LogEntry
  BY <1>3, <1>4 DEF AttachmentRow, LogEntry
<1> HIDE DEF r, l
<1>6. /\ Len(attachments) \in Nat /\ DOMAIN attachments = 1..Len(attachments)
      /\ DOMAIN attachments' = 1..(Len(attachments) + 1)
      /\ \A a \in DOMAIN attachments : attachments'[a] = attachments[a]
      /\ attachments'[Len(attachments) + 1] = r
      /\ attachments' \in Seq(AttachmentRow)
  BY <1>1, <1>2, <1>5, Appended
<1>7. VaultInv' /\ FilesStay
  BY <1>2, StoreEdgeKeeps DEF IndInv
<1>8. TypeOK'
  BY <1>2, <1>5, <1>6, <1>7 DEF IndInv, TypeOK, VaultInv
<1>9. ChecksNameRows' /\ FindingCurrent'
  BY <1>2 DEF IndInv, ChecksNameRows, FindingCurrent, Bytes
<1>10. RowHasFile'
  <2>1. Rows' = Rows \cup {digest[p]}
    BY <1>2, <1>5, <1>6 DEF Rows
  <2>2. \A c \in Rows \ touched : Present(c)
    BY DEF IndInv, RowHasFile
  <2>3. digest[p] \in touched \/ Present(digest[p])
    BY <1>4 DEF IndInv, VaultInv, StoredIsThere
  <2> QED BY <1>2, <2>1, <2>2, <2>3 DEF RowHasFile, Present
<1>11. AssignedNumbersContiguous'
  BY <1>2, NumbersKeep DEF IndInv
<1> QED BY <1>7, <1>8, <1>9, <1>10, <1>11 DEF IndInv

(* Steps of a verify_evidence call.                                         *)
LEMMA VerifyKeeps ==
  ASSUME IndInv, NEW p \in Process,
         \/ \E e \in DOMAIN evidence : CheckBegin(p, e)
         \/ CheckRead(p) \/ CheckEscapes(p) \/ CheckFails(p) \/ CheckLog(p)
  PROVE  IndInv'
<1> DEFINE e == check[p].evidence
           c == evidence[e].sha256
<1>1. /\ TypeOK /\ evidence \in Seq(EvidenceRow) /\ log \in Seq(LogEntry)
      /\ check[p] \in Check \cup {NoCheck}
      /\ \A d \in DOMAIN evidence : d \in Nat /\ evidence[d].sha256 \in Content
  <2>1. TypeOK
    BY DEF IndInv
  <2>2. \A d \in DOMAIN evidence : d \in Nat /\ evidence[d] \in EvidenceRow
    BY <2>1 DEF TypeOK
  <2> QED BY <2>1, <2>2 DEF TypeOK, EvidenceRow
<1>2. /\ NoCheck.stage = "none"
      /\ \A k \in Check : k.stage \in {"found", "read"} /\ k.raced \in BOOLEAN
      /\ \A k \in Check : k.stage = "read" => k.passed \in BOOLEAN
  BY DEF NoCheck, Check
<1>3. check[p].stage \in {"found", "read"} =>
         check[p] \in Check /\ e \in DOMAIN evidence /\ c \in Content
  BY <1>1, <1>2 DEF IndInv, ChecksNameRows
<1>4. ASSUME NEW d \in DOMAIN evidence, CheckBegin(p, d) PROVE IndInv'
  <2> DEFINE found == [stage |-> "found", evidence |-> d, raced |-> FALSE]
             gone == [stage |-> "read", evidence |-> d, passed |-> FALSE, raced |-> FALSE]
             k == IF Present(evidence[d].sha256) THEN found ELSE gone
  <2>1. check' = [check EXCEPT ![p] = k] /\ UNCHANGED <<vaultVars, request, records>>
    BY <1>4 DEF CheckBegin
  <2>2. k \in Check /\ k.evidence = d
    BY <1>1 DEF Check
  <2>3. k.stage = "read" => k.passed = FALSE /\ ~Present(evidence[d].sha256)
    OBVIOUS
  <2>4. k.stage = "read" => (k.passed <=> Bytes(vault[evidence[d].sha256]) = evidence[d].sha256)
    BY <1>1, <2>3, SentinelAssumption DEF Present, Bytes
  <2> HIDE DEF k
  <2> QED BY <1>1, <2>1, <2>2, <2>4, CheckStepKeeps DEF records
<1>5. ASSUME CheckRead(p) PROVE IndInv'
  <2> DEFINE k == [stage |-> "read", evidence |-> e, passed |-> vault[c].bytes = c,
                   raced |-> check[p].raced]
  <2>1. /\ check[p].stage = "found" /\ Present(c)
        /\ check' = [check EXCEPT ![p] = k] /\ UNCHANGED <<vaultVars, request, records>>
    BY <1>5 DEF CheckRead
  <2>2. k \in Check /\ k.evidence = e /\ e \in DOMAIN evidence
    BY <1>1, <1>2, <1>3, <2>1 DEF Check
  <2>3. k.passed <=> Bytes(vault[c]) = c
    BY <2>1 DEF Present, Bytes
  <2> HIDE DEF k
  <2> QED BY <1>1, <2>1, <2>2, <2>3, CheckStepKeeps DEF records
<1>6. ASSUME CheckEscapes(p) \/ CheckFails(p) \/ CheckLog(p) PROVE IndInv'
  <2>1. /\ check' = [check EXCEPT ![p] = NoCheck]
        /\ UNCHANGED <<vaultVars, request, evidence, attachments>>
    BY <1>6 DEF CheckEscapes, CheckFails, CheckLog, records
  <2>2. log' \in Seq(LogEntry)
    <3>1. CASE CheckLog(p)
      <4> DEFINE l == [action |-> "evidence_verified", evidence |-> e, sha256 |-> c,
                       result |-> IF check[p].passed THEN "pass" ELSE "fail"]
      <4>1. log' = Append(log, l) /\ check[p].stage = "read"
        BY <3>1 DEF CheckLog, Log
      <4>2. l \in LogEntry
        BY <1>1, <1>3, <4>1 DEF LogEntry
      <4> HIDE DEF l
      <4> QED BY <1>1, <4>1, <4>2
    <3>2. CASE CheckEscapes(p) \/ CheckFails(p)
      BY <1>1, <3>2 DEF CheckEscapes, CheckFails, records
    <3> QED BY <1>6, <3>1, <3>2
  <2> QED BY <1>2, <2>1, <2>2, CheckStepKeeps
<1> QED BY <1>4, <1>5, <1>6

-----------------------------------------------------------------------------
(* The invariant is inductive. *)

LEMMA InitHolds == Init => IndInv
<1> SUFFICES ASSUME Init PROVE IndInv
  OBVIOUS
<1> USE DEF Init, VaultInit
<1>1. VaultTypeOK
  BY SentinelAssumption, BoundAssumption DEF VaultTypeOK
<1>2. TypeOK
  BY <1>1 DEF TypeOK
<1>3. VaultInv
  BY <1>1 DEF VaultInv, StoredIsThere, AddressIsContent, SealedUnlessInFlight,
              LeftoverOnlyByFault, Present
<1>4. ChecksNameRows /\ FindingCurrent
  BY DEF ChecksNameRows, FindingCurrent, NoCheck
<1>5. RowHasFile
  BY DEF RowHasFile, Rows
<1>6. AssignedNumbersContiguous
  <2> SUFFICES ASSUME NEW k \in Case
               PROVE  NumbersUsed(k) = 1..Cardinality(InCase(k))
    BY DEF AssignedNumbersContiguous
  <2>1. InCase(k) = {}
    BY DEF InCase
  <2> QED BY <2>1, FS_EmptySet DEF NumbersUsed
<1> QED BY <1>2, <1>3, <1>4, <1>5, <1>6 DEF IndInv

LEMMA StepKeeps == IndInv /\ [Next]_vars => IndInv'
<1> SUFFICES ASSUME IndInv, [Next]_vars
             PROVE  IndInv'
  OBVIOUS
<1>1. /\ TypeOK /\ VaultInv
      /\ request \in [Process -> Request \cup {NoRequest}]
  BY DEF IndInv, TypeOK
<1>2. ASSUME NEW p \in Process, NEW r \in Request, Begin(p, r)
      PROVE  IndInv'
  <2>1. BeginStore(p) /\ UNCHANGED <<touched, check, records>> /\ UNCHANGED vault
        /\ request' = [request EXCEPT ![p] = r]
    BY <1>2 DEF Begin, BeginStore
  <2>2. VaultInv' /\ FilesStay
    BY <1>1, <2>1, StoreEdgeKeeps
  <2> QED BY <1>1, <2>1, <2>2, FileStepKeeps
<1>3. ASSUME NEW p \in Process, Storing(p)
      PROVE  IndInv'
  <2>1. StoreStep(p) /\ RaceChecks /\ UNCHANGED records /\ UNCHANGED touched
        /\ request' \in {request, [request EXCEPT ![p] = NoRequest]}
    BY <1>3 DEF Storing, StoreStep
  <2>2. VaultInv' /\ FilesStay
    BY <1>1, <2>1, StoreStepKeeps
  <2> QED BY <1>1, <2>1, <2>2, FileStepKeeps
<1>4. ASSUME NEW p \in Process, RecordFails(p)
      PROVE  IndInv'
  <2>1. EndStore(p) /\ UNCHANGED <<touched, check, records>> /\ UNCHANGED vault
        /\ request' = [request EXCEPT ![p] = NoRequest]
    BY <1>4 DEF RecordFails, Finish, EndStore
  <2>2. VaultInv' /\ FilesStay
    BY <1>1, <2>1, StoreEdgeKeeps
  <2> QED BY <1>1, <2>1, <2>2, FileStepKeeps
<1>5. ASSUME NEW p \in Process, Crash(p)
      PROVE  IndInv'
  <2>1. CrashStore(p) /\ UNCHANGED <<touched, check, records>> /\ UNCHANGED vault
        /\ request' = [request EXCEPT ![p] = NoRequest]
    BY <1>5 DEF Crash, CrashStore
  <2>2. VaultInv' /\ FilesStay
    BY <1>1, <2>1, StoreEdgeKeeps
  <2> QED BY <1>1, <2>1, <2>2, FileStepKeeps
<1>6. ASSUME NEW c \in Content, Outside(c)
      PROVE  IndInv'
  <2>1. AlterFile(c) \/ RemoveFile(c)
    BY <1>6 DEF Outside
  <2>2. RaceChecks /\ UNCHANGED <<request, records>> /\ touched \subseteq touched'
    BY <1>6 DEF Outside, AlterFile, RemoveFile, OutsideChange
  <2>3. VaultInv' /\ FilesStay
    BY <1>1, <2>1, OutsideKeeps
  <2> QED BY <1>1, <2>2, <2>3, FileStepKeeps
<1>7. CASE UNCHANGED vars
  <2>1. VaultInv' /\ FilesStay
    BY <1>1, <1>7 DEF vars, vaultVars, fileVars, VaultInv, VaultTypeOK, StoredIsThere,
         AddressIsContent, SealedUnlessInFlight, LeftoverOnlyByFault, Present, FilesStay
  <2> QED BY <1>1, <1>7, <2>1, FileStepKeeps DEF vars, vaultVars, fileVars
<1>8. \A k \in Case, n \in Number \cup {NoNumber} :
         [table |-> "evidence", case |-> k, number |-> n] \in Request
  BY DEF Request
<1>9. \A k \in Case, e \in {0} \cup DOMAIN evidence :
         [table |-> "attachments", case |-> k, of |-> e] \in Request
  BY <1>1 DEF Request, TypeOK
<1> QED BY <1>2, <1>3, <1>4, <1>5, <1>6, <1>7, <1>8, <1>9,
           RecordEvidenceKeeps, RecordAttachmentKeeps, VerifyKeeps DEF Next

-----------------------------------------------------------------------------
(* The theorems *)

(* Files, calls, tables and log keep their types, what is under way agrees  *)
(* with what is stored, and the invariants below hold together.             *)
THEOREM IntakeInvariance == Spec => []IndInv
BY InitHolds, StepKeeps, PTL DEF Spec

(* The vault, the calls, the tables and the log keep their types.           *)
THEOREM IntakeTyped == Spec => []TypeOK
<1>1. IndInv => TypeOK
  BY DEF IndInv
<1> QED BY <1>1, IntakeInvariance, PTL

(* "The path is the integrity claim" (storage.py:7): however many processes *)
(* store the same contents and wherever one of them dies, an address nobody *)
(* changed from outside never holds anything but all of its own bytes.      *)
THEOREM PathIsTheClaim == Spec => []AddressIsContent
<1>1. IndInv => AddressIsContent
  BY DEF IndInv, VaultInv
<1> QED BY <1>1, IntakeInvariance, PTL

(* Without a fault a stored file is read-only but for the moment between    *)
(* os.replace and os.chmod (storage.py:16).                                 *)
THEOREM StoredIsSealed == Spec => []SealedUnlessInFlight
<1>1. IndInv => SealedUnlessInFlight
  BY DEF IndInv, VaultInv
<1> QED BY <1>1, IntakeInvariance, PTL

(* Every failing path of store_stream unlinks its own staging file.         *)
THEOREM StagingCleanedUp == Spec => []LeftoverOnlyByFault
<1>1. IndInv => LeftoverOnlyByFault
  BY DEF IndInv, VaultInv
<1> QED BY <1>1, IntakeInvariance, PTL

(* The file of every row recorded is in the vault, unless somebody removed  *)
(* it from outside.                                                         *)
THEOREM RecordedIsKept == Spec => []RowHasFile
<1>1. IndInv => RowHasFile
  BY DEF IndInv
<1> QED BY <1>1, IntakeInvariance, PTL

(* Numbers that _next_item_number assigned leave no gap.                    *)
THEOREM NumbersLeaveNoGap == Spec => []AssignedNumbersContiguous
<1>1. IndInv => AssignedNumbersContiguous
  BY DEF IndInv
<1> QED BY <1>1, IntakeInvariance, PTL

(* What verify_evidence logs of a file that nobody changed under it is true *)
(* at the moment it is logged.                                              *)
THEOREM VerificationTrue == Spec => VerdictTrue
<1>1. ASSUME IndInv, NEW p \in Process, CheckLog(p), ~check[p].raced
      PROVE  LET entry == log'[Len(log')]
             IN  entry.result = "pass" <=> Bytes(vault[entry.sha256]) = entry.sha256
  <2> DEFINE e == check[p].evidence
             c == evidence[e].sha256
             l == [action |-> "evidence_verified", evidence |-> e, sha256 |-> c,
                   result |-> IF check[p].passed THEN "pass" ELSE "fail"]
  <2>1. check[p].stage = "read" /\ log' = Append(log, l)
    BY <1>1 DEF CheckLog, Log
  <2>2. check[p].passed <=> Bytes(vault[c]) = c
    BY <1>1, <2>1 DEF IndInv, FindingCurrent
  <2>3. /\ l.sha256 = c
        /\ l.result = "pass" <=> check[p].passed
    OBVIOUS
  <2> HIDE DEF l
  <2>4. log \in Seq(LogEntry)
    BY <1>1 DEF IndInv, TypeOK
  <2>5. log'[Len(log')] = l
    BY <2>1, <2>4
  <2> QED BY <2>2, <2>3, <2>5
<1>2. IndInv /\ [Next]_vars => [\A p \in Process :
          CheckLog(p) /\ ~check[p].raced =>
             LET entry == log'[Len(log')]
             IN  entry.result = "pass" <=> Bytes(vault[entry.sha256]) = entry.sha256]_vars
  BY <1>1
<1> QED BY <1>2, IntakeInvariance, PTL DEF Spec, VerdictTrue
=============================================================================
