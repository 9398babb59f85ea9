-------------------------- MODULE OperationsProofs ---------------------------
(***************************************************************************)
(* What imports, reports and backups promise, for any processes, contents, *)
(* cases and folders and any number of commands, faults and entries: an    *)
(* import that ends well is complete, a report agrees with itself, and a   *)
(* backup that passes is whole and faithful, whatever runs beside them.    *)
(***************************************************************************)
EXTENDS Operations, PositionFacts, SequenceTheorems, TLAPS

-----------------------------------------------------------------------------
(* The invariant: the workspace *)

JobType == {Idle} \cup Upload \cup ImportJob \cup ReportJob \cup BackupJob

JobsTyped == job \in [Process -> JobType]

Does(n, action, i) == log[n].body.action = action /\ log[n].body.item = i

(* Entries about items and attachments name a row, and its case ...         *)
EntriesHaveRows ==
    \A n \in DOMAIN log :
       LET b == log[n].body
       IN  /\ b.action \in {"evidence_ingested", "custody_transferred", "custody_accepted"} =>
                 b.item \in DOMAIN evidence /\ b.case = evidence[b.item].case
           /\ b.action = "attachment_uploaded" =>
                 b.item \in DOMAIN attachments /\ b.case = attachments[b.item].case

(* ... every row has its entry, and no second one.                          *)
RowsHaveEntries ==
    /\ \A e \in DOMAIN evidence : \E n \in DOMAIN log : Does(n, "evidence_ingested", e)
    /\ \A a \in DOMAIN attachments : \E n \in DOMAIN log : Does(n, "attachment_uploaded", a)
    /\ Len(evidence) <= Len(log) /\ Len(attachments) <= Len(log)

LoggedOnce ==
    \A m, n \in DOMAIN log :
       /\ log[m].body.action \in {"evidence_ingested", "attachment_uploaded"}
       /\ Does(n, log[m].body.action, log[m].body.item)
       => m = n

(* The vault has what is recorded or about to be, and files nobody touched  *)
(* are right.                                                               *)
Held(c) == c \in touched \/ vault[c] = c

FilesRight == \A c \in Content \ touched : vault[c] \in {c, Absent}

RowsHeld == /\ \A e \in DOMAIN evidence : Held(evidence[e].sha256)
            /\ \A a \in DOMAIN attachments : Held(attachments[a].sha256)

StoresHeld == \A p \in Process : job[p].stage = "stored" =>
                                    job[p].stored \in Content /\ Held(job[p].stored)

-----------------------------------------------------------------------------
(* The invariant: what each command has made of it so far *)

ImportSound(j) ==
    /\ j.stage \in {"hashed", "stored"} => /\ ~j.dry /\ j.file <= Files
                                           /\ j.digest \in Content \ j.known
    /\ j.stage = "stored" /\ ~j.drift => j.stored = j.digest
    /\ ~j.dry /\ ~j.drift =>
          /\ j.known \subseteq RecordedIn(j.case)
          /\ ~j.moved /\ j.stage # "done" => j.known = RecordedIn(j.case)
          /\ ~j.failed /\ j.stage = "done" => j.seen \subseteq RecordedIn(j.case)
    /\ ~j.dry /\ ~j.failed =>
          /\ j.stage = "walk" => j.seen \subseteq j.known
          /\ j.stage \in {"hashed", "stored"} => j.seen \subseteq j.known \cup {j.digest}

OfCase(k) == {n \in DOMAIN log : log[n].body.case = k}

(* Has the report read its items, its attachments, its entries?             *)
HasRead(j, what) == j.stage # "reading" \/ j.next > what

Explained(j) ==
    /\ \A e \in j.items : \E n \in j.entries : Does(n, "evidence_ingested", e)
    /\ \A a \in j.attached : \E n \in j.entries : Does(n, "attachment_uploaded", a)

(* What QuietReportIsSnapshot says of the sheet.                            *)
PrintedBy(j, action) == {log[n].body.item : n \in {m \in j.entries : log[m].body.action = action}}

Snapshotted(j) ==
    /\ j.items = PrintedBy(j, "evidence_ingested")
    /\ j.attached = PrintedBy(j, "attachment_uploaded")
    /\ \A e \in j.items : j.holders[e] =
          Newest({n \in j.entries :
                    /\ log[n].body.item = e
                    /\ log[n].body.action \in {"evidence_ingested", "custody_accepted"}})

(* The entries read are the first of the case; others are later than all.   *)
FirstEntries(j) == \A n \in OfCase(j.case) \ j.entries : \A m \in j.entries : m < n

HoldersFit(j) == \A e \in j.items : HolderFits(j, e)

ReportSound(j) ==
    /\ j.items \subseteq InCase(evidence, j.case)
    /\ j.attached \subseteq InCase(attachments, j.case)
    /\ j.entries \subseteq OfCase(j.case)
    /\ HasRead(j, 3) => Explained(j) /\ FirstEntries(j)
    /\ HasRead(j, 4) => j.entries \subseteq 1..j.head.n
    /\ j.stage \in {"written", "done"} => HoldersFit(j)
    /\ ~j.moved =>
          /\ HasRead(j, 1) /\ j.stage \in {"reading", "read"} => j.items = InCase(evidence, j.case)
          /\ HasRead(j, 2) /\ j.stage \in {"reading", "read"} =>
                j.attached = InCase(attachments, j.case)
          /\ HasRead(j, 3) /\ j.stage \in {"reading", "read"} => j.entries = OfCase(j.case)
          /\ j.stage \in {"read", "written"} => j.head.n = Len(log)
          /\ j.stage \in {"written", "done"} => Snapshotted(j)
          /\ j.stage = "done" => /\ j.head.n + 1 \in DOMAIN log
                                 /\ log[j.head.n + 1].body.action = "report_generated"

CopiedItems(j) == {evidence[e].sha256 : e \in 1..j.copy.evidence}
CopiedRows(j)  == CopiedItems(j) \cup {attachments[a].sha256 : a \in 1..j.copy.attachments}

Counts(j) == [evidence |-> j.copy.evidence, attachments |-> j.copy.attachments]

BackupSound(j) ==
    /\ j.copy.evidence <= Len(evidence) /\ j.copy.attachments <= Len(attachments)
    /\ \A c \in Content \ touched : j.files[c] \in {c, Absent}
    /\ j.stage = "copying" => CopiedRows(j) \subseteq touched \cup j.walk
    /\ j.stage \in {"copied", "compared", "done"} =>
          \A c \in CopiedRows(j) \ touched : j.files[c] = c
    /\ j.stage = "compared" => j.deep /\ Faithful(j.source, j.copy.log)
    /\ j.stage = "done" /\ j.result = "verified" =>
          /\ Faithful(j.source, j.copy.log)
          /\ j.deep => \A c \in CopiedItems(j) : j.files[c] = c
    /\ ~j.moved =>
          /\ j.stage # "done" => j.source = log
          /\ j.stage \in {"copying", "copied", "compared"} => j.copy = DatabaseNow
          /\ j.stage \in {"compared", "done"} => j.manifest = Counts(j)
          /\ j.stage = "done" => j.result = "verified" \/ (j.deep /\ touched # {})

Sound(j) == /\ j.cmd = "import" => ImportSound(j)
            /\ j.cmd = "report" => ReportSound(j)
            /\ j.cmd = "backup" => BackupSound(j)

Workspace == /\ CaseworkTypeOK
             /\ EntriesHaveRows /\ RowsHaveEntries /\ LoggedOnce
             /\ FilesRight /\ RowsHeld

IndInv == /\ Workspace /\ JobsTyped /\ StoresHeld
          /\ \A p \in Process : Sound(job[p])

-----------------------------------------------------------------------------
(* The chain, as Casework uses it *)

(* The record append_entry builds is an entry with the body it was given.   *)
LEMMA NextEntryTyped ==
  ASSUME NEW L \in Seq(Chain!Entry), NEW b \in EntryBody
  PROVE  LET e == Chain!NextEntry(Chain!ChainHead(L), b)
         IN  e \in Chain!Entry /\ e.body = b
<1> DEFINE t == Chain!ChainHead(L)
<1>1. t.seq \in Nat /\ t.entry_hash \in Chain!Digest
  <2>1. CASE L = << >>
    BY <2>1 DEF Chain!ChainHead, Chain!ZeroDigest, Chain!Digest
  <2>2. CASE L # << >>
    <3>1. L[Len(L)] \in Chain!Entry
      BY <2>2
    <3> QED BY <2>2, <3>1 DEF Chain!ChainHead, Chain!Entry
  <2> QED BY <2>1, <2>2
<1> HIDE DEF t
<1>2. Append(t.entry_hash, <<t.seq + 1, b>>) \in Chain!Digest
  <2>1. <<t.seq + 1, b>> \in Chain!Payload
    BY <1>1 DEF Chain!Payload
  <2> QED BY <1>1, <2>1 DEF Chain!Digest
<1>3. Chain!NextEntry(t, b) = [seq |-> t.seq + 1, body |-> b, prev_hash |-> t.entry_hash,
                               entry_hash |-> Append(t.entry_hash, <<t.seq + 1, b>>)]
  BY DEF Chain!NextEntry, Chain!EntryHash, Chain!CanonicalPayload
<1> QED BY <1>1, <1>2, <1>3 DEF Chain!Entry, t

(* What verify says of any table, in types.                                 *)
LEMMA VerifyTyped ==
  ASSUME NEW L \in Seq(Chain!Entry)
  PROVE  /\ Chain!Verify(L).ok \in BOOLEAN
         /\ Chain!Verify(L).ok <=> Chain!Intact(L)
         /\ Chain!Verify(L).entries_checked = Len(L)
         /\ Chain!Verify(L).head_hash = Chain!ChainHead(L).entry_hash
BY DEF Chain!Verify, Chain!Intact

(* A digest names everything hashed into it.                                *)
LEMMA HashInjective ==
  ASSUME NEW s \in Nat, NEW b \in EntryBody, NEW p \in Chain!Digest,
         NEW t \in Nat, NEW c \in EntryBody, NEW q \in Chain!Digest,
         Chain!EntryHash(s, b, p) = Chain!EntryHash(t, c, q)
  PROVE  s = t /\ b = c /\ p = q
<1>1. <<s, b>> \in Chain!Payload /\ <<t, c>> \in Chain!Payload
  BY DEF Chain!Payload
<1>2. Append(p, <<s, b>>) = Append(q, <<t, c>>)
  BY DEF Chain!EntryHash, Chain!CanonicalPayload
<1>3. p \in Seq(Chain!Payload) /\ q \in Seq(Chain!Payload)
  BY DEF Chain!Digest
<1>4. \A d, e \in Chain!Payload : Append(p, d) = Append(q, e) => p = q /\ d = e
  BY <1>3, AppendInjective
<1>5. <<s, b>> = <<t, c>> /\ p = q
  BY <1>1, <1>2, <1>4
<1> QED BY <1>5

(* Entries that agree in their columns are the same.                        *)
LEMMA SameEntry ==
  ASSUME NEW e \in Chain!Entry, NEW f \in Chain!Entry, e.seq = f.seq, e.body = f.body,
         e.prev_hash = f.prev_hash, e.entry_hash = f.entry_hash
  PROVE  e = f
BY DEF Chain!Entry

(* Two tables that verify and end in the same digest are the same.          *)
LEMMA HeadPinsTable ==
  ASSUME NEW A \in Seq(Chain!Entry), NEW B \in Seq(Chain!Entry),
         Chain!Intact(A), Chain!Intact(B), Len(A) = Len(B),
         Chain!ChainHead(A).entry_hash = Chain!ChainHead(B).entry_hash
  PROVE  A = B
<1> DEFINE N == Len(A)
           Differ == {p \in 1..N : A[p] # B[p]}
<1>1. ASSUME NEW p \in 1..N, A[p].entry_hash = B[p].entry_hash
      PROVE  A[p] = B[p]
  <2>1. p \in DOMAIN A /\ p \in DOMAIN B /\ A[p] \in Chain!Entry /\ B[p] \in Chain!Entry
    OBVIOUS
  <2>2. ~Chain!Altered(A, p) /\ ~Chain!Altered(B, p)
    BY <2>1 DEF Chain!Intact, Chain!BrokenPositions, Chain!Broken
  <2>3. Chain!EntryHash(A[p].seq, A[p].body, A[p].prev_hash)
          = Chain!EntryHash(B[p].seq, B[p].body, B[p].prev_hash)
    BY <1>1, <2>2 DEF Chain!Altered
  <2>4. /\ A[p].seq \in Nat /\ A[p].body \in EntryBody /\ A[p].prev_hash \in Chain!Digest
        /\ B[p].seq \in Nat /\ B[p].body \in EntryBody /\ B[p].prev_hash \in Chain!Digest
    BY <2>1 DEF Chain!Entry
  <2>5. A[p].seq = B[p].seq /\ A[p].body = B[p].body /\ A[p].prev_hash = B[p].prev_hash
    BY <2>3, <2>4, HashInjective
  <2> QED BY <1>1, <2>1, <2>5, SameEntry
<1>2. ASSUME Differ # {} PROVE FALSE
  <2>1. PICK p \in Differ : \A q \in Differ : q <= p
    <3>1. N \in Nat /\ Differ \in SUBSET (1..N)
      OBVIOUS
    <3> HIDE DEF N, Differ
    <3> QED BY <1>2, <3>1, GreatestExists
  <2>2. CASE p = N
    <3>1. A # << >> /\ B # << >>
      BY <2>2
    <3>2. A[p].entry_hash = B[p].entry_hash
      BY <2>2, <3>1 DEF Chain!ChainHead
    <3> QED BY <1>1, <3>2
  <2>3. CASE p # N
    <3>1. A[p + 1] = B[p + 1]
      BY <2>1, <2>3
    <3>2. /\ p + 1 \in DOMAIN A /\ p + 1 \in DOMAIN B /\ p + 1 # 1 /\ (p + 1) - 1 = p
      BY <2>3
    <3>3. /\ A[p + 1].prev_hash = A[p].entry_hash
          /\ B[p + 1].prev_hash = B[p].entry_hash
      BY <3>2 DEF Chain!Intact, Chain!BrokenPositions, Chain!Broken, Chain!WrongPredecessor,
                  Chain!ExpectedPrev
    <3> QED BY <1>1, <3>1, <3>3
  <2> QED BY <2>2, <2>3
<1> QED BY <1>2

(* What Faithful comes to.                                                  *)
LEMMA FaithfulFacts ==
  ASSUME NEW A \in Seq(Chain!Entry), NEW B \in Seq(Chain!Entry)
  PROVE  /\ Faithful(A, A)
         /\ Faithful(A, B) /\ Chain!Intact(A) => B = A
<1>1. Faithful(A, A)
  BY DEF Faithful
<1>2. ASSUME Faithful(A, B), Chain!Intact(A) PROVE B = A
  <2>1. /\ Chain!ChainHead(A).entry_hash = Chain!ChainHead(B).entry_hash
        /\ Chain!Verify(A).ok = Chain!Verify(B).ok
        /\ Len(A) = Len(B)
    BY <1>2, VerifyTyped DEF Faithful
  <2>2. Chain!Intact(B)
    BY <1>2, <2>1, VerifyTyped
  <2> QED BY <1>2, <2>1, <2>2, HeadPinsTable
<1> QED BY <1>1, <1>2

-----------------------------------------------------------------------------
(* What a step leaves of what others have read: the log and the tables only *)
(* grow, up to the details of an entry, and untouched files stay.           *)

LogGrows ==
    /\ Len(log) <= Len(log')
    /\ \A n \in DOMAIN log :
          /\ n \in DOMAIN log'
          /\ log'[n].body.action = log[n].body.action
          /\ log'[n].body.case = log[n].body.case
          /\ log'[n].body.item = log[n].body.item

RowsGrow ==
    /\ Len(evidence) <= Len(evidence') /\ Len(attachments) <= Len(attachments')
    /\ \A e \in DOMAIN evidence : e \in DOMAIN evidence' /\ evidence'[e] = evidence[e]
    /\ \A a \in DOMAIN attachments : a \in DOMAIN attachments' /\ attachments'[a] = attachments[a]

FilesStay == /\ touched \subseteq touched' /\ touched' \subseteq Content
             /\ \A c \in Content \ touched' : \/ vault'[c] = vault[c]
                                              \/ vault[c] = Absent /\ vault'[c] = c

Grows == LogGrows /\ RowsGrow /\ FilesStay

(* Another's step marks q's command, or leaves what it depends on.          *)
Kept(q) ==
    \/ /\ Running(q) /\ job[q].cmd \in {"import", "report", "backup"}
       /\ job'[q] = [job[q] EXCEPT !.moved = TRUE]
    \/ /\ job'[q] = job[q]
       /\ Running(q) =>
             /\ job[q].cmd = "import" => RecordedIn(job[q].case)' = RecordedIn(job[q].case)
             /\ job[q].cmd = "report" => UNCHANGED tables
             /\ job[q].cmd = "backup" => UNCHANGED <<tables, touched>>

(* What Append does to a table.                                             *)
LEMMA Appended ==
  ASSUME NEW R, NEW T \in Seq(R), NEW r \in R
  PROVE  /\ Len(T) \in Nat /\ DOMAIN T = 1..Len(T)
         /\ Append(T, r) \in Seq(R)
         /\ Len(Append(T, r)) = Len(T) + 1
         /\ DOMAIN Append(T, r) = 1..(Len(T) + 1)
         /\ \A n \in DOMAIN T : Append(T, r)[n] = T[n]
         /\ Append(T, r)[Len(T) + 1] = r
OBVIOUS

LEMMA BodyTyped ==
  ASSUME NEW action, NEW k \in Case \cup {NoCase}, NEW i \in Nat,
         action \in {"case_opened", "evidence_ingested", "attachment_uploaded",
                     "custody_transferred", "custody_accepted", "user_login",
                     "report_generated"}
  PROVE  /\ Body(action, k, i) \in EntryBody
         /\ Body(action, k, i).action = action
         /\ Body(action, k, i).case = k
         /\ Body(action, k, i).item = i
BY DEF Body, EntryBody

(* An entry more.                                                           *)
LEMMA EntryAppended ==
  ASSUME CaseworkTypeOK, NEW action, NEW k \in Case \cup {NoCase}, NEW i \in Nat,
         action \in {"case_opened", "evidence_ingested", "attachment_uploaded",
                     "custody_transferred", "custody_accepted", "user_login",
                     "report_generated"},
         AppendEntry(action, k, i)
  PROVE  /\ log' \in Seq(Chain!Entry) /\ Len(log') <= MaxEntries /\ LogGrows
         /\ Len(log) \in Nat /\ DOMAIN log = 1..Len(log)
         /\ Len(log') = Len(log) + 1 /\ DOMAIN log' = 1..(Len(log) + 1)
         /\ log'[Len(log) + 1].body.action = action
         /\ log'[Len(log) + 1].body.case = k
         /\ log'[Len(log) + 1].body.item = i
<1> DEFINE e == Chain!NextEntry(Chain!ChainHead(log), Body(action, k, i))
<1>1. /\ Body(action, k, i) \in EntryBody
      /\ Body(action, k, i).action = action
      /\ Body(action, k, i).case = k
      /\ Body(action, k, i).item = i
  BY BodyTyped
<1>2. log \in Seq(Chain!Entry) /\ log' = Append(log, e) /\ Len(log) < MaxEntries
  BY DEF CaseworkTypeOK, AppendEntry
<1>3. e \in Chain!Entry /\ e.body = Body(action, k, i)
  BY <1>1, <1>2, NextEntryTyped
<1> HIDE DEF e
<1>4. /\ Len(log) \in Nat /\ DOMAIN log = 1..Len(log)
      /\ log' \in Seq(Chain!Entry) /\ Len(log') = Len(log) + 1
      /\ DOMAIN log' = 1..(Len(log) + 1)
      /\ \A n \in DOMAIN log : log'[n] = log[n]
      /\ log'[Len(log) + 1] = e
  BY <1>2, <1>3, Appended
<1>5. LogGrows
  BY <1>4 DEF LogGrows
<1>6. Len(log') <= MaxEntries
  BY <1>2, <1>4, BoundAssumption
<1> QED BY <1>1, <1>3, <1>4, <1>5, <1>6

(* The log and the tables as they are grow.                                 *)
LEMMA NothingGrows ==
  ASSUME CaseworkTypeOK
  PROVE  /\ UNCHANGED log => LogGrows
         /\ UNCHANGED <<evidence, attachments>> => RowsGrow
         /\ UNCHANGED <<vault, touched>> => FilesStay
<1>1. Len(log) \in Nat /\ Len(evidence) \in Nat /\ Len(attachments) \in Nat
  BY DEF CaseworkTypeOK
<1> QED BY <1>1 DEF LogGrows, RowsGrow, FilesStay, CaseworkTypeOK

(* A file stored takes an empty address, or stays out.                      *)
LEMMA StoreStays ==
  ASSUME CaseworkTypeOK, FilesRight, NEW c \in Content, Store(c), UNCHANGED touched
  PROVE  /\ FilesStay /\ Held(c)'
         /\ vault' \in [Content -> Content \cup {Damaged, Absent}]
         /\ \A d \in Content : vault[d] # Absent => vault'[d] = vault[d]
<1>1. vault \in [Content -> Content \cup {Damaged, Absent}] /\ touched \subseteq Content
  BY DEF CaseworkTypeOK
<1>2. CASE vault[c] = Absent
  <2>1. vault' = [vault EXCEPT ![c] = c]
    BY <1>2 DEF Store
  <2> QED BY <1>1, <1>2, <2>1 DEF FilesStay, Held
<1>3. CASE vault[c] # Absent
  <2>1. vault' = vault
    BY <1>3 DEF Store
  <2> QED BY <1>1, <1>3, <2>1 DEF FilesStay, Held, FilesRight
<1> QED BY <1>2, <1>3

(* What the vault holds, it goes on holding.                                *)
LEMMA HeldStays ==
  ASSUME FilesStay, NEW c \in Content, Held(c)
  PROVE  Held(c)'
BY SentinelAssumption DEF FilesStay, Held

-----------------------------------------------------------------------------
(* The workspace: entries and rows belong together, files are right. *)

Tables == EntriesHaveRows /\ RowsHaveEntries /\ LoggedOnce

(* Nothing but details of entries changes.                                  *)
LEMMA ShapeKeeps ==
  ASSUME CaseworkTypeOK, Tables, LogGrows, DOMAIN log' = DOMAIN log, Len(log') = Len(log),
         UNCHANGED <<evidence, attachments>>
  PROVE  Tables'
<1>1. EntriesHaveRows'
  BY DEF Tables, EntriesHaveRows, LogGrows
<1>2. RowsHaveEntries'
  BY DEF Tables, RowsHaveEntries, LogGrows, Does
<1>3. LoggedOnce'
  BY DEF Tables, LoggedOnce, LogGrows, Does
<1> QED BY <1>1, <1>2, <1>3 DEF Tables

(* An entry that stands for no new row.                                     *)
LEMMA EntryKeeps ==
  ASSUME CaseworkTypeOK, Tables, UNCHANGED <<evidence, attachments>>,
         NEW action, NEW k \in Case \cup {NoCase}, NEW i \in Nat,
         action \in {"custody_transferred", "custody_accepted", "user_login",
                     "report_generated"},
         action \in {"custody_transferred", "custody_accepted"} =>
            i \in DOMAIN evidence /\ k = evidence[i].case,
         AppendEntry(action, k, i)
  PROVE  Tables'
<1>1. /\ LogGrows /\ Len(log) \in Nat /\ DOMAIN log = 1..Len(log)
      /\ Len(log') = Len(log) + 1 /\ DOMAIN log' = 1..(Len(log) + 1)
      /\ log'[Len(log) + 1].body.action = action
      /\ log'[Len(log) + 1].body.case = k
      /\ log'[Len(log) + 1].body.item = i
  BY EntryAppended
<1>2. EntriesHaveRows'
  <2> SUFFICES ASSUME NEW n \in DOMAIN log'
               PROVE  LET b == log'[n].body
                      IN  /\ b.action \in {"evidence_ingested", "custody_transferred",
                                           "custody_accepted"} =>
                                b.item \in DOMAIN evidence /\ b.case = evidence[b.item].case
                          /\ b.action = "attachment_uploaded" =>
                                b.item \in DOMAIN attachments
                                /\ b.case = attachments[b.item].case
    BY DEF EntriesHaveRows
  <2>1. CASE n \in DOMAIN log
    BY <1>1, <2>1 DEF LogGrows, Tables, EntriesHaveRows
  <2>2. CASE n = Len(log) + 1
    BY <1>1, <2>2
  <2> QED BY <1>1, <2>1, <2>2
<1>3. RowsHaveEntries'
  <2>1. Len(evidence) <= Len(log') /\ Len(attachments) <= Len(log')
    BY <1>1 DEF Tables, RowsHaveEntries, CaseworkTypeOK
  <2>2. ASSUME NEW e \in DOMAIN evidence
        PROVE  \E n \in DOMAIN log' : Does(n, "evidence_ingested", e)'
    BY <1>1 DEF Tables, RowsHaveEntries, LogGrows, Does
  <2>3. ASSUME NEW a \in DOMAIN attachments
        PROVE  \E n \in DOMAIN log' : Does(n, "attachment_uploaded", a)'
    BY <1>1 DEF Tables, RowsHaveEntries, LogGrows, Does
  <2> QED BY <2>1, <2>2, <2>3 DEF RowsHaveEntries
<1>4. LoggedOnce'
  <2> SUFFICES ASSUME NEW m \in DOMAIN log', NEW n \in DOMAIN log',
                      log'[m].body.action \in {"evidence_ingested", "attachment_uploaded"},
                      log'[n].body.action = log'[m].body.action,
                      log'[n].body.item = log'[m].body.item
               PROVE  m = n
    BY DEF LoggedOnce, Does
  <2>1. m \in DOMAIN log /\ n \in DOMAIN log
    BY <1>1
  <2> QED BY <2>1, <1>1 DEF Tables, LoggedOnce, LogGrows, Does
<1> QED BY <1>2, <1>3, <1>4 DEF Tables

(* Who and what a case has recorded, after one more row of case k.          *)
LEMMA RecordTables ==
  ASSUME CaseworkTypeOK, Tables, NEW k \in Case, NEW mode, NEW c \in Content, Record(k, mode, c)
  PROVE  /\ Tables' /\ LogGrows /\ RowsGrow
         /\ log' \in Seq(Chain!Entry) /\ Len(log') <= MaxEntries
         /\ evidence' \in Seq(Row) /\ attachments' \in Seq(Row)
         /\ \/ evidence' = Append(evidence, [case |-> k, sha256 |-> c]) /\ attachments' = attachments
            \/ attachments' = Append(attachments, [case |-> k, sha256 |-> c]) /\ evidence' = evidence
<1> DEFINE r == [case |-> k, sha256 |-> c]
<1>1. /\ evidence \in Seq(Row) /\ attachments \in Seq(Row) /\ log \in Seq(Chain!Entry)
      /\ Len(log) \in Nat
  BY DEF CaseworkTypeOK
<1>2. r \in Row /\ r.case = k
  BY DEF Row
<1>3. CASE mode = "evidence"
  <2> DEFINE i == Len(evidence) + 1
  <2>1. /\ evidence' = Append(evidence, r) /\ attachments' = attachments
        /\ AppendEntry("evidence_ingested", k, i)
    BY <1>3 DEF Record
  <2> HIDE DEF r
  <2>2. /\ Len(evidence) \in Nat /\ DOMAIN evidence = 1..Len(evidence)
        /\ evidence' \in Seq(Row) /\ Len(evidence') = Len(evidence) + 1
        /\ DOMAIN evidence' = 1..(Len(evidence) + 1)
        /\ \A e \in DOMAIN evidence : evidence'[e] = evidence[e]
        /\ evidence'[Len(evidence) + 1] = r
    BY <1>1, <1>2, <2>1, Appended
  <2>3. /\ log' \in Seq(Chain!Entry) /\ Len(log') <= MaxEntries /\ LogGrows
        /\ DOMAIN log = 1..Len(log)
        /\ Len(log') = Len(log) + 1 /\ DOMAIN log' = 1..(Len(log) + 1)
        /\ log'[Len(log) + 1].body.action = "evidence_ingested"
        /\ log'[Len(log) + 1].body.case = k
        /\ log'[Len(log) + 1].body.item = i
    BY <2>1, <2>2, EntryAppended
  <2>4. RowsGrow
    BY <1>1, <2>1, <2>2 DEF RowsGrow
  <2>5. EntriesHaveRows'
    <3> SUFFICES ASSUME NEW n \in DOMAIN log'
                 PROVE  LET b == log'[n].body
                        IN  /\ b.action \in {"evidence_ingested", "custody_transferred",
                                             "custody_accepted"} =>
                                  b.item \in DOMAIN evidence' /\ b.case = evidence'[b.item].case
                            /\ b.action = "attachment_uploaded" =>
                                  b.item \in DOMAIN attachments'
                                  /\ b.case = attachments'[b.item].case
      BY DEF EntriesHaveRows
    <3>1. CASE n \in DOMAIN log
      BY <2>1, <2>2, <2>3, <3>1 DEF LogGrows, Tables, EntriesHaveRows
    <3>2. CASE n = Len(log) + 1
      BY <1>2, <2>2, <2>3, <3>2
    <3> QED BY <2>3, <3>1, <3>2
  <2>6. RowsHaveEntries'
    <3>1. /\ Len(evidence') <= Len(log') /\ Len(attachments') <= Len(log')
      BY <1>1, <2>1, <2>2, <2>3 DEF Tables, RowsHaveEntries
    <3>2. ASSUME NEW e \in DOMAIN evidence'
          PROVE  \E n \in DOMAIN log' : Does(n, "evidence_ingested", e)'
      <4>1. CASE e \in DOMAIN evidence
        BY <2>3, <4>1 DEF Tables, RowsHaveEntries, LogGrows, Does
      <4>2. CASE e = i
        <5> DEFINE n == Len(log) + 1
        <5>1. n \in DOMAIN log' /\ log'[n].body.item = e /\ log'[n].body.action = "evidence_ingested"
          BY <1>1, <2>3, <4>2
        <5> HIDE DEF n
        <5> QED BY <5>1 DEF Does
      <4> QED BY <2>2, <4>1, <4>2
    <3> QED BY <2>1, <2>3, <3>1, <3>2 DEF Tables, RowsHaveEntries, LogGrows, Does
  <2>7. LoggedOnce'
    <3> SUFFICES ASSUME NEW m \in DOMAIN log', NEW n \in DOMAIN log',
                        log'[m].body.action \in {"evidence_ingested", "attachment_uploaded"},
                        log'[n].body.action = log'[m].body.action,
                        log'[n].body.item = log'[m].body.item
                 PROVE  m = n
      BY DEF LoggedOnce, Does
    <3>1. \A o \in DOMAIN log : log'[o].body.action = "evidence_ingested" => log'[o].body.item # i
      <4> SUFFICES ASSUME NEW o \in DOMAIN log, log[o].body.action = "evidence_ingested"
                   PROVE  log[o].body.item # i
        BY <2>3 DEF LogGrows
      <4> QED BY <2>2 DEF Tables, EntriesHaveRows
    <3>2. CASE m \in DOMAIN log /\ n \in DOMAIN log
      BY <2>3, <3>2 DEF Tables, LoggedOnce, LogGrows, Does
    <3> QED BY <1>1, <2>3, <3>1, <3>2
  <2>8. evidence' = Append(evidence, [case |-> k, sha256 |-> c])
    BY <2>1 DEF r
  <2>9. Tables'
    BY <2>5, <2>6, <2>7 DEF Tables
  <2>10. attachments' \in Seq(Row)
    BY <1>1, <2>1
  <2> QED BY <2>1, <2>2, <2>3, <2>4, <2>8, <2>9, <2>10
<1>4. CASE mode # "evidence"
  <2> DEFINE i == Len(attachments) + 1
  <2>1. /\ attachments' = Append(attachments, r) /\ evidence' = evidence
        /\ AppendEntry("attachment_uploaded", k, i)
    BY <1>4 DEF Record
  <2> HIDE DEF r
  <2>2. /\ Len(attachments) \in Nat /\ DOMAIN attachments = 1..Len(attachments)
        /\ attachments' \in Seq(Row) /\ Len(attachments') = Len(attachments) + 1
        /\ DOMAIN attachments' = 1..(Len(attachments) + 1)
        /\ \A e \in DOMAIN attachments : attachments'[e] = attachments[e]
        /\ attachments'[Len(attachments) + 1] = r
    BY <1>1, <1>2, <2>1, Appended
  <2>3. /\ log' \in Seq(Chain!Entry) /\ Len(log') <= MaxEntries /\ LogGrows
        /\ DOMAIN log = 1..Len(log)
        /\ Len(log') = Len(log) + 1 /\ DOMAIN log' = 1..(Len(log) + 1)
        /\ log'[Len(log) + 1].body.action = "attachment_uploaded"
        /\ log'[Len(log) + 1].body.case = k
        /\ log'[Len(log) + 1].body.item = i
    BY <2>1, <2>2, EntryAppended
  <2>4. RowsGrow
    BY <1>1, <2>1, <2>2 DEF RowsGrow
  <2>5. EntriesHaveRows'
    <3> SUFFICES ASSUME NEW n \in DOMAIN log'
                 PROVE  LET b == log'[n].body
                        IN  /\ b.action \in {"evidence_ingested", "custody_transferred",
                                             "custody_accepted"} =>
                                  b.item \in DOMAIN evidence' /\ b.case = evidence'[b.item].case
                            /\ b.action = "attachment_uploaded" =>
                                  b.item \in DOMAIN attachments'
                                  /\ b.case = attachments'[b.item].case
      BY DEF EntriesHaveRows
    <3>1. CASE n \in DOMAIN log
      BY <2>1, <2>2, <2>3, <3>1 DEF LogGrows, Tables, EntriesHaveRows
    <3>2. CASE n = Len(log) + 1
      BY <1>2, <2>2, <2>3, <3>2
    <3> QED BY <2>3, <3>1, <3>2
  <2>6. RowsHaveEntries'
    <3>1. /\ Len(evidence') <= Len(log') /\ Len(attachments') <= Len(log')
      BY <1>1, <2>1, <2>2, <2>3 DEF Tables, RowsHaveEntries
    <3>2. ASSUME NEW e \in DOMAIN attachments'
          PROVE  \E n \in DOMAIN log' : Does(n, "attachment_uploaded", e)'
      <4>1. CASE e \in DOMAIN attachments
        BY <2>3, <4>1 DEF Tables, RowsHaveEntries, LogGrows, Does
      <4>2. CASE e = i
        <5> DEFINE n == Len(log) + 1
        <5>1. n \in DOMAIN log' /\ log'[n].body.item = e /\ log'[n].body.action = "attachment_uploaded"
          BY <1>1, <2>3, <4>2
        <5> HIDE DEF n
        <5> QED BY <5>1 DEF Does
      <4> QED BY <2>2, <4>1, <4>2
    <3> QED BY <2>1, <2>3, <3>1, <3>2 DEF Tables, RowsHaveEntries, LogGrows, Does
  <2>7. LoggedOnce'
    <3> SUFFICES ASSUME NEW m \in DOMAIN log', NEW n \in DOMAIN log',
                        log'[m].body.action \in {"evidence_ingested", "attachment_uploaded"},
                        log'[n].body.action = log'[m].body.action,
                        log'[n].body.item = log'[m].body.item
                 PROVE  m = n
      BY DEF LoggedOnce, Does
    <3>1. \A o \in DOMAIN log : log'[o].body.action = "attachment_uploaded" => log'[o].body.item # i
      <4> SUFFICES ASSUME NEW o \in DOMAIN log, log[o].body.action = "attachment_uploaded"
                   PROVE  log[o].body.item # i
        BY <2>3 DEF LogGrows
      <4> QED BY <2>2 DEF Tables, EntriesHaveRows
    <3>2. CASE m \in DOMAIN log /\ n \in DOMAIN log
      BY <2>3, <3>2 DEF Tables, LoggedOnce, LogGrows, Does
    <3> QED BY <1>1, <2>3, <3>1, <3>2
  <2>8. attachments' = Append(attachments, [case |-> k, sha256 |-> c])
    BY <2>1 DEF r
  <2>9. Tables'
    BY <2>5, <2>6, <2>7 DEF Tables
  <2>10. evidence' \in Seq(Row)
    BY <1>1, <2>1
  <2> QED BY <2>1, <2>2, <2>3, <2>4, <2>8, <2>9, <2>10
<1> QED BY <1>3, <1>4

-----------------------------------------------------------------------------
(* Commands and the marks that changes leave on them. *)

(* Which record a command has tells its name.                               *)
LEMMA JobKinds ==
  ASSUME NEW j \in JobType
  PROVE  /\ j.cmd = "import" => j \in ImportJob
         /\ j.cmd = "report" => j \in ReportJob
         /\ j.cmd = "backup" => j \in BackupJob
         /\ j.stage = "stored" => j.cmd \in {"import", "upload"}
         /\ j.cmd = "upload" => j \in Upload
         /\ j.stage \notin {"none", "done"} => j \in Upload \cup ImportJob \cup ReportJob \cup BackupJob
<1>1. CASE j = Idle
  BY <1>1 DEF Idle
<1>2. CASE j \in Upload
  BY <1>2 DEF Upload
<1>3. CASE j \in ImportJob
  BY <1>3 DEF ImportJob
<1>4. CASE j \in ReportJob
  BY <1>4 DEF ReportJob
<1>5. CASE j \in BackupJob
  BY <1>5 DEF BackupJob
<1> QED BY <1>1, <1>2, <1>3, <1>4, <1>5 DEF JobType

LEMMA ImportMarked ==
  ASSUME NEW j \in ImportJob
  PROVE  LET m == [j EXCEPT !.moved = TRUE]
         IN  /\ m \in ImportJob /\ m.moved = TRUE /\ m.cmd = "import" /\ j.cmd = "import"
             /\ m.stage = j.stage /\ m.case = j.case /\ m.mode = j.mode /\ m.dry = j.dry
             /\ m.file = j.file /\ m.digest = j.digest /\ m.stored = j.stored
             /\ m.known = j.known /\ m.failed = j.failed /\ m.seen = j.seen
             /\ m.drift = j.drift
BY DEF ImportJob

LEMMA ReportMarked ==
  ASSUME NEW j \in ReportJob
  PROVE  LET m == [j EXCEPT !.moved = TRUE]
         IN  /\ m \in ReportJob /\ m.moved = TRUE /\ m.cmd = "report" /\ j.cmd = "report"
             /\ m.stage = j.stage /\ m.case = j.case /\ m.next = j.next
             /\ m.items = j.items /\ m.attached = j.attached /\ m.entries = j.entries
             /\ m.head = j.head /\ m.holders = j.holders
BY DEF ReportJob

LEMMA BackupMarked ==
  ASSUME NEW j \in BackupJob
  PROVE  LET m == [j EXCEPT !.moved = TRUE]
         IN  /\ m \in BackupJob /\ m.moved = TRUE /\ m.cmd = "backup" /\ j.cmd = "backup"
             /\ m.stage = j.stage /\ m.deep = j.deep /\ m.source = j.source
             /\ m.copy = j.copy /\ m.files = j.files /\ m.walk = j.walk
             /\ m.manifest = j.manifest /\ m.result = j.result
BY DEF BackupJob

LEMMA MarkedTyped ==
  ASSUME NEW j \in JobType, j.cmd \in {"import", "report", "backup"}
  PROVE  [j EXCEPT !.moved = TRUE] \in JobType
<1>1. CASE j.cmd = "import"
  BY <1>1, JobKinds, ImportMarked DEF JobType
<1>2. CASE j.cmd = "report"
  BY <1>2, JobKinds, ReportMarked DEF JobType
<1>3. CASE j.cmd = "backup"
  BY <1>3, JobKinds, BackupMarked DEF JobType
<1> QED BY <1>1, <1>2, <1>3

(* A command that goes on alone: nobody else's notices.                     *)
LEMMA KeptAlone ==
  ASSUME JobsTyped, NEW p \in Process, NEW r \in JobType, Proceed(p, r),
         UNCHANGED <<tables, touched>>
  PROVE  /\ JobsTyped' /\ job'[p] = r
         /\ \A q \in Process \ {p} : Kept(q)
<1>1. job' = [job EXCEPT ![p] = r] /\ job \in [Process -> JobType]
  BY DEF Proceed, JobsTyped
<1>2. evidence' = evidence /\ attachments' = attachments /\ log' = log /\ touched' = touched
  BY DEF tables
<1>3. \A k : RecordedIn(k)' = RecordedIn(k)
  BY <1>2 DEF RecordedIn, InCase
<1>4. ASSUME NEW q \in Process \ {p} PROVE Kept(q)
  <2>1. job'[q] = job[q]
    BY <1>1
  <2> QED BY <1>2, <1>3, <2>1 DEF Kept, tables
<1> QED BY <1>1, <1>4 DEF JobsTyped

(* A change that marks the commands it disturbs.                            *)
LEMMA KeptByMark ==
  ASSUME JobsTyped, NEW S \in SUBSET Process, NEW jobs \in [Process -> JobType],
         \A q \in S : jobs[q] = job[q],
         NEW change, job' = Disturbed(jobs, change, S),
         \A q \in S : Running(q) =>
            /\ job[q].cmd = "import" => \/ change = [kind |-> "row", case |-> job[q].case]
                                        \/ RecordedIn(job[q].case)' = RecordedIn(job[q].case)
            /\ job[q].cmd = "report" => change.kind # "file" \/ UNCHANGED tables
  PROVE  /\ JobsTyped' /\ \A q \in Process \ S : job'[q] = jobs[q]
         /\ \A q \in S : Kept(q)
<1>1. job' = [q \in Process |-> IF q \in S /\ Disturbs(change, q)
                                THEN [jobs[q] EXCEPT !.moved = TRUE] ELSE jobs[q]]
  BY DEF Disturbed
<1>2. ASSUME NEW q \in Process PROVE job'[q] \in JobType
  <2>1. CASE q \in S /\ Disturbs(change, q)
    <3>1. job'[q] = [jobs[q] EXCEPT !.moved = TRUE]
      BY <1>1, <2>1
    <3>2. jobs[q] \in JobType /\ jobs[q].cmd \in {"import", "report", "backup"}
      BY <2>1 DEF Disturbs
    <3> QED BY <3>1, <3>2, MarkedTyped
  <2>2. CASE ~(q \in S /\ Disturbs(change, q))
    <3>1. job'[q] = jobs[q]
      BY <1>1, <2>2
    <3> QED BY <3>1
  <2> QED BY <2>1, <2>2
<1>3. JobsTyped'
  <2>1. job' = [q \in Process |-> job'[q]]
    BY <1>1
  <2> QED BY <1>2, <2>1 DEF JobsTyped
<1>4. ASSUME NEW q \in S PROVE Kept(q)
  <2>1. CASE Disturbs(change, q)
    <3>1. job'[q] = [job[q] EXCEPT !.moved = TRUE]
      BY <1>1, <2>1
    <3>2. Running(q) /\ job[q].cmd \in {"import", "report", "backup"}
      BY <2>1 DEF Disturbs
    <3> QED BY <3>1, <3>2 DEF Kept
  <2>2. CASE ~Disturbs(change, q)
    <3>1. job'[q] = job[q]
      BY <1>1, <2>2
    <3>2. ASSUME Running(q)
          PROVE  /\ job[q].cmd = "import" => RecordedIn(job[q].case)' = RecordedIn(job[q].case)
                 /\ job[q].cmd = "report" => UNCHANGED tables
                 /\ job[q].cmd # "backup"
      BY <2>2, <3>2 DEF Disturbs
    <3> QED BY <3>1, <3>2 DEF Kept
  <2> QED BY <2>1, <2>2
<1>5. ASSUME NEW q \in Process \ S PROVE job'[q] = jobs[q]
  BY <1>1
<1> QED BY <1>3, <1>4, <1>5

-----------------------------------------------------------------------------
(* What a command has made of the workspace survives what others do. *)

(* Nothing recorded is ever dropped.                                        *)
LEMMA RecordedStays ==
  ASSUME RowsGrow
  PROVE  \A k : /\ InCase(evidence, k) \subseteq InCase(evidence, k)'
                /\ InCase(attachments, k) \subseteq InCase(attachments, k)'
                /\ RecordedIn(k) \subseteq RecordedIn(k)'
<1>1. ASSUME NEW k
      PROVE  /\ InCase(evidence, k) \subseteq InCase(evidence, k)'
             /\ InCase(attachments, k) \subseteq InCase(attachments, k)'
  BY DEF RowsGrow, InCase
<1>2. ASSUME NEW k, NEW c \in RecordedIn(k) PROVE c \in RecordedIn(k)'
  <2>1. CASE \E e \in InCase(evidence, k) : c = evidence[e].sha256
    BY <1>1, <2>1 DEF RecordedIn, RowsGrow, InCase
  <2>2. CASE \E a \in InCase(attachments, k) : c = attachments[a].sha256
    BY <1>1, <2>2 DEF RecordedIn, RowsGrow, InCase
  <2> QED BY <1>2, <2>1, <2>2 DEF RecordedIn
<1> QED BY <1>1, <1>2

(* What a case has recorded after the step.                                 *)
RecordedAfter(k) ==
    {evidence'[e].sha256 : e \in {x \in DOMAIN evidence' : evidence'[x].case = k}}
    \cup {attachments'[a].sha256 : a \in {x \in DOMAIN attachments' : attachments'[x].case = k}}

LEMMA ImportKept ==
  ASSUME RowsGrow, NEW q \in Process, job[q] \in ImportJob, Kept(q), ImportSound(job[q])
  PROVE  ImportSound(job[q])'
<1>1. RecordedIn(job[q].case) \subseteq RecordedIn(job[q].case)'
  <2>1. job'[q].case = job[q].case
    <3>1. job'[q] = job[q] \/ job'[q] = [job[q] EXCEPT !.moved = TRUE]
      BY DEF Kept
    <3> QED BY <3>1, ImportMarked
  <2>2. RecordedIn(job[q].case)' = RecordedAfter(job[q].case)
    BY <2>1 DEF RecordedIn, RecordedAfter, InCase
  <2>3. \A k : RecordedIn(k) \subseteq RecordedAfter(k)
    <3>1. \A k : RecordedIn(k) \subseteq RecordedIn(k)'
      BY RecordedStays
    <3>2. \A k : RecordedIn(k)' = RecordedAfter(k)
      BY DEF RecordedIn, RecordedAfter, InCase
    <3> QED BY <3>1, <3>2
  <2> QED BY <2>2, <2>3
<1>2. CASE job'[q] = [job[q] EXCEPT !.moved = TRUE]
  BY <1>1, <1>2, ImportMarked DEF ImportSound
<1>3. CASE /\ job'[q] = job[q]
           /\ Running(q) => RecordedIn(job[q].case)' = RecordedIn(job[q].case)
  BY <1>1, <1>3 DEF ImportSound, Running, ImportJob
<1> QED BY <1>2, <1>3 DEF Kept, ImportJob

(* What is logged later is later than what was read, and holders fit what   *)
(* was read as long as that stays.                                          *)
LEMMA EntriesStay ==
  ASSUME CaseworkTypeOK, CaseworkTypeOK', LogGrows, NEW r, r.entries \subseteq DOMAIN log,
         NEW p \in Process, job'[p].case = r.case, job'[p].items = r.items,
         job'[p].entries = r.entries, job'[p].holders = r.holders
  PROVE  /\ FirstEntries(r) => FirstEntries(job[p])'
         /\ HoldersFit(r) => HoldersFit(job[p])'
<1> DEFINE m == job'[p]
<1>1. /\ DOMAIN log = 1..Len(log) /\ Len(log) \in Nat
      /\ DOMAIN log' = 1..Len(log') /\ Len(log') \in Nat
  BY DEF CaseworkTypeOK
<1>2. ASSUME FirstEntries(r), NEW n \in (OfCase(job[p].case) \ job[p].entries)', NEW k \in m.entries
      PROVE  k < n
  <2>1. n \in DOMAIN log' /\ log'[n].body.case = m.case
    BY <1>2 DEF OfCase
  <2>2. CASE n \in DOMAIN log
    <3>1. n \in OfCase(r.case) \ r.entries
      BY <1>2, <2>1, <2>2 DEF LogGrows, OfCase
    <3> QED BY <1>2, <3>1 DEF FirstEntries
  <2>3. CASE n \notin DOMAIN log
    BY <1>1, <1>2, <2>1, <2>3
  <2> QED BY <2>2, <2>3
<1>3. ASSUME HoldersFit(r), NEW e \in m.items PROVE HolderFits(job[p], e)'
  <2>1. CustodyShown(job[p], e)' = CustodyShown(r, e)
    BY DEF LogGrows, CustodyShown
  <2>2. HolderFits(r, e)
    BY <1>3 DEF HoldersFit
  <2> QED BY <2>1, <2>2 DEF HolderFits, Newest
<1>4. FirstEntries(r) => FirstEntries(job[p])'
  BY <1>2 DEF FirstEntries
<1>5. HoldersFit(r) => HoldersFit(job[p])'
  BY <1>3 DEF HoldersFit
<1> QED BY <1>4, <1>5

LEMMA ReportKept ==
  ASSUME CaseworkTypeOK, CaseworkTypeOK', Grows, NEW q \in Process, job[q] \in ReportJob, Kept(q),
         ReportSound(job[q])
  PROVE  ReportSound(job[q])'
<1> DEFINE j == job[q]
           m == job'[q]
<1>1. /\ m.stage = j.stage /\ m.case = j.case /\ m.next = j.next
      /\ m.items = j.items /\ m.attached = j.attached /\ m.entries = j.entries
      /\ m.head = j.head /\ m.holders = j.holders
      /\ m.moved = j.moved \/ m.moved = TRUE
  <2>1. job'[q] = job[q] \/ job'[q] = [job[q] EXCEPT !.moved = TRUE]
    BY DEF Kept
  <2> QED BY <2>1, ReportMarked
<1>2. /\ j.items \subseteq InCase(evidence, j.case)
      /\ j.attached \subseteq InCase(attachments, j.case)
      /\ j.entries \subseteq OfCase(j.case)
      /\ HasRead(j, 3) => Explained(j) /\ FirstEntries(j)
      /\ HasRead(j, 4) => j.entries \subseteq 1..j.head.n
      /\ j.stage \in {"written", "done"} => HoldersFit(j)
  BY DEF ReportSound
<1>3. j.entries \subseteq DOMAIN log
  BY <1>2 DEF OfCase
<1>4. /\ m.items \subseteq InCase(evidence, j.case)'
      /\ m.attached \subseteq InCase(attachments, j.case)'
  BY <1>1, <1>2 DEF Grows, RowsGrow, InCase
<1>5. m.entries \subseteq OfCase(j.case)'
  BY <1>1, <1>2 DEF Grows, LogGrows, OfCase
<1>6. \A w \in {1, 2, 3, 4} : HasRead(m, w) <=> HasRead(j, w)
  BY <1>1 DEF HasRead
<1>7. Explained(j) => Explained(j)'
  BY <1>1, <1>3 DEF Grows, LogGrows, Explained, Does
<1>8. HasRead(m, 4) => m.entries \subseteq 1..m.head.n
  BY <1>1, <1>2, <1>6
<1>9. /\ HasRead(m, 3) => FirstEntries(job[q])'
      /\ m.stage \in {"written", "done"} => HoldersFit(job[q])'
  <2> HIDE DEF j
  <2>1. (FirstEntries(j) => FirstEntries(job[q])') /\ (HoldersFit(j) => HoldersFit(job[q])')
    BY <1>1, <1>3, EntriesStay DEF Grows
  <2> QED BY <1>1, <1>2, <1>6, <2>1
<1>10. CASE m.moved = TRUE
  BY <1>1, <1>2, <1>4, <1>5, <1>6, <1>7, <1>8, <1>9, <1>10 DEF ReportSound
<1>11. CASE m.moved # TRUE /\ Running(q)
  <2>1. m = j /\ UNCHANGED tables
    BY <1>11, ReportMarked DEF Kept, ReportJob
  <2>2. log' = log /\ evidence' = evidence /\ attachments' = attachments
    BY <2>1 DEF tables
  <2>3. /\ InCase(evidence, j.case)' = InCase(evidence, j.case)
        /\ InCase(attachments, j.case)' = InCase(attachments, j.case)
        /\ OfCase(j.case)' = OfCase(j.case)
        /\ Explained(j)' <=> Explained(j)
        /\ Snapshotted(j)' <=> Snapshotted(j)
    BY <2>1, <2>2 DEF InCase, OfCase, Explained, Does, Snapshotted, PrintedBy
  <2>4. ReportSound(job[q])
    OBVIOUS
  <2> QED BY <1>9, <2>1, <2>2, <2>3, <2>4 DEF ReportSound, HasRead
<1>12. CASE m.moved # TRUE /\ ~Running(q)
  <2>1. m = j /\ j.stage = "done" /\ ~j.moved
    BY <1>12 DEF Kept, Running, ReportJob
  <2>2. /\ Snapshotted(j) /\ j.head.n + 1 \in DOMAIN log
        /\ log[j.head.n + 1].body.action = "report_generated"
    BY <2>1 DEF ReportSound
  <2>3. /\ j.head.n + 1 \in DOMAIN log'
        /\ log'[j.head.n + 1].body.action = "report_generated"
    BY <2>2 DEF Grows, LogGrows
  <2>4. Snapshotted(j)'
    <3>1. \A a : PrintedBy(j, a)' = PrintedBy(j, a)
      BY <1>3, <2>1 DEF Grows, LogGrows, PrintedBy
    <3>2. \A e : {n \in j.entries :
                    /\ log'[n].body.item = e
                    /\ log'[n].body.action \in {"evidence_ingested", "custody_accepted"}}
                = {n \in j.entries :
                    /\ log[n].body.item = e
                    /\ log[n].body.action \in {"evidence_ingested", "custody_accepted"}}
      BY <1>3 DEF Grows, LogGrows
    <3>3. m.items = PrintedBy(j, "evidence_ingested")' /\ m.attached = PrintedBy(j, "attachment_uploaded")'
      BY <2>1, <2>2, <3>1 DEF Snapshotted
    <3>4. ASSUME NEW e \in m.items
          PROVE  m.holders[e] =
             Newest({n \in m.entries :
                    /\ log'[n].body.item = e
                    /\ log'[n].body.action \in {"evidence_ingested", "custody_accepted"}})
      <4> DEFINE Old == {n \in j.entries :
                    /\ log[n].body.item = e
                    /\ log[n].body.action \in {"evidence_ingested", "custody_accepted"}}
      <4>1. j.holders[e] = Newest(Old)
        BY <2>1, <2>2 DEF Snapshotted
      <4>2. {n \in m.entries :
                    /\ log'[n].body.item = e
                    /\ log'[n].body.action \in {"evidence_ingested", "custody_accepted"}} = Old
        BY <2>1, <3>2
      <4> HIDE DEF Old
      <4> QED BY <2>1, <4>1, <4>2
    <3> QED BY <3>3, <3>4 DEF Snapshotted, Newest
  <2> QED BY <1>1, <1>2, <1>4, <1>5, <1>6, <1>7, <1>8, <1>9, <2>1, <2>3, <2>4 DEF ReportSound
<1> QED BY <1>10, <1>11, <1>12

LEMMA CopiedStays ==
  ASSUME CaseworkTypeOK, RowsGrow, NEW j \in BackupJob, j.copy.evidence <= Len(evidence),
         j.copy.attachments <= Len(attachments)
  PROVE  CopiedItems(j)' = CopiedItems(j) /\ CopiedRows(j)' = CopiedRows(j)
<1>1. /\ Len(evidence) \in Nat /\ DOMAIN evidence = 1..Len(evidence)
      /\ Len(attachments) \in Nat /\ DOMAIN attachments = 1..Len(attachments)
      /\ j.copy.evidence \in Nat /\ j.copy.attachments \in Nat
  BY DEF CaseworkTypeOK, BackupJob, Count
<1>2. /\ \A e \in 1..j.copy.evidence : e \in DOMAIN evidence
      /\ \A a \in 1..j.copy.attachments : a \in DOMAIN attachments
  BY <1>1
<1>3. /\ \A e \in DOMAIN evidence : evidence'[e] = evidence[e]
      /\ \A a \in DOMAIN attachments : attachments'[a] = attachments[a]
  BY DEF RowsGrow
<1> QED BY <1>2, <1>3 DEF CopiedItems, CopiedRows

LEMMA BackupKept ==
  ASSUME CaseworkTypeOK, Grows, NEW q \in Process, job[q] \in BackupJob, Kept(q),
         BackupSound(job[q])
  PROVE  BackupSound(job[q])'
<1> DEFINE j == job[q]
           m == job'[q]
<1>1. /\ m.stage = j.stage /\ m.deep = j.deep /\ m.source = j.source
      /\ m.copy = j.copy /\ m.files = j.files /\ m.walk = j.walk
      /\ m.manifest = j.manifest /\ m.result = j.result
      /\ m.moved = j.moved \/ m.moved = TRUE
  <2>1. job'[q] = job[q] \/ job'[q] = [job[q] EXCEPT !.moved = TRUE]
    BY DEF Kept
  <2> QED BY <2>1, BackupMarked
<1>2. /\ Len(evidence) \in Nat /\ Len(attachments) \in Nat
      /\ j.copy.evidence \in Nat /\ j.copy.attachments \in Nat
  BY DEF CaseworkTypeOK, BackupJob, Count
<1>3. /\ m.copy.evidence <= Len(evidence') /\ m.copy.attachments <= Len(attachments')
  BY <1>1, <1>2 DEF BackupSound, Grows, RowsGrow
<1>4. CopiedItems(j)' = CopiedItems(j) /\ CopiedRows(j)' = CopiedRows(j)
  BY <1>1, CopiedStays DEF BackupSound, Grows, CopiedItems, CopiedRows
<1>5. touched \subseteq touched'
  BY DEF Grows, FilesStay
<1>6. ~m.moved => /\ ~j.moved
                  /\ j.stage # "done" => UNCHANGED tables
  <2>1. CASE m = [j EXCEPT !.moved = TRUE]
    BY <2>1, BackupMarked
  <2>2. CASE m = j /\ (Running(q) /\ j.cmd = "backup" => UNCHANGED <<tables, touched>>)
    BY <2>2, BackupMarked DEF Running, BackupJob
  <2> QED BY <2>1, <2>2 DEF Kept
<1>7. /\ \A c \in Content \ touched' : m.files[c] \in {c, Absent}
      /\ m.stage = "copying" => CopiedRows(j)' \subseteq touched' \cup m.walk
      /\ m.stage \in {"copied", "compared", "done"} =>
            \A c \in CopiedRows(j)' \ touched' : m.files[c] = c
      /\ m.stage = "compared" => m.deep /\ Faithful(m.source, m.copy.log)
      /\ m.stage = "done" /\ m.result = "verified" =>
            /\ Faithful(m.source, m.copy.log)
            /\ m.deep => \A c \in CopiedItems(j)' : m.files[c] = c
  BY <1>1, <1>4, <1>5 DEF BackupSound
<1>8. ~m.moved =>
         /\ m.stage # "done" => m.source = log'
         /\ m.stage \in {"copying", "copied", "compared"} => m.copy = DatabaseNow'
         /\ m.stage \in {"compared", "done"} => m.manifest = Counts(m)
         /\ m.stage = "done" => m.result = "verified" \/ (m.deep /\ touched' # {})
  BY <1>1, <1>5, <1>6 DEF BackupSound, DatabaseNow, tables, Counts
<1> QED BY <1>3, <1>7, <1>8 DEF BackupSound, Counts

(* All three at once.                                                       *)
LEMMA SoundKept ==
  ASSUME CaseworkTypeOK, CaseworkTypeOK', JobsTyped, Grows, NEW q \in Process, Kept(q),
         Sound(job[q])
  PROVE  Sound(job[q])'
<1>1. job[q] \in JobType
  BY DEF JobsTyped
<1>2. job'[q].cmd \in {"import", "report", "backup"} => job'[q].cmd = job[q].cmd
  <2>1. CASE job'[q] = job[q]
    BY <2>1
  <2>2. CASE job[q].cmd \in {"import", "report", "backup"}
             /\ job'[q] = [job[q] EXCEPT !.moved = TRUE]
    BY <1>1, <2>2, JobKinds, ImportMarked, ReportMarked, BackupMarked
  <2> QED BY <2>1, <2>2 DEF Kept
<1>3. job'[q].cmd = "import" => ImportSound(job[q])'
  BY <1>1, <1>2, JobKinds, ImportKept DEF Sound, Grows
<1>4. job'[q].cmd = "report" => ReportSound(job[q])'
  BY <1>1, <1>2, JobKinds, ReportKept DEF Sound
<1>5. job'[q].cmd = "backup" => BackupSound(job[q])'
  BY <1>1, <1>2, JobKinds, BackupKept DEF Sound
<1> QED BY <1>3, <1>4, <1>5 DEF Sound

-----------------------------------------------------------------------------
(* The workspace after each kind of change. *)

Spent == [commands: 0..MaxCommands, faults: 0..MaxFaults]

LEMMA SpendTyped ==
  ASSUME CaseworkTypeOK
  PROVE  /\ spent.commands < MaxCommands /\ Spend("commands") => spent' \in Spent
         /\ Fault => spent' \in Spent
<1>1. /\ MaxCommands \in Nat /\ MaxFaults \in Nat
      /\ spent \in [commands: 0..MaxCommands, faults: 0..MaxFaults]
  BY BoundAssumption DEF CaseworkTypeOK
<1>2. ASSUME spent.commands < MaxCommands, Spend("commands") PROVE spent' \in Spent
  BY <1>1, <1>2 DEF Spend, Spent
<1>3. ASSUME Fault PROVE spent' \in Spent
  BY <1>1, <1>3 DEF Fault, Spend, Spent
<1> QED BY <1>2, <1>3

(* The workspace does not change.                                           *)
LEMMA WorkspaceSame ==
  ASSUME Workspace, UNCHANGED <<tables, files>>, spent' \in Spent
  PROVE  Workspace' /\ Grows /\ UNCHANGED <<tables, touched>>
<1>1. /\ log' = log /\ evidence' = evidence /\ attachments' = attachments
      /\ vault' = vault /\ folder' = folder /\ touched' = touched
  BY DEF tables, files
<1>2. Grows
  BY <1>1, NothingGrows DEF Workspace, Grows
<1>3. CaseworkTypeOK'
  BY <1>1 DEF Workspace, CaseworkTypeOK, Spent
<1>4. EntriesHaveRows' /\ RowsHaveEntries' /\ LoggedOnce'
  <2>1. Tables'
    BY <1>1, <1>2, ShapeKeeps DEF Workspace, Tables, Grows
  <2> QED BY <2>1 DEF Tables
<1>5. FilesRight' /\ RowsHeld'
  BY <1>1 DEF Workspace, FilesRight, RowsHeld, Held
<1> QED BY <1>1, <1>2, <1>3, <1>4, <1>5 DEF Workspace, tables

(* The files of rows are held, as long as rows and files stay.              *)
LEMMA RowsStayHeld ==
  ASSUME Workspace, FilesStay, UNCHANGED <<evidence, attachments>>
  PROVE  RowsHeld'
<1>1. /\ \A e \in DOMAIN evidence : evidence[e].sha256 \in Content
      /\ \A a \in DOMAIN attachments : attachments[a].sha256 \in Content
  <2>1. evidence \in Seq(Row) /\ attachments \in Seq(Row)
    BY DEF Workspace, CaseworkTypeOK
  <2>2. \A r \in Row : r.sha256 \in Content
    BY DEF Row
  <2> QED BY <2>1, <2>2
<1>2. \A c \in Content : Held(c) => Held(c)'
  BY HeldStays
<1>3. ASSUME NEW e \in DOMAIN evidence PROVE Held(evidence[e].sha256)'
  BY <1>1, <1>2 DEF Workspace, RowsHeld, Held
<1>4. ASSUME NEW a \in DOMAIN attachments PROVE Held(attachments[a].sha256)'
  BY <1>1, <1>2 DEF Workspace, RowsHeld, Held
<1> QED BY <1>3, <1>4 DEF RowsHeld, Held

(* A file is stored.                                                        *)
LEMMA WorkspaceStores ==
  ASSUME Workspace, NEW c \in Content, Store(c), UNCHANGED <<tables, folder, touched>>,
         spent' \in Spent
  PROVE  /\ Workspace' /\ Grows /\ UNCHANGED <<tables, touched>>
         /\ c \in touched' \/ vault'[c] = c
<1>1. /\ log' = log /\ evidence' = evidence /\ attachments' = attachments
      /\ folder' = folder /\ touched' = touched
  BY DEF tables
<1>2. /\ FilesStay
      /\ c \in touched' \/ vault'[c] = c
      /\ vault' \in [Content -> Content \cup {Damaged, Absent}]
  BY StoreStays DEF Workspace, Held
<1>3. Grows
  BY <1>1, <1>2, NothingGrows DEF Workspace, Grows
<1>4. CaseworkTypeOK'
  BY <1>1, <1>2 DEF Workspace, CaseworkTypeOK, Spent
<1>5. Tables'
  BY <1>1, <1>3, ShapeKeeps DEF Workspace, Tables, Grows
<1>6. FilesRight'
  BY <1>1, <1>2 DEF Workspace, FilesRight, FilesStay
<1>7. RowsHeld'
  BY <1>1, <1>2, RowsStayHeld
<1> QED BY <1>1, <1>2, <1>3, <1>4, <1>5, <1>6, <1>7 DEF Workspace, Tables, tables

(* A row and its entry are recorded.                                        *)
LEMMA WorkspaceRecords ==
  ASSUME Workspace, NEW k \in Case, NEW mode, NEW c \in Content, Held(c), Record(k, mode, c),
         UNCHANGED <<files, spent>>
  PROVE  /\ Workspace' /\ Grows
         /\ RecordedIn(k)' = RecordedIn(k) \cup {c}
         /\ \A h \in Case \ {k} : RecordedIn(h)' = RecordedIn(h)
<1> DEFINE r == [case |-> k, sha256 |-> c]
<1>1. /\ Tables' /\ LogGrows /\ RowsGrow
      /\ log' \in Seq(Chain!Entry) /\ Len(log') <= MaxEntries
      /\ evidence' \in Seq(Row) /\ attachments' \in Seq(Row)
  BY RecordTables DEF Workspace, Tables
<1>2. \/ evidence' = Append(evidence, r) /\ attachments' = attachments
      \/ attachments' = Append(attachments, r) /\ evidence' = evidence
  BY RecordTables DEF Workspace, Tables
<1>3. /\ vault' = vault /\ folder' = folder /\ touched' = touched /\ spent' = spent
  BY DEF files
<1>4. Grows
  BY <1>1, <1>3, NothingGrows DEF Workspace, Grows
<1>5. CaseworkTypeOK'
  BY <1>1, <1>3 DEF Workspace, CaseworkTypeOK
<1>6. r \in Row /\ r.case = k /\ r.sha256 = c
  BY DEF Row
<1>7. evidence \in Seq(Row) /\ attachments \in Seq(Row)
  BY DEF Workspace, CaseworkTypeOK
<1> HIDE DEF r
<1>8. CASE evidence' = Append(evidence, r) /\ attachments' = attachments
  <2>1. /\ Len(evidence) \in Nat /\ DOMAIN evidence = 1..Len(evidence)
        /\ DOMAIN evidence' = 1..(Len(evidence) + 1)
        /\ \A e \in DOMAIN evidence : evidence'[e] = evidence[e]
        /\ evidence'[Len(evidence) + 1] = r
    BY <1>6, <1>7, <1>8, Appended
  <2>2. RowsHeld'
    <3>1. \A e \in DOMAIN evidence' : evidence'[e].sha256 \in touched
                                      \/ vault[evidence'[e].sha256] = evidence'[e].sha256
      BY <1>6, <2>1 DEF Workspace, RowsHeld, Held
    <3> QED BY <1>3, <1>8, <3>1 DEF Workspace, RowsHeld, Held
  <2>3. InCase(evidence, k)' = InCase(evidence, k) \cup {Len(evidence) + 1}
    BY <1>6, <2>1 DEF InCase
  <2>4. \A h \in Case \ {k} : InCase(evidence, h)' = InCase(evidence, h)
    BY <1>6, <2>1 DEF InCase
  <2>5. \A h \in Case : InCase(evidence, h) \subseteq DOMAIN evidence
    BY DEF InCase
  <2>6. RecordedIn(k)' = RecordedIn(k) \cup {c}
    <3>1. {evidence'[e].sha256 : e \in InCase(evidence, k)'}
             = {evidence[e].sha256 : e \in InCase(evidence, k)} \cup {c}
      BY <1>6, <2>1, <2>3, <2>5
    <3>2. {attachments'[a].sha256 : a \in InCase(attachments, k)'}
             = {attachments[a].sha256 : a \in InCase(attachments, k)}
      BY <1>8 DEF InCase
    <3> QED BY <3>1, <3>2 DEF RecordedIn
  <2>7. ASSUME NEW h \in Case \ {k} PROVE RecordedIn(h)' = RecordedIn(h)
    <3>1. {evidence'[e].sha256 : e \in InCase(evidence, h)'}
             = {evidence[e].sha256 : e \in InCase(evidence, h)}
      BY <2>1, <2>4, <2>5
    <3>2. {attachments'[a].sha256 : a \in InCase(attachments, h)'}
             = {attachments[a].sha256 : a \in InCase(attachments, h)}
      BY <1>8 DEF InCase
    <3> QED BY <3>1, <3>2 DEF RecordedIn
  <2>8. FilesRight'
    BY <1>3 DEF Workspace, FilesRight
  <2> QED BY <1>1, <1>4, <1>5, <2>2, <2>6, <2>7, <2>8 DEF Workspace, Tables
<1>9. CASE attachments' = Append(attachments, r) /\ evidence' = evidence
  <2>1. /\ Len(attachments) \in Nat /\ DOMAIN attachments = 1..Len(attachments)
        /\ DOMAIN attachments' = 1..(Len(attachments) + 1)
        /\ \A a \in DOMAIN attachments : attachments'[a] = attachments[a]
        /\ attachments'[Len(attachments) + 1] = r
    BY <1>6, <1>7, <1>9, Appended
  <2>2. RowsHeld'
    <3>1. \A a \in DOMAIN attachments' : attachments'[a].sha256 \in touched
                                      \/ vault[attachments'[a].sha256] = attachments'[a].sha256
      BY <1>6, <2>1 DEF Workspace, RowsHeld, Held
    <3> QED BY <1>3, <1>9, <3>1 DEF Workspace, RowsHeld, Held
  <2>3. InCase(attachments, k)' = InCase(attachments, k) \cup {Len(attachments) + 1}
    BY <1>6, <2>1 DEF InCase
  <2>4. \A h \in Case \ {k} : InCase(attachments, h)' = InCase(attachments, h)
    BY <1>6, <2>1 DEF InCase
  <2>5. \A h \in Case : InCase(attachments, h) \subseteq DOMAIN attachments
    BY DEF InCase
  <2>6. RecordedIn(k)' = RecordedIn(k) \cup {c}
    <3>1. {attachments'[a].sha256 : a \in InCase(attachments, k)'}
             = {attachments[a].sha256 : a \in InCase(attachments, k)} \cup {c}
      BY <1>6, <2>1, <2>3, <2>5
    <3>2. {evidence'[e].sha256 : e \in InCase(evidence, k)'}
             = {evidence[e].sha256 : e \in InCase(evidence, k)}
      BY <1>9 DEF InCase
    <3> QED BY <3>1, <3>2 DEF RecordedIn
  <2>7. ASSUME NEW h \in Case \ {k} PROVE RecordedIn(h)' = RecordedIn(h)
    <3>1. {attachments'[a].sha256 : a \in InCase(attachments, h)'}
             = {attachments[a].sha256 : a \in InCase(attachments, h)}
      BY <2>1, <2>4, <2>5
    <3>2. {evidence'[e].sha256 : e \in InCase(evidence, h)'}
             = {evidence[e].sha256 : e \in InCase(evidence, h)}
      BY <1>9 DEF InCase
    <3> QED BY <3>1, <3>2 DEF RecordedIn
  <2>8. FilesRight'
    BY <1>3 DEF Workspace, FilesRight
  <2> QED BY <1>1, <1>4, <1>5, <2>2, <2>6, <2>7, <2>8 DEF Workspace, Tables
<1> QED BY <1>2, <1>8, <1>9

(* An entry is written that stands for no new row.                          *)
LEMMA WorkspaceLogs ==
  ASSUME Workspace, UNCHANGED <<evidence, attachments, files, spent>>,
         NEW action, NEW k \in Case \cup {NoCase}, NEW i \in Nat,
         action \in {"custody_transferred", "custody_accepted", "user_login",
                     "report_generated"},
         action \in {"custody_transferred", "custody_accepted"} =>
            i \in DOMAIN evidence /\ k = evidence[i].case,
         AppendEntry(action, k, i)
  PROVE  /\ Workspace' /\ Grows
         /\ \A h : RecordedIn(h)' = RecordedIn(h)
<1>1. /\ evidence' = evidence /\ attachments' = attachments
      /\ vault' = vault /\ folder' = folder /\ touched' = touched /\ spent' = spent
  BY DEF files
<1>2. log' \in Seq(Chain!Entry) /\ Len(log') <= MaxEntries /\ LogGrows
  BY EntryAppended DEF Workspace
<1>3. Tables'
  BY EntryKeeps DEF Workspace, Tables
<1>4. Grows
  BY <1>1, <1>2, NothingGrows DEF Workspace, Grows
<1>5. CaseworkTypeOK'
  BY <1>1, <1>2 DEF Workspace, CaseworkTypeOK
<1>6. FilesRight' /\ RowsHeld'
  BY <1>1 DEF Workspace, FilesRight, RowsHeld, Held
<1>7. \A h : RecordedIn(h)' = RecordedIn(h)
  BY <1>1 DEF RecordedIn, InCase
<1> QED BY <1>3, <1>4, <1>5, <1>6, <1>7 DEF Workspace, Tables

(* A row of the log is edited: whose entry it is stays as it was.           *)
LEMMA WorkspaceEdited ==
  ASSUME Workspace, NEW n \in DOMAIN log, EditEntry(n)
  PROVE  /\ Workspace' /\ Grows
         /\ \A h : RecordedIn(h)' = RecordedIn(h)
<1> DEFINE e == [log[n] EXCEPT !.body.details = "forged"]
<1>1. /\ evidence' = evidence /\ attachments' = attachments
      /\ vault' = vault /\ folder' = folder /\ touched' = touched
      /\ log' = [log EXCEPT ![n].body.details = "forged"]
      /\ Fault
  BY DEF EditEntry, files
<1>2. log \in Seq(Chain!Entry) /\ Len(log) \in Nat /\ DOMAIN log = 1..Len(log)
      /\ Len(log) <= MaxEntries /\ spent' \in Spent
  BY <1>1, SpendTyped DEF Workspace, CaseworkTypeOK
<1>3. log' = [log EXCEPT ![n] = e]
  BY <1>1
<1>4. log[n] \in Chain!Entry
  BY <1>2
<1>5. /\ e \in Chain!Entry /\ e.body.action = log[n].body.action
      /\ e.body.case = log[n].body.case /\ e.body.item = log[n].body.item
  BY <1>4 DEF Chain!Entry, EntryBody
<1> HIDE DEF e
<1>6. /\ log' \in Seq(Chain!Entry) /\ Len(log') = Len(log) /\ DOMAIN log' = DOMAIN log
      /\ \A m \in DOMAIN log : log'[m] = IF m = n THEN e ELSE log[m]
  BY <1>2, <1>3, <1>5
<1>7. LogGrows
  BY <1>2, <1>5, <1>6 DEF LogGrows
<1>8. Grows
  BY <1>1, <1>7, NothingGrows DEF Workspace, Grows
<1>9. Tables'
  BY <1>1, <1>6, <1>7, ShapeKeeps DEF Workspace, Tables
<1>10. CaseworkTypeOK'
  BY <1>1, <1>2, <1>6 DEF Workspace, CaseworkTypeOK, Spent
<1>11. FilesRight' /\ RowsHeld'
  BY <1>1 DEF Workspace, FilesRight, RowsHeld, Held
<1>12. \A h : RecordedIn(h)' = RecordedIn(h)
  BY <1>1 DEF RecordedIn, InCase
<1> QED BY <1>8, <1>9, <1>10, <1>11, <1>12 DEF Workspace, Tables

(* A vault file is altered or removed: it counts as touched.                *)
LEMMA WorkspaceTouched ==
  ASSUME Workspace, NEW c \in Content, NEW bytes \in {Damaged, Absent}, ChangeFile(c, bytes)
  PROVE  /\ Workspace' /\ Grows /\ UNCHANGED tables
         /\ \A h : RecordedIn(h)' = RecordedIn(h)
<1>1. /\ log' = log /\ evidence' = evidence /\ attachments' = attachments /\ folder' = folder
      /\ vault' = [vault EXCEPT ![c] = bytes] /\ touched' = touched \cup {c}
      /\ Fault
  BY DEF ChangeFile, tables
<1>2. /\ vault \in [Content -> Content \cup {Damaged, Absent}] /\ touched \subseteq Content
      /\ spent' \in Spent
  BY <1>1, SpendTyped DEF Workspace, CaseworkTypeOK
<1>3. FilesStay
  BY <1>1, <1>2 DEF FilesStay
<1>4. Grows
  BY <1>1, <1>3, NothingGrows DEF Workspace, Grows
<1>5. Tables'
  BY <1>1, <1>4, ShapeKeeps DEF Workspace, Tables, Grows
<1>6. CaseworkTypeOK'
  BY <1>1, <1>2 DEF Workspace, CaseworkTypeOK, Spent
<1>7. FilesRight'
  BY <1>1, <1>2 DEF Workspace, FilesRight
<1>8. RowsHeld'
  BY <1>1, <1>3, RowsStayHeld
<1>9. \A h : RecordedIn(h)' = RecordedIn(h)
  BY <1>1 DEF RecordedIn, InCase
<1> QED BY <1>1, <1>4, <1>5, <1>6, <1>7, <1>8, <1>9 DEF Workspace, Tables, tables

(* A file of the folder is written over.                                    *)
LEMMA WorkspaceSource ==
  ASSUME Workspace, NEW f \in 1..Files, NEW c \in Content, ChangeSource(f, c)
  PROVE  Workspace' /\ Grows
<1>1. /\ log' = log /\ evidence' = evidence /\ attachments' = attachments
      /\ vault' = vault /\ touched' = touched
      /\ folder' = [folder EXCEPT ![f] = c] /\ Fault
  BY DEF ChangeSource, tables
<1>2. spent' \in Spent /\ folder' \in [1..Files -> Content]
  BY <1>1, SpendTyped DEF Workspace, CaseworkTypeOK
<1>3. Grows
  BY <1>1, NothingGrows DEF Workspace, Grows
<1>4. Tables'
  BY <1>1, <1>3, ShapeKeeps DEF Workspace, Tables, Grows
<1>5. CaseworkTypeOK'
  BY <1>1, <1>2 DEF Workspace, CaseworkTypeOK, Spent
<1>6. FilesRight' /\ RowsHeld'
  BY <1>1 DEF Workspace, FilesRight, RowsHeld, Held
<1> QED BY <1>3, <1>4, <1>5, <1>6 DEF Workspace, Tables

-----------------------------------------------------------------------------
(* Putting the invariant together after a step of p. *)

StoreHeld(p) == job[p].stage = "stored" => job[p].stored \in Content /\ Held(job[p].stored)

LEMMA StoreHeldKept ==
  ASSUME JobsTyped, FilesStay, NEW q \in Process, Kept(q), StoreHeld(q)
  PROVE  StoreHeld(q)'
<1>1. job[q] \in JobType
  BY DEF JobsTyped
<1>2. job'[q].stage = "stored" => job[q].stage = "stored" /\ job'[q].stored = job[q].stored
  <2>1. CASE job'[q] = job[q]
    BY <2>1
  <2>2. CASE job[q].cmd \in {"import", "report", "backup"}
             /\ job'[q] = [job[q] EXCEPT !.moved = TRUE]
    <3>1. CASE job[q].cmd = "import"
      BY <1>1, <2>2, <3>1, JobKinds, ImportMarked
    <3>2. CASE job[q].cmd = "report"
      BY <1>1, <2>2, <3>2, JobKinds, ReportMarked DEF ReportJob
    <3>3. CASE job[q].cmd = "backup"
      BY <1>1, <2>2, <3>3, JobKinds, BackupMarked DEF BackupJob
    <3> QED BY <2>2, <3>1, <3>2, <3>3
  <2> QED BY <2>1, <2>2 DEF Kept
<1>3. \A c \in Content : Held(c) => Held(c)'
  BY HeldStays
<1> QED BY <1>2, <1>3 DEF StoreHeld, Held

LEMMA Together ==
  ASSUME IndInv, Workspace', JobsTyped', Grows, NEW S \in SUBSET Process,
         \A q \in S : Kept(q),
         \A q \in Process \ S : Sound(job[q])' /\ StoreHeld(q)'
  PROVE  IndInv'
<1>1. ASSUME NEW q \in Process PROVE Sound(job[q])' /\ StoreHeld(q)'
  <2>1. CASE q \in S
    <3>1. /\ Kept(q) /\ Sound(job[q]) /\ StoreHeld(q)
          /\ CaseworkTypeOK /\ CaseworkTypeOK' /\ JobsTyped /\ FilesStay
      BY <2>1 DEF IndInv, Workspace, StoresHeld, StoreHeld, Grows
    <3>2. Sound(job[q])'
      BY <3>1, SoundKept
    <3>3. StoreHeld(q)'
      BY <3>1, StoreHeldKept
    <3> QED BY <3>2, <3>3
  <2>2. CASE q \notin S
    BY <2>2
  <2> QED BY <2>1, <2>2
<1>2. StoresHeld'
  BY <1>1 DEF StoresHeld, StoreHeld
<1>3. \A q \in Process : Sound(job[q])'
  BY <1>1
<1> QED BY <1>2, <1>3 DEF IndInv

(* What holds of a record before a step holds after it, if the tables and   *)
(* the touched files are the same.                                          *)
LEMMA SoundSame ==
  ASSUME NEW p \in Process, NEW r, job'[p] = r, UNCHANGED <<tables, touched>>, Sound(r)
  PROVE  Sound(job[p])'
<1>1. /\ log' = log /\ evidence' = evidence /\ attachments' = attachments /\ touched' = touched
  BY DEF tables
<1>2. \A k : /\ RecordedIn(k)' = RecordedIn(k) /\ OfCase(k)' = OfCase(k)
             /\ InCase(evidence, k)' = InCase(evidence, k)
             /\ InCase(attachments, k)' = InCase(attachments, k)
  BY <1>1 DEF RecordedIn, InCase, OfCase
<1>3. job'[p].cmd = "import" => ImportSound(job[p])'
  <2>1. CASE r.cmd = "import"
    <3>1. ImportSound(r)
      BY <2>1 DEF Sound
    <3>2. RecordedIn(job[p].case)' = RecordedIn(r.case)
      BY <1>1 DEF RecordedIn, InCase
    <3> QED BY <3>1, <3>2 DEF ImportSound
  <2> QED BY <2>1
<1>4. job'[p].cmd = "report" => ReportSound(job[p])'
  <2>1. CASE r.cmd = "report"
    <3>1. ReportSound(r)
      BY <2>1 DEF Sound
    <3>2. /\ OfCase(job[p].case)' = OfCase(r.case)
          /\ InCase(evidence, job[p].case)' = InCase(evidence, r.case)
          /\ InCase(attachments, job[p].case)' = InCase(attachments, r.case)
          /\ Explained(job[p])' <=> Explained(r)
          /\ FirstEntries(job[p])' <=> FirstEntries(r)
          /\ HoldersFit(job[p])' <=> HoldersFit(r)
          /\ Snapshotted(job[p])' <=> Snapshotted(r)
      BY <1>1 DEF OfCase, InCase, Explained, FirstEntries, HoldersFit, HolderFits, CustodyShown,
                  Newest, Snapshotted, PrintedBy, Does
    <3> QED BY <1>1, <3>1, <3>2 DEF ReportSound, HasRead
  <2> QED BY <2>1
<1>5. job'[p].cmd = "backup" => BackupSound(job[p])'
  <2>1. CASE r.cmd = "backup"
    <3>1. BackupSound(r)
      BY <2>1 DEF Sound
    <3>2. CopiedRows(job[p])' = CopiedRows(r) /\ CopiedItems(job[p])' = CopiedItems(r)
          /\ DatabaseNow' = DatabaseNow
      BY <1>1 DEF CopiedRows, CopiedItems, DatabaseNow
    <3> QED BY <1>1, <3>1, <3>2 DEF BackupSound, Counts
  <2> QED BY <2>1
<1> QED BY <1>3, <1>4, <1>5 DEF Sound

(* p goes on alone, perhaps having stored a file.                           *)
LEMMA GoesOn ==
  ASSUME IndInv, NEW p \in Process, NEW r \in JobType, Proceed(p, r), Workspace', Grows,
         UNCHANGED <<tables, touched>>, Sound(r),
         r.stage = "stored" => /\ r.stored \in Content
                               /\ r.stored \in touched' \/ vault'[r.stored] = r.stored
  PROVE  IndInv'
<1>1. /\ JobsTyped' /\ job'[p] = r
      /\ \A q \in Process \ {p} : Kept(q)
  BY KeptAlone DEF IndInv
<1>2. Sound(job[p])'
  BY <1>1, SoundSame
<1>3. StoreHeld(p)'
  BY <1>1 DEF StoreHeld, Held
<1> QED
  <2>1. \A q \in Process \ (Process \ {p}) : Sound(job[q])' /\ StoreHeld(q)'
    BY <1>2, <1>3
  <2> DEFINE S == Process \ {p}
  <2>2. S \in SUBSET Process /\ \A q \in S : Kept(q)
    BY <1>1
  <2>3. \A q \in Process \ S : Sound(job[q])' /\ StoreHeld(q)'
    BY <2>1
  <2> HIDE DEF S
  <2> QED BY <1>1, <2>2, <2>3, Together

(* p goes on alone and changes nothing but its own record.                  *)
LEMMA GoesOnAlone ==
  ASSUME IndInv, NEW p \in Process, NEW r \in JobType, Proceed(p, r),
         UNCHANGED <<tables, files>>, spent' \in Spent, Sound(r), r.stage # "stored"
  PROVE  IndInv'
<1>1. Workspace' /\ Grows /\ UNCHANGED <<tables, touched>>
  BY WorkspaceSame DEF IndInv
<1> QED BY <1>1, GoesOn

-----------------------------------------------------------------------------
(* Each step of an import. *)

(* What is recorded are contents, and cases that were opened are cases.     *)
LEMMA ReadTyped ==
  ASSUME Workspace
  PROVE  /\ Opened \subseteq Case
         /\ \A k : RecordedIn(k) \subseteq Content
<1>1. /\ log \in Seq(Chain!Entry) /\ evidence \in Seq(Row) /\ attachments \in Seq(Row)
  BY DEF Workspace, CaseworkTypeOK
<1>2. \A n \in DOMAIN log : log[n].body.case \in Case \cup {NoCase}
  <2>1. \A n \in DOMAIN log : log[n] \in Chain!Entry
    BY <1>1
  <2> QED BY <2>1 DEF Chain!Entry, EntryBody
<1>3. /\ \A e \in DOMAIN evidence : evidence[e].sha256 \in Content
      /\ \A a \in DOMAIN attachments : attachments[a].sha256 \in Content
  <2>1. \A r \in Row : r.sha256 \in Content
    BY DEF Row
  <2> QED BY <1>1, <2>1
<1>4. Opened \subseteq Case
  BY <1>2 DEF Opened
<1>5. \A k : RecordedIn(k) \subseteq Content
  BY <1>3 DEF RecordedIn, InCase
<1> QED BY <1>4, <1>5

(* The record of an import between two files.                               *)
LEMMA NextFileTyped ==
  ASSUME NEW j \in ImportJob, j.file <= Files
  PROVE  LET m == NextFile(j)
         IN  /\ m \in ImportJob /\ m.cmd = "import" /\ m.stage = "walk" /\ m.file = j.file + 1
             /\ m.case = j.case /\ m.mode = j.mode /\ m.dry = j.dry /\ m.known = j.known
             /\ m.failed = j.failed /\ m.seen = j.seen /\ m.drift = j.drift
             /\ m.moved = j.moved
<1>1. Files \in Nat /\ j.file \in 1..(Files + 1)
  BY BoundAssumption DEF ImportJob
<1>2. j.file + 1 \in 1..(Files + 1)
  BY <1>1
<1> QED BY <1>2 DEF NextFile, ImportJob

LEMMA StartImportKeeps ==
  ASSUME IndInv, NEW p \in Process, NEW k \in Case, NEW mode \in {"evidence", "attachment"},
         NEW dry \in BOOLEAN, StartImport(p, k, mode, dry)
  PROVE  IndInv'
<1> DEFINE r == [cmd |-> "import", stage |-> "walk", case |-> k, dry |-> dry,
                 mode |-> IF dry THEN "evidence" ELSE mode,
                 file |-> 1, digest |-> NoContent, stored |-> NoContent,
                 known |-> RecordedIn(k), failed |-> FALSE,
                 seen |-> {}, drift |-> FALSE, moved |-> FALSE]
<1>1. /\ Proceed(p, r) /\ UNCHANGED <<tables, files>>
      /\ spent.commands < MaxCommands /\ Spend("commands")
  BY DEF StartImport, Start, Proceed
<1>2. spent' \in Spent
  BY <1>1, SpendTyped DEF IndInv, Workspace
<1>3. RecordedIn(k) \subseteq Content /\ 1 \in 1..(Files + 1)
  BY ReadTyped, BoundAssumption DEF IndInv
<1>4. r \in ImportJob
  BY <1>3 DEF ImportJob
<1>5. /\ r.cmd = "import" /\ r.stage = "walk" /\ r.case = k /\ r.known = RecordedIn(k)
      /\ r.seen = {}
  OBVIOUS
<1> HIDE DEF r
<1>6. ImportSound(r)
  BY <1>5 DEF ImportSound
<1>7. Sound(r) /\ r \in JobType /\ r.stage # "stored"
  BY <1>4, <1>5, <1>6 DEF Sound, JobType
<1> QED BY <1>1, <1>2, <1>7, GoesOnAlone

(* What is known of an import at one of its stages.                         *)
LEMMA ImportAt ==
  ASSUME IndInv, NEW p \in Process, NEW stage, Importing(p, stage)
  PROVE  /\ job[p] \in ImportJob /\ ImportSound(job[p]) /\ job[p].stage = stage
         /\ StoreHeld(p)
BY JobKinds DEF IndInv, JobsTyped, Sound, Importing, StoresHeld, StoreHeld

(* An import goes on, nothing else having changed.                          *)
LEMMA ImportGoesOn ==
  ASSUME IndInv, NEW p \in Process, NEW r \in ImportJob, Proceed(p, r),
         UNCHANGED <<tables, files, spent>>, ImportSound(r), r.stage # "stored"
  PROVE  IndInv'
<1>1. r \in JobType /\ Sound(r)
  BY DEF JobType, Sound, ImportJob
<1>2. spent' \in Spent
  BY DEF IndInv, Workspace, CaseworkTypeOK, Spent
<1> QED BY <1>1, <1>2, GoesOnAlone

LEMMA HashFileKeeps ==
  ASSUME IndInv, NEW p \in Process, HashFile(p)
  PROVE  IndInv'
<1> DEFINE j == job[p]
           c == folder[j.file]
           s == [j EXCEPT !.seen = @ \cup {c}]
           d == [s EXCEPT !.known = @ \cup {c}]
           h == [s EXCEPT !.stage = "hashed", !.digest = c]
<1>1. /\ Importing(p, "walk") /\ j.file <= Files
      /\ Proceed(p, IF c \in j.known THEN NextFile(s) ELSE IF j.dry THEN NextFile(d) ELSE h)
      /\ UNCHANGED <<tables, files, spent>>
  BY DEF HashFile
<1>2. j \in ImportJob /\ ImportSound(j) /\ j.stage = "walk"
  BY <1>1, ImportAt
<1>3. c \in Content
  BY <1>1, <1>2 DEF IndInv, Workspace, CaseworkTypeOK, ImportJob
<1>4. /\ s \in ImportJob /\ s.cmd = "import" /\ s.stage = "walk" /\ s.file = j.file
      /\ s.case = j.case /\ s.dry = j.dry /\ s.known = j.known /\ s.failed = j.failed
      /\ s.seen = j.seen \cup {c} /\ s.drift = j.drift /\ s.moved = j.moved
  BY <1>2, <1>3 DEF ImportJob
<1>5. /\ d \in ImportJob /\ d.dry = s.dry /\ d.file = s.file
  BY <1>3, <1>4 DEF ImportJob
<1>6. /\ h \in ImportJob /\ h.cmd = "import" /\ h.stage = "hashed" /\ h.file = s.file
      /\ h.case = s.case /\ h.dry = s.dry /\ h.known = s.known /\ h.failed = s.failed
      /\ h.seen = s.seen /\ h.drift = s.drift /\ h.moved = s.moved /\ h.digest = c
  BY <1>3, <1>4 DEF ImportJob
<1> HIDE DEF s, d, h
<1>7. CASE c \in j.known
  <2> DEFINE r == NextFile(s)
  <2>1. /\ r \in ImportJob /\ r.stage = "walk" /\ r.case = s.case /\ r.dry = s.dry
        /\ r.known = s.known /\ r.failed = s.failed /\ r.seen = s.seen /\ r.drift = s.drift
        /\ r.moved = s.moved
    BY <1>1, <1>4, NextFileTyped
  <2>2. Proceed(p, r)
    BY <1>1, <1>7
  <2> HIDE DEF r
  <2>3. ImportSound(r)
    BY <1>2, <1>4, <1>7, <2>1 DEF ImportSound
  <2> QED BY <1>1, <2>1, <2>2, <2>3, ImportGoesOn
<1>8. CASE c \notin j.known /\ j.dry
  <2> DEFINE r == NextFile(d)
  <2>1. r \in ImportJob /\ r.stage = "walk" /\ r.dry = d.dry
    BY <1>1, <1>4, <1>5, NextFileTyped
  <2>2. Proceed(p, r)
    BY <1>1, <1>8
  <2> HIDE DEF r
  <2>3. ImportSound(r)
    BY <1>4, <1>5, <1>8, <2>1 DEF ImportSound
  <2> QED BY <1>1, <2>1, <2>2, <2>3, ImportGoesOn
<1>9. CASE c \notin j.known /\ ~j.dry
  <2>1. Proceed(p, h)
    BY <1>1, <1>9
  <2>2. ImportSound(h)
    BY <1>1, <1>2, <1>3, <1>4, <1>6, <1>9 DEF ImportSound
  <2> QED BY <1>1, <1>6, <2>1, <2>2, ImportGoesOn
<1> QED BY <1>7, <1>8, <1>9

(* The file counts as failed, whatever it was that failed, and even if it   *)
(* is in the vault.                                                         *)
LEMMA FailureKeeps ==
  ASSUME IndInv, NEW p \in Process, job[p] \in ImportJob, ImportSound(job[p]),
         job[p].file <= Files, job[p].stage # "done",
         Proceed(p, NextFile([job[p] EXCEPT !.failed = TRUE])),
         Workspace', Grows, UNCHANGED <<tables, touched>>
  PROVE  IndInv'
<1> DEFINE j == job[p]
           s == [j EXCEPT !.failed = TRUE]
           r == NextFile(s)
<1>1. /\ s \in ImportJob /\ s.failed = TRUE /\ s.file = j.file /\ s.case = j.case
      /\ s.dry = j.dry /\ s.known = j.known /\ s.seen = j.seen /\ s.drift = j.drift
      /\ s.moved = j.moved
  BY DEF ImportJob
<1> HIDE DEF s
<1>2. /\ r \in ImportJob /\ r.stage = "walk" /\ r.case = s.case /\ r.dry = s.dry
      /\ r.known = s.known /\ r.failed = s.failed /\ r.seen = s.seen /\ r.drift = s.drift
      /\ r.moved = s.moved
  BY <1>1, NextFileTyped
<1>3. Proceed(p, r)
  BY DEF s
<1> HIDE DEF r
<1>4. ImportSound(r)
  BY <1>1, <1>2 DEF ImportSound
<1>5. r \in JobType /\ Sound(r) /\ r.stage # "stored"
  BY <1>2, <1>4 DEF JobType, Sound, ImportJob
<1> QED BY <1>3, <1>5, GoesOn

LEMMA StoreSourceKeeps ==
  ASSUME IndInv, NEW p \in Process, StoreSource(p)
  PROVE  IndInv'
<1> DEFINE j == job[p]
           c == folder[j.file]
           r == [j EXCEPT !.stage = "stored", !.stored = c, !.drift = @ \/ c # j.digest]
<1>1. /\ Importing(p, "hashed") /\ Store(c) /\ Proceed(p, r)
      /\ UNCHANGED <<tables, folder, touched, spent>>
  BY DEF StoreSource
<1>2. j \in ImportJob /\ ImportSound(j) /\ j.stage = "hashed"
  BY <1>1, ImportAt
<1>3. c \in Content
  BY <1>1, <1>2 DEF IndInv, Workspace, CaseworkTypeOK, ImportJob, ImportSound
<1>4. /\ r \in ImportJob /\ r.cmd = "import" /\ r.stage = "stored" /\ r.file = j.file
      /\ r.case = j.case /\ r.dry = j.dry /\ r.known = j.known /\ r.failed = j.failed
      /\ r.seen = j.seen /\ r.moved = j.moved /\ r.digest = j.digest /\ r.stored = c
      /\ r.drift <=> (j.drift \/ c # j.digest)
  BY <1>2, <1>3 DEF ImportJob
<1> HIDE DEF r
<1>5. ImportSound(r)
  BY <1>2, <1>4 DEF ImportSound
<1>6. r \in JobType /\ Sound(r)
  BY <1>4, <1>5 DEF Sound, JobType
<1>7. /\ Workspace' /\ Grows /\ UNCHANGED <<tables, touched>>
      /\ c \in touched' \/ vault'[c] = c
  BY <1>1, <1>3, WorkspaceStores DEF IndInv, Workspace, CaseworkTypeOK, Spent
<1> QED BY <1>1, <1>3, <1>4, <1>6, <1>7, GoesOn

(* A row is recorded: the imports of its case, reports and backups notice.  *)
LEMMA RecordingKept ==
  ASSUME IndInv, NEW p \in Process, NEW k \in Case, NEW mode, NEW c \in Content, Held(c),
         Record(k, mode, c), NEW r \in JobType,
         ProceedChanging(p, r, [kind |-> "row", case |-> k]), UNCHANGED <<files, spent>>
  PROVE  /\ Workspace' /\ Grows /\ RecordedAfter(k) = RecordedIn(k) \cup {c}
         /\ JobsTyped' /\ job'[p] = r
         /\ \A q \in Process \ {p} : Kept(q)
<1> DEFINE change == [kind |-> "row", case |-> k]
           S == Process \ {p}
           jobs == [job EXCEPT ![p] = r]
<1>1. /\ Workspace' /\ Grows
      /\ RecordedAfter(k) = RecordedIn(k) \cup {c}
      /\ \A h \in Case \ {k} : RecordedAfter(h) = RecordedIn(h)
  <2>1. /\ Workspace' /\ Grows
        /\ RecordedIn(k)' = RecordedIn(k) \cup {c}
        /\ \A h \in Case \ {k} : RecordedIn(h)' = RecordedIn(h)
    BY WorkspaceRecords DEF IndInv
  <2>2. \A h : RecordedIn(h)' = RecordedAfter(h)
    BY DEF RecordedIn, RecordedAfter, InCase
  <2> QED BY <2>1, <2>2
<1>2. /\ JobsTyped /\ job \in [Process -> JobType] /\ jobs \in [Process -> JobType]
      /\ jobs[p] = r /\ S \in SUBSET Process /\ p \in Process \ S
      /\ \A q \in S : jobs[q] = job[q]
  BY DEF IndInv, JobsTyped
<1>3. job' = Disturbed(jobs, change, S)
  BY DEF ProceedChanging
<1>4. ASSUME NEW q \in S, job[q].cmd = "import"
      PROVE  \/ change = [kind |-> "row", case |-> job[q].case]
             \/ RecordedIn(job[q].case)' = RecordedIn(job[q].case)
  <2>1. job[q] \in ImportJob
    BY <1>2, <1>4, JobKinds
  <2>2. job[q].case \in Case
    BY <2>1 DEF ImportJob
  <2>3. CASE job[q].case = k
    BY <2>3
  <2>4. CASE job[q].case # k
    <3>1. job[q].case \in Case \ {k}
      BY <2>2, <2>4
    <3>2. job'[q].case = job[q].case
      <4>1. job'[q] = job[q] \/ job'[q] = [job[q] EXCEPT !.moved = TRUE]
        BY <1>2, <1>3 DEF Disturbed
      <4> QED BY <2>1, <4>1, ImportMarked
    <3>3. RecordedIn(job[q].case)' = RecordedAfter(job[q].case)
      BY <3>2 DEF RecordedIn, RecordedAfter, InCase
    <3> QED BY <1>1, <3>1, <3>3
  <2> QED BY <2>3, <2>4
<1>5. change.kind # "file"
  OBVIOUS
<1> HIDE DEF change, S, jobs
<1>6. /\ JobsTyped' /\ \A q \in Process \ S : job'[q] = jobs[q]
      /\ \A q \in S : Kept(q)
  BY <1>2, <1>3, <1>4, <1>5, KeptByMark
<1> QED BY <1>1, <1>2, <1>6 DEF S

LEMMA RecordFileKeeps ==
  ASSUME IndInv, NEW p \in Process, RecordFile(p)
  PROVE  IndInv'
<1> DEFINE j == job[p]
           s == [j EXCEPT !.known = @ \cup {j.digest}]
           r == NextFile(s)
<1>1. /\ Importing(p, "stored") /\ Record(j.case, j.mode, j.stored)
      /\ ProceedChanging(p, r, [kind |-> "row", case |-> j.case])
      /\ UNCHANGED <<files, spent>>
  BY DEF RecordFile
<1>2. /\ j \in ImportJob /\ ImportSound(j) /\ j.stage = "stored"
      /\ j.stored \in Content /\ Held(j.stored)
  BY <1>1, ImportAt DEF StoreHeld
<1>3. /\ j.case \in Case /\ j.file <= Files /\ j.digest \in Content
      /\ ~j.drift => j.stored = j.digest
  BY <1>2 DEF ImportSound, ImportJob
<1>4. /\ s \in ImportJob /\ s.file = j.file /\ s.case = j.case /\ s.dry = j.dry
      /\ s.known = j.known \cup {j.digest} /\ s.failed = j.failed /\ s.seen = j.seen
      /\ s.drift = j.drift /\ s.moved = j.moved
  BY <1>2, <1>3 DEF ImportJob
<1> HIDE DEF s
<1>5. /\ r \in ImportJob /\ r.stage = "walk" /\ r.case = s.case /\ r.dry = s.dry /\ r.cmd = "import"
      /\ r.known = s.known /\ r.failed = s.failed /\ r.seen = s.seen /\ r.drift = s.drift
      /\ r.moved = s.moved
  BY <1>3, <1>4, NextFileTyped
<1> HIDE DEF r
<1>6. r \in JobType
  BY <1>5 DEF JobType
<1>7. /\ Workspace' /\ Grows /\ RecordedIn(j.case)' = RecordedIn(j.case) \cup {j.stored}
      /\ JobsTyped' /\ job'[p] = r
      /\ \A q \in Process \ {p} : Kept(q)
  <2>1. /\ Workspace' /\ Grows /\ RecordedAfter(j.case) = RecordedIn(j.case) \cup {j.stored}
        /\ JobsTyped' /\ job'[p] = r
        /\ \A q \in Process \ {p} : Kept(q)
    <3> DEFINE k == j.case
               c == j.stored
               mode == j.mode
    <3>1. /\ k \in Case /\ c \in Content /\ Held(c) /\ Record(k, mode, c)
          /\ ProceedChanging(p, r, [kind |-> "row", case |-> k])
      BY <1>1, <1>2, <1>3
    <3> HIDE DEF k, c, mode
    <3>2. /\ Workspace' /\ Grows /\ RecordedAfter(k) = RecordedIn(k) \cup {c}
          /\ JobsTyped' /\ job'[p] = r
          /\ \A q \in Process \ {p} : Kept(q)
      BY <3>1, <1>1, <1>6, RecordingKept
    <3> QED BY <3>2 DEF k, c
  <2>2. RecordedIn(job[p].case)' = RecordedAfter(j.case)
    BY <1>4, <1>5, <2>1 DEF RecordedIn, RecordedAfter, InCase
  <2> QED BY <2>1, <2>2
<1>8. ImportSound(job[p])'
  <2>1. RecordedIn(j.case) \subseteq RecordedIn(j.case)'
    BY <1>7
  <2>2. job'[p].case = j.case
    BY <1>4, <1>5, <1>7
  <2> QED BY <1>2, <1>3, <1>4, <1>5, <1>7, <2>1, <2>2 DEF ImportSound
<1>9. Sound(job[p])' /\ StoreHeld(p)'
  BY <1>5, <1>7, <1>8 DEF Sound, StoreHeld
<1> DEFINE S == Process \ {p}
<1>10. S \in SUBSET Process /\ (\A q \in S : Kept(q))
       /\ \A q \in Process \ S : Sound(job[q])' /\ StoreHeld(q)'
  BY <1>7, <1>9
<1> HIDE DEF S
<1> QED BY <1>7, <1>10, Together

LEMMA EndImportKeeps ==
  ASSUME IndInv, NEW p \in Process, EndImport(p)
  PROVE  IndInv'
<1> DEFINE j == job[p]
           r == [j EXCEPT !.stage = "done", !.known = {}]
<1>1. Importing(p, "walk") /\ Proceed(p, r) /\ UNCHANGED <<tables, files, spent>>
  BY DEF EndImport
<1>2. j \in ImportJob /\ ImportSound(j) /\ j.stage = "walk"
  BY <1>1, ImportAt
<1>3. /\ r \in ImportJob /\ r.stage = "done" /\ r.case = j.case /\ r.dry = j.dry
      /\ r.known = {} /\ r.failed = j.failed /\ r.seen = j.seen /\ r.drift = j.drift
  BY <1>2 DEF ImportJob
<1> HIDE DEF r
<1>4. ImportSound(r)
  BY <1>2, <1>3 DEF ImportSound
<1> QED BY <1>1, <1>3, <1>4, ImportGoesOn

LEMMA ImportStepKeeps ==
  ASSUME IndInv, NEW p \in Process, ImportStep(p)
  PROVE  IndInv'
<1>1. CASE HashFile(p)
  BY <1>1, HashFileKeeps
<1>2. CASE HashFails(p)
  <2>1. Importing(p, "walk") /\ job[p].file <= Files
    BY <1>2 DEF HashFails
  <2>2. Workspace' /\ Grows /\ UNCHANGED <<tables, touched>>
    BY <1>2, WorkspaceSame DEF HashFails, IndInv, Workspace, CaseworkTypeOK, Spent
  <2> QED BY <1>2, <2>1, <2>2, ImportAt, FailureKeeps DEF HashFails
<1>3. CASE StoreSource(p)
  BY <1>3, StoreSourceKeeps
<1>4. CASE StoreFails(p)
  <2>1. Importing(p, "hashed")
    BY <1>4 DEF StoreFails
  <2>2. job[p] \in ImportJob /\ ImportSound(job[p]) /\ job[p].stage = "hashed"
    BY <2>1, ImportAt
  <2>3. job[p].file <= Files
    BY <2>2 DEF ImportSound
  <2>4. folder[job[p].file] \in Content /\ spent' \in Spent
    BY <1>4, <2>2, <2>3 DEF StoreFails, IndInv, Workspace, CaseworkTypeOK, ImportJob, Spent
  <2>5. Workspace' /\ Grows /\ UNCHANGED <<tables, touched>>
    <3>1. CASE UNCHANGED vault
      BY <1>4, <2>4, <3>1, WorkspaceSame DEF StoreFails, IndInv, files
    <3>2. CASE Store(folder[job[p].file])
      BY <1>4, <2>4, <3>2, WorkspaceStores DEF StoreFails, IndInv
    <3> QED BY <1>4, <3>1, <3>2 DEF StoreFails
  <2> QED BY <1>4, <2>2, <2>3, <2>5, FailureKeeps DEF StoreFails
<1>5. CASE RecordFile(p)
  BY <1>5, RecordFileKeeps
<1>6. CASE RecordFails(p)
  <2>1. Importing(p, "stored")
    BY <1>6 DEF RecordFails
  <2>2. job[p] \in ImportJob /\ ImportSound(job[p]) /\ job[p].stage = "stored"
    BY <2>1, ImportAt
  <2>3. job[p].file <= Files
    BY <2>2 DEF ImportSound
  <2>4. Workspace' /\ Grows /\ UNCHANGED <<tables, touched>>
    BY <1>6, WorkspaceSame DEF RecordFails, IndInv, Workspace, CaseworkTypeOK, Spent
  <2> QED BY <1>6, <2>2, <2>3, <2>4, FailureKeeps DEF RecordFails
<1>7. CASE EndImport(p)
  BY <1>7, EndImportKeeps
<1> QED BY <1>1, <1>2, <1>3, <1>4, <1>5, <1>6, <1>7 DEF ImportStep

-----------------------------------------------------------------------------
(* Each step of a backup. *)

(* The tables fit the bound on the log.                                     *)
LEMMA CountsTyped ==
  ASSUME Workspace
  PROVE  /\ log \in Seq(Chain!Entry) /\ Len(log) \in 0..MaxEntries
         /\ Len(evidence) \in Count /\ Len(attachments) \in Count
         /\ DOMAIN log = 1..Len(log)
         /\ DOMAIN evidence = 1..Len(evidence) /\ DOMAIN attachments = 1..Len(attachments)
         /\ \A c \in Content : c # Absent
<1>1. /\ log \in Seq(Chain!Entry) /\ Len(log) <= MaxEntries
      /\ evidence \in Seq(Row) /\ attachments \in Seq(Row)
      /\ Len(evidence) <= Len(log) /\ Len(attachments) <= Len(log)
  BY DEF Workspace, CaseworkTypeOK, RowsHaveEntries
<1>2. MaxEntries \in Nat
  BY BoundAssumption
<1> QED BY <1>1, <1>2, SentinelAssumption DEF Count

LEMMA BackupAt ==
  ASSUME IndInv, NEW p \in Process, NEW stage, BackingUp(p, stage)
  PROVE  job[p] \in BackupJob /\ BackupSound(job[p]) /\ job[p].stage = stage
BY JobKinds DEF IndInv, JobsTyped, Sound, BackingUp

(* A backup goes on, nothing else having changed.                           *)
LEMMA BackupGoesOn ==
  ASSUME IndInv, NEW p \in Process, NEW r \in BackupJob, Proceed(p, r),
         UNCHANGED <<tables, files, spent>>, BackupSound(r)
  PROVE  IndInv'
<1>1. r \in JobType /\ Sound(r) /\ r.stage # "stored"
  BY DEF JobType, Sound, BackupJob
<1>2. spent' \in Spent
  BY DEF IndInv, Workspace, CaseworkTypeOK, Spent
<1> QED BY <1>1, <1>2, GoesOnAlone

LEMMA StartBackupKeeps ==
  ASSUME IndInv, NEW p \in Process, NEW deep \in BOOLEAN, StartBackup(p, deep)
  PROVE  IndInv'
<1> DEFINE r == [cmd |-> "backup", stage |-> "verified", deep |-> deep, source |-> log,
                 copy |-> NoCopy, files |-> NoFiles, walk |-> {},
                 manifest |-> [evidence |-> 0, attachments |-> 0],
                 result |-> "none", moved |-> FALSE]
<1>1. /\ Proceed(p, r) /\ UNCHANGED <<tables, files>>
      /\ spent.commands < MaxCommands /\ Spend("commands")
  BY DEF StartBackup, Start, Proceed
<1>2. spent' \in Spent
  BY <1>1, SpendTyped DEF IndInv, Workspace
<1>3. /\ log \in Seq(Chain!Entry) /\ 0 \in Count
      /\ Len(evidence) \in Count /\ Len(attachments) \in Count
  BY CountsTyped, BoundAssumption DEF IndInv, Count
<1>4. /\ NoCopy \in [log: Seq(Chain!Entry), evidence: Count, attachments: Count]
      /\ NoCopy.evidence = 0 /\ NoCopy.attachments = 0
  BY <1>3 DEF NoCopy
<1>5. /\ NoFiles \in [Content -> Content \cup {Damaged, Absent}]
      /\ \A c \in Content : NoFiles[c] = Absent
  BY DEF NoFiles
<1>6. r \in BackupJob
  BY <1>3, <1>4, <1>5 DEF BackupJob
<1>7. /\ r.cmd = "backup" /\ r.stage = "verified" /\ r.copy = NoCopy /\ r.files = NoFiles
      /\ r.source = log
  OBVIOUS
<1> HIDE DEF r
<1>8. BackupSound(r)
  BY <1>3, <1>4, <1>5, <1>7 DEF BackupSound, Count
<1>9. Sound(r) /\ r \in JobType /\ r.stage # "stored"
  BY <1>6, <1>7, <1>8 DEF Sound, JobType
<1> QED BY <1>1, <1>2, <1>9, GoesOnAlone

LEMMA SnapshotKeeps ==
  ASSUME IndInv, NEW p \in Process, Snapshot(p)
  PROVE  IndInv'
<1> DEFINE j == job[p]
           w == {c \in Content : vault[c] # Absent}
           r == [j EXCEPT !.stage = "copying", !.copy = DatabaseNow, !.walk = w]
<1>1. BackingUp(p, "verified") /\ Proceed(p, r) /\ UNCHANGED <<tables, files, spent>>
  BY DEF Snapshot
<1>2. j \in BackupJob /\ BackupSound(j) /\ j.stage = "verified"
  BY <1>1, BackupAt
<1>3. /\ DatabaseNow \in [log: Seq(Chain!Entry), evidence: Count, attachments: Count]
      /\ DatabaseNow.evidence = Len(evidence) /\ DatabaseNow.attachments = Len(attachments)
      /\ DatabaseNow.log = log
  BY CountsTyped DEF IndInv, DatabaseNow
<1>4. /\ r \in BackupJob /\ r.stage = "copying" /\ r.copy = DatabaseNow /\ r.walk = w
      /\ r.files = j.files /\ r.source = j.source /\ r.moved = j.moved
  BY <1>2, <1>3 DEF BackupJob
<1> HIDE DEF r
<1>5. CopiedRows(r) \subseteq touched \cup w
  <2>1. /\ DOMAIN evidence = 1..Len(evidence) /\ DOMAIN attachments = 1..Len(attachments)
        /\ \A c \in Content : c # Absent
    BY CountsTyped DEF IndInv
  <2>2. /\ \A e \in DOMAIN evidence : evidence[e].sha256 \in Content
        /\ \A a \in DOMAIN attachments : attachments[a].sha256 \in Content
    <3>1. \A row \in Row : row.sha256 \in Content
      BY DEF Row
    <3> QED BY <3>1 DEF IndInv, Workspace, CaseworkTypeOK
  <2> QED BY <1>3, <1>4, <2>1, <2>2 DEF CopiedRows, CopiedItems, IndInv, Workspace, RowsHeld, Held
<1>6. Len(evidence) <= Len(evidence) /\ Len(attachments) <= Len(attachments)
  BY CountsTyped DEF IndInv, Count
<1> HIDE DEF w
<1>7. BackupSound(r)
  BY <1>2, <1>3, <1>4, <1>5, <1>6 DEF BackupSound
<1> QED BY <1>1, <1>4, <1>7, BackupGoesOn

LEMMA CopyFileKeeps ==
  ASSUME IndInv, NEW p \in Process, NEW c \in Content, CopyFile(p, c)
  PROVE  IndInv'
<1> DEFINE j == job[p]
           r == [j EXCEPT !.files[c] = vault[c]]
<1>1. BackingUp(p, "copying") /\ Proceed(p, r) /\ UNCHANGED <<tables, files, spent>>
  BY DEF CopyFile
<1>2. j \in BackupJob /\ BackupSound(j) /\ j.stage = "copying"
  BY <1>1, BackupAt
<1>3. /\ vault \in [Content -> Content \cup {Damaged, Absent}]
      /\ \A d \in Content \ touched : vault[d] \in {d, Absent}
  BY DEF IndInv, Workspace, CaseworkTypeOK, FilesRight
<1>4. /\ r \in BackupJob /\ r.stage = "copying" /\ r.copy = j.copy /\ r.walk = j.walk
      /\ r.files = [j.files EXCEPT ![c] = vault[c]] /\ r.source = j.source /\ r.moved = j.moved
      /\ j.files \in [Content -> Content \cup {Damaged, Absent}]
  BY <1>2, <1>3 DEF BackupJob
<1> HIDE DEF r
<1>5. \A d \in Content \ touched : r.files[d] \in {d, Absent}
  BY <1>2, <1>3, <1>4 DEF BackupSound
<1>6. CopiedRows(r) = CopiedRows(j)
  BY <1>4 DEF CopiedRows, CopiedItems
<1>7. BackupSound(r)
  BY <1>2, <1>4, <1>5, <1>6 DEF BackupSound
<1> QED BY <1>1, <1>4, <1>7, BackupGoesOn

(* Every row a copied table has is a row of the table, and its file is      *)
(* there, unless somebody touched it.                                       *)
LEMMA CopiedHeld ==
  ASSUME Workspace, NEW j \in BackupJob, j.copy.evidence <= Len(evidence),
         j.copy.attachments <= Len(attachments)
  PROVE  /\ CopiedItems(j) \subseteq {evidence[e].sha256 : e \in DOMAIN evidence}
         /\ CopiedRows(j) \subseteq Content
         /\ \A c \in CopiedRows(j) : Held(c)
<1>1. j.copy.evidence \in Nat /\ j.copy.attachments \in Nat
  BY DEF BackupJob, Count
<1>2. /\ 1..j.copy.evidence \subseteq DOMAIN evidence
      /\ 1..j.copy.attachments \subseteq DOMAIN attachments
  BY <1>1, CountsTyped DEF Count
<1>3. /\ \A e \in DOMAIN evidence : evidence[e].sha256 \in Content
      /\ \A a \in DOMAIN attachments : attachments[a].sha256 \in Content
  <2>1. \A row \in Row : row.sha256 \in Content
    BY DEF Row
  <2> QED BY <2>1 DEF Workspace, CaseworkTypeOK
<1> QED BY <1>2, <1>3 DEF CopiedRows, CopiedItems, Workspace, RowsHeld

LEMMA CopyEndsKeeps ==
  ASSUME IndInv, NEW p \in Process, CopyEnds(p)
  PROVE  IndInv'
<1> DEFINE j == job[p]
           r == [j EXCEPT !.stage = "copied", !.walk = {}]
<1>1. /\ BackingUp(p, "copying") /\ Proceed(p, r) /\ UNCHANGED <<tables, files, spent>>
      /\ \A c \in j.walk : j.files[c] # Absent \/ vault[c] = Absent
  BY DEF CopyEnds
<1>2. j \in BackupJob /\ BackupSound(j) /\ j.stage = "copying"
  BY <1>1, BackupAt
<1>3. /\ r \in BackupJob /\ r.stage = "copied" /\ r.copy = j.copy /\ r.files = j.files
      /\ r.source = j.source /\ r.moved = j.moved
  BY <1>2 DEF BackupJob
<1> HIDE DEF r
<1>4. CopiedRows(r) = CopiedRows(j)
  BY <1>3 DEF CopiedRows, CopiedItems
<1>5. ASSUME NEW c \in CopiedRows(j) \ touched PROVE j.files[c] = c
  <2>1. c \in Content /\ Held(c)
    BY <1>2, CopiedHeld DEF BackupSound, IndInv
  <2>2. vault[c] = c /\ c # Absent
    BY <2>1, SentinelAssumption DEF Held
  <2>3. c \in j.walk /\ j.files[c] \in {c, Absent}
    BY <1>2, <2>1 DEF BackupSound
  <2> QED BY <1>1, <2>2, <2>3
<1>6. BackupSound(r)
  BY <1>2, <1>3, <1>4, <1>5 DEF BackupSound
<1> QED BY <1>1, <1>3, <1>6, BackupGoesOn

LEMMA CompareKeeps ==
  ASSUME IndInv, NEW p \in Process, Compare(p)
  PROVE  IndInv'
<1> DEFINE j == job[p]
           same == Faithful(j.source, j.copy.log)
           m == [evidence |-> Len(evidence), attachments |-> Len(attachments)]
           r == [j EXCEPT
              !.manifest = m,
              !.stage    = IF same /\ j.deep THEN "compared" ELSE "done",
              !.result   = IF ~same THEN "unfaithful" ELSE IF j.deep THEN "none" ELSE "verified"]
<1>1. BackingUp(p, "copied") /\ Proceed(p, r) /\ UNCHANGED <<tables, files, spent>>
  BY DEF Compare
<1>2. j \in BackupJob /\ BackupSound(j) /\ j.stage = "copied"
  BY <1>1, BackupAt
<1>3. m \in [evidence: Count, attachments: Count]
  BY CountsTyped DEF IndInv
<1>4. /\ ~j.moved => j.source = log /\ j.copy = DatabaseNow
      /\ j.deep \in BOOLEAN
  BY <1>2 DEF BackupSound, BackupJob
<1>5. ~j.moved => same /\ m = Counts(j)
  <2>1. log \in Seq(Chain!Entry)
    BY CountsTyped DEF IndInv
  <2> QED BY <1>4, <2>1, FaithfulFacts DEF DatabaseNow, Counts
<1> HIDE DEF same, m
<1>6. /\ r \in BackupJob /\ r.copy = j.copy /\ r.files = j.files /\ r.deep = j.deep
      /\ r.source = j.source /\ r.moved = j.moved /\ r.manifest = m
      /\ r.stage = IF same /\ j.deep THEN "compared" ELSE "done"
      /\ r.result = IF ~same THEN "unfaithful" ELSE IF j.deep THEN "none" ELSE "verified"
  BY <1>2, <1>3 DEF BackupJob
<1> HIDE DEF r
<1>7. CopiedRows(r) = CopiedRows(j) /\ Counts(r) = Counts(j)
  BY <1>6 DEF CopiedRows, CopiedItems, Counts
<1>8. same <=> Faithful(r.source, r.copy.log)
  BY <1>6 DEF same
<1>9. BackupSound(r)
  BY <1>2, <1>4, <1>5, <1>6, <1>7, <1>8 DEF BackupSound
<1> QED BY <1>1, <1>6, <1>9, BackupGoesOn

LEMMA DeepCheckKeeps ==
  ASSUME IndInv, NEW p \in Process, DeepCheck(p)
  PROVE  IndInv'
<1> DEFINE j == job[p]
           rows == {evidence[e].sha256 : e \in DOMAIN evidence}
           v == IF \E c \in rows : j.files[c] = Absent THEN "error"
                ELSE IF \E c \in rows : j.files[c] # c THEN "damaged" ELSE "verified"
           r == [j EXCEPT !.stage = "done", !.result = v]
<1>1. BackingUp(p, "compared") /\ Proceed(p, r) /\ UNCHANGED <<tables, files, spent>>
  BY DEF DeepCheck
<1>2. j \in BackupJob /\ BackupSound(j) /\ j.stage = "compared"
  BY <1>1, BackupAt
<1>3. /\ r \in BackupJob /\ r.stage = "done" /\ r.copy = j.copy /\ r.files = j.files
      /\ r.deep = j.deep /\ r.source = j.source /\ r.moved = j.moved
      /\ r.manifest = j.manifest /\ r.result = v
  BY <1>2 DEF BackupJob
<1> HIDE DEF r
<1>4. /\ CopiedRows(r) = CopiedRows(j) /\ CopiedItems(r) = CopiedItems(j)
      /\ Counts(r) = Counts(j)
  BY <1>3 DEF CopiedRows, CopiedItems, Counts
<1>5. CopiedItems(j) \subseteq rows /\ CopiedRows(j) \subseteq Content
  BY <1>2, CopiedHeld DEF BackupSound, IndInv
<1>6. v = "verified" => \A c \in CopiedItems(j) : j.files[c] = c
  BY <1>5
<1>7. ~j.moved /\ touched = {} => v = "verified"
  <2> SUFFICES ASSUME ~j.moved, touched = {}, NEW c \in rows
               PROVE  j.files[c] = c /\ c # Absent
    OBVIOUS
  <2>1. j.copy = DatabaseNow
    BY <1>2 DEF BackupSound
  <2>2. c \in CopiedRows(j)
    BY <2>1, CountsTyped DEF CopiedRows, CopiedItems, DatabaseNow, IndInv
  <2> QED BY <1>2, <1>5, <2>2, SentinelAssumption DEF BackupSound
<1> HIDE DEF v
<1>8. BackupSound(r)
  BY <1>2, <1>3, <1>4, <1>6, <1>7 DEF BackupSound
<1> QED BY <1>1, <1>3, <1>8, BackupGoesOn

LEMMA BackupStepKeeps ==
  ASSUME IndInv, NEW p \in Process, BackupStep(p)
  PROVE  IndInv'
BY SnapshotKeeps, CopyFileKeeps, CopyEndsKeeps, CompareKeeps, DeepCheckKeeps DEF BackupStep

-----------------------------------------------------------------------------
(* Each step of a report. *)

(* The type of a report's record, with names for parts of it.               *)
Holdings == UNION {[S -> 1..MaxEntries] : S \in SUBSET (1..MaxEntries)}

Pinned == [ok: BOOLEAN, n: 0..MaxEntries]

ReportRecord == [cmd: {"report"}, stage: {"reading", "read", "written", "done"}, case: Case,
                 next: 1..4, items: SUBSET (1..MaxEntries), attached: SUBSET (1..MaxEntries),
                 entries: SUBSET (1..MaxEntries), head: Pinned,
                 holders: Holdings, moved: BOOLEAN]

LEMMA ReportShape == ReportJob = ReportRecord
BY DEF ReportJob, ReportRecord, Holdings, Pinned

LEMMA ReportAt ==
  ASSUME IndInv, NEW p \in Process, NEW stage, Reporting(p, stage)
  PROVE  job[p] \in ReportJob /\ ReportSound(job[p]) /\ job[p].stage = stage
BY JobKinds DEF IndInv, JobsTyped, Sound, Reporting

(* A report goes on, nothing else having changed.                           *)
LEMMA ReportGoesOn ==
  ASSUME IndInv, NEW p \in Process, NEW r \in ReportJob, Proceed(p, r),
         UNCHANGED <<tables, files, spent>>, ReportSound(r)
  PROVE  IndInv'
<1>1. r \in JobType /\ Sound(r) /\ r.stage # "stored"
  BY DEF JobType, Sound, ReportJob
<1>2. spent' \in Spent
  BY DEF IndInv, Workspace, CaseworkTypeOK, Spent
<1> QED BY <1>1, <1>2, GoesOnAlone

LEMMA StartReportKeeps ==
  ASSUME IndInv, NEW p \in Process, NEW k \in Case, StartReport(p, k)
  PROVE  IndInv'
<1> DEFINE h == [ok |-> TRUE, n |-> 0]
           r == [cmd |-> "report", stage |-> "reading", case |-> k, next |-> 1,
                 items |-> {}, attached |-> {}, entries |-> {}, head |-> h,
                 holders |-> << >>, moved |-> FALSE]
<1>1. /\ Proceed(p, r) /\ UNCHANGED <<tables, files>>
      /\ spent.commands < MaxCommands /\ Spend("commands")
  BY DEF StartReport, Start, Proceed
<1>2. spent' \in Spent
  BY <1>1, SpendTyped DEF IndInv, Workspace
<1>3. << >> \in Holdings
  <2>1. << >> \in [{} -> 1..MaxEntries]
    OBVIOUS
  <2>2. {} \in SUBSET (1..MaxEntries)
    OBVIOUS
  <2> QED BY <2>1, <2>2 DEF Holdings
<1>4. h \in Pinned
  BY BoundAssumption DEF Pinned
<1> HIDE DEF h
<1>5. r \in ReportJob
  BY <1>3, <1>4, ReportShape DEF ReportRecord
<1>6. /\ r.cmd = "report" /\ r.stage = "reading" /\ r.case = k /\ r.next = 1
      /\ r.items = {} /\ r.attached = {} /\ r.entries = {}
  OBVIOUS
<1> HIDE DEF r
<1>7. ReportSound(r)
  BY <1>6 DEF ReportSound, HasRead
<1>8. Sound(r) /\ r \in JobType /\ r.stage # "stored"
  BY <1>5, <1>6, <1>7 DEF Sound, JobType
<1> QED BY <1>1, <1>2, <1>8, GoesOnAlone

(* Every row has its entry in its case.                                     *)
LEMMA ItemsExplained ==
  ASSUME Workspace, NEW k
  PROVE  /\ \A e \in InCase(evidence, k) : \E n \in OfCase(k) : Does(n, "evidence_ingested", e)
         /\ \A a \in InCase(attachments, k) : \E n \in OfCase(k) : Does(n, "attachment_uploaded", a)
         /\ \A n \in OfCase(k) :
               /\ log[n].body.action = "evidence_ingested" => log[n].body.item \in InCase(evidence, k)
               /\ log[n].body.action = "attachment_uploaded" =>
                     log[n].body.item \in InCase(attachments, k)
<1>1. ASSUME NEW e \in InCase(evidence, k)
      PROVE  \E n \in OfCase(k) : Does(n, "evidence_ingested", e)
  <2>1. PICK n \in DOMAIN log : Does(n, "evidence_ingested", e)
    BY DEF Workspace, RowsHaveEntries, InCase
  <2>2. log[n].body.case = evidence[e].case
    BY <2>1 DEF Workspace, EntriesHaveRows, Does
  <2> QED BY <2>1, <2>2 DEF InCase, OfCase
<1>2. ASSUME NEW a \in InCase(attachments, k)
      PROVE  \E n \in OfCase(k) : Does(n, "attachment_uploaded", a)
  <2>1. PICK n \in DOMAIN log : Does(n, "attachment_uploaded", a)
    BY DEF Workspace, RowsHaveEntries, InCase
  <2>2. log[n].body.case = attachments[a].case
    BY <2>1 DEF Workspace, EntriesHaveRows, Does
  <2> QED BY <2>1, <2>2 DEF InCase, OfCase
<1>3. ASSUME NEW n \in OfCase(k)
      PROVE  /\ log[n].body.action = "evidence_ingested" => log[n].body.item \in InCase(evidence, k)
             /\ log[n].body.action = "attachment_uploaded" =>
                   log[n].body.item \in InCase(attachments, k)
  BY DEF Workspace, EntriesHaveRows, InCase, OfCase
<1> QED BY <1>1, <1>2, <1>3

(* The record after a read: its result, what comes next, and the stage.     *)
AfterRead(j, what, result, n, stage) ==
    [j EXCEPT ![what] = result, !.next = n, !.stage = stage]

LEMMA ItemsRead ==
  ASSUME NEW j \in ReportJob, NEW S \in SUBSET (1..MaxEntries), NEW n \in 1..4,
         NEW stage \in {"reading", "read"}
  PROVE  LET r == AfterRead(j, "items", S, n, stage)
         IN  /\ r \in ReportJob /\ r.stage = stage /\ r.case = j.case /\ r.next = n
             /\ r.items = S /\ r.attached = j.attached /\ r.entries = j.entries /\ r.head = j.head
             /\ r.moved = j.moved
BY ReportShape DEF ReportRecord, AfterRead

LEMMA AttachedRead ==
  ASSUME NEW j \in ReportJob, NEW S \in SUBSET (1..MaxEntries), NEW n \in 1..4,
         NEW stage \in {"reading", "read"}
  PROVE  LET r == AfterRead(j, "attached", S, n, stage)
         IN  /\ r \in ReportJob /\ r.stage = stage /\ r.case = j.case /\ r.next = n
             /\ r.items = j.items /\ r.attached = S /\ r.entries = j.entries /\ r.head = j.head
             /\ r.moved = j.moved
BY ReportShape DEF ReportRecord, AfterRead

LEMMA EntriesRead ==
  ASSUME NEW j \in ReportJob, NEW S \in SUBSET (1..MaxEntries), NEW n \in 1..4,
         NEW stage \in {"reading", "read"}
  PROVE  LET r == AfterRead(j, "entries", S, n, stage)
         IN  /\ r \in ReportJob /\ r.stage = stage /\ r.case = j.case /\ r.next = n
             /\ r.items = j.items /\ r.attached = j.attached /\ r.entries = S /\ r.head = j.head
             /\ r.moved = j.moved
BY ReportShape DEF ReportRecord, AfterRead

LEMMA HeadRead ==
  ASSUME NEW j \in ReportJob, NEW S \in Pinned, NEW n \in 1..4,
         NEW stage \in {"reading", "read"}
  PROVE  LET r == AfterRead(j, "head", S, n, stage)
         IN  /\ r \in ReportJob /\ r.stage = stage /\ r.case = j.case /\ r.next = n
             /\ r.items = j.items /\ r.attached = j.attached /\ r.entries = j.entries /\ r.head = S
             /\ r.moved = j.moved
BY ReportShape DEF ReportRecord, AfterRead

LEMMA ReadNextKeeps ==
  ASSUME IndInv, NEW p \in Process, ReadNext(p)
  PROVE  IndInv'
<1> DEFINE j == job[p]
           k == j.case
           h == Read("head", k)
<1>1. /\ Reporting(p, "reading") /\ UNCHANGED <<tables, files, spent>>
      /\ Proceed(p, AfterRead(j, Reads[j.next], Read(Reads[j.next], k),
                              IF j.next = Len(Reads) THEN j.next ELSE j.next + 1,
                              IF j.next = Len(Reads) THEN "read" ELSE "reading"))
  BY DEF ReadNext, AfterRead
<1>2. /\ j \in ReportJob /\ ReportSound(j) /\ j.stage = "reading" /\ j.next \in 1..4
  BY <1>1, ReportAt DEF ReportJob
<1>3. /\ Len(Reads) = 4 /\ Reads[1] = "items" /\ Reads[2] = "attached"
      /\ Reads[3] = "entries" /\ Reads[4] = "head"
  BY DEF Reads
<1>4. /\ InCase(evidence, k) \subseteq 1..MaxEntries
      /\ InCase(attachments, k) \subseteq 1..MaxEntries
      /\ OfCase(k) \subseteq 1..Len(log) /\ Len(log) \in 0..MaxEntries
      /\ OfCase(k) \subseteq 1..MaxEntries
  <2>1. MaxEntries \in Nat
    BY BoundAssumption
  <2> QED BY <2>1, CountsTyped DEF IndInv, InCase, OfCase, Count
<1>5. h \in Pinned /\ h.n = Len(log)
  <2>1. log \in Seq(Chain!Entry)
    BY CountsTyped DEF IndInv
  <2>2. Chain!Verify(log).ok \in BOOLEAN /\ Chain!Verify(log).entries_checked = Len(log)
    BY <2>1, VerifyTyped
  <2> QED BY <1>4, <2>2 DEF Read, Pinned
<1>6. /\ Read("items", k) = InCase(evidence, k)
      /\ Read("attached", k) = InCase(attachments, k)
      /\ Read("entries", k) = OfCase(k)
  BY DEF Read, OfCase
<1>7. CASE j.next = 1
  <2> DEFINE r == AfterRead(j, "items", InCase(evidence, k), 2, "reading")
  <2>1. Proceed(p, r)
    BY <1>1, <1>3, <1>6, <1>7
  <2>2. /\ r \in ReportJob /\ r.stage = "reading" /\ r.case = k /\ r.next = 2
        /\ r.items = InCase(evidence, k) /\ r.attached = j.attached /\ r.entries = j.entries
        /\ r.moved = j.moved
    BY <1>2, <1>4, ItemsRead
  <2> HIDE DEF r
  <2>3. ReportSound(r)
    BY <1>2, <1>7, <2>2 DEF ReportSound, HasRead
  <2> QED BY <1>1, <2>1, <2>2, <2>3, ReportGoesOn
<1>8. CASE j.next = 2
  <2> DEFINE r == AfterRead(j, "attached", InCase(attachments, k), 3, "reading")
  <2>1. Proceed(p, r)
    BY <1>1, <1>3, <1>6, <1>8
  <2>2. /\ r \in ReportJob /\ r.stage = "reading" /\ r.case = k /\ r.next = 3
        /\ r.items = j.items /\ r.attached = InCase(attachments, k) /\ r.entries = j.entries
        /\ r.moved = j.moved
    BY <1>2, <1>4, AttachedRead
  <2> HIDE DEF r
  <2>3. ReportSound(r)
    BY <1>2, <1>8, <2>2 DEF ReportSound, HasRead
  <2> QED BY <1>1, <2>1, <2>2, <2>3, ReportGoesOn
<1>9. CASE j.next = 3
  <2> DEFINE r == AfterRead(j, "entries", OfCase(k), 4, "reading")
  <2>1. Proceed(p, r)
    BY <1>1, <1>3, <1>6, <1>9
  <2>2. /\ r \in ReportJob /\ r.stage = "reading" /\ r.case = k /\ r.next = 4
        /\ r.items = j.items /\ r.attached = j.attached /\ r.entries = OfCase(k)
        /\ r.moved = j.moved
    BY <1>2, <1>4, EntriesRead
  <2> HIDE DEF r
  <2>3. Explained(r)
    BY <1>2, <2>2, ItemsExplained DEF ReportSound, Explained, IndInv
  <2>4. FirstEntries(r)
    BY <2>2 DEF FirstEntries
  <2>5. ReportSound(r)
    BY <1>2, <1>9, <2>2, <2>3, <2>4 DEF ReportSound, HasRead
  <2> QED BY <1>1, <2>1, <2>2, <2>5, ReportGoesOn
<1>10. CASE j.next = 4
  <2> DEFINE r == AfterRead(j, "head", h, 4, "read")
  <2>1. Proceed(p, r)
    BY <1>1, <1>2, <1>3, <1>6, <1>10
  <2> HIDE DEF h
  <2>2. /\ r \in ReportJob /\ r.stage = "read" /\ r.case = k /\ r.head = h
        /\ r.items = j.items /\ r.attached = j.attached /\ r.entries = j.entries
        /\ r.moved = j.moved
    <3>1. h \in Pinned /\ "read" \in {"reading", "read"} /\ 4 \in 1..4 /\ j \in ReportJob
      BY <1>2, <1>5
    <3> HIDE DEF j
    <3> QED BY <3>1, HeadRead
  <2> HIDE DEF r, h
  <2>3. Explained(r) /\ FirstEntries(r)
    BY <1>2, <1>10, <2>2 DEF ReportSound, HasRead, Explained, FirstEntries
  <2>4. r.entries \subseteq 1..r.head.n
    BY <1>2, <1>4, <1>5, <2>2 DEF ReportSound
  <2>5. ReportSound(r)
    BY <1>2, <1>5, <1>10, <2>2, <2>3, <2>4 DEF ReportSound, HasRead
  <2> QED BY <1>1, <2>1, <2>2, <2>5, ReportGoesOn
<1> QED BY <1>2, <1>7, <1>8, <1>9, <1>10

LEMMA WrittenTyped ==
  ASSUME NEW j \in ReportJob, NEW H \in Holdings
  PROVE  LET r == [j EXCEPT !.stage = "written", !.holders = H]
         IN  /\ r \in ReportJob /\ r.stage = "written" /\ r.case = j.case
             /\ r.items = j.items /\ r.attached = j.attached /\ r.entries = j.entries
             /\ r.head = j.head /\ r.moved = j.moved /\ r.holders = H
BY ReportShape DEF ReportRecord

(* An item of a case has a holder: the newest of its entries that say so,   *)
(* all of which are of its case.                                            *)
LEMMA HolderFound ==
  ASSUME Workspace, NEW k, NEW e \in InCase(evidence, k)
  PROVE  /\ HolderEntry(e) \in 1..MaxEntries
         /\ LET S == EntriesOf(e, {"evidence_ingested", "custody_accepted"})
            IN  HolderEntry(e) \in S /\ \A m \in S : m <= HolderEntry(e)
         /\ EntriesOf(e, {"evidence_ingested", "custody_accepted"})
              = {n \in OfCase(k) :
                    /\ log[n].body.item = e
                    /\ log[n].body.action \in {"evidence_ingested", "custody_accepted"}}
<1> DEFINE S == EntriesOf(e, {"evidence_ingested", "custody_accepted"})
<1>1. DOMAIN log = 1..Len(log) /\ Len(log) \in Nat /\ Len(log) <= MaxEntries /\ MaxEntries \in Nat
  BY CountsTyped, BoundAssumption
<1>2. S \in SUBSET (1..Len(log))
  BY <1>1 DEF EntriesOf
<1>3. S # {}
  BY ItemsExplained DEF EntriesOf, OfCase, Does
<1>4. S = {n \in OfCase(k) :
              /\ log[n].body.item = e
              /\ log[n].body.action \in {"evidence_ingested", "custody_accepted"}}
  BY DEF EntriesOf, OfCase, InCase, Workspace, EntriesHaveRows
<1>5. HolderEntry(e) = Newest(S)
  BY DEF HolderEntry
<1> HIDE DEF S
<1>6. \E n \in S : \A m \in S : m <= n
  BY <1>1, <1>2, <1>3, GreatestExists
<1>7. Newest(S) \in S /\ \A m \in S : m <= Newest(S)
  BY <1>6 DEF Newest
<1>8. HolderEntry(e) \in 1..MaxEntries
  <2> DEFINE x == Newest(S)
  <2>1. x \in 1..Len(log)
    BY <1>2, <1>7
  <2>2. HolderEntry(e) = x
    BY <1>5
  <2> HIDE DEF x
  <2> QED BY <1>1, <2>1, <2>2
<1>9. HolderEntry(e) \in S /\ \A m \in S : m <= HolderEntry(e)
  BY <1>5, <1>7
<1> QED BY <1>4, <1>8, <1>9 DEF S

(* The newest of all entries that name a holder is the newest of those read *)
(* or was not read, and then it is later than everything that was.          *)
LEMMA NewestFits ==
  ASSUME Workspace, NEW r, NEW e \in InCase(evidence, r.case),
         r.entries \subseteq OfCase(r.case), FirstEntries(r)
  PROVE  HolderEntry(e) = Newest(CustodyShown(r, e)) \/ \A m \in r.entries : m < HolderEntry(e)
<1> DEFINE S == EntriesOf(e, {"evidence_ingested", "custody_accepted"})
           T == CustodyShown(r, e)
           x == HolderEntry(e)
<1>1. /\ x \in S /\ \A m \in S : m <= x
      /\ S = {n \in OfCase(r.case) :
                 /\ log[n].body.item = e
                 /\ log[n].body.action \in {"evidence_ingested", "custody_accepted"}}
  BY HolderFound
<1>2. T \subseteq S /\ S \subseteq Nat /\ (x \in r.entries => x \in T)
  <2>1. DOMAIN log = 1..Len(log) /\ Len(log) \in Nat
    BY CountsTyped
  <2> QED BY <1>1, <2>1 DEF CustodyShown, OfCase
<1>3. x \in OfCase(r.case)
  BY <1>1
<1> HIDE DEF S, T, x
<1>4. CASE x \in r.entries
  <2>1. \A n \in T : (\A m \in T : m <= n) => n = x
    BY <1>1, <1>2, <1>4
  <2>2. Newest(T) = x
    BY <1>1, <1>2, <1>4, <2>1 DEF Newest
  <2> QED BY <2>2 DEF T, x
<1>5. CASE x \notin r.entries
  BY <1>3, <1>5 DEF FirstEntries, x
<1> QED BY <1>4, <1>5

LEMMA WriteOutKeeps ==
  ASSUME IndInv, NEW p \in Process, WriteOut(p)
  PROVE  IndInv'
<1> DEFINE j == job[p]
           H == [e \in j.items |-> HolderEntry(e)]
           r == [j EXCEPT !.stage = "written", !.holders = H]
<1>1. Reporting(p, "read") /\ Proceed(p, r) /\ UNCHANGED <<tables, files, spent>>
  BY DEF WriteOut
<1>2. j \in ReportJob /\ ReportSound(j) /\ j.stage = "read"
  BY <1>1, ReportAt
<1>3. /\ j.items \subseteq InCase(evidence, j.case) /\ Explained(j) /\ FirstEntries(j)
      /\ j.entries \subseteq OfCase(j.case) /\ j.entries \subseteq 1..j.head.n
      /\ j.attached \subseteq InCase(attachments, j.case)
      /\ ~j.moved => /\ j.items = InCase(evidence, j.case)
                     /\ j.attached = InCase(attachments, j.case)
                     /\ j.entries = OfCase(j.case) /\ j.head.n = Len(log)
  BY <1>2 DEF ReportSound, HasRead
<1>4. H \in Holdings
  <2>1. j.items \in SUBSET (1..MaxEntries)
    BY <1>2, ReportShape DEF ReportRecord
  <2>2. \A e \in j.items : HolderEntry(e) \in 1..MaxEntries
    BY <1>3, HolderFound DEF IndInv
  <2>3. H \in [j.items -> 1..MaxEntries]
    BY <2>2
  <2> QED BY <2>1, <2>3 DEF Holdings
<1>5. /\ r \in ReportJob /\ r.stage = "written" /\ r.case = j.case
      /\ r.items = j.items /\ r.attached = j.attached /\ r.entries = j.entries
      /\ r.head = j.head /\ r.moved = j.moved /\ r.holders = H
  <2> HIDE DEF H, j
  <2>1. j \in ReportJob
    BY <1>2
  <2> QED BY <1>4, <2>1, WrittenTyped
<1> HIDE DEF r
<1>6. ASSUME ~j.moved PROVE Snapshotted(r)
  <2>1. /\ \A e \in j.items : \E n \in j.entries : Does(n, "evidence_ingested", e)
        /\ \A n \in j.entries : log[n].body.action = "evidence_ingested" => log[n].body.item \in j.items
    BY <1>3, <1>6, ItemsExplained DEF IndInv, Explained
  <2>2. r.items = PrintedBy(r, "evidence_ingested")
    BY <1>5, <2>1 DEF PrintedBy, Does
  <2>3. /\ \A a \in j.attached : \E n \in j.entries : Does(n, "attachment_uploaded", a)
        /\ \A n \in j.entries : log[n].body.action = "attachment_uploaded" => log[n].body.item \in j.attached
    BY <1>3, <1>6, ItemsExplained DEF IndInv, Explained
  <2>4. r.attached = PrintedBy(r, "attachment_uploaded")
    BY <1>5, <2>3 DEF PrintedBy, Does
  <2>5. ASSUME NEW e \in r.items
        PROVE  r.holders[e] =
                 Newest({n \in r.entries :
                    /\ log[n].body.item = e
                    /\ log[n].body.action \in {"evidence_ingested", "custody_accepted"}})
    <3> DEFINE S == {n \in r.entries :
                    /\ log[n].body.item = e
                    /\ log[n].body.action \in {"evidence_ingested", "custody_accepted"}}
    <3>1. r.holders[e] = HolderEntry(e) /\ e \in InCase(evidence, j.case)
      BY <1>3, <1>5, <2>5
    <3>2. EntriesOf(e, {"evidence_ingested", "custody_accepted"}) = S
      BY <1>3, <1>5, <1>6, <3>1, HolderFound DEF IndInv
    <3> HIDE DEF S
    <3>3. r.holders[e] = Newest(S)
      BY <3>1, <3>2 DEF HolderEntry
    <3> QED BY <3>3 DEF S
  <2> QED BY <2>2, <2>4, <2>5 DEF Snapshotted
<1>7. Explained(r) /\ FirstEntries(r)
  BY <1>3, <1>5 DEF Explained, FirstEntries
<1>8. ASSUME NEW e \in r.items PROVE HolderFits(r, e)
  <2>1. r.holders[e] = HolderEntry(e) /\ e \in InCase(evidence, j.case)
    BY <1>3, <1>5, <1>8
  <2>2. Workspace /\ r.entries \subseteq OfCase(j.case) /\ FirstEntries(r) /\ r.case = j.case
    BY <1>3, <1>5, <1>7 DEF IndInv
  <2> DEFINE k == j.case
  <2> HIDE DEF j, k
  <2>3. HolderEntry(e) = Newest(CustodyShown(r, e)) \/ \A m \in r.entries : m < HolderEntry(e)
    BY <2>1, <2>2, NewestFits
  <2> QED BY <2>1, <2>3 DEF HolderFits
<1>9. ReportSound(r)
  BY <1>3, <1>5, <1>6, <1>7, <1>8 DEF ReportSound, HasRead, HoldersFit
<1> QED BY <1>1, <1>5, <1>9, ReportGoesOn

(* What was printed stays what it was, as the log grows.                    *)
LEMMA SnapshotStays ==
  ASSUME LogGrows, NEW r \in ReportJob, r.entries \subseteq DOMAIN log, Snapshotted(r),
         NEW p \in Process, job'[p].items = r.items, job'[p].attached = r.attached,
         job'[p].entries = r.entries, job'[p].holders = r.holders
  PROVE  Snapshotted(job[p])'
<1> DEFINE m == job'[p]
<1>1. \A a : PrintedBy(job[p], a)' = PrintedBy(r, a)
  BY DEF LogGrows, PrintedBy
<1>2. ASSUME NEW e \in m.items
      PROVE  m.holders[e] =
               Newest({n \in m.entries :
                    /\ log'[n].body.item = e
                    /\ log'[n].body.action \in {"evidence_ingested", "custody_accepted"}})
  <2> DEFINE Old == {n \in r.entries :
                    /\ log[n].body.item = e
                    /\ log[n].body.action \in {"evidence_ingested", "custody_accepted"}}
  <2>1. r.holders[e] = Newest(Old)
    BY <1>2 DEF Snapshotted
  <2>2. {n \in m.entries :
                    /\ log'[n].body.item = e
                    /\ log'[n].body.action \in {"evidence_ingested", "custody_accepted"}} = Old
    BY DEF LogGrows
  <2> HIDE DEF Old
  <2> QED BY <2>1, <2>2
<1>3. m.items = PrintedBy(job[p], "evidence_ingested")' /\ m.attached = PrintedBy(job[p], "attachment_uploaded")'
  BY <1>1 DEF Snapshotted
<1> QED BY <1>2, <1>3 DEF Snapshotted, Newest

(* An entry is written or edited: reports and backups notice.               *)
LEMMA EntryKept ==
  ASSUME IndInv, NEW S \in SUBSET Process, NEW jobs \in [Process -> JobType],
         \A q \in S : jobs[q] = job[q],
         job' = Disturbed(jobs, [kind |-> "entry"], S),
         \A h : RecordedIn(h)' = RecordedIn(h)
  PROVE  /\ JobsTyped' /\ \A q \in Process \ S : job'[q] = jobs[q]
         /\ \A q \in S : Kept(q)
<1> DEFINE change == [kind |-> "entry"]
<1>1. JobsTyped /\ change.kind # "file" /\ job' = Disturbed(jobs, change, S)
  BY DEF IndInv
<1>2. ASSUME NEW q \in S, job[q].cmd = "import"
      PROVE  RecordedIn(job[q].case)' = RecordedIn(job[q].case)
  <2>1. job[q] \in ImportJob
    BY <1>1, <1>2, JobKinds DEF JobsTyped
  <2>2. job'[q] = job[q] \/ job'[q] = [job[q] EXCEPT !.moved = TRUE]
    BY <1>1 DEF Disturbed
  <2>3. job'[q].case = job[q].case
    BY <2>1, <2>2, ImportMarked
  <2>4. RecordedIn(job[q].case)' = RecordedAfter(job[q].case)
    BY <2>3 DEF RecordedIn, RecordedAfter, InCase
  <2>5. \A h : RecordedAfter(h) = RecordedIn(h)
    BY DEF RecordedIn, RecordedAfter, InCase
  <2> QED BY <2>4, <2>5
<1> HIDE DEF change
<1> QED BY <1>1, <1>2, KeptByMark

LEMMA DoneTyped ==
  ASSUME NEW j \in ReportJob
  PROVE  LET r == [j EXCEPT !.stage = "done"]
         IN  /\ r \in ReportJob /\ r.cmd = "report" /\ r.stage = "done" /\ r.case = j.case
             /\ r.items = j.items /\ r.attached = j.attached /\ r.entries = j.entries
             /\ r.head = j.head /\ r.moved = j.moved /\ r.holders = j.holders
BY ReportShape DEF ReportRecord

LEMMA LogReportKeeps ==
  ASSUME IndInv, NEW p \in Process, LogReport(p)
  PROVE  IndInv'
<1> DEFINE j == job[p]
           m == job'[p]
           r == [j EXCEPT !.stage = "done"]
           S == Process \ {p}
           jobs == [job EXCEPT ![p] = r]
<1>1. /\ Reporting(p, "written") /\ AppendEntry("report_generated", j.case, 0)
      /\ job' = Disturbed(jobs, [kind |-> "entry"], S)
      /\ UNCHANGED <<evidence, attachments, files, spent>>
  BY DEF LogReport, ProceedChanging
<1>2. j \in ReportJob /\ ReportSound(j) /\ j.stage = "written"
  BY <1>1, ReportAt
<1>3. /\ r \in ReportJob /\ r.cmd = "report" /\ r.stage = "done" /\ r.case = j.case
      /\ r.items = j.items /\ r.attached = j.attached /\ r.entries = j.entries
      /\ r.head = j.head /\ r.moved = j.moved /\ r.holders = j.holders
  BY <1>2, DoneTyped
<1> HIDE DEF r
<1>4. j.case \in Case
  BY <1>2 DEF ReportJob
<1>5. /\ Workspace' /\ Grows
      /\ \A h : RecordedIn(h)' = RecordedIn(h)
      /\ Len(log) \in Nat /\ DOMAIN log' = 1..(Len(log) + 1)
      /\ log'[Len(log) + 1].body.action = "report_generated"
  <2> DEFINE k == j.case
  <2>1. k \in Case \cup {NoCase} /\ 0 \in Nat /\ AppendEntry("report_generated", k, 0)
    BY <1>1, <1>4
  <2> HIDE DEF k
  <2>2. /\ Workspace' /\ Grows
        /\ \A h : RecordedIn(h)' = RecordedIn(h)
    BY <1>1, <2>1, WorkspaceLogs DEF IndInv
  <2>3. /\ Len(log) \in Nat /\ DOMAIN log' = 1..(Len(log) + 1)
        /\ log'[Len(log) + 1].body.action = "report_generated"
    BY <2>1, EntryAppended DEF IndInv, Workspace
  <2> QED BY <2>2, <2>3
<1>6. /\ jobs \in [Process -> JobType] /\ S \in SUBSET Process /\ jobs[p] = r /\ p \in Process \ S
      /\ \A q \in S : jobs[q] = job[q]
  BY <1>3 DEF IndInv, JobsTyped, JobType
<1> HIDE DEF jobs, S
<1>7. /\ JobsTyped' /\ \A q \in Process \ S : job'[q] = jobs[q]
      /\ \A q \in S : Kept(q)
  BY <1>1, <1>5, <1>6, EntryKept
<1>8. m = r
  BY <1>6, <1>7
<1>9. /\ j.items \subseteq InCase(evidence, j.case)
      /\ Explained(j) /\ FirstEntries(j) /\ HoldersFit(j)
      /\ j.entries \subseteq OfCase(j.case) /\ j.entries \subseteq 1..j.head.n
      /\ j.attached \subseteq InCase(attachments, j.case)
      /\ ~j.moved => Snapshotted(j) /\ j.head.n = Len(log)
  BY <1>2 DEF ReportSound, HasRead
<1>10. LogGrows /\ RowsGrow /\ j.entries \subseteq DOMAIN log
  BY <1>5, <1>9 DEF Grows, OfCase
<1>11. ~j.moved => Snapshotted(j)'
  <2> HIDE DEF j
  <2>1. ASSUME ~j.moved PROVE Snapshotted(job[p])'
    BY <1>2, <1>3, <1>8, <1>9, <1>10, <2>1, SnapshotStays
  <2> QED BY <2>1 DEF j
<1>12. ReportSound(job[p])'
  <2>1. Explained(job[p])'
    BY <1>3, <1>8, <1>9, <1>10 DEF LogGrows, Explained, Does
  <2>2. /\ m.items \subseteq InCase(evidence, job[p].case)'
        /\ m.attached \subseteq InCase(attachments, job[p].case)'
        /\ m.entries \subseteq OfCase(job[p].case)'
    BY <1>3, <1>8, <1>9, <1>10 DEF LogGrows, RowsGrow, InCase, OfCase
  <2>3. FirstEntries(job[p])' /\ HoldersFit(job[p])'
    <3> HIDE DEF j
    <3>1. CaseworkTypeOK /\ CaseworkTypeOK'
      BY <1>5 DEF IndInv, Workspace
    <3> QED BY <1>3, <1>8, <1>9, <1>10, <3>1, EntriesStay
  <2>4. m.stage = "done" /\ m.entries \subseteq 1..m.head.n
    BY <1>3, <1>8, <1>9
  <2>5. ~m.moved => /\ Snapshotted(job[p])' /\ m.head.n + 1 \in DOMAIN log'
                    /\ log'[m.head.n + 1].body.action = "report_generated"
    <3>1. ASSUME ~m.moved PROVE m.head.n = Len(log) /\ Snapshotted(job[p])'
      BY <1>3, <1>8, <1>9, <1>11, <3>1
    <3>2. Len(log) + 1 \in DOMAIN log'
      BY <1>5
    <3> QED BY <1>5, <3>1, <3>2
  <2> HIDE DEF j
  <2> QED BY <2>1, <2>2, <2>3, <2>4, <2>5 DEF ReportSound
<1>13. Sound(job[p])' /\ StoreHeld(p)'
  BY <1>3, <1>8, <1>12 DEF Sound, StoreHeld
<1>14. \A q \in Process \ S : Sound(job[q])' /\ StoreHeld(q)'
  BY <1>13 DEF S
<1> QED BY <1>5, <1>6, <1>7, <1>14, Together

LEMMA ReportStepKeeps ==
  ASSUME IndInv, NEW p \in Process, ReportStep(p)
  PROVE  IndInv'
BY ReadNextKeeps, WriteOutKeeps, LogReportKeeps DEF ReportStep

-----------------------------------------------------------------------------
(* Each step of everybody else. *)

LEMMA IdleSound == Idle \in JobType /\ Sound(Idle) /\ Idle.stage # "stored"
BY DEF Idle, JobType, Sound

LEMMA UploadStoreKeeps ==
  ASSUME IndInv, NEW p \in Process, NEW k \in Case, NEW mode \in {"evidence", "attachment"},
         NEW c \in Content, UploadStore(p, k, mode, c)
  PROVE  IndInv'
<1> DEFINE r == [cmd |-> "upload", stage |-> "stored", case |-> k, mode |-> mode, stored |-> c]
<1>1. /\ Proceed(p, r) /\ Store(c) /\ UNCHANGED <<tables, folder, touched>>
      /\ spent.commands < MaxCommands /\ Spend("commands")
  BY DEF UploadStore, Start, Proceed
<1>2. spent' \in Spent
  BY <1>1, SpendTyped DEF IndInv, Workspace
<1>3. /\ Workspace' /\ Grows /\ UNCHANGED <<tables, touched>>
      /\ c \in touched' \/ vault'[c] = c
  BY <1>1, <1>2, WorkspaceStores DEF IndInv
<1>4. r \in JobType /\ Sound(r) /\ r.stored = c
  BY DEF Upload, JobType, Sound
<1> HIDE DEF r
<1> QED BY <1>1, <1>3, <1>4, GoesOn

LEMMA UploadRecordKeeps ==
  ASSUME IndInv, NEW p \in Process, UploadRecord(p)
  PROVE  IndInv'
<1> DEFINE j == job[p]
           k == j.case
           mode == j.mode
           c == j.stored
           S == Process \ {p}
<1>1. /\ j.cmd = "upload" /\ j.stage = "stored" /\ Record(k, mode, c)
      /\ ProceedChanging(p, Idle, [kind |-> "row", case |-> k])
      /\ UNCHANGED <<files, spent>>
  BY DEF UploadRecord
<1>2. j \in Upload
  BY <1>1, JobKinds DEF IndInv, JobsTyped
<1>3. k \in Case /\ c \in Content /\ Held(c)
  BY <1>1, <1>2 DEF Upload, IndInv, StoresHeld
<1>4. Idle \in JobType /\ Sound(Idle) /\ Idle.stage # "stored"
  BY IdleSound
<1> HIDE DEF j, k, mode, c
<1>5. /\ Workspace' /\ Grows /\ JobsTyped' /\ job'[p] = Idle
      /\ \A q \in Process \ {p} : Kept(q)
  BY <1>1, <1>3, <1>4, RecordingKept
<1>6. Sound(job[p])' /\ StoreHeld(p)'
  BY <1>5 DEF Sound, StoreHeld, Idle
<1>7. S \in SUBSET Process /\ (\A q \in S : Kept(q))
      /\ \A q \in Process \ S : Sound(job[q])' /\ StoreHeld(q)'
  BY <1>5, <1>6
<1> HIDE DEF S
<1> QED BY <1>5, <1>7, Together

LEMMA DiesKeeps ==
  ASSUME IndInv, NEW p \in Process, Dies(p)
  PROVE  IndInv'
<1>1. Proceed(p, Idle) /\ UNCHANGED <<tables, files>> /\ spent' \in Spent
  BY SpendTyped DEF Dies, IndInv, Workspace
<1> QED BY <1>1, IdleSound, GoesOnAlone

(* An entry or an edit: every process may be marked.                        *)
LEMMA EntryKeepsAll ==
  ASSUME IndInv, Workspace', Grows, job' = Disturbed(job, [kind |-> "entry"], Process),
         \A h : RecordedIn(h)' = RecordedIn(h)
  PROVE  IndInv'
<1> DEFINE S == Process
<1>1. job \in [Process -> JobType] /\ S \in SUBSET Process
  BY DEF IndInv, JobsTyped
<1>2. JobsTyped' /\ \A q \in S : Kept(q)
  BY <1>1, EntryKept
<1>3. \A q \in Process \ S : Sound(job[q])' /\ StoreHeld(q)'
  OBVIOUS
<1> HIDE DEF S
<1> QED BY <1>1, <1>2, <1>3, Together

LEMMA LoggedKeeps ==
  ASSUME IndInv, NEW action, NEW k \in Case \cup {NoCase}, NEW i \in Nat,
         action \in {"custody_transferred", "custody_accepted", "user_login",
                     "report_generated"},
         action \in {"custody_transferred", "custody_accepted"} =>
            i \in DOMAIN evidence /\ k = evidence[i].case,
         Logged(action, k, i)
  PROVE  IndInv'
<1>1. /\ AppendEntry(action, k, i) /\ job' = Disturbed(job, [kind |-> "entry"], Process)
      /\ UNCHANGED <<evidence, attachments, files, spent>>
  BY DEF Logged
<1>2. /\ Workspace' /\ Grows
      /\ \A h : RecordedIn(h)' = RecordedIn(h)
  BY <1>1, WorkspaceLogs DEF IndInv
<1> QED BY <1>1, <1>2, EntryKeepsAll

LEMMA CustodyKeeps ==
  ASSUME IndInv, NEW e \in DOMAIN evidence, TransferCustody(e) \/ AcceptCustody(e)
  PROVE  IndInv'
<1> DEFINE k == evidence[e].case
<1>1. k \in Case \cup {NoCase} /\ e \in Nat
  <2>1. evidence \in Seq(Row)
    BY DEF IndInv, Workspace, CaseworkTypeOK
  <2>2. evidence[e] \in Row
    BY <2>1
  <2> QED BY <2>1, <2>2 DEF Row
<1>2. k = evidence[e].case
  OBVIOUS
<1>3. Logged("custody_transferred", k, e) \/ Logged("custody_accepted", k, e)
  BY DEF TransferCustody, AcceptCustody
<1> HIDE DEF k
<1> QED BY <1>1, <1>2, <1>3, LoggedKeeps

LEMMA ChangeFileKeeps ==
  ASSUME IndInv, NEW c \in Content, NEW bytes \in {Damaged, Absent}, ChangeFile(c, bytes)
  PROVE  IndInv'
<1> DEFINE S == Process
           change == [kind |-> "file"]
<1>1. /\ Workspace' /\ Grows /\ UNCHANGED tables
      /\ \A h : RecordedIn(h)' = RecordedIn(h)
  BY WorkspaceTouched DEF IndInv
<1>2. job' = Disturbed(job, change, S) /\ job \in [Process -> JobType] /\ S \in SUBSET Process
      /\ JobsTyped
  BY DEF ChangeFile, IndInv, JobsTyped
<1>3. ASSUME NEW q \in S, job[q].cmd = "import"
      PROVE  RecordedIn(job[q].case)' = RecordedIn(job[q].case)
  <2>1. job[q] \in ImportJob
    BY <1>2, <1>3, JobKinds
  <2>2. job'[q] = job[q] \/ job'[q] = [job[q] EXCEPT !.moved = TRUE]
    BY <1>2 DEF Disturbed
  <2>3. job'[q].case = job[q].case
    BY <2>1, <2>2, ImportMarked
  <2>4. evidence' = evidence /\ attachments' = attachments
    BY <1>1 DEF tables
  <2> QED BY <2>3, <2>4 DEF RecordedIn, InCase
<1>4. \A q \in S : job[q] = job[q]
  OBVIOUS
<1>5. \A q \in Process \ S : Sound(job[q])' /\ StoreHeld(q)'
  OBVIOUS
<1> HIDE DEF S, change
<1>6. JobsTyped' /\ \A q \in S : Kept(q)
  BY <1>1, <1>2, <1>3, <1>4, KeptByMark
<1> QED BY <1>1, <1>2, <1>5, <1>6, Together

LEMMA ChangeSourceKeeps ==
  ASSUME IndInv, NEW f \in 1..Files, NEW c \in Content, ChangeSource(f, c)
  PROVE  IndInv'
<1> DEFINE S == Process
<1>1. Workspace' /\ Grows
  BY WorkspaceSource DEF IndInv
<1>2. /\ log' = log /\ evidence' = evidence /\ attachments' = attachments
      /\ touched' = touched /\ job' = job
  BY DEF ChangeSource, tables
<1>3. JobsTyped'
  BY <1>2 DEF IndInv, JobsTyped
<1>4. ASSUME NEW q \in S PROVE Kept(q)
  <2>1. RecordedIn(job[q].case)' = RecordedIn(job[q].case)
    BY <1>2 DEF RecordedIn, InCase
  <2> QED BY <1>2, <2>1 DEF Kept, tables
<1>5. S \in SUBSET Process /\ \A q \in Process \ S : Sound(job[q])' /\ StoreHeld(q)'
  OBVIOUS
<1> HIDE DEF S
<1> QED BY <1>1, <1>3, <1>4, <1>5, Together

LEMMA OthersKeep ==
  ASSUME IndInv, Others
  PROVE  IndInv'
<1>1. ASSUME NEW p \in Process, NEW k \in Case, NEW mode \in {"evidence", "attachment"},
             NEW c \in Content, UploadStore(p, k, mode, c)
      PROVE  IndInv'
  BY <1>1, UploadStoreKeeps
<1>2. ASSUME NEW p \in Process, UploadRecord(p) PROVE IndInv'
  BY <1>2, UploadRecordKeeps
<1>3. ASSUME NEW p \in Process, Dies(p) PROVE IndInv'
  BY <1>3, DiesKeeps
<1>4. ASSUME SignIn PROVE IndInv'
  <2>1. Logged("user_login", NoCase, 0)
    BY <1>4 DEF SignIn
  <2>2. NoCase \in Case \cup {NoCase} /\ 0 \in Nat
    OBVIOUS
  <2> QED BY <2>1, <2>2, LoggedKeeps
<1>5. ASSUME NEW e \in DOMAIN evidence, TransferCustody(e) \/ AcceptCustody(e) PROVE IndInv'
  BY <1>5, CustodyKeeps
<1>6. ASSUME NEW n \in DOMAIN log, EditEntry(n) PROVE IndInv'
  <2>1. /\ Workspace' /\ Grows
        /\ \A h : RecordedIn(h)' = RecordedIn(h)
    BY <1>6, WorkspaceEdited DEF IndInv
  <2>2. job' = Disturbed(job, [kind |-> "entry"], Process)
    BY <1>6 DEF EditEntry
  <2> QED BY <2>1, <2>2, EntryKeepsAll
<1>7. ASSUME NEW c \in Content, NEW bytes \in {Damaged, Absent}, ChangeFile(c, bytes)
      PROVE  IndInv'
  BY <1>7, ChangeFileKeeps
<1>8. ASSUME NEW f \in 1..Files, NEW c \in Content, ChangeSource(f, c) PROVE IndInv'
  BY <1>8, ChangeSourceKeeps
<1> QED BY <1>1, <1>2, <1>3, <1>4, <1>5, <1>6, <1>7, <1>8 DEF Others

-----------------------------------------------------------------------------
(* The invariant is inductive. *)

(* The first entry of an empty log.                                         *)
LEMMA InitHolds ==
  ASSUME Init
  PROVE  IndInv
<1>1. PICK k \in Case :
         log = << Chain!NextEntry(Chain!ChainHead(<< >>), Body("case_opened", k, 0)) >>
  BY DEF Init
<1> DEFINE e == Chain!NextEntry(Chain!ChainHead(<< >>), Body("case_opened", k, 0))
<1>2. /\ e \in Chain!Entry /\ e.body.action = "case_opened"
  <2>1. << >> \in Seq(Chain!Entry) /\ k \in Case \cup {NoCase} /\ 0 \in Nat
    OBVIOUS
  <2>2. /\ Body("case_opened", k, 0) \in EntryBody
        /\ Body("case_opened", k, 0).action = "case_opened"
    BY <2>1, BodyTyped
  <2> QED BY <2>1, <2>2, NextEntryTyped
<1> HIDE DEF e
<1>3. /\ log \in Seq(Chain!Entry) /\ Len(log) = 1 /\ DOMAIN log = 1..1
      /\ log[1].body.action = "case_opened"
  <2>1. log = << e >>
    BY <1>1 DEF e
  <2> QED BY <1>2, <2>1
<1>4. /\ evidence = << >> /\ attachments = << >> /\ vault = [c \in Content |-> Absent]
      /\ folder \in [1..Files -> Content] /\ job = [p \in Process |-> Idle] /\ touched = {}
      /\ spent = [commands |-> 0, faults |-> 0]
  BY DEF Init
<1>5. CaseworkTypeOK
  <2>1. Len(log) <= MaxEntries /\ 0 \in 0..MaxCommands /\ 0 \in 0..MaxFaults
    BY <1>3, BoundAssumption
  <2> QED BY <1>3, <1>4, <2>1 DEF CaseworkTypeOK
<1>6. EntriesHaveRows /\ LoggedOnce
  BY <1>3 DEF EntriesHaveRows, LoggedOnce, Does
<1>7. RowsHaveEntries
  BY <1>3, <1>4 DEF RowsHaveEntries
<1>8. FilesRight /\ RowsHeld
  BY <1>4 DEF FilesRight, RowsHeld
<1>9. JobsTyped /\ StoresHeld /\ \A p \in Process : Sound(job[p])
  BY <1>4, IdleSound DEF JobsTyped, StoresHeld
<1> QED BY <1>5, <1>6, <1>7, <1>8, <1>9 DEF IndInv, Workspace

LEMMA StutterKeeps ==
  ASSUME IndInv, UNCHANGED vars
  PROVE  IndInv'
<1> DEFINE S == Process
<1>1. /\ log' = log /\ evidence' = evidence /\ attachments' = attachments /\ vault' = vault
      /\ folder' = folder /\ touched' = touched /\ job' = job /\ spent' = spent
  BY DEF vars, tables, files
<1>2. Workspace' /\ Grows
  BY <1>1, WorkspaceSame DEF IndInv, Workspace, CaseworkTypeOK, Spent, tables, files
<1>3. JobsTyped'
  BY <1>1 DEF IndInv, JobsTyped
<1>4. ASSUME NEW q \in S PROVE Kept(q)
  <2>1. RecordedIn(job[q].case)' = RecordedIn(job[q].case)
    BY <1>1 DEF RecordedIn, InCase
  <2> QED BY <1>1, <2>1 DEF Kept, tables
<1>5. S \in SUBSET Process /\ \A q \in Process \ S : Sound(job[q])' /\ StoreHeld(q)'
  OBVIOUS
<1> HIDE DEF S
<1> QED BY <1>2, <1>3, <1>4, <1>5, Together

LEMMA StepKeeps ==
  ASSUME IndInv, [Next]_vars
  PROVE  IndInv'
<1>1. CASE Others
  BY <1>1, OthersKeep
<1>2. ASSUME NEW p \in Process, NEW k \in Case, NEW mode \in {"evidence", "attachment"},
             NEW dry \in BOOLEAN, StartImport(p, k, mode, dry)
      PROVE  IndInv'
  BY <1>2, StartImportKeeps
<1>3. ASSUME NEW p \in Process, NEW k \in Case, StartReport(p, k) PROVE IndInv'
  BY <1>3, StartReportKeeps
<1>4. ASSUME NEW p \in Process, NEW deep \in BOOLEAN, StartBackup(p, deep) PROVE IndInv'
  BY <1>4, StartBackupKeeps
<1>5. ASSUME NEW p \in Process, ImportStep(p) \/ ReportStep(p) \/ BackupStep(p) PROVE IndInv'
  BY <1>5, ImportStepKeeps, ReportStepKeeps, BackupStepKeeps
<1>6. CASE UNCHANGED vars
  BY <1>6, StutterKeeps
<1> QED BY <1>1, <1>2, <1>3, <1>4, <1>5, <1>6 DEF Next

(* Whatever commands run beside each other, in whatever order their steps   *)
(* come, die or meet changes from outside: what each has noted of the       *)
(* workspace is still so.                                                   *)
THEOREM OperationsInvariance == Spec => []IndInv
<1>1. Init => IndInv
  BY InitHolds
<1>2. IndInv /\ [Next]_vars => IndInv'
  BY StepKeeps
<1> QED BY <1>1, <1>2, PTL DEF Spec

-----------------------------------------------------------------------------
(* What follows. *)

(* Tables, vault, folder and every command's record are what they should be.*)
THEOREM OperationsTyped == Spec => []TypeOK
<1>1. IndInv => TypeOK
  BY DEF IndInv, Workspace, JobsTyped, JobType, TypeOK
<1> QED BY <1>1, OperationsInvariance, PTL

(* Exit code 0 of an import means that what it hashed is in the case.       *)
THEOREM ImportsComplete == Spec => []EndedImportIsComplete
<1>1. ASSUME IndInv, NEW p \in Process, Importing(p, "done"), ~job[p].failed, ~job[p].dry,
             ~job[p].drift
      PROVE  /\ job[p].seen \subseteq RecordedIn(job[p].case)
             /\ \A c \in job[p].seen \ touched : vault[c] = c
  <2>1. job[p].seen \subseteq RecordedIn(job[p].case)
    BY <1>1, ImportAt DEF ImportSound
  <2>2. \A c \in RecordedIn(job[p].case) : Held(c)
    BY <1>1 DEF IndInv, Workspace, RowsHeld, RecordedIn, InCase
  <2> QED BY <2>1, <2>2 DEF Held
<1>2. IndInv => EndedImportIsComplete
  BY <1>1 DEF EndedImportIsComplete
<1> QED BY <1>2, OperationsInvariance, PTL

(* An import records no content its case has, unless somebody recorded in   *)
(* the case meanwhile or a file changed between its readings.               *)
THEOREM ItemsOnce == Spec => OneItemPerContent
<1>1. ASSUME IndInv, NEW p \in Process, RecordFile(p), ~job[p].moved, ~job[p].drift
      PROVE  job[p].stored \notin RecordedIn(job[p].case)
  <2>1. Importing(p, "stored")
    BY <1>1 DEF RecordFile
  <2>2. ImportSound(job[p]) /\ job[p].stage = "stored"
    BY <1>1, <2>1, ImportAt
  <2> QED BY <1>1, <2>2 DEF ImportSound
<1>2. IndInv => \A p \in Process : RecordFile(p) /\ ~job[p].moved /\ ~job[p].drift =>
                   job[p].stored \notin RecordedIn(job[p].case)
  BY <1>1
<1> QED BY <1>2, OperationsInvariance, PTL DEF OneItemPerContent

(* What a report lists, its other readings explain, under the head it pins. *)
THEOREM ReportsAgree == Spec => []ReportAgreesWithItself
<1>1. ASSUME IndInv, NEW p \in Process, OnPaper(p)
      PROVE  /\ \A e \in job[p].items : Entry(e, "evidence_ingested") \in job[p].entries
             /\ \A a \in job[p].attached : Entry(a, "attachment_uploaded") \in job[p].entries
             /\ job[p].entries \subseteq 1..job[p].head.n
  <2>1. ReportSound(job[p]) /\ job[p].stage \in {"written", "done"}
    BY <1>1, ReportAt DEF OnPaper
  <2>2. /\ Explained(job[p]) /\ job[p].entries \subseteq 1..job[p].head.n
        /\ job[p].entries \subseteq DOMAIN log
    BY <2>1 DEF ReportSound, HasRead, OfCase
  <2>3. ASSUME NEW i, NEW action \in {"evidence_ingested", "attachment_uploaded"},
               NEW n \in DOMAIN log, Does(n, action, i)
        PROVE  Entry(i, action) = n
    <3>1. \A m \in DOMAIN log : log[m].body.action = action /\ log[m].body.item = i => m = n
      BY <1>1, <2>3 DEF IndInv, Workspace, LoggedOnce, Does
    <3> QED BY <2>3, <3>1 DEF Entry, Does
  <2>4. \A e \in job[p].items : Entry(e, "evidence_ingested") \in job[p].entries
    BY <2>2, <2>3 DEF Explained
  <2>5. \A a \in job[p].attached : Entry(a, "attachment_uploaded") \in job[p].entries
    BY <2>2, <2>3 DEF Explained
  <2> QED BY <2>2, <2>4, <2>5
<1>2. IndInv => ReportAgreesWithItself
  BY <1>1 DEF ReportAgreesWithItself
<1> QED BY <1>2, OperationsInvariance, PTL

(* The holder a report prints is the last of those its entries name, or one *)
(* who came after all of them.                                              *)
THEOREM HoldersNotOutdated == Spec => []HolderIsNotOutdated
<1>1. ASSUME IndInv, NEW p \in Process, OnPaper(p) PROVE HoldersFit(job[p])
  <2>1. ReportSound(job[p]) /\ job[p].stage \in {"written", "done"}
    BY <1>1, ReportAt DEF OnPaper
  <2> QED BY <2>1 DEF ReportSound
<1>2. IndInv => HolderIsNotOutdated
  BY <1>1 DEF HolderIsNotOutdated, HoldersFit
<1> QED BY <1>2, OperationsInvariance, PTL

(* Undisturbed, a report is a snapshot and its own entry is the next.       *)
THEOREM QuietReports == Spec => []QuietReportIsSnapshot
<1>1. ASSUME IndInv, NEW p \in Process, OnPaper(p), ~job[p].moved
      PROVE  /\ Snapshotted(job[p])
             /\ Reporting(p, "done") =>
                   log[job[p].head.n + 1].body.action = "report_generated"
  <2>1. ReportSound(job[p]) /\ job[p].stage \in {"written", "done"}
    BY <1>1, ReportAt DEF OnPaper
  <2> QED BY <1>1, <2>1 DEF ReportSound, Reporting
<1>2. IndInv => QuietReportIsSnapshot
  BY <1>1 DEF QuietReportIsSnapshot, Snapshotted, PrintedBy, CustodyShown
<1> QED BY <1>2, OperationsInvariance, PTL

(* A backup that reports success has the file of every row it copied.       *)
THEOREM BackupsWhole == Spec => []VerifiedBackupIsWhole
<1>1. ASSUME IndInv, NEW p \in Process, Verified(p)
      PROVE  /\ \A c \in CopiedRows(job[p]) \ touched : job[p].files[c] = c
             /\ job[p].deep => \A c \in CopiedItems(job[p]) : job[p].files[c] = c
  <2>1. BackupSound(job[p]) /\ job[p].stage = "done" /\ job[p].result = "verified"
    BY <1>1, BackupAt DEF Verified
  <2> QED BY <2>1 DEF BackupSound
<1>2. IndInv => VerifiedBackupIsWhole
  BY <1>1 DEF VerifiedBackupIsWhole, CopiedRows, CopiedItems
<1> QED BY <1>2, OperationsInvariance, PTL

(* The three values cmd_backup compares pin the whole log.                  *)
THEOREM BackupsFaithful == Spec => []FaithfulIsSame
<1>1. ASSUME IndInv, NEW p \in Process, Verified(p), Chain!Intact(job[p].source)
      PROVE  job[p].copy.log = job[p].source
  <2>1. /\ job[p] \in BackupJob /\ BackupSound(job[p])
        /\ job[p].stage = "done" /\ job[p].result = "verified"
    BY <1>1, BackupAt DEF Verified
  <2>2. Faithful(job[p].source, job[p].copy.log)
    BY <2>1 DEF BackupSound
  <2>3. job[p].source \in Seq(Chain!Entry) /\ job[p].copy.log \in Seq(Chain!Entry)
    BY <2>1 DEF BackupJob
  <2> QED BY <1>1, <2>2, <2>3, FaithfulFacts
<1>2. IndInv => FaithfulIsSame
  BY <1>1 DEF FaithfulIsSame
<1> QED BY <1>2, OperationsInvariance, PTL

(* Undisturbed, a backup passes, of a broken log too.                       *)
THEOREM QuietBackups == Spec => []QuietBackupPasses
<1>1. ASSUME IndInv, NEW p \in Process, BackingUp(p, "done"), ~job[p].moved
      PROVE  /\ Verified(p) \/ (job[p].deep /\ touched # {})
             /\ job[p].manifest = Counts(job[p])
  <2>1. BackupSound(job[p]) /\ job[p].stage = "done"
    BY <1>1, BackupAt
  <2> QED BY <1>1, <2>1 DEF BackupSound, Verified
<1>2. IndInv => QuietBackupPasses
  BY <1>1 DEF QuietBackupPasses, Counts
<1> QED BY <1>2, OperationsInvariance, PTL

=============================================================================
