------------------------------ MODULE Casework ------------------------------
(***************************************************************************)
(* The workspace that long commands share: custody log, evidence and       *)
(* attachment rows, vault files and the folder an import reads.  Processes *)
(* (CLI commands, threads of the web server) run one command each, in      *)
(* several steps; Import, Report and Backup say which.                     *)
(*                                                                         *)
(* A transaction is one step (CustodyLog shows it to be atomic), and so is *)
(* storing one file (Vault shows what an address holds meanwhile).         *)
(***************************************************************************)
EXTENDS Naturals, Sequences, FiniteSets

CONSTANTS Process, Content, Case,
          NoCase,       \* entries that belong to no case
          NoContent,    \* nothing hashed yet
          Damaged,      \* bytes that are not those of any content
          Absent,       \* no file at an address
          Files,        \* number of files in the folder
          MaxEntries,   \* bound on the log
          MaxSignIns,   \* bound: entries that belong to no case
          MaxCommands,  \* bound: commands started
          MaxFaults     \* bound: commands that die, changes from outside

ASSUME CaseAssumption     == NoCase \notin Case
ASSUME SentinelAssumption == {Damaged, Absent, NoContent} \cap Content = {} /\ Damaged # Absent
ASSUME BoundAssumption    == /\ {Files, MaxEntries, MaxSignIns, MaxCommands, MaxFaults} \subseteq Nat
                             /\ MaxEntries # 0     \* Init has an entry

VARIABLES log,          \* custody entries
          evidence,     \* rows of the evidence table; the id is the index
          attachments,  \* rows of the attachments table
          vault,        \* the bytes at each address
          folder,       \* the bytes of each file of the imported folder
          job,          \* per process: the command it runs, or ran last
          touched,      \* history: addresses changed from outside
          spent         \* commands and faults so far

tables == <<log, evidence, attachments>>
files  == <<vault, folder, touched>>
vars   == <<tables, files, job, spent>>

EntryBody == [action  : {"case_opened", "evidence_ingested", "attachment_uploaded",
                         "custody_transferred", "custody_accepted", "user_login",
                         "report_generated"},
              case    : Case \cup {NoCase},
              item    : Nat,               \* evidence id, attachment id or 0
              details : {"logged", "forged"}]

Chain == INSTANCE CustodyChain WITH Body <- EntryBody

Body(action, k, i) == [action |-> action, case |-> k, item |-> i, details |-> "logged"]

Idle == [cmd |-> "none", stage |-> "none"]

(* A workspace with one case opened in it. *)
Init == /\ \E k \in Case :
              log = << Chain!NextEntry(Chain!ChainHead(<< >>), Body("case_opened", k, 0)) >>
        /\ evidence = << >>
        /\ attachments = << >>
        /\ vault = [c \in Content |-> Absent]
        /\ folder \in [1..Files -> Content]
        /\ job = [p \in Process |-> Idle]
        /\ touched = {}
        /\ spent = [commands |-> 0, faults |-> 0]

-----------------------------------------------------------------------------
(* Reading the tables *)

Opened == {log[n].body.case : n \in DOMAIN log} \ {NoCase}

InCase(table, k) == {r \in DOMAIN table : table[r].case = k}

(* list_evidence and list_attachments of a case, by content. *)
RecordedIn(k) == {evidence[e].sha256 : e \in InCase(evidence, k)}
                 \cup {attachments[a].sha256 : a \in InCase(attachments, k)}

EntriesOf(i, actions) == {n \in DOMAIN log : /\ log[n].body.item = i
                                             /\ log[n].body.action \in actions}

Newest(S) == CHOOSE n \in S : \A m \in S : m <= n

-----------------------------------------------------------------------------
(* Commands *)

Running(p) == job[p].stage \notin {"none", "done"}

Spend(what) == spent' = [spent EXCEPT ![what] = @ + 1]

Start(p, record) == /\ ~Running(p)
                    /\ spent.commands < MaxCommands
                    /\ Spend("commands")
                    /\ job' = [job EXCEPT ![p] = record]

(* History: does a change disturb the command of q?  An import, and an      *)
(* upload, depend on what is recorded in their case; a report on every      *)
(* entry; a backup on everything.                                           *)
Disturbs(change, q) ==
    /\ Running(q)
    /\ \/ job[q].cmd = "import" /\ change = [kind |-> "row", case |-> job[q].case]
       \/ job[q].cmd = "report" /\ change.kind # "file"
       \/ job[q].cmd = "backup"

Disturbed(jobs, change, S) ==
    [q \in Process |-> IF q \in S /\ Disturbs(change, q)
                       THEN [jobs[q] EXCEPT !.moved = TRUE] ELSE jobs[q]]

Fault == spent.faults < MaxFaults /\ Spend("faults")

(* p goes on alone. *)
Proceed(p, record) == job' = [job EXCEPT ![p] = record]

(* p goes on having changed what the others may be reading. *)
ProceedChanging(p, record, change) ==
    job' = Disturbed([job EXCEPT ![p] = record], change, Process \ {p})

AppendEntry(action, k, i) ==
    /\ Len(log) < MaxEntries
    /\ log' = Append(log, Chain!NextEntry(Chain!ChainHead(log), Body(action, k, i)))

(* The transaction of _record_evidence and of attach. *)
Record(k, mode, c) ==
    IF mode = "evidence"
    THEN /\ evidence' = Append(evidence, [case |-> k, sha256 |-> c])
         /\ AppendEntry("evidence_ingested", k, Len(evidence) + 1)
         /\ UNCHANGED attachments
    ELSE /\ attachments' = Append(attachments, [case |-> k, sha256 |-> c])
         /\ AppendEntry("attachment_uploaded", k, Len(attachments) + 1)
         /\ UNCHANGED evidence

(* store_file: a file already at the address is taken as it is. *)
Store(c) == vault' = IF vault[c] = Absent THEN [vault EXCEPT ![c] = c] ELSE vault

(* A web upload: the file is vaulted, then recorded.  Nothing asks whether  *)
(* the case has it already.                                                 *)
UploadStore(p, k, mode, c) ==
    /\ k \in Opened
    /\ Start(p, [cmd |-> "upload", stage |-> "stored", case |-> k, mode |-> mode,
                 stored |-> c])
    /\ Store(c)
    /\ UNCHANGED <<tables, folder, touched>>

UploadRecord(p) ==
    LET j == job[p]
    IN  /\ j.cmd = "upload" /\ j.stage = "stored"
        /\ Record(j.case, j.mode, j.stored)
        /\ ProceedChanging(p, Idle, [kind |-> "row", case |-> j.case])
        /\ UNCHANGED <<files, spent>>

(* The process is killed, or an exception nobody catches ends the command. *)
Dies(p) == /\ Running(p)
           /\ Fault
           /\ Proceed(p, Idle)
           /\ UNCHANGED <<tables, files>>

-----------------------------------------------------------------------------
(* Everybody else: calls that write one entry, each one transaction. *)

(* Bound: these entries, and changes from outside, are left out once nobody *)
(* is there or can come to whom they make a difference.                     *)
Watched == \/ spent.commands < MaxCommands
           \/ \E p \in Process : Running(p) /\ job[p].cmd \in {"report", "backup"}

Logged(action, k, i) ==
    /\ Watched
    /\ AppendEntry(action, k, i)
    /\ job' = Disturbed(job, [kind |-> "entry"], Process)
    /\ UNCHANGED <<evidence, attachments, files, spent>>

SignIn == /\ Cardinality(EntriesOf(0, {"user_login"})) < MaxSignIns
          /\ Logged("user_login", NoCase, 0)

TransferCustody(e) == /\ e \in DOMAIN evidence
                      /\ Logged("custody_transferred", evidence[e].case, e)

AcceptCustody(e) ==
    LET handovers == EntriesOf(e, {"custody_transferred", "custody_accepted"})
    IN  /\ e \in DOMAIN evidence
        /\ handovers # {}
        /\ log[Newest(handovers)].body.action = "custody_transferred"
        /\ Logged("custody_accepted", evidence[e].case, e)

-----------------------------------------------------------------------------
(* Outside the application *)

(* A row of the log edited on a raw connection. *)
EditEntry(n) == /\ n \in DOMAIN log
                /\ Watched /\ Fault
                /\ log' = [log EXCEPT ![n].body.details = "forged"]
                /\ job' = Disturbed(job, [kind |-> "entry"], Process)
                /\ UNCHANGED <<evidence, attachments, files>>

(* A vault file altered or removed. *)
ChangeFile(c, bytes) == /\ vault[c] # Absent
                        /\ Watched /\ Fault
                        /\ vault' = [vault EXCEPT ![c] = bytes]
                        /\ touched' = touched \cup {c}
                        /\ job' = Disturbed(job, [kind |-> "file"], Process)
                        /\ UNCHANGED <<tables, folder>>

(* A file of the folder written over by whoever owns it while an import     *)
(* reads the folder; what it held earlier is a matter of Init.              *)
ChangeSource(f, c) == /\ folder[f] # c
                      /\ \E p \in Process : Running(p) /\ job[p].cmd = "import"
                      /\ Fault
                      /\ folder' = [folder EXCEPT ![f] = c]
                      /\ UNCHANGED <<tables, vault, touched, job>>

-----------------------------------------------------------------------------
Others == \/ \E p \in Process :
                \/ \E k \in Case, mode \in {"evidence", "attachment"}, c \in Content :
                      UploadStore(p, k, mode, c)
                \/ UploadRecord(p)
                \/ Dies(p)
          \/ SignIn
          \/ \E e \in DOMAIN evidence : TransferCustody(e) \/ AcceptCustody(e)
          \/ \E n \in DOMAIN log : EditEntry(n)
          \/ \E c \in Content, bytes \in {Damaged, Absent} : ChangeFile(c, bytes)
          \/ \E f \in 1..Files, c \in Content : ChangeSource(f, c)

Row == [case: Case, sha256: Content]
Upload == [cmd: {"upload"}, stage: {"stored"}, case: Case,
           mode: {"evidence", "attachment"}, stored: Content]

CaseworkTypeOK ==
    /\ log \in Seq(Chain!Entry) /\ Len(log) <= MaxEntries
    /\ evidence \in Seq(Row)
    /\ attachments \in Seq(Row)
    /\ vault \in [Content -> Content \cup {Damaged, Absent}]
    /\ folder \in [1..Files -> Content]
    /\ touched \subseteq Content
    /\ spent \in [commands: 0..MaxCommands, faults: 0..MaxFaults]
=============================================================================
