------------------------------- MODULE Report -------------------------------
(***************************************************************************)
(* build_case_report of coc/report.py: the tables are read one after the   *)
(* other in autocommit, so each at its own moment; holders are asked for   *)
(* while the pages are laid out; the file is written, and then the report  *)
(* is logged.                                                              *)
(***************************************************************************)
EXTENDS Casework

Reporting(p, stage) == job[p].cmd = "report" /\ job[p].stage = stage

(* Faulty variant: the log is read before the tables it explains. *)
EntriesFirst == << "entries", "items", "attached", "head" >>

(* The order of the reads. *)
Reads == << "items", "attached", "entries", "head" >>

(* Faulty variant: a handover moves the item at once. *)
HolderOnHandover(e) ==
    Newest(EntriesOf(e, {"evidence_ingested", "custody_transferred", "custody_accepted"}))

(* Faulty variant: whoever ingested an item holds it. *)
HolderAsIngested(e) == Newest(EntriesOf(e, {"evidence_ingested"}))

(* current_holder: the entry whose actor it returns. *)
HolderEntry(e) == Newest(EntriesOf(e, {"evidence_ingested", "custody_accepted"}))

StartReport(p, k) ==
    /\ k \in Opened
    /\ Start(p, [cmd |-> "report", stage |-> "reading", case |-> k, next |-> 1,
                 items |-> {}, attached |-> {}, entries |-> {},
                 head |-> [ok |-> TRUE, n |-> 0],
                 holders |-> << >>, moved |-> FALSE])
    /\ UNCHANGED <<tables, files>>

Read(what, k) ==
    CASE what = "items"    -> InCase(evidence, k)
      [] what = "attached" -> InCase(attachments, k)
      [] what = "entries"  -> {n \in DOMAIN log : log[n].body.case = k}
      [] what = "head"     -> [ok |-> Chain!Verify(log).ok,
                               n  |-> Chain!Verify(log).entries_checked]

(* One of list_evidence, list_attachments, custody_entries, verify_chain. *)
ReadNext(p) ==
    LET j    == job[p]
        what == Reads[j.next]
        last == j.next = Len(Reads)
    IN  /\ Reporting(p, "reading")
        /\ Proceed(p, [j EXCEPT ![what] = Read(what, j.case),
                                !.next  = IF last THEN @ ELSE @ + 1,
                                !.stage = IF last THEN "read" ELSE "reading"])
        /\ UNCHANGED <<tables, files, spent>>

(* The pages are laid out, the holder of each item being asked for as its   *)
(* line comes up, and the file is written.                                  *)
WriteOut(p) ==
    LET j == job[p]
    IN  /\ Reporting(p, "read")
        /\ Proceed(p, [j EXCEPT !.stage = "written",
                                !.holders = [e \in j.items |-> HolderEntry(e)]])
        /\ UNCHANGED <<tables, files, spent>>

LogReport(p) ==
    LET j == job[p]
    IN  /\ Reporting(p, "written")
        /\ AppendEntry("report_generated", j.case, 0)
        /\ ProceedChanging(p, [j EXCEPT !.stage = "done"], [kind |-> "entry"])
        /\ UNCHANGED <<evidence, attachments, files, spent>>

ReportStep(p) == ReadNext(p) \/ WriteOut(p) \/ LogReport(p)

ReportJob == [cmd: {"report"}, stage: {"reading", "read", "written", "done"}, case: Case,
              next: 1..4, items: SUBSET (1..MaxEntries), attached: SUBSET (1..MaxEntries),
              entries: SUBSET (1..MaxEntries), head: [ok: BOOLEAN, n: 0..MaxEntries],
              holders: UNION {[S -> 1..MaxEntries] : S \in SUBSET (1..MaxEntries)},
              moved: BOOLEAN]

-----------------------------------------------------------------------------
OnPaper(p) == Reporting(p, "written") \/ Reporting(p, "done")

Entry(i, action) == CHOOSE n \in DOMAIN log :
                       log[n].body.action = action /\ log[n].body.item = i

(* What a report lists it also explains, although nothing keeps the writers *)
(* out while it reads (report.py:136-140): every item and every attachment  *)
(* it lists has its entry among the entries it prints, and every entry it   *)
(* prints lies under the chain head it pins.                                *)
ReportAgreesWithItself ==
    \A p \in Process : OnPaper(p) =>
       LET j == job[p]
       IN  /\ \A e \in j.items : Entry(e, "evidence_ingested") \in j.entries
           /\ \A a \in j.attached : Entry(a, "attachment_uploaded") \in j.entries
           /\ j.entries \subseteq 1..j.head.n

(* The holder a report prints is never one that its own entries show to be  *)
(* out of date: it is the last whom they name as such, or, since holders    *)
(* are asked for later (report.py:238), one whose acceptance came after     *)
(* everything the report prints of the log.                                 *)
CustodyShown(j, e) == {n \in j.entries :
                         /\ log[n].body.item = e
                         /\ log[n].body.action \in {"evidence_ingested", "custody_accepted"}}

HolderFits(j, e) == \/ j.holders[e] = Newest(CustodyShown(j, e))
                    \/ \A n \in j.entries : n < j.holders[e]

HolderIsNotOutdated ==
    \A p \in Process : OnPaper(p) => \A e \in job[p].items : HolderFits(job[p], e)

(* The report shows "the state of the log at the moment of generation"      *)
(* (report.py:329): if nothing was committed while it was made, its items,  *)
(* attachments and entries match both ways, the last entry it prints for an *)
(* item's custody names the holder it prints, and its own entry is the one  *)
(* after the head it pins.                                                  *)
QuietReportIsSnapshot ==
    \A p \in Process : OnPaper(p) /\ ~job[p].moved =>
       LET j == job[p]
           Printed(action) == {log[n].body.item : n \in
                                 {m \in j.entries : log[m].body.action = action}}
       IN  /\ j.items = Printed("evidence_ingested")
           /\ j.attached = Printed("attachment_uploaded")
           /\ \A e \in j.items : j.holders[e] = Newest(CustodyShown(j, e))
           /\ Reporting(p, "done") =>
                 log[j.head.n + 1].body.action = "report_generated"
=============================================================================
