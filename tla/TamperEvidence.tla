--------------------------- MODULE TamperEvidence ---------------------------
(***************************************************************************)
(* What chain.verify says after the stored log was changed behind the      *)
(* application's back, which is what the chain is for (docs/DESIGN.md).    *)
(* The changes are those the repository's own tests and tamper_demo make   *)
(* on a raw connection with the triggers dropped: edit a row, delete rows, *)
(* cut the tail, reorder rows.  Between them the application goes on       *)
(* appending, and issues reports that pin the head of the chain on paper.  *)
(* Rebuilding the digests of a whole suffix is out of the design's scope   *)
(* and is not an action here.                                              *)
(***************************************************************************)
EXTENDS Naturals, Sequences, FiniteSets

CONSTANTS Body,        \* contents an entry may have
          MaxEntries,  \* bound: the application stops appending there
          MaxEdits,    \* bound: raw changes
          MaxReports   \* bound: reports issued

ASSUME BoundAssumption == MaxEntries \in Nat /\ MaxEdits \in Nat /\ MaxReports \in Nat

INSTANCE CustodyChain

VARIABLES rows,     \* the table, in seq order
          written,  \* history: every row the application ever inserted
          reports,  \* the reports outside the system: pinned head and what it stood for
          edits     \* raw changes so far

vars == <<rows, written, reports, edits>>

Init == rows = << >> /\ written = {} /\ reports = {} /\ edits = 0

-----------------------------------------------------------------------------
(* The application: append_entry, and build_case_report, which prints what  *)
(* verify found and then logs that it did.                                  *)

Appended(b) == LET e == NextEntry(ChainHead(rows), b)
               IN  /\ Len(rows) < MaxEntries
                   /\ \A p \in DOMAIN rows : rows[p].seq # e.seq
                                             /\ rows[p].entry_hash # e.entry_hash
                   /\ rows' = Append(rows, e)
                   /\ written' = written \cup {e}

AppendEntry(b) == Appended(b) /\ UNCHANGED <<reports, edits>>

(* Faulty variant: number the head by its seq instead of counting the rows. *)
PinBySeq == [ok   |-> Verify(rows).ok,
             n    |-> ChainHead(rows).seq,
             head |-> Verify(rows).head_hash,
             rows |-> rows]

Pin == [ok   |-> Verify(rows).ok,
        n    |-> Verify(rows).entries_checked,
        head |-> Verify(rows).head_hash,
        rows |-> rows]

IssueReport(b) == /\ Cardinality(reports) < MaxReports
                  /\ reports' = reports \cup {Pin}
                  /\ Appended(b)
                  /\ UNCHANGED edits

-----------------------------------------------------------------------------
(* Raw changes to the table. *)

RawChange == edits < MaxEdits /\ edits' = edits + 1 /\ UNCHANGED <<written, reports>>

Without(p) == SubSeq(rows, 1, p - 1) \o SubSeq(rows, p + 1, Len(rows))

EditRow(p, b) == /\ p \in DOMAIN rows
                 /\ b # rows[p].body
                 /\ rows' = [rows EXCEPT ![p].body = b]
                 /\ RawChange

DeleteRow(p) == /\ p \in DOMAIN rows
                /\ rows' = Without(p)
                /\ RawChange

(* DELETE ... WHERE seq > k *)
Truncate(k) == /\ k \in 0..(Len(rows) - 2)
               /\ rows' = SubSeq(rows, 1, k)
               /\ RawChange

(* Two rows trade places: each takes the other's seq. *)
SwapRows(p, q) == /\ p \in DOMAIN rows /\ q \in DOMAIN rows /\ p < q
                  /\ rows' = [rows EXCEPT ![p] = [rows[q] EXCEPT !.seq = rows[p].seq],
                                          ![q] = [rows[p] EXCEPT !.seq = rows[q].seq]]
                  /\ RawChange

(* A row is deleted and the ones after it renumbered to close the gap. *)
DeleteAndRenumber(p) ==
    /\ p \in 1..(Len(rows) - 1)
    /\ rows' = [q \in 1..(Len(rows) - 1) |->
                   [Without(p)[q] EXCEPT !.seq = IF q < p THEN @ ELSE @ - 1]]
    /\ RawChange

Positions == 1..MaxEntries

Next == \/ \E b \in Body : AppendEntry(b) \/ IssueReport(b)
        \/ \E p \in Positions : \/ \E b \in Body : EditRow(p, b)
                                \/ DeleteRow(p)
                                \/ DeleteAndRenumber(p)
                                \/ \E q \in Positions : SwapRows(p, q)
        \/ \E k \in 0..MaxEntries : Truncate(k)

Spec == Init /\ [][Next]_vars

-----------------------------------------------------------------------------
TypeOK == /\ rows \in Seq(Entry) /\ Len(rows) <= MaxEntries
          /\ written \subseteq Entry
          /\ \A r \in reports : /\ r.ok \in BOOLEAN /\ r.n = Len(r.rows)
                                /\ r.head \in Digest /\ r.rows \in Seq(Entry)
          /\ edits \in 0..MaxEdits

(* Nothing false verifies: however many raw changes were made, a table that *)
(* verify accepts holds only rows the application wrote, each unaltered.    *)
VerifiedRowsAreOriginal == Intact(rows) => \A p \in DOMAIN rows : rows[p] \in written

(* A report pins the past: while the chain verifies and still shows the     *)
(* head a report printed at the place it printed, every entry up to there   *)
(* is the one the report was issued over (docs/DESIGN.md:71-77).            *)
ReportPinsHistory ==
    \A r \in reports :
       (/\ r.ok /\ r.n > 0
        /\ Intact(rows) /\ r.n <= Len(rows)
        /\ rows[r.n].entry_hash = r.head) => SubSeq(rows, 1, r.n) = r.rows

(* The verdict names the row: editing one row of a sound chain breaks that  *)
(* entry and no other (README.md:89, test_editing_an_entry_is_detected).    *)
EditNamedExactly ==
    [][\A p \in Positions, b \in Body :
          Intact(rows) /\ EditRow(p, b) =>
             /\ Verify(rows').broken_entries = {p}
             /\ Verify(rows').reason = "altered"]_vars

(* Deleting a row that is not the last breaks every entry after the gap,    *)
(* the first of them being named (test_deleting_an_entry_is_detected).      *)
DeletionNamed ==
    [][\A p \in Positions :
          Intact(rows) /\ p < Len(rows) /\ DeleteRow(p) =>
             /\ Verify(rows').broken_entries = (p + 1)..Len(rows)
             /\ Verify(rows').first_broken_seq = p + 1
             /\ Verify(rows').reason = "sequence break"]_vars

(* Damage does not heal: an entry reported broken stays reported, whatever  *)
(* the application appends after it.                                        *)
DamageStays ==
    [][\A b \in Body : AppendEntry(b) \/ IssueReport(b) =>
          Verify(rows).broken_entries \subseteq Verify(rows').broken_entries]_vars

(* What the report tells its reader of the log: "any alteration to a        *)
(* historical entry invalidates every entry after it" (report.py:288-290).  *)
AlterationInvalidatesLater ==
    [][\A p \in Positions, b \in Body :
          Intact(rows) /\ EditRow(p, b) =>
             \A q \in (p + 1)..Len(rows) : q \in Verify(rows').broken_entries]_vars
=============================================================================
