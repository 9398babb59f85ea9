---------------------------- MODULE CustodyChain ----------------------------
(***************************************************************************)
(* The hash chain of coc/chain.py as pure operators: what an entry is,     *)
(* which digest it carries, how the next one is built and what verify      *)
(* reports about a table of entries.  A table is the sequence of rows that *)
(* "SELECT * FROM custody_log ORDER BY seq ASC" returns.                   *)
(*                                                                         *)
(* SHA-256 is ideal: a digest is the sequence of everything hashed into    *)
(* it, so equal digests mean equal inputs.  The twelve columns of          *)
(* CHAINED_FIELDS beside seq are one value, the entry's body.              *)
(***************************************************************************)
EXTENDS Naturals, Sequences

CONSTANT Body   \* the possible values of the chained fields other than seq

Payload    == Nat \X Body
Digest     == Seq(Payload)
ZeroDigest == << >>

(* Faulty variant: a field left out of CHAINED_FIELDS. *)
PayloadWithoutBody(seq, body) == <<seq>>

CanonicalPayload(seq, body) == <<seq, body>>

(* Faulty variant: an entry hashed on its own, without its predecessor. *)
UnlinkedHash(seq, body, prev) == <<CanonicalPayload(seq, body)>>

EntryHash(seq, body, prev) == Append(prev, CanonicalPayload(seq, body))

Entry == [seq: Nat, body: Body, prev_hash: Digest, entry_hash: Digest]

(* The last row, or the values append_entry starts from when there is none. *)
ChainHead(rows) ==
    IF rows = << >> THEN [seq |-> 0, entry_hash |-> ZeroDigest]
                    ELSE [seq        |-> rows[Len(rows)].seq,
                          entry_hash |-> rows[Len(rows)].entry_hash]

(* The record append_entry inserts after the tail it has read. *)
NextEntry(tail, body) ==
    [seq        |-> tail.seq + 1,
     body       |-> body,
     prev_hash  |-> tail.entry_hash,
     entry_hash |-> EntryHash(tail.seq + 1, body, tail.entry_hash)]

-----------------------------------------------------------------------------
(* verify: one verdict per row, in the order the code tests for them. *)

(* Faulty variant: carry the recomputed digest forward, not the recorded one. *)
RecomputedPrev(rows, p) ==
    IF p = 1 THEN ZeroDigest
    ELSE EntryHash(rows[p - 1].seq, rows[p - 1].body, rows[p - 1].prev_hash)

ExpectedPrev(rows, p) == IF p = 1 THEN ZeroDigest ELSE rows[p - 1].entry_hash

(* Faulty variant: compare with the previous row, not with the position. *)
GapBefore(rows, p) == rows[p].seq # (IF p = 1 THEN 1 ELSE rows[p - 1].seq + 1)

SequenceBreak(rows, p) == rows[p].seq # p

WrongPredecessor(rows, p) == rows[p].prev_hash # ExpectedPrev(rows, p)

Altered(rows, p) ==
    EntryHash(rows[p].seq, rows[p].body, rows[p].prev_hash) # rows[p].entry_hash

Broken(rows, p) == \/ SequenceBreak(rows, p)
                   \/ WrongPredecessor(rows, p)
                   \/ Altered(rows, p)

(* Faulty variant: walk only the two newest entries. *)
BrokenRecently(rows) == {p \in DOMAIN rows : p + 2 > Len(rows) /\ Broken(rows, p)}

BrokenPositions(rows) == {p \in DOMAIN rows : Broken(rows, p)}

Reason(rows, p) == IF SequenceBreak(rows, p) THEN "sequence break"
                   ELSE IF WrongPredecessor(rows, p) THEN "wrong predecessor"
                   ELSE "altered"

Intact(rows) == BrokenPositions(rows) = {}

FirstBroken(rows) ==
    CHOOSE p \in BrokenPositions(rows) : \A q \in BrokenPositions(rows) : p <= q

Verify(rows) ==
    [ok               |-> Intact(rows),
     entries_checked  |-> Len(rows),
     head_hash        |-> ChainHead(rows).entry_hash,
     broken_entries   |-> {rows[p].seq : p \in BrokenPositions(rows)},
     first_broken_seq |-> IF Intact(rows) THEN 0 ELSE rows[FirstBroken(rows)].seq,
     reason           |-> IF Intact(rows) THEN "none" ELSE Reason(rows, FirstBroken(rows))]
=============================================================================
