------------------------------- MODULE Backup -------------------------------
(***************************************************************************)
(* cmd_backup of coc/cli.py: verify the live chain, VACUUM INTO a copy,    *)
(* copy the vault file by file, write a manifest, verify the copy, compare *)
(* the two verdicts and, with --deep, re-hash the copied evidence.  The    *)
(* workspace stays open to everybody all the while.                        *)
(***************************************************************************)
EXTENDS Casework

BackingUp(p, stage) == job[p].cmd = "backup" /\ job[p].stage = stage

NoFiles == [c \in Content |-> Absent]
NoCopy  == [log |-> << >>, evidence |-> 0, attachments |-> 0]

(* verify_chain of the live log.  The rows it read are kept as history; the *)
(* command keeps the verdict, Chain!Verify(source).                         *)
StartBackup(p, deep) ==
    /\ Start(p, [cmd |-> "backup", stage |-> "verified", deep |-> deep, source |-> log,
                 copy |-> NoCopy, files |-> NoFiles, walk |-> {},
                 manifest |-> [evidence |-> 0, attachments |-> 0],
                 result |-> "none", moved |-> FALSE])
    /\ UNCHANGED <<tables, files>>

(* The tables only grow, so the copy of one is known by its length. *)
DatabaseNow == [log |-> log, evidence |-> Len(evidence), attachments |-> Len(attachments)]

(* VACUUM INTO reads one snapshot.  Then the walk of the vault begins; the  *)
(* files it is sure to meet are those there now.                            *)
Snapshot(p) ==
    /\ BackingUp(p, "verified")
    /\ Proceed(p, [job[p] EXCEPT !.stage = "copying", !.copy = DatabaseNow,
                                 !.walk = {c \in Content : vault[c] # Absent}])
    /\ UNCHANGED <<tables, files, spent>>

(* rglob yields files as it finds them; one added meanwhile may be met. *)
CopyFile(p, c) ==
    LET j == job[p]
    IN  /\ BackingUp(p, "copying")
        /\ vault[c] # Absent /\ j.files[c] = Absent
        /\ Proceed(p, [j EXCEPT !.files[c] = vault[c]])
        /\ UNCHANGED <<tables, files, spent>>

(* Faulty variant: the vault is copied first and the database after it. *)
SnapshotLast(p) ==
    LET j == job[p]
    IN  /\ BackingUp(p, "copying")
        /\ \A c \in j.walk : j.files[c] # Absent \/ vault[c] = Absent
        /\ Proceed(p, [j EXCEPT !.stage = "copied", !.walk = {}, !.copy = DatabaseNow,
                                !.source = log])
        /\ UNCHANGED <<tables, files, spent>>

CopyEnds(p) ==
    LET j == job[p]
    IN  /\ BackingUp(p, "copying")
        /\ \A c \in j.walk : j.files[c] # Absent \/ vault[c] = Absent
        /\ Proceed(p, [j EXCEPT !.stage = "copied", !.walk = {}])
        /\ UNCHANGED <<tables, files, spent>>

(* Faulty variant: compare the heads and the lengths only. *)
SameHead(source, copy) ==
    LET s == Chain!Verify(source)  c == Chain!Verify(copy)
    IN  c.head_hash = s.head_hash /\ c.entries_checked = s.entries_checked

(* Faulty variant: a broken chain makes no good backup. *)
SameAndSound(source, copy) == SameHead(source, copy) /\ Chain!Verify(copy).ok

(* "The question here is fidelity, not validity." *)
Faithful(source, copy) ==
    LET s == Chain!Verify(source)  c == Chain!Verify(copy)
    IN  /\ c.head_hash = s.head_hash
        /\ c.ok = s.ok
        /\ c.entries_checked = s.entries_checked

(* The manifest counts the live tables; the copy is verified and compared.  *)
Compare(p) ==
    LET j    == job[p]
        same == Faithful(j.source, j.copy.log)
    IN  /\ BackingUp(p, "copied")
        /\ Proceed(p, [j EXCEPT
              !.manifest = [evidence |-> Len(evidence), attachments |-> Len(attachments)],
              !.stage    = IF same /\ j.deep THEN "compared" ELSE "done",
              !.result   = IF ~same THEN "unfaithful" ELSE IF j.deep THEN "none" ELSE "verified"])
        /\ UNCHANGED <<tables, files, spent>>

(* --deep: rehash raises a StorageError where the copy has no such file,    *)
(* which ends the command; any digest that differs makes it fail.           *)
DeepCheck(p) ==
    LET j    == job[p]
        rows == {evidence[e].sha256 : e \in DOMAIN evidence}
    IN  /\ BackingUp(p, "compared")
        /\ Proceed(p, [j EXCEPT !.stage = "done",
              !.result = IF \E c \in rows : j.files[c] = Absent THEN "error"
                         ELSE IF \E c \in rows : j.files[c] # c THEN "damaged"
                         ELSE "verified"])
        /\ UNCHANGED <<tables, files, spent>>

BackupStep(p) == \/ Snapshot(p)
                 \/ \E c \in Content : CopyFile(p, c)
                 \/ CopyEnds(p) \/ Compare(p) \/ DeepCheck(p)

Count == 0..MaxEntries
BackupJob == [cmd: {"backup"}, stage: {"verified", "copying", "copied", "compared", "done"},
              deep: BOOLEAN, source: Seq(Chain!Entry),
              copy: [log: Seq(Chain!Entry), evidence: Count, attachments: Count],
              files: [Content -> Content \cup {Damaged, Absent}], walk: SUBSET Content,
              manifest: [evidence: Count, attachments: Count],
              result: {"none", "unfaithful", "verified", "error", "damaged"}, moved: BOOLEAN]

-----------------------------------------------------------------------------
Verified(p) == BackingUp(p, "done") /\ job[p].result = "verified"

(* "A backup nobody checked is not a backup" (cli.py:507): a backup that    *)
(* reports success has, beside every evidence and attachment row of its     *)
(* database, the file of that row, although rows and files were copied at   *)
(* different moments while others recorded; a deep one is right about its   *)
(* evidence even where somebody changed the vault.                          *)
VerifiedBackupIsWhole ==
    \A p \in Process : Verified(p) =>
       LET j == job[p]
           items == {evidence[e].sha256 : e \in 1..j.copy.evidence}
           other == {attachments[a].sha256 : a \in 1..j.copy.attachments}
       IN  /\ \A c \in (items \cup other) \ touched : j.files[c] = c
           /\ j.deep => \A c \in items : j.files[c] = c

(* "Only a divergence is a failure" (cli.py:576), and every divergence is:  *)
(* if the live chain was sound when it was verified, a copy that passes     *)
(* holds the same log row for row, also when somebody edited the live log   *)
(* between that verification and the snapshot.                              *)
FaithfulIsSame ==
    \A p \in Process : Verified(p) /\ Chain!Intact(job[p].source) =>
       job[p].copy.log = job[p].source

(* With nobody else at work a backup succeeds, of a broken log too ("the    *)
(* damaged log is itself the evidence", cli.py:574), and its manifest       *)
(* counts what it holds; only a vault file changed earlier can make the     *)
(* deep check refuse.                                                       *)
QuietBackupPasses ==
    \A p \in Process : BackingUp(p, "done") /\ ~job[p].moved =>
       LET j == job[p]
       IN  /\ Verified(p) \/ (j.deep /\ touched # {})
           /\ j.manifest = [evidence |-> j.copy.evidence, attachments |-> j.copy.attachments]
=============================================================================
