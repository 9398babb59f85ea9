------------------------------- MODULE Import -------------------------------
(***************************************************************************)
(* cmd_import of coc/cli.py: a folder of files admitted to a case in one   *)
(* pass.  What the case holds is read once, at the start; each file is     *)
(* hashed, compared with that, and, unless it is a dry run, read a second  *)
(* time to be vaulted and then recorded.                                   *)
(***************************************************************************)
EXTENDS Casework

Importing(p, stage) == job[p].cmd = "import" /\ job[p].stage = stage

(* The rows are read as evidence, then attachments; one step here, since a  *)
(* recording between the two counts as one that came after.                 *)
StartImport(p, k, mode, dry) ==
    /\ k \in Opened
    /\ Start(p, [cmd |-> "import", stage |-> "walk", case |-> k, dry |-> dry,
                 mode |-> IF dry THEN "evidence" ELSE mode,  \* a dry run does not use it
                 file |-> 1, digest |-> NoContent, stored |-> NoContent,
                 known |-> RecordedIn(k), failed |-> FALSE,
                 seen |-> {}, drift |-> FALSE, moved |-> FALSE])
    /\ UNCHANGED <<tables, files>>

NextFile(j) == [j EXCEPT !.stage = "walk", !.file = @ + 1,
                         !.digest = NoContent, !.stored = NoContent]

(* The file is hashed: skipped when its content is known, reported and      *)
(* taken for known in a dry run, else about to be admitted.                 *)
HashFile(p) ==
    LET j == job[p]
        c == folder[j.file]
        s == [j EXCEPT !.seen = @ \cup {c}]
    IN  /\ Importing(p, "walk")
        /\ j.file <= Files
        /\ Proceed(p, IF c \in j.known THEN NextFile(s)
                      ELSE IF j.dry THEN NextFile([s EXCEPT !.known = @ \cup {c}])
                      ELSE [s EXCEPT !.stage = "hashed", !.digest = c])
        /\ UNCHANGED <<tables, files, spent>>

(* The file cannot be read. *)
HashFails(p) ==
    /\ Importing(p, "walk")
    /\ job[p].file <= Files
    /\ Proceed(p, NextFile([job[p] EXCEPT !.failed = TRUE]))
    /\ UNCHANGED <<tables, files, spent>>

(* ingest_evidence or attach opens the source again: what is vaulted is     *)
(* what is in the file now.                                                 *)
StoreSource(p) ==
    LET j == job[p]
        c == folder[j.file]
    IN  /\ Importing(p, "hashed")
        /\ Store(c)
        /\ Proceed(p, [j EXCEPT !.stage = "stored", !.stored = c,
                                !.drift = @ \/ c # j.digest])
        /\ UNCHANGED <<tables, folder, touched, spent>>

(* Faulty variant: a failing file is reported and not counted. *)
StoreFailsQuietly(p) ==
    /\ Importing(p, "hashed")
    /\ Proceed(p, NextFile(job[p]))
    /\ UNCHANGED <<tables, files, spent>>

(* Faulty variant: the except clause moves on, and so does the loop. *)
StoreFailsTwice(p) ==
    /\ Importing(p, "hashed")
    /\ Proceed(p, NextFile(NextFile([job[p] EXCEPT !.failed = TRUE])))
    /\ UNCHANGED <<tables, files, spent>>

(* The source or the vault raises an OSError or a StorageError; if it is    *)
(* the chmod, the file is at its address already.                           *)
StoreFails(p) ==
    /\ Importing(p, "hashed")
    /\ UNCHANGED vault \/ Store(folder[job[p].file])
    /\ Proceed(p, NextFile([job[p] EXCEPT !.failed = TRUE]))
    /\ UNCHANGED <<tables, folder, touched, spent>>

(* attach vaults the file before it finds that the item given by --evidence *)
(* is not of this case.                                                     *)
RecordFails(p) ==
    /\ Importing(p, "stored")
    /\ job[p].mode = "attachment"
    /\ Proceed(p, NextFile([job[p] EXCEPT !.failed = TRUE]))
    /\ UNCHANGED <<tables, files, spent>>

(* Faulty variant: what this run admits is not added to what is known. *)
RecordForgetting(p) ==
    LET j == job[p]
    IN  /\ Importing(p, "stored")
        /\ Record(j.case, j.mode, j.stored)
        /\ ProceedChanging(p, NextFile(j), [kind |-> "row", case |-> j.case])
        /\ UNCHANGED <<files, spent>>

(* What becomes known is the first digest, not the one recorded. *)
RecordFile(p) ==
    LET j == job[p]
    IN  /\ Importing(p, "stored")
        /\ Record(j.case, j.mode, j.stored)
        /\ ProceedChanging(p, NextFile([j EXCEPT !.known = @ \cup {j.digest}]),
                           [kind |-> "row", case |-> j.case])
        /\ UNCHANGED <<files, spent>>

EndImport(p) ==
    /\ Importing(p, "walk")
    /\ job[p].file > Files
    /\ Proceed(p, [job[p] EXCEPT !.stage = "done", !.known = {}])
    /\ UNCHANGED <<tables, files, spent>>

ImportStep(p) == \/ HashFile(p) \/ HashFails(p)
                 \/ StoreSource(p) \/ StoreFails(p)
                 \/ RecordFile(p) \/ RecordFails(p) \/ EndImport(p)

ImportJob == [cmd: {"import"}, stage: {"walk", "hashed", "stored", "done"}, case: Case,
              mode: {"evidence", "attachment"}, dry: BOOLEAN, file: 1..(Files + 1),
              digest: Content \cup {NoContent}, stored: Content \cup {NoContent},
              known: SUBSET Content, failed: BOOLEAN,
              seen: SUBSET Content, drift: BOOLEAN, moved: BOOLEAN]

-----------------------------------------------------------------------------
(* "Re-running skips anything already in the case, so you cannot            *)
(* accidentally create four item numbers for one document" (README.md:177).  *)
(* An import never records a content its case already holds, however often  *)
(* the folder has it and whoever recorded it, unless somebody recorded in   *)
(* the case since the import began (cli.py:310 reads the case once) or a    *)
(* file changed between its two readings (cli.py:329 and 349).              *)
OneItemPerContent ==
    [][\A p \in Process :
          RecordFile(p) /\ ~job[p].moved /\ ~job[p].drift =>
             job[p].stored \notin RecordedIn(job[p].case)]_vars

(* Exit code 0 means the folder is in the case: an import that ended        *)
(* without a failed file has left every content it hashed recorded and      *)
(* vaulted, whatever ran beside it, if no file changed between its readings *)
(* and nobody touched the vault.                                            *)
EndedImportIsComplete ==
    \A p \in Process :
       Importing(p, "done") /\ ~job[p].failed /\ ~job[p].dry /\ ~job[p].drift =>
          /\ job[p].seen \subseteq RecordedIn(job[p].case)
          /\ \A c \in job[p].seen \ touched : vault[c] = c
=============================================================================
