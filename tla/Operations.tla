----------------------------- MODULE Operations -----------------------------
(***************************************************************************)
(* Imports, reports and backups of one workspace at the same time, among   *)
(* web uploads, handovers and sign-ins, with commands that die and changes *)
(* from outside.                                                           *)
(***************************************************************************)
EXTENDS Import, Report, Backup

Next == \/ Others
        \/ \E p \in Process :
              \/ \E k \in Case, mode \in {"evidence", "attachment"}, dry \in BOOLEAN :
                    StartImport(p, k, mode, dry)
              \/ \E k \in Case : StartReport(p, k)
              \/ \E deep \in BOOLEAN : StartBackup(p, deep)
              \/ ImportStep(p) \/ ReportStep(p) \/ BackupStep(p)

Spec == Init /\ [][Next]_vars

-----------------------------------------------------------------------------
TypeOK == /\ CaseworkTypeOK
          /\ \A p \in Process :
                job[p] \in {Idle} \cup Upload \cup ImportJob \cup ReportJob \cup BackupJob
=============================================================================
