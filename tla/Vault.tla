------------------------------- MODULE Vault --------------------------------
(***************************************************************************)
(* The evidence vault of coc/storage.py: files kept under their own        *)
(* SHA-256.  Several processes store at once; each copies its source into  *)
(* a staging file, hashing as it goes, and then moves that file to its     *)
(* address.  SHA-256 is ideal, so a content is its own address.            *)
(*                                                                         *)
(* The file system is modelled by what the code relies on: each call is    *)
(* atomic, os.replace puts a whole file where there was one or none, a     *)
(* process may die between any two calls and leaves its files behind.      *)
(***************************************************************************)
EXTENDS Naturals, FiniteSets

CONSTANTS Process, Content,
          Altered,     \* bytes that are not those of any content
          Absent,      \* no file at an address
          NoContent,   \* digest not known yet
          MaxFaults,   \* bound: processes dying, chmods raising
          MaxChanges   \* bound: addresses changed from outside

ASSUME SentinelAssumption == {Altered, Absent, NoContent} \cap Content = {} /\ Altered # Absent
ASSUME BoundAssumption == MaxFaults \in Nat /\ MaxChanges \in Nat

VARIABLES vault,     \* the file at each address
          step,      \* per process: how far its store_stream has come
          digest,    \* per process: what it has hashed
          leftover,  \* staging files whose process is gone
          faults,
          touched    \* history: addresses changed from outside the application

fileVars  == <<vault, step, digest, leftover, faults>>
vaultVars == <<fileVars, touched>>

(* mkstemp creates its files 0600; _STORED_FILE_MODE is 0444. *)
File == [bytes: Content \cup {Altered}, mode: {"0600", "0444"}]

ASSUME AbsentAssumption == Absent \notin File

VaultInit == /\ vault = [c \in Content |-> Absent]
             /\ step = [p \in Process |-> "idle"]
             /\ digest = [p \in Process |-> NoContent]
             /\ leftover = 0
             /\ faults = 0
             /\ touched = {}

-----------------------------------------------------------------------------
At(p, from, to) == step[p] = from /\ step' = [step EXCEPT ![p] = to]

Present(c) == vault[c] # Absent

(* A staging file exists from mkstemp until it is moved or unlinked. *)
Staging == {p \in Process : step[p] \in {"copying", "hashed", "moving"}}

(* Faulty variant: the next store starts with the last one's digest. *)
Remember(p) == UNCHANGED digest

Forget(p) == digest' = [digest EXCEPT ![p] = NoContent]

BeginStore(p) ==
    /\ At(p, "idle", "copying")
    /\ UNCHANGED <<vault, digest, leftover, faults>>

(* Faulty variant: open the content address first and copy into it. *)
CopyInPlace(p, c) ==
    /\ At(p, "copying", "copying")
    /\ ~Present(c)
    /\ vault' = [vault EXCEPT ![c] = [bytes |-> Altered, mode |-> "0600"]]
    /\ UNCHANGED <<digest, leftover, faults>>

(* _hash_while_copying, to the end of the source and the fsync. *)
CopyDone(p, c) ==
    /\ At(p, "copying", "hashed")
    /\ digest' = [digest EXCEPT ![p] = c]
    /\ UNCHANGED <<vault, leftover, faults>>

(* Faulty variant: no except clause, the staging file stays. *)
StoreFailsKeeping(p) ==
    /\ step[p] \in {"copying", "moving"}
    /\ step' = [step EXCEPT ![p] = "idle"]
    /\ leftover' = leftover + 1
    /\ Forget(p)
    /\ UNCHANGED <<vault, faults>>

(* Faulty variant: clean up the destination along with the staging file. *)
StoreFailsRemoving(p) ==
    /\ step[p] \in {"copying", "moving"}
    /\ step' = [step EXCEPT ![p] = "idle"]
    /\ vault' = IF digest[p] = NoContent THEN vault ELSE [vault EXCEPT ![digest[p]] = Absent]
    /\ Forget(p)
    /\ UNCHANGED <<leftover, faults>>

(* Reading the source, writing the copy or moving it raises: the except     *)
(* clause unlinks the staging file and raises again.                        *)
StoreFails(p) ==
    /\ step[p] \in {"copying", "moving"}
    /\ step' = [step EXCEPT ![p] = "idle"]
    /\ Forget(p)
    /\ UNCHANGED <<vault, leftover, faults>>

(* destination.is_file(): the copy is dropped in favour of what is there. *)
Deduplicate(p) ==
    /\ At(p, "hashed", "stored")
    /\ Present(digest[p])
    /\ UNCHANGED <<vault, digest, leftover, faults>>

NotThere(p) ==
    /\ At(p, "hashed", "moving")
    /\ ~Present(digest[p])
    /\ UNCHANGED <<vault, digest, leftover, faults>>

(* os.replace: the staging file becomes the file at the address, its mode   *)
(* with it, whatever came there since is_file was asked.                    *)
Replace(p) ==
    /\ At(p, "moving", "replaced")
    /\ vault' = [vault EXCEPT ![digest[p]] = [bytes |-> digest[p], mode |-> "0600"]]
    /\ UNCHANGED <<digest, leftover, faults>>

(* Faulty variant: the file is left as mkstemp made it. *)
LeaveMode(p) ==
    /\ At(p, "replaced", "stored")
    /\ UNCHANGED <<vault, digest, leftover, faults>>

(* os.chmod: by path, so on whatever file is at the address by now. *)
Chmod(p) ==
    /\ At(p, "replaced", "stored")
    /\ Present(digest[p])
    /\ vault' = [vault EXCEPT ![digest[p]].mode = "0444"]
    /\ UNCHANGED <<digest, leftover, faults>>

(* chmod raises: the file is at its address, its mode as it was. *)
ChmodFails(p) ==
    /\ step[p] = "replaced"
    /\ step' = [step EXCEPT ![p] = "idle"]
    /\ IF Present(digest[p]) THEN faults < MaxFaults /\ faults' = faults + 1
                             ELSE UNCHANGED faults
    /\ Forget(p)
    /\ UNCHANGED <<vault, leftover>>

(* The caller of store_stream is done with what it returned. *)
EndStore(p) ==
    /\ At(p, "stored", "idle")
    /\ Forget(p)
    /\ UNCHANGED <<vault, leftover, faults>>

CrashStore(p) ==
    /\ faults < MaxFaults
    /\ step[p] # "idle"
    /\ step' = [step EXCEPT ![p] = "idle"]
    /\ leftover' = leftover + (IF p \in Staging THEN 1 ELSE 0)
    /\ faults' = faults + 1
    /\ Forget(p)
    /\ UNCHANGED vault

StoreStep(p) == /\ \/ \E c \in Content : CopyDone(p, c)
                   \/ StoreFails(p)
                   \/ Deduplicate(p)
                   \/ NotThere(p)
                   \/ Replace(p)
                   \/ Chmod(p)
                   \/ ChmodFails(p)
                /\ UNCHANGED touched

-----------------------------------------------------------------------------
(* Somebody with access to the disk (docs/DESIGN.md "In scope"). *)

OutsideChange(c, file) ==
    /\ Cardinality(touched) < MaxChanges
    /\ vault' = [vault EXCEPT ![c] = file]
    /\ touched' = touched \cup {c}
    /\ UNCHANGED <<step, digest, leftover, faults>>

AlterFile(c)  == Present(c) /\ OutsideChange(c, [bytes |-> Altered, mode |-> "0600"])
RemoveFile(c) == Present(c) /\ OutsideChange(c, Absent)

-----------------------------------------------------------------------------
VaultTypeOK == /\ vault \in [Content -> File \cup {Absent}]
               /\ step \in [Process -> {"idle", "copying", "hashed", "moving",
                                        "replaced", "stored"}]
               /\ digest \in [Process -> Content \cup {NoContent}]
               /\ \A p \in Process : step[p] \in {"idle", "copying"} <=> digest[p] = NoContent
               /\ leftover \in Nat
               /\ faults \in 0..MaxFaults
               /\ touched \subseteq Content

(* "The path is the integrity claim": a file at an address nobody changed   *)
(* from outside holds exactly the bytes of that address, and at no moment   *)
(* part of them (storage.py:7, docs/STANDARDS.md:132-133).                  *)
AddressIsContent == \A c \in Content \ touched : Present(c) => vault[c].bytes = c

(* Without a fault, a file is read-only unless the store that moved it is   *)
(* just about to make it so (storage.py:16).                                *)
SealedUnlessInFlight ==
    faults = 0 =>
       \A c \in Content \ touched :
          Present(c) => \/ vault[c].mode = "0444"
                        \/ \E p \in Process : step[p] = "replaced" /\ digest[p] = c

(* Staging files outlive their call only where a process died in it; every  *)
(* failing path unlinks its own.                                            *)
LeftoverOnlyByFault == leftover <= faults
=============================================================================
