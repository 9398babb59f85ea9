# A formal model of KEENEYE

KEENEYE (`coc/`) keeps digital evidence under chain of custody: files in a
content-addressed vault, rows in a SQLite database, and an append-only,
hash-chained log of everything that was done. This directory holds TLA+ modules
translated from that code, the TLC configurations that check them on small
instances, and TLAPS proofs of the theorems that matter most.

## The system

| Component | State | Operations | Talks to |
|---|---|---|---|
| hash chain, `coc/chain.py` | rows of `custody_log` | `append_entry`, `head`, `verify`, `entries` | called by every service operation, inside its transaction |
| database, `coc/db.py` | schema, triggers, `user_version`, the write lock | `connect`, `immediate_transaction`, `migrate`, `initialize` | one connection per CLI process and per web thread |
| vault, `coc/storage.py` | files under their SHA-256, staging files, modes | `store_stream`, `store_file`, `rehash`, `open_stored`, `purge_staging` (never called) | service, downloads, backup |
| intake and verification, `coc/service.py` | `evidence`, `attachments` | `ingest_evidence[_stream]`, `attach`, `verify_evidence`, `verify_case` | vault first, then one transaction |
| custody transfer, `coc/service.py` | none of its own: everything is read off the log | `transfer_custody`, `accept_custody`, `pending_transfer`, `current_holder`, `record_access` | log |
| accounts, `coc/service.py`, `coc/auth.py` | `users` | `create_user`, `authenticate`, `set_user_active` | log, web session |
| cases, statistics | `cases` | `open_case`, `close_case`, `statistics` | log |
| report, `coc/report.py` | a PDF outside the system | `build_case_report` | reads everything, pins the chain head, logs itself |
| command line, `coc/cli.py` | backups, imports | `backup`, `import`, wrappers of the service | service, vault, database |
| web, `coc/web/` | signed session cookie, CSRF token | JSON API, downloads | service, one thread per request |
| browser shell, `static/js/` | current scene, case, token | navigation, overlapping requests | web API |

What is hard here: several processes and threads write one database and one
vault; calls read before they take the write lock and write on what they read;
the file and its row are written separately; processes die between any two
steps; COMMIT may raise; the log is changed behind the application's back, which
is what the chain is for. `PROJECT.json` lists each hazard at its line with the
properties that would catch it.

What makes each part correct: the chain never forks and names what was changed;
a change and its entry are committed together; a caller is told the truth about
its call; an address holds the bytes it names, and a recorded item its file;
custody moves only by the acceptance of the named recipient; one administrator
stays active; the tables say what the log says; what the end of an import, a
report or a backup tells its user is true of the workspace, whatever ran beside
it; a change is logged in the name of whoever saw the page it was made from.

## The modules

| Module | Models |
|---|---|
| `CustodyChain` | `chain.py` as pure operators: entries, digests, `append_entry`'s record, `verify`'s verdict |
| `AppendOnlyLedger` | abstract: what the log promises its callers (record once, answer truthfully, never change) |
| `CustodyLog` | writers, `immediate_transaction`, `append_entry`, busy timeout, ROLLBACK, failing COMMIT, crash; uses `CustodyChain` |
| `CustodyLogProofs` | its theorems |
| `TamperEvidence` | raw changes of the stored log among appends and reports; uses `CustodyChain` |
| `PositionFacts` | two theorems: a nonempty set of positions has a least and a greatest member |
| `TamperEvidenceProofs` | theorems of `TamperEvidence` |
| `CustodyTransfer` | handover and acceptance by concurrent sessions |
| `CustodyTransferProofs` | its theorems |
| `Vault` | `store_stream` call by call, by several processes, with crashes and outside changes |
| `Intake` | extends `Vault`: ingest, attach, verify, item numbers, their rows and entries |
| `IntakeProofs` | theorems of `Vault` and `Intake` |
| `Accounts` | account operations by concurrent web clients |
| `AccountsProofs` | its theorems |
| `Casework` | the workspace the long commands share: log, rows, vault, the folder an import reads; uploads, handovers, sign-ins, deaths and changes from outside; uses `CustodyChain` |
| `Import`, `Report`, `Backup` | each extends `Casework` with one command of several steps: `cmd_import`, `build_case_report`, `cmd_backup` |
| `Operations` | their composition: any of these commands at the same time |
| `OperationsProofs` | theorems of `Casework`, `Import`, `Report` and `Backup` as `Operations` composes them |
| `Sessions` | session cookie and CSRF token, what each page remembers, requests and answers under way, lost and overtaken |
| `SessionsProofs` | its theorems |
| `MC*` | constants and symmetry for TLC |

State and code. In `CustodyLog`, a writer is a connection and `pc` is its place
in `immediate_transaction`; `stagedRow` and `stagedLog` are the statements of its
open transaction, `rows` and `log` what is committed. `BeginImmediate`,
`WriteRow`, `ReadTail`, `InsertEntry`, `Commit` are lines `db.py:207`, the
caller's INSERT, `chain.py:108`, `chain.py:121` and `db.py:213`. `Raise` is the
`except` clause, `CommitRaises` a COMMIT that raises outside it: the thread's
connection stays in its transaction with the lock (`"stuck"`), its later calls
fail at once (`BeginWithin`) and everybody else times out, until the process
ends (`Crash`). The modules above the log (`CustodyTransfer`, `Intake`,
`Accounts`) write row and entry in one step. `CustodyLog` is the reason they
may: its transactions are atomic and serial. What they read *before* their
transaction is a step of its own.

In `Vault`, `step[p]` is how far process `p` is in `store_stream`: `copying` and
`hashed` have a staging file, `moving` has found no file at the address,
`replaced` is between `os.replace` and `chmod`. `vault` maps each address to its
file's bytes and mode. A content stands for its own SHA-256.

In `Casework`, `job[p]` is the command that process `p` runs: its local variables
in the code, the stage it has reached, and history that only properties read
(`moved`: did anybody commit something meanwhile that this command depends on;
`seen`, `drift`: what an import hashed, and whether a file changed between its
two readings; `source`: the rows a backup verified first). The steps of a command
are separated where the code touches something shared: an import reads what the
case holds, then hashes, vaults and records file by file; a report reads items,
attachments, entries and chain head one after the other, asks for holders while
it lays out, writes, and logs; a backup verifies, snapshots, copies file by file,
counts for the manifest, compares, and re-hashes. A transaction is one step
(`CustodyLog`) and so is the storing of one file (`Vault`).

In `Sessions`, `cookie` is the browser's one session, `tab` the pages: `shown` is
`state.examiner` of `boot.js`, `token` is `state.csrf` of `api.js`. `flight` holds
requests, with the cookie they left with, and answers, with the session they
bring: Flask keeps no session on the server, so a request is judged by the
cookie it carries. `Serve` is one handler with `check_csrf` and `login_required`
before it; `Deliver`, `Lose` and `Abort` are what becomes of a message, and
`SentAway` is the 401 that `goto` takes for the end of the session. A sign-in
changes a page in two steps: `request` keeps the token as the answer arrives
(`"turned"`), and `Enter` is `enterVault`, once the key has stopped moving; `shown`
is then the examiner the page is about to show. No change can be made from a
page in between.

A definition commented "Faulty variant" is no part of a specification. Each is a
plausible mistake in the definition after it, and the `mutants` of
`PROJECT.json` put it in that definition's place to show that the property named
there would notice.

## Abstractions and assumptions

- SHA-256 is ideal: a digest is what was hashed, in full. The twelve chained
  columns beside `seq` are one value, the body.
- SQLite: BEGIN IMMEDIATE takes the single write lock or raises after the busy
  timeout; open transactions are private; COMMIT publishes everything or
  raises having published nothing; a dead process loses transaction and lock. A
  disk that loses committed pages, and a COMMIT that raises *after* becoming
  durable, are outside the model. So is a service call that raises after its
  COMMIT, while reading back the row it returns (`service.py:347`, `525`, `714`):
  its caller sees an exception for work that is recorded. What `ImplementsLedger`
  says of answers is said of calls up to their COMMIT.
- File system: each call is atomic, `os.replace` included. An import whose store
  fails may leave the file at its address, as a chmod that raises does. Loss of an unsynced
  directory entry at a power cut is not modelled.
- `TamperEvidence` has the changes the tests, `tools/tamper_demo.py` and
  `docs/DESIGN.md:13` name: edit, delete, truncate, reorder, delete and renumber.
  Recomputing the digests of a suffix is out of the design's scope
  (`docs/DESIGN.md:18-20`). Issuing a report is one step: verification and the
  entry logged for it are not separated there.
- In `Casework` every file and every row is one of a few contents; case, mode and
  content are what the properties tell apart. Walking the folder, the report's
  layout and the manifest's sizes are left out. A copy of a vault file is one
  step: SQLite and the kernel may still fail a copy, which ends the command
  (`Dies`).
- In `Sessions` a browser applies `Set-Cookie` and runs the page's handler in one
  step, and a request leaves with the cookie of that moment. The twelve hours of
  a session and the deletion of accounts (there is none) are left out; whether an
  account is active is the matter of `Accounts`.
- Time is not modelled.
- The actor of a call is any examiner: the CLI takes `--as`, the web takes the
  session. In `Accounts` a session's user is looked up without its active flag,
  as `current_examiner` does.

## The runs

| Run | Instance | Shows |
|---|---|---|
| `custody_log` | 3 connections, 3 calls (2 with a row), 2 faults | `ChainIntact`, `RowIffEntry`, `ImplementsLedger`, and, under fairness, `EveryCallEnds`, `LockReleased` |
| `tamper` | 4 entries, 2 bodies, 2 raw changes, 1 report | nothing false verifies; a pinned head pins the prefix; edit and deletion are named exactly; damage stays |
| `tamper_report_claim` | as above | violation: "any alteration invalidates every entry after it" |
| `transfer` | 3 examiners, 2 sessions, 1 item, 6 entries | only the named recipient accepts; the holder changes by acceptance; pending transfers are right unless an acceptance was overtaken |
| `transfer_pending` | as above | violation of `pending_transfer`'s docstring by an overtaken acceptance |
| `intake` | 2 processes, 2 contents, 2 cases, 2 entries, 1 fault, 1 outside change | address holds its content; files sealed; no litter but after a fault; every row has its file; automatic numbers contiguous; verdicts true |
| `intake_sealed` | 1 content, 1 fault | violation: a recorded item's file left writable |
| `intake_number` | 1 case, explicit numbers 1 and 2 | violation: the automatic number is taken |
| `accounts` | 2 users, 2 browsers, 7 entries | an administrator stays active; the users table follows the log |
| `operations` | 2 processes, 2 commands, 2 contents, a folder of 2 files, 4 entries, 1 sign-in, 1 fault | an import that ends well is complete and duplicates nothing; a report agrees with itself, never prints a holder its own entries show to be out of date, and agrees with the workspace if left alone; a backup that ends well has a file for every row and the log it verified, and is not refused without a reason |
| `sessions` | 2 tabs, 2 examiners, 4 tokens, 2 messages under way, 1 lost | changes are made in the name shown; signed out stays signed out; a page that boots undisturbed is current |
| `session_sign_out` | as above, none lost | violation: the gate is shown and the session stays |

Why the bounds are enough. Two writers are what a fork needs and a third can
come between them; two faults let a second one hit what the first left behind.
Four entries have a first, a last and a middle pair to edit, delete or exchange,
and two changes can try to hide one another. Six entries of one item allow two
handovers, two acceptances and another entry; items do not interact. Two
processes on two contents give every meeting of two stores at one address; a
third would only repeat a role; one fault and one outside change are the ones
each property excludes or survives, and two cases tell per-case numbering from
overall numbering. In `intake` all numbers are automatic; explicit ones are in
`intake_number`. Seven account entries hold two creations, two logins, both
deactivations and a restoration. In `operations` the properties are about what
one other actor does during a command, so two commands are enough, and each run
of two is any pair: two imports of one folder, a backup during an import, a
report during an upload. Two files with two contents give a duplicate inside the
folder, a file that changes between its readings and a content known from
before. Four entries are the case, an item, its handover and its acceptance, or
two items and something after them; one case suffices, since nothing a command
reads mixes cases but the chain, which `MaxSignIns` gives an entry of none. One
fault is a death, a forged entry, a changed vault file or a changed source, each
of which the properties survive or except. Actions of others that no report or
backup could notice are left out (`Watched`), which loses no behaviour of a
command. In `sessions` a fork of sessions takes two tabs, a stale token a second
sign-in, and a late answer one message beside the one it overtakes; four tokens
let a first page, two sign-ins and one page after a sign-out have their own.
Symmetry is used only over sets that nothing
orders, and never with a liveness property. `CHECK_DEADLOCK FALSE` is set
because the bounds on calls and entries really end every behaviour.

Fairness. `FairSpec` assumes weak fairness of each writer's own next step. A
live thread runs on, and one waiting at BEGIN has the 30 s busy timeout
(`db.py:140`), so some step of it stays enabled and is taken. Nothing is assumed
of faults, of the start of calls, or of who gets the lock. `EveryCallEnds` and
`LockReleased` need no more; `LockReleased` excepts the connection whose COMMIT
raised, since that lock stays until the process ends.

## The proofs

Every invariant and every action property of the passing runs, and the
refinement, is a theorem: the run shows it on its instance, the proof for all
values of the constants. Few of those invariants are inductive as they stand.
Each inductive invariant was first checked by TLC on the instance of its run,
then proved with one lemma per action. Where a section below names no
assumption, the proof rests on the named `ASSUME`s of the module alone: that
sentinels are no members of the sets they stand beside, and that bounds are
numbers.

`CustodyLogProofs` holds for any sets of connections and calls and any number of
faults, from the named assumptions of `CustodyLog` (the sentinels are no
connection and no call, calls with a row are calls, the bound is a number).
`ChainIntact` and `RowIffEntry` are not inductive: nothing in them says that the
tail a writer has read is still the tail when it commits. `IndInv` adds

- `HolderInv`: the lock's holder is exactly the writer inside a transaction;
- `StagedInv`: what that writer has read and staged is built on the current head;
- `OwnerInv`: a running call belongs to one writer;
- `StatusInv`: a call is in the log only once committed, so answers are true.

Lemma `AppendKeepsIntact` is the fact about `chain.py` on which the rest stands:
appending the entry `append_entry` builds on the current head keeps `verify`
content. `IndInvNext` goes action by action. From it follow `TypeCorrect`,
`ChainNeverForks` and `ChangeAndEntryTogether`, and, with `LogStep` (only Commit
touches the log), the refinement `LedgerImplemented`: Commit maps to `Record`,
answers to `Confirm` and `Refuse`, the rest stutters. That committed entries stay
as they are is part of it, `Record` being the ledger's only way to change.

`AccountsProofs` proves `AdminAlwaysActive` and `StatusIsLogged` for any number
of users, browsers and entries. The strengthening is `CallInv`: the account a
call under way is about exists and its remembered role is still its role. The
remembered active flag is *not* in it, and need not be: `set_user_active` counts
the other administrators under the write lock.

`CustodyTransferProofs` proves `RecipientAccepts` and `HolderMovesByAcceptance` (and
`TransferTyped`) for any items, examiners, sessions and bound on the log; it
assumes only that `Nobody` is no examiner. `accept_custody` writes on a read made
before the lock, so the invariant cannot speak of the pending transfer of the
moment. `AcceptingAnswers` says what does last: the position a call under way has
read still holds a handover of its item to its caller, because entries stay
where they are. `HandoversNamed` adds that only ingested items are handed over;
with it, whatever has a holder is ingested, and no second ingest can move it.
`LatestIn` and `LatestAdded` are the facts about `ORDER BY seq DESC LIMIT 1`.

`PendingIsUnaccepted` and `AcceptedOnce` are about items nobody raced on. `RaceInv`
adds `ReadsCurrent`: a call under way rests on the pending transfer of this
moment unless its item is marked as raced. It holds because whoever writes about
an item marks it while another session is between read and write
(`PendingAfterHandover`, `PendingAfterAcceptance`, `PendingKept` say what each
write does to the pending transfer), and it is what keeps a second acceptance of
one handover out.

`TamperEvidenceProofs` is for logs of any length, any bodies and any number of
raw changes. `IndInv` says that every row of the table carries the two digests of
some row the application wrote (`DigestsWritten`), for a raw change moves rows,
and edits bodies and numbers, but makes no digest; that what was written carries
its own digest (`WrittenSound`); that numbers ascend (`InSeqOrder`), which keeps a
deletion with renumbering inside the type; and that a report pinned what it saw
(`PinsSound`). A row that `verify` accepts carries its own digest, so it *is* the
row that was written with it: `NothingFalseVerifies`. `PrintedHeadPins` compares two
tables that verify: were they different below an equal digest, take the
greatest place where they differ (`GreatestExists`) and the entry after it has
two predecessors with one digest. That is how an induction along the chain is
put, induction theorems being out of reach. `EditNamed`, `GapNamed` and
`DamageRemains` are computations of `verify` on the changed table and need
`IndInv` for types only.

`IntakeProofs` is for any number of processes, contents, cases, faults and outside
changes; it needs of the model that `Absent` is no file. `StoredIsThere` says that a
store about to return has its file in the vault, so the row written next has it
too: nothing removes a file but somebody outside, who is remembered in `touched`
(`FilesStay`). `ChecksNameRows` and `FindingCurrent` say that a verification under way
is of a row, and that its result is what reading again would give unless
the file was changed since. `NumbersContinue` is the count behind
`NumbersLeaveNoGap`: the next number is one more than the greatest, and as
many as there are items.

`SessionsProofs` proves `PostsNamed` (and `SessionsTyped`) for any number of tabs,
examiners, messages under way and messages lost. `PostsActAsShown` looks only at
requests under way; what makes it true is where tokens come from and where they
go. `Claims(u, n)` says that somebody takes token `n` for one of `u`'s sessions:
the browser, a message carrying the session, a page that shows `u` or is about
to, or a change on its way. `OwnerInv` says that a token has one owner, `FreshInv` that the next
token has none yet. Every step is either `Quiet`, its claims being old ones, or
`Minting(w)`, with one new token that only `w` can claim, and `OwnerStep` shows
once that both keep the two. That a sign-in mints anew (`session.clear()` before
`csrf_token()`) is what the proof of `CreateSession` rests on.

`SignedOutHolds` and `BootedCurrent` rest on `LeavingInv`. `AloneInv`: a message marked
as alone is the only one under way, and the cookie is still the one it was sent
with. `AnswerInv`: what an answer that says ok brings. `GoneInv`: after a confirmed
sign-out nothing under way names an examiner, so no late answer can bring the
session back. Each step only has to show that it starts no message beside one
that is alone (`SentLeaves`, `ServeLeaves`, `HandledLeaves`).

`OperationsProofs` is for any processes, contents, cases, folders, commands and
faults, and assumes beside the sentinels that `MaxEntries` is not 0, since the
workspace starts with the entry of its first case. Its invariant has two halves.

- `Workspace` is what the tables promise each other at every moment: an entry about
  an item names a row and its case (`EntriesHaveRows`), every row has its entry and
  no second one (`RowsHaveEntries`, `LoggedOnce`), and the vault has what is recorded
  unless it was touched (`RowsHeld`, `FilesRight`; `StoresHeld` for a file that is
  stored and not yet recorded).
- `Sound` is what a command has noted, stage by stage. `ImportSound`: what it takes
  for known is recorded, and is everything recorded if nobody else recorded.
  `ReportSound`: what it has read lies inside its case, and, the entries being
  read after the rows, the rows have their entries among them; if nothing moved,
  all of it is what the tables say now. Its entries are the first ones of the
  case, any other being later than all of them (`FirstEntries`), and so a holder
  asked for later is the one they name last or newer than all of them
  (`HoldersFit`): `HoldersNotOutdated`. `BackupSound`: its copy is a part of the
  tables, every file of it is copied, still to be copied, or touched.

Several commands and every writer run beside each other, so most of the proof
would be that one's step does not spoil another's notes. It is done once. `Grows`
says what all steps have in common: log and tables only get longer, and untouched
files stay. `Kept(q)` says that another's step either marks `q`'s command as moved,
or leaves alone what that command depends on. `SoundKept` shows that the two
keep `Sound`, and what is left is one lemma per step for the command that takes
it. `BackupsFaithful` needs one thing more, `HeadPinsTable`: two sound logs of one
length with one head digest are equal, row for row, so the three values
`cmd_backup` compares do decide.

Only model-checked: `EveryCallEnds` and `LockReleased`, liveness under fairness,
which is out of the prover's reach.

## Disagreements met

The five violation runs, with the lines quoted in `PROJECT.json`: the report's
sentence about later entries; an acceptance that overtakes a newer handover; a
writable file after a fault and a repeated ingest; an automatic number that is
taken; a refused sign-out that leaves the session behind the gate.

Also noticed, with no run of its own:

- `README.md:100` says `coc chain verify` writes its result to the log;
  `cmd_chain_verify` (`cli.py:443-460`) does not.
- `transfer_custody` refuses a transfer "to the current holder" (`service.py:763`)
  but compares the recipient with the caller, so somebody else can hand an item
  to its holder.
- "Re-running skips anything already in the case" (`README.md:177`) holds of one
  import after another. Two imports of one folder at once record every file
  twice, since each reads the case once (`cli.py:310`); `OneItemPerContent`
  excepts exactly that.
- If a file changes between its two readings, the import adds the *first* digest
  to what it knows (`cli.py:366`): a later file with that content is skipped as
  "already in this case", which it is not.
- The manifest takes its counts from the live tables (`cli.py:552`) and its chain
  from the verification before the snapshot; under concurrent writers it may
  describe neither the copy nor any one moment.
- `backup --deep` announces "every vaulted file" (`cli.py:604`) and re-hashes the
  evidence of the *live* tables only: no attachment, and an error if an item was
  ingested since the copy.
- A report under concurrent writers may print a holder whose acceptance is not
  in its section 5 (`report.py:238`), though never one whom section 5 shows to
  be out of date (`HolderIsNotOutdated`), and its entry carries the time of its
  reads (`report.py:367`), which may be earlier than its predecessors'.
- After a sign-out the page goes on sending its old token (`api.js:24`): the next
  sign-in from it is refused until it is loaded again.
- A GET changes the log (`record_access`) and is not checked for a token: a view
  from an old page is logged in the name of the cookie's examiner. README and
  docs promise the name on the page only of changes, if at all.
- `get_case` takes a case number of digits only for a row id (`service.py:356`).

## Plan

Done, in order of importance: the log, tampering, transfer, vault and intake,
accounts, backup, report and import over a shared workspace, sessions; and the
theorems of each. Next:

1. Refinement: `Intake` and `CustodyTransfer` write row and entry in one step on the
   strength of `CustodyLog`, which is argued above and could be proved of a writer
   with several statements.
2. `Migration`: `initialize` by two processes, a crash between two ALTERs.
3. `Shell`: `loadCase` and `goto` of `boot.js` under answers out of order.

## Not modelled

Rendering and animation (`world.js`, `scenes/`), PDF layout, formatting of file
times (`metadata.py`), argument parsing, static assets and the vendored
three.js: they keep no state of record. `migrate` of `db.py` and the navigation of
`boot.js` are planned. `read_case` and `case_graph` of `api.py` read a case in
several statements for a page that is drawn and forgotten; nothing is recorded
from it.
