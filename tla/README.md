# The Central Scrutinizer in TLA+

A TLA+ model of the device-hosted web manager of this repository: the C server
under `src/` and `include/`, and the parts of its web client that carry state,
which a browser on the local network talks to. The modules here are translated
from the code; TLC checks them on small instances, and TLAPS proves the safety
properties for every size.

    tlasany M.tla                    parse a module
    tlc -config X.cfg M              check a run (PROJECT.json lists them)
    tlapm XProofs.tla                check the proofs of a *Proofs module

`PROJECT.json` maps every definition to the lines it translates, and lists the
runs, seeded bugs ("mutants") for every property of a passing run, the hazards
of the code and the findings.

## The system

One process holds everything: a UI thread that draws the handheld's screens,
CivetWeb's worker threads that run the HTTP handlers, and one reader thread per
terminal session. It shares files with Leaf's launcher and its daemon, and with
the process it forks to go into the background.

| component | code | state | operations | what must hold | model |
|---|---|---|---|---|---|
| trust store | `auth.c`, `server.c` | table of browsers in memory, `trusted-clients.json`, dirty flag, two time stamps | load, prune, touch, flush, upsert with eviction, remove, commit | memory and file agree up to late uses; nothing removed comes back | whole |
| pairing | `server.c`, `routes_auth.c` | PIN, QR token, failures and throttles of both | pair, authorize, revoke, revoke all, issue, poll | codes are single-use; guessing is bounded; revoked and refused tokens stay out | whole |
| metadata editor | `library_metadata.c`, `routes_library_metadata.c` | Leaf's SQLite overrides, the undo file and its `.new` | save, bulk save, undo | edits are whole and never stale; undo is of something applied; the lock is released | whole |
| background handoff | `app.c`, `daemon.c` | processes, two pipes, signals, the port, `daemon-state.json` | launch, stop the old server, fork, ready protocol, headless loop | one server at a time; the state file names it; waits end | whole |
| file store | `routes_upload.c`, `routes_file_ops.c`, `uploads.c`, `file_ops.c`, `art.c` | the card's folders, the staging folder | upload, overwrite, edit, rename, move, delete, replace art, make folder | no file vanishes unasked; nothing staged is left; a delete stays inside what it was given | whole |
| terminal | `terminal.c` | tickets and sessions under two kinds of mutex, a pty, a shell, a reader thread | ticket, attach, input, close, close all | a shell stays within reach; nothing is used after it is freed; turning off and stopping come to an end | whole |
| save states | `states.c`, `routes_states.c`, `save-states-view.tsx` | none; a listing that is being made | collect, group, list, delete an entry | each state is in one entry; deleting an entry spares the others | whole |
| ROM upload policy | `rom_policy.c`, `routes_upload.c`, `platforms.c`, `page.tsx`, `api.ts` | a browser's upload, the requests at the server | preview, batches, gate, promotion, summary | what lands is listed; a bundle has its game; a preview that passed holds | whole |
| Leaf daemon client | `jawaka_ipc.c`, `routes_jawaka.c` | none | scan_busy, rescan | ok means scanned; an answer comes | whole |
| log viewer | `routes_logs.c` | count of running tails | tail (list and download only read) | in order, once; at most four, slots come back | the tail |
| platforms and catalog | `platforms.c`, `catalog.c` | a fallback table filled on first use | discover, resolve a tag | each folder is browsed by one platform; a tag means one row | without the parser |
| library browser | `library.c`, `routes_library.c`, `paths.c` | none; `library.db`; a listing that is being made | list, merge cards, favourite, delete, rename | each file has one row; a request acts on the file that was shown | without sorting and paging |
| settings, paths, screens | `settings.c`, `paths.c`, `app.c`, `ui.c` | two flags | save; check a path; draw | | in part, see below |
| dot-file cleaner, CSRF, route plumbing | `dotclean.c`, `session.c`, `routes_*.c` | none | | | not modelled, see below |
| web client | `web/src` | a page's view of the server | batches, preview, deletion of states, paging, bulk planning | what it tells is what happened | in part |

How they interact: every protected route first asks the trust store whether the
cookie is good, which may prune, touch and flush it. Pairing writes the trust
store; "Revoke Trusted Browsers" replaces the code, the QR token and the store
at once. The app hands its port, its pairing state and the trust file to the
background child, which refuses to serve without a trusted browser. Leaf's
scanner rewrites the library under the metadata editor, whose handlers ask the
launcher's socket whether a scan runs. Replace Art and the uploads share the
staging and promotion functions. A listing's row paths are the handles of later
file requests. The settings screen turns the terminal off and closes its
sessions while workers may be attaching one.

What is hard here: handlers that take the server's mutex more than once;
`time(NULL)` read before the mutex; saves that fail, and crashes between a
commit and the rename beside it; files with fixed names shared by several
workers; a fork whose two sides each have a time-out; pids from a file; several
system calls in place of one; a blocking write under a lock; pointers kept after
a lock is given back; a daemon that scans for itself; listings made while cards
and files change. `PROJECT.json` lists these under "hazards", each at its line,
with the properties that would catch it.

## Modules

| module | models |
|---|---|
| `TrustStore` | `auth.c` and the store helpers of `server.c` as operators on a record of memory, file, dirty flag and time stamps |
| `TrustServer` | `server.c` and `routes_auth.c`: one action per critical section; a handler that takes the mutex twice is a thread with a program counter |
| `LibraryRows` | the overrides of `library_metadata.c` as operators: identity, conflicts, one row written, one row put back |
| `LibraryEdits` | the abstract specification: what the editor promises of the database |
| `LibraryServer` | save and undo as the workers run them: files, transaction, scans, crashes; implements `LibraryEdits` |
| `Handoff` | launches, the fork and ready protocol, the background process, signals, crashes |
| `FileStore` | the file requests over the files of one folder, one action per system call |
| `Folders` | the file requests over the folders of a card |
| `Terminal` | tickets, sessions, workers, readers, shells, and the close-all |
| `LogTail` | the live tail of a log |
| `Rescan` | a rescan asked of Leaf's daemon, and polled |
| `SaveStates` | the collection, listing and deletion of save states |
| `Platforms` | the discovery of platforms and the resolving of a tag |
| `Cards` | the library browser over two cards |
| `RomPolicy`, `RomUpload` | the policy as operators; the page's upload and the server's requests |
| `MC*` | instances for TLC |
| `TrustServerProofs`, `HandoffProofs`, `TerminalProofs`, `FileStoreProofs` | the theorems about the module of that name |
| `UploadProofs` | those about `RomPolicy` and `RomUpload` |
| `ContentProofs` | those about `LibraryServer`, `Platforms` and `SaveStates`, and about `MCContent`, which puts them together |
| `BrowseProofs` | those about `Cards` and `Folders`, and about `MCParts`, which puts them beside `Handoff` and `RomUpload` |
| `ServicesProofs` | those about `Rescan` and `LogTail`, and about `MCServices` |

Components that share no state are checked side by side in one run: a variable
`part` picks the one that runs, the others stay in one initial state.
`MCContent` has the metadata editor, the save states and the platforms;
`MCServices` the handoff, the log tail and the rescan, whose question is
liveness; `MCParts` the handoff again on three pids, the folders, the library
browser and the uploads. So the states of the parts are added, not multiplied.

### Trust and pairing

`trust` holds `g_trust_store` (`mem`), `trusted-clients.json` (`file`),
`g_trust_store_dirty` and the two time stamps behind the prune and flush
intervals. `pin` and `qr` hold the code and the QR token with their failures
and throttles, `thr` what each worker is in the middle of, `clock` is
`time(NULL)`. A code is represented by the number of its issue: what a browser
types is the current code or a wrong one, so collisions of random codes are
left out, and `CS_PAIRING_CODE`, which fixes the code for tests, is not set.
A trust token stands for itself and its hash.

`Start` is `cs_server_start` with every way it can fail; `Stop` joins the
workers and saves; `Die` is a process that ends anywhere, and its successor may
be of either kind. `PairByCode` and `PairByQr` are the first critical section of
`POST /api/pair`, `TrustBrowser` the second, `ReplyPaired` the count in the
answer; `RevokeRequest` and `RevokeToken` are `POST /api/revoke`; `Authorize`
is the cookie check of every other route. `CountTrusted`, `IssueQr`, `PollQr`
and `RevokeAll` are the screen's. Each save of the file may fail. The rename of
the file is atomic; power loss that undoes a rename (the file is not synced) is
not modelled. When several rows tie for eviction any of them may go.

`Lag` is how old a clock reading may be when its reader gets the mutex.

### Library metadata

A slot is one editable field of a game, or a folder's rank. `found` is what
Leaf's last scan left: the live card, the games that are listed, and the system
that most of the platform's games have. The second card's slots hold one value
per card, a folder's rank one per system, the empty name of a platform without
games (`NoSystem`) included.
`tx` is the transaction that holds SQLite's write lock, `undo` and `prepared`
the inodes that the two undo names lead to, `content` the request whose
snapshot an inode holds. A thread that opened an inode goes on writing it
wherever the name goes. `Scan` and `Reconcile` are Leaf's; an edit made in
Leaf's own launcher is represented by a request of another worker. Malformed
requests, which are refused before anything is touched, are left out; so is the
undo answer for another platform's tag, which changes nothing.

`LibraryEdits` is the promise of `cs_library_metadata.h`, stated of the rows
before and after and of nothing in between: a batch of changes takes effect at
once, over the values its sender was shown and for the card each change names,
where the last of two changes of one row counts; an undo puts back only what
still stands. A save refuses a folder of a platform without a system
(`Homeless`); the undo has no such check, and gives a folder's rank back to
whatever system the platform has by then: `Restore` says so. `LibraryServer`
maps to it with the committed rows: everything but `CommitApply`,
`CommitRestore` and `Reconcile` is a stutter.

### Background handoff

`proc` maps each pid to a process: an app in the foreground, a background
child, or another program. The program counters follow
`cs_daemon_prepare_foreground_start` (load, term, kill, clear, port),
`cs_app_start_background_server` (handoff, signal, wait, reap, restore) and
`cs_app_run_background_child` (start to erase). A time-out is a choice to stop
waiting. A child in its pipe read dies of SIGTERM; later it collects the
signal in `sigwait`. A pid is given out again once its process is gone, also
while the state file names it: the signals of a launch may then reach another
program, which no document excludes and the properties survive. `lost` is set
when a parent dies after it has given its child the start byte and before the
child is in the state file: nothing can find that child, and the properties set
that case aside; it is a limit of the protocol that the model names. `lost` also
covers a state file that the next launch cannot read.

### File store

`FileStore` has the files of one folder: `dir` is the file each name leads to,
`staged` the files in staging, `blank` the empty placeholders of the fallback. A
request that must not overwrite moves its file with RENAME_NOREPLACE, or
reserves the name with O_EXCL, renames over the placeholder and compares inodes;
`Native` says which of the two the file system has. Errors of `stat` and the
reuse of an inode number are left out. Staging all the files of a form is one
step. The cleanup of Replace Art is a step per spelling (its `lstat` and
`unlink` together), and the edit's temporary file counts as staged.

`Folders` has the folders: `tree` is the inodes, each with what it is and the
folder and name it has, `hand` the request of each worker. A request walks to
its folder name by name, holds it by its descriptor wherever it is moved, and
then acts: makes a folder, puts a file (the upload's own walk makes the folders
that are missing first), renames or moves, or deletes. A recursive delete has a
frame for each folder it is in, and the names `readdir` has still to report. The
file system folds case, as the card's does: names with one key are one name. A
rename to another spelling goes through `.csrename.<name>.<nonce>.<attempt>` and
comes back, or is rolled back. A move of a folder into itself fails natively
with EINVAL, which the code takes for a missing flag, and goes through the
placeholder. `fstatat` and the call after it are one step of a delete; the nonce
that edits share is only counted by renames; the 32 attempts are `Attempts`.
`inside`, `raced` and `strays` are histories: what a delete was given, whose
names another request changed, what stays under a hidden name.

### Terminal

`ses` are cells of memory for sessions, `listed` the manager's list, `reader`
and `tty` the thread and the pseudo-terminal of each, `work` the worker of each
connection, `ui` the UI thread. The manager's mutex is never held across a call
that blocks, so its sections are single steps; a session's mutex is, in the
write of input to the pseudo-terminal. Both directions of a pseudo-terminal
hold `Capacity` chunks. Programs behave in one of three `Manners`: silent ones
read their input whatever becomes of their output, chatty ones answer each chunk
before they read the next, stubborn ones leave a job behind that ignores the
hangup. The fork, the reader's start and its joining are steps of the worker.
`swept` is a history: the sessions a close-all took hold of, whose use after
they are freed (`Broken`) is a hazard of its own; after it the model says no
more. Left out are resizing and what the bytes are; a request for a ticket reads
the terminal's flag in the step that makes the ticket; a reader that cannot be
started has its shell reaped in that step; and the stop of a background server
by SIGTERM, which does not close the sessions first, is that of a foreground one.

### Logs and the daemon

`LogTail`: a log is the sequence of the pieces its writer ever wrote; a file is
an inode, and a tail goes on with the one it opened when the name is given to
another. The recent lines, the seek to the end, the loop and its two limits are
the handler's; what is appended between the recent lines and the seek is never
sent, which `SentInOrder` allows. An `fstat` of the open log does not fail.
`Rescan`: the daemon is external and modelled
by what its answers mean to `jawaka_ipc.c`; it serves other clients too, scans
for itself, fails, and may be restarted. An older daemon scans at once and
answers with its counts.

### Platforms, states, browser

`Platforms`: the catalog's rows are a constant (the outcome of `catalog.c`); a
discovery folds them into views, looks for installed emulators, reads the ROM
folders of each card one by one while they change, and adds custom platforms.
The fallback table is filled without a lock on first use: a row being written is
`part`. A name stands for all its spellings. `CatalogAssumption` says what the
module takes for granted of the catalog and the built-in tables; all it says of
names holds of the tables in `platforms.c` with the catalog in `fixtures`.

`SaveStates`: a state file is a card, a folder, a game and a tail; the listing
reads ROM names first, then each folder, and groups what it finds; the page
deletes an entry's paths one request at a time, while emulators save.

`Cards`: each card has the platform's one folder, under one name. A path is the
names below it; a handle is a path, with the card's alias in front for every
card but the first. A listing reads the database, or merges the cards' folders
one by one; a request resolves its handle again, and a handle of no card falls
back to the first. A name may be a file's on one card and a folder's on the
other. Looking a favourite's row up and writing it is one step.

### Uploads of ROMs

`sending` is the page's upload of each browser: preview, batches of `Batch`
files in the order games first, cancel, summary. `worker` is a request at the
server: the gate over its bundles, then file by file. A lost or cancelled
request may go on at the server. A platform's policy is the union of its catalog
rows, as `rom_policy.c` folds them, an archive counting only in a row that passes
it through. The order of an upload is the one arrangement of its files that has
the entrypoints first and otherwise keeps what was chosen. Several games of a
bundle may compete for its entrypoint: which of them is sent first is a choice.
Empty folders are left out; a name stands for all its spellings; what is on the
card changes by uploads and removals only; the folders that are plain files
(`taken`) stay so; the preview is one step; which free worker takes a request
does not matter, so it is the same one always.

## Runs

| run | question | bounds |
|---|---|---|
| `pairing` | do two workers that pair, revoke and authorize side by side keep codes single-use and revoked or refused tokens out, do memory and file keep in step, and is guessing bounded? | 2 browsers, a table of 1 row (eviction and replacement both happen), readings up to 1 tick old, 5 ticks with lifetime 4, idle time 2, touches every tick, prune and flush every 2, QR tokens of 1, lockouts of 2 after 1 failure; 3 issues, 2 tokens |
| `full_house` | can the server read back what it writes? (violated) | the source's constants, one worker |
| `content` | does the database change only by whole, fresh edits with a way back? are states listed once and deleted alone? are folders browsed and tags resolved? | editor: 2 workers of which 1 in bulk, 2 requests and any number of undos, 3 slots of which 1 is a folder's, 2 cards, 2 systems or none, 2 inodes; states: 2 cards, 6 files in 3 folders, 2 changes, 2 paths an entry, 2 entries; platforms: 5 systems, 5 folders, 2 cards, 3 folders at most, 2 workers, 2 changes |
| `undo_shared` | the same of the undo with two bulk workers (violated) | 3 inodes |
| `files` | are files kept until someone asks, and nothing left behind? | 3 workers, 4 names, 4 files, with and without RENAME_NOREPLACE |
| `files_art` | does replacing a game's art leave it art? (violated) | 2 workers, 2 spellings |
| `parts` | is there one server, and can it be found? does no entry go unasked, and is none left hidden? does a request act on the row it was shown? do uploads bring what is listed? | handoff: 3 pids (two apps and a child, or an app and two generations of children), 2 ports; folders: 2 workers, 3 requests of 10 kinds, 8 inodes, 2 attempts, 1 case-only rename, a tree with a folder in a folder, a link and a second folder; browser: 2 cards, 3 paths (one in a folder with a card's name), 1 worker, 3 requests, a cap of 4; uploads: 2 browsers, 2 workers, batches of 2, 1 fault, 4 selections, 3 catalogs |
| `cards_strays` | does a handle keep its card? (violated) | as above |
| `upload_summary` | does the page count what landed? (violated) | 1 browser, 1 worker, batches of 3 |
| `services` | do a launch, a handoff, a tail and a rescan end? is a tail in order, does ok mean scanned? | handoff: 2 pids; tail: 2 connections for 1 slot, 2 inodes, 3 pieces, a window of 1; rescan: 1 asker, 4 attempts, 2 failures |
| `terminal` | is a shell within reach, is nothing used after it is freed, do turning off and stopping end? | 2 connections, 1 session at a time, 1 chunk a direction, all three manners |
| `terminal_stop` | does a stop always end? (violated) | chatty programs |

The bounds are enough in this sense: every property is about two requests that
meet (pairs of codes, of tokens, of saves, of processes, of names, of sockets),
or about one step too many at a limit, and each limit is small enough to be
reached. `MaxClock`, `MaxIssued`, `MaxMinted`, `MaxAsked`, `Inodes`, `MaxFiles`,
`MaxNodes`, `MaxOrders`, `MaxNonce`, `MaxPieces`, `MaxMoves`, `MaxShifts` and
`MaxFaults` bound what would grow for ever; each is large enough for every
action to happen, and for each mutant to be found. Symmetry is used where
processes, threads or inodes are interchangeable, and never in a run that checks
liveness.

Two bounds leave something out that a reader should know. One session cell in
`terminal` means that a close-all with several sessions meets them one at a
time. In `parts` the catalog, the files at first and the folders in the way are
combined one at a time (`UploadsApart`), and two uploads run together only
without a fault.

Deadlock is checked except in the runs of `TrustServer`: there the bounds on
the clock, the codes and the tokens stop a server whose worker wants a token
beyond `MaxMinted`, which the program does not.

### Fairness

- `ContentSpec` is weak fairness of every worker's handler in the editor: a
  handler never waits for another request, except for SQLite's lock, where the
  busy time-out answers in its place. Clients, scans and crashes are not fair.
- `Handoff!Fairness` is weak fairness of the app's own steps and of SIGKILL's
  effect. Nothing is assumed of the background process: `WaitsEnd` holds
  although it may hang for ever, because every wait of the app has a time-out.
  It assumes that the app's own `cs_server_stop` returns, which `terminal_stop`
  shows not to be so for some programs in the terminal.
- `LogFairness`: a worker goes on, and time passes where the tail looks at it. A
  send to a browser that does not read is given up by CivetWeb's time-out.
  The log stops growing (`MaxPieces`): `TailEnds` says nothing of one that grows
  faster than it is sent for ever, where the clock is never read.
- `RescanFairness`: the worker goes on, and a daemon that took a request answers
  it or dies. Nothing is assumed of the scan: the attempts run out.
- `Terminal!Fairness`: threads go on; a thread that waits for a session's mutex
  gets it in the end although others take it in between (strong fairness of
  `Look`, `End` and `HangActive`); a hung-up shell ends; a browser answers a
  close frame or is dropped. `OffEndsShells` and `QuietStopEnds` hold where all
  programs are silent; `StopEnds` is what does not hold for others.

### What the passing runs show

The pair handler is two critical sections, and still one code admits one
browser. Memory is only replaced by what was saved, so a crash brings back
neither a revoked nor an evicted browser, and the late flush of touches never
revives one. The lockout bounds guessing to one wrong answer per period beyond
the first ones, although readings of the clock come out of order.

The metadata editor's transactions are what its header promises, also across a
scan that swaps cards (`LibraryIsEdited` is the refinement of `LibraryEdits`).
Save states that stay while a listing is made are in exactly one entry, and
deleting an entry spares every other game, slot and emulator. A tag means one
platform, whose folder no other browses, and every folder named for a platform
that is shown, or for an emulator that stayed installed, is browsed by one.
A listing that is not cut off, be it of the platform, of a folder in it or from
the database, has a row for every file that stayed, also where a folder of the
other card has its name.

The handoff keeps one server whichever side dies or times out. The three-call
fallback of the file store loses no file to uploads and renames that race for a
free name. A recursive delete removes only what its name led to, whatever is
moved in or out meanwhile, and never goes through a link. A rename loses
nothing, unless another request changes one of its two names in between.

A tail gives its slot back on every way out. A rescan that is answered ok was
scanned after the request, also when another scan ran then; after a restart of
the daemon, which remembers no request, it is taken at its word. No session is freed
under a thread that uses it except by way of a close-all. A file that landed is
one the launcher lists, and where a bundle has one game its companions do not
land before it.

### Findings

Each is a counterexample of a run marked `violation`, quoted in PROJECT.json.

- `full_house`: the parser's 256 tokens hold 28 rows, the table 32: with 29 the
  server saves a file it cannot load, and does not start again.
- `undo_shared`: all bulk saves prepare their snapshot under one name; of two
  at once, the one that commits may keep the other's.
- `files_art`: two replacements of one game's art in two formats remove each
  other's file.
- `cards_strays`: once the first card's file is gone, its row's handle finds the
  file of the same name on the other card.
- `upload_summary`: a folder that cannot be made refuses a whole batch, and the
  page counts the files before it as uploaded.
- `terminal_stop`: input is written under the session's lock; with both
  directions of the terminal full, the worker and the reader wait for each
  other, close-all for the lock, and the stop of the server for ever.

Two more cases of the file store are listed as hazards: an upload without
overwrite unlinks whatever it finds at its name after the rename when that is
not its own file, also the file of an overwriting upload (`uploads.c:411`), and
the fallback's rename lands on whatever another request moved over the
placeholder (`uploads.c:395`). The run `files` has overwriting requests on names
of their own for that reason, and `GoesForReason` sets such names aside.

Smaller things met on the way, which no run is about: the undo of a cleared
folder rank writes a row of no system, and counts it as restored, once the
platform has no game left, and goes to another system's row when that has most of
its games by then (`library_metadata.c:1129`; a save is refused at line 724); a
folder of the second card whose name is a file's on the first is in no listing
(`library.c:1704`); `g_write_nonce` starts at
0 in every process, so the first case-only rename after a restart may go over an
entry that a crash left hidden; the preview does not look at a bundle that is on
the card already, the upload does; `tag_value` in `routes_file_ops.c:720` is
uninitialised without a tag; a `.state.auto` and a `.state9` come into one
entry, as `tests/native/test_states.c:163` has it; the settings may be on file
although the save failed (`settings.c:282`).

## Proofs

Every theorem holds for all values of the constants that satisfy the `ASSUME` of
its module (sets are not empty where the code needs one, limits are natural
numbers, the values that stand for "none" are none of the others), with no bound
on workers, browsers, files or sessions. Each proof has the same shape: an
inductive invariant, which TLC checked before it was proved; a lemma per operator or
group of actions; one step per action. No liveness is proved.

**`TrustServerProofs`.** `TypeCorrect` has one lemma per operator of `TrustStore`.

- `SingleUseAlways`. `SingleUse` says nothing of a worker that holds a code it
  has not used yet. `IssueInv` adds that an issue is either live or spent, that
  the code and the QR token are different issues, and that a spent issue is held
  by one worker at most or has become one token.
- `RevokedStaysOutAlways`, `RefusedStaysOutAlways`, `TrustIsDurableAlways`.
  `TrustInv` says that every row in memory is on file with the same grant and an
  earlier last use, and that while the server is up every row on file that is
  still active is in memory: so a token that is not in memory cannot come back
  from the file. `FlushSound`, `SweepSound`, `PruneSound`, `LoadSound` and
  `TouchSound` show it of the operators, with a reading of the clock that may be
  old. `RefusedInv` says of a token that was turned down once that no row of it,
  in memory or on file, passes with the clock as it is, or in memory with a
  reading `Lag` older.
- `GuessBudgetAlways`. `GuessInv` adds that from the limit on the throttle is
  ahead of the answers given; an answer is only judged by a reading the throttle
  has let through, and no reading is ahead of the clock, so its age does not
  matter.
- `StoreFitsAlways`, `FileLoadsAlways`. Neither the table nor the file grows beyond
  its rows, and no browser has two, since one that pairs again takes its own row and
  a full table gives one up. So the parser, with `3 + 9 * Cardinality(Browsers)`
  tokens, reads back every file the server writes: with the code's 256, as long as
  no more than 28 browsers pair. With 29 it does not, which is `full_house`.

**`HandoffProofs`.** `OneServerAlways` and `ReadyIsNamedAlways` follow from
`HandoffInv`: the launcher runs one app; where a process stands tells whether it
serves, was told to begin and has reported (`StepsAgree`); and unless a child was
lost sight of, a child that was told to begin is the only one, the app beside it
is one that still seeks it, and without an app, or once it reported, the state
file names it (`InSight`).

`ReapedIsKilledAlways` and `WaitsRunOutAlways` are what `WaitsEnd` comes from: an app
that launches or hands off goes through at most six steps, nobody puts it back, and
the one of them without a time limit waits for a process that was killed. Only that
each step is taken in the end is left to TLC. `ServesAloneAlways` carries
`OneServerAlways` across a step: no process loads the store while another could
still save it.

**`TerminalProofs`.** `OneSocketAlways`, `OnlySweptDangleAlways` and
`ShellIsReachableAlways` follow from `TerminalInv`: a session has one worker, and
each of the worker's steps lets go of one thing in the order of the code
(`WorkersAgree`); what is listed is not freed, and a session's sockets are its
worker's (`CellsAgree`); a reader has a worker, a shell a worker and a session
(`WorkedOn`); what the close-all has in hand it swept (`SweepAgrees`). A step
after memory was used that had been freed is not modelled, so the theorems speak
of the states up to the first such use.

`WaitedIsHungUpAlways` is what the server does for `OffEndsShells` and `QuietStopEnds`:
no thread waits for a shell that was not hung up, or joins a reader whose session is
open. `HangInv` follows the socket of a session: it is the one it was attached to until
the section that clears it closes the terminal and signals the shell; so a session
without a socket was hung up, or never had a shell, and close-all waits only for those.

**`FileStoreProofs`.** `FilesInv` is that no file is at two names or at a name
and staged, and that a staged file belongs to one request (`StagedIsOwnedAlways`)
or was left by a crash: so nothing staged is left when no request works.
`NothingLeftBehindAlways` and `KeptUntilAskedAlways` assume `Apart`: no request
takes away or replaces what is at a name at which another creates a file without
overwriting, and none replaces what another renames. `PlaceInv` then follows
every placeholder: it is at a name some request creates, a worker stands between
reserving it and renaming over it, and one worker only. Without `Apart` both are
false (the hazards at `uploads.c:395` and `uploads.c:411`; a rename of `d` to `a`
while `d` is overwritten is the shortest case), so they say nothing of requests
that overwrite a name another is about to take.

`ArtStaysAlways` is the promise of `cs_art.h` that the run `files_art` refutes, for
replacements that do not overlap (`[]OneReplaces`) and names that only they touch
(`ArtOnly`): from its rename to the end of its cleanup the file a replacement
promoted is where it was put, and whole (`ArtKept`).

**`UploadProofs`.** `LandedIsListedAlways`, `CompanionHasGameAlways` and
`PreviewHoldsAlways` follow from `UploadInv`: a page and the request that works
for it have the same batch (`Paired`); every prefix of an upload's files is led by
its bundles' games (`Led`); a request past the gate has the games of its bundles
in it or on the card, and what comes before its next file is on the card
(`WorkFits`). `CompanionHasGameAlways` assumes `OneGame`: no bundle
that is chosen has two games. With two, the entrypoint that is sent first may end
in a conflict, and companions land before the second game, which satisfies the
gate; the code promises no more.

`SummaryIsTrueAlways` and `CountsNoMoreAlways` are what is left of the page's summary
once the case of `upload_summary` is set aside (`Unblocked`: no plain file is in the
way of a folder that is sent). `TallyInv` counts for a page what it was told, and what
its request has put on the card and not told it (`Owed`): the two make up what landed,
and less only where an answer was lost.

**`ContentProofs`.** `LibraryIsEditedAlways` is the refinement of `LibraryEdits`,
for any number of workers. Half way through, an edit's rows are the committed
ones with the changes before the cursor made; `GoesOneRow` is that a step of the
cursor keeps this, `CommitIsEdit` that at the end it is `Replace` or `Restore`,
`StepIsEdit` sorts the steps. `UndoIsAppliedAlways` and `WayBackWaitsAlways`
have a hypothesis, `[]OneAtATime`: no two workers have a save with a snapshot
under way. Nothing in the server sees to it, and without it both are false, as
the run `undo_shared` shows. `OneWorkerIsEnough` is that one bulk worker
satisfies it, which is how the run `content` is set up; the page, which waits
for an answer before it saves again, satisfies it while one page is open.

`LockIsHeldAlways` and `RowsRunOutAlways` are what `LockIsReleased` comes from: a
request is among its rows just while the transaction is its own, each of its steps
there leaves it one row fewer, and no other step changes the transaction, but for a
restart that ends it.

*Platforms.* `FoldersAreBrowsedAlways` and `TagsResolveAlways` follow from `PlatformsInv`: each
folder that stayed on a card that was read has an entry with its code, unless the
list was full (`Noted`); the rows are one for each view and for folders of no view
(`RowSeqs`), where a folder that no view owns has a row if it is named for an
emulator that was installed from the start of the discovery (`OwnRows`); a table
that was whole when the tag was looked up gave the row that
has the tag among its words (`FoundFor`). Folds are stated by their walks: a fold is
a `CHOOSE` of a function on sets of positions, `FoldWays` is that there is one, built
up position by position, and `NoteDirWalk` and its like are that a fold ends where
its steps lead, so that what each step keeps, the fold keeps. `NoNameShared` is the
core of the rest: no two rows have a tag, a code or a folder in common, and
`OneForWords` that the words of a known platform call one row at most. Both rest on
`CatalogAssumption`: a catalog in which two systems claim one name, or an emulator
is named like another platform's alias, is outside the theorems.

*Save states.* `EachStateListedAlways` and `DeleteSparesOthersAlways` follow from
`StatesInv`: the entries of a listing and of the page are one for each game, slot and emulator, and hold only files of theirs
(`Grouped`); a listing has the games of the cards it has asked, and an entry for
each state that stayed and that it has been past (`Gathers`); what is left to
delete belongs to the entry that was shown (`DoomFits`). The bound on `moves` also
bounds the time stamps, from which there is a newest entry for the page to begin
with; a card's number is its place in `paths.sources` (`StatesAssumption`).

**`BrowseProofs`.** `EachFileOnceAlways` and `ActsOnShownAlways` are action
properties that follow from `CardsInv`: a listing covers what stayed on the cards
it has been through, in the folder that was asked for or in the database, with each
folder once unless a file of its name came first (`ListFits`); a row's handle is its
file's (`Named`) and its file is there or known to have gone (`Known`); so a
request resolves to the file that was shown, or strays in the one way the
property allows (`Aimed`). `HandleKeepsCardAlways` is that the run `cards_strays` shows
all there is: without such a request no handle leaves its card.

*Folders.* `FoldersTypes`, `HiddenHasReasonAlways` and `GoesForReasonAlways` follow from
`FoldersInv`, for any tree the card may have, any workers, requests and crashes.
What stands is in a folder that stands, every way up ends, and no folder has two
entries with one key (`TreeOK`); that a move keeps this is `MovedTree`: the moved
folder is not above its new place, so no way up comes back to it. The equations of
`Line` are recursive; that they have a solution at all is `WaysUp`, which takes the
least sets, and with it an entry's line is itself and its folder's line (`LineUp`).
Of a rename whose names no other request has changed, `Undisturbed` says what is at
its two names at every step: what it opened, alone, or its own placeholder, or
nothing. `HandFits` says that a worker's hidden name has a nonce already spent,
so that a new hidden name finds there only what was left behind. Of a delete,
`Below` says that the folders of its frames, and all that is below them, are among
what its name has had below it. The proofs rest on `FoldersAssumption`: the first
tree is one, and no client writes a name of the form the server hides entries under.

**`ServicesProofs`.** `OkMeansScannedAlways`: `RescanInv` says what each message
on an asker's socket means of the scan it asked for, given what the daemon still
remembers (`Kept`): a status without a scan, a wait or an error can only come
once that scan is done, or was lost with a restart before it ended. `SentInOrderAlways`:
`LogInv` says that the numbers in a log rise, that what a tail has still to read
comes after all it sent (`TailOK`), and that the slots taken are the tails that
run (`SlotsOK`).

`AnswerComesAlways` and `RoundsRunOutAlways` are what `RescanAnswers` comes from: a
worker never waits on a socket that nobody will write to or close, and each of its
steps leaves fewer of the `2 * MaxAttempts + 2` its attempts allow.

`ServicesTypes`, `PartsTypes` and `ContentTypes`, each at the end of its module, are
the types of the parts of a run taken together: every step of the run is a step of one
part that leaves the variables of the others alone, so what each has by itself it has
beside them.

What the proofs do not reach. Liveness under fairness (`LockIsReleased`,
`WaitsEnd`, `TailEnds`, `RescanAnswers`, `OffEndsShells`, `QuietStopEnds`) is checked by
TLC on small instances; of all but `TailEnds` the theorems give the part that is safety. Every safety invariant and action property that a passing run checks is
stated by a theorem. Of the six properties that a run refutes, five are theorems under
the condition that the counterexample breaks (`FileLoads`, `UndoIsApplied`, `ArtStays`,
`SummaryIsTrue`, `HandleKeepsCard`); the sixth, `StopEnds`, is liveness.
No module uses a recursive operator.

## Not modelled

Third-party code (CivetWeb, jsmn, SQLite, SHA-256) is used as external. The
CSRF secret is made once and never changes. The dot-file cleaner only reads;
what it lists is removed by the delete requests of `FileStore`. The guards of
paths are string arithmetic whose outcome is a refusal. Settings beside the
terminal's flag, build strings and screens are parsing or drawing;
`keep_awake.c` does nothing on this build. The parser of the catalog file is
left out, its outcome is a constant of `Platforms` and `RomPolicy`. Of the
library browser, sorting, totals, paging and the scopes that live on one card
are left out; of the web client, the reading of a ZIP, paging with stale answers
and the bulk planner; the rest of it is layout.

## Plan

The bulk planner of the web client against the server's conflict rules, composed
with `LibraryServer`; paging with stale answers over `Cards`; the entries of a ZIP
as a client of `RomUpload`.
