# Specifications of lan-send

lan-send sends files, and the clipboard, between devices of one local network
over HTTPS (the LocalSend v2 protocol with private extensions).  This directory
holds TLA+ specifications of its core (`crates/core/src`) and of the parts of the
command line tool that keep state of their own (`crates/cli/src`), configurations
that check them with TLC, and TLAPS proofs.  Paths below are relative to
`crates/core/src` unless they say otherwise.

    tlc -workers 2 -config UploadSession.cfg MCUploadSession.tla
    tlapm UploadSession_proofs.tla
    tlapm Receiving_proofs.tla
    tlapm Sending_proofs.tla
    tlapm Pairing_proofs.tla
    tlapm Clipboard_proofs.tla
    tlapm Devices_proofs.tla
    tlapm Placement_proofs.tla
    tlapm CliReceiving_proofs.tla

## 1. Inventory

### Components

| Component | Source | State | Operations |
|---|---|---|---|
| Upload session (server) | `transport/server/{state,routes,save,mod}.rs` | one slot (free, pending request, active session), per-file status, attempts, parked digest, idle clock, part files | prepare-upload, upload, confirm-checksum, resume query, cancel, `cancel_session`, reaper, dropped futures |
| Receiving runtime | `runtime/incoming.rs` | the pending question, the accepted session, pending conflicts | event loop, `respond_incoming`, conflict answers, results, session end |
| Transfer bookkeeping | `runtime/{mod,events}.rs` | `transfers`: a view per transfer | insert, progress, finish file, complete, cancel, prune |
| Sender | `runtime/outgoing.rs`, `transport/client.rs`, `transfer/outgoing.rs` | one task per transfer, PIN question, cancel token | prepare, PIN retry, upload, resume, confirm, cancel |
| Pairing | `runtime/pairing.rs`, `pair`/`unpair` of the server, `crates/cli/src/commands/{pair,devices}.rs` | trusted devices (in memory and in the database), one pending request, questions, codes to confirm | request, answer, confirm the code, unpair, forget; the same from the command line, on the database alone |
| Devices | `runtime/devices.rs` | offline devices, last reported views, failures per device | forward what discovery confirms, liveness round, commands |
| Discovery | `discovery/*` | confirmed devices and their addresses, single-flight flag, broadcast channel | announce, probe, scan, confirm |
| Clipboard sync | `clipboard/{sync,model,wire}.rs`, `clipboard/backend/*`, `runtime/clipboard.rs` | ring of recent hashes, change counter, running engine | local change, push, receive, apply, start, stop |
| Clipboard history | `runtime/clipboard.rs`, `store/db.rs`, `clipboard/sensitive.rs` | rows, image files of the cache | record, prune, delete, clear, copy back |
| Placement | `transfer/incoming.rs`, `transport/filename/*`, `transport/server/save.rs` | reserved paths of a session, part files, partial uploads | sanitise, place, ask, write, resume, expire |
| Store | `store/*` | history, partial uploads, devices, settings | rows written by the above |
| Identity and TLS | `transport/{identity,tls,scoped_host}.rs` | certificate | handshake checks |
| Protocol | `protocol/*` | none | wire types |
| Media | `media/*` | disk cache | thumbnails |
| Command line receiver | `crates/cli/src/commands/{incoming,receive}.rs` | one session, prompts, entries, resume rows | one loop over the server's events |
| Clipboard watcher | `crates/cli/src/commands/clip.rs` | the loop, the engine | watch, push, history |
| Command line sender | `crates/cli/src/commands/send.rs` | one transfer | send |
| Front ends | rest of `crates/cli`, `apps/app` | what they show | commands, rendering |

### How they interact

The server tells the application what happens through one bounded channel of
`ServerEvent`s.  Two events are questions: `PrepareUpload` and `FileUpload`
carry a oneshot on which the handler waits.  A single event loop takes the
events.  Commands of the user (`respond_incoming`, `cancel_transfer`) run on
other threads and share four locks with the loop: the pending questions, the
accepted session, the transfers, and the server's slot.  No lock is held across
a step, so every sequence of lock acquisitions can be interleaved.

Three tasks write the list of devices: the one that forwards what discovery
confirms, the one that probes who is gone, and the commands.  A pairing is written
to the database by the user's command and to the server's list by the handler that
waits for it; a withdrawal arrives as an event.  Two devices synchronise their
clipboards by requests to each other's server; what arrives is written by the same
event loop.  A synchronisation reports through a bounded channel of its own, and what
it reports includes the writes of that event loop.  The command line tool has its own
loop in place of the runtime, on the same server, and opens the same database, at the
same time as the application.

### What is hard

* A handler is a future that may be **dropped at any await**, because its
  connection went away.  Drop guards repair the state (`PendingGuard`,
  `UploadGuard`), except for confirm-checksum, which has none.
* Handlers **outlive their session**: a cancel, the reaper or the last other file
  may end the session while a body is being written.
* **Two things are ready at once**: the answer and the withdrawal of a request.
* Events of dropped handlers and session ends are **sent from spawned tasks**, in
  any order.
* **Retries**: three attempts per file, counted where an attempt starts and
  limited where it ends, by the sender and by the receiver apart.
* **Lost answers**: a sender sees a connection fail long before the receiver
  does, or never learns what its request did; a given-up prepare-upload is only
  a closed connection.
* **A path is chosen before it is reserved**, and a part file outlives its handler,
  its session and the program, while an old handler may still write it.
* **Part files are used by path**: one that was measured may be another one when it is
  opened, and a third one when it is renamed into place.
* **Trust is kept in two places** on each of two devices, a withdrawal may cross an
  acceptance, a write may fail, and a second process writes one of the two places.
* **A loop that fills and empties the same channel** can wait for itself.
* **A device's own write to the clipboard** looks like a copy of the user's.
* **Two processes** write one history, and rows and files are not one transaction.
* The receiver's idea of a session is spread over the **server, the accepted
  session and the transfer view**, changed one after the other.

`PROJECT.json` lists these hazards at the line where each one bites.

### What makes each component correct

* *Upload session*: one session at a time; one handler per file; no attempt beyond
  the limit; a session is active only while a file can still change; what is
  reported as received is on disk; a gone sender does not hold the slot.
* *Receiving runtime*: it knows the session the server receives; a transfer ends
  whenever its session does; what the interface shows agrees with the disk.
* *Sender*: it ends; it reports success only for files the receiver has; a retry
  does not send a settled file again.
* *Pairing*: what the server trusts is what the database says, unless one of a few
  named causes set them apart; a pairing that was
  confirmed is trusted on both sides until a user withdraws it; nobody is trusted
  unasked.
* *Clipboard*: nothing received is sent back; the exchange comes to rest.  *History*:
  rows and image files agree; the limit holds.
* *Placement*: what has a received file's name is that file, whole, unless attempts on
  one path overlapped; nothing existing
  is overwritten unasked; two files of one session never share a path.
* *Devices and discovery*: a round finds who is there; a device that is there is
  shown where it is, a gone one as offline.
* *Command line receiver*: it knows the session it receives, and reports what is on
  disk.

## 2. Modules

| Module | What it is |
|---|---|
| `SessionSlot` | Abstract specification: what the server promises about its one slot. |
| `UploadSession` | The server: every handler of the upload path, step by step, with the application at its most general. |
| `MCUploadSession` | Instances of it. |
| `UploadSession_proofs` | The theorems about `UploadSession`. |
| `Receiving` | `UploadSession` together with the event loop, the user's commands and the transfer views. |
| `MCReceiving` | Instances of it. |
| `Receiving_proofs` | The theorems about `Receiving`. |
| `Sending` | `UploadSession` together with the sender's task and its HTTP calls. |
| `MCSending` | Instances of it. |
| `Sending_proofs` | The theorems about `Sending`. |
| `Placement`, `Placement_proofs` | Paths, part files, their writers and the records to resume them; the theorems about it. |
| `Pairing`, `Pairing_proofs` | Two (or more) devices that pair and withdraw; the theorems about it. |
| `Devices`, `Devices_proofs` | Discovery, the tasks that keep the list of devices, the list shown; the theorems about it. |
| `Clipboard` | Clipboard synchronisation between devices, the watcher of the command line included. |
| `ClipboardHistory` | The history of one device, written by two processes. |
| `Clipboard_proofs` | The theorems about both. |
| `CliReceiving`, `CliReceiving_proofs` | `UploadSession` together with the loop of the command line receiver; the theorems about it. |
| `MCPlacement`, `MCPairing`, `MCDevices`, `MCClipboard`, `MCClipboardHistory`, `MCCliReceiving` | Instances of these. |

`Receiving`, `Sending` and `CliReceiving` compose `UploadSession` with what is in
front of or behind the server.  The others stand alone: they share files, rows or
certificates with the upload path, not its slot.  Each includes the components that
write the state it is about, the command line tool among them, with these exceptions:
the tool's `receive` writes pairings of its own (`app.rs`, `answer_pair_request` and the
answer to `Unpaired`), and what else the tool may write to the list of devices is not in
`Devices`.

### UploadSession

A step is what a handler does between two awaits.  `req[r].pc` names the await at
which the handler is suspended:

| Code | Model |
|---|---|
| `claim_pending`, send `PrepareUpload`, `select!`, `activate` / `clear_pending` | `ClaimPending`, `AskApplication`, `SessionAccepted`, `SessionRefused`, `PrepareWithdrawn`, `AnswerDropped` |
| `PendingGuard::drop` | `SenderGone` and the last two above |
| `begin_upload`, ask for a path, `set_file_path` | `BeginUpload`, `AskTarget`, `StartSaving`, `TargetRefused` |
| `save_body`, `park_upload` | `BodySaved`, `BodyHeld` |
| send `FileUploadResult`, `finalize_file`, answer | `Report`, `Finish` |
| `UploadGuard::drop` | `DropUpload` |
| `take_parked`, compare and `finish_part`, report, settle | `BeginConfirm`, `Settle`, `Report`, `Finish`; dropped: `DropConfirm` |
| `cancel`, `cancel_session`, `reap_idle` | `CancelPending`, `CancelBySender`, `CancelByReceiver`, `TenMinutes`, `Reap` |
| spawned sends | `spawned`, `Deliver` |

`files[f]` is the session's file entry; `placed` records what was renamed into
place, `told` which sender got a final 200.  A session that ends takes its files
with it, exactly as `*slot = None` does.

Abstractions.  Tokens, addresses and digests are reduced to the outcome of their
checks; a request that fails a check is a `Touch` of the idle clock or nothing.
A body is reduced to what `save_body` returns, a nondeterministic choice among
the outcomes its branches can produce for this sender.  Progress events are left
out: they are dropped when the channel is full and change no state here.  The
channel is never closed.  Time is one bit: ten minutes without a request.
Requests are reused: `Fresh` keeps an identity from being reused while an event
of its earlier use is under way, which bounds how many are under way, not what
a sender may do.  Settings: checksums are verified and resume is on; the other
settings are senders without the extensions.

### Receiving

`transfer` and `view` are the transfer's and its files' states, `question` is
`pending.incoming`, `incoming` the `SessionInfo`, `accepting` how far a request
is on its way to a session, `loop` whether that happens inside the event loop.
The application's side of `UploadSession` (`AppTakes`, `AppDecides`,
`AppAnswers`, `CancelByReceiver`) is replaced by the runtime's own code: one
action per event taken, `accept_incoming` cut at its locks (`AcceptFails`,
`StoreIncoming`, `SendDecision`, `MarkActive`), and the user's commands.  A
command that takes several locks is one step where the order of the locks makes
no difference to what others can see: a decline, and a cancel, whose
intermediate states are those of the command running earlier or later.

`disturbed` is a history variable.  The interleavings that refute
`FinishedMeansReceived` and `NeverStranded` (below) break most statements about the
runtime, so the sessions that meet one are collected in it: an accept or a
question that overlaps with another accept, with a cancel, or with the end of
its own request or session; and a lost connection during an upload.  Properties
of `Receiving` are stated for the other sessions (`Undisturbed`) or, in the
refuted ones, for all.  The variable restricts no behaviour.

History rows, byte counters and the pruning of finished transfers are not modelled;
partial-upload records are in `Placement`.  The runtime accepts every file it is
offered.

### Sending

`sender[s]` is the task `run_send` of the transfer that becomes session `s`: the
await it is at (`stage`), the state its transfer is shown with (`view`), its
cancel token, the PIN it goes on with.  `task[s][f]` is the future
`upload_with_retries` of a file.  The server's own steps are those of
`UploadSession`; the requests it meets and the answers it gives are no longer
arbitrary but those of the sender.

| Code | Model |
|---|---|
| `prepare_upload` of the client, `check_pin`, the answers 401, 409, 429 | `PostClaims`, `PostBusy`, `PostNeedsPin`, `PostLocked`, `ForgetFailures` |
| `provide_pin`, closing the question | `EnterPin`, `DismissPin` |
| answers 200, 204, 403, 500 | `AcceptedAnswer`, `TakeAccepted`, `RefusedAnswer` |
| the cancel token: `cancel_transfer`, `on_cancel_received`; the `select!`s that look at it | `CancelSend`; `GiveUp`, `AbandonUpload`, `CloseSend` |
| errors before the uploads | `PrepareFails`; the server notices: `HungUp` |
| `upload_file_from`: the upload, then the confirmation | `CallUpload`, `UploadTurnedAway`; `CallConfirm`, `ConfirmTurnedAway` |
| the handlers' answers | `HandlerAnswers`; on the way to them: `HandlerWorks` |
| a connection that fails under a call | `LoseConnection`; the server notices: `HandlerDropped` |
| the `match` on the result | `HandleReply`, `QueryOffset` |
| the outcome, the final `cancel` | `FinishSend`, `CloseSend` |

Between a request and its answer any number of steps of others may come.  A
request takes effect when it is made, or not at all: a request under way is the
same as one that is made later, since the sender does nothing else for that file
meanwhile.  The exception, a request that reaches the server after the sender
has given it up, is not modelled.  `LoseConnection` and `HandlerDropped` are
apart: a sender may retry, ask, fail or be over while the receiver still works
for its old connection.  The event `CancelReceived`, which a cancel of an unknown
session puts into the receiver's channel, is left out: it concerns transfers in
the other direction.

The senders of all sessions share one address, so they share the count of wrong
PINs, and none is told from another by `peer.addr`.  `ForgetFailures` is the
clearing of the full PIN table.  Hashing before the transfer is part of
`preparing`.  Whether a file carries a digest is the constant `Digested` and
whether the sender hashes is `CreateChecksums`; a device without the extensions
is a session with no features.  Offsets are not modelled: an upload at the wrong
offset is one of the outcomes of a body.  `lossy`, the files that lost a
connection, is a history variable.

### Placement

| Code | Model |
|---|---|
| `Destination::place`, `unique_path`, `Placement` | `Place`, `UniquePath`, `IsFree` |
| `accept_incoming` with `resumable_files`, `find_partial` | `Accept` |
| `begin_upload`, `on_file_upload`, `assign_upload` | `BeginUpload`, `PlaceUpload`, `AskUser`, `RejectUpload`, `Assign` |
| the conflict task, `respond_conflict`, its 30 seconds | `Answer` |
| `save_body` with no range: the part file is created | `OpenFresh` |
| with a range: its length, opening it, `hash_prefix`, each an await | `CheckLength`, `OpenAppend`, `HashPrefix`; `OpenFails` |
| `write_stream` and what is done with its outcome | `WriteChunk`, `EndEarly`, `FailSave`, `FinishBody`, `FindMismatch`, `HoldBody` |
| `confirm_checksum`: `take_parked`, the comparison | `ConfirmMatch`, `ConfirmMismatch` |
| `finish_part`, the result | `MoveIntoPlace`, `MoveFails`, `Report` |
| `UploadGuard::drop`, with and without a path; a confirmation that is dropped | `DropUpload`, `DropUnplaced`, `DropConfirmation` |
| `on_file_result`, `on_session_end` | `HearResult`, `HearEnd` |
| `expire_partials` at start | `Restart`, `ExpireRows`, `ExpirePart` |

An open file is an inode, since a part file can be renamed, removed, emptied or
appended to under the handler that writes it.  A body is two chunks; a file is the
sequence of chunks in it, so a mixed, short or foreign file is told from a whole one.
A name is what sanitising and the folder rules leave of it, or refused.  `fd` is set
while a handler has the part file open: not between the look at its length and opening
it, and no longer when the body has arrived, be it about to be renamed or parked for its
digest.  `offset` is the length the handler was promised, `sound` whether the digest it
computes is that of the offered file: what it hashed of the part file and what came in.
The rename is by path, of whatever is there.

History variables: `given` (who was handed a path), `consent`, `mine`, and `crossed`, the
files two attempts used at a time.  An attempt uses the part file of its path from the
look at its length (or from creating it) until the rename or its end, parked bodies
included (`Using`, `OtherUsers`).  The file is put in `crossed` by an attempt that starts
while another one uses its path, and taken out by one that starts alone, which empties
the file or hashes what is in it (`Begins`).

Abstractions.  Whether what a dropped handler had given to the blocking pool is still
done is a choice between before and after the drop.  Chunks are written at once, not
through the buffer of `BufWriter`.  Every sender can resume, gives a digest for every
file, with the offer or later, and the receiver verifies it: files that nobody verifies
have nothing to be checked against.

### Pairing

| Code | Model |
|---|---|
| `pair_start`, the tool's `pair`; the client's timeout and a lost connection | `PairStart`; `GiveUpPair` |
| `pair` of the server, `begin_pairing`, `PairingGuard` | `ServePair`, `RefuseBusy`, `TellRequest`, `FinishPair`, `TimeOutPair`, `DropPair` |
| `on_pair_request`, `respond_pair_request` with `apply_pairing` | `HearRequest`, `RespondPair` |
| the answer at the client; `pair_confirm`: the database, then the server's list | `HearReply`; `ConfirmPair`, `ConfirmFails`, `AddPaired`, `RejectCode` |
| the same at the terminal, which writes the database | `ToolConfirm`, `ToolReject` |
| `unpair`, `forget_device`: the database, the list, the other device | `UnpairDevice`, `RemovePaired`, `EndUnpair`; lost on the way: `LoseUnpair` |
| `devices --unpair`, `devices --forget` of the tool; `forget_device` after an error | `ToolUnpair`, `RemoveRow` |
| `unpair` of the server: the list, then the event; dropped between the two | `ServeUnpair`, `TellUnpaired`, `DropUnpair` |
| `on_unpaired` with `apply_pairing` | `HearUnpaired` |
| stop and start, `paired_fingerprints` | `Restart` |

`book` is the database, `paired` the list the server asks.  A task writes one after the
other, and between its two writes others go on: `Adding` and `Removing` say that there
is such a task.  A write of `apply_pairing` may fail, which is logged and nothing else;
one of `pair_confirm` ends the command.  `agreed`, `confirmed`, `broken` and `unsaved`
record what users said and what could not be stored.  `crossed` is the pairs of devices
whose two records may differ until the next start, each for a reason that is in the
code:

* an answer after the request had timed out, or whose handler was dropped with it;
* a pairing and a withdrawal of one pair whose writes overlapped;
* a write to the database that failed;
* an unpair handler that was dropped before it told the runtime;
* a write of the command line tool, which the server is not told of.

Certificates are device names: every request comes over a connection that proves who
sends it.  Left out: the tool's `receive`, which answers requests with a server of its
own, and the server the tool starts while it pairs; a second withdrawal of a pair of
devices while the first is under way, and a second confirmation of a device between the
two writes of the first.

### Devices

| Code | Model |
|---|---|
| `Inner::confirm`, `DeviceStore::upsert`, the broadcast channel | `Confirmed`, `Merged`, `SendEvent` |
| `register` of the server, `answer_announcement` | `HearRegister`, `HearAnnouncement` |
| `discover_on`, `probe_many`, `scan_subnet` | `StartRound`, `ProbeAddress`, `ScanSubnet`, `EndRound` |
| `forward_discovery` | `TakeEvent`, `ClearOffline`, `NoteFound`, `EmitFound` |
| `liveness` | `StartProbes`, `ProbeDevice`, `Judge`, `DropView`, `EmitLost`, `EndProbes` |
| `set_favorite`, `set_custom_alias`, `forget_device`, `emit_device_changed` | `StartCommand`, `ComputeView`, `NoteView`, `EmitView`, `RemoveDevice` |
| the list of `apps/app/src/store.ts` | `Show`, `Lost` |

Each task is cut where it takes the next lock.  All that can change about a device
besides its address is one `mark`.  `Move` and `Take` are the network: devices and
strangers come, go and change addresses.  `round.present` collects who was there
from the beginning of a round on; no two devices are at one address.  `crossed` and `forgotten` are history: devices
two tasks reported on at a time, and devices the user had forgotten.

### Clipboard

| Code | Model |
|---|---|
| `watch_loop`, `RecentHashes` | `Notice`, `ReadBoard`, `ReadNothing`, `ReadFails`, `TellError`, `IgnoreKnown`, `FindNews`, `RememberRead`, `SkipLarge`, `HandFiles` |
| `push` | `PushItem`, `Report`, `EndPush` |
| `sync_events`; the loop of `clip watch` | `TakeEvent`; `WatchEvent`, `WatchSends` |
| `clipboard` of the server, the client's push and transfer | `Deliver`, `FailCall` |
| `on_clipboard_received`, `apply_clipboard_files`, `apply_remote` | `TakeReceived`, `TellEngine`, `WriteReceived`, `WriteSpoils`, `WriteFails`, `TellApplied` |
| the change counter of both backends; the look at it after a write | `Puts`, `HasChanged`, `Seen`; `MarkSeen` |
| `start_clipboard_sync`, `stop_clipboard_sync`, `clipboard_push`, the user's copies | `StartSync`, `StopSync`, `PushNow`, `Copy` |

A synchronisation that is stopped finishes what it has begun, while the next one may
run: engines are numbered.  The hash of copied files is that of their paths, which
differ from device to device.  `echo` (in a call, and in an engine about to make it) and
`dropped` (in an engine) are history: the call sends what a peer wrote through the same
engine, which has not had to drop its hash from the ring.

Two channels are bounded.  `channel` holds the events of an engine (`SyncRoom` for the 64
of the code); the watch loop, the pushes and `apply_remote` wait for room in it
(`Tells`).  In the application a task of its own empties it; in `clip watch` the loop
does that also calls `apply_remote` and makes the transfers.  `inbox` holds what the
server has received (`ServerRoom` for 256); a request waits for room in it
(`IsAnswered`).  An event is the set of transfers it calls for: empty for all but copied
files, since the others are shown and stored.

`wait_for_change` fails on neither backend.  `push_now` of `ClipboardSync` has no caller
and is left out; `clipboard_push` and `clip push` make their requests themselves.

### ClipboardHistory

The rows of `clipboard_items` are a set; each has its time (`at`, by the clock of the
device the item comes from) and its `rowid`, one more than the greatest (`NextRowid`),
which together order them (`Newer`).  A statement on the database is atomic; a lock that is kept over two statements
(`prune_clipboard`) keeps out the tasks of the same process.  `record_clipboard` is
`Take`, `SkipSecret`, `WriteImage`, `InsertRow`, `ReadOld`, `DeleteOld` and their
failures; `delete_clipboard`, `clear_clipboard` and `clipboard_copy` are `AskDelete`,
`DeleteRow`, `AskClear`, `ClearRows`, `AskCopy`, `CopyBack`; the files go in
`RemoveFile`.  Three history variables name what the code gives up on: `overdue` (old
rows that failed to be deleted), `overlooked` (files nobody will remove: a row that
failed to be written, a row deleted by somebody who had not read it, a file that
could not be removed), `misjudged` (rows read as old and not deleted, because another
process had made room).

### CliReceiving

The server is that of `UploadSession`.  The loop of `receive` takes one event at a
time and handles it to its end; a question at the terminal (`prompt`) keeps it.

| Code | Model |
|---|---|
| `Incoming::handle`: `PrepareUpload`, `PrepareUploadAborted` | `OnPrepareAuto`, `OnPrepareAsk`, `AnswerRequest`, `OnAborted` |
| `FileUpload`, `decide_conflict` | `OnUpload`, `AnswerConflict` |
| `FileUploadResult`, `SessionEnd` | `OnResult`, `OnEnd` |

`disturbed` collects the sessions that met one of three races: the loop forgot them
because an earlier request was withdrawn, a result of an earlier session was credited
to them, or they were replaced before their end was handled; and those that lost a
connection, whose result comes from a spawned task.

## 3. Runs

| Run | Instance | Distinct states | Shows |
|---|---|---|---|
| `session` | 1 session, 2 files, 2 requests, 2 attempts, channel of 2 | 164,085 | safety of the handlers; liveness under fairness |
| `receive` | 2 sessions, 1 file, 1 request, 2 attempts, symmetry, view | about 1,920,000 | runtime and server agree |
| `send` | 1 transfer and a rival for the slot, 2 files, 2 requests, 2 attempts, symmetry, view | about 1,850,000 | sender and receiver agree about every file |
| `send_ends` | 1 transfer, 2 files, 1 request, 2 attempts, a PIN, one upload at a time | 259,845 | uploads and cancels end, the slot is released |
| `placement` | 2 sessions of one sender, 2 files of one name and different content, one of them offered twice, 3 policies, a retry or a restart | 2,879,141 | received files are whole, the user's are kept |
| `pairing` | 2 devices, 2 requests, of the application or the tool, 2 withdrawals, 1 failed write, 1 restart, symmetry | 2,775,967 | trust is mutual, the lists agree |
| `devices` | 1 peer, 2 addresses, strangers, channel of 1, 2 failures, 2 events from outside | 565,044 | rounds find, the list follows |
| `clipboard` | an application on Windows and a watcher on macOS, a text, a large image, files, ring of 2, channels of 1, 2 engines, 3 acts of the users | 1,286,938 | no echo; the exchange comes to rest |
| `history` | 2 processes with a recorder and a commander each, 4 items, limit 1, 1 command | 1,935,410 | rows and files agree |
| `cli` | 2 sessions, 1 file, 2 requests, 2 attempts, asked or not, symmetry, view | about 2,650,000 | the tool follows the server; refinement of `SessionSlot` |
| `same_path`, `clip_watch` | smallest instance that shows it | | findings, below |

Why the bounds are enough.  *Upload path.*  Two requests are what it takes for two
handlers to meet at one file, and for a handler to outlive its session while another
one works for the next.  Two files, one with a digest and one without, are what it
takes for one to complete the session under the other and for the plain and the
deferred path to meet.  Two attempts reach both sides of the limit.  A channel
of two is full while handlers block on it.  With a third session nothing new can
meet: the slot holds one, and a second one overlaps with the handlers of the
first.  *Placement.*  Two uploads are what it takes to share a path or a part file;
`MCBounded` lets any two uploads meet around one retry or one restart, and keeps the
runtime at most one result behind.  *Pairing.*  Two requests cross or replace each
other; two withdrawals are one from each side.  `MCBounded` lets at most three of what
disturbs a pairing come together (withdrawals, restarts), two if one of them is a failed
write or a request of the tool: each cause in `crossed` needs two at most.  *Devices.*  A second address is
what a device can move to, or a stranger can take; a channel of one loses events.
*Clipboard.*  A ring of two overflows with three contents; two engines are one that
was stopped and its successor; a channel with room for one event is full
whenever its reader is not there, which takes 64 events in the code.  `Settles` is checked
where the ring holds all that is in circulation.  With a ring of one and two contents TLC
finds two devices that send a text and files to and fro for ever; the ring of the code
(`RECENT_HASHES`, 10) has that too, but only with eleven contents in circulation at once.  *History.*  With a limit of one, any two recorders
disagree about what is old.  The proofs do not depend on any bound.

In the `send` runs the channel holds one event, so that handlers block on it all
the time.  `send` constrains the second session (`MCOther`) to what the first one
can notice of it: it finds the slot free or taken; sessions that meet at the
server are the subject of `cli`, whose runtime takes any request.  One wrong PIN is
the limit in `send_ends`, which reaches the lock-out, its clearing, and the question.
A view leaves out `told`, which the tasks show, `withdrawn`, which stays empty, and
the PIN once it was looked at.

`session`, `send_ends`, `devices` and `clipboard` run without symmetry, since they
check liveness.  In `receive`, `cli` and `pairing` the sessions, requests or devices
are interchangeable; in `history` the images are.  The views of `receive` and `cli`
leave out `told`, and `withdrawn` of requests that are over: no guard and no property
of these runs reads them.  Where a view and symmetry are used together the number of
states varies a little from one execution to the next.

Deadlock is not checked: every session identifier is used once, what users do is
bounded, and so every system comes to rest.

### Fairness (`FairSpec`)

Assumed, because the async runtime polls what can go on: every prepare handler
once it has started; every upload and confirm handler (a body that stays silent
ends by `upload_idle_timeout`); the tasks that carry spawned events; the reaper's
ticker; the passing of time while nobody calls; the application taking events
and answering for paths (a conflict question ends after 30 seconds).  Not
assumed: that the user decides, that the sender goes on, that anyone cancels or
drops a connection.  `HandlersEnd` and `WithdrawnReleased` hold under this;
`SlotReleased` holds unless the sender keeps touching the session for ever.

### Fairness of the sender (`FairSendSpec`)

Assumed: the runtime polls the sender's task at every await but the question for
the PIN (`PostNext`, `TakeAccepted`, `GiveUp`, `TaskNext`, `EndNext`); an accepted
or refused question is answered; the server's handlers, spawned events, reaper and
clock go on as above; the application takes events and answers for paths.  Not
assumed: that anyone enters a PIN, decides about a request, or cancels, that
connections fail or keep, and that the server ever notices one that failed.
`OrphanReleased` holds all the same: what nobody touches, the reaper ends, and a
sender that is over touches nothing.

### Fairness of the other modules

`DevicesSpec`: the forwarder, the liveness task (its timer fires for ever), a command
that was begun, and the sending of an event that is due.  Nobody has to come, to
announce itself or to start a round.

`ClipboardSpec`: the watch loops, the event loops, the tasks that read the events of an
engine and those that report to it, as far as each has room; and every transfer and
every push of a command that somebody is there to answer.  A transfer that nobody answers
may wait for ever, since the client sets no limit to it.  Nothing is assumed of the pushes
of the watch loop: its client has no limit of time (`clipboard/sync.rs:207`), and a peer
that went away without closing the connection keeps the loop pushing for ever.  `Settles`
says so: the exchange comes to rest, or a push stays under way for ever, or a watcher has
blocked itself (`IsStuck`, which `ApplyGoesOn` of section 4 shows).  None of the
three covers what the property is for: two devices that send one text to and fro for ever,
which TLC finds if `IsNews` does not ask the ring, or a loop that takes one change of the
counter for news again and again, if it keeps the older number (`Seen_Older`).

`FairReceiveSpec`: the handlers, the spawned sends and the event loop go on, an accept
that was begun ends, and a conflict question ends after its 30 seconds.  Neither the user
nor the sender has to do anything.

`Placement`, `Pairing`, `ClipboardHistory` and `CliReceiving` are checked for safety only.

## 4. Findings

Two have a run that TLC must find violated.

* `same_path` - two files of one name for which the user is asked at the same time
  are given the same renamed path; the second replaces the first, and both are
  reported as received (`runtime/incoming.rs:430`).
* `clip_watch` - two `clip watch` that send copied files to each other wait for each
  other for ever (`crates/cli/src/commands/clip.rs:147`).

Ten more statements of the documentation are refuted by the models.  They are stated
as definitions.  Four have a configuration of their own, which TLC finds violated as it
is (`tlc -config PlacementMixed.cfg MCPlacement`):

* `PlacedIsVerified` (`PlacementMixed.cfg`) - uploads to one path, of two files of one
  name under the policy that overwrites, or of an ended session and the next one, share a
  part file: what is put into place was verified by neither
  (`transport/server/save.rs:127`; `docs/dev-brief.md:68` says that every file is
  verified).  `FinishedIsIntact` says that there is no other way to such a file.
* `UnpairedIsRefused` (`PairingTool.cfg`) - a device unpaired with
  `lan-send devices --unpair` is still trusted by the application that runs on the same
  database, until that is started again (`crates/cli/src/commands/devices.rs:15`; ADR-0010
  says its next request is refused).
* `QuestionsEnd` (`ReceivingUnanswered.cfg`) - a request the user does not answer has no
  limit of time: it holds the slot until its sender goes away (`runtime/incoming.rs:262`;
  ADR-0013 says that unanswered decisions time out).
* `ApplyGoesOn` (`ClipboardBlocked.cfg`) - a `clip watch` that applies what a peer sent
  waits for room in a channel only its own loop empties (`clip.rs:98`,
  `clipboard/sync.rs:185`).  The channel has room for 64 events, and fills while the loop
  waits for a transfer or at the terminal: 32 copied texts with one peer.

For the other six, put the name under INVARIANT of the configuration given to see the
counterexample.

* `WithdrawnNeverActive` (`UploadSession.cfg`) - a request whose cancel was answered
  OK may still become an active session: the `select!` may take the decision
  (`transport/server/routes.rs:213`; ADR-0004 says a cancel frees the slot).
* `ToldMeansPlaced` (`UploadSession.cfg`) - a sender may be answered 200 without a
  digest for a deferred file that never leaves its part file (`routes.rs:439`).
* `FinishedMeansReceived` (`Receiving.cfg`) - a transfer is reported as finished
  although a file was refused or its upload dropped (`runtime/incoming.rs:417`,
  `routes.rs:893`).
* `FailedMeansMissing` (`Receiving.cfg`) - a transfer whose retry succeeded is
  reported as failed (`runtime/incoming.rs:532`).
* `NeverStranded` (`Receiving.cfg`) - a transfer stays active for ever when its
  request ends while its accept is on the way (`runtime/incoming.rs:355`).
* `HeldIsConfirmed` (`Sending.cfg` with `CreateChecksums = FALSE`) - a sender with
  `createChecksums` off, or `--no-checksum`, reports files as sent that the receiver
  holds back for a digest that never comes (`transport/client.rs:411`).

Seen while modelling, without a property; none of these is contradicted by a model,
most are named by a history variable:

* *Sender.*  Half a second after a lost connection the offset query may find the
  upload still in progress (409), and the sender gives the file up although it could
  be resumed (`runtime/outgoing.rs:547`).
* *Command line receiver.*  The withdrawal of any request, or a decision nobody waits
  for, clears the session that is being received (`commands/incoming.rs:196-209`): its
  files go to an unknown sender, without entry and resume row.  A late result of
  another session is credited to this one and entered under its sender.  An
  interrupted file that can be resumed is entered as failed.  Without a session files
  are still accepted, unlike in the application.  A prompt keeps the whole loop.
* *Placement.*  A handler of a cancelled session may move another handler's
  half-written part file into place (`save.rs:189`); the file is in `crossed`.  A retry replaces the question of
  the earlier attempt, and the user's answer may be lost.  Two files of the same
  content may resume the same row.  Rows that end as anything but interrupted leave
  part files nobody expires (`runtime/incoming.rs:530`, against ADR-0008's 24 hours).
* *Pairing.*  A late accept is recorded and shown as paired although the request had
  timed out (`runtime/pairing.rs:75`, and `app.rs` of the tool); a restart loses an
  event of withdrawal that was waiting, and so does a lost connection at the await of
  `routes.rs:653`: the pairing comes back with the next start.  An acceptance that could
  not be stored is answered yes.
* *Devices.*  `forget_device` is documented to let the device reappear when it is seen
  again (`runtime/mod.rs:382`); the last view stays, so an unchanged confirmation emits
  nothing.  The liveness task takes whoever answers at the address for the device.  A
  confirmation between `DropView` and `EmitLost` leaves a live device shown as lost until
  it changes.
* *Clipboard.*  On macOS a copy of the user's between a write and the look at the
  counter is taken for the write (`macos.rs:187`).  A read that fails loses the change.
  A content that is copied again while its hash is in the ring is not sent
  (ADR-0011).  A synchronisation that is restarted while a received item is written
  may send it back.  A peer that vanished during a push keeps the watch loop from noticing
  anything until its connection fails (`sync.rs:207`).
* *History.*  `clear_clipboard` lists and deletes under two locks (`db.rs:615`): an image
  recorded in between loses its row and keeps its file.  A prune of one process may
  remove the image of a row the other process has made room for.  An item dated by a
  slow clock may be pruned as soon as it is recorded, and is reported as stored.

## 5. Proofs

`UploadSession_proofs` proves, for every number of sessions, files and requests,
every attempt limit and channel capacity, from `ConstantsAssumption` alone:

* `TypeCorrect`, `FilesOwned` (the conjunction of `SingleOwner`, `UploadsOwned` and
  `ConfirmationsHold`), `ToldHonestly`: safety invariants of the run `session`;
* `AttemptsBounded`, `SessionsComplete`, `PendingOwned`, `ReceivedInPlace`: invariants
  the argument needs, proved and not run on their own;
* `EndComesLast`: a session that its files ended has no handler left, and only an
  interruption is heard of after its end;
* `SlotImplemented`: the server implements `SessionSlot`, and so it does in the three
  compositions, where an application answers and cancels besides (`CliSlotImplemented`,
  checked in `cli`; `ReceivingSlotImplemented`; `SendingSlotImplemented`).

The argument.  None of the invariants is inductive alone.  That a handler has
its file to itself needs that files are in progress exactly while an upload
handler works on them, that a confirmation holds a file that awaits its digest
and is no longer parked, and that only such files are parked (`Ownership`).
That a retry stays within the limit needs the status a file returns to
(`PendingHasAttemptLeft`).  That the slot is never displaced needs that it is
pending exactly while the handler of the same session is suspended, and that
sessions being worked on were prepared before (`SlotDiscipline`), which is also
why no session comes back (`NoRevival`).  What is on disk and what the sender was
told (`Outcomes`) rest on these: a handler that remembers a body as held finds
its session over.  `IInv` is the conjunction.

The model has some thirty actions; most disturb little.  `StepClasses` sorts
them into what they do to the slot, the files and the handlers (quiet, claim,
release, accept, begin, advance, park, settle, end), and each part of `IInv`
has one lemma that goes through the classes.  `Invariance` puts them together.

`EndComesLast` is about events, whose order `IInv` says nothing of.  `EndInv` does: the
only result that is left to a spawned task is an interruption (`OnlyCutSpawned`), a
session whose end is under way is over, with nobody working for it (`EndedIsOver`), and
behind an end in the channel there is no result of that session but an interruption
(`EndInOrder`).  `MessageStep` says in one formula what a step may do to the channel and
to the spawned tasks, so that the induction does not go through the actions again.

The module also has what every composition needs: how an application that takes an
event and acts on it in one step relates to the one here, which needs two
(`TouchKeepsServer`, `TouchKeepsOver`), which events there are (`EventShape`), and that
nobody works on a file again that is through (`Through`, `ThroughStays`,
`TouchKeepsThrough`).

`Sending_proofs` adds, from `ConstantsAssumption` and `SendingAssumption`:

* `SendingServes`: the server inside `Sending` is the server of `UploadSession`,
  whatever the senders do.  Every step of `Sending` is one of the server's or
  leaves it alone, so all theorems above hold of it (`ServerInvariant`).
* `SendTypeCorrect`, with the bounds on attempts and PIN guesses; `CallServed`:
  no task waits for an answer nobody is going to give.
* `SentInPlace`: with `CreateChecksums`, the exact guarantee behind "sent".  This
  is the assumption that `HeldIsConfirmed` above drops.

The argument: a task that has, or has acted on, a final 200 is one the receiver
told so, or whose file it has placed (`OkIsTold`).  That a 200 reaches the file
it is about rests on `CallIsServed`, whose induction needs that a handler that is
asked for is fresh and that one that ends answers whoever waits for it
(`HandlerFrame`).  What the receiver tells is true by `ToldHonestly`.

Two more theorems are about both ends of a transfer at once:

* `CallsWelcome`: a retry finds its file pending and a confirmation finds it held, as
  long as the receiver still has the session;
* `OutcomeTrue`, with `CreateChecksums`: a file that is reported as failed is not in
  place, unless a connection was lost or the user cancelled, and a transfer that ended by
  its files has ended for the receiver too.

Their invariant is `SidesAgree`, which `SidesInvariance` adds to `IInv` and `SendInv`.
The sender and the receiver count attempts, and say what has become of a file, apart
from each other.  While the receiver has the session, `Agrees` says what the task's step
and attempts tell of the file's status and attempts, lost connections or not.  Without a
lost connection or a cancel, `Straight` adds that whoever works on a file is waited for by
its task, and that a file in place is answered, or about to be answered, as such.  From
this follows that a transfer shown as finished is over for the receiver
(`FinishedIsOver`).

`Receiving_proofs` proves, from `ConstantsAssumption` and `AutoAcceptAssumption`, for any
number of sessions, files and requests:

* `ReceivingInvariance`, and with it `OwnershipInReceiving`: the server's invariant
  survives the real runtime, which takes an event and answers a request in one step
  where the application of `UploadSession` needs two;
* `ReceiveTypes`; `SessionsKnown`; `NoneStranded`; `OutcomesStay`; `ShownIsInPlace`:
  every invariant and action property the run `receive` checks.

The argument.  The runtime's picture of a session is spread over four variables and the
server's over two, and each is changed alone.  `Good(s)` says what holds of a session
between any two of those changes: the runtime knows nothing of a request before it has
taken its event (`BeforeAsked`); whoever is asked about, or on the way to being accepted,
has no session yet (`BeforeAnswered`); and, unless one of the named races has happened,
an accepted session is the recorded one and a transfer that is under way has somebody to
end it (`Agrees`).  That an event is not there a second time once it was taken needs that
questions and ends are sent once (`MarksOnce`), through the tasks that deliver them in
any order.  `ServerEffect` sorts the server's steps into six, each of the runtime's has a
lemma of its own (`...Keeps`), and a session no step is about is dealt with once
(`Untouched`).

That the interface and the disk agree (`DiskAgrees`) is about the results of a file, and
about the order in which the loop takes them.  `Books` says what holds of the server and
the channel alone: a handler's question is with the user once (`AsksOnce`), so that a
second answer cannot send it back to its file; a result that says success is about a file
in place (`ResultsTrue`); a session that has handlers or files is past its own question
(`BegunIsPast`), so that no late request for approval opens its transfer again; and the
end of a session is sent after the results of its files (`EndInv`, of `UploadSession`).
`FileInv(s, f)` adds what the interface shows of a file: one in place was announced, or
its handler is about to (`PlacedIsShown`); after a success nothing but a success is heard
(`SuccessLast`); one that is lost is given up on the screen or a failure is on its way
(`LossShown`), which is why a transfer that `complete_transfer` closes as finished has no
file open that is not in place; and a transfer that is summed up takes in nothing any more
(`SummedIsClosed`).  `ServerWork` sorts the server's steps by what they do to one file,
`BooksStep` those of the runtime.

`Pairing_proofs` proves, from `PairingAssumption` alone, for any number of devices,
requests, withdrawals and restarts:

* `PairingTypeCorrect`; `SlotHeld`: the slot of a device is taken exactly while one
  handler waits for its user;
* `TrustGiven`: nobody is trusted, in either place, unasked;
* `TrustMutual`: what a user confirmed is trusted by the other device, in both
  places, until one of the two withdraws, unless it could not be stored there;
* `PairingListsAgree`: the two places of a device agree, but for the causes collected in
  `crossed`.

The argument.  That a yes reaches the request it was given for needs that a request
on its way, or asked about, is undecided, was sent to this device, and is in one
place only (`Addressed`).  That a notice takes away only what a user withdrew needs that
whoever is said to have withdrawn did (`Noted`).  With these, `YesIsGiven`: a request is
answered yes only if its user agreed, which gives `TrustGiven`; and `Mutual`: whoever
was answered yes, is shown a code or has confirmed it is trusted on the other side
(`Good`), which only a withdrawal takes away (`GoodStays`).

`PairingListsAgree` is about the two places of one device once no task of its is between
its two writes.  In between, `Agrees(d, p)` says how far the task has come: one that adds
the peer has written the database and nobody removes it (`Adding`); one that removes it
with `unpair` has written the database as well, so the peer is not in it; one that was told
by the peer has written the list, so the peer is not in that; with no task at work the
places agree.  Every step either leaves a pair alone (`LeavesAlone`), or takes the task from
one of these to the next, or puts the pair in `crossed`; the proof shows that the causes
listed in section 2 are all there are.

`Clipboard_proofs` proves, from `ClipboardAssumption` alone, for any devices, contents,
ring size and number of synchronisations:

* `ClipboardTypes`, and `NeverEchoes`: nothing received is sent back.

The argument.  A request is an echo if it sends a hash that a peer wrote through the
same engine and that the engine has not had to forget.  `ClipboardInv` follows such a
content from the event loop to the clipboard to the watch loop: whoever holds it, it is
`Known` to the engine that was running when it came (`ApplyFacts`, `BoardFacts`,
`EngineFacts`), because the engine is told before the clipboard is written, and a hash
leaves the ring only into `dropped`.  So the watch loop finds such a hash in the ring, or it
is not an echo.  The types need that a channel is written to only when there is room.

It also proves, from `HistoryAssumption` alone (finitely many recorders; any number of
processes, commanders and entries, any limit):

* `HistoryTypes`;
* `ImagesAgree`: an image of the history has its file, and a file has a row or somebody
  who will write one or remove it;
* `HistoryStaysBounded`: the history is longer than its limit by no more than what is
  being recorded and what was recorded since deleting last succeeded.

The argument.  No worker looks at what another one is doing, so what protects a file is
what each of them knows of an item, whatever it was about to do when somebody else came in
between.  What a recorder has taken nobody else has, and it has no row yet (`OneRecorder`);
what somebody removes the file of has no row any more and none to come, or was misjudged
(`GoneForGood`); every file belongs to a row or to one of these (`FilesOwned`).  The bound
rests on `PrunedIsBounded`: what is left by pruning is as new as the oldest of it, so if it
were more than the limit, that one would have been old.  It needs that no two rows have one
rowid, which is that `NextRowid` is greater than all (`NextRowidIsNext`); that finitely many
numbers have a greatest is proved from the well-foundedness of the finite subsets of a set
(`HasGreatest`), since the library's induction over finite sets is out of the provers' reach.

`Placement_proofs` proves, from `PlacementAssumption` alone (what names, inodes and
limits are, and that there is an inode for each file that was there before):

* `PlacementTypes`;
* `MineStays`: what was there before is replaced only when the user said overwrite;
* `FinishedStaysIntact`: what has the name of a received file is one offered file, whole
  and from one sender, unless the attempt that put it there overlapped with another one on
  its path, each taken from its look at the length of the part file until its rename or
  its end, a body parked for its digest included;
* `SharingIsUnreserved`: two files of a session are given one path only by answers of the
  user, which do not reserve it.

The argument.  Most steps only end something (`Wanes`): they close files, drop questions
or forget a session, and keep every part at once; what remains are the steps that choose
a path, open a file, write to it or rename it.  That a file of the user's stays what it
was needs that no part file and no open file is its inode, and that no question, no
record to resume and no handler has its path (`MineIsApart`).  That what is received is
whole is `WritingInv`.  Names have inodes of their own (`NamesAreApart`).  An attempt whose
part file is not in `crossed` is alone on its path and knows that file (`PartIsTracked`):
`Knows` says, await by await, that the file is as long as the offset it compared, that the
chunks its digest covers are those of the offer, and in the end that it is whole.  That
this outlives the steps of others needs that an open file has no other name than the part
file of its path (`OpenIsLocal`), so that nobody writes to it from elsewhere.  A path that
a handler has was given to it (`PathsAreGiven`); and what has a name is what was there
before, or the whole of an upload the name was given to (`NamesHoldFiles`,
`PlacedIsThere`).  `SharingInv`
follows the paths that are given through the runtime's reservations and its questions.
That `UniquePath` finds a free number at all is `HasLeast`, from the well-foundedness of
the naturals.

`CliReceiving_proofs` proves, from `ConstantsAssumption` alone:

* `CliTypes`;
* `CliSessionKnown`: the session the server receives is the one the loop knows;
* `CliReportsTrue`: the history claims no file that is not in place, and the report of an
  undisturbed session that its files ended names exactly the files in place.

The argument.  The loop is one more application of `UploadSession` (`LoopTouches`), so
`IInv`, `EndInv` and the lemmas about an application's step hold of it.  That the loop
knows the session needs what the events under way that could make it forget one are
about (`PartingEvents`).  The report is made from what the loop has heard, and so needs
that what it has heard is all there is to hear: between the rename and the report, a file
in place is about to be reported, on its way, entered, or too late for it (`Accounted`);
the success of a file is the last that is heard of it, since a file that is through is
not worked on again (`SuccessComesLast`); and what was reported is over
(`ReportedIsOver`).

`Devices_proofs` proves, from `DevicesAssumption` alone, for any peers, addresses, channel
capacity, and limits on addresses and failures:

* `DevicesTypes`; a device is remembered at no more than `MaxAddresses` addresses, none of
  them twice;
* `ShownAsNoted`: a device no task is at work on is shown the way it was last noted;
* `RoundFindsAll`: a round finds every device that is there all the while.

The argument.  `Merged` keeps the addresses of a device apart (`MergedFacts`): the new one
is taken out of the older ones before it is put first.  Of the three tasks at most one works
on a device that is not in `crossed` (`AloneWith`); what that task has yet to emit is what
was noted last (`NotedLast`), and what is shown agrees with what was noted except while such
an event is due (`Follows`).  A scan has found whoever was there from the beginning, or has
still to ask at its address (`RoundCovers`), because no two devices answer at one address;
when it ends there is no address left.

What is left to TLC alone: liveness under fairness, which rests on ENABLED and is out of the reach of the prover.
Every invariant and action property of the passing runs, and the refinement of
`SessionSlot` in each composition that checks it, is the statement of a theorem.

## 6. Not modelled, and the plan

Parts of modelled components that are left out are named in their sections above and
in `PROJECT.json`.  What is left whole:

* the command line sender (`crates/cli/src/commands/send.rs`): the protocol of `Sending`
  written a second time; it would be a second composition with `UploadSession`;
* settings that change while the server runs, and start and stop of its parts
  (`runtime/mod.rs`);
* transfer history rows;
* TLS and certificates, wire formats, media previews, the formats of platform
  clipboards and the graphical front end: no protocol state, or input and output only.

Next: the command line sender as a second composition.
