------------------------------ MODULE Clipboard ------------------------------
(***************************************************************************)
(* Clipboard synchronisation between paired devices: on each one the watch *)
(* loop of the synchronisation that is running (crates/core/src/clipboard/ *)
(* sync.rs), the event loop that writes what a peer has pushed to the      *)
(* clipboard, the commands of the user (runtime/clipboard.rs), and the     *)
(* requests between them (transport/server/routes.rs, transport/client.rs).*)
(*                                                                         *)
(* A synchronisation that is stopped finishes what it has begun, while the *)
(* next one may run: engines are numbered.                                 *)
(*                                                                         *)
(* A device may also run "lan-send clip watch" (crates/cli/src/commands/   *)
(* clip.rs): one loop for what the peers send and for what was copied      *)
(* here, which waits for each transfer of files it starts.                 *)
(***************************************************************************)
EXTENDS Naturals, Sequences, SequencesExt

CONSTANTS
    Devices,     \* all of them paired with each other
    Items,       \* texts and images
    Filesets,    \* copied files: they travel as a transfer
    Oversized,   \* the items above the limit of the watch loop
    Macs,        \* devices with the macOS clipboard; the others have the Windows one
    Watchers,    \* devices that run clip watch, the others run the application
    RingSize,    \* RECENT_HASHES
    SyncRoom,    \* the channel of a synchronisation's events, 64
    ServerRoom,  \* the channel of the server's events, 256
    MaxEngines,  \* bound: synchronisations a device starts
    MaxEvents,   \* bound: what the users do
    None

ASSUME ClipboardAssumption ==
    /\ Items \cap Filesets = {} /\ Oversized \subseteq Items
    /\ Macs \subseteq Devices /\ Watchers \subseteq Devices
    /\ None \notin Items \cup Filesets \cup Devices
    /\ {RingSize, SyncRoom, ServerRoom, MaxEngines} \subseteq Nat \ {0} /\ MaxEvents \in Nat

VARIABLES
    board,    \* the clipboard of each device
    current,  \* the engine that is running, or 0
    engine,   \* the engines of each device
    channel,  \* the events of each engine: the transfers that files copied call for,
              \* or {} for all the others
    sending,  \* transfers the loop of a watcher has still to make, or waits for
    calls,    \* pushes and transfers of files that are under way
    reports,  \* pushes that are over, their engine not yet told
    inbox,    \* what the server has received, for the event loop
    apply,    \* what the event loop is about to write
    events

clipboardVars == <<board, current, engine, channel, sending, calls, reports, inbox, apply, events>>

Engines == 1..MaxEngines
Contents == Items \cup Filesets

\* content_hash: of files, the paths where they are on this device.
Hash(c, d) == [content |-> c, at |-> IF c \in Filesets THEN d ELSE None]

\* What the clipboard holds, and (history) whether a peer wrote it, through which
\* engine.
Nothing == [hash |-> None, remote |-> FALSE, via |-> 0]
NotStarted == [pc |-> "new", moved |-> FALSE, ring |-> <<>>, dropped |-> {}, read |-> Nothing,
               echo |-> FALSE]
Started == [NotStarted EXCEPT !.pc = "waiting"]
Idle == [pc |-> "idle", content |-> None, engine |-> 0]

ClipboardInit ==
    /\ board = [d \in Devices |-> Nothing]
    /\ current = [d \in Devices |-> 1]
    /\ engine = [d \in Devices |-> [e \in Engines |->
                    IF e = 1 THEN Started ELSE NotStarted]]
    /\ channel = [d \in Devices |-> [e \in Engines |-> <<>>]]
    /\ sending = [d \in Devices |-> {}]
    /\ calls = {} /\ reports = {}
    /\ inbox = [d \in Devices |-> <<>>]
    /\ apply = [d \in Devices |-> Idle]
    /\ events = 0

Event == events < MaxEvents /\ events' = events + 1

\* An engine awaits room for each of its events.
HasRoom(d, e) == Len(channel[d][e]) < SyncRoom
Tells(d, e, event) == HasRoom(d, e) /\ channel' = [channel EXCEPT ![d][e] = Append(@, event)]

\* RecentHashes: the oldest hash gives way; `dropped` is history.  The variant keeps
\* them all.
Remembered_All(ring, h) == Append(ring, h)
Remembered(ring, h) == Append(IF Len(ring) >= RingSize THEN Tail(ring) ELSE ring, h)
Remembers(r, h) ==
    [r EXCEPT !.ring = Remembered(@, h),
              !.dropped = (@ \cup ToSet(r.ring) \cup {h}) \ ToSet(Remembered(r.ring, h))]
IsRecent(ring, h) == h \in ToSet(ring)

\* A write to the clipboard moves its change counter, which each engine compares
\* with the one it saw last.
Puts(d, content, engines) ==
    /\ board' = [board EXCEPT ![d] = content]
    /\ engine' = [engine EXCEPT ![d] = [e \in Engines |->
                    [engines[e] EXCEPT !.moved = engines[e].pc \notin {"new", "ended"}]]]

------------------------------------------------------------------------------
(* The user.                                                               *)

\* Something is copied, or put back from the history (clipboard_copy).
Copy(d, c) ==
    /\ Event
    /\ Puts(d, [hash |-> Hash(c, d), remote |-> FALSE, via |-> 0], engine[d])
    /\ UNCHANGED <<current, channel, sending, calls, reports, inbox, apply>>

\* stop_clipboard_sync.  A watch loop that waits returns; one that has noticed a
\* change goes on.
StopSync(d) ==
    /\ d \notin Watchers /\ Event /\ current[d] # 0
    /\ current' = [current EXCEPT ![d] = 0]
    /\ engine' = [engine EXCEPT ![d][current[d]].pc = IF @ = "waiting" THEN "ended" ELSE @]
    /\ UNCHANGED <<board, channel, sending, calls, reports, inbox, apply>>

\* start_clipboard_sync: an empty ring, and the change counter as it is.
StartSync(d, e) ==
    /\ Event /\ current[d] = 0
    /\ engine[d][e].pc = "new" /\ \A i \in 1..(e - 1) : engine[d][i].pc # "new"
    /\ current' = [current EXCEPT ![d] = e]
    /\ engine' = [engine EXCEPT ![d][e] = Started]
    /\ UNCHANGED <<board, channel, sending, calls, reports, inbox, apply>>

\* Requests to all peers: items as a push, files as a transfer.  The engine is 0
\* for a command of the user.
Calls(d, e, content, echo) ==
    {[from |-> d, to |-> q, engine |-> e, content |-> content, echo |-> echo] : q \in Devices \ {d}}

\* clipboard_push, and the command clip push: whatever is there, without asking the
\* ring.
Unasked(d) == Calls(d, 0, board[d].hash.content, FALSE)
PushNow(d) ==
    /\ Event /\ board[d] # Nothing
    /\ calls' = calls \cup Unasked(d)
    /\ UNCHANGED <<board, current, engine, channel, sending, reports, inbox, apply>>

------------------------------------------------------------------------------
(* The watch loop.                                                         *)

\* It waits again, or returns if it has been stopped.
Rest(d, e) == IF current[d] = e THEN "waiting" ELSE "ended"

\* wait_for_change compares the counter with the one seen last, and sees it.  The
\* variant keeps the older one.
HasChanged(r) == r.moved
Seen_Older(r) == r
Seen(r) == [r EXCEPT !.moved = FALSE]
Notice(d, e) ==
    /\ engine[d][e].pc = "waiting" /\ HasChanged(engine[d][e])
    /\ engine' = [engine EXCEPT ![d][e] = [Seen(@) EXCEPT !.pc = "noticed"]]
    /\ UNCHANGED <<board, current, channel, sending, calls, reports, inbox, apply, events>>

\* The clipboard is read as it is now.
Readable(d) == board[d] # Nothing
ReadBoard(d, e) ==
    /\ engine[d][e].pc = "noticed" /\ Readable(d)
    /\ engine' = [engine EXCEPT ![d][e].pc = "read", ![d][e].read = board[d]]
    /\ UNCHANGED <<board, current, channel, sending, calls, reports, inbox, apply, events>>
ReadNothing(d, e) ==
    /\ engine[d][e].pc = "noticed" /\ ~Readable(d)
    /\ engine' = [engine EXCEPT ![d][e].pc = Rest(d, e)]
    /\ UNCHANGED <<board, current, channel, sending, calls, reports, inbox, apply, events>>

\* Another process holds the clipboard of Windows all the time: the change is
\* given up, which is an event.
ReadFails(d, e) ==
    /\ engine[d][e].pc = "noticed" /\ d \notin Macs
    /\ engine' = [engine EXCEPT ![d][e].pc = "failed"]
    /\ UNCHANGED <<board, current, channel, sending, calls, reports, inbox, apply, events>>
TellError(d, e) ==
    /\ engine[d][e].pc = "failed"
    /\ Tells(d, e, {})
    /\ engine' = [engine EXCEPT ![d][e].pc = Rest(d, e)]
    /\ UNCHANGED <<board, current, sending, calls, reports, inbox, apply, events>>

\* What the ring knows is not sent.  `echo` is history: a peer wrote this through the
\* engine that is about to send it, and that has not had to drop its hash.
IsNews(r) == ~IsRecent(r.ring, r.read.hash)
IsEcho(d, e) == LET r == engine[d][e]
                IN r.read.remote /\ r.read.via = e /\ r.read.hash \notin r.dropped
IgnoreKnown(d, e) ==
    /\ engine[d][e].pc = "read" /\ ~IsNews(engine[d][e])
    /\ engine' = [engine EXCEPT ![d][e].pc = Rest(d, e), ![d][e].read = Nothing]
    /\ UNCHANGED <<board, current, channel, sending, calls, reports, inbox, apply, events>>
FindNews(d, e) ==
    /\ engine[d][e].pc = "read" /\ IsNews(engine[d][e])
    /\ engine' = [engine EXCEPT ![d][e].pc = "news", ![d][e].echo = IsEcho(d, e)]
    /\ UNCHANGED <<board, current, channel, sending, calls, reports, inbox, apply, events>>

\* All else is remembered, the ring locked a second time.
RememberRead(d, e) ==
    /\ engine[d][e].pc = "news"
    /\ engine' = [engine EXCEPT ![d][e] = [Remembers(@, @.read.hash) EXCEPT !.pc = "remembered"]]
    /\ UNCHANGED <<board, current, channel, sending, calls, reports, inbox, apply, events>>

\* And sent, unless it is too large: an event comes first.
Outgoing(d, e) ==
    Calls(d, e, engine[d][e].read.hash.content, engine[d][e].echo)
Has(d, e, kind) == engine[d][e].pc = "remembered" /\ engine[d][e].read.hash.content \in kind
Then(d, e, pc) ==
    engine' = [engine EXCEPT ![d][e] = [@ EXCEPT !.pc = pc, !.read = Nothing, !.echo = FALSE]]
SkipLarge(d, e) ==
    /\ Has(d, e, Oversized)
    /\ Tells(d, e, {})
    /\ Then(d, e, Rest(d, e))
    /\ UNCHANGED <<board, current, sending, calls, reports, inbox, apply, events>>
HandFiles(d, e) ==
    /\ Has(d, e, Filesets)
    /\ Tells(d, e, Outgoing(d, e))
    /\ Then(d, e, Rest(d, e))
    /\ UNCHANGED <<board, sending, current, calls, reports, inbox, apply, events>>
PushItem(d, e) ==
    /\ Has(d, e, Items \ Oversized)
    /\ Tells(d, e, {})
    /\ Then(d, e, "pushing")
    /\ calls' = calls \cup Outgoing(d, e)
    /\ UNCHANGED <<board, current, sending, reports, inbox, apply, events>>

\* Each push tells how it went, the loop goes on when all have.
Report(k) ==
    /\ k \in reports
    /\ Tells(k.from, k.engine, {})
    /\ reports' = reports \ {k}
    /\ UNCHANGED <<board, current, engine, sending, calls, inbox, apply, events>>
IsPush(k) == k.engine # 0 /\ k.content \in Items
EndPush(d, e) ==
    /\ engine[d][e].pc = "pushing"
    /\ \A k \in calls \cup reports : IsPush(k) => k.from # d \/ k.engine # e
    /\ engine' = [engine EXCEPT ![d][e].pc = Rest(d, e)]
    /\ UNCHANGED <<board, current, channel, sending, calls, reports, inbox, apply, events>>

\* sync_events takes the events of its engine.  It starts a transfer to every peer
\* for files that were copied, and goes on.
Taken(d, e) == channel' = [channel EXCEPT ![d][e] = Tail(@)]
TakeEvent(d, e) ==
    /\ d \notin Watchers /\ channel[d][e] # <<>>
    /\ Taken(d, e)
    /\ calls' = calls \cup Head(channel[d][e])
    /\ UNCHANGED <<board, current, engine, sending, reports, inbox, apply, events>>

\* A watcher takes them in the loop that also takes the server's; it makes the
\* transfers one after the other, and does nothing else meanwhile.
IsFree(d) == d \in Watchers => sending[d] = {} /\ apply[d].pc = "idle"
WatchEvent(d, e) ==
    /\ d \in Watchers /\ IsFree(d) /\ channel[d][e] # <<>>
    /\ Taken(d, e)
    /\ sending' = [sending EXCEPT ![d] = Head(channel[d][e])]
    /\ UNCHANGED <<board, current, engine, calls, reports, inbox, apply, events>>
WatchSends(d) ==
    /\ sending[d] \cap calls = {}
    /\ \E k \in sending[d] : calls' = calls \cup {k}
    /\ UNCHANGED <<board, current, engine, channel, sending, reports, inbox, apply, events>>
Returns(k) ==
    /\ sending' = [sending EXCEPT ![k.from] = @ \ {k}]
    /\ reports' = IF IsPush(k) THEN reports \cup {k} ELSE reports

------------------------------------------------------------------------------
(* The peer.                                                               *)

\* The server answers an item when there is room for its event.  A transfer of files
\* has an end when the receiver answers for it, a watcher in its loop.
IsAnswered(k) == Len(inbox[k.to]) < ServerRoom /\ (k.content \in Filesets => IsFree(k.to))
Deliver(k) ==
    /\ k \in calls /\ IsAnswered(k)
    /\ calls' = calls \ {k}
    /\ Returns(k)
    /\ inbox' = [inbox EXCEPT ![k.to] = Append(@, k.content)]
    /\ UNCHANGED <<board, current, engine, channel, apply, events>>

\* It cannot be reached, refuses the item, or its user refuses the files.
FailCall(k) ==
    /\ k \in calls
    /\ calls' = calls \ {k}
    /\ Returns(k)
    /\ UNCHANGED <<board, current, engine, channel, inbox, apply, events>>

\* on_clipboard_received and apply_clipboard_files: the engine that runs now is
\* told what will be written, then the clipboard is written, or it is busy.
TakeReceived(d) ==
    /\ apply[d].pc = "idle" /\ IsFree(d) /\ inbox[d] # <<>>
    /\ apply' = [apply EXCEPT ![d] = [pc |-> "taken", content |-> Head(inbox[d]),
                                      engine |-> current[d]]]
    /\ inbox' = [inbox EXCEPT ![d] = Tail(@)]
    /\ UNCHANGED <<board, current, engine, channel, sending, calls, reports, events>>

\* The variant tells it nothing.
Told_Nothing(r, h) == r
Told(r, h) == Remembers(r, h)
TellEngine(d) ==
    LET e == apply[d].engine IN
    /\ apply[d].pc = "taken"
    /\ apply' = [apply EXCEPT ![d].pc = "told"]
    /\ engine' = IF e = 0 THEN engine
                 ELSE [engine EXCEPT ![d][e] = Told(@, Hash(apply[d].content, d))]
    /\ UNCHANGED <<board, current, channel, sending, calls, reports, inbox, events>>

\* A write through the clipboard of a running engine is followed, on macOS, by a
\* look at the change counter, and by an event if it succeeded; files are written
\* through a clipboard of their own.
IsThrough(d) == apply[d].engine # 0 /\ apply[d].content \in Items
AfterWrite(d, pc) ==
    apply' = [apply EXCEPT ![d] = CASE IsThrough(d) /\ d \in Macs -> [@ EXCEPT !.pc = pc]
                                    [] IsThrough(d) /\ d \notin Macs /\ pc = "wrote" ->
                                           [@ EXCEPT !.pc = "applied"]
                                    [] OTHER -> Idle]
WriteReceived(d) ==
    /\ apply[d].pc = "told"
    /\ AfterWrite(d, "wrote")
    /\ Puts(d, [hash |-> Hash(apply[d].content, d), remote |-> TRUE, via |-> apply[d].engine],
            engine[d])
    /\ UNCHANGED <<current, channel, sending, calls, reports, inbox, events>>

\* The clipboard was emptied, and then refused the content.
WriteSpoils(d) ==
    /\ apply[d].pc = "told"
    /\ AfterWrite(d, "spoiled")
    /\ Puts(d, Nothing, engine[d])
    /\ UNCHANGED <<current, channel, sending, calls, reports, inbox, events>>
WriteFails(d) ==
    /\ apply[d].pc = "told"
    /\ apply' = [apply EXCEPT ![d] = Idle]
    /\ UNCHANGED <<board, current, engine, channel, sending, calls, reports, inbox, events>>

\* The counter as it is now counts as seen, whoever has moved it.  A look of the watch
\* loop that is under way since before the write finds it changed, and puts back the
\* older one.
MarkSeen(d) ==
    LET e == apply[d].engine IN
    /\ apply[d].pc \in {"wrote", "spoiled"}
    /\ apply' = [apply EXCEPT ![d] = IF @.pc = "wrote" THEN [@ EXCEPT !.pc = "applied"] ELSE Idle]
    /\ \/ engine' = [engine EXCEPT ![d][e] = Seen(@)]
       \/ /\ engine[d][e].pc = "waiting" /\ HasChanged(engine[d][e])
          /\ engine' = [engine EXCEPT ![d][e].pc = "noticed"]
    /\ UNCHANGED <<board, current, channel, sending, calls, reports, inbox, events>>

\* apply_remote awaits room for its event, and the event loop awaits apply_remote.
TellApplied(d) ==
    /\ apply[d].pc = "applied"
    /\ Tells(d, apply[d].engine, {})
    /\ apply' = [apply EXCEPT ![d] = Idle]
    /\ UNCHANGED <<board, current, engine, sending, calls, reports, inbox, events>>

------------------------------------------------------------------------------

UserStep(d) ==
    \/ \E c \in Contents : Copy(d, c)
    \/ StopSync(d) \/ PushNow(d) \/ \E e \in Engines : StartSync(d, e)
WatchStep(d, e) ==
    \/ Notice(d, e) \/ ReadBoard(d, e) \/ ReadNothing(d, e) \/ ReadFails(d, e) \/ TellError(d, e)
    \/ IgnoreKnown(d, e) \/ FindNews(d, e) \/ RememberRead(d, e)
    \/ SkipLarge(d, e) \/ HandFiles(d, e) \/ PushItem(d, e) \/ EndPush(d, e)
EventStep(d, e) == TakeEvent(d, e) \/ WatchEvent(d, e)
ApplyStep(d) ==
    \/ TakeReceived(d) \/ TellEngine(d)
    \/ WriteReceived(d) \/ WriteSpoils(d) \/ WriteFails(d) \/ MarkSeen(d) \/ TellApplied(d)

ClipboardNext ==
    \/ \E d \in Devices :
          \/ UserStep(d) \/ ApplyStep(d) \/ WatchSends(d)
          \/ \E e \in Engines : WatchStep(d, e) \/ EventStep(d, e)
    \/ \E k \in calls : Deliver(k) \/ FailCall(k)
    \/ \E k \in reports : Report(k)

\* Loops go on, as far as there is room.  Transfers and the commands of the user
\* end, if the peer answers at all; a push of the watch loop has no limit of time and
\* need not end.  The users need not do anything.
Ends(k) == IsAnswered(k) /\ (Deliver(k) \/ FailCall(k))
Reports(d, e) == \E k \in reports : k.from = d /\ k.engine = e /\ Report(k)
ClipboardSpec ==
    /\ ClipboardInit /\ [][ClipboardNext]_clipboardVars
    /\ \A d \in Devices :
          /\ WF_clipboardVars(WatchSends(d)) /\ WF_clipboardVars(ApplyStep(d))
          /\ \A e \in Engines : /\ WF_clipboardVars(WatchStep(d, e))
                                /\ WF_clipboardVars(EventStep(d, e))
                                /\ WF_clipboardVars(Reports(d, e))
    /\ WF_clipboardVars(\E k \in calls : ~IsPush(k) /\ Ends(k))

------------------------------------------------------------------------------
(* Properties.                                                             *)

Hashes == {Hash(c, d) : c \in Contents, d \in Devices}
Held == [hash : Hashes, remote : BOOLEAN, via : 0..MaxEngines]
AllCalls == [from : Devices, to : Devices, engine : 0..MaxEngines, content : Contents,
             echo : BOOLEAN]

\* The type invariant.  A ring never holds more than RingSize hashes, and no
\* engine but the running one waits for changes.
ClipboardTypeOK ==
    /\ board \in [Devices -> Held \cup {Nothing}]
    /\ current \in [Devices -> 0..MaxEngines]
    /\ \A d \in Devices, e \in Engines :
          LET r == engine[d][e] IN
          /\ r.pc \in {"new", "waiting", "noticed", "failed", "read", "news", "remembered",
                      "pushing", "ended"}
          /\ r.moved \in BOOLEAN /\ r.echo \in BOOLEAN /\ r.read \in Held \cup {Nothing}
          /\ r.ring \in Seq(Hashes) /\ Len(r.ring) <= RingSize /\ r.dropped \subseteq Hashes
          /\ r.pc = "waiting" => current[d] = e
          /\ channel[d][e] \in Seq(SUBSET AllCalls) /\ Len(channel[d][e]) <= SyncRoom
    /\ calls \subseteq AllCalls /\ reports \subseteq AllCalls
    /\ \A d \in Devices : sending[d] # {} => d \in Watchers /\ sending[d] \subseteq AllCalls
    /\ inbox \in [Devices -> Seq(Contents)]
    /\ apply \in [Devices -> [pc : {"idle", "taken", "told", "wrote", "spoiled", "applied"},
                              content : Contents \cup {None}, engine : 0..MaxEngines]]

\* No engine sends to the peers what a peer has put on the clipboard, unless it
\* was told of it and has remembered RingSize other contents since, or another
\* engine was running when it came.
NoEcho ==
    /\ \A k \in calls \cup UNION {sending[d] : d \in Devices} : ~k.echo
    /\ \A d \in Devices, e \in Engines : \A k \in UNION ToSet(channel[d][e]) : ~k.echo

\* A watcher that has written what a peer sent, and waits for room in the channel
\* that only its own loop empties.
IsStuck(d) == d \in Watchers /\ apply[d].pc = "applied" /\ ~HasRoom(d, apply[d].engine)

\* When the users are done, so is the synchronisation: nothing goes back and forth
\* between the devices for ever, no engine waits for room or for answers for ever;
\* unless a watcher has blocked itself, or a push is never answered.
IsQuiet ==
    /\ calls = {} /\ reports = {}
    /\ \A d \in Devices :
          /\ sending[d] = {} /\ inbox[d] = <<>> /\ apply[d] = Idle
          /\ \A e \in Engines : /\ channel[d][e] = <<>>
                                /\ engine[d][e].pc \in {"new", "waiting", "ended"}
Pushes == {k \in AllCalls : IsPush(k) /\ k.from # k.to /\ k.content \notin Oversized}
Settles ==
    \/ <>[](IsQuiet \/ \E d \in Watchers : IsStuck(d))
    \/ \E k \in Pushes : <>[](k \in calls)

\* clip.rs calls clip watch a "Bidirectional sync with the given (or all) paired
\* devices until Ctrl+C": a watcher that sends files comes back to its loop,
WatchGoesOn == \A d \in Watchers : sending[d] # {} ~> sending[d] = {}

\* and so does one that writes what a peer has sent.
ApplyGoesOn == \A d \in Watchers : apply[d].pc # "idle" ~> apply[d].pc = "idle"
==============================================================================
