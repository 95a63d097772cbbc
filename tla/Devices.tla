------------------------------- MODULE Devices -------------------------------
(***************************************************************************)
(* The devices of the network as one device sees them: discovery, which    *)
(* confirms what answers (crates/core/src/discovery/mod.rs, store.rs), the *)
(* database of known devices (store/db.rs), the task that forwards what    *)
(* discovery confirms, the one that notices who is gone, the commands of   *)
(* the user (runtime/devices.rs, runtime/mod.rs) and the list the          *)
(* application shows (apps/app/src/store.ts).                              *)
(*                                                                         *)
(* Three tasks write what is shown.  Each takes several locks one after    *)
(* the other and then emits an event, so they can pass each other.         *)
(***************************************************************************)
EXTENDS Naturals, Sequences, SequencesExt

CONSTANTS
    Peers,         \* the other devices
    Addresses,     \* the addresses of the local subnet
    Multicast,     \* whether a multicast socket could be bound
    AlwaysScan,    \* always_scan_subnets, on mobile devices
    MaxAddresses,  \* how many addresses are remembered (MAX_ADDRESSES)
    Capacity,      \* events in the channel (EVENT_CAPACITY)
    MaxFailures,   \* failed probes until a device is gone (LIVENESS_FAILURES)
    MaxEvents,     \* bound: what comes from outside: changes of the network,
                   \* registrations, announcements, rounds and commands
    None

\* What the database and the application keep of a device.
Rows == [addr : Addresses, mark : BOOLEAN]
Views == [addr : Addresses, mark : BOOLEAN, online : BOOLEAN]

ASSUME DevicesAssumption ==
    /\ None \notin Peers \cup Addresses \cup Rows \cup Views
    /\ {Multicast, AlwaysScan} \subseteq BOOLEAN
    /\ {MaxAddresses, Capacity, MaxFailures} \subseteq Nat \ {0}
    /\ MaxEvents \in Nat

VARIABLES
    at,          \* where each peer can be reached
    others,      \* addresses where some other device answers
    found,       \* DeviceStore: the addresses of each device, latest first
    sending,     \* confirmations whose event is still to be sent
    channel,     \* the broadcast channel of discovery
    round,       \* the discovery round that is under way
    book,        \* the devices table
    offline,     \* devices that were found to be gone
    lastViews,   \* what each device was last reported as
    shown,       \* what the application shows
    forwarder,   \* the task forward_discovery
    liveness,    \* the task liveness
    failures,    \* its count of failed probes
    command,     \* the command of the user that is under way
    crossed,     \* history: devices two tasks reported on at a time
    forgotten,   \* history: devices the user has had forgotten
    events

network == <<at, others>>
discovery == <<found, sending, channel, round>>
list == <<book, offline, lastViews, shown, crossed, forgotten>>
devicesVars == <<network, discovery, list, forwarder, liveness, failures, command, events>>

NoRound == [pc |-> "idle", left |-> {}, quiet |-> TRUE, present |-> {}]
NoForward == [pc |-> "idle", peer |-> None, addr |-> None, news |-> FALSE, view |-> None]
NoProbes == [pc |-> "idle", left |-> {}, dead |-> {}, peer |-> None]
NoCommand == [pc |-> "idle", peer |-> None, view |-> None, forget |-> FALSE]

\* The application runs: it shows the devices of the database, and those of them
\* that have been met since it was started where they are.
DevicesInit ==
    \E met \in SUBSET Peers :
        /\ at \in [Peers -> Addresses \cup {None}]
        /\ \A p, q \in Peers : at[p] = at[q] => p = q \/ at[p] = None
        /\ book \in [Peers -> [addr : Addresses, mark : {FALSE}] \cup {None}]
        /\ \A p \in met : book[p] # None /\ book[p].addr = at[p]
        /\ found = [p \in Peers |-> IF p \in met THEN <<at[p]>> ELSE <<>>]
        /\ shown = [p \in Peers |-> IF book[p] = None THEN None
                                   ELSE [addr |-> book[p].addr, mark |-> FALSE, online |-> p \in met]]
        /\ lastViews = [p \in Peers |-> IF p \in met THEN shown[p] ELSE None]
        /\ others = {} /\ offline = {} /\ sending = {} /\ channel = <<>>
        /\ round = NoRound /\ forwarder = NoForward /\ liveness = NoProbes /\ command = NoCommand
        /\ failures = [p \in Peers |-> 0]
        /\ crossed = {} /\ forgotten = {}
        /\ events = 0

\* A device comes, goes or gets another address, and so do devices that are not
\* in Peers.
Move(p, x) ==
    /\ events < MaxEvents /\ at[p] # x
    /\ \A q \in Peers : x # None => at[q] # x
    /\ x \notin others
    /\ events' = events + 1
    /\ at' = [at EXCEPT ![p] = x]
    /\ round' = [round EXCEPT !.present = @ \ {p}]
    /\ UNCHANGED <<others, found, sending, channel, list, forwarder, liveness,
                   failures, command>>
Take(x) ==
    /\ events < MaxEvents
    /\ \A q \in Peers : at[q] # x
    /\ events' = events + 1
    /\ others' = IF x \in others THEN others \ {x} ELSE others \cup {x}
    /\ UNCHANGED <<at, discovery, list, forwarder, liveness, failures, command>>

------------------------------------------------------------------------------
(* Confirming.                                                             *)

Target(p) == Head(found[p])
IsFound(p) == found[p] # <<>>

\* DeviceStore::upsert: the new address first, the others of the older ones after it;
\* no address is among those twice.  The variant only puts it first.
Merged_Pushed(x, older) ==
    LET all == <<x>> \o older
    IN SubSeq(all, 1, IF Len(all) < MaxAddresses THEN Len(all) ELSE MaxAddresses)
Merged(x, older) ==
    LET all == <<x>> \o RemoveFirst(older, x)
    IN SubSeq(all, 1, IF Len(all) < MaxAddresses THEN Len(all) ELSE MaxAddresses)

\* confirm: the store is updated, then an event is sent.  A round that is under
\* way sees that somebody was confirmed.
Confirmed(p, x, r) ==
    /\ found' = [found EXCEPT ![p] = Merged(x, @)]
    /\ sending' = sending \cup {[peer |-> p, addr |-> x, news |-> ~IsFound(p)]}
    /\ round' = [r EXCEPT !.quiet = FALSE]

\* A register request to an address: whoever is there answers, or nobody.
Registered(x, r) ==
    \/ \E p \in Peers : at[p] = x /\ Confirmed(p, x, r)
    \/ /\ \A p \in Peers : at[p] # x
       /\ round' = IF x \in others THEN [r EXCEPT !.quiet = FALSE] ELSE r
       /\ UNCHANGED <<found, sending>>
IsAnswered(x) == x \in others \/ \E p \in Peers : at[p] = x

\* The event of a confirmation is sent; if the channel is full the oldest event
\* is lost (RecvError::Lagged), which forward_discovery passes over.
SendEvent(e) ==
    /\ e \in sending
    /\ sending' = sending \ {e}
    /\ channel' = IF Len(channel) < Capacity THEN Append(channel, e) ELSE Append(Tail(channel), e)
    /\ UNCHANGED <<network, found, round, list, forwarder, liveness, failures,
                   command, events>>

Upserted(p, x) == [book EXCEPT ![p] = [addr |-> x, mark |-> IF @ = None THEN FALSE ELSE @.mark]]

\* A peer registers with our server, or sends us something (confirm_peer).
HearRegister(p) ==
    /\ at[p] # None /\ events < MaxEvents
    /\ events' = events + 1
    /\ book' = Upserted(p, at[p])
    /\ Confirmed(p, at[p], round)
    /\ UNCHANGED <<network, channel, offline, lastViews, shown, crossed,
                   forgotten, forwarder, liveness, failures, command>>

\* The announcement of a peer is answered with a register request, unless it was
\* answered shortly before or the request fails.
HearAnnouncement(p) ==
    /\ Multicast /\ at[p] # None /\ events < MaxEvents
    /\ events' = events + 1
    /\ Confirmed(p, at[p], round)
    /\ UNCHANGED <<network, channel, list, forwarder, liveness, failures, command>>

------------------------------------------------------------------------------
(* A discovery round.                                                      *)

\* discover_on: the addresses of known devices first.  A round asked for while
\* another one is under way is dropped.
StartRound ==
    /\ round.pc = "idle" /\ events < MaxEvents
    /\ events' = events + 1
    /\ round' = [pc |-> "probing", quiet |-> TRUE, present |-> {p \in Peers : at[p] # None},
                 left |-> {book[p].addr : p \in {q \in Peers : book[q] # None}}]
    /\ UNCHANGED <<network, found, sending, channel, list, forwarder, liveness,
                   failures, command>>

\* probe_many, of the known addresses or of the whole subnet.
ProbeAddress(x) ==
    /\ x \in round.left
    /\ Registered(x, [round EXCEPT !.left = @ \ {x}])
    /\ UNCHANGED <<network, channel, list, forwarder, liveness, failures,
                   command, events>>

\* The subnet is scanned when nobody was confirmed meanwhile, or if multicast
\* cannot be relied on.  The variant relies on it.
Escalates_Deaf == ~Multicast
Escalates == AlwaysScan \/ ~Multicast \/ round.quiet
ScanSubnet ==
    /\ round.pc = "probing" /\ round.left = {} /\ Escalates
    /\ round' = [round EXCEPT !.pc = "scanning", !.left = Addresses]
    /\ UNCHANGED <<network, found, sending, channel, list, forwarder, liveness,
                   failures, command, events>>
EndRound ==
    /\ round.left = {}
    /\ \/ round.pc = "probing" /\ ~Escalates
       \/ round.pc = "scanning"
    /\ round' = NoRound
    /\ UNCHANGED <<network, found, sending, channel, list, forwarder, liveness,
                   failures, command, events>>

------------------------------------------------------------------------------
(* What is shown.                                                          *)

View(x, p, online) == [addr |-> x, mark |-> book[p] # None /\ book[p].mark, online |-> online]

\* device_view: live, or remembered.
DeviceView(p) == IF IsFound(p) THEN View(Target(p), p, p \notin offline)
                 ELSE View(book[p].addr, p, FALSE)

\* The application: device-found and device-updated put the device in its list,
\* device-lost leaves it there as offline.
Lost(p) == shown' = [shown EXCEPT ![p] = IF @ = None THEN None ELSE [@ EXCEPT !.online = FALSE]]
Show(p, view) == shown' = [shown EXCEPT ![p] = view]

\* The tasks that are between their first lock and their event for a device.
IsForwarding(p) == forwarder.pc \in {"cleared", "noted"} /\ forwarder.peer = p
IsLosing(p) == liveness.pc \in {"losing", "lost"} /\ liveness.peer = p
IsCommanded(p) == command.pc # "idle" /\ command.peer = p
Crosses(p, when) == crossed' = IF when THEN crossed \cup {p} ELSE crossed

------------------------------------------------------------------------------
(* forward_discovery.                                                      *)

TakeEvent ==
    /\ forwarder.pc = "idle" /\ channel # <<>>
    /\ LET e == Head(channel)
       IN /\ forwarder' = [NoForward EXCEPT !.pc = "taken", !.peer = e.peer, !.addr = e.addr,
                                            !.news = e.news]
          /\ book' = Upserted(e.peer, e.addr)
    /\ channel' = Tail(channel)
    /\ UNCHANGED <<network, found, sending, round, offline, lastViews, shown,
                   crossed, forgotten, liveness, failures, command, events>>

\* The device is no longer offline; that it was is news.
ClearOffline ==
    LET p == forwarder.peer IN
    /\ forwarder.pc = "taken"
    /\ forwarder' = [forwarder EXCEPT !.pc = "cleared", !.news = @ \/ (p \in offline)]
    /\ offline' = offline \ {p}
    /\ Crosses(p, IsLosing(p) \/ IsCommanded(p))
    /\ UNCHANGED <<network, discovery, book, lastViews, shown, forgotten, liveness,
                   failures, command, events>>

\* last_views: an event is emitted only for news, or if the view changed.
NoteFound ==
    LET p == forwarder.peer
        view == View(forwarder.addr, p, TRUE) IN
    /\ forwarder.pc = "cleared"
    /\ forwarder' = IF forwarder.news \/ lastViews[p] # view
                    THEN [forwarder EXCEPT !.pc = "noted", !.view = view] ELSE NoForward
    /\ lastViews' = [lastViews EXCEPT ![p] = view]
    /\ UNCHANGED <<network, discovery, book, offline, shown, crossed, forgotten,
                   liveness, failures, command, events>>
EmitFound ==
    /\ forwarder.pc = "noted"
    /\ forwarder' = NoForward
    /\ Show(forwarder.peer, forwarder.view)
    /\ UNCHANGED <<network, discovery, book, offline, lastViews, crossed, forgotten,
                   liveness, failures, command, events>>

------------------------------------------------------------------------------
(* liveness.                                                               *)

StartProbes ==
    /\ liveness.pc = "idle"
    /\ liveness' = [NoProbes EXCEPT !.pc = "probing",
                                    !.left = {<<p, Target(p)>> : p \in {q \in Peers : IsFound(q)}}]
    /\ UNCHANGED <<network, discovery, list, forwarder, failures, command, events>>

\* Each device is probed where it was last reached.  Whoever answers there, the
\* device counts as alive.
ProbeDevice(p, x) ==
    /\ <<p, x>> \in liveness.left
    /\ Registered(x, round)
    /\ liveness' = [liveness EXCEPT !.left = @ \ {<<p, x>>},
                                    !.dead = IF IsAnswered(x) THEN @ ELSE @ \cup {p}]
    /\ failures' = IF IsAnswered(x) THEN [failures EXCEPT ![p] = 0] ELSE failures
    /\ UNCHANGED <<network, channel, list, forwarder, command, events>>

\* The variant needs one failure more than it counts.
IsGone_OffByOne(count) == count > MaxFailures
IsGone(count) == count >= MaxFailures
Judge(p) ==
    LET count == IF failures[p] < MaxFailures THEN failures[p] + 1 ELSE MaxFailures
        gone == IsGone(count) /\ p \notin offline IN
    /\ liveness.pc = "probing" /\ liveness.left = {} /\ p \in liveness.dead
    /\ failures' = [failures EXCEPT ![p] = count]
    /\ offline' = IF gone THEN offline \cup {p} ELSE offline
    /\ liveness' = [liveness EXCEPT !.dead = @ \ {p}, !.pc = IF gone THEN "losing" ELSE @,
                                    !.peer = IF gone THEN p ELSE @]
    /\ Crosses(p, gone /\ (IsForwarding(p) \/ IsCommanded(p)))
    /\ UNCHANGED <<network, discovery, book, lastViews, shown, forgotten, forwarder,
                   command, events>>

\* What was last reported of the device no longer holds.  The variant keeps it.
NotedGone_Kept(p) == lastViews
NotedGone(p) == [lastViews EXCEPT ![p] = None]
DropView ==
    /\ liveness.pc = "losing"
    /\ liveness' = [liveness EXCEPT !.pc = "lost"]
    /\ lastViews' = NotedGone(liveness.peer)
    /\ UNCHANGED <<network, discovery, book, offline, shown, crossed, forgotten,
                   forwarder, failures, command, events>>
EmitLost ==
    /\ liveness.pc = "lost"
    /\ liveness' = [liveness EXCEPT !.pc = "probing", !.peer = None]
    /\ Lost(liveness.peer)
    /\ UNCHANGED <<network, discovery, book, offline, lastViews, crossed, forgotten,
                   forwarder, failures, command, events>>
EndProbes ==
    /\ liveness.pc = "probing" /\ liveness.left = {} /\ liveness.dead = {}
    /\ liveness' = NoProbes
    /\ UNCHANGED <<network, discovery, list, forwarder, failures, command, events>>

------------------------------------------------------------------------------
(* Commands.                                                               *)

\* set_favorite, set_custom_alias and the changes of a pairing: a column of the
\* database, then emit_device_changed.  forget_device begins with unpairing.
StartCommand(p, forget) ==
    /\ command.pc = "idle" /\ events < MaxEvents
    /\ book[p] # None
    /\ events' = events + 1
    /\ book' = IF forget THEN book ELSE [book EXCEPT ![p].mark = ~@]
    /\ command' = [pc |-> "changed", peer |-> p, view |-> None, forget |-> forget]
    /\ Crosses(p, IsForwarding(p) \/ IsLosing(p))
    /\ UNCHANGED <<network, discovery, offline, lastViews, shown, forgotten, forwarder,
                   liveness, failures>>
ComputeView ==
    /\ command.pc = "changed"
    /\ command' = [command EXCEPT !.pc = "computed", !.view = DeviceView(command.peer)]
    /\ UNCHANGED <<network, discovery, list, forwarder, liveness, failures, events>>
NoteView ==
    /\ command.pc = "computed"
    /\ command' = [command EXCEPT !.pc = "noted"]
    /\ lastViews' = [lastViews EXCEPT ![command.peer] = command.view]
    /\ UNCHANGED <<network, discovery, book, offline, shown, crossed, forgotten,
                   forwarder, liveness, failures, events>>
EmitView ==
    /\ command.pc = "noted"
    /\ command' = IF command.forget THEN [command EXCEPT !.pc = "removing"] ELSE NoCommand
    /\ Show(command.peer, command.view)
    /\ UNCHANGED <<network, discovery, book, offline, lastViews, crossed, forgotten,
                   forwarder, liveness, failures, events>>

\* The rest of forget_device: the device leaves the database and is shown as
\* lost; what discovery knows and what was last reported stay.
RemoveDevice ==
    /\ command.pc = "removing"
    /\ command' = NoCommand
    /\ book' = [book EXCEPT ![command.peer] = None]
    /\ forgotten' = forgotten \cup {command.peer}
    /\ Lost(command.peer)
    /\ UNCHANGED <<network, discovery, offline, lastViews, crossed, forwarder, liveness,
                   failures, events>>

------------------------------------------------------------------------------

ForwarderStep == TakeEvent \/ ClearOffline \/ NoteFound \/ EmitFound
LivenessStep == \/ StartProbes \/ EndProbes \/ DropView \/ EmitLost
                \/ \E p \in Peers : Judge(p) \/ \E x \in Addresses : ProbeDevice(p, x)
CommandStep == ComputeView \/ NoteView \/ EmitView \/ RemoveDevice
RoundStep == ScanSubnet \/ EndRound \/ \E x \in Addresses : ProbeAddress(x)

DevicesNext ==
    \/ \E p \in Peers, x \in Addresses \cup {None} : Move(p, x)
    \/ \E x \in Addresses : Take(x)
    \/ \E p \in Peers : HearRegister(p) \/ HearAnnouncement(p)
    \/ \E e \in sending : SendEvent(e)
    \/ StartRound \/ RoundStep
    \/ ForwarderStep \/ LivenessStep
    \/ \E p \in Peers, forget \in BOOLEAN : StartCommand(p, forget)
    \/ CommandStep

\* The tasks run, and the timer of liveness fires; nobody has to come or to
\* announce itself, and the user has to do nothing.
DevicesSpec ==
    /\ DevicesInit /\ [][DevicesNext]_devicesVars
    /\ WF_devicesVars(ForwarderStep) /\ WF_devicesVars(LivenessStep)
    /\ WF_devicesVars(CommandStep)
    /\ WF_devicesVars(\E e \in sending : SendEvent(e))

------------------------------------------------------------------------------
(* Properties.                                                             *)

OrNone(S) == S \cup {None}

\* The type invariant.  A device is remembered at no more than MaxAddresses
\* addresses, none of them twice.
DevicesTypeOK ==
    /\ at \in [Peers -> OrNone(Addresses)] /\ others \subseteq Addresses
    /\ found \in [Peers -> Seq(Addresses)]
    /\ \A p \in Peers : Len(found[p]) <= MaxAddresses /\ IsInjective(found[p])
    /\ sending \subseteq [peer : Peers, addr : Addresses, news : BOOLEAN]
    /\ channel \in Seq([peer : Peers, addr : Addresses, news : BOOLEAN]) /\ Len(channel) <= Capacity
    /\ round \in [pc : {"idle", "probing", "scanning"}, left : SUBSET Addresses, quiet : BOOLEAN,
                  present : SUBSET Peers]
    /\ book \in [Peers -> OrNone(Rows)]
    /\ offline \subseteq Peers
    /\ lastViews \in [Peers -> OrNone(Views)] /\ shown \in [Peers -> OrNone(Views)]
    /\ forwarder \in [pc : {"idle", "taken", "cleared", "noted"}, peer : OrNone(Peers),
                      addr : OrNone(Addresses), news : BOOLEAN, view : OrNone(Views)]
    /\ liveness \in [pc : {"idle", "probing", "losing", "lost"}, left : SUBSET (Peers \X Addresses),
                     dead : SUBSET Peers, peer : OrNone(Peers)]
    /\ failures \in [Peers -> 0..MaxFailures]
    /\ command \in [pc : {"idle", "changed", "computed", "noted", "removing"},
                    peer : OrNone(Peers), view : OrNone(Views), forget : BOOLEAN]
    /\ crossed \subseteq Peers /\ forgotten \subseteq Peers

\* While no task is at work on a device, the application shows it the way it was
\* last noted, and as offline if it was noted as gone: what is compared to decide
\* whether an event is needed is what the user sees.  Unless two tasks passed
\* each other, or the device was forgotten.
IsPlain(p) == p \notin crossed \cup forgotten
ShownIsNoted ==
    \A p \in Peers :
        IsPlain(p) /\ ~IsForwarding(p) /\ ~IsLosing(p) /\ ~IsCommanded(p) =>
            IF lastViews[p] # None THEN shown[p] = lastViews[p]
            ELSE shown[p] = None \/ ~shown[p].online

\* A discovery round finds every device that is there from its beginning to its
\* end, unless somebody else was confirmed instead and multicast is trusted.
RoundFinds ==
    [][round.pc # "idle" /\ round'.pc = "idle" =>
          \/ \A p \in round.present : IsFound(p) /\ Target(p) = at[p]
          \/ round.pc = "probing" /\ ~round.quiet]_devicesVars

\* The list follows the network: a device that stays where it was last confirmed
\* is shown there for good, whatever was sent late, lost in the channel or
\* counted as failed before; one that stays away is shown as offline for good,
\* if nobody else answers at its address.
IsThere(p) == IsFound(p) /\ at[p] = Target(p) /\ IsPlain(p)
IsAway(p) == at[p] = None /\ (IsFound(p) => Target(p) \notin others) /\ IsPlain(p)
ListFollows ==
    \A p \in Peers :
        /\ <>[]IsThere(p) => <>[](shown[p] # None /\ shown[p].online /\ shown[p].addr = at[p])
        /\ <>[]IsAway(p) => <>[](shown[p] = None \/ ~shown[p].online)
==============================================================================
