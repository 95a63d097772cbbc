------------------------------- MODULE Pairing -------------------------------
(***************************************************************************)
(* Pairing two devices and withdrawing it again: the request that waits    *)
(* for the other device's user (crates/core/src/transport/server/routes.rs *)
(* pair, unpair), the questions and the database of both devices           *)
(* (runtime/pairing.rs, store/db.rs), the list of trusted certificates the *)
(* server asks (transport/server/state.rs paired), and the command line    *)
(* tool, which writes the same database from another process               *)
(* (crates/cli/src/commands/{pair,devices}.rs).                            *)
(*                                                                         *)
(* A device trusts another one in two places: the database, which survives *)
(* a restart, and the server's list, which is what requests are held       *)
(* against.  They are written by different tasks, one after the other, and *)
(* a write to the database may fail.                                       *)
(***************************************************************************)
EXTENDS Naturals, Sequences

CONSTANTS
    Devices,       \* the devices on the network
    Calls,         \* pairing requests, each used once
    MaxWithdrawn,  \* bound: withdrawals by users
    MaxFailures,   \* bound: writes to a database that fail
    MaxRestarts,   \* bound: restarts
    None

ASSUME PairingAssumption ==
    /\ None \notin Devices \cup Calls
    /\ MaxWithdrawn \in Nat /\ MaxFailures \in Nat /\ MaxRestarts \in Nat

VARIABLES
    book,       \* devices.paired: device -> the peers its database has as paired
    paired,     \* AppState::paired: device -> the certificates its server trusts
    slot,       \* AppState::pairing_pending
    call,       \* the pairing requests, both ends
    events,     \* events of the server on their way to the runtime
    question,   \* pending.pair_requests: device -> peer -> request
    confirm,    \* pending.pair_confirms: device -> peers
    joining,    \* device -> confirmed peers between database and server's list
    notice,     \* withdrawals: device -> peer -> the command and the unpair request
    agreed,     \* history: the peers the user of a device said yes to
    confirmed,  \* history: the pairings that were confirmed by their initiator
    broken,     \* history: <<device, peer>> withdrawn by the device's user
    unsaved,    \* history: <<device, peer>> whose acceptance could not be stored
    crossed,    \* history: <<device, peer>> whose two records may differ
    withdrawals, failures, restarts

server == <<slot, paired, events>>
asking == <<question, confirm, joining>>
bounds == <<withdrawals, failures, restarts>>
history == <<agreed, confirmed, broken, unsaved, crossed, bounds>>
pairingVars == <<book, server, call, asking, notice, history>>

NoCall == [from |-> None, to |-> None, tool |-> FALSE, client |-> "idle", handler |-> "idle",
           decision |-> "none", reply |-> "none"]
NoNotice == [client |-> "over", handler |-> "over", tell |-> FALSE, forget |-> FALSE]

PairingInit ==
    /\ book = [d \in Devices |-> {}]
    /\ paired = [d \in Devices |-> {}]
    /\ slot = [d \in Devices |-> FALSE]
    /\ call = [c \in Calls |-> NoCall]
    /\ events = [d \in Devices |-> <<>>]
    /\ question = [d \in Devices |-> [p \in Devices |-> None]]
    /\ confirm = [d \in Devices |-> {}]
    /\ joining = [d \in Devices |-> {}]
    /\ notice = [d \in Devices |-> [p \in Devices |-> NoNotice]]
    /\ agreed = [d \in Devices |-> {}]
    /\ confirmed = {} /\ broken = {} /\ unsaved = {} /\ crossed = {}
    /\ withdrawals = 0 /\ failures = 0 /\ restarts = 0

------------------------------------------------------------------------------
(* What is on its way.                                                     *)

Request(c) == [kind |-> "request", what |-> c]
Unpaired(p) == [kind |-> "unpaired", what |-> p]
InSeq(e, s) == \E i \in 1..Len(s) : s[i] = e
IsHeard(d, p) == ~InSeq(Unpaired(p), events[d])

\* The user of d accepted a request of p whose handler has not acted on it yet.
IsAccepting(d, p) == \E c \in Calls : /\ call[c].to = d /\ call[c].from = p
                                      /\ call[c].handler = "asking"
                                      /\ call[c].decision = "yes"

\* A task of d is between its two writes: the one has p, or has it no longer.
Adding(d, p) == IsAccepting(d, p) \/ p \in joining[d]
Removing(d, p) == \/ notice[d][p].client = "leaving"
                  \/ notice[p][d].handler = "telling" \/ ~IsHeard(d, p)

Crossing(d, p, when) == crossed' = IF when THEN crossed \cup {<<d, p>>} ELSE crossed

\* A write to the database fails.
Fails == failures < MaxFailures /\ failures' = failures + 1
Stores(stored) == IF stored THEN failures' = failures ELSE Fails

------------------------------------------------------------------------------
(* Asking.                                                                 *)

\* pair_start, or the command of the tool, on the device that asks.
PairStart(c, d, p, tool) ==
    /\ d # p /\ call[c] = NoCall
    /\ call' = [call EXCEPT ![c] = [NoCall EXCEPT !.from = d, !.to = p, !.tool = tool,
                                                  !.client = "waiting", !.handler = "coming"]]
    /\ UNCHANGED <<book, server, asking, notice, history>>

\* The handler: one pairing at a time (begin_pairing).  Then it waits for room
\* to tell the runtime.
SlotIsFree(d) == ~slot[d]
ServePair(c) ==
    LET d == call[c].to IN
    /\ call[c].handler = "coming"
    /\ SlotIsFree(d)
    /\ slot' = [slot EXCEPT ![d] = TRUE]
    /\ call' = [call EXCEPT ![c].handler = "entered"]
    /\ UNCHANGED <<book, paired, events, asking, notice, history>>
RefuseBusy(c) ==
    /\ call[c].handler = "coming"
    /\ ~SlotIsFree(call[c].to)
    /\ call' = [call EXCEPT ![c].handler = "over", ![c].reply = "no"]
    /\ UNCHANGED <<book, server, asking, notice, history>>
TellRequest(c) ==
    LET d == call[c].to IN
    /\ call[c].handler = "entered"
    /\ events' = [events EXCEPT ![d] = Append(@, Request(c))]
    /\ call' = [call EXCEPT ![c].handler = "asking"]
    /\ UNCHANGED <<book, slot, paired, asking, notice, history>>

\* on_pair_request: a newer question of the same device replaces the older one,
\* which is answered no.
HearRequest(d) ==
    /\ events[d] # <<>> /\ Head(events[d]).kind = "request"
    /\ LET c == Head(events[d]).what
           p == call[c].from
           older == question[d][p]
       IN /\ question' = [question EXCEPT ![d][p] = c]
          /\ call' = IF older # None /\ call[older].decision = "none"
                     THEN [call EXCEPT ![older].decision = "no"] ELSE call
    /\ events' = [events EXCEPT ![d] = Tail(@)]
    /\ UNCHANGED <<book, slot, paired, confirm, joining, notice, history>>

\* respond_pair_request: apply_pairing records the pairing, or only logs that it
\* could not; then the handler is told, if it is still there.
Recorded(d, p, stored) == IF stored THEN [book EXCEPT ![d] = @ \cup {p}] ELSE book
Misses(c, d, p, stored) ==
    IF call[c].handler = "over" THEN stored /\ p \notin paired[d]
                                ELSE ~stored /\ p \notin book[d]
RespondPair(d, p, accept) ==
    LET c == question[d][p] IN
    /\ c # None
    /\ question' = [question EXCEPT ![d][p] = None]
    /\ call' = [call EXCEPT ![c].decision = IF accept THEN "yes" ELSE "no"]
    /\ \/ /\ accept
          /\ \E stored \in BOOLEAN :
              /\ Stores(stored)
              /\ book' = Recorded(d, p, stored)
              /\ unsaved' = IF stored THEN unsaved ELSE unsaved \cup {<<d, p>>}
              /\ Crossing(d, p, Misses(c, d, p, stored) \/ Removing(d, p))
          /\ agreed' = [agreed EXCEPT ![d] = @ \cup {p}]
       \/ ~accept /\ UNCHANGED <<book, failures, unsaved, crossed, agreed>>
    /\ UNCHANGED <<server, confirm, joining, notice, confirmed, broken, withdrawals, restarts>>

\* PairingGuard frees the slot when the handler ends, however it ends.
Freed(c) == [slot EXCEPT ![call[c].to] = FALSE]

\* The handler has its answer, and trusts the certificate from now on.
\* The variant takes any answer for a yes.
Trusts_Answered(c) == TRUE
Trusts(c) == call[c].decision = "yes"
FinishPair(c) ==
    LET d == call[c].to
        p == call[c].from IN
    /\ call[c].handler = "asking" /\ call[c].decision # "none"
    /\ slot' = Freed(c)
    /\ paired' = IF Trusts(c) THEN [paired EXCEPT ![d] = @ \cup {p}] ELSE paired
    /\ call' = [call EXCEPT ![c].handler = "over",
                            ![c].reply = IF Trusts(c) THEN "yes" ELSE "no"]
    /\ UNCHANGED <<book, events, asking, notice, history>>

\* PAIRING_TIMEOUT passes without a decision.
TimeOutPair(c) ==
    /\ call[c].handler = "asking" /\ call[c].decision = "none"
    /\ slot' = Freed(c)
    /\ call' = [call EXCEPT ![c].handler = "over", ![c].reply = "no"]
    /\ UNCHANGED <<book, paired, events, asking, notice, history>>

\* PAIR_TIMEOUT passes at the client, its process is stopped, or the connection is
\* lost; the handler is dropped then, at whatever await it is.
GiveUpPair(c) ==
    /\ call[c].client = "waiting"
    /\ call' = [call EXCEPT ![c].client = "over"]
    /\ UNCHANGED <<book, server, asking, notice, history>>
DropPair(c) ==
    LET d == call[c].to
        p == call[c].from IN
    /\ call[c].client = "over" /\ call[c].handler \in {"coming", "entered", "asking"}
    /\ slot' = IF call[c].handler = "coming" THEN slot ELSE Freed(c)
    /\ call' = [call EXCEPT ![c].handler = "over"]
    /\ Crossing(d, p, call[c].decision = "yes" /\ p \notin paired[d])
    /\ UNCHANGED <<book, paired, events, asking, notice, agreed, confirmed, broken, unsaved, bounds>>

\* The client has its answer: the code is shown for the user to confirm.
\* The variant takes a refusal for consent.
IsWelcome_Any(c) == TRUE
IsWelcome(c) == call[c].reply = "yes"
HasReply(c) == call[c].client = "waiting" /\ call[c].handler = "over" /\ call[c].reply # "none"
HearReply(c) ==
    LET d == call[c].from IN
    /\ HasReply(c) /\ ~call[c].tool
    /\ call' = [call EXCEPT ![c].client = "over"]
    /\ confirm' = IF IsWelcome(c) THEN [confirm EXCEPT ![d] = @ \cup {call[c].to}] ELSE confirm
    /\ UNCHANGED <<book, server, question, joining, notice, history>>

------------------------------------------------------------------------------
(* Confirming.                                                             *)

\* pair_confirm: the codes are the same.  The database is written first; when
\* that fails the command ends there.
ConfirmPair(d, p) ==
    /\ p \in confirm[d] \ joining[d]
    /\ confirm' = [confirm EXCEPT ![d] = @ \ {p}]
    /\ book' = [book EXCEPT ![d] = @ \cup {p}]
    /\ joining' = [joining EXCEPT ![d] = @ \cup {p}]
    /\ agreed' = [agreed EXCEPT ![d] = @ \cup {p}]
    /\ Crossing(d, p, Removing(d, p))
    /\ UNCHANGED <<server, call, question, notice, confirmed, broken, unsaved, bounds>>
ConfirmFails(d, p) ==
    /\ p \in confirm[d] /\ Fails
    /\ confirm' = [confirm EXCEPT ![d] = @ \ {p}]
    /\ UNCHANGED <<book, server, call, question, joining, notice, agreed, confirmed, broken,
                   unsaved, crossed, withdrawals, restarts>>
AddPaired(d, p) ==
    /\ p \in joining[d]
    /\ joining' = [joining EXCEPT ![d] = @ \ {p}]
    /\ paired' = [paired EXCEPT ![d] = @ \cup {p}]
    /\ confirmed' = confirmed \cup {<<d, p>>}
    /\ UNCHANGED <<book, slot, events, call, question, confirm, notice, agreed, broken, unsaved,
                   crossed, bounds>>

\* The tool asks at the terminal.  It writes the database, and the list of a
\* server of its own that ends with it; the application's server is not told.
ToolConfirm(c) ==
    LET d == call[c].from
        p == call[c].to IN
    /\ HasReply(c) /\ call[c].tool /\ IsWelcome(c)
    /\ call' = [call EXCEPT ![c].client = "over"]
    /\ book' = [book EXCEPT ![d] = @ \cup {p}]
    /\ agreed' = [agreed EXCEPT ![d] = @ \cup {p}]
    /\ confirmed' = confirmed \cup {<<d, p>>}
    /\ Crossing(d, p, p \notin paired[d] \/ Removing(d, p))
    /\ UNCHANGED <<server, asking, notice, broken, unsaved, bounds>>

------------------------------------------------------------------------------
(* Withdrawing.                                                            *)

\* One withdrawal of a device at a time.
NoticeIsOver(d, p) == notice[d][p].client = "over" /\ notice[d][p].handler = "over"
MayWithdraw(d, p) == NoticeIsOver(d, p) /\ withdrawals < MaxWithdrawn
NewNotice == [client |-> "waiting", handler |-> "coming", tell |-> FALSE, forget |-> FALSE]
Withdrawn(d, p) == broken' = broken \cup {<<d, p>>} /\ withdrawals' = withdrawals + 1

\* pair_confirm, in the application or at the terminal: the codes differ, and the
\* other device is told.
RejectCode(d, p) ==
    /\ p \in confirm[d] /\ MayWithdraw(d, p)
    /\ confirm' = [confirm EXCEPT ![d] = @ \ {p}]
    /\ notice' = [notice EXCEPT ![d][p] = NewNotice]
    /\ Withdrawn(d, p)
    /\ UNCHANGED <<book, server, call, question, joining, agreed, confirmed, unsaved, crossed,
                   failures, restarts>>
ToolReject(c) ==
    LET d == call[c].from
        p == call[c].to IN
    /\ HasReply(c) /\ call[c].tool /\ IsWelcome(c) /\ MayWithdraw(d, p)
    /\ call' = [call EXCEPT ![c].client = "over"]
    /\ notice' = [notice EXCEPT ![d][p] = NewNotice]
    /\ Withdrawn(d, p)
    /\ UNCHANGED <<book, server, asking, agreed, confirmed, unsaved, crossed, failures, restarts>>

\* unpair, alone or in forget_device: first the database.
Unrecorded(d, p) == [book EXCEPT ![d] = @ \ {p}]
UnpairDevice(d, p, forget) ==
    /\ d # p /\ MayWithdraw(d, p)
    /\ book' = Unrecorded(d, p)
    /\ notice' = [notice EXCEPT ![d][p] = [client |-> "leaving", handler |-> "over",
                                           tell |-> p \in book[d], forget |-> forget]]
    /\ Withdrawn(d, p)
    /\ Crossing(d, p, Adding(d, p))
    /\ UNCHANGED <<server, call, asking, agreed, confirmed, unsaved, failures, restarts>>

\* Then the server's list, and a device that was paired is told, if it has an
\* address.  The variant leaves the list alone.
Distrusted_Kept(d, p) == paired
Distrusted(d, p) == [paired EXCEPT ![d] = @ \ {p}]
RemovePaired(d, p) ==
    /\ notice[d][p].client = "leaving"
    /\ paired' = Distrusted(d, p)
    /\ \E handler \in {"coming", "over"} :
        /\ handler = "coming" => notice[d][p].tell
        /\ notice' = [notice EXCEPT ![d][p].client = "waiting", ![d][p].handler = handler]
    /\ UNCHANGED <<book, slot, events, call, asking, history>>

\* The row goes and nothing else does: the tool forgets the device, or unpair
\* failed in forget_device, which goes on.
RemoveRow(d, p) ==
    /\ d # p /\ withdrawals < MaxWithdrawn
    /\ book' = Unrecorded(d, p)
    /\ Withdrawn(d, p)
    /\ Crossing(d, p, p \in paired[d] \/ Adding(d, p))
    /\ UNCHANGED <<server, call, asking, notice, agreed, confirmed, unsaved, failures, restarts>>

\* The tool unpairs: the database and the other device, not the application.
ToolUnpair(d, p) ==
    /\ d # p /\ MayWithdraw(d, p)
    /\ book' = Unrecorded(d, p)
    /\ notice' = [notice EXCEPT ![d][p] = NewNotice]
    /\ Withdrawn(d, p)
    /\ Crossing(d, p, p \in paired[d] \/ Adding(d, p))
    /\ UNCHANGED <<server, call, asking, agreed, confirmed, unsaved, failures, restarts>>

\* The unpair handler; nothing happens for a device that is not trusted.
ServeUnpair(d, p) ==
    LET trusted == d \in paired[p] IN
    /\ notice[d][p].handler = "coming"
    /\ notice' = [notice EXCEPT ![d][p].handler = IF trusted THEN "telling" ELSE "over"]
    /\ paired' = [paired EXCEPT ![p] = @ \ {d}]
    /\ Crossing(p, d, trusted /\ Adding(p, d))
    /\ UNCHANGED <<book, slot, events, call, asking, agreed, confirmed, broken, unsaved, bounds>>

\* When there is room the runtime is told.
TellUnpaired(d, p) ==
    /\ notice[d][p].handler = "telling"
    /\ notice' = [notice EXCEPT ![d][p].handler = "over"]
    /\ events' = [events EXCEPT ![p] = Append(@, Unpaired(d))]
    /\ UNCHANGED <<book, slot, paired, call, asking, history>>

\* The request gets lost.
LoseUnpair(d, p) ==
    /\ notice[d][p].handler = "coming"
    /\ notice' = [notice EXCEPT ![d][p].handler = "over"]
    /\ UNCHANGED <<book, server, call, asking, history>>

\* The client is over and its connection closed: the handler is dropped, and the
\* runtime never hears of the withdrawal.
DropUnpair(d, p) ==
    /\ notice[d][p].client = "over" /\ notice[d][p].handler = "telling"
    /\ notice' = [notice EXCEPT ![d][p].handler = "over"]
    /\ Crossing(p, d, d \in book[p])
    /\ UNCHANGED <<book, server, call, asking, agreed, confirmed, broken, unsaved, bounds>>

\* The answer is there, or the client's time is over; a device to be forgotten is
\* removed now, whatever happened to it meanwhile.
EndUnpair(d, p) ==
    LET forget == notice[d][p].forget IN
    /\ notice[d][p].client = "waiting"
    /\ notice' = [notice EXCEPT ![d][p].client = "over"]
    /\ book' = IF forget THEN Unrecorded(d, p) ELSE book
    /\ Crossing(d, p, forget /\ (p \in paired[d] \/ Adding(d, p)))
    /\ UNCHANGED <<server, call, asking, agreed, confirmed, broken, unsaved, bounds>>

\* on_unpaired: apply_pairing again, which may fail.
HearUnpaired(d) ==
    LET p == Head(events[d]).what IN
    /\ events[d] # <<>> /\ Head(events[d]).kind = "unpaired"
    /\ events' = [events EXCEPT ![d] = Tail(@)]
    /\ \E stored \in BOOLEAN :
        /\ Stores(stored)
        /\ book' = IF stored THEN Unrecorded(d, p) ELSE book
        /\ Crossing(d, p, ~stored /\ p \in book[d])
    /\ UNCHANGED <<paired, slot, call, asking, notice, agreed, confirmed, broken, unsaved,
                   withdrawals, restarts>>

------------------------------------------------------------------------------

\* The application of a device is stopped and started: the server's list is read
\* from the database, its connections are gone.  The tool's go on.
Restart(d) ==
    /\ restarts < MaxRestarts
    /\ restarts' = restarts + 1
    /\ paired' = [paired EXCEPT ![d] = book[d]]
    /\ slot' = [slot EXCEPT ![d] = FALSE]
    /\ events' = [events EXCEPT ![d] = <<>>]
    /\ question' = [question EXCEPT ![d] = [p \in Devices |-> None]]
    /\ confirm' = [confirm EXCEPT ![d] = {}]
    /\ joining' = [joining EXCEPT ![d] = {}]
    /\ call' = [c \in Calls |-> [call[c] EXCEPT
                  !.client = IF call[c].from = d /\ ~call[c].tool THEN "over" ELSE @,
                  !.handler = IF call[c].to = d THEN "over" ELSE @]]
    /\ notice' = [e \in Devices |-> [p \in Devices |->
                    [notice[e][p] EXCEPT !.client = IF e = d THEN "over" ELSE @,
                                         !.handler = IF p = d THEN "over" ELSE @]]]
    /\ crossed' = {x \in crossed : x[1] # d}
    /\ UNCHANGED <<book, agreed, confirmed, broken, unsaved, withdrawals, failures>>

CallStep(c) == \/ ServePair(c) \/ RefuseBusy(c) \/ TellRequest(c) \/ FinishPair(c) \/ TimeOutPair(c)
               \/ GiveUpPair(c) \/ DropPair(c) \/ HearReply(c) \/ ToolConfirm(c) \/ ToolReject(c)

WithdrawStep(d, p) ==
    \/ RemovePaired(d, p) \/ RemoveRow(d, p) \/ ToolUnpair(d, p)
    \/ ServeUnpair(d, p) \/ TellUnpaired(d, p) \/ LoseUnpair(d, p) \/ DropUnpair(d, p)
    \/ EndUnpair(d, p)

PairingNext ==
    \/ \E c \in Calls : \/ CallStep(c)
                        \/ \E d, p \in Devices, tool \in BOOLEAN : PairStart(c, d, p, tool)
    \/ \E d \in Devices : HearRequest(d) \/ HearUnpaired(d) \/ Restart(d)
    \/ \E d, p \in Devices, yes \in BOOLEAN : RespondPair(d, p, yes) \/ UnpairDevice(d, p, yes)
    \/ \E d, p \in Devices : \/ ConfirmPair(d, p) \/ ConfirmFails(d, p) \/ AddPaired(d, p)
                             \/ RejectCode(d, p) \/ WithdrawStep(d, p)

PairingSpec == PairingInit /\ [][PairingNext]_pairingVars

------------------------------------------------------------------------------
(* Properties.                                                             *)

Answers == {"none", "yes", "no"}

\* The type invariant.  A request is answered yes only if its user said so.
PairingTypeOK ==
    /\ \A c \in Calls : call[c].reply = "yes" => call[c].decision = "yes"
    /\ book \in [Devices -> SUBSET Devices]
    /\ paired \in [Devices -> SUBSET Devices]
    /\ slot \in [Devices -> BOOLEAN]
    /\ call \in [Calls -> [from : Devices \cup {None}, to : Devices \cup {None},
                           tool : BOOLEAN, client : {"idle", "waiting", "over"},
                           handler : {"idle", "coming", "entered", "asking", "over"},
                           decision : Answers, reply : Answers]]
    /\ events \in [Devices -> Seq([kind : {"request"}, what : Calls]
                                  \cup [kind : {"unpaired"}, what : Devices])]
    /\ question \in [Devices -> [Devices -> Calls \cup {None}]]
    /\ confirm \in [Devices -> SUBSET Devices]
    /\ joining \in [Devices -> SUBSET Devices]
    /\ notice \in [Devices -> [Devices -> [client : {"leaving", "waiting", "over"},
                                           handler : {"coming", "telling", "over"},
                                           tell : BOOLEAN, forget : BOOLEAN]]]
    /\ agreed \in [Devices -> SUBSET Devices]
    /\ confirmed \subseteq Devices \X Devices
    /\ broken \subseteq Devices \X Devices
    /\ unsaved \subseteq Devices \X Devices
    /\ crossed \subseteq Devices \X Devices
    /\ withdrawals \in 0..MaxWithdrawn /\ failures \in 0..MaxFailures /\ restarts \in 0..MaxRestarts

\* The slot is taken exactly while one handler waits for its user, however the
\* handlers before it ended, and a question is about a request of that device.
IsAsking(c, d) == call[c].handler \in {"entered", "asking"} /\ call[c].to = d
SlotIsHeld ==
    \A d \in Devices :
        /\ slot[d] <=> \E c \in Calls : IsAsking(c, d)
        /\ \A c, e \in Calls : IsAsking(c, d) /\ IsAsking(e, d) => c = e
        /\ \A p \in Devices : LET c == question[d][p]
                              IN c # None => call[c].to = d /\ call[c].from = p

\* What the server trusts is what the database says once no task of the
\* application is between its two writes, however many of them there were, since
\* the last restart: but for an answer that came too late, a withdrawal and a
\* pairing whose writes overlapped, a write that failed, a withdrawal whose
\* handler was dropped before it told the runtime, and what the command line tool
\* wrote to the database behind the server's back.
ListsAgree ==
    \A d, p \in Devices :
        <<d, p>> \notin crossed /\ ~Adding(d, p) /\ ~Removing(d, p) =>
            (p \in paired[d] <=> p \in book[d])

\* A pairing its initiator confirmed is trusted on the other side as well, in
\* both places, through refusals, timeouts, lost answers, replaced questions,
\* crossing requests and restarts, until a user withdraws; unless the other side
\* could not store it.
TrustIsMutual ==
    \A d, p \in Devices :
        /\ <<d, p>> \in confirmed /\ <<d, p>> \notin broken /\ <<p, d>> \notin broken
        /\ <<p, d>> \notin unsaved
        => d \in paired[p] /\ d \in book[p]

\* No device is trusted, in either place, whose pairing this user never agreed to.
TrustIsGiven ==
    \A d, p \in Devices : p \in paired[d] \cup book[d] => p \in agreed[d]

\* docs/adr/0010-pairing.md:15 says that after `lan-send devices --unpair` the
\* other device is refused: while it is told that the pairing is withdrawn, and the
\* database has it as not paired, with nobody about to add or remove it, it is not
\* trusted.
UnpairedIsRefused ==
    \A d, p \in Devices :
        notice[d][p].client = "waiting" /\ p \notin book[d] /\ ~Adding(d, p) /\ ~Removing(d, p) =>
            p \notin paired[d]
==============================================================================
