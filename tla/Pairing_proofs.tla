---------------------------- MODULE Pairing_proofs ----------------------------
(***************************************************************************)
(* Proofs about Pairing, for any number of devices, requests, withdrawals  *)
(* and restarts: the type invariant, the owner of the single pairing slot, *)
(* that trust is given by the device's user and is mutual once its         *)
(* initiator has confirmed it, and that the two places that hold whom a    *)
(* device trusts agree.                                                    *)
(***************************************************************************)
EXTENDS Pairing, SequenceTheorems, TLAPS

------------------------------------------------------------------------------
(* Types.                                                                  *)

CallType == [from : Devices \cup {None}, to : Devices \cup {None},
             tool : BOOLEAN, client : {"idle", "waiting", "over"},
             handler : {"idle", "coming", "entered", "asking", "over"},
             decision : Answers, reply : Answers]
NoticeType == [client : {"leaving", "waiting", "over"}, handler : {"coming", "telling", "over"},
               tell : BOOLEAN, forget : BOOLEAN]
EventType == [kind : {"request"}, what : Calls] \cup [kind : {"unpaired"}, what : Devices]

\* A request that was sent has a sender and a receiver.
Sent == \A c \in Calls :
            /\ call[c].handler # "idle" => call[c].from \in Devices /\ call[c].to \in Devices
            /\ call[c].handler = "idle" =>
                  call[c].from = None /\ call[c].to = None /\ call[c].client = "idle"
            /\ call[c].handler \in {"idle", "coming", "entered"} => call[c].decision = "none"

\* A request on its way to the runtime, or asked about, was sent to this device and
\* is not decided, and it is in one place only.  A device that is said to have
\* withdrawn did.
Undecided(c, d) == /\ call[c].handler \in {"asking", "over"}
                   /\ call[c].to = d /\ call[c].decision = "none"
EventIsTrue(d, e) ==
    /\ e.kind = "request" => Undecided(e.what, d) /\ \A p \in Devices : question[d][p] # e.what
    /\ e.kind = "unpaired" => <<e.what, d>> \in broken
Addressed ==
    /\ \A d \in Devices : \A i \in 1..Len(events[d]) : EventIsTrue(d, events[d][i])
    /\ \A d \in Devices : \A i, j \in 1..Len(events[d]) :
           events[d][i].kind = "request" /\ events[d][i] = events[d][j] => i = j
    /\ \A d, p \in Devices : question[d][p] # None =>
           Undecided(question[d][p], d) /\ call[question[d][p]].from = p

\* A withdrawal that is under way is one of its user.
UnderWay(n) == n.client # "over" \/ n.handler # "over"
Noted == \A d, p \in Devices : UnderWay(notice[d][p]) => <<d, p>> \in broken

PairingTypes == PairingTypeOK /\ Sent /\ Addressed /\ Noted

\* What a step leaves of a request that was sent.
Kept == \A c \in Calls : call[c].handler # "idle" =>
            /\ call'[c].from = call[c].from /\ call'[c].to = call[c].to
            /\ call'[c].handler # "idle"
            /\ call[c].handler \in {"asking", "over"} => call'[c].handler \in {"asking", "over"}
CallsOK == /\ call' \in [Calls -> CallType]
           /\ \A c \in Calls : call'[c].reply = "yes" => call'[c].decision = "yes"
           /\ Sent' /\ Kept

\* The event at hand is one of a known kind, about a request or a device.
LEMMA HeadIsEvent ==
    ASSUME PairingTypes, NEW d \in Devices, events[d] # <<>>
    PROVE  /\ Head(events[d]) \in EventType /\ EventIsTrue(d, Head(events[d]))
           /\ Tail(events[d]) \in Seq(EventType)
           /\ Len(Tail(events[d])) = Len(events[d]) - 1
           /\ \A i \in 1..Len(Tail(events[d])) : Tail(events[d])[i] = events[d][i + 1]
           /\ Len(events[d]) \in Nat /\ Len(events[d]) > 0
           /\ Head(events[d]) = events[d][1]
<1>1. events[d] \in Seq(EventType)
  BY DEF PairingTypes, PairingTypeOK, EventType
<1>2. /\ Head(events[d]) = events[d][1]
      /\ Len(events[d]) \in Nat /\ Len(events[d]) > 0
  BY <1>1
<1>. QED
  BY <1>1, <1>2, HeadTailProperties DEF PairingTypes, Addressed

\* Requests keep their type and their two ends.
LEMMA CallStepOK ==
    ASSUME PairingTypes, [PairingNext]_pairingVars
    PROVE  CallsOK
<1>0. /\ call \in [Calls -> CallType]
      /\ \A c \in Calls : call[c].reply = "yes" => call[c].decision = "yes"
  BY DEF PairingTypes, PairingTypeOK, CallType
<1>1. CASE call' = call
  BY <1>0, <1>1 DEF CallsOK, Kept, Sent, PairingTypes
<1>2. ASSUME NEW c \in Calls, NEW d \in Devices, NEW p \in Devices, NEW tool \in BOOLEAN,
             PairStart(c, d, p, tool)
      PROVE  CallsOK
  <2> DEFINE y == [NoCall EXCEPT !.from = d, !.to = p, !.tool = tool, !.client = "waiting",
                               !.handler = "coming"]
  <2>1. call' = [call EXCEPT ![c] = y] /\ call[c].handler = "idle"
    BY <1>2 DEF PairStart, NoCall
  <2>2. /\ y \in CallType /\ y.reply # "yes" /\ y.handler # "idle"
        /\ y.from \in Devices /\ y.to \in Devices /\ y.decision = "none"
    BY DEF CallType, Answers, NoCall
  <2> HIDE DEF y
  <2>. QED BY <1>0, <2>1, <2>2 DEF CallsOK, Kept, Sent, PairingTypes
<1>3. ASSUME NEW c \in Calls, CallStep(c) PROVE CallsOK
  <2>1. CASE ServePair(c)
    <3> DEFINE y == [call[c] EXCEPT !.handler = "entered"]
    <3>1. call' = [call EXCEPT ![c] = y] /\ call[c].handler = "coming" /\ call[c].decision = "none"
      BY <1>0, <2>1 DEF ServePair, PairingTypes, Sent
    <3>2. y \in CallType /\ (y.reply = "yes" => y.decision = "yes")
      BY <1>0 DEF CallType, Answers
    <3>3. y.from = call[c].from /\ y.to = call[c].to /\ y.decision = "none" /\ y.handler = "entered"
      BY <1>0, <3>1 DEF CallType
    <3> HIDE DEF y
    <3>. QED BY <1>0, <3>1, <3>2, <3>3 DEF CallsOK, Kept, Sent, PairingTypes
  <2>7. CASE TellRequest(c)
    <3> DEFINE y == [call[c] EXCEPT !.handler = "asking"]
    <3>1. call' = [call EXCEPT ![c] = y] /\ call[c].handler # "idle"
      BY <1>0, <2>7 DEF TellRequest, PairingTypes, Sent
    <3>2. y \in CallType /\ (y.reply = "yes" => y.decision = "yes")
      BY <1>0 DEF CallType, Answers
    <3>3. y.from = call[c].from /\ y.to = call[c].to /\ y.decision = call[c].decision
          /\ (y.handler \in {"asking", "over"} \/ y.handler = call[c].handler)
      BY <1>0, <3>1 DEF CallType
    <3> HIDE DEF y
    <3>. QED BY <1>0, <3>1, <3>2, <3>3 DEF CallsOK, Kept, Sent, PairingTypes
  <2>2. CASE RefuseBusy(c)
    <3> DEFINE y == [[call[c] EXCEPT !.handler = "over"] EXCEPT !.reply = "no"]
    <3>1. call' = [call EXCEPT ![c] = y] /\ call[c].handler # "idle"
      BY <1>0, <2>2 DEF RefuseBusy, PairingTypes, Sent
    <3>2. y \in CallType /\ (y.reply = "yes" => y.decision = "yes")
      BY <1>0 DEF CallType, Answers, Trusts
    <3>3. y.from = call[c].from /\ y.to = call[c].to /\ y.decision = call[c].decision
          /\ (y.handler \in {"asking", "over"} \/ y.handler = call[c].handler)
      BY <1>0, <3>1 DEF CallType
    <3> HIDE DEF y
    <3>. QED BY <1>0, <3>1, <3>2, <3>3 DEF CallsOK, Kept, Sent, PairingTypes
  <2>3. CASE FinishPair(c)
    <3> DEFINE y == [[call[c] EXCEPT !.handler = "over"]
                         EXCEPT !.reply = IF Trusts(c) THEN "yes" ELSE "no"]
    <3>1. call' = [call EXCEPT ![c] = y] /\ call[c].handler # "idle"
      BY <1>0, <2>3 DEF FinishPair, PairingTypes, Sent
    <3>2. y \in CallType /\ (y.reply = "yes" => y.decision = "yes")
      BY <1>0 DEF CallType, Answers, Trusts
    <3>3. y.from = call[c].from /\ y.to = call[c].to /\ y.decision = call[c].decision
          /\ (y.handler \in {"asking", "over"} \/ y.handler = call[c].handler)
      BY <1>0, <3>1 DEF CallType
    <3> HIDE DEF y
    <3>. QED BY <1>0, <3>1, <3>2, <3>3 DEF CallsOK, Kept, Sent, PairingTypes
  <2>4. CASE TimeOutPair(c)
    <3> DEFINE y == [[call[c] EXCEPT !.handler = "over"] EXCEPT !.reply = "no"]
    <3>1. call' = [call EXCEPT ![c] = y] /\ call[c].handler # "idle"
      BY <1>0, <2>4 DEF TimeOutPair, PairingTypes, Sent
    <3>2. y \in CallType /\ (y.reply = "yes" => y.decision = "yes")
      BY <1>0 DEF CallType, Answers, Trusts
    <3>3. y.from = call[c].from /\ y.to = call[c].to /\ y.decision = call[c].decision
          /\ (y.handler \in {"asking", "over"} \/ y.handler = call[c].handler)
      BY <1>0, <3>1 DEF CallType
    <3> HIDE DEF y
    <3>. QED BY <1>0, <3>1, <3>2, <3>3 DEF CallsOK, Kept, Sent, PairingTypes
  <2>5. CASE GiveUpPair(c) \/ HearReply(c) \/ ToolConfirm(c) \/ ToolReject(c)
    <3> DEFINE y == [call[c] EXCEPT !.client = "over"]
    <3>1. call' = [call EXCEPT ![c] = y] /\ call[c].handler # "idle"
      BY <1>0, <2>5 DEF GiveUpPair, HearReply, ToolConfirm, ToolReject, HasReply, PairingTypes, Sent
    <3>2. y \in CallType /\ (y.reply = "yes" => y.decision = "yes")
      BY <1>0 DEF CallType, Answers, Trusts
    <3>3. y.from = call[c].from /\ y.to = call[c].to /\ y.decision = call[c].decision
          /\ (y.handler \in {"asking", "over"} \/ y.handler = call[c].handler)
      BY <1>0, <3>1 DEF CallType
    <3> HIDE DEF y
    <3>. QED BY <1>0, <3>1, <3>2, <3>3 DEF CallsOK, Kept, Sent, PairingTypes
  <2>6. CASE DropPair(c)
    <3> DEFINE y == [call[c] EXCEPT !.handler = "over"]
    <3>1. call' = [call EXCEPT ![c] = y] /\ call[c].handler # "idle"
      BY <1>0, <2>6 DEF DropPair, PairingTypes, Sent
    <3>2. y \in CallType /\ (y.reply = "yes" => y.decision = "yes")
      BY <1>0 DEF CallType, Answers, Trusts
    <3>3. y.from = call[c].from /\ y.to = call[c].to /\ y.decision = call[c].decision
          /\ (y.handler \in {"asking", "over"} \/ y.handler = call[c].handler)
      BY <1>0, <3>1 DEF CallType
    <3> HIDE DEF y
    <3>. QED BY <1>0, <3>1, <3>2, <3>3 DEF CallsOK, Kept, Sent, PairingTypes
  <2>. QED BY <1>3, <2>1, <2>2, <2>3, <2>4, <2>5, <2>6, <2>7 DEF CallStep
<1>4. ASSUME NEW d \in Devices, HearRequest(d) PROVE CallsOK
  <2>1. /\ Head(events[d]).what \in Calls
        /\ call[Head(events[d]).what].from \in Devices
    BY <1>4, HeadIsEvent DEF HearRequest, EventType, EventIsTrue, Undecided, PairingTypes, Sent
  <2> DEFINE older == question[d][call[Head(events[d]).what].from]
             y == [call[older] EXCEPT !.decision = "no"]
  <2>2. older # None => older \in Calls /\ call[older].handler \in {"asking", "over"}
    <3>1. question \in [Devices -> [Devices -> Calls \cup {None}]]
      BY DEF PairingTypes, PairingTypeOK
    <3>. QED BY <2>1, <3>1 DEF PairingTypes, Addressed, Undecided
  <2>3. \/ call' = call
        \/ /\ older # None /\ call[older].decision = "none"
           /\ call' = [call EXCEPT ![older] = y]
    BY <1>4 DEF HearRequest
  <2>4. ASSUME older \in Calls
        PROVE  /\ y \in CallType /\ y.reply = call[older].reply
               /\ y.from = call[older].from /\ y.to = call[older].to
               /\ y.handler = call[older].handler /\ y.client = call[older].client
    <3>1. call[older] \in CallType
      BY <1>0, <2>4
    <3> HIDE DEF older
    <3>. QED BY <3>1 DEF CallType, Answers
  <2> HIDE DEF y, older
  <2>. QED BY <1>0, <1>1, <2>2, <2>3, <2>4 DEF CallsOK, Kept, Sent, PairingTypes
<1>5. ASSUME NEW d \in Devices, NEW p \in Devices, NEW yes \in BOOLEAN, RespondPair(d, p, yes)
      PROVE  CallsOK
  <2> DEFINE c == question[d][p]
             y == [call[c] EXCEPT !.decision = IF yes THEN "yes" ELSE "no"]
  <2>1. c \in Calls /\ call' = [call EXCEPT ![c] = y]
    BY <1>5 DEF RespondPair, PairingTypes, PairingTypeOK
  <2>3. call[c].decision = "none" /\ call[c].handler \in {"asking", "over"}
    BY <1>5 DEF RespondPair, PairingTypes, Addressed, Undecided
  <2>2. /\ y \in CallType /\ y.reply = call[c].reply
        /\ y.from = call[c].from /\ y.to = call[c].to /\ y.handler = call[c].handler
        /\ y.client = call[c].client
    BY <1>0, <2>1 DEF CallType, Answers
  <2> HIDE DEF y, c
  <2>. QED BY <1>0, <2>1, <2>2, <2>3 DEF CallsOK, Kept, Sent, PairingTypes
<1>6. ASSUME NEW d \in Devices, Restart(d) PROVE CallsOK
  <2> DEFINE cl(c) == IF call[c].from = d /\ ~call[c].tool THEN "over" ELSE call[c].client
             h(c) == IF call[c].to = d THEN "over" ELSE call[c].handler
             y(c) == [[call[c] EXCEPT !.client = cl(c)] EXCEPT !.handler = h(c)]
  <2>1. call' = [c \in Calls |-> y(c)]
    BY <1>6 DEF Restart
  <2>2. ASSUME NEW c \in Calls
        PROVE  /\ y(c) \in CallType /\ (y(c).reply = "yes" => y(c).decision = "yes")
               /\ y(c).from = call[c].from /\ y(c).to = call[c].to
               /\ y(c).handler = h(c) /\ y(c).client = cl(c)
               /\ y(c).decision = call[c].decision
    <3>1. cl(c) \in {"idle", "waiting", "over"} /\ h(c) \in {"idle", "coming", "entered", "asking", "over"}
      BY <1>0 DEF CallType
    <3>2. call[c] \in CallType
      BY <1>0
    <3> HIDE DEF cl, h
    <3>. QED BY <1>0, <3>1, <3>2 DEF CallType
  <2>3. ASSUME NEW c \in Calls
        PROVE  /\ call[c].handler # "idle" => h(c) # "idle"
               /\ call[c].handler = "idle" => h(c) = "idle" /\ cl(c) = "idle"
               /\ h(c) = call[c].handler \/ h(c) = "over"
    BY PairingAssumption DEF PairingTypes, Sent
  <2> HIDE DEF y, cl, h
  <2>. QED BY <2>1, <2>2, <2>3 DEF CallsOK, Kept, Sent, PairingTypes
<1>7. ASSUME NEW d \in Devices, NEW p \in Devices, WithdrawStep(d, p) PROVE call' = call
  BY <1>7 DEF WithdrawStep, RemovePaired, RemoveRow, ToolUnpair, ServeUnpair, TellUnpaired, LoseUnpair,
              DropUnpair, EndUnpair
<1>8. ASSUME NEW d \in Devices, NEW p \in Devices,
             \/ ConfirmPair(d, p) \/ ConfirmFails(d, p) \/ AddPaired(d, p) \/ RejectCode(d, p)
             \/ HearUnpaired(d) \/ \E yes \in BOOLEAN : UnpairDevice(d, p, yes)
      PROVE  call' = call
  BY <1>8 DEF ConfirmPair, ConfirmFails, AddPaired, RejectCode, HearUnpaired, UnpairDevice
<1>9. CASE UNCHANGED pairingVars
  BY <1>1, <1>9 DEF pairingVars
<1>. QED
  BY <1>1, <1>2, <1>3, <1>4, <1>5, <1>6, <1>7, <1>8, <1>9 DEF PairingNext

------------------------------------------------------------------------------

\* Everything but the requests, each variable by itself.
BookOK == book \in [Devices -> SUBSET Devices]
PairedOK == paired \in [Devices -> SUBSET Devices]
AskOK == /\ question \in [Devices -> [Devices -> Calls \cup {None}]]
         /\ confirm \in [Devices -> SUBSET Devices]
         /\ joining \in [Devices -> SUBSET Devices]
EventsOK == events \in [Devices -> Seq(EventType)]
NoticeOK == notice \in [Devices -> [Devices -> NoticeType]]
BoundsOK == /\ withdrawals \in 0..MaxWithdrawn /\ failures \in 0..MaxFailures
            /\ restarts \in 0..MaxRestarts
HistoryOK == /\ agreed \in [Devices -> SUBSET Devices]
             /\ confirmed \in SUBSET (Devices \X Devices)
             /\ broken \in SUBSET (Devices \X Devices)
             /\ unsaved \in SUBSET (Devices \X Devices)
             /\ crossed \in SUBSET (Devices \X Devices)
RestOK == /\ BookOK /\ PairedOK /\ slot \in [Devices -> BOOLEAN]
          /\ AskOK /\ EventsOK /\ NoticeOK /\ HistoryOK /\ BoundsOK

LEMMA TypesSplit == PairingTypes => RestOK
BY DEF PairingTypes, PairingTypeOK, RestOK, BookOK, PairedOK, AskOK, EventsOK, EventType, NoticeOK,
       NoticeType, HistoryOK, BoundsOK

\* The counters stay within their bounds.
LEMMA BoundsStep ==
    ASSUME BoundsOK
    PROVE  /\ \A d, p \in Devices : Withdrawn(d, p) /\ withdrawals < MaxWithdrawn =>
                  withdrawals' \in 0..MaxWithdrawn
           /\ \A stored \in BOOLEAN : Stores(stored) => failures' \in 0..MaxFailures
           /\ Fails => failures' \in 0..MaxFailures
BY PairingAssumption DEF BoundsOK, Withdrawn, Stores, Fails

\* A step of a withdrawal leaves a withdrawal.
LEMMA NoticeStep ==
    ASSUME NoticeOK, NEW d \in Devices, NEW p \in Devices, NEW n \in NoticeType
    PROVE  /\ [n EXCEPT !.client = "over"] \in NoticeType
           /\ [n EXCEPT !.handler = "over"] \in NoticeType
           /\ [n EXCEPT !.handler = "telling"] \in NoticeType
           /\ \A h \in {"coming", "over"} : [[n EXCEPT !.client = "waiting"] EXCEPT !.handler = h] \in NoticeType
           /\ [notice EXCEPT ![d][p] = n] \in [Devices -> [Devices -> NoticeType]]
BY DEF NoticeOK, NoticeType

LEMMA RestStepOK ==
    ASSUME PairingTypes, [PairingNext]_pairingVars
    PROVE  RestOK'
<1>0. RestOK
  BY TypesSplit
<1>b. BoundsOK /\ NoticeOK /\ NewNotice \in NoticeType
  BY <1>0 DEF RestOK, NewNotice, NoticeType
<1>n. ASSUME NEW d \in Devices, NEW p \in Devices PROVE notice[d][p] \in NoticeType
  BY <1>b DEF NoticeOK
<1> USE DEF RestOK, BookOK, PairedOK, AskOK, EventsOK, HistoryOK, Crossing
<1>1. CASE UNCHANGED pairingVars
  BY <1>0, <1>1 DEF pairingVars, server, asking, history, bounds, NoticeOK, BoundsOK
<1>2. ASSUME NEW c \in Calls, NEW d \in Devices, NEW p \in Devices, NEW tool \in BOOLEAN,
             PairStart(c, d, p, tool)
      PROVE  RestOK'
  BY <1>0, <1>2 DEF PairStart, server, asking, history, bounds, NoticeOK, BoundsOK
<1>3. ASSUME NEW c \in Calls, ServePair(c) \/ RefuseBusy(c) \/ TimeOutPair(c) \/ GiveUpPair(c)
      PROVE  RestOK'
  BY <1>0, <1>3 DEF ServePair, RefuseBusy, TimeOutPair, GiveUpPair, Freed, server, asking, history,
                    bounds, NoticeOK, BoundsOK
<1>4. ASSUME NEW c \in Calls, TellRequest(c) PROVE RestOK'
  <2>1. Request(c) \in EventType
    BY DEF Request, EventType
  <2>2. events' \in [Devices -> Seq(EventType)]
    BY <1>0, <1>4, <2>1, AppendProperties DEF TellRequest
  <2>. QED BY <1>0, <1>4, <2>2 DEF TellRequest, asking, history, bounds, NoticeOK, BoundsOK
<1>5. ASSUME NEW c \in Calls, FinishPair(c) PROVE RestOK'
  <2>1. call[c].from \in Devices /\ call[c].to \in Devices
    BY <1>5 DEF FinishPair, PairingTypes, Sent
  <2>. QED BY <1>0, <1>5, <2>1 DEF FinishPair, Freed, asking, history, bounds, NoticeOK, BoundsOK
<1>6. ASSUME NEW c \in Calls, DropPair(c) PROVE RestOK'
  <2>1. call[c].from \in Devices /\ call[c].to \in Devices
    BY <1>6 DEF DropPair, PairingTypes, Sent
  <2>. QED BY <1>0, <1>6, <2>1 DEF DropPair, Freed, asking, bounds, NoticeOK, BoundsOK
<1>7. ASSUME NEW c \in Calls, HearReply(c) PROVE RestOK'
  <2>1. call[c].from \in Devices /\ call[c].to \in Devices
    BY <1>7 DEF HearReply, HasReply, PairingTypes, Sent
  <2>. QED BY <1>0, <1>7, <2>1 DEF HearReply, server, history, bounds, NoticeOK, BoundsOK
<1>8. ASSUME NEW c \in Calls, ToolConfirm(c) PROVE RestOK'
  <2>1. call[c].from \in Devices /\ call[c].to \in Devices
    BY <1>8 DEF ToolConfirm, HasReply, PairingTypes, Sent
  <2>. QED BY <1>0, <1>8, <2>1 DEF ToolConfirm, server, asking, bounds, NoticeOK, BoundsOK
<1>9. ASSUME NEW c \in Calls, ToolReject(c) PROVE RestOK'
  <2>1. call[c].from \in Devices /\ call[c].to \in Devices
    BY <1>9 DEF ToolReject, HasReply, PairingTypes, Sent
  <2>2. notice' \in [Devices -> [Devices -> NoticeType]]
    BY <1>9, <1>b, <2>1, NoticeStep DEF ToolReject
  <2>3. withdrawals' \in 0..MaxWithdrawn
    BY <1>9, <1>b, <2>1, BoundsStep DEF ToolReject, MayWithdraw
  <2>. QED BY <1>0, <1>9, <2>1, <2>2, <2>3 DEF ToolReject, Withdrawn, server, asking, NoticeOK, BoundsOK
<1>10. ASSUME NEW d \in Devices, HearRequest(d) PROVE RestOK'
  <2>1. /\ Head(events[d]).what \in Calls /\ Tail(events[d]) \in Seq(EventType)
        /\ call[Head(events[d]).what].from \in Devices
    BY <1>10, HeadIsEvent DEF HearRequest, EventType, EventIsTrue, Undecided, PairingTypes, Sent
  <2>. QED BY <1>0, <1>10, <2>1 DEF HearRequest, history, bounds, NoticeOK, BoundsOK
<1>11. ASSUME NEW d \in Devices, HearUnpaired(d) PROVE RestOK'
  <2>1. PICK p \in Devices : p = Head(events[d]).what /\ Tail(events[d]) \in Seq(EventType)
    BY <1>11, HeadIsEvent DEF HearUnpaired, EventType
  <2>2. PICK stored \in BOOLEAN : /\ Stores(stored) /\ book' = IF stored THEN Unrecorded(d, p) ELSE book
                                  /\ crossed' = IF ~stored /\ p \in book[d] THEN crossed \cup {<<d, p>>}
                                                ELSE crossed
    BY <1>11, <2>1 DEF HearUnpaired
  <2>3. failures' \in 0..MaxFailures
    BY <1>b, <2>2, BoundsStep
  <2>4. book' \in [Devices -> SUBSET Devices] /\ crossed' \in SUBSET (Devices \X Devices)
    BY <1>0, <2>2 DEF Unrecorded
  <2>. QED BY <1>0, <1>11, <2>1, <2>3, <2>4 DEF HearUnpaired, asking, NoticeOK, BoundsOK
<1>12. ASSUME NEW d \in Devices, Restart(d) PROVE RestOK'
  <2>1. notice' \in [Devices -> [Devices -> NoticeType]]
    <3> DEFINE cl(e, p) == IF e = d THEN "over" ELSE notice[e][p].client
               h(e, p) == IF p = d THEN "over" ELSE notice[e][p].handler
               y(e, p) == [[notice[e][p] EXCEPT !.client = cl(e, p)] EXCEPT !.handler = h(e, p)]
    <3>1. notice' = [e \in Devices |-> [p \in Devices |-> y(e, p)]]
      BY <1>12 DEF Restart
    <3>2. ASSUME NEW e \in Devices, NEW p \in Devices PROVE y(e, p) \in NoticeType
      <4>1. notice[e][p] \in NoticeType
        BY <1>n
      <4>2. cl(e, p) \in {"leaving", "waiting", "over"} /\ h(e, p) \in {"coming", "telling", "over"}
        BY <4>1 DEF NoticeType
      <4> HIDE DEF cl, h
      <4>. QED BY <4>1, <4>2 DEF NoticeType
    <3> HIDE DEF y
    <3>. QED BY <3>1, <3>2
  <2>2. events' \in [Devices -> Seq(EventType)]
    BY <1>0, <1>12, EmptySeq DEF Restart
  <2>3. restarts' \in 0..MaxRestarts
    <3>1. restarts \in 0..MaxRestarts /\ restarts < MaxRestarts /\ restarts' = restarts + 1
      BY <1>b, <1>12 DEF Restart, BoundsOK
    <3>. QED BY <3>1, PairingAssumption
  <2>4. /\ question' \in [Devices -> [Devices -> Calls \cup {None}]]
        /\ confirm' \in [Devices -> SUBSET Devices] /\ joining' \in [Devices -> SUBSET Devices]
    BY <1>0, <1>12 DEF Restart
  <2>. QED BY <1>0, <1>12, <2>1, <2>2, <2>3, <2>4 DEF Restart, NoticeOK, BoundsOK
<1>13. ASSUME NEW d \in Devices, NEW p \in Devices, NEW yes \in BOOLEAN, RespondPair(d, p, yes)
       PROVE  RestOK'
  <2>1. question' \in [Devices -> [Devices -> Calls \cup {None}]]
    BY <1>0, <1>13 DEF RespondPair
  <2>2. /\ book' \in [Devices -> SUBSET Devices] /\ failures' \in 0..MaxFailures
        /\ unsaved' \in SUBSET (Devices \X Devices) /\ crossed' \in SUBSET (Devices \X Devices)
        /\ agreed' \in [Devices -> SUBSET Devices]
    <3>1. CASE UNCHANGED <<book, failures, unsaved, crossed, agreed>>
      BY <1>0, <3>1 DEF BoundsOK
    <3>2. ASSUME NEW stored \in BOOLEAN, Stores(stored), book' = Recorded(d, p, stored),
                 unsaved' = IF stored THEN unsaved ELSE unsaved \cup {<<d, p>>},
                 crossed' = crossed \/ crossed' = crossed \cup {<<d, p>>},
                 agreed' = [agreed EXCEPT ![d] = @ \cup {p}]
          PROVE  /\ book' \in [Devices -> SUBSET Devices] /\ failures' \in 0..MaxFailures
                 /\ unsaved' \in SUBSET (Devices \X Devices) /\ crossed' \in SUBSET (Devices \X Devices)
                 /\ agreed' \in [Devices -> SUBSET Devices]
      BY <1>0, <1>b, <3>2, BoundsStep DEF Recorded
    <3>. QED BY <1>13, <3>1, <3>2 DEF RespondPair
  <2>. QED BY <1>0, <1>13, <2>1, <2>2 DEF RespondPair, server, NoticeOK, BoundsOK
<1>14. ASSUME NEW d \in Devices, NEW p \in Devices, NEW yes \in BOOLEAN, UnpairDevice(d, p, yes)
       PROVE  RestOK'
  <2>1. [client |-> "leaving", handler |-> "over", tell |-> p \in book[d], forget |-> yes] \in NoticeType
    BY DEF NoticeType
  <2>2. notice' \in [Devices -> [Devices -> NoticeType]]
    BY <1>14, <1>b, <2>1, NoticeStep DEF UnpairDevice
  <2>3. withdrawals' \in 0..MaxWithdrawn
    BY <1>14, <1>b, BoundsStep DEF UnpairDevice, MayWithdraw
  <2>. QED BY <1>0, <1>14, <2>2, <2>3 DEF UnpairDevice, Unrecorded, Withdrawn, server, asking, NoticeOK,
                                          BoundsOK
<1>15. ASSUME NEW d \in Devices, NEW p \in Devices, ConfirmPair(d, p) \/ AddPaired(d, p)
       PROVE RestOK'
  <2>1. CASE ConfirmPair(d, p)
    BY <1>0, <2>1 DEF ConfirmPair, server, bounds, NoticeOK, BoundsOK
  <2>2. CASE AddPaired(d, p)
    BY <1>0, <2>2 DEF AddPaired, bounds, NoticeOK, BoundsOK
  <2>. QED BY <1>15, <2>1, <2>2
<1>16. ASSUME NEW d \in Devices, NEW p \in Devices, ConfirmFails(d, p) PROVE RestOK'
  <2>1. failures' \in 0..MaxFailures
    BY <1>16, <1>b, BoundsStep DEF ConfirmFails
  <2>. QED BY <1>0, <1>16, <2>1 DEF ConfirmFails, server, NoticeOK, BoundsOK
<1>17. ASSUME NEW d \in Devices, NEW p \in Devices, RejectCode(d, p) PROVE RestOK'
  <2>1. notice' \in [Devices -> [Devices -> NoticeType]]
    BY <1>17, <1>b, NoticeStep DEF RejectCode
  <2>2. withdrawals' \in 0..MaxWithdrawn
    BY <1>17, <1>b, BoundsStep DEF RejectCode, MayWithdraw
  <2>. QED BY <1>0, <1>17, <2>1, <2>2 DEF RejectCode, Withdrawn, server, NoticeOK, BoundsOK
<1>18. ASSUME NEW d \in Devices, NEW p \in Devices, ToolUnpair(d, p) PROVE RestOK'
  <2>1. notice' \in [Devices -> [Devices -> NoticeType]]
    BY <1>18, <1>b, NoticeStep DEF ToolUnpair
  <2>2. withdrawals' \in 0..MaxWithdrawn
    BY <1>18, <1>b, BoundsStep DEF ToolUnpair, MayWithdraw
  <2>. QED BY <1>0, <1>18, <2>1, <2>2 DEF ToolUnpair, Unrecorded, Withdrawn, server, asking, NoticeOK,
                                          BoundsOK
<1>19. ASSUME NEW d \in Devices, NEW p \in Devices, RemoveRow(d, p) PROVE RestOK'
  <2>1. withdrawals' \in 0..MaxWithdrawn
    BY <1>19, <1>b, BoundsStep DEF RemoveRow
  <2>. QED BY <1>0, <1>19, <2>1 DEF RemoveRow, Unrecorded, Withdrawn, server, asking, NoticeOK, BoundsOK
<1>20. ASSUME NEW d \in Devices, NEW p \in Devices, RemovePaired(d, p) PROVE RestOK'
  <2>1. PICK handler \in {"coming", "over"} :
            notice' = [notice EXCEPT ![d][p].client = "waiting", ![d][p].handler = handler]
    BY <1>20 DEF RemovePaired
  <2>2. notice' \in [Devices -> [Devices -> NoticeType]]
    <3> DEFINE n == [[notice[d][p] EXCEPT !.client = "waiting"] EXCEPT !.handler = handler]
    <3>1. n \in NoticeType
      BY <1>b, <1>n, NoticeStep
    <3>2. notice' = [notice EXCEPT ![d][p] = n]
      BY <2>1, <1>b DEF NoticeOK
    <3> HIDE DEF n
    <3>. QED BY <1>b, <3>1, <3>2, NoticeStep
  <2>. QED BY <1>0, <1>20, <2>2 DEF RemovePaired, Distrusted, asking, history, bounds, NoticeOK, BoundsOK
<1>21. ASSUME NEW d \in Devices, NEW p \in Devices,
              ServeUnpair(d, p) \/ LoseUnpair(d, p) \/ DropUnpair(d, p) \/ EndUnpair(d, p) \/ TellUnpaired(d, p)
       PROVE  NoticeOK'
  <2>1. PICK n \in NoticeType : notice' = [notice EXCEPT ![d][p] = n]
    <3>1. \/ notice' = [notice EXCEPT ![d][p].handler = "over"]
          \/ notice' = [notice EXCEPT ![d][p].handler = "telling"]
          \/ notice' = [notice EXCEPT ![d][p].client = "over"]
      BY <1>21 DEF ServeUnpair, LoseUnpair, DropUnpair, EndUnpair, TellUnpaired
    <3>2. \/ notice' = [notice EXCEPT ![d][p] = [notice[d][p] EXCEPT !.handler = "over"]]
          \/ notice' = [notice EXCEPT ![d][p] = [notice[d][p] EXCEPT !.handler = "telling"]]
          \/ notice' = [notice EXCEPT ![d][p] = [notice[d][p] EXCEPT !.client = "over"]]
      BY <1>b, <3>1 DEF NoticeOK
    <3>. QED BY <1>b, <1>n, <3>2, NoticeStep
  <2>. QED BY <1>b, <2>1, NoticeStep DEF NoticeOK
<1>22. ASSUME NEW d \in Devices, NEW p \in Devices,
              ServeUnpair(d, p) \/ LoseUnpair(d, p) \/ DropUnpair(d, p) \/ EndUnpair(d, p)
       PROVE  RestOK'
  <2>1. paired' \in [Devices -> SUBSET Devices] /\ book' \in [Devices -> SUBSET Devices]
    <3>1. paired' = paired \/ paired' = [paired EXCEPT ![p] = @ \ {d}]
      BY <1>22 DEF ServeUnpair, LoseUnpair, DropUnpair, EndUnpair, server
    <3>2. book' = book \/ book' = [book EXCEPT ![d] = @ \ {p}]
      BY <1>22 DEF ServeUnpair, LoseUnpair, DropUnpair, EndUnpair, Unrecorded
    <3>0. book \in [Devices -> SUBSET Devices] /\ paired \in [Devices -> SUBSET Devices]
      BY <1>0
    <3>3. paired' \in [Devices -> SUBSET Devices]
      <4>1. [paired EXCEPT ![p] = paired[p] \ {d}] \in [Devices -> SUBSET Devices]
        BY <3>0
      <4>. QED BY <3>0, <3>1, <4>1
    <3>4. book' \in [Devices -> SUBSET Devices]
      <4>1. [book EXCEPT ![d] = book[d] \ {p}] \in [Devices -> SUBSET Devices]
        BY <3>0
      <4>. QED BY <3>0, <3>2, <4>1
    <3>. QED BY <3>3, <3>4
  <2>2. crossed' \in SUBSET (Devices \X Devices)
    <3>1. \/ crossed' = crossed \/ crossed' = crossed \cup {<<p, d>>}
          \/ crossed' = crossed \cup {<<d, p>>}
      BY <1>22 DEF ServeUnpair, LoseUnpair, DropUnpair, EndUnpair, history
    <3>. QED BY <1>0, <3>1
  <2>3. UNCHANGED <<slot, events, question, confirm, joining, agreed, confirmed, broken, unsaved, bounds>>
    BY <1>22 DEF ServeUnpair, LoseUnpair, DropUnpair, EndUnpair, server, asking, history
  <2>. QED BY <1>0, <1>21, <1>22, <2>1, <2>2, <2>3 DEF bounds, BoundsOK
<1>23. ASSUME NEW d \in Devices, NEW p \in Devices, TellUnpaired(d, p) PROVE RestOK'
  <2>1. Unpaired(d) \in EventType
    BY DEF Unpaired, EventType
  <2>2. events' \in [Devices -> Seq(EventType)]
    BY <1>0, <1>23, <2>1, AppendProperties DEF TellUnpaired
  <2>3. UNCHANGED <<book, paired, slot, question, confirm, joining, agreed, confirmed, broken, unsaved,
                    crossed, bounds>>
    BY <1>23 DEF TellUnpaired, asking, history
  <2>. QED BY <1>0, <1>21, <1>23, <2>2, <2>3 DEF bounds, BoundsOK
<1> USE DEF PairingNext, CallStep, WithdrawStep
<1>. QED
  BY <1>1, <1>2, <1>3, <1>4, <1>5, <1>6, <1>7, <1>8, <1>9, <1>10, <1>11, <1>12, <1>13,
     <1>14, <1>15, <1>16, <1>17, <1>18, <1>19, <1>20, <1>22, <1>23

\* The type invariant is preserved.
LEMMA PairingTypeStep ==
    ASSUME PairingTypes, [PairingNext]_pairingVars
    PROVE  PairingTypeOK' /\ Sent' /\ Kept
<1>1. CallsOK /\ RestOK'
  BY CallStepOK, RestStepOK
<1>. QED
  BY <1>1 DEF CallsOK, CallType, RestOK, BookOK, PairedOK, AskOK, EventsOK, EventType, NoticeOK,
              NoticeType, HistoryOK, BoundsOK, PairingTypeOK

\* A withdrawal under way was made by its user: only a new one is not yet known to be.
LEMMA NotedStays ==
    ASSUME Noted, broken \subseteq broken',
           \A e, q \in Devices : UnderWay(notice'[e][q]) => UnderWay(notice[e][q]) \/ <<e, q>> \in broken'
    PROVE  Noted'
BY DEF Noted, UnderWay

\* The withdrawals that are under way after a step were so before, or are this step's own.
LEMMA NotedStep ==
    ASSUME PairingTypes, [PairingNext]_pairingVars
    PROVE  Noted'
<1>0. Noted /\ notice \in [Devices -> [Devices -> NoticeType]]
  BY TypesSplit DEF PairingTypes, RestOK, NoticeOK
<1>1. CASE UNCHANGED <<notice, broken>>
  BY <1>0, <1>1, NotedStays
<1>2. ASSUME NEW d \in Devices, NEW p \in Devices, NEW n, notice' = [notice EXCEPT ![d][p] = n],
             broken \subseteq broken', UnderWay(notice[d][p]) \/ <<d, p>> \in broken'
      PROVE  Noted'
  <2>1. \A e, q \in Devices : e # d \/ q # p => notice'[e][q] = notice[e][q]
    BY <1>0, <1>2
  <2>2. ASSUME NEW e \in Devices, NEW q \in Devices, UnderWay(notice'[e][q])
        PROVE  UnderWay(notice[e][q]) \/ <<e, q>> \in broken'
    BY <1>2, <2>1, <2>2
  <2>. QED BY <1>0, <1>2, <2>2, NotedStays
<1>3. ASSUME NEW d \in Devices, NEW p \in Devices,
             \/ ToolUnpair(d, p) \/ RejectCode(d, p) \/ \E yes \in BOOLEAN : UnpairDevice(d, p, yes)
      PROVE  Noted'
  <2>1. PICK n : notice' = [notice EXCEPT ![d][p] = n]
    BY <1>3 DEF ToolUnpair, RejectCode, UnpairDevice
  <2>2. broken \subseteq broken' /\ <<d, p>> \in broken'
    BY <1>3 DEF ToolUnpair, RejectCode, UnpairDevice, Withdrawn
  <2>. QED BY <1>2, <2>1, <2>2
<1>4. ASSUME NEW c \in Calls, ToolReject(c) PROVE Noted'
  <2>1. PICK d \in Devices, p \in Devices : d = call[c].from /\ p = call[c].to
    BY <1>4 DEF ToolReject, HasReply, PairingTypes, Sent
  <2>2. /\ notice' = [notice EXCEPT ![d][p] = NewNotice]
        /\ broken \subseteq broken' /\ <<d, p>> \in broken'
    BY <1>4, <2>1 DEF ToolReject, Withdrawn
  <2>. QED BY <1>2, <2>2
<1>5. ASSUME NEW d \in Devices, NEW p \in Devices,
             \/ RemovePaired(d, p) \/ ServeUnpair(d, p) \/ TellUnpaired(d, p) \/ LoseUnpair(d, p)
             \/ DropUnpair(d, p) \/ EndUnpair(d, p)
      PROVE  Noted'
  <2>1. /\ UnderWay(notice[d][p]) /\ broken' = broken
    BY <1>5 DEF RemovePaired, ServeUnpair, TellUnpaired, LoseUnpair, DropUnpair, EndUnpair, UnderWay,
                history
  <2>2. PICK n : notice' = [notice EXCEPT ![d][p] = n]
    <3>1. \/ \E h : notice' = [notice EXCEPT ![d][p].handler = h]
          \/ \E h : notice' = [notice EXCEPT ![d][p].client = h]
          \/ \E h : notice' = [notice EXCEPT ![d][p].client = "waiting", ![d][p].handler = h]
      BY <1>5 DEF RemovePaired, ServeUnpair, TellUnpaired, LoseUnpair, DropUnpair, EndUnpair
    <3>2. \A h : /\ [notice EXCEPT ![d][p].handler = h]
                       = [notice EXCEPT ![d][p] = [notice[d][p] EXCEPT !.handler = h]]
                 /\ [notice EXCEPT ![d][p].client = h]
                       = [notice EXCEPT ![d][p] = [notice[d][p] EXCEPT !.client = h]]
                 /\ [notice EXCEPT ![d][p].client = "waiting", ![d][p].handler = h]
                       = [notice EXCEPT ![d][p] = [[notice[d][p] EXCEPT !.client = "waiting"]
                                                      EXCEPT !.handler = h]]
      BY <1>0
    <3>. QED BY <3>1, <3>2
  <2>. QED BY <1>2, <2>1, <2>2
<1>6. ASSUME NEW d \in Devices, Restart(d) PROVE Noted'
  <2>1. ASSUME NEW e \in Devices, NEW q \in Devices, UnderWay(notice'[e][q])
        PROVE  UnderWay(notice[e][q]) \/ <<e, q>> \in broken'
    <3>1. notice[e][q] \in NoticeType
      BY <1>0
    <3>2. notice'[e][q] = [notice[e][q] EXCEPT
              !.client = IF e = d THEN "over" ELSE @, !.handler = IF q = d THEN "over" ELSE @]
      BY <1>6 DEF Restart
    <3>. QED BY <2>1, <3>1, <3>2 DEF NoticeType, UnderWay
  <2>2. broken' = broken
    BY <1>6 DEF Restart
  <2>. QED BY <1>0, <2>1, <2>2, NotedStays
<1>7. ASSUME NEW d \in Devices, NEW p \in Devices, RemoveRow(d, p) PROVE Noted'
  <2>1. notice' = notice /\ broken \subseteq broken'
    BY <1>7 DEF RemoveRow, Withdrawn
  <2>. QED BY <1>0, <2>1, NotedStays
<1>8. ASSUME NEW c \in Calls,
             \/ ServePair(c) \/ RefuseBusy(c) \/ TellRequest(c) \/ FinishPair(c) \/ TimeOutPair(c)
             \/ GiveUpPair(c) \/ DropPair(c) \/ HearReply(c) \/ ToolConfirm(c)
             \/ \E d, p \in Devices, tool \in BOOLEAN : PairStart(c, d, p, tool)
      PROVE  UNCHANGED <<notice, broken>>
  BY <1>8 DEF ServePair, RefuseBusy, TellRequest, FinishPair, TimeOutPair, GiveUpPair, DropPair,
              HearReply, ToolConfirm, PairStart, history
<1>9. ASSUME NEW d \in Devices, NEW p \in Devices,
             \/ HearRequest(d) \/ HearUnpaired(d) \/ ConfirmPair(d, p) \/ ConfirmFails(d, p)
             \/ AddPaired(d, p) \/ \E yes \in BOOLEAN : RespondPair(d, p, yes)
      PROVE  UNCHANGED <<notice, broken>>
  BY <1>9 DEF HearRequest, HearUnpaired, ConfirmPair, ConfirmFails, AddPaired, RespondPair, history
<1>10. CASE UNCHANGED pairingVars
  BY <1>1, <1>10 DEF pairingVars, history
<1>. QED
  BY <1>1, <1>3, <1>4, <1>5, <1>6, <1>7, <1>8, <1>9, <1>10 DEF PairingNext, CallStep, WithdrawStep

\* Where a request is asked about: nothing changes but the history of withdrawals.
LEMMA AddressedStays ==
    ASSUME PairingTypes, Kept, UNCHANGED <<events, question>>, broken \subseteq broken',
           \A c \in Calls : call[c].handler # "idle" => call'[c].decision = call[c].decision
    PROVE  Addressed'
<1>1. /\ \A d \in Devices : \A i \in 1..Len(events[d]) : events[d][i] \in EventType
      /\ \A d, p \in Devices : question[d][p] # None => question[d][p] \in Calls
  BY TypesSplit DEF RestOK, EventsOK, AskOK
<1>2. ASSUME NEW c \in Calls, NEW d \in Devices, Undecided(c, d) PROVE Undecided(c, d)'
  BY <1>2 DEF Undecided, Kept
<1>3. ASSUME NEW d \in Devices, NEW i \in 1..Len(events[d])
      PROVE  EventIsTrue(d, events[d][i])'
  BY <1>1, <1>2 DEF PairingTypes, Addressed, EventIsTrue, EventType
<1>. QED
  BY <1>1, <1>2, <1>3 DEF PairingTypes, Addressed, Undecided, Kept

LEMMA AddressedStep ==
    ASSUME PairingTypes, [PairingNext]_pairingVars
    PROVE  Addressed'
<1>0. /\ \A d \in Devices : \A i \in 1..Len(events[d]) : events[d][i] \in EventType
      /\ \A d, p \in Devices : question[d][p] # None => question[d][p] \in Calls
      /\ events \in [Devices -> Seq(EventType)]
      /\ question \in [Devices -> [Devices -> Calls \cup {None}]]
      /\ call \in [Calls -> CallType]
  BY TypesSplit DEF RestOK, EventsOK, AskOK, PairingTypes, PairingTypeOK, CallType
<1>k. Kept
  BY CallStepOK DEF CallsOK
<1>a. Addressed
  BY DEF PairingTypes
\* What is not decided stays so, unless its decision changes.
<1>u. ASSUME NEW c \in Calls, NEW d \in Devices, Undecided(c, d),
             call'[c].decision = call[c].decision
      PROVE  Undecided(c, d)' /\ call'[c].from = call[c].from
  BY <1>k, <1>u DEF Undecided, Kept
<1>e. ASSUME NEW e \in Devices, NEW x \in EventType, EventIsTrue(e, x), broken \subseteq broken',
             x.kind = "request" => /\ call'[x.what].decision = call[x.what].decision
                                   /\ \A p \in Devices : question'[e][p] # x.what
      PROVE  EventIsTrue(e, x)'
  BY <1>e, <1>u DEF EventIsTrue, EventType
<1>1. CASE UNCHANGED pairingVars
  <2>1. /\ UNCHANGED <<events, question, call, broken>>
    BY <1>1 DEF pairingVars, server, asking, history
  <2>. QED BY <2>1, <1>k, AddressedStays
<1>2. ASSUME NEW c \in Calls, NEW d \in Devices, NEW p \in Devices, NEW tool \in BOOLEAN,
             PairStart(c, d, p, tool)
      PROVE  Addressed'
  <2>1. /\ UNCHANGED <<events, question, broken>>
        /\ call[c].handler = "idle" /\ \A e \in Calls : e # c => call'[e] = call[e]
    BY <1>0, <1>2 DEF PairStart, NoCall, server, asking, history
  <2>. QED BY <2>1, <1>k, AddressedStays
<1>3. ASSUME NEW c \in Calls, TellRequest(c) PROVE Addressed'
  <2>0. PICK d \in Devices : d = call[c].to
    BY <1>3 DEF TellRequest, PairingTypes, Sent
  <2>1. /\ call[c].handler = "entered" /\ call[c].decision = "none"
        /\ UNCHANGED <<question, broken>>
        /\ events' = [events EXCEPT ![d] = Append(events[d], Request(c))]
    BY <1>3, <2>0 DEF TellRequest, PairingTypes, Sent, asking, history
  <2>2. /\ \A e \in Calls : call'[e].decision = call[e].decision
        /\ Undecided(c, d)'
    BY <1>0, <1>3, <2>0, <2>1 DEF TellRequest, CallType, Undecided
  <2>3. /\ Len(events'[d]) = Len(events[d]) + 1
        /\ \A i \in 1..Len(events[d]) : events'[d][i] = events[d][i]
        /\ events'[d][Len(events[d]) + 1] = Request(c)
        /\ \A e \in Devices : e # d => events'[e] = events[e]
    BY <1>0, <2>1, AppendProperties
  <2>4. \A e, p \in Devices : question[e][p] # c
    BY <2>1, <1>a, PairingAssumption DEF Addressed, Undecided
  <2>5. \A e \in Devices : \A i \in 1..Len(events[e]) : events[e][i] # Request(c)
    <3>1. \A e \in Devices : ~EventIsTrue(e, Request(c))
      BY <2>1 DEF EventIsTrue, Undecided, Request
    <3>. QED BY <3>1, <1>a DEF Addressed
  <2>6. ASSUME NEW e \in Devices, NEW i \in 1..Len(events[e]), NEW x, x = events[e][i]
        PROVE  EventIsTrue(e, x)'
    <3>1. x \in EventType /\ EventIsTrue(e, x)
      BY <1>0, <1>a, <2>6 DEF Addressed
    <3>2. x.kind = "request" => /\ call'[x.what].decision = call[x.what].decision
                                /\ \A p \in Devices : question'[e][p] # x.what
      BY <2>1, <2>2, <3>1 DEF EventType, EventIsTrue
    <3>. QED BY <1>e, <2>1, <3>1, <3>2
  <2>7. EventIsTrue(d, Request(c))'
    BY <2>1, <2>2, <2>4 DEF EventIsTrue, Request
  <2>8. ASSUME NEW e \in Devices, NEW i \in 1..Len(events'[e]), NEW x, x = events'[e][i]
        PROVE  EventIsTrue(e, x)'
    <3>1. CASE e # d
      BY <3>1, <2>3, <2>6, <2>8
    <3>2. CASE e = d /\ i \in 1..Len(events[e])
      BY <3>2, <2>3, <2>6, <2>8
    <3>3. CASE e = d /\ i = Len(events[e]) + 1
      BY <3>3, <2>3, <2>7, <2>8
    <3>. QED BY <1>0, <2>3, <3>1, <3>2, <3>3
  <2>9. ASSUME NEW e \in Devices, NEW i \in 1..Len(events'[e]), NEW j \in 1..Len(events'[e]),
               events'[e][i].kind = "request", events'[e][i] = events'[e][j]
        PROVE  i = j
    BY <1>0, <1>a, <2>1, <2>3, <2>5, <2>9 DEF Addressed
  <2>10. ASSUME NEW e \in Devices, NEW p \in Devices, question'[e][p] # None
         PROVE  Undecided(question[e][p], e)' /\ call'[question'[e][p]].from = p
    BY <1>0, <1>u, <1>a, <2>1, <2>2, <2>10 DEF Addressed
  <2>. QED BY <2>8, <2>9, <2>10 DEF Addressed
<1>4. ASSUME NEW c \in Calls,
             \/ ServePair(c) \/ RefuseBusy(c) \/ FinishPair(c) \/ TimeOutPair(c) \/ GiveUpPair(c)
             \/ DropPair(c) \/ HearReply(c) \/ ToolConfirm(c) \/ ToolReject(c)
      PROVE  Addressed'
  <2>1. UNCHANGED <<events, question>> /\ broken \subseteq broken'
    BY <1>4 DEF ServePair, RefuseBusy, FinishPair, TimeOutPair, GiveUpPair, DropPair, HearReply,
                ToolConfirm, ToolReject, Withdrawn, server, asking, history
  <2>2. \A e \in Calls : call'[e].decision = call[e].decision
    <3> SUFFICES ASSUME NEW e \in Calls PROVE call'[e].decision = call[e].decision
      OBVIOUS
    <3>1. call[e] \in CallType
      BY <1>0
    <3>2. CASE RefuseBusy(c)
      BY <1>0, <3>1, <3>2 DEF RefuseBusy, CallType
    <3>3. CASE FinishPair(c)
      BY <1>0, <3>1, <3>3 DEF FinishPair, CallType
    <3>4. CASE TimeOutPair(c)
      BY <1>0, <3>1, <3>4 DEF TimeOutPair, CallType
    <3>5. CASE GiveUpPair(c) \/ DropPair(c) \/ HearReply(c) \/ ServePair(c) \/ ToolConfirm(c) \/ ToolReject(c)
      <4>1. \/ call' = [call EXCEPT ![c].client = "over"] \/ call' = [call EXCEPT ![c].handler = "over"]
            \/ call' = [call EXCEPT ![c].handler = "entered"]
        BY <3>5 DEF GiveUpPair, DropPair, HearReply, ServePair, ToolConfirm, ToolReject
      <4>2. CASE e # c
        BY <1>0, <4>1, <4>2
      <4>3. CASE e = c
        <5>1. \/ call'[e] = [call[e] EXCEPT !.client = "over"] \/ call'[e] = [call[e] EXCEPT !.handler = "over"]
              \/ call'[e] = [call[e] EXCEPT !.handler = "entered"]
          BY <1>0, <4>1, <4>3
        <5>. QED BY <3>1, <5>1 DEF CallType
      <4>. QED BY <4>2, <4>3
    <3>. QED BY <1>4, <3>2, <3>3, <3>4, <3>5
  <2>. QED BY <2>1, <2>2, <1>k, AddressedStays
<1>5. ASSUME NEW d \in Devices, HearRequest(d) PROVE Addressed'
  <2> DEFINE h == Head(events[d])
  <2>1. /\ h \in EventType /\ h.kind = "request" /\ EventIsTrue(d, h) /\ h = events[d][1]
        /\ Len(events[d]) \in Nat /\ Len(events[d]) > 0
        /\ Len(Tail(events[d])) = Len(events[d]) - 1
        /\ \A i \in 1..Len(Tail(events[d])) : Tail(events[d])[i] = events[d][i + 1]
    BY <1>5, HeadIsEvent DEF HearRequest
  <2>2. PICK c \in Calls : c = h.what
    BY <2>1 DEF EventType
  <2>3. Undecided(c, d) /\ \A p \in Devices : question[d][p] # c
    BY <2>1, <2>2 DEF EventIsTrue
  <2>4. PICK p \in Devices : p = call[c].from
    BY <2>3 DEF Undecided, PairingTypes, Sent
  <2>5. PICK older \in Calls \cup {None} : older = question[d][p]
    BY <1>0
  <2>6. /\ question' = [question EXCEPT ![d][p] = c]
        /\ events' = [events EXCEPT ![d] = Tail(events[d])]
        /\ broken' = broken
        /\ call' = call \/ call' = [call EXCEPT ![older].decision = "no"]
        /\ older = None => call' = call
    BY <1>5, <2>2, <2>4, <2>5 DEF HearRequest, history
  <2> HIDE DEF h
  <2>7. \A e \in Calls : e # older => call'[e].decision = call[e].decision
    BY <1>0, <2>6
  <2>8. /\ \A e, q \in Devices : question'[e][q] = IF e = d /\ q = p THEN c ELSE question[e][q]
        /\ \A e \in Devices : events'[e] = IF e = d THEN Tail(events[d]) ELSE events[e]
    BY <1>0, <2>6
  <2>9. older # None => Undecided(older, d) /\ call[older].from = p
    BY <2>5, <1>a DEF Addressed
  <2>10. c # older
    BY <2>3, <2>5
  <2>11. ASSUME NEW e \in Devices, NEW q \in Devices, question'[e][q] # None
         PROVE  Undecided(question[e][q], e)' /\ call'[question'[e][q]].from = q
    <3>1. CASE e = d /\ q = p
      BY <1>u, <2>3, <2>4, <2>7, <2>8, <2>10, <3>1
    <3>2. CASE ~(e = d /\ q = p)
      <4>1. question'[e][q] = question[e][q] /\ question[e][q] \in Calls
        BY <1>0, <2>8, <2>11, <3>2
      <4>2. Undecided(question[e][q], e) /\ call[question[e][q]].from = q
        BY <1>a, <2>11, <4>1 DEF Addressed
      <4>3. question[e][q] # older
        BY <2>9, <3>2, <4>1, <4>2, PairingAssumption DEF Undecided
      <4>. QED BY <1>u, <2>7, <4>1, <4>2, <4>3
    <3>. QED BY <3>1, <3>2
  <2>12. ASSUME NEW e \in Devices, NEW i \in 1..Len(events'[e])
         PROVE  \E k \in 1..Len(events[e]) : /\ events'[e][i] = events[e][k]
                                             /\ e = d => k = i + 1
    <3>1. CASE e = d
      <4>1. events'[e] = Tail(events[d]) /\ i \in 1..Len(Tail(events[d]))
        BY <2>8, <2>12, <3>1
      <4>2. i + 1 \in 1..Len(events[e]) /\ events'[e][i] = events[e][i + 1]
        BY <2>1, <3>1, <4>1
      <4>. QED BY <4>2
    <3>2. CASE e # d
      BY <2>8, <2>12, <3>2
    <3>. QED BY <3>1, <3>2
  <2>13. ASSUME NEW e \in Devices, NEW i \in 1..Len(events'[e]), NEW x, x = events'[e][i]
         PROVE  EventIsTrue(e, x)'
    <3>1. PICK k \in 1..Len(events[e]) : x = events[e][k] /\ (e = d => k = i + 1)
      BY <2>12, <2>13
    <3>2. x \in EventType /\ EventIsTrue(e, x)
      BY <1>0, <1>a, <3>1 DEF Addressed
    <3>3. ASSUME x.kind = "request"
          PROVE  /\ call'[x.what].decision = call[x.what].decision
                 /\ \A q \in Devices : question'[e][q] # x.what
      <4>1. /\ x.what \in Calls /\ call[x.what].to = e
            /\ \A q \in Devices : question[e][q] # x.what
        BY <3>2, <3>3 DEF EventType, EventIsTrue, Undecided
      <4>2. x.what # older
        BY <2>5, <2>9, <4>1, PairingAssumption DEF Undecided
      <4>3. e = d => x # h
        <5>1. e = d => k # 1 /\ 1 \in 1..Len(events[d])
          BY <2>1, <2>13, <3>1, <1>0
        <5>. QED BY <1>a, <2>1, <3>1, <3>3, <5>1 DEF Addressed
      <4>4. e = d => x.what # c
        BY <2>1, <2>2, <3>2, <3>3, <4>3 DEF EventType
      <4>. QED BY <2>7, <2>8, <4>1, <4>2, <4>4
    <3>. QED BY <1>e, <2>6, <3>2, <3>3
  <2>14. ASSUME NEW e \in Devices, NEW i \in 1..Len(events'[e]), NEW j \in 1..Len(events'[e]),
                events'[e][i].kind = "request", events'[e][i] = events'[e][j]
         PROVE  i = j
    <3>1. CASE e = d
      BY <1>a, <2>12, <2>14, <3>1 DEF Addressed
    <3>2. CASE e # d
      BY <1>a, <2>8, <2>14, <3>2 DEF Addressed
    <3>. QED BY <3>1, <3>2
  <2>. QED BY <2>11, <2>13, <2>14 DEF Addressed
<1>6. ASSUME NEW d \in Devices, HearUnpaired(d) PROVE Addressed'
  <2>1. /\ Len(events[d]) \in Nat /\ Len(events[d]) > 0
        /\ Len(Tail(events[d])) = Len(events[d]) - 1
        /\ \A i \in 1..Len(Tail(events[d])) : Tail(events[d])[i] = events[d][i + 1]
    BY <1>6, HeadIsEvent DEF HearUnpaired
  <2>2. /\ UNCHANGED <<question, call, broken>>
        /\ \A e \in Devices : events'[e] = IF e = d THEN Tail(events[d]) ELSE events[e]
    BY <1>0, <1>6 DEF HearUnpaired, asking
  <2>3. ASSUME NEW e \in Devices, NEW i \in 1..Len(events'[e])
        PROVE  \E k \in 1..Len(events[e]) : /\ events'[e][i] = events[e][k]
                                            /\ k = IF e = d THEN i + 1 ELSE i
    <3>1. CASE e = d
      <4>1. events'[e] = Tail(events[d]) /\ i \in 1..Len(Tail(events[d]))
        BY <2>2, <2>3, <3>1
      <4>2. i + 1 \in 1..Len(events[e]) /\ events'[e][i] = events[e][i + 1]
        BY <2>1, <3>1, <4>1
      <4>. QED BY <3>1, <4>2
    <3>2. CASE e # d
      BY <2>2, <2>3, <3>2
    <3>. QED BY <3>1, <3>2
  <2>4. ASSUME NEW e \in Devices, NEW i \in 1..Len(events'[e]), NEW x, x = events'[e][i]
        PROVE  EventIsTrue(e, x)'
    <3>1. PICK k \in 1..Len(events[e]) : x = events[e][k]
      BY <2>3, <2>4
    <3>2. x \in EventType /\ EventIsTrue(e, x)
      BY <1>0, <1>a, <3>1 DEF Addressed
    <3>. QED BY <2>2, <3>2 DEF EventIsTrue, Undecided
  <2>5. ASSUME NEW e \in Devices, NEW i \in 1..Len(events'[e]), NEW j \in 1..Len(events'[e]),
               events'[e][i].kind = "request", events'[e][i] = events'[e][j]
        PROVE  i = j
    <3>1. PICK k \in 1..Len(events[e]) : /\ events'[e][i] = events[e][k]
                                         /\ k = IF e = d THEN i + 1 ELSE i
      BY <2>3
    <3>2. PICK l \in 1..Len(events[e]) : /\ events'[e][j] = events[e][l]
                                         /\ l = IF e = d THEN j + 1 ELSE j
      BY <2>3
    <3>3. k = l
      BY <1>a, <2>5, <3>1, <3>2 DEF Addressed
    <3>. QED BY <3>1, <3>2, <3>3
  <2>6. ASSUME NEW e \in Devices, NEW q \in Devices, question'[e][q] # None
        PROVE  Undecided(question[e][q], e)' /\ call'[question'[e][q]].from = q
    BY <1>a, <2>2, <2>6 DEF Addressed, Undecided
  <2>. QED BY <2>4, <2>5, <2>6 DEF Addressed
<1>7. ASSUME NEW d \in Devices, Restart(d) PROVE Addressed'
  <2>1. /\ broken' = broken
        /\ \A e \in Devices : events'[e] = IF e = d THEN <<>> ELSE events[e]
        /\ \A e, q \in Devices : question'[e][q] = IF e = d THEN None ELSE question[e][q]
    BY <1>0, <1>7 DEF Restart
  <2>2. \A c \in Calls : call'[c].decision = call[c].decision
    <3> SUFFICES ASSUME NEW c \in Calls PROVE call'[c].decision = call[c].decision
      OBVIOUS
    <3>1. call[c] \in CallType
      BY <1>0
    <3>. QED BY <1>7, <3>1 DEF Restart, CallType
  <2>3. ASSUME NEW e \in Devices, NEW i \in 1..Len(events'[e])
        PROVE  e # d /\ events'[e] = events[e]
    BY <2>1, <2>3
  <2>4. ASSUME NEW e \in Devices, NEW i \in 1..Len(events'[e]), NEW x, x = events'[e][i]
        PROVE  EventIsTrue(e, x)'
    <3>1. x \in EventType /\ EventIsTrue(e, x) /\ e # d
      BY <1>0, <1>a, <2>3, <2>4 DEF Addressed
    <3>2. x.kind = "request" => /\ call'[x.what].decision = call[x.what].decision
                                /\ \A p \in Devices : question'[e][p] # x.what
      BY <2>1, <2>2, <3>1 DEF EventType, EventIsTrue
    <3>. QED BY <1>e, <2>1, <3>1, <3>2
  <2>5. ASSUME NEW e \in Devices, NEW i \in 1..Len(events'[e]), NEW j \in 1..Len(events'[e]),
               events'[e][i].kind = "request", events'[e][i] = events'[e][j]
        PROVE  i = j
    BY <1>a, <2>3, <2>5 DEF Addressed
  <2>6. ASSUME NEW e \in Devices, NEW q \in Devices, question'[e][q] # None
        PROVE  Undecided(question[e][q], e)' /\ call'[question'[e][q]].from = q
    <3>1. question'[e][q] = question[e][q] /\ question[e][q] # None
      BY <2>1, <2>6
    <3>2. /\ question[e][q] \in Calls
          /\ Undecided(question[e][q], e) /\ call[question[e][q]].from = q
      BY <1>0, <1>a, <3>1 DEF Addressed
    <3>. QED BY <1>u, <2>2, <3>1, <3>2
  <2>. QED BY <2>4, <2>5, <2>6 DEF Addressed
<1>8. ASSUME NEW d \in Devices, NEW p \in Devices, NEW yes \in BOOLEAN, RespondPair(d, p, yes)
      PROVE  Addressed'
  <2>1. PICK c \in Calls : c = question[d][p]
    BY <1>0, <1>8 DEF RespondPair
  <2>2. Undecided(c, d) /\ call[c].from = p
    BY <1>a, <2>1, PairingAssumption DEF Addressed
  <2>3. /\ UNCHANGED <<events, broken>>
        /\ \A e, q \in Devices : question'[e][q] = IF e = d /\ q = p THEN None ELSE question[e][q]
        /\ \A e \in Calls : e # c => call'[e].decision = call[e].decision
    BY <1>0, <1>8, <2>1 DEF RespondPair, server
  <2>4. ASSUME NEW e \in Devices, NEW q \in Devices, question'[e][q] # None
        PROVE  Undecided(question[e][q], e)' /\ call'[question'[e][q]].from = q
    <3>1. /\ question'[e][q] = question[e][q] /\ question[e][q] \in Calls
          /\ Undecided(question[e][q], e) /\ call[question[e][q]].from = q
      BY <1>0, <1>a, <2>3, <2>4 DEF Addressed
    <3>2. question[e][q] # c
      BY <2>2, <2>3, <2>4, <3>1 DEF Undecided
    <3>. QED BY <1>u, <2>3, <3>1, <3>2
  <2>5. ASSUME NEW e \in Devices, NEW i \in 1..Len(events'[e]), NEW x, x = events'[e][i]
        PROVE  EventIsTrue(e, x)'
    <3>1. x \in EventType /\ EventIsTrue(e, x)
      BY <1>0, <1>a, <2>3, <2>5 DEF Addressed
    <3>2. ASSUME x.kind = "request"
          PROVE  /\ call'[x.what].decision = call[x.what].decision
                 /\ \A q \in Devices : question'[e][q] # x.what
      <4>1. /\ x.what \in Calls /\ call[x.what].to = e
            /\ \A q \in Devices : question[e][q] # x.what
        BY <3>1, <3>2 DEF EventType, EventIsTrue, Undecided
      <4>2. x.what # c
        BY <2>1, <2>2, <4>1 DEF Undecided
      <4>. QED BY <2>3, <4>1, <4>2, PairingAssumption
    <3>. QED BY <1>e, <2>3, <3>1, <3>2
  <2>. QED BY <1>a, <2>3, <2>4, <2>5 DEF Addressed
<1>9. ASSUME NEW d \in Devices, NEW p \in Devices, TellUnpaired(d, p) PROVE Addressed'
  <2>1. /\ UNCHANGED <<question, call, broken>> /\ <<d, p>> \in broken
        /\ events' = [events EXCEPT ![p] = Append(events[p], Unpaired(d))]
    BY <1>9 DEF TellUnpaired, asking, history, PairingTypes, Noted, UnderWay
  <2>2. Unpaired(d) \in EventType /\ Unpaired(d).kind = "unpaired" /\ Unpaired(d).what = d
    BY DEF Unpaired, EventType
  <2>3. /\ Len(events'[p]) = Len(events[p]) + 1 /\ Len(events[p]) \in Nat
        /\ \A i \in 1..Len(events[p]) : events'[p][i] = events[p][i]
        /\ events'[p][Len(events[p]) + 1] = Unpaired(d)
        /\ \A e \in Devices : e # p => events'[e] = events[e]
    BY <1>0, <2>1, <2>2, AppendProperties
  <2>4. EventIsTrue(p, Unpaired(d))'
    BY <2>1, <2>2 DEF EventIsTrue
  <2>5. ASSUME NEW e \in Devices, NEW i \in 1..Len(events[e]), NEW x, x = events[e][i]
        PROVE  EventIsTrue(e, x)'
    <3>1. x \in EventType /\ EventIsTrue(e, x)
      BY <1>0, <1>a, <2>5 DEF Addressed
    <3>. QED BY <2>1, <3>1 DEF EventIsTrue, Undecided
  <2>6. ASSUME NEW e \in Devices, NEW i \in 1..Len(events'[e]), NEW x, x = events'[e][i]
        PROVE  EventIsTrue(e, x)'
    <3>1. CASE e # p
      BY <3>1, <2>3, <2>5, <2>6
    <3>2. CASE e = p /\ i \in 1..Len(events[e])
      BY <3>2, <2>3, <2>5, <2>6
    <3>3. CASE e = p /\ i = Len(events[e]) + 1
      BY <3>3, <2>3, <2>4, <2>6
    <3>. QED BY <2>3, <2>6, <3>1, <3>2, <3>3
  <2>7. ASSUME NEW e \in Devices, NEW i \in 1..Len(events'[e]), NEW j \in 1..Len(events'[e]),
               events'[e][i].kind = "request", events'[e][i] = events'[e][j]
        PROVE  i = j
    <3>1. CASE e # p
      BY <1>a, <2>3, <2>7, <3>1 DEF Addressed
    <3>2. CASE e = p
      <4>1. i # Len(events[p]) + 1 /\ j # Len(events[p]) + 1
        BY <2>2, <2>3, <2>7, <3>2
      <4>2. i \in 1..Len(events[p]) /\ j \in 1..Len(events[p])
        BY <2>3, <2>7, <3>2, <4>1
      <4>. QED BY <1>a, <2>3, <2>7, <3>2, <4>2 DEF Addressed
    <3>. QED BY <3>1, <3>2
  <2>8. ASSUME NEW e \in Devices, NEW q \in Devices, question'[e][q] # None
        PROVE  Undecided(question[e][q], e)' /\ call'[question'[e][q]].from = q
    BY <1>a, <2>1, <2>8 DEF Addressed, Undecided
  <2>. QED BY <2>6, <2>7, <2>8 DEF Addressed
<1>10. ASSUME NEW d \in Devices, NEW p \in Devices, NEW yes \in BOOLEAN,
              \/ UnpairDevice(d, p, yes) \/ ConfirmPair(d, p) \/ ConfirmFails(d, p) \/ AddPaired(d, p)
              \/ RejectCode(d, p) \/ RemovePaired(d, p) \/ RemoveRow(d, p) \/ ToolUnpair(d, p)
              \/ ServeUnpair(d, p) \/ LoseUnpair(d, p) \/ DropUnpair(d, p) \/ EndUnpair(d, p)
       PROVE  Addressed'
  <2>1. UNCHANGED <<events, question, call>> /\ broken \subseteq broken'
    <3>1. CASE \/ UnpairDevice(d, p, yes) \/ ConfirmPair(d, p) \/ ConfirmFails(d, p) \/ AddPaired(d, p)
               \/ RejectCode(d, p) \/ RemovePaired(d, p)
      BY <3>1 DEF UnpairDevice, ConfirmPair, ConfirmFails, AddPaired, RejectCode, RemovePaired,
                  Withdrawn, server, asking, history
    <3>2. CASE \/ RemoveRow(d, p) \/ ToolUnpair(d, p) \/ ServeUnpair(d, p) \/ LoseUnpair(d, p)
               \/ DropUnpair(d, p) \/ EndUnpair(d, p)
      BY <3>2 DEF RemoveRow, ToolUnpair, ServeUnpair, LoseUnpair, DropUnpair, EndUnpair, Withdrawn,
                  server, asking, history
    <3>. QED BY <1>10, <3>1, <3>2
  <2>. QED BY <1>k, <2>1, AddressedStays
<1>. QED
  BY <1>1, <1>2, <1>3, <1>4, <1>5, <1>6, <1>7, <1>8, <1>9, <1>10
  DEF PairingNext, CallStep, WithdrawStep

------------------------------------------------------------------------------

\* A pairing is begun by nobody.
LEMMA InitOK == PairingInit => PairingTypes
<1> SUFFICES ASSUME PairingInit PROVE PairingTypes
  OBVIOUS
<1> USE PairingAssumption DEF PairingInit
<1>1. RestOK
  BY EmptySeq DEF RestOK, BookOK, PairedOK, AskOK, EventsOK, NoticeOK, HistoryOK, BoundsOK, NoticeType,
      NoNotice
<1>2. /\ call \in [Calls -> CallType] /\ Sent
      /\ \A c \in Calls : call[c].reply # "yes"
  BY DEF CallType, Answers, NoCall, Sent
<1>3. Addressed /\ Noted
  BY DEF Addressed, Noted, UnderWay, NoNotice
<1>. QED
  BY <1>1, <1>2, <1>3 DEF PairingTypes, PairingTypeOK, RestOK, BookOK, PairedOK, AskOK, EventsOK,
      EventType, NoticeOK, NoticeType, HistoryOK, BoundsOK, CallType

\* Every step keeps the typed state.
LEMMA StepOK == PairingTypes /\ [PairingNext]_pairingVars => PairingTypes'
BY PairingTypeStep, AddressedStep, NotedStep DEF PairingTypes

LEMMA AlwaysTyped == PairingSpec => []PairingTypes
<1>. QED BY InitOK, StepOK, PTL DEF PairingSpec

\* The type invariant: whatever requests, refusals, withdrawals and restarts there are,
\* the tables keep their types, and a request is answered yes only if its user said so.
THEOREM PairingTypeCorrect == PairingSpec => []PairingTypeOK
<1>1. PairingTypes => PairingTypeOK
  BY DEF PairingTypes
<1>. QED BY <1>1, AlwaysTyped, PTL

------------------------------------------------------------------------------
(* The slot.                                                               *)

SlotHasOwner ==
    \A d \in Devices : /\ slot[d] <=> \E c \in Calls : IsAsking(c, d)
                       /\ \A c, e \in Calls : IsAsking(c, d) /\ IsAsking(e, d) => c = e

LEMMA SlotStays ==
    ASSUME SlotHasOwner, slot' = slot,
           \A c \in Calls, d \in Devices : IsAsking(c, d)' <=> IsAsking(c, d)
    PROVE  SlotHasOwner'
BY DEF SlotHasOwner

LEMMA SlotStep ==
    ASSUME PairingTypes, SlotHasOwner, [PairingNext]_pairingVars
    PROVE  SlotHasOwner'
<1>0. call \in [Calls -> CallType] /\ slot \in [Devices -> BOOLEAN]
  BY DEF PairingTypes, PairingTypeOK, CallType
<1>1. CASE UNCHANGED <<call, slot>>
  BY <1>1, SlotStays DEF IsAsking
<1>2. ASSUME NEW c \in Calls, NEW d \in Devices, NEW p \in Devices, NEW tool \in BOOLEAN,
             PairStart(c, d, p, tool)
      PROVE  SlotHasOwner'
  <2>1. /\ slot' = slot /\ \A e \in Calls : e # c => call'[e] = call[e]
        /\ call[c].handler = "idle" /\ call'[c].handler = "coming"
    BY <1>0, <1>2 DEF PairStart, NoCall, server
  <2>. QED BY <2>1, SlotStays DEF IsAsking
<1>3. ASSUME NEW c \in Calls, ServePair(c) PROVE SlotHasOwner'
  <2>0. PICK d \in Devices : d = call[c].to
    BY <1>3 DEF ServePair, PairingTypes, Sent
  <2>1. /\ slot' = [slot EXCEPT ![d] = TRUE] /\ ~slot[d]
        /\ \A e \in Calls : e # c => call'[e] = call[e]
    BY <1>0, <1>3, <2>0 DEF ServePair, SlotIsFree
  <2>2. call[c].handler = "coming" /\ call'[c].handler = "entered" /\ call'[c].to = d
    BY <1>0, <1>3, <2>0 DEF ServePair, CallType
  <2>3. \A e \in Calls, x \in Devices : IsAsking(e, x)' <=> IsAsking(e, x) \/ (e = c /\ x = d)
    BY <2>1, <2>2 DEF IsAsking
  <2>4. \A e \in Calls : ~IsAsking(e, d)
    BY <2>1 DEF SlotHasOwner
  <2>. QED BY <1>0, <2>1, <2>3, <2>4 DEF SlotHasOwner
<1>4. ASSUME NEW c \in Calls,
             \/ RefuseBusy(c) \/ TellRequest(c) \/ GiveUpPair(c) \/ HearReply(c)
             \/ ToolConfirm(c) \/ ToolReject(c)
      PROVE  SlotHasOwner'
  <2>1. slot' = slot /\ \A e \in Calls : e # c => call'[e] = call[e]
    BY <1>0, <1>4 DEF RefuseBusy, TellRequest, GiveUpPair, HearReply, ToolConfirm, ToolReject, server
  <2>2. /\ call'[c].to = call[c].to
        /\ \/ call'[c].handler = call[c].handler
           \/ call[c].handler = "coming" /\ call'[c].handler = "over"
           \/ call[c].handler = "entered" /\ call'[c].handler = "asking"
    <3>1. CASE RefuseBusy(c)
      BY <1>0, <3>1 DEF RefuseBusy, CallType
    <3>2. CASE TellRequest(c)
      BY <1>0, <3>2 DEF TellRequest, CallType
    <3>3. CASE GiveUpPair(c) \/ HearReply(c) \/ ToolConfirm(c) \/ ToolReject(c)
      BY <1>0, <3>3 DEF GiveUpPair, HearReply, ToolConfirm, ToolReject, CallType
    <3>. QED BY <1>4, <3>1, <3>2, <3>3
  <2>. QED BY <2>1, <2>2, SlotStays DEF IsAsking
<1>5. ASSUME NEW c \in Calls, FinishPair(c) \/ TimeOutPair(c) \/ DropPair(c)
      PROVE  SlotHasOwner'
  <2>0. PICK d \in Devices : d = call[c].to
    BY <1>5 DEF FinishPair, TimeOutPair, DropPair, PairingTypes, Sent
  <2>1. /\ \A e \in Calls : e # c => call'[e] = call[e]
        /\ slot' = IF call[c].handler \in {"entered", "asking"} THEN [slot EXCEPT ![d] = FALSE] ELSE slot
    BY <1>0, <1>5, <2>0 DEF FinishPair, TimeOutPair, DropPair, Freed
  <2>2. call'[c].handler = "over"
    <3>1. CASE FinishPair(c)
      BY <1>0, <3>1 DEF FinishPair, CallType
    <3>2. CASE TimeOutPair(c) \/ DropPair(c)
      BY <1>0, <3>2 DEF TimeOutPair, DropPair, CallType
    <3>. QED BY <1>5, <3>1, <3>2
  <2>3. \A e \in Calls, x \in Devices : IsAsking(e, x)' <=> IsAsking(e, x) /\ e # c
    BY <2>1, <2>2 DEF IsAsking
  <2>4. CASE IsAsking(c, d)
    <3>1. \A e \in Calls : ~IsAsking(e, d)'
      BY <2>3, <2>4 DEF SlotHasOwner
    <3>2. \A e \in Calls, x \in Devices : x # d => (IsAsking(e, x)' <=> IsAsking(e, x))
      BY <2>0, <2>3 DEF IsAsking
    <3>3. slot' = [slot EXCEPT ![d] = FALSE]
      BY <2>1, <2>4 DEF IsAsking
    <3>. QED BY <1>0, <3>1, <3>2, <3>3 DEF SlotHasOwner
  <2>5. CASE ~IsAsking(c, d)
    BY <2>0, <2>1, <2>3, <2>5, SlotStays DEF IsAsking
  <2>. QED BY <2>4, <2>5
<1>6. ASSUME NEW d \in Devices, HearRequest(d) PROVE SlotHasOwner'
  <2>1. slot' = slot
    BY <1>6 DEF HearRequest
  <2>2. PICK older : call' = call \/ call' = [call EXCEPT ![older].decision = "no"]
    BY <1>6 DEF HearRequest
  <2>3. \A e \in Calls : call'[e].to = call[e].to /\ call'[e].handler = call[e].handler
    BY <1>0, <2>2 DEF CallType
  <2>. QED BY <2>1, <2>3, SlotStays DEF IsAsking
<1>7. ASSUME NEW d \in Devices, NEW p \in Devices, NEW yes \in BOOLEAN, RespondPair(d, p, yes)
      PROVE  SlotHasOwner'
  <2>1. slot' = slot
    BY <1>7 DEF RespondPair, server
  <2>2. PICK c : call' = [call EXCEPT ![c].decision = IF yes THEN "yes" ELSE "no"]
    BY <1>7 DEF RespondPair
  <2>3. \A e \in Calls : call'[e].to = call[e].to /\ call'[e].handler = call[e].handler
    BY <1>0, <2>2 DEF CallType
  <2>4. \A e \in Calls, x \in Devices : IsAsking(e, x)' <=> IsAsking(e, x)
    BY <2>3 DEF IsAsking
  <2>. QED BY <2>1, <2>4, SlotStays
<1>8. ASSUME NEW d \in Devices, Restart(d) PROVE SlotHasOwner'
  <2>1. slot' = [slot EXCEPT ![d] = FALSE]
    BY <1>8 DEF Restart
  <2>2. ASSUME NEW e \in Calls
        PROVE  /\ call'[e].to = call[e].to
               /\ call'[e].handler = IF call[e].to = d THEN "over" ELSE call[e].handler
    <3>1. call[e] \in CallType
      BY <1>0
    <3>. QED BY <1>8, <3>1 DEF Restart, CallType
  <2>3. \A e \in Calls, x \in Devices : IsAsking(e, x)' <=> IsAsking(e, x) /\ x # d
    BY <2>2 DEF IsAsking
  <2>. QED BY <1>0, <2>1, <2>3 DEF SlotHasOwner
<1>9. ASSUME NEW d \in Devices, NEW p \in Devices, NEW yes \in BOOLEAN,
             \/ UnpairDevice(d, p, yes) \/ ConfirmPair(d, p) \/ ConfirmFails(d, p) \/ AddPaired(d, p)
             \/ RejectCode(d, p) \/ HearUnpaired(d) \/ WithdrawStep(d, p)
      PROVE  SlotHasOwner'
  <2>1. UNCHANGED <<call, slot>>
    <3>1. CASE \/ UnpairDevice(d, p, yes) \/ ConfirmPair(d, p) \/ ConfirmFails(d, p) \/ AddPaired(d, p)
               \/ RejectCode(d, p) \/ HearUnpaired(d)
      BY <3>1 DEF UnpairDevice, ConfirmPair, ConfirmFails, AddPaired, RejectCode, HearUnpaired, server
    <3>2. CASE WithdrawStep(d, p)
      BY <3>2 DEF WithdrawStep, RemovePaired, RemoveRow, ToolUnpair, ServeUnpair, TellUnpaired,
                  LoseUnpair, DropUnpair, EndUnpair, server
    <3>. QED BY <1>9, <3>1, <3>2
  <2>. QED BY <1>1, <2>1
<1>10. CASE UNCHANGED pairingVars
  BY <1>1, <1>10 DEF pairingVars, server
<1>. QED
  BY <1>2, <1>3, <1>4, <1>5, <1>6, <1>7, <1>8, <1>9, <1>10 DEF PairingNext, CallStep

\* One handler at a time waits for the user, and the slot is freed however it ends; a
\* question is about a request the device at hand sent.
THEOREM SlotHeld == PairingSpec => []SlotIsHeld
<1>1. PairingInit => SlotHasOwner
  <2> SUFFICES ASSUME PairingInit PROVE SlotHasOwner
    OBVIOUS
  <2>1. \A d \in Devices : slot[d] = FALSE /\ \A c \in Calls : ~IsAsking(c, d)
    BY DEF PairingInit, IsAsking, NoCall
  <2>. QED BY <2>1 DEF SlotHasOwner
<1>2. PairingTypes /\ SlotHasOwner /\ [PairingNext]_pairingVars => SlotHasOwner'
  BY SlotStep
<1>3. PairingTypes /\ SlotHasOwner => SlotIsHeld
  <2> SUFFICES ASSUME PairingTypes, SlotHasOwner PROVE SlotIsHeld
    OBVIOUS
  <2>1. \A d, p \in Devices : question[d][p] # None =>
            call[question[d][p]].to = d /\ call[question[d][p]].from = p
    BY DEF PairingTypes, Addressed, Undecided
  <2>. QED BY <2>1, Zenon DEF SlotIsHeld, SlotHasOwner
<1>. QED BY <1>1, <1>2, <1>3, AlwaysTyped, PTL DEF PairingSpec

------------------------------------------------------------------------------
(* Trust.                                                                  *)

\* A request is decided yes by its user's answer, and answered yes by its handler.
LEMMA YesComesFrom ==
    ASSUME PairingTypes, [PairingNext]_pairingVars, NEW e \in Calls
    PROVE  /\ call'[e].decision = "yes" =>
                 \/ call[e].decision = "yes"
                 \/ \E d, p \in Devices : RespondPair(d, p, TRUE) /\ question[d][p] = e
           /\ call'[e].reply = "yes" =>
                 call[e].reply = "yes" \/ (FinishPair(e) /\ call[e].decision = "yes")
<1>0. /\ call \in [Calls -> CallType] /\ call[e] \in CallType
      /\ call[e].reply = "yes" => call[e].decision = "yes"
  BY DEF PairingTypes, PairingTypeOK, CallType
<1> DEFINE Claim == /\ call'[e].decision = "yes" =>
                          \/ call[e].decision = "yes"
                          \/ \E d, p \in Devices : RespondPair(d, p, TRUE) /\ question[d][p] = e
                    /\ call'[e].reply = "yes" =>
                          call[e].reply = "yes" \/ (FinishPair(e) /\ call[e].decision = "yes")
<1>1. CASE call'[e] = call[e]
  BY <1>1
<1>2. ASSUME NEW c \in Calls, NEW d \in Devices, NEW p \in Devices, NEW tool \in BOOLEAN,
             PairStart(c, d, p, tool)
      PROVE  Claim
  <2>1. call' = [call EXCEPT ![c] = [NoCall EXCEPT !.from = d, !.to = p, !.tool = tool,
                                                   !.client = "waiting", !.handler = "coming"]]
    BY <1>2 DEF PairStart
  <2>2. CASE c = e
    <3>1. call'[e].decision = "none" /\ call'[e].reply = "none"
      BY <1>0, <2>1, <2>2 DEF NoCall
    <3>. QED BY <3>1
  <2>3. CASE c # e
    BY <1>0, <1>1, <2>1, <2>3
  <2>. QED BY <2>2, <2>3
<1>3. ASSUME NEW c \in Calls, CallStep(c) PROVE Claim
  <2>1. CASE c # e
    <3>1. call'[e] = call[e]
      BY <1>0, <1>3, <2>1 DEF CallStep, ServePair, RefuseBusy, TellRequest, FinishPair, TimeOutPair,
                              GiveUpPair, DropPair, HearReply, ToolConfirm, ToolReject
    <3>. QED BY <1>1, <3>1
  <2>2. CASE c = e
    <3>1. CASE FinishPair(e)
      <4>1. /\ call'[e].decision = call[e].decision
            /\ call'[e].reply = IF call[e].decision = "yes" THEN "yes" ELSE "no"
        BY <1>0, <3>1 DEF FinishPair, Trusts, CallType
      <4>. QED BY <3>1, <4>1
    <3>2. CASE RefuseBusy(e) \/ TimeOutPair(e)
      <4>1. call'[e].decision = call[e].decision /\ call'[e].reply = "no"
        BY <1>0, <3>2 DEF RefuseBusy, TimeOutPair, CallType
      <4>. QED BY <4>1
    <3>3. CASE \/ ServePair(e) \/ TellRequest(e) \/ GiveUpPair(e) \/ DropPair(e) \/ HearReply(e)
               \/ ToolConfirm(e) \/ ToolReject(e)
      <4>1. \/ call'[e] = [call[e] EXCEPT !.client = "over"] \/ call'[e] = [call[e] EXCEPT !.handler = "over"]
            \/ call'[e] = [call[e] EXCEPT !.handler = "entered"]
            \/ call'[e] = [call[e] EXCEPT !.handler = "asking"]
        BY <1>0, <3>3 DEF ServePair, TellRequest, GiveUpPair, DropPair, HearReply, ToolConfirm, ToolReject
      <4>2. call'[e].decision = call[e].decision /\ call'[e].reply = call[e].reply
        BY <1>0, <4>1 DEF CallType
      <4>. QED BY <4>2
    <3>. QED BY <1>3, <2>2, <3>1, <3>2, <3>3 DEF CallStep
  <2>. QED BY <2>1, <2>2
<1>4. ASSUME NEW d \in Devices, HearRequest(d) PROVE Claim
  <2>1. PICK older : call' = call \/ call' = [call EXCEPT ![older].decision = "no"]
    BY <1>4 DEF HearRequest
  <2>2. call'[e] = call[e] \/ (call'[e].decision = "no" /\ call'[e].reply = call[e].reply)
    BY <1>0, <2>1 DEF CallType
  <2>. QED BY <1>1, <2>2
<1>5. ASSUME NEW d \in Devices, NEW p \in Devices, NEW yes \in BOOLEAN, RespondPair(d, p, yes)
      PROVE  Claim
  <2>1. PICK c : c = question[d][p]
    OBVIOUS
  <2>2. PICK a : a = IF yes THEN "yes" ELSE "no"
    OBVIOUS
  <2>3. call' = [call EXCEPT ![c].decision = a]
    BY <1>5, <2>1, <2>2 DEF RespondPair
  <2>4. CASE c # e
    BY <1>0, <1>1, <2>3, <2>4
  <2>5. CASE c = e
    <3>1. call'[e].reply = call[e].reply /\ call'[e].decision = a
      BY <1>0, <2>3, <2>5 DEF CallType
    <3>2. a = "yes" => yes = TRUE
      BY <2>2
    <3>. QED BY <1>5, <2>1, <2>5, <3>1, <3>2
  <2>. QED BY <2>4, <2>5
<1>6. ASSUME NEW d \in Devices, Restart(d) PROVE Claim
  <2>1. call'[e].decision = call[e].decision /\ call'[e].reply = call[e].reply
    BY <1>0, <1>6 DEF Restart, CallType
  <2>. QED BY <2>1
<1>7. ASSUME NEW d \in Devices, NEW p \in Devices, WithdrawStep(d, p) PROVE Claim
  <2>1. call' = call
    BY <1>7 DEF WithdrawStep, RemovePaired, RemoveRow, ToolUnpair, ServeUnpair, TellUnpaired, LoseUnpair,
                DropUnpair, EndUnpair
  <2>. QED BY <1>1, <2>1
<1>8. ASSUME NEW d \in Devices, NEW p \in Devices,
             \/ ConfirmPair(d, p) \/ ConfirmFails(d, p) \/ AddPaired(d, p) \/ RejectCode(d, p)
             \/ HearUnpaired(d) \/ \E yes \in BOOLEAN : UnpairDevice(d, p, yes)
      PROVE  Claim
  <2>1. call' = call
    BY <1>8 DEF ConfirmPair, ConfirmFails, AddPaired, RejectCode, HearUnpaired, UnpairDevice
  <2>. QED BY <1>1, <2>1
<1>9. CASE UNCHANGED pairingVars
  BY <1>1, <1>9 DEF pairingVars
<1>10. PairingNext => Claim
  <2> HIDE DEF Claim
  <2>. QED BY <1>2, <1>3, <1>4, <1>5, <1>6, <1>7, <1>8 DEF PairingNext
<1>. QED BY <1>9, <1>10

\* A request that is decided was sent.
LEMMA YesWasSent ==
    ASSUME PairingTypes, NEW c \in Calls, call[c].decision = "yes"
    PROVE  call[c].from \in Devices /\ call[c].to \in Devices /\ call[c].handler \in {"asking", "over"}
<1>1. call[c].handler \in {"idle", "coming", "entered", "asking", "over"}
  BY DEF PairingTypes, PairingTypeOK
<1>. QED BY <1>1 DEF PairingTypes, Sent

\* Who writes the history of agreements and withdrawals, and who shows a code.
LEMMA WhoAgrees ==
    ASSUME [PairingNext]_pairingVars
    PROVE  /\ broken \subseteq broken' /\ unsaved \subseteq unsaved'
           /\ \/ agreed' = agreed
              \/ \E d, p \in Devices : RespondPair(d, p, TRUE) \/ ConfirmPair(d, p)
              \/ \E c \in Calls : ToolConfirm(c)
           /\ \/ UNCHANGED <<confirmed, confirm, joining>>
              \/ \E c \in Calls : ToolConfirm(c) \/ HearReply(c)
              \/ \E d, p \in Devices : \/ ConfirmPair(d, p) \/ ConfirmFails(d, p) \/ AddPaired(d, p)
                                       \/ RejectCode(d, p)
              \/ \E d \in Devices : Restart(d)
<1> DEFINE Claim == /\ broken \subseteq broken' /\ unsaved \subseteq unsaved'
                    /\ \/ agreed' = agreed
                       \/ \E d, p \in Devices : RespondPair(d, p, TRUE) \/ ConfirmPair(d, p)
                       \/ \E c \in Calls : ToolConfirm(c)
                    /\ \/ UNCHANGED <<confirmed, confirm, joining>>
                       \/ \E c \in Calls : ToolConfirm(c) \/ HearReply(c)
                       \/ \E d, p \in Devices : \/ ConfirmPair(d, p) \/ ConfirmFails(d, p)
                                                \/ AddPaired(d, p) \/ RejectCode(d, p)
                       \/ \E d \in Devices : Restart(d)
<1>1. CASE UNCHANGED pairingVars
  BY <1>1 DEF pairingVars, asking, history
<1>2. ASSUME NEW c \in Calls,
             \/ ServePair(c) \/ RefuseBusy(c) \/ TellRequest(c) \/ FinishPair(c) \/ TimeOutPair(c)
             \/ GiveUpPair(c) \/ DropPair(c) \/ ToolReject(c)
             \/ \E d, p \in Devices, tool \in BOOLEAN : PairStart(c, d, p, tool)
      PROVE  Claim
  BY <1>2 DEF PairStart, ServePair, RefuseBusy, TellRequest, FinishPair, TimeOutPair, GiveUpPair,
              DropPair, ToolReject, Withdrawn, asking, history
<1>3. ASSUME NEW c \in Calls, ToolConfirm(c) \/ HearReply(c)
      PROVE  broken \subseteq broken' /\ unsaved \subseteq unsaved' /\ (agreed' = agreed \/ ToolConfirm(c))
  BY <1>3 DEF ToolConfirm, HearReply, history
<1>4. ASSUME NEW d \in Devices, HearRequest(d) \/ HearUnpaired(d)
      PROVE  Claim
  BY <1>4 DEF HearRequest, HearUnpaired, asking, history
<1>5. ASSUME NEW d \in Devices, Restart(d)
      PROVE  broken \subseteq broken' /\ unsaved \subseteq unsaved' /\ agreed' = agreed
  BY <1>5 DEF Restart
<1>6. ASSUME NEW d \in Devices, NEW p \in Devices, NEW yes \in BOOLEAN, RespondPair(d, p, yes)
      PROVE  /\ broken \subseteq broken' /\ unsaved \subseteq unsaved'
             /\ UNCHANGED <<confirmed, confirm, joining>>
             /\ agreed' = agreed \/ (yes = TRUE /\ RespondPair(d, p, TRUE))
  <2>1. broken \subseteq broken' /\ unsaved \subseteq unsaved' /\ UNCHANGED <<confirmed, confirm, joining>>
    BY <1>6 DEF RespondPair
  <2>2. yes = FALSE => agreed' = agreed
    BY <1>6 DEF RespondPair
  <2>. QED BY <1>6, <2>1, <2>2
<1>7. ASSUME NEW d \in Devices, NEW p \in Devices, NEW yes \in BOOLEAN, UnpairDevice(d, p, yes)
      PROVE  Claim
  BY <1>7 DEF UnpairDevice, Withdrawn, asking
<1>8. ASSUME NEW d \in Devices, NEW p \in Devices,
             \/ ConfirmPair(d, p) \/ ConfirmFails(d, p) \/ AddPaired(d, p) \/ RejectCode(d, p)
      PROVE  /\ broken \subseteq broken' /\ unsaved \subseteq unsaved'
             /\ agreed' = agreed \/ ConfirmPair(d, p)
  BY <1>8 DEF ConfirmPair, ConfirmFails, AddPaired, RejectCode, Withdrawn
<1>9. ASSUME NEW d \in Devices, NEW p \in Devices, WithdrawStep(d, p)
      PROVE  Claim
  BY <1>9 DEF WithdrawStep, RemovePaired, RemoveRow, ToolUnpair, ServeUnpair, TellUnpaired, LoseUnpair,
              DropUnpair, EndUnpair, Withdrawn, asking, history
<1>. QED
  BY <1>1, <1>2, <1>3, <1>4, <1>5, <1>6, <1>7, <1>8, <1>9 DEF PairingNext, CallStep

\* The user of the device that a request was decided yes on said so.
YesIsGiven == \A c \in Calls : call[c].decision = "yes" => call[c].from \in agreed[call[c].to]

LEMMA AgreedGrows ==
    ASSUME PairingTypes, [PairingNext]_pairingVars, NEW d \in Devices
    PROVE  agreed[d] \subseteq agreed'[d]
<1>0. agreed \in [Devices -> SUBSET Devices]
  BY TypesSplit DEF RestOK, HistoryOK
<1>1. ASSUME NEW e, NEW p, agreed' = [agreed EXCEPT ![e] = @ \cup {p}]
      PROVE  agreed[d] \subseteq agreed'[d]
  BY <1>0, <1>1
<1>2. ASSUME NEW e \in Devices, NEW p \in Devices, RespondPair(e, p, TRUE) \/ ConfirmPair(e, p)
      PROVE  agreed[d] \subseteq agreed'[d]
  BY <1>1, <1>2 DEF RespondPair, ConfirmPair
<1>3. ASSUME NEW c \in Calls, ToolConfirm(c) PROVE agreed[d] \subseteq agreed'[d]
  BY <1>1, <1>3 DEF ToolConfirm
<1>. QED
  BY <1>2, <1>3, WhoAgrees

\* Who is recorded after a step was recorded before, or the step is the one that records
\* it; likewise for the list of the server, and between the two.
LEMMA WhoIsRecorded ==
    ASSUME PairingTypes, [PairingNext]_pairingVars, NEW d \in Devices, NEW p \in Devices, p \in book'[d]
    PROVE  p \in book[d] \/ p \in agreed'[d]
<1>0. BookOK /\ HistoryOK
  BY TypesSplit DEF RestOK
<1>1. CASE book' = book
  BY <1>1
<1>2. ASSUME NEW e, NEW q, book' = [book EXCEPT ![e] = @ \ {q}]
      PROVE  p \in book[d]
  BY <1>0, <1>2 DEF BookOK
<1>3. ASSUME NEW e, NEW q, book' = [book EXCEPT ![e] = @ \cup {q}],
             agreed' = [agreed EXCEPT ![e] = @ \cup {q}]
      PROVE  p \in book[d] \/ p \in agreed'[d]
  BY <1>0, <1>3 DEF BookOK, HistoryOK
<1>4. ASSUME NEW e \in Devices, NEW q \in Devices, NEW yes \in BOOLEAN, RespondPair(e, q, yes)
      PROVE  p \in book[d] \/ p \in agreed'[d]
  <2>1. \/ book' = book
        \/ book' = [book EXCEPT ![e] = @ \cup {q}] /\ agreed' = [agreed EXCEPT ![e] = @ \cup {q}]
    BY <1>4 DEF RespondPair, Recorded
  <2>. QED BY <1>1, <1>3, <2>1
<1>5. ASSUME NEW e \in Devices, NEW q \in Devices, ConfirmPair(e, q)
      PROVE  p \in book[d] \/ p \in agreed'[d]
  BY <1>3, <1>5 DEF ConfirmPair
<1>6. ASSUME NEW c \in Calls, ToolConfirm(c) PROVE p \in book[d] \/ p \in agreed'[d]
  BY <1>3, <1>6 DEF ToolConfirm
<1>7. ASSUME NEW e \in Devices, HearUnpaired(e) PROVE p \in book[d]
  <2>1. book' = book \/ book' = [book EXCEPT ![e] = @ \ {Head(events[e]).what}]
    BY <1>7 DEF HearUnpaired, Unrecorded
  <2>. QED BY <1>1, <1>2, <2>1
<1>8. ASSUME NEW e \in Devices, NEW q \in Devices,
             \/ RemoveRow(e, q) \/ ToolUnpair(e, q) \/ EndUnpair(e, q)
             \/ \E forget \in BOOLEAN : UnpairDevice(e, q, forget)
      PROVE  p \in book[d]
  <2>1. book' = book \/ book' = [book EXCEPT ![e] = @ \ {q}]
    BY <1>8 DEF RemoveRow, ToolUnpair, EndUnpair, UnpairDevice, Unrecorded
  <2>. QED BY <1>1, <1>2, <2>1
<1>9. ASSUME NEW c \in Calls,
             \/ ServePair(c) \/ RefuseBusy(c) \/ TellRequest(c) \/ FinishPair(c) \/ TimeOutPair(c)
             \/ GiveUpPair(c) \/ DropPair(c) \/ HearReply(c) \/ ToolReject(c)
             \/ \E e, q \in Devices, tool \in BOOLEAN : PairStart(c, e, q, tool)
      PROVE  book' = book
  BY <1>9 DEF PairStart, ServePair, RefuseBusy, TellRequest, FinishPair, TimeOutPair, GiveUpPair,
              DropPair, HearReply, ToolReject
<1>10. ASSUME NEW e \in Devices, NEW q \in Devices,
              \/ HearRequest(e) \/ Restart(e) \/ ConfirmFails(e, q) \/ AddPaired(e, q) \/ RejectCode(e, q)
              \/ RemovePaired(e, q) \/ ServeUnpair(e, q) \/ TellUnpaired(e, q) \/ LoseUnpair(e, q)
              \/ DropUnpair(e, q)
       PROVE  book' = book
  BY <1>10 DEF HearRequest, Restart, ConfirmFails, AddPaired, RejectCode, RemovePaired, ServeUnpair,
               TellUnpaired, LoseUnpair, DropUnpair
<1>11. CASE UNCHANGED pairingVars
  BY <1>1, <1>11 DEF pairingVars
<1>. QED
  BY <1>1, <1>4, <1>5, <1>6, <1>7, <1>8, <1>9, <1>10, <1>11 DEF PairingNext, CallStep, WithdrawStep

LEMMA WhoIsTrusted ==
    ASSUME PairingTypes, [PairingNext]_pairingVars, NEW d \in Devices, NEW p \in Devices, p \in paired'[d]
    PROVE  \/ p \in paired[d] \/ p \in joining[d] \/ p \in book[d]
           \/ \E c \in Calls : /\ FinishPair(c) /\ call[c].decision = "yes"
                               /\ call[c].from = p /\ call[c].to = d
<1> DEFINE Claim == \/ p \in paired[d] \/ p \in joining[d] \/ p \in book[d]
                    \/ \E c \in Calls : /\ FinishPair(c) /\ call[c].decision = "yes"
                                        /\ call[c].from = p /\ call[c].to = d
<1>0. PairedOK /\ joining \in [Devices -> SUBSET Devices]
  BY TypesSplit DEF RestOK, AskOK
<1>1. CASE paired' = paired
  BY <1>1
<1>2. ASSUME NEW c \in Calls, FinishPair(c) PROVE Claim
  <2>1. /\ call[c].from \in Devices /\ call[c].to \in Devices
        /\ paired' = IF call[c].decision = "yes"
                     THEN [paired EXCEPT ![call[c].to] = @ \cup {call[c].from}] ELSE paired
    BY <1>2 DEF FinishPair, Trusts, PairingTypes, Sent
  <2>. QED BY <1>0, <1>2, <2>1 DEF PairedOK
<1>3. ASSUME NEW e \in Devices, NEW q \in Devices, AddPaired(e, q) PROVE Claim
  BY <1>0, <1>3 DEF AddPaired, PairedOK
<1>4. ASSUME NEW e \in Devices, NEW q \in Devices, RemovePaired(e, q) \/ ServeUnpair(e, q)
      PROVE  Claim
  BY <1>0, <1>4 DEF RemovePaired, ServeUnpair, Distrusted, PairedOK
<1>5. ASSUME NEW e \in Devices, Restart(e) PROVE Claim
  BY <1>0, <1>5 DEF Restart, PairedOK
<1>6. ASSUME NEW c \in Calls,
             \/ ServePair(c) \/ RefuseBusy(c) \/ TellRequest(c) \/ TimeOutPair(c) \/ GiveUpPair(c)
             \/ DropPair(c) \/ HearReply(c) \/ ToolConfirm(c) \/ ToolReject(c)
             \/ \E e, q \in Devices, tool \in BOOLEAN : PairStart(c, e, q, tool)
      PROVE  paired' = paired
  BY <1>6 DEF PairStart, ServePair, RefuseBusy, TellRequest, TimeOutPair, GiveUpPair, DropPair,
              HearReply, ToolConfirm, ToolReject, server
<1>7. ASSUME NEW e \in Devices, NEW q \in Devices, NEW yes \in BOOLEAN,
             \/ HearRequest(e) \/ HearUnpaired(e) \/ RespondPair(e, q, yes) \/ UnpairDevice(e, q, yes)
             \/ ConfirmPair(e, q) \/ ConfirmFails(e, q) \/ RejectCode(e, q)
      PROVE  paired' = paired
  BY <1>7 DEF HearRequest, HearUnpaired, RespondPair, UnpairDevice, ConfirmPair, ConfirmFails,
              RejectCode, server
<1>8. ASSUME NEW e \in Devices, NEW q \in Devices,
             \/ RemoveRow(e, q) \/ ToolUnpair(e, q) \/ TellUnpaired(e, q) \/ LoseUnpair(e, q)
             \/ DropUnpair(e, q) \/ EndUnpair(e, q)
      PROVE  paired' = paired
  BY <1>8 DEF RemoveRow, ToolUnpair, TellUnpaired, LoseUnpair, DropUnpair, EndUnpair, server
<1>9. CASE UNCHANGED pairingVars
  BY <1>1, <1>9 DEF pairingVars, server
<1>10. PairingNext => Claim
  <2>1. paired' = paired => Claim
    BY <1>1
  <2> HIDE DEF Claim
  <2>. QED BY <2>1, <1>2, <1>3, <1>4, <1>5, <1>6, <1>7, <1>8 DEF PairingNext, CallStep, WithdrawStep
<1>. QED BY <1>9, <1>10

LEMMA WhoIsJoining ==
    ASSUME PairingTypes, [PairingNext]_pairingVars, NEW d \in Devices, NEW p \in Devices, p \in joining'[d]
    PROVE  p \in joining[d] \/ (ConfirmPair(d, p) /\ p \in agreed'[d] /\ p \in confirm[d])
<1> DEFINE Claim == p \in joining[d] \/ (ConfirmPair(d, p) /\ p \in agreed'[d] /\ p \in confirm[d])
<1>0. HistoryOK /\ joining \in [Devices -> SUBSET Devices]
  BY TypesSplit DEF RestOK, AskOK
<1>1. CASE joining' = joining
  BY <1>1
<1>2. ASSUME NEW e \in Devices, NEW q \in Devices, ConfirmPair(e, q) PROVE Claim
  <2>1. CASE e = d /\ q = p
    <3>1. p \in agreed'[d] /\ p \in confirm[d]
      BY <1>0, <1>2, <2>1 DEF ConfirmPair, HistoryOK
    <3>. QED BY <1>2, <2>1, <3>1
  <2>2. CASE ~(e = d /\ q = p)
    BY <1>0, <1>2, <2>2 DEF ConfirmPair
  <2>. QED BY <2>1, <2>2
<1>3. ASSUME NEW e \in Devices, NEW q \in Devices, AddPaired(e, q) PROVE Claim
  BY <1>0, <1>3 DEF AddPaired
<1>4. ASSUME NEW e \in Devices, Restart(e) PROVE Claim
  BY <1>0, <1>4 DEF Restart
<1>5. ASSUME NEW c \in Calls, HearReply(c) \/ ToolConfirm(c) PROVE joining' = joining
  BY <1>5 DEF HearReply, ToolConfirm, asking
<1>6. ASSUME NEW e \in Devices, NEW q \in Devices, ConfirmFails(e, q) \/ RejectCode(e, q)
      PROVE  joining' = joining
  BY <1>6 DEF ConfirmFails, RejectCode
<1>. HIDE DEF Claim
<1>7. Claim
  <2>1. joining' = joining => Claim
    BY <1>1 DEF Claim
  <2>. QED BY <2>1, <1>2, <1>3, <1>4, <1>5, <1>6, WhoAgrees
<1>. QED BY <1>7 DEF Claim

\* So is a peer whose confirmation is between its two writes.
Given == /\ YesIsGiven /\ TrustIsGiven
         /\ \A d, p \in Devices : p \in joining[d] => p \in agreed[d]

LEMMA GivenStep ==
    ASSUME PairingTypes, Given, [PairingNext]_pairingVars
    PROVE  Given'
<1>0. HistoryOK
  BY TypesSplit DEF RestOK
<1>k. Kept
  BY CallStepOK DEF CallsOK
<1>1. ASSUME NEW c \in Calls, call'[c].decision = "yes"
      PROVE  call'[c].from \in agreed'[call'[c].to]
  <2>1. CASE call[c].decision = "yes"
    <3>1. call'[c].from = call[c].from /\ call'[c].to = call[c].to /\ call[c].to \in Devices
      BY <1>k, <2>1, YesWasSent DEF Kept
    <3>. QED BY <2>1, <3>1, AgreedGrows DEF Given, YesIsGiven
  <2>2. ASSUME NEW d \in Devices, NEW p \in Devices, RespondPair(d, p, TRUE), question[d][p] = c
        PROVE  call'[c].from \in agreed'[call'[c].to]
    <3>1. Undecided(c, d) /\ call[c].from = p
      BY <2>2, PairingAssumption DEF PairingTypes, Addressed
    <3>2. call'[c].from = p /\ call'[c].to = d
      BY <1>k, <3>1 DEF Kept, Undecided
    <3>3. agreed' = [agreed EXCEPT ![d] = @ \cup {p}]
      BY <2>2 DEF RespondPair
    <3>. QED BY <1>0, <3>2, <3>3 DEF HistoryOK
  <2>. QED BY <1>1, <2>1, <2>2, YesComesFrom
<1>2. ASSUME NEW d \in Devices, NEW p \in Devices, p \in book'[d] PROVE p \in agreed'[d]
  BY <1>2, WhoIsRecorded, AgreedGrows DEF Given, TrustIsGiven
<1>3. ASSUME NEW d \in Devices, NEW p \in Devices, p \in paired'[d] PROVE p \in agreed'[d]
  <2>1. CASE p \in paired[d] \/ p \in joining[d] \/ p \in book[d]
    BY <2>1, AgreedGrows DEF Given, TrustIsGiven
  <2>2. ASSUME NEW c \in Calls, call[c].decision = "yes", call[c].from = p, call[c].to = d
        PROVE  p \in agreed'[d]
    BY <2>2, AgreedGrows DEF Given, YesIsGiven
  <2>. QED BY <1>3, <2>1, <2>2, WhoIsTrusted
<1>4. ASSUME NEW d \in Devices, NEW p \in Devices, p \in joining'[d] PROVE p \in agreed'[d]
  BY <1>4, WhoIsJoining, AgreedGrows DEF Given
<1>. QED BY <1>1, <1>2, <1>3, <1>4 DEF Given, YesIsGiven, TrustIsGiven

\* No device is trusted, by the database or by the server, that the device's user never
\* agreed to, whichever way the requests, the failures and the restarts went.
THEOREM TrustGiven == PairingSpec => []TrustIsGiven
<1>1. PairingInit => Given
  BY DEF PairingInit, Given, YesIsGiven, TrustIsGiven, NoCall
<1>2. PairingTypes /\ Given /\ [PairingNext]_pairingVars => Given'
  BY GivenStep
<1>3. Given => TrustIsGiven
  BY DEF Given
<1>. QED BY <1>1, <1>2, <1>3, AlwaysTyped, PTL DEF PairingSpec

\* The pairing of d with p is withdrawn by either of them, or d could not store it, or d
\* has it recorded, or records and trusts it.
Broken(d, p) == <<d, p>> \in broken \/ <<p, d>> \in broken \/ <<d, p>> \in unsaved
Booked(d, p) == Broken(d, p) \/ p \in book[d]
Good(d, p) == Broken(d, p) \/ (p \in paired[d] /\ p \in book[d])

\* What an acceptance, its answer, its code and its confirmation stand for.
Mutual ==
    /\ \A c \in Calls : /\ call[c].decision = "yes" => Booked(call[c].to, call[c].from)
                        /\ call[c].reply = "yes" => Good(call[c].to, call[c].from)
    /\ \A d, p \in Devices : p \in confirm[d] \/ p \in joining[d] \/ <<d, p>> \in confirmed => Good(p, d)

\* Only a withdrawal takes a record away.
LEMMA RecordStays ==
    ASSUME PairingTypes, [PairingNext]_pairingVars, NEW d \in Devices, NEW p \in Devices, p \in book[d]
    PROVE  p \in book'[d] \/ <<d, p>> \in broken' \/ <<p, d>> \in broken'
<1> DEFINE Claim == p \in book'[d] \/ <<d, p>> \in broken' \/ <<p, d>> \in broken'
<1>0. BookOK /\ Noted /\ broken \subseteq broken'
  BY TypesSplit, WhoAgrees DEF RestOK, PairingTypes
<1>1. CASE book' = book
  BY <1>1
<1>2. ASSUME NEW e \in Devices, NEW q \in Devices, book' = [book EXCEPT ![e] = @ \ {q}],
             <<e, q>> \in broken' \/ <<q, e>> \in broken'
      PROVE  Claim
  BY <1>0, <1>2 DEF BookOK
<1>3. ASSUME NEW e, NEW q, book' = [book EXCEPT ![e] = @ \cup {q}] PROVE Claim
  BY <1>0, <1>3 DEF BookOK
<1>4. ASSUME NEW e \in Devices, NEW q \in Devices, NEW yes \in BOOLEAN, RespondPair(e, q, yes)
      PROVE  Claim
  <2>1. book' = book \/ book' = [book EXCEPT ![e] = @ \cup {q}]
    BY <1>4 DEF RespondPair, Recorded
  <2>. QED BY <1>1, <1>3, <2>1
<1>5. ASSUME NEW e \in Devices, NEW q \in Devices, ConfirmPair(e, q) PROVE Claim
  BY <1>3, <1>5 DEF ConfirmPair
<1>6. ASSUME NEW c \in Calls, ToolConfirm(c) PROVE Claim
  BY <1>3, <1>6 DEF ToolConfirm
<1>7. ASSUME NEW e \in Devices, HearUnpaired(e) PROVE Claim
  <2>1. PICK q \in Devices : q = Head(events[e]).what /\ <<q, e>> \in broken
    BY <1>7, HeadIsEvent DEF HearUnpaired, EventType, EventIsTrue
  <2>2. book' = book \/ book' = [book EXCEPT ![e] = @ \ {q}]
    BY <1>7, <2>1 DEF HearUnpaired, Unrecorded
  <2>. QED BY <1>0, <1>1, <1>2, <2>1, <2>2
<1>8. ASSUME NEW e \in Devices, NEW q \in Devices,
             \/ RemoveRow(e, q) \/ ToolUnpair(e, q) \/ \E forget \in BOOLEAN : UnpairDevice(e, q, forget)
      PROVE  Claim
  <2>1. book' = [book EXCEPT ![e] = @ \ {q}] /\ <<e, q>> \in broken'
    BY <1>8 DEF RemoveRow, ToolUnpair, UnpairDevice, Unrecorded, Withdrawn
  <2>. QED BY <1>2, <2>1
<1>9. ASSUME NEW e \in Devices, NEW q \in Devices, EndUnpair(e, q) PROVE Claim
  <2>1. book' = book \/ book' = [book EXCEPT ![e] = @ \ {q}]
    BY <1>9 DEF EndUnpair, Unrecorded
  <2>2. <<e, q>> \in broken'
    BY <1>0, <1>9 DEF EndUnpair, Noted, UnderWay
  <2>. QED BY <1>1, <1>2, <2>1, <2>2
<1>10. ASSUME NEW c \in Calls,
              \/ ServePair(c) \/ RefuseBusy(c) \/ TellRequest(c) \/ FinishPair(c) \/ TimeOutPair(c)
              \/ GiveUpPair(c) \/ DropPair(c) \/ HearReply(c) \/ ToolReject(c)
              \/ \E e, q \in Devices, tool \in BOOLEAN : PairStart(c, e, q, tool)
       PROVE  book' = book
  BY <1>10 DEF PairStart, ServePair, RefuseBusy, TellRequest, FinishPair, TimeOutPair, GiveUpPair,
               DropPair, HearReply, ToolReject
<1>11. ASSUME NEW e \in Devices, NEW q \in Devices,
              \/ HearRequest(e) \/ Restart(e) \/ ConfirmFails(e, q) \/ AddPaired(e, q) \/ RejectCode(e, q)
              \/ RemovePaired(e, q) \/ ServeUnpair(e, q) \/ TellUnpaired(e, q) \/ LoseUnpair(e, q)
              \/ DropUnpair(e, q)
       PROVE  book' = book
  BY <1>11 DEF HearRequest, Restart, ConfirmFails, AddPaired, RejectCode, RemovePaired, ServeUnpair,
               TellUnpaired, LoseUnpair, DropUnpair
<1>12. CASE UNCHANGED pairingVars
  BY <1>1, <1>12 DEF pairingVars
<1>13. PairingNext => Claim
  <2>1. book' = book => Claim
    BY <1>1
  <2> HIDE DEF Claim
  <2>. QED BY <2>1, <1>4, <1>5, <1>6, <1>7, <1>8, <1>9, <1>10, <1>11 DEF PairingNext, CallStep, WithdrawStep
<1>. QED BY <1>12, <1>13

\* Only a withdrawal takes trust away, or a restart of a device that has no record of it.
LEMMA TrustStays ==
    ASSUME PairingTypes, [PairingNext]_pairingVars, NEW d \in Devices, NEW p \in Devices,
           p \in paired[d], p \in book[d]
    PROVE  p \in paired'[d] \/ <<d, p>> \in broken' \/ <<p, d>> \in broken'
<1> DEFINE Claim == p \in paired'[d] \/ <<d, p>> \in broken' \/ <<p, d>> \in broken'
<1>0. PairedOK /\ BookOK /\ Noted /\ broken \subseteq broken'
  BY TypesSplit, WhoAgrees DEF RestOK, PairingTypes
<1>1. CASE paired' = paired
  BY <1>1
<1>2. ASSUME NEW e, NEW q, paired' = [paired EXCEPT ![e] = @ \cup {q}] PROVE Claim
  BY <1>0, <1>2 DEF PairedOK
<1>3. ASSUME NEW e \in Devices, NEW q \in Devices, paired' = [paired EXCEPT ![e] = @ \ {q}],
             <<e, q>> \in broken' \/ <<q, e>> \in broken'
      PROVE  Claim
  BY <1>0, <1>3 DEF PairedOK
<1>4. ASSUME NEW c \in Calls, FinishPair(c) PROVE Claim
  <2>1. paired' = paired \/ paired' = [paired EXCEPT ![call[c].to] = @ \cup {call[c].from}]
    BY <1>4 DEF FinishPair
  <2>. QED BY <1>1, <1>2, <2>1
<1>5. ASSUME NEW e \in Devices, NEW q \in Devices, AddPaired(e, q) PROVE Claim
  BY <1>2, <1>5 DEF AddPaired
<1>6. ASSUME NEW e \in Devices, NEW q \in Devices, RemovePaired(e, q) PROVE Claim
  <2>1. <<e, q>> \in broken'
    BY <1>0, <1>6 DEF RemovePaired, Noted, UnderWay
  <2>. QED BY <1>3, <1>6, <2>1 DEF RemovePaired, Distrusted
<1>7. ASSUME NEW e \in Devices, NEW q \in Devices, ServeUnpair(e, q) PROVE Claim
  <2>1. <<e, q>> \in broken'
    BY <1>0, <1>7 DEF ServeUnpair, Noted, UnderWay
  <2>. QED BY <1>3, <1>7, <2>1 DEF ServeUnpair
<1>8. ASSUME NEW e \in Devices, Restart(e) PROVE Claim
  BY <1>0, <1>8 DEF Restart, PairedOK
<1>9. ASSUME NEW c \in Calls,
             \/ ServePair(c) \/ RefuseBusy(c) \/ TellRequest(c) \/ TimeOutPair(c) \/ GiveUpPair(c)
             \/ DropPair(c) \/ HearReply(c) \/ ToolConfirm(c) \/ ToolReject(c)
             \/ \E e, q \in Devices, tool \in BOOLEAN : PairStart(c, e, q, tool)
      PROVE  paired' = paired
  BY <1>9 DEF PairStart, ServePair, RefuseBusy, TellRequest, TimeOutPair, GiveUpPair, DropPair,
              HearReply, ToolConfirm, ToolReject, server
<1>10. ASSUME NEW e \in Devices, NEW q \in Devices, NEW yes \in BOOLEAN,
              \/ HearRequest(e) \/ HearUnpaired(e) \/ RespondPair(e, q, yes) \/ UnpairDevice(e, q, yes)
              \/ ConfirmPair(e, q) \/ ConfirmFails(e, q) \/ RejectCode(e, q)
       PROVE  paired' = paired
  BY <1>10 DEF HearRequest, HearUnpaired, RespondPair, UnpairDevice, ConfirmPair, ConfirmFails,
               RejectCode, server
<1>11. ASSUME NEW e \in Devices, NEW q \in Devices,
              \/ RemoveRow(e, q) \/ ToolUnpair(e, q) \/ TellUnpaired(e, q) \/ LoseUnpair(e, q)
              \/ DropUnpair(e, q) \/ EndUnpair(e, q)
       PROVE  paired' = paired
  BY <1>11 DEF RemoveRow, ToolUnpair, TellUnpaired, LoseUnpair, DropUnpair, EndUnpair, server
<1>12. CASE UNCHANGED pairingVars
  BY <1>1, <1>12 DEF pairingVars, server
<1>13. PairingNext => Claim
  <2>1. paired' = paired => Claim
    BY <1>1
  <2> HIDE DEF Claim
  <2>. QED BY <2>1, <1>4, <1>5, <1>6, <1>7, <1>8, <1>9, <1>10, <1>11 DEF PairingNext, CallStep, WithdrawStep
<1>. QED BY <1>12, <1>13

LEMMA GoodStays ==
    ASSUME PairingTypes, [PairingNext]_pairingVars, NEW d \in Devices, NEW p \in Devices
    PROVE  (Booked(d, p) => Booked(d, p)') /\ (Good(d, p) => Good(d, p)')
BY RecordStays, TrustStays, WhoAgrees DEF Booked, Good, Broken

LEMMA MutualStep ==
    ASSUME PairingTypes, Mutual, [PairingNext]_pairingVars
    PROVE  Mutual'
<1>0. /\ BookOK /\ PairedOK /\ HistoryOK /\ AskOK /\ call \in [Calls -> CallType]
      /\ \A c \in Calls : call[c].reply = "yes" => call[c].decision = "yes"
  BY TypesSplit DEF RestOK, PairingTypes, PairingTypeOK, CallType
<1>k. Kept
  BY CallStepOK DEF CallsOK
<1>e. ASSUME NEW c \in Calls, call[c].decision = "yes"
      PROVE  /\ call'[c].from = call[c].from /\ call'[c].to = call[c].to
             /\ call[c].to \in Devices /\ call[c].from \in Devices
             /\ Booked(call[c].to, call[c].from)
  BY <1>e, <1>k, YesWasSent DEF Kept, Mutual
<1>1. ASSUME NEW c \in Calls, call'[c].decision = "yes"
      PROVE  Booked(call[c].to, call[c].from)'
  <2>1. CASE call[c].decision = "yes"
    <3>1. PICK d \in Devices, p \in Devices : d = call[c].to /\ p = call[c].from
      BY <1>e, <2>1
    <3>2. Booked(d, p)' /\ call'[c].to = d /\ call'[c].from = p
      BY <1>e, <2>1, <3>1, GoodStays
    <3>. QED BY <3>2
  <2>2. ASSUME NEW d \in Devices, NEW p \in Devices, RespondPair(d, p, TRUE), question[d][p] = c
        PROVE  Booked(call[c].to, call[c].from)'
    <3>1. Undecided(c, d) /\ call[c].from = p
      BY <2>2, PairingAssumption DEF PairingTypes, Addressed
    <3>2. call'[c].from = p /\ call'[c].to = d
      BY <1>k, <3>1 DEF Kept, Undecided
    <3>3. p \in book'[d] \/ <<d, p>> \in unsaved'
      <4>1. \/ book' = [book EXCEPT ![d] = @ \cup {p}]
            \/ unsaved' = unsaved \cup {<<d, p>>}
        BY <2>2 DEF RespondPair, Recorded
      <4>. QED BY <1>0, <4>1 DEF BookOK
    <3>. QED BY <3>2, <3>3 DEF Booked, Broken
  <2>. QED BY <1>1, <2>1, <2>2, YesComesFrom
<1>2. ASSUME NEW c \in Calls, call'[c].reply = "yes"
      PROVE  Good(call[c].to, call[c].from)'
  <2>1. call[c].decision = "yes"
    BY <1>0, <1>2, YesComesFrom
  <2>2. PICK d \in Devices, p \in Devices : d = call[c].to /\ p = call[c].from
    BY <1>e, <2>1
  <2>3. call'[c].to = d /\ call'[c].from = p /\ Booked(d, p)
    BY <1>e, <2>1, <2>2
  <2>4. CASE call[c].reply = "yes"
    <3>1. Good(d, p)'
      BY <2>2, <2>4, GoodStays DEF Mutual
    <3>. QED BY <2>3, <3>1
  <2>5. CASE FinishPair(c)
    <3>1. p \in paired'[d]
      BY <1>0, <2>1, <2>2, <2>5 DEF FinishPair, Trusts, PairedOK
    <3>2. Booked(d, p)'
      BY <2>3, GoodStays
    <3>. QED BY <2>3, <3>1, <3>2 DEF Good, Booked
  <2>. QED BY <1>2, <2>4, <2>5, YesComesFrom
<1>3. ASSUME NEW d \in Devices, NEW p \in Devices,
             p \in confirm'[d] \/ p \in joining'[d] \/ <<d, p>> \in confirmed'
      PROVE  \/ p \in confirm[d] \/ p \in joining[d] \/ <<d, p>> \in confirmed
             \/ \E c \in Calls : IsWelcome(c) /\ call[c].from = d /\ call[c].to = p
  <2> DEFINE Claim == \/ p \in confirm[d] \/ p \in joining[d] \/ <<d, p>> \in confirmed
                      \/ \E c \in Calls : IsWelcome(c) /\ call[c].from = d /\ call[c].to = p
  <2>1. ASSUME UNCHANGED <<confirmed, confirm, joining>> PROVE Claim
    BY <1>3, <2>1
  <2>2. ASSUME NEW c \in Calls, ToolConfirm(c) PROVE Claim
    <3>1. UNCHANGED <<confirm, joining>> /\ IsWelcome(c)
          /\ confirmed' = confirmed \cup {<<call[c].from, call[c].to>>}
      BY <2>2 DEF ToolConfirm, asking
    <3>. QED BY <1>3, <3>1
  <2>3. ASSUME NEW c \in Calls, HearReply(c) PROVE Claim
    <3>1. /\ UNCHANGED <<confirmed, joining>>
          /\ confirm' = IF IsWelcome(c) THEN [confirm EXCEPT ![call[c].from] = @ \cup {call[c].to}]
                        ELSE confirm
      BY <2>3 DEF HearReply, history
    <3>. QED BY <1>0, <1>3, <3>1 DEF AskOK
  <2>4. ASSUME NEW e \in Devices, NEW q \in Devices, ConfirmPair(e, q) PROVE Claim
    <3>1. /\ q \in confirm[e] /\ confirmed' = confirmed
          /\ confirm' = [confirm EXCEPT ![e] = @ \ {q}] /\ joining' = [joining EXCEPT ![e] = @ \cup {q}]
      BY <2>4 DEF ConfirmPair
    <3>. QED BY <1>0, <1>3, <3>1 DEF AskOK
  <2>5. ASSUME NEW e \in Devices, NEW q \in Devices, AddPaired(e, q) PROVE Claim
    <3>1. /\ q \in joining[e] /\ confirmed' = confirmed \cup {<<e, q>>}
          /\ confirm' = confirm /\ joining' = [joining EXCEPT ![e] = @ \ {q}]
      BY <2>5 DEF AddPaired
    <3>. QED BY <1>0, <1>3, <3>1 DEF AskOK
  <2>6. ASSUME NEW e \in Devices, NEW q \in Devices, ConfirmFails(e, q) \/ RejectCode(e, q)
        PROVE  Claim
    <3>1. confirmed' = confirmed /\ joining' = joining /\ confirm' = [confirm EXCEPT ![e] = @ \ {q}]
      BY <2>6 DEF ConfirmFails, RejectCode
    <3>. QED BY <1>0, <1>3, <3>1 DEF AskOK
  <2>7. ASSUME NEW e \in Devices, Restart(e) PROVE Claim
    <3>1. /\ confirmed' = confirmed /\ confirm' = [confirm EXCEPT ![e] = {}]
          /\ joining' = [joining EXCEPT ![e] = {}]
      BY <2>7 DEF Restart
    <3>. QED BY <1>0, <1>3, <3>1 DEF AskOK
  <2> HIDE DEF Claim
  <2>8. Claim
    BY <2>1, <2>2, <2>3, <2>4, <2>5, <2>6, <2>7, WhoAgrees
  <2>. QED BY <2>8 DEF Claim
<1>4. ASSUME NEW d \in Devices, NEW p \in Devices,
             p \in confirm'[d] \/ p \in joining'[d] \/ <<d, p>> \in confirmed'
      PROVE  Good(p, d)'
  <2>1. Good(p, d)
    BY <1>3, <1>4 DEF Mutual, IsWelcome
  <2>. QED BY <2>1, GoodStays
<1>. QED BY <1>1, <1>2, <1>4 DEF Mutual

\* A pairing its initiator confirmed is recorded and trusted by the other device, until one
\* of the two users withdraws it, unless the other device could not store it.
THEOREM TrustMutual == PairingSpec => []TrustIsMutual
<1>1. PairingInit => Mutual
  BY DEF PairingInit, Mutual, NoCall
<1>2. PairingTypes /\ Mutual /\ [PairingNext]_pairingVars => Mutual'
  BY MutualStep
<1>3. Mutual => TrustIsMutual
  BY DEF Mutual, Good, Broken, TrustIsMutual
<1>. QED BY <1>1, <1>2, <1>3, AlwaysTyped, PTL DEF PairingSpec

------------------------------------------------------------------------------
(***************************************************************************)
(* The two places where the application of a device keeps whom it trusts,  *)
(* the database and the list of the server, agree once no task is between  *)
(* its two writes.                                                         *)
(***************************************************************************)

\* A withdrawal of p that d has in hand: its own, of which the database knows; or the one
\* of p, of which the list of the server knows.
Leaving(d, p) == notice[d][p].client = "leaving"
Telling(d, p) == notice[p][d].handler = "telling" \/ ~IsHeard(d, p)

\* What holds of a device and a peer in between.  A device that is being added is in the
\* database already, and nobody is removing it; a withdrawal has been carried out in the
\* first of its two places.
Agrees(d, p) ==
    /\ Adding(d, p) => p \in book[d] /\ ~Leaving(d, p) /\ ~Telling(d, p)
    /\ Leaving(d, p) => p \notin book[d]
    /\ Telling(d, p) => p \notin paired[d]
    /\ ~Adding(d, p) /\ ~Leaving(d, p) /\ ~Telling(d, p) => (p \in paired[d] <=> p \in book[d])
AllAgree == \A d, p \in Devices : <<d, p>> \in crossed \/ Agrees(d, p)

\* A withdrawal is sent only when its first two writes are done.
LeavesAlone == \A d, p \in Devices : Leaving(d, p) => notice[d][p].handler = "over"

IsYes(c) == call[c].handler = "asking" /\ call[c].decision = "yes"

\* Nothing that Agrees speaks of changes.
Same(d, p) ==
    /\ p \in paired'[d] <=> p \in paired[d]
    /\ p \in book'[d] <=> p \in book[d]
    /\ Adding(d, p)' <=> Adding(d, p)
    /\ Leaving(d, p)' <=> Leaving(d, p)
    /\ Telling(d, p)' <=> Telling(d, p)

LEMMA AgreesStays ==
    ASSUME NEW d \in Devices, NEW p \in Devices, Same(d, p), Agrees(d, p)
    PROVE  Agrees(d, p)'
BY DEF Same, Agrees

LEMMA NothingChanges ==
    ASSUME AllAgree, crossed \subseteq crossed', \A d, p \in Devices : Same(d, p)
    PROVE  AllAgree'
BY AgreesStays DEF AllAgree

\* One device and one peer are affected, each in what it has of the other.
LEMMA TwoChange ==
    ASSUME AllAgree, NEW d \in Devices, NEW p \in Devices, crossed \subseteq crossed',
           <<d, p>> \in crossed' \/ (Agrees(d, p) => Agrees(d, p)'),
           <<p, d>> \in crossed' \/ (Agrees(p, d) => Agrees(p, d)'),
           \A e, q \in Devices : (e # d \/ q # p) /\ (e # p \/ q # d) => Same(e, q)
    PROVE  AllAgree'
<1> SUFFICES ASSUME NEW e \in Devices, NEW q \in Devices, <<e, q>> \notin crossed'
             PROVE  Agrees(e, q)'
  BY DEF AllAgree
<1>1. Agrees(e, q)
  BY DEF AllAgree
<1>2. CASE e = d /\ q = p
  BY <1>1, <1>2
<1>3. CASE e = p /\ q = d
  BY <1>1, <1>3
<1>4. CASE (e # d \/ q # p) /\ (e # p \/ q # d)
  BY <1>1, <1>4, AgreesStays
<1> QED BY <1>2, <1>3, <1>4

LEMMA OneChanges ==
    ASSUME AllAgree, NEW d \in Devices, NEW p \in Devices, crossed \subseteq crossed',
           <<d, p>> \in crossed' \/ (Agrees(d, p) => Agrees(d, p)'),
           \A e, q \in Devices : e # d \/ q # p => Same(e, q)
    PROVE  AllAgree'
<1>1. p # d => (Agrees(p, d) => Agrees(p, d)')
  BY AgreesStays
<1>2. <<p, d>> \in crossed' \/ (Agrees(p, d) => Agrees(p, d)')
  BY <1>1
<1> QED BY <1>2, TwoChange

------------------------------------------------------------------------------
(* Events, acceptances and withdrawals.                                    *)

LEMMA InAppended ==
    ASSUME NEW S, NEW s \in Seq(S), NEW e \in S, NEW x
    PROVE  InSeq(x, Append(s, e)) <=> InSeq(x, s) \/ x = e
<1>1. /\ Len(Append(s, e)) = Len(s) + 1 /\ Len(s) \in Nat
      /\ \A i \in 1..Len(s) : Append(s, e)[i] = s[i]
      /\ Append(s, e)[Len(s) + 1] = e
  OBVIOUS
<1>2. \A i : i \in 1..(Len(s) + 1) <=> i \in 1..Len(s) \/ i = Len(s) + 1
  BY <1>1
<1> QED BY <1>1, <1>2 DEF InSeq

LEMMA InTail ==
    ASSUME NEW S, NEW s \in Seq(S), s # <<>>, NEW x
    PROVE  InSeq(x, s) <=> x = Head(s) \/ InSeq(x, Tail(s))
<1>1. /\ Len(Tail(s)) = Len(s) - 1 /\ Len(s) \in Nat /\ Len(s) > 0
      /\ \A i \in 1..Len(Tail(s)) : Tail(s)[i] = s[i + 1]
      /\ Head(s) = s[1]
  OBVIOUS
<1>2. ASSUME InSeq(x, s) PROVE x = Head(s) \/ InSeq(x, Tail(s))
  <2>1. PICK i \in 1..Len(s) : s[i] = x
    BY <1>2 DEF InSeq
  <2>2. CASE i = 1
    BY <1>1, <2>1, <2>2
  <2>3. CASE i # 1
    <3>1. i - 1 \in 1..Len(Tail(s)) /\ Tail(s)[i - 1] = s[i]
      BY <1>1, <2>1, <2>3
    <3> QED BY <2>1, <3>1 DEF InSeq
  <2> QED BY <2>2, <2>3
<1>3. ASSUME x = Head(s) PROVE InSeq(x, s)
  BY <1>1, <1>3 DEF InSeq
<1>4. ASSUME InSeq(x, Tail(s)) PROVE InSeq(x, s)
  <2>1. PICK i \in 1..Len(Tail(s)) : Tail(s)[i] = x
    BY <1>4 DEF InSeq
  <2>2. i + 1 \in 1..Len(s) /\ s[i + 1] = x
    BY <1>1, <2>1
  <2> QED BY <2>2 DEF InSeq
<1> QED BY <1>2, <1>3, <1>4

\* An event that is no withdrawal changes nothing of what is heard.
LEMMA OtherEvent ==
    ASSUME PairingTypes, NEW d \in Devices, NEW e \in EventType, e.kind = "request",
           \/ events' = [events EXCEPT ![d] = Append(@, e)]
           \/ events[d] # <<>> /\ Head(events[d]) = e /\ events' = [events EXCEPT ![d] = Tail(@)]
    PROVE  \A d2, p \in Devices : IsHeard(d2, p)' <=> IsHeard(d2, p)
<1>1. events \in [Devices -> Seq(EventType)]
  BY TypesSplit DEF RestOK, EventsOK
<1>2. ASSUME NEW p \in Devices PROVE InSeq(Unpaired(p), events'[d]) <=> InSeq(Unpaired(p), events[d])
  <2>1. Unpaired(p) # e
    BY DEF Unpaired
  <2>2. events[d] \in Seq(EventType)
    BY <1>1
  <2>3. CASE events' = [events EXCEPT ![d] = Append(@, e)]
    <3>1. events'[d] = Append(events[d], e)
      BY <1>1, <2>3
    <3> QED BY <2>1, <2>2, <3>1, InAppended
  <2>4. CASE events[d] # <<>> /\ Head(events[d]) = e /\ events' = [events EXCEPT ![d] = Tail(@)]
    <3>1. events'[d] = Tail(events[d])
      BY <1>1, <2>4
    <3> QED BY <2>1, <2>2, <2>4, <3>1, InTail
  <2> QED BY <2>3, <2>4
<1>3. \A d2 \in Devices : d2 # d => events'[d2] = events[d2]
  BY <1>1
<1> QED BY <1>2, <1>3 DEF IsHeard


\* Acceptances that are neither given nor acted on.
LEMMA SameAdding ==
    ASSUME joining' = joining,
           \A c \in Calls :
               /\ IsYes(c)' <=> IsYes(c)
               /\ IsYes(c) => call'[c].to = call[c].to /\ call'[c].from = call[c].from
    PROVE  \A d, p \in Devices : Adding(d, p)' <=> Adding(d, p)
<1>1. \A d, p \in Devices : IsAccepting(d, p)' <=> IsAccepting(d, p)
  BY DEF IsAccepting, IsYes
<1> QED BY <1>1 DEF Adding

LEMMA OthersAdding ==
    ASSUME NEW x \in Calls, NEW d \in Devices, NEW p \in Devices, joining' = joining,
           call[x].to = d, call[x].from = p, call'[x].to = d, call'[x].from = p,
           \A c \in Calls : c # x => call'[c] = call[c]
    PROVE  \A e, q \in Devices : e # d \/ q # p => (Adding(e, q)' <=> Adding(e, q))
<1>1. \A e, q \in Devices : e # d \/ q # p => (IsAccepting(e, q)' <=> IsAccepting(e, q))
  BY DEF IsAccepting
<1> QED BY <1>1 DEF Adding

LEMMA AddingStays ==
    ASSUME UNCHANGED <<call, joining>>
    PROVE  \A d, p \in Devices : Adding(d, p)' <=> Adding(d, p)
BY DEF Adding, IsAccepting

LEMMA RemovingStays ==
    ASSUME UNCHANGED <<notice, events>>
    PROVE  \A d, p \in Devices : (Leaving(d, p)' <=> Leaving(d, p)) /\ (Telling(d, p)' <=> Telling(d, p))
BY DEF Leaving, Telling, IsHeard

\* A withdrawal of p by d, and what changes with it.
Elsewhere(d, p) == \A e, q \in Devices : e # d \/ q # p => notice'[e][q] = notice[e][q]

LEMMA NoticeAt ==
    ASSUME NEW d \in Devices, NEW p \in Devices, Elsewhere(d, p), events' = events
    PROVE  /\ \A e, q \in Devices : e # d \/ q # p => (Leaving(e, q)' <=> Leaving(e, q))
           /\ \A e, q \in Devices : e # p \/ q # d => (Telling(e, q)' <=> Telling(e, q))
BY DEF Elsewhere, Leaving, Telling, IsHeard

\* Nothing is told before or after.
LEMMA NothingTold ==
    ASSUME NEW d \in Devices, NEW p \in Devices, Elsewhere(d, p), events' = events,
           notice[d][p].handler # "telling", notice'[d][p].handler # "telling"
    PROVE  /\ \A e, q \in Devices : e # d \/ q # p => (Leaving(e, q)' <=> Leaving(e, q))
           /\ \A e, q \in Devices : Telling(e, q)' <=> Telling(e, q)
<1>1. Telling(p, d)' <=> Telling(p, d)
  BY DEF Telling, IsHeard
<1> QED BY <1>1, NoticeAt

LEMMA NoticeFields ==
    ASSUME NEW n \in NoticeType, NEW h
    PROVE  /\ [n EXCEPT !.handler = h].client = n.client /\ [n EXCEPT !.handler = h].handler = h
           /\ [n EXCEPT !.client = h].client = h /\ [n EXCEPT !.client = h].handler = n.handler
           /\ [[n EXCEPT !.client = "waiting"] EXCEPT !.handler = h].client = "waiting"
           /\ [[n EXCEPT !.client = "waiting"] EXCEPT !.handler = h].handler = h
BY DEF NoticeType

LEMMA NoticeNew ==
    ASSUME NoticeOK, NEW d \in Devices, NEW p \in Devices, NEW n,
           notice' = [notice EXCEPT ![d][p] = n]
    PROVE  notice'[d][p] = n /\ Elsewhere(d, p)
BY DEF NoticeOK, Elsewhere

\* The steps of a withdrawal that update one field of it.
LEMMA HandlerMoves ==
    ASSUME NoticeOK, NEW d \in Devices, NEW p \in Devices,
           ServeUnpair(d, p) \/ TellUnpaired(d, p) \/ LoseUnpair(d, p) \/ DropUnpair(d, p)
    PROVE  /\ notice'[d][p].client = notice[d][p].client
           /\ notice'[d][p].handler =
                  IF ServeUnpair(d, p) /\ d \in paired[p] THEN "telling" ELSE "over"
           /\ Elsewhere(d, p)
<1>1. notice[d][p] \in NoticeType
  BY DEF NoticeOK
<1>2. notice'[d][p] = [notice[d][p] EXCEPT !.handler =
                           IF ServeUnpair(d, p) /\ d \in paired[p] THEN "telling" ELSE "over"]
  <2>1. CASE ServeUnpair(d, p) /\ d \in paired[p]
    <3>1. notice' = [notice EXCEPT ![d][p].handler = "telling"]
      BY <2>1 DEF ServeUnpair
    <3> QED BY <2>1, <3>1 DEF NoticeOK
  <2>2. CASE ~(ServeUnpair(d, p) /\ d \in paired[p])
    <3>1. notice' = [notice EXCEPT ![d][p].handler = "over"]
      BY <2>2 DEF ServeUnpair, TellUnpaired, LoseUnpair, DropUnpair
    <3> QED BY <2>2, <3>1 DEF NoticeOK
  <2> QED BY <2>1, <2>2
<1>3. Elsewhere(d, p)
  <2>1. PICK h : notice' = [notice EXCEPT ![d][p].handler = h]
    BY DEF ServeUnpair, TellUnpaired, LoseUnpair, DropUnpair
  <2> QED BY <2>1 DEF NoticeOK, Elsewhere
<1> QED BY <1>1, <1>2, <1>3, NoticeFields

LEMMA ClientEnds ==
    ASSUME NoticeOK, NEW d \in Devices, NEW p \in Devices, EndUnpair(d, p)
    PROVE  /\ notice'[d][p].handler = notice[d][p].handler /\ notice'[d][p].client = "over"
           /\ Elsewhere(d, p)
<1>1. notice[d][p] \in NoticeType
  BY DEF NoticeOK
<1>2. notice'[d][p] = [notice[d][p] EXCEPT !.client = "over"]
  BY DEF NoticeOK, EndUnpair
<1>3. Elsewhere(d, p)
  BY DEF NoticeOK, Elsewhere, EndUnpair
<1> QED BY <1>1, <1>2, <1>3, NoticeFields

LEMMA ClientSends ==
    ASSUME NoticeOK, NEW d \in Devices, NEW p \in Devices, RemovePaired(d, p)
    PROVE  /\ notice'[d][p].handler # "telling" /\ notice'[d][p].client = "waiting"
           /\ Elsewhere(d, p)
<1>1. notice[d][p] \in NoticeType
  BY DEF NoticeOK
<1>2. PICK h \in {"coming", "over"} :
          notice' = [notice EXCEPT ![d][p].client = "waiting", ![d][p].handler = h]
  BY DEF RemovePaired
<1>3. notice'[d][p] = [[notice[d][p] EXCEPT !.client = "waiting"] EXCEPT !.handler = h]
  BY <1>2 DEF NoticeOK
<1>4. Elsewhere(d, p)
  BY <1>2 DEF NoticeOK, Elsewhere
<1>5. h # "telling"
  BY <1>2
<1> QED BY <1>1, <1>3, <1>4, <1>5, NoticeFields

LEMMA NoticeLeaving ==
    ASSUME NoticeOK, NEW d \in Devices, NEW p \in Devices, NEW forget \in BOOLEAN,
           UnpairDevice(d, p, forget)
    PROVE  /\ notice'[d][p].client = "leaving" /\ notice'[d][p].handler = "over"
           /\ Elsewhere(d, p)
<1>1. PICK n : /\ n = [client |-> "leaving", handler |-> "over", tell |-> p \in book[d], forget |-> forget]
               /\ notice' = [notice EXCEPT ![d][p] = n]
  BY Zenon DEF UnpairDevice
<1>2. n.client = "leaving" /\ n.handler = "over"
  BY <1>1
<1>3. notice'[d][p] = n /\ Elsewhere(d, p)
  BY <1>1, NoticeNew
<1> QED BY <1>2, <1>3

\* A restart of d ends its own withdrawals, and the handlers of those of the others.
LEMMA NoticeRestarted ==
    ASSUME NoticeOK, NEW d \in Devices, Restart(d), NEW e \in Devices, NEW q \in Devices
    PROVE  /\ notice'[e][q].client = IF e = d THEN "over" ELSE notice[e][q].client
           /\ notice'[e][q].handler = IF q = d THEN "over" ELSE notice[e][q].handler
<1>1. PICK n : n = notice[e][q]
  OBVIOUS
<1>2. n \in NoticeType
  BY <1>1 DEF NoticeOK
<1>3. notice'[e][q] = [n EXCEPT !.client = IF e = d THEN "over" ELSE @,
                                !.handler = IF q = d THEN "over" ELSE @]
  BY <1>1 DEF Restart
<1>4. CASE e = d /\ q = d
  BY <1>1, <1>2, <1>3, <1>4 DEF NoticeType
<1>5. CASE e = d /\ q # d
  BY <1>1, <1>2, <1>3, <1>5 DEF NoticeType
<1>6. CASE e # d /\ q = d
  BY <1>1, <1>2, <1>3, <1>6 DEF NoticeType
<1>7. CASE e # d /\ q # d
  BY <1>1, <1>2, <1>3, <1>7 DEF NoticeType
<1> QED BY <1>4, <1>5, <1>6, <1>7

------------------------------------------------------------------------------
(* The steps.                                                              *)

LEMMA SentCall ==
    ASSUME PairingTypes, NEW c \in Calls, call[c].handler # "idle"
    PROVE  /\ call[c].from \in Devices /\ call[c].to \in Devices
           /\ call[c].handler \in {"coming", "entered"} => call[c].decision = "none"
BY DEF PairingTypes, Sent

\* Steps of a request that decide nothing.
LEMMA IdleCallAgrees ==
    ASSUME PairingTypes, AllAgree, NEW c \in Calls,
           \/ RefuseBusy(c) \/ TimeOutPair(c) \/ GiveUpPair(c) \/ HearReply(c) \/ ServePair(c)
           \/ TellRequest(c) \/ \E d, p \in Devices, tool \in BOOLEAN : PairStart(c, d, p, tool)
    PROVE  AllAgree'
<1>1. call \in [Calls -> CallType]
  BY DEF PairingTypes, PairingTypeOK, CallType
<1>2. \A e \in Calls :
          /\ IsYes(e)' <=> IsYes(e)
          /\ IsYes(e) => call'[e].to = call[e].to /\ call'[e].from = call[e].from
  <2> SUFFICES ASSUME NEW e \in Calls
               PROVE  /\ IsYes(e)' <=> IsYes(e)
                      /\ IsYes(e) => call'[e].to = call[e].to /\ call'[e].from = call[e].from
    OBVIOUS
  <2>1. CASE e # c
    BY <1>1, <2>1 DEF IsYes, RefuseBusy, TimeOutPair, GiveUpPair, HearReply, ServePair, TellRequest,
                      PairStart
  <2>2. CASE e = c /\ (RefuseBusy(c) \/ TimeOutPair(c) \/ ServePair(c))
    BY <1>1, <2>2 DEF IsYes, RefuseBusy, TimeOutPair, ServePair, PairingTypes, Sent, CallType
  <2>3. CASE e = c /\ (GiveUpPair(c) \/ HearReply(c))
    BY <1>1, <2>3 DEF IsYes, GiveUpPair, HearReply, CallType
  <2>5. CASE e = c /\ TellRequest(c)
    <3>1. call[c].decision = "none" /\ call'[c].decision = "none"
      BY <1>1, <2>5, SentCall DEF TellRequest, CallType
    <3> QED BY <2>5, <3>1 DEF IsYes
  <2>4. ASSUME e = c, NEW d \in Devices, NEW p \in Devices, NEW tool \in BOOLEAN, PairStart(c, d, p, tool)
        PROVE  ~IsYes(c) /\ ~IsYes(c)'
    <3> DEFINE y == [NoCall EXCEPT !.from = d, !.to = p, !.tool = tool, !.client = "waiting",
                                 !.handler = "coming"]
    <3>1. call[c] = NoCall /\ call' = [call EXCEPT ![c] = y]
      BY <2>4 DEF PairStart
    <3>2. NoCall.handler = "idle" /\ y.handler = "coming"
      BY DEF NoCall
    <3> HIDE DEF y
    <3>3. call'[c].handler = "coming"
      BY <1>1, <3>1, <3>2
    <3> QED BY <3>1, <3>2, <3>3 DEF IsYes
  <2> QED BY <2>1, <2>2, <2>3, <2>4, <2>5
<1>3. UNCHANGED <<book, paired, crossed, joining, notice>>
  BY DEF RefuseBusy, TimeOutPair, GiveUpPair, HearReply, ServePair, TellRequest, PairStart, server,
         asking, history
<1>4. \A d, p \in Devices : Adding(d, p)' <=> Adding(d, p)
  BY <1>2, <1>3, SameAdding
<1>5. \A d, p \in Devices : IsHeard(d, p)' <=> IsHeard(d, p)
  <2>1. CASE events' = events
    BY <2>1 DEF IsHeard
  <2>2. CASE TellRequest(c)
    <3>1. PICK d \in Devices : d = call[c].to
      BY <2>2, SentCall DEF TellRequest
    <3>2. Request(c) \in EventType /\ Request(c).kind = "request"
      BY DEF Request, EventType
    <3>3. events' = [events EXCEPT ![d] = Append(@, Request(c))]
      BY <2>2, <3>1 DEF TellRequest
    <3> QED BY <3>2, <3>3, OtherEvent
  <2> QED BY <2>1, <2>2 DEF RefuseBusy, TimeOutPair, GiveUpPair, HearReply, ServePair, PairStart, server
<1>6. \A d, p \in Devices : Same(d, p)
  BY <1>3, <1>4, <1>5 DEF Same, Leaving, Telling
<1> QED BY <1>3, <1>6, NothingChanges

LEMMA HearRequestAgrees ==
    ASSUME PairingTypes, AllAgree, NEW d \in Devices, HearRequest(d)
    PROVE  AllAgree'
<1>1. call \in [Calls -> CallType]
  BY DEF PairingTypes, PairingTypeOK, CallType
<1>2. UNCHANGED <<book, paired, crossed, joining, notice>>
  BY DEF HearRequest, history
<1>3. \A e, q \in Devices : IsHeard(e, q)' <=> IsHeard(e, q)
  BY HeadIsEvent, OtherEvent DEF HearRequest
<1>4. \A c \in Calls :
          /\ IsYes(c)' <=> IsYes(c)
          /\ IsYes(c) => call'[c].to = call[c].to /\ call'[c].from = call[c].from
  <2>1. CASE call' = call
    BY <2>1 DEF IsYes
  <2>2. ASSUME NEW older, call[older].decision = "none",
               call' = [call EXCEPT ![older].decision = "no"]
        PROVE  \A c \in Calls :
                   /\ IsYes(c)' <=> IsYes(c)
                   /\ IsYes(c) => call'[c].to = call[c].to /\ call'[c].from = call[c].from
    BY <1>1, <2>2 DEF IsYes, CallType
  <2>3. \/ call' = call
        \/ \E older : call[older].decision = "none" /\ call' = [call EXCEPT ![older].decision = "no"]
    BY DEF HearRequest
  <2> QED BY <2>1, <2>2, <2>3
<1>5. \A e, q \in Devices : Adding(e, q)' <=> Adding(e, q)
  BY <1>2, <1>4, SameAdding
<1>6. \A e, q \in Devices : Same(e, q)
  BY <1>2, <1>3, <1>5 DEF Same, Leaving, Telling
<1> QED BY <1>2, <1>6, NothingChanges

\* An acceptance is in the database from the beginning, a refusal changes nothing.
LEMMA RespondAgrees ==
    ASSUME PairingTypes, AllAgree, NEW d \in Devices, NEW p \in Devices, NEW yes \in BOOLEAN,
           RespondPair(d, p, yes)
    PROVE  AllAgree'
<1>1. call \in [Calls -> CallType] /\ BookOK
  BY TypesSplit DEF RestOK, PairingTypes, PairingTypeOK, CallType
<1>2. PICK c \in Calls :
          /\ question[d][p] = c /\ Undecided(c, d) /\ call[c].from = p
          /\ call' = [call EXCEPT ![c].decision = IF yes THEN "yes" ELSE "no"]
  <2>1. question[d][p] \in Calls \cup {None} /\ question[d][p] # None
    BY TypesSplit DEF RestOK, AskOK, RespondPair
  <2> QED BY <2>1 DEF RespondPair, PairingTypes, Addressed
<1>3. /\ UNCHANGED <<paired, events, notice, joining>> /\ crossed \subseteq crossed'
      /\ ~yes => book' = book
  BY DEF RespondPair, Crossing, server
<1>4. \A e, q \in Devices : (Leaving(e, q)' <=> Leaving(e, q)) /\ (Telling(e, q)' <=> Telling(e, q))
  BY <1>3, RemovingStays
<1>5. \A e \in Calls : e # c => call'[e] = call[e]
  BY <1>1, <1>2
<1>6. /\ call'[c].to = d /\ call'[c].from = p /\ call[c].to = d /\ call[c].decision = "none"
      /\ call'[c].handler = call[c].handler /\ call[c].handler \in {"asking", "over"}
      /\ call'[c].decision = IF yes THEN "yes" ELSE "no"
  BY <1>1, <1>2 DEF CallType, Undecided
<1>7. \A e, q \in Devices : e # d \/ q # p => (Adding(e, q)' <=> Adding(e, q))
  BY <1>2, <1>3, <1>5, <1>6, OthersAdding
<1>8. \A e, q \in Devices : e # d \/ q # p => (q \in book'[e] <=> q \in book[e])
  <2>1. book' = book \/ book' = [book EXCEPT ![d] = @ \cup {p}]
    BY DEF RespondPair, Recorded
  <2> QED BY <1>1, <2>1 DEF BookOK
<1>9. ~yes => (IsAccepting(d, p)' <=> IsAccepting(d, p))
  BY <1>5, <1>6 DEF IsAccepting
<1>10. yes /\ call[c].handler = "over" => (IsAccepting(d, p)' <=> IsAccepting(d, p))
  BY <1>5, <1>6 DEF IsAccepting
<1>11. ASSUME yes, <<d, p>> \notin crossed', Agrees(d, p) PROVE Agrees(d, p)'
  <2>1. PICK stored \in BOOLEAN :
            /\ book' = Recorded(d, p, stored)
            /\ crossed' = IF Misses(c, d, p, stored) \/ Removing(d, p) THEN crossed \cup {<<d, p>>}
                          ELSE crossed
    BY <1>2, <1>11 DEF RespondPair, Crossing
  <2>2. ~Misses(c, d, p, stored) /\ ~Leaving(d, p) /\ ~Telling(d, p)
    BY <1>11, <2>1 DEF Removing, Leaving, Telling
  <2>3. stored => p \in book'[d]
    BY <1>1, <2>1 DEF Recorded, BookOK
  <2>4. ~stored => book' = book
    BY <2>1 DEF Recorded
  <2>5. CASE call[c].handler = "over"
    <3>1. Adding(d, p)' <=> Adding(d, p)
      BY <1>3, <1>10, <1>11, <2>5 DEF Adding
    <3>2. stored => p \in paired[d]
      BY <2>2, <2>5 DEF Misses
    <3> QED BY <1>3, <1>4, <1>11, <2>2, <2>3, <2>4, <3>1, <3>2 DEF Agrees
  <2>6. CASE call[c].handler = "asking"
    <3>1. p \in book'[d]
      BY <2>2, <2>3, <2>4, <2>6 DEF Misses
    <3>2. Adding(d, p)'
      BY <1>6, <1>11, <2>6 DEF Adding, IsAccepting
    <3> QED BY <1>4, <2>2, <3>1, <3>2 DEF Agrees
  <2> QED BY <1>6, <2>5, <2>6
<1>12. ~yes => Same(d, p)
  BY <1>3, <1>4, <1>9 DEF Same, Adding
<1>13. <<d, p>> \in crossed' \/ (Agrees(d, p) => Agrees(d, p)')
  BY <1>11, <1>12, AgreesStays
<1>14. \A e, q \in Devices : e # d \/ q # p => Same(e, q)
  BY <1>3, <1>4, <1>7, <1>8 DEF Same
<1> QED BY <1>3, <1>13, <1>14, OneChanges

\* The handler trusts whom its user accepted; when it is dropped instead, the crossing is
\* marked.
LEMMA HandlerAgrees ==
    ASSUME PairingTypes, AllAgree, NEW c \in Calls, FinishPair(c) \/ DropPair(c)
    PROVE  AllAgree'
<1>1. call \in [Calls -> CallType] /\ PairedOK
  BY TypesSplit DEF RestOK, PairingTypes, PairingTypeOK, CallType
<1>2. PICK d \in Devices, p \in Devices : call[c].to = d /\ call[c].from = p
  BY SentCall DEF FinishPair, DropPair
<1>3. /\ UNCHANGED <<book, events, notice, joining>> /\ crossed \subseteq crossed'
      /\ \A e \in Calls : e # c => call'[e] = call[e]
      /\ call'[c].to = d /\ call'[c].from = p /\ call'[c].handler = "over"
  BY <1>1, <1>2 DEF FinishPair, DropPair, Crossing, CallType, asking, history
<1>4. \A e, q \in Devices : (Leaving(e, q)' <=> Leaving(e, q)) /\ (Telling(e, q)' <=> Telling(e, q))
  BY <1>3, RemovingStays
<1>5. \A e, q \in Devices : e # d \/ q # p => (Adding(e, q)' <=> Adding(e, q))
  BY <1>2, <1>3, OthersAdding
<1>6. \A e, q \in Devices : e # d \/ q # p => (q \in paired'[e] <=> q \in paired[e])
  BY <1>1, <1>2 DEF FinishPair, DropPair, PairedOK
<1>7. IsYes(c) => Adding(d, p)
  BY <1>2 DEF IsYes, Adding, IsAccepting
<1>8. ~IsYes(c) => (Adding(d, p)' <=> Adding(d, p))
  BY <1>2, <1>3 DEF IsYes, Adding, IsAccepting
<1>9. ASSUME <<d, p>> \notin crossed', Agrees(d, p) PROVE Agrees(d, p)'
  <2>1. CASE ~IsYes(c)
    <3>1. paired' = paired
      BY <2>1 DEF FinishPair, DropPair, Trusts, IsYes
    <3> QED BY <1>3, <1>4, <1>8, <1>9, <2>1, <3>1, AgreesStays DEF Same
  <2>2. CASE IsYes(c)
    <3>1. p \in paired'[d]
      <4>1. CASE FinishPair(c)
        BY <1>1, <1>2, <2>2, <4>1 DEF FinishPair, Trusts, IsYes, PairedOK
      <4>2. CASE DropPair(c)
        BY <1>2, <1>9, <2>2, <4>2 DEF DropPair, Crossing, IsYes
      <4> QED BY <4>1, <4>2
    <3> QED BY <1>3, <1>4, <1>7, <1>9, <2>2, <3>1 DEF Agrees
  <2> QED BY <2>1, <2>2
<1>10. \A e, q \in Devices : e # d \/ q # p => Same(e, q)
  BY <1>3, <1>4, <1>5, <1>6 DEF Same
<1> QED BY <1>3, <1>9, <1>10, OneChanges

\* A confirmation writes the database, then the list.
LEMMA ConfirmAgrees ==
    ASSUME PairingTypes, AllAgree, NEW d \in Devices, NEW p \in Devices,
           ConfirmPair(d, p) \/ AddPaired(d, p)
    PROVE  AllAgree'
<1>1. BookOK /\ PairedOK /\ joining \in [Devices -> SUBSET Devices]
  BY TypesSplit DEF RestOK, AskOK
<1>2. /\ UNCHANGED <<call, events, notice>> /\ crossed \subseteq crossed'
  BY DEF ConfirmPair, AddPaired, Crossing, server
<1>3. \A e, q \in Devices : (Leaving(e, q)' <=> Leaving(e, q)) /\ (Telling(e, q)' <=> Telling(e, q))
  BY <1>2, RemovingStays
<1>4. \A e, q \in Devices : IsAccepting(e, q)' <=> IsAccepting(e, q)
  BY <1>2 DEF IsAccepting
<1>5. CASE ConfirmPair(d, p)
  <2>1. /\ book' = [book EXCEPT ![d] = @ \cup {p}] /\ joining' = [joining EXCEPT ![d] = @ \cup {p}]
        /\ paired' = paired
        /\ crossed' = IF Removing(d, p) THEN crossed \cup {<<d, p>>} ELSE crossed
    BY <1>5 DEF ConfirmPair, Crossing, server
  <2>2. /\ p \in book'[d] /\ p \in joining'[d]
        /\ \A e, q \in Devices : e # d \/ q # p =>
               (q \in book'[e] <=> q \in book[e]) /\ (q \in joining'[e] <=> q \in joining[e])
    BY <1>1, <2>1 DEF BookOK
  <2>3. <<d, p>> \notin crossed' => ~Leaving(d, p) /\ ~Telling(d, p)
    BY <2>1 DEF Removing, Leaving, Telling
  <2>4. <<d, p>> \in crossed' \/ Agrees(d, p)'
    BY <1>3, <2>2, <2>3 DEF Agrees, Adding
  <2>5. \A e, q \in Devices : e # d \/ q # p => Same(e, q)
    BY <1>3, <1>4, <2>1, <2>2 DEF Same, Adding
  <2> QED BY <1>2, <2>4, <2>5, OneChanges
<1>6. CASE AddPaired(d, p)
  <2>1. /\ paired' = [paired EXCEPT ![d] = @ \cup {p}] /\ joining' = [joining EXCEPT ![d] = @ \ {p}]
        /\ book' = book /\ p \in joining[d]
    BY <1>6 DEF AddPaired
  <2>2. /\ p \in paired'[d]
        /\ \A e, q \in Devices : e # d \/ q # p =>
               (q \in paired'[e] <=> q \in paired[e]) /\ (q \in joining'[e] <=> q \in joining[e])
    BY <1>1, <2>1 DEF PairedOK
  <2>3. Agrees(d, p) => Agrees(d, p)'
    BY <1>3, <2>1, <2>2 DEF Agrees, Adding
  <2>4. \A e, q \in Devices : e # d \/ q # p => Same(e, q)
    BY <1>3, <1>4, <2>1, <2>2 DEF Same, Adding
  <2> QED BY <1>2, <2>3, <2>4, OneChanges
<1> QED BY <1>5, <1>6

\* What the tool records is crossed unless the server trusts the device already.
LEMMA ToolConfirmAgrees ==
    ASSUME PairingTypes, AllAgree, NEW c \in Calls, ToolConfirm(c)
    PROVE  AllAgree'
<1>1. BookOK /\ call \in [Calls -> CallType]
  BY TypesSplit DEF RestOK, PairingTypes, PairingTypeOK, CallType
<1>2. PICK d \in Devices, p \in Devices : d = call[c].from /\ p = call[c].to
  BY SentCall DEF ToolConfirm, HasReply
<1>3. /\ UNCHANGED <<paired, events, notice, joining>> /\ crossed \subseteq crossed'
      /\ book' = [book EXCEPT ![d] = @ \cup {p}] /\ call' = [call EXCEPT ![c].client = "over"]
      /\ crossed' = IF p \notin paired[d] \/ Removing(d, p) THEN crossed \cup {<<d, p>>} ELSE crossed
  BY <1>2 DEF ToolConfirm, Crossing, server, asking
<1>4. \A e, q \in Devices : (Leaving(e, q)' <=> Leaving(e, q)) /\ (Telling(e, q)' <=> Telling(e, q))
  BY <1>3, RemovingStays
<1>5. \A e \in Calls : /\ IsYes(e)' <=> IsYes(e)
                       /\ call'[e].to = call[e].to /\ call'[e].from = call[e].from
  BY <1>1, <1>3 DEF IsYes, CallType
<1>6. \A e, q \in Devices : Adding(e, q)' <=> Adding(e, q)
  BY <1>3, <1>5, SameAdding
<1>7. /\ p \in book'[d]
      /\ \A e, q \in Devices : e # d \/ q # p => (q \in book'[e] <=> q \in book[e])
  BY <1>1, <1>3 DEF BookOK
<1>8. <<d, p>> \notin crossed' => p \in paired[d] /\ ~Leaving(d, p) /\ ~Telling(d, p)
  BY <1>3 DEF Removing, Leaving, Telling
<1>9. <<d, p>> \in crossed' \/ Agrees(d, p)'
  BY <1>3, <1>4, <1>7, <1>8 DEF Agrees
<1>10. \A e, q \in Devices : e # d \/ q # p => Same(e, q)
  BY <1>3, <1>4, <1>6, <1>7 DEF Same
<1> QED BY <1>3, <1>9, <1>10, OneChanges

\* A withdrawal begins with the database; so does the tool's, and there it ends.
LEMMA UnpairAgrees ==
    ASSUME PairingTypes, AllAgree, NEW d \in Devices, NEW p \in Devices,
           \/ RemoveRow(d, p) \/ ToolUnpair(d, p) \/ \E forget \in BOOLEAN : UnpairDevice(d, p, forget)
    PROVE  AllAgree'
<1>1. BookOK /\ NoticeOK
  BY TypesSplit DEF RestOK
<1>2. /\ UNCHANGED <<call, joining, events, paired>> /\ crossed \subseteq crossed' /\ d # p
      /\ book' = [book EXCEPT ![d] = @ \ {p}]
  BY DEF RemoveRow, ToolUnpair, UnpairDevice, Unrecorded, Crossing, server, asking
<1>3. \A e, q \in Devices : Adding(e, q)' <=> Adding(e, q)
  BY <1>2, AddingStays
<1>4. /\ p \notin book'[d]
      /\ \A e, q \in Devices : e # d \/ q # p => (q \in book'[e] <=> q \in book[e])
  BY <1>1, <1>2 DEF BookOK
<1>5. /\ \A e, q \in Devices : e # d \/ q # p => (Leaving(e, q)' <=> Leaving(e, q))
      /\ \A e, q \in Devices : Telling(e, q)' <=> Telling(e, q)
  <2>1. CASE RemoveRow(d, p)
    BY <1>2, <2>1, RemovingStays DEF RemoveRow
  <2>2. CASE ToolUnpair(d, p)
    <3>1. notice'[d][p] = NewNotice /\ Elsewhere(d, p)
      BY <1>1, <2>2, NoticeNew DEF ToolUnpair
    <3> QED BY <1>2, <2>2, <3>1, NothingTold DEF ToolUnpair, MayWithdraw, NoticeIsOver, NewNotice
  <2>3. ASSUME NEW forget \in BOOLEAN, UnpairDevice(d, p, forget)
        PROVE  notice'[d][p].client = "leaving" /\ notice'[d][p].handler = "over" /\ Elsewhere(d, p)
    BY <1>1, <2>3, NoticeLeaving
  <2>4. CASE \E forget \in BOOLEAN : UnpairDevice(d, p, forget)
    BY <1>2, <2>3, <2>4, NothingTold DEF UnpairDevice, MayWithdraw, NoticeIsOver
  <2> QED BY <2>1, <2>2, <2>4
<1>6. \A forget \in BOOLEAN : UnpairDevice(d, p, forget) => Leaving(d, p)'
  BY <1>1, NoticeLeaving DEF Leaving
<1>7. <<d, p>> \in crossed' \/ (Agrees(d, p) => Agrees(d, p)')
  <2>1. CASE RemoveRow(d, p) \/ ToolUnpair(d, p)
    <3>1. <<d, p>> \notin crossed' => p \notin paired'[d] /\ ~Adding(d, p)'
      BY <1>2, <1>3, <2>1 DEF RemoveRow, ToolUnpair, Crossing
    <3> QED BY <1>4, <3>1 DEF Agrees
  <2>2. ASSUME NEW forget \in BOOLEAN, UnpairDevice(d, p, forget)
        PROVE  <<d, p>> \in crossed' \/ (Agrees(d, p) => Agrees(d, p)')
    <3>1. <<d, p>> \notin crossed' => ~Adding(d, p)'
      BY <1>3, <2>2 DEF UnpairDevice, Crossing
    <3>2. Leaving(d, p)'
      BY <1>6, <2>2
    <3> QED BY <1>2, <1>4, <1>5, <3>1, <3>2 DEF Agrees
  <2> QED BY <2>1, <2>2
<1>8. \A e, q \in Devices : e # d \/ q # p => Same(e, q)
  BY <1>2, <1>3, <1>4, <1>5 DEF Same
<1> QED BY <1>2, <1>7, <1>8, OneChanges

\* The list of the server follows the database; then the other device is told.
LEMMA RemovePairedAgrees ==
    ASSUME PairingTypes, AllAgree, LeavesAlone, NEW d \in Devices, NEW p \in Devices, RemovePaired(d, p)
    PROVE  AllAgree'
<1>1. PairedOK /\ NoticeOK
  BY TypesSplit DEF RestOK
<1>3. /\ UNCHANGED <<book, call, joining, events, crossed>> /\ Leaving(d, p)
      /\ paired' = [paired EXCEPT ![d] = @ \ {p}]
  BY DEF RemovePaired, Distrusted, Leaving, asking, history
<1>4. notice'[d][p].handler # "telling" /\ notice'[d][p].client = "waiting" /\ Elsewhere(d, p)
  BY <1>1, ClientSends
<1>6. notice[d][p].handler = "over"
  BY <1>3 DEF LeavesAlone
<1>7. /\ \A e, q \in Devices : Telling(e, q)' <=> Telling(e, q)
      /\ ~Leaving(d, p)'
      /\ \A e, q \in Devices : e # d \/ q # p => (Leaving(e, q)' <=> Leaving(e, q))
  BY <1>3, <1>4, <1>6, NothingTold DEF Leaving
<1>8. \A e, q \in Devices : Adding(e, q)' <=> Adding(e, q)
  BY <1>3, AddingStays
<1>9. /\ p \notin paired'[d]
      /\ \A e, q \in Devices : e # d \/ q # p => (q \in paired'[e] <=> q \in paired[e])
  BY <1>1, <1>3 DEF PairedOK
<1>10. Agrees(d, p) => Agrees(d, p)'
  BY <1>3, <1>7, <1>8, <1>9 DEF Agrees
<1>11. \A e, q \in Devices : e # d \/ q # p => Same(e, q)
  BY <1>3, <1>7, <1>8, <1>9 DEF Same
<1> QED BY <1>3, <1>10, <1>11, OneChanges

\* The handler of a withdrawal: the list first, the event when there is room; the crossing
\* is marked if it is dropped before.
LEMMA ServeUnpairAgrees ==
    ASSUME PairingTypes, AllAgree, NEW p \in Devices, NEW d \in Devices,
           ServeUnpair(p, d) \/ LoseUnpair(p, d) \/ DropUnpair(p, d)
    PROVE  AllAgree'
<1>1. PairedOK /\ NoticeOK
  BY TypesSplit DEF RestOK
<1>2. /\ UNCHANGED <<call, joining, book, events>> /\ crossed \subseteq crossed'
  BY DEF ServeUnpair, LoseUnpair, DropUnpair, Crossing, server, asking, history
<1>3. \A e, q \in Devices : Adding(e, q)' <=> Adding(e, q)
  BY <1>2, AddingStays
<1>4. PICK h : h = IF ServeUnpair(p, d) /\ p \in paired[d] THEN "telling" ELSE "over"
  OBVIOUS
<1>5. notice'[p][d].client = notice[p][d].client /\ notice'[p][d].handler = h /\ Elsewhere(p, d)
  BY <1>1, <1>4, HandlerMoves
<1>7. /\ \A e, q \in Devices : Leaving(e, q)' <=> Leaving(e, q)
      /\ \A e, q \in Devices : e # d \/ q # p => (Telling(e, q)' <=> Telling(e, q))
      /\ Telling(d, p)' <=> h = "telling" \/ ~IsHeard(d, p)
  <2>1. (Leaving(p, d)' <=> Leaving(p, d)) /\ (IsHeard(d, p)' <=> IsHeard(d, p))
    BY <1>2, <1>5 DEF Leaving, IsHeard
  <2>2. Telling(d, p)' <=> h = "telling" \/ ~IsHeard(d, p)
    BY <1>5, <2>1 DEF Telling
  <2> QED BY <1>2, <1>5, <2>1, <2>2, NoticeAt
<1>8. \A e, q \in Devices : e # d \/ q # p => (q \in paired'[e] <=> q \in paired[e])
  BY <1>1 DEF ServeUnpair, LoseUnpair, DropUnpair, server, PairedOK
<1>9. <<d, p>> \in crossed' \/ (Agrees(d, p) => Agrees(d, p)')
  <2>1. CASE ServeUnpair(p, d)
    <3>1. p \notin paired'[d] /\ ~(notice[p][d].handler = "telling")
      BY <1>1, <2>1 DEF ServeUnpair, PairedOK
    <3>2. CASE p \in paired[d]
      <4>1. Telling(d, p)'
        BY <1>4, <1>7, <2>1, <3>2
      <4>2. <<d, p>> \notin crossed' => ~Adding(d, p)'
        BY <1>3, <2>1, <3>2 DEF ServeUnpair, Crossing
      <4> QED BY <1>2, <1>7, <3>1, <4>1, <4>2 DEF Agrees
    <3>3. CASE p \notin paired[d]
      <4>1. Telling(d, p)' <=> Telling(d, p)
        BY <1>4, <1>7, <3>1, <3>3 DEF Telling
      <4> QED BY <1>2, <1>3, <1>7, <3>1, <3>3, <4>1, AgreesStays DEF Same
    <3> QED BY <3>2, <3>3
  <2>2. CASE LoseUnpair(p, d)
    <3>1. paired' = paired /\ notice[p][d].handler = "coming"
      BY <2>2 DEF LoseUnpair, server
    <3>2. h # "telling"
      <4>1. notice'[p][d].handler = "over"
        <5>1. notice' = [notice EXCEPT ![p][d].handler = "over"]
          BY <2>2 DEF LoseUnpair
        <5> QED BY <1>1, <5>1 DEF NoticeOK, NoticeType
      <4> QED BY <1>5, <4>1
    <3>3. Telling(d, p)' <=> Telling(d, p)
      BY <1>7, <3>1, <3>2 DEF Telling
    <3> QED BY <1>2, <1>3, <1>7, <3>1, <3>3, AgreesStays DEF Same
  <2>3. CASE DropUnpair(p, d)
    <3>1. paired' = paired /\ Telling(d, p) /\ (<<d, p>> \notin crossed' => p \notin book[d])
      BY <2>3 DEF DropUnpair, Telling, Crossing, server
    <3> QED BY <1>2, <1>3, <1>7, <3>1 DEF Agrees
  <2> QED BY <2>1, <2>2, <2>3
<1>10. \A e, q \in Devices : e # d \/ q # p => Same(e, q)
  BY <1>2, <1>3, <1>7, <1>8 DEF Same
<1> QED BY <1>2, <1>9, <1>10, OneChanges

\* The runtime is told, after the list and before the database.
LEMMA TellUnpairedAgrees ==
    ASSUME PairingTypes, AllAgree, NEW p \in Devices, NEW d \in Devices, TellUnpaired(p, d)
    PROVE  AllAgree'
<1>1. NoticeOK /\ EventsOK
  BY TypesSplit DEF RestOK
<1>2. /\ UNCHANGED <<call, joining, book, paired, crossed>> /\ notice[p][d].handler = "telling"
      /\ notice' = [notice EXCEPT ![p][d].handler = "over"]
      /\ events' = [events EXCEPT ![d] = Append(@, Unpaired(p))]
  BY DEF TellUnpaired, asking, history
<1>3. /\ notice'[p][d].client = notice[p][d].client /\ notice'[p][d].handler = "over"
      /\ Elsewhere(p, d)
  <2>1. ~ServeUnpair(p, d)
    BY <1>2 DEF ServeUnpair
  <2> QED BY <1>1, <2>1, HandlerMoves
<1>4. /\ events'[d] = Append(events[d], Unpaired(p)) /\ events[d] \in Seq(EventType)
      /\ \A e \in Devices : e # d => events'[e] = events[e]
  BY <1>1, <1>2 DEF EventsOK
<1>5. Unpaired(p) \in EventType /\ \A q \in Devices : Unpaired(q) = Unpaired(p) => q = p
  BY DEF Unpaired, EventType
<1>6. \A q : InSeq(q, events'[d]) <=> InSeq(q, events[d]) \/ q = Unpaired(p)
  BY <1>4, <1>5, InAppended
<1>7. /\ ~IsHeard(d, p)'
      /\ \A e, q \in Devices : e # d \/ q # p => (IsHeard(e, q)' <=> IsHeard(e, q))
  BY <1>4, <1>5, <1>6 DEF IsHeard
<1>8. /\ \A e, q \in Devices : Telling(e, q)' <=> Telling(e, q)
      /\ \A e, q \in Devices : Leaving(e, q)' <=> Leaving(e, q)
  BY <1>2, <1>3, <1>7 DEF Telling, Leaving, Elsewhere
<1>9. \A e, q \in Devices : Adding(e, q)' <=> Adding(e, q)
  BY <1>2, AddingStays
<1>10. \A e, q \in Devices : Same(e, q)
  BY <1>2, <1>8, <1>9 DEF Same
<1> QED BY <1>2, <1>10, NothingChanges

LEMMA HearUnpairedAgrees ==
    ASSUME PairingTypes, AllAgree, NEW d \in Devices, HearUnpaired(d)
    PROVE  AllAgree'
<1>1. BookOK /\ EventsOK
  BY TypesSplit DEF RestOK
<1>2. PICK p \in Devices : Head(events[d]) = Unpaired(p)
  <2>1. Head(events[d]) \in EventType /\ Head(events[d]).kind = "unpaired"
    BY HeadIsEvent DEF HearUnpaired
  <2> QED BY <2>1 DEF EventType, Unpaired
<1>3. Head(events[d]).what = p
  BY <1>2 DEF Unpaired
<1>4. PICK stored \in BOOLEAN :
          /\ book' = IF stored THEN Unrecorded(d, Head(events[d]).what) ELSE book
          /\ Crossing(d, Head(events[d]).what, ~stored /\ Head(events[d]).what \in book[d])
  BY DEF HearUnpaired
<1>5. /\ events' = [events EXCEPT ![d] = Tail(@)] /\ events[d] # <<>>
      /\ UNCHANGED <<paired, call, joining, notice>>
  BY DEF HearUnpaired, asking
<1>6. /\ book' = IF stored THEN Unrecorded(d, p) ELSE book
      /\ Crossing(d, p, ~stored /\ p \in book[d])
  BY <1>3, <1>4, Zenon
<1>7. /\ crossed \subseteq crossed' /\ (<<d, p>> \in crossed' \/ p \notin book'[d])
      /\ \A e, q \in Devices : e # d \/ q # p => (q \in book'[e] <=> q \in book[e])
  BY <1>1, <1>6 DEF Crossing, Unrecorded, BookOK
<1>8. \A q \in Devices : Unpaired(q) = Unpaired(p) => q = p
  BY DEF Unpaired
<1>9. /\ events'[d] = Tail(events[d]) /\ events[d] \in Seq(EventType)
      /\ \A e \in Devices : e # d => events'[e] = events[e]
  BY <1>1, <1>5 DEF EventsOK
<1>10. \A q : InSeq(q, events[d]) <=> q = Unpaired(p) \/ InSeq(q, events'[d])
  BY <1>2, <1>5, <1>9, InTail
<1>11. ~IsHeard(d, p) /\ \A e, q \in Devices : e # d \/ q # p => (IsHeard(e, q)' <=> IsHeard(e, q))
  BY <1>8, <1>9, <1>10 DEF IsHeard
<1>12. /\ Telling(d, p)
       /\ \A e, q \in Devices : e # d \/ q # p => (Telling(e, q)' <=> Telling(e, q))
       /\ \A e, q \in Devices : Leaving(e, q)' <=> Leaving(e, q)
  BY <1>5, <1>11 DEF Telling, Leaving
<1>13. \A e, q \in Devices : Adding(e, q)' <=> Adding(e, q)
  BY <1>5, AddingStays
<1>14. <<d, p>> \in crossed' \/ (Agrees(d, p) => Agrees(d, p)')
  BY <1>5, <1>7, <1>12, <1>13 DEF Agrees
<1>15. \A e, q \in Devices : e # d \/ q # p => Same(e, q)
  BY <1>5, <1>7, <1>12, <1>13 DEF Same
<1> QED BY <1>7, <1>14, <1>15, OneChanges

\* A device to be forgotten leaves the database, whatever happened to it meanwhile.
LEMMA EndUnpairAgrees ==
    ASSUME PairingTypes, AllAgree, NEW d \in Devices, NEW p \in Devices, EndUnpair(d, p)
    PROVE  AllAgree'
<1>1. BookOK /\ NoticeOK
  BY TypesSplit DEF RestOK
<1>2. /\ UNCHANGED <<call, joining, events, paired>> /\ crossed \subseteq crossed'
      /\ notice' = [notice EXCEPT ![d][p].client = "over"] /\ notice[d][p].client = "waiting"
      /\ book' = IF notice[d][p].forget THEN Unrecorded(d, p) ELSE book
      /\ crossed' = IF notice[d][p].forget /\ (p \in paired[d] \/ Adding(d, p))
                    THEN crossed \cup {<<d, p>>} ELSE crossed
  BY DEF EndUnpair, Crossing, server, asking
<1>3. /\ notice'[d][p].handler = notice[d][p].handler /\ notice'[d][p].client = "over"
      /\ Elsewhere(d, p)
  BY <1>1, ClientEnds
<1>4. \A e, q \in Devices : IsHeard(e, q)' <=> IsHeard(e, q)
  BY <1>2 DEF IsHeard
<1>5. /\ \A e, q \in Devices : Telling(e, q)' <=> Telling(e, q)
      /\ \A e, q \in Devices : Leaving(e, q)' <=> Leaving(e, q)
  BY <1>2, <1>3, <1>4 DEF Telling, Leaving, Elsewhere
<1>6. \A e, q \in Devices : Adding(e, q)' <=> Adding(e, q)
  BY <1>2, AddingStays
<1>7. /\ \A e, q \in Devices : e # d \/ q # p => (q \in book'[e] <=> q \in book[e])
      /\ notice[d][p].forget => p \notin book'[d]
  BY <1>1, <1>2 DEF Unrecorded, BookOK
<1>8. <<d, p>> \in crossed' \/ (Agrees(d, p) => Agrees(d, p)')
  <2>1. CASE notice[d][p].forget
    BY <1>2, <1>5, <1>6, <1>7, <2>1 DEF Agrees
  <2>2. CASE ~notice[d][p].forget
    BY <1>2, <1>5, <1>6, <2>2, AgreesStays DEF Same
  <2> QED BY <2>1, <2>2
<1>9. \A e, q \in Devices : e # d \/ q # p => Same(e, q)
  BY <1>2, <1>5, <1>6, <1>7 DEF Same
<1> QED BY <1>2, <1>8, <1>9, OneChanges

\* Codes that differ: the other device is told of a pairing this one never had.
LEMMA RejectAgrees ==
    ASSUME PairingTypes, AllAgree, NEW d \in Devices, NEW p \in Devices,
           RejectCode(d, p) \/ \E c \in Calls : ToolReject(c) /\ call[c].from = d /\ call[c].to = p
    PROVE  AllAgree'
<1>1. NoticeOK /\ call \in [Calls -> CallType]
  BY TypesSplit DEF RestOK, PairingTypes, PairingTypeOK, CallType
<1>2. /\ UNCHANGED <<book, paired, events, joining, crossed>>
      /\ notice' = [notice EXCEPT ![d][p] = NewNotice]
      /\ NoticeIsOver(d, p)
  BY DEF RejectCode, ToolReject, MayWithdraw, server, asking
<1>3. notice'[d][p] = NewNotice /\ Elsewhere(d, p)
  BY <1>1, <1>2, NoticeNew
<1>4. \A c \in Calls : /\ IsYes(c)' <=> IsYes(c)
                       /\ IsYes(c) => call'[c].to = call[c].to /\ call'[c].from = call[c].from
  <2>1. CASE RejectCode(d, p)
    BY <2>1 DEF RejectCode, IsYes
  <2>2. ASSUME NEW c \in Calls, ToolReject(c)
        PROVE  \A e \in Calls : /\ IsYes(e)' <=> IsYes(e)
                                /\ IsYes(e) => call'[e].to = call[e].to /\ call'[e].from = call[e].from
    BY <1>1, <2>2 DEF ToolReject, IsYes, CallType
  <2> QED BY <2>1, <2>2
<1>5. \A e, q \in Devices : Adding(e, q)' <=> Adding(e, q)
  BY <1>2, <1>4, SameAdding
<1>6. /\ \A e, q \in Devices : Telling(e, q)' <=> Telling(e, q)
      /\ \A e, q \in Devices : e # d \/ q # p => (Leaving(e, q)' <=> Leaving(e, q))
  BY <1>2, <1>3, NothingTold DEF NoticeIsOver, NewNotice
<1>7. ~Leaving(d, p) /\ ~Leaving(d, p)'
  BY <1>2, <1>3 DEF Leaving, NoticeIsOver, NewNotice
<1>8. \A e, q \in Devices : Same(e, q)
  BY <1>2, <1>5, <1>6, <1>7 DEF Same
<1> QED BY <1>2, <1>8, NothingChanges

\* A restart reads the list from the database, and leaves nothing on its way.
LEMMA RestartAgrees ==
    ASSUME PairingTypes, AllAgree, NEW d \in Devices, Restart(d)
    PROVE  AllAgree'
<1>1. /\ BookOK /\ PairedOK /\ EventsOK /\ NoticeOK /\ AskOK
      /\ call \in [Calls -> CallType]
  BY TypesSplit DEF RestOK, PairingTypes, PairingTypeOK, CallType
<1>2. \A c \in Calls :
          /\ call'[c].to = call[c].to /\ call'[c].from = call[c].from
          /\ call'[c].decision = call[c].decision
          /\ call'[c].handler = IF call[c].to = d THEN "over" ELSE call[c].handler
  BY <1>1 DEF Restart, CallType
<1>3. \A e, q \in Devices :
          /\ notice'[e][q].client = IF e = d THEN "over" ELSE notice[e][q].client
          /\ notice'[e][q].handler = IF q = d THEN "over" ELSE notice[e][q].handler
  BY <1>1, NoticeRestarted
<1>4. /\ joining'[d] = {} /\ \A e \in Devices : e # d => joining'[e] = joining[e]
      /\ events'[d] = <<>> /\ \A e \in Devices : e # d => events'[e] = events[e]
      /\ book' = book /\ paired'[d] = book[d] /\ \A e \in Devices : e # d => paired'[e] = paired[e]
  BY <1>1 DEF Restart, AskOK, EventsOK, PairedOK
<1>5. ASSUME NEW p \in Devices PROVE Agrees(d, p)'
  <2>1. ~Adding(d, p)'
    BY <1>2, <1>4 DEF Adding, IsAccepting
  <2>2. IsHeard(d, p)'
    BY <1>4 DEF IsHeard, InSeq
  <2>3. ~Leaving(d, p)' /\ ~Telling(d, p)'
    BY <1>3, <2>2 DEF Leaving, Telling
  <2> QED BY <1>4, <2>1, <2>3 DEF Agrees
<1>6. ASSUME NEW e \in Devices, NEW p \in Devices, e # d, <<e, p>> \notin crossed'
      PROVE  Agrees(e, p)'
  <2>1. <<e, p>> \notin crossed
    BY <1>6 DEF Restart
  <2>2. Adding(e, p)' <=> Adding(e, p)
    BY <1>2, <1>4, <1>6 DEF Adding, IsAccepting
  <2>3. IsHeard(e, p)' <=> IsHeard(e, p)
    BY <1>4, <1>6 DEF IsHeard
  <2>4. (Leaving(e, p)' <=> Leaving(e, p)) /\ (Telling(e, p)' <=> Telling(e, p))
    BY <1>3, <1>6, <2>3 DEF Leaving, Telling
  <2> QED BY <1>4, <1>6, <2>1, <2>2, <2>4, AgreesStays DEF AllAgree, Same
<1> QED BY <1>5, <1>6 DEF AllAgree

\* A withdrawal that has not been sent has no handler.
LEMMA LeavesAloneStep ==
    ASSUME PairingTypes, LeavesAlone, [PairingNext]_pairingVars
    PROVE  LeavesAlone'
<1>0. NoticeOK
  BY TypesSplit DEF RestOK
<1>1. CASE notice' = notice
  BY <1>1 DEF LeavesAlone, Leaving
<1>2. ASSUME NEW d \in Devices, NEW p \in Devices, Elsewhere(d, p),
             notice'[d][p].client = "leaving" => notice'[d][p].handler = "over"
      PROVE  LeavesAlone'
  <2> SUFFICES ASSUME NEW e \in Devices, NEW q \in Devices, Leaving(e, q)'
               PROVE  notice'[e][q].handler = "over"
    BY DEF LeavesAlone
  <2>1. CASE e = d /\ q = p
    BY <1>2, <2>1 DEF Leaving
  <2>2. CASE e # d \/ q # p
    BY <1>2, <2>2 DEF Elsewhere, LeavesAlone, Leaving
  <2> QED BY <2>1, <2>2
<1>3. ASSUME NEW d \in Devices, NEW p \in Devices,
             RejectCode(d, p) \/ ToolUnpair(d, p)
             \/ \E c \in Calls : ToolReject(c) /\ call[c].from = d /\ call[c].to = p
      PROVE  LeavesAlone'
  <2>1. notice'[d][p] = NewNotice /\ Elsewhere(d, p)
    <3>1. notice' = [notice EXCEPT ![d][p] = NewNotice]
      BY <1>3 DEF RejectCode, ToolUnpair, ToolReject
    <3> QED BY <1>0, <3>1, NoticeNew
  <2> QED BY <1>2, <2>1 DEF NewNotice
<1>4. ASSUME NEW d \in Devices, NEW p \in Devices, NEW forget \in BOOLEAN, UnpairDevice(d, p, forget)
      PROVE  LeavesAlone'
  <2>1. notice'[d][p].handler = "over" /\ Elsewhere(d, p)
    BY <1>0, <1>4, NoticeLeaving
  <2> QED BY <1>2, <2>1
<1>5. ASSUME NEW d \in Devices, NEW p \in Devices, RemovePaired(d, p) PROVE LeavesAlone'
  <2>1. notice'[d][p].client = "waiting" /\ Elsewhere(d, p)
    BY <1>0, <1>5, ClientSends
  <2> QED BY <1>2, <2>1
<1>6. ASSUME NEW d \in Devices, NEW p \in Devices, EndUnpair(d, p) PROVE LeavesAlone'
  <2>1. notice'[d][p].client = "over" /\ Elsewhere(d, p)
    BY <1>0, <1>6, ClientEnds
  <2> QED BY <1>2, <2>1
<1>7. ASSUME NEW d \in Devices, NEW p \in Devices,
             ServeUnpair(d, p) \/ TellUnpaired(d, p) \/ LoseUnpair(d, p) \/ DropUnpair(d, p)
      PROVE  LeavesAlone'
  <2>1. notice[d][p].handler # "over"
    BY <1>7 DEF ServeUnpair, TellUnpaired, LoseUnpair, DropUnpair
  <2>2. notice'[d][p].client = notice[d][p].client /\ Elsewhere(d, p)
    BY <1>0, <1>7, HandlerMoves
  <2>3. ~Leaving(d, p)
    BY <2>1 DEF LeavesAlone
  <2> QED BY <1>2, <2>2, <2>3 DEF Leaving
<1>8. ASSUME NEW d \in Devices, Restart(d) PROVE LeavesAlone'
  <2>1. \A e, q \in Devices :
            /\ notice'[e][q].client = IF e = d THEN "over" ELSE notice[e][q].client
            /\ notice'[e][q].handler = IF q = d THEN "over" ELSE notice[e][q].handler
    BY <1>0, <1>8, NoticeRestarted
  <2> QED BY <2>1 DEF LeavesAlone, Leaving
<1>9. ASSUME NEW c \in Calls,
             CallStep(c) \/ \E d, p \in Devices, tool \in BOOLEAN : PairStart(c, d, p, tool)
      PROVE  LeavesAlone'
  <2>1. CASE ToolReject(c)
    <3>1. call[c].from \in Devices /\ call[c].to \in Devices
      BY <2>1, SentCall DEF ToolReject, HasReply
    <3> QED BY <1>3, <2>1, <3>1
  <2>2. CASE ~ToolReject(c)
    BY <1>1, <1>9, <2>2
       DEF CallStep, PairStart, ServePair, RefuseBusy, TellRequest, FinishPair, TimeOutPair,
           GiveUpPair, DropPair, HearReply, ToolConfirm
  <2> QED BY <2>1, <2>2
<1>10. ASSUME NEW d \in Devices, HearRequest(d) \/ HearUnpaired(d) PROVE LeavesAlone'
  BY <1>1, <1>10 DEF HearRequest, HearUnpaired
<1>11. ASSUME NEW d \in Devices, NEW p \in Devices,
              \/ \E yes \in BOOLEAN : RespondPair(d, p, yes)
              \/ ConfirmPair(d, p) \/ ConfirmFails(d, p) \/ AddPaired(d, p) \/ RemoveRow(d, p)
       PROVE  LeavesAlone'
  BY <1>1, <1>11 DEF RespondPair, ConfirmPair, ConfirmFails, AddPaired, RemoveRow
<1>12. CASE UNCHANGED pairingVars
  BY <1>1, <1>12 DEF pairingVars
<1> QED BY <1>3, <1>4, <1>5, <1>6, <1>7, <1>8, <1>9, <1>10, <1>11, <1>12
        DEF PairingNext, WithdrawStep

LEMMA AgreeStep ==
    ASSUME PairingTypes, AllAgree, LeavesAlone, [PairingNext]_pairingVars
    PROVE  AllAgree'
<1>1. CASE UNCHANGED <<book, paired, events, call, joining, notice, crossed>>
  <2>1. \A d, p \in Devices : Same(d, p)
    BY <1>1, AddingStays, RemovingStays DEF Same
  <2> QED BY <1>1, <2>1, NothingChanges
<1>2. ASSUME NEW d \in Devices, NEW p \in Devices, ConfirmFails(d, p)
      PROVE  UNCHANGED <<book, paired, events, call, joining, notice, crossed>>
  BY <1>2 DEF ConfirmFails, server
<1>3. UNCHANGED pairingVars => UNCHANGED <<book, paired, events, call, joining, notice, crossed>>
  BY DEF pairingVars, server, asking, history
<1>4. ASSUME NEW c \in Calls,
             CallStep(c) \/ \E d, p \in Devices, tool \in BOOLEAN : PairStart(c, d, p, tool)
      PROVE  AllAgree'
  <2>1. CASE ToolReject(c)
    <3>1. call[c].from \in Devices /\ call[c].to \in Devices
      BY <2>1, SentCall DEF ToolReject, HasReply
    <3> QED BY <2>1, <3>1, RejectAgrees
  <2>2. CASE ~ToolReject(c)
    BY <1>4, <2>2, IdleCallAgrees, HandlerAgrees, ToolConfirmAgrees DEF CallStep
  <2> QED BY <2>1, <2>2
<1>5. ASSUME NEW d \in Devices, HearRequest(d) \/ HearUnpaired(d) \/ Restart(d)
      PROVE  AllAgree'
  BY <1>5, HearRequestAgrees, HearUnpairedAgrees, RestartAgrees
<1>6. ASSUME NEW d \in Devices, NEW p \in Devices,
             \E yes \in BOOLEAN : RespondPair(d, p, yes) \/ UnpairDevice(d, p, yes)
      PROVE  AllAgree'
  BY <1>6, RespondAgrees, UnpairAgrees
<1>7. ASSUME NEW d \in Devices, NEW p \in Devices, WithdrawStep(d, p)
      PROVE  AllAgree'
  BY <1>7, RemovePairedAgrees, UnpairAgrees, ServeUnpairAgrees, TellUnpairedAgrees, EndUnpairAgrees
     DEF WithdrawStep
<1>8. ASSUME NEW d \in Devices, NEW p \in Devices,
             ConfirmPair(d, p) \/ ConfirmFails(d, p) \/ AddPaired(d, p) \/ RejectCode(d, p)
      PROVE  AllAgree'
  BY <1>1, <1>2, <1>8, ConfirmAgrees, RejectAgrees
<1> QED BY <1>1, <1>3, <1>4, <1>5, <1>6, <1>7, <1>8 DEF PairingNext

\* What the server trusts is what the database says, whatever requests, withdrawals,
\* dropped handlers and restarts there were, once the task that writes the two places is
\* through with both; but for the two tasks that crossed, the write that failed, the
\* withdrawal whose handler was dropped and what the tool wrote: the tasks that write the
\* two places take no lock together, and the tool does not tell the server.
THEOREM PairingListsAgree == PairingSpec => []ListsAgree
<1>1. PairingInit => AllAgree /\ LeavesAlone
  <2> SUFFICES ASSUME PairingInit, NEW d \in Devices, NEW p \in Devices
               PROVE Agrees(d, p) /\ ~Leaving(d, p)
    BY DEF AllAgree, LeavesAlone
  <2>1. /\ paired[d] = {} /\ book[d] = {} /\ events[d] = <<>> /\ joining[d] = {}
        /\ notice[d][p] = NoNotice /\ notice[p][d] = NoNotice
    BY DEF PairingInit
  <2>2. IsHeard(d, p) /\ ~Adding(d, p) /\ ~Leaving(d, p) /\ ~Telling(d, p)
    BY <2>1 DEF PairingInit, IsHeard, InSeq, Adding, IsAccepting, NoCall, NoNotice, Leaving, Telling
  <2> QED BY <2>1, <2>2 DEF Agrees
<1>2. PairingTypes /\ AllAgree /\ LeavesAlone /\ [PairingNext]_pairingVars => AllAgree' /\ LeavesAlone'
  BY AgreeStep, LeavesAloneStep
<1>3. AllAgree => ListsAgree
  BY DEF AllAgree, Agrees, ListsAgree, Removing, Leaving, Telling
<1> QED BY <1>1, <1>2, <1>3, AlwaysTyped, PTL DEF PairingSpec
==============================================================================
