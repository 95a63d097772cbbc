---------------------------- MODULE Devices_proofs ----------------------------
(***************************************************************************)
(* Proofs about Devices, for any number of peers and addresses, of events  *)
(* in the channel and of failures, from DevicesAssumption alone.           *)
(***************************************************************************)
EXTENDS Devices, TLAPS, SequenceTheorems, WellFoundedInduction

------------------------------------------------------------------------------
(* The invariant.                                                          *)

\* Who works on a device knows one, and what to report of it.
TasksKnow ==
    /\ forwarder.pc # "idle" => forwarder.peer \in Peers /\ forwarder.addr \in Addresses
    /\ forwarder.pc = "noted" => forwarder.view \in Views
    /\ liveness.pc \in {"losing", "lost"} => liveness.peer \in Peers
    /\ \A l \in liveness.left : l[1] \in Peers /\ l[2] \in Addresses
    /\ command.pc # "idle" => command.peer \in Peers /\ book[command.peer] # None
    /\ command.pc \in {"computed", "noted"} => command.view \in Views

\* What was last noted of a device is what is shown of it.
Matches(p) == IF lastViews[p] # None THEN shown[p] = lastViews[p]
              ELSE shown[p] = None \/ ~shown[p].online

\* The task that has noted something of a device and has yet to emit it.
HasFound(p) == forwarder.pc = "noted" /\ forwarder.peer = p
HasLost(p) == liveness.pc = "lost" /\ liveness.peer = p
HasView(p) == command.pc = "noted" /\ command.peer = p

\* Unless two tasks passed each other, at most one of them works on a device; what it
\* has yet to emit is what was noted last, and what is shown is behind what was noted
\* only while there is something to emit.
AloneWith(p) ==
    /\ ~(IsForwarding(p) /\ IsLosing(p))
    /\ ~(IsForwarding(p) /\ IsCommanded(p))
    /\ ~(IsLosing(p) /\ IsCommanded(p))
NotedLast(p) ==
    /\ HasFound(p) => lastViews[p] = forwarder.view
    /\ HasLost(p) => lastViews[p] = None
    /\ HasView(p) => lastViews[p] = command.view
Follows(p) ==
    IsPlain(p) =>
        /\ AloneWith(p) /\ NotedLast(p)
        /\ Matches(p) \/ HasFound(p) \/ HasLost(p) \/ HasView(p)
ShownFollows == \A p \in Peers : Follows(p)

\* No two devices are at one address, and a scan has found whoever was there from its
\* beginning, or has yet to ask at its address.
IsFoundThere(p) == IsFound(p) /\ Target(p) = at[p]
RoundCovers ==
    /\ \A p, q \in Peers : at[p] = at[q] => p = q \/ at[p] = None
    /\ \A p \in round.present : at[p] # None
    /\ round.pc = "scanning" =>
          \A p \in round.present : IsFoundThere(p) \/ at[p] \in round.left
    /\ round.pc = "idle" => round.left = {}

DevicesInv == DevicesTypeOK /\ TasksKnow /\ ShownFollows /\ RoundCovers

------------------------------------------------------------------------------
(* The addresses of a device.                                              *)

\* An address comes first, and is there once.
LEMMA MergedFacts ==
    ASSUME NEW older \in Seq(Addresses), IsInjective(older), NEW x \in Addresses
    PROVE  /\ Merged(x, older) \in Seq(Addresses)
           /\ Len(Merged(x, older)) \in 1..MaxAddresses
           /\ IsInjective(Merged(x, older))
           /\ Head(Merged(x, older)) = x
<1> DEFINE rest == RemoveFirst(older, x)
           all == <<x>> \o rest
           n == IF Len(all) < MaxAddresses THEN Len(all) ELSE MaxAddresses
<1>1. /\ rest \in Seq(Addresses) /\ \A i \in 1..Len(rest) : rest[i] # x
      /\ \A i, j \in 1..Len(rest) : rest[i] = rest[j] => i = j
  <2>0. older \in [1..Len(older) -> Addresses] /\ Len(older) \in Nat
        /\ \A i, j \in 1..Len(older) : older[i] = older[j] => i = j
    BY DEF IsInjective
  <2>1. CASE \E i \in 1..Len(older) : older[i] = x
    <3> DEFINE I == {i \in 1..Len(older) : older[i] = x}
    <3>1. PICK k \in 1..Len(older) : older[k] = x
      BY <2>1
    <3>2. I = {k}
      BY <2>0, <3>1
    <3>3. SelectInSeq(older, LAMBDA v : v = x) = Min(I)
      BY <3>2 DEF SelectInSeq
    <3>4. Min(I) = k
      <4>1. k \in I /\ \A j \in I : k <= j
        BY <3>2, <2>0
      <4> HIDE DEF I
      <4> QED BY <3>2, <4>1 DEF Min
    <3>5. rest = SubSeq(older, 1, k - 1) \o SubSeq(older, k + 1, Len(older))
      BY <2>1, <3>3, <3>4 DEF RemoveFirst, RemoveAt
    <3> DEFINE a == SubSeq(older, 1, k - 1)
               b == SubSeq(older, k + 1, Len(older))
    <3>6. /\ a \in Seq(Addresses) /\ Len(a) = k - 1 /\ \A i \in 1..(k - 1) : a[i] = older[i]
      BY <2>0
    <3>7. /\ b \in Seq(Addresses) /\ Len(b) = Len(older) - k
          /\ \A i \in 1..(Len(older) - k) : b[i] = older[k + i]
      <4>1. /\ b \in Seq(Addresses) /\ Len(b) = Len(older) - k
            /\ \A i \in 1..(Len(older) - k) : b[i] = older[(k + 1) + i - 1]
        <5>0. k \in Nat /\ k >= 1 /\ k <= Len(older) /\ Len(older) \in Nat
          BY <2>0
        <5>1. k + 1 \in Int /\ Len(older) \in Int /\ \A i \in (k + 1)..Len(older) : older[i] \in Addresses
          <6>1. \A i \in (k + 1)..Len(older) : i \in 1..Len(older)
            BY <5>0
          <6> QED BY <2>0, <5>0, <6>1
        <5>2. /\ b \in Seq(Addresses)
              /\ Len(b) = IF k + 1 <= Len(older) THEN Len(older) - (k + 1) + 1 ELSE 0
              /\ \A i \in 1..(Len(older) - (k + 1) + 1) : b[i] = older[(k + 1) + i - 1]
          BY <5>1, SubSeqProperties
        <5>3. Len(older) - (k + 1) + 1 = Len(older) - k /\ (~(k + 1 <= Len(older)) => Len(older) - k = 0)
          BY <5>0
        <5> HIDE DEF b
        <5> QED BY <5>2, <5>3
      <4>2. \A i \in 1..(Len(older) - k) : (k + 1) + i - 1 = k + i
        BY <2>0
      <4> QED BY <4>1, <4>2
    <3> HIDE DEF rest
    <3>10. rest = a \o b
      BY <3>5
    <3> HIDE DEF a, b
    <3>8. /\ rest \in Seq(Addresses) /\ Len(rest) = Len(older) - 1
          /\ \A i \in 1..Len(rest) : rest[i] = IF i < k THEN older[i] ELSE older[i + 1]
      <4>0. /\ rest \in Seq(Addresses) /\ Len(rest) = Len(a) + Len(b)
            /\ \A i \in 1 .. Len(a) + Len(b) : rest[i] = IF i <= Len(a) THEN a[i] ELSE b[i - Len(a)]
        BY <3>6, <3>7, <3>10, ConcatProperties
      <4>1. rest \in Seq(Addresses) /\ Len(rest) = Len(older) - 1
        BY <2>0, <3>6, <3>7, <4>0
      <4>2. \A i \in 1..(k - 1) : rest[i] = a[i]
        <5>1. Len(a) = k - 1 /\ Len(b) \in Nat
          BY <3>6, <3>7
        <5>2. \A i \in 1..(k - 1) : i \in 1 .. Len(a) + Len(b) /\ i <= Len(a)
          BY <2>0, <5>1
        <5> QED BY <4>0, <5>2
      <4>3. \A i \in k..Len(rest) : rest[i] = b[i - (k - 1)]
        BY <2>0, <3>6, <3>7, <4>0, <4>1
      <4>4. \A i \in k..Len(rest) : i - (k - 1) \in 1..(Len(older) - k) /\ k + (i - (k - 1)) = i + 1
        BY <2>0, <4>1
      <4>5. \A i \in k..Len(rest) : rest[i] = older[i + 1]
        BY <3>7, <4>3, <4>4
      <4>6. \A i \in 1..Len(rest) : IF i < k THEN i \in 1..(k - 1) ELSE i \in k..Len(rest)
        BY <2>0, <4>1
      <4> QED BY <3>6, <4>1, <4>2, <4>5, <4>6
    <3>9. \A i \in 1..Len(rest) :
              /\ i < k => i \in 1..Len(older) /\ i # k
              /\ ~(i < k) => i + 1 \in 1..Len(older) /\ i + 1 # k
      BY <2>0, <3>8
    <3> QED BY <2>0, <3>1, <3>8, <3>9
  <2>2. CASE ~ \E i \in 1..Len(older) : older[i] = x
    BY <2>0, <2>2 DEF RemoveFirst
  <2> QED BY <2>1, <2>2
<1> HIDE DEF rest
<1>2. /\ all \in Seq(Addresses) /\ Len(all) = 1 + Len(rest) /\ all[1] = x
      /\ \A i \in 1..Len(all) : i # 1 => all[i] = rest[i - 1]
  BY <1>1
<1>3. \A i, j \in 1..Len(all) : all[i] = all[j] => i = j
  <2> HIDE DEF all
  <2> SUFFICES ASSUME NEW i \in 1..Len(all), NEW j \in 1..Len(all), all[i] = all[j] PROVE i = j
    OBVIOUS
  <2>1. CASE i = 1 \/ j = 1
    BY <1>1, <1>2, <2>1
  <2>2. CASE i # 1 /\ j # 1
    <3>1. i - 1 \in 1..Len(rest) /\ j - 1 \in 1..Len(rest)
      BY <1>1, <1>2, <2>2
    <3>2. rest[i - 1] = rest[j - 1]
      BY <1>2, <2>2
    <3>3. i - 1 = j - 1
      BY <1>1, <3>1, <3>2
    <3> QED BY <1>2, <3>3
  <2> QED BY <2>1, <2>2
<1>4. n \in 1..Len(all) /\ n <= MaxAddresses
  BY <1>1, <1>2, DevicesAssumption
<1>5. Merged(x, older) = SubSeq(all, 1, n)
  BY DEF Merged, rest
<1> HIDE DEF all, n
<1>6. /\ Merged(x, older) \in Seq(Addresses) /\ Len(Merged(x, older)) = n
      /\ \A i \in 1..n : Merged(x, older)[i] = all[i]
  BY <1>2, <1>4, <1>5
<1>7. IsInjective(Merged(x, older))
  BY <1>2, <1>3, <1>4, <1>6 DEF IsInjective
<1> QED BY <1>2, <1>4, <1>6, <1>7, DevicesAssumption

------------------------------------------------------------------------------
(* The types.                                                              *)

EventType == [peer : Peers, addr : Addresses, news : BOOLEAN]
RoundType == [pc : {"idle", "probing", "scanning"}, left : SUBSET Addresses, quiet : BOOLEAN,
              present : SUBSET Peers]
FoundTypeOK ==
    /\ found \in [Peers -> Seq(Addresses)]
    /\ \A p \in Peers : Len(found[p]) <= MaxAddresses /\ IsInjective(found[p])
NetworkTypeOK ==
    /\ at \in [Peers -> OrNone(Addresses)] /\ others \subseteq Addresses
    /\ FoundTypeOK
    /\ sending \subseteq EventType
    /\ channel \in Seq(EventType) /\ Len(channel) <= Capacity
    /\ round \in RoundType

ListTypeOK ==
    /\ book \in [Peers -> OrNone(Rows)]
    /\ offline \subseteq Peers
    /\ lastViews \in [Peers -> OrNone(Views)] /\ shown \in [Peers -> OrNone(Views)]
    /\ failures \in [Peers -> 0..MaxFailures]
    /\ crossed \subseteq Peers /\ forgotten \subseteq Peers

ForwarderType == [pc : {"idle", "taken", "cleared", "noted"}, peer : OrNone(Peers),
                  addr : OrNone(Addresses), news : BOOLEAN, view : OrNone(Views)]
LivenessType == [pc : {"idle", "probing", "losing", "lost"}, left : SUBSET (Peers \X Addresses),
                 dead : SUBSET Peers, peer : OrNone(Peers)]
CommandType == [pc : {"idle", "changed", "computed", "noted", "removing"},
                peer : OrNone(Peers), view : OrNone(Views), forget : BOOLEAN]
TasksTypeOK ==
    /\ forwarder \in ForwarderType /\ liveness \in LivenessType /\ command \in CommandType

LEMMA TypeParts == DevicesTypeOK <=> NetworkTypeOK /\ ListTypeOK /\ TasksTypeOK
BY DEF DevicesTypeOK, NetworkTypeOK, FoundTypeOK, ListTypeOK, TasksTypeOK, EventType, RoundType,
       ForwarderType, LivenessType, CommandType

LEMMA TypePartsPrimed == DevicesTypeOK' <=> NetworkTypeOK' /\ ListTypeOK' /\ TasksTypeOK'
BY DEF DevicesTypeOK, NetworkTypeOK, FoundTypeOK, ListTypeOK, TasksTypeOK, EventType, RoundType,
       ForwarderType, LivenessType, CommandType

\* Where a device was last found.
LEMMA TargetIsAddress ==
    ASSUME FoundTypeOK, NEW p \in Peers, IsFound(p)
    PROVE  Target(p) \in Addresses
BY DEF FoundTypeOK, IsFound, Target

FoundAt(p, x) == IsFound(p) /\ Target(p) = x

\* A confirmation.
LEMMA ConfirmedFacts ==
    ASSUME NetworkTypeOK, NEW p \in Peers, NEW x \in Addresses, NEW r \in RoundType, Confirmed(p, x, r)
    PROVE  /\ FoundTypeOK' /\ sending' \subseteq EventType /\ round' \in RoundType
           /\ FoundAt(p, x)' /\ \A q \in Peers \ {p} : found'[q] = found[q]
           /\ round'.pc = r.pc /\ round'.left = r.left /\ round'.present = r.present /\ ~round'.quiet
<1>0. /\ found \in [Peers -> Seq(Addresses)]
      /\ \A q \in Peers : found[q] \in Seq(Addresses) /\ Len(found[q]) <= MaxAddresses /\ IsInjective(found[q])
  BY DEF NetworkTypeOK, FoundTypeOK
<1>1. /\ Merged(x, found[p]) \in Seq(Addresses) /\ Len(Merged(x, found[p])) \in 1..MaxAddresses
      /\ IsInjective(Merged(x, found[p])) /\ Head(Merged(x, found[p])) = x
  BY <1>0, MergedFacts
<1>2. found' = [found EXCEPT ![p] = Merged(x, found[p])]
  BY DEF Confirmed
<1>3. found' \in [Peers -> Seq(Addresses)] /\ found'[p] = Merged(x, found[p]) /\ \A q \in Peers \ {p} : found'[q] = found[q]
  BY <1>0, <1>1, <1>2
<1>4. FoundTypeOK' /\ FoundAt(p, x)'
  <2>1. Len(found'[p]) <= MaxAddresses /\ found'[p] # <<>>
    BY <1>1, <1>3, DevicesAssumption
  <2>2. \A q \in Peers : Len(found'[q]) <= MaxAddresses /\ IsInjective(found'[q])
    BY <1>0, <1>1, <1>3, <2>1
  <2> QED BY <1>1, <1>3, <2>1, <2>2 DEF FoundTypeOK, FoundAt, IsFound, Target
<1>5. sending' \subseteq EventType
  <2>1. (~IsFound(p)) \in BOOLEAN
    OBVIOUS
  <2>2. [peer |-> p, addr |-> x, news |-> ~IsFound(p)] \in EventType
    BY <2>1 DEF EventType
  <2> QED BY <2>2 DEF Confirmed, NetworkTypeOK
<1>6. /\ round' \in RoundType /\ round'.pc = r.pc /\ round'.left = r.left /\ round'.present = r.present
      /\ ~round'.quiet
  BY DEF Confirmed, RoundType
<1> QED BY <1>3, <1>4, <1>5, <1>6

\* A register request: a device that is found by it is found where it is.
LEMMA RegisteredFacts ==
    ASSUME NetworkTypeOK, NEW x \in Addresses, NEW r \in RoundType, Registered(x, r)
    PROVE  /\ FoundTypeOK' /\ sending' \subseteq EventType /\ round' \in RoundType
           /\ round'.pc = r.pc /\ round'.left = r.left /\ round'.present = r.present
           /\ \A q \in Peers : found'[q] = found[q] \/ (at[q] = x /\ FoundAt(q, x)')
           /\ \A q \in Peers : at[q] = x => \E p \in Peers : at[p] = x /\ FoundAt(p, x)'
<1>1. ASSUME NEW p \in Peers, at[p] = x, Confirmed(p, x, r)
      PROVE  /\ FoundTypeOK' /\ sending' \subseteq EventType /\ round' \in RoundType
             /\ round'.pc = r.pc /\ round'.left = r.left /\ round'.present = r.present
             /\ \A q \in Peers : found'[q] = found[q] \/ (at[q] = x /\ FoundAt(q, x)')
             /\ \A q \in Peers : at[q] = x => \E u \in Peers : at[u] = x /\ FoundAt(u, x)'
  <2>1. /\ FoundTypeOK' /\ sending' \subseteq EventType /\ round' \in RoundType
        /\ FoundAt(p, x)' /\ \A q \in Peers \ {p} : found'[q] = found[q]
        /\ round'.pc = r.pc /\ round'.left = r.left /\ round'.present = r.present
    BY <1>1, ConfirmedFacts
  <2> QED BY <1>1, <2>1, Zenon
<1>2. ASSUME \A p \in Peers : at[p] # x,
             round' = IF x \in others THEN [r EXCEPT !.quiet = FALSE] ELSE r,
             UNCHANGED <<found, sending>>
      PROVE  /\ FoundTypeOK' /\ sending' \subseteq EventType /\ round' \in RoundType
             /\ round'.pc = r.pc /\ round'.left = r.left /\ round'.present = r.present
             /\ \A q \in Peers : found'[q] = found[q]
  BY <1>2 DEF NetworkTypeOK, FoundTypeOK, RoundType
<1>3. CASE \E p \in Peers : at[p] = x /\ Confirmed(p, x, r)
  BY <1>1, <1>3
<1>4. CASE /\ \A p \in Peers : at[p] # x
           /\ round' = IF x \in others THEN [r EXCEPT !.quiet = FALSE] ELSE r
           /\ UNCHANGED <<found, sending>>
  <2>1. /\ FoundTypeOK' /\ sending' \subseteq EventType /\ round' \in RoundType
        /\ round'.pc = r.pc /\ round'.left = r.left /\ round'.present = r.present
        /\ \A q \in Peers : found'[q] = found[q]
    BY <1>2, <1>4
  <2> QED BY <1>4, <2>1, Zenon
<1> QED BY <1>3, <1>4 DEF Registered

\* What a device is shown as.
LEMMA ViewType ==
    ASSUME ListTypeOK, NEW p \in Peers, NEW x \in Addresses, NEW online \in BOOLEAN
    PROVE  View(x, p, online) \in Views /\ View(x, p, online).online = online
<1>1. (book[p] # None /\ book[p].mark) \in BOOLEAN
  <2>1. book[p] # None => book[p] \in Rows
    BY DEF ListTypeOK, OrNone
  <2> QED BY <2>1 DEF Rows
<1> QED BY <1>1 DEF View, Views

LEMMA UpsertedType ==
    ASSUME ListTypeOK, NEW p \in Peers, NEW x \in Addresses
    PROVE  Upserted(p, x) \in [Peers -> OrNone(Rows)] /\ \A q \in Peers : book[q] # None => Upserted(p, x)[q] # None
<1> DEFINE new == [addr |-> x, mark |-> IF book[p] = None THEN FALSE ELSE book[p].mark]
<1>1. new \in Rows
  <2>1. book[p] # None => book[p] \in Rows
    BY DEF ListTypeOK, OrNone
  <2> QED BY <2>1 DEF Rows
<1>2. Upserted(p, x) = [book EXCEPT ![p] = new]
  BY DEF Upserted
<1> HIDE DEF new
<1>3. new # None
  BY <1>1, DevicesAssumption DEF Rows
<1> QED BY <1>1, <1>2, <1>3 DEF ListTypeOK, OrNone

\* What an action does when it leaves the network, the list or the tasks alone.
LEMMA NetworkTypesKept ==
    ASSUME NetworkTypeOK, UNCHANGED <<network, discovery>>
    PROVE  NetworkTypeOK'
BY DEF NetworkTypeOK, FoundTypeOK, network, discovery

LEMMA NetworkTypes ==
    ASSUME DevicesInv, DevicesNext
    PROVE  NetworkTypeOK'
<1>0. /\ NetworkTypeOK /\ ListTypeOK /\ TasksTypeOK /\ FoundTypeOK
      /\ at \in [Peers -> OrNone(Addresses)] /\ round \in RoundType /\ sending \subseteq EventType
      /\ channel \in Seq(EventType) /\ Len(channel) <= Capacity /\ Capacity \in Nat \ {0}
  BY TypeParts, DevicesAssumption DEF DevicesInv, NetworkTypeOK
<1>1. ASSUME NEW p \in Peers, NEW x \in Addresses \cup {None}, Move(p, x) PROVE NetworkTypeOK'
  BY <1>0, <1>1 DEF Move, NetworkTypeOK, FoundTypeOK, RoundType, OrNone
<1>2. ASSUME NEW x \in Addresses, Take(x) PROVE NetworkTypeOK'
  BY <1>0, <1>2 DEF Take, NetworkTypeOK, FoundTypeOK, discovery
<1>3. ASSUME NEW p \in Peers, HearRegister(p) \/ HearAnnouncement(p) PROVE NetworkTypeOK'
  <2>1. at[p] \in Addresses /\ Confirmed(p, at[p], round) /\ UNCHANGED <<network, channel>>
    BY <1>0, <1>3 DEF HearRegister, HearAnnouncement, OrNone
  <2>2. FoundTypeOK' /\ sending' \subseteq EventType /\ round' \in RoundType
    BY <1>0, <2>1, ConfirmedFacts
  <2> QED BY <1>0, <2>1, <2>2 DEF NetworkTypeOK, network
<1>4. ASSUME NEW e \in sending, SendEvent(e) PROVE NetworkTypeOK'
  <2>1. channel' \in Seq(EventType) /\ Len(channel') <= Capacity
    <3>1. e \in EventType /\ Len(channel) \in Nat
      BY <1>0
    <3>2. CASE Len(channel) < Capacity
      <4>1. channel' = Append(channel, e)
        BY <1>4, <3>2 DEF SendEvent
      <4> QED BY <1>0, <3>1, <3>2, <4>1
    <3>3. CASE ~(Len(channel) < Capacity)
      <4>1. channel' = Append(Tail(channel), e)
        BY <1>4, <3>3 DEF SendEvent
      <4>2. channel # <<>> /\ Len(channel) = Capacity
        BY <1>0, <3>1, <3>3
      <4>3. Tail(channel) \in Seq(EventType) /\ Len(Tail(channel)) = Len(channel) - 1
        BY <1>0, <4>2
      <4> QED BY <1>0, <3>1, <4>1, <4>2, <4>3
    <3> QED BY <3>2, <3>3
  <2>2. sending' \subseteq EventType /\ UNCHANGED <<network, found, round>>
    BY <1>0, <1>4 DEF SendEvent
  <2> QED BY <1>0, <2>1, <2>2 DEF NetworkTypeOK, FoundTypeOK, network
<1>5. ASSUME StartRound PROVE NetworkTypeOK'
  <2>1. \A q \in Peers : book[q] # None => book[q].addr \in Addresses
    BY <1>0 DEF ListTypeOK, OrNone, Rows
  <2>2. round' \in RoundType /\ UNCHANGED <<network, found, sending, channel>>
    BY <1>5, <2>1 DEF StartRound, RoundType
  <2> QED BY <1>0, <2>2 DEF NetworkTypeOK, FoundTypeOK, network
<1>6. ASSUME ScanSubnet \/ EndRound PROVE NetworkTypeOK'
  <2>1. round' \in RoundType /\ UNCHANGED <<network, found, sending, channel>>
    <3>1. NoRound \in RoundType
      BY DEF NoRound, RoundType
    <3>2. [round EXCEPT !.pc = "scanning", !.left = Addresses] \in RoundType
      BY <1>0 DEF RoundType
    <3>3. CASE ScanSubnet
      BY <3>2, <3>3 DEF ScanSubnet
    <3>4. CASE EndRound
      BY <3>1, <3>4 DEF EndRound
    <3> QED BY <1>6, <3>3, <3>4
  <2> QED BY <1>0, <2>1 DEF NetworkTypeOK, FoundTypeOK, network
<1>7. ASSUME NEW x \in Addresses, ProbeAddress(x) PROVE NetworkTypeOK'
  <2>1. [round EXCEPT !.left = @ \ {x}] \in RoundType
    BY <1>0 DEF RoundType
  <2>2. Registered(x, [round EXCEPT !.left = @ \ {x}]) /\ UNCHANGED <<network, channel>>
    BY <1>7 DEF ProbeAddress
  <2>3. FoundTypeOK' /\ sending' \subseteq EventType /\ round' \in RoundType
    BY <1>0, <2>1, <2>2, RegisteredFacts
  <2> QED BY <1>0, <2>2, <2>3 DEF NetworkTypeOK, network
<1>8. ASSUME TakeEvent PROVE NetworkTypeOK'
  <2>1. channel # <<>> /\ channel' = Tail(channel) /\ UNCHANGED <<network, found, sending, round>>
    BY <1>8 DEF TakeEvent
  <2>2. channel' \in Seq(EventType) /\ Len(channel') <= Capacity
    BY <1>0, <2>1
  <2> QED BY <1>0, <2>1, <2>2 DEF NetworkTypeOK, FoundTypeOK, network
<1>9. ASSUME NEW p \in Peers, NEW x \in Addresses, ProbeDevice(p, x) PROVE NetworkTypeOK'
  <2>1. Registered(x, round) /\ UNCHANGED <<network, channel>>
    BY <1>9 DEF ProbeDevice
  <2>2. FoundTypeOK' /\ sending' \subseteq EventType /\ round' \in RoundType
    BY <1>0, <2>1, RegisteredFacts
  <2> QED BY <1>0, <2>1, <2>2 DEF NetworkTypeOK, network
<1>10. ASSUME \/ ClearOffline \/ NoteFound \/ EmitFound
              \/ StartProbes \/ EndProbes \/ DropView \/ EmitLost \/ \E p \in Peers : Judge(p)
              \/ \E p \in Peers, forget \in BOOLEAN : StartCommand(p, forget)
              \/ CommandStep
       PROVE  NetworkTypeOK'
  <2>1. UNCHANGED <<network, discovery>>
    BY <1>10 DEF ClearOffline, NoteFound, EmitFound, StartProbes, EndProbes, DropView, EmitLost, Judge,
                 StartCommand, CommandStep, ComputeView, NoteView, EmitView, RemoveDevice
  <2> QED BY <1>0, <2>1, NetworkTypesKept
<1> QED BY <1>1, <1>2, <1>3, <1>4, <1>5, <1>6, <1>7, <1>8, <1>9, <1>10
        DEF DevicesNext, RoundStep, ForwarderStep, LivenessStep

\* What the tasks have in hand.
LEMMA TaskFacts ==
    ASSUME DevicesInv
    PROVE  /\ NetworkTypeOK /\ FoundTypeOK /\ ListTypeOK /\ TasksTypeOK /\ TasksKnow /\ ShownFollows /\ RoundCovers
           /\ forwarder \in ForwarderType /\ liveness \in LivenessType /\ command \in CommandType
           /\ NoForward \in ForwarderType /\ NoProbes \in LivenessType /\ NoCommand \in CommandType
           /\ channel \in Seq(EventType) /\ (channel # <<>> => Head(channel) \in EventType)
           /\ \A p \in Peers : book[p] # None => book[p] \in Rows
           /\ \A p \in Peers : lastViews[p] # None => lastViews[p] \in Views
           /\ \A p \in Peers : shown[p] # None => shown[p] \in Views
           /\ None \notin Views
<1>1. NetworkTypeOK /\ ListTypeOK /\ TasksTypeOK /\ TasksKnow /\ ShownFollows /\ RoundCovers
  BY TypeParts DEF DevicesInv
<1>2. NoForward \in ForwarderType /\ NoProbes \in LivenessType /\ NoCommand \in CommandType
  BY DEF NoForward, ForwarderType, NoProbes, LivenessType, NoCommand, CommandType, OrNone
<1> QED BY <1>1, <1>2, DevicesAssumption DEF NetworkTypeOK, ListTypeOK, TasksTypeOK, OrNone

\* The list.
LEMMA ListTypesKept ==
    ASSUME ListTypeOK, UNCHANGED <<list, failures>>
    PROVE  ListTypeOK'
BY DEF ListTypeOK, list

LEMMA ListTypes ==
    ASSUME DevicesInv, DevicesNext
    PROVE  ListTypeOK'
<1>0. /\ NetworkTypeOK /\ ListTypeOK /\ TasksTypeOK /\ TasksKnow /\ at \in [Peers -> OrNone(Addresses)]
      /\ forwarder \in ForwarderType /\ liveness \in LivenessType /\ command \in CommandType
      /\ (channel # <<>> => Head(channel) \in EventType)
      /\ MaxFailures \in Nat \ {0}
  BY TaskFacts, DevicesAssumption DEF NetworkTypeOK
<1> USE DEF list
<1>1. ASSUME NEW p \in Peers, HearRegister(p) PROVE ListTypeOK'
  <2>1. at[p] \in Addresses /\ book' = Upserted(p, at[p]) /\ UNCHANGED <<offline, lastViews, shown, crossed, forgotten, failures>>
    BY <1>0, <1>1 DEF HearRegister, OrNone
  <2> QED BY <1>0, <2>1, UpsertedType DEF ListTypeOK
<1>2. ASSUME TakeEvent PROVE ListTypeOK'
  <2>1. PICK e \in EventType : book' = Upserted(e.peer, e.addr)
    BY <1>0, <1>2 DEF TakeEvent
  <2>2. UNCHANGED <<offline, lastViews, shown, crossed, forgotten, failures>>
    BY <1>2 DEF TakeEvent
  <2>3. e.peer \in Peers /\ e.addr \in Addresses
    BY DEF EventType
  <2> QED BY <1>0, <2>1, <2>2, <2>3, UpsertedType DEF ListTypeOK
<1>3. ASSUME ClearOffline PROVE ListTypeOK'
  BY <1>0, <1>3 DEF ClearOffline, ListTypeOK, Crosses, TasksKnow
<1>4. ASSUME NoteFound PROVE ListTypeOK'
  <2>1. View(forwarder.addr, forwarder.peer, TRUE) \in Views
    BY <1>0, <1>4, ViewType DEF NoteFound, TasksKnow
  <2> QED BY <1>0, <1>4, <2>1 DEF NoteFound, ListTypeOK, OrNone
<1>5. ASSUME EmitFound PROVE ListTypeOK'
  BY <1>0, <1>5 DEF EmitFound, Show, TasksKnow, ListTypeOK, OrNone
<1>6. ASSUME NEW p \in Peers, NEW x \in Addresses, ProbeDevice(p, x) PROVE ListTypeOK'
  BY <1>0, <1>6 DEF ProbeDevice, ListTypeOK
<1>7. ASSUME NEW p \in Peers, Judge(p) PROVE ListTypeOK'
  <2>1. failures' \in [Peers -> 0..MaxFailures]
    <3>1. failures[p] \in 0..MaxFailures
      BY <1>0 DEF ListTypeOK
    <3>2. (IF failures[p] < MaxFailures THEN failures[p] + 1 ELSE MaxFailures) \in 0..MaxFailures
      BY <1>0, <3>1
    <3> QED BY <1>0, <1>7, <3>2 DEF Judge, ListTypeOK
  <2>2. /\ offline' \subseteq Peers /\ crossed' \subseteq Peers
        /\ UNCHANGED <<book, lastViews, shown, forgotten>>
    BY <1>0, <1>7 DEF Judge, Crosses, ListTypeOK
  <2> QED BY <1>0, <2>1, <2>2 DEF ListTypeOK
<1>8. ASSUME DropView PROVE ListTypeOK'
  BY <1>0, <1>8 DEF DropView, NotedGone, TasksKnow, ListTypeOK, OrNone
<1>9. ASSUME NEW p \in Peers, Lost(p) PROVE shown' \in [Peers -> OrNone(Views)]
  <2>1. shown[p] # None => [shown[p] EXCEPT !.online = FALSE] \in Views
    BY <1>0 DEF ListTypeOK, OrNone, Views
  <2> QED BY <1>0, <1>9, <2>1 DEF Lost, ListTypeOK, OrNone
<1>10. ASSUME EmitLost PROVE ListTypeOK'
  <2>1. shown' \in [Peers -> OrNone(Views)]
    BY <1>0, <1>9, <1>10 DEF EmitLost, TasksKnow
  <2> QED BY <1>0, <1>10, <2>1 DEF EmitLost, ListTypeOK
<1>11. ASSUME NEW p \in Peers, NEW forget \in BOOLEAN, StartCommand(p, forget) PROVE ListTypeOK'
  <2>1. book' \in [Peers -> OrNone(Rows)]
    <3>1. book[p] \in Rows
      BY <1>0, <1>11 DEF StartCommand, ListTypeOK, OrNone
    <3>2. [book[p] EXCEPT !.mark = ~@] \in Rows
      BY <3>1 DEF Rows
    <3>3. book' = book \/ book' = [book EXCEPT ![p] = [book[p] EXCEPT !.mark = ~@]]
      BY <1>0, <1>11 DEF StartCommand, ListTypeOK
    <3> QED BY <1>0, <3>2, <3>3 DEF ListTypeOK, OrNone
  <2> QED BY <1>0, <1>11, <2>1 DEF StartCommand, Crosses, ListTypeOK
<1>12. ASSUME NoteView PROVE ListTypeOK'
  BY <1>0, <1>12 DEF NoteView, TasksKnow, ListTypeOK, OrNone
<1>13. ASSUME EmitView PROVE ListTypeOK'
  BY <1>0, <1>13 DEF EmitView, Show, TasksKnow, ListTypeOK, OrNone
<1>14. ASSUME RemoveDevice PROVE ListTypeOK'
  <2>1. command.peer \in Peers
    BY <1>0, <1>14 DEF RemoveDevice, TasksKnow
  <2>2. shown' \in [Peers -> OrNone(Views)]
    BY <1>9, <1>14, <2>1 DEF RemoveDevice
  <2> QED BY <1>0, <1>14, <2>1, <2>2 DEF RemoveDevice, ListTypeOK, OrNone
<1>15. ASSUME \/ \E p \in Peers, x \in Addresses \cup {None} : Move(p, x)
              \/ \E x \in Addresses : Take(x) \/ ProbeAddress(x)
              \/ \E p \in Peers : HearAnnouncement(p)
              \/ \E e \in sending : SendEvent(e)
              \/ StartRound \/ ScanSubnet \/ EndRound \/ StartProbes \/ EndProbes \/ ComputeView
       PROVE  ListTypeOK'
  <2>1. UNCHANGED <<list, failures>>
    BY <1>15 DEF Move, Take, ProbeAddress, HearAnnouncement, SendEvent, StartRound, ScanSubnet, EndRound,
                 StartProbes, EndProbes, ComputeView
  <2> QED BY <1>0, <2>1, ListTypesKept
<1> QED BY <1>1, <1>2, <1>3, <1>4, <1>5, <1>6, <1>7, <1>8, <1>10, <1>11, <1>12, <1>13, <1>14, <1>15
        DEF DevicesNext, RoundStep, ForwarderStep, LivenessStep, CommandStep

\* The tasks.
LEMMA TasksTypesKept ==
    ASSUME TasksTypeOK, TasksKnow, UNCHANGED <<forwarder, liveness, command>>,
           \A p \in Peers : book[p] # None => book'[p] # None
    PROVE  TasksTypeOK' /\ TasksKnow'
BY DEF TasksTypeOK, TasksKnow

LEMMA TasksTypes ==
    ASSUME DevicesInv, DevicesNext
    PROVE  TasksTypeOK' /\ TasksKnow'
<1>0. /\ NetworkTypeOK /\ FoundTypeOK /\ ListTypeOK /\ TasksTypeOK /\ TasksKnow
      /\ at \in [Peers -> OrNone(Addresses)]
      /\ forwarder \in ForwarderType /\ liveness \in LivenessType /\ command \in CommandType
      /\ NoForward \in ForwarderType /\ NoProbes \in LivenessType /\ NoCommand \in CommandType
      /\ (channel # <<>> => Head(channel) \in EventType)
      /\ \A p \in Peers : book[p] # None => book[p] \in Rows
  BY TaskFacts DEF NetworkTypeOK
<1> USE DEF list
<1>1. ASSUME NEW p \in Peers, HearRegister(p) PROVE TasksTypeOK' /\ TasksKnow'
  <2>1. at[p] \in Addresses /\ book' = Upserted(p, at[p]) /\ UNCHANGED <<forwarder, liveness, command>>
    BY <1>0, <1>1 DEF HearRegister, OrNone
  <2> QED BY <1>0, <2>1, UpsertedType, TasksTypesKept
<1>2. ASSUME TakeEvent PROVE TasksTypeOK' /\ TasksKnow'
  <2>1. PICK e \in EventType :
           /\ book' = Upserted(e.peer, e.addr)
           /\ forwarder' = [NoForward EXCEPT !.pc = "taken", !.peer = e.peer, !.addr = e.addr, !.news = e.news]
    BY <1>0, <1>2 DEF TakeEvent
  <2>2. UNCHANGED <<liveness, command>>
    BY <1>2 DEF TakeEvent
  <2>3. e.peer \in Peers /\ e.addr \in Addresses /\ e.news \in BOOLEAN
    BY DEF EventType
  <2>4. \A q \in Peers : book[q] # None => book'[q] # None
    BY <1>0, <2>1, <2>3, UpsertedType
  <2>5. /\ forwarder' \in ForwarderType /\ forwarder'.pc = "taken"
        /\ forwarder'.peer \in Peers /\ forwarder'.addr \in Addresses
    BY <1>0, <2>1, <2>3 DEF ForwarderType, OrNone
  <2> QED BY <1>0, <2>2, <2>4, <2>5 DEF TasksTypeOK, TasksKnow
<1>3. ASSUME ClearOffline PROVE TasksTypeOK' /\ TasksKnow'
  <2>1. (forwarder.news \/ (forwarder.peer \in offline)) \in BOOLEAN
    OBVIOUS
  <2>2. forwarder' = [forwarder EXCEPT !.pc = "cleared", !.news = forwarder.news \/ (forwarder.peer \in offline)]
    BY <1>0, <1>3 DEF ClearOffline, ForwarderType
  <2>3. /\ forwarder' \in ForwarderType /\ forwarder'.pc = "cleared"
        /\ forwarder'.peer = forwarder.peer /\ forwarder'.addr = forwarder.addr
    BY <1>0, <2>1, <2>2 DEF ForwarderType
  <2>4. forwarder.pc = "taken" /\ UNCHANGED <<liveness, command, book>>
    BY <1>3 DEF ClearOffline
  <2> QED BY <1>0, <2>3, <2>4 DEF TasksTypeOK, TasksKnow
<1>4. ASSUME NoteFound PROVE TasksTypeOK' /\ TasksKnow'
  <2> DEFINE view == View(forwarder.addr, forwarder.peer, TRUE)
  <2>1. view \in Views
    BY <1>0, <1>4, ViewType DEF NoteFound, TasksKnow
  <2>2. forwarder' = NoForward \/ forwarder' = [forwarder EXCEPT !.pc = "noted", !.view = view]
    BY <1>4 DEF NoteFound
  <2> HIDE DEF view
  <2>3. forwarder.pc = "cleared" /\ UNCHANGED <<liveness, command, book>>
    BY <1>4 DEF NoteFound
  <2>4. /\ forwarder' \in ForwarderType
        /\ forwarder'.pc # "idle" => forwarder'.peer \in Peers /\ forwarder'.addr \in Addresses
        /\ forwarder'.pc = "noted" => forwarder'.view \in Views
    <3>1. CASE forwarder' = NoForward
      BY <1>0, <3>1 DEF NoForward
    <3>2. CASE forwarder' = [forwarder EXCEPT !.pc = "noted", !.view = view]
      BY <1>0, <2>1, <2>3, <3>2 DEF ForwarderType, OrNone, TasksKnow
    <3> QED BY <2>2, <3>1, <3>2
  <2> QED BY <1>0, <2>3, <2>4 DEF TasksTypeOK, TasksKnow
<1>5. ASSUME EmitFound PROVE TasksTypeOK' /\ TasksKnow'
  <2>1. forwarder' = NoForward /\ UNCHANGED <<liveness, command, book>>
    BY <1>5 DEF EmitFound
  <2>2. NoForward.pc = "idle"
    BY DEF NoForward
  <2> QED BY <1>0, <2>1, <2>2 DEF TasksTypeOK, TasksKnow
<1>6. ASSUME StartProbes \/ EndProbes PROVE TasksTypeOK' /\ TasksKnow'
  <2>1. UNCHANGED <<forwarder, command, book>>
    BY <1>6 DEF StartProbes, EndProbes
  <2>2. /\ liveness' \in LivenessType /\ liveness'.pc \notin {"losing", "lost"}
        /\ \A l \in liveness'.left : l[1] \in Peers /\ l[2] \in Addresses
    <3>1. CASE EndProbes
      BY <1>0, <3>1 DEF EndProbes, NoProbes
    <3>2. CASE StartProbes
      <4> DEFINE all == {<<p, Target(p)>> : p \in {q \in Peers : IsFound(q)}}
      <4>1. all \in SUBSET (Peers \X Addresses)
        BY <1>0, TargetIsAddress
      <4>2. liveness' = [NoProbes EXCEPT !.pc = "probing", !.left = all]
        BY <3>2 DEF StartProbes
      <4> HIDE DEF all
      <4> QED BY <1>0, <4>1, <4>2 DEF LivenessType
    <3> QED BY <1>6, <3>1, <3>2
  <2> QED BY <1>0, <2>1, <2>2 DEF TasksTypeOK, TasksKnow
<1>7. ASSUME NEW p \in Peers, NEW x \in Addresses, ProbeDevice(p, x) PROVE TasksTypeOK' /\ TasksKnow'
  <2> DEFINE dead == IF IsAnswered(x) THEN liveness.dead ELSE liveness.dead \cup {p}
             left == liveness.left \ {<<p, x>>}
  <2>1. dead \in SUBSET Peers /\ left \in SUBSET (Peers \X Addresses) /\ left \subseteq liveness.left
    BY <1>0 DEF LivenessType
  <2>2. liveness' = [liveness EXCEPT !.left = left, !.dead = dead]
    BY <1>0, <1>7 DEF ProbeDevice, LivenessType
  <2> HIDE DEF dead, left
  <2>3. /\ liveness' \in LivenessType /\ liveness'.pc = liveness.pc /\ liveness'.peer = liveness.peer
        /\ liveness'.left \subseteq liveness.left
    BY <1>0, <2>1, <2>2 DEF LivenessType
  <2>4. UNCHANGED <<forwarder, command, book>>
    BY <1>7 DEF ProbeDevice
  <2> QED BY <1>0, <2>3, <2>4 DEF TasksTypeOK, TasksKnow
<1>8. ASSUME NEW p \in Peers, Judge(p) PROVE TasksTypeOK' /\ TasksKnow'
  <2>1. UNCHANGED <<forwarder, command, book>> /\ liveness.pc = "probing"
    BY <1>8 DEF Judge
  <2>2. PICK gone \in BOOLEAN :
           liveness' = [liveness EXCEPT !.dead = @ \ {p}, !.pc = IF gone THEN "losing" ELSE @,
                                        !.peer = IF gone THEN p ELSE @]
    <3> DEFINE count == IF failures[p] < MaxFailures THEN failures[p] + 1 ELSE MaxFailures
               gone == IsGone(count) /\ p \notin offline
    <3>1. gone \in BOOLEAN
      OBVIOUS
    <3>2. liveness' = [liveness EXCEPT !.dead = @ \ {p}, !.pc = IF gone THEN "losing" ELSE @,
                                       !.peer = IF gone THEN p ELSE @]
      BY <1>8 DEF Judge
    <3> HIDE DEF gone
    <3> QED BY <3>1, <3>2
  <2>3. /\ liveness' \in LivenessType /\ liveness'.left = liveness.left
        /\ liveness'.pc \in {"losing", "lost"} => liveness'.peer \in Peers
    BY <1>0, <2>1, <2>2 DEF LivenessType, OrNone
  <2> QED BY <1>0, <2>1, <2>3 DEF TasksTypeOK, TasksKnow
<1>9. ASSUME DropView \/ EmitLost PROVE TasksTypeOK' /\ TasksKnow'
  <2>1. UNCHANGED <<forwarder, command, book>>
    BY <1>9 DEF DropView, EmitLost
  <2>2. /\ liveness' \in LivenessType /\ liveness'.left = liveness.left
        /\ liveness'.pc \in {"losing", "lost"} => liveness'.peer \in Peers
    <3>1. CASE DropView
      BY <1>0, <3>1 DEF DropView, LivenessType, TasksKnow
    <3>2. CASE EmitLost
      BY <1>0, <3>2 DEF EmitLost, LivenessType, OrNone
    <3> QED BY <1>9, <3>1, <3>2
  <2> QED BY <1>0, <2>1, <2>2 DEF TasksTypeOK, TasksKnow
<1>10. ASSUME NEW p \in Peers, NEW forget \in BOOLEAN, StartCommand(p, forget) PROVE TasksTypeOK' /\ TasksKnow'
  <2>1. /\ book[p] # None /\ UNCHANGED <<forwarder, liveness>>
        /\ command' = [pc |-> "changed", peer |-> p, view |-> None, forget |-> forget]
    BY <1>10 DEF StartCommand
  <2>2. \A q \in Peers : book[q] # None => book'[q] # None
    <3>1. book[p] \in Rows
      BY <1>0, <2>1
    <3>2. [book[p] EXCEPT !.mark = ~@] \in Rows
      BY <3>1 DEF Rows
    <3>3. book' = book \/ book' = [book EXCEPT ![p] = [book[p] EXCEPT !.mark = ~@]]
      BY <1>0, <1>10 DEF StartCommand, ListTypeOK
    <3> QED BY <1>0, <3>2, <3>3, DevicesAssumption DEF ListTypeOK
  <2>3. command' \in CommandType /\ command'.peer = p /\ command'.pc = "changed"
    BY <2>1 DEF CommandType, OrNone
  <2> QED BY <1>0, <2>1, <2>2, <2>3 DEF TasksTypeOK, TasksKnow
<1>11. ASSUME ComputeView PROVE TasksTypeOK' /\ TasksKnow'
  <2> DEFINE p == command.peer
  <2>1. command.pc = "changed" /\ UNCHANGED <<forwarder, liveness, book>> /\ p \in Peers /\ book[p] \in Rows
    BY <1>0, <1>11 DEF ComputeView, TasksKnow
  <2>2. DeviceView(p) \in Views
    <3>1. IsFound(p) => Target(p) \in Addresses
      BY <1>0, <2>1, TargetIsAddress
    <3>2. book[p].addr \in Addresses
      BY <2>1 DEF Rows
    <3>3. (p \notin offline) \in BOOLEAN
      OBVIOUS
    <3> HIDE DEF p
    <3> QED BY <1>0, <2>1, <3>1, <3>2, <3>3, ViewType DEF DeviceView
  <2>3. command' = [command EXCEPT !.pc = "computed", !.view = DeviceView(p)]
    BY <1>11 DEF ComputeView
  <2>4. command' \in CommandType /\ command'.peer = p /\ command'.view \in Views
    BY <1>0, <2>2, <2>3 DEF CommandType, OrNone
  <2> QED BY <1>0, <2>1, <2>4, DevicesAssumption DEF TasksTypeOK, TasksKnow
<1>12. ASSUME NoteView \/ EmitView PROVE TasksTypeOK' /\ TasksKnow'
  <2>1. UNCHANGED <<forwarder, liveness, book>> /\ command.pc \in {"computed", "noted"}
    BY <1>12 DEF NoteView, EmitView
  <2>2. /\ command' \in CommandType
        /\ command'.pc # "idle" => command'.peer = command.peer /\ command'.view = command.view
    <3>1. CASE NoteView
      BY <1>0, <3>1 DEF NoteView, CommandType
    <3>2. CASE EmitView
      <4>1. command' = NoCommand \/ command' = [command EXCEPT !.pc = "removing"]
        BY <3>2 DEF EmitView
      <4> QED BY <1>0, <4>1 DEF CommandType, NoCommand
    <3> QED BY <1>12, <3>1, <3>2
  <2> QED BY <1>0, <2>1, <2>2 DEF TasksTypeOK, TasksKnow
<1>13. ASSUME RemoveDevice PROVE TasksTypeOK' /\ TasksKnow'
  <2>1. command' = NoCommand /\ UNCHANGED <<forwarder, liveness>>
    BY <1>13 DEF RemoveDevice
  <2>2. NoCommand.pc = "idle"
    BY DEF NoCommand
  <2> QED BY <1>0, <2>1, <2>2 DEF TasksTypeOK, TasksKnow
<1>14. ASSUME \/ \E p \in Peers, x \in Addresses \cup {None} : Move(p, x)
              \/ \E x \in Addresses : Take(x) \/ ProbeAddress(x)
              \/ \E p \in Peers : HearAnnouncement(p)
              \/ \E e \in sending : SendEvent(e)
              \/ StartRound \/ ScanSubnet \/ EndRound
       PROVE  TasksTypeOK' /\ TasksKnow'
  <2>1. UNCHANGED <<book, forwarder, liveness, command>>
    BY <1>14 DEF Move, Take, ProbeAddress, HearAnnouncement, SendEvent, StartRound, ScanSubnet, EndRound
  <2> QED BY <1>0, <2>1, TasksTypesKept
<1> QED BY <1>1, <1>2, <1>3, <1>4, <1>5, <1>6, <1>7, <1>8, <1>9, <1>10, <1>11, <1>12, <1>13, <1>14
        DEF DevicesNext, RoundStep, ForwarderStep, LivenessStep, CommandStep

------------------------------------------------------------------------------
(* What is shown.                                                          *)

LEMMA ShownStep ==
    ASSUME DevicesInv, DevicesNext
    PROVE  ShownFollows'
<1> SUFFICES ASSUME NEW p \in Peers, IsPlain(p)'
             PROVE  AloneWith(p)' /\ NotedLast(p)'
                    /\ (Matches(p) \/ HasFound(p) \/ HasLost(p) \/ HasView(p))'
  BY DEF ShownFollows, Follows
<1> DEFINE Same == lastViews'[p] = lastViews[p] /\ shown'[p] = shown[p]
           SameTasks == /\ forwarder'.pc = forwarder.pc /\ forwarder'.peer = forwarder.peer
                        /\ forwarder'.view = forwarder.view
                        /\ liveness'.pc = liveness.pc /\ liveness'.peer = liveness.peer
                        /\ command'.pc = command.pc /\ command'.peer = command.peer
                        /\ command'.view = command.view
<1>1. IsPlain(p)
  <2>1. crossed \subseteq crossed' /\ forgotten \subseteq forgotten'
    BY DEF DevicesNext, RoundStep, ForwarderStep, LivenessStep, CommandStep, Move, Take, HearRegister,
           HearAnnouncement, SendEvent, StartRound, ScanSubnet, EndRound, ProbeAddress, TakeEvent, ClearOffline,
           NoteFound, EmitFound, StartProbes, EndProbes, DropView, EmitLost, Judge, ProbeDevice, StartCommand,
           ComputeView, NoteView, EmitView, RemoveDevice, Crosses, list
  <2> QED BY <2>1 DEF IsPlain
<1>0. /\ AloneWith(p) /\ NotedLast(p) /\ (Matches(p) \/ HasFound(p) \/ HasLost(p) \/ HasView(p))
      /\ ListTypeOK /\ TasksKnow
      /\ forwarder \in ForwarderType /\ liveness \in LivenessType /\ command \in CommandType
      /\ lastViews \in [Peers -> OrNone(Views)] /\ shown \in [Peers -> OrNone(Views)] /\ None \notin Views
  BY <1>1, TaskFacts DEF ShownFollows, Follows, ListTypeOK
<1> USE DEF AloneWith, NotedLast, Matches, HasFound, HasLost, HasView, IsForwarding, IsLosing, IsCommanded
<1>2. ASSUME Same, SameTasks
      PROVE  AloneWith(p)' /\ NotedLast(p)' /\ (Matches(p) \/ HasFound(p) \/ HasLost(p) \/ HasView(p))'
  BY <1>0, <1>2
<1>3. CASE \/ \E q \in Peers, x \in Addresses \cup {None} : Move(q, x)
           \/ \E x \in Addresses : Take(x) \/ ProbeAddress(x)
           \/ \E q \in Peers : HearRegister(q) \/ HearAnnouncement(q)
           \/ \E e \in sending : SendEvent(e)
           \/ StartRound \/ ScanSubnet \/ EndRound
           \/ \E q \in Peers, x \in Addresses : ProbeDevice(q, x)
  <2>1. UNCHANGED <<lastViews, shown, forwarder, command>>
    BY <1>3 DEF Move, Take, ProbeAddress, HearRegister, HearAnnouncement, SendEvent, StartRound, ScanSubnet,
                EndRound, ProbeDevice, list
  <2>2. liveness'.pc = liveness.pc /\ liveness'.peer = liveness.peer
    <3>1. CASE \E q \in Peers, x \in Addresses : ProbeDevice(q, x)
      BY <1>0, <3>1 DEF ProbeDevice, LivenessType
    <3>2. CASE UNCHANGED liveness
      BY <3>2
    <3> QED BY <1>3, <3>1, <3>2
            DEF Move, Take, ProbeAddress, HearRegister, HearAnnouncement, SendEvent, StartRound, ScanSubnet, EndRound
  <2> QED BY <1>2, <2>1, <2>2
<1>4. CASE TakeEvent
  <2>1. /\ UNCHANGED <<lastViews, shown, liveness, command>> /\ forwarder.pc = "idle"
        /\ forwarder'.pc = "taken"
    BY <1>4 DEF TakeEvent, NoForward
  <2> QED BY <1>0, <2>1
<1>5. CASE ClearOffline
  <2>1. /\ UNCHANGED <<lastViews, shown, liveness, command>> /\ forwarder.pc = "taken"
        /\ forwarder'.pc = "cleared" /\ forwarder'.peer = forwarder.peer
        /\ crossed' = IF IsLosing(forwarder.peer) \/ IsCommanded(forwarder.peer)
                      THEN crossed \cup {forwarder.peer} ELSE crossed
    BY <1>0, <1>5 DEF ClearOffline, Crosses, ForwarderType
  <2>2. forwarder.peer = p => ~IsLosing(p) /\ ~IsCommanded(p)
    BY <2>1 DEF IsPlain
  <2> QED BY <1>0, <2>1, <2>2
<1>6. CASE NoteFound
  <2> DEFINE q == forwarder.peer
             view == View(forwarder.addr, q, TRUE)
  <2>1. /\ UNCHANGED <<shown, liveness, command>> /\ forwarder.pc = "cleared"
        /\ lastViews' = [lastViews EXCEPT ![q] = view]
        /\ \/ forwarder' = [forwarder EXCEPT !.pc = "noted", !.view = view]
           \/ forwarder' = NoForward /\ lastViews[q] = view
    BY <1>6 DEF NoteFound
  <2>2. q \in Peers
    BY <1>0, <2>1 DEF TasksKnow
  <2> HIDE DEF view
  <2>3. CASE forwarder' = [forwarder EXCEPT !.pc = "noted", !.view = view]
    <3>1. forwarder'.pc = "noted" /\ forwarder'.peer = q /\ forwarder'.view = view
      BY <1>0, <2>3 DEF ForwarderType
    <3>2. IF p = q THEN lastViews'[p] = view ELSE lastViews'[p] = lastViews[p]
      BY <1>0, <2>1, <2>2
    <3> QED BY <1>0, <2>1, <3>1, <3>2
  <2>4. CASE forwarder' = NoForward /\ lastViews[q] = view
    <3>1. forwarder'.pc = "idle"
      BY <2>4 DEF NoForward
    <3>2. lastViews'[p] = lastViews[p]
      BY <1>0, <2>1, <2>2, <2>4
    <3> QED BY <1>0, <2>1, <3>1, <3>2
  <2> QED BY <2>1, <2>3, <2>4
<1>7. CASE EmitFound
  <2>1. /\ UNCHANGED <<lastViews, liveness, command>> /\ forwarder.pc = "noted" /\ forwarder'.pc = "idle"
        /\ shown' = [shown EXCEPT ![forwarder.peer] = forwarder.view]
    BY <1>7 DEF EmitFound, NoForward, Show
  <2>2. IF p = forwarder.peer THEN shown'[p] = forwarder.view ELSE shown'[p] = shown[p]
    BY <1>0, <2>1
  <2>3. forwarder.view # None
    BY <1>0, <2>1 DEF TasksKnow
  <2> QED BY <1>0, <2>1, <2>2, <2>3
<1>8. CASE StartProbes \/ EndProbes
  <2>1. /\ UNCHANGED <<lastViews, shown, forwarder, command>>
        /\ liveness.pc \in {"idle", "probing"} /\ liveness'.pc \in {"idle", "probing"}
    <3>1. CASE StartProbes
      <4>1. PICK left : liveness' = [NoProbes EXCEPT !.pc = "probing", !.left = left]
        BY <3>1 DEF StartProbes
      <4>2. liveness'.pc = "probing"
        BY <4>1 DEF NoProbes
      <4> QED BY <3>1, <4>2 DEF StartProbes, list
    <3>2. CASE EndProbes
      BY <3>2 DEF EndProbes, NoProbes, list
    <3> QED BY <1>8, <3>1, <3>2
  <2>2. ~IsLosing(p) /\ ~HasLost(p) /\ ~IsLosing(p)' /\ ~HasLost(p)'
    BY <2>1
  <2> QED BY <1>0, <2>1, <2>2
<1>9. ASSUME NEW q \in Peers, Judge(q)
      PROVE  AloneWith(p)' /\ NotedLast(p)' /\ (Matches(p) \/ HasFound(p) \/ HasLost(p) \/ HasView(p))'
  <2>1. PICK gone \in BOOLEAN :
           /\ liveness' = [liveness EXCEPT !.dead = @ \ {q}, !.pc = IF gone THEN "losing" ELSE @,
                                           !.peer = IF gone THEN q ELSE @]
           /\ Crosses(q, gone /\ (IsForwarding(q) \/ IsCommanded(q)))
    <3> DEFINE count == IF failures[q] < MaxFailures THEN failures[q] + 1 ELSE MaxFailures
               gone == IsGone(count) /\ q \notin offline
    <3>1. gone \in BOOLEAN
      OBVIOUS
    <3>2. /\ liveness' = [liveness EXCEPT !.dead = @ \ {q}, !.pc = IF gone THEN "losing" ELSE @,
                                          !.peer = IF gone THEN q ELSE @]
          /\ Crosses(q, gone /\ (IsForwarding(q) \/ IsCommanded(q)))
      BY <1>9 DEF Judge
    <3> HIDE DEF gone
    <3> QED BY <3>1, <3>2
  <2>2. UNCHANGED <<lastViews, shown, forwarder, command>> /\ liveness.pc = "probing"
    BY <1>9 DEF Judge
  <2>3. CASE gone
    <3>1. liveness'.pc = "losing" /\ liveness'.peer = q
      BY <1>0, <2>1, <2>3 DEF LivenessType
    <3>2. p = q => ~IsForwarding(p) /\ ~IsCommanded(p)
      BY <2>1, <2>3 DEF Crosses, IsPlain
    <3> QED BY <1>0, <2>2, <3>1, <3>2
  <2>4. CASE ~gone
    <3>1. liveness'.pc = "probing"
      BY <1>0, <2>1, <2>2, <2>4 DEF LivenessType
    <3> QED BY <1>0, <2>2, <3>1
  <2> QED BY <2>3, <2>4
<1>10. CASE DropView
  <2>1. /\ UNCHANGED <<shown, forwarder, command>> /\ liveness.pc = "losing"
        /\ liveness'.pc = "lost" /\ liveness'.peer = liveness.peer
        /\ lastViews' = [lastViews EXCEPT ![liveness.peer] = None]
    BY <1>0, <1>10 DEF DropView, NotedGone, LivenessType
  <2>2. IF p = liveness.peer THEN lastViews'[p] = None ELSE lastViews'[p] = lastViews[p]
    BY <1>0, <2>1
  <2> QED BY <1>0, <2>1, <2>2
<1>11. ASSUME NEW q \in Peers, Lost(q)
       PROVE  IF p = q THEN shown'[p] = None \/ ~shown'[p].online ELSE shown'[p] = shown[p]
  <2>1. shown[p] # None => shown[p] \in Views
    BY <1>0 DEF OrNone
  <2>2. shown[p] # None => ~[shown[p] EXCEPT !.online = FALSE].online
    BY <2>1 DEF Views
  <2> QED BY <1>0, <1>11, <2>2 DEF Lost
<1>12. CASE EmitLost
  <2>1. /\ UNCHANGED <<lastViews, forwarder, command>> /\ liveness.pc = "lost" /\ liveness'.pc = "probing"
        /\ Lost(liveness.peer)
    BY <1>0, <1>12 DEF EmitLost, LivenessType
  <2>2. liveness.peer \in Peers
    BY <1>0, <2>1 DEF TasksKnow
  <2>3. IF p = liveness.peer THEN shown'[p] = None \/ ~shown'[p].online ELSE shown'[p] = shown[p]
    BY <1>11, <2>1, <2>2
  <2> QED BY <1>0, <2>1, <2>3
<1>13. ASSUME NEW q \in Peers, NEW forget \in BOOLEAN, StartCommand(q, forget)
       PROVE  AloneWith(p)' /\ NotedLast(p)' /\ (Matches(p) \/ HasFound(p) \/ HasLost(p) \/ HasView(p))'
  <2>1. /\ UNCHANGED <<lastViews, shown, forwarder, liveness>> /\ command.pc = "idle"
        /\ command'.pc = "changed" /\ command'.peer = q
        /\ Crosses(q, IsForwarding(q) \/ IsLosing(q))
    BY <1>13 DEF StartCommand
  <2>2. p = q => ~IsForwarding(p) /\ ~IsLosing(p)
    BY <2>1 DEF Crosses, IsPlain
  <2> QED BY <1>0, <2>1, <2>2
<1>14. CASE ComputeView
  <2>1. /\ UNCHANGED <<lastViews, shown, forwarder, liveness>> /\ command.pc = "changed"
        /\ command'.pc = "computed" /\ command'.peer = command.peer
    BY <1>0, <1>14 DEF ComputeView, CommandType, list
  <2> QED BY <1>0, <2>1
<1>15. CASE NoteView
  <2>1. /\ UNCHANGED <<shown, forwarder, liveness>> /\ command.pc = "computed"
        /\ command'.pc = "noted" /\ command'.peer = command.peer /\ command'.view = command.view
        /\ lastViews' = [lastViews EXCEPT ![command.peer] = command.view]
    BY <1>0, <1>15 DEF NoteView, CommandType
  <2>2. IF p = command.peer THEN lastViews'[p] = command.view ELSE lastViews'[p] = lastViews[p]
    BY <1>0, <2>1
  <2> QED BY <1>0, <2>1, <2>2
<1>16. CASE EmitView
  <2>1. /\ UNCHANGED <<lastViews, forwarder, liveness>> /\ command.pc = "noted"
        /\ shown' = [shown EXCEPT ![command.peer] = command.view]
        /\ command' = NoCommand \/ command' = [command EXCEPT !.pc = "removing"]
    BY <1>16 DEF EmitView, Show
  <2>2. /\ command'.pc \in {"idle", "removing"}
        /\ command'.pc # "idle" => command'.peer = command.peer
    BY <1>0, <2>1 DEF CommandType, NoCommand
  <2>3. IF p = command.peer THEN shown'[p] = command.view ELSE shown'[p] = shown[p]
    BY <1>0, <2>1
  <2>4. command.view # None
    BY <1>0, <2>1 DEF TasksKnow
  <2> QED BY <1>0, <2>1, <2>2, <2>3, <2>4
<1>17. CASE RemoveDevice
  <2>1. /\ UNCHANGED <<lastViews, forwarder, liveness>> /\ command.pc = "removing" /\ command'.pc = "idle"
        /\ Lost(command.peer) /\ command.peer \in forgotten'
    BY <1>17 DEF RemoveDevice, NoCommand
  <2>2. command.peer \in Peers /\ p # command.peer
    BY <1>0, <2>1 DEF TasksKnow, IsPlain
  <2>3. shown'[p] = shown[p]
    BY <1>11, <2>1, <2>2
  <2> QED BY <1>0, <2>1, <2>2, <2>3
<1> QED BY <1>3, <1>4, <1>5, <1>6, <1>7, <1>8, <1>9, <1>10, <1>12, <1>13, <1>14, <1>15, <1>16, <1>17
        DEF DevicesNext, RoundStep, ForwarderStep, LivenessStep, CommandStep

------------------------------------------------------------------------------
(* Rounds.                                                                 *)

\* A step that moves nobody and leaves a round as it is, and that forgets no device
\* where it is.
LEMMA CoversKept ==
    ASSUME RoundCovers, UNCHANGED at,
           round'.pc = round.pc, round'.left = round.left, round'.present = round.present,
           \A p \in round.present : IsFoundThere(p) => IsFoundThere(p)'
    PROVE  RoundCovers'
BY DEF RoundCovers

LEMMA CoversStep ==
    ASSUME DevicesInv, DevicesNext
    PROVE  RoundCovers'
<1>0. /\ NetworkTypeOK /\ FoundTypeOK /\ RoundCovers /\ round \in RoundType
      /\ at \in [Peers -> OrNone(Addresses)] /\ round.present \subseteq Peers /\ None \notin Addresses
  BY TaskFacts, DevicesAssumption DEF NetworkTypeOK, RoundType
<1>1. ASSUME NEW q \in Peers, NEW x \in Addresses \cup {None}, Move(q, x) PROVE RoundCovers'
  <2>1. /\ at' = [at EXCEPT ![q] = x] /\ (x # None => \A u \in Peers : at[u] # x)
        /\ round'.present = round.present \ {q} /\ round'.pc = round.pc /\ round'.left = round.left
        /\ found' = found
    BY <1>0, <1>1 DEF Move, RoundType
  <2>2. \A u \in Peers : u # q => at'[u] = at[u]
    BY <1>0, <2>1
  <2>3. at'[q] = x
    BY <1>0, <2>1
  <2>4. \A p \in round'.present : p # q /\ p \in round.present /\ p \in Peers
    BY <1>0, <2>1
  <2>5. \A p, u \in Peers : at'[p] = at'[u] => p = u \/ at'[p] = None
    BY <1>0, <2>1, <2>2, <2>3 DEF RoundCovers
  <2> QED BY <1>0, <2>1, <2>2, <2>4, <2>5 DEF RoundCovers, IsFoundThere, IsFound, Target
<1>2. ASSUME NEW q \in Peers, HearRegister(q) \/ HearAnnouncement(q) PROVE RoundCovers'
  <2>1. at[q] \in Addresses /\ Confirmed(q, at[q], round) /\ UNCHANGED at
    BY <1>0, <1>2 DEF HearRegister, HearAnnouncement, network, OrNone
  <2>2. /\ FoundAt(q, at[q])' /\ \A u \in Peers \ {q} : found'[u] = found[u]
        /\ round'.pc = round.pc /\ round'.left = round.left /\ round'.present = round.present
    <3>1. \A x : x = at[q] =>
             /\ FoundAt(q, x)' /\ \A u \in Peers \ {q} : found'[u] = found[u]
             /\ round'.pc = round.pc /\ round'.left = round.left /\ round'.present = round.present
      BY <1>0, <2>1, ConfirmedFacts
    <3> QED BY <2>1, <3>1 DEF FoundAt, IsFound, Target
  <2>3. \A p \in round.present : IsFoundThere(p) => IsFoundThere(p)'
    BY <1>0, <2>1, <2>2 DEF IsFoundThere, FoundAt, IsFound, Target
  <2> QED BY <1>0, <2>1, <2>2, <2>3, CoversKept
<1>3. ASSUME NEW x \in Addresses, NEW r \in RoundType, Registered(x, r), UNCHANGED at
      PROVE  /\ round'.pc = r.pc /\ round'.left = r.left /\ round'.present = r.present
             /\ \A p \in round.present : IsFoundThere(p) => IsFoundThere(p)'
             /\ \A p \in round.present : at[p] = x => IsFoundThere(p)'
  <2>1. /\ round'.pc = r.pc /\ round'.left = r.left /\ round'.present = r.present
        /\ \A q \in Peers : found'[q] = found[q] \/ (at[q] = x /\ FoundAt(q, x)')
        /\ \A q \in Peers : at[q] = x => \E p \in Peers : at[p] = x /\ FoundAt(p, x)'
    BY <1>0, <1>3, RegisteredFacts
  <2>2. \A p \in round.present : IsFoundThere(p) => IsFoundThere(p)'
    BY <1>0, <1>3, <2>1 DEF IsFoundThere, FoundAt, IsFound, Target
  <2>3. \A p \in round.present : at[p] = x => IsFoundThere(p)'
    BY <1>0, <1>3, <2>1 DEF RoundCovers, IsFoundThere, FoundAt, IsFound, Target
  <2> QED BY <2>1, <2>2, <2>3
<1>4. ASSUME NEW x \in Addresses, ProbeAddress(x) PROVE RoundCovers'
  <2> DEFINE r == [round EXCEPT !.left = round.left \ {x}]
  <2>1. x \in round.left /\ Registered(x, r) /\ UNCHANGED at
    BY <1>4 DEF ProbeAddress, network
  <2>2. r \in RoundType /\ r.pc = round.pc /\ r.left = round.left \ {x} /\ r.present = round.present
    BY <1>0 DEF RoundType
  <2> HIDE DEF r
  <2>3. /\ round'.pc = round.pc /\ round'.left = round.left \ {x} /\ round'.present = round.present
        /\ \A p \in round.present : IsFoundThere(p) => IsFoundThere(p)'
        /\ \A p \in round.present : at[p] = x => IsFoundThere(p)'
    BY <1>3, <2>1, <2>2
  <2>4. round.pc # "idle"
    BY <1>0, <2>1 DEF RoundCovers
  <2> QED BY <1>0, <2>1, <2>3, <2>4 DEF RoundCovers
<1>5. ASSUME NEW q \in Peers, NEW x \in Addresses, ProbeDevice(q, x) PROVE RoundCovers'
  <2>1. Registered(x, round) /\ UNCHANGED at
    BY <1>5 DEF ProbeDevice, network
  <2>2. /\ round'.pc = round.pc /\ round'.left = round.left /\ round'.present = round.present
        /\ \A p \in round.present : IsFoundThere(p) => IsFoundThere(p)'
    BY <1>0, <1>3, <2>1
  <2> QED BY <1>0, <2>1, <2>2, CoversKept
<1>6. ASSUME StartRound PROVE RoundCovers'
  <2>1. round'.pc = "probing" /\ round'.present = {p \in Peers : at[p] # None} /\ UNCHANGED at
    BY <1>6 DEF StartRound, network
  <2> QED BY <1>0, <2>1 DEF RoundCovers
<1>7. ASSUME ScanSubnet PROVE RoundCovers'
  <2>1. /\ round'.pc = "scanning" /\ round'.left = Addresses /\ round'.present = round.present
        /\ UNCHANGED at
    BY <1>0, <1>7 DEF ScanSubnet, network, RoundType
  <2>2. \A p \in round.present : at[p] \in Addresses
    BY <1>0 DEF RoundCovers, OrNone
  <2> QED BY <1>0, <2>1, <2>2 DEF RoundCovers
<1>8. ASSUME EndRound PROVE RoundCovers'
  <2>1. /\ round'.pc = "idle" /\ round'.left = {} /\ round'.present = {} /\ UNCHANGED at
    BY <1>8 DEF EndRound, NoRound, network
  <2> QED BY <1>0, <2>1 DEF RoundCovers
<1>9. ASSUME \/ \E x \in Addresses : Take(x)
             \/ \E e \in sending : SendEvent(e)
             \/ ForwarderStep \/ CommandStep
             \/ StartProbes \/ EndProbes \/ DropView \/ EmitLost \/ \E q \in Peers : Judge(q)
             \/ \E q \in Peers, forget \in BOOLEAN : StartCommand(q, forget)
      PROVE  RoundCovers'
  <2>1. UNCHANGED <<at, found, round>>
    BY <1>9 DEF Take, SendEvent, ForwarderStep, CommandStep, TakeEvent, ClearOffline, NoteFound, EmitFound,
                StartProbes, EndProbes, DropView, EmitLost, Judge, StartCommand, ComputeView, NoteView, EmitView,
                RemoveDevice, network, discovery
  <2>2. \A p \in round.present : IsFoundThere(p) => IsFoundThere(p)'
    BY <2>1 DEF IsFoundThere, IsFound, Target
  <2> QED BY <1>0, <2>1, <2>2, CoversKept
<1> QED BY <1>1, <1>2, <1>4, <1>5, <1>6, <1>7, <1>8, <1>9 DEF DevicesNext, RoundStep, LivenessStep

------------------------------------------------------------------------------
(* The theorems.                                                           *)

LEMMA DevicesInit_Inv ==
    ASSUME DevicesInit
    PROVE  DevicesInv
<1>1. PICK met \in SUBSET Peers :
        /\ at \in [Peers -> Addresses \cup {None}]
        /\ \A p, q \in Peers : at[p] = at[q] => p = q \/ at[p] = None
        /\ book \in [Peers -> [addr : Addresses, mark : {FALSE}] \cup {None}]
        /\ \A p \in met : book[p] # None /\ book[p].addr = at[p]
        /\ found = [p \in Peers |-> IF p \in met THEN <<at[p]>> ELSE <<>>]
        /\ shown = [p \in Peers |-> IF book[p] = None THEN None
                                   ELSE [addr |-> book[p].addr, mark |-> FALSE, online |-> p \in met]]
        /\ lastViews = [p \in Peers |-> IF p \in met THEN shown[p] ELSE None]
        /\ others = {} /\ offline = {} /\ sending = {} /\ channel = <<>>
        /\ round = NoRound /\ forwarder = NoForward /\ liveness = NoProbes /\ command = NoCommand
        /\ failures = [p \in Peers |-> 0]
        /\ crossed = {} /\ forgotten = {}
  BY DEF DevicesInit
<1>2. /\ MaxAddresses \in Nat \ {0} /\ Capacity \in Nat \ {0} /\ MaxFailures \in Nat \ {0}
      /\ None \notin Addresses \cup Rows \cup Views
  BY DevicesAssumption
<1>3. \A p \in Peers : book[p] # None => book[p] \in Rows /\ book[p].addr \in Addresses
  BY <1>1 DEF Rows
<1>4. \A p \in met : at[p] \in Addresses /\ book[p] # None
  BY <1>1, <1>3
<1>5. NetworkTypeOK
  <2>1. \A p \in Peers : (found[p] = <<at[p]>> /\ at[p] \in Addresses) \/ found[p] = <<>>
    BY <1>1, <1>4
  <2>2. \A p \in Peers : found[p] \in Seq(Addresses) /\ Len(found[p]) <= MaxAddresses /\ IsInjective(found[p])
    <3>1. \A x \in Addresses : <<x>> \in Seq(Addresses) /\ Len(<<x>>) <= MaxAddresses /\ IsInjective(<<x>>)
      BY <1>2 DEF IsInjective
    <3>2. <<>> \in Seq(Addresses) /\ Len(<<>>) <= MaxAddresses /\ IsInjective(<<>>)
      BY <1>2 DEF IsInjective
    <3> QED BY <2>1, <3>1, <3>2
  <2>3. found \in [Peers -> Seq(Addresses)]
    BY <1>1, <2>2
  <2>4. NoRound \in RoundType
    BY DEF NoRound, RoundType
  <2> QED BY <1>1, <1>2, <2>2, <2>3, <2>4 DEF NetworkTypeOK, FoundTypeOK, OrNone
<1>6. ListTypeOK
  <2>1. \A p \in Peers : book[p] # None =>
           [addr |-> book[p].addr, mark |-> FALSE, online |-> p \in met] \in Views
    <3>1. \A p \in Peers : (p \in met) \in BOOLEAN
      OBVIOUS
    <3> QED BY <1>3, <3>1 DEF Views
  <2>2. shown \in [Peers -> OrNone(Views)]
    BY <1>1, <2>1 DEF OrNone
  <2>3. lastViews \in [Peers -> OrNone(Views)]
    BY <1>1, <2>2 DEF OrNone
  <2>4. book \in [Peers -> OrNone(Rows)]
    BY <1>1, <1>3 DEF OrNone
  <2>5. failures \in [Peers -> 0..MaxFailures]
    BY <1>1, <1>2
  <2> QED BY <1>1, <2>2, <2>3, <2>4, <2>5 DEF ListTypeOK
<1>7. TasksTypeOK /\ TasksKnow
  BY <1>1 DEF TasksTypeOK, TasksKnow, NoForward, NoProbes, NoCommand, ForwarderType, LivenessType, CommandType,
              OrNone
<1>8. ShownFollows
  <2> SUFFICES ASSUME NEW p \in Peers
               PROVE  AloneWith(p) /\ NotedLast(p) /\ Matches(p)
    BY DEF ShownFollows, Follows
  <2>1. forwarder.pc = "idle" /\ liveness.pc = "idle" /\ command.pc = "idle"
    BY <1>1 DEF NoForward, NoProbes, NoCommand
  <2>2. AloneWith(p) /\ NotedLast(p)
    BY <2>1 DEF AloneWith, NotedLast, HasFound, HasLost, HasView, IsForwarding, IsLosing, IsCommanded
  <2>3. Matches(p)
    <3>1. CASE p \in met
      <4>1. lastViews[p] = shown[p]
        BY <1>1, <3>1
      <4>2. shown[p] = [addr |-> book[p].addr, mark |-> FALSE, online |-> p \in met]
        BY <1>1, <1>4, <3>1
      <4>3. (p \in met) \in BOOLEAN
        OBVIOUS
      <4>4. shown[p] \in Views
        BY <1>3, <1>4, <3>1, <4>2, <4>3 DEF Views
      <4> QED BY <1>2, <4>1, <4>4 DEF Matches
    <3>2. CASE p \notin met
      <4>1. lastViews[p] = None
        BY <1>1, <3>2
      <4>2. shown[p] = None \/ shown[p] = [addr |-> book[p].addr, mark |-> FALSE, online |-> p \in met]
        BY <1>1
      <4>3. shown[p] = None \/ ~shown[p].online
        <5>1. (p \in met) = FALSE
          BY <3>2
        <5>2. shown[p] = None \/ shown[p] = [addr |-> book[p].addr, mark |-> FALSE, online |-> FALSE]
          BY <4>2, <5>1
        <5> QED BY <5>2
      <4> QED BY <4>1, <4>3 DEF Matches
    <3> QED BY <3>1, <3>2
  <2> QED BY <2>2, <2>3
<1>9. RoundCovers
  BY <1>1 DEF RoundCovers, NoRound
<1> QED BY <1>5, <1>6, <1>7, <1>8, <1>9, TypeParts DEF DevicesInv

LEMMA DevicesStep ==
    ASSUME DevicesInv, [DevicesNext]_devicesVars
    PROVE  DevicesInv'
<1>1. CASE DevicesNext
  BY <1>1, NetworkTypes, ListTypes, TasksTypes, ShownStep, CoversStep, TypePartsPrimed DEF DevicesInv
<1>2. CASE UNCHANGED devicesVars
  <2>1. NetworkTypeOK' /\ ListTypeOK' /\ TasksTypeOK' /\ TasksKnow'
    BY <1>2, TaskFacts, NetworkTypesKept, ListTypesKept, TasksTypesKept
       DEF devicesVars, list, TasksTypeOK, TasksKnow
  <2>2. ShownFollows'
    BY <1>2, TaskFacts
       DEF ShownFollows, Follows, devicesVars, list, IsPlain, AloneWith, NotedLast, Matches, HasFound, HasLost,
           HasView, IsForwarding, IsLosing, IsCommanded
  <2>3. RoundCovers'
    BY <1>2, TaskFacts, CoversKept DEF devicesVars, network, discovery, IsFoundThere, IsFound, Target
  <2> QED BY <2>1, <2>2, <2>3, TypePartsPrimed DEF DevicesInv
<1> QED BY <1>1, <1>2

\* What the three tasks and the round keep: the invariant of the list of devices.
THEOREM DevicesInvariance == DevicesSpec => []DevicesInv
<1>1. DevicesInit => DevicesInv
  BY DevicesInit_Inv
<1>2. DevicesInv /\ [DevicesNext]_devicesVars => DevicesInv'
  BY DevicesStep
<1> QED BY <1>1, <1>2, PTL DEF DevicesSpec

\* Every variable keeps its type; a device is remembered at no more than MaxAddresses
\* addresses, none of them twice.
THEOREM DevicesTypes == DevicesSpec => []DevicesTypeOK
<1>1. DevicesInv => DevicesTypeOK
  BY DEF DevicesInv
<1> QED BY <1>1, DevicesInvariance, PTL

\* A device no task is at work on is shown the way it was last noted (last_views),
\* unless two tasks passed each other or the user had it forgotten.
THEOREM ShownAsNoted == DevicesSpec => []ShownIsNoted
<1>1. DevicesInv => ShownIsNoted
  BY DEF DevicesInv, ShownFollows, Follows, ShownIsNoted, Matches, HasFound, HasLost, HasView,
         IsForwarding, IsLosing, IsCommanded
<1> QED BY <1>1, DevicesInvariance, PTL

\* A discovery round (discover_on) finds every device that is there all the while,
\* unless multicast is trusted and somebody else was confirmed.
THEOREM RoundFindsAll == DevicesSpec => RoundFinds
<1> DEFINE Finds == round.pc # "idle" /\ round'.pc = "idle" =>
                       \/ \A p \in round.present : IsFound(p) /\ Target(p) = at[p]
                       \/ round.pc = "probing" /\ ~round.quiet
<1>1. DevicesInv /\ [DevicesNext]_devicesVars => [Finds]_devicesVars
  <2> SUFFICES ASSUME DevicesInv, DevicesNext, round.pc # "idle", round'.pc = "idle"
               PROVE  \/ \A p \in round.present : IsFound(p) /\ Target(p) = at[p]
                      \/ round.pc = "probing" /\ ~round.quiet
    OBVIOUS
  <2>0. NetworkTypeOK /\ RoundCovers /\ round \in RoundType /\ at \in [Peers -> OrNone(Addresses)]
    BY TaskFacts DEF NetworkTypeOK
  <2>1. CASE EndRound
    BY <2>0, <2>1 DEF EndRound, Escalates, RoundCovers, IsFoundThere
  <2>2. CASE ScanSubnet \/ StartRound
    BY <2>0, <2>2 DEF ScanSubnet, StartRound, RoundType
  <2>3. CASE \E p \in Peers : HearRegister(p) \/ HearAnnouncement(p)
    <3>1. PICK p \in Peers : at[p] \in Addresses /\ Confirmed(p, at[p], round)
      BY <2>0, <2>3 DEF HearRegister, HearAnnouncement, OrNone
    <3>2. round'.pc = round.pc
      BY <2>0, <3>1, ConfirmedFacts
    <3> QED BY <3>2
  <2>4. CASE \E x \in Addresses : ProbeAddress(x)
    <3>1. PICK x \in Addresses : Registered(x, [round EXCEPT !.left = round.left \ {x}])
      BY <2>4 DEF ProbeAddress
    <3>2. /\ [round EXCEPT !.left = round.left \ {x}] \in RoundType
          /\ [round EXCEPT !.left = round.left \ {x}].pc = round.pc
      BY <2>0 DEF RoundType
    <3>3. round'.pc = round.pc
      BY <2>0, <3>1, <3>2, RegisteredFacts
    <3> QED BY <3>3
  <2>5. CASE \E p \in Peers, x \in Addresses : ProbeDevice(p, x)
    <3>1. PICK x \in Addresses : Registered(x, round)
      BY <2>5 DEF ProbeDevice
    <3>2. round'.pc = round.pc
      BY <2>0, <3>1, RegisteredFacts
    <3> QED BY <3>2
  <2>6. CASE \E p \in Peers, x \in Addresses \cup {None} : Move(p, x)
    BY <2>0, <2>6 DEF Move, RoundType
  <2>7. CASE UNCHANGED round
    BY <2>7
  <2> QED BY <2>1, <2>2, <2>3, <2>4, <2>5, <2>6, <2>7
          DEF DevicesNext, RoundStep, ForwarderStep, LivenessStep, CommandStep, Take, SendEvent, TakeEvent,
              ClearOffline, NoteFound, EmitFound, StartProbes, EndProbes, DropView, EmitLost, Judge, StartCommand,
              ComputeView, NoteView, EmitView, RemoveDevice, discovery
<1>2. DevicesSpec => [][Finds]_devicesVars
  BY <1>1, DevicesInvariance, PTL DEF DevicesSpec
<1> QED BY <1>2 DEF RoundFinds
=============================================================================
