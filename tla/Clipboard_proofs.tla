-------------------------- MODULE Clipboard_proofs --------------------------
(***************************************************************************)
(* Theorems about the clipboard: first about Clipboard, for any devices,   *)
(* contents and size of the ring of recent hashes, and however many        *)
(* synchronisations are started, then about ClipboardHistory.              *)
(***************************************************************************)
EXTENDS Clipboard, ClipboardHistory, TLAPS, FiniteSetTheorems, WellFoundedInduction

------------------------------------------------------------------------------
(* The inductive invariant.                                                *)

\* What an engine has been told of or has sent, remembered still or not.
Known(r) == ToSet(r.ring) \cup r.dropped

\* What a peer wrote through an engine is known to that engine.
Heard(d, held) ==
    held.remote /\ held.via # 0 => held.hash \in Known(engine[d][held.via])

Readings == Held \cup {Nothing}
Rings == {ring \in Seq(Hashes) : Len(ring) <= RingSize}
EngineStates ==
    [pc : {"new", "waiting", "noticed", "failed", "read", "news", "remembered", "pushing",
           "ended"},
     moved : BOOLEAN, ring : Rings, dropped : SUBSET Hashes, read : Readings, echo : {FALSE}]
Undecided == {"read", "news"}
ApplyStates ==
    [pc : {"idle", "taken", "told", "wrote", "spoiled", "applied"},
     content : Contents \cup {None}, engine : 0..MaxEngines]
Written == {"wrote", "spoiled", "applied"}
QuietCalls == {k \in AllCalls : ~k.echo}
Channels == {queue \in Seq(SUBSET QuietCalls) : Len(queue) <= SyncRoom}

BoardShape ==
    /\ board \in [Devices -> Readings]
    /\ current \in [Devices -> 0..MaxEngines]
    /\ apply \in [Devices -> ApplyStates]
EngineShape == engine \in [Devices -> [Engines -> EngineStates]]
CallsShape ==
    /\ channel \in [Devices -> [Engines -> Channels]]
    /\ reports \subseteq QuietCalls
    /\ \A k \in reports : k.engine \in Engines
    /\ sending \in [Devices -> SUBSET QuietCalls]
    /\ \A d \in Devices : sending[d] # {} => d \in Watchers
    /\ calls \subseteq QuietCalls
    /\ inbox \in [Devices -> Seq(Contents)]

\* An engine waits while it is the one that runs; before it is started it knows
\* nothing; what it has read, if a peer wrote it through an engine, was told there;
\* and what it sends is no echo.
EngineFacts ==
    \A d \in Devices, e \in Engines :
        /\ engine[d][e].pc = "waiting" => current[d] = e
        /\ engine[d][e].pc = "new" => engine[d][e].ring = <<>> /\ engine[d][e].dropped = {}
        /\ engine[d][e].pc \in Undecided => engine[d][e].read \in Held
        /\ Heard(d, engine[d][e].read)

BoardFacts ==
    \A d \in Devices :
        /\ Heard(d, board[d])
        /\ current[d] # 0 => engine[d][current[d]].pc # "new"

\* What is about to be written is known to the engine that was running when it came.
ApplyFacts ==
    \A d \in Devices :
        /\ apply[d].pc # "idle" => apply[d].content \in Contents
        /\ apply[d].pc # "idle" /\ apply[d].engine # 0
              => engine[d][apply[d].engine].pc # "new"
        /\ apply[d].pc = "told" /\ apply[d].engine # 0
              => Hash(apply[d].content, d) \in Known(engine[d][apply[d].engine])
        /\ apply[d].pc \in Written => apply[d].engine # 0

Shapes == BoardShape /\ EngineShape /\ CallsShape
Facts == EngineFacts /\ BoardFacts /\ ApplyFacts
ClipboardInv == Shapes /\ Facts

\* An engine forgets nothing for good, and is started once.
EnginesGrow ==
    \A d \in Devices, e \in Engines :
        /\ Known(engine[d][e]) \subseteq Known(engine'[d][e])
        /\ engine'[d][e].pc = "new" =>
              /\ engine[d][e].pc = "new"
              /\ engine'[d][e].ring = engine[d][e].ring
              /\ engine'[d][e].dropped = engine[d][e].dropped

------------------------------------------------------------------------------
(* Hashes, rings and requests.                                             *)

LEMMA EngineNumbers ==
    /\ MaxEngines \in Nat /\ 1 \in Engines
    /\ \A e \in 0..MaxEngines : e # 0 => e \in Engines
    /\ \A e \in Engines : e \in 0..MaxEngines /\ e # 0
BY ClipboardAssumption DEF Engines

LEMMA HashType ==
    ASSUME NEW d \in Devices, NEW c \in Contents
    PROVE  Hash(c, d) \in Hashes /\ Hash(c, d).content = c
BY DEF Hash, Hashes

LEMMA HashContent == \A h \in Hashes : h.content \in Contents
BY DEF Hash, Hashes

LEMMA NothingHeard == \A d \in Devices : Heard(d, Nothing)
BY DEF Heard, Nothing

LEMMA RingKeeps ==
    ASSUME NEW ring \in Rings, NEW h \in Hashes
    PROVE  Remembered(ring, h) \in Rings
<1> DEFINE kept == IF Len(ring) >= RingSize THEN Tail(ring) ELSE ring
<1>1. RingSize \in Nat \ {0}
  BY ClipboardAssumption
<1>2. kept \in Seq(Hashes) /\ Len(kept) < RingSize
  <2>1. CASE Len(ring) >= RingSize
    <3>1. ring \in Seq(Hashes) /\ ring # <<>> /\ Len(ring) = RingSize
      BY <1>1, <2>1 DEF Rings
    <3>2. Tail(ring) \in Seq(Hashes) /\ Len(Tail(ring)) = Len(ring) - 1
      BY <3>1
    <3> QED BY <1>1, <2>1, <3>1, <3>2
  <2>2. CASE ~(Len(ring) >= RingSize)
    BY <1>1, <2>2 DEF Rings
  <2> QED BY <2>1, <2>2
<1>3. Append(kept, h) \in Seq(Hashes) /\ Len(Append(kept, h)) = Len(kept) + 1
  BY <1>2
<1>4. Len(kept) \in Nat
  BY <1>2
<1> QED BY <1>1, <1>2, <1>3, <1>4 DEF Remembered, Rings

LEMMA RingHashes == \A ring \in Rings : ToSet(ring) \subseteq Hashes
BY DEF Rings, ToSet

LEMMA RememberKeeps ==
    ASSUME NEW r \in EngineStates, NEW h \in Hashes
    PROVE  /\ Remembers(r, h) \in EngineStates
           /\ Known(r) \cup {h} \subseteq Known(Remembers(r, h))
           /\ Remembers(r, h).pc = r.pc /\ Remembers(r, h).read = r.read
<1> DEFINE ring == Remembered(r.ring, h)
           lost == (r.dropped \cup ToSet(r.ring) \cup {h}) \ ToSet(ring)
<1>1. ring \in Rings
  BY RingKeeps DEF EngineStates
<1>2. lost \in SUBSET Hashes
  BY RingHashes DEF EngineStates
<1>3. Remembers(r, h) = [r EXCEPT !.ring = ring, !.dropped = lost]
  BY DEF Remembers
<1> HIDE DEF ring
<1>4. Known(r) \cup {h} \subseteq ToSet(ring) \cup lost
  BY DEF Known
<1> HIDE DEF lost
<1>5. Remembers(r, h) \in EngineStates
  BY <1>1, <1>2, <1>3 DEF EngineStates
<1>6. /\ Remembers(r, h).ring = ring /\ Remembers(r, h).dropped = lost
      /\ Remembers(r, h).pc = r.pc /\ Remembers(r, h).read = r.read
  BY <1>3 DEF EngineStates
<1> QED BY <1>4, <1>5, <1>6 DEF Known

\* What is sent is no echo, if it was found to be none.
LEMMA CallsAreQuiet ==
    ASSUME NEW d \in Devices, NEW e \in 0..MaxEngines, NEW content \in Contents
    PROVE  Calls(d, e, content, FALSE) \subseteq QuietCalls
<1> SUFFICES ASSUME NEW k \in Calls(d, e, content, FALSE) PROVE k \in QuietCalls
  OBVIOUS
<1>1. PICK q \in Devices \ {d} :
          k = [from |-> d, to |-> q, engine |-> e, content |-> content, echo |-> FALSE]
  BY DEF Calls
<1> QED BY <1>1 DEF QuietCalls, AllCalls

------------------------------------------------------------------------------
(* The channels of events.                                                 *)

LEMMA TellsRoom ==
    ASSUME channel \in [Devices -> [Engines -> Channels]], NEW d \in Devices, NEW e \in Engines,
           NEW event \in SUBSET QuietCalls, Tells(d, e, event)
    PROVE  channel' \in [Devices -> [Engines -> Channels]]
<1>1. channel[d][e] \in Seq(SUBSET QuietCalls) /\ Len(channel[d][e]) < SyncRoom
  BY DEF Channels, Tells, HasRoom
<1>2. /\ Append(channel[d][e], event) \in Seq(SUBSET QuietCalls)
      /\ Len(Append(channel[d][e], event)) = Len(channel[d][e]) + 1
  BY <1>1
<1>3. Len(channel[d][e]) \in Nat /\ SyncRoom \in Nat
  BY <1>1, ClipboardAssumption
<1>4. Append(channel[d][e], event) \in Channels
  BY <1>1, <1>2, <1>3 DEF Channels
<1> QED BY <1>4 DEF Tells

LEMMA TakenRoom ==
    ASSUME channel \in [Devices -> [Engines -> Channels]], NEW d \in Devices, NEW e \in Engines,
           Taken(d, e), channel[d][e] # <<>>
    PROVE  /\ channel' \in [Devices -> [Engines -> Channels]]
           /\ Head(channel[d][e]) \in SUBSET QuietCalls
<1>1. channel[d][e] \in Seq(SUBSET QuietCalls) /\ Len(channel[d][e]) <= SyncRoom
  BY DEF Channels
<1>2. /\ Tail(channel[d][e]) \in Seq(SUBSET QuietCalls)
      /\ Len(Tail(channel[d][e])) = Len(channel[d][e]) - 1
      /\ Head(channel[d][e]) \in SUBSET QuietCalls
  BY <1>1
<1>3. Len(channel[d][e]) \in Nat /\ SyncRoom \in Nat
  BY <1>1, ClipboardAssumption
<1>4. Tail(channel[d][e]) \in Channels
  BY <1>1, <1>2, <1>3 DEF Channels
<1> QED BY <1>2, <1>4 DEF Taken

------------------------------------------------------------------------------
(* What the steps do to the engines.                                       *)

Becomes(d, e, r) == engine' = [engine EXCEPT ![d][e] = r]

\* One engine goes on, and forgets nothing.
LEMMA OneEngine ==
    ASSUME EngineShape, NEW d \in Devices, NEW e \in Engines, NEW r \in EngineStates,
           Becomes(d, e, r),
           Known(engine[d][e]) \subseteq Known(r), r.pc # "new"
    PROVE  /\ EngineShape' /\ EnginesGrow /\ engine'[d][e] = r
           /\ \A d2 \in Devices, e2 \in Engines :
                  d2 # d \/ e2 # e => engine'[d2][e2] = engine[d2][e2]
<1>1. EngineShape'
  BY DEF EngineShape, Becomes
<1>2. engine'[d][e] = r
  BY DEF EngineShape, Becomes
<1>3. ASSUME NEW d2 \in Devices, NEW e2 \in Engines, d2 # d \/ e2 # e
      PROVE  engine'[d2][e2] = engine[d2][e2]
  BY <1>3 DEF EngineShape, Becomes
<1>4. EnginesGrow
  <2> SUFFICES ASSUME NEW d2 \in Devices, NEW e2 \in Engines
               PROVE  /\ Known(engine[d2][e2]) \subseteq Known(engine'[d2][e2])
                      /\ engine'[d2][e2].pc = "new" =>
                            /\ engine[d2][e2].pc = "new"
                            /\ engine'[d2][e2].ring = engine[d2][e2].ring
                            /\ engine'[d2][e2].dropped = engine[d2][e2].dropped
    BY DEF EnginesGrow
  <2>1. CASE d2 = d /\ e2 = e
    BY <1>2, <2>1
  <2>2. CASE ~(d2 = d /\ e2 = e)
    BY <1>3, <2>2
  <2> QED BY <2>1, <2>2
<1> QED BY <1>1, <1>2, <1>3, <1>4

LEMMA NoEngine ==
    ASSUME UNCHANGED engine
    PROVE  EnginesGrow
BY DEF EnginesGrow

LEMMA FlagOnly ==
    ASSUME NEW r \in EngineStates, NEW b \in BOOLEAN
    PROVE  LET m == [r EXCEPT !.moved = b] IN
           /\ m \in EngineStates
           /\ m.pc = r.pc /\ m.read = r.read /\ m.ring = r.ring /\ m.dropped = r.dropped
BY DEF EngineStates

\* A write to the clipboard touches the change flags alone.
LEMMA PutsEngines ==
    ASSUME EngineShape, NEW d \in Devices, NEW content, Puts(d, content, engine[d])
    PROVE  /\ EngineShape' /\ EnginesGrow
           /\ \A d2 \in Devices, e2 \in Engines :
                  /\ engine'[d2][e2].pc = engine[d2][e2].pc
                  /\ engine'[d2][e2].read = engine[d2][e2].read
                  /\ engine'[d2][e2].ring = engine[d2][e2].ring
                  /\ engine'[d2][e2].dropped = engine[d2][e2].dropped
<1> DEFINE flag(e) == engine[d][e].pc \notin {"new", "ended"}
           row == [e \in Engines |-> [engine[d][e] EXCEPT !.moved = flag(e)]]
<1>1. engine' = [engine EXCEPT ![d] = row]
  BY DEF Puts
<1>2. ASSUME NEW e \in Engines
      PROVE  /\ row[e] \in EngineStates
             /\ row[e].pc = engine[d][e].pc /\ row[e].read = engine[d][e].read
             /\ row[e].ring = engine[d][e].ring /\ row[e].dropped = engine[d][e].dropped
  <2>1. engine[d][e] \in EngineStates
    BY DEF EngineShape
  <2>2. flag(e) \in BOOLEAN
    OBVIOUS
  <2>3. row[e] = [engine[d][e] EXCEPT !.moved = flag(e)]
    OBVIOUS
  <2> HIDE DEF flag, row
  <2> QED BY <2>1, <2>2, <2>3, FlagOnly
<1>3. row \in [Engines -> EngineStates]
  BY <1>2
<1> HIDE DEF row
<1>5. EngineShape'
  BY <1>1, <1>3 DEF EngineShape
<1>6. ASSUME NEW d2 \in Devices, NEW e2 \in Engines
      PROVE  /\ engine'[d2][e2].pc = engine[d2][e2].pc
             /\ engine'[d2][e2].read = engine[d2][e2].read
             /\ engine'[d2][e2].ring = engine[d2][e2].ring
             /\ engine'[d2][e2].dropped = engine[d2][e2].dropped
  <2>1. engine'[d2] = IF d2 = d THEN row ELSE engine[d2]
    BY <1>1 DEF EngineShape
  <2>2. CASE d2 = d
    BY <1>2, <2>1, <2>2
  <2>3. CASE d2 # d
    BY <2>1, <2>3
  <2> QED BY <2>2, <2>3
<1> QED BY <1>5, <1>6 DEF EnginesGrow, Known

\* What was heard stays heard.
LEMMA StaysHeard ==
    ASSUME EnginesGrow, NEW d \in Devices, NEW held \in Readings, Heard(d, held)
    PROVE  held.remote /\ held.via # 0 => held.hash \in Known(engine'[d][held.via])
<1>1. held.via \in 0..MaxEngines
  BY EngineNumbers DEF Readings, Held, Nothing
<1>2. CASE held.via = 0
  BY <1>2
<1>3. CASE held.via # 0
  BY <1>1, <1>3, EngineNumbers DEF EnginesGrow, Heard
<1> QED BY <1>2, <1>3

\* Boards and tasks that do not change keep their facts while engines grow.
LEMMA BoardStays ==
    ASSUME BoardShape, BoardFacts, EnginesGrow, UNCHANGED <<board, current>>
    PROVE  BoardFacts'
<1> SUFFICES ASSUME NEW d \in Devices
             PROVE  /\ Heard(d, board[d])'
                    /\ current[d] # 0 => engine'[d][current[d]].pc # "new"
  BY DEF BoardFacts
<1>1. board[d] \in Readings /\ Heard(d, board[d]) /\ current[d] \in 0..MaxEngines
  BY DEF BoardShape, BoardFacts
<1>2. Heard(d, board[d])'
  BY <1>1, StaysHeard DEF Heard
<1>3. current[d] # 0 => engine'[d][current[d]].pc # "new"
  BY <1>1, EngineNumbers DEF BoardFacts, EnginesGrow
<1> QED BY <1>2, <1>3

LEMMA ApplyStays ==
    ASSUME BoardShape, ApplyFacts, EnginesGrow, NEW d \in Devices, apply'[d] = apply[d]
    PROVE  /\ apply'[d].pc # "idle" => apply'[d].content \in Contents
           /\ apply'[d].pc # "idle" /\ apply'[d].engine # 0
                 => engine'[d][apply'[d].engine].pc # "new"
           /\ apply'[d].pc = "told" /\ apply'[d].engine # 0
                 => Hash(apply'[d].content, d) \in Known(engine'[d][apply'[d].engine])
           /\ apply'[d].pc \in Written => apply'[d].engine # 0
<1>1. apply[d].engine \in 0..MaxEngines
  BY DEF BoardShape, ApplyStates
<1> QED BY <1>1, EngineNumbers DEF ApplyFacts, EnginesGrow

LEMMA EngineStays ==
    ASSUME Shapes, EngineFacts, EnginesGrow, NEW d \in Devices, NEW e \in Engines,
           engine'[d][e].pc = engine[d][e].pc,
           engine'[d][e].read = engine[d][e].read,
           engine[d][e].pc = "waiting" => current'[d] = current[d]
    PROVE  /\ engine'[d][e].pc = "waiting" => current'[d] = e
           /\ engine'[d][e].pc = "new" => engine'[d][e].ring = <<>> /\ engine'[d][e].dropped = {}
           /\ engine'[d][e].pc \in Undecided => engine'[d][e].read \in Held
           /\ Heard(d, engine[d][e].read)'
<1>1. engine[d][e].read \in Readings /\ Heard(d, engine[d][e].read)
  BY DEF Shapes, EngineShape, EngineStates, EngineFacts
<1>2. Heard(d, engine[d][e].read)'
  BY <1>1, StaysHeard DEF Heard
<1> QED BY <1>2 DEF EngineFacts, EnginesGrow

LEMMA InitHolds == ClipboardInit => ClipboardInv
<1> SUFFICES ASSUME ClipboardInit PROVE ClipboardInv
  OBVIOUS
<1>1. NotStarted \in EngineStates /\ Started \in EngineStates
  <2>1. <<>> \in Rings
    BY ClipboardAssumption DEF Rings
  <2> QED BY <2>1 DEF NotStarted, Started, EngineStates, Readings
<1>2. \A d \in Devices, e \in Engines :
          engine[d][e] = IF e = 1 THEN Started ELSE NotStarted
  BY DEF ClipboardInit
<1>9. /\ NotStarted.pc = "new" /\ Started.pc = "waiting"
      /\ \A r \in {NotStarted, Started} : r.ring = <<>> /\ r.dropped = {} /\ r.read = Nothing
  BY DEF Started, NotStarted
<1>3. EngineShape
  <2>1. \A d \in Devices : [e \in Engines |-> IF e = 1 THEN Started ELSE NotStarted]
                               \in [Engines -> EngineStates]
    BY <1>1
  <2> QED BY <2>1 DEF EngineShape, ClipboardInit
<1>4. BoardShape
  BY EngineNumbers DEF BoardShape, ClipboardInit, Readings, Idle, ApplyStates
<1>5. CallsShape
  <2>1. <<>> \in Channels
    BY ClipboardAssumption DEF Channels
  <2> QED BY <2>1 DEF CallsShape, ClipboardInit
<1>6. EngineFacts
  <2> SUFFICES ASSUME NEW d \in Devices, NEW e \in Engines
               PROVE  /\ engine[d][e].pc = "waiting" => current[d] = e
                      /\ engine[d][e].pc = "new" =>
                            engine[d][e].ring = <<>> /\ engine[d][e].dropped = {}
                      /\ engine[d][e].pc \in Undecided => engine[d][e].read \in Held
                      /\ Heard(d, engine[d][e].read)
    BY DEF EngineFacts
  <2>1. engine[d][e].read = Nothing
    BY <1>2, <1>9
  <2> QED BY <1>2, <1>9, <2>1, NothingHeard DEF ClipboardInit, Undecided
<1>7. BoardFacts
  <2> SUFFICES ASSUME NEW d \in Devices
               PROVE  Heard(d, board[d]) /\ engine[d][current[d]].pc # "new"
    BY DEF BoardFacts
  <2>1. board[d] = Nothing /\ current[d] = 1
    BY DEF ClipboardInit
  <2> QED BY <1>2, <1>9, <2>1, NothingHeard, EngineNumbers
<1>8. ApplyFacts
  BY DEF ApplyFacts, ClipboardInit, Idle, Written
<1> QED BY <1>3, <1>4, <1>5, <1>6, <1>7, <1>8 DEF ClipboardInv, Shapes, Facts

------------------------------------------------------------------------------
(* The steps, by what they touch.                                          *)

\* Requests and queues alone.
LEMMA CallsStep ==
    ASSUME ClipboardInv, UNCHANGED <<board, current, engine, apply>>, CallsShape'
    PROVE  ClipboardInv'
BY DEF ClipboardInv, Shapes, Facts, BoardShape, EngineShape, EngineFacts, BoardFacts,
       ApplyFacts, Heard

\* What is left of a write: nothing, or a look at the change counter and an event.
AfterTold(a, b) ==
    \/ a.pc = "idle"
    \/ /\ b.pc = "told" /\ a.pc \in Written /\ a.engine # 0
       /\ a.engine = b.engine /\ a.content = b.content

\* The clipboard is written by the user, or with what an engine was told of.
LEMMA PutStep ==
    ASSUME ClipboardInv, NEW d \in Devices, NEW held \in Readings, Puts(d, held, engine[d]),
           Heard(d, held), NEW a \in ApplyStates, apply' = [apply EXCEPT ![d] = a],
           a = apply[d] \/ AfterTold(a, apply[d]),
           UNCHANGED <<current, channel, sending, calls, reports, inbox>>
    PROVE  ClipboardInv'
<1> USE DEF ClipboardInv, Shapes, Facts
<1>1. /\ EngineShape' /\ EnginesGrow
      /\ \A d2 \in Devices, e2 \in Engines :
             /\ engine'[d2][e2].pc = engine[d2][e2].pc
             /\ engine'[d2][e2].read = engine[d2][e2].read
  BY PutsEngines
<1>2. board' = [board EXCEPT ![d] = held]
  BY DEF Puts
<1>3. BoardShape' /\ CallsShape'
  BY <1>2 DEF BoardShape, CallsShape
<1>4. EngineFacts'
  <2> SUFFICES ASSUME NEW d2 \in Devices, NEW e2 \in Engines
               PROVE  /\ engine'[d2][e2].pc = "waiting" => current'[d2] = e2
                      /\ engine'[d2][e2].pc = "new" =>
                            engine'[d2][e2].ring = <<>> /\ engine'[d2][e2].dropped = {}
                      /\ engine'[d2][e2].pc \in Undecided => engine'[d2][e2].read \in Held
                      /\ Heard(d2, engine[d2][e2].read)'
    BY DEF EngineFacts
  <2> QED BY <1>1, EngineStays
<1>5. BoardFacts'
  <2> SUFFICES ASSUME NEW d2 \in Devices
               PROVE  /\ Heard(d2, board[d2])'
                      /\ current[d2] # 0 => engine'[d2][current[d2]].pc # "new"
    BY DEF BoardFacts
  <2>1. board'[d2] \in Readings /\ Heard(d2, board'[d2]) /\ current[d2] \in 0..MaxEngines
    BY <1>2 DEF BoardShape, BoardFacts
  <2>2. Heard(d2, board[d2])'
    BY <1>1, <2>1, StaysHeard DEF Heard
  <2> QED BY <1>1, <2>1, <2>2, EngineNumbers DEF BoardFacts
<1>6. ApplyFacts'
  <2> SUFFICES ASSUME NEW d2 \in Devices
               PROVE  /\ apply'[d2].pc # "idle" => apply'[d2].content \in Contents
                      /\ apply'[d2].pc # "idle" /\ apply'[d2].engine # 0
                            => engine'[d2][apply'[d2].engine].pc # "new"
                      /\ apply'[d2].pc = "told" /\ apply'[d2].engine # 0
                            => Hash(apply'[d2].content, d2)
                                  \in Known(engine'[d2][apply'[d2].engine])
                      /\ apply'[d2].pc \in Written => apply'[d2].engine # 0
    BY DEF ApplyFacts
  <2>1. CASE apply'[d2] = apply[d2]
    BY <1>1, <2>1, ApplyStays
  <2>2. CASE apply'[d2].pc = "idle"
    BY <2>2 DEF Written
  <2>3. CASE apply'[d2] # apply[d2] /\ apply'[d2].pc # "idle"
    <3>1. d2 = d /\ apply'[d2] = a
      BY <2>3 DEF BoardShape
    <3>2. /\ a.engine = apply[d].engine /\ a.engine # 0 /\ a.engine \in 0..MaxEngines
          /\ a.content = apply[d].content /\ a.pc \in Written /\ apply[d].pc = "told"
      BY <2>3, <3>1 DEF ApplyStates, AfterTold
    <3> QED BY <1>1, <3>1, <3>2, EngineNumbers DEF ApplyFacts, Written
  <2> QED BY <2>1, <2>2, <2>3
<1> QED BY <1>1, <1>3, <1>4, <1>5, <1>6

\* One engine goes on; what the event loop is about to write is left to the caller.
LEMMA EngineStep ==
    ASSUME ClipboardInv, NEW d \in Devices, NEW e \in Engines, NEW r \in EngineStates,
           Becomes(d, e, r),
           Known(engine[d][e]) \subseteq Known(r), r.pc # "new",
           r.pc = "waiting" => current[d] = e,
           r.pc \in Undecided => r.read \in Held, Heard(d, r.read),
           UNCHANGED <<board, current>>
    PROVE  /\ EngineShape' /\ EngineFacts' /\ BoardFacts' /\ EnginesGrow
           /\ engine'[d][e] = r
<1>0. EngineShape
  BY DEF ClipboardInv, Shapes
<1>1. /\ EngineShape' /\ EnginesGrow /\ engine'[d][e] = r
      /\ \A d2 \in Devices, e2 \in Engines :
             d2 # d \/ e2 # e => engine'[d2][e2] = engine[d2][e2]
  BY <1>0, OneEngine
<1> USE DEF ClipboardInv, Shapes, Facts
<1>2. BoardFacts'
  BY <1>1, BoardStays
<1>3. EngineFacts'
  <2> SUFFICES ASSUME NEW d2 \in Devices, NEW e2 \in Engines
               PROVE  /\ engine'[d2][e2].pc = "waiting" => current'[d2] = e2
                      /\ engine'[d2][e2].pc = "new" =>
                            engine'[d2][e2].ring = <<>> /\ engine'[d2][e2].dropped = {}
                      /\ engine'[d2][e2].pc \in Undecided => engine'[d2][e2].read \in Held
                      /\ Heard(d2, engine[d2][e2].read)'
    BY DEF EngineFacts
  <2>1. CASE d2 = d /\ e2 = e
    <3>1. r.read \in Readings
      BY DEF EngineStates
    <3>2. Heard(d, engine[d][e].read)'
      BY <1>1, <3>1, StaysHeard DEF Heard
    <3> QED BY <1>1, <2>1, <3>2
  <2>2. CASE ~(d2 = d /\ e2 = e)
    BY <1>1, <2>2, EngineStays
  <2> QED BY <2>1, <2>2
<1> QED BY <1>1, <1>2, <1>3

LEMMA LoopStep ==
    ASSUME ClipboardInv, NEW d \in Devices, NEW e \in Engines, NEW r \in EngineStates,
           Becomes(d, e, r),
           Known(engine[d][e]) \subseteq Known(r), r.pc # "new",
           r.pc = "waiting" => current[d] = e,
           r.pc \in Undecided => r.read \in Held, Heard(d, r.read),
           UNCHANGED <<board, current, apply>>, CallsShape'
    PROVE  ClipboardInv'
<1>1. EngineShape' /\ EngineFacts' /\ BoardFacts' /\ EnginesGrow
  BY EngineStep
<1>2. BoardShape'
  BY DEF ClipboardInv, Shapes, BoardShape
<1>3. ApplyFacts'
  BY <1>1, ApplyStays DEF ApplyFacts, ClipboardInv, Shapes, Facts
<1> QED BY <1>1, <1>2, <1>3 DEF ClipboardInv, Shapes, Facts

LEMMA CallsShapeStays ==
    ASSUME CallsShape, UNCHANGED <<channel, sending, calls, reports, inbox>>
    PROVE  CallsShape'
BY DEF CallsShape

LEMMA RestWaits ==
    \A d \in Devices, e \in Engines :
        /\ Rest(d, e) = "waiting" => current[d] = e
        /\ Rest(d, e) \in {"waiting", "ended"}
BY DEF Rest

\* The steps of the watch loop that tell nothing.
LEMMA QuietWatch ==
    ASSUME ClipboardInv, NEW d \in Devices, NEW e \in Engines,
           \/ Notice(d, e) \/ ReadBoard(d, e) \/ ReadNothing(d, e) \/ ReadFails(d, e)
           \/ IgnoreKnown(d, e) \/ FindNews(d, e) \/ RememberRead(d, e) \/ EndPush(d, e)
    PROVE  ClipboardInv'
<1> DEFINE r == engine[d][e]
<1>1. /\ r \in EngineStates /\ Heard(d, r.read) /\ board[d] \in Readings /\ Heard(d, board[d])
      /\ r.pc \in Undecided => r.read \in Held
  BY DEF ClipboardInv, Shapes, Facts, EngineShape, EngineFacts, BoardShape, BoardFacts
<1>2. CallsShape' /\ UNCHANGED <<board, current, apply>>
  BY CallsShapeStays
     DEF ClipboardInv, Shapes, Notice, ReadBoard, ReadNothing, ReadFails, IgnoreKnown,
         FindNews, RememberRead, EndPush
<1>3. CASE Notice(d, e)
  <2> DEFINE n == [r EXCEPT !.moved = FALSE, !.pc = "noticed"]
  <2>1. Becomes(d, e, n)
    BY <1>3 DEF Notice, Seen, Becomes
  <2>2. n \in EngineStates /\ n.pc = "noticed" /\ n.read = r.read /\ Known(n) = Known(r)
    BY <1>1 DEF EngineStates, Known
  <2> HIDE DEF n, r
  <2> QED BY <1>1, <1>2, <2>1, <2>2, LoopStep DEF r, Undecided
<1>4. CASE ReadBoard(d, e)
  <2> DEFINE n == [r EXCEPT !.pc = "read", !.read = board[d]]
  <2>1. Becomes(d, e, n) /\ board[d] \in Held
    BY <1>1, <1>4 DEF ReadBoard, Readable, Readings, Becomes
  <2>2. n \in EngineStates /\ n.pc = "read" /\ n.read = board[d] /\ Known(n) = Known(r)
    BY <1>1 DEF EngineStates, Known
  <2> HIDE DEF n, r
  <2> QED BY <1>1, <1>2, <2>1, <2>2, LoopStep DEF r, Undecided
<1>5. CASE ReadNothing(d, e) \/ ReadFails(d, e) \/ EndPush(d, e)
  <2>1. PICK pc \in {"waiting", "ended", "failed"} :
            /\ Becomes(d, e, [r EXCEPT !.pc = pc])
            /\ pc = "waiting" => current[d] = e
    BY <1>5, RestWaits DEF ReadNothing, ReadFails, EndPush, Becomes
  <2> DEFINE n == [r EXCEPT !.pc = pc]
  <2>2. n \in EngineStates /\ n.pc = pc /\ n.read = r.read /\ Known(n) = Known(r)
    BY <1>1 DEF EngineStates, Known
  <2>3. Becomes(d, e, n)
    BY <2>1
  <2> HIDE DEF n, r
  <2> QED BY <1>1, <1>2, <2>1, <2>2, <2>3, LoopStep DEF r, Undecided
<1>6. CASE IgnoreKnown(d, e)
  <2> DEFINE n == [r EXCEPT !.pc = Rest(d, e), !.read = Nothing]
  <2>1. Becomes(d, e, n)
    BY <1>6 DEF IgnoreKnown, Becomes
  <2>2. n \in EngineStates /\ n.pc = Rest(d, e) /\ n.read = Nothing /\ Known(n) = Known(r)
    BY <1>1, RestWaits DEF EngineStates, Known, Readings
  <2> HIDE DEF n, r
  <2> QED BY <1>1, <1>2, <2>1, <2>2, LoopStep, RestWaits, NothingHeard DEF r, Undecided
\* What the ring does not know is an echo only if the ring has dropped it.
<1>7. CASE FindNews(d, e)
  <2>1. IsEcho(d, e) = FALSE
    <3>1. r.read.hash \notin ToSet(r.ring)
      BY <1>7 DEF FindNews, IsNews, IsRecent
    <3> QED BY <1>1, <3>1, EngineNumbers DEF IsEcho, Heard, Known
  <2> DEFINE n == [r EXCEPT !.pc = "news", !.echo = FALSE]
  <2>2. Becomes(d, e, n) /\ r.read \in Held
    BY <1>1, <1>7, <2>1 DEF FindNews, Becomes, Undecided
  <2>3. n \in EngineStates /\ n.pc = "news" /\ n.read = r.read /\ Known(n) = Known(r)
    BY <1>1 DEF EngineStates, Known
  <2> HIDE DEF n, r
  <2> QED BY <1>1, <1>2, <2>2, <2>3, LoopStep DEF r
<1>8. CASE RememberRead(d, e)
  <2> DEFINE m == Remembers(r, r.read.hash)
             n == [m EXCEPT !.pc = "remembered"]
  <2>1. Becomes(d, e, n)
    BY <1>8 DEF RememberRead, Becomes
  <2>2. r.read.hash \in Hashes
    BY <1>1, <1>8 DEF RememberRead, Undecided, Held
  <2>3. m \in EngineStates /\ Known(r) \subseteq Known(m) /\ m.read = r.read
    BY <1>1, <2>2, RememberKeeps
  <2> HIDE DEF m
  <2>4. n \in EngineStates /\ n.pc = "remembered" /\ n.read = r.read /\ Known(n) = Known(m)
    BY <2>3 DEF EngineStates, Known
  <2> HIDE DEF n, r
  <2> QED BY <1>1, <1>2, <2>1, <2>3, <2>4, LoopStep DEF r, Undecided
<1> QED BY <1>3, <1>4, <1>5, <1>6, <1>7, <1>8

\* The steps of the watch loop that tell what it has found.
LEMMA NewsWatch ==
    ASSUME ClipboardInv, NEW d \in Devices, NEW e \in Engines,
           TellError(d, e) \/ SkipLarge(d, e) \/ HandFiles(d, e) \/ PushItem(d, e)
    PROVE  ClipboardInv'
<1> DEFINE r == engine[d][e]
<1>1. r \in EngineStates /\ Heard(d, r.read) /\ r.echo = FALSE
  <2>1. r \in EngineStates /\ Heard(d, r.read)
    BY DEF ClipboardInv, Shapes, Facts, EngineShape, EngineFacts
  <2> QED BY <2>1 DEF EngineStates
<1>2. CallsShape /\ {} \in SUBSET QuietCalls
  BY DEF ClipboardInv, Shapes
<1>3. ~TellError(d, e) => Outgoing(d, e) \in SUBSET QuietCalls
  <2>1. ~TellError(d, e) => r.read.hash.content \in Contents
    BY ClipboardAssumption DEF SkipLarge, HandFiles, PushItem, Has, Contents
  <2> QED BY <1>1, <2>1, CallsAreQuiet, EngineNumbers DEF Outgoing
<1>4. CallsShape' /\ UNCHANGED <<board, current, apply>>
  <2>1. CASE TellError(d, e) \/ SkipLarge(d, e)
    <3>1. channel' \in [Devices -> [Engines -> Channels]]
      BY <1>2, <2>1, TellsRoom DEF CallsShape, TellError, SkipLarge
    <3> QED BY <1>2, <2>1, <3>1 DEF CallsShape, TellError, SkipLarge
  <2>2. CASE HandFiles(d, e)
    <3>1. Tells(d, e, Outgoing(d, e)) /\ Outgoing(d, e) \in SUBSET QuietCalls
      <4>1. ~TellError(d, e)
        BY <2>2 DEF TellError, HandFiles, Has
      <4> QED BY <1>3, <2>2, <4>1 DEF HandFiles
    <3>2. channel' \in [Devices -> [Engines -> Channels]]
      BY <1>2, <3>1, TellsRoom DEF CallsShape
    <3> QED BY <1>2, <2>2, <3>2 DEF CallsShape, HandFiles
  <2>3. CASE PushItem(d, e)
    <3>1. channel' \in [Devices -> [Engines -> Channels]]
      BY <1>2, <2>3, TellsRoom DEF CallsShape, PushItem
    <3>2. calls' \subseteq QuietCalls
      <4>1. ~TellError(d, e)
        BY <2>3 DEF TellError, PushItem, Has
      <4> QED BY <1>2, <1>3, <2>3, <4>1 DEF CallsShape, PushItem
    <3> QED BY <1>2, <2>3, <3>1, <3>2 DEF CallsShape, PushItem
  <2> QED BY <2>1, <2>2, <2>3
<1>5. CASE TellError(d, e)
  <2> DEFINE n == [r EXCEPT !.pc = Rest(d, e)]
  <2>1. Becomes(d, e, n)
    BY <1>5 DEF TellError, Becomes
  <2>2. n \in EngineStates /\ n.pc = Rest(d, e) /\ n.read = r.read /\ Known(n) = Known(r)
    BY <1>1, RestWaits DEF EngineStates, Known
  <2> HIDE DEF n, r
  <2> QED BY <1>1, <1>4, <2>1, <2>2, LoopStep, RestWaits DEF r, Undecided
<1>6. CASE ~TellError(d, e)
  <2>1. PICK pc \in {"waiting", "ended", "pushing"} :
            Then(d, e, pc) /\ (pc = "waiting" => current[d] = e)
    BY <1>6, RestWaits DEF SkipLarge, HandFiles, PushItem
  <2> DEFINE n == [r EXCEPT !.pc = pc, !.read = Nothing, !.echo = FALSE]
  <2>2. Becomes(d, e, n)
    BY <2>1 DEF Then, Becomes
  <2>3. n \in EngineStates /\ n.pc = pc /\ n.read = Nothing /\ Known(n) = Known(r)
    BY <1>1 DEF EngineStates, Known, Readings
  <2> HIDE DEF n, r
  <2> QED BY <1>1, <1>4, <2>1, <2>2, <2>3, LoopStep, NothingHeard DEF r, Undecided
<1> QED BY <1>5, <1>6

LEMMA WatchHolds ==
    ASSUME ClipboardInv, NEW d \in Devices, NEW e \in Engines, WatchStep(d, e)
    PROVE  ClipboardInv'
BY QuietWatch, NewsWatch DEF WatchStep

------------------------------------------------------------------------------
(* The steps of the user, and of the event loop.                           *)

LEMMA RunningStep ==
    ASSUME ClipboardInv, NEW d \in Devices, NEW e \in Engines, NEW c \in {0, e},
           NEW r \in EngineStates, Becomes(d, e, r),
           r.ring = engine[d][e].ring, r.dropped = engine[d][e].dropped,
           r.pc # "new", r.pc = "waiting" => c = e,
           r.pc \in Undecided => r.read \in Held, Heard(d, r.read),
           current[d] \in {0, e}, current' = [current EXCEPT ![d] = c],
           UNCHANGED <<board, apply>>, CallsShape'
    PROVE  ClipboardInv'
<1>0. EngineShape
  BY DEF ClipboardInv, Shapes
<1>1. Known(engine[d][e]) = Known(r)
  BY DEF Known
<1>2. /\ EngineShape' /\ EnginesGrow /\ engine'[d][e] = r
      /\ \A d2 \in Devices, e2 \in Engines :
             d2 # d \/ e2 # e => engine'[d2][e2] = engine[d2][e2]
  BY <1>0, <1>1, OneEngine
<1> USE DEF ClipboardInv, Shapes, Facts
<1>3. BoardShape'
  BY EngineNumbers DEF BoardShape
<1>4. EngineFacts'
  <2> SUFFICES ASSUME NEW d2 \in Devices, NEW e2 \in Engines
               PROVE  /\ engine'[d2][e2].pc = "waiting" => current'[d2] = e2
                      /\ engine'[d2][e2].pc = "new" =>
                            engine'[d2][e2].ring = <<>> /\ engine'[d2][e2].dropped = {}
                      /\ engine'[d2][e2].pc \in Undecided => engine'[d2][e2].read \in Held
                      /\ Heard(d2, engine[d2][e2].read)'
    BY DEF EngineFacts
  <2>1. CASE d2 = d /\ e2 = e
    <3>1. Heard(d, engine[d][e].read)'
      BY <1>2, StaysHeard DEF Heard, EngineStates
    <3>2. current'[d] = c
      BY DEF BoardShape
    <3> QED BY <1>2, <2>1, <3>1, <3>2
  <2>2. CASE ~(d2 = d /\ e2 = e)
    <3>1. engine'[d2][e2] = engine[d2][e2]
      BY <1>2, <2>2
    <3>2. engine[d2][e2].pc = "waiting" => current'[d2] = current[d2]
      BY <2>2, EngineNumbers DEF EngineFacts, BoardShape
    <3> QED BY <1>2, <3>1, <3>2, EngineStays
  <2> QED BY <2>1, <2>2
<1>5. BoardFacts'
  <2> SUFFICES ASSUME NEW d2 \in Devices
               PROVE  /\ Heard(d2, board[d2])'
                      /\ current'[d2] # 0 => engine'[d2][current'[d2]].pc # "new"
    BY DEF BoardFacts
  <2>1. board[d2] \in Readings /\ Heard(d2, board[d2]) /\ current[d2] \in 0..MaxEngines
    BY DEF BoardShape, BoardFacts
  <2>2. Heard(d2, board[d2])'
    BY <1>2, <2>1, StaysHeard DEF Heard
  <2>3. CASE d2 = d
    BY <1>2, <2>2, <2>3 DEF BoardShape
  <2>4. CASE d2 # d
    <3>1. current'[d2] = current[d2]
      BY <2>4 DEF BoardShape
    <3> QED BY <1>2, <2>1, <2>2, <3>1, EngineNumbers DEF BoardFacts, EnginesGrow
  <2> QED BY <2>3, <2>4
<1>6. ApplyFacts'
  BY <1>2, ApplyStays DEF ApplyFacts
<1> QED BY <1>2, <1>3, <1>4, <1>5, <1>6

LEMMA SwitchHolds ==
    ASSUME ClipboardInv, NEW d \in Devices,
           StopSync(d) \/ \E e \in Engines : StartSync(d, e)
    PROVE  ClipboardInv'
<1>1. CallsShape' /\ UNCHANGED <<board, apply>>
  BY CallsShapeStays DEF ClipboardInv, Shapes, StopSync, StartSync
<1>2. CASE StopSync(d)
  <2> DEFINE e == current[d]
             pc == IF engine[d][e].pc = "waiting" THEN "ended" ELSE engine[d][e].pc
             n == [engine[d][e] EXCEPT !.pc = pc]
  <2>1. e \in Engines /\ engine[d][e].pc # "new"
    BY <1>2, EngineNumbers DEF ClipboardInv, Shapes, Facts, BoardShape, BoardFacts, StopSync
  <2>2. /\ engine[d][e] \in EngineStates /\ Heard(d, engine[d][e].read)
        /\ engine[d][e].pc \in Undecided => engine[d][e].read \in Held
    BY <2>1 DEF ClipboardInv, Shapes, Facts, EngineShape, EngineFacts
  <2>3. Becomes(d, e, n) /\ current' = [current EXCEPT ![d] = 0]
    BY <1>2 DEF StopSync, Becomes
  <2>4. /\ n \in EngineStates /\ n.pc = pc /\ n.read = engine[d][e].read
        /\ n.ring = engine[d][e].ring /\ n.dropped = engine[d][e].dropped
    BY <2>2 DEF EngineStates
  <2>5. /\ n.pc # "new" /\ n.pc # "waiting" /\ Heard(d, n.read)
        /\ n.pc \in Undecided => n.read \in Held
    BY <2>1, <2>2, <2>4 DEF Undecided
  <2>6. current[d] \in {0, e} /\ 0 \in {0, e}
    OBVIOUS
  <2> HIDE DEF n, pc, e
  <2> QED BY <1>1, <2>1, <2>2, <2>3, <2>4, <2>5, <2>6, RunningStep
<1>3. ASSUME NEW e \in Engines, StartSync(d, e) PROVE ClipboardInv'
  <2>1. /\ engine[d][e].ring = <<>> /\ engine[d][e].dropped = {}
        /\ Becomes(d, e, Started) /\ current' = [current EXCEPT ![d] = e] /\ current[d] = 0
    BY <1>3 DEF ClipboardInv, Facts, EngineFacts, StartSync, Becomes
  <2>2. /\ Started \in EngineStates /\ Started.pc = "waiting" /\ Started.read = Nothing
        /\ Started.ring = <<>> /\ Started.dropped = {}
    <3>1. <<>> \in Rings
      BY ClipboardAssumption DEF Rings
    <3> QED BY <3>1 DEF NotStarted, Started, EngineStates, Readings
  <2>3. Heard(d, Started.read)
    BY <2>2, NothingHeard
  <2>4. 0 \in {0, e} /\ e \in {0, e}
    OBVIOUS
  <2> QED BY <1>1, <2>1, <2>2, <2>3, <2>4, RunningStep DEF Undecided
<1> QED BY <1>2, <1>3

LEMMA UserHolds ==
    ASSUME ClipboardInv, NEW d \in Devices, UserStep(d)
    PROVE  ClipboardInv'
<1>1. ASSUME NEW c \in Contents, Copy(d, c) PROVE ClipboardInv'
  <2> DEFINE held == [hash |-> Hash(c, d), remote |-> FALSE, via |-> 0]
  <2>1. held \in Readings /\ Heard(d, held)
    BY HashType, EngineNumbers DEF Readings, Held, Heard
  <2>2. Puts(d, held, engine[d]) /\ UNCHANGED <<current, channel, sending, calls, reports, inbox>>
    BY <1>1 DEF Copy
  <2>3. PICK a \in ApplyStates : a = apply[d] /\ apply' = [apply EXCEPT ![d] = a]
    BY <1>1 DEF Copy, ClipboardInv, Shapes, BoardShape
  <2> HIDE DEF held
  <2> QED BY <2>1, <2>2, <2>3, PutStep
<1>2. CASE PushNow(d)
  <2>1. board[d] \in Held /\ board[d].hash.content \in Contents
    BY <1>2, HashContent DEF ClipboardInv, Shapes, BoardShape, PushNow, Readings, Held
  <2>2. Unasked(d) \subseteq QuietCalls
    <3>1. 0 \in 0..MaxEngines
      BY EngineNumbers
    <3>2. Calls(d, 0, board[d].hash.content, FALSE) \subseteq QuietCalls
      BY <2>1, <3>1, CallsAreQuiet
    <3> QED BY <3>2 DEF Unasked
  <2>3. CallsShape'
    BY <1>2, <2>2 DEF ClipboardInv, Shapes, CallsShape, PushNow
  <2> QED BY <1>2, <2>3, CallsStep DEF PushNow
<1>3. CASE StopSync(d) \/ \E e \in Engines : StartSync(d, e)
  BY <1>3, SwitchHolds
<1> QED BY <1>1, <1>2, <1>3 DEF UserStep

\* The event loop changes what it is about to write.
LEMMA ApplyChanges ==
    ASSUME ClipboardInv, NEW d \in Devices, NEW a \in ApplyStates,
           apply' = [apply EXCEPT ![d] = a],
           UNCHANGED <<board, current, engine>>, CallsShape',
           a.pc # "idle" => a.content \in Contents,
           a.pc # "idle" /\ a.engine # 0 => engine[d][a.engine].pc # "new",
           a.pc # "told", a.pc \in Written => a.engine # 0
    PROVE  ClipboardInv'
<1> USE DEF ClipboardInv, Shapes, Facts
<1>1. EnginesGrow
  BY NoEngine
<1>2. BoardShape' /\ EngineShape' /\ EngineFacts' /\ BoardFacts'
  BY DEF BoardShape, EngineShape, EngineFacts, BoardFacts, Heard
<1>3. ApplyFacts'
  <2> SUFFICES ASSUME NEW d2 \in Devices
               PROVE  /\ apply'[d2].pc # "idle" => apply'[d2].content \in Contents
                      /\ apply'[d2].pc # "idle" /\ apply'[d2].engine # 0
                            => engine'[d2][apply'[d2].engine].pc # "new"
                      /\ apply'[d2].pc = "told" /\ apply'[d2].engine # 0
                            => Hash(apply'[d2].content, d2)
                                  \in Known(engine'[d2][apply'[d2].engine])
                      /\ apply'[d2].pc \in Written => apply'[d2].engine # 0
    BY DEF ApplyFacts
  <2>1. CASE d2 = d
    <3>1. apply'[d2] = a
      BY <2>1 DEF BoardShape
    <3> QED BY <2>1, <3>1
  <2>2. CASE d2 # d
    <3>1. apply'[d2] = apply[d2]
      BY <2>2 DEF BoardShape
    <3> QED BY <1>1, <3>1, ApplyStays
  <2> QED BY <2>1, <2>2
<1> QED BY <1>2, <1>3

LEMMA TakeHolds ==
    ASSUME ClipboardInv, NEW d \in Devices, TakeReceived(d) \/ WriteFails(d)
    PROVE  ClipboardInv'
<1>1. CASE TakeReceived(d)
  <2> DEFINE a == [pc |-> "taken", content |-> Head(inbox[d]), engine |-> current[d]]
  <2>1. inbox[d] \in Seq(Contents) /\ inbox[d] # <<>>
    BY <1>1 DEF ClipboardInv, Shapes, CallsShape, TakeReceived
  <2>2. Head(inbox[d]) \in Contents /\ Tail(inbox[d]) \in Seq(Contents)
    BY <2>1
  <2>3. CallsShape'
    BY <1>1, <2>2 DEF ClipboardInv, Shapes, CallsShape, TakeReceived
  <2>4. a \in ApplyStates /\ a.content \in Contents /\ a.pc = "taken" /\ a.engine = current[d]
    BY <2>2 DEF ClipboardInv, Shapes, BoardShape, ApplyStates
  <2>5. apply' = [apply EXCEPT ![d] = a] /\ UNCHANGED <<board, current, engine>>
    BY <1>1 DEF TakeReceived
  <2>6. current[d] # 0 => engine[d][current[d]].pc # "new"
    BY DEF ClipboardInv, Facts, BoardFacts
  <2> HIDE DEF a
  <2> QED BY <2>3, <2>4, <2>5, <2>6, ApplyChanges DEF Written
<1>2. CASE WriteFails(d)
  <2>1. Idle \in ApplyStates /\ Idle.pc = "idle"
    BY EngineNumbers DEF Idle, ApplyStates
  <2>2. CallsShape'
    BY <1>2, CallsShapeStays DEF ClipboardInv, Shapes, WriteFails
  <2> QED BY <1>2, <2>1, <2>2, ApplyChanges DEF WriteFails, Written
<1> QED BY <1>1, <1>2

LEMMA TellHolds ==
    ASSUME ClipboardInv, NEW d \in Devices, TellEngine(d)
    PROVE  ClipboardInv'
<1> DEFINE e == apply[d].engine
           h == Hash(apply[d].content, d)
<1>1. e \in 0..MaxEngines /\ h \in Hashes /\ (e # 0 => engine[d][e].pc # "new")
  BY HashType DEF ClipboardInv, Shapes, Facts, BoardShape, ApplyStates, ApplyFacts, TellEngine
<1>2. /\ BoardShape' /\ CallsShape' /\ UNCHANGED <<board, current>>
      /\ apply'[d] = [apply[d] EXCEPT !.pc = "told"]
      /\ \A d2 \in Devices : d2 # d => apply'[d2] = apply[d2]
  <2>1. UNCHANGED <<board, current>> /\ apply' = [apply EXCEPT ![d].pc = "told"]
    BY DEF TellEngine
  <2>2. BoardShape'
    BY <2>1 DEF ClipboardInv, Shapes, BoardShape, ApplyStates
  <2>3. CallsShape'
    BY CallsShapeStays DEF ClipboardInv, Shapes, TellEngine
  <2> QED BY <2>1, <2>2, <2>3 DEF ClipboardInv, Shapes, BoardShape
<1>3. /\ apply'[d].pc = "told" /\ apply'[d].engine = e
      /\ apply'[d].content = apply[d].content /\ apply[d].content \in Contents
  BY <1>2 DEF ClipboardInv, Shapes, Facts, BoardShape, ApplyStates, ApplyFacts, TellEngine
<1>4. /\ EngineShape' /\ EngineFacts' /\ BoardFacts' /\ EnginesGrow
      /\ e # 0 => engine'[d][e].pc # "new" /\ h \in Known(engine'[d][e])
  <2>1. CASE e = 0
    <3>1. UNCHANGED engine
      BY <2>1 DEF TellEngine
    <3> QED BY <1>2, <2>1, <3>1, NoEngine
            DEF ClipboardInv, Shapes, Facts, EngineShape, EngineFacts, BoardFacts, Heard
  <2>2. CASE e # 0
    <3> DEFINE n == Remembers(engine[d][e], h)
    <3>1. e \in Engines
      BY <1>1, <2>2, EngineNumbers
    <3>2. /\ engine[d][e] \in EngineStates /\ engine[d][e].pc # "new"
          /\ engine[d][e].pc = "waiting" => current[d] = e
          /\ engine[d][e].pc \in Undecided => engine[d][e].read \in Held
          /\ Heard(d, engine[d][e].read)
      BY <1>1, <2>2, <3>1 DEF ClipboardInv, Shapes, Facts, EngineShape, EngineFacts
    <3>3. Becomes(d, e, n)
      BY <2>2 DEF TellEngine, Told, Becomes
    <3>4. /\ n \in EngineStates /\ n.pc = engine[d][e].pc /\ n.read = engine[d][e].read
          /\ Known(engine[d][e]) \subseteq Known(n) /\ h \in Known(n)
      BY <1>1, <3>2, RememberKeeps
    <3> HIDE DEF n, e, h
    <3>5. /\ EngineShape' /\ EngineFacts' /\ BoardFacts' /\ EnginesGrow /\ engine'[d][e] = n
      BY <1>2, <3>1, <3>2, <3>3, <3>4, EngineStep
    <3> QED BY <3>2, <3>4, <3>5
  <2> QED BY <2>1, <2>2
<1>5. ApplyFacts'
  <2> SUFFICES ASSUME NEW d2 \in Devices
               PROVE  /\ apply'[d2].pc # "idle" => apply'[d2].content \in Contents
                      /\ apply'[d2].pc # "idle" /\ apply'[d2].engine # 0
                            => engine'[d2][apply'[d2].engine].pc # "new"
                      /\ apply'[d2].pc = "told" /\ apply'[d2].engine # 0
                            => Hash(apply'[d2].content, d2)
                                  \in Known(engine'[d2][apply'[d2].engine])
                      /\ apply'[d2].pc \in Written => apply'[d2].engine # 0
    BY DEF ApplyFacts
  <2>1. CASE d2 = d
    BY <1>3, <1>4, <2>1 DEF Written
  <2>2. CASE d2 # d
    BY <1>2, <1>4, <2>2, ApplyStays DEF ClipboardInv, Shapes, Facts
  <2> QED BY <2>1, <2>2
<1> QED BY <1>2, <1>4, <1>5 DEF ClipboardInv, Shapes, Facts

LEMMA WriteHolds ==
    ASSUME ClipboardInv, NEW d \in Devices, WriteReceived(d) \/ WriteSpoils(d)
    PROVE  ClipboardInv'
<1>1. PICK held \in Readings :
          Puts(d, held, engine[d]) /\ Heard(d, held)
  <2>1. CASE WriteReceived(d)
    <3> DEFINE held == [hash |-> Hash(apply[d].content, d), remote |-> TRUE,
                        via |-> apply[d].engine]
    <3>1. Hash(apply[d].content, d) \in Hashes /\ apply[d].engine \in 0..MaxEngines
      BY <2>1, HashType
         DEF ClipboardInv, Shapes, Facts, BoardShape, ApplyStates, ApplyFacts, WriteReceived
    <3>2. held \in Readings
      BY <3>1 DEF Readings, Held
    <3>3. Heard(d, held)
      BY <2>1 DEF ClipboardInv, Facts, ApplyFacts, WriteReceived, Heard
    <3>4. Puts(d, held, engine[d])
      BY <2>1 DEF WriteReceived
    <3> QED BY <3>2, <3>3, <3>4
  <2>2. CASE WriteSpoils(d)
    BY <2>2, NothingHeard DEF WriteSpoils, Readings
  <2> QED BY <2>1, <2>2
<1>2. PICK a \in ApplyStates :
          /\ apply' = [apply EXCEPT ![d] = a]
          /\ AfterTold(a, apply[d])
  <2>1. apply[d] \in ApplyStates /\ apply[d].pc = "told"
    BY DEF ClipboardInv, Shapes, BoardShape, WriteReceived, WriteSpoils
  <2>2. \/ apply' = [apply EXCEPT ![d] = Idle]
        \/ /\ apply[d].engine # 0
           /\ \E pc \in Written : apply' = [apply EXCEPT ![d] = [@ EXCEPT !.pc = pc]]
    <3>1. AfterWrite(d, "wrote") \/ AfterWrite(d, "spoiled")
      BY DEF WriteReceived, WriteSpoils
    <3> QED BY <3>1 DEF AfterWrite, IsThrough, Written
  <2>3. CASE apply' = [apply EXCEPT ![d] = Idle]
    <3>1. Idle \in ApplyStates /\ Idle.pc = "idle"
      BY EngineNumbers DEF Idle, ApplyStates
    <3> QED BY <2>3, <3>1 DEF AfterTold
  <2>4. ASSUME apply[d].engine # 0, NEW pc \in Written,
               apply' = [apply EXCEPT ![d] = [@ EXCEPT !.pc = pc]]
        PROVE  \E a \in ApplyStates : apply' = [apply EXCEPT ![d] = a] /\ AfterTold(a, apply[d])
    <3> DEFINE a == [apply[d] EXCEPT !.pc = pc]
    <3>1. /\ a \in ApplyStates /\ a.engine = apply[d].engine /\ a.content = apply[d].content
          /\ a.pc = pc
      BY <2>1, <2>4 DEF ApplyStates, Written
    <3>2. apply' = [apply EXCEPT ![d] = a]
      BY <2>4
    <3> HIDE DEF a
    <3> QED BY <2>1, <2>4, <3>1, <3>2 DEF AfterTold
  <2> QED BY <2>2, <2>3, <2>4
<1>3. UNCHANGED <<current, channel, sending, calls, reports, inbox>>
  BY DEF WriteReceived, WriteSpoils
<1> QED BY <1>1, <1>2, <1>3, PutStep

\* What remains to be done after a write.
LEMMA Finishes ==
    ASSUME ClipboardInv, NEW d \in Devices, apply[d].pc \in Written
    PROVE  \A a \in {Idle, [apply[d] EXCEPT !.pc = "applied"]} :
               /\ a \in ApplyStates /\ a.pc # "told"
               /\ a.pc # "idle" => /\ a.content \in Contents /\ a.engine # 0
                                   /\ engine[d][a.engine].pc # "new"
<1>1. Idle \in ApplyStates /\ Idle.pc = "idle"
  BY EngineNumbers DEF Idle, ApplyStates
<1>2. /\ apply[d] \in ApplyStates /\ apply[d].content \in Contents /\ apply[d].engine # 0
      /\ engine[d][apply[d].engine].pc # "new"
  BY DEF ClipboardInv, Shapes, Facts, BoardShape, ApplyFacts, Written
<1> DEFINE b == [apply[d] EXCEPT !.pc = "applied"]
<1>3. /\ b \in ApplyStates /\ b.pc = "applied" /\ b.content = apply[d].content
      /\ b.engine = apply[d].engine
  BY <1>2 DEF ApplyStates
<1> HIDE DEF b
<1> QED BY <1>1, <1>2, <1>3 DEF b

LEMMA MarkHolds ==
    ASSUME ClipboardInv, NEW d \in Devices, MarkSeen(d)
    PROVE  ClipboardInv'
<1>1. apply[d].pc \in Written
  BY DEF MarkSeen, Written
<1>2. PICK a \in {Idle, [apply[d] EXCEPT !.pc = "applied"]} : apply' = [apply EXCEPT ![d] = a]
  BY DEF MarkSeen
<1>3. /\ a \in ApplyStates /\ a.pc # "told"
      /\ a.pc # "idle" => /\ a.content \in Contents /\ a.engine # 0
                          /\ engine[d][a.engine].pc # "new"
  BY <1>1, <1>2, Finishes
<1>4. CallsShape' /\ UNCHANGED <<board, current>>
  BY CallsShapeStays DEF ClipboardInv, Shapes, MarkSeen
<1> DEFINE e == apply[d].engine
           r == engine[d][e]
<1>5. e \in Engines /\ r.pc # "new"
  BY <1>1, EngineNumbers
     DEF ClipboardInv, Shapes, Facts, BoardShape, ApplyStates, ApplyFacts, Written
<1>6. /\ r \in EngineStates /\ (r.pc = "waiting" => current[d] = e)
      /\ (r.pc \in Undecided => r.read \in Held) /\ Heard(d, r.read)
  BY <1>5 DEF ClipboardInv, Shapes, Facts, EngineShape, EngineFacts
<1>7. PICK n \in {[r EXCEPT !.moved = FALSE], [r EXCEPT !.pc = "noticed"]} : Becomes(d, e, n)
  BY DEF MarkSeen, Seen, Becomes
<1>8. /\ n \in EngineStates /\ n.pc \in {r.pc, "noticed"} /\ n.read = r.read
      /\ Known(n) = Known(r)
  BY <1>6, <1>7 DEF EngineStates, Known
<1> HIDE DEF e, r
<1>9. EngineShape' /\ EngineFacts' /\ BoardFacts' /\ EnginesGrow
  BY <1>4, <1>5, <1>6, <1>7, <1>8, EngineStep DEF r, Undecided
<1>10. BoardShape' /\ apply'[d] = a /\ \A d2 \in Devices : d2 # d => apply'[d2] = apply[d2]
  BY <1>2, <1>3, <1>4 DEF ClipboardInv, Shapes, BoardShape
<1>11. ApplyFacts'
  <2> SUFFICES ASSUME NEW d2 \in Devices
               PROVE  /\ apply'[d2].pc # "idle" => apply'[d2].content \in Contents
                      /\ apply'[d2].pc # "idle" /\ apply'[d2].engine # 0
                            => engine'[d2][apply'[d2].engine].pc # "new"
                      /\ apply'[d2].pc = "told" /\ apply'[d2].engine # 0
                            => Hash(apply'[d2].content, d2)
                                  \in Known(engine'[d2][apply'[d2].engine])
                      /\ apply'[d2].pc \in Written => apply'[d2].engine # 0
    BY DEF ApplyFacts
  <2>1. CASE d2 = d
    <3>1. a.engine \in 0..MaxEngines
      BY <1>3 DEF ApplyStates
    <3> QED BY <1>3, <1>9, <1>10, <2>1, <3>1, EngineNumbers DEF EnginesGrow, Written
  <2>2. CASE d2 # d
    BY <1>9, <1>10, <2>2, ApplyStays DEF ClipboardInv, Shapes, Facts
  <2> QED BY <2>1, <2>2
<1> QED BY <1>4, <1>9, <1>10, <1>11 DEF ClipboardInv, Shapes, Facts

LEMMA AppliedHolds ==
    ASSUME ClipboardInv, NEW d \in Devices, TellApplied(d)
    PROVE  ClipboardInv'
<1>1. apply[d].pc \in Written
  BY DEF TellApplied, Written
<1>2. /\ Idle \in ApplyStates /\ Idle.pc = "idle" /\ apply' = [apply EXCEPT ![d] = Idle]
      /\ UNCHANGED <<board, current, engine>>
  BY EngineNumbers DEF TellApplied, Idle, ApplyStates
<1>3. apply[d].engine \in Engines
  BY <1>1, EngineNumbers DEF ClipboardInv, Shapes, Facts, BoardShape, ApplyStates, ApplyFacts
<1>4. channel' \in [Devices -> [Engines -> Channels]]
  <2>1. Tells(d, apply[d].engine, {}) /\ {} \in SUBSET QuietCalls
    BY DEF TellApplied
  <2> QED BY <1>3, <2>1, TellsRoom DEF ClipboardInv, Shapes, CallsShape
<1>5. CallsShape'
  BY <1>4 DEF ClipboardInv, Shapes, CallsShape, TellApplied
<1> QED BY <1>2, <1>5, ApplyChanges DEF Written

LEMMA ApplyHolds ==
    ASSUME ClipboardInv, NEW d \in Devices, ApplyStep(d)
    PROVE  ClipboardInv'
BY TakeHolds, TellHolds, WriteHolds, MarkHolds, AppliedHolds DEF ApplyStep

------------------------------------------------------------------------------
(* Requests, and the theorems.                                             *)

LEMMA EventHolds ==
    ASSUME ClipboardInv, NEW d \in Devices,
           WatchSends(d) \/ \E e \in Engines : EventStep(d, e)
    PROVE  ClipboardInv'
<1>1. CallsShape
  BY DEF ClipboardInv, Shapes
<1>2. CASE WatchSends(d)
  <2>1. CallsShape'
    BY <1>1, <1>2 DEF CallsShape, WatchSends
  <2> QED BY <1>2, <2>1, CallsStep DEF WatchSends
<1>3. ASSUME NEW e \in Engines, EventStep(d, e) PROVE ClipboardInv'
  <2>1. UNCHANGED <<board, current, engine, apply, reports, inbox>>
    BY <1>3 DEF EventStep, TakeEvent, WatchEvent
  <2>2. /\ channel' \in [Devices -> [Engines -> Channels]]
        /\ Head(channel[d][e]) \in SUBSET QuietCalls
    BY <1>1, <1>3, TakenRoom DEF CallsShape, EventStep, TakeEvent, WatchEvent
  <2>3. CASE TakeEvent(d, e)
    <3>1. CallsShape'
      BY <1>1, <2>1, <2>2, <2>3 DEF CallsShape, TakeEvent
    <3> QED BY <2>1, <3>1, CallsStep
  <2>4. CASE WatchEvent(d, e)
    <3>1. CallsShape'
      BY <1>1, <2>1, <2>2, <2>4 DEF CallsShape, WatchEvent
    <3> QED BY <2>1, <3>1, CallsStep
  <2> QED BY <1>3, <2>3, <2>4 DEF EventStep
<1> QED BY <1>2, <1>3

LEMMA ReportHolds ==
    ASSUME ClipboardInv, NEW k \in reports, Report(k)
    PROVE  ClipboardInv'
<1>1. CallsShape
  BY DEF ClipboardInv, Shapes
<1>2. k.from \in Devices /\ k.engine \in Engines /\ {} \in SUBSET QuietCalls
  BY <1>1 DEF CallsShape, QuietCalls, AllCalls
<1>3. channel' \in [Devices -> [Engines -> Channels]]
  BY <1>1, <1>2, TellsRoom DEF CallsShape, Report
<1>4. CallsShape'
  BY <1>1, <1>3 DEF CallsShape, Report
<1> QED BY <1>4, CallsStep DEF Report

LEMMA RequestHolds ==
    ASSUME ClipboardInv, NEW k \in calls, Deliver(k) \/ FailCall(k)
    PROVE  ClipboardInv'
<1>1. CallsShape
  BY DEF ClipboardInv, Shapes
<1>2. /\ k \in QuietCalls /\ k.from \in Devices /\ k.to \in Devices /\ k.content \in Contents
      /\ k.engine # 0 => k.engine \in Engines
  BY <1>1, EngineNumbers DEF CallsShape, QuietCalls, AllCalls
<1>3. /\ sending' \in [Devices -> SUBSET QuietCalls]
      /\ \A d \in Devices : sending'[d] # {} => d \in Watchers
      /\ calls' \subseteq QuietCalls
      /\ UNCHANGED <<board, current, engine, apply, channel>>
  BY <1>1, <1>2 DEF CallsShape, Deliver, FailCall, Returns
<1>4. reports' \subseteq QuietCalls /\ \A i \in reports' : i.engine \in Engines
  <2>1. Returns(k)
    BY DEF Deliver, FailCall
  <2> QED BY <1>1, <1>2, <2>1 DEF CallsShape, Returns, IsPush
<1>5. inbox' \in [Devices -> Seq(Contents)]
  <2>1. CASE Deliver(k)
    <3>1. inbox[k.to] \in Seq(Contents)
      BY <1>1, <1>2 DEF CallsShape
    <3>2. Append(inbox[k.to], k.content) \in Seq(Contents)
      BY <1>2, <3>1
    <3>3. inbox' = [inbox EXCEPT ![k.to] = Append(inbox[k.to], k.content)]
      BY <2>1 DEF Deliver
    <3> QED BY <1>1, <3>2, <3>3 DEF CallsShape
  <2>2. CASE FailCall(k)
    BY <1>1, <2>2 DEF CallsShape, FailCall
  <2> QED BY <2>1, <2>2
<1>6. CallsShape'
  BY <1>1, <1>3, <1>4, <1>5 DEF CallsShape
<1> QED BY <1>3, <1>6, CallsStep

LEMMA StepHolds == ClipboardInv /\ [ClipboardNext]_clipboardVars => ClipboardInv'
<1> SUFFICES ASSUME ClipboardInv, [ClipboardNext]_clipboardVars PROVE ClipboardInv'
  OBVIOUS
<1>1. CASE UNCHANGED clipboardVars
  <2>1. CallsShape'
    BY <1>1, CallsShapeStays DEF ClipboardInv, Shapes, clipboardVars
  <2> QED BY <1>1, <2>1, CallsStep DEF clipboardVars
<1>2. CASE ClipboardNext
  BY <1>2, UserHolds, EventHolds, ReportHolds, ApplyHolds, WatchHolds, RequestHolds
     DEF ClipboardNext
<1> QED BY <1>1, <1>2

THEOREM ClipboardInvariance == ClipboardSpec => []ClipboardInv
BY InitHolds, StepHolds, PTL DEF ClipboardSpec

\* The ring of recent hashes never exceeds its size, at most one synchronisation of
\* a device waits for changes, and only clip watch makes transfers one by one:
\* watch_loop, RecentHashes and run_clip.
THEOREM ClipboardTypes == ClipboardSpec => []ClipboardTypeOK
<1>1. ClipboardInv => ClipboardTypeOK
  <2> SUFFICES ASSUME ClipboardInv PROVE ClipboardTypeOK
    OBVIOUS
  <2>1. QuietCalls \subseteq AllCalls
    BY DEF QuietCalls
  <2>2. /\ board \in [Devices -> Held \cup {Nothing}]
        /\ current \in [Devices -> 0..MaxEngines]
        /\ apply \in [Devices -> [pc : {"idle", "taken", "told", "wrote", "spoiled", "applied"},
                                  content : Contents \cup {None}, engine : 0..MaxEngines]]
    BY DEF ClipboardInv, Shapes, BoardShape, Readings, ApplyStates
  <2>3. ASSUME NEW d \in Devices, NEW e \in Engines
        PROVE  LET r == engine[d][e] IN
               /\ r.pc \in {"new", "waiting", "noticed", "failed", "read", "news",
                           "remembered", "pushing", "ended"}
               /\ r.moved \in BOOLEAN /\ r.echo \in BOOLEAN /\ r.read \in Held \cup {Nothing}
               /\ r.ring \in Seq(Hashes) /\ Len(r.ring) <= RingSize /\ r.dropped \subseteq Hashes
               /\ r.pc = "waiting" => current[d] = e
    <3>1. engine[d][e] \in EngineStates /\ (engine[d][e].pc = "waiting" => current[d] = e)
      BY DEF ClipboardInv, Shapes, Facts, EngineShape, EngineFacts
    <3>2. engine[d][e].ring \in Rings
      BY <3>1 DEF EngineStates
    <3> QED BY <3>1, <3>2 DEF EngineStates, Readings, Rings
  <2>4. ASSUME NEW d \in Devices, NEW e \in Engines
        PROVE  channel[d][e] \in Seq(SUBSET AllCalls) /\ Len(channel[d][e]) <= SyncRoom
    BY <2>1 DEF ClipboardInv, Shapes, CallsShape, Channels
  <2>5. /\ calls \subseteq AllCalls /\ reports \subseteq AllCalls
        /\ \A d \in Devices : sending[d] # {} => d \in Watchers /\ sending[d] \subseteq AllCalls
        /\ inbox \in [Devices -> Seq(Contents)]
    BY <2>1 DEF ClipboardInv, Shapes, CallsShape
  <2> QED BY <2>2, <2>3, <2>4, <2>5 DEF ClipboardTypeOK
<1> QED BY <1>1, ClipboardInvariance, PTL

\* No synchronisation sends back what a peer has put on the clipboard through it, as
\* long as the ring has not had to drop its hash, however the write of the event loop,
\* the watch loop and the commands of the user interleave: mark_remote and process_change.
THEOREM NeverEchoes == ClipboardSpec => []NoEcho
<1>1. ClipboardInv => NoEcho
  <2> SUFFICES ASSUME ClipboardInv PROVE NoEcho
    OBVIOUS
  <2>1. \A k \in calls \cup UNION {sending[d] : d \in Devices} : ~k.echo
    BY DEF ClipboardInv, Shapes, CallsShape, QuietCalls
  <2>2. ASSUME NEW d \in Devices, NEW e \in Engines, NEW k \in UNION ToSet(channel[d][e])
        PROVE  ~k.echo
    <3>1. channel[d][e] \in Seq(SUBSET QuietCalls)
      BY DEF ClipboardInv, Shapes, CallsShape, Channels
    <3>2. PICK i \in DOMAIN channel[d][e] : k \in channel[d][e][i]
      BY DEF ToSet
    <3>3. channel[d][e][i] \in SUBSET QuietCalls
      BY <3>1, <3>2
    <3> QED BY <3>2, <3>3 DEF QuietCalls
  <2> QED BY <2>1, <2>2 DEF NoEcho
<1> QED BY <1>1, ClipboardInvariance, PTL

------------------------------------------------------------------------------
(***************************************************************************)
(* ClipboardHistory, for any numbers of processes, tasks and entries and   *)
(* any limit, from HistoryAssumption alone.                                *)
(*                                                                         *)
(* Whether a file is removed too early or never depends on what each       *)
(* worker knows of an item: that it has yet to write its row, or that the  *)
(* row is gone for good.                                                   *)
(***************************************************************************)

(* What each worker knows.                                                 *)

WorkerType ==
    [pc : {"idle", "taken", "written", "inserted", "read", "removing", "deleting",
           "clearing", "copying"},
     item : Entries \cup {Null}, at : Nat, doomed : SUBSET Entries]
WorkerTypeOK ==
    /\ worker \in [Workers -> WorkerType]
    /\ lock \in [Processes -> Workers \cup {Null}]

\* An item that is on its way into the history: it was taken once, and has no row yet.
Records(w) == worker[w].pc \in {"taken", "written"}
OneRecorder ==
    /\ waiting \cap Kept = {}
    /\ \A w \in Workers : Records(w) =>
          /\ worker[w].at \in Stamps
          /\ worker[w].item \in Entries \ (waiting \cup Kept)
          /\ worker[w].pc = "written" => worker[w].item \in Images \cap files
          /\ \A v \in Workers : Records(v) /\ worker[v].item = worker[w].item => v = w

\* What a worker has read of had a row, and what it removes the files of has none
\* left, and none to come.
GoneForGood ==
    \A w \in Workers :
        /\ worker[w].doomed \cap waiting = {}
        /\ \A v \in Workers : Records(v) => worker[v].item \notin worker[w].doomed
        /\ worker[w].pc = "removing" => worker[w].doomed \cap Kept \subseteq misjudged
        /\ worker[w].pc = "deleting" => worker[w].doomed = {worker[w].item}

\* A file belongs to a row, or to somebody who is about to write the row or to remove
\* the file.
Owns(w, x) == \/ worker[w].pc = "removing" /\ x \in worker[w].doomed
              \/ worker[w].pc = "written" /\ x = worker[w].item
FilesOwned ==
    /\ \A x \in Kept \cap Images : x \in files \cup misjudged
    /\ \A x \in files : x \in Kept \cup overlooked \/ \E w \in Workers : Owns(w, x)

HistoryInv == /\ HistoryTypeOK /\ WorkerTypeOK
              /\ OneRecorder /\ GoneForGood /\ FilesOwned /\ HistoryBounded

------------------------------------------------------------------------------
(* Rowids.                                                                 *)

\* The least of some numbers.
LEMMA HasLeast ==
    ASSUME NEW S \in SUBSET Nat, S # {}
    PROVE  \E k \in S : \A j \in S : k <= j
<1>1. PICK k \in S : \A j \in S : ~ (<<j, k>> \in OpToRel(<, Nat))
    BY NatLessThanWellFounded, WFMin
<1>2. \A j \in S : j < k => <<j, k>> \in OpToRel(<, Nat)
    BY DEF OpToRel
<1>3. \A j \in S : ~ (j < k)
    BY <1>1, <1>2, Zenon
<1> QED BY <1>3

\* The greatest of finitely many: of the sets that have none a smallest one would be
\* left with one by taking an element away.
LEMMA HasGreatest ==
    ASSUME NEW S \in SUBSET Nat, IsFiniteSet(S), S # {}
    PROVE  \E k \in S : \A j \in S : j <= k
<1> DEFINE Greatest(T) == \E k \in T : \A j \in T : j <= k
           Bad == {T \in FiniteSubsetsOf(S) : T # {} /\ ~Greatest(T)}
<1>1. SUFFICES ASSUME Bad # {} PROVE FALSE
  <2>1. S \in FiniteSubsetsOf(S)
    BY DEF FiniteSubsetsOf
  <2> QED BY <2>1
<1>2. PICK T \in Bad : \A U \in Bad : ~ (<<U, T>> \in StrictSubsetOrdering(S))
  <2>1. Bad \subseteq FiniteSubsetsOf(S)
    OBVIOUS
  <2> HIDE DEF Bad
  <2> QED BY <1>1, <2>1, FS_StrictSubsetOrderingWellFounded, WFMin
<1>3. T \subseteq S /\ IsFiniteSet(T) /\ T # {} /\ ~Greatest(T)
  BY DEF FiniteSubsetsOf
<1>4. PICK x \in T : TRUE
  BY <1>3
<1>5. T \ {x} \in FiniteSubsetsOf(S)
  BY <1>3, FS_RemoveElement DEF FiniteSubsetsOf
<1>6. <<T \ {x}, T>> \in StrictSubsetOrdering(S)
  BY <1>3, <1>4 DEF StrictSubsetOrdering
<1>7. T \ {x} \notin Bad
  BY <1>2, <1>6
<1>8. T \ {x} = {} \/ Greatest(T \ {x})
  BY <1>5, <1>7
<1>9. Greatest(T)
  <2>1. CASE T \ {x} = {}
    BY <2>1, <1>3, <1>4
  <2>2. CASE Greatest(T \ {x})
    <3>1. PICK k \in T \ {x} : \A j \in T \ {x} : j <= k
      BY <2>2
    <3>2. k \in Nat /\ x \in Nat /\ T \subseteq Nat
      BY <1>3, <1>4, <3>1
    <3>3. CASE x <= k
      BY <3>1, <3>2, <3>3
    <3>4. CASE k < x
      <4>1. \A j \in T : j <= x
        BY <3>1, <3>2, <3>4
      <4> QED BY <4>1, <1>4
    <3> QED BY <3>2, <3>3, <3>4
  <2> QED BY <1>8, <2>1, <2>2
<1> QED BY <1>3, <1>9

\* A new row comes after all others.
LEMMA NextRowidIsNext ==
    ASSUME HistoryTypeOK
    PROVE  NextRowid \in Nat /\ \A r \in rows : r.rowid < NextRowid
<1>0. IsFiniteSet(rows) /\ \A r \in rows : r.rowid \in Nat
  BY DEF HistoryTypeOK
<1>1. CASE rows = {}
  BY <1>1 DEF NextRowid
<1>2. CASE rows # {}
  <2> DEFINE ids == {r.rowid : r \in rows}
             id == [r \in rows |-> r.rowid]
  <2>1. id \in Surjection(rows, ids)
    BY DEF Surjection
  <2>2. IsFiniteSet(ids) /\ ids \in SUBSET Nat /\ ids # {}
    BY <1>0, <1>2, <2>1, FS_Surjection
  <2>3. PICK k \in ids : \A j \in ids : j <= k
    <3> HIDE DEF ids
    <3> QED BY <2>2, HasGreatest
  <2>4. k \in Nat /\ \A j \in ids : j \in Nat /\ k >= j
    BY <2>2, <2>3
  <2>5. Max(ids) \in ids /\ \A j \in ids : Max(ids) >= j
    <3> HIDE DEF ids
    <3> QED BY <2>3, <2>4, Zenon DEF Max
  <2>6. NextRowid = 1 + Max(ids)
    BY <1>2 DEF NextRowid
  <2>7. \A r \in rows : r.rowid \in ids
    OBVIOUS
  <2>8. PICK last : last = Max(ids)
    OBVIOUS
  <2>9. last \in Nat /\ \A r \in rows : r.rowid \in Nat /\ last >= r.rowid
    BY <2>2, <2>5, <2>7, <2>8, Zenon
  <2>10. NextRowid = 1 + last
    BY <2>6, <2>8, Zenon
  <2> HIDE DEF ids, id
  <2> QED BY <2>9, <2>10
<1> QED BY <1>1, <1>2

\* What is left when old rows are deleted is within the limit: all of it is newer
\* than the oldest of it.
LEMMA PrunedIsBounded ==
    ASSUME HistoryTypeOK
    PROVE  /\ IsFiniteSet(Without(Old))
           /\ Cardinality(Without(Old)) <= HistoryLimit
<1> DEFINE left == Without(Old)
<1>0. /\ IsFiniteSet(rows) /\ left \subseteq rows /\ IsFiniteSet(left)
      /\ HistoryLimit \in Nat
  <2>1. IsFiniteSet(rows) /\ left \subseteq rows /\ HistoryLimit \in Nat
    BY HistoryAssumption DEF HistoryTypeOK, Without
  <2> HIDE DEF left
  <2> QED BY <2>1, FS_Subset
<1>1. CASE left = {}
  <2>1. Cardinality(left) = 0
    BY <1>1, FS_EmptySet
  <2> QED BY <1>0, <2>1
<1>2. CASE left # {}
  <2>1. \A r \in left : r.at \in Nat /\ r.rowid \in Nat
    <3>1. \A r \in rows : r.at \in Stamps /\ r.rowid \in Nat
      BY DEF HistoryTypeOK
    <3>2. Stamps \subseteq Nat
      BY HistoryAssumption
    <3> HIDE DEF left
    <3> QED BY <1>0, <3>1, <3>2
  <2>2. PICK first \in {r.at : r \in left} : \A t \in {r.at : r \in left} : first <= t
    <3>1. {r.at : r \in left} \in SUBSET Nat /\ {r.at : r \in left} # {}
      BY <1>2, <2>1
    <3> QED BY <3>1, HasLeast
  <2> DEFINE oldest == {r \in left : r.at = first}
  <2>3. PICK id \in {r.rowid : r \in oldest} : \A t \in {r.rowid : r \in oldest} : id <= t
    <3>1. {r.rowid : r \in oldest} \in SUBSET Nat /\ {r.rowid : r \in oldest} # {}
      BY <2>1, <2>2
    <3> QED BY <3>1, HasLeast
  <2>4. PICK m \in left : m.at = first /\ m.rowid = id
    <3> HIDE DEF left
    <3> QED BY <2>3
  <2> DEFINE newer == {q \in rows : Newer(q, m)}
  <2>5. \A q \in left : q = m \/ q \in newer
    <3> SUFFICES ASSUME NEW q \in left, q # m PROVE Newer(q, m)
      BY <1>0
    <3>1. q.rowid # m.rowid /\ q \in rows /\ m \in rows
      BY <1>0, <2>4 DEF HistoryTypeOK
    <3>2. first <= q.at
      BY <2>2
    <3>3. q.at = first => id <= q.rowid
      BY <2>3
    <3>4. first \in Nat /\ id \in Nat /\ q.at \in Nat /\ q.rowid \in Nat
      BY <2>1, <2>4
    <3> QED BY <2>4, <3>1, <3>2, <3>3, <3>4 DEF Newer
  <2>6. ~IsOld(m)
    <3>1. m \in rows /\ m.item \notin Old
      BY <2>4 DEF Without
    <3> QED BY <3>1 DEF Old
  <2>7. IsFiniteSet(newer) /\ Cardinality(newer) < HistoryLimit /\ Cardinality(newer) \in Nat
    <3>1. IsFiniteSet(newer)
      BY <1>0, FS_Subset
    <3>2. Cardinality(newer) \in Nat /\ ~(Cardinality(newer) >= HistoryLimit)
      BY <2>6, <3>1, FS_CardinalityType DEF IsOld
    <3> QED BY <1>0, <3>1, <3>2
  <2>8. /\ IsFiniteSet(newer \cup {m})
        /\ Cardinality(newer \cup {m}) <= Cardinality(newer) + 1
        /\ Cardinality(newer \cup {m}) \in Nat
    <3> HIDE DEF newer
    <3>1. /\ IsFiniteSet(newer \cup {m})
          /\ Cardinality(newer \cup {m}) = IF m \in newer THEN Cardinality(newer) ELSE Cardinality(newer) + 1
      BY <2>7, FS_AddElement
    <3> QED BY <2>7, <3>1
  <2>9. left \in SUBSET (newer \cup {m})
    BY <2>5
  <2>10. Cardinality(left) <= Cardinality(newer \cup {m}) /\ Cardinality(left) \in Nat
    <3> HIDE DEF newer, left
    <3> QED BY <1>0, <2>8, <2>9, FS_Subset, FS_CardinalityType
  <2> HIDE DEF newer, left
  <2> QED BY <1>0, <2>7, <2>8, <2>10 DEF left
<1> QED BY <1>1, <1>2
------------------------------------------------------------------------------
(* The types.                                                              *)

\* A step of a worker leaves the others as they are.
Sets(w, x) == /\ worker' \in [Workers -> WorkerType]
              /\ worker'[w] = x
              /\ \A v \in Workers \ {w} : worker'[v] = worker[v]

LEMMA SetsWorker ==
    ASSUME WorkerTypeOK, NEW w \in Workers, NEW x \in WorkerType,
           worker' = [worker EXCEPT ![w] = x]
    PROVE  Sets(w, x)
BY DEF WorkerTypeOK, Sets

\* What the code around a step gives and needs.
LEMMA WorkerFacts ==
    ASSUME HistoryInv, NEW w \in Workers
    PROVE  /\ worker[w] \in WorkerType /\ worker \in [Workers -> WorkerType]
           /\ ProcessOf[w] \in Processes /\ w # Null /\ Null \notin Entries
           /\ Resting \in WorkerType
           /\ HistoryTypeOK /\ WorkerTypeOK /\ OneRecorder /\ GoneForGood /\ FilesOwned
           /\ Kept \subseteq Entries /\ Old \subseteq Entries
           /\ Images \subseteq Entries /\ Secrets \cap Images = {} /\ Stamps \subseteq Nat
BY HistoryAssumption
   DEF HistoryInv, HistoryTypeOK, WorkerTypeOK, Workers, WorkerType, Resting, Kept, Old

Pc(w, pc) == [worker[w] EXCEPT !.pc = pc]
Emptied(doomed) == [Resting EXCEPT !.pc = "removing", !.doomed = doomed]

\* What each step makes of its worker.
LEMMA RecorderSets ==
    ASSUME HistoryInv, NEW w \in Recorders
    PROVE  /\ Take(w) => \E x \in waiting, t \in Stamps :
                  /\ waiting' = waiting \ {x}
                  /\ Sets(w, [Resting EXCEPT !.pc = "taken", !.item = x, !.at = t])
           /\ SkipSecret(w) \/ WriteImageFails(w) \/ InsertFails(w) \/ PruneFails(w) => Sets(w, Resting)
           /\ WriteImage(w) => Sets(w, Pc(w, "written"))
           /\ InsertRow(w) => Sets(w, Pc(w, "inserted"))
           /\ ReadOld(w) => Sets(w, [worker[w] EXCEPT !.pc = "read", !.doomed = Old])
           /\ DeleteOld(w) => Sets(w, Emptied(worker[w].doomed))
<1>0. w \in Workers
  BY DEF Workers
<1>1. /\ worker[w] \in WorkerType /\ Resting \in WorkerType /\ WorkerTypeOK
      /\ Old \subseteq Entries /\ Stamps \subseteq Nat /\ waiting \subseteq Entries
  BY <1>0, WorkerFacts DEF HistoryTypeOK
<1>2. ASSUME NEW x \in waiting, NEW t \in Stamps
      PROVE  [Resting EXCEPT !.pc = "taken", !.item = x, !.at = t] \in WorkerType
  BY <1>1, <1>2 DEF WorkerType, Resting
<1>3. /\ Pc(w, "written") \in WorkerType /\ Pc(w, "inserted") \in WorkerType
      /\ [worker[w] EXCEPT !.pc = "read", !.doomed = Old] \in WorkerType
      /\ Emptied(worker[w].doomed) \in WorkerType
  BY <1>1 DEF WorkerType, Pc, Emptied, Resting
<1>4. /\ worker \in [Workers -> WorkerType]
      /\ \A pc : [worker EXCEPT ![w].pc = pc] = [worker EXCEPT ![w] = Pc(w, pc)]
      /\ [worker EXCEPT ![w].pc = "read", ![w].doomed = Old]
            = [worker EXCEPT ![w] = [worker[w] EXCEPT !.pc = "read", !.doomed = Old]]
  BY <1>0, <1>1 DEF Pc, WorkerTypeOK
<1>5. ASSUME Take(w)
      PROVE  \E x \in waiting, t \in Stamps :
                  /\ waiting' = waiting \ {x}
                  /\ Sets(w, [Resting EXCEPT !.pc = "taken", !.item = x, !.at = t])
  BY <1>0, <1>1, <1>2, <1>5, SetsWorker DEF Take
<1>6. ASSUME SkipSecret(w) \/ WriteImageFails(w) \/ InsertFails(w) \/ PruneFails(w)
      PROVE  Sets(w, Resting)
  BY <1>0, <1>1, <1>6, SetsWorker DEF SkipSecret, WriteImageFails, InsertFails, PruneFails
<1>7. ASSUME WriteImage(w) PROVE Sets(w, Pc(w, "written"))
  BY <1>0, <1>1, <1>3, <1>4, <1>7, SetsWorker DEF WriteImage, Goes
<1>8. ASSUME InsertRow(w) PROVE Sets(w, Pc(w, "inserted"))
  BY <1>0, <1>1, <1>3, <1>4, <1>8, SetsWorker DEF InsertRow, Goes
<1>9. ASSUME ReadOld(w) PROVE Sets(w, [worker[w] EXCEPT !.pc = "read", !.doomed = Old])
  BY <1>0, <1>1, <1>3, <1>4, <1>9, SetsWorker DEF ReadOld
<1>10. ASSUME DeleteOld(w) PROVE Sets(w, Emptied(worker[w].doomed))
  BY <1>0, <1>1, <1>3, <1>10, SetsWorker DEF DeleteOld, Removes, Emptied
<1> QED BY <1>5, <1>6, <1>7, <1>8, <1>9, <1>10

Asked(pc, x, doomed) == [Resting EXCEPT !.pc = pc, !.item = x, !.doomed = doomed]
LEMMA CommandSets ==
    ASSUME HistoryInv, NEW w \in Workers
    PROVE  /\ AskDelete(w) => \E x \in Kept : Sets(w, Asked("deleting", x, {x}))
           /\ AskClear(w) => Sets(w, Asked("clearing", Null, Kept))
           /\ AskCopy(w) => \E x \in Kept : Sets(w, Asked("copying", x, {}))
           /\ DeleteRow(w) \/ ClearRows(w) => Sets(w, Emptied(worker[w].doomed))
           /\ CopyBack(w) \/ CopyFails(w) \/ CommandFails(w) \/ Finish(w) => Sets(w, Resting)
           /\ \A x : worker' = [worker EXCEPT ![w].doomed = @ \ {x}] =>
                 Sets(w, [worker[w] EXCEPT !.doomed = @ \ {x}])
<1>1. /\ worker[w] \in WorkerType /\ Resting \in WorkerType /\ WorkerTypeOK
      /\ Kept \subseteq Entries /\ worker \in [Workers -> WorkerType]
  BY WorkerFacts
<1>2. /\ \A x \in Kept : Asked("deleting", x, {x}) \in WorkerType /\ Asked("copying", x, {}) \in WorkerType
      /\ Asked("clearing", Null, Kept) \in WorkerType
      /\ Emptied(worker[w].doomed) \in WorkerType
      /\ \A x : [worker[w] EXCEPT !.doomed = @ \ {x}] \in WorkerType
  BY <1>1 DEF WorkerType, Asked, Emptied, Resting
<1>3. \A x : [worker EXCEPT ![w].doomed = @ \ {x}] = [worker EXCEPT ![w] = [worker[w] EXCEPT !.doomed = @ \ {x}]]
  BY <1>1
<1>4. ASSUME AskDelete(w) PROVE \E x \in Kept : Sets(w, Asked("deleting", x, {x}))
  BY <1>1, <1>2, <1>4, SetsWorker DEF AskDelete, Asks, Asked
<1>5. ASSUME AskClear(w) PROVE Sets(w, Asked("clearing", Null, Kept))
  BY <1>1, <1>2, <1>5, SetsWorker DEF AskClear, Asks, Asked
<1>6. ASSUME AskCopy(w) PROVE \E x \in Kept : Sets(w, Asked("copying", x, {}))
  BY <1>1, <1>2, <1>6, SetsWorker DEF AskCopy, Asks, Asked
<1>7. ASSUME DeleteRow(w) \/ ClearRows(w) PROVE Sets(w, Emptied(worker[w].doomed))
  BY <1>1, <1>2, <1>7, SetsWorker DEF DeleteRow, ClearRows, Removes, Emptied
<1>8. ASSUME CopyBack(w) \/ CopyFails(w) \/ CommandFails(w) \/ Finish(w) PROVE Sets(w, Resting)
  BY <1>1, <1>8, SetsWorker DEF CopyBack, CopyFails, CommandFails, Finish
<1>9. ASSUME NEW x, worker' = [worker EXCEPT ![w].doomed = @ \ {x}]
      PROVE  Sets(w, [worker[w] EXCEPT !.doomed = @ \ {x}])
  BY <1>1, <1>2, <1>3, <1>9, SetsWorker
<1> QED BY <1>4, <1>5, <1>6, <1>7, <1>8, <1>9

\* A lock is kept by a worker that is between reading old rows and deleting them.
LEMMA LockKept ==
    ASSUME HistoryInv, NEW w \in Workers, lock' = lock,
           worker[w].pc # "read", NEW x \in WorkerType, x.pc # "read", Sets(w, x)
    PROVE  WorkerTypeOK' /\ \A v \in Workers : worker'[v].pc = "read" <=> lock'[ProcessOf[v]] = v
BY DEF HistoryInv, HistoryTypeOK, WorkerTypeOK, Sets

\* The types, put together.
LEMMA TypesFollow ==
    ASSUME WorkerTypeOK',
           \A v \in Workers : worker'[v].pc = "read" <=> lock'[ProcessOf[v]] = v,
           rows' \subseteq [item : Entries \ Secrets, at : Stamps, rowid : Nat], IsFiniteSet(rows'),
           \A r, q \in rows' : r.item = q.item \/ r.rowid = q.rowid => r = q,
           files' \subseteq Images, overlooked' \subseteq Entries, misjudged' \subseteq Entries,
           waiting' \subseteq Entries, commands' \in 0..MaxCommands, overdue' \in Nat
    PROVE  HistoryTypeOK'
BY DEF HistoryTypeOK, WorkerTypeOK, WorkerType

LEMMA RecorderTypes ==
    ASSUME HistoryInv, NEW w \in Recorders, RecorderStep(w)
    PROVE  WorkerTypeOK' /\ HistoryTypeOK'
<1>0. /\ w \in Workers /\ worker[w] \in WorkerType /\ Resting \in WorkerType /\ Null \notin Entries
      /\ worker \in [Workers -> WorkerType]
      /\ HistoryTypeOK /\ WorkerTypeOK /\ OneRecorder
      /\ Old \subseteq Entries /\ ProcessOf[w] \in Processes /\ Images \subseteq Entries
      /\ Secrets \cap Images = {} /\ Stamps \subseteq Nat
      /\ \A v \in Workers : v # Null
  BY WorkerFacts DEF Workers
<1>1. \A items : /\ Without(items) \subseteq rows /\ IsFiniteSet(Without(items))
  BY <1>0, FS_Subset DEF HistoryTypeOK, Without
<1>2. ASSUME Take(w) PROVE WorkerTypeOK' /\ HistoryTypeOK'
  <2>1. PICK x \in waiting, t \in Stamps :
            /\ waiting' = waiting \ {x}
            /\ Sets(w, [Resting EXCEPT !.pc = "taken", !.item = x, !.at = t])
    BY <1>2, RecorderSets
  <2>2. [Resting EXCEPT !.pc = "taken", !.item = x, !.at = t] \in WorkerType
    BY <1>0, <2>1 DEF Sets
  <2>3. lock' = lock /\ worker[w].pc # "read"
    BY <1>2 DEF Take
  <2>4. WorkerTypeOK' /\ \A v \in Workers : worker'[v].pc = "read" <=> lock'[ProcessOf[v]] = v
    BY <1>0, <2>1, <2>2, <2>3, LockKept DEF Resting
  <2> QED BY <1>0, <1>2, <2>1, <2>4, TypesFollow DEF Take, HistoryTypeOK
<1>3. ASSUME SkipSecret(w) \/ WriteImageFails(w) \/ InsertFails(w) PROVE WorkerTypeOK' /\ HistoryTypeOK'
  <2>1. Sets(w, Resting) /\ lock' = lock /\ worker[w].pc # "read"
    BY <1>3, RecorderSets DEF SkipSecret, WriteImageFails, InsertFails, Insertable
  <2>2. WorkerTypeOK' /\ \A v \in Workers : worker'[v].pc = "read" <=> lock'[ProcessOf[v]] = v
    BY <1>0, <2>1, LockKept DEF Resting
  <2>3. /\ files' \subseteq Images /\ overlooked' \subseteq Entries
        /\ UNCHANGED <<rows, misjudged, waiting, commands, overdue>>
    BY <1>0, <1>3 DEF SkipSecret, WriteImageFails, InsertFails, HistoryTypeOK, WorkerType
  <2> QED BY <1>0, <2>2, <2>3, TypesFollow DEF HistoryTypeOK
<1>4. ASSUME WriteImage(w) PROVE WorkerTypeOK' /\ HistoryTypeOK'
  <2>1. Sets(w, Pc(w, "written")) /\ lock' = lock /\ worker[w].pc # "read"
    BY <1>4, RecorderSets DEF WriteImage
  <2>2. WorkerTypeOK' /\ \A v \in Workers : worker'[v].pc = "read" <=> lock'[ProcessOf[v]] = v
    <3>1. Pc(w, "written") \in WorkerType /\ Pc(w, "written").pc = "written"
      BY <1>0 DEF Pc, WorkerType
    <3> QED BY <1>0, <2>1, <3>1, LockKept
  <2>3. files' \subseteq Images /\ UNCHANGED <<rows, misjudged, waiting, commands, overdue, overlooked>>
    BY <1>0, <1>4 DEF WriteImage, HistoryTypeOK
  <2> QED BY <1>0, <2>2, <2>3, TypesFollow DEF HistoryTypeOK
<1>5. ASSUME InsertRow(w) PROVE WorkerTypeOK' /\ HistoryTypeOK'
  <2>1. Sets(w, Pc(w, "inserted")) /\ lock' = lock /\ worker[w].pc # "read"
    BY <1>5, RecorderSets DEF InsertRow, Insertable
  <2>2. WorkerTypeOK' /\ \A v \in Workers : worker'[v].pc = "read" <=> lock'[ProcessOf[v]] = v
    <3>1. Pc(w, "inserted") \in WorkerType /\ Pc(w, "inserted").pc = "inserted"
      BY <1>0 DEF Pc, WorkerType
    <3> QED BY <1>0, <2>1, <3>1, LockKept
  <2> DEFINE new == [item |-> worker[w].item, at |-> worker[w].at, rowid |-> NextRowid]
  <2>3. rows' = rows \cup {new} /\ UNCHANGED <<files, misjudged, waiting, commands, overdue, overlooked>>
    BY <1>5 DEF InsertRow
  <2>4. /\ worker[w].item \in Entries \ Secrets /\ worker[w].item \notin Kept
        /\ worker[w].at \in Stamps
    BY <1>0, <1>5 DEF InsertRow, Insertable, OneRecorder, Records
  <2>5. NextRowid \in Nat /\ \A r \in rows : r.rowid < NextRowid
    BY <1>0, NextRowidIsNext
  <2>6. new \in [item : Entries \ Secrets, at : Stamps, rowid : Nat] /\ IsFiniteSet(rows')
    BY <1>0, <2>3, <2>4, <2>5, FS_AddElement DEF HistoryTypeOK
  <2>7. \A r \in rows : r.item # new.item /\ r.rowid # new.rowid
    <3>1. \A r \in rows : r.rowid \in Nat
      BY <1>0 DEF HistoryTypeOK
    <3> QED BY <2>4, <2>5, <3>1 DEF Kept
  <2>8. \A r, q \in rows' : r.item = q.item \/ r.rowid = q.rowid => r = q
    <3> HIDE DEF new
    <3>1. \A r, q \in rows : r.item = q.item \/ r.rowid = q.rowid => r = q
      BY <1>0 DEF HistoryTypeOK
    <3> QED BY <2>3, <2>7, <3>1, Zenon
  <2>9. rows' \subseteq [item : Entries \ Secrets, at : Stamps, rowid : Nat]
    <3> HIDE DEF new
    <3> QED BY <1>0, <2>3, <2>6 DEF HistoryTypeOK
  <2> QED BY <1>0, <2>2, <2>3, <2>6, <2>8, <2>9, TypesFollow DEF HistoryTypeOK
<1>6. ASSUME ReadOld(w) PROVE WorkerTypeOK' /\ HistoryTypeOK'
  <2>1. /\ Sets(w, [worker[w] EXCEPT !.pc = "read", !.doomed = Old])
        /\ lock' = [lock EXCEPT ![ProcessOf[w]] = w] /\ lock[ProcessOf[w]] = Null
        /\ UNCHANGED <<rows, files, misjudged, waiting, commands, overdue, overlooked>>
    BY <1>6, RecorderSets DEF ReadOld, Free
  <2>2. worker' \in [Workers -> WorkerType] /\ worker'[w].pc = "read" /\ \A v \in Workers \ {w} : worker'[v] = worker[v]
    BY <1>0, <2>1 DEF Sets, WorkerType
  <2>3. \A v \in Workers : worker'[v].pc = "read" <=> lock'[ProcessOf[v]] = v
    <3>1. \A v \in Workers \ {w} : lock'[ProcessOf[v]] = v <=> lock[ProcessOf[v]] = v
      BY <1>0, <2>1 DEF WorkerTypeOK
    <3>2. lock'[ProcessOf[w]] = w
      BY <1>0, <2>1 DEF WorkerTypeOK
    <3> QED BY <1>0, <2>2, <3>1, <3>2 DEF HistoryTypeOK
  <2>4. WorkerTypeOK'
    BY <1>0, <2>1, <2>2 DEF WorkerTypeOK
  <2> QED BY <1>0, <2>1, <2>3, <2>4, TypesFollow DEF HistoryTypeOK
<1>7. ASSUME DeleteOld(w) \/ PruneFails(w) PROVE WorkerTypeOK' /\ HistoryTypeOK'
  <2>1. /\ worker' \in [Workers -> WorkerType] /\ worker'[w].pc # "read"
        /\ \A v \in Workers \ {w} : worker'[v] = worker[v]
    <3>1. Resting.pc # "read" /\ Emptied(worker[w].doomed).pc # "read"
      BY DEF Resting, Emptied
    <3> QED BY <1>7, <3>1, RecorderSets DEF Sets
  <2>2. /\ lock' \in [Processes -> Workers \cup {Null}]
        /\ lock'[ProcessOf[w]] # w
        /\ \A v \in Workers \ {w} : lock'[ProcessOf[v]] = v <=> lock[ProcessOf[v]] = v
    <3>1. CASE DeleteOld(w)
      <4>1. lock[ProcessOf[w]] = w /\ lock' = [lock EXCEPT ![ProcessOf[w]] = Null]
        BY <1>0, <3>1 DEF DeleteOld, HistoryTypeOK
      <4> QED BY <1>0, <4>1 DEF WorkerTypeOK
    <3>2. CASE PruneFails(w)
      <4>1. lock' = [lock EXCEPT ![ProcessOf[w]] = IF @ = w THEN Null ELSE @]
        BY <3>2 DEF PruneFails
      <4> QED BY <1>0, <4>1 DEF WorkerTypeOK
    <3> QED BY <1>7, <3>1, <3>2
  <2>3. WorkerTypeOK' /\ \A v \in Workers : worker'[v].pc = "read" <=> lock'[ProcessOf[v]] = v
    BY <1>0, <2>1, <2>2 DEF WorkerTypeOK, HistoryTypeOK
  <2>4. /\ rows' \subseteq rows /\ IsFiniteSet(rows')
        /\ overlooked' \subseteq Entries /\ misjudged' \subseteq Entries /\ overdue' \in Nat
        /\ UNCHANGED <<files, waiting, commands>>
    BY <1>0, <1>1, <1>7 DEF DeleteOld, PruneFails, HistoryTypeOK, WorkerType
  <2> QED BY <1>0, <2>3, <2>4, TypesFollow DEF HistoryTypeOK
<1> QED BY <1>2, <1>3, <1>4, <1>5, <1>6, <1>7 DEF RecorderStep

LEMMA CommandTypes ==
    ASSUME HistoryInv, NEW w \in Workers, CommandStep(w) \/ RemoveFile(w) \/ Finish(w)
    PROVE  WorkerTypeOK' /\ HistoryTypeOK'
<1>0. /\ worker[w] \in WorkerType /\ Resting \in WorkerType /\ WorkerTypeOK /\ HistoryTypeOK
      /\ Kept \subseteq Entries /\ Images \subseteq Entries
  BY WorkerFacts
<1>1. lock' = lock /\ worker[w].pc # "read"
  BY DEF CommandStep, AskDelete, AskClear, AskCopy, Asks, DeleteRow, ClearRows, CopyBack, CopyFails,
         CommandFails, RemoveFile, Finish
<1>2. \E x \in WorkerType : x.pc # "read" /\ Sets(w, x)
  <2>1. /\ \A x \in Kept : /\ Asked("deleting", x, {x}) \in WorkerType /\ Asked("deleting", x, {x}).pc # "read"
                           /\ Asked("copying", x, {}) \in WorkerType /\ Asked("copying", x, {}).pc # "read"
        /\ Asked("clearing", Null, Kept) \in WorkerType /\ Asked("clearing", Null, Kept).pc # "read"
        /\ Emptied(worker[w].doomed) \in WorkerType /\ Emptied(worker[w].doomed).pc # "read"
        /\ Resting.pc # "read"
        /\ \A x : /\ [worker[w] EXCEPT !.doomed = @ \ {x}] \in WorkerType
                  /\ [worker[w] EXCEPT !.doomed = @ \ {x}].pc # "read"
    BY <1>0, <1>1 DEF WorkerType, Asked, Emptied, Resting
  <2>2. CASE AskDelete(w) \/ AskClear(w) \/ AskCopy(w)
    BY <2>1, <2>2, CommandSets
  <2>3. CASE DeleteRow(w) \/ ClearRows(w)
    BY <2>1, <2>3, CommandSets
  <2>4. CASE CopyBack(w) \/ CopyFails(w) \/ CommandFails(w) \/ Finish(w)
    BY <1>0, <2>1, <2>4, CommandSets
  <2>5. CASE RemoveFile(w)
    <3>1. PICK x : worker' = [worker EXCEPT ![w].doomed = @ \ {x}]
      BY <2>5 DEF RemoveFile
    <3> QED BY <2>1, <3>1, CommandSets
  <2> QED BY <2>2, <2>3, <2>4, <2>5 DEF CommandStep
<1>3. WorkerTypeOK' /\ \A v \in Workers : worker'[v].pc = "read" <=> lock'[ProcessOf[v]] = v
  BY <1>1, <1>2, LockKept
<1>4. \A items : Without(items) \subseteq rows
  BY DEF Without
<1>5. /\ rows' \subseteq rows /\ files' \subseteq Images /\ overlooked' \subseteq Entries
      /\ commands' \in 0..MaxCommands /\ UNCHANGED <<waiting, misjudged, overdue>>
  <2>1. CASE AskDelete(w) \/ AskClear(w) \/ AskCopy(w)
    <3>1. commands < MaxCommands /\ commands' = commands + 1
      BY <2>1 DEF AskDelete, AskClear, AskCopy, Asks
    <3>2. commands' \in 0..MaxCommands
      BY <1>0, <3>1, HistoryAssumption DEF HistoryTypeOK
    <3> QED BY <1>0, <2>1, <3>2 DEF AskDelete, AskClear, AskCopy, Asks, HistoryTypeOK
  <2>2. CASE DeleteRow(w) \/ ClearRows(w)
    BY <1>0, <1>4, <2>2 DEF DeleteRow, ClearRows, HistoryTypeOK, WorkerType
  <2>3. CASE CopyBack(w) \/ CopyFails(w) \/ CommandFails(w) \/ Finish(w)
    BY <1>0, <2>3 DEF CopyBack, CopyFails, CommandFails, Finish, HistoryTypeOK
  <2>4. CASE RemoveFile(w)
    BY <1>0, <2>4 DEF RemoveFile, HistoryTypeOK, WorkerType, Doomed
  <2> QED BY <2>1, <2>2, <2>3, <2>4 DEF CommandStep
<1>6. IsFiniteSet(rows')
  BY <1>0, <1>5, FS_Subset DEF HistoryTypeOK
<1> QED BY <1>0, <1>3, <1>5, <1>6, TypesFollow DEF HistoryTypeOK

LEMMA NextTypes ==
    ASSUME HistoryInv, HistoryNext
    PROVE  WorkerTypeOK' /\ HistoryTypeOK'
<1>1. \A w : w \in Recorders \/ w \in Commanders => w \in Workers
  BY DEF Workers
<1> QED BY <1>1, RecorderTypes, CommandTypes DEF HistoryNext

------------------------------------------------------------------------------
(* What the steps do to rows and files.                                    *)

Starts(w) ==
    /\ \E x \in waiting, t \in Stamps :
          /\ waiting' = waiting \ {x}
          /\ Sets(w, [Resting EXCEPT !.pc = "taken", !.item = x, !.at = t])
    /\ worker[w].pc = "idle"
    /\ UNCHANGED <<rows, files, overlooked, misjudged>>
Leaves(w) ==
    /\ Sets(w, Resting)
    /\ files \subseteq files' /\ files' \subseteq files \cup overlooked'
    /\ overlooked \subseteq overlooked'
    /\ worker[w].pc = "written" => worker[w].item \in overlooked'
    /\ worker[w].pc = "removing" => worker[w].doomed \cap Images = {}
    /\ UNCHANGED <<rows, waiting, misjudged>>
Writes(w) ==
    /\ worker[w].pc = "taken" /\ worker[w].item \in Images
    /\ Sets(w, Pc(w, "written"))
    /\ files' = files \cup {worker[w].item}
    /\ UNCHANGED <<rows, waiting, overlooked, misjudged>>
Inserts(w) ==
    /\ worker[w].pc = "taken" => worker[w].item \notin Images
    /\ Records(w)
    /\ Sets(w, Pc(w, "inserted"))
    /\ Kept' = Kept \cup {worker[w].item}
    /\ UNCHANGED <<waiting, files, overlooked, misjudged>>
Reads(w) ==
    /\ \E x \in WorkerType :
          /\ Sets(w, x) /\ x.pc \in {"read", "deleting", "clearing", "copying"}
          /\ x.doomed \subseteq Kept
          /\ x.pc = "deleting" => x.doomed = {x.item}
    /\ worker[w].pc \in {"inserted", "idle"}
    /\ UNCHANGED <<rows, waiting, files, overlooked, misjudged>>
Deletes(w) ==
    /\ worker[w].pc \in {"read", "deleting", "clearing"}
    /\ Sets(w, Emptied(worker[w].doomed))
    /\ Kept' \subseteq Kept
    /\ worker[w].doomed \cap Kept' \subseteq misjudged' /\ misjudged \subseteq misjudged'
    /\ Kept \subseteq Kept' \cup worker[w].doomed \cup overlooked' /\ overlooked \subseteq overlooked'
    /\ UNCHANGED <<waiting, files>>
Unlinks(w) ==
    \E x \in worker[w].doomed :
        /\ worker[w].pc = "removing"
        /\ Sets(w, [worker[w] EXCEPT !.doomed = @ \ {x}])
        /\ \/ files' = files \ {x} /\ overlooked' = overlooked
           \/ files' = files /\ overlooked' = overlooked \cup {x}
        /\ UNCHANGED <<rows, waiting, misjudged>>

\* What deleting items does to what is kept.
LEMMA WithoutKeeps ==
    ASSUME NEW items, rows' = Without(items)
    PROVE  Kept' = Kept \ items
BY DEF Without, Kept

LEMMA RecorderClasses ==
    ASSUME HistoryInv, NEW w \in Recorders, RecorderStep(w)
    PROVE  Starts(w) \/ Leaves(w) \/ Writes(w) \/ Inserts(w) \/ Reads(w) \/ Deletes(w)
<1>0. /\ w \in Workers /\ worker[w] \in WorkerType /\ OneRecorder
      /\ Old \subseteq Entries /\ Old \subseteq Kept
  BY WorkerFacts DEF Workers, Old, Kept
<1>1. CASE Take(w)
  BY <1>1, RecorderSets DEF Take, Starts
<1>2. CASE SkipSecret(w) \/ WriteImageFails(w) \/ InsertFails(w) \/ PruneFails(w)
  <2>1. Sets(w, Resting)
    BY <1>2, RecorderSets
  <2>2. worker[w].pc = "written" => worker[w].item \in Images
    BY <1>0 DEF OneRecorder, Records
  <2>3. Leaves(w)
    BY <1>2, <2>1, <2>2 DEF Leaves, SkipSecret, WriteImageFails, InsertFails, Insertable, PruneFails
  <2> QED BY <2>3
<1>3. CASE WriteImage(w)
  BY <1>3, RecorderSets DEF WriteImage, Writes
<1>4. CASE InsertRow(w)
  <2>1. Kept' = Kept \cup {worker[w].item}
    <3> DEFINE new == [item |-> worker[w].item, at |-> worker[w].at, rowid |-> NextRowid]
    <3>1. rows' = rows \cup {new} /\ new.item = worker[w].item
      BY <1>4 DEF InsertRow
    <3> HIDE DEF new
    <3> QED BY <3>1 DEF Kept
  <2> QED BY <1>4, <2>1, RecorderSets DEF InsertRow, Insertable, Inserts, Records
<1>5. CASE ReadOld(w)
  <2> DEFINE x == [worker[w] EXCEPT !.pc = "read", !.doomed = Old]
  <2>1. x \in WorkerType /\ x.pc = "read" /\ x.doomed = Old
    BY <1>0 DEF WorkerType
  <2>2. Sets(w, x)
    BY <1>5, RecorderSets
  <2> HIDE DEF x
  <2> QED BY <1>0, <1>5, <2>1, <2>2 DEF ReadOld, Reads
<1>6. CASE DeleteOld(w)
  <2>1. Kept' = Kept \ Old
    BY <1>6, WithoutKeeps DEF DeleteOld
  <2> QED BY <1>0, <1>6, <2>1, RecorderSets DEF DeleteOld, Deletes
<1> QED BY <1>1, <1>2, <1>3, <1>4, <1>5, <1>6 DEF RecorderStep

LEMMA CommandClasses ==
    ASSUME HistoryInv, NEW w \in Workers, CommandStep(w) \/ RemoveFile(w) \/ Finish(w)
    PROVE  Leaves(w) \/ Reads(w) \/ Deletes(w) \/ Unlinks(w)
<1>0. worker[w] \in WorkerType /\ Kept \subseteq Entries /\ GoneForGood
  BY WorkerFacts
<1>1. CASE AskDelete(w) \/ AskClear(w) \/ AskCopy(w)
  <2>1. worker[w].pc = "idle" /\ UNCHANGED <<rows, waiting, files, overlooked, misjudged>>
    BY <1>1 DEF AskDelete, AskClear, AskCopy, Asks
  <2>2. /\ \A x \in Kept : /\ Asked("deleting", x, {x}) \in WorkerType /\ Asked("deleting", x, {x}).pc = "deleting"
                           /\ Asked("deleting", x, {x}).doomed = {x} /\ Asked("deleting", x, {x}).item = x
                           /\ Asked("copying", x, {}) \in WorkerType /\ Asked("copying", x, {}).pc = "copying"
                           /\ Asked("copying", x, {}).doomed = {}
        /\ Asked("clearing", Null, Kept) \in WorkerType /\ Asked("clearing", Null, Kept).pc = "clearing"
        /\ Asked("clearing", Null, Kept).doomed = Kept
    BY <1>0 DEF WorkerType, Asked, Resting
  <2>3. PICK x \in WorkerType : /\ Sets(w, x) /\ x.pc \in {"deleting", "clearing", "copying"}
                                /\ x.doomed \subseteq Kept
                                /\ x.pc = "deleting" => x.doomed = {x.item}
    <3>1. CASE AskDelete(w)
      <4>1. PICK y \in Kept : Sets(w, Asked("deleting", y, {y}))
        BY <3>1, CommandSets
      <4> QED BY <2>2, <4>1
    <3>2. CASE AskClear(w)
      BY <2>2, <3>2, CommandSets
    <3>3. CASE AskCopy(w)
      <4>1. PICK y \in Kept : Sets(w, Asked("copying", y, {}))
        BY <3>3, CommandSets
      <4> QED BY <2>2, <4>1
    <3> QED BY <1>1, <3>1, <3>2, <3>3
  <2> QED BY <2>1, <2>3 DEF Reads
<1>2. CASE DeleteRow(w)
  <2>1. Kept' = Kept \ {worker[w].item} /\ worker[w].doomed = {worker[w].item}
    BY <1>0, <1>2, WithoutKeeps DEF DeleteRow, GoneForGood
  <2> QED BY <1>2, <2>1, CommandSets DEF DeleteRow, Deletes
<1>3. CASE ClearRows(w)
  <2>1. Kept' = {}
    BY <1>3 DEF ClearRows, Kept
  <2> QED BY <1>3, <2>1, CommandSets DEF ClearRows, Deletes
<1>4. CASE CopyBack(w) \/ CopyFails(w) \/ CommandFails(w) \/ Finish(w)
  BY <1>4, CommandSets DEF CopyBack, CopyFails, CommandFails, Finish, Leaves, Doomed
<1>5. CASE RemoveFile(w)
  <2>1. PICK x \in worker[w].doomed :
            /\ worker' = [worker EXCEPT ![w].doomed = @ \ {x}]
            /\ \/ files' = files \ {x} /\ overlooked' = overlooked
               \/ files' = files /\ overlooked' = overlooked \cup {x}
    BY <1>5 DEF RemoveFile, Doomed
  <2>2. worker[w].pc = "removing" /\ UNCHANGED <<rows, waiting, misjudged>>
    BY <1>5 DEF RemoveFile
  <2>3. Sets(w, [worker[w] EXCEPT !.doomed = @ \ {x}])
    BY <2>1, CommandSets
  <2> QED BY <2>1, <2>2, <2>3 DEF Unlinks
<1> QED BY <1>1, <1>2, <1>3, <1>4, <1>5 DEF CommandStep

LEMMA HistoryClasses ==
    ASSUME HistoryInv, HistoryNext
    PROVE  \E w \in Workers :
               \/ Starts(w) \/ Leaves(w) \/ Writes(w) \/ Inserts(w)
               \/ Reads(w) \/ Deletes(w) \/ Unlinks(w)
<1>1. \A w : w \in Recorders \/ w \in Commanders => w \in Workers
  BY DEF Workers
<1>2. ASSUME NEW w \in Recorders, RecorderStep(w)
      PROVE  Starts(w) \/ Leaves(w) \/ Writes(w) \/ Inserts(w) \/ Reads(w) \/ Deletes(w)
  BY <1>2, RecorderClasses
<1>3. ASSUME NEW w \in Workers, CommandStep(w) \/ RemoveFile(w) \/ Finish(w)
      PROVE  Leaves(w) \/ Reads(w) \/ Deletes(w) \/ Unlinks(w)
  BY <1>3, CommandClasses
<1> QED BY <1>1, <1>2, <1>3 DEF HistoryNext

------------------------------------------------------------------------------
(* What the workers know stays true.                                       *)

\* A worker that records nothing after a step that adds no row.
LEMMA NothingRecorded ==
    ASSUME HistoryInv, NEW w \in Workers, NEW x \in WorkerType, Sets(w, x),
           x.pc \notin {"taken", "written"}, waiting' = waiting, Kept' \subseteq Kept,
           \A v \in Workers \ {w} : Records(v) /\ worker[v].item \in files => worker[v].item \in files'
    PROVE  OneRecorder'
<1>1. OneRecorder
  BY WorkerFacts
<1>2. \A v \in Workers : Records(v)' => v # w /\ Records(v) /\ worker'[v] = worker[v]
  BY DEF Records, Sets
<1> QED BY <1>1, <1>2 DEF OneRecorder

LEMMA OneRecorderStays ==
    ASSUME HistoryInv, HistoryNext
    PROVE  OneRecorder'
<1>0. PICK w \in Workers : \/ Starts(w) \/ Leaves(w) \/ Writes(w) \/ Inserts(w)
                           \/ Reads(w) \/ Deletes(w) \/ Unlinks(w)
  BY HistoryClasses
<1>1. /\ worker[w] \in WorkerType /\ Resting \in WorkerType /\ Null \notin Entries
      /\ HistoryTypeOK /\ OneRecorder /\ GoneForGood
  BY WorkerFacts
<1>2. Kept' = {r.item : r \in rows'} /\ (rows' = rows => Kept' = Kept)
  BY DEF Kept
<1>3. CASE Starts(w)
  <2>1. PICK x \in waiting, t \in Stamps :
            /\ waiting' = waiting \ {x}
            /\ Sets(w, [Resting EXCEPT !.pc = "taken", !.item = x, !.at = t])
    BY <1>3 DEF Starts
  <2>2. rows' = rows /\ files' = files /\ Kept' = Kept
    BY <1>2, <1>3 DEF Starts
  <2>3. worker'[w].pc = "taken" /\ worker'[w].item = x /\ worker'[w].at = t
    BY <2>1 DEF Sets, Resting
  <2>4. \A v \in Workers \ {w} : worker'[v] = worker[v]
    BY <2>1 DEF Sets
  <2>5. x \in Entries /\ x \notin Kept /\ \A v \in Workers : Records(v) => worker[v].item # x
    BY <1>1, <2>1 DEF OneRecorder, HistoryTypeOK
  <2> QED BY <1>1, <2>1, <2>2, <2>3, <2>4, <2>5 DEF OneRecorder, Records
<1>4. CASE Leaves(w)
  BY <1>1, <1>2, <1>4, NothingRecorded DEF Leaves, Resting
<1>5. CASE Writes(w)
  <2>1. worker'[w].pc = "written" /\ worker'[w].item = worker[w].item /\ worker'[w].at = worker[w].at
    BY <1>1, <1>5 DEF Writes, Sets, Pc, WorkerType
  <2>2. \A v \in Workers \ {w} : worker'[v] = worker[v]
    BY <1>5 DEF Writes, Sets
  <2>3. Records(w) /\ \A v \in Workers : Records(v)' => Records(v)
    BY <1>5, <2>2 DEF Writes, Records
  <2>4. files \subseteq files' /\ worker[w].item \in Images \cap files' /\ waiting' = waiting /\ Kept' = Kept
    BY <1>2, <1>5 DEF Writes
  <2> QED BY <1>1, <2>1, <2>2, <2>3, <2>4 DEF OneRecorder
<1>6. CASE Inserts(w)
  <2>1. worker'[w].pc = "inserted"
    BY <1>1, <1>6 DEF Inserts, Sets, Pc, WorkerType
  <2>2. \A v \in Workers \ {w} : worker'[v] = worker[v]
    BY <1>6 DEF Inserts, Sets
  <2>3. Records(w) /\ \A v \in Workers : Records(v)' => v # w /\ Records(v)
    BY <1>6, <2>1, <2>2 DEF Inserts, Records
  <2>4. files' = files /\ waiting' = waiting /\ Kept' = Kept \cup {worker[w].item}
    BY <1>6 DEF Inserts
  <2> QED BY <1>1, <2>1, <2>2, <2>3, <2>4 DEF OneRecorder
<1>7. CASE Reads(w)
  <2>1. PICK x \in WorkerType : Sets(w, x) /\ x.pc \in {"read", "deleting", "clearing", "copying"}
    BY <1>7 DEF Reads
  <2>2. waiting' = waiting /\ Kept' = Kept /\ files' = files
    BY <1>2, <1>7 DEF Reads
  <2> QED BY <2>1, <2>2, NothingRecorded
<1>8. CASE Deletes(w)
  <2>1. Emptied(worker[w].doomed) \in WorkerType /\ Emptied(worker[w].doomed).pc = "removing"
    BY <1>1 DEF Emptied, Resting, WorkerType
  <2> QED BY <1>8, <2>1, NothingRecorded DEF Deletes
<1>9. CASE Unlinks(w)
  <2>1. PICK x \in worker[w].doomed :
            /\ worker[w].pc = "removing"
            /\ Sets(w, [worker[w] EXCEPT !.doomed = @ \ {x}])
            /\ files' = files \ {x} \/ files' = files
            /\ UNCHANGED <<rows, waiting>>
    BY <1>9 DEF Unlinks
  <2>2. [worker[w] EXCEPT !.doomed = @ \ {x}] \in WorkerType /\ [worker[w] EXCEPT !.doomed = @ \ {x}].pc = "removing"
    BY <1>1, <2>1 DEF WorkerType
  <2>3. \A v \in Workers : Records(v) => worker[v].item # x
    BY <1>1, <2>1 DEF GoneForGood
  <2> QED BY <1>2, <2>1, <2>2, <2>3, NothingRecorded
<1> QED BY <1>0, <1>3, <1>4, <1>5, <1>6, <1>7, <1>8, <1>9

\* A worker goes on with part of what it had read.
LEMMA NothingRead ==
    ASSUME HistoryInv, NEW w \in Workers, NEW x \in WorkerType, Sets(w, x),
           x.doomed \subseteq worker[w].doomed,
           x.pc \in {"taken", "written"} => worker[w].pc = "taken" /\ x.item = worker[w].item,
           x.pc = "removing" => x.doomed \cap Kept' \subseteq misjudged',
           x.pc # "deleting",
           waiting' \subseteq waiting, misjudged \subseteq misjudged',
           \A y \in Kept' \ Kept : y = worker[w].item /\ Records(w)
    PROVE  GoneForGood'
<1>1. GoneForGood /\ worker'[w] = x /\ \A v \in Workers \ {w} : worker'[v] = worker[v]
  BY WorkerFacts DEF Sets
<1> SUFFICES ASSUME NEW u \in Workers
             PROVE  /\ worker'[u].doomed \cap waiting' = {}
                    /\ \A v \in Workers : Records(v)' => worker'[v].item \notin worker'[u].doomed
                    /\ worker'[u].pc = "removing" => worker'[u].doomed \cap Kept' \subseteq misjudged'
                    /\ worker'[u].pc = "deleting" => worker'[u].doomed = {worker'[u].item}
  BY DEF GoneForGood
<1>2. worker'[u].doomed \subseteq worker[u].doomed
  BY <1>1
<1>3. \A v \in Workers : Records(v)' => Records(v) /\ worker'[v].item = worker[v].item
  BY <1>1 DEF Records
<1>4. worker'[u].pc = "removing" => worker'[u].doomed \cap Kept' \subseteq misjudged'
  <2>1. CASE u = w
    BY <1>1, <2>1
  <2>2. CASE u # w
    BY <1>1, <2>2 DEF GoneForGood
  <2> QED BY <2>1, <2>2
<1>5. worker'[u].pc = "deleting" => worker'[u].doomed = {worker'[u].item}
  BY <1>1 DEF GoneForGood
<1> QED BY <1>1, <1>2, <1>3, <1>4, <1>5 DEF GoneForGood

LEMMA GoneForGoodStays ==
    ASSUME HistoryInv, HistoryNext
    PROVE  GoneForGood'
<1>0. PICK w \in Workers : \/ Starts(w) \/ Leaves(w) \/ Writes(w) \/ Inserts(w)
                           \/ Reads(w) \/ Deletes(w) \/ Unlinks(w)
  BY HistoryClasses
<1>1. /\ worker[w] \in WorkerType /\ Resting \in WorkerType /\ Null \notin Entries
      /\ HistoryTypeOK /\ OneRecorder /\ GoneForGood
  BY WorkerFacts
<1>2. rows' = rows => Kept' = Kept
  BY DEF Kept
<1>3. CASE Starts(w)
  <2>1. PICK x \in waiting, t \in Stamps :
            /\ waiting' = waiting \ {x}
            /\ Sets(w, [Resting EXCEPT !.pc = "taken", !.item = x, !.at = t])
    BY <1>3 DEF Starts
  <2>2. Kept' = Kept /\ misjudged' = misjudged
    BY <1>2, <1>3 DEF Starts
  <2>3. worker'[w].pc = "taken" /\ worker'[w].item = x /\ worker'[w].doomed = {}
    BY <2>1 DEF Sets, Resting
  <2>4. \A v \in Workers \ {w} : worker'[v] = worker[v]
    BY <2>1 DEF Sets
  <2>5. \A u \in Workers : x \notin worker[u].doomed
    BY <1>1, <2>1 DEF GoneForGood
  <2>6. \A u \in Workers : worker'[u].doomed \subseteq worker[u].doomed
    BY <2>3, <2>4
  <2>7. \A v \in Workers : Records(v)' => v = w \/ Records(v)
    BY <2>4 DEF Records
  <2> QED BY <1>1, <2>1, <2>2, <2>3, <2>4, <2>5, <2>6, <2>7 DEF GoneForGood
<1>4. CASE Leaves(w)
  BY <1>1, <1>2, <1>4, NothingRead DEF Leaves, Resting
<1>5. CASE Writes(w)
  <2>1. /\ Pc(w, "written") \in WorkerType /\ Pc(w, "written").pc = "written"
        /\ Pc(w, "written").item = worker[w].item /\ Pc(w, "written").doomed = worker[w].doomed
    BY <1>1 DEF Pc, WorkerType
  <2> QED BY <1>2, <1>5, <2>1, NothingRead DEF Writes
<1>6. CASE Inserts(w)
  <2>1. /\ Pc(w, "inserted") \in WorkerType /\ Pc(w, "inserted").pc = "inserted"
        /\ Pc(w, "inserted").doomed = worker[w].doomed
    BY <1>1 DEF Pc, WorkerType
  <2> QED BY <1>6, <2>1, NothingRead DEF Inserts
<1>7. CASE Reads(w)
  <2>1. PICK x \in WorkerType : /\ Sets(w, x) /\ x.pc \in {"read", "deleting", "clearing", "copying"}
                                /\ x.doomed \subseteq Kept
                                /\ x.pc = "deleting" => x.doomed = {x.item}
    BY <1>7 DEF Reads
  <2>2. Kept' = Kept /\ misjudged' = misjudged /\ waiting' = waiting
    BY <1>2, <1>7 DEF Reads
  <2>3. worker'[w] = x /\ \A v \in Workers \ {w} : worker'[v] = worker[v]
    BY <2>1 DEF Sets
  <2>4. \A v \in Workers : Records(v)' => v # w /\ Records(v) /\ worker[v].item \notin Kept
    BY <1>1, <2>1, <2>3 DEF Records, OneRecorder
  <2>5. Kept \cap waiting = {}
    BY <1>1 DEF OneRecorder
  <2> QED BY <1>1, <2>1, <2>2, <2>3, <2>4, <2>5 DEF GoneForGood
<1>8. CASE Deletes(w)
  <2>1. /\ Emptied(worker[w].doomed) \in WorkerType /\ Emptied(worker[w].doomed).pc = "removing"
        /\ Emptied(worker[w].doomed).doomed = worker[w].doomed
    BY <1>1 DEF Emptied, Resting, WorkerType
  <2> QED BY <1>8, <2>1, NothingRead DEF Deletes
<1>9. CASE Unlinks(w)
  <2>1. PICK x \in worker[w].doomed :
            /\ worker[w].pc = "removing"
            /\ Sets(w, [worker[w] EXCEPT !.doomed = @ \ {x}])
            /\ UNCHANGED <<rows, waiting, misjudged>>
    BY <1>9 DEF Unlinks
  <2> DEFINE y == [worker[w] EXCEPT !.doomed = @ \ {x}]
  <2>2. y \in WorkerType /\ y.pc = "removing" /\ y.doomed = worker[w].doomed \ {x}
    BY <1>1, <2>1 DEF WorkerType
  <2>3. worker[w].doomed \cap Kept \subseteq misjudged
    BY <1>1, <2>1 DEF GoneForGood
  <2> HIDE DEF y
  <2> QED BY <1>2, <2>1, <2>2, <2>3, NothingRead DEF y
<1> QED BY <1>0, <1>3, <1>4, <1>5, <1>6, <1>7, <1>8, <1>9

\* Every file that was accounted for still is.
LEMMA FilesOwnedStays ==
    ASSUME HistoryInv, HistoryNext
    PROVE  FilesOwned'
<1>0. PICK w \in Workers : \/ Starts(w) \/ Leaves(w) \/ Writes(w) \/ Inserts(w)
                           \/ Reads(w) \/ Deletes(w) \/ Unlinks(w)
  BY HistoryClasses
<1>1. /\ worker[w] \in WorkerType /\ Resting \in WorkerType
      /\ HistoryTypeOK /\ OneRecorder /\ GoneForGood /\ FilesOwned
  BY WorkerFacts
<1>2. rows' = rows => Kept' = Kept
  BY DEF Kept
<1>3. ASSUME \A v \in Workers \ {w} : worker'[v] = worker[v], NEW x
      PROVE  \A v \in Workers : Owns(v, x) => v = w \/ Owns(v, x)'
  BY <1>3 DEF Owns
<1>4. CASE Starts(w)
  <2>1. worker[w].pc = "idle" /\ \A v \in Workers \ {w} : worker'[v] = worker[v]
    BY <1>4 DEF Starts, Sets
  <2>2. \A x : ~Owns(w, x)
    BY <2>1 DEF Owns
  <2> QED BY <1>1, <1>2, <1>3, <1>4, <2>1, <2>2 DEF Starts, FilesOwned
<1>5. CASE Leaves(w)
  <2>1. \A v \in Workers \ {w} : worker'[v] = worker[v]
    BY <1>5 DEF Leaves, Sets
  <2>2. \A x \in files : Owns(w, x) => x \in overlooked'
    BY <1>1, <1>5 DEF Leaves, Owns, HistoryTypeOK
  <2> QED BY <1>1, <1>2, <1>3, <1>5, <2>1, <2>2 DEF Leaves, FilesOwned
<1>6. CASE Writes(w)
  <2>1. \A v \in Workers \ {w} : worker'[v] = worker[v]
    BY <1>6 DEF Writes, Sets
  <2>2. (\A x : x = worker[w].item => Owns(w, x)') /\ \A x : ~Owns(w, x)
    BY <1>1, <1>6 DEF Writes, Owns, Sets, Pc, WorkerType
  <2> QED BY <1>1, <1>2, <1>3, <1>6, <2>1, <2>2 DEF Writes, FilesOwned
<1>7. CASE Inserts(w)
  <2>1. \A v \in Workers \ {w} : worker'[v] = worker[v]
    BY <1>7 DEF Inserts, Sets
  <2>2. \A x : Owns(w, x) => x \in Kept'
    BY <1>7 DEF Inserts, Owns, Records
  <2>3. worker[w].item \in Images => worker[w].item \in files
    BY <1>1, <1>7 DEF Inserts, Records, OneRecorder
  <2> QED BY <1>1, <1>3, <1>7, <2>1, <2>2, <2>3 DEF Inserts, FilesOwned
<1>8. CASE Reads(w)
  <2>1. \A v \in Workers \ {w} : worker'[v] = worker[v]
    BY <1>8 DEF Reads, Sets
  <2>2. \A x : ~Owns(w, x)
    BY <1>8 DEF Reads, Owns
  <2> QED BY <1>1, <1>2, <1>3, <1>8, <2>1, <2>2 DEF Reads, FilesOwned
<1>9. CASE Deletes(w)
  <2>1. \A v \in Workers \ {w} : worker'[v] = worker[v]
    BY <1>9 DEF Deletes, Sets
  <2>2. (\A x \in worker[w].doomed : Owns(w, x)') /\ \A x : ~Owns(w, x)
    BY <1>9 DEF Deletes, Owns, Sets, Emptied, Resting
  <2> QED BY <1>1, <1>3, <1>9, <2>1, <2>2 DEF Deletes, FilesOwned
<1>10. CASE Unlinks(w)
  <2>1. PICK x \in worker[w].doomed :
            /\ worker[w].pc = "removing"
            /\ Sets(w, [worker[w] EXCEPT !.doomed = @ \ {x}])
            /\ \/ files' = files \ {x} /\ overlooked' = overlooked
               \/ files' = files /\ overlooked' = overlooked \cup {x}
            /\ UNCHANGED <<rows, waiting, misjudged>>
    BY <1>10 DEF Unlinks
  <2>2. \A v \in Workers \ {w} : worker'[v] = worker[v]
    BY <2>1 DEF Sets
  <2>3. \A y : Owns(w, y) => y = x \/ Owns(w, y)'
    BY <1>1, <2>1 DEF Owns, Sets, WorkerType
  <2>4. x \in Kept => x \in misjudged
    BY <1>1, <2>1 DEF GoneForGood
  <2> QED BY <1>1, <1>2, <1>3, <2>1, <2>2, <2>3, <2>4 DEF FilesOwned
<1> QED BY <1>0, <1>4, <1>5, <1>6, <1>7, <1>8, <1>9, <1>10

------------------------------------------------------------------------------
(* The limit.                                                              *)

\* The recorders whose row is in the history and which have not yet deleted old ones.
Unpruned == {w \in Recorders : worker[w].pc \in {"inserted", "read"}}

LEMMA UnprunedIsFinite ==
    /\ IsFiniteSet(Unpruned) /\ Cardinality(Unpruned) \in Nat
    /\ IsFiniteSet(Unpruned') /\ Cardinality(Unpruned') \in Nat
<1>1. IsFiniteSet(Recorders) /\ Unpruned \in SUBSET Recorders /\ Unpruned' \in SUBSET Recorders
  BY HistoryAssumption DEF Unpruned
<1> QED BY <1>1, FS_Subset, FS_CardinalityType

\* No more rows than before, and no recorder the fewer.
LEMMA BoundKept ==
    ASSUME HistoryInv, HistoryTypeOK', rows' \subseteq rows, overdue' = overdue, Unpruned \subseteq Unpruned'
    PROVE  HistoryBounded'
<1>1. /\ IsFiniteSet(rows) /\ overdue \in Nat /\ HistoryLimit \in Nat
      /\ Cardinality(rows) <= HistoryLimit + overdue + Cardinality(Unpruned)
  BY HistoryAssumption DEF HistoryInv, HistoryTypeOK, HistoryBounded, Unpruned
<1>2. Cardinality(rows') <= Cardinality(rows) /\ Cardinality(rows') \in Nat /\ Cardinality(rows) \in Nat
  BY <1>1, FS_Subset, FS_CardinalityType
<1>3. Cardinality(Unpruned) <= Cardinality(Unpruned') /\ Cardinality(Unpruned) \in Nat /\ Cardinality(Unpruned') \in Nat
  BY UnprunedIsFinite, FS_Subset
<1>4. Cardinality(rows') <= HistoryLimit + overdue' + Cardinality(Unpruned')
  BY <1>1, <1>2, <1>3
<1> QED BY <1>4 DEF HistoryBounded, Unpruned

LEMMA BoundStays ==
    ASSUME HistoryInv, HistoryNext
    PROVE  HistoryBounded'
<1>0. HistoryTypeOK' /\ HistoryTypeOK /\ HistoryBounded /\ worker \in [Workers -> WorkerType]
  BY NextTypes DEF HistoryInv, WorkerTypeOK
<1>1. /\ IsFiniteSet(rows) /\ overdue \in Nat /\ HistoryLimit \in Nat
      /\ Cardinality(rows) <= HistoryLimit + overdue + Cardinality(Unpruned)
      /\ Cardinality(Unpruned) \in Nat /\ Cardinality(rows) \in Nat
  BY <1>0, HistoryAssumption, UnprunedIsFinite, FS_CardinalityType DEF HistoryTypeOK, HistoryBounded, Unpruned
<1>2. Recorders \subseteq Workers
  BY DEF Workers
<1>3. \A items : Without(items) \subseteq rows
  BY DEF Without
<1>4. ASSUME NEW w \in Recorders, InsertRow(w)
      PROVE  HistoryBounded'
  <2>1. PICK new : rows' = rows \cup {new}
    BY <1>4 DEF InsertRow
  <2>2. Cardinality(rows') <= Cardinality(rows) + 1 /\ Cardinality(rows') \in Nat
    <3>1. /\ IsFiniteSet(rows')
          /\ Cardinality(rows') = IF new \in rows THEN Cardinality(rows) ELSE Cardinality(rows) + 1
      BY <1>1, <2>1, FS_AddElement
    <3> QED BY <1>1, <3>1
  <2>3. w \notin Unpruned /\ Unpruned' = Unpruned \cup {w} /\ overdue' = overdue
    <3>1. worker'[w].pc = "inserted" /\ \A v \in Workers \ {w} : worker'[v] = worker[v]
      BY <1>0, <1>2, <1>4, RecorderSets DEF Sets, Pc, WorkerType
    <3>2. worker[w].pc \notin {"inserted", "read"} /\ overdue' = overdue
      BY <1>4 DEF InsertRow, Insertable
    <3> QED BY <1>2, <1>4, <3>1, <3>2 DEF Unpruned
  <2>4. Cardinality(Unpruned') = Cardinality(Unpruned) + 1
    BY <2>3, UnprunedIsFinite, FS_AddElement
  <2>5. Cardinality(rows') <= HistoryLimit + overdue' + Cardinality(Unpruned')
    BY <1>1, <2>2, <2>3, <2>4
  <2> QED BY <2>5 DEF HistoryBounded, Unpruned
<1>5. ASSUME NEW w \in Recorders, DeleteOld(w)
      PROVE  HistoryBounded'
  <2>1. rows' = Without(Old) /\ Cardinality(Without(Old)) <= HistoryLimit /\ IsFiniteSet(Without(Old))
    BY <1>0, <1>5, PrunedIsBounded DEF DeleteOld
  <2>2. Cardinality(rows') \in Nat /\ Cardinality(Unpruned') \in Nat /\ overdue' \in Nat
    BY <1>0, <2>1, FS_CardinalityType, UnprunedIsFinite DEF HistoryTypeOK
  <2>3. Cardinality(rows') <= HistoryLimit + overdue' + Cardinality(Unpruned')
    BY <1>1, <2>1, <2>2
  <2> QED BY <2>3 DEF HistoryBounded, Unpruned
<1>6. ASSUME NEW w \in Recorders, PruneFails(w)
      PROVE  HistoryBounded'
  <2>1. rows' = rows /\ overdue' = overdue + 1
    BY <1>6 DEF PruneFails
  <2>2. Unpruned' = Unpruned \ {w} /\ w \in Unpruned
    <3>1. worker'[w] = Resting /\ \A v \in Workers \ {w} : worker'[v] = worker[v]
      BY <1>6, RecorderSets DEF Sets
    <3> QED BY <1>2, <1>6, <3>1 DEF PruneFails, Unpruned, Resting
  <2>3. Cardinality(Unpruned') = Cardinality(Unpruned) - 1
    BY <2>2, UnprunedIsFinite, FS_RemoveElement
  <2>4. Cardinality(rows') <= HistoryLimit + overdue' + Cardinality(Unpruned')
    BY <1>1, <2>1, <2>3
  <2> QED BY <2>4 DEF HistoryBounded, Unpruned
<1>7. ASSUME NEW w \in Recorders, ReadOld(w)
      PROVE  HistoryBounded'
  <2>1. rows' \subseteq rows /\ overdue' = overdue
    BY <1>7 DEF ReadOld
  <2>2. worker'[w].pc = "read" /\ \A v \in Workers \ {w} : worker'[v] = worker[v]
    <3>1. Sets(w, [worker[w] EXCEPT !.pc = "read", !.doomed = Old]) /\ worker[w] \in WorkerType
      BY <1>0, <1>2, <1>7, RecorderSets
    <3> QED BY <3>1 DEF Sets, WorkerType
  <2>3. Unpruned \subseteq Unpruned'
    BY <1>2, <2>2 DEF Unpruned
  <2> QED BY <1>0, <2>1, <2>3, BoundKept
<1>8. ASSUME NEW w \in Workers,
             \/ w \in Recorders /\ (Take(w) \/ SkipSecret(w) \/ WriteImage(w) \/ WriteImageFails(w) \/ InsertFails(w))
             \/ CommandStep(w) \/ RemoveFile(w) \/ Finish(w)
      PROVE  HistoryBounded'
  <2>1. rows' \subseteq rows /\ overdue' = overdue
    <3>1. CASE Take(w) \/ SkipSecret(w) \/ WriteImage(w) \/ WriteImageFails(w) \/ InsertFails(w)
      BY <3>1 DEF Take, SkipSecret, WriteImage, WriteImageFails, InsertFails
    <3>2. CASE CommandStep(w) \/ RemoveFile(w) \/ Finish(w)
      BY <1>3, <3>2 DEF CommandStep, AskDelete, AskClear, AskCopy, Asks, DeleteRow, ClearRows, CopyBack,
                 CopyFails, CommandFails, RemoveFile, Finish
    <3> QED BY <1>8, <3>1, <3>2
  <2>2. worker[w].pc \notin {"inserted", "read"}
    BY <1>8 DEF Take, SkipSecret, WriteImage, WriteImageFails, InsertFails, Insertable, CommandStep, AskDelete,
             AskClear, AskCopy, Asks, DeleteRow, ClearRows, CopyBack, CopyFails, CommandFails, RemoveFile, Finish
  <2>3. \A v \in Workers \ {w} : worker'[v] = worker[v]
    <3>1. CASE w \in Recorders /\ (Take(w) \/ SkipSecret(w) \/ WriteImage(w) \/ WriteImageFails(w) \/ InsertFails(w))
      BY <3>1, RecorderSets DEF Sets
    <3>2. CASE CommandStep(w) \/ Finish(w)
      BY <3>2, CommandSets DEF Sets, CommandStep
    <3>3. CASE RemoveFile(w)
      BY <3>3, CommandSets DEF Sets, RemoveFile
    <3> QED BY <1>8, <3>1, <3>2, <3>3
  <2>4. Unpruned \subseteq Unpruned'
    BY <1>2, <2>2, <2>3 DEF Unpruned
  <2> QED BY <1>0, <2>1, <2>4, BoundKept
<1>9. \A w \in Recorders \cup Commanders : w \in Workers
  BY DEF Workers
<1>10. ASSUME NEW w \in Recorders, RecorderStep(w)
       PROVE  HistoryBounded'
  BY <1>2, <1>4, <1>5, <1>6, <1>7, <1>8, <1>10 DEF RecorderStep
<1> QED BY <1>8, <1>9, <1>10 DEF HistoryNext

------------------------------------------------------------------------------
(* The theorems.                                                           *)

LEMMA HistoryInvInit == HistoryInit => HistoryInv
<1> SUFFICES ASSUME HistoryInit PROVE HistoryInv
  OBVIOUS
<1>1. Kept = {} /\ worker = [w \in Workers |-> Resting] /\ \A w \in Workers : w # Null
  BY HistoryAssumption DEF HistoryInit, Kept, Workers
<1>2. IsFiniteSet({}) /\ Cardinality({}) = 0
  BY FS_EmptySet
<1>3. Resting \in WorkerType /\ Resting.pc = "idle" /\ Resting.item = Null /\ Resting.doomed = {}
  BY DEF Resting, WorkerType
<1>4. WorkerTypeOK
  BY <1>1, <1>3, HistoryAssumption DEF HistoryInit, WorkerTypeOK
<1>5. HistoryTypeOK
  BY <1>1, <1>2, <1>3, HistoryAssumption DEF HistoryInit, HistoryTypeOK, Workers
<1>6. OneRecorder /\ GoneForGood
  BY <1>1, <1>3 DEF OneRecorder, GoneForGood, Records
<1>7. FilesOwned
  BY <1>1 DEF HistoryInit, FilesOwned
<1>8. HistoryBounded
  <2>1. Cardinality(Unpruned) \in Nat
    BY UnprunedIsFinite
  <2>2. Cardinality(rows) <= HistoryLimit + overdue + Cardinality(Unpruned)
    BY <1>2, <2>1, HistoryAssumption DEF HistoryInit
  <2> QED BY <2>2 DEF HistoryBounded, Unpruned
<1> QED BY <1>4, <1>5, <1>6, <1>7, <1>8 DEF HistoryInv

LEMMA HistoryInvNext == HistoryInv /\ [HistoryNext]_historyVars => HistoryInv'
<1>1. ASSUME HistoryInv, HistoryNext PROVE HistoryInv'
  BY <1>1, NextTypes, OneRecorderStays, GoneForGoodStays, FilesOwnedStays, BoundStays DEF HistoryInv
<1>2. ASSUME HistoryInv, UNCHANGED historyVars PROVE HistoryInv'
  <2> USE <1>2 DEF historyVars
  <2>1. HistoryTypeOK' /\ WorkerTypeOK' /\ HistoryBounded'
    BY DEF HistoryInv, HistoryTypeOK, WorkerTypeOK, HistoryBounded
  <2>2. OneRecorder' /\ GoneForGood' /\ FilesOwned'
    BY DEF HistoryInv, OneRecorder, GoneForGood, FilesOwned, Records, Owns, Kept
  <2> QED BY <2>1, <2>2 DEF HistoryInv
<1> QED BY <1>1, <1>2

\* What two processes know of the items of the history, in every reachable state: the
\* inductive invariant the other theorems are read off from.
THEOREM HistoryInvariance == HistorySpec => []HistoryInv
BY HistoryInvInit, HistoryInvNext, PTL DEF HistorySpec

\* Every variable keeps its type, and no item has two rows or two places in the order.
THEOREM HistoryTypes == HistorySpec => []HistoryTypeOK
<1>1. HistoryInv => HistoryTypeOK
  BY DEF HistoryInv
<1> QED BY <1>1, HistoryInvariance, PTL

\* Rows and image files agree, whoever records, prunes, deletes and clears at the same
\* time.
THEOREM ImagesAgree == HistorySpec => []ImagesMatch
<1>1. HistoryInv => ImagesMatch
  <2> SUFFICES ASSUME HistoryInv PROVE ImagesMatch
    OBVIOUS
  <2>1. FilesOwned /\ HistoryTypeOK
    BY DEF HistoryInv
  <2>2. \A x \in Kept \ misjudged : Whole(x)
    BY <2>1 DEF FilesOwned, Whole
  <2>3. \A w \in Workers : \A x : Owns(w, x) => x \in Handled(w)
    BY DEF Owns, Handled
  <2>4. files \subseteq Kept \cup overlooked \cup UNION {Handled(w) : w \in Workers}
    BY <2>1, <2>3 DEF FilesOwned
  <2> QED BY <2>2, <2>4 DEF ImagesMatch
<1> QED BY <1>1, HistoryInvariance, PTL

\* The history does not outgrow its limit by more than what is being recorded and what
\* was recorded since old rows could last be deleted.
THEOREM HistoryStaysBounded == HistorySpec => []HistoryBounded
<1>1. HistoryInv => HistoryBounded
  BY DEF HistoryInv
<1> QED BY <1>1, HistoryInvariance, PTL
==============================================================================
