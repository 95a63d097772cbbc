--------------------------- MODULE Placement_proofs ---------------------------
(***************************************************************************)
(* Proofs about Placement, for any number of sessions, files, names,       *)
(* attempts and restarts: the types; a file that was there before is only  *)
(* replaced with consent; what carries the name of a received file is one  *)
(* whole file; and names are shared only where they are not reserved.      *)
(*                                                                         *)
(* Each of the last three has an inductive invariant of its own, and none  *)
(* of them needs another.  Most steps only let go of something (Wanes):    *)
(* that case is proved once for each invariant.                            *)
(***************************************************************************)
EXTENDS Placement, TLAPS, WellFoundedInduction

(* The least of some numbers.                                              *)
LEMMA HasLeast ==
    ASSUME NEW S \in SUBSET Nat, S # {}
    PROVE  \E k \in S : \A j \in S : k <= j
<1>1. PICK k \in S : \A j \in S : ~ (<<j, k>> \in OpToRel(<, Nat))
    BY NatLessThanWellFounded, WFMin
<1>2. \A j \in S : j < k => <<j, k>> \in OpToRel(<, Nat)
    BY DEF OpToRel
<1>3. \A j \in S : ~ (j < k)
    BY <1>1, <1>2, Zenon
<1> QED BY <1>3

------------------------------------------------------------------------------
(* What the choice of a path gives.                                        *)

LEMMA NumbersAreNat == Numbers \subseteq Nat /\ 0 \in Numbers
BY PlacementAssumption DEF Numbers

LEMMA UniquePathIsFree ==
    ASSUME NEW n \in Names, NEW taken, FreeNumbers(n, taken) # {}
    PROVE  /\ UniquePath(n, taken) \in Paths
           /\ UniquePath(n, taken)[2] # 0
           /\ IsFree(UniquePath(n, taken), taken)
<1> DEFINE F == FreeNumbers(n, taken)
<1>1. F \in SUBSET Nat /\ F # {}
    BY NumbersAreNat DEF FreeNumbers
<1>2. PICK k \in F : k = CHOOSE m \in F : \A j \in F : m <= j
    <2> HIDE DEF F
    <2> QED BY <1>1, HasLeast
<1>3. UniquePath(n, taken) = <<n, k>>
    BY <1>2 DEF UniquePath
<1>4. k \in Numbers \ {0} /\ IsFree(<<n, k>>, taken)
    BY <1>2 DEF FreeNumbers
<1> QED BY <1>3, <1>4 DEF Paths

\* What Destination::place and the resumed paths give.
LEMMA PlacementIsGood ==
    ASSUME PlacementTypeOK, NEW u \in Uploads, IsPlaceable(u), HasRoom(u)
    PROVE  LET m == PlacementFor(u) IN
           /\ m.kind \in {"new", "replace", "ask"} /\ m.path \in Paths /\ m.renamed \in Paths
           /\ m.kind # "ask" => \/ IsResumed(u) /\ m.path = incoming.resume[FileOf(u)]
                                \/ policy = "overwrite"
                                \/ IsFree(m.path, incoming.assigned)
           /\ m.kind = "ask" => /\ policy = "ask" /\ m.renamed[2] # 0
                                /\ IsFree(m.renamed, incoming.assigned)
<1>0. FileOf(u) \in Files
    BY DEF Uploads, FileOf
<1>1. CASE IsResumed(u)
    <2>1. incoming.resume[FileOf(u)] \in Paths
        BY <1>0, <1>1 DEF PlacementTypeOK, RuntimeTypeOK, OrNone, IsResumed
    <2> QED BY <1>1, <2>1 DEF PlacementFor, New
<1>2. CASE ~IsResumed(u)
    <2> DEFINE n == NameOf[FileOf(u)]
               taken == incoming.assigned
    <2>1. n \in Names /\ FreeNumbers(n, taken) # {}
        BY <1>0, <1>2 DEF IsPlaceable, HasRoom
    <2>2. policy \in {"rename", "overwrite", "ask"}
        BY PlacementAssumption DEF PlacementTypeOK, PlacingTypeOK
    <2>3. PlacementFor(u) = Place(n, taken)
        BY <1>2 DEF PlacementFor
    <2>4. <<n, 0>> \in Paths
        BY <2>1, NumbersAreNat DEF Paths
    <2> DEFINE q == UniquePath(n, taken)
    <2>5. q \in Paths /\ q[2] # 0 /\ IsFree(q, taken)
        BY <2>1, UniquePathIsFree
    <2>6. CASE IsFree(<<n, 0>>, taken)
        BY <2>3, <2>4, <2>6 DEF Place, New
    <2>7. CASE ~IsFree(<<n, 0>>, taken) /\ policy = "rename"
        BY <2>3, <2>5, <2>7 DEF Place, New
    <2>8. CASE ~IsFree(<<n, 0>>, taken) /\ policy = "overwrite"
        BY <2>3, <2>4, <2>8 DEF Place, Replace
    <2>9. CASE ~IsFree(<<n, 0>>, taken) /\ policy = "ask"
        <3>1. PlacementFor(u) = NeedsDecision(<<n, 0>>, q)
            BY <2>3, <2>9 DEF Place
        <3> HIDE DEF q, n
        <3> QED BY <3>1, <2>4, <2>5, <2>9 DEF NeedsDecision
    <2> QED BY <2>2, <2>6, <2>7, <2>8, <2>9
<1> QED BY <1>1, <1>2

\* A new file is one that nothing refers to.
LEMMA FreshIsUnused ==
    ASSUME FreshInodes # {}
    PROVE  LET i == CHOOSE j \in FreshInodes : \A k \in FreshInodes : j <= k IN
           /\ i \in Inodes
           /\ \A p \in Paths : disk[p] # i /\ part[p] # i
           /\ \A u \in Uploads : upload[u].fd # i
<1>1. FreshInodes \in SUBSET Nat
    BY PlacementAssumption DEF FreshInodes, Inodes
<1>2. PICK j \in FreshInodes : j = CHOOSE m \in FreshInodes : \A k \in FreshInodes : m <= k
    BY <1>1, HasLeast
<1> QED BY <1>2 DEF FreshInodes, InUse
------------------------------------------------------------------------------
(* Types.                                                                  *)

\* The lengths of a part file, by a name of their own.
Ranks == 0..Whole

LEMMA StatesByRank ==
    UploadStates = [pc : {"pending", "asking", "given", "checked", "hashing", "writing",
                          "held", "saved", "placed", "done", "failed", "over"},
                    try : 0..MaxTries, known : OrNone(Paths), path : OrNone(Paths),
                    fd : OrNone(Inodes), append : BOOLEAN, offset : Ranks, pos : Ranks,
                    sound : BOOLEAN, deferred : BOOLEAN]
BY DEF UploadStates, Ranks

LEMMA RanksAre == Ranks = 0..2
BY DEF Ranks, Whole

LEMMA UploadFields ==
    ASSUME UploadTypeOK, NEW u \in Uploads
    PROVE  /\ upload[u] \in UploadStates
           /\ upload[u].pc \in {"pending", "asking", "given", "checked", "hashing", "writing",
                                "held", "saved", "placed", "done", "failed", "over"}
           /\ upload[u].try \in 0..MaxTries
           /\ upload[u].known \in Paths \cup {None} /\ upload[u].path \in Paths \cup {None}
           /\ upload[u].fd \in Inodes \cup {None} /\ upload[u].append \in BOOLEAN
           /\ upload[u].offset \in 0..2 /\ upload[u].pos \in 0..2 /\ upload[u].sound \in BOOLEAN
           /\ upload[u].deferred \in BOOLEAN
           /\ IsFormed(upload[u])
           /\ upload[u].pc \in {"hashing", "writing"} <=> upload[u].fd # None
           /\ upload[u].pc \in HasPath => upload[u].path \in Paths
BY DEF UploadTypeOK, UploadStates, OrNone, Whole, IsFormed

LEMMA UploadChanges ==
    ASSUME UploadTypeOK, NEW u \in Uploads, NEW new \in UploadStates, IsFormed(new),
           upload' = [upload EXCEPT ![u] = new]
    PROVE  /\ UploadTypeOK' /\ upload'[u] = new
           /\ \A v \in Uploads : v # u => upload'[v] = upload[v]
BY DEF UploadTypeOK

LEMMA ClosedFields ==
    ASSUME UploadTypeOK, NEW u \in Uploads
    PROVE  /\ Closed(u) \in UploadStates
           /\ Closed(u).fd = None /\ Closed(u).pc = upload[u].pc
           /\ Closed(u).try = upload[u].try
           /\ Closed(u).path = upload[u].path /\ Closed(u).known = upload[u].known
<1> DEFINE x == upload[u]
<1>1. x \in UploadStates
    BY UploadFields
<1> HIDE DEF x
<1> DEFINE y == [x EXCEPT !.fd = None, !.append = FALSE, !.offset = 0, !.pos = 0,
                          !.sound = TRUE, !.deferred = FALSE]
<1>2. /\ y \in UploadStates
      /\ y.fd = None /\ y.pc = x.pc /\ y.try = x.try /\ y.path = x.path /\ y.known = x.known
    <2>0. 0 \in Ranks
        BY RanksAre
    <2> DEFINE y1 == [x EXCEPT !.fd = None, !.append = FALSE]
               y2 == [y1 EXCEPT !.offset = 0, !.pos = 0]
               y3 == [y2 EXCEPT !.sound = TRUE, !.deferred = FALSE]
    <2>1. y1 \in UploadStates
        BY <1>1 DEF UploadStates, OrNone
    <2>2. y1.fd = None /\ y1.pc = x.pc /\ y1.try = x.try /\ y1.path = x.path /\ y1.known = x.known
        BY <1>1 DEF UploadStates
    <2>3. y = y3
        OBVIOUS
    <2> HIDE DEF y1, y
    <2>4. y2 \in UploadStates
        BY <2>0, <2>1, StatesByRank
    <2>5. y2.fd = y1.fd /\ y2.pc = y1.pc /\ y2.try = y1.try /\ y2.path = y1.path /\ y2.known = y1.known
        BY <2>1 DEF UploadStates
    <2> HIDE DEF y2
    <2>6. y3 \in UploadStates
        BY <2>4 DEF UploadStates
    <2>7. y3.fd = y2.fd /\ y3.pc = y2.pc /\ y3.try = y2.try /\ y3.path = y2.path /\ y3.known = y2.known
        BY <2>4 DEF UploadStates
    <2> HIDE DEF y3
    <2> QED BY <2>2, <2>3, <2>5, <2>6, <2>7
<1>3. Closed(u) = y
    BY DEF Closed, x
<1> HIDE DEF y
<1> QED BY <1>2, <1>3 DEF x

LEMMA AfterWriting ==
    ASSUME NEW u, NEW outcome
    PROVE  /\ After(u, outcome) \in {"done", "failed", "over", "pending"}
           /\ After(u, outcome) = "done" => outcome = "success"
BY DEF After

\* What a handler leaves behind.
LEMMA ConcludeLeaves ==
    ASSUME UploadTypeOK, NEW u \in Uploads, NEW outcome \in Outcomes, NEW received \in BOOLEAN,
           upload[u].path \in Paths, Conclude(u, outcome, received)
    PROVE  /\ UploadTypeOK'
           /\ \A v \in Uploads : v # u => upload'[v] = upload[v]
           /\ upload'[u].fd = None /\ upload'[u].try = upload[u].try
           /\ upload'[u].pc = After(u, outcome)
           /\ upload'[u].path = upload[u].path /\ upload'[u].known = upload[u].path
           /\ results \subseteq [upload : Uploads, path : Paths, outcome : Outcomes,
                                 received : BOOLEAN]
              => results' \subseteq [upload : Uploads, path : Paths, outcome : Outcomes,
                                     received : BOOLEAN]
<1> DEFINE new == [Closed(u) EXCEPT !.pc = After(u, outcome), !.known = upload[u].path]
<1>1. /\ new \in UploadStates /\ new.fd = None /\ new.try = upload[u].try
      /\ new.pc = After(u, outcome) /\ new.path = upload[u].path /\ new.known = upload[u].path
    <2> DEFINE x == Closed(u)
               a == After(u, outcome)
               p == upload[u].path
               y == [x EXCEPT !.pc = a, !.known = p]
    <2>1. x \in UploadStates /\ x.fd = None /\ x.try = upload[u].try /\ x.path = p
        BY ClosedFields
    <2>2. a \in {"done", "failed", "over", "pending"} /\ p \in Paths
        BY AfterWriting
    <2>3. new = y
        OBVIOUS
    <2> HIDE DEF x, a, p
    <2>4. /\ y \in UploadStates /\ y.fd = x.fd /\ y.try = x.try /\ y.pc = a
          /\ y.path = x.path /\ y.known = p
        BY <2>1, <2>2 DEF UploadStates, OrNone
    <2> HIDE DEF y, new
    <2> QED BY <2>1, <2>3, <2>4 DEF a, p
<1>2. upload' = [upload EXCEPT ![u] = new]
    BY DEF Conclude
<1> HIDE DEF new
<1>3. IsFormed(new)
    <2>1. new.pc \notin {"checked", "hashing", "writing"} /\ new.fd = None
        BY <1>1, AfterWriting
    <2>2. new.path # None
        BY <1>1, PlacementAssumption
    <2> QED BY <2>1, <2>2 DEF IsFormed
<1>4. /\ UploadTypeOK' /\ upload'[u] = new
      /\ \A v \in Uploads : v # u => upload'[v] = upload[v]
    BY <1>1, <1>2, <1>3, UploadChanges
<1>5. results' = results \cup {[upload |-> u, path |-> upload[u].path, outcome |-> outcome,
                                received |-> received]}
    BY DEF Conclude
<1> QED BY <1>1, <1>4, <1>5

LEMMA FreshLeaves ==
    ASSUME UploadTypeOK, NEW u \in Uploads, upload[u].pc = "given", NEW i \in Inodes,
           upload' = [upload EXCEPT ![u].pc = "writing", ![u].known = upload[u].path, ![u].fd = i,
                                    ![u].append = FALSE, ![u].pos = 0, ![u].sound = TRUE]
    PROVE  /\ UploadTypeOK' /\ \A v \in Uploads : v # u => upload'[v] = upload[v]
           /\ upload'[u].pc = "writing" /\ upload'[u].known = upload[u].path
           /\ upload'[u].path = upload[u].path /\ upload'[u].try = upload[u].try
           /\ upload'[u].fd = i /\ upload'[u].pos = 0
<1> DEFINE x == upload[u]
           p == upload[u].path
           y == [x EXCEPT !.pc = "writing", !.known = p, !.fd = i, !.append = FALSE, !.pos = 0,
                          !.sound = TRUE]
<1>1. x \in UploadStates /\ p \in Paths
    BY UploadFields DEF HasPath
<1>2. upload' = [upload EXCEPT ![u] = y]
    OBVIOUS
<1>3. /\ y \in UploadStates
      /\ y.pc = "writing" /\ y.known = p /\ y.fd = i /\ y.pos = 0 /\ y.path = p /\ y.try = x.try
    <2> DEFINE y1 == [x EXCEPT !.pc = "writing", !.known = p]
               y2 == [y1 EXCEPT !.fd = i, !.append = FALSE]
               y3 == [y2 EXCEPT !.pos = 0, !.sound = TRUE]
    <2>1. x.path = p /\ y3 = y
        OBVIOUS
    <2> HIDE DEF x, p, y
    <2>2. /\ y1 \in UploadStates
          /\ y1.pc = "writing" /\ y1.known = p /\ y1.path = x.path /\ y1.try = x.try
        BY <1>1 DEF UploadStates, OrNone
    <2> HIDE DEF y1
    <2>3. /\ y2 \in UploadStates
          /\ y2.pc = y1.pc /\ y2.known = y1.known /\ y2.path = y1.path /\ y2.try = y1.try
          /\ y2.fd = i
        BY <2>2 DEF UploadStates, OrNone
    <2> HIDE DEF y2
    <2>4. /\ y3 \in UploadStates
          /\ y3.pc = y2.pc /\ y3.known = y2.known /\ y3.path = y2.path /\ y3.try = y2.try
          /\ y3.fd = y2.fd /\ y3.pos = 0
        <3>1. 0 \in Ranks
            BY RanksAre
        <3> QED BY <2>3, <3>1, StatesByRank
    <2> HIDE DEF y3
    <2> QED BY <2>1, <2>2, <2>3, <2>4
<1> HIDE DEF y
<1>4. IsFormed(y)
    BY <1>1, <1>3, PlacementAssumption DEF IsFormed
<1> HIDE DEF x, p
<1> QED BY <1>2, <1>3, <1>4, UploadChanges DEF x, p

LEMMA CheckLeaves ==
    ASSUME UploadTypeOK, NEW u \in Uploads, upload[u].pc = "given", NEW n \in 1..2,
           upload' = [upload EXCEPT ![u].pc = "checked", ![u].known = upload[u].path,
                                    ![u].offset = n]
    PROVE  /\ UploadTypeOK' /\ \A v \in Uploads : v # u => upload'[v] = upload[v]
           /\ upload'[u].pc = "checked" /\ upload'[u].known = upload[u].path
           /\ upload'[u].path = upload[u].path /\ upload'[u].try = upload[u].try
           /\ upload'[u].fd = None /\ upload'[u].offset = n
<1> DEFINE x == upload[u]
           p == upload[u].path
           y == [x EXCEPT !.pc = "checked", !.known = p, !.offset = n]
<1>1. x \in UploadStates /\ p \in Paths /\ x.path = p /\ x.fd = None
    BY UploadFields DEF HasPath
<1>2. upload' = [upload EXCEPT ![u] = y]
    OBVIOUS
<1>3. /\ y \in UploadStates
      /\ y.pc = "checked" /\ y.known = p /\ y.fd = x.fd /\ y.offset = n /\ y.path = p
      /\ y.try = x.try
    <2> HIDE DEF x, p
    <2>1. n \in Ranks
        BY RanksAre
    <2> QED BY <1>1, <2>1, StatesByRank DEF OrNone
<1> HIDE DEF y
<1>4. IsFormed(y)
    BY <1>1, <1>3, PlacementAssumption DEF IsFormed
<1> HIDE DEF x, p
<1> QED BY <1>1, <1>2, <1>3, <1>4, UploadChanges DEF x, p

LEMMA AppendLeaves ==
    ASSUME UploadTypeOK, NEW u \in Uploads, upload[u].pc = "checked", NEW i \in Inodes,
           upload' = [upload EXCEPT ![u].pc = "hashing", ![u].fd = i, ![u].append = TRUE,
                                    ![u].pos = 0, ![u].sound = TRUE]
    PROVE  /\ UploadTypeOK' /\ \A v \in Uploads : v # u => upload'[v] = upload[v]
           /\ upload'[u].pc = "hashing" /\ upload'[u].known = upload[u].known
           /\ upload'[u].path = upload[u].path /\ upload'[u].try = upload[u].try
           /\ upload'[u].fd = i /\ upload'[u].pos = 0 /\ upload'[u].offset = upload[u].offset
<1> DEFINE x == upload[u]
           y == [x EXCEPT !.pc = "hashing", !.fd = i, !.append = TRUE, !.pos = 0, !.sound = TRUE]
<1>1. x \in UploadStates /\ x.path # None /\ 0 < x.offset
    BY UploadFields DEF IsFormed, HasPath
<1>2. upload' = [upload EXCEPT ![u] = y]
    OBVIOUS
<1>3. /\ y \in UploadStates
      /\ y.pc = "hashing" /\ y.known = x.known /\ y.fd = i /\ y.offset = x.offset /\ y.path = x.path
      /\ y.try = x.try /\ y.pos = 0
    <2> HIDE DEF x
    <2> DEFINE y1 == [x EXCEPT !.pc = "hashing", !.fd = i]
               y2 == [y1 EXCEPT !.append = TRUE, !.pos = 0, !.sound = TRUE]
    <2>1. y2 = y
        OBVIOUS
    <2> HIDE DEF y
    <2>2. /\ y1 \in UploadStates /\ y1.pc = "hashing" /\ y1.known = x.known /\ y1.fd = i
          /\ y1.offset = x.offset /\ y1.path = x.path /\ y1.try = x.try
        BY <1>1 DEF UploadStates, OrNone
    <2> HIDE DEF y1
    <2>3. /\ y2 \in UploadStates /\ y2.pc = y1.pc /\ y2.known = y1.known /\ y2.fd = y1.fd
          /\ y2.offset = y1.offset /\ y2.path = y1.path /\ y2.try = y1.try /\ y2.pos = 0
        <3>1. 0 \in Ranks
            BY RanksAre
        <3> QED BY <2>2, <3>1, StatesByRank
    <2> QED BY <2>1, <2>2, <2>3
<1> HIDE DEF y
<1>4. IsFormed(y)
    BY <1>1, <1>3, PlacementAssumption DEF IsFormed
<1> HIDE DEF x
<1> QED BY <1>2, <1>3, <1>4, UploadChanges DEF x

LEMMA HashLeaves ==
    ASSUME UploadTypeOK, NEW u \in Uploads, HashPrefix(u)
    PROVE  /\ UploadTypeOK' /\ \A v \in Uploads : v # u => upload'[v] = upload[v]
           /\ upload'[u].known = upload[u].known
           /\ upload'[u].path = upload[u].path /\ upload'[u].try = upload[u].try
           /\ upload'[u].fd = upload[u].fd /\ upload'[u].offset = upload[u].offset
           /\ upload'[u].pos = upload[u].pos + 1 /\ upload'[u].sound = Hashed(u)
           /\ upload'[u].pc = IF upload[u].pos + 1 = upload[u].offset THEN "writing" ELSE "hashing"
<1> DEFINE x == upload[u]
           n == x.pos + 1
           h == Hashed(u)
           c == IF n = x.offset THEN "writing" ELSE "hashing"
           y == [x EXCEPT !.pos = n, !.sound = h, !.pc = c]
<1>1. /\ x \in UploadStates /\ x.path # None /\ x.fd # None /\ n <= x.offset
      /\ n \in 0..2 /\ h \in BOOLEAN /\ c \in {"writing", "hashing"}
      /\ c = "hashing" => n < x.offset
    <2>1. x \in UploadStates /\ x.pos \in 0..2 /\ x.offset \in 0..2 /\ x.pos < x.offset
          /\ x.pc = "hashing" /\ x.path # None /\ x.fd # None
        BY UploadFields DEF HashPrefix, IsFormed, HasPath
    <2>2. h \in BOOLEAN
        <3>1. upload[u].sound \in BOOLEAN
            BY UploadFields
        <3> QED BY <3>1 DEF Hashed
    <2> HIDE DEF h, x
    <2> QED BY <2>1, <2>2
<1>2. upload' = [upload EXCEPT ![u] = y]
    BY DEF HashPrefix
<1>3. /\ y \in UploadStates
      /\ y.pc = c /\ y.known = x.known /\ y.fd = x.fd /\ y.offset = x.offset /\ y.path = x.path
      /\ y.try = x.try /\ y.pos = n /\ y.sound = h
    <2> HIDE DEF x, n, h, c
    <2> QED BY <1>1 DEF UploadStates, Whole
<1> HIDE DEF y, c, h
<1>4. IsFormed(y)
    BY <1>1, <1>3 DEF IsFormed
<1> HIDE DEF x, n
<1> QED BY <1>2, <1>3, <1>4, UploadChanges DEF x, n, c, h

LEMMA BeginLeaves ==
    ASSUME UploadTypeOK, NEW u \in Uploads, BeginUpload(u)
    PROVE  /\ UploadTypeOK'
           /\ \A v \in Uploads : v # u => upload'[v] = upload[v]
           /\ upload'[u].try = upload[u].try + 1 /\ upload'[u].try \in 1..MaxTries
           /\ upload'[u].known = upload[u].known /\ upload'[u].path = upload[u].known
           /\ upload'[u].fd = None /\ upload'[u].pc \in {"given", "asking"}
<1> DEFINE x == upload[u]
           t == x.try + 1
           c == IF x.known # None THEN "given" ELSE "asking"
           y == [x EXCEPT !.try = t, !.path = x.known, !.pc = c]
<1>1. x \in UploadStates /\ x.fd = None /\ t \in 1..MaxTries
    BY UploadFields, PlacementAssumption DEF BeginUpload
<1>2. upload' = [upload EXCEPT ![u] = y]
    BY DEF BeginUpload
<1>3. /\ y \in UploadStates
      /\ y.try = t /\ y.path = x.known /\ y.known = x.known /\ y.pc = c /\ y.fd = None
    <2> HIDE DEF x
    <2>1. c \in {"given", "asking"} /\ t \in 0..MaxTries
        BY <1>1
    <2> HIDE DEF t, c
    <2> QED BY <1>1, <2>1 DEF UploadStates
<1>4. c = "given" => y.path # None
    BY <1>3
<1>5. c \in {"given", "asking"}
    OBVIOUS
<1> HIDE DEF y, c
<1>6. IsFormed(y)
    BY <1>3, <1>4, <1>5 DEF IsFormed, HasPath
<1>7. /\ UploadTypeOK' /\ upload'[u] = y
      /\ \A v \in Uploads : v # u => upload'[v] = upload[v]
    BY <1>2, <1>3, <1>6, UploadChanges
<1> QED BY <1>1, <1>3, <1>5, <1>7

\* A path is sent to the handler, if it still waits.
Given(u, p) ==
    /\ upload'[u].try = upload[u].try /\ upload'[u].known = upload[u].known
    /\ upload'[u].path = p /\ upload'[u].pc = "given" /\ upload'[u].fd = None

LEMMA AssignLeaves ==
    ASSUME UploadTypeOK, NEW u \in Uploads, NEW try, NEW p \in Paths, Assign(u, try, p)
    PROVE  /\ UploadTypeOK'
           /\ \A v \in Uploads : upload'[v] = upload[v] \/ (v = u /\ Given(u, p))
<1>1. CASE ~IsWaiting(u, try)
    <2>1. upload' = upload
        BY <1>1 DEF Assign
    <2> QED BY <2>1 DEF UploadTypeOK
<1>2. CASE IsWaiting(u, try)
    <2> DEFINE x == upload[u]
               y == [x EXCEPT !.pc = "given", !.path = p]
    <2>1. x \in UploadStates /\ x.fd = None
        BY <1>2, UploadFields DEF IsWaiting
    <2>2. upload' = [upload EXCEPT ![u] = y]
        BY <1>2 DEF Assign
    <2>3. /\ y \in UploadStates /\ y.fd = x.fd
          /\ y.try = x.try /\ y.known = x.known /\ y.path = p /\ y.pc = "given"
        <3> HIDE DEF x
        <3> QED BY <2>1 DEF UploadStates, OrNone
    <2> HIDE DEF y
    <2>4. y.path # None
        BY <2>3, PlacementAssumption
    <2>5. IsFormed(y)
        BY <2>1, <2>3, <2>4 DEF IsFormed
    <2> QED BY <2>1, <2>2, <2>3, <2>5, UploadChanges DEF Given
<1> QED BY <1>1, <1>2

LEMMA WriteLeaves ==
    ASSUME UploadTypeOK, NEW u \in Uploads, WriteChunk(u)
    PROVE  /\ UploadTypeOK'
           /\ \A v \in Uploads : v # u => upload'[v] = upload[v]
           /\ upload'[u].pos = upload[u].pos + 1 /\ upload'[u].fd = upload[u].fd
           /\ upload'[u].sound = upload[u].sound /\ upload'[u].try = upload[u].try
           /\ upload'[u].path = upload[u].path /\ upload'[u].known = upload[u].known
           /\ upload'[u].pc = upload[u].pc
<1> DEFINE x == upload[u]
           n == x.pos + 1
           y == [x EXCEPT !.pos = n]
<1>1. /\ x \in UploadStates /\ x.pc = "writing" /\ x.fd # None /\ x.path # None
      /\ n \in 0..2
    BY UploadFields, PlacementAssumption DEF WriteChunk, Whole, HasPath
<1>2. upload' = [upload EXCEPT ![u] = y]
    BY DEF WriteChunk
<1>3. /\ y \in UploadStates /\ y.pc = x.pc /\ y.fd = x.fd /\ y.path = x.path /\ y.try = x.try
      /\ y.known = x.known /\ y.sound = x.sound /\ y.pos = n
    <2> HIDE DEF x, n
    <2> QED BY <1>1 DEF UploadStates, Whole
<1> HIDE DEF y, n
<1>4. IsFormed(y)
    BY <1>1, <1>3 DEF IsFormed
<1> QED BY <1>2, <1>3, <1>4, UploadChanges DEF n

\* What closing a file leaves, whatever state the upload goes to.
LEMMA ClosingLeaves ==
    ASSUME UploadTypeOK, NEW u \in Uploads, NEW c \in {"saved", "over", "pending", "failed"},
           c = "saved" => upload[u].path # None,
           upload' = [upload EXCEPT ![u] = [Closed(u) EXCEPT !.pc = c]]
    PROVE  /\ UploadTypeOK'
           /\ \A v \in Uploads : v # u => upload'[v] = upload[v]
           /\ upload'[u].fd = None /\ upload'[u].try = upload[u].try /\ upload'[u].pc = c
           /\ upload'[u].path = upload[u].path /\ upload'[u].known = upload[u].known
<1> DEFINE x == Closed(u)
           y == [x EXCEPT !.pc = c]
<1>1. /\ x \in UploadStates /\ x.fd = None /\ x.try = upload[u].try
      /\ x.path = upload[u].path /\ x.known = upload[u].known
    BY ClosedFields
<1>2. upload' = [upload EXCEPT ![u] = y]
    OBVIOUS
<1>3. /\ y \in UploadStates /\ y.pc = c /\ y.fd = x.fd /\ y.path = x.path /\ y.try = x.try
      /\ y.known = x.known
    <2> HIDE DEF x
    <2> QED BY <1>1 DEF UploadStates
<1> HIDE DEF x, y
<1>4. IsFormed(y)
    BY <1>1, <1>3 DEF IsFormed, HasPath
<1> QED BY <1>1, <1>2, <1>3, <1>4, UploadChanges

\* What parking a body leaves.
LEMMA HoldLeaves ==
    ASSUME UploadTypeOK, NEW u \in Uploads, NEW s \in BOOLEAN, upload[u].path # None,
           upload' = [upload EXCEPT ![u] = [Closed(u) EXCEPT
                            !.pc = "held", !.sound = s, !.deferred = TRUE]]
    PROVE  /\ UploadTypeOK'
           /\ \A v \in Uploads : v # u => upload'[v] = upload[v]
           /\ upload'[u].fd = None /\ upload'[u].try = upload[u].try /\ upload'[u].pc = "held"
           /\ upload'[u].sound = s
           /\ upload'[u].path = upload[u].path /\ upload'[u].known = upload[u].known
<1> DEFINE x == Closed(u)
           y == [x EXCEPT !.pc = "held", !.sound = s, !.deferred = TRUE]
<1>1. /\ x \in UploadStates /\ x.fd = None /\ x.try = upload[u].try
      /\ x.path = upload[u].path /\ x.known = upload[u].known
    BY ClosedFields
<1>2. upload' = [upload EXCEPT ![u] = y]
    OBVIOUS
<1>3. /\ y \in UploadStates /\ y.pc = "held" /\ y.fd = x.fd /\ y.path = x.path /\ y.try = x.try
      /\ y.known = x.known /\ y.sound = s
    <2> HIDE DEF x
    <2> QED BY <1>1 DEF UploadStates
<1> HIDE DEF x, y
<1>4. IsFormed(y)
    BY <1>1, <1>3 DEF IsFormed
<1> QED BY <1>1, <1>2, <1>3, <1>4, UploadChanges
------------------------------------------------------------------------------
(* Most steps write nothing: part files go, handlers close, uploads are over. *)

\* What an attempt knows of the part file of its path while it is alone: the
\* length it compared the offset with, the chunks its digest covers, and in the
\* end that it is whole.
Knows(u, i) ==
    /\ upload[u].pc = "checked" => Len(bytes[i]) = upload[u].offset
    /\ upload[u].pc = "hashing" => upload[u].fd = i /\ Len(bytes[i]) = upload[u].offset
    /\ upload[u].pc = "writing" => upload[u].fd = i /\ Len(bytes[i]) = upload[u].pos
    /\ upload[u].pc \in {"hashing", "writing"} /\ upload[u].sound =>
          \A k \in 1..upload[u].pos : bytes[i][k] = Content(u)
    /\ upload[u].pc = "saved" \/ (upload[u].pc = "held" /\ upload[u].sound) =>
          bytes[i] = WholeOf(u)

Winds(v) ==
    /\ upload'[v].path \in {upload[v].path, upload[v].known}
    /\ upload'[v].known \in {upload[v].path, upload[v].known}
    /\ upload'[v].try >= upload[v].try
    /\ upload'[v].fd # None =>
          /\ upload'[v].path = upload[v].path /\ upload[v].path \in Paths
          /\ upload'[v].fd \in {upload[v].fd, part[upload[v].path]}
    /\ upload'[v].pc \in {"placed", "done"} =>
          upload[v].pc \in {"placed", "done"} /\ upload'[v].path = upload[v].path
    /\ upload'[v].pc \in Using =>
          /\ upload[v].pc \in Using /\ upload'[v].path = upload[v].path
          /\ \A i \in Inodes : part[upload[v].path] = i /\ Knows(v, i) => Knows(v, i)'
Wanes ==
    /\ UNCHANGED <<disk, bytes, given, crossed, policy, mine, consent>>
    /\ \A p \in Paths : part'[p] \in {part[p], None}
    /\ \A v \in Uploads : Winds(v)

LEMMA StillWinds ==
    ASSUME UploadTypeOK, NEW v \in Uploads, upload'[v] = upload[v], bytes' = bytes
    PROVE  Winds(v)
<1>1. /\ upload[v].try \in Nat
      /\ upload[v].fd # None => upload[v].path \in Paths
    BY UploadFields, PlacementAssumption DEF HasPath
<1>2. ASSUME NEW i \in Inodes, Knows(v, i) PROVE Knows(v, i)'
    BY <1>2 DEF Knows, WholeOf, Content
<1> QED BY <1>1, <1>2 DEF Winds

\* An attempt that lets go of its file.
LEMMA ClosingWinds ==
    ASSUME UploadTypeOK, NEW v \in Uploads, upload'[v].fd = None,
           upload'[v].try = upload[v].try, upload'[v].path = upload[v].path,
           upload'[v].known \in {upload[v].path, upload[v].known},
           upload'[v].pc \notin Using \cup {"placed"},
           upload'[v].pc = "done" => upload[v].pc = "placed"
    PROVE  Winds(v)
<1>1. upload[v].try \in Nat
    BY UploadFields, PlacementAssumption
<1> QED BY <1>1 DEF Winds

\* Uploads that end all at once.
LEMMA OverWinds ==
    ASSUME UploadTypeOK, bytes' = bytes, NEW S,
           upload' = [v \in Uploads |-> IF v \in S THEN [Closed(v) EXCEPT !.pc = "over"]
                                                   ELSE upload[v]]
    PROVE  UploadTypeOK' /\ \A v \in Uploads : Winds(v)
<1> DEFINE new(v) == IF v \in S THEN [Closed(v) EXCEPT !.pc = "over"] ELSE upload[v]
<1>1. ASSUME NEW v \in Uploads
      PROVE  new(v) \in UploadStates /\ IsFormed(new(v)) /\ (upload'[v] = new(v) => Winds(v))
    <2>1. CASE v \in S
        <3> DEFINE x == Closed(v)
                   y == [x EXCEPT !.pc = "over"]
        <3>1. /\ x \in UploadStates /\ x.fd = None /\ x.try = upload[v].try
              /\ x.path = upload[v].path /\ x.known = upload[v].known
            BY ClosedFields
        <3>2. new(v) = y
            BY <2>1
        <3>3. /\ y \in UploadStates /\ y.pc = "over" /\ y.fd = x.fd /\ y.path = x.path
              /\ y.known = x.known /\ y.try = x.try
            <4> HIDE DEF x
            <4> QED BY <3>1 DEF UploadStates
        <3> HIDE DEF x, y, new
        <3>4. IsFormed(y)
            BY <3>1, <3>3 DEF IsFormed, HasPath
        <3>5. upload'[v] = y => Winds(v)
            BY <3>1, <3>3, ClosingWinds DEF Using
        <3> QED BY <3>2, <3>3, <3>4, <3>5
    <2>2. CASE v \notin S
        BY <2>2, UploadFields, StillWinds
    <2> QED BY <2>1, <2>2
<1>2. upload' = [v \in Uploads |-> new(v)]
    OBVIOUS
<1> HIDE DEF new
<1>3. \A v \in Uploads : upload'[v] = new(v)
    BY <1>2
<1> QED BY <1>1, <1>2, <1>3 DEF UploadTypeOK

LEMMA EndSessionWinds ==
    ASSUME PlacementTypeOK, NEW s \in Sessions, EndSession(s)
    PROVE  PlacementTypeOK' /\ Wanes
<1>1. UNCHANGED <<placing, runtime, store, crashes>> /\ current' = None
    BY DEF EndSession
<1>2. UploadTypeOK' /\ \A v \in Uploads : Winds(v)
    <2> DEFINE S == {v \in Uploads : SessionOf(v) = s /\ upload[v].pc \in {"pending", "held"}}
    <2>1. upload' = [v \in Uploads |-> IF v \in S THEN [Closed(v) EXCEPT !.pc = "over"]
                                                  ELSE upload[v]]
        BY DEF EndSession
    <2>2. bytes' = bytes /\ UploadTypeOK
        BY <1>1 DEF store, PlacementTypeOK
    <2> HIDE DEF S
    <2> QED BY <2>1, <2>2, OverWinds
<1> QED BY <1>1, <1>2
        DEF PlacementTypeOK, StoreTypeOK, RuntimeTypeOK, PlacingTypeOK, Wanes, placing, runtime,
            store, OrNone

LEMMA RestartWinds ==
    ASSUME PlacementTypeOK, Restart
    PROVE  PlacementTypeOK' /\ Wanes
<1>1. UploadTypeOK' /\ \A v \in Uploads : Winds(v)
    <2> DEFINE S == {v \in Uploads : ~ \/ upload[v] = NoUpload /\ SessionOf(v) # current
                                       \/ upload[v].pc \in {"done", "failed"}}
    <2>1. upload' = [v \in Uploads |-> IF v \in S THEN [Closed(v) EXCEPT !.pc = "over"]
                                                  ELSE upload[v]]
        BY DEF Restart
    <2>2. bytes' = bytes /\ UploadTypeOK
        BY DEF Restart, PlacementTypeOK
    <2> HIDE DEF S
    <2> QED BY <2>1, <2>2, OverWinds
<1>2. StoreTypeOK'
    <2>1. PICK o \in BOOLEAN : rows' = [p \in Paths |-> IF rows[p] = None THEN None
                                                        ELSE [rows[p] EXCEPT !.old = o]]
        BY DEF Restart
    <2>2. rows' \in [Paths -> OrNone([content : Contents, sender : Senders, old : BOOLEAN])]
        BY <2>1 DEF PlacementTypeOK, StoreTypeOK, OrNone
    <2>3. UNCHANGED <<disk, part, bytes>> /\ expiring' = {None}
        BY DEF Restart
    <2> QED BY <2>2, <2>3 DEF PlacementTypeOK, StoreTypeOK, OrNone
<1>3. RuntimeTypeOK'
    <2>1. NoInfo \in [sid : OrNone(Sessions), sender : OrNone(Senders),
                      assigned : SUBSET Paths, resume : [Files -> OrNone(Paths)]]
          /\ NoInfo.sid = None
        BY DEF NoInfo, OrNone
    <2>2. incoming' = NoInfo /\ offered' = {} /\ questions' = {} /\ results' = {}
          /\ asked' = [u \in Uploads |-> 0]
        BY DEF Restart
    <2> QED BY <2>1, <2>2, PlacementAssumption DEF RuntimeTypeOK
<1>4. crashes' \in 0..MaxCrashes /\ current' \in OrNone(Sessions)
    BY PlacementAssumption DEF Restart, PlacementTypeOK, OrNone
<1>5. UNCHANGED <<placing, disk, part, bytes>>
    BY DEF Restart
<1> QED BY <1>1, <1>2, <1>3, <1>4, <1>5
        DEF PlacementTypeOK, PlacingTypeOK, StoreTypeOK, Wanes, placing

\* Steps of the runtime and the start, which leave the uploads alone.
LEMMA HearEndWinds ==
    ASSUME PlacementTypeOK, HearEnd
    PROVE  PlacementTypeOK' /\ Wanes
<1>1. NoInfo \in [sid : OrNone(Sessions), sender : OrNone(Senders),
                  assigned : SUBSET Paths, resume : [Files -> OrNone(Paths)]]
      /\ NoInfo.sid = None
    BY DEF NoInfo, OrNone
<1>2. incoming' = NoInfo
      /\ UNCHANGED <<placing, offered, questions, asked, results, store, current, upload, crashes>>
    BY DEF HearEnd
<1> QED BY <1>1, <1>2, StillWinds
        DEF PlacementTypeOK, StoreTypeOK, RuntimeTypeOK, UploadTypeOK, PlacingTypeOK, Wanes,
            placing, store

LEMMA HearResultWinds ==
    ASSUME PlacementTypeOK, NEW r \in results, HearResult(r)
    PROVE  PlacementTypeOK' /\ Wanes
<1>1. r.path \in Paths
    BY DEF PlacementTypeOK, RuntimeTypeOK
<1>2. rows' \in [Paths -> OrNone([content : Contents, sender : Senders, old : BOOLEAN])]
    BY <1>1 DEF HearResult, PlacementTypeOK, StoreTypeOK, OrNone
<1>3. results' \subseteq results
    BY DEF HearResult
<1>4. UNCHANGED <<placing, incoming, offered, questions, asked, disk, part, bytes, expiring,
                  current, upload, crashes>>
    BY DEF HearResult
<1> QED BY <1>2, <1>3, <1>4, StillWinds
        DEF PlacementTypeOK, StoreTypeOK, RuntimeTypeOK, UploadTypeOK, PlacingTypeOK, Wanes, placing

LEMMA ExpireRowsWinds ==
    ASSUME PlacementTypeOK, ExpireRows
    PROVE  PlacementTypeOK' /\ Wanes
<1>1. rows' \in [Paths -> OrNone([content : Contents, sender : Senders, old : BOOLEAN])]
    BY DEF ExpireRows, PlacementTypeOK, StoreTypeOK, OrNone
<1>2. expiring' \subseteq Paths
    BY DEF ExpireRows
<1>3. UNCHANGED <<placing, runtime, disk, part, bytes, current, upload, crashes>>
    BY DEF ExpireRows
<1> QED BY <1>1, <1>2, <1>3, StillWinds
        DEF PlacementTypeOK, StoreTypeOK, RuntimeTypeOK, UploadTypeOK, PlacingTypeOK, Wanes,
            placing, runtime, OrNone

LEMMA ExpirePartWinds ==
    ASSUME PlacementTypeOK, NEW p \in Paths, ExpirePart(p)
    PROVE  PlacementTypeOK' /\ Wanes
<1>1. part' = [part EXCEPT ![p] = None] /\ expiring' \subseteq expiring
    BY DEF ExpirePart
<1>2. UNCHANGED <<placing, runtime, disk, bytes, rows, current, upload, crashes>>
    BY DEF ExpirePart
<1> QED BY <1>1, <1>2, StillWinds
        DEF PlacementTypeOK, StoreTypeOK, RuntimeTypeOK, UploadTypeOK, PlacingTypeOK, Wanes,
            placing, runtime, OrNone

LEMMA AcceptWinds ==
    ASSUME PlacementTypeOK, NEW s \in Sessions, Accept(s)
    PROVE  PlacementTypeOK' /\ Wanes
<1>1. PICK pick \in [Offers[s] -> Paths \cup {None}] :
        LET useless == {pick[f] : f \in {g \in Offers[s] : pick[g] # None /\ ~IsUsable(pick[g])}}
        IN /\ rows' = [p \in Paths |-> IF p \in useless THEN None ELSE rows[p]]
           /\ part' = [p \in Paths |-> IF p \in useless THEN None ELSE part[p]]
           /\ incoming' = [sid |-> s, sender |-> SenderOf[s], assigned |-> {},
                           resume |-> [f \in Files |->
                              IF f \in Offers[s] /\ pick[f] \notin useless THEN pick[f] ELSE None]]
    BY DEF Accept
<1>2. /\ part' \in [Paths -> OrNone(Inodes)]
      /\ rows' \in [Paths -> OrNone([content : Contents, sender : Senders, old : BOOLEAN])]
      /\ \A p \in Paths : part'[p] \in {part[p], None}
    BY <1>1 DEF PlacementTypeOK, StoreTypeOK, OrNone
<1>3. incoming' \in [sid : OrNone(Sessions), sender : OrNone(Senders),
                     assigned : SUBSET Paths, resume : [Files -> OrNone(Paths)]]
      /\ incoming'.sender # None
    BY <1>1, PlacementAssumption DEF Senders, OrNone
<1>4. UNCHANGED <<placing, offered, questions, asked, results, disk, bytes, expiring, upload,
                  crashes>> /\ current' = s
    BY DEF Accept
<1> QED BY <1>2, <1>3, <1>4, StillWinds
        DEF PlacementTypeOK, StoreTypeOK, RuntimeTypeOK, UploadTypeOK, PlacingTypeOK, Wanes,
            placing, OrNone

LEMMA AskUserWinds ==
    ASSUME PlacementTypeOK, NEW u \in Uploads, NEW try \in 1..MaxTries, AskUser(u, try)
    PROVE  PlacementTypeOK' /\ Wanes
<1> DEFINE m == PlacementFor(u)
           q == [upload |-> u, try |-> try, existing |-> m.path, renamed |-> m.renamed]
<1>1. m.path \in Paths /\ m.renamed \in Paths
    BY PlacementIsGood DEF AskUser
<1>2. questions' = questions \cup {q} /\ asked' = [asked EXCEPT ![u] = try] /\ offered' \subseteq offered
    BY DEF AskUser
<1>3. q \in [upload : Uploads, try : 1..MaxTries, existing : Paths, renamed : Paths]
    <2> HIDE DEF m
    <2> QED BY <1>1
<1>4. UNCHANGED <<placing, incoming, results, store, current, upload, crashes>>
    BY DEF AskUser
<1>5. try \in 0..MaxTries
    BY PlacementAssumption
<1>6. RuntimeTypeOK'
    <2> HIDE DEF q, m
    <2> QED BY <1>2, <1>3, <1>4, <1>5 DEF PlacementTypeOK, RuntimeTypeOK
<1> HIDE DEF q, m
<1> QED BY <1>4, <1>6, StillWinds
        DEF PlacementTypeOK, StoreTypeOK, RuntimeTypeOK, UploadTypeOK, PlacingTypeOK, Wanes,
            placing, store

LEMMA BeginWinds ==
    ASSUME PlacementTypeOK, NEW u \in Uploads, BeginUpload(u)
    PROVE  PlacementTypeOK' /\ Wanes
<1>1. UploadTypeOK' /\ upload'[u].try \in 1..MaxTries
    BY BeginLeaves DEF PlacementTypeOK
<1>2. ASSUME NEW v \in Uploads PROVE Winds(v)
    <2>1. CASE v # u
        <3>1. bytes' = bytes
            BY DEF BeginUpload, store
        <3> QED BY <2>1, <3>1, BeginLeaves, StillWinds DEF PlacementTypeOK
    <2>2. CASE v = u
        <3>1. upload[u].try \in Nat
            BY UploadFields, PlacementAssumption DEF PlacementTypeOK
        <3> QED BY <2>2, <3>1, BeginLeaves DEF PlacementTypeOK, Winds, Using
    <2> QED BY <2>1, <2>2
<1>3. offered' \subseteq offered \cup {<<u, upload[u].try + 1>>}
    BY DEF BeginUpload
<1>4. upload[u].try + 1 \in 1..MaxTries
    BY BeginLeaves DEF PlacementTypeOK
<1>5. UNCHANGED <<placing, incoming, questions, asked, results, store, current, crashes>>
    BY DEF BeginUpload
<1>6. offered' \subseteq Uploads \X (1..MaxTries)
    <2> DEFINE t == upload[u].try + 1
    <2> HIDE DEF t
    <2>1. offered' \subseteq offered \cup {<<u, t>>} /\ t \in 1..MaxTries
        BY <1>3, <1>4 DEF t
    <2> QED BY <2>1 DEF PlacementTypeOK, RuntimeTypeOK
<1> QED BY <1>1, <1>2, <1>5, <1>6
        DEF PlacementTypeOK, StoreTypeOK, RuntimeTypeOK, PlacingTypeOK, Wanes, placing, store

LEMMA RejectWinds ==
    ASSUME PlacementTypeOK, NEW u \in Uploads, NEW try \in 1..MaxTries, RejectUpload(u, try)
    PROVE  PlacementTypeOK' /\ Wanes
<1>1. UploadTypeOK' /\ \A v \in Uploads : Winds(v)
    <2>0. bytes' = bytes
        BY DEF RejectUpload, store
    <2>1. CASE ~IsWaiting(u, try)
        <3>1. upload' = upload
            BY <2>1 DEF RejectUpload
        <3> QED BY <2>0, <3>1, StillWinds DEF PlacementTypeOK, UploadTypeOK
    <2>2. CASE IsWaiting(u, try)
        <3> DEFINE x == upload[u]
                   y == [x EXCEPT !.pc = "failed"]
        <3>1. x \in UploadStates /\ x.fd = None /\ x.try \in Nat
            BY <2>2, UploadFields, PlacementAssumption DEF IsWaiting, PlacementTypeOK
        <3>2. upload' = [upload EXCEPT ![u] = y]
            BY <2>2 DEF RejectUpload
        <3>3. /\ y \in UploadStates /\ y.fd = x.fd /\ y.try = x.try /\ y.known = x.known
              /\ y.path = x.path /\ y.pc = "failed"
            <4> HIDE DEF x
            <4> QED BY <3>1 DEF UploadStates
        <3> HIDE DEF y
        <3>4. IsFormed(y)
            BY <3>1, <3>3 DEF IsFormed, HasPath
        <3>5. /\ UploadTypeOK' /\ upload'[u] = y
              /\ \A v \in Uploads : v # u => upload'[v] = upload[v]
            BY <3>2, <3>3, <3>4, UploadChanges DEF PlacementTypeOK
        <3>6. Winds(u)
            BY <3>1, <3>3, <3>5, ClosingWinds DEF PlacementTypeOK, Using
        <3> QED BY <2>0, <3>5, <3>6, StillWinds DEF PlacementTypeOK
    <2> QED BY <2>1, <2>2
<1>2. offered' \subseteq offered
      /\ UNCHANGED <<placing, incoming, questions, asked, results, store, current, crashes>>
    BY DEF RejectUpload
<1> QED BY <1>1, <1>2
        DEF PlacementTypeOK, StoreTypeOK, RuntimeTypeOK, PlacingTypeOK, Wanes, placing, store

\* An attempt that goes on, or lets go, and touches no file.
LEMMA QuietWanes ==
    ASSUME PlacementTypeOK, NEW u \in Uploads, UploadTypeOK', Winds(u),
           \A v \in Uploads : v # u => upload'[v] = upload[v],
           UNCHANGED <<placing, runtime, store, current, crashes>>
    PROVE  PlacementTypeOK' /\ Wanes
<1>1. \A v \in Uploads : Winds(v)
    <2>1. bytes' = bytes /\ UploadTypeOK
        BY DEF store, PlacementTypeOK
    <2> QED BY <2>1, StillWinds
<1> QED BY <1>1
        DEF PlacementTypeOK, StoreTypeOK, RuntimeTypeOK, PlacingTypeOK, Wanes, placing, runtime,
            store

LEMMA OpenAppendWinds ==
    ASSUME PlacementTypeOK, NEW u \in Uploads, OpenAppend(u)
    PROVE  PlacementTypeOK' /\ Wanes
<1> DEFINE i == part[upload[u].path]
<1>1. /\ upload[u].pc = "checked" /\ UploadTypeOK
      /\ upload[u].path \in Paths /\ upload[u].try \in Nat
    BY UploadFields, PlacementAssumption DEF OpenAppend, PlacementTypeOK, HasPath
<1>2. i \in Inodes
    BY <1>1 DEF OpenAppend, PlacementTypeOK, StoreTypeOK, OrNone
<1>3. upload' = [upload EXCEPT ![u].pc = "hashing", ![u].fd = i, ![u].append = TRUE,
                               ![u].pos = 0, ![u].sound = TRUE]
      /\ UNCHANGED <<placing, runtime, store, current, crashes>>
    BY DEF OpenAppend
<1>4. /\ UploadTypeOK' /\ \A v \in Uploads : v # u => upload'[v] = upload[v]
      /\ upload'[u].pc = "hashing" /\ upload'[u].known = upload[u].known
      /\ upload'[u].path = upload[u].path /\ upload'[u].try = upload[u].try
      /\ upload'[u].fd = i /\ upload'[u].pos = 0 /\ upload'[u].offset = upload[u].offset
    <2> HIDE DEF i
    <2> QED BY <1>1, <1>2, <1>3, AppendLeaves
<1>5. ASSUME NEW j \in Inodes, j = i, Knows(u, j) PROVE Knows(u, j)'
    <2>1. bytes' = bytes
        BY <1>3 DEF store
    <2>2. Len(bytes[j]) = upload[u].offset
        BY <1>1, <1>5 DEF Knows
    <2>3. \A k \in 1..upload'[u].pos : FALSE
        BY <1>4
    <2>4. upload'[u].fd = j
        BY <1>4, <1>5
    <2> HIDE DEF i
    <2> QED BY <1>4, <2>1, <2>2, <2>3, <2>4 DEF Knows
<1>6. Winds(u)
    BY <1>1, <1>4, <1>5 DEF Winds, Using
<1> QED BY <1>3, <1>4, <1>6, QuietWanes

LEMMA HashWinds ==
    ASSUME PlacementTypeOK, NEW u \in Uploads, HashPrefix(u)
    PROVE  PlacementTypeOK' /\ Wanes
<1>1. UploadTypeOK /\ UNCHANGED <<placing, runtime, store, current, crashes>>
    BY DEF HashPrefix, PlacementTypeOK
<1>2. /\ upload[u].pc = "hashing" /\ upload[u].path \in Paths /\ upload[u].try \in Nat
      /\ upload[u].pos \in 0..2 /\ upload[u].offset \in 0..2 /\ upload[u].sound \in BOOLEAN
    BY <1>1, UploadFields, PlacementAssumption DEF HashPrefix, HasPath
<1>3. /\ UploadTypeOK' /\ \A v \in Uploads : v # u => upload'[v] = upload[v]
      /\ upload'[u].known = upload[u].known
      /\ upload'[u].path = upload[u].path /\ upload'[u].try = upload[u].try
      /\ upload'[u].fd = upload[u].fd /\ upload'[u].offset = upload[u].offset
      /\ upload'[u].pos = upload[u].pos + 1 /\ upload'[u].sound = Hashed(u)
      /\ upload'[u].pc = IF upload[u].pos + 1 = upload[u].offset THEN "writing" ELSE "hashing"
    BY <1>1, HashLeaves
<1>4. ASSUME NEW i \in Inodes, Knows(u, i) PROVE Knows(u, i)'
    <2>1. bytes' = bytes
        BY <1>1 DEF store
    <2>2. upload[u].fd = i /\ Len(bytes[i]) = upload[u].offset
        BY <1>2, <1>4 DEF Knows
    <2>3. ASSUME upload'[u].sound, NEW k \in 1..upload'[u].pos PROVE bytes[i][k] = Content(u)
        <3>1. upload[u].sound /\ bytes[i][upload[u].pos + 1] = Content(u)
            BY <1>3, <2>2, <2>3 DEF Hashed
        <3>2. \A j \in 1..upload[u].pos : bytes[i][j] = Content(u)
            BY <1>2, <1>4, <3>1 DEF Knows
        <3>3. k \in 1..upload[u].pos \/ k = upload[u].pos + 1
            BY <1>2, <1>3, <2>3
        <3> QED BY <3>1, <3>2, <3>3
    <2>4. upload'[u].pc \in {"hashing", "writing"}
          /\ (upload'[u].pc = "writing" => upload'[u].pos = upload[u].offset)
        BY <1>3
    <2> QED BY <1>3, <2>1, <2>2, <2>3, <2>4 DEF Knows, Content
<1>5. Winds(u)
    BY <1>2, <1>3, <1>4 DEF Winds, Using
<1> QED BY <1>1, <1>3, <1>5, QuietWanes

\* Two chunks of a content are the whole of it.
LEMMA WholeIs ==
    ASSUME NEW u, NEW S, NEW b \in Seq(S), Len(b) = 2, \A k \in 1..2 : b[k] = Content(u)
    PROVE  b = WholeOf(u)
<1>1. b = [k \in 1..2 |-> b[k]]
    OBVIOUS
<1> QED BY <1>1 DEF WholeOf, Whole

\* All of it arrived: what the handler knows when it closes the file.
LEMMA ArrivedKnows ==
    ASSUME PlacementTypeOK, NEW u \in Uploads, AllArrived(u), upload[u].sound,
           NEW i \in Inodes, Knows(u, i)
    PROVE  bytes[i] = WholeOf(u)
<1>1. /\ Len(bytes[i]) = 2
      /\ \A k \in 1..2 : bytes[i][k] = Content(u)
    BY DEF Knows, AllArrived, Whole
<1>2. bytes[i] \in Seq(Contents \cup {Mine, Hole})
    BY DEF PlacementTypeOK, StoreTypeOK
<1> QED BY <1>1, <1>2, WholeIs

LEMMA FinishBodyWinds ==
    ASSUME PlacementTypeOK, NEW u \in Uploads, FinishBody(u)
    PROVE  PlacementTypeOK' /\ Wanes
<1>1. /\ AllArrived(u) /\ upload[u].sound
      /\ upload' = [upload EXCEPT ![u] = [Closed(u) EXCEPT !.pc = "saved"]]
      /\ UNCHANGED <<placing, runtime, store, current, crashes>>
    BY DEF FinishBody
<1>2. /\ UploadTypeOK /\ upload[u].pc = "writing"
      /\ upload[u].path \in Paths /\ upload[u].try \in Nat /\ upload[u].path # None
    BY <1>1, UploadFields, PlacementAssumption DEF AllArrived, PlacementTypeOK, HasPath
<1>3. /\ UploadTypeOK'
      /\ \A v \in Uploads : v # u => upload'[v] = upload[v]
      /\ upload'[u].fd = None /\ upload'[u].try = upload[u].try /\ upload'[u].pc = "saved"
      /\ upload'[u].path = upload[u].path /\ upload'[u].known = upload[u].known
    BY <1>1, <1>2, ClosingLeaves
<1>4. ASSUME NEW i \in Inodes, Knows(u, i) PROVE Knows(u, i)'
    <2>1. bytes' = bytes
        BY <1>1 DEF store
    <2>2. bytes[i] = WholeOf(u)
        BY <1>1, <1>4, ArrivedKnows
    <2> QED BY <1>3, <2>1, <2>2 DEF Knows, WholeOf, Content
<1>5. Winds(u)
    BY <1>2, <1>3, <1>4 DEF Winds, Using
<1> QED BY <1>1, <1>3, <1>5, QuietWanes

LEMMA ConfirmMatchWinds ==
    ASSUME PlacementTypeOK, NEW u \in Uploads, ConfirmMatch(u)
    PROVE  PlacementTypeOK' /\ Wanes
<1> DEFINE x == upload[u]
           y == [x EXCEPT !.pc = "saved"]
<1>1. /\ x.pc = "held" /\ x.sound /\ upload' = [upload EXCEPT ![u] = y]
      /\ UNCHANGED <<placing, runtime, store, current, crashes>>
    BY DEF ConfirmMatch
<1>2. /\ UploadTypeOK /\ x \in UploadStates /\ x.fd = None /\ x.try \in Nat
      /\ x.path \in Paths /\ x.path # None
    BY <1>1, UploadFields, PlacementAssumption DEF PlacementTypeOK, HasPath
<1>3. /\ y \in UploadStates /\ y.pc = "saved" /\ y.fd = x.fd /\ y.path = x.path
      /\ y.known = x.known /\ y.try = x.try
    <2> HIDE DEF x
    <2> QED BY <1>2 DEF UploadStates
<1> HIDE DEF y
<1>4. IsFormed(y)
    BY <1>2, <1>3 DEF IsFormed
<1>5. /\ UploadTypeOK' /\ upload'[u] = y
      /\ \A v \in Uploads : v # u => upload'[v] = upload[v]
    BY <1>1, <1>2, <1>3, <1>4, UploadChanges
<1>6. ASSUME NEW i \in Inodes, Knows(u, i) PROVE Knows(u, i)'
    <2>1. bytes' = bytes
        BY <1>1 DEF store
    <2>2. bytes[i] = WholeOf(u)
        BY <1>1, <1>6 DEF Knows
    <2> QED BY <1>3, <1>5, <2>1, <2>2 DEF Knows, WholeOf, Content
<1>7. Winds(u)
    BY <1>1, <1>2, <1>3, <1>5, <1>6 DEF Winds, Using
<1> QED BY <1>1, <1>5, <1>7, QuietWanes

LEMMA DropUnplacedWinds ==
    ASSUME PlacementTypeOK, NEW u \in Uploads, DropUnplaced(u)
    PROVE  PlacementTypeOK' /\ Wanes
<1> DEFINE c == After(u, "interrupted")
<1>1. upload' = [upload EXCEPT ![u] = [Closed(u) EXCEPT !.pc = c]]
      /\ UNCHANGED <<placing, runtime, store, current, crashes>>
    BY DEF DropUnplaced
<1>2. c \in {"over", "pending", "failed"} /\ UploadTypeOK
    BY DEF After, PlacementTypeOK
<1> HIDE DEF c
<1>3. /\ UploadTypeOK'
      /\ \A v \in Uploads : v # u => upload'[v] = upload[v]
      /\ upload'[u].fd = None /\ upload'[u].try = upload[u].try /\ upload'[u].pc = c
      /\ upload'[u].path = upload[u].path /\ upload'[u].known = upload[u].known
    BY <1>1, <1>2, ClosingLeaves
<1>4. Winds(u)
    BY <1>2, <1>3, ClosingWinds DEF Using
<1> QED BY <1>1, <1>3, <1>4, QuietWanes

LEMMA DropConfirmationWinds ==
    ASSUME PlacementTypeOK, NEW u \in Uploads, DropConfirmation(u)
    PROVE  PlacementTypeOK' /\ Wanes
<1>1. upload' = [upload EXCEPT ![u] = [Closed(u) EXCEPT !.pc = "over"]]
      /\ UNCHANGED <<placing, runtime, store, current, crashes>> /\ UploadTypeOK
    BY DEF DropConfirmation, PlacementTypeOK
<1>2. /\ UploadTypeOK'
      /\ \A v \in Uploads : v # u => upload'[v] = upload[v]
      /\ upload'[u].fd = None /\ upload'[u].try = upload[u].try /\ upload'[u].pc = "over"
      /\ upload'[u].path = upload[u].path /\ upload'[u].known = upload[u].known
    BY <1>1, ClosingLeaves
<1>3. Winds(u)
    BY <1>1, <1>2, ClosingWinds DEF Using
<1> QED BY <1>1, <1>2, <1>3, QuietWanes

\* The ends of a handler.
LEMMA ConcludeWanes ==
    ASSUME PlacementTypeOK, NEW u \in Uploads, NEW outcome \in Outcomes, NEW received \in BOOLEAN,
           upload[u].pc \in HasPath,
           outcome = "success" => upload[u].pc = "placed", Conclude(u, outcome, received),
           part' = part \/ part' = [part EXCEPT ![upload[u].path] = None],
           UNCHANGED <<placing, incoming, offered, questions, asked, disk, bytes, rows, expiring,
                       current, crashes>>
    PROVE  PlacementTypeOK' /\ Wanes
<1>1. UploadTypeOK /\ upload[u].path \in Paths
    BY UploadFields DEF PlacementTypeOK
<1>2. /\ UploadTypeOK'
      /\ \A v \in Uploads : v # u => upload'[v] = upload[v]
      /\ upload'[u].fd = None /\ upload'[u].try = upload[u].try
      /\ upload'[u].pc = After(u, outcome)
      /\ upload'[u].path = upload[u].path /\ upload'[u].known = upload[u].path
      /\ results' \subseteq [upload : Uploads, path : Paths, outcome : Outcomes,
                             received : BOOLEAN]
    BY <1>1, ConcludeLeaves DEF PlacementTypeOK, RuntimeTypeOK
<1>3. Winds(u)
    BY <1>1, <1>2, AfterWriting, ClosingWinds DEF Using
<1>4. \A v \in Uploads : Winds(v)
    BY <1>1, <1>2, <1>3, StillWinds
<1>5. part' \in [Paths -> OrNone(Inodes)] /\ \A p \in Paths : part'[p] \in {part[p], None}
    BY DEF PlacementTypeOK, StoreTypeOK, OrNone
<1> QED BY <1>2, <1>4, <1>5
        DEF PlacementTypeOK, StoreTypeOK, RuntimeTypeOK, PlacingTypeOK, Wanes, placing

LEMMA OpenFailsWinds ==
    ASSUME PlacementTypeOK, NEW u \in Uploads, OpenFails(u)
    PROVE  PlacementTypeOK' /\ Wanes
<1>1. PICK outcome \in {"failed", "offset"} : Conclude(u, outcome, FALSE)
    BY DEF OpenFails
<1>2. UNCHANGED <<placing, incoming, offered, questions, asked, store, current, crashes>>
      /\ upload[u].pc \in HasPath
    BY DEF OpenFails, HasPath
<1>3. outcome \in Outcomes /\ outcome # "success"
    BY DEF Outcomes
<1> QED BY <1>1, <1>2, <1>3, ConcludeWanes DEF store

LEMMA EndEarlyWinds ==
    ASSUME PlacementTypeOK, NEW u \in Uploads, EndEarly(u)
    PROVE  PlacementTypeOK' /\ Wanes
<1> DEFINE b == upload[u].pos > 0
<1>1. Conclude(u, "interrupted", b) /\ upload[u].pc \in HasPath
      /\ UNCHANGED <<placing, incoming, offered, questions, asked, store, current, crashes>>
    BY DEF EndEarly, HasPath
<1>2. "interrupted" \in Outcomes /\ b \in BOOLEAN
    BY DEF Outcomes
<1> HIDE DEF b
<1> QED BY <1>1, <1>2, ConcludeWanes DEF store

LEMMA FailSaveWinds ==
    ASSUME PlacementTypeOK, NEW u \in Uploads, FailSave(u)
    PROVE  PlacementTypeOK' /\ Wanes
<1>1. "failed" \in Outcomes /\ upload[u].pc \in HasPath
    BY DEF Outcomes, FailSave, HasPath
<1> QED BY <1>1, ConcludeWanes DEF FailSave

LEMMA FindMismatchWinds ==
    ASSUME PlacementTypeOK, NEW u \in Uploads, FindMismatch(u)
    PROVE  PlacementTypeOK' /\ Wanes
<1>1. "mismatch" \in Outcomes /\ upload[u].pc \in HasPath
    BY DEF Outcomes, FindMismatch, AllArrived, HasPath
<1> QED BY <1>1, ConcludeWanes DEF FindMismatch, store

LEMMA ConfirmMismatchWinds ==
    ASSUME PlacementTypeOK, NEW u \in Uploads, ConfirmMismatch(u)
    PROVE  PlacementTypeOK' /\ Wanes
<1>1. "mismatch" \in Outcomes /\ upload[u].pc \in HasPath
    BY DEF Outcomes, ConfirmMismatch, HasPath
<1> QED BY <1>1, ConcludeWanes DEF ConfirmMismatch

LEMMA HoldBodyWinds ==
    ASSUME PlacementTypeOK, NEW u \in Uploads, HoldBody(u)
    PROVE  PlacementTypeOK' /\ Wanes
<1>1. /\ AllArrived(u) /\ UploadTypeOK
      /\ UNCHANGED <<placing, incoming, offered, questions, asked, store, current, crashes>>
    BY DEF HoldBody, PlacementTypeOK
<1>2. /\ upload[u].pc = "writing" /\ upload[u].path \in Paths /\ upload[u].try \in Nat
      /\ upload[u].path # None /\ upload[u].sound \in BOOLEAN
    BY <1>1, UploadFields, PlacementAssumption DEF AllArrived, HasPath
<1>3. CASE current = SessionOf(u)
    <2> DEFINE s == upload[u].sound
    <2>1. upload' = [upload EXCEPT ![u] = [Closed(u) EXCEPT
                            !.pc = "held", !.sound = s, !.deferred = TRUE]]
          /\ UNCHANGED <<placing, runtime, store, current, crashes>>
        BY <1>1, <1>3 DEF HoldBody, runtime
    <2>2. /\ UploadTypeOK'
          /\ \A v \in Uploads : v # u => upload'[v] = upload[v]
          /\ upload'[u].fd = None /\ upload'[u].try = upload[u].try /\ upload'[u].pc = "held"
          /\ upload'[u].sound = s
          /\ upload'[u].path = upload[u].path /\ upload'[u].known = upload[u].known
        <3>1. s \in BOOLEAN
            BY <1>2
        <3> HIDE DEF s
        <3> QED BY <1>1, <1>2, <2>1, <3>1, HoldLeaves
    <2>3. ASSUME NEW i \in Inodes, Knows(u, i) PROVE Knows(u, i)'
        <3>1. bytes' = bytes
            BY <2>1 DEF store
        <3>2. s => bytes[i] = WholeOf(u)
            BY <1>1, <2>3, ArrivedKnows
        <3> HIDE DEF s
        <3> QED BY <2>2, <3>1, <3>2 DEF Knows, WholeOf, Content
    <2>4. Winds(u)
        BY <1>2, <2>2, <2>3 DEF Winds, Using
    <2> QED BY <2>1, <2>2, <2>4, QuietWanes
<1>4. CASE current # SessionOf(u)
    <2>1. "held" \in Outcomes /\ upload[u].pc \in HasPath /\ Conclude(u, "held", FALSE)
        BY <1>2, <1>4 DEF Outcomes, HoldBody, HasPath
    <2> QED BY <1>1, <2>1, ConcludeWanes DEF store
<1> QED BY <1>3, <1>4

LEMMA MoveFailsWinds ==
    ASSUME PlacementTypeOK, NEW u \in Uploads, MoveFails(u)
    PROVE  PlacementTypeOK' /\ Wanes
<1>1. "failed" \in Outcomes /\ upload[u].pc \in HasPath
    BY DEF Outcomes, MoveFails, HasPath
<1> QED BY <1>1, ConcludeWanes DEF MoveFails, store

LEMMA ReportWinds ==
    ASSUME PlacementTypeOK, NEW u \in Uploads, Report(u)
    PROVE  PlacementTypeOK' /\ Wanes
<1>1. "success" \in Outcomes /\ upload[u].pc \in HasPath /\ upload[u].pc = "placed"
    BY DEF Outcomes, Report, HasPath
<1> QED BY <1>1, ConcludeWanes DEF Report, store

LEMMA DropWinds ==
    ASSUME PlacementTypeOK, NEW u \in Uploads, DropUpload(u)
    PROVE  PlacementTypeOK' /\ Wanes
<1>1. PICK received \in BOOLEAN : Conclude(u, "interrupted", received)
    BY DEF DropUpload
<1>2. UNCHANGED <<placing, incoming, offered, questions, asked, store, current, crashes>>
      /\ upload[u].pc \in HasPath /\ "interrupted" \in Outcomes
    BY DEF DropUpload, HasPath, Outcomes
<1> QED BY <1>1, <1>2, ConcludeWanes DEF store

\* All that an upload does without a new path, a new file or a name.
Proceeds(u) ==
    \/ OpenAppend(u) \/ HashPrefix(u) \/ OpenFails(u) \/ EndEarly(u) \/ FailSave(u)
    \/ FinishBody(u) \/ FindMismatch(u) \/ HoldBody(u) \/ ConfirmMatch(u) \/ ConfirmMismatch(u)
    \/ MoveFails(u) \/ Report(u) \/ DropUpload(u) \/ DropUnplaced(u) \/ DropConfirmation(u)

LEMMA ProceedsWanes ==
    ASSUME PlacementTypeOK, NEW u \in Uploads, Proceeds(u)
    PROVE  PlacementTypeOK' /\ Wanes /\ UNCHANGED <<incoming, offered, questions>>
<1>1. CASE OpenAppend(u) \/ HashPrefix(u) \/ FinishBody(u) \/ ConfirmMatch(u)
    BY <1>1, OpenAppendWinds, HashWinds, FinishBodyWinds, ConfirmMatchWinds
       DEF OpenAppend, HashPrefix, FinishBody, ConfirmMatch, runtime
<1>2. CASE OpenFails(u) \/ EndEarly(u) \/ FailSave(u) \/ FindMismatch(u)
    BY <1>2, OpenFailsWinds, EndEarlyWinds, FailSaveWinds, FindMismatchWinds
       DEF OpenFails, EndEarly, FailSave, FindMismatch
<1>3. CASE HoldBody(u) \/ ConfirmMismatch(u) \/ MoveFails(u) \/ Report(u)
    BY <1>3, HoldBodyWinds, ConfirmMismatchWinds, MoveFailsWinds, ReportWinds
       DEF HoldBody, ConfirmMismatch, MoveFails, Report
<1>4. CASE DropUpload(u) \/ DropUnplaced(u) \/ DropConfirmation(u)
    BY <1>4, DropWinds, DropUnplacedWinds, DropConfirmationWinds
       DEF DropUpload, DropUnplaced, DropConfirmation, runtime
<1> QED BY <1>1, <1>2, <1>3, <1>4 DEF Proceeds
------------------------------------------------------------------------------
(* The steps that hand out a path, and those that write.                   *)

Chunks == Contents \cup {Mine, Hole}

LEMMA ContentIs ==
    ASSUME NEW u \in Uploads
    PROVE  Content(u) \in Contents
BY PlacementAssumption DEF Uploads, Content, FileOf

\* A chunk written where the file ends makes it one chunk longer.
LEMMA WrittenIs ==
    ASSUME UploadTypeOK, NEW u \in Uploads, NEW old \in Seq(Chunks)
    PROVE  /\ Written(old, u) \in Seq(Chunks)
           /\ Len(old) = upload[u].pos =>
                 /\ Len(Written(old, u)) = upload[u].pos + 1
                 /\ \A k \in 1..upload[u].pos : Written(old, u)[k] = old[k]
                 /\ Written(old, u)[upload[u].pos + 1] = Content(u)
<1> DEFINE n == upload[u].pos
           c == Content(u)
           w == Written(old, u)
<1>1. n \in 0..2 /\ c \in Chunks /\ Len(old) \in Nat
    BY UploadFields, ContentIs DEF Chunks
<1>2. CASE upload[u].append
    <2>1. w = Append(old, c)
        BY <1>2 DEF Written
    <2> HIDE DEF w, c, n
    <2>2. w \in Seq(Chunks) /\ Len(w) = Len(old) + 1 /\ w[Len(old) + 1] = c
          /\ \A k \in 1..Len(old) : w[k] = old[k]
        BY <1>1, <2>1
    <2> QED BY <2>2 DEF w, c, n
<1>3. CASE ~upload[u].append
    <2> DEFINE m == IF Len(old) > n THEN Len(old) ELSE n + 1
               x(k) == IF k = n + 1 THEN c ELSE IF k <= Len(old) THEN old[k] ELSE Hole
               y == [k \in 1..m |-> x(k)]
    <2>1. w = y
        BY <1>3 DEF Written
    <2> HIDE DEF w, c, n
    <2>2. m \in Nat
        BY <1>1
    <2>3. \A k \in 1..m : x(k) \in Chunks
        BY <1>1 DEF Chunks
    <2>4. Len(old) = n => /\ m = n + 1
                          /\ \A k \in 1..n : x(k) = old[k]
                          /\ x(n + 1) = c
        BY <1>1
    <2> HIDE DEF m, x
    <2>5. y \in Seq(Chunks) /\ Len(y) = m /\ \A k \in 1..m : y[k] = x(k)
        BY <2>2, <2>3
    <2>6. Len(old) = n => /\ Len(y) = n + 1
                          /\ \A k \in 1..n : y[k] = old[k]
                          /\ y[n + 1] = c
        <3> SUFFICES ASSUME Len(old) = n
                     PROVE  /\ Len(y) = n + 1
                            /\ \A k \in 1..n : y[k] = old[k]
                            /\ y[n + 1] = c
            OBVIOUS
        <3>1. n + 1 \in 1..m /\ \A k \in 1..n : k \in 1..m
            BY <1>1, <2>4
        <3> HIDE DEF y
        <3> QED BY <2>4, <2>5, <3>1
    <2> HIDE DEF y
    <2> QED BY <2>1, <2>5, <2>6 DEF w, c, n
<1> QED BY <1>2, <1>3

\* What it is to hand out a path, for all but the runtime.
Assigns(u, p) ==
    /\ UNCHANGED <<disk, part, bytes, crossed, policy, mine>>
    /\ given' = [given EXCEPT ![p] = @ \cup {u}]
    /\ \A v \in Uploads : upload'[v] = upload[v] \/ (v = u /\ Given(u, p))

LEMMA AssignTypes ==
    ASSUME PlacementTypeOK, NEW u \in Uploads, NEW try, NEW p \in Paths, Assign(u, try, p)
    PROVE  /\ UploadTypeOK'
           /\ rows' \in [Paths -> OrNone([content : Contents, sender : Senders, old : BOOLEAN])]
           /\ incoming' \in [sid : OrNone(Sessions), sender : OrNone(Senders),
                             assigned : SUBSET Paths, resume : [Files -> OrNone(Paths)]]
           /\ given' \in [Paths -> SUBSET Uploads]
           /\ incoming'.sender = incoming.sender
           /\ incoming'.sid = incoming.sid /\ incoming'.resume = incoming.resume
           /\ incoming.assigned \subseteq incoming'.assigned
           /\ incoming.sid = SessionOf(u) => p \in incoming'.assigned
<1>1. UploadTypeOK'
    BY AssignLeaves DEF PlacementTypeOK
<1>2. given' \in [Paths -> SUBSET Uploads]
    BY DEF Assign, PlacementTypeOK, PlacingTypeOK
<1> DEFINE x == incoming
           a == incoming.assigned \cup {p}
           y == [x EXCEPT !.assigned = a]
           Infos == [sid : OrNone(Sessions), sender : OrNone(Senders),
                     assigned : SUBSET Paths, resume : [Files -> OrNone(Paths)]]
<1>3. x \in Infos /\ a \in SUBSET Paths /\ p \in a /\ incoming.assigned \subseteq a
    BY DEF PlacementTypeOK, RuntimeTypeOK
<1>4. y \in Infos /\ y.sid = x.sid /\ y.sender = x.sender /\ y.resume = x.resume /\ y.assigned = a
    <2> HIDE DEF x, a
    <2> QED BY <1>3
<1>5. incoming' = IF incoming.sid = SessionOf(u) THEN y ELSE x
    BY DEF Assign
<1>6. rows' \in [Paths -> OrNone([content : Contents, sender : Senders, old : BOOLEAN])]
    <2>1. CASE incoming.sid # SessionOf(u)
        BY <2>1 DEF Assign, PlacementTypeOK, StoreTypeOK
    <2>2. CASE incoming.sid = SessionOf(u)
        <3> DEFINE row == [content |-> Content(u), sender |-> incoming.sender, old |-> FALSE]
        <3>1. SessionOf(u) # None
            BY PlacementAssumption DEF SessionOf, Uploads
        <3>2. incoming.sender \in Senders
            BY <2>2, <3>1 DEF PlacementTypeOK, RuntimeTypeOK, OrNone
        <3>3. row \in [content : Contents, sender : Senders, old : BOOLEAN]
            BY <3>2, ContentIs
        <3>4. rows' = [rows EXCEPT ![p] = row]
            BY <2>2 DEF Assign
        <3> HIDE DEF row
        <3> QED BY <3>3, <3>4 DEF PlacementTypeOK, StoreTypeOK, OrNone
    <2> QED BY <2>1, <2>2
<1> HIDE DEF y, a
<1> QED BY <1>1, <1>2, <1>3, <1>4, <1>5, <1>6

LEMMA PlaceAssigns ==
    ASSUME PlacementTypeOK, NEW u \in Uploads, NEW try \in 1..MaxTries, PlaceUpload(u, try)
    PROVE  /\ PlacementTypeOK' /\ PlacementFor(u).path \in Paths
           /\ Assigns(u, PlacementFor(u).path)
           /\ consent' = consent /\ questions' = questions /\ offered' \subseteq offered
<1> DEFINE p == PlacementFor(u).path
<1>1. p \in Paths
    BY PlacementIsGood DEF PlaceUpload
<1>2. Assign(u, try, p) /\ offered' \subseteq offered
      /\ UNCHANGED <<policy, crossed, consent, mine, questions, asked, results, disk, part, bytes,
                     expiring, current, crashes>>
    BY DEF PlaceUpload
<1>3. given' = [given EXCEPT ![p] = @ \cup {u}]
    BY <1>2 DEF Assign
<1> HIDE DEF p
<1>4. Assigns(u, p)
    BY <1>1, <1>2, <1>3, AssignLeaves DEF Assigns, PlacementTypeOK
<1>5. PlacementTypeOK'
    <2>1. RuntimeTypeOK'
        BY <1>1, <1>2, AssignTypes DEF PlacementTypeOK, RuntimeTypeOK
    <2> QED BY <1>1, <1>2, <2>1, AssignTypes DEF PlacementTypeOK, StoreTypeOK, PlacingTypeOK
<1> QED BY <1>1, <1>2, <1>4, <1>5 DEF p

LEMMA AnswerAssigns ==
    ASSUME PlacementTypeOK, NEW q \in questions, NEW overwrite \in BOOLEAN, Answer(q, overwrite)
    PROVE  LET p == IF overwrite THEN q.existing ELSE q.renamed IN
           /\ PlacementTypeOK' /\ p \in Paths
           /\ Assigns(q.upload, p)
           /\ consent' = (IF overwrite THEN consent \cup {q.existing} ELSE consent)
           /\ questions' \subseteq questions /\ offered' = offered
<1> DEFINE p == IF overwrite THEN q.existing ELSE q.renamed
           u == q.upload
           t == q.try
<1>1. p \in Paths /\ u \in Uploads /\ q.existing \in Paths
    BY DEF PlacementTypeOK, RuntimeTypeOK
<1>2. /\ Assign(u, t, p) /\ questions' \subseteq questions
      /\ asked' = [asked EXCEPT ![u] = 0]
      /\ consent' = (IF overwrite THEN consent \cup {q.existing} ELSE consent)
      /\ UNCHANGED <<policy, crossed, mine, offered, results, disk, part, bytes, expiring, current,
                     crashes>>
    BY DEF Answer
<1> HIDE DEF p, u, t
<1>3. given' = [given EXCEPT ![p] = @ \cup {u}]
    BY <1>2 DEF Assign
<1>4. Assigns(u, p)
    BY <1>1, <1>2, <1>3, AssignLeaves DEF Assigns, PlacementTypeOK
<1>5. PlacementTypeOK'
    <2>1. RuntimeTypeOK'
        <3>1. asked' \in [Uploads -> 0..MaxTries]
            BY <1>1, <1>2, PlacementAssumption DEF PlacementTypeOK, RuntimeTypeOK
        <3> QED BY <1>1, <1>2, <3>1, AssignTypes DEF PlacementTypeOK, RuntimeTypeOK
    <2>2. PlacingTypeOK'
        BY <1>1, <1>2, AssignTypes DEF PlacementTypeOK, PlacingTypeOK
    <2> QED BY <1>1, <1>2, <2>1, <2>2, AssignTypes DEF PlacementTypeOK, StoreTypeOK
<1> QED BY <1>1, <1>2, <1>4, <1>5 DEF p, u
\* A file that nothing refers to.
Unused(i) ==
    /\ \A p \in Paths : disk[p] # i /\ part[p] # i
    /\ \A u \in Uploads : upload[u].fd # i

\* An attempt begins to use the part file i of its path.
Starts(u, i) ==
    /\ part[upload[u].path] = i \/ (part[upload[u].path] = None /\ Unused(i))
    /\ part' = [part EXCEPT ![upload[u].path] = i]
    /\ \A j \in Inodes : j # i => bytes'[j] = bytes[j]
    /\ Begins(u, i)
    /\ \A v \in Uploads : v # u => upload'[v] = upload[v]
    /\ upload'[u].pc \in {"checked", "writing"} /\ upload'[u].try = upload[u].try
    /\ upload'[u].path = upload[u].path /\ upload'[u].known = upload[u].path
    /\ upload'[u].fd \in {None, i}
    /\ Knows(u, i)'

LEMMA OpenFreshDoes ==
    ASSUME PlacementTypeOK, NEW u \in Uploads, OpenFresh(u)
    PROVE  /\ PlacementTypeOK' /\ upload[u].path \in Paths
           /\ UNCHANGED <<policy, given, consent, mine, runtime, disk>>
           /\ \E i \in Inodes : Starts(u, i)
<1> DEFINE p == upload[u].path
<1>1. upload[u].pc = "given" /\ p \in Paths /\ UploadTypeOK
    BY UploadFields DEF OpenFresh, PlacementTypeOK, HasPath
<1>2. PICK i \in Inodes :
         /\ part[p] = i \/ (part[p] = None /\ Unused(i))
         /\ part' = [part EXCEPT ![p] = i] /\ bytes' = [bytes EXCEPT ![i] = <<>>]
         /\ Begins(u, i)
         /\ upload' = [upload EXCEPT ![u].pc = "writing", ![u].known = p, ![u].fd = i,
                                     ![u].append = FALSE, ![u].pos = 0, ![u].sound = TRUE]
    <2>1. CASE part[p] # None
        BY <1>1, <2>1 DEF OpenFresh, PlacementTypeOK, StoreTypeOK, OrNone
    <2>2. CASE part[p] = None
        <3>1. FreshInodes # {}
            BY <2>2 DEF OpenFresh
        <3> QED BY <2>2, <3>1, FreshIsUnused DEF Unused, OpenFresh
    <2> QED BY <2>1, <2>2
<1>3. UNCHANGED <<policy, given, consent, mine, runtime, disk, rows, expiring, current, crashes>>
    BY DEF OpenFresh
<1>4. /\ UploadTypeOK' /\ \A v \in Uploads : v # u => upload'[v] = upload[v]
      /\ upload'[u].pc = "writing" /\ upload'[u].known = p
      /\ upload'[u].path = p /\ upload'[u].try = upload[u].try
      /\ upload'[u].fd = i /\ upload'[u].pos = 0
    BY <1>1, <1>2, FreshLeaves
<1>5. crossed' \subseteq Inodes
    BY <1>2 DEF Begins, PlacementTypeOK, PlacingTypeOK
<1>6. StoreTypeOK'
    <2>1. <<>> \in Seq(Contents \cup {Mine, Hole})
        OBVIOUS
    <2> QED BY <1>1, <1>2, <1>3, <2>1 DEF PlacementTypeOK, StoreTypeOK, OrNone
<1>7. PlacementTypeOK'
    BY <1>3, <1>4, <1>5, <1>6 DEF PlacementTypeOK, RuntimeTypeOK, PlacingTypeOK, runtime
<1>8. Knows(u, i)'
    <2>1. bytes'[i] = <<>>
        BY <1>2 DEF PlacementTypeOK, StoreTypeOK
    <2>2. Len(bytes'[i]) = 0 /\ \A k \in 1..0 : FALSE
        BY <2>1
    <2> QED BY <1>4, <2>2 DEF Knows
<1>9. Starts(u, i)
    BY <1>2, <1>4, <1>8 DEF Starts, PlacementTypeOK, StoreTypeOK
<1> QED BY <1>1, <1>3, <1>7, <1>9

LEMMA CheckLengthDoes ==
    ASSUME PlacementTypeOK, NEW u \in Uploads, CheckLength(u)
    PROVE  /\ PlacementTypeOK' /\ upload[u].path \in Paths
           /\ UNCHANGED <<policy, given, consent, mine, runtime, disk, bytes>>
           /\ \E i \in Inodes : Starts(u, i)
<1> DEFINE p == upload[u].path
<1>1. upload[u].pc = "given" /\ p \in Paths /\ UploadTypeOK
    BY UploadFields DEF CheckLength, PlacementTypeOK, HasPath
<1>2. PICK i \in Inodes : i = part[p]
    BY <1>1 DEF CheckLength, PlacementTypeOK, StoreTypeOK, OrNone
<1>3. PICK n \in 1..2 : n = Len(bytes[i])
    BY <1>2 DEF CheckLength, Whole
<1>4. /\ Begins(u, i)
      /\ upload' = [upload EXCEPT ![u].pc = "checked", ![u].known = p, ![u].offset = n]
      /\ UNCHANGED <<policy, given, consent, mine, runtime, store, current, crashes>>
    BY <1>2, <1>3 DEF CheckLength
<1>5. /\ UploadTypeOK' /\ \A v \in Uploads : v # u => upload'[v] = upload[v]
      /\ upload'[u].pc = "checked" /\ upload'[u].known = p
      /\ upload'[u].path = p /\ upload'[u].try = upload[u].try
      /\ upload'[u].fd = None /\ upload'[u].offset = n
    BY <1>1, <1>4, CheckLeaves
<1>6. crossed' \subseteq Inodes
    BY <1>4 DEF Begins, PlacementTypeOK, PlacingTypeOK
<1>7. PlacementTypeOK'
    BY <1>4, <1>5, <1>6
       DEF PlacementTypeOK, StoreTypeOK, RuntimeTypeOK, PlacingTypeOK, runtime, store
<1>8. Knows(u, i)'
    BY <1>3, <1>4, <1>5 DEF Knows, store
<1>9. part' = [part EXCEPT ![p] = i] /\ bytes' = bytes
    BY <1>2, <1>4 DEF store, PlacementTypeOK, StoreTypeOK
<1>10. Starts(u, i)
    BY <1>2, <1>4, <1>5, <1>8, <1>9 DEF Starts
<1>11. disk' = disk
    BY <1>4 DEF store
<1> QED BY <1>1, <1>4, <1>7, <1>9, <1>10, <1>11

LEMMA WriteChunkDoes ==
    ASSUME PlacementTypeOK, NEW u \in Uploads, WriteChunk(u)
    PROVE  /\ PlacementTypeOK' /\ upload[u].fd \in Inodes
           /\ UNCHANGED <<policy, given, consent, mine, crossed, runtime, disk, part>>
           /\ bytes' = [bytes EXCEPT ![upload[u].fd] = Written(bytes[upload[u].fd], u)]
<1>1. upload[u].fd \in Inodes
    BY UploadFields DEF WriteChunk, PlacementTypeOK
<1>2. bytes[upload[u].fd] \in Seq(Chunks)
    BY <1>1 DEF PlacementTypeOK, StoreTypeOK, Chunks
<1>3. Written(bytes[upload[u].fd], u) \in Seq(Chunks)
    BY <1>2, WrittenIs DEF PlacementTypeOK
<1>4. bytes' = [bytes EXCEPT ![upload[u].fd] = Written(bytes[upload[u].fd], u)]
    BY DEF WriteChunk
<1>5. bytes' \in [Inodes -> Seq(Contents \cup {Mine, Hole})]
    BY <1>3, <1>4 DEF PlacementTypeOK, StoreTypeOK, Chunks
<1>6. UNCHANGED <<placing, runtime, disk, part, rows, expiring, current, crashes>>
    BY DEF WriteChunk
<1>7. UploadTypeOK'
    BY WriteLeaves DEF PlacementTypeOK
<1>8. PlacementTypeOK'
    BY <1>5, <1>6, <1>7
       DEF PlacementTypeOK, StoreTypeOK, RuntimeTypeOK, PlacingTypeOK, runtime, placing
<1> QED BY <1>1, <1>4, <1>6, <1>8 DEF placing

LEMMA MoveDoes ==
    ASSUME PlacementTypeOK, NEW u \in Uploads, MoveIntoPlace(u)
    PROVE  LET p == upload[u].path IN
           /\ PlacementTypeOK' /\ p \in Paths /\ upload[u].pc = "saved" /\ part[p] \in Inodes
           /\ UNCHANGED <<policy, given, crossed, consent, mine, runtime, bytes>>
           /\ disk' = [disk EXCEPT ![p] = part[p]] /\ part' = [part EXCEPT ![p] = None]
           /\ \A v \in Uploads : v # u => upload'[v] = upload[v]
           /\ upload'[u].fd = None /\ upload'[u].pc = "placed" /\ upload'[u].try = upload[u].try
           /\ upload'[u].path = p /\ upload'[u].known = upload[u].known
<1> DEFINE x == upload[u]
           p == x.path
           y == [x EXCEPT !.pc = "placed"]
<1>1. /\ x.pc = "saved" /\ part[p] # None
      /\ disk' = [disk EXCEPT ![p] = part[p]] /\ part' = [part EXCEPT ![p] = None]
      /\ upload' = [upload EXCEPT ![u] = y]
      /\ UNCHANGED <<placing, runtime, bytes, rows, expiring, current, crashes>>
    BY DEF MoveIntoPlace
<1>2. /\ UploadTypeOK /\ x \in UploadStates /\ x.fd = None /\ p \in Paths /\ p # None
    BY <1>1, UploadFields, PlacementAssumption DEF PlacementTypeOK, HasPath
<1>3. part[p] \in Inodes
    BY <1>1, <1>2 DEF PlacementTypeOK, StoreTypeOK, OrNone
<1>4. /\ y \in UploadStates /\ y.pc = "placed" /\ y.fd = x.fd /\ y.path = x.path
      /\ y.known = x.known /\ y.try = x.try
    <2> HIDE DEF x
    <2> QED BY <1>2 DEF UploadStates
<1> HIDE DEF y
<1>5. IsFormed(y)
    BY <1>2, <1>4 DEF IsFormed
<1>6. /\ UploadTypeOK' /\ upload'[u] = y
      /\ \A v \in Uploads : v # u => upload'[v] = upload[v]
    BY <1>1, <1>2, <1>4, <1>5, UploadChanges
<1>7. StoreTypeOK'
    BY <1>1, <1>2, <1>3 DEF PlacementTypeOK, StoreTypeOK, OrNone
<1>8. PlacementTypeOK'
    BY <1>1, <1>6, <1>7 DEF PlacementTypeOK, RuntimeTypeOK, PlacingTypeOK, runtime, placing
<1> QED BY <1>1, <1>2, <1>3, <1>4, <1>6, <1>8 DEF placing
------------------------------------------------------------------------------
(* Every step winds, hands out a path, starts to use, writes or moves a file. *)

LEMMA InitTyped == PlacementInit => PlacementTypeOK
<1> SUFFICES ASSUME PlacementInit PROVE PlacementTypeOK
    OBVIOUS
<1>1. OwnInode \in [Names \X {0} -> Inodes]
    BY PlacementAssumption DEF OwnInode
<1>2. mine \subseteq Names \X {0} /\ mine \subseteq Paths
    BY NumbersAreNat DEF PlacementInit, Paths
<1>3. disk \in [Paths -> OrNone(Inodes)]
    BY <1>1, <1>2 DEF PlacementInit, OrNone
<1>4. bytes \in [Inodes -> Seq(Contents \cup {Mine, Hole})]
    <2>1. <<>> \in Seq(Contents \cup {Mine, Hole}) /\ <<Mine>> \in Seq(Contents \cup {Mine, Hole})
        OBVIOUS
    <2> QED BY <2>1 DEF PlacementInit
<1>5. StoreTypeOK
    BY <1>3, <1>4 DEF PlacementInit, StoreTypeOK, OrNone
<1>6. RuntimeTypeOK
    BY PlacementAssumption DEF PlacementInit, RuntimeTypeOK, NoInfo, OrNone
<1>7. UploadTypeOK
    BY PlacementAssumption DEF PlacementInit, UploadTypeOK, UploadStates, NoUpload, IsFormed, HasPath,
                               OrNone, Whole
<1>8. PlacingTypeOK
    BY <1>2 DEF PlacementInit, PlacingTypeOK
<1> QED BY <1>5, <1>6, <1>7, <1>8, PlacementAssumption
        DEF PlacementInit, PlacementTypeOK, OrNone

LEMMA TypesStep == PlacementTypeOK /\ [PlacementNext]_placementVars => PlacementTypeOK'
<1> SUFFICES ASSUME PlacementTypeOK, [PlacementNext]_placementVars PROVE PlacementTypeOK'
    OBVIOUS
<1>1. CASE UNCHANGED placementVars
    BY <1>1 DEF PlacementTypeOK, StoreTypeOK, RuntimeTypeOK, UploadTypeOK, PlacingTypeOK,
                placementVars, placing, runtime, store
<1>2. ASSUME NEW s \in Sessions, Accept(s) \/ EndSession(s)
      PROVE  PlacementTypeOK'
    BY <1>2, AcceptWinds, EndSessionWinds
<1>3. ASSUME NEW u \in Uploads, UploadStep(u)
      PROVE  PlacementTypeOK'
    <2>1. ASSUME NEW try \in 1..MaxTries, PlaceUpload(u, try) \/ AskUser(u, try) \/ RejectUpload(u, try)
          PROVE  PlacementTypeOK'
        BY <2>1, PlaceAssigns, AskUserWinds, RejectWinds
    <2>2. CASE OpenFresh(u) \/ CheckLength(u) \/ WriteChunk(u) \/ MoveIntoPlace(u)
        BY <2>2, OpenFreshDoes, CheckLengthDoes, WriteChunkDoes, MoveDoes
    <2>3. CASE BeginUpload(u) \/ Proceeds(u)
        BY <2>3, BeginWinds, ProceedsWanes
    <2> QED BY <1>3, <2>1, <2>2, <2>3 DEF UploadStep, Proceeds
<1>4. ASSUME NEW q \in questions, NEW overwrite \in BOOLEAN, Answer(q, overwrite)
      PROVE  PlacementTypeOK'
    BY <1>4, AnswerAssigns
<1>5. CASE HearEnd \/ Restart \/ ExpireRows
    BY <1>5, HearEndWinds, RestartWinds, ExpireRowsWinds
<1>6. ASSUME NEW r \in results, HearResult(r)
      PROVE  PlacementTypeOK'
    BY <1>6, HearResultWinds
<1>7. ASSUME NEW p \in Paths, ExpirePart(p)
      PROVE  PlacementTypeOK'
    BY <1>7, ExpirePartWinds
<1> QED BY <1>1, <1>2, <1>3, <1>4, <1>5, <1>6, <1>7 DEF PlacementNext

\* The types hold, and a handler has a file open exactly while it reads or writes.
THEOREM PlacementTypes == PlacementSpec => []PlacementTypeOK
<1> QED BY InitTyped, TypesStep, PTL DEF PlacementSpec
------------------------------------------------------------------------------
(* A file the user did not agree to lose: nothing but its name refers to   *)
(* it, so no handler can write it, and no step can name another file so.   *)

Protected(p) == p \in mine /\ policy # "overwrite" /\ p \notin consent
MineIsApart ==
    \A p \in Paths : Protected(p) =>
        /\ disk[p] # None /\ bytes[disk[p]] = <<Mine>>
        /\ \A q \in Paths : part[q] # disk[p]
        /\ \A u \in Uploads : upload[u].fd # disk[p] /\ upload[u].path # p /\ upload[u].known # p
        /\ \A q \in questions : q.renamed # p
        /\ \A f \in Files : incoming.resume[f] # p

LEMMA InitMine == PlacementInit => MineIsApart
<1> SUFFICES ASSUME PlacementInit, NEW p \in Paths, p \in mine
             PROVE  /\ disk[p] # None /\ bytes[disk[p]] = <<Mine>>
                    /\ \A q \in Paths : part[q] # disk[p]
                    /\ \A u \in Uploads : /\ upload[u].fd # disk[p]
                                          /\ upload[u].path # p /\ upload[u].known # p
                    /\ \A q \in questions : q.renamed # p
                    /\ \A f \in Files : incoming.resume[f] # p
    BY DEF MineIsApart, Protected
<1>1. OwnInode[p] \in Inodes
    BY PlacementAssumption DEF OwnInode, PlacementInit
<1>2. disk[p] = OwnInode[p] /\ bytes[disk[p]] = <<Mine>>
    BY <1>1 DEF PlacementInit
<1>3. disk[p] # None /\ p # None
    BY <1>1, <1>2, PlacementAssumption
<1> QED BY <1>2, <1>3 DEF PlacementInit, NoUpload, NoInfo

\* What keeps it: less refers to it, and what is new is not about it.
LEMMA MineKept ==
    ASSUME PlacementTypeOK, MineIsApart, mine' = mine, policy' = policy, consent \subseteq consent',
           \A p \in Paths : Protected(p) /\ p \notin consent' =>
              /\ disk'[p] = disk[p] /\ bytes'[disk[p]] = bytes[disk[p]]
              /\ \A q \in Paths : part'[q] # disk[p]
              /\ \A u \in Uploads : /\ upload'[u].fd # disk[p]
                                    /\ upload'[u].path # p /\ upload'[u].known # p
              /\ \A q \in questions' : q.renamed # p
              /\ \A f \in Files : incoming'.resume[f] # p
    PROVE  MineIsApart'
<1> SUFFICES ASSUME NEW p \in Paths, p \in mine', policy' # "overwrite", p \notin consent'
             PROVE  /\ disk'[p] # None /\ bytes'[disk'[p]] = <<Mine>>
                    /\ \A q \in Paths : part'[q] # disk'[p]
                    /\ \A u \in Uploads : /\ upload'[u].fd # disk'[p]
                                          /\ upload'[u].path # p /\ upload'[u].known # p
                    /\ \A q \in questions' : q.renamed # p
                    /\ \A f \in Files : incoming'.resume[f] # p
    BY DEF MineIsApart, Protected
<1>1. Protected(p)
    BY DEF Protected
<1> QED BY <1>1 DEF MineIsApart

LEMMA WanesKeepsMine ==
    ASSUME PlacementTypeOK, MineIsApart, Wanes,
           \A q \in questions' : q \in questions \/ IsFree_OnDisk(q.renamed, {}),
           \A f \in Files : \/ incoming'.resume[f] \in {None, incoming.resume[f]}
                            \/ IsFree_OnDisk(incoming'.resume[f], {})
    PROVE  MineIsApart'
<1>1. ASSUME NEW p \in Paths, Protected(p)
      PROVE  /\ disk'[p] = disk[p] /\ bytes'[disk[p]] = bytes[disk[p]]
             /\ \A q \in Paths : part'[q] # disk[p]
             /\ \A u \in Uploads : /\ upload'[u].fd # disk[p]
                                   /\ upload'[u].path # p /\ upload'[u].known # p
             /\ \A q \in questions' : q.renamed # p
             /\ \A f \in Files : incoming'.resume[f] # p
    <2>1. /\ disk[p] # None /\ bytes[disk[p]] = <<Mine>>
          /\ \A q \in Paths : part[q] # disk[p]
          /\ \A u \in Uploads : upload[u].fd # disk[p] /\ upload[u].path # p /\ upload[u].known # p
          /\ \A q \in questions : q.renamed # p
          /\ \A f \in Files : incoming.resume[f] # p
        BY <1>1 DEF MineIsApart
    <2>2. p # None
        BY PlacementAssumption
    <2>3. \A q \in Paths : part'[q] # disk[p]
        BY <2>1 DEF Wanes
    <2>4. \A u \in Uploads : upload'[u].fd # disk[p] /\ upload'[u].path # p /\ upload'[u].known # p
        BY <2>1 DEF Wanes, Winds
    <2>5. \A q \in questions' : q.renamed # p
        BY <2>1 DEF IsFree_OnDisk
    <2>6. \A f \in Files : incoming'.resume[f] # p
        BY <2>1, <2>2 DEF IsFree_OnDisk
    <2> QED BY <2>3, <2>4, <2>5, <2>6 DEF Wanes
<1>2. mine' = mine /\ policy' = policy /\ consent \subseteq consent'
    BY DEF Wanes
<1> QED BY <1>1, <1>2, MineKept

LEMMA AssignsKeepsMine ==
    ASSUME PlacementTypeOK, MineIsApart, NEW u, NEW p \in Paths, Assigns(u, p),
           consent \subseteq consent', questions' \subseteq questions,
           incoming'.resume = incoming.resume,
           ~(Protected(p) /\ p \notin consent')
    PROVE  MineIsApart'
<1>1. ASSUME NEW m \in Paths, Protected(m), m \notin consent'
      PROVE  /\ disk'[m] = disk[m] /\ bytes'[disk[m]] = bytes[disk[m]]
             /\ \A q \in Paths : part'[q] # disk[m]
             /\ \A v \in Uploads : /\ upload'[v].fd # disk[m]
                                   /\ upload'[v].path # m /\ upload'[v].known # m
             /\ \A q \in questions' : q.renamed # m
             /\ \A f \in Files : incoming'.resume[f] # m
    <2>1. m # p
        BY <1>1
    <2>2. /\ disk[m] # None /\ \A q \in Paths : part[q] # disk[m]
          /\ \A v \in Uploads : upload[v].fd # disk[m] /\ upload[v].path # m /\ upload[v].known # m
          /\ \A q \in questions : q.renamed # m
          /\ \A f \in Files : incoming.resume[f] # m
        BY <1>1 DEF MineIsApart
    <2> QED BY <2>1, <2>2 DEF Assigns, Given
<1>2. mine' = mine /\ policy' = policy
    BY DEF Assigns
<1> QED BY <1>1, <1>2, MineKept

LEMMA StartsKeepsMine ==
    ASSUME PlacementTypeOK, MineIsApart, NEW u \in Uploads, OpenFresh(u) \/ CheckLength(u)
    PROVE  MineIsApart'
<1> DEFINE p == upload[u].path
<1>1. PICK i \in Inodes : Starts(u, i)
    BY OpenFreshDoes, CheckLengthDoes
<1>2. p \in Paths /\ UNCHANGED <<policy, given, consent, mine, runtime, disk>>
    BY OpenFreshDoes, CheckLengthDoes
<1>3. ASSUME NEW m \in Paths, Protected(m)
      PROVE  /\ disk'[m] = disk[m] /\ bytes'[disk[m]] = bytes[disk[m]]
             /\ \A q \in Paths : part'[q] # disk[m]
             /\ \A v \in Uploads : /\ upload'[v].fd # disk[m]
                                   /\ upload'[v].path # m /\ upload'[v].known # m
             /\ \A q \in questions' : q.renamed # m
             /\ \A f \in Files : incoming'.resume[f] # m
    <2>1. /\ disk[m] # None
          /\ \A q \in Paths : part[q] # disk[m]
          /\ \A v \in Uploads : upload[v].fd # disk[m] /\ upload[v].path # m /\ upload[v].known # m
          /\ \A q \in questions : q.renamed # m
          /\ \A f \in Files : incoming.resume[f] # m
        BY <1>3 DEF MineIsApart
    <2>2. i # disk[m]
        BY <1>1, <1>2, <2>1 DEF Starts, Unused
    <2>3. bytes'[disk[m]] = bytes[disk[m]]
        BY <1>1, <2>1, <2>2 DEF Starts, PlacementTypeOK, StoreTypeOK, OrNone
    <2>4. \A q \in Paths : part'[q] # disk[m]
        BY <1>1, <2>1, <2>2 DEF Starts, PlacementTypeOK, StoreTypeOK
    <2>5. \A v \in Uploads : upload'[v].fd # disk[m] /\ upload'[v].path # m /\ upload'[v].known # m
        BY <1>1, <2>1, <2>2 DEF Starts
    <2> QED BY <1>2, <2>1, <2>3, <2>4, <2>5 DEF runtime
<1> QED BY <1>2, <1>3, MineKept

LEMMA WriteKeepsMine ==
    ASSUME PlacementTypeOK, MineIsApart, NEW u \in Uploads, WriteChunk(u)
    PROVE  MineIsApart'
<1>1. /\ UNCHANGED <<policy, given, consent, mine, crossed, runtime, disk, part>>
      /\ bytes' = [bytes EXCEPT ![upload[u].fd] = Written(bytes[upload[u].fd], u)]
    BY WriteChunkDoes
<1>2. \A v \in Uploads : /\ upload'[v].fd = upload[v].fd
                         /\ upload'[v].path = upload[v].path /\ upload'[v].known = upload[v].known
    BY WriteLeaves DEF PlacementTypeOK
<1>3. ASSUME NEW m \in Paths, Protected(m)
      PROVE  /\ disk'[m] = disk[m] /\ bytes'[disk[m]] = bytes[disk[m]]
             /\ \A q \in Paths : part'[q] # disk[m]
             /\ \A v \in Uploads : /\ upload'[v].fd # disk[m]
                                   /\ upload'[v].path # m /\ upload'[v].known # m
             /\ \A q \in questions' : q.renamed # m
             /\ \A f \in Files : incoming'.resume[f] # m
    <2>1. /\ disk[m] # None /\ upload[u].fd # disk[m]
          /\ \A q \in Paths : part[q] # disk[m]
          /\ \A v \in Uploads : upload[v].fd # disk[m] /\ upload[v].path # m /\ upload[v].known # m
          /\ \A q \in questions : q.renamed # m
          /\ \A f \in Files : incoming.resume[f] # m
        BY <1>3 DEF MineIsApart
    <2>2. bytes'[disk[m]] = bytes[disk[m]]
        BY <1>1, <2>1 DEF PlacementTypeOK, StoreTypeOK, OrNone
    <2> QED BY <1>1, <1>2, <2>1, <2>2 DEF runtime
<1> QED BY <1>1, <1>3, MineKept

LEMMA MoveKeepsMine ==
    ASSUME PlacementTypeOK, MineIsApart, NEW u \in Uploads, MoveIntoPlace(u)
    PROVE  MineIsApart'
<1> DEFINE p == upload[u].path
<1>1. /\ p \in Paths /\ UNCHANGED <<policy, given, consent, mine, runtime, bytes>>
      /\ disk' = [disk EXCEPT ![p] = part[p]] /\ part' = [part EXCEPT ![p] = None]
      /\ \A v \in Uploads : v # u => upload'[v] = upload[v]
      /\ upload'[u].fd = None
      /\ upload'[u].path = p /\ upload'[u].known = upload[u].known
    BY MoveDoes
<1>2. ASSUME NEW m \in Paths, Protected(m)
      PROVE  /\ disk'[m] = disk[m] /\ bytes'[disk[m]] = bytes[disk[m]]
             /\ \A q \in Paths : part'[q] # disk[m]
             /\ \A v \in Uploads : /\ upload'[v].fd # disk[m]
                                   /\ upload'[v].path # m /\ upload'[v].known # m
             /\ \A q \in questions' : q.renamed # m
             /\ \A f \in Files : incoming'.resume[f] # m
    <2>1. /\ disk[m] # None /\ p # m
          /\ \A q \in Paths : part[q] # disk[m]
          /\ \A v \in Uploads : upload[v].fd # disk[m] /\ upload[v].path # m /\ upload[v].known # m
          /\ \A q \in questions : q.renamed # m
          /\ \A f \in Files : incoming.resume[f] # m
        BY <1>2 DEF MineIsApart
    <2>2. disk'[m] = disk[m]
        BY <1>1, <2>1 DEF PlacementTypeOK, StoreTypeOK
    <2>3. \A q \in Paths : part'[q] # disk[m]
        BY <1>1, <2>1 DEF PlacementTypeOK, StoreTypeOK
    <2>4. \A v \in Uploads : upload'[v].fd # disk[m] /\ upload'[v].path # m /\ upload'[v].known # m
        BY <1>1, <2>1
    <2> QED BY <1>1, <2>1, <2>2, <2>3, <2>4 DEF runtime
<1> QED BY <1>1, <1>2, MineKept

LEMMA AcceptKeepsMine ==
    ASSUME PlacementTypeOK, MineIsApart, NEW s \in Sessions, Accept(s)
    PROVE  MineIsApart'
<1>1. PICK pick \in [Offers[s] -> Paths \cup {None}] :
        LET useless == {pick[f] : f \in {g \in Offers[s] : pick[g] # None /\ ~IsUsable(pick[g])}}
        IN incoming' = [sid |-> s, sender |-> SenderOf[s], assigned |-> {},
                        resume |-> [f \in Files |->
                           IF f \in Offers[s] /\ pick[f] \notin useless THEN pick[f] ELSE None]]
    BY DEF Accept
<1>2. \A f \in Files : incoming'.resume[f] = None \/ IsUsable(incoming'.resume[f])
    BY <1>1
<1>3. \A f \in Files : incoming'.resume[f] = None \/ IsFree_OnDisk(incoming'.resume[f], {})
    BY <1>2 DEF IsUsable, IsFree_OnDisk
<1>4. questions' = questions
    BY DEF Accept
<1> QED BY <1>3, <1>4, AcceptWinds, WanesKeepsMine

LEMMA AskUserKeepsMine ==
    ASSUME PlacementTypeOK, MineIsApart, NEW u \in Uploads, NEW try \in 1..MaxTries, AskUser(u, try)
    PROVE  MineIsApart'
<1> DEFINE m == PlacementFor(u)
<1>1. IsFree(m.renamed, incoming.assigned)
    BY PlacementIsGood DEF AskUser
<1>2. questions' = questions \cup {[upload |-> u, try |-> try, existing |-> m.path,
                                    renamed |-> m.renamed]} /\ incoming' = incoming
    BY DEF AskUser
<1> HIDE DEF m
<1>3. \A q \in questions' : q \in questions \/ IsFree_OnDisk(q.renamed, {})
    BY <1>1, <1>2 DEF IsFree, IsFree_OnDisk
<1> QED BY <1>2, <1>3, AskUserWinds, WanesKeepsMine

LEMMA PlaceKeepsMine ==
    ASSUME PlacementTypeOK, MineIsApart, NEW u \in Uploads, NEW try \in 1..MaxTries,
           PlaceUpload(u, try)
    PROVE  MineIsApart'
<1> DEFINE m == PlacementFor(u)
           p == m.path
<1>1. /\ p \in Paths /\ Assigns(u, p) /\ consent' = consent /\ questions' = questions
    BY PlaceAssigns
<1>2. incoming'.resume = incoming.resume
    <2>1. Assign(u, try, p)
        BY DEF PlaceUpload
    <2> HIDE DEF p
    <2> QED BY <1>1, <2>1, AssignTypes
<1>3. \/ IsResumed(u) /\ p = incoming.resume[FileOf(u)]
      \/ policy = "overwrite"
      \/ IsFree(p, incoming.assigned)
    BY PlacementIsGood DEF PlaceUpload
<1>4. FileOf(u) \in Files
    BY DEF Uploads, FileOf
<1> HIDE DEF p
<1>5. ~Protected(p)
    BY <1>1, <1>3, <1>4 DEF MineIsApart, Protected, IsFree
<1> QED BY <1>1, <1>2, <1>5, AssignsKeepsMine

LEMMA AnswerKeepsMine ==
    ASSUME PlacementTypeOK, MineIsApart, NEW q \in questions, NEW overwrite \in BOOLEAN,
           Answer(q, overwrite)
    PROVE  MineIsApart'
<1> DEFINE p == IF overwrite THEN q.existing ELSE q.renamed
<1>1. /\ p \in Paths /\ Assigns(q.upload, p) /\ questions' \subseteq questions
      /\ consent' = (IF overwrite THEN consent \cup {q.existing} ELSE consent)
    BY AnswerAssigns
<1>2. incoming'.resume = incoming.resume
    <2>1. Assign(q.upload, q.try, p) /\ q.upload \in Uploads
        BY DEF Answer, PlacementTypeOK, RuntimeTypeOK
    <2> HIDE DEF p
    <2> QED BY <1>1, <2>1, AssignTypes
<1>3. ~(Protected(p) /\ p \notin consent')
    BY <1>1 DEF MineIsApart
<1> HIDE DEF p
<1>4. consent \subseteq consent'
    BY <1>1
<1> QED BY <1>1, <1>2, <1>3, <1>4, AssignsKeepsMine

LEMMA MineStep ==
    PlacementTypeOK /\ MineIsApart /\ [PlacementNext]_placementVars => MineIsApart'
<1> SUFFICES ASSUME PlacementTypeOK, MineIsApart, [PlacementNext]_placementVars
             PROVE  MineIsApart'
    OBVIOUS
<1>0. ASSUME Wanes, UNCHANGED <<questions, incoming>>
      PROVE  MineIsApart'
    BY <1>0, WanesKeepsMine
<1>1. CASE UNCHANGED placementVars
    BY <1>1 DEF MineIsApart, Protected, placementVars, placing, runtime, store
<1>2. ASSUME NEW s \in Sessions, Accept(s) \/ EndSession(s)
      PROVE  MineIsApart'
    BY <1>0, <1>2, AcceptKeepsMine, EndSessionWinds DEF EndSession, runtime
<1>3. ASSUME NEW u \in Uploads, UploadStep(u)
      PROVE  MineIsApart'
    <2>1. ASSUME NEW try \in 1..MaxTries, PlaceUpload(u, try) \/ AskUser(u, try) \/ RejectUpload(u, try)
          PROVE  MineIsApart'
        BY <1>0, <2>1, PlaceKeepsMine, AskUserKeepsMine, RejectWinds DEF RejectUpload
    <2>2. CASE OpenFresh(u) \/ CheckLength(u) \/ WriteChunk(u) \/ MoveIntoPlace(u)
        BY <2>2, StartsKeepsMine, WriteKeepsMine, MoveKeepsMine
    <2>3. CASE BeginUpload(u) \/ Proceeds(u)
        BY <1>0, <2>3, BeginWinds, ProceedsWanes DEF BeginUpload
    <2> QED BY <1>3, <2>1, <2>2, <2>3 DEF UploadStep, Proceeds
<1>4. ASSUME NEW q \in questions, NEW overwrite \in BOOLEAN, Answer(q, overwrite)
      PROVE  MineIsApart'
    BY <1>4, AnswerKeepsMine
<1>5. CASE HearEnd \/ Restart
    <2>1. \A f \in Files : incoming'.resume[f] = None
        BY <1>5 DEF HearEnd, Restart, NoInfo
    <2>2. questions' \subseteq questions
        BY <1>5 DEF HearEnd, Restart
    <2> QED BY <1>5, <2>1, <2>2, HearEndWinds, RestartWinds, WanesKeepsMine
<1>6. CASE ExpireRows
    BY <1>0, <1>6, ExpireRowsWinds DEF ExpireRows, runtime
<1>7. ASSUME NEW r \in results, HearResult(r)
      PROVE  MineIsApart'
    BY <1>0, <1>7, HearResultWinds DEF HearResult
<1>8. ASSUME NEW p \in Paths, ExpirePart(p)
      PROVE  MineIsApart'
    BY <1>0, <1>8, ExpirePartWinds DEF ExpirePart, runtime
<1> QED BY <1>1, <1>2, <1>3, <1>4, <1>5, <1>6, <1>7, <1>8 DEF PlacementNext

\* A file that was there before is replaced only with the user's consent.
THEOREM MineStays == PlacementSpec => []MineIsKept
<1>1. PlacementTypeOK /\ MineIsApart => MineIsKept
    BY DEF MineIsApart, MineIsKept, Protected, PlacementTypeOK, PlacingTypeOK
<1> QED BY <1>1, InitTyped, InitMine, TypesStep, MineStep, PTL DEF PlacementSpec
------------------------------------------------------------------------------
(* What is written: no two names are one file; an attempt that uses a part  *)
(* file which was never crossed is alone with it and knows what is in it;   *)
(* an open file has no other name than the part file of its path; and a     *)
(* file that was moved into place is whole.                                 *)

NamesAreApart ==
    \A p, q \in Paths :
        /\ disk[p] = disk[q] => p = q \/ disk[p] = None
        /\ part[p] = part[q] => p = q \/ part[p] = None
        /\ disk[p] = part[q] => disk[p] = None
PartIsTracked ==
    \A u \in Uploads, p \in Paths, i \in Inodes :
        upload[u].pc \in Using /\ upload[u].path = p /\ part[p] = i /\ i \notin crossed =>
            /\ Knows(u, i)
            /\ \A v \in Uploads : upload[v].pc \in Using /\ upload[v].path = p => v = u
OpenIsLocal ==
    \A u \in Uploads, p \in Paths, i \in Inodes : upload[u].fd = i =>
        /\ part[p] = i => upload[u].path = p
        /\ disk[p] = i => i \in crossed
PathsAreGiven ==
    \A u \in Uploads, p \in Paths : upload[u].path = p \/ upload[u].known = p => u \in given[p]
NamesHoldFiles ==
    \A p \in Paths : disk[p] \notin crossed \cup {None} => IsReceived(disk[p], p)
PlacedIsThere ==
    \A u \in Uploads, p \in Paths : upload[u].pc \in {"placed", "done"} /\ upload[u].path = p =>
        /\ disk[p] # None
        /\ \/ bytes[disk[p]] = WholeOf(u)
           \/ disk[p] \in crossed
           \/ \E v \in given[p] : Content(v) # Content(u)
WritingInv == /\ NamesAreApart /\ PartIsTracked /\ OpenIsLocal /\ PathsAreGiven
              /\ NamesHoldFiles /\ PlacedIsThere

LEMMA InitWriting == PlacementInit => WritingInv
<1> SUFFICES ASSUME PlacementInit PROVE WritingInv
    OBVIOUS
<1>1. /\ OwnInode \in [Names \X {0} -> Inodes]
      /\ \A p, q \in Names \X {0} : p # q => OwnInode[p] # OwnInode[q]
    BY PlacementAssumption DEF OwnInode
<1>2. mine \subseteq Names \X {0} /\ disk = [p \in Paths |-> IF p \in mine THEN OwnInode[p] ELSE None]
    BY DEF PlacementInit
<1>3. \A p \in mine : OwnInode[p] \in Inodes /\ OwnInode[p] # None
    BY <1>1, <1>2, PlacementAssumption
<1>4. NamesAreApart
    BY <1>1, <1>2, <1>3 DEF NamesAreApart, PlacementInit
<1>5. NamesHoldFiles
    BY <1>2, <1>3 DEF NamesHoldFiles, IsReceived, PlacementInit
<1>6. None \notin Inodes \cup Paths
    BY PlacementAssumption
<1> QED BY <1>4, <1>5, <1>6
        DEF WritingInv, PartIsTracked, OpenIsLocal, PathsAreGiven, PlacedIsThere, PlacementInit,
            NoUpload, Using

LEMMA WanesKeepsWriting ==
    ASSUME PlacementTypeOK, WritingInv, Wanes
    PROVE  WritingInv'
<1> USE DEF WritingInv
<1>0. None \notin Inodes \cup Paths
    BY PlacementAssumption
<1>1. NamesAreApart'
    BY DEF NamesAreApart, Wanes
<1>2. PartIsTracked'
    <2> SUFFICES ASSUME NEW u \in Uploads, NEW p \in Paths, NEW i \in Inodes,
                        upload'[u].pc \in Using, upload'[u].path = p, part'[p] = i,
                        i \notin crossed
                 PROVE  /\ Knows(u, i)'
                        /\ \A v \in Uploads : upload'[v].pc \in Using /\ upload'[v].path = p => v = u
        BY DEF PartIsTracked, Wanes
    <2>1. part[p] = i /\ upload[u].pc \in Using /\ upload[u].path = p
          /\ (Knows(u, i) => Knows(u, i)')
        BY <1>0 DEF Wanes, Winds
    <2>2. /\ Knows(u, i)
          /\ \A v \in Uploads : upload[v].pc \in Using /\ upload[v].path = p => v = u
        BY <2>1 DEF PartIsTracked
    <2>3. \A v \in Uploads : upload'[v].pc \in Using /\ upload'[v].path = p =>
             upload[v].pc \in Using /\ upload[v].path = p
        BY DEF Wanes, Winds
    <2> QED BY <2>1, <2>2, <2>3
<1>6. OpenIsLocal'
    <2> SUFFICES ASSUME NEW u \in Uploads, NEW p \in Paths, NEW i \in Inodes, upload'[u].fd = i
                 PROVE  /\ part'[p] = i => upload'[u].path = p
                        /\ disk[p] = i => i \in crossed
        BY DEF OpenIsLocal, Wanes
    <2>1. /\ upload'[u].path = upload[u].path /\ upload[u].path \in Paths
          /\ i \in {upload[u].fd, part[upload[u].path]}
        BY <1>0 DEF Wanes, Winds
    <2>2. part'[p] = i => part[p] = i
        BY <1>0 DEF Wanes
    <2>3. CASE i = upload[u].fd
        BY <2>1, <2>2, <2>3 DEF OpenIsLocal
    <2>4. CASE i = part[upload[u].path]
        BY <1>0, <2>1, <2>2, <2>4 DEF NamesAreApart
    <2> QED BY <2>1, <2>3, <2>4
<1>3. PathsAreGiven'
    BY DEF PathsAreGiven, Wanes, Winds
<1>4. NamesHoldFiles'
    BY DEF NamesHoldFiles, IsReceived, Wanes
<1>5. PlacedIsThere'
    BY DEF PlacedIsThere, Wanes, Winds
<1> QED BY <1>1, <1>2, <1>3, <1>4, <1>5, <1>6

LEMMA AssignsKeepsWriting ==
    ASSUME PlacementTypeOK, WritingInv, NEW u \in Uploads, NEW p \in Paths, Assigns(u, p)
    PROVE  WritingInv'
<1> USE DEF WritingInv
<1>0. given' = [given EXCEPT ![p] = @ \cup {u}] /\ given \in [Paths -> SUBSET Uploads]
      /\ UNCHANGED <<disk, part, bytes, crossed>>
    BY DEF Assigns, PlacementTypeOK, PlacingTypeOK
<1>1. NamesAreApart'
    BY <1>0 DEF NamesAreApart
<1>7. \A v \in Uploads : upload'[v] = upload[v] \/ (v = u /\ Given(u, p))
    BY DEF Assigns
<1>2. PartIsTracked'
    <2> SUFFICES ASSUME NEW v \in Uploads, NEW q \in Paths, NEW i \in Inodes,
                        upload'[v].pc \in Using, upload'[v].path = q, part[q] = i, i \notin crossed
                 PROVE  /\ Knows(v, i)'
                        /\ \A w \in Uploads : upload'[w].pc \in Using /\ upload'[w].path = q => w = v
        BY <1>0 DEF PartIsTracked
    <2>1. \A w \in Uploads : upload'[w].pc \in Using => upload'[w] = upload[w]
        BY <1>7 DEF Given, Using
    <2>2. /\ Knows(v, i)
          /\ \A w \in Uploads : upload[w].pc \in Using /\ upload[w].path = q => w = v
        BY <2>1 DEF PartIsTracked
    <2>3. Knows(v, i)'
        BY <1>0, <2>1, <2>2 DEF Knows, WholeOf, Content
    <2> QED BY <2>1, <2>2, <2>3
<1>8. OpenIsLocal'
    <2>1. \A v \in Uploads : upload'[v].fd # None => upload'[v] = upload[v]
        BY <1>7 DEF Given
    <2>2. None \notin Inodes
        BY PlacementAssumption
    <2> QED BY <1>0, <2>1, <2>2 DEF OpenIsLocal
<1>6. \A m \in Paths : given[m] \subseteq given'[m]
    BY <1>0
<1>3. PathsAreGiven'
    <2>1. u \in given'[p]
        BY <1>0
    <2> QED BY <1>6, <1>7, <2>1 DEF PathsAreGiven, Given
<1>4. NamesHoldFiles'
    BY <1>0, <1>6 DEF NamesHoldFiles, IsReceived
<1>5. PlacedIsThere'
    BY <1>0, <1>6, <1>7 DEF PlacedIsThere, Given
<1> QED BY <1>1, <1>2, <1>3, <1>4, <1>5, <1>8

LEMMA StartsKeepsWriting ==
    ASSUME PlacementTypeOK, WritingInv, NEW u \in Uploads, OpenFresh(u) \/ CheckLength(u)
    PROVE  WritingInv'
<1> USE DEF WritingInv
<1> DEFINE p == upload[u].path
<1>0. p \in Paths /\ UNCHANGED <<given, disk>> /\ None \notin Inodes
    BY OpenFreshDoes, CheckLengthDoes, PlacementAssumption
<1>1. PICK i \in Inodes : Starts(u, i)
    BY OpenFreshDoes, CheckLengthDoes
<1>13. part[p] = i \/ (part[p] = None /\ Unused(i))
    BY <1>1 DEF Starts
<1>2. \A q \in Paths : disk[q] # i
    BY <1>0, <1>13 DEF NamesAreApart, Unused
<1>3. \A q \in Paths : part[q] = i => q = p
    BY <1>0, <1>13 DEF NamesAreApart, Unused
<1>4. \A j \in Inodes : j # i => (j \in crossed' <=> j \in crossed)
    BY <1>1 DEF Starts, Begins
<1>5. i \notin crossed' =>
         \A v \in Uploads : v # u => ~(upload[v].pc \in Using /\ upload[v].path = p)
    BY <1>1 DEF Starts, Begins, OtherUsers
<1>6. \A j \in Inodes : j # i => bytes'[j] = bytes[j]
    BY <1>1 DEF Starts
<1>7. /\ upload'[u].path = p /\ upload'[u].known = p /\ upload'[u].fd \in {None, i}
      /\ upload'[u].pc \in {"checked", "writing"} /\ Knows(u, i)'
      /\ \A v \in Uploads : v # u => upload'[v] = upload[v]
    BY <1>1 DEF Starts
<1>14. \A q \in Paths : part'[q] = IF q = p THEN i ELSE part[q]
    BY <1>0, <1>1 DEF Starts, PlacementTypeOK, StoreTypeOK
<1> HIDE DEF p
<1>8. NamesAreApart'
    BY <1>0, <1>2, <1>3, <1>14 DEF NamesAreApart
<1>9. PartIsTracked'
    <2> SUFFICES ASSUME NEW v \in Uploads, NEW q \in Paths, NEW j \in Inodes,
                        upload'[v].pc \in Using, upload'[v].path = q, part'[q] = j,
                        j \notin crossed'
                 PROVE  /\ Knows(v, j)'
                        /\ \A w \in Uploads : upload'[w].pc \in Using /\ upload'[w].path = q => w = v
        BY DEF PartIsTracked
    <2>1. CASE q = p
        <3>1. j = i
            BY <1>14, <2>1
        <3>2. \A w \in Uploads : upload'[w].pc \in Using /\ upload'[w].path = p => w = u
            BY <1>5, <1>7, <3>1
        <3> QED BY <1>7, <2>1, <3>1, <3>2
    <2>2. CASE q # p
        <3>1. v # u /\ upload'[v] = upload[v] /\ part[q] = j /\ j # i
            BY <1>3, <1>7, <1>14, <2>2
        <3>2. j \notin crossed /\ bytes'[j] = bytes[j]
            BY <1>4, <1>6, <3>1
        <3>3. /\ Knows(v, j)
              /\ \A w \in Uploads : upload[w].pc \in Using /\ upload[w].path = q => w = v
            BY <3>1, <3>2 DEF PartIsTracked
        <3>4. \A w \in Uploads : upload'[w].pc \in Using /\ upload'[w].path = q => w = v
            BY <1>7, <2>2, <3>3
        <3>5. Knows(v, j)'
            BY <3>1, <3>2, <3>3 DEF Knows, WholeOf, Content
        <3> QED BY <3>4, <3>5
    <2> QED BY <2>1, <2>2
<1>15. OpenIsLocal'
    <2> SUFFICES ASSUME NEW v \in Uploads, NEW q \in Paths, NEW j \in Inodes, upload'[v].fd = j
                 PROVE  /\ part'[q] = j => upload'[v].path = q
                        /\ disk[q] = j => j \in crossed'
        BY <1>0 DEF OpenIsLocal
    <2>1. CASE v = u
        BY <1>0, <1>2, <1>3, <1>7, <1>14, <2>1
    <2>2. CASE v # u
        <3>1. upload'[v] = upload[v] /\ upload[v].fd = j
            BY <1>7, <2>2
        <3>2. disk[q] = j => j \in crossed'
            BY <1>2, <1>4, <3>1 DEF OpenIsLocal
        <3>3. CASE q # p
            BY <1>14, <3>1, <3>2, <3>3 DEF OpenIsLocal
        <3>4. CASE q = p
            <4>1. part'[q] = j => j = i /\ part[p] = i
                BY <1>13, <1>14, <3>1, <3>4 DEF Unused
            <4> QED BY <1>0, <3>1, <3>2, <3>4, <4>1 DEF OpenIsLocal
        <3> QED BY <3>3, <3>4
    <2> QED BY <2>1, <2>2
<1>10. PathsAreGiven'
    <2>1. u \in given[p]
        BY <1>0 DEF PathsAreGiven, p
    <2> QED BY <1>0, <1>7, <2>1 DEF PathsAreGiven
<1>11. NamesHoldFiles'
    <2> SUFFICES ASSUME NEW q \in Paths, disk[q] \notin crossed' \cup {None}
                 PROVE  bytes'[disk[q]] \in {<<Mine>>} \cup {WholeOf(v) : v \in given[q]}
        BY <1>0 DEF NamesHoldFiles, IsReceived
    <2>1. disk[q] \in Inodes /\ disk[q] # i
        BY <1>2 DEF PlacementTypeOK, StoreTypeOK, OrNone
    <2>2. disk[q] \notin crossed \cup {None} /\ bytes'[disk[q]] = bytes[disk[q]]
        BY <1>4, <1>6, <2>1
    <2> QED BY <2>2 DEF NamesHoldFiles, IsReceived
<1>12. PlacedIsThere'
    <2> SUFFICES ASSUME NEW v \in Uploads, NEW q \in Paths, upload'[v].pc \in {"placed", "done"},
                        upload'[v].path = q
                 PROVE  /\ disk[q] # None
                        /\ \/ bytes'[disk[q]] = WholeOf(v)
                           \/ disk[q] \in crossed'
                           \/ \E w \in given[q] : Content(w) # Content(v)
        BY <1>0 DEF PlacedIsThere
    <2>1. v # u
        BY <1>7
    <2>2. /\ disk[q] # None
          /\ \/ bytes[disk[q]] = WholeOf(v)
             \/ disk[q] \in crossed
             \/ \E w \in given[q] : Content(w) # Content(v)
        BY <1>7, <2>1 DEF PlacedIsThere
    <2>3. disk[q] \in Inodes /\ disk[q] # i
        BY <1>2, <2>2 DEF PlacementTypeOK, StoreTypeOK, OrNone
    <2> QED BY <1>4, <1>6, <2>2, <2>3
<1> QED BY <1>8, <1>9, <1>10, <1>11, <1>12, <1>15

LEMMA WriteKeepsWriting ==
    ASSUME PlacementTypeOK, WritingInv, NEW u \in Uploads, WriteChunk(u)
    PROVE  WritingInv'
<1> USE DEF WritingInv
<1> DEFINE i == upload[u].fd
<1>1. /\ i \in Inodes /\ UNCHANGED <<given, crossed, disk, part>>
      /\ bytes' = [bytes EXCEPT ![i] = Written(bytes[i], u)]
    BY WriteChunkDoes
<1>2. /\ \A v \in Uploads : v # u => upload'[v] = upload[v]
      /\ upload'[u].pos = upload[u].pos + 1 /\ upload'[u].fd = upload[u].fd
      /\ upload'[u].sound = upload[u].sound
      /\ upload'[u].path = upload[u].path /\ upload'[u].known = upload[u].known
      /\ upload'[u].pc = upload[u].pc /\ upload[u].pc = "writing"
    BY WriteLeaves DEF PlacementTypeOK, WriteChunk
<1>3. \A j \in Inodes : j # i => bytes'[j] = bytes[j]
    BY <1>1 DEF PlacementTypeOK, StoreTypeOK
<1>4. bytes'[i] = Written(bytes[i], u) /\ bytes[i] \in Seq(Chunks)
    BY <1>1 DEF PlacementTypeOK, StoreTypeOK, Chunks
<1>5. i \notin crossed => \A q \in Paths : disk[q] # i
    BY <1>1 DEF OpenIsLocal
<1> HIDE DEF i
<1>6. NamesAreApart'
    BY <1>1 DEF NamesAreApart
<1>7. PartIsTracked'
    <2> SUFFICES ASSUME NEW v \in Uploads, NEW q \in Paths, NEW j \in Inodes,
                        upload'[v].pc \in Using, upload'[v].path = q, part[q] = j, j \notin crossed
                 PROVE  /\ Knows(v, j)'
                        /\ \A w \in Uploads : upload'[w].pc \in Using /\ upload'[w].path = q => w = v
        BY <1>1 DEF PartIsTracked
    <2>1. \A w \in Uploads : upload'[w].pc = upload[w].pc /\ upload'[w].path = upload[w].path
        BY <1>2
    <2>2. /\ Knows(v, j)
          /\ \A w \in Uploads : upload[w].pc \in Using /\ upload[w].path = q => w = v
        BY <2>1 DEF PartIsTracked
    <2>3. CASE v = u
        <3>1. /\ j = i /\ Len(bytes[i]) = upload[u].pos
              /\ upload[u].sound => \A k \in 1..upload[u].pos : bytes[i][k] = Content(u)
            BY <1>2, <2>2, <2>3 DEF Knows, i
        <3> DEFINE n == upload[u].pos
                   w == Written(bytes[i], u)
        <3>2. /\ Len(w) = n + 1
              /\ \A k \in 1..n : w[k] = bytes[i][k]
              /\ w[n + 1] = Content(u)
            BY <1>4, <3>1, WrittenIs DEF PlacementTypeOK
        <3>3. n \in Nat /\ bytes'[j] = w
            BY <1>4, <3>1, UploadFields DEF PlacementTypeOK
        <3>4. upload[u].sound => \A k \in 1..n : bytes[i][k] = Content(u)
            BY <3>1
        <3>5. upload'[u].pos = n + 1 /\ upload'[u].fd = j
            BY <1>2, <3>1 DEF i
        <3> HIDE DEF n, w
        <3>6. \A k \in 1..(n + 1) : k \in 1..n \/ k = n + 1
            BY <3>3
        <3>7. upload[u].sound => \A k \in 1..(n + 1) : w[k] = Content(u)
            BY <3>2, <3>4, <3>6
        <3>8. Knows(u, j)'
            BY <1>2, <3>2, <3>3, <3>5, <3>7 DEF Knows, Content
        <3> QED BY <2>1, <2>2, <2>3, <3>8
    <2>4. CASE v # u
        <3>1. j # i
            <4> SUFFICES ASSUME j = i PROVE FALSE
                OBVIOUS
            <4>1. upload[u].path = q
                BY <1>1 DEF OpenIsLocal, i
            <4> QED BY <1>2, <2>2, <2>4, <4>1 DEF Using
        <3>2. Knows(v, j)'
            BY <1>2, <1>3, <2>2, <2>4, <3>1 DEF Knows, WholeOf, Content
        <3> QED BY <2>1, <2>2, <3>2
    <2> QED BY <2>3, <2>4
<1>11. OpenIsLocal'
    BY <1>1, <1>2 DEF OpenIsLocal
<1>8. PathsAreGiven'
    BY <1>1, <1>2 DEF PathsAreGiven
<1>9. NamesHoldFiles'
    <2> SUFFICES ASSUME NEW q \in Paths, disk[q] \notin crossed \cup {None}
                 PROVE  bytes'[disk[q]] \in {<<Mine>>} \cup {WholeOf(v) : v \in given[q]}
        BY <1>1 DEF NamesHoldFiles, IsReceived
    <2>1. disk[q] \in Inodes /\ disk[q] # i
        BY <1>5 DEF PlacementTypeOK, StoreTypeOK, OrNone
    <2> QED BY <1>3, <2>1 DEF NamesHoldFiles, IsReceived
<1>10. PlacedIsThere'
    <2> SUFFICES ASSUME NEW v \in Uploads, NEW q \in Paths, upload[v].pc \in {"placed", "done"},
                        upload[v].path = q
                 PROVE  /\ disk[q] # None
                        /\ \/ bytes'[disk[q]] = WholeOf(v)
                           \/ disk[q] \in crossed
                           \/ \E w \in given[q] : Content(w) # Content(v)
        BY <1>1, <1>2 DEF PlacedIsThere
    <2>1. /\ disk[q] # None
          /\ \/ bytes[disk[q]] = WholeOf(v)
             \/ disk[q] \in crossed
             \/ \E w \in given[q] : Content(w) # Content(v)
        BY DEF PlacedIsThere
    <2>2. disk[q] \in Inodes /\ (disk[q] # i \/ disk[q] \in crossed)
        BY <1>5, <2>1 DEF PlacementTypeOK, StoreTypeOK, OrNone
    <2> QED BY <1>3, <2>1, <2>2
<1> QED BY <1>6, <1>7, <1>8, <1>9, <1>10, <1>11

LEMMA MoveKeepsWriting ==
    ASSUME PlacementTypeOK, WritingInv, NEW u \in Uploads, MoveIntoPlace(u)
    PROVE  WritingInv'
<1> USE DEF WritingInv
<1> DEFINE p == upload[u].path
           j == part[p]
<1>1. /\ p \in Paths /\ upload[u].pc = "saved" /\ j \in Inodes /\ None \notin Inodes
      /\ UNCHANGED <<given, crossed, bytes>>
      /\ disk' = [disk EXCEPT ![p] = j] /\ part' = [part EXCEPT ![p] = None]
      /\ \A v \in Uploads : v # u => upload'[v] = upload[v]
      /\ upload'[u].fd = None /\ upload'[u].pc = "placed"
      /\ upload'[u].path = p /\ upload'[u].known = upload[u].known
    BY MoveDoes, PlacementAssumption
<1>2. /\ \A q \in Paths : disk'[q] = IF q = p THEN j ELSE disk[q]
      /\ \A q \in Paths : part'[q] = IF q = p THEN None ELSE part[q]
    BY <1>1 DEF PlacementTypeOK, StoreTypeOK
<1>3. \A q \in Paths : disk[q] # j /\ (part[q] = j => q = p)
    BY <1>1 DEF NamesAreApart
<1>4. u \in given[p]
    BY <1>1 DEF PathsAreGiven
<1>5. j \notin crossed => /\ bytes[j] = WholeOf(u)
                          /\ \A v \in Uploads : upload[v].fd # j
    <2> SUFFICES ASSUME j \notin crossed
                 PROVE  bytes[j] = WholeOf(u) /\ \A v \in Uploads : upload[v].fd # j
        OBVIOUS
    <2>1. /\ Knows(u, j)
          /\ \A v \in Uploads : upload[v].pc \in Using /\ upload[v].path = p => v = u
        BY <1>1 DEF PartIsTracked, Using
    <2>2. ASSUME NEW v \in Uploads, upload[v].fd = j PROVE FALSE
        <3>1. upload[v].path = p
            BY <1>1, <2>2 DEF OpenIsLocal
        <3>2. upload[v].pc \in {"hashing", "writing"}
            BY <1>1, <2>2, UploadFields DEF PlacementTypeOK
        <3> QED BY <1>1, <2>1, <3>1, <3>2 DEF Using
    <2> QED BY <1>1, <2>1, <2>2 DEF Knows
<1> HIDE DEF j, p
<1>6. NamesAreApart'
    BY <1>1, <1>2, <1>3 DEF NamesAreApart
<1>7. PartIsTracked'
    <2> SUFFICES ASSUME NEW v \in Uploads, NEW q \in Paths, NEW i \in Inodes,
                        upload'[v].pc \in Using, upload'[v].path = q, part'[q] = i, i \notin crossed
                 PROVE  /\ Knows(v, i)'
                        /\ \A w \in Uploads : upload'[w].pc \in Using /\ upload'[w].path = q => w = v
        BY <1>1 DEF PartIsTracked
    <2>1. \A w \in Uploads : upload'[w].pc \in Using => upload'[w] = upload[w]
        BY <1>1 DEF Using
    <2>2. part[q] = i
        BY <1>1, <1>2
    <2>3. /\ Knows(v, i)
          /\ \A w \in Uploads : upload[w].pc \in Using /\ upload[w].path = q => w = v
        BY <2>1, <2>2 DEF PartIsTracked
    <2>4. Knows(v, i)'
        BY <1>1, <2>1, <2>3 DEF Knows, WholeOf, Content
    <2> QED BY <2>1, <2>3, <2>4
<1>11. OpenIsLocal'
    <2> SUFFICES ASSUME NEW v \in Uploads, NEW q \in Paths, NEW i \in Inodes, upload'[v].fd = i
                 PROVE  /\ part'[q] = i => upload'[v].path = q
                        /\ disk'[q] = i => i \in crossed
        BY <1>1 DEF OpenIsLocal
    <2>1. upload'[v] = upload[v]
        BY <1>1
    <2> QED BY <1>1, <1>2, <1>5, <2>1 DEF OpenIsLocal
<1>8. PathsAreGiven'
    BY <1>1, <1>4 DEF PathsAreGiven
<1>9. NamesHoldFiles'
    <2> SUFFICES ASSUME NEW q \in Paths, disk'[q] \notin crossed \cup {None}
                 PROVE  bytes[disk'[q]] \in {<<Mine>>} \cup {WholeOf(v) : v \in given[q]}
        BY <1>1 DEF NamesHoldFiles, IsReceived
    <2>1. CASE q = p
        BY <1>1, <1>2, <1>4, <1>5, <2>1 DEF PlacementTypeOK, PlacingTypeOK
    <2>2. CASE q # p
        BY <1>1, <1>2, <2>2 DEF NamesHoldFiles, IsReceived
    <2> QED BY <2>1, <2>2
<1>10. PlacedIsThere'
    <2> SUFFICES ASSUME NEW v \in Uploads, NEW q \in Paths, upload'[v].pc \in {"placed", "done"},
                        upload'[v].path = q
                 PROVE  /\ disk'[q] # None
                        /\ \/ bytes[disk'[q]] = WholeOf(v)
                           \/ disk'[q] \in crossed
                           \/ \E w \in given[q] : Content(w) # Content(v)
        BY <1>1 DEF PlacedIsThere
    <2>1. CASE q = p
        <3>1. disk'[q] = j
            BY <1>2, <2>1
        <3>2. CASE Content(u) = Content(v)
            <4>1. WholeOf(u) = WholeOf(v)
                BY <3>2 DEF WholeOf
            <4> QED BY <1>1, <1>5, <3>1, <4>1
        <3>3. CASE Content(u) # Content(v)
            BY <1>1, <1>4, <2>1, <3>1, <3>3
        <3> QED BY <3>2, <3>3
    <2>2. CASE q # p
        <3>1. v # u
            BY <1>1, <2>2
        <3> QED BY <1>1, <1>2, <2>2, <3>1 DEF PlacedIsThere
    <2> QED BY <2>1, <2>2
<1> QED BY <1>6, <1>7, <1>8, <1>9, <1>10, <1>11

LEMMA WritingStep ==
    PlacementTypeOK /\ WritingInv /\ [PlacementNext]_placementVars => WritingInv'
<1> SUFFICES ASSUME PlacementTypeOK, WritingInv, [PlacementNext]_placementVars
             PROVE  WritingInv'
    OBVIOUS
<1>0. Wanes => WritingInv'
    BY WanesKeepsWriting
<1>1. CASE UNCHANGED placementVars
    BY <1>1 DEF WritingInv, NamesAreApart, PartIsTracked, OpenIsLocal, PathsAreGiven,
                NamesHoldFiles, PlacedIsThere, Knows, IsReceived,
                placementVars, placing, runtime, store
<1>2. ASSUME NEW s \in Sessions, Accept(s) \/ EndSession(s)
      PROVE  WritingInv'
    BY <1>0, <1>2, AcceptWinds, EndSessionWinds
<1>3. ASSUME NEW u \in Uploads, UploadStep(u)
      PROVE  WritingInv'
    <2>1. ASSUME NEW try \in 1..MaxTries, PlaceUpload(u, try) \/ AskUser(u, try) \/ RejectUpload(u, try)
          PROVE  WritingInv'
        BY <1>0, <2>1, PlaceAssigns, AssignsKeepsWriting, AskUserWinds, RejectWinds
    <2>2. CASE OpenFresh(u) \/ CheckLength(u) \/ WriteChunk(u) \/ MoveIntoPlace(u)
        BY <2>2, StartsKeepsWriting, WriteKeepsWriting, MoveKeepsWriting
    <2>3. CASE BeginUpload(u) \/ Proceeds(u)
        BY <1>0, <2>3, BeginWinds, ProceedsWanes
    <2> QED BY <1>3, <2>1, <2>2, <2>3 DEF UploadStep, Proceeds
<1>4. ASSUME NEW q \in questions, NEW overwrite \in BOOLEAN, Answer(q, overwrite)
      PROVE  WritingInv'
    <2> DEFINE m == IF overwrite THEN q.existing ELSE q.renamed
    <2>1. m \in Paths /\ Assigns(q.upload, m)
        BY <1>4, AnswerAssigns
    <2>2. q.upload \in Uploads
        BY DEF PlacementTypeOK, RuntimeTypeOK
    <2> HIDE DEF m
    <2> QED BY <2>1, <2>2, AssignsKeepsWriting
<1>5. CASE HearEnd \/ Restart \/ ExpireRows
    BY <1>0, <1>5, HearEndWinds, RestartWinds, ExpireRowsWinds
<1>6. ASSUME NEW r \in results, HearResult(r)
      PROVE  WritingInv'
    BY <1>0, <1>6, HearResultWinds
<1>7. ASSUME NEW p \in Paths, ExpirePart(p)
      PROVE  WritingInv'
    BY <1>0, <1>7, ExpirePartWinds
<1> QED BY <1>1, <1>2, <1>3, <1>4, <1>5, <1>6, <1>7 DEF PlacementNext

\* What carries the name of a received file is one offered file, complete and
\* unmixed, unless the attempt that put it there overlapped with another one on
\* its path; and a file reported as received is there.
THEOREM FinishedStaysIntact == PlacementSpec => []FinishedIsIntact
<1>1. PlacementTypeOK /\ WritingInv => FinishedIsIntact
    <2> SUFFICES ASSUME PlacementTypeOK, WritingInv PROVE FinishedIsIntact
        OBVIOUS
    <2>1. \A u \in Uploads : upload[u].pc = "done" => upload[u].path \in Paths
        BY UploadFields DEF PlacementTypeOK, HasPath
    <2> QED BY <2>1 DEF FinishedIsIntact, WritingInv, NamesHoldFiles, PlacedIsThere
<1> QED BY <1>1, InitTyped, InitWriting, TypesStep, WritingStep, PTL DEF PlacementSpec

------------------------------------------------------------------------------
(* Paths of one session: while its session is received, a path that was    *)
(* handed out is reserved; what was asked about ends up with a number, or  *)
(* with the user's consent.                                                *)

BegunHasTry ==
    /\ \A p \in Paths : \A u \in given[p] : upload[u].try > 0
    /\ \A o \in offered : upload[o[1]].try > 0
    /\ \A q \in questions : upload[q.upload].try > 0
GivenIsAssigned ==
    \A p \in Paths : \A u \in given[p] : incoming.sid = SessionOf(u) => p \in incoming.assigned
AskedByPolicy == \A q \in questions : policy = "ask" /\ q.renamed[2] # 0
SharingInv == BegunHasTry /\ GivenIsAssigned /\ AskedByPolicy /\ SharedOnlyUnreserved

LEMMA InitSharing == PlacementInit => SharingInv
BY PlacementAssumption
   DEF PlacementInit, SharingInv, BegunHasTry, GivenIsAssigned, AskedByPolicy, SharedOnlyUnreserved

\* What leaves the runtime as it is, or as it was before any session.
LEMMA WanesKeepsSharing ==
    ASSUME PlacementTypeOK, PlacementTypeOK', SharingInv, Wanes,
           \/ incoming' = incoming
           \/ \A p \in Paths : \A u \in given[p] : incoming'.sid # SessionOf(u),
           \A o \in offered' : o \in offered \/ upload'[o[1]].try > 0,
           \A q \in questions' :
              \/ q \in questions
              \/ upload'[q.upload].try > 0 /\ policy = "ask" /\ q.renamed[2] # 0
    PROVE  SharingInv'
<1> USE DEF SharingInv
<1>1. UNCHANGED <<given, policy, consent>> /\ \A u \in Uploads : upload'[u].try >= upload[u].try
    BY DEF Wanes, Winds
<1>2. \A u \in Uploads : upload[u].try > 0 => upload'[u].try > 0
    <2> TAKE u \in Uploads
    <2>1. upload[u].try \in Nat /\ upload'[u].try \in Nat
        BY PlacementAssumption DEF PlacementTypeOK, UploadTypeOK, UploadStates
    <2> QED BY <1>1, <2>1
<1>3. BegunHasTry'
    <2>1. /\ \A p \in Paths : given[p] \subseteq Uploads
          /\ \A o \in offered : o[1] \in Uploads
          /\ \A q \in questions : q.upload \in Uploads
        BY DEF PlacementTypeOK, PlacingTypeOK, RuntimeTypeOK
    <2> QED BY <1>1, <1>2, <2>1 DEF BegunHasTry
<1>4. GivenIsAssigned'
    BY <1>1 DEF GivenIsAssigned
<1>5. AskedByPolicy'
    BY <1>1 DEF AskedByPolicy
<1>6. SharedOnlyUnreserved'
    BY <1>1 DEF SharedOnlyUnreserved, IsUnreserved, IsResumed
<1> QED BY <1>3, <1>4, <1>5, <1>6

LEMMA AcceptKeepsSharing ==
    ASSUME PlacementTypeOK, SharingInv, NEW s \in Sessions, Accept(s)
    PROVE  SharingInv'
<1>1. incoming'.sid = s /\ UNCHANGED <<questions, offered>>
    <2>1. PICK pick : incoming' = [sid |-> s, sender |-> SenderOf[s], assigned |-> {},
                                   resume |-> incoming'.resume]
        BY DEF Accept
    <2> QED BY <2>1 DEF Accept
<1>2. ASSUME NEW p \in Paths, NEW u \in given[p], incoming'.sid = SessionOf(u)
      PROVE  FALSE
    <2>1. u \in Uploads
        BY DEF PlacementTypeOK, PlacingTypeOK
    <2>2. upload[u] = NoUpload
        BY <1>1, <1>2, <2>1 DEF Accept
    <2>3. upload[u].try > 0
        BY DEF SharingInv, BegunHasTry
    <2> QED BY <2>2, <2>3 DEF NoUpload
<1> QED BY <1>1, <1>2, AcceptWinds, WanesKeepsSharing

LEMMA BeginKeepsSharing ==
    ASSUME PlacementTypeOK, SharingInv, NEW u \in Uploads, BeginUpload(u)
    PROVE  SharingInv'
<1> DEFINE t == upload[u].try + 1
<1>1. upload'[u].try \in 1..MaxTries
    BY BeginLeaves DEF PlacementTypeOK
<1>2. offered' \subseteq offered \cup {<<u, t>>}
    BY DEF BeginUpload
<1> HIDE DEF t
<1>3. \A o \in offered' : o \in offered \/ upload'[o[1]].try > 0
    BY <1>1, <1>2, PlacementAssumption
<1>4. UNCHANGED <<questions, incoming>>
    BY DEF BeginUpload
<1> QED BY <1>3, <1>4, BeginWinds, WanesKeepsSharing

LEMMA AskUserKeepsSharing ==
    ASSUME PlacementTypeOK, SharingInv, NEW u \in Uploads, NEW try \in 1..MaxTries, AskUser(u, try)
    PROVE  SharingInv'
<1> DEFINE m == PlacementFor(u)
<1>1. policy = "ask" /\ m.renamed[2] # 0
    BY PlacementIsGood DEF AskUser
<1>2. /\ questions' = questions \cup {[upload |-> u, try |-> try, existing |-> m.path,
                                       renamed |-> m.renamed]}
      /\ UNCHANGED <<incoming, upload>> /\ offered' \subseteq offered /\ <<u, try>> \in offered
    BY DEF AskUser
<1>3. upload'[u].try > 0
    BY <1>2 DEF SharingInv, BegunHasTry
<1> HIDE DEF m
<1>4. \A q \in questions' :
         \/ q \in questions
         \/ upload'[q.upload].try > 0 /\ policy = "ask" /\ q.renamed[2] # 0
    BY <1>1, <1>2, <1>3
<1> QED BY <1>2, <1>4, AskUserWinds, WanesKeepsSharing

\* A path is handed out: it is nobody's in this session, or not reserved.
LEMMA AssignsKeepsSharing ==
    ASSUME PlacementTypeOK, SharingInv, NEW u \in Uploads, NEW p \in Paths, Assigns(u, p),
           upload[u].try > 0, questions' \subseteq questions, offered' \subseteq offered,
           consent \subseteq consent',
           incoming'.sid = incoming.sid, incoming'.resume = incoming.resume,
           incoming.assigned \subseteq incoming'.assigned,
           incoming.sid = SessionOf(u) => p \in incoming'.assigned,
           \/ IsResumed(u)
           \/ policy = "overwrite" \/ (policy = "ask" /\ (p[2] # 0 \/ p \in consent'))
           \/ p \notin incoming.assigned
    PROVE  SharingInv'
<1> USE DEF SharingInv
<1>1. /\ given' = [given EXCEPT ![p] = @ \cup {u}] /\ policy' = policy
      /\ \A v \in Uploads : upload'[v].try = upload[v].try
    BY DEF Assigns, Given
<1>2. /\ \A q \in Paths : given'[q] = IF q = p THEN given[p] \cup {u} ELSE given[q]
      /\ \A q \in Paths : given[q] \subseteq Uploads
    BY <1>1 DEF PlacementTypeOK, PlacingTypeOK
<1>3. BegunHasTry'
    <2>1. /\ \A o \in offered : o[1] \in Uploads
          /\ \A q \in questions : q.upload \in Uploads
        BY DEF PlacementTypeOK, RuntimeTypeOK
    <2> QED BY <1>1, <1>2, <2>1 DEF BegunHasTry
<1>4. GivenIsAssigned'
    BY <1>2 DEF GivenIsAssigned
<1>5. AskedByPolicy'
    BY <1>1 DEF AskedByPolicy
<1>6. SharedOnlyUnreserved'
    <2> SUFFICES ASSUME NEW q \in Paths, NEW v \in given'[q], NEW w \in given'[q],
                        v # w, SessionOf(v) = SessionOf(w), incoming'.sid = SessionOf(v)
                 PROVE  \/ policy = "overwrite"
                        \/ policy = "ask" /\ (q[2] # 0 \/ q \in consent')
                        \/ incoming.resume[FileOf(v)] # None
                        \/ incoming.resume[FileOf(w)] # None
        BY <1>1 DEF SharedOnlyUnreserved, IsUnreserved, IsResumed
    <2>1. CASE v \in given[q] /\ w \in given[q]
        BY <2>1 DEF SharedOnlyUnreserved, IsUnreserved, IsResumed
    <2>2. CASE ~(v \in given[q] /\ w \in given[q])
        <3>1. q = p /\ (v = u \/ w = u)
            BY <1>2, <2>2
        <3>2. v \in given[p] \/ w \in given[p]
            BY <1>2, <3>1
        <3>3. p \in incoming.assigned
            BY <3>2 DEF GivenIsAssigned
        <3> QED BY <3>1, <3>3 DEF IsResumed
    <2> QED BY <2>1, <2>2
<1> QED BY <1>3, <1>4, <1>5, <1>6

LEMMA PlaceKeepsSharing ==
    ASSUME PlacementTypeOK, SharingInv, NEW u \in Uploads, NEW try \in 1..MaxTries,
           PlaceUpload(u, try)
    PROVE  SharingInv'
<1> DEFINE p == PlacementFor(u).path
<1>1. /\ p \in Paths /\ Assigns(u, p) /\ consent' = consent /\ questions' = questions
      /\ offered' \subseteq offered
    BY PlaceAssigns
<1>2. Assign(u, try, p) /\ <<u, try>> \in offered
    BY DEF PlaceUpload
<1>3. \/ IsResumed(u)
      \/ policy = "overwrite"
      \/ p \notin incoming.assigned
    BY PlacementIsGood DEF PlaceUpload, IsFree
<1>4. upload[u].try > 0
    BY <1>2 DEF SharingInv, BegunHasTry
<1> HIDE DEF p
<1>5. /\ incoming'.sid = incoming.sid /\ incoming'.resume = incoming.resume
      /\ incoming.assigned \subseteq incoming'.assigned
      /\ incoming.sid = SessionOf(u) => p \in incoming'.assigned
    BY <1>1, <1>2, AssignTypes
<1> QED BY <1>1, <1>3, <1>4, <1>5, AssignsKeepsSharing

LEMMA AnswerKeepsSharing ==
    ASSUME PlacementTypeOK, SharingInv, NEW q \in questions, NEW overwrite \in BOOLEAN,
           Answer(q, overwrite)
    PROVE  SharingInv'
<1> DEFINE p == IF overwrite THEN q.existing ELSE q.renamed
           u == q.upload
           t == q.try
<1>1. /\ p \in Paths /\ Assigns(u, p) /\ questions' \subseteq questions /\ offered' = offered
      /\ consent' = (IF overwrite THEN consent \cup {q.existing} ELSE consent)
    BY AnswerAssigns
<1>2. Assign(u, t, p) /\ u \in Uploads
    BY DEF Answer, PlacementTypeOK, RuntimeTypeOK
<1>3. upload[u].try > 0
    BY DEF SharingInv, BegunHasTry
<1>4. policy = "ask" /\ (p[2] # 0 \/ p \in consent') /\ consent \subseteq consent'
    BY <1>1 DEF SharingInv, AskedByPolicy
<1> HIDE DEF p, u, t
<1>5. /\ incoming'.sid = incoming.sid /\ incoming'.resume = incoming.resume
      /\ incoming.assigned \subseteq incoming'.assigned
      /\ incoming.sid = SessionOf(u) => p \in incoming'.assigned
    BY <1>1, <1>2, AssignTypes
<1> QED BY <1>1, <1>2, <1>3, <1>4, <1>5, AssignsKeepsSharing

\* Looking at files, writing and moving them is of no concern.
LEMMA WritingKeepsSharing ==
    ASSUME PlacementTypeOK, SharingInv, UNCHANGED <<policy, given, consent, runtime>>,
           \A u \in Uploads : upload'[u].try = upload[u].try
    PROVE  SharingInv'
<1>1. /\ \A p \in Paths : given[p] \subseteq Uploads
      /\ \A o \in offered : o[1] \in Uploads
      /\ \A q \in questions : q.upload \in Uploads
    BY DEF PlacementTypeOK, PlacingTypeOK, RuntimeTypeOK
<1> QED BY <1>1 DEF SharingInv, BegunHasTry, GivenIsAssigned, AskedByPolicy, SharedOnlyUnreserved,
                    IsUnreserved, IsResumed, runtime

LEMMA SharingStep ==
    PlacementTypeOK /\ SharingInv /\ [PlacementNext]_placementVars => SharingInv'
<1> SUFFICES ASSUME PlacementTypeOK, SharingInv, [PlacementNext]_placementVars
             PROVE  SharingInv'
    OBVIOUS
<1>0. ASSUME PlacementTypeOK', Wanes, UNCHANGED incoming, questions' \subseteq questions,
             offered' \subseteq offered
      PROVE  SharingInv'
    BY <1>0, WanesKeepsSharing
<1>1. CASE UNCHANGED placementVars
    BY <1>1 DEF SharingInv, BegunHasTry, GivenIsAssigned, AskedByPolicy, SharedOnlyUnreserved,
                IsUnreserved, IsResumed, placementVars, placing, runtime, store
<1>2. ASSUME NEW s \in Sessions, Accept(s) \/ EndSession(s)
      PROVE  SharingInv'
    BY <1>0, <1>2, AcceptKeepsSharing, EndSessionWinds DEF EndSession, runtime
<1>3. ASSUME NEW u \in Uploads, UploadStep(u)
      PROVE  SharingInv'
    <2>1. ASSUME NEW try \in 1..MaxTries, PlaceUpload(u, try) \/ AskUser(u, try) \/ RejectUpload(u, try)
          PROVE  SharingInv'
        BY <1>0, <2>1, PlaceKeepsSharing, AskUserKeepsSharing, RejectWinds DEF RejectUpload
    <2>2. CASE OpenFresh(u)
        <3>1. \A v \in Uploads : upload'[v].try = upload[v].try
            BY <2>2, OpenFreshDoes DEF Starts
        <3> QED BY <2>2, <3>1, OpenFreshDoes, WritingKeepsSharing
    <2>3. CASE CheckLength(u)
        <3>1. \A v \in Uploads : upload'[v].try = upload[v].try
            BY <2>3, CheckLengthDoes DEF Starts
        <3> QED BY <2>3, <3>1, CheckLengthDoes, WritingKeepsSharing
    <2>4. CASE WriteChunk(u)
        <3>1. \A v \in Uploads : upload'[v].try = upload[v].try
            BY <2>4, WriteLeaves DEF PlacementTypeOK
        <3> QED BY <2>4, <3>1, WriteChunkDoes, WritingKeepsSharing
    <2>5. CASE MoveIntoPlace(u)
        <3>1. \A v \in Uploads : upload'[v].try = upload[v].try
            BY <2>5, MoveDoes
        <3> QED BY <2>5, <3>1, MoveDoes, WritingKeepsSharing
    <2>6. CASE BeginUpload(u)
        BY <2>6, BeginKeepsSharing
    <2>7. CASE Proceeds(u)
        BY <1>0, <2>7, ProceedsWanes
    <2> QED BY <1>3, <2>1, <2>2, <2>3, <2>4, <2>5, <2>6, <2>7 DEF UploadStep, Proceeds
<1>4. ASSUME NEW q \in questions, NEW overwrite \in BOOLEAN, Answer(q, overwrite)
      PROVE  SharingInv'
    BY <1>4, AnswerKeepsSharing
<1>5. CASE HearEnd \/ Restart
    <2>1. incoming'.sid = None
        BY <1>5 DEF HearEnd, Restart, NoInfo
    <2>2. questions' \subseteq questions /\ offered' \subseteq offered
        BY <1>5 DEF HearEnd, Restart
    <2>3. \A p \in Paths : \A u \in given[p] : SessionOf(u) # None
        BY PlacementAssumption DEF PlacementTypeOK, PlacingTypeOK, Uploads, SessionOf
    <2> QED BY <1>5, <2>1, <2>2, <2>3, HearEndWinds, RestartWinds, WanesKeepsSharing
<1>6. CASE ExpireRows
    BY <1>0, <1>6, ExpireRowsWinds DEF ExpireRows, runtime
<1>7. ASSUME NEW r \in results, HearResult(r)
      PROVE  SharingInv'
    BY <1>0, <1>7, HearResultWinds DEF HearResult
<1>8. ASSUME NEW p \in Paths, ExpirePart(p)
      PROVE  SharingInv'
    BY <1>0, <1>8, ExpirePartWinds DEF ExpirePart, runtime
<1> QED BY <1>1, <1>2, <1>3, <1>4, <1>5, <1>6, <1>7, <1>8 DEF PlacementNext

\* Two files of one session have the same path only where names are not reserved.
THEOREM SharingIsUnreserved == PlacementSpec => []SharedOnlyUnreserved
<1>1. SharingInv => SharedOnlyUnreserved
    BY DEF SharingInv
<1> QED BY <1>1, InitTyped, InitSharing, TypesStep, SharingStep, PTL DEF PlacementSpec
==============================================================================
