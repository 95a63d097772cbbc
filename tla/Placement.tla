------------------------------ MODULE Placement ------------------------------
(***************************************************************************)
(* Where received files go: the paths the runtime hands out to the upload  *)
(* handlers (crates/core/src/transfer/incoming.rs, transport/filename,     *)
(* runtime/incoming.rs), the part files the handlers write and rename      *)
(* (transport/server/save.rs), and the partial uploads the database keeps  *)
(* so that a later session can go on where an earlier one stopped          *)
(* (store/db.rs).                                                          *)
(*                                                                         *)
(* A body has two chunks, and a file is the sequence of chunks written to  *)
(* it, each named after the content it belongs to.  An open file is an     *)
(* inode: it can be renamed, removed or truncated under its writer.        *)
(***************************************************************************)
EXTENDS Integers, Sequences, FiniteSets

CONSTANTS
    Sessions,    \* session identifiers, each used once
    Files,       \* files a sender has
    Names,       \* names left after sorting into folders and sanitising
    Refused,     \* stands for a name the runtime refuses (.. or absolute)
    Contents,    \* what a file holds: its digest, or its content identifier
    Mine, Hole,  \* a chunk of the user's own file; a chunk never written
    Offers,      \* the files of each session
    SenderOf,    \* the device each session comes from
    NameOf,      \* name of each file
    ContentOf,   \* content of each file
    Policies,    \* the conflict policies a user may have chosen
    MaxNumber,   \* bound: highest number appended to a name
    MaxTries,    \* attempt limit of a file (MAX_ATTEMPTS)
    MaxInodes,   \* bound: files in existence or open at a time
    MaxCrashes,  \* bound: restarts
    None

Numbers == 0..MaxNumber
Paths == Names \X Numbers    \* <<n, 0>> is n itself, <<n, k>> is "n (k)"
Inodes == 1..MaxInodes
Uploads == {u \in Sessions \X Files : u[2] \in Offers[u[1]]}
Senders == {SenderOf[s] : s \in Sessions}
Whole == 2                   \* chunks of a body

ASSUME PlacementAssumption ==
    /\ Offers \in [Sessions -> SUBSET Files]
    /\ NameOf \in [Files -> Names \cup {Refused}]
    /\ Refused \notin Names
    /\ ContentOf \in [Files -> Contents]
    /\ Mine \notin Contents /\ Hole \notin Contents \cup {Mine}
    /\ Policies \subseteq {"rename", "overwrite", "ask"}
    /\ MaxNumber \in Nat /\ MaxTries \in Nat /\ MaxInodes \in Nat /\ MaxCrashes \in Nat
    /\ None \notin Sessions \cup Files \cup Paths \cup Inodes \cup Senders
    \* The bound leaves room for the user's own files (see OwnInode).
    /\ \E g \in [Names \X {0} -> Inodes] : \A p, q \in Names \X {0} : p # q => g[p] # g[q]

VARIABLES
    policy,      \* settings.on_conflict
    disk,        \* path -> the file that has this name
    part,        \* path -> its part file (part_path)
    bytes,       \* inode -> the chunks written to it
    rows,        \* partial_uploads: part file -> the upload it belongs to
    expiring,    \* partial uploads being expired at start
    current,     \* the session that is active in the server
    incoming,    \* SessionInfo of the runtime
    upload,      \* the upload of a file in a session
    offered,     \* FileUpload events in the channel: <<upload, try>>
    questions,   \* conflict tasks waiting for an answer
    asked,       \* pending.conflicts: the try whose question can be answered
    results,     \* FileUploadResult events in the channel
    given,       \* history: the uploads each path was handed out to
    crossed,     \* history: files used by two attempts that overlapped
    consent,     \* history: paths the user agreed to overwrite
    mine,        \* history: the paths that were there before
    crashes

placing == <<policy, given, crossed, consent, mine>>
runtime == <<incoming, offered, questions, asked, results>>
store == <<disk, part, bytes, rows, expiring>>
placementVars == <<placing, runtime, store, current, upload, crashes>>

NoUpload == [pc |-> "pending", try |-> 0, known |-> None, path |-> None, fd |-> None,
             append |-> FALSE, offset |-> 0, pos |-> 0, sound |-> TRUE, deferred |-> FALSE]
NoInfo == [sid |-> None, sender |-> None, assigned |-> {}, resume |-> [f \in Files |-> None]]

OwnInode == CHOOSE g \in [Names \X {0} -> Inodes] : \A p, q \in Names \X {0} : p # q => g[p] # g[q]

PlacementInit ==
    /\ policy \in Policies
    /\ mine \in SUBSET (Names \X {0})
    /\ disk = [p \in Paths |-> IF p \in mine THEN OwnInode[p] ELSE None]
    /\ part = [p \in Paths |-> None]
    /\ bytes = [i \in Inodes |-> IF \E p \in mine : OwnInode[p] = i THEN <<Mine>> ELSE <<>>]
    /\ rows = [p \in Paths |-> None]
    /\ expiring = {}
    /\ current = None
    /\ incoming = NoInfo
    /\ upload = [u \in Uploads |-> NoUpload]
    /\ offered = {}
    /\ questions = {}
    /\ asked = [u \in Uploads |-> 0]
    /\ results = {}
    /\ given = [p \in Paths |-> {}]
    /\ crossed = {}
    /\ consent = {}
    /\ crashes = 0

------------------------------------------------------------------------------
(* Choosing a path.                                                        *)

SessionOf(u) == u[1]
FileOf(u) == u[2]
Content(u) == ContentOf[FileOf(u)]

\* A path is free if nothing has it and no file of the session was given it;
\* the variants look at one of the two.
IsFree_OnDisk(p, taken) == disk[p] = None
IsFree_Untaken(p, taken) == p \notin taken
IsFree(p, taken) == disk[p] = None /\ p \notin taken

\* unique_path: the first number that is free.
FreeNumbers(n, taken) == {k \in Numbers \ {0} : IsFree(<<n, k>>, taken)}
UniquePath(n, taken) ==
    <<n, CHOOSE k \in FreeNumbers(n, taken) :
            \A j \in FreeNumbers(n, taken) : k <= j>>

New(p) == [kind |-> "new", path |-> p, renamed |-> p]
Replace(p) == [kind |-> "replace", path |-> p, renamed |-> p]
NeedsDecision(p, q) == [kind |-> "ask", path |-> p, renamed |-> q]

\* Destination::place.
Place(n, taken) ==
    IF IsFree(<<n, 0>>, taken) THEN New(<<n, 0>>)
    ELSE CASE policy = "rename" -> New(UniquePath(n, taken))
           [] policy = "overwrite" -> Replace(<<n, 0>>)
           [] policy = "ask" -> NeedsDecision(<<n, 0>>, UniquePath(n, taken))

\* The resumed path, if the session continues this file, else a new place.
\* The number of a path is bounded.
IsResumed(u) == incoming.sid = SessionOf(u) /\ incoming.resume[FileOf(u)] # None
IsPlaceable(u) ==
    /\ incoming.sid = SessionOf(u)
    /\ IsResumed(u) \/ NameOf[FileOf(u)] \in Names
HasRoom(u) == IsPlaceable(u) => IsResumed(u) \/ FreeNumbers(NameOf[FileOf(u)], incoming.assigned) # {}
PlacementFor(u) == IF IsResumed(u) THEN New(incoming.resume[FileOf(u)])
                   ELSE Place(NameOf[FileOf(u)], incoming.assigned)

------------------------------------------------------------------------------
(* Sessions.                                                               *)

\* What the handler had open and had counted is gone; the variant leaves the
\* file open.
Closed_Open(u) == [upload[u] EXCEPT !.append = FALSE, !.offset = 0, !.pos = 0, !.sound = TRUE,
                                    !.deferred = FALSE]
Closed(u) == [upload[u] EXCEPT !.fd = None, !.append = FALSE, !.offset = 0, !.pos = 0,
                               !.sound = TRUE, !.deferred = FALSE]

IsUsable(p) == part[p] # None /\ bytes[part[p]] # <<>>
                  /\ Len(bytes[part[p]]) <= Whole /\ disk[p] = None

\* find_partial: the same content from the same device.
Partials(s, f) == {p \in Paths : rows[p] # None /\ rows[p].content = ContentOf[f]
                                   /\ rows[p].sender = SenderOf[s]}

\* accept_incoming with resumable_files: what can be continued is offered to
\* the sender, a partial upload that cannot is removed with its part file.
Accept(s) ==
    /\ current = None
    /\ \A u \in Uploads : SessionOf(u) = s => upload[u] = NoUpload
    /\ \E pick \in [Offers[s] -> Paths \cup {None}] :
        /\ \A f \in Offers[s] : pick[f] \in Partials(s, f) \cup
                                  (IF Partials(s, f) = {} THEN {None} ELSE {})
        /\ LET useless == {pick[f] : f \in {g \in Offers[s] : pick[g] # None /\ ~IsUsable(pick[g])}}
               IN /\ rows' = [p \in Paths |-> IF p \in useless THEN None ELSE rows[p]]
                  /\ part' = [p \in Paths |-> IF p \in useless THEN None ELSE part[p]]
                  /\ incoming' = [sid |-> s, sender |-> SenderOf[s], assigned |-> {},
                                  resume |-> [f \in Files |->
                                     IF f \in Offers[s] /\ pick[f] \notin useless
                                     THEN pick[f] ELSE None]]
    /\ current' = s
    /\ UNCHANGED <<placing, offered, questions, asked, results, disk, bytes, expiring,
                   upload, crashes>>

\* The session ends in the server: all files settled, a cancel, or the reaper.
\* What its handlers are doing they go on doing; a body that waits for its
\* digest is forgotten.
EndSession(s) ==
    /\ current = s
    /\ current' = None
    /\ upload' = [u \in Uploads |->
                    IF SessionOf(u) = s /\ upload[u].pc \in {"pending", "held"}
                    THEN [Closed(u) EXCEPT !.pc = "over"] ELSE upload[u]]
    /\ UNCHANGED <<placing, runtime, store, crashes>>

\* on_session_end: the runtime hears of it.
HearEnd ==
    /\ incoming.sid # None /\ current # incoming.sid
    /\ incoming' = NoInfo
    /\ UNCHANGED <<placing, offered, questions, asked, results, store, current, upload, crashes>>

------------------------------------------------------------------------------
(* Asking for a path.                                                      *)

\* begin_upload: a retry goes on with the path of the earlier attempt, if that
\* got as far as recording it (set_file_path, a part of opening the file).
BeginUpload(u) ==
    /\ current = SessionOf(u)
    /\ upload[u].pc = "pending" /\ upload[u].try < MaxTries
    /\ LET try == upload[u].try + 1
           known == upload[u].known
       IN /\ upload' = [upload EXCEPT ![u].try = try, ![u].path = known,
                                      ![u].pc = IF known # None THEN "given" ELSE "asking"]
          /\ offered' = IF known # None THEN offered ELSE offered \cup {<<u, try>>}
    /\ UNCHANGED <<placing, incoming, questions, asked, results, store, current, crashes>>

IsWaiting(u, try) == upload[u].pc = "asking" /\ upload[u].try = try

\* assign_upload: the path is reserved, filed as a partial upload, and sent to
\* the handler if that still waits.
Assign(u, try, p) ==
    /\ LET mineStill == incoming.sid = SessionOf(u)
       IN /\ incoming' = IF mineStill THEN [incoming EXCEPT !.assigned = @ \cup {p}] ELSE incoming
          /\ rows' = IF mineStill
                     THEN [rows EXCEPT ![p] = [content |-> Content(u),
                                               sender |-> incoming.sender, old |-> FALSE]]
                     ELSE rows
    /\ upload' = IF IsWaiting(u, try)
                 THEN [upload EXCEPT ![u].pc = "given", ![u].path = p] ELSE upload
    /\ given' = [given EXCEPT ![p] = @ \cup {u}]

\* on_file_upload with a path at hand.
PlaceUpload(u, try) ==
    /\ <<u, try>> \in offered /\ IsPlaceable(u) /\ HasRoom(u)
    /\ PlacementFor(u).kind # "ask"
    /\ offered' = offered \ {<<u, try>>}
    /\ Assign(u, try, PlacementFor(u).path)
    /\ UNCHANGED <<policy, crossed, consent, mine, questions, asked, results, disk, part, bytes,
                   expiring, current, crashes>>

\* on_file_upload when the user has to decide: a task waits for the answer.
AskUser(u, try) ==
    /\ <<u, try>> \in offered /\ IsPlaceable(u) /\ HasRoom(u)
    /\ PlacementFor(u).kind = "ask"
    /\ offered' = offered \ {<<u, try>>}
    /\ questions' = questions \cup {[upload |-> u, try |-> try, existing |-> PlacementFor(u).path,
                                     renamed |-> PlacementFor(u).renamed]}
    /\ asked' = [asked EXCEPT ![u] = try]
    /\ UNCHANGED <<placing, incoming, results, store, current, upload, crashes>>

\* on_file_upload for a session that is no longer received, or a name that
\* would leave the folder.
RejectUpload(u, try) ==
    /\ <<u, try>> \in offered /\ ~IsPlaceable(u)
    /\ offered' = offered \ {<<u, try>>}
    /\ upload' = IF IsWaiting(u, try) THEN [upload EXCEPT ![u].pc = "failed"] ELSE upload
    /\ UNCHANGED <<placing, incoming, questions, asked, results, store, current, crashes>>

\* The user answers, or the question ends unanswered (after 30 seconds, or
\* because a newer one took its place).  The task then forgets the question of
\* this file, whichever it is.
Answer(q, overwrite) ==
    /\ overwrite => asked[q.upload] = q.try
    /\ questions' = questions \ {q}
    /\ asked' = [asked EXCEPT ![q.upload] = 0]
    /\ consent' = IF overwrite THEN consent \cup {q.existing} ELSE consent
    /\ Assign(q.upload, q.try, IF overwrite THEN q.existing ELSE q.renamed)
    /\ UNCHANGED <<policy, crossed, mine, offered, results, disk, part, bytes, expiring, current, crashes>>

------------------------------------------------------------------------------
(* Writing.                                                                *)

InUse == {disk[p] : p \in Paths} \cup {part[p] : p \in Paths}
            \cup {upload[u].fd : u \in Uploads}
FreshInodes == Inodes \ InUse

\* What becomes of a file after an attempt (finalize_file): back to pending
\* while attempts are left and the session lives.
After(u, outcome) ==
    CASE outcome = "success" -> "done"
      [] outcome = "failed" -> "failed"
      [] OTHER -> IF current # SessionOf(u) THEN "over"
                  ELSE IF upload[u].try < MaxTries THEN "pending" ELSE "failed"

\* The handler is over: its result is on the way and the file is settled.
Conclude(u, outcome, received) ==
    /\ results' = results \cup {[upload |-> u, path |-> upload[u].path,
                                 outcome |-> outcome, received |-> received]}
    /\ upload' = [upload EXCEPT ![u] = [Closed(u) EXCEPT !.pc = After(u, outcome),
                                                          !.known = upload[u].path]]

\* An attempt uses the part file of its path from the moment it looks at its
\* length until the file is moved by this path, which a body that waits for its
\* digest still is to be.
Using == {"checked", "hashing", "writing", "saved", "held"}
OtherUsers(u) == {v \in Uploads \ {u} : upload[v].pc \in Using /\ upload[v].path = upload[u].path}

\* Bookkeeping: a part file is crossed if another attempt uses its path when
\* this one begins to; one that is emptied, or about to be verified, while nobody
\* else uses it is not.
Begins(u, i) == crossed' = IF OtherUsers(u) = {} THEN crossed \ {i} ELSE crossed \cup {i}

\* save_body without a range: the part file is created, or emptied if there is one.
OpenFresh(u) ==
    LET p == upload[u].path IN
    /\ upload[u].pc = "given"
    /\ part[p] # None \/ FreshInodes # {}
    /\ LET i == IF part[p] # None THEN part[p]
                ELSE CHOOSE j \in FreshInodes : \A k \in FreshInodes : j <= k
       IN /\ part' = [part EXCEPT ![p] = i]
          /\ bytes' = [bytes EXCEPT ![i] = <<>>]
          /\ Begins(u, i)
          /\ upload' = [upload EXCEPT ![u].pc = "writing", ![u].known = p, ![u].fd = i,
                                      ![u].append = FALSE, ![u].pos = 0, ![u].sound = TRUE]
    /\ UNCHANGED <<policy, given, consent, mine, runtime, disk, rows, expiring, current, crashes>>

\* save_body with a range, wherever the sender has the offset from: the accept,
\* or the query before a retry.  It is compared with the length of the part file.
CheckLength(u) ==
    LET p == upload[u].path IN
    /\ upload[u].pc = "given" /\ part[p] # None
    /\ Len(bytes[part[p]]) \in 1..Whole
    /\ Begins(u, part[p])
    /\ upload' = [upload EXCEPT ![u].pc = "checked", ![u].known = p,
                                ![u].offset = Len(bytes[part[p]])]
    /\ UNCHANGED <<policy, given, consent, mine, runtime, store, current, crashes>>

\* Then the part file is opened to append, whichever it is by now.
OpenAppend(u) ==
    LET p == upload[u].path IN
    /\ upload[u].pc = "checked" /\ part[p] # None
    /\ upload' = [upload EXCEPT ![u].pc = "hashing", ![u].fd = part[p],
                                ![u].append = TRUE, ![u].pos = 0, ![u].sound = TRUE]
    /\ UNCHANGED <<placing, runtime, store, current, crashes>>

\* hash_prefix: the digest covers the chunks that are there up to the offset,
\* read one at a time; the variant takes them as they are.
Hashed_Trusted(u) == TRUE
Hashed(u) == upload[u].sound /\ bytes[upload[u].fd][upload[u].pos + 1] = Content(u)
HashPrefix(u) ==
    LET next == upload[u].pos + 1 IN
    /\ upload[u].pc = "hashing" /\ next <= Len(bytes[upload[u].fd])
    /\ upload' = [upload EXCEPT ![u].pos = next, ![u].sound = Hashed(u),
                                ![u].pc = IF next = upload[u].offset THEN "writing" ELSE "hashing"]
    /\ UNCHANGED <<placing, runtime, store, current, crashes>>

\* The offset is not right; the part file cannot be opened, or cannot be read up
\* to the offset.  It stays as it is.
OpenFails(u) ==
    /\ upload[u].pc \in {"given", "checked", "hashing"}
    /\ \E outcome \in {"failed", "offset"} :
        /\ outcome = "offset" => upload[u].pc = "given"
        /\ Conclude(u, outcome, FALSE)
    /\ UNCHANGED <<placing, incoming, offered, questions, asked, store, current, crashes>>

\* A chunk arrives.  A resumed file is opened for appending, a new one is
\* written at the handler's own position.
Written(old, u) ==
    IF upload[u].append THEN Append(old, Content(u))
    ELSE [k \in 1..(IF Len(old) > upload[u].pos THEN Len(old) ELSE upload[u].pos + 1) |->
            IF k = upload[u].pos + 1 THEN Content(u)
            ELSE IF k <= Len(old) THEN old[k] ELSE Hole]
WriteChunk(u) ==
    /\ upload[u].pc = "writing" /\ upload[u].pos < Whole
    /\ bytes' = [bytes EXCEPT ![upload[u].fd] = Written(@, u)]
    /\ upload' = [upload EXCEPT ![u].pos = @ + 1]
    /\ UNCHANGED <<placing, runtime, disk, part, rows, expiring, current, crashes>>

\* The body ends early: the part file stays, to be resumed.
EndEarly(u) ==
    /\ upload[u].pc = "writing" /\ upload[u].pos < Whole
    /\ Conclude(u, "interrupted", upload[u].pos > 0)
    /\ UNCHANGED <<placing, incoming, offered, questions, asked, store, current, crashes>>

\* The body is too long, or cannot be written: the part file is removed.
FailSave(u) ==
    /\ upload[u].pc = "writing"
    /\ part' = [part EXCEPT ![upload[u].path] = None]
    /\ Conclude(u, "failed", FALSE)
    /\ UNCHANGED <<placing, incoming, offered, questions, asked, disk, bytes, rows, expiring,
                   current, crashes>>

\* All of it arrived and the file is closed.  A digest that came with the offer
\* is compared: if it differs the part file stays for another attempt.
AllArrived(u) == upload[u].pc = "writing" /\ upload[u].pos = Whole
FinishBody(u) ==
    /\ AllArrived(u) /\ upload[u].sound
    /\ upload' = [upload EXCEPT ![u] = [Closed(u) EXCEPT !.pc = "saved"]]
    /\ UNCHANGED <<placing, runtime, store, current, crashes>>
FindMismatch(u) ==
    /\ AllArrived(u) /\ ~upload[u].sound
    /\ Conclude(u, "mismatch", FALSE)
    /\ UNCHANGED <<placing, incoming, offered, questions, asked, store, current, crashes>>

\* Deferred, the body is parked with its digest (park_upload); without its session
\* it is over, with a result that says it is held.
HoldBody(u) ==
    /\ AllArrived(u)
    /\ IF current = SessionOf(u)
       THEN /\ upload' = [upload EXCEPT ![u] = [Closed(u) EXCEPT
                            !.pc = "held", !.sound = upload[u].sound, !.deferred = TRUE]]
            /\ UNCHANGED results
       ELSE Conclude(u, "held", FALSE)
    /\ UNCHANGED <<placing, incoming, offered, questions, asked, store, current, crashes>>

\* confirm_checksum: the parked body is taken out and the digests are compared; if
\* they differ the part file of the path is removed.
ConfirmMatch(u) ==
    /\ upload[u].pc = "held" /\ current = SessionOf(u) /\ upload[u].sound
    /\ upload' = [upload EXCEPT ![u].pc = "saved"]
    /\ UNCHANGED <<placing, runtime, store, current, crashes>>
ConfirmMismatch(u) ==
    /\ upload[u].pc = "held" /\ current = SessionOf(u) /\ ~upload[u].sound
    /\ part' = [part EXCEPT ![upload[u].path] = None]
    /\ Conclude(u, "mismatch", FALSE)
    /\ UNCHANGED <<placing, incoming, offered, questions, asked, disk, bytes, rows, expiring,
                   current, crashes>>

\* finish_part, at the end of the body or in the confirmation: the file that is
\* the part file of the path gets its name, whatever had it before.
MoveIntoPlace(u) ==
    LET p == upload[u].path IN
    /\ upload[u].pc = "saved" /\ part[p] # None
    /\ disk' = [disk EXCEPT ![p] = part[p]]
    /\ part' = [part EXCEPT ![p] = None]
    /\ upload' = [upload EXCEPT ![u].pc = "placed"]
    /\ UNCHANGED <<placing, runtime, bytes, rows, expiring, current, crashes>>
MoveFails(u) ==
    /\ upload[u].pc = "saved" /\ part[upload[u].path] = None
    /\ Conclude(u, "failed", FALSE)
    /\ UNCHANGED <<placing, incoming, offered, questions, asked, store, current, crashes>>

Report(u) ==
    /\ upload[u].pc = "placed"
    /\ Conclude(u, "success", TRUE)
    /\ UNCHANGED <<placing, incoming, offered, questions, asked, store, current, crashes>>

\* The connection goes away.  UploadGuard settles the file as interrupted and, if
\* the handler had taken its path, tells the runtime what the part file holds when
\* a later task looks.
DropUpload(u) ==
    /\ upload[u].pc \in {"given", "checked", "hashing", "writing", "saved", "placed"}
    /\ ~upload[u].deferred
    /\ \E received \in BOOLEAN : Conclude(u, "interrupted", received)
    /\ UNCHANGED <<placing, incoming, offered, questions, asked, store, current, crashes>>
DropUnplaced(u) ==
    /\ upload[u].pc \in {"asking", "given"} /\ upload[u].known = None
    /\ upload' = [upload EXCEPT ![u] = [Closed(u) EXCEPT !.pc = After(u, "interrupted")]]
    /\ UNCHANGED <<placing, runtime, store, current, crashes>>

\* A confirmation has no guard: its file is left as it is, and nobody is told.
DropConfirmation(u) ==
    /\ upload[u].pc \in {"saved", "placed"} /\ upload[u].deferred
    /\ upload' = [upload EXCEPT ![u] = [Closed(u) EXCEPT !.pc = "over"]]
    /\ UNCHANGED <<placing, runtime, store, current, crashes>>

------------------------------------------------------------------------------
(* Partial uploads.                                                        *)

\* on_file_result: an interrupted upload stays filed while its session lives,
\* anything else ends its record.
HearResult(r) ==
    /\ r \in results
    /\ results' = results \ {r}
    /\ rows' = IF /\ r.outcome = "interrupted" /\ r.received
                  /\ incoming.sid = SessionOf(r.upload)
               THEN IF rows[r.path] = None THEN rows
                    ELSE [rows EXCEPT ![r.path].old = FALSE]
               ELSE [rows EXCEPT ![r.path] = None]
    /\ UNCHANGED <<placing, incoming, offered, questions, asked, disk, part, bytes, expiring,
                   current, upload, crashes>>

\* The program dies, or is stopped, and is started again, perhaps more than
\* RESUME_WINDOW later.  Files and database survive; the server runs before old
\* partial uploads are expired.
Restart ==
    /\ crashes < MaxCrashes
    /\ crashes' = crashes + 1
    /\ current' = None /\ incoming' = NoInfo
    /\ offered' = {} /\ questions' = {} /\ results' = {}
    /\ asked' = [u \in Uploads |-> 0]
    /\ upload' = [u \in Uploads |->
                    IF \/ upload[u] = NoUpload /\ SessionOf(u) # current
                       \/ upload[u].pc \in {"done", "failed"}
                    THEN upload[u] ELSE [Closed(u) EXCEPT !.pc = "over"]]
    /\ \E old \in BOOLEAN :
        rows' = [p \in Paths |-> IF rows[p] = None THEN None ELSE [rows[p] EXCEPT !.old = old]]
    /\ expiring' = {None}
    /\ UNCHANGED <<placing, disk, part, bytes>>

\* expire_partials: the rows go first, then the files, one after the other.
ExpireRows ==
    /\ expiring = {None}
    /\ LET old == {p \in Paths : rows[p] # None /\ rows[p].old}
       IN /\ expiring' = old
          /\ rows' = [p \in Paths |-> IF p \in old THEN None ELSE rows[p]]
    /\ UNCHANGED <<placing, runtime, disk, part, bytes, current, upload, crashes>>
ExpirePart(p) ==
    /\ p \in expiring \ {None}
    /\ expiring' = expiring \ {p}
    /\ part' = [part EXCEPT ![p] = None]
    /\ UNCHANGED <<placing, runtime, disk, bytes, rows, current, upload, crashes>>

------------------------------------------------------------------------------

UploadStep(u) ==
    \/ BeginUpload(u)
    \/ \E try \in 1..MaxTries : PlaceUpload(u, try) \/ AskUser(u, try) \/ RejectUpload(u, try)
    \/ OpenFresh(u) \/ CheckLength(u) \/ OpenAppend(u) \/ HashPrefix(u) \/ OpenFails(u)
    \/ WriteChunk(u) \/ EndEarly(u) \/ FailSave(u) \/ FinishBody(u) \/ FindMismatch(u)
    \/ HoldBody(u) \/ ConfirmMatch(u) \/ ConfirmMismatch(u)
    \/ MoveIntoPlace(u) \/ MoveFails(u) \/ Report(u)
    \/ DropUpload(u) \/ DropUnplaced(u) \/ DropConfirmation(u)

PlacementNext ==
    \/ \E s \in Sessions : Accept(s) \/ EndSession(s)
    \/ HearEnd
    \/ \E u \in Uploads : UploadStep(u)
    \/ \E q \in questions, overwrite \in BOOLEAN : Answer(q, overwrite)
    \/ \E r \in results : HearResult(r)
    \/ Restart \/ ExpireRows
    \/ \E p \in Paths : ExpirePart(p)

PlacementSpec == PlacementInit /\ [][PlacementNext]_placementVars

------------------------------------------------------------------------------
(* Properties.                                                             *)

Outcomes == {"success", "failed", "offset", "interrupted", "mismatch", "held"}
OrNone(S) == S \cup {None}

StoreTypeOK ==
    /\ disk \in [Paths -> OrNone(Inodes)] /\ part \in [Paths -> OrNone(Inodes)]
    /\ bytes \in [Inodes -> Seq(Contents \cup {Mine, Hole})]
    /\ rows \in [Paths -> OrNone([content : Contents, sender : Senders, old : BOOLEAN])]
    /\ expiring \in SUBSET OrNone(Paths)
RuntimeTypeOK ==
    /\ incoming \in [sid : OrNone(Sessions), sender : OrNone(Senders),
                     assigned : SUBSET Paths, resume : [Files -> OrNone(Paths)]]
    /\ incoming.sid # None => incoming.sender # None
    /\ offered \subseteq Uploads \X (1..MaxTries)
    /\ questions \subseteq [upload : Uploads, try : 1..MaxTries, existing : Paths, renamed : Paths]
    /\ asked \in [Uploads -> 0..MaxTries]
    /\ results \subseteq [upload : Uploads, path : Paths, outcome : Outcomes, received : BOOLEAN]
UploadStates == [pc : {"pending", "asking", "given", "checked", "hashing", "writing", "held",
                       "saved", "placed", "done", "failed", "over"},
                 try : 0..MaxTries, known : OrNone(Paths), path : OrNone(Paths),
                 fd : OrNone(Inodes), append : BOOLEAN, offset : 0..Whole, pos : 0..Whole,
                 sound : BOOLEAN, deferred : BOOLEAN]
HasPath == {"given", "checked", "hashing", "writing", "held", "saved", "placed", "done"}
IsFormed(x) ==
    /\ x.pc \in {"hashing", "writing"} <=> x.fd # None
    /\ x.pc \in HasPath => x.path # None
    /\ x.pc = "checked" => 0 < x.offset
    /\ x.pc = "hashing" => x.pos < x.offset
UploadTypeOK ==
    /\ upload \in [Uploads -> UploadStates]
    /\ \A u \in Uploads : IsFormed(upload[u])
PlacingTypeOK ==
    /\ policy \in Policies
    /\ given \in [Paths -> SUBSET Uploads]
    /\ crossed \in SUBSET Inodes /\ consent \in SUBSET Paths /\ mine \in SUBSET Paths

\* The type invariant.  A handler holds a file open exactly while it reads or
\* writes it, not while its body waits for the digest.
PlacementTypeOK ==
    /\ StoreTypeOK /\ RuntimeTypeOK /\ UploadTypeOK /\ PlacingTypeOK
    /\ current \in OrNone(Sessions)
    /\ crashes \in 0..MaxCrashes

WholeOf(u) == [k \in 1..Whole |-> Content(u)]

\* What carries the name of a received file is one offered file, complete and
\* unmixed, whatever was interrupted, resumed, expired, retried, held back or
\* given the same path on the way, unless the attempt that put it there overlapped
\* with another one on this path: from the look at the part file's length until the
\* move by its path, while the body waits for its digest too.  And a file reported
\* as received is there, unless another one was given its path.
IsReceived(i, p) == bytes[i] \in {<<Mine>>} \cup {WholeOf(u) : u \in given[p]}
FinishedIsIntact ==
    /\ \A p \in Paths : disk[p] \notin crossed \cup {None} => IsReceived(disk[p], p)
    /\ \A u \in Uploads : upload[u].pc = "done" =>
          /\ disk[upload[u].path] # None
          /\ \/ bytes[disk[upload[u].path]] = WholeOf(u)
             \/ disk[upload[u].path] \in crossed
             \/ \E v \in given[upload[u].path] : Content(v) # Content(u)

\* docs/dev-brief.md:68 says that every file is verified when it has been
\* transferred, and a file that does not match is marked as failed: without the
\* exemption, so that overlapping attempts on one path count as well.
PlacedIsVerified == \A p \in Paths : disk[p] # None => IsReceived(disk[p], p)

\* A file that was there before is replaced only if the user chose to overwrite,
\* in the settings or in answer to the question about that very file.
MineIsKept ==
    \A p \in mine : \/ disk[p] # None /\ bytes[disk[p]] = <<Mine>>
                    \/ policy = "overwrite" \/ p \in consent

\* Two files of one session are given the same path only where a name is not
\* reserved when it is chosen: under the policy that overwrites, for a resumed
\* file, or while a question is open.  Files renamed by policy are kept apart.
IsUnreserved(p) == \/ policy = "overwrite"
                   \/ policy = "ask" /\ (p[2] # 0 \/ p \in consent)
SharedOnlyUnreserved ==
    \A p \in Paths : \A u, v \in given[p] :
        u # v /\ SessionOf(u) = SessionOf(v) /\ incoming.sid = SessionOf(u) =>
            IsUnreserved(p) \/ IsResumed(u) \/ IsResumed(v)

==============================================================================
