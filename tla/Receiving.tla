------------------------------ MODULE Receiving ------------------------------
(***************************************************************************)
(* The receiving side as a whole: the server of UploadSession together     *)
(* with the runtime that takes its events one at a time, keeps the list of *)
(* transfers the interface shows, and answers for the user                 *)
(* (crates/core/src/runtime/incoming.rs and the transfer bookkeeping of    *)
(* runtime/mod.rs).                                                        *)
(*                                                                         *)
(* The event loop is one task.  The commands of the user run on other      *)
(* threads, the server's handlers on others still; they meet in four       *)
(* locks, taken one after the other and never held across a step.          *)
(***************************************************************************)
EXTENDS UploadSession

CONSTANTS AutoAccept    \* BOOLEAN: the sender may be a paired, trusted device

ASSUME AutoAcceptAssumption == AutoAccept \in BOOLEAN

VARIABLES
    transfer,     \* per session: state of its TransferView, "none" if absent
    view,         \* per session and file: state of the file in that view
    question,     \* pending.incoming: the session the user is asked about
    incoming,     \* SessionInfo of the accepted session
    accepting,    \* per session: how far it is on the way to a session
    loop,         \* the session whose request keeps the event loop, if any
    conflicts,    \* <<request, session, file>> waiting for a conflict answer
    disturbed     \* history: sessions that met one of the races named below

runtimeVars == <<transfer, view, question, incoming, accepting, loop, conflicts>>
receiveVars == <<vars, runtimeVars, disturbed>>

FinalStates == {"Finished", "Failed", "Cancelled", "Declined"}
TransferStates == {"none", "WaitingAccept", "Active"} \cup FinalStates
OpenFileStates == {"Pending", "Active"}
FileViewStates == OpenFileStates \cup {"Finished", "Failed", "Cancelled", "Skipped"}

NoIncoming == [sid |-> NoSession, failed |-> 0, received |-> {}]
NewIncoming(s) == [NoIncoming EXCEPT !.sid = s]
FreshView == [f \in Files |-> "Pending"]

ReceiveInit ==
    /\ Init
    /\ transfer = [s \in Sessions |-> "none"]
    /\ view = [s \in Sessions |-> FreshView]
    /\ question = NoSession
    /\ incoming = NoIncoming
    /\ accepting = [s \in Sessions |-> "no"]
    /\ loop = NoSession
    /\ conflicts = {}
    /\ disturbed = {}

------------------------------------------------------------------------------
(* Transfer bookkeeping.                                                   *)

\* What complete_transfer makes of the files that are still open; the variant
\* has no arm for cancelled transfers.
ClosedAs_Skipping(state) == IF state = "Declined" THEN "Skipped" ELSE "Finished"
ClosedAs(state) == CASE state = "Finished" -> "Finished"
                     [] state = "Cancelled" -> "Cancelled"
                     [] state = "Declined" -> "Skipped"
                     [] OTHER -> "Failed"

\* Only files that are still open get a state from their transfer.
IsOpen(state) == state \in OpenFileStates

\* complete_transfer leaves a final or removed transfer alone; the variant
\* completes a transfer again.
CanComplete_Again(s) == transfer[s] # "none"
CanComplete(s) == transfer[s] \notin {"none"} \cup FinalStates

CompleteTransfer(s, state) ==
    IF CanComplete(s)
    THEN /\ transfer' = [transfer EXCEPT ![s] = state]
         /\ view' = [view EXCEPT ![s] =
                [f \in Files |-> IF IsOpen(@[f]) THEN ClosedAs(state) ELSE @[f]]]
    ELSE UNCHANGED <<transfer, view>>

RemoveTransfer(s) == /\ transfer' = [transfer EXCEPT ![s] = "none"]
                     /\ view' = [view EXCEPT ![s] = FreshView]

\* finish_file and the assignment of a path do not look at the transfer.
ShowFile(s, f, state) ==
    view' = IF transfer[s] = "none" THEN view
            ELSE [view EXCEPT ![s][f] = state]

\* The oneshot reaches the waiting prepare-upload handler, if there is one.
AnswerPrepare(s, answer) ==
    prep' = IF prep[s] = "waiting" THEN [prep EXCEPT ![s] = answer] ELSE prep

\* The oneshot reaches the upload handler that asked, if it is still there.
AnswerTarget(r, answer) ==
    req' = IF req[r].pc = "asked" THEN [req EXCEPT ![r].pc = answer] ELSE req

\* The history of sessions for which nothing is promised: those whose question
\* or accept overlapped with another accept, a cancel, or the end of the request
\* or of the session, and those that lost the connection of an upload.
Disturb(ss) == disturbed' = disturbed \cup ss

------------------------------------------------------------------------------
(* The event loop: one action per event it takes from the channel.         *)

\* The accepted session is the one the event is about; the variant only looks
\* whether there is one.
IsIncoming_Any(s) == incoming.sid # NoSession
IsIncoming(s) == incoming.sid = s

First == channel[1]

\* The loop is free and the next event is of the given type.
Takes(type) == /\ loop = NoSession
               /\ channel # <<>>
               /\ First.type = type
               /\ channel' = Tail(channel)

serverRest == <<slot, withdrawn, features, files, idle, placed, told, spawned>>

\* on_prepare_upload for a user to decide: the interface sees the transfer
\* before its question is registered.
OnPrepareAsk ==
    LET s == First.sid
    IN  /\ Takes("PrepareUpload")
        /\ transfer' = [transfer EXCEPT ![s] = "WaitingAccept"]
        /\ accepting' = [accepting EXCEPT ![s] = "offered"]
        /\ loop' = s
        /\ UNCHANGED <<serverRest, prep, req, view, question, incoming,
                       conflicts, disturbed>>

\* A variant that overwrites the older question without declining it.
DeclinePrevious_Forgets == UNCHANGED <<prep, transfer, view>>

\* decline_incoming of a request a newer one replaced.
DeclinePrevious ==
    IF question = NoSession
    THEN UNCHANGED <<prep, transfer, view>>
    ELSE AnswerPrepare(question, "declined") /\ CompleteTransfer(question, "Declined")

\* The event loop goes on after a request was dealt with; the variant does not.
LoopAfter_Stuck(s) == loop' = loop
LoopAfter(s) == loop' = IF loop = s THEN NoSession ELSE loop

\* The question is registered; an older one is declined.
RegisterQuestion(s) ==
    /\ accepting[s] = "offered"
    /\ accepting' = [accepting EXCEPT ![s] = "no"]
    /\ question' = s
    /\ DeclinePrevious
    /\ LoopAfter(s)
    /\ UNCHANGED <<serverRest, req, channel, incoming, conflicts, disturbed>>

\* on_prepare_upload of a paired device: the loop accepts by itself.
OnPrepareAuto ==
    LET s == First.sid
    IN  /\ Takes("PrepareUpload")
        /\ AutoAccept
        /\ transfer' = [transfer EXCEPT ![s] = "Active"]
        /\ accepting' = [accepting EXCEPT ![s] = "taken"]
        /\ loop' = s
        /\ UNCHANGED <<serverRest, prep, req, view, question, incoming,
                       conflicts, disturbed>>

\* PrepareUploadAborted: forget the question, if it is still the pending one.
OnPrepareAborted ==
    LET s == First.sid
    IN  /\ Takes("PrepareUploadAborted")
        /\ IF question = s
           THEN question' = NoSession /\ RemoveTransfer(s)
           ELSE UNCHANGED <<question, transfer, view>>
        /\ UNCHANGED <<serverRest, prep, req, incoming, accepting, loop,
                       conflicts, disturbed>>

AssignUpload(r, s, f) == ShowFile(s, f, "Active") /\ AnswerTarget(r, "assigned")

\* on_file_upload: the file gets a path at once, or the user is asked about an
\* existing file, or the file is refused: no session, or no usable name.
OnFileUpload ==
    LET e == First
    IN  /\ Takes("FileUpload")
        /\ \/ /\ IsIncoming(e.sid)
              /\ AssignUpload(e.req, e.sid, e.file)
              /\ UNCHANGED conflicts
           \/ /\ IsIncoming(e.sid)
              /\ conflicts' = conflicts \cup {<<e.req, e.sid, e.file>>}
              /\ UNCHANGED <<view, req>>
           \/ /\ ShowFile(e.sid, e.file, "Failed")
              /\ AnswerTarget(e.req, "rejected")
              /\ UNCHANGED conflicts
        /\ UNCHANGED <<serverRest, prep, transfer, question, incoming, accepting,
                       loop, disturbed>>

\* The conflict was answered, or its 30 seconds are over.
ConflictAnswered(c) ==
    /\ c \in conflicts
    /\ conflicts' = conflicts \ {c}
    /\ AssignUpload(c[1], c[2], c[3])
    /\ UNCHANGED <<serverRest, prep, channel, transfer, question, incoming,
                   accepting, loop, disturbed>>

\* An interruption is retried by the sender if bytes were kept for it.
KeptPartial(e, kept) ==
    /\ e.outcome = "Interrupted"
    /\ IsIncoming(e.sid)
    /\ "resume" \in features[e.sid]
    /\ kept

CountFailure == IF incoming.sid = NoSession THEN incoming
                ELSE [incoming EXCEPT !.failed = @ + 1]
CountReceived(e) == IF incoming.sid = NoSession THEN incoming
                    ELSE [incoming EXCEPT !.received = @ \cup {<<e.sid, e.file>>}]

\* on_file_result: the accepted session is credited whoever sent the result.
OnFileResult(kept) ==
    LET e == First
    IN  /\ Takes("FileUploadResult")
        /\ CASE e.outcome = "Success" ->
                    /\ incoming' = CountReceived(e)
                    /\ ShowFile(e.sid, e.file, "Finished")
             [] KeptPartial(e, kept) -> UNCHANGED <<incoming, view>>
             [] OTHER -> /\ incoming' = CountFailure
                         /\ ShowFile(e.sid, e.file, "Failed")
        /\ UNCHANGED <<serverRest, prep, req, transfer, question, accepting,
                       loop, conflicts, disturbed>>

\* How a session that ended for this reason is summed up.
Summary(reason, failed) ==
    CASE reason = "Finished" /\ failed = 0 -> "Finished"
      [] reason = "Finished" /\ failed # 0 -> "Failed"
      [] OTHER -> "Cancelled"

\* on_session_end, for the accepted session only.
OnSessionEnd ==
    LET e == First
    IN  /\ Takes("SessionEnd")
        /\ IF IsIncoming(e.sid)
           THEN /\ incoming' = NoIncoming
                /\ CompleteTransfer(e.sid, Summary(e.outcome, incoming.failed))
           ELSE UNCHANGED <<incoming, transfer, view>>
        /\ Disturb(IF accepting[e.sid] # "no" THEN {e.sid} ELSE {})
        /\ UNCHANGED <<serverRest, prep, req, question, accepting, loop,
                       conflicts>>

------------------------------------------------------------------------------
(* The user's answers and accept_incoming, on a thread of the user or in    *)
(* the event loop.                                                         *)

\* respond_incoming takes the question first; an accept goes on alone.
UserAccepts(s) ==
    /\ question = s
    /\ question' = NoSession
    /\ accepting' = [accepting EXCEPT ![s] = "taken"]
    /\ UNCHANGED <<vars, transfer, view, incoming, loop, conflicts, disturbed>>

UserDeclines(s) ==
    /\ question = s
    /\ question' = NoSession
    /\ AnswerPrepare(s, "declined")
    /\ CompleteTransfer(s, "Declined")
    /\ UNCHANGED <<serverRest, req, channel, incoming, accepting, loop,
                   conflicts, disturbed>>

\* No directory to receive into: declined and failed.
AcceptFails(s) ==
    /\ accepting[s] = "taken"
    /\ accepting' = [accepting EXCEPT ![s] = "no"]
    /\ AnswerPrepare(s, "declined")
    /\ CompleteTransfer(s, "Failed")
    /\ LoopAfter(s)
    /\ UNCHANGED <<serverRest, req, channel, question, incoming, conflicts,
                   disturbed>>

Others(s) == {incoming.sid} \ {NoSession, s}

\* The session becomes the one being received, whatever was there.
StoreIncoming(s) ==
    /\ accepting[s] = "taken"
    /\ incoming' = NewIncoming(s)
    /\ accepting' = [accepting EXCEPT ![s] = "stored"]
    /\ Disturb(Others(s))
    /\ UNCHANGED <<vars, transfer, view, question, loop, conflicts>>

\* The decision is sent.  If nobody waits for it any more the accepted session
\* and its transfer are forgotten.
SendDecision(s) ==
    /\ accepting[s] = "stored"
    /\ IF prep[s] = "waiting"
       THEN /\ AnswerPrepare(s, "accepted")
            /\ accepting' = [accepting EXCEPT ![s] = "sent"]
            /\ UNCHANGED <<transfer, view, incoming, loop, disturbed>>
       ELSE /\ incoming' = NoIncoming
            /\ RemoveTransfer(s)
            /\ accepting' = [accepting EXCEPT ![s] = "no"]
            /\ LoopAfter(s)
            /\ Disturb(Others(s))
            /\ UNCHANGED prep
    /\ UNCHANGED <<serverRest, req, channel, question, conflicts>>

\* set_transfer_state(Active), unconditionally.
MarkActive(s) ==
    /\ accepting[s] = "sent"
    /\ accepting' = [accepting EXCEPT ![s] = "no"]
    /\ transfer' = IF transfer[s] = "none" THEN transfer
                   ELSE [transfer EXCEPT ![s] = "Active"]
    /\ LoopAfter(s)
    /\ UNCHANGED <<vars, view, question, incoming, conflicts, disturbed>>

\* cancel_transfer by the user: the server's session, if it has come to that,
\* then the question or the transfer.  The accepted session stays recorded.
UserCancels(s) ==
    /\ transfer[s] # "none"
    /\ IF InSession(s)
       THEN DropSession(s)
       ELSE UNCHANGED <<slot, files, idle>>
    /\ IF question = s
       THEN /\ question' = NoSession
            /\ AnswerPrepare(s, "declined")
            /\ CompleteTransfer(s, "Declined")
       ELSE /\ UNCHANGED <<question, prep>>
            /\ CompleteTransfer(s, "Cancelled")
    /\ Disturb(IF accepting[s] # "no" THEN {s} ELSE {})
    /\ UNCHANGED <<withdrawn, features, req, placed, told, channel, spawned,
                   incoming, accepting, loop, conflicts>>

------------------------------------------------------------------------------
(* The specification.                                                      *)

\* The runtime accepts every offered file.
ReceivePrepareNext(s) ==
    \/ \E ext \in FeatureSets : ClaimPending(s, ext)
    \/ AskApplication(s)
    \/ SessionAccepted(s, Files)
    \/ prep[s] = "declined" /\ SessionRefused(s)

\* A request identity is not reused while a conflict task may answer it.
ReceiveRequestNext(r, s, f) ==
    /\ \A c \in conflicts : c[1] # r
    /\ RequestNext(r, s, f)

QuietServerNext ==
    \/ \E s \in Sessions : \/ ReceivePrepareNext(s)
                           \/ CancelPending(s) \/ CancelBySender(s) \/ Touch(s)
                           \/ Reap(s)
    \/ \E r \in Requests : HandlerNext(r) /\ ~BodySaved(r, "Interrupted")
    \/ \E r \in Requests, s \in Sessions, f \in Files : ReceiveRequestNext(r, s, f)
    \/ TenMinutes
    \/ \E e \in spawned : Deliver(e)

\* An accept that was sent is lost when its request ends before it is read.
LostRequest(s) ==
    /\ PrepareWithdrawn(s) \/ SenderGone(s)
    /\ Disturb(IF prep[s] = "accepted" THEN {s} ELSE {})

LostConnection(r) ==
    /\ DropHandler(r) \/ BodySaved(r, "Interrupted")
    /\ Disturb({req[r].sid})

ReceiveServerNext ==
    /\ \/ QuietServerNext /\ UNCHANGED disturbed
       \/ \E s \in Sessions : LostRequest(s)
       \/ \E r \in Requests : LostConnection(r)
    /\ UNCHANGED runtimeVars

LoopNext ==
    \/ OnPrepareAsk
    \/ OnPrepareAuto
    \/ OnPrepareAborted
    \/ OnFileUpload
    \/ \E kept \in BOOLEAN : OnFileResult(kept)
    \/ OnSessionEnd

AcceptNext(s) ==
    \/ RegisterQuestion(s)
    \/ AcceptFails(s) \/ StoreIncoming(s) \/ SendDecision(s) \/ MarkActive(s)

UserNext ==
    \/ \E s \in Sessions : UserAccepts(s) \/ UserDeclines(s) \/ UserCancels(s)
    \/ \E c \in conflicts : ConflictAnswered(c)

ReceiveNext ==
    \/ ReceiveServerNext
    \/ LoopNext
    \/ \E s \in Sessions : AcceptNext(s)
    \/ UserNext

ReceiveSpec == ReceiveInit /\ [][ReceiveNext]_receiveVars

\* The tasks of the server and of the runtime go on, and a conflict question ends
\* after CONFLICT_TIMEOUT.  Senders and the user need not do anything.
ReceiveFairness ==
    /\ WF_receiveVars(LoopNext)
    /\ WF_receiveVars(\E c \in conflicts : ConflictAnswered(c))
    /\ \A s \in Sessions :
          /\ WF_receiveVars(AcceptNext(s))
          /\ WF_receiveVars(/\ prep[s] # "new" /\ ReceivePrepareNext(s)
                            /\ UNCHANGED <<runtimeVars, disturbed>>)
    /\ \A r \in Requests :
          WF_receiveVars(HandlerNext(r) /\ UNCHANGED <<runtimeVars, disturbed>>)
    /\ WF_receiveVars((\E e \in spawned : Deliver(e)) /\ UNCHANGED <<runtimeVars, disturbed>>)

FairReceiveSpec == ReceiveSpec /\ ReceiveFairness

------------------------------------------------------------------------------
(* Properties.                                                             *)

\* Every variable of the runtime keeps its shape, and the event loop is kept by
\* a request only while there is one.
ReceiveTypeOK ==
    /\ transfer \in [Sessions -> TransferStates]
    /\ view \in [Sessions -> [Files -> FileViewStates]]
    /\ question \in Sessions \cup {NoSession}
    /\ incoming \in [sid : Sessions \cup {NoSession}, failed : Nat,
                     received : SUBSET (Sessions \X Files)]
    /\ accepting \in [Sessions -> {"no", "offered", "taken", "stored", "sent"}]
    /\ loop \in Sessions \cup {NoSession}
    /\ loop # NoSession => accepting[loop] # "no"
    /\ conflicts \subseteq Requests \X Sessions \X Files
    /\ disturbed \subseteq Sessions

\* ServerEvent::FileUploadResult says "A file upload finished, successfully or
\* not", and a transfer is summed up from these results.  So a transfer that is
\* reported as finished received every file it shows (on_session_end).
FinishedMeansReceived ==
    \A s \in Sessions : transfer[s] = "Finished" =>
        \A f \in Files : <<s, f>> \in placed

\* A transfer shown as under way that no one is left to end.
Stranded(s) ==
    /\ transfer[s] \in {"WaitingAccept", "Active"}
    /\ question # s
    /\ accepting[s] = "no"
    /\ prep[s] = "done"
    /\ slot # [kind |-> "Active", sid |-> s]
    /\ \A e \in Queued \cup spawned : e.sid # s

\* ServerEvent::PrepareUploadAborted is said to come for a request withdrawn
\* "before it was answered".  So every transfer the runtime shows as under way
\* has a question, an accept, a request, a session or an event that will end it.
NeverStranded == \A s \in Sessions : ~Stranded(s)

Undisturbed == Sessions \ disturbed

\* A file whose checksum did not match is not failed but kept for another
\* upload (ADR-0004, finalize_file).  So a transfer that is reported as failed
\* lacks a file, even when no connection was lost (on_file_result).
FailedMeansMissing ==
    \A s \in Undisturbed : transfer[s] = "Failed" =>
        \E f \in Files : <<s, f>> \notin placed

\* The runtime knows the session the server receives: otherwise every file of
\* it is refused with "no session is being received" (on_file_upload).
SessionIsKnown ==
    \A s \in Undisturbed :
        slot = [kind |-> "Active", sid |-> s] => incoming.sid = s

\* Without one of the named races no transfer is left behind as under way.
UndisturbedEnds == \A s \in Undisturbed : ~Stranded(s)

\* The interface shows a file as received only when it is in place, although
\* complete_transfer marks whatever is open when the session finished; and a file
\* in place is shown as received once its transfer is summed up, also when an
\* earlier attempt failed (results come before SessionEnd).
DiskAgrees ==
    \A s \in Undisturbed, f \in Files :
        /\ view[s][f] = "Finished" => <<s, f>> \in placed
        /\ transfer[s] \in {"Finished", "Failed"} /\ <<s, f>> \in placed
               => view[s][f] = "Finished"

\* docs/adr/0013 says of the decisions of the user that one without an answer times
\* out and takes the conservative default, to decline: no question stays for ever.
QuestionsEnd == \A s \in Sessions : question = s ~> question # s

\* The outcome the user has seen is not taken back: neither a session end that
\* arrives after a cancel, nor the other way round, changes a final transfer.
FinalStays ==
    [][\A s \in Sessions \ disturbed' :
           transfer[s] \in FinalStates => transfer'[s] = transfer[s]]_receiveVars
==============================================================================
