---------------------------- MODULE UploadSession ----------------------------
(***************************************************************************)
(* The receiving HTTPS server of lan-send: the single upload session, the  *)
(* handlers of prepare-upload, upload, confirm-checksum and cancel, the    *)
(* idle reaper, and the channel through which they tell the application    *)
(* what happened (crates/core/src/transport/server).                       *)
(*                                                                         *)
(* A handler is a future that runs concurrently with the others.  Every    *)
(* lock acquisition and every await is a step, and the future may be       *)
(* dropped at any await because the connection went away.                  *)
(***************************************************************************)
EXTENDS Naturals, Sequences, FiniteSets

CONSTANTS Sessions,         \* session identifiers drawn by prepare-upload
          Files,            \* file identifiers a request may offer
          Requests,         \* concurrent upload / confirm requests
          NoSession, NoFile, NoRequest,
          MaxAttempts,      \* MAX_UPLOAD_ATTEMPTS
          FeatureSets,      \* what a sender may announce
          Digested,         \* the files whose sha256 is sent up front
          ChannelCapacity   \* capacity of the event channel

ASSUME ConstantsAssumption ==
    /\ NoSession \notin Sessions
    /\ NoFile \notin Files
    /\ NoRequest \notin Requests
    /\ MaxAttempts \in Nat \ {0}
    /\ FeatureSets \subseteq SUBSET {"resume", "stream"}
    /\ Digested \subseteq Files
    /\ ChannelCapacity \in Nat \ {0}

VARIABLES
    slot,        \* AppState.session: free, a pending request, or a session
    prep,        \* per session: how far its prepare-upload handler is
    withdrawn,   \* sessions whose pending request got an accepted cancel
    features,    \* per session: the extensions in force for it
    files,       \* the files of the active session
    idle,        \* no request for SESSION_IDLE_TIMEOUT
    req,         \* the upload and confirm handlers
    placed,      \* <<session, file>> renamed into place on disk
    told,        \* <<session, file>> whose sender got a final 200
    channel,     \* mpsc channel to the application
    spawned      \* events in spawned tasks that have not reached the channel

handlerVars == <<prep, withdrawn, features, req>>
outcomeVars == <<placed, told>>
vars == <<slot, prep, withdrawn, features, files, idle, req, placed, told,
          channel, spawned>>

------------------------------------------------------------------------------
(* State.                                                                  *)

FreeSlot == [kind |-> "Free", sid |-> NoSession]
PendingSlot(s) == [kind |-> "Pending", sid |-> s]
ActiveSlot(s) == [kind |-> "Active", sid |-> s]

\* prepare-upload: "waiting" on the select!, then the answer that won.
AnsweredStates == {"accepted", "declined", "dropped"}
PrepStates == {"new", "claimed", "waiting", "done"} \cup AnsweredStates

FileStatuses == {"Absent", "Pending", "InProgress", "AwaitingChecksum",
                 "Finished", "Failed"}

BlankFile == [status |-> "Absent", attempts |-> 0, parked |-> FALSE,
              path |-> FALSE]
NoFiles == [f \in Files |-> BlankFile]
AcceptedFiles(accepted) ==
    [f \in Files |-> IF f \in accepted
                     THEN [BlankFile EXCEPT !.status = "Pending"]
                     ELSE BlankFile]

SaveOutcomes == {"Success", "Held", "HashMismatch", "Interrupted",
                 "OffsetMismatch", "Failed"}
EndReasons == {"Finished", "Cancelled", "TimedOut"}

UploadStates == {"begun", "asked", "assigned", "rejected", "saving",
                 "reporting", "finishing"}
ConfirmStates == {"settling", "reporting", "finishing"}

IdleRequest == [pc |-> "idle", kind |-> "none", sid |-> NoSession,
                file |-> NoFile, outcome |-> "none"]

\* Events carry the sender of the oneshot answer as the handler's identity.
Event(type, s, f, r, outcome) ==
    [type |-> type, sid |-> s, file |-> f, req |-> r, outcome |-> outcome]
SessionEvent(type, s, outcome) == Event(type, s, NoFile, NoRequest, outcome)
RequestEvent(type, r, outcome) ==
    Event(type, req[r].sid, req[r].file, r, outcome)

Events ==
    [type : {"PrepareUpload", "PrepareUploadAborted", "SessionEnd",
             "FileUpload", "FileUploadResult"},
     sid : Sessions, file : Files \cup {NoFile},
     req : Requests \cup {NoRequest},
     outcome : SaveOutcomes \cup EndReasons \cup {"none"}]

Queued == {channel[i] : i \in 1 .. Len(channel)}
HasRoom == Len(channel) < ChannelCapacity

Init == /\ slot = FreeSlot
        /\ prep = [s \in Sessions |-> "new"]
        /\ withdrawn = {}
        /\ features = [s \in Sessions |-> {}]
        /\ files = NoFiles
        /\ idle = FALSE
        /\ req = [r \in Requests |-> IdleRequest]
        /\ placed = {}
        /\ told = {}
        /\ channel = <<>>
        /\ spawned = {}

------------------------------------------------------------------------------
(* prepare-upload: claim the slot, ask the application, wait for an answer *)
(* or for the sender to withdraw, then activate or give the slot back.     *)

\* The variant takes the slot of a session.
SlotIsFree_NoRequest == slot.kind # "Pending"
SlotIsFree == slot = FreeSlot

\* claim_pending; a busy slot is answered 409 and changes nothing.
ClaimPending(s, ext) ==
    /\ prep[s] = "new"
    /\ SlotIsFree
    /\ slot' = PendingSlot(s)
    /\ prep' = [prep EXCEPT ![s] = "claimed"]
    /\ features' = [features EXCEPT ![s] = ext]
    /\ UNCHANGED <<withdrawn, files, idle, req, placed, told, channel, spawned>>

\* The request reaches the event channel.
AskApplication(s) ==
    /\ prep[s] = "claimed"
    /\ HasRoom
    /\ channel' = Append(channel, SessionEvent("PrepareUpload", s, "none"))
    /\ prep' = [prep EXCEPT ![s] = "waiting"]
    /\ UNCHANGED <<slot, withdrawn, features, files, idle, req, placed, told,
                   spawned>>

\* cancel of a pending request: answered OK, the waiting handler is woken.
CancelPending(s) ==
    /\ slot = PendingSlot(s)
    /\ s \notin withdrawn
    /\ withdrawn' = withdrawn \cup {s}
    /\ UNCHANGED <<slot, prep, features, files, idle, req, placed, told,
                   channel, spawned>>

\* activate: replaces whatever the slot holds.
Activate(s, accepted) ==
    /\ slot' = ActiveSlot(s)
    /\ files' = AcceptedFiles(accepted)
    /\ idle' = FALSE

\* The select! took the decision branch and files were accepted.
SessionAccepted(s, accepted) ==
    /\ prep[s] = "accepted"
    /\ accepted # {}
    /\ Activate(s, accepted)
    /\ prep' = [prep EXCEPT ![s] = "done"]
    /\ UNCHANGED <<withdrawn, features, req, placed, told, channel, spawned>>

\* clear_pending frees the slot only of its own pending request.
ClearPending(s) == slot' = IF slot = PendingSlot(s) THEN FreeSlot ELSE slot

\* Declined (403), or accepted without a single file (204).
SessionRefused(s) ==
    /\ prep[s] \in {"declined", "accepted"}
    /\ ClearPending(s)
    /\ prep' = [prep EXCEPT ![s] = "done"]
    /\ UNCHANGED <<withdrawn, features, files, idle, req, placed, told,
                   channel, spawned>>

\* PendingGuard::drop: free the slot and tell the application.
AbortPrepare(s) ==
    /\ ClearPending(s)
    /\ prep' = [prep EXCEPT ![s] = "done"]
    /\ spawned' = spawned
                  \cup {SessionEvent("PrepareUploadAborted", s, "none")}
    /\ UNCHANGED <<withdrawn, features, files, idle, req, placed, told, channel>>

\* A variant that looks at the cancellation only once there is an answer.
PrepareWithdrawn_Answered(s) ==
    prep[s] \in AnsweredStates /\ s \in withdrawn /\ AbortPrepare(s)

\* The select! took the cancellation branch: withdrawn by the sender.
PrepareWithdrawn(s) ==
    /\ prep[s] \in {"waiting"} \cup AnsweredStates
    /\ s \in withdrawn
    /\ AbortPrepare(s)

\* The application dropped the oneshot without an answer.
AnswerDropped(s) == prep[s] = "dropped" /\ AbortPrepare(s)

\* The connection of the sender went away while the handler was suspended.
SenderGone(s) == prep[s] \notin {"new", "done"} /\ AbortPrepare(s)

------------------------------------------------------------------------------
(* Settling a file and ending a session.                                   *)

InSession(s) == slot = ActiveSlot(s)

\* A variant that allows one attempt too many.
MayRetry_OffByOne(file) == file.attempts <= MaxAttempts
MayRetry(file) == file.attempts < MaxAttempts

NextStatus(s, file, outcome) ==
    CASE outcome = "Success" -> "Finished"
      [] outcome \in {"HashMismatch", "OffsetMismatch"} /\ MayRetry(file)
             -> "Pending"
      [] /\ outcome = "Interrupted"
         /\ "resume" \in features[s]
         /\ MayRetry(file)
             -> "Pending"
      [] OTHER -> "Failed"

\* In the variant a body that waits for its digest counts as complete.
IsComplete_Unconfirmed(fs) ==
    \A f \in Files : fs[f].status \notin {"Pending", "InProgress"}
IsComplete(fs) ==
    \A f \in Files : fs[f].status \in {"Absent", "Finished", "Failed"}

\* A file that finalize_file may still settle.
Unsettled(file) == file.status \in {"InProgress", "AwaitingChecksum"}

\* A file that was settled before keeps its status.
SettledFile(s, file, outcome) ==
    IF Unsettled(file)
    THEN [file EXCEPT !.status = NextStatus(s, file, outcome),
                      !.parked = FALSE]
    ELSE file

\* finalize_file together with the SessionEnd its caller emits; `results`
\* are the other events the caller spawns.
FinalizeFile(s, f, outcome, results) ==
    IF InSession(s)
    THEN LET settled == [files EXCEPT ![f] = SettledFile(s, @, outcome)]
         IN  IF IsComplete(settled)
             THEN /\ slot' = FreeSlot
                  /\ files' = NoFiles
                  /\ idle' = FALSE
                  /\ spawned' = spawned \cup results
                         \cup {SessionEvent("SessionEnd", s, "Finished")}
             ELSE /\ slot' = slot
                  /\ files' = settled
                  /\ idle' = FALSE
                  /\ spawned' = spawned \cup results
    ELSE spawned' = spawned \cup results /\ UNCHANGED <<slot, files, idle>>

\* cancel_active / reap_idle: the session is gone, whatever its files do.
DropSession(s) ==
    /\ InSession(s)
    /\ slot' = FreeSlot
    /\ files' = NoFiles
    /\ idle' = FALSE

------------------------------------------------------------------------------
(* upload: begin, ask where to write, write, report, settle.               *)

\* The oneshot of an earlier use of r must be gone: bounds the number of
\* requests whose events are under way, not what a sender may do.
Fresh(r) == /\ req[r] = IdleRequest
            /\ \A e \in Queued \cup spawned : e.req # r

\* The variant forgets that a file awaiting its checksum is busy.
Startable_Awaiting(file) == file.status \in {"Pending", "AwaitingChecksum"}
Startable(file) == file.status = "Pending"

\* begin_upload marks the file in progress and counts the attempt.  With the
\* path of an earlier attempt the body starts at once, without an await.
BeginUpload(r, s, f) ==
    /\ Fresh(r)
    /\ InSession(s)
    /\ Startable(files[f])
    /\ files' = [files EXCEPT ![f].status = "InProgress",
                              ![f].attempts = @ + 1,
                              ![f].parked = FALSE]
    /\ idle' = FALSE
    /\ req' = [req EXCEPT ![r] =
                 [pc |-> IF files[f].path THEN "saving" ELSE "begun",
                  kind |-> "upload", sid |-> s, file |-> f,
                  outcome |-> "none"]]
    /\ UNCHANGED <<slot, prep, withdrawn, features, placed, told, channel,
                   spawned>>

\* A request of the session that changes nothing but its idle clock: refused
\* uploads, confirm of a settled file, the resume query.
Touch(s) ==
    /\ InSession(s)
    /\ idle
    /\ idle' = FALSE
    /\ UNCHANGED <<slot, files, channel, spawned>>
    /\ UNCHANGED <<handlerVars, outcomeVars>>

Goto(r, pc) == req' = [req EXCEPT ![r].pc = pc]

\* The question for a path reaches the event channel.
AskTarget(r) ==
    /\ req[r].pc = "begun"
    /\ HasRoom
    /\ channel' = Append(channel, RequestEvent("FileUpload", r, "none"))
    /\ Goto(r, "asked")
    /\ UNCHANGED <<slot, prep, withdrawn, features, files, idle, placed, told,
                   spawned>>

\* A variant that cannot go on once its session is gone.
StartSaving_InSession(r) ==
    /\ req[r].pc = "assigned"
    /\ InSession(req[r].sid)
    /\ files' = [files EXCEPT ![req[r].file].path = TRUE]
    /\ Goto(r, "saving")
    /\ UNCHANGED <<slot, prep, withdrawn, features, idle, placed, told,
                   channel, spawned>>

\* set_file_path, then the body starts.
StartSaving(r) ==
    /\ req[r].pc = "assigned"
    /\ files' = IF InSession(req[r].sid)
                THEN [files EXCEPT ![req[r].file].path = TRUE]
                ELSE files
    /\ Goto(r, "saving")
    /\ UNCHANGED <<slot, prep, withdrawn, features, idle, placed, told,
                   channel, spawned>>

\* The application refused the file or dropped the question: the file fails
\* and no FileUploadResult is sent.
TargetRefused(r) ==
    /\ req[r].pc = "rejected"
    /\ FinalizeFile(req[r].sid, req[r].file, "Failed", {})
    /\ req' = [req EXCEPT ![r] = IdleRequest]
    /\ UNCHANGED <<prep, withdrawn, features, placed, told, channel>>

\* The sender hashes while uploading and owes the digest (ADR-0017).
Deferred(r) == "stream" \in features[req[r].sid] /\ req[r].file \notin Digested

\* What save_body may return to this handler, Held aside.
PlainOutcomes(r) ==
    {"Interrupted", "Failed"}
    \cup (IF Deferred(r) THEN {} ELSE {"Success"})
    \cup (IF req[r].file \in Digested THEN {"HashMismatch"} ELSE {})
    \cup (IF "resume" \in features[req[r].sid] THEN {"OffsetMismatch"} ELSE {})

Place(r, outcome) ==
    placed' = IF outcome = "Success"
              THEN placed \cup {<<req[r].sid, req[r].file>>}
              ELSE placed

\* save_body returned; on success the part file is in place.
BodySaved(r, outcome) ==
    /\ req[r].pc = "saving"
    /\ outcome \in PlainOutcomes(r)
    /\ Place(r, outcome)
    /\ req' = [req EXCEPT ![r].pc = "reporting", ![r].outcome = outcome]
    /\ UNCHANGED <<slot, prep, withdrawn, features, files, idle, told, channel,
                   spawned>>

\* The whole body is in the part file.  park_upload keeps it there until the
\* digest arrives; when the session is gone the handler carries on as if the
\* upload had an ordinary outcome.
BodyHeld(r) ==
    LET s == req[r].sid
        f == req[r].file
    IN  /\ req[r].pc = "saving"
        /\ Deferred(r)
        /\ IF InSession(s) /\ files[f].status = "InProgress"
           THEN /\ files' = [files EXCEPT ![f].status = "AwaitingChecksum",
                                          ![f].parked = TRUE]
                /\ idle' = FALSE
                /\ req' = [req EXCEPT ![r] = IdleRequest]
           ELSE /\ req' = [req EXCEPT ![r].pc = "reporting",
                                      ![r].outcome = "Held"]
                /\ idle' = (idle /\ ~InSession(s))
                /\ UNCHANGED files
        /\ UNCHANGED <<slot, prep, withdrawn, features, placed, told, channel,
                       spawned>>

\* FileUploadResult goes to the channel before the file is settled.
Report(r) ==
    /\ req[r].pc = "reporting"
    /\ HasRoom
    /\ channel' = Append(channel,
                         RequestEvent("FileUploadResult", r, req[r].outcome))
    /\ Goto(r, "finishing")
    /\ UNCHANGED <<slot, prep, withdrawn, features, files, idle, placed, told,
                   spawned>>

\* The outcomes the sender is answered 200 for; the variant keeps the error
\* statuses for failures and lets an interruption pass.
AnsweredOk_NotFailed(outcome) == outcome # "Failed"
AnsweredOk(outcome) == outcome \in {"Success", "Held"}

\* finalize_file, SessionEnd when that completed the session, the response.
Finish(r) ==
    /\ req[r].pc = "finishing"
    /\ FinalizeFile(req[r].sid, req[r].file, req[r].outcome, {})
    /\ told' = IF AnsweredOk(req[r].outcome)
               THEN told \cup {<<req[r].sid, req[r].file>>} ELSE told
    /\ req' = [req EXCEPT ![r] = IdleRequest]
    /\ UNCHANGED <<prep, withdrawn, features, placed, channel>>

\* UploadGuard::drop: the connection went away at an await.  The file is
\* settled as interrupted first; the result is spawned afterwards, and only
\* when a path was set.  A rename already handed to the file system happens.
DropUpload(r) ==
    /\ req[r].kind = "upload"
    /\ req[r].pc # "finishing"
    /\ FinalizeFile(req[r].sid, req[r].file, "Interrupted",
           IF req[r].pc \in {"saving", "reporting"}
           THEN {RequestEvent("FileUploadResult", r, "Interrupted")}
           ELSE {})
    /\ \/ UNCHANGED placed
       \/ /\ req[r].pc = "saving"
          /\ ~Deferred(r)
          /\ Place(r, "Success")
    /\ req' = [req EXCEPT ![r] = IdleRequest]
    /\ UNCHANGED <<prep, withdrawn, features, told, channel>>

------------------------------------------------------------------------------
(* confirm-checksum: take the parked upload, compare and move it into      *)
(* place, report, settle.  No guard: a dropped handler settles nothing.    *)

Confirmable(file) == file.status = "AwaitingChecksum" /\ file.parked

\* take_parked.
BeginConfirm(r, s, f) ==
    /\ Fresh(r)
    /\ InSession(s)
    /\ Confirmable(files[f])
    /\ files' = [files EXCEPT ![f].parked = FALSE]
    /\ idle' = FALSE
    /\ req' = [req EXCEPT ![r] =
                 [pc |-> "settling", kind |-> "confirm", sid |-> s, file |-> f,
                  outcome |-> "none"]]
    /\ UNCHANGED <<slot, prep, withdrawn, features, placed, told, channel,
                   spawned>>

\* The digests agree and the part file is moved, or they do not and it is
\* removed, or the move fails.
Settle(r, outcome) ==
    /\ req[r].pc = "settling"
    /\ outcome \in {"Success", "HashMismatch", "Failed"}
    /\ Place(r, outcome)
    /\ req' = [req EXCEPT ![r].pc = "reporting", ![r].outcome = outcome]
    /\ UNCHANGED <<slot, prep, withdrawn, features, files, idle, told, channel,
                   spawned>>

\* The confirming connection went away at an await.
DropConfirm(r) ==
    /\ req[r].kind = "confirm"
    /\ req[r].pc # "finishing"
    /\ \/ UNCHANGED placed
       \/ req[r].pc = "settling" /\ Place(r, "Success")
    /\ req' = [req EXCEPT ![r] = IdleRequest]
    /\ UNCHANGED <<slot, prep, withdrawn, features, files, idle, told, channel,
                   spawned>>

------------------------------------------------------------------------------
(* cancel, the idle reaper, the tasks that carry spawned events.           *)

\* cancel by the sender ends the session and tells the application.
CancelBySender(s) ==
    /\ DropSession(s)
    /\ spawned' = spawned \cup {SessionEvent("SessionEnd", s, "Cancelled")}
    /\ UNCHANGED <<handlerVars, outcomeVars, channel>>

\* cancel_session by the application: no event.
CancelByReceiver(s) ==
    /\ DropSession(s)
    /\ UNCHANGED <<handlerVars, outcomeVars, channel, spawned>>

\* SESSION_IDLE_TIMEOUT passed since the last request of the session.
TenMinutes ==
    /\ slot.kind = "Active"
    /\ ~idle
    /\ idle' = TRUE
    /\ UNCHANGED <<slot, files, channel, spawned>>
    /\ UNCHANGED <<handlerVars, outcomeVars>>

\* The reaper leaves a session alone while a body is being received; the
\* variant also waits for a digest that may never come.
Reapable_Awaiting == idle /\ \A f \in Files : ~Unsettled(files[f])
Reapable == idle /\ \A f \in Files : files[f].status # "InProgress"

Reap(s) ==
    /\ Reapable
    /\ DropSession(s)
    /\ spawned' = spawned \cup {SessionEvent("SessionEnd", s, "TimedOut")}
    /\ UNCHANGED <<handlerVars, outcomeVars, channel>>

\* Spawned senders reach the channel in any order.
Deliver(e) ==
    /\ e \in spawned
    /\ HasRoom
    /\ channel' = Append(channel, e)
    /\ spawned' = spawned \ {e}
    /\ UNCHANGED <<slot, files, idle>>
    /\ UNCHANGED <<handlerVars, outcomeVars>>

------------------------------------------------------------------------------
(* The application on the other end of the channel, at its most general.   *)

\* It takes the next event.
AppTakes ==
    /\ channel # <<>>
    /\ channel' = Tail(channel)
    /\ UNCHANGED <<slot, files, idle, spawned>>
    /\ UNCHANGED <<handlerVars, outcomeVars>>

\* It answers a prepare-upload it has taken, or drops the question.
AppDecides(s, answer) ==
    /\ prep[s] = "waiting"
    /\ SessionEvent("PrepareUpload", s, "none") \notin Queued
    /\ answer \in AnsweredStates
    /\ prep' = [prep EXCEPT ![s] = answer]
    /\ UNCHANGED <<slot, withdrawn, features, files, idle, req, placed, told,
                   channel, spawned>>

\* It answers a question for a path: a path, or a refusal.
AppAnswers(r, answer) ==
    /\ req[r].pc = "asked"
    /\ RequestEvent("FileUpload", r, "none") \notin Queued
    /\ answer \in {"assigned", "rejected"}
    /\ Goto(r, answer)
    /\ UNCHANGED <<slot, prep, withdrawn, features, files, idle, placed, told,
                   channel, spawned>>

------------------------------------------------------------------------------
(* The specification.                                                      *)

PrepareNext(s) ==
    \/ \E ext \in FeatureSets : ClaimPending(s, ext)
    \/ AskApplication(s)
    \/ \E accepted \in SUBSET Files : SessionAccepted(s, accepted)
    \/ SessionRefused(s)
    \/ PrepareWithdrawn(s)
    \/ AnswerDropped(s)

\* What a handler does by itself once it was started.
HandlerNext(r) ==
    \/ AskTarget(r)
    \/ StartSaving(r)
    \/ TargetRefused(r)
    \/ \E outcome \in SaveOutcomes : BodySaved(r, outcome)
    \/ BodyHeld(r)
    \/ \E outcome \in SaveOutcomes : Settle(r, outcome)
    \/ Report(r)
    \/ Finish(r)

DropHandler(r) == DropUpload(r) \/ DropConfirm(r)

RequestNext(r, s, f) == BeginUpload(r, s, f) \/ BeginConfirm(r, s, f)

SenderNext(s) == CancelPending(s) \/ SenderGone(s) \/ CancelBySender(s) \/ Touch(s)

\* Everything but the application's answers and the events it takes.
ServerNext ==
    \/ \E s \in Sessions : PrepareNext(s) \/ SenderNext(s)
    \/ \E r \in Requests : HandlerNext(r) \/ DropHandler(r)
    \/ \E r \in Requests, s \in Sessions, f \in Files : RequestNext(r, s, f)
    \/ TenMinutes
    \/ \E s \in Sessions : Reap(s)
    \/ \E e \in spawned : Deliver(e)

AppNext ==
    \/ AppTakes
    \/ \E s \in Sessions, answer \in AnsweredStates : AppDecides(s, answer)
    \/ \E r \in Requests, answer \in {"assigned", "rejected"} :
           AppAnswers(r, answer)
    \/ \E s \in Sessions : CancelByReceiver(s)

Next == ServerNext \/ AppNext

Spec == Init /\ [][Next]_vars

\* The runtime polls every handler that can go on, save_body gives up on a
\* silent sender (upload_idle_timeout), the reaper ticks, time passes, and the
\* application keeps taking events and answers for paths (the conflict
\* question times out).  Nothing makes the user decide, the sender continue,
\* or anyone cancel.
Fairness ==
    /\ \A s \in Sessions : WF_vars(PrepareNext(s) /\ prep[s] # "new")
    /\ \A r \in Requests : WF_vars(HandlerNext(r))
    /\ WF_vars(\E e \in spawned : Deliver(e))
    /\ WF_vars(TenMinutes)
    /\ \A s \in Sessions : WF_vars(Reap(s))
    /\ WF_vars(AppTakes)
    /\ \A r \in Requests :
           WF_vars(\E answer \in {"assigned", "rejected"} : AppAnswers(r, answer))

FairSpec == Spec /\ Fairness

------------------------------------------------------------------------------
(* Properties.                                                             *)

FileType == [status : FileStatuses, attempts : 0 .. MaxAttempts,
             parked : BOOLEAN, path : BOOLEAN]

RequestType ==
    [pc : {"idle"} \cup UploadStates \cup ConfirmStates,
     kind : {"none", "upload", "confirm"},
     sid : Sessions \cup {NoSession},
     file : Files \cup {NoFile},
     outcome : SaveOutcomes \cup {"none"}]

\* Every variable keeps its shape; attempts never exceed MAX_UPLOAD_ATTEMPTS
\* although begin_upload itself does not look at the limit.
TypeOK ==
    /\ slot \in {FreeSlot} \cup {PendingSlot(s) : s \in Sessions}
                           \cup {ActiveSlot(s) : s \in Sessions}
    /\ prep \in [Sessions -> PrepStates]
    /\ withdrawn \subseteq Sessions
    /\ features \in [Sessions -> SUBSET {"resume", "stream"}]
    /\ files \in [Files -> FileType]
    /\ idle \in BOOLEAN
    /\ req \in [Requests -> RequestType]
    /\ placed \subseteq Sessions \X Files
    /\ told \subseteq Sessions \X Files
    /\ channel \in Seq(Events)
    /\ spawned \subseteq Events

IsActive(s) == slot = [kind |-> "Active", sid |-> s]

\* A request works on file f of session s.
Working(r, s, f) == req[r].sid = s /\ req[r].file = f

\* No two handlers, uploads or confirmations, ever work on the same file of
\* the same session: they would write one part file.  Holds across retries,
\* dropped connections and sessions that end under a handler (begin_upload,
\* take_parked).
OneOwner ==
    \A r1, r2 \in Requests, s \in Sessions, f \in Files :
        Working(r1, s, f) /\ Working(r2, s, f) => r1 = r2

\* A file in progress has a live upload handler, and a live upload handler of
\* the active session finds its file in progress: otherwise the file would
\* hold off the reaper for ever, or be settled twice (UploadGuard).
InProgressOwned ==
    \A s \in Sessions, f \in Files : IsActive(s) =>
        (files[f].status = "InProgress"
            <=> \E r \in Requests : Working(r, s, f) /\ req[r].kind = "upload")

\* A file whose digest is being settled stays AwaitingChecksum and unparked
\* until the confirming handler is done with it (take_parked, finalize_file).
ConfirmHoldsFile ==
    \A r \in Requests : req[r].kind = "confirm" /\ IsActive(req[r].sid) =>
        /\ files[req[r].file].status = "AwaitingChecksum"
        /\ ~files[req[r].file].parked

\* No file is ever in two hands: uploads, confirmations, retries, dropped
\* connections and the end of a session leave each file of the session with exactly
\* the handler its status claims (begin_upload, take_parked, UploadGuard).
FileOwnership == OneOwner /\ InProgressOwned /\ ConfirmHoldsFile

\* Only a file that awaits its checksum has a parked body.
ParkedAwaits ==
    \A f \in Files : files[f].parked => files[f].status = "AwaitingChecksum"

\* A file that was put back to pending can be uploaded once more, and the
\* attempt that is then counted stays within the limit (finalize_file decides
\* this, begin_upload does not check it).
PendingHasAttemptLeft ==
    \A f \in Files : files[f].status = "Pending" => files[f].attempts < MaxAttempts

\* An active session always has a file that can still change: the last file
\* to settle takes the session with it (is_complete in finalize_file).
ActiveIncomplete ==
    slot.kind = "Active" =>
        \E f \in Files :
            files[f].status \in {"Pending", "InProgress", "AwaitingChecksum"}

\* The slot is pending for s exactly while the prepare-upload handler of s is
\* suspended, so `activate` never overwrites another request or session.
PendingSlotHeld ==
    \A s \in Sessions :
        slot = PendingSlot(s) <=> prep[s] \notin {"new", "done"}

\* A session can only be active, or be worked on, after its handler is done.
ActiveWasPrepared ==
    /\ \A s \in Sessions : IsActive(s) => prep[s] = "done"
    /\ \A r \in Requests : req[r].sid # NoSession => prep[req[r].sid] = "done"

\* A file the server counts as finished, or is about to report as received,
\* was renamed into place, also when its digest came in a second request
\* (save_body, confirm_checksum).
SuccessIsPlaced ==
    /\ \A s \in Sessions, f \in Files :
           IsActive(s) /\ files[f].status = "Finished" => <<s, f>> \in placed
    /\ \A r \in Requests :
           req[r].outcome = "Success" => <<req[r].sid, req[r].file>> \in placed

EndOf(s) == SessionEvent("SessionEnd", s, "Finished")

\* Once SessionEnd(Finished) is on its way no handler works for the session
\* any more, and every result that is not yet ahead of it in the channel is
\* the interruption of a dropped upload.  The application sums the session up
\* when SessionEnd arrives, so a late success would be lost.
EndIsLast ==
    \A s \in Sessions :
        /\ EndOf(s) \in Queued \cup spawned =>
               /\ \A r \in Requests : req[r].sid # s
               /\ \A e \in spawned :
                      e.type = "FileUploadResult" /\ e.sid = s
                          => e.outcome = "Interrupted"
        /\ \A i, j \in 1 .. Len(channel) :
               /\ i < j
               /\ channel[i] = EndOf(s)
               /\ channel[j].type = "FileUploadResult"
               /\ channel[j].sid = s
               => channel[j].outcome = "Interrupted"

\* Server::cancel_session says of a cancelled session that uploads in progress
\* still finish; upload answers 200 without a digest only to a sender that has
\* nothing left to do (ADR-0017).  So whoever is told 200 has its file in place.
ToldMeansPlaced == told \subseteq placed

\* The one way to be told 200 for a file that is not in place: the sender owes
\* a digest and the session ended before the body was parked.
ToldIsPlacedOrHeld ==
    \A s \in Sessions, f \in Files : <<s, f>> \in told \ placed =>
        /\ "stream" \in features[s]
        /\ f \notin Digested
        /\ ~IsActive(s)

\* ADR-0004: a cancel that is answered OK releases the slot.  The session of a
\* withdrawn request never becomes active.
WithdrawnNeverActive == \A s \in withdrawn : ~IsActive(s)

\* The slot behaves as SessionSlot promises: claimed when free, activated only
\* by the request that holds it, ended once, never displaced, never revived.
Abstract == INSTANCE SessionSlot WITH
                slot <- slot,
                seen <- {s \in Sessions : prep[s] # "new"}
SlotRefined == Abstract!SlotSpec

\* Every upload and confirm handler comes to an end, whatever the sender, the
\* application and other sessions do meanwhile.
HandlersEnd ==
    \A r \in Requests : req[r] # IdleRequest ~> req[r] = IdleRequest

\* A sender that goes away, even one that never confirms its digests, does
\* not keep the slot: unless requests of the session keep coming for ever, the
\* active session is over again and again (finalize, cancel or reaper).
SlotReleased ==
    []<>(slot.kind # "Active") \/ []<><<\E s \in Sessions : Touch(s)>>_vars

\* A request the sender withdrew gives the slot back although the user never
\* answers it.
WithdrawnReleased ==
    \A s \in Sessions : s \in withdrawn ~> slot # PendingSlot(s)
==============================================================================
