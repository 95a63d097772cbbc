------------------------------- MODULE Sending -------------------------------
(***************************************************************************)
(* The sending side of lan-send against the server of UploadSession: the   *)
(* task that prepares, uploads and reports a transfer, with its PIN        *)
(* question, retries and cancellation (crates/core/src/runtime/outgoing.rs)*)
(* and the HTTP calls it makes (transport/client.rs).                      *)
(*                                                                         *)
(* The senders of all sessions share one address.  A call is a request at  *)
(* the server; its answer, or the loss of the connection, is seen by the   *)
(* task in a later step, and the server may notice a lost connection long  *)
(* after the task did.                                                     *)
(***************************************************************************)
EXTENDS UploadSession

CONSTANTS CreateChecksums,  \* setting: hash what is sent
          PinRequired,      \* the receiver has a PIN
          MaxPinFailures,   \* MAX_PIN_ATTEMPTS
          Parallel          \* setting: parallel_uploads

ASSUME SendingAssumption ==
    /\ CreateChecksums \in BOOLEAN
    /\ PinRequired \in BOOLEAN
    /\ MaxPinFailures \in Nat \ {0}
    /\ Parallel \in Nat \ {0}

VARIABLES
    sender,       \* per session: the task run_send and its transfer view
    task,         \* per session and file: upload_with_retries
    pinFailures,  \* AppState.pin_attempts for the address of the senders
    lossy         \* history: <<session, file>> that lost a connection

senderVars == <<sender, task, pinFailures, lossy>>
sendVars == <<vars, senderVars>>

------------------------------------------------------------------------------
(* State.                                                                  *)

Stages == {"preparing", "pin", "asking", "accepted", "uploading", "done"}
FinalViews == {"Finished", "Failed", "Cancelled", "Declined"}
Views == {"Preparing", "WaitingPin", "Active"} \cup FinalViews

\* The PIN that goes with the next prepare-upload.
Pins == {"none", "wrong", "right"}

\* What a call came back with; "lost" is a transport error, "held" the digest
\* of a receiver that keeps the body until it is confirmed.
Replies == {"ok", "held", "mismatch", "offset", "refused", "lost"}

\* The task of a file: not accepted, about to start an attempt, waiting for an
\* answer, holding one, about to confirm, about to ask for the offset, over.
TaskStates == {"none", "ready", "calling", "answered", "owing", "query",
               "sent", "failed"}

\* Where the task of a file goes on: waiting for r, holding an answer, elsewhere.
Calling(r, attempt) ==
    [pc |-> "calling", attempt |-> attempt, req |-> r, reply |-> "ok"]
Answered(reply, attempt) ==
    [pc |-> "answered", attempt |-> attempt, req |-> NoRequest, reply |-> reply]
At(pc, attempt) ==
    [pc |-> pc, attempt |-> attempt, req |-> NoRequest, reply |-> "ok"]

NoTask == At("none", 0)

\* MAX_ATTEMPTS; the receiver allows the same number.
SenderAttempts == MaxAttempts

SendInit ==
    /\ Init
    /\ sender \in [Sessions -> [stage : {"preparing"}, view : {"Preparing"},
                                cancelled : {FALSE}, pin : Pins]]
    /\ task = [s \in Sessions |-> [f \in Files |-> NoTask]]
    /\ pinFailures = 0
    /\ lossy = {}

Show(s, stage, view) ==
    sender' = [sender EXCEPT ![s].stage = stage, ![s].view = view]
EndSend(s, view) == Show(s, "done", view)

SetTask(s, f, t) == task' = [task EXCEPT ![s][f] = t]

------------------------------------------------------------------------------
(* prepare-upload: the PIN, the slot, the answer.                          *)

\* check_pin: a locked-out address is refused before its PIN is looked at.
PinCheck(s) ==
    CASE ~PinRequired -> "Ok"
      [] PinRequired /\ pinFailures >= MaxPinFailures -> "TooManyAttempts"
      [] PinRequired /\ pinFailures < MaxPinFailures ->
             CASE sender[s].pin = "right" -> "Ok"
               [] sender[s].pin = "wrong" -> "Invalid"
               [] sender[s].pin = "none" -> "Required"

Posting(s, answer) ==
    /\ sender[s].stage = "preparing"
    /\ PinCheck(s) = answer

\* The request claims the slot and waits for the receiver's user.
PostClaims(s) ==
    /\ Posting(s, "Ok")
    /\ \E ext \in FeatureSets : ClaimPending(s, ext)
    /\ Show(s, "asking", "Preparing")
    /\ pinFailures' = 0
    /\ UNCHANGED <<task, lossy>>

\* 409: the transfer fails at once.
PostBusy(s) ==
    /\ Posting(s, "Ok")
    /\ ~SlotIsFree
    /\ EndSend(s, "Failed")
    /\ pinFailures' = 0
    /\ UNCHANGED <<vars, task, lossy>>

\* 401: ask the user for the PIN; a wrong one counts.
PostNeedsPin(s) ==
    /\ \/ Posting(s, "Required") /\ UNCHANGED pinFailures
       \/ Posting(s, "Invalid") /\ pinFailures' = pinFailures + 1
    /\ Show(s, "pin", "WaitingPin")
    /\ UNCHANGED <<vars, task, lossy>>

\* 429: the transfer fails.
PostLocked(s) ==
    /\ Posting(s, "TooManyAttempts")
    /\ EndSend(s, "Failed")
    /\ UNCHANGED <<vars, task, pinFailures, lossy>>

\* PIN_TABLE_CAPACITY wrong PINs from other addresses empty the table.
ForgetFailures ==
    /\ pinFailures > 0
    /\ pinFailures' = 0
    /\ UNCHANGED <<vars, sender, task, lossy>>

\* The user enters a PIN, or closes the question.
EnterPin(s, pin) ==
    /\ sender[s].stage = "pin"
    /\ sender' = [sender EXCEPT ![s] =
                    [stage |-> "preparing", view |-> "Preparing",
                     cancelled |-> @.cancelled, pin |-> pin]]
    /\ UNCHANGED <<vars, task, pinFailures, lossy>>

DismissPin(s) ==
    /\ sender[s].stage = "pin"
    /\ EndSend(s, "Cancelled")
    /\ UNCHANGED <<vars, task, pinFailures, lossy>>

\* The receiver accepts: the 200 with the tokens is on its way.
AcceptedAnswer(s, accepted) ==
    /\ SessionAccepted(s, accepted)
    /\ IF sender[s].stage = "asking"
       THEN /\ Show(s, "accepted", "Preparing")
            /\ task' = [task EXCEPT ![s] =
                  [f \in Files |-> IF f \in accepted THEN At("ready", 0)
                                                    ELSE NoTask]]
       ELSE UNCHANGED <<sender, task>>
    /\ UNCHANGED <<pinFailures, lossy>>

\* 204 or 403: declined.  500: the question was dropped.
RefusedAnswer(s) ==
    /\ \/ SessionRefused(s) /\ (IF sender[s].stage = "asking"
                                THEN EndSend(s, "Declined")
                                ELSE UNCHANGED sender)
       \/ AnswerDropped(s) /\ (IF sender[s].stage = "asking"
                               THEN EndSend(s, "Failed")
                               ELSE UNCHANGED sender)
    /\ UNCHANGED <<task, pinFailures, lossy>>

\* The answer arrives: the uploads start.
TakeAccepted(s) ==
    /\ sender[s].stage = "accepted"
    /\ Show(s, "uploading", "Active")
    /\ UNCHANGED <<vars, task, pinFailures, lossy>>

\* The variant cannot be cancelled while it asks for the PIN.
BeforeUploads_NoPin == {"preparing", "asking", "accepted"}
BeforeUploads == {"preparing", "pin", "asking", "accepted"}

\* The select! on the token: run_send ends without a word to the receiver,
\* which has at most a connection to see closed.
GiveUp(s) ==
    /\ sender[s].stage \in BeforeUploads
    /\ sender[s].cancelled
    /\ EndSend(s, "Cancelled")
    /\ UNCHANGED <<vars, task, pinFailures, lossy>>

\* Nothing to send, no such device, or the connection went away.
PrepareFails(s) ==
    /\ sender[s].stage \in {"preparing", "asking", "accepted"}
    /\ EndSend(s, "Failed")
    /\ UNCHANGED <<vars, task, pinFailures, lossy>>

\* The server notices that the sender hung up.
HungUp(s) ==
    /\ sender[s].stage = "done"
    /\ SenderGone(s)
    /\ UNCHANGED senderVars

\* cancel_transfer of the user, or CancelReceived from the receiver.
CancelSend(s) ==
    /\ sender[s].stage # "done"
    /\ ~sender[s].cancelled
    /\ sender' = [sender EXCEPT ![s].cancelled = TRUE]
    /\ UNCHANGED <<vars, task, pinFailures, lossy>>

------------------------------------------------------------------------------
(* upload_with_retries: an attempt is an upload and, if the receiver holds *)
(* the body, its confirmation; between two attempts the offset is asked.   *)

Running(s) == {f \in Files : task[s][f].pc \notin {"none", "sent", "failed"}
                             /\ task[s][f].attempt > 0}

\* Uploads run `parallel` at a time; one that has started keeps its place.
MayStart(s, f) ==
    /\ sender[s].stage = "uploading"
    /\ task[s][f].pc = "ready"
    /\ task[s][f].attempt > 0 \/ Cardinality(Running(s)) < Parallel

NextAttempt(s, f) == task[s][f].attempt + 1

\* A request that only resets the session's idle clock, if that is running.
TouchOrNothing(s) == IF InSession(s) /\ idle THEN Touch(s) ELSE UNCHANGED vars

\* The upload request reaches a file that is pending.
CallUpload(s, f, r) ==
    /\ MayStart(s, f)
    /\ BeginUpload(r, s, f)
    /\ SetTask(s, f, Calling(r, NextAttempt(s, f)))
    /\ UNCHANGED <<sender, pinFailures, lossy>>

\* It is refused (403, 409), or the receiver cannot be reached.
UploadTurnedAway(s, f) ==
    /\ MayStart(s, f)
    /\ \/ /\ ~(InSession(s) /\ Startable(files[f]))
          /\ TouchOrNothing(s)
          /\ SetTask(s, f, Answered("refused", NextAttempt(s, f)))
          /\ UNCHANGED lossy
       \/ /\ SetTask(s, f, Answered("lost", NextAttempt(s, f)))
          /\ lossy' = lossy \cup {<<s, f>>}
          /\ UNCHANGED vars
    /\ UNCHANGED <<sender, pinFailures>>

Confirming(s, f) == sender[s].stage = "uploading" /\ task[s][f].pc = "owing"

\* confirm_checksum reaches the parked file.
CallConfirm(s, f, r) ==
    /\ Confirming(s, f)
    /\ BeginConfirm(r, s, f)
    /\ SetTask(s, f, Calling(r, task[s][f].attempt))
    /\ UNCHANGED <<sender, pinFailures, lossy>>

\* take_parked has nothing to settle for a finished file (200) and refuses
\* any other; or the receiver cannot be reached.
ConfirmTurnedAway(s, f) ==
    LET done == InSession(s) /\ files[f].status = "Finished"
    IN  /\ Confirming(s, f)
        /\ \/ /\ ~(InSession(s) /\ Confirmable(files[f]))
              /\ TouchOrNothing(s)
              /\ SetTask(s, f, Answered(IF done THEN "ok" ELSE "refused",
                                     task[s][f].attempt))
              /\ UNCHANGED lossy
           \/ /\ SetTask(s, f, Answered("lost", task[s][f].attempt))
              /\ lossy' = lossy \cup {<<s, f>>}
              /\ UNCHANGED vars
        /\ UNCHANGED <<sender, pinFailures>>

\* The status the handlers answer an outcome with, as the client reads it; the
\* variant keeps the error statuses for failures.
ReplyTo_NotFailed(outcome) == IF outcome = "Failed" THEN "refused" ELSE "ok"
ReplyTo(outcome) ==
    CASE outcome \in {"Success", "Held"} -> "ok"
      [] outcome = "HashMismatch" -> "mismatch"
      [] outcome = "OffsetMismatch" -> "offset"
      [] OTHER -> "refused"

WaitsFor(s, f, r) == task[s][f].pc = "calling" /\ task[s][f].req = r

\* The answer of r is on its way to the task that waits for it, if one does.
Answer(r, reply) ==
    task' = [s \in Sessions |-> [f \in Files |->
                IF WaitsFor(s, f, r)
                THEN Answered(reply, task[s][f].attempt)
                ELSE task[s][f]]]

\* The handlers answer: refused by the application, body held, outcome settled.
HandlerAnswers(r) ==
    /\ \/ TargetRefused(r) /\ Answer(r, "refused")
       \/ BodyHeld(r) /\ (IF req'[r] = IdleRequest
                          THEN Answer(r, "held") ELSE UNCHANGED task)
       \/ Finish(r) /\ Answer(r, ReplyTo(req[r].outcome))
    /\ UNCHANGED <<sender, pinFailures, lossy>>

HandlerWorks(r) ==
    /\ \/ AskTarget(r)
       \/ StartSaving(r)
       \/ \E outcome \in SaveOutcomes : BodySaved(r, outcome)
       \/ \E outcome \in SaveOutcomes : Settle(r, outcome)
       \/ Report(r)
    /\ UNCHANGED senderVars

\* The task sees the connection fail, or an answer get lost; the handler of
\* the receiver does not know yet.
LoseConnection(s, f) ==
    /\ sender[s].stage = "uploading"
    /\ task[s][f].pc \in {"calling", "answered"}
    /\ task[s][f].reply # "lost"
    /\ SetTask(s, f, Answered("lost", task[s][f].attempt))
    /\ lossy' = lossy \cup {<<s, f>>}
    /\ UNCHANGED <<vars, sender, pinFailures>>

\* The handler of a connection that no task waits on is dropped.
HandlerDropped(r) ==
    /\ \A s \in Sessions, f \in Files : ~WaitsFor(s, f, r)
    /\ DropHandler(r)
    /\ UNCHANGED senderVars

Resumes(s) == "resume" \in features[s]

\* What upload_with_retries does with an answer: a refusal ends the file, and
\* a digest is confirmed only by a sender that hashed the body.
RetryOrEnd(s, t) ==
    CASE t.reply \in {"mismatch", "offset"} -> "ready"
      [] t.reply = "lost" /\ Resumes(s) -> "query"
      [] OTHER -> "failed"

AfterHeld == IF CreateChecksums THEN "owing" ELSE "sent"

\* Variants: no limit; the limit looked at first; a retry without asking for
\* the offset.
AfterReply_Unlimited(s, t) ==
    CASE t.reply = "ok" -> "sent"
      [] t.reply = "held" -> AfterHeld
      [] OTHER -> RetryOrEnd(s, t)
AfterReply_LimitFirst(s, t) ==
    CASE t.reply = "held" -> AfterHeld
      [] t.reply # "held" /\ t.attempt >= SenderAttempts -> "failed"
      [] t.reply = "ok" /\ t.attempt < SenderAttempts -> "sent"
      [] OTHER -> RetryOrEnd(s, t)
AfterReply_Unasked(s, t) ==
    CASE t.reply = "ok" -> "sent"
      [] t.reply = "held" -> AfterHeld
      [] t.reply \notin {"ok", "held"} /\ t.attempt >= SenderAttempts -> "failed"
      [] OTHER -> "ready"
AfterReply(s, t) ==
    CASE t.reply = "ok" -> "sent"
      [] t.reply = "held" -> AfterHeld
      [] t.reply \notin {"ok", "held"} /\ t.attempt >= SenderAttempts -> "failed"
      [] OTHER -> RetryOrEnd(s, t)

HandleReply(s, f) ==
    /\ sender[s].stage = "uploading"
    /\ task[s][f].pc = "answered"
    /\ SetTask(s, f, At(AfterReply(s, task[s][f]), task[s][f].attempt))
    /\ UNCHANGED <<vars, sender, pinFailures, lossy>>

\* resume_offset, half a second after a lost connection: only a pending file
\* has an offset; a busy, settled or forgotten one is given up, and so is one
\* that cannot be asked about.
QueryOffset(s, f) ==
    /\ sender[s].stage = "uploading"
    /\ task[s][f].pc = "query"
    /\ \/ /\ TouchOrNothing(s)
          /\ SetTask(s, f, At(IF InSession(s) /\ files[f].status = "Pending"
                              THEN "ready" ELSE "failed", task[s][f].attempt))
       \/ /\ SetTask(s, f, At("failed", task[s][f].attempt))
          /\ UNCHANGED vars
    /\ UNCHANGED <<sender, pinFailures, lossy>>

\* The select! on the token drops the upload under way; the offset query is
\* not part of it.
AbandonUpload(s, f) ==
    /\ sender[s].stage = "uploading"
    /\ sender[s].cancelled
    /\ MayStart(s, f) \/ task[s][f].pc \in {"calling", "answered", "owing"}
    /\ SetTask(s, f, At("failed", task[s][f].attempt))
    /\ UNCHANGED <<vars, sender, pinFailures, lossy>>

------------------------------------------------------------------------------
(* The outcome of the transfer.                                            *)

\* In the variant a failed file keeps the transfer open.
TasksOver_Sent(s) == \A f \in Files : task[s][f].pc \in {"none", "sent"}
TasksOver(s) == \A f \in Files : task[s][f].pc \in {"none", "sent", "failed"}
AllSent(s) == \A f \in Files : task[s][f].pc \in {"none", "sent"}

FinishSend(s) ==
    /\ sender[s].stage = "uploading"
    /\ AllSent(s)
    /\ ~sender[s].cancelled
    /\ EndSend(s, "Finished")
    /\ UNCHANGED <<vars, task, pinFailures, lossy>>

\* Cancelled, or a file failed: the receiver is told, if it can be reached and
\* still has the session.
CloseSend(s) ==
    /\ sender[s].stage = "uploading"
    /\ TasksOver(s)
    /\ sender[s].cancelled \/ ~AllSent(s)
    /\ CancelBySender(s) \/ UNCHANGED vars
    /\ EndSend(s, IF sender[s].cancelled THEN "Cancelled" ELSE "Failed")
    /\ UNCHANGED <<task, pinFailures, lossy>>

------------------------------------------------------------------------------
(* The specification.                                                      *)

PostNext(s) == PostClaims(s) \/ PostBusy(s) \/ PostNeedsPin(s) \/ PostLocked(s)

AnswerNext(s) ==
    \/ AskApplication(s) /\ UNCHANGED senderVars
    \/ \E accepted \in SUBSET Files : AcceptedAnswer(s, accepted)
    \/ RefusedAnswer(s)

UserNext(s) ==
    \/ \E pin \in {"wrong", "right"} : EnterPin(s, pin)
    \/ DismissPin(s)
    \/ CancelSend(s)

\* What a task does by itself.
TaskNext(s, f) ==
    \/ \E r \in Requests : CallUpload(s, f, r) \/ CallConfirm(s, f, r)
    \/ UploadTurnedAway(s, f)
    \/ ConfirmTurnedAway(s, f)
    \/ HandleReply(s, f)
    \/ QueryOffset(s, f)
    \/ AbandonUpload(s, f)

EndNext(s) == FinishSend(s) \/ CloseSend(s)

HandleNext(r) == HandlerAnswers(r) \/ HandlerWorks(r)

\* Time, the reaper, the spawned events and the application of the receiver.
RestNext ==
    /\ \/ TenMinutes
       \/ \E s \in Sessions : Reap(s)
       \/ \E e \in spawned : Deliver(e)
       \/ AppNext
    /\ UNCHANGED senderVars

SendNext ==
    \/ \E s \in Sessions : \/ PostNext(s)
                           \/ AnswerNext(s)
                           \/ UserNext(s)
                           \/ TakeAccepted(s)
                           \/ GiveUp(s)
                           \/ PrepareFails(s)
                           \/ HungUp(s)
                           \/ EndNext(s)
    \/ \E s \in Sessions, f \in Files : TaskNext(s, f) \/ LoseConnection(s, f)
    \/ \E r \in Requests : HandleNext(r) \/ HandlerDropped(r)
    \/ ForgetFailures
    \/ RestNext

SendSpec == SendInit /\ [][SendNext]_sendVars

\* The runtime polls the task and the handlers, an attempt ends by the idle
\* timeout of the receiver or a lost connection, the receiver's side goes on as
\* in UploadSession.  Nobody has to enter a PIN, decide, cancel, or notice that
\* a prepare-upload was given up.
SendFairness ==
    /\ \A s \in Sessions :
           /\ WF_sendVars(PostNext(s))
           /\ WF_sendVars(AnswerNext(s))
           /\ WF_sendVars(TakeAccepted(s))
           /\ WF_sendVars(GiveUp(s))
           /\ WF_sendVars(EndNext(s))
           /\ WF_sendVars(Reap(s) /\ UNCHANGED senderVars)
    /\ \A s \in Sessions, f \in Files : WF_sendVars(TaskNext(s, f))
    /\ \A r \in Requests :
           /\ WF_sendVars(HandleNext(r))
           /\ WF_sendVars(/\ \E answer \in {"assigned", "rejected"} :
                                 AppAnswers(r, answer)
                          /\ UNCHANGED senderVars)
    /\ WF_sendVars((\E e \in spawned : Deliver(e)) /\ UNCHANGED senderVars)
    /\ WF_sendVars(TenMinutes /\ UNCHANGED senderVars)
    /\ WF_sendVars(AppTakes /\ UNCHANGED senderVars)

FairSendSpec == SendSpec /\ SendFairness

------------------------------------------------------------------------------
(* Properties.                                                             *)

SenderType == [stage : Stages, view : Views, cancelled : BOOLEAN, pin : Pins]

TaskType == [pc : TaskStates, attempt : 0 .. SenderAttempts,
             req : Requests \cup {NoRequest}, reply : Replies]

\* Every variable keeps its shape; no file is tried more often than
\* MAX_ATTEMPTS and no address guesses the PIN more often than allowed.
SendTypeOK ==
    /\ sender \in [Sessions -> SenderType]
    /\ task \in [Sessions -> [Files -> TaskType]]
    /\ pinFailures \in 0 .. MaxPinFailures
    /\ lossy \subseteq Sessions \X Files

\* A task that waits for an answer waits for a handler that works on its own
\* file: no answer goes to another file, and none is waited for in vain
\* (upload_file_from; the handler outlives the connection, never the reverse).
CallIsServed ==
    \A s \in Sessions, f \in Files :
        task[s][f].pc = "calling" =>
            \E r \in Requests : WaitsFor(s, f, r) /\ Working(r, s, f)

\* The two sides count attempts and retries apart.  When the sender is about to
\* try a file again, the receiver, if it still has the session, waits for it, and
\* when it is about to confirm one, the receiver holds it: neither a retry nor a
\* confirmation of a live session is refused (upload_with_retries against
\* finalize_file, ADR-0017).
CallIsWelcome ==
    \A s \in Sessions, f \in Files : sender[s].stage = "uploading" /\ IsActive(s) =>
        /\ task[s][f].pc = "ready" => files[f].status = "Pending"
        /\ task[s][f].pc = "owing" => Confirmable(files[f])

\* "Only a receiver that answered with its own digest is holding the file and
\* waiting to be told ours" (client.rs:408): then it is told.  No file counts as
\* sent while the receiver waits for its digest.
HeldIsConfirmed ==
    \A s \in Sessions, f \in Files :
        task[s][f].pc = "sent" /\ IsActive(s) => ~files[f].parked

\* A file reported as sent is in place on the receiver, retries, lost answers
\* and confirmations included.  The exception is a session that was ended while
\* a deferred body was on its way.
SentIsReceived ==
    \A s \in Sessions, f \in Files :
        task[s][f].pc = "sent" /\ <<s, f>> \notin placed =>
            "stream" \in features[s] /\ ~IsActive(s)

\* A file reported as failed is not in place, unless a connection was lost or
\* the user cancelled; and when the sender shows a transfer as finished the receiver
\* has let go of the session, so nothing is left open for its idle timeout
\* (upload_with_retries and finish against finalize_file).
OutcomeIsTrue ==
    \A s \in Sessions :
        /\ sender[s].view = "Finished" => ~IsActive(s)
        /\ \A f \in Files : task[s][f].pc = "failed" /\ <<s, f>> \in placed =>
               <<s, f>> \in lossy \/ sender[s].cancelled

\* Uploads come to an end, whatever connections are lost.
UploadsEnd ==
    \A s \in Sessions :
        sender[s].stage = "uploading" ~> sender[s].stage = "done"

\* A cancelled transfer comes to an end at every stage, the question for the
\* PIN included.
CancelEnds ==
    \A s \in Sessions : sender[s].cancelled ~> sender[s].stage = "done"

\* A session whose sender is over, also one that gave up before it learned of
\* the session or whose cancel was lost, does not keep the slot.
OrphanReleased ==
    \A s \in Sessions : sender[s].stage = "done" ~> ~IsActive(s)
==============================================================================
