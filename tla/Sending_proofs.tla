--------------------------- MODULE Sending_proofs ---------------------------
(***************************************************************************)
(* Theorems about Sending, for every number of sessions, files, requests   *)
(* and attempts.  The server inside Sending is the server of UploadSession,*)
(* so everything proved of that holds here, and the invariant of the       *)
(* sender's tasks rests on it.                                             *)
(***************************************************************************)
EXTENDS Sending, UploadSession_proofs

------------------------------------------------------------------------------
(* Every step of Sending is a step of the server, or leaves it alone.      *)

LEMMA PrepareServes ==
    ASSUME NEW s \in Sessions,
           \/ PostNext(s) \/ AnswerNext(s) \/ UserNext(s) \/ TakeAccepted(s)
           \/ GiveUp(s) \/ PrepareFails(s) \/ HungUp(s) \/ EndNext(s)
    PROVE  [Next]_vars
<1>1. CASE PostNext(s)
  BY <1>1 DEF PostNext, PostClaims, PostBusy, PostNeedsPin, PostLocked, Next,
              ServerNext, PrepareNext
<1>2. CASE AnswerNext(s)
  BY <1>2 DEF AnswerNext, AcceptedAnswer, RefusedAnswer, Next, ServerNext,
              PrepareNext
<1>3. CASE UserNext(s)
  BY <1>3 DEF UserNext, EnterPin, DismissPin, CancelSend
<1>4. CASE TakeAccepted(s) \/ GiveUp(s) \/ PrepareFails(s)
  BY <1>4 DEF TakeAccepted, GiveUp, PrepareFails
<1>5. CASE HungUp(s) \/ EndNext(s)
  BY <1>5 DEF HungUp, EndNext, FinishSend, CloseSend, Next, ServerNext, SenderNext
<1> QED BY <1>1, <1>2, <1>3, <1>4, <1>5

LEMMA TaskServes ==
    ASSUME NEW s \in Sessions, NEW f \in Files,
           TaskNext(s, f) \/ LoseConnection(s, f)
    PROVE  [Next]_vars
<1>1. ASSUME NEW r \in Requests, CallUpload(s, f, r) \/ CallConfirm(s, f, r)
      PROVE  [Next]_vars
  BY <1>1 DEF CallUpload, CallConfirm, Next, ServerNext, RequestNext
<1>2. TouchOrNothing(s) => [Next]_vars
  BY DEF TouchOrNothing, Next, ServerNext, SenderNext
<1>3. CASE UploadTurnedAway(s, f) \/ ConfirmTurnedAway(s, f) \/ QueryOffset(s, f)
  BY <1>2, <1>3 DEF UploadTurnedAway, ConfirmTurnedAway, QueryOffset
<1>4. CASE HandleReply(s, f) \/ AbandonUpload(s, f) \/ LoseConnection(s, f)
  BY <1>4 DEF HandleReply, AbandonUpload, LoseConnection
<1> QED BY <1>1, <1>3, <1>4 DEF TaskNext

LEMMA HandlerServes ==
    ASSUME NEW r \in Requests, HandleNext(r) \/ HandlerDropped(r)
    PROVE  [Next]_vars
BY DEF HandleNext, HandlerAnswers, HandlerWorks, HandlerDropped, Next,
       ServerNext, HandlerNext

LEMMA StepServes == [SendNext]_sendVars => [Next]_vars
<1> SUFFICES ASSUME [SendNext]_sendVars PROVE [Next]_vars
  OBVIOUS
<1>1. CASE UNCHANGED sendVars
  BY <1>1 DEF sendVars
<1>2. CASE ForgetFailures \/ RestNext
  BY <1>2 DEF ForgetFailures, RestNext, Next, ServerNext
<1> QED BY <1>1, <1>2, PrepareServes, TaskServes, HandlerServes DEF SendNext

\* The server that a real sender talks to is the server of UploadSession: every
\* theorem about that one holds of it, whatever the sender does.
THEOREM SendingServes == SendSpec => Spec
<1>1. SendInit => Init
  BY DEF SendInit
<1> QED BY <1>1, StepServes, PTL DEF SendSpec, Spec

\* The server's invariant, with a real sender in front of it.
THEOREM ServerInvariant == SendSpec => []IInv
BY SendingServes, Invariance, PTL

------------------------------------------------------------------------------
(* The inductive invariant of the senders.                                 *)

\* A task that will start an attempt has one left; one that may have to try
\* again after an answer does not exceed the limit.
AttemptLeft ==
    \A s \in Sessions, f \in Files :
        task[s][f].pc \in {"ready", "query"} => task[s][f].attempt < SenderAttempts

\* An answer 200 that settles a file comes from a handler that answered so, or
\* from take_parked for a file that is finished.
OkIsTold ==
    \A s \in Sessions, f \in Files :
        \/ task[s][f].pc = "sent"
        \/ task[s][f].pc = "answered" /\ task[s][f].reply = "ok"
        => <<s, f>> \in told \cup placed

SendInv == SendTypeOK /\ AttemptLeft /\ CallIsServed

LEMMA SetTaskFacts ==
    ASSUME SendTypeOK, NEW s \in Sessions, NEW f \in Files,
           NEW t \in TaskType, SetTask(s, f, t)
    PROVE  /\ task' \in [Sessions -> [Files -> TaskType]]
           /\ task'[s][f] = t
           /\ \A s2 \in Sessions, f2 \in Files :
                  s2 # s \/ f2 # f => task'[s2][f2] = task[s2][f2]
BY DEF SendTypeOK, SetTask

LEMMA NoTaskType == NoTask \in TaskType
BY ConstantsAssumption DEF NoTask, At, TaskType, TaskStates, Replies, SenderAttempts

LEMMA SendTypeInit == SendInit => SendTypeOK
<1> SUFFICES ASSUME SendInit PROVE SendTypeOK
  OBVIOUS
<1>1. sender \in [Sessions -> SenderType]
  BY DEF SendInit, SenderType, Stages, Views, FinalViews
<1>2. task \in [Sessions -> [Files -> TaskType]]
  BY NoTaskType DEF SendInit
<1>3. pinFailures \in 0 .. MaxPinFailures
  BY SendingAssumption DEF SendInit
<1>. QED BY <1>1, <1>2, <1>3 DEF SendInit, SendTypeOK

LEMMA ShowType ==
    ASSUME SendTypeOK, NEW s \in Sessions, NEW stage \in Stages,
           NEW view \in Views, Show(s, stage, view)
    PROVE  sender' \in [Sessions -> SenderType]
BY DEF SendTypeOK, Show, SenderType

\* The steps of the transfer as a whole.
LEMMA SenderTypeStep ==
    ASSUME SendTypeOK, NEW s \in Sessions,
           \/ PostNext(s) \/ AnswerNext(s) \/ UserNext(s) \/ TakeAccepted(s)
           \/ GiveUp(s) \/ PrepareFails(s) \/ HungUp(s) \/ EndNext(s)
    PROVE  SendTypeOK'
<1>1. sender' \in [Sessions -> SenderType]
  <2>1. CASE PostNext(s) \/ AnswerNext(s)
    BY <2>1, ShowType DEF PostNext, PostClaims, PostBusy, PostNeedsPin,
       PostLocked, AnswerNext, AcceptedAnswer, RefusedAnswer, EndSend, Stages,
       Views, FinalViews, senderVars, SendTypeOK
  <2>2. CASE UserNext(s)
    <3>1. CASE DismissPin(s)
      BY <3>1, ShowType DEF DismissPin, EndSend, Stages, Views, FinalViews
    <3>2. CASE CancelSend(s)
      BY <3>2 DEF CancelSend, SendTypeOK, SenderType
    <3>3. ASSUME NEW pin \in {"wrong", "right"}, EnterPin(s, pin)
          PROVE  sender' \in [Sessions -> SenderType]
      BY <3>3 DEF EnterPin, SendTypeOK, SenderType, Stages, Views, Pins
    <3>. QED BY <2>2, <3>1, <3>2, <3>3 DEF UserNext
  <2>3. CASE TakeAccepted(s) \/ GiveUp(s) \/ PrepareFails(s) \/ EndNext(s)
    BY <2>3, ShowType DEF TakeAccepted, GiveUp, PrepareFails, EndNext,
       FinishSend, CloseSend, EndSend, Stages, Views, FinalViews
  <2>4. CASE HungUp(s)
    BY <2>4 DEF HungUp, senderVars, SendTypeOK
  <2>. QED BY <2>1, <2>2, <2>3, <2>4
<1>2. task' \in [Sessions -> [Files -> TaskType]]
  <2>1. CASE AnswerNext(s)
    <3>1. At("ready", 0) \in TaskType
      BY ConstantsAssumption DEF At, TaskType, TaskStates, Replies, SenderAttempts
    <3>. QED BY <2>1, <3>1, NoTaskType DEF AnswerNext, AcceptedAnswer,
            RefusedAnswer, senderVars, SendTypeOK
  <2>2. CASE ~AnswerNext(s)
    BY <2>2 DEF PostNext, PostClaims, PostBusy, PostNeedsPin, PostLocked,
       UserNext, EnterPin, DismissPin, CancelSend, TakeAccepted, GiveUp,
       PrepareFails, HungUp, EndNext, FinishSend, CloseSend, senderVars,
       SendTypeOK
  <2>. QED BY <2>1, <2>2
<1>3. pinFailures' \in 0 .. MaxPinFailures
  <2>1. CASE PostNext(s)
    BY <2>1, SendingAssumption DEF PostNext, PostClaims, PostBusy, PostNeedsPin,
       PostLocked, Posting, PinCheck, SendTypeOK
  <2>2. CASE ~PostNext(s)
    BY <2>2 DEF AnswerNext, AcceptedAnswer, RefusedAnswer, UserNext, EnterPin,
       DismissPin, CancelSend, TakeAccepted, GiveUp, PrepareFails, HungUp,
       EndNext, FinishSend, CloseSend, senderVars, SendTypeOK
  <2>. QED BY <2>1, <2>2
<1>4. lossy' \subseteq Sessions \X Files
  BY DEF PostNext, PostClaims, PostBusy, PostNeedsPin, PostLocked,
     AnswerNext, AcceptedAnswer, RefusedAnswer, UserNext, EnterPin, DismissPin,
     CancelSend, TakeAccepted, GiveUp, PrepareFails, HungUp, EndNext,
     FinishSend, CloseSend, senderVars, SendTypeOK
<1>. QED BY <1>1, <1>2, <1>3, <1>4 DEF SendTypeOK

\* The three records a task is set to.
LEMMA TaskRecords ==
    ASSUME NEW attempt \in 0 .. SenderAttempts
    PROVE  /\ \A r \in Requests : Calling(r, attempt) \in TaskType
           /\ \A reply \in Replies : Answered(reply, attempt) \in TaskType
           /\ \A pc \in TaskStates : At(pc, attempt) \in TaskType
BY DEF Calling, Answered, At, TaskType, TaskStates, Replies

\* What a step of a file's task leaves alone, and what it may make of the task:
\* a call that has just begun at the receiver, or something that is not a call
\* and changes no handler; an attempt only while one is left; a settling 200
\* only from one that was there, or for a finished file.
TaskMoves(s, f, t) ==
    /\ t \in TaskType
    /\ SetTask(s, f, t)
    /\ \/ \E r \in Requests : /\ t = Calling(r, t.attempt)
                              /\ BeginUpload(r, s, f) \/ BeginConfirm(r, s, f)
       \/ t.pc # "calling" /\ UNCHANGED req
    /\ t.pc \in {"ready", "query"} => t.attempt < SenderAttempts
    /\ CreateChecksums /\ (t.pc = "sent" \/ (t.pc = "answered" /\ t.reply = "ok"))
           => \/ task[s][f].pc = "answered" /\ task[s][f].reply = "ok"
              \/ InSession(s) /\ files[f].status = "Finished"

LEMMA TaskStep ==
    ASSUME SendTypeOK, AttemptLeft, NEW s \in Sessions, NEW f \in Files,
           TaskNext(s, f) \/ LoseConnection(s, f)
    PROVE  \E t : TaskMoves(s, f, t)
<1> DEFINE old == task[s][f]
<1> USE DEF TaskMoves, Calling, Answered, At
<1>1. old \in TaskType /\ old.attempt \in 0 .. SenderAttempts
  BY DEF SendTypeOK, TaskType
<1>2. \A reply \in Replies : Answered(reply, old.attempt) \in TaskType
  BY <1>1, TaskRecords
<1>3. \A pc \in TaskStates : At(pc, old.attempt) \in TaskType
  BY <1>1, TaskRecords
<1>4. TouchOrNothing(s) => UNCHANGED req
  BY DEF TouchOrNothing, Touch, handlerVars, vars
<1>5. ASSUME MayStart(s, f)
      PROVE  NextAttempt(s, f) \in 0 .. SenderAttempts
  BY <1>1, <1>5, ConstantsAssumption
  DEF MayStart, NextAttempt, AttemptLeft, SenderAttempts
<1>6. ASSUME NEW r \in Requests, CallUpload(s, f, r)
      PROVE  \E t : TaskMoves(s, f, t)
  <2>1. Calling(r, NextAttempt(s, f)) \in TaskType
    BY <1>5, <1>6, TaskRecords DEF CallUpload
  <2>. QED BY <1>6, <2>1 DEF CallUpload
<1>7. CASE UploadTurnedAway(s, f)
  <2>1. \A reply \in Replies : Answered(reply, NextAttempt(s, f)) \in TaskType
    BY <1>5, <1>7, TaskRecords DEF UploadTurnedAway
  <2>. QED BY <1>4, <1>7, <2>1 DEF UploadTurnedAway, Replies, vars
<1>8. ASSUME NEW r \in Requests, CallConfirm(s, f, r)
      PROVE  \E t : TaskMoves(s, f, t)
  BY <1>1, <1>8, TaskRecords DEF CallConfirm
<1>9. CASE ConfirmTurnedAway(s, f)
  BY <1>2, <1>4, <1>9 DEF ConfirmTurnedAway, Replies, vars
<1>10. CASE HandleReply(s, f)
  <2>1. AfterReply(s, old) \in TaskStates \ {"none", "calling", "answered"}
    BY DEF AfterReply, AfterHeld, RetryOrEnd, TaskStates
  <2>2. AfterReply(s, old) \in {"ready", "query"} => old.attempt < SenderAttempts
    BY <1>1, ConstantsAssumption DEF AfterReply, AfterHeld, SenderAttempts
  <2>3. CreateChecksums /\ AfterReply(s, old) = "sent" => old.reply = "ok"
    BY DEF AfterReply, AfterHeld, RetryOrEnd
  <2>. QED BY <1>3, <1>10, <2>1, <2>2, <2>3 DEF HandleReply, vars
<1>11. CASE QueryOffset(s, f)
  BY <1>3, <1>4, <1>11 DEF QueryOffset, TaskStates, AttemptLeft, vars
<1>12. CASE LoseConnection(s, f)
  BY <1>2, <1>12 DEF LoseConnection, Replies, vars
<1>13. CASE AbandonUpload(s, f)
  BY <1>3, <1>13 DEF AbandonUpload, TaskStates, vars
<1>. QED BY <1>6, <1>7, <1>8, <1>9, <1>10, <1>11, <1>12, <1>13 DEF TaskNext

LEMMA TaskStepFrame ==
    ASSUME NEW s \in Sessions, NEW f \in Files,
           TaskNext(s, f) \/ LoseConnection(s, f)
    PROVE  /\ UNCHANGED <<sender, pinFailures>>
           /\ lossy' \in {lossy, lossy \cup {<<s, f>>}}
BY DEF TaskNext, CallUpload, CallConfirm, UploadTurnedAway, ConfirmTurnedAway,
       HandleReply, QueryOffset, AbandonUpload, LoseConnection

LEMMA AnswerType ==
    ASSUME SendTypeOK, NEW r \in Requests, NEW reply \in Replies, Answer(r, reply)
    PROVE  task' \in [Sessions -> [Files -> TaskType]]
BY TaskRecords DEF SendTypeOK, Answer, TaskType

LEMMA HandlerTypeStep ==
    ASSUME SendTypeOK, NEW r \in Requests, HandleNext(r) \/ HandlerDropped(r)
    PROVE  SendTypeOK'
<1>1. ReplyTo(req[r].outcome) \in Replies
  BY DEF ReplyTo, Replies
<1>2. CASE HandlerAnswers(r)
  <2>1. task' \in [Sessions -> [Files -> TaskType]]
    <3>1. ASSUME NEW reply \in Replies, Answer(r, reply)
          PROVE  task' \in [Sessions -> [Files -> TaskType]]
      BY <3>1, AnswerType
    <3>. QED BY <1>1, <1>2, <3>1 DEF HandlerAnswers, Replies, SendTypeOK
  <2>. QED BY <1>2, <2>1 DEF HandlerAnswers, SendTypeOK
<1>3. CASE HandlerWorks(r) \/ HandlerDropped(r)
  BY <1>3 DEF HandlerWorks, HandlerDropped, senderVars, SendTypeOK
<1>. QED BY <1>2, <1>3 DEF HandleNext

LEMMA SendTypeStep ==
    ASSUME SendTypeOK, AttemptLeft, [SendNext]_sendVars
    PROVE  SendTypeOK'
<1>1. CASE UNCHANGED sendVars
  BY <1>1 DEF sendVars, senderVars, SendTypeOK
<1>2. CASE ForgetFailures \/ RestNext
  BY <1>2, SendingAssumption DEF ForgetFailures, RestNext, senderVars, SendTypeOK
<1>3. ASSUME NEW s \in Sessions, NEW f \in Files,
             TaskNext(s, f) \/ LoseConnection(s, f)
      PROVE  SendTypeOK'
  <2>1. PICK t : TaskMoves(s, f, t)
    BY <1>3, TaskStep
  <2>2. task' \in [Sessions -> [Files -> TaskType]]
    BY <2>1, SetTaskFacts DEF TaskMoves
  <2>. QED BY <1>3, <2>2, TaskStepFrame DEF SendTypeOK
<1>. QED BY <1>1, <1>2, <1>3, SenderTypeStep, HandlerTypeStep DEF SendNext

------------------------------------------------------------------------------
(* What the rest of the steps makes of the tasks and of the requests.      *)

\* Tasks stay as they are, but for those of a session that was just accepted.
TasksStay ==
    \A s \in Sessions, f \in Files :
        \/ task'[s][f] = task[s][f]
        \/ task'[s][f] \in {NoTask, At("ready", 0)}

\* Whoever works on a file goes on working on it.
WorkersStay ==
    \A r \in Requests : req'[r].sid = req[r].sid /\ req'[r].file = req[r].file

LEMMA WorkersStayWith ==
    ASSUME TypeOK, NEW r \in Requests, NEW new,
           new.sid = req[r].sid, new.file = req[r].file,
           req' = [req EXCEPT ![r] = new]
    PROVE  WorkersStay
BY DEF TypeOK, WorkersStay

LEMMA PrepareFrame ==
    ASSUME SendTypeOK, TypeOK, NEW s \in Sessions,
           \/ PostNext(s) \/ AnswerNext(s) \/ UserNext(s) \/ TakeAccepted(s)
           \/ GiveUp(s) \/ PrepareFails(s) \/ HungUp(s) \/ EndNext(s)
    PROVE  TasksStay /\ UNCHANGED req
<1>1. UNCHANGED req
  BY DEF PostNext, PostClaims, PostBusy, PostNeedsPin, PostLocked, ClaimPending,
     AnswerNext, AskApplication, AcceptedAnswer, SessionAccepted, RefusedAnswer,
     SessionRefused, AnswerDropped, AbortPrepare, UserNext, EnterPin, DismissPin,
     CancelSend, TakeAccepted, GiveUp, PrepareFails, HungUp, SenderGone, EndNext,
     FinishSend, CloseSend, CancelBySender, handlerVars, vars
<1>2. UNCHANGED task \/ \E accepted \in SUBSET Files : AcceptedAnswer(s, accepted)
  BY DEF PostNext, PostClaims, PostBusy, PostNeedsPin, PostLocked,
     AnswerNext, RefusedAnswer, UserNext, EnterPin, DismissPin, CancelSend,
     TakeAccepted, GiveUp, PrepareFails, HungUp, EndNext, FinishSend, CloseSend,
     senderVars
<1>3. ASSUME UNCHANGED task PROVE TasksStay
  BY <1>3 DEF TasksStay
<1>4. ASSUME NEW accepted \in SUBSET Files, AcceptedAnswer(s, accepted)
      PROVE  TasksStay
  BY <1>4 DEF AcceptedAnswer, TasksStay, SendTypeOK
<1>. QED BY <1>1, <1>2, <1>3, <1>4

LEMMA RestFrame ==
    ASSUME TypeOK, ForgetFailures \/ RestNext \/ UNCHANGED sendVars
    PROVE  TasksStay /\ WorkersStay
<1>1. UNCHANGED task
  BY DEF ForgetFailures, RestNext, senderVars, sendVars
<1>2. ASSUME NEW r \in Requests, NEW answer, AppAnswers(r, answer)
      PROVE  WorkersStay
  BY <1>2 DEF AppAnswers, Goto, WorkersStay, TypeOK, RequestType
<1>3. UNCHANGED req \/ \E r \in Requests, answer \in {"assigned", "rejected"} :
                            AppAnswers(r, answer)
  BY DEF ForgetFailures, RestNext, TenMinutes, Reap, Deliver, AppNext, AppTakes,
     AppDecides, CancelByReceiver, handlerVars, vars, sendVars
<1>. QED BY <1>1, <1>2, <1>3 DEF TasksStay, WorkersStay

\* A handler ends only with an answer for whoever waits for it, and a settling
\* 200 is recorded as told.
Answers(r, reply) ==
    /\ Answer(r, reply)
    /\ reply \in Replies
    /\ reply = "ok" => <<req[r].sid, req[r].file>> \in told'
    /\ \A q \in Requests \ {r} : req'[q] = req[q]

LEMMA HandlerFrame ==
    ASSUME TypeOK, NEW r \in Requests, HandleNext(r) \/ HandlerDropped(r)
    PROVE  \/ \E reply : Answers(r, reply)
           \/ UNCHANGED task /\ WorkersStay
           \/ /\ UNCHANGED task
              /\ \A s \in Sessions, f \in Files : ~WaitsFor(s, f, r)
              /\ \A q \in Requests \ {r} : req'[q] = req[q]
<1>1. CASE HandlerWorks(r)
  <2>1. ASSUME NEW outcome, BodySaved(r, outcome) \/ Settle(r, outcome)
        PROVE  WorkersStay
    <3> DEFINE new == [req[r] EXCEPT !.pc = "reporting", !.outcome = outcome]
    <3>1. req' = [req EXCEPT ![r] = new]
      BY <2>1 DEF BodySaved, Settle
    <3>2. new.sid = req[r].sid /\ new.file = req[r].file
      BY DEF TypeOK, RequestType
    <3> HIDE DEF new
    <3>. QED BY <3>1, <3>2, WorkersStayWith
  <2>2. ASSUME NEW pc, Goto(r, pc) PROVE WorkersStay
    <3> DEFINE new == [req[r] EXCEPT !.pc = pc]
    <3>1. req' = [req EXCEPT ![r] = new]
      BY <2>2 DEF Goto
    <3>2. new.sid = req[r].sid /\ new.file = req[r].file
      BY DEF TypeOK, RequestType
    <3> HIDE DEF new
    <3>. QED BY <3>1, <3>2, WorkersStayWith
  <2>3. ASSUME AskTarget(r) \/ StartSaving(r) \/ Report(r) PROVE WorkersStay
    BY <2>2, <2>3 DEF AskTarget, StartSaving, Report
  <2>. QED BY <1>1, <2>1, <2>2, <2>3 DEF HandlerWorks, AskTarget, StartSaving,
           Report, senderVars
<1>2. CASE HandlerDropped(r)
  BY <1>2 DEF HandlerDropped, DropHandler, DropUpload, DropConfirm, senderVars, TypeOK
<1>3. CASE TargetRefused(r) /\ Answer(r, "refused")
  BY <1>3 DEF TargetRefused, Answers, Replies, TypeOK
<1>4. CASE Finish(r) /\ Answer(r, ReplyTo(req[r].outcome))
  <2>1. ReplyTo(req[r].outcome) \in Replies
    BY DEF ReplyTo, Replies
  <2>2. ReplyTo(req[r].outcome) = "ok" => AnsweredOk(req[r].outcome)
    BY DEF ReplyTo, AnsweredOk
  <2>3. /\ AnsweredOk(req[r].outcome) => <<req[r].sid, req[r].file>> \in told'
        /\ \A q \in Requests \ {r} : req'[q] = req[q]
    BY <1>4 DEF Finish, TypeOK
  <2>. QED BY <1>4, <2>1, <2>2, <2>3 DEF Answers
<1>5. CASE BodyHeld(r) /\ Answer(r, "held")
  BY <1>5 DEF BodyHeld, Answers, Replies, TypeOK
<1>6. CASE BodyHeld(r) /\ req'[r] # IdleRequest /\ UNCHANGED task
  BY <1>6 DEF BodyHeld, WorkersStay, TypeOK, RequestType
<1>. QED BY <1>1, <1>2, <1>3, <1>4, <1>5, <1>6 DEF HandleNext, HandlerAnswers

------------------------------------------------------------------------------
(* The steps keep the invariant.                                           *)

LEMMA AttemptLeftStep ==
    ASSUME TypeOK, SendTypeOK, AttemptLeft, [SendNext]_sendVars
    PROVE  AttemptLeft'
<1>1. ASSUME TasksStay PROVE AttemptLeft'
  BY <1>1, ConstantsAssumption
  DEF TasksStay, AttemptLeft, NoTask, At, SenderAttempts
<1>2. ASSUME NEW s \in Sessions, NEW f \in Files,
             TaskNext(s, f) \/ LoseConnection(s, f)
      PROVE  AttemptLeft'
  <2>1. PICK t : TaskMoves(s, f, t)
    BY <1>2, TaskStep
  <2>2. /\ task'[s][f] = t
        /\ \A s2 \in Sessions, f2 \in Files :
               s2 # s \/ f2 # f => task'[s2][f2] = task[s2][f2]
    BY <2>1, SetTaskFacts DEF TaskMoves
  <2>3. t.pc \in {"ready", "query"} => t.attempt < SenderAttempts
    BY <2>1 DEF TaskMoves
  <2>. QED BY <2>2, <2>3 DEF AttemptLeft, SenderAttempts
<1>3. ASSUME NEW r \in Requests, HandleNext(r) \/ HandlerDropped(r)
      PROVE  AttemptLeft'
  <2>1. ASSUME NEW reply, Answers(r, reply) PROVE AttemptLeft'
    <3> SUFFICES ASSUME NEW s \in Sessions, NEW f \in Files,
                        task'[s][f].pc \in {"ready", "query"}
                 PROVE  task'[s][f].attempt < SenderAttempts
      BY DEF AttemptLeft, SenderAttempts
    <3>1. task'[s][f] = task[s][f]
      BY <2>1 DEF Answers, Answer, Answered
    <3>. QED BY <3>1 DEF AttemptLeft
  <2>2. CASE UNCHANGED task
    BY <2>2 DEF AttemptLeft, SenderAttempts
  <2>. QED BY <1>3, <2>1, <2>2, HandlerFrame
<1>. QED BY <1>1, <1>2, <1>3, PrepareFrame, RestFrame DEF SendNext

LEMMA CallIsServedStep ==
    ASSUME TypeOK, SendTypeOK, AttemptLeft, CallIsServed, [SendNext]_sendVars
    PROVE  CallIsServed'
<1> USE DEF WaitsFor, Working
<1>1. ASSUME TasksStay, WorkersStay PROVE CallIsServed'
  BY <1>1 DEF TasksStay, WorkersStay, CallIsServed, NoTask, At
<1>2. ASSUME NEW s \in Sessions, NEW f \in Files,
             TaskNext(s, f) \/ LoseConnection(s, f)
      PROVE  CallIsServed'
  <2>1. PICK t : TaskMoves(s, f, t)
    BY <1>2, TaskStep
  <2>2. /\ task'[s][f] = t
        /\ \A s2 \in Sessions, f2 \in Files :
               s2 # s \/ f2 # f => task'[s2][f2] = task[s2][f2]
    BY <2>1, SetTaskFacts DEF TaskMoves
  <2>3. CASE t.pc # "calling" /\ UNCHANGED req
    BY <2>2, <2>3 DEF CallIsServed
  <2>4. ASSUME NEW r \in Requests, t = Calling(r, t.attempt),
               BeginUpload(r, s, f) \/ BeginConfirm(r, s, f)
        PROVE  CallIsServed'
    <3>1. /\ req[r] = IdleRequest
          /\ req'[r].sid = s
          /\ req'[r].file = f
          /\ \A q \in Requests \ {r} : req'[q] = req[q]
      BY <2>4 DEF BeginUpload, BeginConfirm, Fresh, TypeOK
    <3>2. t.pc = "calling" /\ t.req = r
      BY <2>4 DEF Calling
    <3>3. \A s2 \in Sessions, q \in Requests : req[q].sid = s2 => q # r
      BY <3>1, ConstantsAssumption DEF IdleRequest
    <3>. QED BY <2>2, <3>1, <3>2, <3>3 DEF CallIsServed
  <2>. QED BY <2>1, <2>3, <2>4 DEF TaskMoves
<1>3. ASSUME NEW r \in Requests, HandleNext(r) \/ HandlerDropped(r)
      PROVE  CallIsServed'
  <2>1. ASSUME NEW reply, Answers(r, reply) PROVE CallIsServed'
    <3> SUFFICES ASSUME NEW s \in Sessions, NEW f \in Files,
                        task'[s][f].pc = "calling"
                 PROVE  \E q \in Requests : (WaitsFor(s, f, q) /\ Working(q, s, f))'
      BY DEF CallIsServed
    <3>1. ~WaitsFor(s, f, r) /\ task'[s][f] = task[s][f]
      BY <2>1, task'[s][f].pc = "calling" DEF Answers, Answer, Answered
    <3>2. PICK q \in Requests : WaitsFor(s, f, q) /\ Working(q, s, f)
      BY <3>1 DEF CallIsServed
    <3>. QED BY <2>1, <3>1, <3>2 DEF Answers
  <2>2. CASE UNCHANGED task /\ WorkersStay
    BY <1>1, <2>2 DEF TasksStay
  <2>3. CASE /\ UNCHANGED task
             /\ \A s \in Sessions, f \in Files : ~WaitsFor(s, f, r)
             /\ \A q \in Requests \ {r} : req'[q] = req[q]
    BY <2>3 DEF CallIsServed
  <2>. QED BY <1>3, <2>1, <2>2, <2>3, HandlerFrame
<1>4. UNCHANGED req => WorkersStay
  BY DEF WorkersStay
<1>. QED BY <1>1, <1>2, <1>3, <1>4, PrepareFrame, RestFrame DEF SendNext

\* told and placed only grow, and a finished file was placed.
LEMMA RecordsGrow ==
    ASSUME IInv, [Next]_vars
    PROVE  /\ told \cup placed \subseteq told' \cup placed'
           /\ \A s \in Sessions, f \in Files :
                  InSession(s) /\ files[f].status = "Finished" => <<s, f>> \in placed
<1>1. placed \subseteq placed'
  BY OutcomeFrames
<1>2. told \subseteq told'
  <2>1. ASSUME NEW r \in Requests, Finish(r) PROVE told \subseteq told'
    BY <2>1 DEF Finish
  <2>. QED BY <2>1, OutcomeFrames
<1>3. SuccessIsPlaced
  BY DEF IInv, Outcomes
<1>. QED BY <1>1, <1>2, <1>3
     DEF SuccessIsPlaced, InSession, IsActive, ActiveSlot

LEMMA OkIsToldStep ==
    ASSUME CreateChecksums, IInv, SendInv, OkIsTold, [SendNext]_sendVars
    PROVE  OkIsTold'
<1> USE DEF SendInv
<1>1. TypeOK
  BY DEF IInv
<1>2. /\ told \cup placed \subseteq told' \cup placed'
      /\ \A s \in Sessions, f \in Files :
             InSession(s) /\ files[f].status = "Finished" => <<s, f>> \in placed
  BY RecordsGrow, StepServes
<1>3. ASSUME TasksStay PROVE OkIsTold'
  BY <1>2, <1>3 DEF TasksStay, OkIsTold, NoTask, At
<1>4. ASSUME NEW s \in Sessions, NEW f \in Files,
             TaskNext(s, f) \/ LoseConnection(s, f)
      PROVE  OkIsTold'
  <2>1. PICK t : TaskMoves(s, f, t)
    BY <1>4, TaskStep
  <2>2. /\ task'[s][f] = t
        /\ \A s2 \in Sessions, f2 \in Files :
               s2 # s \/ f2 # f => task'[s2][f2] = task[s2][f2]
    BY <2>1, SetTaskFacts DEF TaskMoves
  <2>3. t.pc = "sent" \/ (t.pc = "answered" /\ t.reply = "ok")
            => <<s, f>> \in told \cup placed
    BY <1>2, <2>1 DEF TaskMoves, OkIsTold
  <2>. QED BY <1>2, <2>2, <2>3 DEF OkIsTold
<1>5. ASSUME NEW r \in Requests, HandleNext(r) \/ HandlerDropped(r)
      PROVE  OkIsTold'
  <2>1. ASSUME NEW reply, Answers(r, reply) PROVE OkIsTold'
    <3> SUFFICES ASSUME NEW s \in Sessions, NEW f \in Files,
                        \/ task'[s][f].pc = "sent"
                        \/ task'[s][f].pc = "answered" /\ task'[s][f].reply = "ok"
                 PROVE  <<s, f>> \in told' \cup placed'
      BY DEF OkIsTold
    <3>1. CASE ~WaitsFor(s, f, r)
      <4>1. task'[s][f] = task[s][f]
        BY <2>1, <3>1 DEF Answers, Answer
      <4>. QED BY <1>2, <4>1 DEF OkIsTold
    <3>2. CASE WaitsFor(s, f, r)
      <4>1. task'[s][f] = Answered(reply, task[s][f].attempt)
        BY <2>1, <3>2 DEF Answers, Answer
      <4>2. reply = "ok"
        BY <4>1 DEF Answered
      <4>3. req[r].sid = s /\ req[r].file = f
        BY <3>2 DEF CallIsServed, WaitsFor, Working
      <4>. QED BY <2>1, <4>2, <4>3 DEF Answers
    <3>. QED BY <3>1, <3>2
  <2>2. ASSUME UNCHANGED task PROVE OkIsTold'
    BY <1>2, <2>2 DEF OkIsTold
  <2>. QED BY <1>1, <1>5, <2>1, <2>2, HandlerFrame
<1>. QED BY <1>1, <1>3, <1>4, <1>5, PrepareFrame, RestFrame DEF SendNext

------------------------------------------------------------------------------
(* The theorems.                                                           *)

LEMMA SendInvInit == SendInit => SendInv /\ OkIsTold
<1> SUFFICES ASSUME SendInit PROVE SendInv /\ OkIsTold
  OBVIOUS
<1>1. \A s \in Sessions, f \in Files : task[s][f] = NoTask
  BY DEF SendInit
<1>. QED BY <1>1, SendTypeInit, ConstantsAssumption
     DEF SendInv, AttemptLeft, CallIsServed, OkIsTold, NoTask, At, SenderAttempts

LEMMA SendInvStep == IInv /\ SendInv /\ [SendNext]_sendVars => SendInv'
BY SendTypeStep, AttemptLeftStep, CallIsServedStep DEF SendInv, IInv

\* The inductive invariant of the senders: types, the attempts that are left, and
\* the handler behind every call.
THEOREM SendInvariance == SendSpec => []SendInv
BY SendInvInit, SendInvStep, ServerInvariant, PTL DEF SendSpec

\* Every variable keeps its shape: a file is tried MAX_ATTEMPTS times at most,
\* and an address guesses the PIN MAX_PIN_ATTEMPTS times at most.
THEOREM SendTypeCorrect == SendSpec => []SendTypeOK
BY SendInvariance, PTL DEF SendInv

\* Every call of a sender is worked on by a handler for that very file.
THEOREM CallServed == SendSpec => []CallIsServed
BY SendInvariance, PTL DEF SendInv

\* A sender that hashes what it sends reports a file as sent only when it is in
\* place, or when its session was ended while a deferred body was on its way.
THEOREM SentInPlace ==
    ASSUME CreateChecksums
    PROVE  SendSpec => []SentIsReceived
<1>1. SendInit => OkIsTold
  BY SendInvInit
<1>2. IInv /\ SendInv /\ OkIsTold /\ [SendNext]_sendVars => OkIsTold'
  BY OkIsToldStep
<1>3. IInv /\ OkIsTold => SentIsReceived
  BY DEF IInv, Outcomes, ToldIsPlacedOrHeld, OkIsTold, SentIsReceived
<1>. QED BY <1>1, <1>2, <1>3, ServerInvariant, SendInvariance, PTL DEF SendSpec

------------------------------------------------------------------------------
(* Sender and receiver count the attempts at a file apart, and agree.      *)

\* An outcome is known once there is something to report.
OutcomeLast ==
    \A r \in Requests :
        req[r].outcome # "none" => req[r].pc \in {"reporting", "finishing"}

Accepted == {"accepted", "uploading"}

\* There are no uploads before the receiver has accepted.
TasksFollow ==
    \A s \in Sessions : prep[s] # "done" =>
        /\ sender[s].stage \notin Accepted
        /\ \A f \in Files : task[s][f] = NoTask

\* The sender is about to try the file again, about to confirm it, done with it.
Retries(s, f) ==
    \/ task[s][f].pc = "ready"
    \/ /\ task[s][f].pc = "answered"
       /\ task[s][f].reply \in {"mismatch", "offset"}
       /\ task[s][f].attempt < SenderAttempts
Owes(s, f) == \/ task[s][f].pc = "owing"
              \/ task[s][f].pc = "answered" /\ task[s][f].reply = "held"
IsSent(s, f) == \/ task[s][f].pc = "sent"
                \/ task[s][f].pc = "answered" /\ task[s][f].reply = "ok"

\* What the receiver makes of a file of a live session.
Agrees(s, f) == IsActive(s) =>
    /\ files[f].attempts <= task[s][f].attempt
    /\ Retries(s, f) => files[f].status = "Pending"
    /\ Owes(s, f) => Confirmable(files[f])
    /\ CreateChecksums /\ IsSent(s, f) => files[f].status = "Finished"
    /\ task[s][f].pc = "none" /\ sender[s].stage \in Accepted => files[f].status = "Absent"

\* Without a lost connection or a cancel, whoever works on the file is waited for, and
\* a file in place is answered, or about to be answered, as such.
Excused(s, f) == <<s, f>> \in lossy \/ sender[s].cancelled
Straight(s, f) == ~Excused(s, f) =>
    /\ \A r \in Requests : Working(r, s, f) => WaitsFor(s, f, r)
    /\ <<s, f>> \in placed =>
          \/ IsSent(s, f)
          \/ \E r \in Requests : Working(r, s, f) /\ req[r].outcome = "Success"

\* A transfer that is shown as finished is over for the receiver.
FinishedIsOver ==
    CreateChecksums => \A s \in Sessions :
        sender[s].view = "Finished" => prep[s] = "done" /\ ~IsActive(s)

SidesAgree ==
    /\ OutcomeLast
    /\ TasksFollow
    /\ \A s \in Sessions, f \in Files : Agrees(s, f) /\ Straight(s, f)
    /\ FinishedIsOver

\* The outcome of a handler is set when its body is saved or its digest settled.
LEMMA OutcomeLastStep ==
    ASSUME TypeOK, OutcomeLast, [Next]_vars
    PROVE  OutcomeLast'
<1> USE DEF handlerVars, outcomeVars
<1>1. ASSUME UNCHANGED req PROVE OutcomeLast'
  BY <1>1 DEF OutcomeLast
<1>2. ASSUME NEW r \in Requests, NEW new,
             new.outcome # "none" => new.pc \in {"reporting", "finishing"},
             req' = [req EXCEPT ![r] = new]
      PROVE  OutcomeLast'
  BY <1>2 DEF OutcomeLast, TypeOK
<1>3. ASSUME NEW r \in Requests, req' = [req EXCEPT ![r] = IdleRequest]
      PROVE  OutcomeLast'
  BY <1>2, <1>3 DEF IdleRequest
<1>4. ASSUME NEW r \in Requests, NEW pc, Goto(r, pc),
             req[r].pc \notin {"reporting", "finishing"} \/ pc = "finishing"
      PROVE  OutcomeLast'
  <2> DEFINE new == [req[r] EXCEPT !.pc = pc]
  <2>1. req' = [req EXCEPT ![r] = new]
    BY <1>4 DEF Goto
  <2>2. req[r] \in RequestType
    BY DEF TypeOK
  <2>3. new.pc = pc /\ new.outcome = req[r].outcome
    BY <2>2 DEF RequestType
  <2>4. new.outcome # "none" => new.pc \in {"reporting", "finishing"}
    BY <1>4, <2>3 DEF OutcomeLast
  <2> HIDE DEF new
  <2> QED BY <1>2, <2>1, <2>4
<1>5. ASSUME NEW r \in Requests, NEW outcome,
             req' = [req EXCEPT ![r].pc = "reporting", ![r].outcome = outcome]
      PROVE  OutcomeLast'
  <2> DEFINE new == [req[r] EXCEPT !.pc = "reporting", !.outcome = outcome]
  <2>1. req' = [req EXCEPT ![r] = new]
    BY <1>5
  <2>2. new.pc = "reporting"
    BY DEF TypeOK, RequestType
  <2> HIDE DEF new
  <2> QED BY <1>2, <2>1, <2>2
<1>6. ASSUME NEW s \in Sessions, PrepareNext(s) \/ SenderNext(s) \/ Reap(s)
      PROVE  UNCHANGED req
  BY <1>6 DEF PrepareNext, SenderNext, ClaimPending, AskApplication,
     SessionAccepted, SessionRefused, PrepareWithdrawn, AnswerDropped,
     SenderGone, AbortPrepare, CancelPending, CancelBySender, Touch, Reap
<1>7. ASSUME NEW r \in Requests, HandlerNext(r)
      PROVE  OutcomeLast'
  <2>1. CASE AskTarget(r) \/ StartSaving(r) \/ Report(r)
    BY <1>4, <2>1 DEF AskTarget, StartSaving, Report
  <2>2. CASE TargetRefused(r) \/ Finish(r)
    BY <1>3, <2>2 DEF TargetRefused, Finish
  <2>3. CASE BodyHeld(r)
    BY <1>3, <1>5, <2>3 DEF BodyHeld
  <2>4. ASSUME NEW outcome, BodySaved(r, outcome) \/ Settle(r, outcome)
        PROVE  OutcomeLast'
    BY <1>5, <2>4 DEF BodySaved, Settle
  <2> QED BY <1>7, <2>1, <2>2, <2>3, <2>4 DEF HandlerNext
<1>8. ASSUME NEW r \in Requests, DropHandler(r)
      PROVE  OutcomeLast'
  BY <1>3, <1>8 DEF DropHandler, DropUpload, DropConfirm
<1>9. ASSUME NEW r \in Requests, NEW s, NEW f, RequestNext(r, s, f)
      PROVE  OutcomeLast'
  <2> DEFINE begun == [pc |-> IF files[f].path THEN "saving" ELSE "begun",
                       kind |-> "upload", sid |-> s, file |-> f, outcome |-> "none"]
             settling == [pc |-> "settling", kind |-> "confirm", sid |-> s, file |-> f,
                          outcome |-> "none"]
  <2>1. begun.outcome = "none" /\ settling.outcome = "none"
    OBVIOUS
  <2>2. req' = [req EXCEPT ![r] = begun] \/ req' = [req EXCEPT ![r] = settling]
    BY <1>9 DEF RequestNext, BeginUpload, BeginConfirm
  <2> HIDE DEF begun, settling
  <2> QED BY <1>2, <2>1, <2>2
<1>10. ASSUME NEW r \in Requests, NEW answer \in {"assigned", "rejected"},
              AppAnswers(r, answer)
       PROVE  OutcomeLast'
  BY <1>4, <1>10 DEF AppAnswers
<1>11. ASSUME \/ TenMinutes \/ AppTakes
              \/ \E e \in spawned : Deliver(e)
              \/ \E s \in Sessions, answer \in AnsweredStates : AppDecides(s, answer)
              \/ \E s \in Sessions : CancelByReceiver(s)
              \/ UNCHANGED vars
       PROVE  UNCHANGED req
  BY <1>11 DEF TenMinutes, AppTakes, Deliver, AppDecides, CancelByReceiver, vars
<1> QED BY <1>1, <1>6, <1>7, <1>8, <1>9, <1>10, <1>11 DEF Next, ServerNext, AppNext

------------------------------------------------------------------------------
(* What the steps leave of a file, of its task and of its sender.          *)

\* The receiver counts the file as before.
SameFile(f) == /\ files'[f].status = files[f].status
               /\ files'[f].parked = files[f].parked
               /\ files'[f].attempts = files[f].attempts

\* Only the answer to its sender makes a session active.
LEMMA OnlyAnswersActivate ==
    ASSUME IInv, [SendNext]_sendVars, NEW s \in Sessions, ~IsActive(s), IsActive(s)'
    PROVE  \E accepted \in SUBSET Files : AcceptedAnswer(s, accepted)
<1> USE DEF IsActive, FreeSlot, PendingSlot, ActiveSlot, handlerVars, outcomeVars, vars
<1>0. TypeOK
  BY DEF IInv
<1>1. slot' # slot /\ slot' # FreeSlot /\ slot' # PendingSlot(s)
  OBVIOUS
<1>2. ASSUME NEW t \in Sessions,
             \/ PostNext(t) \/ AnswerNext(t) \/ UserNext(t) \/ TakeAccepted(t)
             \/ GiveUp(t) \/ PrepareFails(t) \/ HungUp(t) \/ EndNext(t)
      PROVE  \E accepted \in SUBSET Files : AcceptedAnswer(s, accepted)
  BY <1>1, <1>2
  DEF PostNext, PostClaims, PostBusy, PostNeedsPin, PostLocked, ClaimPending,
      AnswerNext, AskApplication, AcceptedAnswer, SessionAccepted, Activate, RefusedAnswer,
      SessionRefused, AnswerDropped, AbortPrepare, ClearPending, UserNext, EnterPin,
      DismissPin, CancelSend, TakeAccepted, GiveUp, PrepareFails, HungUp, SenderGone,
      EndNext, FinishSend, CloseSend, CancelBySender, DropSession
<1>3. ASSUME NEW t \in Sessions, NEW f \in Files, TaskNext(t, f) \/ LoseConnection(t, f)
      PROVE  slot' = slot
  BY <1>3 DEF TaskNext, CallUpload, CallConfirm, UploadTurnedAway, ConfirmTurnedAway,
       HandleReply, QueryOffset, AbandonUpload, LoseConnection, TouchOrNothing, Touch,
       BeginUpload, BeginConfirm
<1>4. ASSUME NEW r \in Requests, HandleNext(r) \/ HandlerDropped(r)
      PROVE  slot' \in {slot, FreeSlot}
  <2>1. CASE Settles(r)
    BY <1>0, <2>1, SettlingFacts DEF IInv
  <2>2. CASE ~Settles(r)
    BY <1>4, <2>2
    DEF Settles, HandleNext, HandlerAnswers, HandlerWorks, HandlerDropped, DropHandler, AskTarget,
       StartSaving, BodySaved, BodyHeld, Settle, Report, DropConfirm
  <2> QED BY <2>1, <2>2
<1>5. ASSUME ForgetFailures \/ RestNext \/ UNCHANGED sendVars
      PROVE  slot' \in {slot, FreeSlot}
  BY <1>5 DEF ForgetFailures, RestNext, TenMinutes, Reap, Deliver, AppNext, AppTakes,
     AppDecides, AppAnswers, CancelByReceiver, DropSession, sendVars
<1> QED BY <1>1, <1>2, <1>3, <1>4, <1>5 DEF SendNext

\* The files of a session that stays active, when nobody starts or ends work.
LEMMA FilesStay ==
    ASSUME IInv, [Next]_vars, WorkersStay,
           NEW s \in Sessions, prep[s] = "done", IsActive(s)', NEW f \in Files
    PROVE  IsActive(s) /\ SameFile(f)
<1> USE DEF SameFile
<1>0. TypeOK /\ RequestShape /\ StepClass /\ IsActive(s)
  BY NoRevival, StepClasses DEF IInv
<1>2. ASSUME NEW t \in Sessions, NEW accepted \in SUBSET Files, SessionAccepted(t, accepted)
      PROVE  FALSE
  BY <1>2 DEF SessionAccepted, Activate, IsActive, ActiveSlot
<1>3. ASSUME NEW r \in Requests, req' = [req EXCEPT ![r] = IdleRequest], req[r].sid # NoSession
      PROVE  FALSE
  BY <1>0, <1>3 DEF WorkersStay, IdleRequest, TypeOK
<1>4. ASSUME NEW r \in Requests, Settles(r) \/ Parks(r)
      PROVE  FALSE
  <2>1. req' = [req EXCEPT ![r] = IdleRequest]
    BY <1>4 DEF Settles, TargetRefused, Finish, DropUpload, Parks
  <2>2. req[r].sid # NoSession
    BY <1>0, <1>4, ConstantsAssumption
    DEF RequestShape, Settles, TargetRefused, Finish, DropUpload, Parks, IdleRequest
  <2> QED BY <1>3, <2>1, <2>2
<1>5. ASSUME NEW r \in Requests, NEW t \in Sessions, NEW g \in Files,
             BeginUpload(r, t, g) \/ BeginConfirm(r, t, g)
      PROVE  FALSE
  BY <1>0, <1>5, ConstantsAssumption
  DEF BeginUpload, BeginConfirm, Fresh, IdleRequest, WorkersStay, TypeOK
<1>6. ASSUME NEW r \in Requests, Advance(r)
      PROVE  SameFile(f)
  BY <1>6 DEF Advance
<1>7. ASSUME NEW r \in Requests, DropConfirm(r)
      PROVE  UNCHANGED files
  BY <1>7 DEF DropConfirm
<1>8. ASSUME NEW t \in Sessions, Ends(t)
      PROVE  FALSE
  BY <1>8 DEF Ends, DropSession, IsActive, FreeSlot
<1>9. ASSUME Quiet \/ \E t \in Sessions : Claims(t) \/ Releases(t)
      PROVE  UNCHANGED files
  BY <1>9 DEF Quiet, Claims, Releases
<1> HIDE DEF SameFile
<1>10. UNCHANGED files => SameFile(f)
  BY DEF SameFile
<1> QED BY <1>0, <1>2, <1>4, <1>5, <1>6, <1>7, <1>8, <1>9, <1>10 DEF StepClass

\* The file a handler works on is not one to start on.
Engaged(f) == \/ files[f].status = "InProgress"
              \/ files[f].status = "AwaitingChecksum" /\ ~files[f].parked

LEMMA WorkedOn ==
    ASSUME IInv, NEW r \in Requests, NEW s \in Sessions, NEW f \in Files,
           IsActive(s), Working(r, s, f)
    PROVE  Engaged(f)
<1>1. req[r].kind \in {"upload", "confirm"}
  BY WorkingShape DEF IInv
<1> QED BY <1>1 DEF IInv, Ownership, InProgressOwned, ConfirmHoldsFile, Working, Engaged

\* The files of a session that stays active, when a handler ends.
LEMMA FilesAfterEnd ==
    ASSUME IInv, NEW r \in Requests, Settles(r) \/ Parks(r) \/ DropConfirm(r),
           NEW s \in Sessions, NEW f \in Files, IsActive(s)'
    PROVE  /\ IsActive(s)
           /\ files'[f].attempts = files[f].attempts
           /\ ~Working(r, s, f) => SameFile(f)
<1> USE DEF SameFile
<1>0. TypeOK /\ RequestShape
  BY DEF IInv
<1>1. CASE DropConfirm(r)
  BY <1>1 DEF DropConfirm, IsActive
<1>2. CASE Parks(r)
  <2>1. IsActive(s) /\ req[r].sid = s
    BY <1>2 DEF Parks, IsActive, InSession, ActiveSlot
  <2>2. files[f] \in FileType
    BY <1>0 DEF TypeOK
  <2>3. CASE req[r].file # f
    BY <1>0, <1>2, <2>1, <2>3 DEF Parks, TypeOK
  <2>4. CASE req[r].file = f
    <3>1. files'[f] = [files[f] EXCEPT !.status = "AwaitingChecksum", !.parked = TRUE]
      BY <1>0, <1>2, <2>4 DEF Parks, TypeOK
    <3> QED BY <2>1, <2>2, <2>4, <3>1 DEF Working, FileType
  <2> QED BY <2>3, <2>4
<1>3. CASE Settles(r)
  <2>1. CASE UNCHANGED <<slot, files>>
    BY <2>1 DEF IsActive
  <2>2. ASSUME NEW outcome, InSession(req[r].sid), slot' = slot,
               files' = [files EXCEPT ![req[r].file] =
                             SettledFile(req[r].sid, files[req[r].file], outcome)]
        PROVE  /\ IsActive(s)
               /\ files'[f].attempts = files[f].attempts
               /\ ~Working(r, s, f) => SameFile(f)
    <3>1. files[f] \in FileType
      BY <1>0 DEF TypeOK
    <3>2. SettledFile(req[r].sid, files[f], outcome).attempts = files[f].attempts
      BY <3>1, SettledFileFacts
    <3>3. IsActive(s) /\ req[r].sid = s
      BY <2>2 DEF IsActive, InSession, ActiveSlot
    <3> QED BY <1>0, <2>2, <3>2, <3>3 DEF Working, TypeOK
  <2>3. CASE slot' = FreeSlot
    BY <2>3 DEF IsActive, FreeSlot
  <2> QED BY <1>0, <1>3, <2>1, <2>2, <2>3, SettlingFacts
<1> QED BY <1>1, <1>2, <1>3

\* The file a handler finishes becomes what its outcome makes of it.
LEMMA FinishSettles ==
    ASSUME IInv, NEW r \in Requests, Finish(r),
           NEW s \in Sessions, NEW f \in Files, Working(r, s, f), IsActive(s)'
    PROVE  /\ IsActive(s)
           /\ files'[f].attempts = files[f].attempts
           /\ files'[f].status = NextStatus(s, files[f], req[r].outcome)
<1>0. TypeOK /\ files[f] \in FileType
  BY DEF IInv, TypeOK
<1>1. IsActive(s) /\ files'[f].attempts = files[f].attempts
  BY FilesAfterEnd DEF Settles
<1>2. Unsettled(files[f])
  BY <1>1, WorkedOn DEF Engaged, Unsettled
<1>3. FinalizeFile(s, f, req[r].outcome, {})
  BY DEF Finish, Working
<1>4. files' = [files EXCEPT ![f] = SettledFile(s, files[f], req[r].outcome)]
  BY <1>0, <1>1, <1>3, FinalizeFacts DEF IsActive, InSession, ActiveSlot, FreeSlot
<1>5. files'[f].status = NextStatus(s, files[f], req[r].outcome)
  BY <1>0, <1>2, <1>4 DEF SettledFile, TypeOK, FileType
<1> QED BY <1>1, <1>5

LEMMA ShowFacts ==
    ASSUME SendTypeOK, NEW t \in Sessions, NEW stage, NEW view, Show(t, stage, view)
    PROVE  /\ sender'[t].stage = stage
           /\ sender'[t].view = view
           /\ sender'[t].cancelled = sender[t].cancelled
           /\ \A s \in Sessions \ {t} : sender'[s] = sender[s]
BY DEF SendTypeOK, Show, SenderType

\* Which steps move a sender.
SenderMoves(s) ==
    /\ sender[s].cancelled => sender'[s].cancelled
    /\ sender'[s].stage \in Accepted =>
          \/ sender[s].stage \in Accepted
          \/ \E accepted \in SUBSET Files : AcceptedAnswer(s, accepted)
    /\ sender'[s].view = "Finished" => sender[s].view = "Finished" \/ FinishSend(s)

LEMMA SenderChanges ==
    ASSUME SendTypeOK, [SendNext]_sendVars, NEW s \in Sessions
    PROVE  SenderMoves(s) /\ lossy \subseteq lossy'
<1>1. ASSUME sender'[s] = sender[s] PROVE SenderMoves(s)
  BY <1>1 DEF SenderMoves
<1>2. ASSUME NEW stage, NEW view, NEW t \in Sessions, Show(t, stage, view),
             /\ s = t
             /\ stage \in Accepted => \/ sender[s].stage \in Accepted
                                      \/ \E accepted \in SUBSET Files : AcceptedAnswer(s, accepted)
             /\ view = "Finished" => FinishSend(s)
             \/ s # t
      PROVE  SenderMoves(s)
  BY <1>1, <1>2, ShowFacts DEF SenderMoves
<1>3. ASSUME NEW t \in Sessions, PostNext(t)
      PROVE  SenderMoves(s)
  BY <1>2, <1>3 DEF PostNext, PostClaims, PostBusy, PostNeedsPin, PostLocked, EndSend, Accepted
<1>4. ASSUME NEW t \in Sessions, AnswerNext(t)
      PROVE  SenderMoves(s)
  <2>1. ASSUME NEW accepted \in SUBSET Files, AcceptedAnswer(t, accepted)
        PROVE  SenderMoves(s)
    <3>1. CASE UNCHANGED sender
      BY <1>1, <3>1
    <3>2. CASE Show(t, "accepted", "Preparing")
      BY <1>2, <2>1, <3>2
    <3> QED BY <2>1, <3>1, <3>2 DEF AcceptedAnswer
  <2>2. CASE RefusedAnswer(t)
    BY <1>1, <1>2, <2>2 DEF RefusedAnswer, EndSend, Accepted
  <2>3. CASE UNCHANGED senderVars
    BY <1>1, <2>3 DEF senderVars
  <2> QED BY <1>4, <2>1, <2>2, <2>3 DEF AnswerNext
<1>5. ASSUME NEW t \in Sessions, UserNext(t)
      PROVE  SenderMoves(s)
  <2>1. CASE DismissPin(t)
    BY <1>2, <2>1 DEF DismissPin, EndSend, Accepted
  <2>2. CASE CancelSend(t)
    BY <2>2 DEF CancelSend, SendTypeOK, SenderType, SenderMoves
  <2>3. ASSUME NEW pin \in {"wrong", "right"}, EnterPin(t, pin)
        PROVE  SenderMoves(s)
    <3>1. CASE s = t
      <4>1. sender'[s] = [stage |-> "preparing", view |-> "Preparing",
                          cancelled |-> sender[s].cancelled, pin |-> pin]
        BY <2>3, <3>1 DEF EnterPin, SendTypeOK
      <4> QED BY <4>1 DEF SenderMoves, Accepted
    <3>2. CASE s # t
      BY <1>1, <2>3, <3>2 DEF EnterPin, SendTypeOK
    <3> QED BY <3>1, <3>2
  <2> QED BY <1>5, <2>1, <2>2, <2>3 DEF UserNext
<1>6. ASSUME NEW t \in Sessions, TakeAccepted(t)
      PROVE  SenderMoves(s)
  BY <1>2, <1>6 DEF TakeAccepted, Accepted
<1>7. ASSUME NEW t \in Sessions, GiveUp(t) \/ PrepareFails(t) \/ EndNext(t)
      PROVE  SenderMoves(s)
  BY <1>2, <1>7 DEF GiveUp, PrepareFails, EndNext, FinishSend, CloseSend, EndSend, Accepted
<1>8. ASSUME NEW t \in Sessions, HungUp(t)
      PROVE  SenderMoves(s)
  BY <1>1, <1>8 DEF HungUp, senderVars
<1>9. ASSUME NEW t \in Sessions, NEW f \in Files, TaskNext(t, f) \/ LoseConnection(t, f)
      PROVE  SenderMoves(s) /\ lossy \subseteq lossy'
  BY <1>1, <1>9, TaskStepFrame
<1>10. ASSUME NEW r \in Requests, HandleNext(r) \/ HandlerDropped(r)
       PROVE  SenderMoves(s) /\ lossy \subseteq lossy'
  BY <1>1, <1>10 DEF HandleNext, HandlerAnswers, HandlerWorks, HandlerDropped, senderVars
<1>11. ASSUME ForgetFailures \/ RestNext \/ UNCHANGED sendVars
       PROVE  SenderMoves(s) /\ lossy \subseteq lossy'
  BY <1>1, <1>11 DEF ForgetFailures, RestNext, senderVars, sendVars
<1>12. ASSUME NEW t \in Sessions,
              \/ PostNext(t) \/ AnswerNext(t) \/ UserNext(t) \/ TakeAccepted(t)
              \/ GiveUp(t) \/ PrepareFails(t) \/ HungUp(t) \/ EndNext(t)
       PROVE  lossy \subseteq lossy'
  BY <1>12 DEF PostNext, PostClaims, PostBusy, PostNeedsPin, PostLocked,
     AnswerNext, AcceptedAnswer, RefusedAnswer, UserNext, EnterPin, DismissPin,
     CancelSend, TakeAccepted, GiveUp, PrepareFails, HungUp, EndNext,
     FinishSend, CloseSend, senderVars
<1> QED BY <1>3, <1>4, <1>5, <1>6, <1>7, <1>8, <1>9, <1>10, <1>11, <1>12 DEF SendNext

\* Which steps move the task of a file.
TaskMoved(s, f) ==
    \/ \E accepted \in SUBSET Files : AcceptedAnswer(s, accepted)
    \/ TaskNext(s, f) \/ LoseConnection(s, f)
    \/ \E r \in Requests : HandlerAnswers(r) /\ WaitsFor(s, f, r)

LEMMA TaskChanges ==
    ASSUME SendTypeOK, [SendNext]_sendVars, NEW s \in Sessions, NEW f \in Files,
           task'[s][f] # task[s][f]
    PROVE  TaskMoved(s, f)
<1>1. ASSUME NEW t \in Sessions,
             \/ PostNext(t) \/ UserNext(t) \/ TakeAccepted(t)
             \/ GiveUp(t) \/ PrepareFails(t) \/ HungUp(t) \/ EndNext(t)
      PROVE  task' = task
  BY <1>1 DEF PostNext, PostClaims, PostBusy, PostNeedsPin, PostLocked,
     UserNext, EnterPin, DismissPin, CancelSend, TakeAccepted, GiveUp,
     PrepareFails, HungUp, EndNext, FinishSend, CloseSend, senderVars
<1>2. ASSUME NEW t \in Sessions, AnswerNext(t)
      PROVE  TaskMoved(s, f)
  <2>1. ASSUME NEW accepted \in SUBSET Files, AcceptedAnswer(t, accepted)
        PROVE  TaskMoved(s, f)
    <3>1. s = t
      BY <2>1 DEF AcceptedAnswer, SendTypeOK
    <3> QED BY <2>1, <3>1 DEF TaskMoved
  <2> QED BY <1>2, <2>1 DEF AnswerNext, RefusedAnswer, senderVars
<1>3. ASSUME NEW t \in Sessions, NEW g \in Files, TaskNext(t, g) \/ LoseConnection(t, g)
      PROVE  TaskMoved(s, f)
  <2>1. \E new : SetTask(t, g, new)
    BY <1>3 DEF TaskNext, CallUpload, CallConfirm, UploadTurnedAway, ConfirmTurnedAway,
       HandleReply, QueryOffset, AbandonUpload, LoseConnection
  <2>2. s = t /\ f = g
    BY <2>1 DEF SetTask, SendTypeOK
  <2> QED BY <1>3, <2>2 DEF TaskMoved
<1>4. ASSUME NEW r \in Requests, HandleNext(r) \/ HandlerDropped(r)
      PROVE  TaskMoved(s, f)
  <2>1. ASSUME NEW reply, Answer(r, reply)
        PROVE  WaitsFor(s, f, r)
    BY <2>1 DEF Answer
  <2>2. HandlerAnswers(r) /\ WaitsFor(s, f, r)
    BY <1>4, <2>1 DEF HandleNext, HandlerAnswers, HandlerWorks, HandlerDropped, senderVars
  <2> QED BY <2>2 DEF TaskMoved
<1>5. ASSUME ForgetFailures \/ RestNext \/ UNCHANGED sendVars
      PROVE  task' = task
  BY <1>5 DEF ForgetFailures, RestNext, senderVars, sendVars
<1> QED BY <1>1, <1>2, <1>3, <1>4, <1>5 DEF SendNext

\* The tasks of a file move only while its transfer is uploading.
LEMMA TasksUpload ==
    ASSUME NEW s \in Sessions, NEW f \in Files, TaskNext(s, f) \/ LoseConnection(s, f)
    PROVE  sender[s].stage = "uploading"
BY DEF TaskNext, CallUpload, CallConfirm, UploadTurnedAway, ConfirmTurnedAway, MayStart,
       Confirming, HandleReply, QueryOffset, AbandonUpload, LoseConnection

LEMMA TasksFollowStep ==
    ASSUME IInv, SendTypeOK, TasksFollow, [SendNext]_sendVars
    PROVE  TasksFollow'
<1> SUFFICES ASSUME NEW s \in Sessions, prep'[s] # "done"
             PROVE  /\ sender'[s].stage \notin Accepted
                    /\ \A f \in Files : task'[s][f] = NoTask
  BY DEF TasksFollow
<1>1. TypeOK /\ RequestShape /\ StepClass
  BY StepServes, StepClasses DEF IInv
<1>2. prep[s] # "done"
  BY <1>1, NoRevival
<1>3. ASSUME NEW accepted \in SUBSET Files, AcceptedAnswer(s, accepted)
      PROVE  FALSE
  BY <1>1, <1>3 DEF AcceptedAnswer, SessionAccepted, TypeOK
<1>4. sender'[s].stage \notin Accepted
  BY <1>2, <1>3, SenderChanges DEF SenderMoves, TasksFollow
<1>5. ASSUME NEW f \in Files
      PROVE  task'[s][f] = NoTask
  <2>1. task[s][f] = NoTask /\ sender[s].stage \notin Accepted
    BY <1>2 DEF TasksFollow
  <2>2. ~TaskMoved(s, f)
    BY <1>3, <2>1, TasksUpload DEF TaskMoved, WaitsFor, NoTask, At, Accepted
  <2> QED BY <2>1, <2>2, TaskChanges
<1> QED BY <1>4, <1>5

------------------------------------------------------------------------------
(* Whatever the sender is about to do with a file, the receiver waits for it. *)

\* The steps after which other handlers are at work than before.
Begins(s, f, r) == CallUpload(s, f, r) \/ CallConfirm(s, f, r)
Answering(r) == HandlerAnswers(r) /\ (TargetRefused(r) \/ Finish(r) \/ Parks(r))

LEMMA WorkersChange ==
    ASSUME IInv, SendTypeOK, [SendNext]_sendVars, ~WorkersStay
    PROVE  \/ \E s \in Sessions, f \in Files, r \in Requests : Begins(s, f, r)
           \/ \E r \in Requests : Answering(r) \/ HandlerDropped(r)
<1>0. TypeOK /\ RequestShape
  BY DEF IInv
<1>1. UNCHANGED req => WorkersStay
  BY DEF WorkersStay
<1>2. ASSUME NEW s \in Sessions, NEW f \in Files, TaskNext(s, f) \/ LoseConnection(s, f)
      PROVE  \/ UNCHANGED req
             \/ \E r \in Requests : Begins(s, f, r)
  <2>1. TouchOrNothing(s) => UNCHANGED req
    BY DEF TouchOrNothing, Touch, handlerVars, vars
  <2> QED BY <1>2, <2>1 DEF TaskNext, Begins, UploadTurnedAway, ConfirmTurnedAway, HandleReply,
              QueryOffset, AbandonUpload, LoseConnection, vars
<1>3. ASSUME NEW r \in Requests, HandleNext(r), ~Answering(r)
      PROVE  WorkersStay
  <2>1. ASSUME NEW outcome, NEW pc, req' = [req EXCEPT ![r].pc = pc, ![r].outcome = outcome]
        PROVE  WorkersStay
    <3> DEFINE new == [req[r] EXCEPT !.pc = pc, !.outcome = outcome]
    <3>1. req' = [req EXCEPT ![r] = new]
      BY <2>1
    <3>2. new.sid = req[r].sid /\ new.file = req[r].file
      BY <1>0 DEF TypeOK, RequestType
    <3> HIDE DEF new
    <3> QED BY <1>0, <3>1, <3>2, WorkersStayWith
  <2>2. ASSUME NEW pc, Goto(r, pc) PROVE WorkersStay
    <3> DEFINE new == [req[r] EXCEPT !.pc = pc]
    <3>1. req' = [req EXCEPT ![r] = new]
      BY <2>2 DEF Goto
    <3>2. new.sid = req[r].sid /\ new.file = req[r].file
      BY <1>0 DEF TypeOK, RequestType
    <3> HIDE DEF new
    <3> QED BY <1>0, <3>1, <3>2, WorkersStayWith
  <2>3. CASE AskTarget(r) \/ StartSaving(r) \/ Report(r)
    BY <2>2, <2>3 DEF AskTarget, StartSaving, Report
  <2>4. ASSUME NEW outcome, BodySaved(r, outcome) \/ Settle(r, outcome)
        PROVE  WorkersStay
    BY <2>1, <2>4 DEF BodySaved, Settle
  <2>5. ASSUME BodyHeld(r), ~Parks(r)
        PROVE  WorkersStay
    <3>1. req[r].kind = "upload"
      BY <1>0, <2>5 DEF BodyHeld, RequestShape, IdleRequest, ConfirmStates
    <3>2. req' = [req EXCEPT ![r].pc = "reporting", ![r].outcome = "Held"]
      BY <2>5, <3>1 DEF BodyHeld, Parks
    <3> QED BY <2>1, <3>2
  <2> QED BY <1>3, <2>3, <2>4, <2>5 DEF HandleNext, HandlerAnswers, HandlerWorks, Answering
<1> QED BY <1>0, <1>1, <1>2, <1>3, PrepareFrame, RestFrame DEF SendNext

LEMMA AgreesKept ==
    ASSUME NEW s \in Sessions, NEW f \in Files, Agrees(s, f),
           IsActive(s)' => IsActive(s) /\ SameFile(f),
           task'[s][f] = task[s][f],
           sender'[s].stage \in Accepted => sender[s].stage \in Accepted
    PROVE  Agrees(s, f)'
BY DEF Agrees, SameFile, Retries, Owes, IsSent, Confirmable, SenderAttempts

\* A sender that did not start the work under way expects nothing of the file.
LEMMA AgreesEngaged ==
    ASSUME NEW s \in Sessions, NEW f \in Files, Agrees(s, f), IsActive(s), Engaged(f),
           files'[f].attempts = files[f].attempts, task'[s][f] = task[s][f],
           sender'[s].stage \in Accepted => sender[s].stage \in Accepted
    PROVE  Agrees(s, f)'
BY DEF Agrees, Engaged, Retries, Owes, IsSent, Confirmable, SenderAttempts

\* The receiver has just accepted.
LEMMA AgreesFirst ==
    ASSUME IInv, SendTypeOK, TasksFollow, NEW s \in Sessions, NEW f \in Files,
           NEW accepted \in SUBSET Files, AcceptedAnswer(s, accepted)
    PROVE  Agrees(s, f)'
<1>0. prep[s] # "done"
  BY DEF AcceptedAnswer, SessionAccepted
<1>1. /\ files'[f] = IF f \in accepted THEN [BlankFile EXCEPT !.status = "Pending"]
                                       ELSE BlankFile
  BY DEF AcceptedAnswer, SessionAccepted, Activate, AcceptedFiles
<1>2. /\ files'[f].attempts = 0
      /\ files'[f].status = IF f \in accepted THEN "Pending" ELSE "Absent"
  BY <1>1 DEF BlankFile
<1>3. CASE sender[s].stage = "asking"
  <2>1. task'[s][f] = IF f \in accepted THEN At("ready", 0) ELSE NoTask
    BY <1>3 DEF AcceptedAnswer, SendTypeOK
  <2> QED BY <1>2, <2>1 DEF Agrees, Retries, Owes, IsSent, NoTask, At
<1>4. CASE sender[s].stage # "asking"
  <2>1. task'[s][f] = NoTask /\ sender'[s].stage \notin Accepted
    BY <1>0, <1>4 DEF AcceptedAnswer, TasksFollow
  <2> QED BY <1>2, <2>1 DEF Agrees, Retries, Owes, IsSent, NoTask, At
<1> QED BY <1>3, <1>4

LEMMA SetTaskElse ==
    ASSUME SendTypeOK, NEW t \in Sessions, NEW g \in Files, NEW new, SetTask(t, g, new)
    PROVE  /\ task'[t][g] = new
           /\ \A s \in Sessions, f \in Files :
                  ~(s = t /\ f = g) => task'[s][f] = task[s][f]
<1>1. task \in [Sessions -> [Files -> TaskType]]
  BY DEF SendTypeOK
<1> QED BY <1>1 DEF SetTask

LEMMA AttemptNumbers ==
    ASSUME SendTypeOK, NEW s \in Sessions, NEW f \in Files
    PROVE  task[s][f].attempt \in Nat
BY ConstantsAssumption DEF SendTypeOK, TaskType, SenderAttempts

\* A call reaches its file.
LEMMA AgreesBegun ==
    ASSUME IInv, SendTypeOK, AttemptLeft, NEW s \in Sessions, NEW f \in Files, Agrees(s, f),
           NEW t \in Sessions, NEW g \in Files, NEW r \in Requests, Begins(t, g, r),
           sender'[s].stage \in Accepted => sender[s].stage \in Accepted
    PROVE  Agrees(s, f)'
<1>0. TypeOK /\ files[g] \in FileType /\ files[g].attempts \in Nat
  BY DEF IInv, TypeOK, FileType
<1>1. slot' = slot /\ InSession(t)
  BY DEF Begins, CallUpload, CallConfirm, BeginUpload, BeginConfirm
<1>2. PICK new : /\ SetTask(t, g, new)
                 /\ new.pc = "calling"
                 /\ new.attempt \in {task[t][g].attempt, task[t][g].attempt + 1}
                 /\ CallUpload(t, g, r) => new.attempt = task[t][g].attempt + 1
  BY DEF Begins, CallUpload, CallConfirm, Calling, NextAttempt
<1>3. CASE s = t /\ f = g
  <2>1. task'[s][f] = new /\ task[s][f].attempt \in Nat
    BY <1>2, <1>3, SetTaskElse, AttemptNumbers
  <2>2. CASE CallUpload(t, g, r)
    <3>1. files'[f].attempts = files[f].attempts + 1
      BY <1>0, <1>3, <2>2 DEF CallUpload, BeginUpload, TypeOK, FileType
    <3> QED BY <1>0, <1>1, <1>2, <1>3, <2>1, <2>2, <3>1
            DEF Agrees, Retries, Owes, IsSent, IsActive, InSession, ActiveSlot
  <2>3. CASE CallConfirm(t, g, r)
    <3>1. files'[f].attempts = files[f].attempts
      BY <1>0, <1>3, <2>3 DEF CallConfirm, BeginConfirm, TypeOK, FileType
    <3> QED BY <1>0, <1>1, <1>2, <1>3, <2>1, <2>3, <3>1
            DEF Agrees, Retries, Owes, IsSent, IsActive, InSession, ActiveSlot
  <2> QED BY <2>2, <2>3 DEF Begins
<1>4. CASE ~(s = t /\ f = g)
  <2>1. task'[s][f] = task[s][f]
    BY <1>2, <1>4, SetTaskElse
  <2>2. IsActive(s)' => IsActive(s) /\ s = t
    BY <1>1 DEF IsActive, InSession, ActiveSlot
  <2>3. f # g => files'[f] = files[f]
    BY <1>0 DEF Begins, CallUpload, CallConfirm, BeginUpload, BeginConfirm, TypeOK
  <2> QED BY <1>4, <2>1, <2>2, <2>3, AgreesKept DEF SameFile
<1> QED BY <1>3, <1>4

\* The sender goes on by itself.
LEMMA AgreesAlone ==
    ASSUME IInv, SendTypeOK, AttemptLeft, NEW s \in Sessions, NEW f \in Files, Agrees(s, f),
           TaskNext(s, f) \/ LoseConnection(s, f), \A r \in Requests : ~Begins(s, f, r),
           IsActive(s)' => IsActive(s) /\ SameFile(f)
    PROVE  Agrees(s, f)'
<1> SUFFICES ASSUME IsActive(s)' PROVE Agrees(s, f)'
  BY DEF Agrees
<1> DEFINE old == task[s][f]
<1>1. IsActive(s) /\ SameFile(f) /\ InSession(s)
  BY DEF InSession, IsActive, ActiveSlot
<1>2. files[f].attempts \in Nat /\ old.attempt \in Nat
  BY AttemptNumbers DEF IInv, TypeOK, FileType
<1>3. ASSUME NEW new, SetTask(s, f, new), new.attempt \in {old.attempt, old.attempt + 1},
             /\ new.pc = "ready" => files[f].status = "Pending"
             /\ new.pc = "owing" => Confirmable(files[f])
             /\ CreateChecksums /\ new.pc = "sent" => files[f].status = "Finished"
             /\ new.pc # "none"
             /\ new.pc = "answered" =>
                   \/ new.reply \in {"refused", "lost"}
                   \/ new.reply = "ok" /\ files[f].status = "Finished"
      PROVE  Agrees(s, f)'
  <2>1. task'[s][f] = new
    BY <1>3, SetTaskElse
  <2> QED BY <1>1, <1>2, <1>3, <2>1
          DEF Agrees, SameFile, Retries, Owes, IsSent, Confirmable
<1>4. ASSUME NEW reply \in {"refused", "lost"}, NEW attempt \in {old.attempt, old.attempt + 1},
             SetTask(s, f, Answered(reply, attempt))
      PROVE  Agrees(s, f)'
  BY <1>3, <1>4 DEF Answered
<1>5. ASSUME NEW pc \in TaskStates \ {"none", "answered"}, SetTask(s, f, At(pc, old.attempt)),
             pc = "ready" => files[f].status = "Pending",
             pc = "owing" => Confirmable(files[f]),
             CreateChecksums /\ pc = "sent" => files[f].status = "Finished"
      PROVE  Agrees(s, f)'
  BY <1>3, <1>5 DEF At
<1>6. CASE UploadTurnedAway(s, f)
  BY <1>4, <1>6 DEF UploadTurnedAway, NextAttempt
<1>7. CASE ConfirmTurnedAway(s, f)
  <2>1. ASSUME files[f].status = "Finished", SetTask(s, f, Answered("ok", old.attempt))
        PROVE  Agrees(s, f)'
    BY <1>3, <2>1 DEF Answered
  <2> QED BY <1>4, <1>7, <2>1 DEF ConfirmTurnedAway
<1>8. CASE HandleReply(s, f)
  <2> DEFINE pc == AfterReply(s, old)
  <2>1. old.pc = "answered" /\ SetTask(s, f, At(pc, old.attempt))
    BY <1>8 DEF HandleReply
  <2>2. pc \in TaskStates \ {"none", "answered"}
    BY DEF AfterReply, AfterHeld, RetryOrEnd, TaskStates
  <2>3. pc = "ready" => files[f].status = "Pending"
    <3>1. pc = "ready" => old.reply \in {"mismatch", "offset"} /\ ~(old.attempt >= SenderAttempts)
      BY DEF AfterReply, AfterHeld, RetryOrEnd
    <3>2. ~(old.attempt >= SenderAttempts) => old.attempt < SenderAttempts
      BY <1>2, ConstantsAssumption DEF SenderAttempts
    <3> QED BY <1>1, <2>1, <3>1, <3>2 DEF Agrees, Retries
  <2>4. pc = "owing" => Confirmable(files[f])
    <3>1. pc = "owing" => old.reply = "held"
      BY DEF AfterReply, AfterHeld, RetryOrEnd
    <3> QED BY <1>1, <2>1, <3>1 DEF Agrees, Owes
  <2>5. CreateChecksums /\ pc = "sent" => files[f].status = "Finished"
    <3>1. CreateChecksums /\ pc = "sent" => old.reply = "ok"
      BY DEF AfterReply, AfterHeld, RetryOrEnd
    <3> QED BY <1>1, <2>1, <3>1 DEF Agrees, IsSent
  <2> HIDE DEF pc
  <2> QED BY <1>5, <2>1, <2>2, <2>3, <2>4, <2>5
<1>9. CASE QueryOffset(s, f)
  BY <1>5, <1>9 DEF QueryOffset, TaskStates
<1>10. CASE AbandonUpload(s, f)
  BY <1>5, <1>10 DEF AbandonUpload, TaskStates
<1>11. CASE LoseConnection(s, f)
  BY <1>4, <1>11 DEF LoseConnection
<1> QED BY <1>6, <1>7, <1>8, <1>9, <1>10, <1>11 DEF TaskNext, Begins

\* A handler answers.
LEMMA AnswerFacts ==
    ASSUME NEW r \in Requests, NEW reply, Answer(r, reply), NEW s \in Sessions, NEW f \in Files
    PROVE  task'[s][f] = IF WaitsFor(s, f, r) THEN Answered(reply, task[s][f].attempt)
                                              ELSE task[s][f]
BY DEF Answer

LEMMA AgreesAnswered ==
    ASSUME IInv, SendTypeOK, CallIsServed, NEW s \in Sessions, NEW f \in Files, Agrees(s, f),
           NEW r \in Requests, Answering(r),
           sender'[s].stage \in Accepted => sender[s].stage \in Accepted
    PROVE  Agrees(s, f)'
<1> SUFFICES ASSUME IsActive(s)' PROVE Agrees(s, f)'
  BY DEF Agrees
<1>1. /\ IsActive(s)
      /\ files'[f].attempts = files[f].attempts
      /\ ~Working(r, s, f) => SameFile(f)
  BY FilesAfterEnd DEF Answering, Settles
<1>2. CASE ~Working(r, s, f)
  <2>1. ~WaitsFor(s, f, r)
    BY <1>2 DEF CallIsServed, WaitsFor
  <2>2. req'[r] = IdleRequest
    BY DEF Answering, TargetRefused, Finish, Parks, IInv, TypeOK
  <2>3. task'[s][f] = task[s][f]
    BY <2>1, <2>2, AnswerFacts DEF Answering, HandlerAnswers
  <2> QED BY <1>1, <1>2, <2>3, AgreesKept
<1>3. CASE Working(r, s, f) /\ ~WaitsFor(s, f, r)
  <2>1. Engaged(f)
    BY <1>1, <1>3, WorkedOn
  <2>2. req'[r] = IdleRequest
    BY DEF Answering, TargetRefused, Finish, Parks, IInv, TypeOK
  <2>3. task'[s][f] = task[s][f]
    BY <1>3, <2>2, AnswerFacts DEF Answering, HandlerAnswers
  <2> QED BY <1>1, <2>1, <2>3, AgreesEngaged
<1>4. CASE Working(r, s, f) /\ WaitsFor(s, f, r)
  <2>0. /\ files[f].attempts \in Nat /\ task[s][f].attempt \in Nat
        /\ files[f].attempts <= task[s][f].attempt
        /\ files[f] \in FileType
    BY <1>1, AttemptNumbers DEF IInv, TypeOK, FileType, Agrees
  <2>1. ASSUME NEW reply, Answer(r, reply),
               /\ reply \in {"mismatch", "offset"} /\ files[f].attempts < MaxAttempts
                      => files'[f].status = "Pending"
               /\ reply = "held" => Confirmable(files'[f])
               /\ reply = "ok" => files'[f].status = "Finished"
        PROVE  Agrees(s, f)'
    <3>1. task'[s][f] = Answered(reply, task[s][f].attempt)
      BY <1>4, <2>1, AnswerFacts
    <3>2. /\ task'[s][f].pc = "answered"
          /\ task'[s][f].reply = reply
          /\ task'[s][f].attempt = task[s][f].attempt
      BY <3>1 DEF Answered
    <3>3. task[s][f].attempt < SenderAttempts => files[f].attempts < MaxAttempts
      BY <2>0, ConstantsAssumption DEF SenderAttempts
    <3> QED BY <1>1, <2>0, <2>1, <3>2, <3>3
            DEF Agrees, Retries, Owes, IsSent, SenderAttempts
  <2>2. CASE TargetRefused(r)
    <3>1. Answer(r, "refused")
      BY <2>2 DEF Answering, HandlerAnswers, TargetRefused, BodyHeld, Finish
    <3> QED BY <2>1, <3>1
  <2>3. CASE Finish(r)
    <3>1. Answer(r, ReplyTo(req[r].outcome))
      BY <2>3 DEF Answering, HandlerAnswers, TargetRefused, BodyHeld, Finish
    <3>2. files'[f].status = NextStatus(s, files[f], req[r].outcome)
      BY <1>4, <2>3, FinishSettles
    <3>3. req[r].outcome # "Held"
      BY <1>1, <1>4 DEF IInv, Outcomes, HeldIsOver, Working
    <3> DEFINE reply == ReplyTo(req[r].outcome)
    <3>4. reply \in {"mismatch", "offset"} /\ files[f].attempts < MaxAttempts
             => files'[f].status = "Pending"
      BY <3>2 DEF ReplyTo, NextStatus, MayRetry
    <3>5. reply # "held" /\ (reply = "ok" => req[r].outcome = "Success")
      BY <3>3 DEF ReplyTo
    <3>6. reply = "ok" => files'[f].status = "Finished"
      BY <3>2, <3>5 DEF NextStatus
    <3> HIDE DEF reply
    <3> QED BY <2>1, <3>1, <3>4, <3>5, <3>6 DEF reply
  <2>4. CASE BodyHeld(r) /\ Parks(r)
    <3>1. req'[r] = IdleRequest
      BY <2>4 DEF Parks, IInv, TypeOK
    <3>2. Answer(r, "held")
      BY <2>4, <3>1 DEF Answering, HandlerAnswers, TargetRefused, BodyHeld, Finish
    <3>3. files'[f] = [files[f] EXCEPT !.status = "AwaitingChecksum", !.parked = TRUE]
      BY <1>4, <2>4 DEF Parks, Working, IInv, TypeOK
    <3>4. Confirmable(files'[f])
      BY <2>0, <3>3 DEF Confirmable, FileType
    <3> QED BY <2>1, <3>2, <3>4
  <2> QED BY <2>2, <2>3, <2>4 DEF Answering, HandlerAnswers
<1> QED BY <1>2, <1>3, <1>4

LEMMA AgreesStep ==
    ASSUME IInv, SendInv, TasksFollow, [SendNext]_sendVars,
           NEW s \in Sessions, NEW f \in Files, Agrees(s, f)
    PROVE  Agrees(s, f)'
<1> USE DEF SendInv
<1>1. ASSUME NEW accepted \in SUBSET Files, AcceptedAnswer(s, accepted)
      PROVE  Agrees(s, f)'
  BY <1>1, AgreesFirst
<1> SUFFICES ASSUME \A accepted \in SUBSET Files : ~AcceptedAnswer(s, accepted), IsActive(s)'
             PROVE  Agrees(s, f)'
  BY <1>1 DEF Agrees
<1>2. sender'[s].stage \in Accepted => sender[s].stage \in Accepted
  BY SenderChanges DEF SenderMoves
<1>3. IsActive(s) /\ prep[s] = "done"
  BY OnlyAnswersActivate DEF IInv, SlotDiscipline, ActiveWasPrepared
<1>4. CASE WorkersStay
  <2>1. SameFile(f)
    BY <1>3, <1>4, StepServes, FilesStay
  <2>2. CASE task'[s][f] = task[s][f]
    BY <1>2, <1>3, <2>1, <2>2, AgreesKept
  <2>3. CASE TaskNext(s, f) \/ LoseConnection(s, f)
    <3>1. ASSUME NEW r \in Requests, Begins(s, f, r)
          PROVE  FALSE
      BY <1>4, <3>1, ConstantsAssumption
      DEF Begins, CallUpload, CallConfirm, BeginUpload, BeginConfirm, Fresh, IdleRequest,
          WorkersStay, IInv, TypeOK
    <3> QED BY <1>3, <2>1, <2>3, <3>1, AgreesAlone
  <2>4. ASSUME NEW r \in Requests, HandlerAnswers(r), WaitsFor(s, f, r)
        PROVE  task'[s][f] = task[s][f]
    <3>1. req[r].sid = s
      BY <2>4 DEF CallIsServed, WaitsFor, Working
    <3>2. req'[r].sid = s
      BY <1>4, <3>1 DEF WorkersStay
    <3>3. req'[r] # IdleRequest
      BY <3>2, ConstantsAssumption DEF IdleRequest
    <3> QED BY <2>4, <3>3 DEF HandlerAnswers, TargetRefused, Finish, IInv, TypeOK
  <2> QED BY <2>2, <2>3, <2>4, TaskChanges DEF TaskMoved
<1>5. ASSUME NEW t \in Sessions, NEW g \in Files, NEW r \in Requests, Begins(t, g, r)
      PROVE  Agrees(s, f)'
  BY <1>2, <1>5, AgreesBegun
<1>6. ASSUME NEW r \in Requests, Answering(r)
      PROVE  Agrees(s, f)'
  BY <1>2, <1>6, AgreesAnswered
<1>7. ASSUME NEW r \in Requests, HandlerDropped(r)
      PROVE  Agrees(s, f)'
  <2>1. task'[s][f] = task[s][f]
    BY <1>7 DEF HandlerDropped, senderVars
  <2>2. /\ files'[f].attempts = files[f].attempts
        /\ ~Working(r, s, f) => SameFile(f)
    BY <1>7, FilesAfterEnd DEF HandlerDropped, DropHandler, Settles
  <2>3. CASE Working(r, s, f)
    <3>1. Engaged(f)
      BY <1>3, <2>3, WorkedOn
    <3> QED BY <1>2, <1>3, <2>1, <2>2, <3>1, AgreesEngaged
  <2>4. CASE ~Working(r, s, f)
    BY <1>2, <1>3, <2>1, <2>2, <2>4, AgreesKept
  <2> QED BY <2>3, <2>4
<1> QED BY <1>4, <1>5, <1>6, <1>7, WorkersChange

------------------------------------------------------------------------------
(* Without a lost connection or a cancel the sender learns how a file ended. *)

\* A file is put into place by a handler that works on it.
LEMMA PlacedBy ==
    ASSUME IInv, [SendNext]_sendVars, NEW s \in Sessions, NEW f \in Files,
           <<s, f>> \in placed' \ placed
    PROVE  \E r \in Requests :
               /\ Working(r, s, f)
               /\ \/ BodySaved(r, "Success")
                  \/ Settle(r, "Success")
                  \/ HandlerDropped(r)
<1> USE DEF handlerVars, outcomeVars
<1>1. placed' # placed
  OBVIOUS
<1>2. ASSUME NEW t \in Sessions,
             \/ PostNext(t) \/ AnswerNext(t) \/ UserNext(t) \/ TakeAccepted(t)
             \/ GiveUp(t) \/ PrepareFails(t) \/ HungUp(t) \/ EndNext(t)
      PROVE  placed' = placed
  BY <1>2
  DEF PostNext, PostClaims, PostBusy, PostNeedsPin, PostLocked, ClaimPending,
      AnswerNext, AskApplication, AcceptedAnswer, SessionAccepted, RefusedAnswer,
      SessionRefused, AnswerDropped, AbortPrepare, UserNext, EnterPin, DismissPin, CancelSend,
      TakeAccepted, GiveUp, PrepareFails, HungUp, SenderGone, EndNext, FinishSend, CloseSend,
      CancelBySender, vars
<1>3. ASSUME NEW t \in Sessions, NEW g \in Files, TaskNext(t, g) \/ LoseConnection(t, g)
      PROVE  placed' = placed
  BY <1>3 DEF TaskNext, CallUpload, CallConfirm, UploadTurnedAway, ConfirmTurnedAway,
       HandleReply, QueryOffset, AbandonUpload, LoseConnection, TouchOrNothing, Touch,
       BeginUpload, BeginConfirm, vars
<1>4. ASSUME ForgetFailures \/ RestNext \/ UNCHANGED sendVars
      PROVE  placed' = placed
  BY <1>4 DEF ForgetFailures, RestNext, TenMinutes, Reap, Deliver, AppNext, AppTakes,
     AppDecides, AppAnswers, CancelByReceiver, sendVars, vars
<1>5. ASSUME NEW r \in Requests, NEW outcome, Place(r, outcome)
      PROVE  Working(r, s, f) /\ outcome = "Success"
  BY <1>5 DEF Place, Working
<1>6. ASSUME NEW r \in Requests, HandleNext(r)
      PROVE  Working(r, s, f) /\ (BodySaved(r, "Success") \/ Settle(r, "Success"))
  BY <1>1, <1>5, <1>6 DEF HandleNext, HandlerAnswers, HandlerWorks, AskTarget, StartSaving,
     TargetRefused, BodySaved, BodyHeld, Settle, Report, Finish
<1>7. ASSUME NEW r \in Requests, HandlerDropped(r)
      PROVE  Working(r, s, f)
  BY <1>1, <1>5, <1>7 DEF HandlerDropped, DropHandler, DropUpload, DropConfirm
<1> QED BY <1>1, <1>2, <1>3, <1>4, <1>6, <1>7 DEF SendNext

\* An outcome that is known stays, as long as the handler is there.
LEMMA OutcomeStays ==
    ASSUME IInv, OutcomeLast, [SendNext]_sendVars, WorkersStay,
           NEW r \in Requests, req[r].outcome # "none", req[r].sid # NoSession
    PROVE  req'[r].outcome = req[r].outcome
<1>0. /\ TypeOK /\ RequestShape
      /\ req[r].pc \in {"reporting", "finishing"}
      /\ req'[r] # IdleRequest
  BY DEF IInv, OutcomeLast, WorkersStay, IdleRequest
<1>1. [Next]_vars
  BY StepServes
<1>2. ASSUME NEW q \in Requests, NEW new, req' = [req EXCEPT ![q] = new],
             q = r => new.outcome = req[r].outcome
      PROVE  req'[r].outcome = req[r].outcome
  BY <1>0, <1>2 DEF TypeOK
<1>3. ASSUME NEW q \in Requests, HandlerNext(q)
      PROVE  req'[r].outcome = req[r].outcome
  <2>1. CASE q = r
    <3>1. Report(r)
      BY <1>0, <1>3, <2>1
      DEF HandlerNext, AskTarget, StartSaving, TargetRefused, BodySaved, BodyHeld, Settle, Finish,
          TypeOK
    <3> QED BY <1>0, <3>1 DEF Report, Goto, TypeOK, RequestType
  <2>2. CASE q # r
    BY <1>0, <1>3, <2>2
    DEF HandlerNext, AskTarget, StartSaving, TargetRefused, BodySaved, BodyHeld, Settle, Report,
        Finish, Goto, TypeOK
  <2> QED BY <2>1, <2>2
<1>4. ASSUME NEW q \in Requests, DropHandler(q)
      PROVE  req'[r].outcome = req[r].outcome
  BY <1>0, <1>4 DEF DropHandler, DropUpload, DropConfirm, TypeOK
<1>5. ASSUME NEW q \in Requests, NEW t \in Sessions, NEW g \in Files, RequestNext(q, t, g)
      PROVE  req'[r].outcome = req[r].outcome
  <2>1. q # r
    BY <1>5 DEF RequestNext, BeginUpload, BeginConfirm, Fresh, IdleRequest
  <2> QED BY <1>0, <1>5, <2>1 DEF RequestNext, BeginUpload, BeginConfirm, TypeOK
<1>6. ASSUME NEW q \in Requests, NEW answer \in {"assigned", "rejected"}, AppAnswers(q, answer)
      PROVE  req'[r].outcome = req[r].outcome
  BY <1>0, <1>6 DEF AppAnswers, Goto, TypeOK, RequestType
<1>7. ASSUME NEW t \in Sessions, PrepareNext(t) \/ SenderNext(t) \/ Reap(t)
      PROVE  req' = req
  BY <1>7 DEF PrepareNext, SenderNext, ClaimPending, AskApplication, SessionAccepted,
     SessionRefused, PrepareWithdrawn, AnswerDropped, SenderGone, AbortPrepare, CancelPending,
     CancelBySender, Touch, Reap, handlerVars
<1>8. ASSUME \/ TenMinutes \/ AppTakes
             \/ \E e \in spawned : Deliver(e)
             \/ \E t \in Sessions, answer \in AnsweredStates : AppDecides(t, answer)
             \/ \E t \in Sessions : CancelByReceiver(t)
             \/ UNCHANGED vars
      PROVE  req' = req
  BY <1>8 DEF TenMinutes, AppTakes, Deliver, AppDecides, CancelByReceiver, vars, handlerVars
<1> QED BY <1>1, <1>3, <1>4, <1>5, <1>6, <1>7, <1>8 DEF Next, ServerNext, AppNext

\* What a task that is not excused may do by itself.
LEMMA StraightTasks ==
    ASSUME SendTypeOK, NEW s \in Sessions, NEW f \in Files, ~Excused(s, f)',
           TaskNext(s, f) \/ LoseConnection(s, f)
    PROVE  /\ task[s][f].pc \notin {"calling", "sent"}
           /\ IsSent(s, f) => task'[s][f].pc = "sent"
<1>1. TaskNext(s, f) /\ ~AbandonUpload(s, f)
  <2>1. ~LoseConnection(s, f)
    BY DEF LoseConnection, Excused
  <2>2. ~AbandonUpload(s, f)
    BY DEF AbandonUpload, Excused
  <2> QED BY <2>1, <2>2
<1>2. CASE HandleReply(s, f)
  <2>1. task'[s][f] = At(AfterReply(s, task[s][f]), task[s][f].attempt)
    BY <1>2, SetTaskElse DEF HandleReply
  <2>2. task[s][f].reply = "ok" => AfterReply(s, task[s][f]) = "sent"
    BY DEF AfterReply
  <2> QED BY <1>2, <2>1, <2>2 DEF HandleReply, IsSent, At
<1>3. CASE ~HandleReply(s, f)
  BY <1>1, <1>3 DEF TaskNext, CallUpload, CallConfirm, UploadTurnedAway, ConfirmTurnedAway,
     QueryOffset, MayStart, Confirming, IsSent
<1> QED BY <1>2, <1>3

LEMMA ExcusedStays ==
    ASSUME SendTypeOK, [SendNext]_sendVars, NEW s \in Sessions, NEW f \in Files, ~Excused(s, f)'
    PROVE  ~Excused(s, f)
BY SenderChanges DEF SenderMoves, Excused

\* Who works on a file of a session has been accepted.
LEMMA WorkingAccepted ==
    ASSUME IInv, NEW r \in Requests, NEW s \in Sessions, NEW f \in Files, Working(r, s, f)
    PROVE  prep[s] = "done"
BY ConstantsAssumption DEF IInv, SlotDiscipline, ActiveWasPrepared, Working

\* What may happen to a task that waits for an answer.
LEMMA StillWaits ==
    ASSUME IInv, SendInv, TasksFollow, [SendNext]_sendVars,
           NEW s \in Sessions, NEW f \in Files, ~Excused(s, f)',
           NEW r \in Requests, Working(r, s, f), WaitsFor(s, f, r), req'[r] # IdleRequest
    PROVE  WaitsFor(s, f, r)'
<1> USE DEF SendInv
<1>1. ASSUME NEW accepted \in SUBSET Files, AcceptedAnswer(s, accepted)
      PROVE  FALSE
  BY <1>1, WorkingAccepted DEF AcceptedAnswer, SessionAccepted
<1>2. ~(TaskNext(s, f) \/ LoseConnection(s, f))
  BY StraightTasks DEF WaitsFor
<1>3. ASSUME NEW q \in Requests, HandlerAnswers(q), WaitsFor(s, f, q)
      PROVE  task'[s][f] = task[s][f]
  <2>1. q = r
    BY <1>3 DEF WaitsFor
  <2> QED BY <1>3, <2>1 DEF HandlerAnswers, TargetRefused, Finish, IInv, TypeOK
<1>4. task'[s][f] = task[s][f]
  BY <1>1, <1>2, <1>3, TaskChanges DEF TaskMoved
<1> QED BY <1>4 DEF WaitsFor

LEMMA WorkersWaited ==
    ASSUME IInv, SendInv, TasksFollow, [SendNext]_sendVars,
           NEW s \in Sessions, NEW f \in Files, Straight(s, f), ~Excused(s, f)',
           NEW r \in Requests, Working(r, s, f)'
    PROVE  WaitsFor(s, f, r)'
<1> USE DEF SendInv
<1>0. TypeOK /\ RequestShape /\ ~Excused(s, f)
  BY ExcusedStays DEF IInv
<1>1. req'[r] # IdleRequest
  BY ConstantsAssumption DEF Working, IdleRequest
<1>2. Working(r, s, f) => WaitsFor(s, f, r)'
  BY <1>0, <1>1, StillWaits DEF Straight
<1>3. CASE WorkersStay
  BY <1>2, <1>3 DEF WorkersStay, Working
<1>4. ASSUME NEW q \in Requests, Answering(q) \/ HandlerDropped(q)
      PROVE  WaitsFor(s, f, r)'
  <2>1. req' = [req EXCEPT ![q] = IdleRequest]
    BY <1>4 DEF Answering, TargetRefused, Finish, Parks, HandlerDropped, DropHandler, DropUpload,
                DropConfirm
  <2> QED BY <1>0, <1>1, <1>2, <2>1 DEF Working, TypeOK
<1>5. ASSUME NEW t \in Sessions, NEW g \in Files, NEW q \in Requests, Begins(t, g, q)
      PROVE  WaitsFor(s, f, r)'
  <2>1. /\ req'[q].sid = t /\ req'[q].file = g
        /\ \A p \in Requests \ {q} : req'[p] = req[p]
    BY <1>0, <1>5 DEF Begins, CallUpload, CallConfirm, BeginUpload, BeginConfirm, TypeOK
  <2>2. CASE q = r
    <3>1. s = t /\ f = g
      BY <2>1, <2>2 DEF Working
    <3>2. \E attempt : SetTask(s, f, Calling(r, attempt))
      BY <1>5, <2>2, <3>1 DEF Begins, CallUpload, CallConfirm
    <3>3. \E attempt : task'[s][f] = Calling(r, attempt)
      BY <3>2, SetTaskElse
    <3> QED BY <3>3 DEF WaitsFor, Calling
  <2>3. CASE q # r
    BY <1>2, <2>1, <2>3 DEF Working
  <2> QED BY <2>2, <2>3
<1> QED BY <1>3, <1>4, <1>5, WorkersChange

\* A file in place is answered as such, or will be.
LEMMA PlacedAnswered ==
    ASSUME IInv, SendInv, OutcomeLast, TasksFollow, [SendNext]_sendVars,
           NEW s \in Sessions, NEW f \in Files, Straight(s, f), ~Excused(s, f)',
           <<s, f>> \in placed'
    PROVE  \/ IsSent(s, f)'
           \/ \E r \in Requests : Working(r, s, f)' /\ req'[r].outcome = "Success"
<1> USE DEF SendInv
<1>0. TypeOK /\ RequestShape /\ ~Excused(s, f)
  BY ExcusedStays DEF IInv
<1>1. ASSUME <<s, f>> \notin placed
      PROVE  \E r \in Requests : Working(r, s, f)' /\ req'[r].outcome = "Success"
  <2>1. PICK r \in Requests : /\ Working(r, s, f)
                              /\ \/ BodySaved(r, "Success")
                                 \/ Settle(r, "Success")
                                 \/ HandlerDropped(r)
    BY <1>1, PlacedBy
  <2>2. ~HandlerDropped(r)
    BY <1>0, <2>1 DEF Straight, HandlerDropped
  <2>3. req' = [req EXCEPT ![r].pc = "reporting", ![r].outcome = "Success"]
    BY <2>1, <2>2 DEF BodySaved, Settle
  <2>4. /\ req'[r].sid = req[r].sid
        /\ req'[r].file = req[r].file
        /\ req'[r].outcome = "Success"
    BY <1>0, <2>3 DEF TypeOK, RequestType
  <2> QED BY <2>1, <2>4 DEF Working
<1>2. CASE IsSent(s, f)
  <2>1. ASSUME NEW accepted \in SUBSET Files, AcceptedAnswer(s, accepted)
        PROVE  FALSE
    BY <1>2, <2>1 DEF AcceptedAnswer, SessionAccepted, TasksFollow, IsSent, NoTask, At
  <2>2. ASSUME TaskNext(s, f) \/ LoseConnection(s, f)
        PROVE  IsSent(s, f)'
    BY <1>2, <2>2, StraightTasks DEF IsSent
  <2>3. ASSUME NEW r \in Requests, WaitsFor(s, f, r)
        PROVE  FALSE
    BY <1>2, <2>3 DEF IsSent, WaitsFor
  <2>4. task'[s][f] = task[s][f] => IsSent(s, f)'
    BY <1>2 DEF IsSent
  <2> QED BY <2>1, <2>2, <2>3, <2>4, TaskChanges DEF TaskMoved
<1>3. ASSUME NEW r \in Requests, Working(r, s, f), req[r].outcome = "Success"
      PROVE  \/ IsSent(s, f)'
             \/ Working(r, s, f)' /\ req'[r].outcome = "Success"
  <2>1. WaitsFor(s, f, r) /\ req[r].sid # NoSession /\ req[r].pc \in {"reporting", "finishing"}
    BY <1>0, <1>3, ConstantsAssumption DEF Straight, Working, OutcomeLast
  <2>2. CASE WorkersStay
    BY <1>3, <2>1, <2>2, OutcomeStays DEF WorkersStay, Working
  <2>3. ASSUME NEW t \in Sessions, NEW g \in Files, NEW q \in Requests, Begins(t, g, q)
        PROVE  req'[r] = req[r]
    <3>1. q # r
      BY <2>1, <2>3
      DEF Begins, CallUpload, CallConfirm, BeginUpload, BeginConfirm, Fresh, IdleRequest
    <3> QED BY <1>0, <2>3, <3>1
            DEF Begins, CallUpload, CallConfirm, BeginUpload, BeginConfirm, TypeOK
  <2>4. ASSUME NEW q \in Requests, q # r, Answering(q) \/ HandlerDropped(q)
        PROVE  req'[r] = req[r]
    BY <1>0, <2>4 DEF Answering, TargetRefused, Finish, Parks, HandlerDropped, DropHandler,
       DropUpload, DropConfirm, TypeOK
  <2>5. ~HandlerDropped(r)
    BY <2>1 DEF HandlerDropped
  <2>6. ASSUME Answering(r)
        PROVE  IsSent(s, f)'
    <3>1. Finish(r) /\ ~TargetRefused(r) /\ ~BodyHeld(r)
      BY <2>1, <2>6 DEF Answering, HandlerAnswers, TargetRefused, BodyHeld, Finish
    <3>2. Answer(r, "ok")
      BY <1>3, <2>6, <3>1 DEF Answering, HandlerAnswers, ReplyTo
    <3>3. task'[s][f] = Answered("ok", task[s][f].attempt)
      BY <2>1, <3>2, AnswerFacts
    <3> QED BY <3>3 DEF IsSent, Answered
  <2> QED BY <1>3, <2>2, <2>3, <2>4, <2>5, <2>6, WorkersChange DEF Working
<1> QED BY <1>0, <1>1, <1>2, <1>3 DEF Straight

LEMMA StraightStep ==
    ASSUME IInv, SendInv, OutcomeLast, TasksFollow, [SendNext]_sendVars,
           NEW s \in Sessions, NEW f \in Files, Straight(s, f)
    PROVE  Straight(s, f)'
<1> SUFFICES ASSUME ~Excused(s, f)' PROVE Straight(s, f)'
  BY DEF Straight
<1>1. \A r \in Requests : Working(r, s, f)' => WaitsFor(s, f, r)'
  BY WorkersWaited
<1>2. <<s, f>> \in placed' =>
          \/ IsSent(s, f)'
          \/ \E r \in Requests : Working(r, s, f)' /\ req'[r].outcome = "Success"
  BY PlacedAnswered
<1> QED BY <1>1, <1>2 DEF Straight

\* When every file of the transfer is sent the receiver has nothing left to wait for.
LEMMA FinishedIsOverStep ==
    ASSUME IInv, SidesAgree, SendTypeOK, [SendNext]_sendVars
    PROVE  FinishedIsOver'
<1> SUFFICES ASSUME CreateChecksums, NEW s \in Sessions, sender'[s].view = "Finished"
             PROVE  prep'[s] = "done" /\ ~IsActive(s)'
  BY DEF FinishedIsOver
<1>1. prep[s] = "done" /\ ~IsActive(s)
  <2>1. CASE FinishSend(s)
    <3>1. sender[s].stage = "uploading" /\ AllSent(s)
      BY <2>1 DEF FinishSend
    <3>2. prep[s] = "done"
      BY <3>1 DEF SidesAgree, TasksFollow, Accepted
    <3>3. ASSUME IsActive(s), NEW f \in Files
          PROVE  files[f].status \in {"Finished", "Absent"}
      BY <3>1, <3>3 DEF SidesAgree, Agrees, AllSent, IsSent, Accepted
    <3> QED BY <3>2, <3>3 DEF IInv, ActiveIncomplete, IsActive
  <2> QED BY <2>1, SenderChanges DEF SenderMoves, SidesAgree, FinishedIsOver
<1> QED BY <1>1, StepServes, StepClasses, NoRevival DEF IInv

LEMMA SidesAgreeInit == SendInit => SidesAgree
<1> SUFFICES ASSUME SendInit PROVE SidesAgree
  OBVIOUS
<1>1. /\ slot = FreeSlot
      /\ \A r \in Requests : req[r] = IdleRequest
      /\ placed = {}
      /\ \A s \in Sessions : sender[s].stage = "preparing" /\ sender[s].view = "Preparing"
      /\ \A s \in Sessions, f \in Files : task[s][f] = NoTask
  BY DEF SendInit, Init
<1>2. \A s \in Sessions : ~IsActive(s)
  BY <1>1 DEF IsActive, FreeSlot
<1> QED BY <1>1, <1>2, ConstantsAssumption
        DEF SidesAgree, OutcomeLast, TasksFollow, Agrees, Straight, FinishedIsOver, Working,
            IdleRequest, Accepted

LEMMA SidesAgreeStep ==
    ASSUME IInv, SendInv, SidesAgree, [SendNext]_sendVars
    PROVE  SidesAgree'
<1>1. TypeOK /\ SendTypeOK /\ [Next]_vars /\ OutcomeLast /\ TasksFollow
  BY StepServes DEF IInv, SendInv, SidesAgree
<1>2. OutcomeLast' /\ TasksFollow' /\ FinishedIsOver'
  BY <1>1, OutcomeLastStep, TasksFollowStep, FinishedIsOverStep
<1>3. \A s \in Sessions, f \in Files : Agrees(s, f)' /\ Straight(s, f)'
  BY <1>1, AgreesStep, StraightStep DEF SidesAgree
<1> QED BY <1>2, <1>3 DEF SidesAgree

\* A sender and the receiver agree on every file of a session on which no connection was
\* lost and no user cancelled: on the attempts (upload_with_retries counts its own), and on
\* the outcome that an answer under way will report.
THEOREM SidesInvariance == SendSpec => []SidesAgree
BY SidesAgreeInit, SidesAgreeStep, ServerInvariant, SendInvariance, PTL DEF SendSpec

\* When the sender is about to try a file again, a receiver that still has the session
\* waits for it, and when it is about to confirm one the receiver holds it
\* (upload_with_retries against finalize_file).
THEOREM CallsWelcome == SendSpec => []CallIsWelcome
<1>1. SidesAgree => CallIsWelcome
  BY DEF SidesAgree, Agrees, Retries, Owes, CallIsWelcome
<1> QED BY <1>1, SidesInvariance, PTL

\* A sender that hashes what it sends: a file reported as failed is not in place unless a
\* connection was lost or the user cancelled, and a finished transfer is over for the receiver.
THEOREM OutcomeTrue ==
    ASSUME CreateChecksums
    PROVE  SendSpec => []OutcomeIsTrue
<1>1. SidesAgree /\ CallIsServed => OutcomeIsTrue
  <2> SUFFICES ASSUME SidesAgree, NEW s \in Sessions
               PROVE  /\ sender[s].view = "Finished" => ~IsActive(s)
                      /\ \A f \in Files : task[s][f].pc = "failed" /\ <<s, f>> \in placed =>
                             <<s, f>> \in lossy \/ sender[s].cancelled
    BY DEF OutcomeIsTrue
  <2>1. ASSUME NEW f \in Files, task[s][f].pc = "failed", <<s, f>> \in placed
        PROVE  Excused(s, f)
    BY <2>1 DEF SidesAgree, Straight, IsSent, WaitsFor
  <2> QED BY <2>1 DEF SidesAgree, FinishedIsOver, Excused
<1> QED BY <1>1, SidesInvariance, CallServed, PTL

\* The slot of the server behaves as SessionSlot promises also when its handlers are called
\* by the sender's task, which retries, confirms and cancels.
THEOREM SendingSlotImplemented == SendSpec => SlotRefined
BY SendingServes, SlotImplemented
==============================================================================
