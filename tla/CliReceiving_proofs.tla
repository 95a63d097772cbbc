------------------------- MODULE CliReceiving_proofs -------------------------
(***************************************************************************)
(* Proofs about module CliReceiving: the command line's loop knows the     *)
(* session the server receives, and what it says was received is true.     *)
(*                                                                         *)
(* For the server the loop is one more application that takes an event and *)
(* answers (RuntimeTouches in UploadSession_proofs), so the server's       *)
(* invariant holds here as well.  Beside it the invariant CliInv says what *)
(* the events under way mean (PartingEvents), that the success of a file   *)
(* is the last that is heard of it (SuccessComesLast), and that a file in  *)
(* place is reported, on its way or entered (Accounted).                   *)
(***************************************************************************)
EXTENDS CliReceiving, UploadSession_proofs

------------------------------------------------------------------------------
(* The steps of the loop as steps of the server's application.             *)

\* Who is asked at the terminal, and about what.
PromptShape ==
    /\ prompt.kind = "accept" => prompt.sid \in Sessions
    /\ prompt.kind = "conflict" =>
           prompt.sid \in Sessions /\ prompt.file \in Files /\ prompt.req \in Requests

CInv == IInv /\ EventShape /\ EndInv /\ CliTypeOK /\ PromptShape

LEMMA CInvParts ==
    ASSUME CInv
    PROVE  /\ TypeOK /\ RequestShape /\ SlotDiscipline /\ Ownership /\ Outcomes
           /\ IInv /\ EventShape /\ EndInv /\ CliTypeOK /\ PromptShape
           /\ prep \in [Sessions -> PrepStates]
           /\ \A s \in Sessions : s # NoSession
BY ConstantsAssumption DEF CInv, IInv, TypeOK

\* The event the loop takes.
LEMMA TakenEvent ==
    ASSUME CInv, NEW type, Takes(type)
    PROVE  /\ prompt = NoPrompt
           /\ channel # <<>> /\ channel' = Tail(channel)
           /\ First \in Events /\ First.type = type /\ First.sid \in Sessions
           /\ channel' \in Seq(Events)
           /\ First \in Queued
           /\ Queued' \subseteq Queued
           /\ type \in {"FileUpload", "FileUploadResult"} =>
                  First.file \in Files /\ First.req \in Requests
<1>1. /\ TypeOK /\ EventShape /\ prompt = NoPrompt
      /\ channel # <<>> /\ channel' = Tail(channel) /\ First.type = type
  BY DEF CInv, IInv, Takes
<1>2. /\ First \in Queued /\ First \in Events
      /\ Tail(channel) \in Seq(Events)
      /\ Queued' \subseteq Queued
  BY <1>1, TailQueued DEF First
<1> QED BY <1>1, <1>2 DEF Events, EventShape, NamesItsFile

LEMMA AnsweredDecides ==
    ASSUME NEW s \in Sessions, NEW accept \in BOOLEAN, Answered(s, accept)
    PROVE  prep' = prep \/ \E answer \in AnsweredStates : DecisionTo(s, answer)
BY DEF Answered, DecisionTo, AnsweredStates

LEMMA TargetAnswered ==
    ASSUME NEW r \in Requests, NEW answer \in {"assigned", "rejected"}, AnswerTarget(r, answer)
    PROVE  req' = req \/ TargetTo(r, answer)
BY DEF AnswerTarget, TargetTo

\* The loop and the terminal only take the first event, or none, and answer.
LoopTouches ==
    /\ RuntimeTouches
    /\ channel' = channel \/ (channel # <<>> /\ channel' = Tail(channel))
    /\ Queued' \subseteq Queued

LEMMA LoopSteps ==
    ASSUME CInv, LoopStep \/ TerminalStep
    PROVE  LoopTouches
<1>0. /\ TypeOK /\ EventShape /\ PromptShape /\ channel \in Seq(Events)
  BY DEF CInv, IInv, TypeOK
<1>1. ASSUME NEW type, Takes(type), UNCHANGED serverRest
      PROVE  /\ channel' \in Seq(Events) /\ Queued' \subseteq Queued
             /\ channel # <<>> /\ channel' = Tail(channel)
             /\ UNCHANGED <<slot, withdrawn, features, files, idle, placed, told, spawned>>
  BY <1>1, TakenEvent DEF serverRest
<1>2. ASSUME UNCHANGED <<serverRest, channel>>
      PROVE  /\ channel' \in Seq(Events) /\ Queued' \subseteq Queued
             /\ UNCHANGED <<slot, withdrawn, features, files, idle, placed, told, spawned>>
  BY <1>0, <1>2 DEF serverRest, Queued
<1>3. CASE OnPrepareAuto
  <2>1. /\ Takes("PrepareUpload") /\ UNCHANGED serverRest /\ req' = req
        /\ Answered(First.sid, TRUE)
    BY <1>3 DEF OnPrepareAuto
  <2>2. First.sid \in Sessions
    BY <2>1, TakenEvent
  <2>3. prep' = prep \/ \E s \in Sessions, answer \in AnsweredStates : DecisionTo(s, answer)
    BY <2>1, <2>2, AnsweredDecides
  <2> QED BY <1>1, <2>1, <2>3 DEF LoopTouches, RuntimeTouches
<1>4. CASE OnPrepareAsk \/ OnAborted \/ OnEnd \/ \E bytes \in BOOLEAN : OnResult(bytes)
  <2>1. /\ \E type : Takes(type)
        /\ UNCHANGED serverRest /\ req' = req /\ prep' = prep
    BY <1>4 DEF OnPrepareAsk, OnAborted, OnEnd, OnResult
  <2> QED BY <1>1, <2>1 DEF LoopTouches, RuntimeTouches
<1>5. CASE OnUpload
  <2>1. /\ Takes("FileUpload") /\ UNCHANGED serverRest /\ prep' = prep
        /\ \/ req' = req
           \/ \E answer \in {"assigned", "rejected"} : AnswerTarget(First.req, answer)
    BY <1>5 DEF OnUpload, Assign
  <2>2. First.req \in Requests
    BY <2>1, TakenEvent
  <2>3. req' = req \/ \E r \in Requests, answer \in {"assigned", "rejected"} : TargetTo(r, answer)
    BY <2>1, <2>2, TargetAnswered
  <2> QED BY <1>1, <2>1, <2>3 DEF LoopTouches, RuntimeTouches
<1>6. CASE AnswerConflict
  <2>1. prompt.req \in Requests /\ AnswerTarget(prompt.req, "assigned")
    BY <1>0, <1>6 DEF AnswerConflict, Assign, PromptShape
  <2>2. req' = req \/ \E r \in Requests, answer \in {"assigned", "rejected"} : TargetTo(r, answer)
    BY <2>1, TargetAnswered
  <2> QED BY <1>2, <1>6, <2>2 DEF AnswerConflict, LoopTouches, RuntimeTouches
<1>7. ASSUME NEW accept \in BOOLEAN, AnswerRequest(accept)
      PROVE  LoopTouches
  <2>1. prompt.sid \in Sessions /\ Answered(prompt.sid, accept)
    BY <1>0, <1>7 DEF AnswerRequest, PromptShape
  <2>2. prep' = prep \/ \E s \in Sessions, answer \in AnsweredStates : DecisionTo(s, answer)
    BY <2>1, AnsweredDecides
  <2> QED BY <1>2, <1>7, <2>2 DEF AnswerRequest, LoopTouches, RuntimeTouches
<1> QED BY <1>3, <1>4, <1>5, <1>6, <1>7 DEF LoopStep, TerminalStep

\* What the composition adds to the server's own steps are its histories.
LEMMA ServerSteps ==
    ASSUME ServerStep
    PROVE  /\ Next /\ UNCHANGED loopVars
           /\ disturbed \subseteq disturbed'
<1>1. ASSUME NEW s \in Sessions, CliPrepareNext(s)
      PROVE  PrepareNext(s)
  BY <1>1 DEF CliPrepareNext, PrepareNext
<1>2. CASE QuietNext /\ UNCHANGED disturbed
  <2>1. Next
    BY <1>1, <1>2 DEF QuietNext, CliRequestNext, SenderNext, PrepareNext, Next, ServerNext
  <2> QED BY <1>2, <2>1 DEF ServerStep
<1>3. ASSUME NEW r \in Requests, LostConnection(r)
      PROVE  Next /\ disturbed \subseteq disturbed'
  BY <1>3 DEF LostConnection, Next, ServerNext, HandlerNext, DropHandler, SaveOutcomes, Disturb
<1> QED BY <1>2, <1>3 DEF ServerStep

LEMMA CliSteps ==
    ASSUME CInv, [CliNext]_cliVars
    PROVE  [Next]_vars \/ LoopTouches
<1>1. CASE UNCHANGED cliVars
  BY <1>1 DEF cliVars
<1> QED BY <1>1, LoopSteps, ServerSteps DEF CliNext

\* What is known of the server survives, and so does what is over.
LEMMA ServerKept ==
    ASSUME CInv, [CliNext]_cliVars
    PROVE  /\ IInv' /\ EventShape' /\ EndInv'
           /\ \A s \in Sessions : IsOver(s) => IsOver(s)'
           /\ \A s \in Sessions, f \in Files : Through(s, f) => Through(s, f)'
<1>0. IInv /\ EventShape /\ EndInv /\ TypeOK /\ RequestShape
  BY CInvParts
<1>1. CASE [Next]_vars
  BY <1>0, <1>1, InvStep, ServerEvents, EventStepKeeps, EndInvStep, StepClasses, OverStays, ThroughStays
<1>2. CASE LoopTouches
  <2>1. RuntimeTouches /\ spawned' = spawned /\ Queued' \subseteq Queued
    BY <1>2 DEF LoopTouches, RuntimeTouches
  <2>2. MessageStep
    BY <1>2, <2>1 DEF LoopTouches, MessageStep, SpawnsFairly
  <2>3. \A s \in Sessions : IsOver(s) => IsOver(s)'
    BY <1>0, <2>1, TouchKeepsOver
  <2>4. EndInv'
    BY <1>0, <2>2, <2>3, EndInvKept
  <2>5. EventShape'
    BY <1>0, <2>1 DEF EventShape, NamesItsFile
  <2> QED BY <1>0, <2>1, <2>3, <2>4, <2>5, TouchKeepsServer, TouchKeepsThrough
<1> QED BY <1>1, <1>2, CliSteps

------------------------------------------------------------------------------
(* What the events say of a session.                                       *)

\* The withdrawal or the end of a session, or a result of one of its files: its
\* request is over, and what was lost on the way is known.
Parting(e) ==
    /\ e.type = "SessionEnd" => /\ e.outcome \in EndReasons
                                /\ e = SessionEvent("SessionEnd", e.sid, e.outcome)
    /\ e.type \in {"PrepareUploadAborted", "SessionEnd"} => prep[e.sid] = "done" /\ ~IsActive(e.sid)
    /\ e.type = "FileUploadResult" =>
           /\ prep[e.sid] = "done"
           /\ e.outcome = "Interrupted" => e.sid \in disturbed
PartingEvents ==
    /\ \A e \in Queued \cup spawned : Parting(e)
    /\ \A e \in spawned : e.type # "FileUpload"
    /\ \A r \in Requests : req[r].outcome = "Interrupted" => req[r].sid \in disturbed

\* An event that is not about the end of a session or an upload.
Plain(e) == e.type \in {"PrepareUpload", "FileUpload"}

\* What the server sends, and has tasks send.
SendsFairly ==
    /\ \/ channel' = channel
       \/ \E e \in Events : channel' = Append(channel, e) /\ (Plain(e) \/ Parting(e)')
       \/ \E e \in spawned : channel' = Append(channel, e)
    /\ \A e \in spawned' \ spawned : e.type # "FileUpload" /\ Parting(e)'
    /\ \A r \in Requests : req'[r].outcome = "Interrupted" => req'[r].sid \in disturbed'

\* What was said of a session stays true.
PartingStays ==
    /\ \A s \in Sessions : prep[s] = "done" => prep'[s] = "done" /\ (IsActive(s)' => IsActive(s))
    /\ disturbed \subseteq disturbed'

LEMMA PartingKept ==
    ASSUME TypeOK, NEW e \in Events, Parting(e), PartingStays
    PROVE  Parting(e)'
BY DEF Parting, PartingStays, Events

LEMMA PartingEventsKept ==
    ASSUME TypeOK, PartingEvents, SendsFairly, PartingStays
    PROVE  PartingEvents'
<1>1. spawned \subseteq Events /\ Queued \subseteq Events
  BY DEF TypeOK, Queued
<1>2. \A e \in Queued \cup spawned : Parting(e)'
  BY <1>1, PartingKept DEF PartingEvents
<1>3. \A e \in Queued' : Parting(e)'
  <2>1. CASE channel' = channel
    BY <1>2, <2>1 DEF Queued
  <2>2. ASSUME NEW e \in Events, channel' = Append(channel, e), Plain(e) \/ Parting(e)'
        PROVE  \A x \in Queued' : Parting(x)'
    <3>1. Queued' = Queued \cup {e}
      BY <2>2, AppendQueued
    <3>2. Parting(e)'
      BY <2>2 DEF Plain, Parting
    <3> QED BY <1>2, <3>1, <3>2
  <2>3. ASSUME NEW e \in spawned, channel' = Append(channel, e)
        PROVE  \A x \in Queued' : Parting(x)'
    <3>1. Queued' = Queued \cup {e}
      BY <1>1, <2>3, AppendQueued
    <3> QED BY <1>2, <3>1
  <2> QED BY <2>1, <2>2, <2>3 DEF SendsFairly
<1>4. \A e \in spawned' : e.type # "FileUpload" /\ Parting(e)'
  BY <1>2 DEF SendsFairly, PartingEvents
<1> QED BY <1>3, <1>4 DEF PartingEvents, SendsFairly

LEMMA PartingHolds ==
    ASSUME CInv, PartingEvents
    PROVE  /\ TypeOK /\ RequestShape /\ SlotDiscipline /\ IInv
           /\ prep \in [Sessions -> PrepStates]
           /\ \A r \in Requests : req[r] # IdleRequest =>
                  req[r].sid \in Sessions /\ prep[req[r].sid] = "done"
           /\ \A s \in Sessions : IsActive(s) => prep[s] = "done"
BY CInvParts DEF SlotDiscipline, ActiveWasPrepared, RequestShape

\* An event that is sent at once, besides those of handlers that end.
LEMMA Sends ==
    ASSUME NEW e \in Events, channel' = Append(channel, e), spawned' = spawned,
           Plain(e) \/ Parting(e)',
           \A r \in Requests : req'[r].outcome = "Interrupted" => req'[r].sid \in disturbed'
    PROVE  SendsFairly
BY DEF SendsFairly

\* finalize_file spawns the end of the session besides the given results.
LEMMA FinalizeParts ==
    ASSUME CInv, PartingEvents, NEW s \in Sessions, NEW f, NEW outcome, NEW results,
           FinalizeFile(s, f, outcome, results), prep' = prep, channel' = channel,
           \A e \in results : e.type # "FileUpload" /\ Parting(e)',
           \A r \in Requests : req'[r].outcome = "Interrupted" => req'[r].sid \in disturbed'
    PROVE  SendsFairly
<1> DEFINE end == SessionEvent("SessionEnd", s, "Finished")
<1>1. CASE spawned' = spawned \cup results
  BY <1>1 DEF SendsFairly
<1>2. CASE InSession(s) /\ slot' = FreeSlot /\ spawned' = spawned \cup results \cup {end}
  <2>1. prep'[s] = "done" /\ ~IsActive(s)'
    BY <1>2, PartingHolds DEF InSession, IsActive, ActiveSlot, FreeSlot
  <2>2. /\ end.type = "SessionEnd" /\ end.sid = s /\ end.outcome = "Finished"
        /\ end = SessionEvent("SessionEnd", s, "Finished")
    BY DEF SessionEvent, Event
  <2> HIDE DEF end
  <2>3. Parting(end)'
    BY <2>1, <2>2 DEF Parting, EndReasons
  <2> QED BY <1>2, <2>2, <2>3 DEF SendsFairly
<1> QED BY <1>1, <1>2 DEF FinalizeFile

LEMMA HandlerSends ==
    ASSUME CInv, PartingEvents, NEW r \in Requests, disturbed \subseteq disturbed',
           \/ HandlerNext(r) /\ ~BodySaved(r, "Interrupted")
           \/ (DropHandler(r) \/ BodySaved(r, "Interrupted")) /\ req[r].sid \in disturbed'
    PROVE  SendsFairly
<1>0. /\ TypeOK /\ RequestShape /\ req \in [Requests -> RequestType]
      /\ \A q \in Requests : req[q].outcome = "Interrupted" => req[q].sid \in disturbed
  BY PartingHolds DEF PartingEvents, TypeOK
<1>1. /\ req[r] # IdleRequest /\ req[r].sid \in Sessions /\ req[r].file \in Files
      /\ prep[req[r].sid] = "done"
      /\ prep' = prep
  <2>1. req[r] # IdleRequest /\ prep' = prep
    BY DEF HandlerNext, DropHandler, AskTarget, StartSaving, TargetRefused, BodySaved, BodyHeld,
           Settle, Report, Finish, DropUpload, DropConfirm, IdleRequest
  <2> QED BY <1>0, <2>1, PartingHolds DEF RequestShape
<1>2. \A q \in Requests : req'[q].outcome = "Interrupted" => req'[q].sid \in disturbed'
  <2>1. Handles(r)
    BY DEF Handles, HandlerNext, SaveOutcomes
  <2>2. Advance(r) \/ Parks(r) \/ Settles(r) \/ DropConfirm(r)
    BY <1>0, <2>1, HandlerClasses
  <2>3. \/ req' = [req EXCEPT ![r] = IdleRequest]
        \/ /\ req'[r].sid = req[r].sid
           /\ \A q \in Requests \ {r} : req'[q] = req[q]
    BY <1>0, <2>2 DEF Advance, Parks, Settles, TargetRefused, Finish, DropUpload, DropConfirm
  <2>4. CASE req' = [req EXCEPT ![r] = IdleRequest]
    BY <1>0, <2>4 DEF IdleRequest
  <2>5. CASE /\ req'[r].sid = req[r].sid
             /\ \A q \in Requests \ {r} : req'[q] = req[q]
    <3>1. req'[r].outcome = "Interrupted" => req[r].sid \in disturbed'
      <4>1. CASE HandlerNext(r) /\ ~BodySaved(r, "Interrupted")
        BY <1>0, <4>1, NotCutOff
      <4>2. CASE req[r].sid \in disturbed'
        BY <4>2
      <4> QED BY <4>1, <4>2
    <3> QED BY <1>0, <2>5, <3>1
  <2> QED BY <2>3, <2>4, <2>5
<1>3. CASE AskTarget(r)
  <2> DEFINE e == RequestEvent("FileUpload", r, "none")
  <2>1. e \in Events /\ e.type = "FileUpload"
    BY <1>0, <1>1, EventTypes DEF RequestEvent, Event
  <2>2. channel' = Append(channel, e) /\ spawned' = spawned
    BY <1>3 DEF AskTarget
  <2> HIDE DEF e
  <2> QED BY <1>2, <2>1, <2>2, Sends DEF Plain
<1>4. CASE Report(r)
  <2>1. RequestEvent("FileUploadResult", r, req[r].outcome) \in Events
    BY <1>0, <1>1, EventTypes DEF RequestEvent, Event, RequestType
  <2>2. PICK e \in Events : e = RequestEvent("FileUploadResult", r, req[r].outcome)
    BY <2>1
  <2>3. e.type = "FileUploadResult" /\ e.sid = req[r].sid /\ e.outcome = req[r].outcome
    BY <2>2 DEF RequestEvent, Event
  <2>4. channel' = Append(channel, e) /\ spawned' = spawned
    BY <1>4, <2>2 DEF Report
  <2>5. e.outcome = "Interrupted" => e.sid \in disturbed'
    BY <1>0, <2>3
  <2>6. Parting(e)'
    BY <1>1, <2>3, <2>5 DEF Parting
  <2> QED BY <1>2, <2>4, <2>6, Sends
<1>5. CASE TargetRefused(r) \/ Finish(r)
  <2>1. PICK outcome : FinalizeFile(req[r].sid, req[r].file, outcome, {})
    BY <1>5 DEF TargetRefused, Finish
  <2>2. channel' = channel
    BY <1>5 DEF TargetRefused, Finish
  <2> QED BY <1>1, <1>2, <2>1, <2>2, FinalizeParts
<1>6. ASSUME DropUpload(r), req[r].sid \in disturbed'
      PROVE  SendsFairly
  <2>1. PICK cut : cut = RequestEvent("FileUploadResult", r, "Interrupted")
    OBVIOUS
  <2>2. cut.type = "FileUploadResult" /\ cut.sid = req[r].sid /\ cut.outcome = "Interrupted"
    BY <2>1 DEF RequestEvent, Event
  <2>3. PICK results : /\ results \subseteq {cut}
                       /\ FinalizeFile(req[r].sid, req[r].file, "Interrupted", results)
    BY <1>6, <2>1 DEF DropUpload
  <2>4. channel' = channel
    BY <1>6 DEF DropUpload
  <2>5. \A e \in results : e.type # "FileUpload" /\ Parting(e)'
    BY <1>1, <1>6, <2>2, <2>3 DEF Parting
  <2> QED BY <1>1, <1>2, <2>3, <2>4, <2>5, FinalizeParts
<1>7. CASE channel' = channel /\ spawned' = spawned
  BY <1>2, <1>7 DEF SendsFairly
<1>8. CASE \/ StartSaving(r) \/ BodyHeld(r) \/ DropConfirm(r)
           \/ \E outcome \in SaveOutcomes : BodySaved(r, outcome) \/ Settle(r, outcome)
  BY <1>7, <1>8 DEF StartSaving, BodyHeld, DropConfirm, BodySaved, Settle
<1> QED BY <1>3, <1>4, <1>5, <1>6, <1>8 DEF HandlerNext, DropHandler, SaveOutcomes

\* The requests of senders, and what spawned tasks deliver.
LEMMA ServerSends ==
    ASSUME CInv, PartingEvents, ServerStep
    PROVE  SendsFairly
<1>0. /\ TypeOK /\ RequestShape /\ prep \in [Sessions -> PrepStates]
      /\ \A q \in Requests : req[q].outcome = "Interrupted" => req[q].sid \in disturbed
      /\ disturbed \subseteq disturbed'
  BY PartingHolds, ServerSteps DEF PartingEvents
<1>1. ASSUME req' = req
      PROVE  \A r \in Requests : req'[r].outcome = "Interrupted" => req'[r].sid \in disturbed'
  BY <1>0, <1>1
<1>2. ASSUME channel' = channel, spawned' = spawned, req' = req
      PROVE  SendsFairly
  BY <1>1, <1>2 DEF SendsFairly
<1>3. ASSUME NEW s \in Sessions, AskApplication(s)
      PROVE  SendsFairly
  <2> DEFINE e == SessionEvent("PrepareUpload", s, "none")
  <2>1. e \in Events /\ e.type = "PrepareUpload"
    BY <1>0, EventTypes DEF SessionEvent, Event
  <2>2. channel' = Append(channel, e) /\ spawned' = spawned /\ req' = req
    BY <1>3 DEF AskApplication
  <2> HIDE DEF e
  <2> QED BY <1>1, <2>1, <2>2, Sends DEF Plain
<1>4. ASSUME NEW s \in Sessions, PrepareWithdrawn(s) \/ SenderGone(s)
      PROVE  SendsFairly
  <2> DEFINE e == SessionEvent("PrepareUploadAborted", s, "none")
  <2>1. prep[s] \notin {"new", "done"} /\ AbortPrepare(s)
    BY <1>4 DEF PrepareWithdrawn, SenderGone, AnsweredStates
  <2>2. prep'[s] = "done" /\ ~IsActive(s)'
    <3>1. ~IsActive(s)
      BY <2>1, PartingHolds
    <3> QED BY <1>0, <2>1, <3>1 DEF AbortPrepare, ClearPending, IsActive, FreeSlot
  <2>3. e.type = "PrepareUploadAborted" /\ e.sid = s
    BY DEF SessionEvent, Event
  <2>4. spawned' = spawned \cup {e} /\ channel' = channel /\ req' = req
    BY <2>1 DEF AbortPrepare
  <2> HIDE DEF e
  <2>5. Parting(e)' /\ e.type # "FileUpload"
    BY <2>2, <2>3 DEF Parting
  <2> QED BY <1>1, <2>4, <2>5 DEF SendsFairly
<1>5. ASSUME NEW s \in Sessions, CancelBySender(s) \/ Reap(s)
      PROVE  SendsFairly
  <2>1. PICK reason \in EndReasons :
            spawned' = spawned \cup {SessionEvent("SessionEnd", s, reason)}
    BY <1>5 DEF CancelBySender, Reap, EndReasons
  <2> DEFINE e == SessionEvent("SessionEnd", s, reason)
  <2>2. InSession(s) /\ slot' = FreeSlot /\ channel' = channel /\ req' = req /\ prep' = prep
    BY <1>5 DEF CancelBySender, Reap, DropSession, handlerVars
  <2>3. prep'[s] = "done" /\ ~IsActive(s)'
    BY <2>2, PartingHolds DEF InSession, IsActive, ActiveSlot, FreeSlot
  <2>4. /\ e.type = "SessionEnd" /\ e.sid = s /\ e.outcome = reason
        /\ e = SessionEvent("SessionEnd", s, reason)
    BY DEF SessionEvent, Event
  <2>5. spawned' = spawned \cup {e}
    BY <2>1
  <2> HIDE DEF e
  <2>6. Parting(e)' /\ e.type # "FileUpload"
    BY <2>1, <2>3, <2>4 DEF Parting
  <2> QED BY <1>1, <2>2, <2>5, <2>6 DEF SendsFairly
<1>6. ASSUME NEW r \in Requests, NEW s \in Sessions, NEW f \in Files, RequestNext(r, s, f)
      PROVE  SendsFairly
  <2>1. channel' = channel /\ spawned' = spawned
    BY <1>6 DEF RequestNext, BeginUpload, BeginConfirm
  <2>2. req'[r].outcome = "none" /\ \A q \in Requests \ {r} : req'[q] = req[q]
    BY <1>0, <1>6 DEF RequestNext, BeginUpload, BeginConfirm, TypeOK
  <2>3. \A q \in Requests : req'[q].outcome = "Interrupted" => req'[q].sid \in disturbed'
    BY <1>0, <2>2
  <2> QED BY <2>1, <2>3 DEF SendsFairly
<1>7. ASSUME NEW e \in spawned, Deliver(e)
      PROVE  SendsFairly
  BY <1>1, <1>7 DEF Deliver, SendsFairly, handlerVars
<1>8. ASSUME NEW s \in Sessions,
             \/ \E ext \in FeatureSets : ClaimPending(s, ext)
             \/ SessionAccepted(s, Files) \/ SessionRefused(s) \/ CancelPending(s) \/ Touch(s)
      PROVE  SendsFairly
  BY <1>2, <1>8 DEF ClaimPending, SessionAccepted, SessionRefused, CancelPending, Touch, handlerVars
<1>9. CASE QuietNext
  <2>1. ASSUME NEW s \in Sessions, CliPrepareNext(s)
        PROVE  SendsFairly
    BY <1>3, <1>8, <2>1 DEF CliPrepareNext
  <2>2. ASSUME NEW r \in Requests, HandlerNext(r), ~BodySaved(r, "Interrupted")
        PROVE  SendsFairly
    BY <1>0, <2>2, HandlerSends
  <2>3. CASE TenMinutes
    BY <1>2, <2>3 DEF TenMinutes, handlerVars
  <2> QED BY <1>4, <1>5, <1>6, <1>7, <1>8, <1>9, <2>1, <2>2, <2>3 DEF QuietNext, CliRequestNext
<1>10. ASSUME NEW r \in Requests, LostConnection(r)
       PROVE  SendsFairly
  BY <1>0, <1>10, HandlerSends DEF LostConnection, Disturb
<1> QED BY <1>9, <1>10 DEF ServerStep

LEMMA StaysParted ==
    ASSUME CInv, PartingEvents, [CliNext]_cliVars
    PROVE  PartingStays
<1>0. TypeOK /\ RequestShape /\ IInv /\ prep \in [Sessions -> PrepStates]
  BY CInvParts
<1>1. \A s \in Sessions : prep[s] = "done" => prep'[s] = "done" /\ (IsActive(s)' => IsActive(s))
  <2>1. CASE [Next]_vars
    BY <1>0, <2>1, StepClasses, NoRevival
  <2>2. CASE LoopTouches
    BY <1>0, <2>2 DEF LoopTouches, RuntimeTouches, DecisionTo, IsActive
  <2> QED BY <2>1, <2>2, CliSteps
<1>2. disturbed \subseteq disturbed'
  <2>1. CASE LoopStep \/ TerminalStep
    BY <2>1 DEF LoopStep, TerminalStep, OnPrepareAuto, OnPrepareAsk, OnAborted, OnUpload, OnResult,
                OnEnd, AnswerConflict, AnswerRequest, Answered, Disturb
  <2>2. CASE ServerStep
    BY <2>2, ServerSteps
  <2>3. CASE UNCHANGED cliVars
    BY <2>3 DEF cliVars
  <2> QED BY <2>1, <2>2, <2>3 DEF CliNext
<1> QED BY <1>1, <1>2 DEF PartingStays

LEMMA PartingStep ==
    ASSUME CInv, PartingEvents, [CliNext]_cliVars
    PROVE  PartingEvents'
<1>0. TypeOK /\ RequestShape /\ IInv /\ PartingStays
  BY CInvParts, StaysParted
<1>1. CASE ServerStep
  BY <1>0, <1>1, ServerSends, PartingEventsKept
<1>2. CASE LoopStep \/ TerminalStep
  <2>1. /\ RuntimeTouches /\ Queued' \subseteq Queued /\ spawned' = spawned
    BY <1>2, LoopSteps DEF LoopTouches, RuntimeTouches
  <2>2. \A e \in Queued \cup spawned : e \in Events
    BY <1>0 DEF TypeOK, Queued
  <2>3. \A e \in Queued \cup spawned : Parting(e)'
    BY <1>0, <2>2, PartingKept DEF PartingEvents
  <2>4. \A r \in Requests : req'[r].sid = req[r].sid /\ req'[r].outcome = req[r].outcome
    BY <1>0, <2>1, TouchedRequests
  <2> QED BY <1>0, <2>1, <2>3, <2>4 DEF PartingEvents, PartingStays
<1>3. CASE UNCHANGED cliVars
  <2>1. /\ UNCHANGED <<channel, spawned, req, disturbed>>
    BY <1>3 DEF cliVars, vars
  <2>2. SendsFairly
    BY <2>1 DEF SendsFairly, PartingEvents
  <2> QED BY <1>0, <2>2, PartingEventsKept
<1> QED BY <1>1, <1>2, <1>3 DEF CliNext

------------------------------------------------------------------------------
(* Types.                                                                  *)

InfoType == [sid : Sessions \cup {NoSession}, resumable : BOOLEAN,
             received : SUBSET (Sessions \X Files), failed : Nat]

\* What the loop knows is a session, or nothing at all.
Info(i) == i \in InfoType /\ (i.sid = NoSession => i = NoInfo)

ReportType == [reason : EndReasons \cup {"none"}, failed : Nat,
               received : SUBSET (Sessions \X Files)]
PromptType == [kind : {"none", "accept", "conflict"}, sid : Sessions \cup {NoSession},
               file : Files \cup {NoFile}, req : Requests \cup {NoRequest}]

LEMMA CliTypeParts ==
    CliTypeOK <=> /\ Info(session)
                  /\ prompt \in PromptType
                  /\ entry \in [Sessions -> [Files -> {"none", "Finished", "Failed"}]]
                  /\ stray \subseteq Sessions \X Files \X Sessions
                  /\ partials \subseteq Sessions \X Files
                  /\ report \in [Sessions -> ReportType]
                  /\ disturbed \subseteq Sessions
BY DEF CliTypeOK, Info, InfoType, ReportType, PromptType

LEMMA InfoTypes ==
    /\ Info(NoInfo)
    /\ NoInfo.sid = NoSession /\ NoInfo.received = {} /\ NoInfo.failed = 0
    /\ \A s \in Sessions : /\ Info(NewInfo(s)) /\ NewInfo(s).sid = s
                           /\ NewInfo(s).received = {} /\ NewInfo(s).failed = 0
<1>1. Info(NoInfo) /\ NoInfo.sid = NoSession /\ NoInfo.received = {} /\ NoInfo.failed = 0
  BY DEF Info, InfoType, NoInfo
<1>2. ASSUME NEW s \in Sessions
      PROVE  /\ Info(NewInfo(s)) /\ NewInfo(s).sid = s
             /\ NewInfo(s).received = {} /\ NewInfo(s).failed = 0
  <2>1. PICK can \in BOOLEAN :
            NewInfo(s) = [NoInfo EXCEPT !.sid = s, !.resumable = can]
    <3>1. CASE "resume" \in features[s]
      <4>1. ("resume" \in features[s]) = TRUE
        BY <3>1
      <4> QED BY <4>1, Zenon DEF NewInfo
    <3>2. CASE "resume" \notin features[s]
      <4>1. ("resume" \in features[s]) = FALSE
        BY <3>2
      <4> QED BY <4>1, Zenon DEF NewInfo
    <3> QED BY <3>1, <3>2
  <2>3. NewInfo(s) = [sid |-> s, resumable |-> can, received |-> {}, failed |-> 0]
    BY <2>1 DEF NoInfo
  <2>4. s # NoSession
    BY ConstantsAssumption
  <2>5. NewInfo(s) \in InfoType
    BY <2>1, <2>3 DEF InfoType
  <2> QED BY <2>3, <2>4, <2>5 DEF Info
<1> QED BY <1>1, <1>2

\* What a result adds to the session that is known.
LEMMA CreditedFacts ==
    ASSUME Info(session), NEW e, e.sid \in Sessions, e.file \in Files, NEW bytes
    PROVE  LET new == Credited(e, bytes)
           IN  /\ Info(new) /\ new.sid = session.sid
               /\ new.received = IF session.sid # NoSession /\ Succeeded(e)
                                 THEN session.received \cup {<<e.sid, e.file>>} ELSE session.received
               /\ new.failed >= session.failed
               /\ session.sid # NoSession /\ e.outcome \notin {"Success", "Interrupted"} =>
                      new.failed > 0
<1> DEFINE more == [session EXCEPT !.received = @ \cup {<<e.sid, e.file>>}]
           less == [session EXCEPT !.failed = @ + 1]
<1>1. /\ session \in InfoType /\ session.failed \in Nat
      /\ session = NoInfo <=> session.sid = NoSession
  BY DEF Info, NoInfo, InfoType
<1>2. /\ more \in InfoType /\ more.sid = session.sid
      /\ more.received = session.received \cup {<<e.sid, e.file>>} /\ more.failed = session.failed
  BY <1>1 DEF InfoType
<1>3. /\ less \in InfoType /\ less.sid = session.sid
      /\ less.received = session.received /\ less.failed = session.failed + 1
  BY <1>1 DEF InfoType
<1>4. NoInfo.sid = NoSession /\ Info(NoInfo)
  BY InfoTypes
<1>5. Succeeded(e) <=> e.outcome = "Success"
  BY DEF Succeeded
<1>6. Resumable(e, bytes) => e.outcome = "Interrupted"
  BY DEF Resumable
<1>7. /\ session = NoInfo => Credited(e, bytes) = NoInfo
      /\ session # NoInfo /\ Succeeded(e) => Credited(e, bytes) = more
      /\ session # NoInfo /\ ~Succeeded(e) /\ Resumable(e, bytes) =>
             Credited(e, bytes) = session
      /\ session # NoInfo /\ ~Succeeded(e) /\ ~Resumable(e, bytes) =>
             Credited(e, bytes) = less
  <2>1. CASE session = NoInfo
    BY <2>1 DEF Credited
  <2>2. CASE session # NoInfo /\ Succeeded(e)
    BY <1>5, <1>6, <2>2 DEF Credited
  <2>3. CASE session # NoInfo /\ ~Succeeded(e) /\ Resumable(e, bytes)
    BY <2>3 DEF Credited
  <2>4. CASE session # NoInfo /\ ~Succeeded(e) /\ ~Resumable(e, bytes)
    BY <2>4 DEF Credited
  <2> QED BY <2>1, <2>2, <2>3, <2>4
<1> HIDE DEF more, less
<1>8. CASE session = NoInfo
  BY <1>1, <1>4, <1>7, <1>5, <1>8
<1>9. CASE session # NoInfo
  <2>1. session.sid # NoSession
    BY <1>1, <1>9
  <2>2. CASE Succeeded(e)
    BY <1>1, <1>2, <1>7, <1>5, <1>9, <2>1, <2>2 DEF Info
  <2>3. CASE ~Succeeded(e) /\ Resumable(e, bytes)
    BY <1>1, <1>7, <1>6, <1>9, <2>1, <2>3
  <2>4. CASE ~Succeeded(e) /\ ~Resumable(e, bytes)
    BY <1>1, <1>3, <1>7, <1>9, <2>1, <2>4 DEF Info
  <2> QED BY <2>2, <2>3, <2>4
<1> QED BY <1>8, <1>9

LEMMA AnsweredFacts ==
    ASSUME CInv, NEW s \in Sessions, NEW accept \in BOOLEAN, Answered(s, accept)
    PROVE  /\ Info(session')
           /\ disturbed' \subseteq Sessions /\ disturbed \subseteq disturbed'
           /\ \/ /\ prep[s] = "waiting" /\ session' = NewInfo(s)
                 /\ prep' = [prep EXCEPT ![s] = "accepted"]
                 /\ \A t \in Sessions \ disturbed' : session.sid # t
              \/ /\ prep[s] = "waiting" /\ session' = session
                 /\ prep' = [prep EXCEPT ![s] = "declined"] /\ disturbed' = disturbed
              \/ /\ session' = NoInfo /\ prep' = prep
                 /\ \A t \in Sessions \ disturbed' : session.sid # t
<1>1. Info(session) /\ disturbed \subseteq Sessions
  BY CliTypeParts DEF CInv
<1>2. session.sid \in Sessions \cup {NoSession}
  BY <1>1 DEF Info, InfoType
<1>3. Current \subseteq Sessions /\ \A t \in Sessions : session.sid = t => t \in Current
  BY <1>2, ConstantsAssumption DEF Current
<1>4. CASE prep[s] = "waiting" /\ accept
  <2>1. /\ prep' = [prep EXCEPT ![s] = "accepted"] /\ session' = NewInfo(s)
        /\ disturbed' = disturbed \cup Current
    BY <1>4, Zenon DEF Answered, Disturb
  <2>2. Info(session')
    BY <2>1, InfoTypes
  <2> QED BY <1>1, <1>3, <1>4, <2>1, <2>2
<1>5. CASE prep[s] = "waiting" /\ ~accept
  <2>1. /\ prep' = [prep EXCEPT ![s] = "declined"] /\ session' = session
        /\ disturbed' = disturbed \cup {}
    BY <1>5, Zenon DEF Answered, Disturb
  <2> QED BY <1>1, <1>5, <2>1 DEF Info
<1>6. CASE prep[s] # "waiting"
  <2>1. prep' = prep /\ session' = NoInfo /\ disturbed' = disturbed \cup Current
    BY <1>6 DEF Answered, Disturb
  <2>2. Info(session')
    BY <2>1, InfoTypes
  <2> QED BY <1>1, <1>3, <2>1, <2>2
<1> QED BY <1>4, <1>5, <1>6

LEMMA TypeInitCli == CliInit => CliTypeOK /\ PromptShape
<1> SUFFICES ASSUME CliInit PROVE CliTypeOK /\ PromptShape
  OBVIOUS
<1>1. prompt \in PromptType /\ PromptShape
  BY DEF CliInit, NoPrompt, PromptType, PromptShape
<1>2. report \in [Sessions -> ReportType]
  BY DEF CliInit, NoReport, ReportType
<1> QED BY <1>1, <1>2, InfoTypes, CliTypeParts DEF CliInit

LEMMA ServerDisturbs ==
    ASSUME CInv, ServerStep
    PROVE  disturbed' \subseteq Sessions
<1>1. ASSUME NEW r \in Requests, LostConnection(r)
      PROVE  req[r].sid \in Sessions
  BY <1>1, CInvParts DEF LostConnection, DropHandler, DropUpload, DropConfirm, BodySaved,
                         RequestShape, IdleRequest
<1>2. disturbed \subseteq Sessions
  BY CliTypeParts DEF CInv
<1> QED BY <1>1, <1>2 DEF ServerStep, LostConnection, Disturb

LEMMA CliTypeStep ==
    ASSUME CInv, PartingEvents, [CliNext]_cliVars
    PROVE  CliTypeOK' /\ PromptShape'
<1>0. /\ Info(session) /\ prompt \in PromptType
      /\ entry \in [Sessions -> [Files -> {"none", "Finished", "Failed"}]]
      /\ stray \subseteq Sessions \X Files \X Sessions
      /\ partials \subseteq Sessions \X Files
      /\ report \in [Sessions -> ReportType]
      /\ disturbed \subseteq Sessions
      /\ PromptShape
  BY CliTypeParts, CInvParts
<1>p. ASSUME NEW p, p \in PromptType, p.kind = "accept" => p.sid \in Sessions,
             p.kind = "conflict" => p.sid \in Sessions /\ p.file \in Files /\ p.req \in Requests,
             prompt' = p
      PROVE  prompt' \in PromptType /\ PromptShape'
  BY <1>p DEF PromptShape
<1>n. /\ NoPrompt \in PromptType /\ NoPrompt.kind = "none"
      /\ prompt' = NoPrompt => prompt' \in PromptType /\ PromptShape'
  BY DEF NoPrompt, PromptType, PromptShape
<1>s. prompt' = prompt => prompt' \in PromptType /\ PromptShape'
  BY <1>0 DEF PromptShape
<1>c. Current \subseteq Sessions
  BY <1>0 DEF Current, Info, InfoType
<1>1. CASE ServerStep
  <2>1. UNCHANGED loopVars /\ disturbed' \subseteq Sessions
    BY <1>1, ServerSteps, ServerDisturbs
  <2> QED BY <1>0, <1>s, <2>1, CliTypeParts DEF loopVars, Info, CliTypeOK
<1> DEFINE Rest == /\ Info(session)' /\ entry' \in [Sessions -> [Files -> {"none", "Finished", "Failed"}]]
                   /\ stray' \subseteq Sessions \X Files \X Sessions
                   /\ partials' \subseteq Sessions \X Files
                   /\ report' \in [Sessions -> ReportType]
                   /\ disturbed' \subseteq Sessions
<1>r. Rest /\ prompt' \in PromptType => CliTypeOK'
  BY DEF CliTypeOK, Info, InfoType, ReportType, PromptType
<1>2. CASE OnPrepareAuto
  <2>1. First.sid \in Sessions /\ Answered(First.sid, TRUE)
    BY <1>2, TakenEvent DEF OnPrepareAuto
  <2>2. Info(session') /\ disturbed' \subseteq Sessions
    BY <2>1, AnsweredFacts
  <2>3. Rest
    BY <1>0, <1>2, <2>2 DEF OnPrepareAuto, Info
  <2> QED BY <1>2, <1>r, <1>s, <2>3 DEF OnPrepareAuto
<1>3. CASE OnPrepareAsk
  <2> DEFINE p == [NoPrompt EXCEPT !.kind = "accept", !.sid = First.sid]
  <2>1. First.sid \in Sessions
    BY <1>3, TakenEvent DEF OnPrepareAsk
  <2>2. p \in PromptType /\ p.kind = "accept" /\ p.sid \in Sessions
    BY <2>1 DEF NoPrompt, PromptType
  <2>3. prompt' = p /\ Rest
    BY <1>0, <1>3 DEF OnPrepareAsk, Info
  <2> HIDE DEF p
  <2> QED BY <1>p, <1>r, <2>2, <2>3
<1>4. ASSUME NEW accept \in BOOLEAN, AnswerRequest(accept)
      PROVE  CliTypeOK' /\ PromptShape'
  <2>1. prompt.sid \in Sessions /\ Answered(prompt.sid, accept)
    BY <1>0, <1>4 DEF AnswerRequest, PromptShape
  <2>2. Info(session') /\ disturbed' \subseteq Sessions
    BY <2>1, AnsweredFacts
  <2>3. Rest
    BY <1>0, <1>4, <2>2 DEF AnswerRequest, Info
  <2> QED BY <1>4, <1>n, <1>r, <2>3 DEF AnswerRequest
<1>5. CASE OnAborted
  <2>1. Rest
    BY <1>0, <1>5, <1>c, InfoTypes DEF OnAborted, Disturb, Info
  <2> QED BY <1>5, <1>r, <1>s, <2>1 DEF OnAborted
<1>6. CASE OnUpload
  <2> DEFINE p == [kind |-> "conflict", sid |-> First.sid, file |-> First.file, req |-> First.req]
  <2>1. First.sid \in Sessions /\ First.file \in Files /\ First.req \in Requests
    BY <1>6, TakenEvent DEF OnUpload
  <2>2. /\ p \in PromptType /\ p.kind = "conflict" /\ p.sid \in Sessions
        /\ p.file \in Files /\ p.req \in Requests
    BY <2>1 DEF PromptType
  <2>3. prompt' = p \/ prompt' = prompt
    BY <1>6 DEF OnUpload
  <2>4. Rest
    <3>1. partials' = partials \/ partials' = partials \cup {<<First.sid, First.file>>}
      BY <1>6 DEF OnUpload, Assign
    <3>2. UNCHANGED <<session, entry, stray, report, disturbed>>
      BY <1>6 DEF OnUpload
    <3> QED BY <1>0, <2>1, <3>1, <3>2 DEF Info
  <2> HIDE DEF p
  <2> QED BY <1>p, <1>r, <1>s, <2>2, <2>3, <2>4
<1>7. CASE AnswerConflict
  <2>1. prompt.sid \in Sessions /\ prompt.file \in Files
    BY <1>0, <1>7 DEF AnswerConflict, PromptShape
  <2>2. Rest
    BY <1>0, <1>7, <2>1 DEF AnswerConflict, Assign, Info
  <2> QED BY <1>7, <1>n, <1>r, <2>2 DEF AnswerConflict
<1>8. ASSUME NEW bytes \in BOOLEAN, OnResult(bytes)
      PROVE  CliTypeOK' /\ PromptShape'
  <2>1. First.sid \in Sessions /\ First.file \in Files
    BY <1>8, TakenEvent DEF OnResult
  <2>2. Info(Credited(First, bytes))
    BY <1>0, <2>1, CreditedFacts
  <2>3. /\ entry' \in [Sessions -> [Files -> {"none", "Finished", "Failed"}]]
        /\ stray' \subseteq Sessions \X Files \X Sessions
    <3>1. Record(First) /\ session.sid \in Sessions \cup {NoSession}
      BY <1>0, <1>8 DEF OnResult, Info, InfoType
    <3>2. \/ /\ stray' = stray
             /\ \/ entry' = entry
                \/ \E status \in {"Finished", "Failed"} :
                       entry' = [entry EXCEPT ![First.sid][First.file] = status]
          \/ /\ entry' = entry /\ session.sid \in Sessions
             /\ stray' = stray \cup {<<First.sid, First.file, session.sid>>}
      BY <3>1 DEF Record
    <3> QED BY <1>0, <2>1, <3>2
  <2>4. Rest
    BY <1>0, <1>8, <1>c, <2>2, <2>3 DEF OnResult, Disturb, Info
  <2> QED BY <1>8, <1>r, <1>s, <2>4 DEF OnResult
<1>9. CASE OnEnd
  <2>1. First.sid \in Sessions /\ First \in Events
    BY <1>9, TakenEvent DEF OnEnd
  <2>2. ASSUME IsKnown(First.sid)
        PROVE  /\ session' = NoInfo
               /\ report' \in [Sessions -> ReportType]
    <3>1. [reason |-> First.outcome, received |-> session.received, failed |-> session.failed]
              \in ReportType
      <4>1. Parting(First) /\ First.type = "SessionEnd"
        BY <1>9, TakenEvent DEF OnEnd, PartingEvents
      <4>2. First.outcome \in EndReasons
        BY <4>1 DEF Parting
      <4> QED BY <1>0, <4>2 DEF ReportType, Info, InfoType
    <3> QED BY <1>0, <1>9, <2>1, <2>2, <3>1 DEF OnEnd
  <2>3. Rest
    BY <1>0, <1>9, <2>2, InfoTypes DEF OnEnd, Info
  <2> QED BY <1>9, <1>r, <1>s, <2>3 DEF OnEnd
<1>10. CASE UNCHANGED cliVars
  <2>1. Rest /\ prompt' = prompt
    BY <1>0, <1>10 DEF cliVars, loopVars, Info
  <2> QED BY <1>r, <1>s, <2>1
<1> QED
  BY <1>1, <1>2, <1>3, <1>4, <1>5, <1>6, <1>7, <1>8, <1>9, <1>10
  DEF CliNext, LoopStep, TerminalStep

------------------------------------------------------------------------------
(* The session the loop knows.                                             *)

\* An undisturbed session is known from the accept on.
HeldSession ==
    \A s \in Sessions \ disturbed : prep[s] = "accepted" \/ IsActive(s) => session.sid = s

\* The server accepts nothing by itself.
LEMMA ServerHolds ==
    ASSUME CInv, ServerStep, NEW s \in Sessions, prep'[s] = "accepted" \/ IsActive(s)'
    PROVE  prep[s] = "accepted" \/ IsActive(s)
<1>0. /\ TypeOK /\ RequestShape /\ prep \in [Sessions -> PrepStates] /\ StepClass
      /\ req \in [Requests -> RequestType]
  BY CInvParts, ServerSteps, StepClasses DEF TypeOK
<1>1. prep'[s] = "accepted" => prep[s] = "accepted"
  <2>1. ASSUME NEW t \in Sessions,
               \/ CliPrepareNext(t) \/ PrepareWithdrawn(t) \/ SenderGone(t)
               \/ CancelPending(t) \/ CancelBySender(t) \/ Touch(t) \/ Reap(t)
        PROVE  prep'[s] = "accepted" => prep[s] = "accepted"
    <3>1. prep' = prep \/ \E p \in {"claimed", "waiting", "done"} : prep' = [prep EXCEPT ![t] = p]
      BY <2>1 DEF CliPrepareNext, ClaimPending, AskApplication, SessionAccepted, SessionRefused,
                  PrepareWithdrawn, SenderGone, AbortPrepare, CancelPending, CancelBySender,
                  Touch, Reap, handlerVars
    <3> QED BY <1>0, <3>1
  <2>2. ASSUME NEW r \in Requests, HandlerNext(r) \/ DropHandler(r) \/ BodySaved(r, "Interrupted")
        PROVE  prep' = prep
    BY <2>2 DEF HandlerNext, DropHandler, AskTarget, StartSaving, TargetRefused, BodySaved,
                BodyHeld, Settle, Report, Finish, DropUpload, DropConfirm
  <2>3. ASSUME NEW r \in Requests, NEW t \in Sessions, NEW f \in Files, RequestNext(r, t, f)
        PROVE  prep' = prep
    BY <2>3 DEF RequestNext, BeginUpload, BeginConfirm
  <2>4. CASE TenMinutes \/ \E e \in spawned : Deliver(e)
    BY <2>4 DEF TenMinutes, Deliver, handlerVars
  <2> QED BY <2>1, <2>2, <2>3, <2>4 DEF ServerStep, QuietNext, CliRequestNext, LostConnection
<1>2. IsActive(s)' => IsActive(s) \/ prep[s] = "accepted"
  <2> USE DEF IsActive, FreeSlot, PendingSlot, ActiveSlot
  <2>1. CASE Quiet \/ \E t \in Sessions : Claims(t) \/ Releases(t) \/ Ends(t)
    <3>1. slot' = slot \/ slot' = FreeSlot \/ \E t \in Sessions : slot' = PendingSlot(t)
      BY <2>1 DEF Quiet, Claims, Releases, ClearPending, Ends, DropSession
    <3>2. ASSUME NEW t \in Sessions, slot' = PendingSlot(t)
          PROVE  slot'.kind = "Pending"
      BY <3>2
    <3>3. slot' = FreeSlot => slot'.kind = "Free"
      OBVIOUS
    <3>4. IsActive(s)' => slot'.kind = "Active"
      OBVIOUS
    <3>5. slot' = slot => (IsActive(s)' <=> IsActive(s))
      OBVIOUS
    <3> HIDE DEF IsActive, FreeSlot, PendingSlot, ActiveSlot
    <3> QED BY <3>1, <3>2, <3>3, <3>4, <3>5
  <2>2. ASSUME NEW t \in Sessions, NEW accepted \in SUBSET Files, SessionAccepted(t, accepted)
        PROVE  IsActive(s)' => prep[s] = "accepted"
    BY <2>2 DEF SessionAccepted, Activate
  <2>3. ASSUME NEW r \in Requests, Advance(r) \/ Parks(r) \/ DropConfirm(r)
        PROVE  IsActive(s)' => IsActive(s)
    BY <2>3 DEF Advance, Parks, DropConfirm
  <2>4. ASSUME NEW r \in Requests, Settles(r)
        PROVE  IsActive(s)' => IsActive(s)
    BY <1>0, <2>4, SettlingFacts
  <2>5. ASSUME NEW r \in Requests, NEW t \in Sessions, NEW f \in Files,
               BeginUpload(r, t, f) \/ BeginConfirm(r, t, f)
        PROVE  IsActive(s)' => IsActive(s)
    BY <2>5 DEF BeginUpload, BeginConfirm
  <2> HIDE DEF IsActive, FreeSlot, PendingSlot, ActiveSlot
  <2> QED BY <1>0, <2>1, <2>2, <2>3, <2>4, <2>5 DEF StepClass
<1> QED BY <1>1, <1>2

\* The loop forgets a session only when it is told of its end, or disturbs it.
LEMMA HeldSessionStep ==
    ASSUME CInv, PartingEvents, HeldSession, [CliNext]_cliVars
    PROVE  HeldSession'
<1>0. /\ TypeOK /\ prep \in [Sessions -> PrepStates] /\ Info(session)
      /\ disturbed \subseteq disturbed'
      /\ session.sid \in Sessions \cup {NoSession}
      /\ \A s \in Sessions : s # NoSession
  BY CInvParts, CliTypeParts, StaysParted DEF PartingStays, Info, InfoType
<1> DEFINE Held(s) == prep[s] = "accepted" \/ IsActive(s)
<1>1. ASSUME \A s \in Sessions : Held(s)' => Held(s),
             \A s \in Sessions \ disturbed' : Held(s)' /\ session.sid = s => session'.sid = s
      PROVE  HeldSession'
  BY <1>0, <1>1 DEF HeldSession
<1> HIDE DEF Held
<1>2. CASE ServerStep
  <2>1. session' = session
    BY <1>2, ServerSteps DEF loopVars
  <2>2. \A s \in Sessions : Held(s)' => Held(s)
    BY <1>2, ServerHolds DEF Held
  <2> QED BY <1>1, <2>1, <2>2
<1>3. ASSUME prep' = prep, slot' = slot
      PROVE  \A s \in Sessions : Held(s)' <=> Held(s)
  BY <1>3 DEF Held, IsActive
<1>4. ASSUME NEW s \in Sessions, NEW accept \in BOOLEAN, Answered(s, accept), slot' = slot
      PROVE  HeldSession'
  <2>1. ASSUME NEW t \in Sessions, t # s
        PROVE  Held(t)' <=> Held(t)
    BY <1>0, <1>4, <2>1 DEF Held, IsActive, Answered
  <2>2. CASE /\ session' = NewInfo(s)
             /\ \A t \in Sessions \ disturbed' : session.sid # t
    <3>1. NewInfo(s).sid = s
      BY InfoTypes
    <3>2. \A t \in Sessions \ disturbed' : ~Held(t)
      BY <1>0, <2>2 DEF HeldSession, Held
    <3> QED BY <2>1, <2>2, <3>1, <3>2 DEF HeldSession, Held
  <2>3. CASE prep[s] = "waiting" /\ session' = session /\ prep' = [prep EXCEPT ![s] = "declined"]
    <3>1. Held(s)' => Held(s)
      BY <1>0, <1>4, <2>3 DEF Held, IsActive
    <3> QED BY <1>1, <2>1, <2>3, <3>1
  <2>4. CASE session' = NoInfo /\ prep' = prep /\ \A t \in Sessions \ disturbed' : session.sid # t
    BY <1>1, <1>3, <1>4, <2>4
  <2> QED BY <1>4, <2>2, <2>3, <2>4, AnsweredFacts
<1>5. CASE OnPrepareAuto
  <2>1. First.sid \in Sessions /\ Answered(First.sid, TRUE) /\ slot' = slot
    BY <1>5, TakenEvent DEF OnPrepareAuto, serverRest
  <2> QED BY <1>4, <2>1
<1>6. ASSUME NEW accept \in BOOLEAN, AnswerRequest(accept)
      PROVE  HeldSession'
  <2>1. prompt.sid \in Sessions /\ Answered(prompt.sid, accept) /\ slot' = slot
    BY <1>6, CInvParts DEF AnswerRequest, PromptShape, serverRest
  <2> QED BY <1>4, <2>1
<1>7. CASE OnPrepareAsk \/ OnUpload \/ AnswerConflict \/ UNCHANGED cliVars
  <2>1. session' = session /\ prep' = prep /\ slot' = slot
    BY <1>7 DEF OnPrepareAsk, OnUpload, AnswerConflict, serverRest, cliVars, vars, loopVars
  <2> QED BY <1>1, <1>3, <2>1
<1>8. CASE OnAborted \/ OnEnd
  <2>1. /\ Takes("PrepareUploadAborted") \/ Takes("SessionEnd")
        /\ prep' = prep /\ slot' = slot
    BY <1>8 DEF OnAborted, OnEnd, serverRest
  <2>2. /\ First.sid \in Sessions /\ First \in Queued
        /\ First.type \in {"PrepareUploadAborted", "SessionEnd"}
    BY <2>1, TakenEvent
  <2>3. ~Held(First.sid)
    BY <2>2 DEF PartingEvents, Parting, Held
  <2>4. ASSUME NEW s \in Sessions \ disturbed', session.sid = s
        PROVE  session'.sid = s \/ First.sid = s
    <3>1. CASE OnAborted
      BY <1>0, <2>4, <3>1 DEF OnAborted, Disturb, Current
    <3>2. CASE OnEnd
      BY <2>4, <3>2 DEF OnEnd, IsKnown
    <3> QED BY <1>8, <3>1, <3>2
  <2> QED BY <1>1, <1>3, <2>1, <2>3, <2>4
<1>9. ASSUME NEW bytes \in BOOLEAN, OnResult(bytes)
      PROVE  HeldSession'
  <2>1. First.sid \in Sessions /\ First.file \in Files
    BY <1>9, TakenEvent DEF OnResult
  <2>2. session'.sid = session.sid /\ prep' = prep /\ slot' = slot
    BY <1>0, <1>9, <2>1, CreditedFacts DEF OnResult, serverRest
  <2> QED BY <1>1, <1>3, <2>2
<1> QED BY <1>2, <1>5, <1>6, <1>7, <1>8, <1>9 DEF CliNext, LoopStep, TerminalStep

------------------------------------------------------------------------------
(* The success of a file is the last that is heard of it.                  *)

IsSuccess(e, s, f) ==
    e.type = "FileUploadResult" /\ e.sid = s /\ e.file = f /\ e.outcome = "Success"

\* The question for the path of a file, or the result of its upload.
Speaks(e, s, f) ==
    /\ e.sid = s /\ e.file = f
    /\ \/ e.type = "FileUpload"
       \/ e.type = "FileUploadResult" /\ e.outcome # "Interrupted"

LastWord(s, f) ==
    \A i \in 1 .. Len(channel) : IsSuccess(channel[i], s, f) =>
        /\ Through(s, f)
        /\ \A j \in 1 .. Len(channel) : i < j => ~Speaks(channel[j], s, f)
EntryCloses(s, f) ==
    entry[s][f] = "Finished" =>
        /\ Through(s, f)
        /\ \A e \in Queued : ~Speaks(e, s, f)
        /\ ~(prompt.kind = "conflict" /\ prompt.sid = s /\ prompt.file = f)
        /\ <<s, f>> \notin partials
SuccessComesLast == \A s \in Sessions, f \in Files : LastWord(s, f) /\ EntryCloses(s, f)

\* What a step of the server adds to the channel.
Heard(e) ==
    \A s \in Sessions, f \in Files : Speaks(e, s, f) =>
        /\ ~Through(s, f)
        /\ IsSuccess(e, s, f) => Through(s, f)'

LEMMA Senders ==
    ASSUME ServerStep
    PROVE  \/ channel' = channel
           \/ \E s \in Sessions : AskApplication(s)
           \/ \E r \in Requests : AskTarget(r) \/ Report(r)
           \/ \E e \in spawned : Deliver(e)
<1>1. ASSUME NEW s \in Sessions,
             \/ CliPrepareNext(s) \/ PrepareWithdrawn(s) \/ SenderGone(s)
             \/ CancelPending(s) \/ CancelBySender(s) \/ Touch(s) \/ Reap(s)
      PROVE  channel' = channel \/ AskApplication(s)
  BY <1>1 DEF CliPrepareNext, ClaimPending, SessionAccepted, SessionRefused,
              PrepareWithdrawn, SenderGone, AbortPrepare, CancelPending, CancelBySender,
              Touch, Reap
<1>2. ASSUME NEW r \in Requests, HandlerNext(r) \/ DropHandler(r) \/ BodySaved(r, "Interrupted")
      PROVE  channel' = channel \/ AskTarget(r) \/ Report(r)
  BY <1>2 DEF HandlerNext, DropHandler, StartSaving, TargetRefused, BodySaved,
              BodyHeld, Settle, Finish, DropUpload, DropConfirm
<1>3. ASSUME NEW r \in Requests, NEW t \in Sessions, NEW f \in Files, RequestNext(r, t, f)
      PROVE  channel' = channel
  BY <1>3 DEF RequestNext, BeginUpload, BeginConfirm
<1>4. TenMinutes => channel' = channel
  BY DEF TenMinutes
<1> QED BY <1>1, <1>2, <1>3, <1>4 DEF ServerStep, QuietNext, CliRequestNext, LostConnection

\* A success that is reported has put the file in place, and nobody else works on it.
LEMMA ReportIsThrough ==
    ASSUME CInv, NEW r \in Requests, Report(r), req[r].outcome = "Success",
           NEW s \in Sessions, NEW f \in Files, Working(r, s, f)
    PROVE  Through(s, f)'
<1>0. /\ TypeOK /\ RequestShape /\ Ownership /\ SlotDiscipline /\ Outcomes
      /\ req \in [Requests -> RequestType]
      /\ req[r].sid = s /\ req[r].file = f
  BY CInvParts DEF TypeOK, Working
<1>1. /\ req' = [req EXCEPT ![r].pc = "finishing"]
      /\ UNCHANGED <<slot, prep, files, placed>>
  BY DEF Report, Goto
<1>2. /\ \A q \in Requests : Working(q, s, f)' <=> Working(q, s, f)
      /\ \A q \in Requests : Working(q, s, f) => q = r
      /\ req'[r].pc = "finishing" /\ req'[r].outcome = "Success"
  BY <1>0, <1>1 DEF Working, Ownership, OneOwner, RequestType
<1>3. prep'[s] = "done"
  <2>1. req[r].sid # NoSession
    BY <1>0, CInvParts
  <2> QED BY <1>0, <1>1, <2>1 DEF SlotDiscipline, ActiveWasPrepared
<1>4. <<s, f>> \in placed'
  BY <1>0, <1>1 DEF Outcomes, SuccessIsPlaced
<1> QED BY <1>2, <1>3, <1>4 DEF Through

LEMMA ServerSpeech ==
    ASSUME CInv, PartingEvents, ServerStep
    PROVE  channel' = channel \/ \E e \in Events : channel' = Append(channel, e) /\ Heard(e)
<1>0. /\ TypeOK /\ RequestShape /\ req \in [Requests -> RequestType] /\ spawned \subseteq Events
      /\ OnlyCutSpawned
  BY CInvParts DEF TypeOK, EndInv
<1>1. ASSUME NEW s \in Sessions, AskApplication(s)
      PROVE  \E e \in Events : channel' = Append(channel, e) /\ Heard(e)
  <2> DEFINE e == SessionEvent("PrepareUpload", s, "none")
  <2>1. e \in Events /\ e.type = "PrepareUpload"
    BY <1>0, EventTypes DEF SessionEvent, Event
  <2>2. channel' = Append(channel, e)
    BY <1>1 DEF AskApplication
  <2> HIDE DEF e
  <2> QED BY <2>1, <2>2 DEF Heard, Speaks
<1>2. ASSUME NEW e \in spawned, Deliver(e)
      PROVE  \E x \in Events : channel' = Append(channel, x) /\ Heard(x)
  <2>1. e \in Events /\ channel' = Append(channel, e)
    BY <1>0, <1>2 DEF Deliver
  <2>2. \A s \in Sessions, f \in Files : ~Speaks(e, s, f)
    BY <1>0 DEF OnlyCutSpawned, PartingEvents, Speaks
  <2> QED BY <2>1, <2>2 DEF Heard
<1>3. ASSUME NEW r \in Requests, AskTarget(r) \/ Report(r)
      PROVE  \E e \in Events : channel' = Append(channel, e) /\ Heard(e)
  <2>1. PICK e \in Events :
            /\ channel' = Append(channel, e)
            /\ e.sid = req[r].sid /\ e.file = req[r].file
            /\ \/ AskTarget(r) /\ e.type = "FileUpload"
               \/ Report(r) /\ e.type = "FileUploadResult" /\ e.outcome = req[r].outcome
    <3>0. req[r] # IdleRequest /\ req[r].sid \in Sessions /\ req[r].file \in Files
      BY <1>0, <1>3 DEF AskTarget, Report, IdleRequest, RequestShape
    <3>1. CASE AskTarget(r)
      <4> DEFINE e == RequestEvent("FileUpload", r, "none")
      <4>1. e \in Events /\ e.type = "FileUpload" /\ e.sid = req[r].sid /\ e.file = req[r].file
        BY <1>0, <3>0, EventTypes DEF RequestEvent, Event
      <4>2. channel' = Append(channel, e)
        BY <3>1 DEF AskTarget
      <4> HIDE DEF e
      <4> QED BY <3>1, <4>1, <4>2
    <3>2. CASE Report(r)
      <4> DEFINE e == RequestEvent("FileUploadResult", r, req[r].outcome)
      <4>1. /\ e \in Events /\ e.type = "FileUploadResult" /\ e.sid = req[r].sid
            /\ e.file = req[r].file /\ e.outcome = req[r].outcome
        BY <1>0, <3>0, EventTypes DEF RequestEvent, Event, RequestType
      <4>2. channel' = Append(channel, e)
        BY <3>2 DEF Report
      <4> HIDE DEF e
      <4> QED BY <3>2, <4>1, <4>2
    <3> QED BY <1>3, <3>1, <3>2
  <2>2. ASSUME NEW s \in Sessions, NEW f \in Files, Speaks(e, s, f)
        PROVE  ~Through(s, f) /\ (IsSuccess(e, s, f) => Through(s, f)')
    <3>1. Working(r, s, f) /\ req[r].pc # "finishing"
      BY <1>3, <2>1, <2>2 DEF Speaks, Working, AskTarget, Report
    <3>2. IsSuccess(e, s, f) => Through(s, f)'
      BY <2>1, <3>1, ReportIsThrough DEF IsSuccess
    <3> QED BY <3>1, <3>2 DEF Through
  <2> QED BY <2>1, <2>2 DEF Heard
<1> QED BY <1>1, <1>2, <1>3, Senders

LEMMA ServerKeepsLast ==
    ASSUME CInv, PartingEvents, SuccessComesLast, ServerStep, NEW s \in Sessions, NEW f \in Files,
           Through(s, f) => Through(s, f)'
    PROVE  LastWord(s, f)' /\ EntryCloses(s, f)'
<1>0. /\ TypeOK /\ LastWord(s, f) /\ EntryCloses(s, f)
      /\ entry' = entry /\ prompt' = prompt /\ partials' = partials
  BY CInvParts, ServerSteps DEF SuccessComesLast, loopVars
<1>1. CASE channel' = channel
  BY <1>0, <1>1 DEF LastWord, EntryCloses, Queued
<1>2. ASSUME NEW e \in Events, channel' = Append(channel, e), Heard(e)
      PROVE  LastWord(s, f)' /\ EntryCloses(s, f)'
  <2>1. /\ Queued' = Queued \cup {e}
        /\ Len(channel) \in Nat
        /\ \A i \in 1 .. Len(channel') :
               \/ i \in 1 .. Len(channel) /\ channel'[i] = channel[i]
               \/ i = Len(channel') /\ channel'[i] = e
    BY <1>0, <1>2, AppendQueued
  <2>2. EntryCloses(s, f)'
    BY <1>0, <1>2, <2>1 DEF EntryCloses, Heard
  <2>3. ASSUME NEW i \in 1 .. Len(channel'), IsSuccess(channel'[i], s, f)
        PROVE  /\ Through(s, f)'
               /\ \A j \in 1 .. Len(channel') : i < j => ~Speaks(channel'[j], s, f)
    <3>0. Len(channel') \in Nat
      BY <1>0, <1>2 DEF TypeOK
    <3>1. CASE i \in 1 .. Len(channel) /\ channel'[i] = channel[i]
      <4>1. Through(s, f) /\ \A j \in 1 .. Len(channel) : i < j => ~Speaks(channel[j], s, f)
        BY <1>0, <2>3, <3>1 DEF LastWord
      <4>2. ~Speaks(e, s, f)
        BY <1>2, <4>1 DEF Heard
      <4> QED BY <2>1, <4>1, <4>2
    <3>2. CASE i = Len(channel') /\ channel'[i] = e
      <4>1. Through(s, f)'
        BY <1>2, <2>3, <3>2 DEF Heard, IsSuccess, Speaks
      <4> QED BY <3>0, <3>2, <4>1
    <3> QED BY <2>1, <3>1, <3>2
  <2> QED BY <2>2, <2>3 DEF LastWord
<1> QED BY <1>1, <1>2, ServerSpeech

\* Taking the first event, or none, leaves the last word the last.
LEMMA LastWordShifts ==
    ASSUME CInv, LoopTouches, NEW s \in Sessions, NEW f \in Files, LastWord(s, f),
           Through(s, f) => Through(s, f)'
    PROVE  LastWord(s, f)'
<1>0. TypeOK
  BY CInvParts
<1>1. CASE channel' = channel
  BY <1>1 DEF LastWord
<1>2. CASE channel # <<>> /\ channel' = Tail(channel)
  <2>1. \A i \in 1 .. Len(channel') :
            i + 1 \in 1 .. Len(channel) /\ channel'[i] = channel[i + 1]
    BY <1>0, <1>2, TailShifts
  <2>2. ASSUME NEW i \in 1 .. Len(channel'), IsSuccess(channel'[i], s, f)
        PROVE  /\ Through(s, f)'
               /\ \A j \in 1 .. Len(channel') : i < j => ~Speaks(channel'[j], s, f)
    <3>1. IsSuccess(channel[i + 1], s, f) /\ i + 1 \in 1 .. Len(channel)
      BY <2>1, <2>2
    <3>2. /\ Through(s, f)
          /\ \A j \in 1 .. Len(channel) : i + 1 < j => ~Speaks(channel[j], s, f)
      BY <3>1 DEF LastWord
    <3>3. ASSUME NEW j \in 1 .. Len(channel'), i < j
          PROVE  ~Speaks(channel'[j], s, f)
      <4>1. j + 1 \in 1 .. Len(channel) /\ channel'[j] = channel[j + 1]
        BY <2>1
      <4>2. i + 1 < j + 1
        BY <3>3
      <4> QED BY <3>2, <4>1, <4>2
    <3> QED BY <3>2, <3>3
  <2> QED BY <2>2 DEF LastWord
<1> QED BY <1>1, <1>2 DEF LoopTouches

\* Nothing that speaks of a file follows its success.
LEMMA SuccessTaken ==
    ASSUME CInv, NEW s \in Sessions, NEW f \in Files, LastWord(s, f),
           Takes("FileUploadResult"), IsSuccess(First, s, f)
    PROVE  Through(s, f) /\ \A e \in Queued' : ~Speaks(e, s, f)
<1>0. TypeOK /\ channel # <<>> /\ channel' = Tail(channel) /\ channel \in Seq(Events)
  BY CInvParts DEF Takes, TypeOK
<1>1. \A i \in 1 .. Len(channel') :
          i + 1 \in 1 .. Len(channel) /\ channel'[i] = channel[i + 1]
  BY <1>0, TailShifts
<1>2. 1 \in 1 .. Len(channel)
  BY <1>0
<1>3. Through(s, f) /\ \A j \in 1 .. Len(channel) : 1 < j => ~Speaks(channel[j], s, f)
  BY <1>2 DEF LastWord, First
<1>4. ASSUME NEW i \in 1 .. Len(channel')
      PROVE  ~Speaks(channel'[i], s, f)
  BY <1>1, <1>3
<1> QED BY <1>3, <1>4 DEF Queued

\* A result is entered for one file, and only as a success if it is one.
LEMMA EntryChanges ==
    ASSUME CInv, NEW bytes, OnResult(bytes), NEW s \in Sessions, NEW f \in Files
    PROVE  /\ Takes("FileUploadResult") /\ First.sid \in Sessions /\ First.file \in Files
           /\ \/ /\ s = First.sid /\ f = First.file /\ session.sid = s
                 /\ entry'[s][f] = IF First.outcome = "Success" THEN "Finished" ELSE "Failed"
              \/ ~(s = First.sid /\ f = First.file /\ session.sid = s) /\ entry'[s][f] = entry[s][f]
           /\ partials' \subseteq partials
           /\ IsSuccess(First, s, f) => <<s, f>> \notin partials'
<1>1. /\ Takes("FileUploadResult") /\ Record(First)
      /\ entry \in [Sessions -> [Files -> {"none", "Finished", "Failed"}]]
  BY CInvParts, CliTypeParts DEF OnResult
<1>2. First.sid \in Sessions /\ First.file \in Files /\ First.type = "FileUploadResult"
  BY <1>1, TakenEvent
<1>3. /\ partials' \subseteq partials
      /\ IsSuccess(First, s, f) => <<s, f>> \notin partials'
  BY <1>2 DEF OnResult, Resumable, IsSuccess
<1>4. CASE session.sid = First.sid
  <2>1. entry' = [entry EXCEPT ![First.sid][First.file] =
                      IF First.outcome = "Success" THEN "Finished" ELSE "Failed"]
    BY <1>1, <1>4 DEF Record, Succeeded
  <2>2. /\ s = First.sid /\ f = First.file =>
               entry'[s][f] = IF First.outcome = "Success" THEN "Finished" ELSE "Failed"
        /\ ~(s = First.sid /\ f = First.file) => entry'[s][f] = entry[s][f]
    BY <1>1, <1>2, <2>1
  <2> QED BY <1>1, <1>2, <1>3, <1>4, <2>2
<1>5. CASE session.sid # First.sid
  <2>1. entry' = entry
    BY <1>1, <1>5 DEF Record
  <2> QED BY <1>1, <1>2, <1>3, <1>5, <2>1
<1> QED BY <1>4, <1>5

LEMMA LoopKeepsLast ==
    ASSUME CInv, SuccessComesLast, LoopStep \/ TerminalStep, NEW s \in Sessions, NEW f \in Files,
           Through(s, f) => Through(s, f)'
    PROVE  LastWord(s, f)' /\ EntryCloses(s, f)'
<1>0. /\ TypeOK /\ LastWord(s, f) /\ EntryCloses(s, f) /\ LoopTouches
      /\ Queued' \subseteq Queued
  BY CInvParts, LoopSteps DEF SuccessComesLast, LoopTouches
<1>1. LastWord(s, f)'
  BY <1>0, LastWordShifts
<1>2. ASSUME entry' = entry,
             <<s, f>> \in partials' =>
                 <<s, f>> \in partials \/ (\E e \in Queued : Speaks(e, s, f))
                 \/ (prompt.kind = "conflict" /\ prompt.sid = s /\ prompt.file = f),
             prompt' = prompt \/ prompt'.kind # "conflict"
                 \/ \E e \in Queued : /\ Speaks(e, s, f) \/ e.sid # s \/ e.file # f
                                      /\ prompt'.sid = e.sid /\ prompt'.file = e.file
      PROVE  EntryCloses(s, f)'
  <2>1. SUFFICES ASSUME entry[s][f] = "Finished"
                 PROVE  /\ Through(s, f)'
                        /\ \A e \in Queued' : ~Speaks(e, s, f)
                        /\ ~(prompt'.kind = "conflict" /\ prompt'.sid = s /\ prompt'.file = f)
                        /\ <<s, f>> \notin partials'
    BY <1>2 DEF EntryCloses
  <2>2. /\ Through(s, f)
        /\ \A e \in Queued : ~Speaks(e, s, f)
        /\ ~(prompt.kind = "conflict" /\ prompt.sid = s /\ prompt.file = f)
        /\ <<s, f>> \notin partials
    BY <1>0, <2>1 DEF EntryCloses
  <2> QED BY <1>0, <1>2, <2>2
<1>3. CASE OnPrepareAuto \/ OnPrepareAsk \/ OnAborted \/ OnEnd
           \/ \E accept \in BOOLEAN : AnswerRequest(accept)
  <2>1. CASE OnPrepareAuto \/ OnAborted \/ OnEnd
    BY <1>1, <1>2, <2>1 DEF OnPrepareAuto, OnAborted, OnEnd
  <2>2. CASE OnPrepareAsk
    <3>1. prompt'.kind = "accept"
      BY <2>2 DEF OnPrepareAsk, NoPrompt
    <3> QED BY <1>1, <1>2, <2>2, <3>1 DEF OnPrepareAsk
  <2>3. ASSUME NEW accept \in BOOLEAN, AnswerRequest(accept)
        PROVE  EntryCloses(s, f)'
    <3>1. prompt'.kind = "none"
      BY <2>3 DEF AnswerRequest, NoPrompt
    <3> QED BY <1>2, <2>3, <3>1 DEF AnswerRequest
  <2> QED BY <1>1, <1>3, <2>1, <2>2, <2>3
<1>4. CASE OnUpload
  <2>1. /\ First \in Queued /\ First.type = "FileUpload"
        /\ Speaks(First, First.sid, First.file)
    BY <1>4, TakenEvent DEF OnUpload, Speaks
  <2>2. /\ entry' = entry
        /\ partials' \subseteq partials \cup {<<First.sid, First.file>>}
        /\ prompt' = prompt \/ (prompt'.sid = First.sid /\ prompt'.file = First.file)
    <3>1. entry' = entry
      BY <1>4 DEF OnUpload
    <3>2. \/ Assign(First.req, First.sid, First.file) /\ prompt' = prompt
          \/ partials' = partials
      BY <1>4 DEF OnUpload
    <3>3. \/ prompt' = prompt
          \/ prompt' = [kind |-> "conflict", sid |-> First.sid, file |-> First.file,
                         req |-> First.req]
      BY <1>4 DEF OnUpload
    <3>4. prompt' = prompt \/ (prompt'.sid = First.sid /\ prompt'.file = First.file)
      BY <3>3
    <3> QED BY <3>1, <3>2, <3>4 DEF Assign
  <2>3. Speaks(First, s, f) \/ First.sid # s \/ First.file # f
    BY <2>1
  <2> QED BY <1>1, <1>2, <2>1, <2>2, <2>3
<1>5. CASE AnswerConflict
  <2>1. /\ entry' = entry /\ prompt.kind = "conflict"
        /\ partials' \subseteq partials \cup {<<prompt.sid, prompt.file>>}
        /\ prompt'.kind # "conflict"
    BY <1>5 DEF AnswerConflict, Assign, NoPrompt
  <2> QED BY <1>1, <1>2, <2>1
<1>6. ASSUME NEW bytes \in BOOLEAN, OnResult(bytes)
      PROVE  EntryCloses(s, f)'
  <2>1. /\ Takes("FileUploadResult")
        /\ prompt' = NoPrompt
        /\ \/ /\ s = First.sid /\ f = First.file /\ session.sid = s
              /\ entry'[s][f] = IF First.outcome = "Success" THEN "Finished" ELSE "Failed"
           \/ entry'[s][f] = entry[s][f]
        /\ partials' \subseteq partials
        /\ IsSuccess(First, s, f) => <<s, f>> \notin partials'
    BY <1>6, EntryChanges DEF OnResult, Takes
  <2>2. CASE IsSuccess(First, s, f)
    BY <1>0, <2>1, <2>2, SuccessTaken DEF EntryCloses, NoPrompt
  <2>3. CASE ~IsSuccess(First, s, f)
    <3>1. First.type = "FileUploadResult"
      BY <2>1, TakenEvent
    <3>2. entry'[s][f] = "Finished" => entry[s][f] = "Finished"
      BY <2>1, <2>3, <3>1 DEF IsSuccess
    <3> QED BY <1>0, <2>1, <3>2 DEF EntryCloses, NoPrompt
  <2> QED BY <2>2, <2>3
<1> QED BY <1>1, <1>3, <1>4, <1>5, <1>6 DEF LoopStep, TerminalStep

LEMMA SuccessLastStep ==
    ASSUME CInv, PartingEvents, SuccessComesLast, [CliNext]_cliVars
    PROVE  SuccessComesLast'
<1> SUFFICES ASSUME NEW s \in Sessions, NEW f \in Files
             PROVE  LastWord(s, f)' /\ EntryCloses(s, f)'
  BY DEF SuccessComesLast
<1>1. Through(s, f) => Through(s, f)'
  BY ServerKept
<1>2. CASE UNCHANGED cliVars
  <2>1. UNCHANGED <<channel, entry, prompt, partials>>
    BY <1>2 DEF cliVars, vars, loopVars
  <2> QED BY <1>1, <2>1 DEF SuccessComesLast, LastWord, EntryCloses, Queued
<1> QED BY <1>1, <1>2, ServerKeepsLast, LoopKeepsLast DEF CliNext

------------------------------------------------------------------------------
(* After the report of a finished session nothing is heard of it.          *)

ReportedIsOver ==
    \A s \in Sessions : report[s].reason = "Finished" =>
        IsOver(s) /\ \A e \in Queued : ~IsLate(e, s)

\* Who is over has nobody who would report.
LEMMA OverIsQuiet ==
    ASSUME CInv, PartingEvents, NEW s \in Sessions, IsOver(s), ServerStep,
           \A e \in Queued : ~IsLate(e, s)
    PROVE  \A e \in Queued' : ~IsLate(e, s)
<1>0. TypeOK /\ RequestShape /\ OnlyCutSpawned /\ spawned \subseteq Events
  BY CInvParts DEF TypeOK, EndInv
<1>1. CASE channel' = channel
  BY <1>1 DEF Queued
<1>2. ASSUME NEW e \in Events, channel' = Append(channel, e), ~IsLate(e, s)
      PROVE  \A x \in Queued' : ~IsLate(x, s)
  BY <1>0, <1>2, AppendQueued
<1>3. ASSUME NEW t \in Sessions, AskApplication(t)
      PROVE  \A x \in Queued' : ~IsLate(x, s)
  <2> DEFINE e == SessionEvent("PrepareUpload", t, "none")
  <2>1. e \in Events /\ e.type = "PrepareUpload"
    BY <1>0, EventTypes DEF SessionEvent, Event
  <2>2. channel' = Append(channel, e)
    BY <1>3 DEF AskApplication
  <2> HIDE DEF e
  <2> QED BY <1>2, <2>1, <2>2 DEF IsLate
<1>4. ASSUME NEW r \in Requests, AskTarget(r) \/ Report(r)
      PROVE  \A x \in Queued' : ~IsLate(x, s)
  <2>1. req[r] # IdleRequest /\ req[r].sid # s
    BY <1>4 DEF IsOver, AskTarget, Report, IdleRequest
  <2>2. PICK e \in Events : channel' = Append(channel, e) /\ e.sid = req[r].sid
    <3>1. req[r].sid \in Sessions /\ req[r].file \in Files /\ req[r] \in RequestType
      BY <1>0, <2>1 DEF RequestShape, TypeOK
    <3>2. \E type \in {"FileUpload", "FileUploadResult"}, outcome \in SaveOutcomes \cup {"none"} :
              channel' = Append(channel, RequestEvent(type, r, outcome))
      BY <1>4, <3>1 DEF AskTarget, Report, RequestType
    <3>3. PICK type \in {"FileUpload", "FileUploadResult"}, outcome \in SaveOutcomes \cup {"none"} :
              channel' = Append(channel, RequestEvent(type, r, outcome))
      BY <3>2
    <3>4. /\ RequestEvent(type, r, outcome) \in Events
          /\ RequestEvent(type, r, outcome).sid = req[r].sid
      BY <3>1 DEF RequestEvent, Event, Events
    <3> QED BY <3>3, <3>4
  <2> QED BY <1>2, <2>1, <2>2 DEF IsLate
<1>5. ASSUME NEW e \in spawned, Deliver(e)
      PROVE  \A x \in Queued' : ~IsLate(x, s)
  BY <1>0, <1>2, <1>5 DEF Deliver, OnlyCutSpawned, IsLate
<1> QED BY <1>1, <1>3, <1>4, <1>5, Senders

LEMMA ReportedStep ==
    ASSUME CInv, PartingEvents, ReportedIsOver, [CliNext]_cliVars
    PROVE  ReportedIsOver'
<1>0. /\ TypeOK /\ EndedIsOver /\ EndInOrder /\ report \in [Sessions -> ReportType]
      /\ channel \in Seq(Events)
  BY CInvParts, CliTypeParts DEF EndInv, TypeOK
<1> SUFFICES ASSUME NEW s \in Sessions, report'[s].reason = "Finished"
             PROVE  IsOver(s)' /\ \A e \in Queued' : ~IsLate(e, s)
  BY DEF ReportedIsOver
<1>1. IsOver(s) => IsOver(s)'
  BY ServerKept
<1>2. CASE report[s].reason = "Finished"
  <2>1. IsOver(s) /\ \A e \in Queued : ~IsLate(e, s)
    BY <1>2 DEF ReportedIsOver
  <2>2. CASE ServerStep
    BY <1>1, <2>1, <2>2, OverIsQuiet
  <2>3. CASE LoopStep \/ TerminalStep
    BY <1>1, <2>1, <2>3, LoopSteps DEF LoopTouches
  <2>4. CASE UNCHANGED cliVars
    BY <1>1, <2>1, <2>4 DEF cliVars, vars, Queued
  <2> QED BY <2>2, <2>3, <2>4 DEF CliNext
<1>3. CASE report[s].reason # "Finished"
  <2>1. OnEnd
    BY <1>3, ServerSteps
    DEF CliNext, LoopStep, TerminalStep, loopVars, cliVars, OnPrepareAuto, OnPrepareAsk,
        OnAborted, OnUpload, OnResult, AnswerConflict, AnswerRequest
  <2>2. /\ Takes("SessionEnd") /\ First.sid = s /\ First.outcome = "Finished"
    BY <1>0, <1>3, <2>1 DEF OnEnd
  <2>3. /\ First = EndOf(s) /\ First \in Queued
        /\ channel # <<>> /\ channel' = Tail(channel)
    BY <2>2, TakenEvent DEF PartingEvents, Parting, EndOf
  <2>4. IsOver(s)
    BY <1>0, <2>3 DEF EndedIsOver
  <2>5. ASSUME NEW i \in 1 .. Len(channel')
        PROVE  ~IsLate(channel'[i], s)
    <3>1. i + 1 \in 1 .. Len(channel) /\ channel'[i] = channel[i + 1] /\ 1 \in 1 .. Len(channel)
      BY <1>0, <2>3, TailShifts
    <3>2. channel[1] = EndOf(s) /\ 1 < i + 1
      BY <2>3 DEF First
    <3> QED BY <1>0, <3>1, <3>2 DEF EndInOrder
  <2> QED BY <1>1, <2>4, <2>5 DEF Queued
<1> QED BY <1>2, <1>3

------------------------------------------------------------------------------
(* What was received is accounted for.                                     *)

\* The success of a file that is in place is still to be reported, on its way, entered,
\* or too late for a session that the loop has let go without a report.
Reporting(s, f) ==
    \E r \in Requests : Working(r, s, f) /\ req[r].pc = "reporting" /\ req[r].outcome = "Success"
OnItsWay(s, f) ==
    \/ Reporting(s, f)
    \/ \E e \in Queued : IsSuccess(e, s, f)
    \/ entry[s][f] = "Finished"
    \/ session.sid # s /\ report[s].reason # "Finished"

\* An account of session s is right about a file.
RightAbout(account, s, f) ==
    /\ entry[s][f] = "Finished" <=> <<s, f>> \in account.received
    /\ entry[s][f] = "Failed" => account.failed > 0

Accounts(s, f) ==
    /\ entry[s][f] # "none" => prep[s] = "done"
    /\ <<s, f>> \in placed => OnItsWay(s, f)
    /\ session.sid = s => RightAbout(session, s, f)
    /\ report[s].reason = "Finished" => RightAbout(report[s], s, f)
Accounted ==
    /\ \A s \in Sessions, f \in Files : <<s, f>> \in placed => prep[s] = "done"
    /\ \A s \in Sessions \ disturbed, f \in Files : Accounts(s, f)

\* Which handler puts a file in place.
LEMMA PlacedBy ==
    ASSUME ServerStep, NEW s \in Sessions, NEW f \in Files, <<s, f>> \in placed', <<s, f>> \notin placed
    PROVE  \E r \in Requests :
               /\ req[r].sid = s /\ req[r].file = f
               /\ \/ BodySaved(r, "Success") \/ Settle(r, "Success")
                  \/ s \in disturbed'
<1>1. ASSUME NEW t \in Sessions,
             \/ CliPrepareNext(t) \/ PrepareWithdrawn(t) \/ SenderGone(t)
             \/ CancelPending(t) \/ CancelBySender(t) \/ Touch(t) \/ Reap(t)
      PROVE  placed' = placed
  BY <1>1 DEF CliPrepareNext, ClaimPending, AskApplication, SessionAccepted, SessionRefused,
              PrepareWithdrawn, SenderGone, AbortPrepare, CancelPending, CancelBySender,
              Touch, Reap, outcomeVars
<1>2. ASSUME NEW r \in Requests, HandlerNext(r)
      PROVE  \/ placed' = placed
             \/ \E outcome \in SaveOutcomes : BodySaved(r, outcome) \/ Settle(r, outcome)
  BY <1>2 DEF HandlerNext, AskTarget, StartSaving, TargetRefused, BodyHeld, Report, Finish
<1>3. ASSUME NEW r \in Requests, NEW outcome, BodySaved(r, outcome) \/ Settle(r, outcome)
      PROVE  req[r].sid = s /\ req[r].file = f /\ outcome = "Success"
  BY <1>3 DEF BodySaved, Settle, Place
<1>4. ASSUME NEW r \in Requests, LostConnection(r)
      PROVE  req[r].sid = s /\ req[r].file = f /\ s \in disturbed'
  <2>1. placed' = placed \/ placed' = placed \cup {<<req[r].sid, req[r].file>>}
    BY <1>4 DEF LostConnection, DropHandler, DropUpload, DropConfirm, BodySaved, Place
  <2> QED BY <1>4, <2>1 DEF LostConnection, Disturb
<1>5. ASSUME NEW r \in Requests, NEW t \in Sessions, NEW g \in Files, RequestNext(r, t, g)
      PROVE  placed' = placed
  BY <1>5 DEF RequestNext, BeginUpload, BeginConfirm
<1>6. ASSUME TenMinutes \/ \E e \in spawned : Deliver(e)
      PROVE  placed' = placed
  BY <1>6 DEF TenMinutes, Deliver, outcomeVars
<1>7. CASE \E r \in Requests : LostConnection(r)
  BY <1>4, <1>7
<1>8. CASE QuietNext
  <2>1. PICK r \in Requests : HandlerNext(r)
    BY <1>1, <1>5, <1>6, <1>8 DEF QuietNext, CliRequestNext
  <2>2. PICK outcome \in SaveOutcomes : BodySaved(r, outcome) \/ Settle(r, outcome)
    BY <1>2, <2>1
  <2> QED BY <1>3, <2>2
<1> QED BY <1>7, <1>8 DEF ServerStep

\* A success that is still to be reported is reported, unless the connection is lost.
LEMMA ReportingGoesOn ==
    ASSUME CInv, ServerStep, NEW s \in Sessions \ disturbed', NEW f \in Files,
           NEW r \in Requests, Working(r, s, f), req[r].pc = "reporting"
    PROVE  req'[r] = req[r] \/ Report(r)
<1>0. req \in [Requests -> RequestType]
  BY CInvParts DEF TypeOK
<1>1. CASE req' = req
  BY <1>1
<1>2. ASSUME NEW q \in Requests, HandlerNext(q)
      PROVE  req'[r] = req[r] \/ Report(r)
  <2>1. ASSUME q # r
        PROVE  req'[r] = req[r]
    BY <1>0, <1>2, <2>1 DEF HandlerNext, AskTarget, StartSaving, TargetRefused, BodySaved,
                            BodyHeld, Settle, Report, Finish, Goto
  <2>2. ASSUME q = r
        PROVE  Report(r)
    BY <1>2, <2>2 DEF HandlerNext, AskTarget, StartSaving, TargetRefused, BodySaved,
                      BodyHeld, Settle, Finish
  <2> QED BY <2>1, <2>2
<1>3. ASSUME NEW q \in Requests, LostConnection(q)
      PROVE  req'[r] = req[r]
  <2>1. q # r
    BY <1>3 DEF LostConnection, Disturb, Working
  <2> QED BY <1>0, <1>3, <2>1 DEF LostConnection, DropHandler, DropUpload, DropConfirm, BodySaved
<1>4. ASSUME NEW q \in Requests, NEW t \in Sessions, NEW g \in Files, RequestNext(q, t, g)
      PROVE  req'[r] = req[r]
  <2>1. q # r
    BY <1>4 DEF RequestNext, BeginUpload, BeginConfirm, Fresh, IdleRequest
  <2> QED BY <1>0, <1>4, <2>1 DEF RequestNext, BeginUpload, BeginConfirm
<1>5. ASSUME NEW t \in Sessions,
             \/ CliPrepareNext(t) \/ PrepareWithdrawn(t) \/ SenderGone(t)
             \/ CancelPending(t) \/ CancelBySender(t) \/ Touch(t) \/ Reap(t)
      PROVE  req' = req
  BY <1>5 DEF CliPrepareNext, ClaimPending, AskApplication, SessionAccepted, SessionRefused,
              PrepareWithdrawn, SenderGone, AbortPrepare, CancelPending, CancelBySender,
              Touch, Reap, handlerVars
<1>6. ASSUME TenMinutes \/ \E e \in spawned : Deliver(e)
      PROVE  req' = req
  BY <1>6 DEF TenMinutes, Deliver, handlerVars
<1>7. CASE QuietNext
  BY <1>1, <1>2, <1>4, <1>5, <1>6, <1>7 DEF QuietNext, CliRequestNext
<1> QED BY <1>3, <1>7 DEF ServerStep

LEMMA ServerAccounts ==
    ASSUME CInv, PartingEvents, Accounted, ServerStep, NEW f \in Files, NEW s \in Sessions
    PROVE  /\ <<s, f>> \in placed' => prep'[s] = "done"
           /\ s \notin disturbed' => Accounts(s, f)'
<1>0. /\ TypeOK /\ RequestShape /\ SlotDiscipline /\ req \in [Requests -> RequestType]
      /\ entry' = entry /\ session' = session /\ report' = report
      /\ disturbed \subseteq disturbed'
      /\ prep[s] = "done" => prep'[s] = "done"
      /\ s # NoSession
  BY CInvParts, ServerSteps, StaysParted DEF loopVars, PartingStays, TypeOK, CliNext
<1>1. <<s, f>> \in placed' => prep'[s] = "done"
  <2>1. CASE <<s, f>> \in placed
    BY <1>0, <2>1 DEF Accounted
  <2>2. ASSUME <<s, f>> \in placed', <<s, f>> \notin placed
        PROVE  prep[s] = "done"
    <3>1. \E r \in Requests : req[r].sid = s
      BY <2>2, PlacedBy
    <3> QED BY <1>0, <3>1 DEF SlotDiscipline, ActiveWasPrepared
  <2> QED BY <1>0, <2>1, <2>2
<1>2. ASSUME s \notin disturbed'
      PROVE  Accounts(s, f)'
  <2>1. Accounts(s, f)
    BY <1>0, <1>2 DEF Accounted
  <2>2. Queued \subseteq Queued'
    <3>1. CASE channel' = channel
      BY <3>1 DEF Queued
    <3>2. ASSUME NEW e \in Events, channel' = Append(channel, e)
          PROVE  Queued \subseteq Queued'
      BY <1>0, <3>2, AppendQueued
    <3> QED BY <3>1, <3>2, ServerSpeech
  <2>3. ASSUME NEW r \in Requests, Working(r, s, f), req[r].pc = "reporting", req[r].outcome = "Success"
        PROVE  OnItsWay(s, f)'
    <3>1. CASE req'[r] = req[r]
      BY <2>3, <3>1 DEF OnItsWay, Reporting, Working
    <3>2. CASE Report(r)
      <4>1. PICK e : e = RequestEvent("FileUploadResult", r, req[r].outcome)
        OBVIOUS
      <4>2. IsSuccess(e, s, f)
        BY <2>3, <4>1 DEF IsSuccess, RequestEvent, Event, Working
      <4>3. e \in Events /\ channel' = Append(channel, e)
        BY <1>0, <3>2, <4>1, EventTypes DEF Report, IdleRequest, RequestType
      <4>4. e \in Queued'
        BY <1>0, <4>3, AppendQueued
      <4> QED BY <4>2, <4>4 DEF OnItsWay, IsSuccess
    <3> QED BY <1>2, <2>3, <3>1, <3>2, ReportingGoesOn
  <2>4. OnItsWay(s, f) => OnItsWay(s, f)'
    <3>1. CASE Reporting(s, f)
      BY <2>3, <3>1 DEF Reporting
    <3>2. ASSUME NEW e \in Queued, IsSuccess(e, s, f)
          PROVE  OnItsWay(s, f)'
      BY <2>2, <3>2 DEF OnItsWay, IsSuccess
    <3> QED BY <1>0, <3>1, <3>2 DEF OnItsWay
  <2>5. ASSUME <<s, f>> \in placed', <<s, f>> \notin placed
        PROVE  OnItsWay(s, f)'
    <3>1. PICK r \in Requests : /\ req[r].sid = s /\ req[r].file = f
                                /\ BodySaved(r, "Success") \/ Settle(r, "Success")
      BY <1>2, <2>5, PlacedBy
    <3>2. req' = [req EXCEPT ![r].pc = "reporting", ![r].outcome = "Success"]
      BY <3>1 DEF BodySaved, Settle
    <3>3. /\ req'[r].sid = s /\ req'[r].file = f
          /\ req'[r].pc = "reporting" /\ req'[r].outcome = "Success"
      BY <1>0, <3>1, <3>2 DEF RequestType
    <3> QED BY <3>3 DEF OnItsWay, Reporting, Working
  <2>6. <<s, f>> \in placed' => OnItsWay(s, f)'
    BY <2>1, <2>4, <2>5 DEF Accounts
  <2> QED BY <1>0, <2>1, <2>6 DEF Accounts, RightAbout
<1> QED BY <1>1, <1>2

\* A result that the loop takes is entered at once.
LEMMA ResultsKept ==
    ASSUME CInv, LoopStep \/ TerminalStep, NEW e \in Queued, e.type = "FileUploadResult"
    PROVE  e \in Queued' \/ (e = First /\ \E bytes \in BOOLEAN : OnResult(bytes))
<1>0. TypeOK /\ channel \in Seq(Events)
  BY CInvParts DEF TypeOK
<1>1. ASSUME channel # <<>>, channel' = Tail(channel), e # First
      PROVE  e \in Queued'
  <2>1. PICK i \in 1 .. Len(channel) : e = channel[i]
    BY DEF Queued
  <2>2. i # 1
    BY <1>1, <2>1 DEF First
  <2>3. i - 1 \in 1 .. Len(channel') /\ channel'[i - 1] = channel[i]
    BY <1>0, <1>1, <2>2
  <2> QED BY <2>1, <2>3 DEF Queued
<1>2. ASSUME NEW type, Takes(type), type # "FileUploadResult"
      PROVE  e \in Queued'
  BY <1>1, <1>2 DEF Takes
<1>3. CASE TerminalStep
  <2>1. channel' = channel
    BY <1>3 DEF TerminalStep, AnswerConflict, AnswerRequest
  <2> QED BY <2>1 DEF Queued
<1>4. CASE OnPrepareAuto \/ OnPrepareAsk \/ OnAborted \/ OnUpload \/ OnEnd
  <2>1. \E type \in {"PrepareUpload", "PrepareUploadAborted", "FileUpload", "SessionEnd"} : Takes(type)
    BY <1>4 DEF OnPrepareAuto, OnPrepareAsk, OnAborted, OnUpload, OnEnd
  <2> QED BY <1>2, <2>1
<1>5. ASSUME NEW bytes \in BOOLEAN, OnResult(bytes)
      PROVE  e \in Queued' \/ e = First
  BY <1>1, <1>5 DEF OnResult, Takes
<1> QED BY <1>3, <1>4, <1>5 DEF LoopStep

LEMMA ReportingStays ==
    ASSUME CInv, LoopTouches, NEW s \in Sessions, NEW f \in Files, Reporting(s, f)
    PROVE  Reporting(s, f)'
<1>0. IInv /\ RuntimeTouches /\ req \in [Requests -> RequestType]
  BY CInvParts DEF LoopTouches, TypeOK
<1>1. PICK r \in Requests : /\ Working(r, s, f)
                            /\ req[r].pc = "reporting" /\ req[r].outcome = "Success"
  BY DEF Reporting
<1>2. req'[r] = req[r]
  BY <1>0, <1>1 DEF RuntimeTouches, TargetTo
<1> QED BY <1>1, <1>2 DEF Reporting, Working

\* Whatever the loop does but take a result leaves the accounts in order.
LEMMA OtherAccounts ==
    ASSUME CInv, PartingEvents, Accounted, LoopStep \/ TerminalStep,
           ~ \E bytes \in BOOLEAN : OnResult(bytes),
           NEW s \in Sessions \ disturbed', NEW f \in Files
    PROVE  Accounts(s, f)'
<1>0. /\ TypeOK /\ Info(session) /\ s # NoSession /\ LoopTouches
      /\ Accounts(s, f) /\ placed' = placed
      /\ <<s, f>> \in placed => prep[s] = "done"
      /\ report \in [Sessions -> ReportType]
      /\ prep \in [Sessions -> PrepStates]
  BY CInvParts, CliTypeParts, StaysParted, LoopSteps
     DEF PartingStays, CliNext, Accounted, LoopTouches, RuntimeTouches
<1>1. entry' = entry
  BY DEF LoopStep, TerminalStep, OnPrepareAuto, OnPrepareAsk, OnAborted, OnUpload, OnEnd,
         AnswerConflict, AnswerRequest
<1>2. prep[s] = "done" => prep'[s] = "done"
  BY StaysParted DEF PartingStays, CliNext
<1>3. \/ Reporting(s, f) \/ (\E e \in Queued : IsSuccess(e, s, f)) \/ entry[s][f] = "Finished"
      => OnItsWay(s, f)'
  <2>1. ASSUME NEW e \in Queued, IsSuccess(e, s, f)
        PROVE  OnItsWay(s, f)'
    <3>1. e \in Queued'
      BY <2>1, ResultsKept DEF IsSuccess
    <3> QED BY <2>1, <3>1 DEF OnItsWay, IsSuccess
  <2>2. Reporting(s, f) => OnItsWay(s, f)'
    BY <1>0, ReportingStays DEF OnItsWay
  <2> QED BY <1>1, <2>1, <2>2 DEF OnItsWay
<1>4. ASSUME <<s, f>> \in placed => OnItsWay(s, f)',
             session'.sid = s => RightAbout(session', s, f),
             report'[s].reason = "Finished" => RightAbout(report'[s], s, f)
      PROVE  Accounts(s, f)'
  BY <1>0, <1>1, <1>2, <1>4 DEF Accounts, RightAbout
<1>5. ASSUME session' = session \/ session' = NoInfo, report' = report
      PROVE  Accounts(s, f)'
  <2>1. NoInfo.sid = NoSession
    BY InfoTypes
  <2>2. OnItsWay(s, f) => OnItsWay(s, f)'
    BY <1>0, <1>3, <1>5, <2>1 DEF OnItsWay
  <2> QED BY <1>0, <1>4, <1>5, <2>1, <2>2 DEF Accounts
<1>6. ASSUME NEW t \in Sessions, NEW accept \in BOOLEAN, Answered(t, accept), report' = report
      PROVE  Accounts(s, f)'
  <2>1. CASE session' = session \/ session' = NoInfo
    BY <1>5, <1>6, <2>1
  <2>2. CASE prep[t] = "waiting" /\ session' = NewInfo(t)
    <3>1. NewInfo(t).sid = t /\ NewInfo(t).received = {}
      BY InfoTypes
    <3>2. CASE t = s
      <4>1. entry[s][f] = "none" /\ <<s, f>> \notin placed
        BY <1>0, <2>2, <3>2 DEF Accounts
      <4>2. RightAbout(session', s, f)
        BY <2>2, <3>1, <4>1 DEF RightAbout
      <4> QED BY <1>0, <1>4, <1>6, <4>1, <4>2 DEF Accounts
    <3>3. CASE t # s
      <4>1. OnItsWay(s, f) => OnItsWay(s, f)'
        BY <1>3, <1>6, <2>2, <3>1, <3>3 DEF OnItsWay
      <4> QED BY <1>0, <1>4, <1>6, <2>2, <3>1, <3>3, <4>1 DEF Accounts
    <3> QED BY <3>2, <3>3
  <2> QED BY <1>6, <2>1, <2>2, AnsweredFacts
<1>7. CASE OnPrepareAuto
  <2>1. First.sid \in Sessions /\ Answered(First.sid, TRUE) /\ report' = report
    BY <1>7, TakenEvent DEF OnPrepareAuto
  <2> QED BY <1>6, <2>1
<1>8. ASSUME NEW accept \in BOOLEAN, AnswerRequest(accept)
      PROVE  Accounts(s, f)'
  <2>1. prompt.sid \in Sessions /\ Answered(prompt.sid, accept) /\ report' = report
    BY <1>8, CInvParts DEF AnswerRequest, PromptShape
  <2> QED BY <1>6, <2>1
<1>9. CASE OnPrepareAsk \/ OnAborted \/ OnUpload \/ AnswerConflict
  BY <1>5, <1>9 DEF OnPrepareAsk, OnAborted, OnUpload, AnswerConflict
<1>10. CASE OnEnd
  <2>1. First.sid \in Sessions
    BY <1>10, TakenEvent DEF OnEnd
  <2>2. CASE ~IsKnown(First.sid)
    BY <1>5, <1>10, <2>2 DEF OnEnd
  <2>3. CASE IsKnown(First.sid)
    <3> DEFINE rec == [reason |-> First.outcome, received |-> session.received,
                       failed |-> session.failed]
    <3>1. /\ session' = NoInfo /\ NoInfo.sid = NoSession /\ session.sid = First.sid
          /\ report' = [report EXCEPT ![First.sid] = rec]
      BY <1>10, <2>3, InfoTypes DEF OnEnd, IsKnown
    <3>2. rec.received = session.received /\ rec.failed = session.failed
      OBVIOUS
    <3> HIDE DEF rec
    <3>3. CASE First.sid = s
      <4>1. report'[s] = rec
        BY <1>0, <3>1, <3>3
      <4>2. RightAbout(report'[s], s, f)
        BY <1>0, <3>1, <3>2, <3>3, <4>1 DEF Accounts, RightAbout
      <4>3. OnItsWay(s, f) => OnItsWay(s, f)'
        BY <1>3, <3>1, <3>3 DEF OnItsWay
      <4> QED BY <1>0, <1>4, <3>1, <4>2, <4>3 DEF Accounts
    <3>4. CASE First.sid # s
      <4>1. report'[s] = report[s]
        BY <1>0, <3>1, <3>4
      <4>2. OnItsWay(s, f) => OnItsWay(s, f)'
        BY <1>0, <1>3, <3>1, <4>1 DEF OnItsWay
      <4> QED BY <1>0, <1>4, <3>1, <4>1, <4>2 DEF Accounts
    <3> QED BY <3>3, <3>4
  <2> QED BY <2>2, <2>3
<1> QED BY <1>7, <1>8, <1>9, <1>10 DEF LoopStep, TerminalStep

\* A result of an undisturbed session is credited to it, once.
LEMMA ResultAccounts ==
    ASSUME CInv, PartingEvents, SuccessComesLast, ReportedIsOver, Accounted,
           NEW bytes \in BOOLEAN, OnResult(bytes),
           NEW s \in Sessions \ disturbed', NEW f \in Files
    PROVE  Accounts(s, f)'
<1> DEFINE new == Credited(First, bytes)
<1>0. /\ TypeOK /\ Info(session) /\ s # NoSession /\ LoopStep /\ LoopTouches
      /\ Accounts(s, f) /\ EntryCloses(s, f) /\ placed' = placed
      /\ session.failed \in Nat
  BY CInvParts, CliTypeParts, StaysParted, LoopSteps
     DEF PartingStays, CliNext, Accounted, LoopTouches, RuntimeTouches, LoopStep,
         SuccessComesLast, Info, InfoType
<1>1. /\ First.sid \in Sessions /\ First.file \in Files /\ First \in Queued
      /\ First.type = "FileUploadResult" /\ Parting(First)
      /\ session' = new /\ report' = report
  BY TakenEvent DEF OnResult, PartingEvents
<1>2. session.sid = s => First.sid = s
  BY <1>0 DEF OnResult, Disturb, Current
<1>3. First.sid = s => /\ First.outcome # "Interrupted" /\ prep[s] = "done"
                       /\ IsLate(First, s)
                       /\ First.file = f => Speaks(First, s, f)
  <2>1. s \notin disturbed
    BY DEF OnResult, Disturb
  <2> QED BY <1>1, <2>1 DEF Parting, IsLate, Speaks
<1>4. First.sid = s => report[s].reason # "Finished"
  BY <1>1, <1>3 DEF ReportedIsOver
<1>5. /\ Info(new) /\ new.sid = session.sid
      /\ new.received = IF session.sid # NoSession /\ Succeeded(First)
                        THEN session.received \cup {<<First.sid, First.file>>} ELSE session.received
      /\ new.failed >= session.failed
      /\ session.sid # NoSession /\ First.outcome \notin {"Success", "Interrupted"} => new.failed > 0
  BY <1>0, <1>1, CreditedFacts
<1> HIDE DEF new
<1>6. prep[s] = "done" => prep'[s] = "done"
  BY <1>0, StaysParted DEF PartingStays, CliNext
<1>7. CASE s = First.sid /\ f = First.file /\ session.sid = s
  <2>1. /\ entry'[s][f] = IF First.outcome = "Success" THEN "Finished" ELSE "Failed"
        /\ entry[s][f] # "Finished"
    BY <1>0, <1>1, <1>3, <1>7, EntryChanges DEF EntryCloses
  <2>2. report'[s].reason # "Finished"
    BY <1>1, <1>4, <1>7
  <2>3. First.outcome = "Success" => <<s, f>> \in new.received
    BY <1>0, <1>5, <1>7 DEF Succeeded
  <2>4. First.outcome # "Success" => <<s, f>> \notin new.received /\ new.failed > 0
    BY <1>0, <1>3, <1>5, <1>7, <2>1 DEF Succeeded, Accounts, RightAbout
  <2>5. RightAbout(session, s, f)'
    BY <1>1, <2>1, <2>3, <2>4 DEF RightAbout
  <2>6. OnItsWay(s, f) => OnItsWay(s, f)'
    <3>1. CASE Reporting(s, f)
      BY <1>0, <3>1, ReportingStays DEF OnItsWay
    <3>2. ASSUME NEW e \in Queued, IsSuccess(e, s, f)
          PROVE  OnItsWay(s, f)'
      <4>1. CASE e \in Queued'
        BY <3>2, <4>1 DEF OnItsWay, IsSuccess
      <4>2. CASE e = First
        BY <2>1, <3>2, <4>2 DEF OnItsWay, IsSuccess
      <4> QED BY <1>0, <3>2, <4>1, <4>2, ResultsKept DEF IsSuccess
    <3> QED BY <1>7, <2>1, <3>1, <3>2 DEF OnItsWay
  <2> QED BY <1>0, <1>1, <1>3, <1>6, <1>7, <2>2, <2>5, <2>6 DEF Accounts, RightAbout
<1>8. CASE ~(s = First.sid /\ f = First.file /\ session.sid = s)
  <2>1. entry'[s][f] = entry[s][f]
    BY <1>8, EntryChanges
  <2>2. session'.sid = s => /\ <<s, f>> \in new.received <=> <<s, f>> \in session.received
                            /\ new.failed >= session.failed /\ new.failed \in Nat
    BY <1>0, <1>1, <1>2, <1>5, <1>8 DEF Info, InfoType
  <2>3. session'.sid = s => RightAbout(session, s, f)'
    <3>1. SUFFICES ASSUME session'.sid = s PROVE RightAbout(session, s, f)'
      OBVIOUS
    <3>2. RightAbout(session, s, f)
      BY <1>0, <1>1, <1>5, <3>1 DEF Accounts
    <3> QED BY <1>0, <1>1, <2>1, <2>2, <3>1, <3>2 DEF RightAbout
  <2>4. OnItsWay(s, f) => OnItsWay(s, f)'
    <3>1. CASE Reporting(s, f)
      BY <1>0, <3>1, ReportingStays DEF OnItsWay
    <3>2. ASSUME NEW e \in Queued, IsSuccess(e, s, f)
          PROVE  OnItsWay(s, f)'
      <4>1. CASE e \in Queued'
        BY <3>2, <4>1 DEF OnItsWay, IsSuccess
      <4>2. CASE e = First
        BY <1>1, <1>4, <1>5, <1>8, <3>2, <4>2 DEF OnItsWay, IsSuccess
      <4> QED BY <1>0, <3>2, <4>1, <4>2, ResultsKept DEF IsSuccess
    <3>3. entry[s][f] = "Finished" => OnItsWay(s, f)'
      BY <2>1 DEF OnItsWay
    <3>4. session.sid # s /\ report[s].reason # "Finished" => OnItsWay(s, f)'
      BY <1>1, <1>5 DEF OnItsWay
    <3> QED BY <3>1, <3>2, <3>3, <3>4 DEF OnItsWay
  <2> QED BY <1>0, <1>1, <1>6, <2>1, <2>3, <2>4 DEF Accounts, RightAbout
<1> QED BY <1>7, <1>8

LEMMA AccountedStep ==
    ASSUME CInv, PartingEvents, SuccessComesLast, ReportedIsOver, Accounted, [CliNext]_cliVars
    PROVE  Accounted'
<1>1. CASE ServerStep
  BY <1>1, ServerAccounts DEF Accounted
<1>2. CASE LoopStep \/ TerminalStep
  <2>1. \A s \in Sessions \ disturbed', f \in Files : Accounts(s, f)'
    BY <1>2, OtherAccounts, ResultAccounts
  <2>2. placed' = placed /\ \A s \in Sessions : prep[s] = "done" => prep'[s] = "done"
    BY <1>2, LoopSteps, StaysParted DEF LoopTouches, RuntimeTouches, PartingStays
  <2> QED BY <2>1, <2>2 DEF Accounted
<1>3. CASE UNCHANGED cliVars
  <2>1. UNCHANGED <<channel, placed, prep, req, entry, session, report, disturbed>>
    BY <1>3 DEF cliVars, vars, loopVars
  <2> QED BY <2>1
          DEF Accounted, Accounts, OnItsWay, Reporting, RightAbout, Working, Queued
<1> QED BY <1>1, <1>2, <1>3 DEF CliNext

------------------------------------------------------------------------------
(* The theorems.                                                           *)

CliInv == /\ CInv
          /\ PartingEvents
          /\ HeldSession
          /\ SuccessComesLast
          /\ ReportedIsOver
          /\ Accounted

LEMMA CliInvInit == CliInit => CliInv
<1> SUFFICES ASSUME CliInit PROVE CliInv
  OBVIOUS
<1>0. Init
  BY DEF CliInit
<1>1. IInv /\ EndInv /\ CliTypeOK /\ PromptShape
  BY <1>0, InvInit, EndInvInit, TypeInitCli
<1>2. /\ channel = <<>> /\ spawned = {} /\ Queued = {} /\ placed = {} /\ disturbed = {}
      /\ req = [r \in Requests |-> IdleRequest] /\ slot = FreeSlot
      /\ prep = [s \in Sessions |-> "new"]
      /\ entry = [s \in Sessions |-> [f \in Files |-> "none"]]
      /\ report = [s \in Sessions |-> NoReport]
      /\ session.sid = NoSession
  BY InfoTypes DEF CliInit, Init, Queued
<1>3. EventShape /\ PartingEvents /\ ReportedIsOver
  BY <1>2 DEF EventShape, PartingEvents, ReportedIsOver, IdleRequest, NoReport
<1>4. HeldSession
  BY <1>2 DEF HeldSession, IsActive, FreeSlot
<1>5. SuccessComesLast
  BY <1>2 DEF SuccessComesLast, LastWord, EntryCloses
<1>6. Accounted
  BY <1>2, ConstantsAssumption DEF Accounted, Accounts, NoReport
<1> QED BY <1>1, <1>3, <1>4, <1>5, <1>6 DEF CliInv, CInv

LEMMA CliInvStep == CliInv /\ [CliNext]_cliVars => CliInv'
<1> SUFFICES ASSUME CliInv, [CliNext]_cliVars PROVE CliInv'
  OBVIOUS
<1>1. CInv'
  BY ServerKept, CliTypeStep DEF CliInv, CInv
<1>2. PartingEvents' /\ HeldSession'
  BY PartingStep, HeldSessionStep DEF CliInv
<1>3. SuccessComesLast' /\ ReportedIsOver' /\ Accounted'
  BY SuccessLastStep, ReportedStep, AccountedStep DEF CliInv
<1> QED BY <1>1, <1>2, <1>3 DEF CliInv

\* The invariant of the loop holds in every state of the composition with the server.
LEMMA CliInvariance == CliSpec => []CliInv
BY CliInvInit, CliInvStep, PTL DEF CliSpec

\* The loop's variables keep their types, and what it knows of a session is a session or
\* nothing at all (the Option of Incoming.session).
THEOREM CliTypes == CliSpec => []CliTypeOK
<1>1. CliInv => CliTypeOK
  BY DEF CliInv, CInv
<1> QED BY <1>1, CliInvariance, PTL

\* The loop knows the session that the server receives, unless one of the named races
\* disturbed it: withdrawals, results and ends that come late do not make it forget.
THEOREM CliSessionKnown == CliSpec => []SessionKnown
<1>1. CliInv => SessionKnown
  BY DEF CliInv, HeldSession, SessionKnown, IsActive, ActiveSlot
<1> QED BY <1>1, CliInvariance, PTL

\* The history never claims a file that is not in place, and the report of a finished
\* session names exactly the files in place and counts every other one as failed, although
\* handlers report and the session ends concurrently with the loop.
THEOREM CliReportsTrue == CliSpec => []ReportIsTrue
<1>1. CliInv => ReportIsTrue
  <2> SUFFICES ASSUME CliInv PROVE ReportIsTrue
    OBVIOUS
  <2>1. EntryIsTrue
    BY DEF CliInv, SuccessComesLast, EntryCloses, Through, EntryIsTrue
  <2>2. ASSUME NEW s \in Sessions \ disturbed, report[s].reason = "Finished", NEW f \in Files
        PROVE  /\ <<s, f>> \in placed <=> <<s, f>> \in report[s].received
               /\ <<s, f>> \in placed <=> entry[s][f] = "Finished"
               /\ entry[s][f] = "Failed" => report[s].failed > 0
    <3>1. IsOver(s) /\ \A e \in Queued : ~IsLate(e, s)
      BY <2>2 DEF CliInv, ReportedIsOver
    <3>2. ~Reporting(s, f)
      BY <3>1 DEF IsOver, Reporting, Working
    <3>3. \A e \in Queued : ~IsSuccess(e, s, f)
      BY <3>1 DEF IsLate, IsSuccess
    <3>4. Accounts(s, f)
      BY DEF CliInv, Accounted
    <3>5. <<s, f>> \in placed => entry[s][f] = "Finished"
      BY <2>2, <3>2, <3>3, <3>4 DEF Accounts, OnItsWay
    <3>6. RightAbout(report[s], s, f)
      BY <2>2, <3>4 DEF Accounts
    <3> QED BY <2>1, <3>5, <3>6 DEF EntryIsTrue, RightAbout
  <2> QED BY <2>1, <2>2 DEF ReportIsTrue
<1> QED BY <1>1, CliInvariance, PTL

\* The slot of the server behaves as SessionSlot promises also behind the command line's
\* loop, which answers for its user: no session displaces another one, none comes back.
THEOREM CliSlotImplemented == CliSpec => SlotRefined
<1>1. CliInit => Abstract!SlotInit
  BY SlotInitMaps DEF CliInit
<1>2. CliInv /\ [CliNext]_cliVars => [Abstract!SlotNext]_(Abstract!slotVars)
  <2> SUFFICES ASSUME CliInv, [CliNext]_cliVars
               PROVE  [Abstract!SlotNext]_(Abstract!slotVars)
    OBVIOUS
  <2>1. CInv /\ IInv
    BY DEF CliInv, CInv
  <2>2. CASE [Next]_vars
    BY <2>1, <2>2, SlotStepMaps
  <2>3. CASE LoopTouches
    BY <2>1, <2>3, TouchKeepsSlot DEF LoopTouches
  <2> QED BY <2>1, <2>2, <2>3, CliSteps
<1> QED BY <1>1, <1>2, CliInvariance, PTL DEF CliSpec, SlotRefined, Abstract!SlotSpec
==============================================================================
