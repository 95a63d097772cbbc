------------------------ MODULE UploadSession_proofs ------------------------
(***************************************************************************)
(* Theorems about UploadSession, for every number of sessions, files,      *)
(* requests and attempts.  The inductive invariant is IInv; one lemma per  *)
(* part shows that every action preserves it.                              *)
(***************************************************************************)
EXTENDS UploadSession, TLAPS

------------------------------------------------------------------------------
(* The inductive invariant.                                                *)

\* What a handler record looks like while idle, uploading and confirming.
RequestShape ==
    \A r \in Requests :
        \/ req[r] = IdleRequest
        \/ /\ req[r].kind = "upload"
           /\ req[r].pc \in UploadStates
           /\ req[r].sid \in Sessions
           /\ req[r].file \in Files
        \/ /\ req[r].kind = "confirm"
           /\ req[r].pc \in ConfirmStates
           /\ req[r].sid \in Sessions
           /\ req[r].file \in Files

\* Who works on which file, and what the slot says about it.
Ownership == /\ OneOwner
             /\ InProgressOwned
             /\ ConfirmHoldsFile
             /\ ParkedAwaits

SlotDiscipline == PendingSlotHeld /\ ActiveWasPrepared

\* A body that could not be parked belongs to a session that is over.
HeldIsOver ==
    \A r \in Requests : req[r].outcome = "Held" =>
        /\ Deferred(r)
        /\ ~IsActive(req[r].sid)

\* Only senders of sessions that were accepted are told anything.
ToldWasPrepared ==
    \A s \in Sessions, f \in Files : <<s, f>> \in told => prep[s] = "done"

Outcomes == /\ SuccessIsPlaced
            /\ HeldIsOver
            /\ ToldWasPrepared
            /\ ToldIsPlacedOrHeld

IInv == /\ TypeOK
        /\ RequestShape
        /\ PendingHasAttemptLeft
        /\ SlotDiscipline
        /\ Ownership
        /\ ActiveIncomplete
        /\ Outcomes

------------------------------------------------------------------------------
(* Facts about the operators the actions share.                            *)

\* A settled file is pending only with an attempt left, and finished only
\* after a success.
LEMMA NextStatusFacts ==
    ASSUME NEW s, NEW file, NEW outcome
    PROVE  /\ NextStatus(s, file, outcome) \in {"Pending", "Finished", "Failed"}
           /\ NextStatus(s, file, outcome) = "Pending" => MayRetry(file)
           /\ NextStatus(s, file, outcome) = "Finished" => outcome = "Success"
BY DEF NextStatus

\* Settling keeps the type, leaves nothing in progress or parked, and does not
\* touch the attempts.
LEMMA SettledFileFacts ==
    ASSUME NEW s, NEW file \in FileType, NEW outcome
    PROVE  LET new == SettledFile(s, file, outcome)
           IN  /\ new \in FileType
               /\ new.attempts = file.attempts
               /\ new.path = file.path
               /\ new.status \notin {"InProgress", "AwaitingChecksum"}
               /\ Unsettled(file) => ~new.parked
               /\ ~Unsettled(file) => new = file
               /\ new.status = "Pending" => MayRetry(file) \/ file.status = "Pending"
               /\ new.status = "Finished" =>
                      outcome = "Success" \/ file.status = "Finished"
<1> DEFINE new == SettledFile(s, file, outcome)
<1>1. CASE Unsettled(file)
  <2>1. new = [file EXCEPT !.status = NextStatus(s, file, outcome), !.parked = FALSE]
    BY <1>1 DEF SettledFile
  <2>2. /\ new.status = NextStatus(s, file, outcome)
        /\ new.parked = FALSE
        /\ new.attempts = file.attempts
        /\ new.path = file.path
    BY <2>1 DEF FileType
  <2>3. NextStatus(s, file, outcome) \in FileStatuses
    BY NextStatusFacts DEF FileStatuses
  <2>4. new \in FileType
    BY <2>1, <2>3 DEF FileType
  <2>. QED
    BY <1>1, <2>2, <2>4, NextStatusFacts
<1>2. CASE ~Unsettled(file)
  BY <1>2 DEF SettledFile, Unsettled
<1>. QED
  BY <1>1, <1>2

\* finalize_file either leaves the session with the settled file in it, and
\* then something is still open, or empties the slot, or concerns a session
\* that is no longer there.
LEMMA FinalizeFacts ==
    ASSUME TypeOK,
           NEW s \in Sessions, NEW f \in Files, NEW outcome,
           NEW results \in SUBSET Events,
           FinalizeFile(s, f, outcome, results)
    PROVE  /\ \/ /\ ~InSession(s)
                 /\ UNCHANGED <<slot, files, idle>>
              \/ /\ InSession(s)
                 /\ slot' = slot
                 /\ files' = [files EXCEPT ![f] = SettledFile(s, files[f], outcome)]
                 /\ ~IsComplete(files')
              \/ /\ InSession(s)
                 /\ slot' = FreeSlot
                 /\ files' = NoFiles
           /\ idle' \in BOOLEAN
           /\ spawned' \subseteq Events
           /\ files' \in [Files -> FileType]
<1>1. files[f] \in FileType
  BY DEF TypeOK
<1>2. SettledFile(s, files[f], outcome) \in FileType
  BY <1>1, SettledFileFacts
<1>3. NoFiles \in [Files -> FileType]
  BY ConstantsAssumption DEF NoFiles, BlankFile, FileType, FileStatuses
<1>4. SessionEvent("SessionEnd", s, "Finished") \in Events
  BY DEF SessionEvent, Event, Events, EndReasons
<1>. QED
  BY <1>2, <1>3, <1>4 DEF FinalizeFile, TypeOK

\* Events the server builds are events.
LEMMA EventTypes ==
    ASSUME RequestShape
    PROVE  /\ \A s \in Sessions :
                  /\ SessionEvent("PrepareUpload", s, "none") \in Events
                  /\ SessionEvent("PrepareUploadAborted", s, "none") \in Events
                  /\ \A reason \in EndReasons :
                         SessionEvent("SessionEnd", s, reason) \in Events
           /\ \A r \in Requests : req[r] # IdleRequest =>
                  /\ RequestEvent("FileUpload", r, "none") \in Events
                  /\ \A outcome \in SaveOutcomes \cup {"none"} :
                         RequestEvent("FileUploadResult", r, outcome) \in Events
BY DEF RequestShape, SessionEvent, RequestEvent, Event, Events

\* A handler that is past its start has a session and a file.
LEMMA BusyShape ==
    ASSUME RequestShape, NEW r \in Requests, req[r].pc # "idle"
    PROVE  /\ req[r] # IdleRequest
           /\ req[r].sid \in Sessions
           /\ req[r].file \in Files
           /\ req[r].kind \in {"upload", "confirm"}
BY DEF RequestShape, IdleRequest

\* The three ways an upload or confirm handler settles its file and ends.
Settles(r) == TargetRefused(r) \/ Finish(r) \/ DropUpload(r)

\* A handler that settles its file does so through finalize_file, and as a
\* success only when that is the outcome it reported.
LEMMA SettlingFacts ==
    ASSUME TypeOK, RequestShape, NEW r \in Requests, Settles(r)
    PROVE  LET s == req[r].sid
               f == req[r].file
           IN  /\ s \in Sessions
               /\ f \in Files
               /\ req[r].kind \in {"upload", "confirm"}
               /\ req' = [req EXCEPT ![r] = IdleRequest]
               /\ \E outcome :
                    /\ \/ /\ ~InSession(s)
                          /\ UNCHANGED <<slot, files, idle>>
                       \/ /\ InSession(s)
                          /\ slot' = slot
                          /\ files' = [files EXCEPT ![f] =
                                          SettledFile(s, files[f], outcome)]
                          /\ ~IsComplete(files')
                       \/ /\ InSession(s)
                          /\ slot' = FreeSlot
                          /\ files' = NoFiles
                    /\ outcome = "Success" => req[r].outcome = "Success"
               /\ idle' \in BOOLEAN
               /\ spawned' \subseteq Events
               /\ files' \in [Files -> FileType]
<1>1. /\ req[r] # IdleRequest
      /\ req[r].sid \in Sessions
      /\ req[r].file \in Files
      /\ req[r].kind \in {"upload", "confirm"}
  BY DEF RequestShape, Settles, TargetRefused, Finish, DropUpload, IdleRequest
<1>2. CASE TargetRefused(r)
  <2>1. FinalizeFile(req[r].sid, req[r].file, "Failed", {})
    BY <1>2 DEF TargetRefused
  <2>. QED
    BY <1>1, <1>2, <2>1, FinalizeFacts DEF TargetRefused
<1>3. CASE Finish(r)
  <2>1. FinalizeFile(req[r].sid, req[r].file, req[r].outcome, {})
    BY <1>3 DEF Finish
  <2>. QED
    BY <1>1, <1>3, <2>1, FinalizeFacts DEF Finish
<1>4. CASE DropUpload(r)
  <2> DEFINE results == IF req[r].pc \in {"saving", "reporting"}
                        THEN {RequestEvent("FileUploadResult", r, "Interrupted")}
                        ELSE {}
  <2>1. results \in SUBSET Events
    BY <1>1, EventTypes DEF SaveOutcomes
  <2>2. FinalizeFile(req[r].sid, req[r].file, "Interrupted", results)
    BY <1>4 DEF DropUpload
  <2> HIDE DEF results
  <2>. QED
    BY <1>1, <1>4, <2>1, <2>2, FinalizeFacts DEF DropUpload
<1>. QED
  BY <1>2, <1>3, <1>4 DEF Settles

------------------------------------------------------------------------------
(* Types.                                                                  *)

LEMMA BlankTypes ==
    /\ BlankFile \in FileType
    /\ [BlankFile EXCEPT !.status = "Pending"] \in FileType
    /\ NoFiles \in [Files -> FileType]
    /\ IdleRequest \in RequestType
<1>1. BlankFile \in FileType
  BY ConstantsAssumption DEF BlankFile, FileType, FileStatuses
<1>2. [BlankFile EXCEPT !.status = "Pending"] \in FileType
  BY <1>1 DEF FileType, FileStatuses
<1>3. IdleRequest \in RequestType
  BY DEF IdleRequest, RequestType
<1>. QED
  BY <1>1, <1>2, <1>3 DEF NoFiles

LEMMA TypeInit == Init => TypeOK
<1>1. Init => /\ slot \in {FreeSlot}
              /\ prep \in [Sessions -> PrepStates]
              /\ features \in [Sessions -> SUBSET {"resume", "stream"}]
              /\ files \in [Files -> FileType]
              /\ req \in [Requests -> RequestType]
  BY BlankTypes DEF Init, PrepStates
<1>2. Init => channel \in Seq(Events)
  BY DEF Init
<1>. QED
  BY <1>1, <1>2 DEF Init, TypeOK

\* Every action keeps the types.
LEMMA TypeStep ==
    ASSUME TypeOK, RequestShape, PendingHasAttemptLeft, [Next]_vars
    PROVE  TypeOK'
<1> USE DEF TypeOK, handlerVars, outcomeVars
<1>1. ASSUME NEW s \in Sessions, NEW ext \in FeatureSets, ClaimPending(s, ext)
      PROVE  TypeOK'
  BY <1>1, ConstantsAssumption DEF ClaimPending, PrepStates, PendingSlot
<1>2. ASSUME NEW s \in Sessions, AskApplication(s)
      PROVE  TypeOK'
  BY <1>2, EventTypes DEF AskApplication, PrepStates
<1>3. ASSUME NEW s \in Sessions, NEW accepted \in SUBSET Files,
             SessionAccepted(s, accepted)
      PROVE  TypeOK'
  <2>1. AcceptedFiles(accepted) \in [Files -> FileType]
    BY BlankTypes DEF AcceptedFiles
  <2>. QED
    BY <1>3, <2>1 DEF SessionAccepted, Activate, ActiveSlot, PrepStates
<1>4. ASSUME NEW s \in Sessions, SessionRefused(s)
      PROVE  TypeOK'
  BY <1>4 DEF SessionRefused, ClearPending, PrepStates
<1>5. ASSUME NEW s \in Sessions, AbortPrepare(s)
      PROVE  TypeOK'
  BY <1>5, EventTypes DEF AbortPrepare, ClearPending, PrepStates
<1>6. ASSUME NEW s \in Sessions, CancelPending(s)
      PROVE  TypeOK'
  BY <1>6 DEF CancelPending
<1>7. ASSUME NEW r \in Requests, NEW s \in Sessions, NEW f \in Files,
             BeginUpload(r, s, f)
      PROVE  TypeOK'
  <2>1. /\ files[f] \in FileType
        /\ files[f].attempts + 1 \in 0 .. MaxAttempts
    BY <1>7, ConstantsAssumption
    DEF BeginUpload, Startable, PendingHasAttemptLeft, FileType
  <2>2. files' \in [Files -> FileType]
    BY <1>7, <2>1 DEF BeginUpload, FileType, FileStatuses
  <2>3. req' \in [Requests -> RequestType]
    BY <1>7 DEF BeginUpload, RequestType, UploadStates
  <2>. QED
    BY <1>7, <2>2, <2>3 DEF BeginUpload
<1>8. ASSUME NEW r \in Requests, NEW s \in Sessions, NEW f \in Files,
             BeginConfirm(r, s, f)
      PROVE  TypeOK'
  <2>1. files' \in [Files -> FileType]
    BY <1>8 DEF BeginConfirm, FileType
  <2>2. req' \in [Requests -> RequestType]
    BY <1>8 DEF BeginConfirm, RequestType, ConfirmStates
  <2>. QED
    BY <1>8, <2>1, <2>2 DEF BeginConfirm
<1>9. ASSUME NEW r \in Requests, AskTarget(r) \/ Report(r)
      PROVE  TypeOK'
  <2>1. req[r] \in RequestType /\ req[r] # IdleRequest
    BY <1>9, BusyShape DEF AskTarget, Report
  <2>2. req' \in [Requests -> RequestType]
    <3>1. \E pc \in UploadStates : req' = [req EXCEPT ![r] = [req[r] EXCEPT !.pc = pc]]
      BY <1>9 DEF AskTarget, Report, Goto, UploadStates
    <3>2. \A pc \in UploadStates : [req[r] EXCEPT !.pc = pc] \in RequestType
      BY <2>1 DEF RequestType
    <3>. QED
      BY <3>1, <3>2
  <2>3. /\ RequestEvent("FileUpload", r, "none") \in Events
        /\ RequestEvent("FileUploadResult", r, req[r].outcome) \in Events
    BY <2>1, EventTypes DEF RequestType
  <2>4. channel' \in Seq(Events)
    <3>1. CASE AskTarget(r)
      BY <3>1, <2>3 DEF AskTarget
    <3>2. CASE Report(r)
      BY <3>2, <2>3 DEF Report
    <3>. QED
      BY <1>9, <3>1, <3>2
  <2>. QED
    BY <1>9, <2>2, <2>4 DEF AskTarget, Report
<1>10. ASSUME NEW r \in Requests, StartSaving(r)
       PROVE  TypeOK'
  <2>1. files' \in [Files -> FileType]
    BY <1>10, BusyShape DEF StartSaving, FileType
  <2>2. req' \in [Requests -> RequestType]
    <3>1. req' = [req EXCEPT ![r] = [req[r] EXCEPT !.pc = "saving"]]
      BY <1>10 DEF StartSaving, Goto
    <3>2. [req[r] EXCEPT !.pc = "saving"] \in RequestType
      BY DEF RequestType, UploadStates
    <3>. QED
      BY <3>1, <3>2
  <2>. QED
    BY <1>10, <2>1, <2>2 DEF StartSaving
<1>11. ASSUME NEW r \in Requests, NEW outcome \in SaveOutcomes,
              BodySaved(r, outcome) \/ Settle(r, outcome)
       PROVE  TypeOK'
  <2>1. req' \in [Requests -> RequestType]
    <3>1. req' = [req EXCEPT ![r] = [req[r] EXCEPT !.pc = "reporting",
                                                   !.outcome = outcome]]
      BY <1>11 DEF BodySaved, Settle
    <3>2. [req[r] EXCEPT !.pc = "reporting", !.outcome = outcome] \in RequestType
      BY DEF RequestType, UploadStates
    <3>. QED
      BY <3>1, <3>2
  <2>2. placed' \subseteq Sessions \X Files
    BY <1>11, BusyShape DEF BodySaved, Settle, Place
  <2>. QED
    BY <1>11, <2>1, <2>2 DEF BodySaved, Settle
<1>12. ASSUME NEW r \in Requests, BodyHeld(r)
       PROVE  TypeOK'
  <2>1. req[r].file \in Files
    BY <1>12, BusyShape DEF BodyHeld
  <2>2. files' \in [Files -> FileType]
    BY <1>12, <2>1 DEF BodyHeld, FileType, FileStatuses
  <2>3. req' \in [Requests -> RequestType]
    BY <1>12, ConstantsAssumption
    DEF BodyHeld, RequestType, UploadStates, SaveOutcomes, IdleRequest
  <2>. QED
    BY <1>12, <2>2, <2>3 DEF BodyHeld, InSession
<1>13. ASSUME NEW r \in Requests, Settles(r)
       PROVE  TypeOK'
  <2>1. req[r].sid \in Sessions /\ req[r].file \in Files
    BY <1>13, SettlingFacts
  <2>4. /\ slot' \in {slot, FreeSlot}
        /\ files' \in [Files -> FileType]
        /\ idle' \in BOOLEAN
        /\ spawned' \subseteq Events
    BY <1>13, SettlingFacts
  <2>5. /\ placed' \subseteq Sessions \X Files
        /\ told' \subseteq Sessions \X Files
    BY <1>13, <2>1 DEF Settles, TargetRefused, Finish, DropUpload, Place
  <2>6. req' \in [Requests -> RequestType]
    BY <1>13, BlankTypes, SettlingFacts
  <2>. QED
    BY <1>13, <2>4, <2>5, <2>6 DEF Settles, TargetRefused, Finish, DropUpload
<1>14. ASSUME NEW r \in Requests, DropConfirm(r)
       PROVE  TypeOK'
  <2>1. req[r].sid \in Sessions /\ req[r].file \in Files
    BY <1>14 DEF RequestShape, DropConfirm, IdleRequest
  <2>2. placed' \subseteq Sessions \X Files
    BY <1>14, <2>1 DEF DropConfirm, Place
  <2>3. req' \in [Requests -> RequestType]
    BY <1>14, BlankTypes DEF DropConfirm
  <2>. QED
    BY <1>14, <2>2, <2>3 DEF DropConfirm
<1>15. ASSUME NEW s \in Sessions,
              CancelBySender(s) \/ CancelByReceiver(s) \/ Reap(s)
       PROVE  TypeOK'
  <2>1. NoFiles \in [Files -> FileType]
    BY ConstantsAssumption DEF NoFiles, BlankFile, FileType, FileStatuses
  <2>. QED
    BY <1>15, <2>1, EventTypes
    DEF CancelBySender, CancelByReceiver, Reap, DropSession, EndReasons
<1>16. ASSUME NEW s \in Sessions, Touch(s)
       PROVE  TypeOK'
  BY <1>16 DEF Touch
<1>17. CASE TenMinutes
  BY <1>17 DEF TenMinutes
<1>18. ASSUME NEW e \in spawned, Deliver(e)
       PROVE  TypeOK'
  BY <1>18 DEF Deliver
<1>19. CASE AppTakes
  BY <1>19 DEF AppTakes
<1>20. ASSUME NEW s \in Sessions, NEW answer \in AnsweredStates,
              AppDecides(s, answer)
       PROVE  TypeOK'
  BY <1>20 DEF AppDecides, PrepStates
<1>21. ASSUME NEW r \in Requests, NEW answer \in {"assigned", "rejected"},
              AppAnswers(r, answer)
       PROVE  TypeOK'
  BY <1>21 DEF AppAnswers, Goto, RequestType, UploadStates
<1>22. CASE UNCHANGED vars
  BY <1>22 DEF vars
<1>. QED
  BY <1>1, <1>2, <1>3, <1>4, <1>5, <1>6, <1>7, <1>8, <1>9, <1>10, <1>11,
     <1>12, <1>13, <1>14, <1>15, <1>16, <1>17, <1>18, <1>19, <1>20, <1>21,
     <1>22
  DEF Next, ServerNext, AppNext, PrepareNext, SenderNext, HandlerNext,
      DropHandler, RequestNext, Settles, PrepareWithdrawn, AnswerDropped, SenderGone

------------------------------------------------------------------------------
(* The actions, sorted by what they do to the slot, the files and the      *)
(* handlers.  Most invariants only look at these three.                    *)

\* A prepare-upload handler that has the slot is suspended between claiming
\* it and its answer.
Waits(s) == prep[s] \notin {"new", "done"}

\* At most a suspended prepare-upload handler goes on.
Quiet == /\ UNCHANGED <<slot, files, req>>
         /\ \/ prep' = prep
            \/ \E s \in Sessions : /\ Waits(s)
                                   /\ prep' \in [Sessions -> PrepStates]
                                   /\ Waits(s)'
                                   /\ \A t \in Sessions \ {s} : prep'[t] = prep[t]

Claims(s) == /\ slot = FreeSlot
             /\ slot' = PendingSlot(s)
             /\ prep[s] = "new"
             /\ prep' = [prep EXCEPT ![s] = "claimed"]
             /\ UNCHANGED <<files, req>>

\* A prepare-upload handler ends without a session.
Releases(s) == /\ Waits(s)
               /\ ClearPending(s)
               /\ prep' = [prep EXCEPT ![s] = "done"]
               /\ UNCHANGED <<files, req>>

\* A body whose digest is owed could not be parked.
HeldAside(r) ==
    /\ Deferred(r)
    /\ ~(InSession(req[r].sid) /\ files[req[r].file].status = "InProgress")

\* A busy handler goes on; at most the path of its file becomes known, and a
\* success is reported only after the file was placed.
Advance(r) ==
    /\ UNCHANGED <<slot, prep>>
    /\ files' \in [Files -> FileType]
    /\ \A f \in Files : /\ files'[f].status = files[f].status
                        /\ files'[f].parked = files[f].parked
                        /\ files'[f].attempts = files[f].attempts
    /\ req[r].kind \in {"upload", "confirm"}
    /\ \E new \in RequestType :
           /\ req' = [req EXCEPT ![r] = new]
           /\ new.kind = req[r].kind
           /\ new.sid = req[r].sid
           /\ new.file = req[r].file
           /\ new.kind = "upload" => new.pc \in UploadStates
           /\ new.kind = "confirm" => new.pc \in ConfirmStates
           /\ new.outcome = "Success" =>
                  req[r].outcome = "Success" \/ <<new.sid, new.file>> \in placed'
           /\ new.outcome = "Held" =>
                  req[r].outcome = "Held" \/ (req[r].kind = "upload" /\ HeldAside(r))

\* An upload handler parks its file and ends.
Parks(r) ==
    /\ UNCHANGED <<slot, prep>>
    /\ InSession(req[r].sid)
    /\ req[r].kind = "upload"
    /\ files[req[r].file].status = "InProgress"
    /\ files' = [files EXCEPT ![req[r].file].status = "AwaitingChecksum",
                              ![req[r].file].parked = TRUE]
    /\ req' = [req EXCEPT ![r] = IdleRequest]

Ends(s) == DropSession(s) /\ UNCHANGED <<prep, req>>

StepClass ==
    \/ Quiet
    \/ \E s \in Sessions : Claims(s) \/ Releases(s)
    \/ \E s \in Sessions, accepted \in SUBSET Files : SessionAccepted(s, accepted)
    \/ \E r \in Requests, s \in Sessions, f \in Files :
           BeginUpload(r, s, f) \/ BeginConfirm(r, s, f)
    \/ \E r \in Requests : Advance(r) \/ Parks(r) \/ Settles(r) \/ DropConfirm(r)
    \/ \E s \in Sessions : Ends(s)

\* A handler that only moves its control state, and perhaps its outcome.
LEMMA AdvanceFacts ==
    ASSUME TypeOK, NEW r \in Requests, NEW new \in RequestType,
           req[r].kind \in {"upload", "confirm"},
           new.kind = req[r].kind,
           new.sid = req[r].sid,
           new.file = req[r].file,
           new.kind = "upload" => new.pc \in UploadStates,
           new.kind = "confirm" => new.pc \in ConfirmStates,
           new.outcome = "Success" =>
               req[r].outcome = "Success" \/ <<new.sid, new.file>> \in placed',
           new.outcome = "Held" =>
               req[r].outcome = "Held" \/ (req[r].kind = "upload" /\ HeldAside(r)),
           req' = [req EXCEPT ![r] = new],
           UNCHANGED <<slot, prep, files>>
    PROVE  Advance(r)
BY DEF Advance, TypeOK

\* What a handler does by itself, or when its connection goes away.
Handles(r) == HandlerNext(r) \/ DropHandler(r)

LEMMA HandlerClasses ==
    ASSUME TypeOK, RequestShape, NEW r \in Requests, Handles(r)
    PROVE  Advance(r) \/ Parks(r) \/ Settles(r) \/ DropConfirm(r)
<1>1. ASSUME AskTarget(r)
      PROVE  Advance(r)
  <2> DEFINE new == [req[r] EXCEPT !.pc = "asked"]
  <2>1. req[r].kind = "upload"
    BY <1>1 DEF AskTarget, RequestShape, IdleRequest, ConfirmStates
  <2>2. /\ new \in RequestType
        /\ new.kind = req[r].kind
        /\ new.sid = req[r].sid
        /\ new.file = req[r].file
        /\ new.pc = "asked"
        /\ new.outcome = req[r].outcome
    BY DEF TypeOK, RequestType, UploadStates
  <2>3. req' = [req EXCEPT ![r] = new] /\ UNCHANGED <<slot, prep, files>>
    BY <1>1 DEF AskTarget, Goto
  <2> HIDE DEF new
  <2>. QED
    BY <2>1, <2>2, <2>3, AdvanceFacts DEF UploadStates
<1>2. ASSUME StartSaving(r)
      PROVE  Advance(r)
  <2> DEFINE new == [req[r] EXCEPT !.pc = "saving"]
  <2>1. req[r].kind = "upload" /\ req[r].file \in Files
    BY <1>2 DEF StartSaving, RequestShape, IdleRequest, ConfirmStates
  <2>2. /\ new \in RequestType
        /\ new.kind = req[r].kind
        /\ new.sid = req[r].sid
        /\ new.file = req[r].file
        /\ new.pc = "saving"
        /\ new.outcome = req[r].outcome
    BY DEF TypeOK, RequestType, UploadStates
  <2>3. req' = [req EXCEPT ![r] = new]
    BY <1>2 DEF StartSaving, Goto
  <2>4. /\ files' \in [Files -> FileType]
        /\ \A f \in Files : /\ files'[f].status = files[f].status
                            /\ files'[f].parked = files[f].parked
                            /\ files'[f].attempts = files[f].attempts
    BY <1>2, <2>1 DEF StartSaving, TypeOK, FileType
  <2> HIDE DEF new
  <2>. QED
    BY <1>2, <2>1, <2>2, <2>3, <2>4 DEF Advance, StartSaving, UploadStates
<1>3. ASSUME NEW outcome \in SaveOutcomes,
             BodySaved(r, outcome) \/ Settle(r, outcome)
      PROVE  Advance(r)
  <2> DEFINE new == [req[r] EXCEPT !.pc = "reporting", !.outcome = outcome]
  <2>1. req[r].kind \in {"upload", "confirm"}
    BY <1>3 DEF BodySaved, Settle, RequestShape, IdleRequest
  <2>2. /\ new \in RequestType
        /\ new.kind = req[r].kind
        /\ new.sid = req[r].sid
        /\ new.file = req[r].file
        /\ new.pc = "reporting"
        /\ new.outcome = outcome
    BY DEF TypeOK, RequestType, UploadStates
  <2>4. /\ outcome = "Success" => <<req[r].sid, req[r].file>> \in placed'
        /\ outcome # "Held"
    BY <1>3 DEF BodySaved, Settle, Place, PlainOutcomes
  <2>3. req' = [req EXCEPT ![r] = new] /\ UNCHANGED <<slot, prep, files>>
    BY <1>3 DEF BodySaved, Settle
  <2> HIDE DEF new
  <2>. QED
    BY <2>1, <2>2, <2>3, <2>4, AdvanceFacts DEF UploadStates, ConfirmStates
<1>4. ASSUME BodyHeld(r)
      PROVE  Advance(r) \/ Parks(r)
  <2>1. req[r].kind = "upload"
    BY <1>4 DEF BodyHeld, RequestShape, IdleRequest, ConfirmStates
  <2>2. CASE InSession(req[r].sid) /\ files[req[r].file].status = "InProgress"
    BY <1>4, <2>1, <2>2 DEF BodyHeld, Parks
  <2>3. CASE ~(InSession(req[r].sid) /\ files[req[r].file].status = "InProgress")
    <3> DEFINE new == [req[r] EXCEPT !.pc = "reporting", !.outcome = "Held"]
    <3>1. /\ new \in RequestType
          /\ new.kind = req[r].kind
          /\ new.sid = req[r].sid
          /\ new.file = req[r].file
          /\ new.pc = "reporting"
          /\ new.outcome = "Held"
      BY DEF TypeOK, RequestType, UploadStates, SaveOutcomes
    <3>2. req' = [req EXCEPT ![r] = new] /\ UNCHANGED <<slot, prep, files>>
      BY <1>4, <2>3 DEF BodyHeld
    <3>3. HeldAside(r)
      BY <1>4, <2>3 DEF BodyHeld, HeldAside
    <3> HIDE DEF new
    <3>. QED
      BY <2>1, <3>1, <3>2, <3>3, AdvanceFacts DEF UploadStates
  <2>. QED
    BY <2>2, <2>3
<1>5. ASSUME Report(r)
      PROVE  Advance(r)
  <2> DEFINE new == [req[r] EXCEPT !.pc = "finishing"]
  <2>1. req[r].kind \in {"upload", "confirm"}
    BY <1>5 DEF Report, RequestShape, IdleRequest
  <2>2. /\ new \in RequestType
        /\ new.kind = req[r].kind
        /\ new.sid = req[r].sid
        /\ new.file = req[r].file
        /\ new.pc = "finishing"
        /\ new.outcome = req[r].outcome
    BY DEF TypeOK, RequestType, UploadStates
  <2>3. req' = [req EXCEPT ![r] = new] /\ UNCHANGED <<slot, prep, files>>
    BY <1>5 DEF Report, Goto
  <2> HIDE DEF new
  <2>. QED
    BY <2>1, <2>2, <2>3, AdvanceFacts DEF UploadStates, ConfirmStates
<1>. QED
  BY <1>1, <1>2, <1>3, <1>4, <1>5 DEF Handles, HandlerNext, DropHandler, Settles

\* What is done by no handler.
Otherwise ==
    \/ Quiet
    \/ \E s \in Sessions : Claims(s) \/ Releases(s)
    \/ \E s \in Sessions, accepted \in SUBSET Files : SessionAccepted(s, accepted)
    \/ \E r \in Requests, s \in Sessions, f \in Files :
           BeginUpload(r, s, f) \/ BeginConfirm(r, s, f)
    \/ \E s \in Sessions : Ends(s)

LEMMA AnswerAdvances ==
    ASSUME TypeOK, RequestShape, NEW r \in Requests, NEW answer \in {"assigned", "rejected"},
           AppAnswers(r, answer)
    PROVE  Advance(r)
<1> DEFINE new == [req[r] EXCEPT !.pc = answer]
<1>1. req[r].kind = "upload"
  BY DEF AppAnswers, RequestShape, IdleRequest, ConfirmStates
<1>2. /\ new \in RequestType
      /\ new.kind = req[r].kind
      /\ new.sid = req[r].sid
      /\ new.file = req[r].file
      /\ new.pc \in UploadStates
      /\ new.outcome = req[r].outcome
  BY DEF TypeOK, RequestType, UploadStates
<1>3. req' = [req EXCEPT ![r] = new] /\ UNCHANGED <<slot, prep, files>>
  BY DEF AppAnswers, Goto
<1> HIDE DEF new
<1>. QED
  BY <1>1, <1>2, <1>3, AdvanceFacts

LEMMA OtherClasses ==
    ASSUME TypeOK, RequestShape, [Next]_vars
    PROVE  \/ \E r \in Requests : Handles(r)
           \/ \E r \in Requests, answer \in {"assigned", "rejected"} : AppAnswers(r, answer)
           \/ Otherwise
<1> USE DEF handlerVars, outcomeVars
<1>1. ASSUME NEW s \in Sessions, NEW ext \in FeatureSets, ClaimPending(s, ext)
      PROVE  Claims(s)
  BY <1>1 DEF ClaimPending, SlotIsFree, Claims
<1>2. ASSUME NEW s \in Sessions,
             \/ SessionRefused(s) \/ PrepareWithdrawn(s)
             \/ AnswerDropped(s) \/ SenderGone(s)
      PROVE  Releases(s)
  BY <1>2 DEF SessionRefused, PrepareWithdrawn, AnswerDropped, SenderGone,
              AbortPrepare, Releases, Waits, AnsweredStates, TypeOK
<1>3. ASSUME NEW s \in Sessions,
             CancelBySender(s) \/ CancelByReceiver(s) \/ Reap(s)
      PROVE  Ends(s)
  BY <1>3 DEF CancelBySender, CancelByReceiver, Reap, Ends
<1>4. ASSUME NEW s \in Sessions,
             \/ AskApplication(s)
             \/ \E answer \in AnsweredStates : AppDecides(s, answer)
      PROVE  Quiet
  <2>1. PICK p \in PrepStates \ {"new", "done"} : prep' = [prep EXCEPT ![s] = p]
    BY <1>4 DEF AskApplication, AppDecides, AnsweredStates, PrepStates
  <2>2. Waits(s) /\ UNCHANGED <<slot, files, req>>
    BY <1>4 DEF AskApplication, AppDecides, Waits
  <2>. QED
    BY <2>1, <2>2 DEF Quiet, Waits, TypeOK
<1>5. ASSUME \/ TenMinutes \/ AppTakes \/ UNCHANGED vars
             \/ \E e \in spawned : Deliver(e)
             \/ \E s \in Sessions : CancelPending(s) \/ Touch(s)
      PROVE  Quiet
  BY <1>5 DEF TenMinutes, AppTakes, Deliver, CancelPending, Touch, Quiet, vars
<1>6. ASSUME NEW s \in Sessions, PrepareNext(s) \/ SenderNext(s) \/ Reap(s)
      PROVE  Otherwise
  BY <1>1, <1>2, <1>3, <1>4, <1>5, <1>6 DEF Otherwise, PrepareNext, SenderNext
<1>7. ASSUME NEW r \in Requests, NEW s \in Sessions, NEW f \in Files, RequestNext(r, s, f)
      PROVE  Otherwise
  BY <1>7 DEF Otherwise, RequestNext
<1>8. CASE ServerNext
  BY <1>5, <1>6, <1>7, <1>8 DEF Otherwise, ServerNext, Handles
<1>9. CASE AppNext
  BY <1>3, <1>4, <1>5, <1>9 DEF Otherwise, AppNext
<1>. QED
  BY <1>5, <1>8, <1>9 DEF Otherwise, Next

LEMMA StepClasses ==
    ASSUME TypeOK, RequestShape, [Next]_vars
    PROVE  StepClass
BY OtherClasses, HandlerClasses, AnswerAdvances DEF StepClass, Otherwise

\* A handler record keeps its shape.
LEMMA RequestShapeStep ==
    ASSUME TypeOK, RequestShape, StepClass
    PROVE  RequestShape'
<1> USE DEF RequestShape
<1>1. ASSUME NEW r \in Requests, req' = [req EXCEPT ![r] = IdleRequest]
      PROVE  RequestShape'
  BY <1>1 DEF TypeOK
<1>2. ASSUME NEW r \in Requests, Advance(r)
      PROVE  RequestShape'
  BY <1>2 DEF Advance, TypeOK, IdleRequest
<1>3. ASSUME NEW r \in Requests, NEW s \in Sessions, NEW f \in Files,
             BeginUpload(r, s, f) \/ BeginConfirm(r, s, f)
      PROVE  RequestShape'
  BY <1>3 DEF BeginUpload, BeginConfirm, TypeOK, UploadStates, ConfirmStates
<1>4. ASSUME UNCHANGED req
      PROVE  RequestShape'
  BY <1>4
<1>. QED
  BY <1>1, <1>2, <1>3, <1>4, SettlingFacts
  DEF StepClass, Quiet, Claims, Releases, SessionAccepted, Parks, DropConfirm, Ends

\* A file returns to pending only through finalize_file, which looks at the
\* attempts, and enters pending with none.
LEMMA PendingStep ==
    ASSUME TypeOK, RequestShape, PendingHasAttemptLeft, StepClass
    PROVE  PendingHasAttemptLeft'
<1> USE DEF PendingHasAttemptLeft
<1>1. CASE UNCHANGED files
  BY <1>1
<1>2. ASSUME NEW r \in Requests, Advance(r)
      PROVE  PendingHasAttemptLeft'
  BY <1>2 DEF Advance
<1>3. ASSUME NEW s \in Sessions, NEW accepted \in SUBSET Files,
             SessionAccepted(s, accepted)
      PROVE  PendingHasAttemptLeft'
  BY <1>3, ConstantsAssumption
  DEF SessionAccepted, Activate, AcceptedFiles, BlankFile
<1>4. ASSUME NEW r \in Requests, NEW s \in Sessions, NEW f \in Files,
             BeginUpload(r, s, f) \/ BeginConfirm(r, s, f)
      PROVE  PendingHasAttemptLeft'
  <2>1. CASE BeginUpload(r, s, f)
    BY <2>1 DEF BeginUpload, TypeOK, FileType
  <2>2. CASE BeginConfirm(r, s, f)
    BY <2>2 DEF BeginConfirm, TypeOK, FileType
  <2>. QED
    BY <1>4, <2>1, <2>2
<1>5. ASSUME NEW r \in Requests, Parks(r)
      PROVE  PendingHasAttemptLeft'
  BY <1>5 DEF Parks, TypeOK, FileType
<1>6. ASSUME files' = NoFiles
      PROVE  PendingHasAttemptLeft'
  BY <1>6 DEF NoFiles, BlankFile
<1>7. ASSUME NEW r \in Requests, Settles(r)
      PROVE  PendingHasAttemptLeft'
  <2> DEFINE s == req[r].sid
             f == req[r].file
  <2>1. /\ s \in Sessions /\ f \in Files
        /\ \E outcome :
              \/ UNCHANGED files
              \/ files' = [files EXCEPT ![f] = SettledFile(s, files[f], outcome)]
              \/ files' = NoFiles
    BY <1>7, SettlingFacts
  <2>2. ASSUME NEW outcome,
               files' = [files EXCEPT ![f] = SettledFile(s, files[f], outcome)]
        PROVE  PendingHasAttemptLeft'
    <3>1. files[f] \in FileType
      BY <2>1 DEF TypeOK
    <3> DEFINE new == SettledFile(s, files[f], outcome)
    <3>2. /\ new.attempts = files[f].attempts
          /\ new.status = "Pending" => \/ files[f].attempts < MaxAttempts
                                       \/ files[f].status = "Pending"
      BY <3>1, SettledFileFacts DEF MayRetry
    <3>3. files'[f] = new /\ \A g \in Files \ {f} : files'[g] = files[g]
      BY <2>1, <2>2 DEF TypeOK
    <3> HIDE DEF new
    <3>. QED
      BY <2>1, <3>2, <3>3
  <2>. QED
    BY <1>1, <1>6, <2>1, <2>2
<1>. QED
  BY <1>1, <1>2, <1>3, <1>4, <1>5, <1>6, <1>7
  DEF StepClass, Quiet, Claims, Releases, DropConfirm, Ends, DropSession

------------------------------------------------------------------------------
(* The slot and the prepare-upload handlers.                               *)

\* Only the handler that holds the pending slot is suspended, and a session
\* that is active or worked on has its handler behind it.
LEMMA SlotDisciplineStep ==
    ASSUME TypeOK, RequestShape, SlotDiscipline, StepClass
    PROVE  SlotDiscipline'
<1> USE DEF SlotDiscipline, PendingSlotHeld, ActiveWasPrepared, IsActive,
            FreeSlot, PendingSlot, ActiveSlot
<1>1. CASE Quiet
  <2>1. CASE prep' = prep
    BY <1>1, <2>1 DEF Quiet
  <2>2. ASSUME NEW s \in Sessions,
               Waits(s), Waits(s)',
               \A t \in Sessions \ {s} : prep'[t] = prep[t]
        PROVE  SlotDiscipline'
    <3>1. \A t \in Sessions : /\ Waits(t)' <=> Waits(t)
                              /\ prep[t] = "done" => prep'[t] = "done"
      BY <2>2 DEF Waits
    <3>2. \A r \in Requests : req[r].sid \in Sessions \cup {NoSession}
      BY DEF TypeOK, RequestType
    <3>. QED
      BY <1>1, <3>1, <3>2 DEF Quiet, Waits
  <2>. QED
    BY <1>1, <2>1, <2>2 DEF Quiet
<1>2. ASSUME NEW s \in Sessions, Claims(s)
      PROVE  SlotDiscipline'
  BY <1>2 DEF Claims, TypeOK
<1>3. ASSUME NEW s \in Sessions, Releases(s)
      PROVE  SlotDiscipline'
  BY <1>3 DEF Releases, ClearPending, Waits, TypeOK
<1>4. ASSUME NEW s \in Sessions, NEW accepted \in SUBSET Files,
             SessionAccepted(s, accepted)
      PROVE  SlotDiscipline'
  BY <1>4 DEF SessionAccepted, Activate, TypeOK
<1>5. ASSUME NEW r \in Requests, NEW s \in Sessions, NEW f \in Files,
             BeginUpload(r, s, f) \/ BeginConfirm(r, s, f)
      PROVE  SlotDiscipline'
  BY <1>5 DEF BeginUpload, BeginConfirm, InSession, TypeOK
<1>6. ASSUME NEW r \in Requests, Advance(r)
      PROVE  SlotDiscipline'
  BY <1>6 DEF Advance, TypeOK
<1>7. ASSUME NEW r \in Requests,
             prep' = prep,
             \/ slot' = slot
             \/ slot' = FreeSlot /\ slot.kind = "Active",
             req' = [req EXCEPT ![r] = IdleRequest]
      PROVE  SlotDiscipline'
  BY <1>7 DEF IdleRequest, TypeOK
<1>8. ASSUME NEW r \in Requests, Settles(r)
      PROVE  /\ prep' = prep
             /\ \/ slot' = slot
                \/ slot' = FreeSlot /\ slot.kind = "Active"
             /\ req' = [req EXCEPT ![r] = IdleRequest]
  <2>1. prep' = prep
    BY <1>8 DEF Settles, TargetRefused, Finish, DropUpload
  <2>. QED
    BY <1>8, <2>1, SettlingFacts DEF InSession
<1>9. ASSUME NEW s \in Sessions, Ends(s)
      PROVE  SlotDiscipline'
  BY <1>9 DEF Ends, DropSession, InSession
<1>. QED
  BY <1>1, <1>2, <1>3, <1>4, <1>5, <1>6, <1>7, <1>8, <1>9
  DEF StepClass, Parks, DropConfirm

------------------------------------------------------------------------------
(* The active session has something left to do.                            *)

LEMMA ActiveIncompleteStep ==
    ASSUME TypeOK, RequestShape, ActiveIncomplete, StepClass
    PROVE  ActiveIncomplete'
<1> USE DEF ActiveIncomplete, FreeSlot, PendingSlot, ActiveSlot
<1>1. ASSUME UNCHANGED <<slot, files>>
      PROVE  ActiveIncomplete'
  BY <1>1
<1>2. ASSUME slot'.kind # "Active"
      PROVE  ActiveIncomplete'
  BY <1>2
<1>3. ASSUME NEW s \in Sessions, Claims(s) \/ Releases(s)
      PROVE  ActiveIncomplete'
  BY <1>3 DEF Claims, Releases, ClearPending
<1>4. ASSUME NEW s \in Sessions, NEW accepted \in SUBSET Files,
             SessionAccepted(s, accepted)
      PROVE  ActiveIncomplete'
  BY <1>4 DEF SessionAccepted, Activate, AcceptedFiles, BlankFile
<1>5. ASSUME NEW r \in Requests, NEW s \in Sessions, NEW f \in Files,
             BeginUpload(r, s, f) \/ BeginConfirm(r, s, f)
      PROVE  ActiveIncomplete'
  BY <1>5 DEF BeginUpload, BeginConfirm, Confirmable, TypeOK, FileType
<1>6. ASSUME NEW r \in Requests, Advance(r)
      PROVE  ActiveIncomplete'
  BY <1>6 DEF Advance
<1>7. ASSUME NEW r \in Requests, Parks(r)
      PROVE  ActiveIncomplete'
  BY <1>7 DEF Parks, TypeOK, FileType
<1>8. ASSUME NEW r \in Requests, Settles(r)
      PROVE  ActiveIncomplete'
  <2>1. CASE ~IsComplete(files') /\ files' \in [Files -> FileType]
    BY <2>1 DEF IsComplete, FileType, FileStatuses
  <2>. QED
    BY <1>1, <1>2, <1>8, <2>1, SettlingFacts
<1>. QED
  BY <1>1, <1>2, <1>3, <1>4, <1>5, <1>6, <1>7, <1>8
  DEF StepClass, Quiet, DropConfirm, Ends, DropSession

------------------------------------------------------------------------------
(* Who works on which file.                                                *)

\* A handler of a session works on one of its files, as an upload or as a
\* confirmation.
LEMMA WorkingShape ==
    ASSUME RequestShape, NEW r \in Requests, NEW s \in Sessions,
           NEW f \in Files, Working(r, s, f)
    PROVE  req[r].kind \in {"upload", "confirm"}
BY ConstantsAssumption DEF RequestShape, Working, IdleRequest

\* Only an upload finds its file in progress and only a confirmation finds it
\* awaiting its checksum and not parked.
LEMMA FreeToStart ==
    ASSUME RequestShape, Ownership,
           NEW s \in Sessions, NEW f \in Files, InSession(s),
           Startable(files[f]) \/ Confirmable(files[f])
    PROVE  \A r \in Requests : ~Working(r, s, f)
<1>1. SUFFICES ASSUME NEW r \in Requests, Working(r, s, f) PROVE FALSE
  OBVIOUS
<1>2. IsActive(s)
  BY DEF InSession, ActiveSlot, IsActive
<1>3. CASE req[r].kind = "upload"
  BY <1>1, <1>2, <1>3
  DEF Ownership, InProgressOwned, Startable, Confirmable
<1>4. CASE req[r].kind = "confirm"
  BY <1>1, <1>2, <1>4
  DEF Ownership, ConfirmHoldsFile, Startable, Confirmable, Working
<1>. QED
  BY <1>1, <1>3, <1>4, WorkingShape

\* When no session is active only OneOwner is left to show.
LEMMA OwnershipWhenFree ==
    ASSUME OneOwner', ParkedAwaits', slot'.kind # "Active"
    PROVE  Ownership'
BY DEF Ownership, InProgressOwned, ConfirmHoldsFile, IsActive

\* A handler that ends leaves the others to their files.
LEMMA OneOwnerAfterEnd ==
    ASSUME TypeOK, OneOwner, NEW r \in Requests,
           req' = [req EXCEPT ![r] = IdleRequest]
    PROVE  OneOwner'
BY ConstantsAssumption DEF OneOwner, Working, IdleRequest, TypeOK

LEMMA OwnershipStep ==
    ASSUME TypeOK, RequestShape, SlotDiscipline, Ownership, StepClass
    PROVE  Ownership'
<1> USE DEF Ownership, OneOwner, InProgressOwned, ConfirmHoldsFile, ParkedAwaits,
            Working, IsActive, FreeSlot, PendingSlot, ActiveSlot
<1>1. CASE UNCHANGED <<slot, files, req>>
  BY <1>1
<1>2. ASSUME UNCHANGED <<files, req>>, slot'.kind # "Active"
      PROVE  Ownership'
  BY <1>2
<1>3. ASSUME NEW s \in Sessions, Claims(s) \/ Releases(s)
      PROVE  Ownership'
  BY <1>1, <1>2, <1>3 DEF Claims, Releases, ClearPending
<1>4. ASSUME NEW s \in Sessions, NEW accepted \in SUBSET Files,
             SessionAccepted(s, accepted)
      PROVE  Ownership'
  <2>1. \A r \in Requests : req[r].sid # s
    BY <1>4, ConstantsAssumption
    DEF SessionAccepted, SlotDiscipline, ActiveWasPrepared
  <2>2. \A f \in Files : /\ files'[f].status \in {"Absent", "Pending"}
                         /\ files'[f].parked = FALSE
    BY <1>4 DEF SessionAccepted, Activate, AcceptedFiles, BlankFile
  <2>. QED
    BY <1>4, <2>1, <2>2 DEF SessionAccepted, Activate
<1>5. ASSUME NEW r \in Requests, NEW s \in Sessions, NEW f \in Files,
             BeginUpload(r, s, f)
      PROVE  Ownership'
  <2>1. \A q \in Requests : ~Working(q, s, f)
    BY <1>5, FreeToStart DEF BeginUpload
  <2>2. /\ files'[f].status = "InProgress"
        /\ files'[f].parked = FALSE
        /\ \A g \in Files \ {f} : files'[g] = files[g]
    BY <1>5 DEF BeginUpload, TypeOK, FileType
  <2>3. /\ req'[r].kind = "upload"
        /\ req'[r].sid = s
        /\ req'[r].file = f
        /\ \A q \in Requests \ {r} : req'[q] = req[q]
        /\ req[r] = IdleRequest
    BY <1>5 DEF BeginUpload, Fresh, TypeOK
  <2>4. slot' = slot /\ slot = ActiveSlot(s)
    BY <1>5 DEF BeginUpload, InSession
  <2>5. OneOwner'
    BY <2>1, <2>3
  <2>6. InProgressOwned'
    BY <2>1, <2>2, <2>3, <2>4, ConstantsAssumption DEF IdleRequest
  <2>7. \A q \in Requests : req[q].kind = "confirm" => req[q].file \in Files
    BY DEF RequestShape, IdleRequest
  <2>8. ConfirmHoldsFile' /\ ParkedAwaits'
    BY <2>1, <2>2, <2>3, <2>4, <2>7
  <2>. QED
    BY <2>5, <2>6, <2>8
<1>6. ASSUME NEW r \in Requests, NEW s \in Sessions, NEW f \in Files,
             BeginConfirm(r, s, f)
      PROVE  Ownership'
  <2>1. \A q \in Requests : ~Working(q, s, f)
    BY <1>6, FreeToStart DEF BeginConfirm
  <2>2. /\ files[f].status = "AwaitingChecksum"
        /\ files'[f].status = "AwaitingChecksum"
        /\ files'[f].parked = FALSE
        /\ \A g \in Files \ {f} : files'[g] = files[g]
    BY <1>6 DEF BeginConfirm, Confirmable, TypeOK, FileType
  <2>3. /\ req'[r].kind = "confirm"
        /\ req'[r].sid = s
        /\ req'[r].file = f
        /\ \A q \in Requests \ {r} : req'[q] = req[q]
        /\ req[r] = IdleRequest
    BY <1>6 DEF BeginConfirm, Fresh, TypeOK
  <2>4. slot' = slot /\ slot = ActiveSlot(s)
    BY <1>6 DEF BeginConfirm, InSession
  <2>5. OneOwner'
    BY <2>1, <2>3
  <2>6. InProgressOwned'
    BY <2>1, <2>2, <2>3, <2>4, ConstantsAssumption DEF IdleRequest
  <2>7. \A q \in Requests : req[q].kind = "confirm" => req[q].file \in Files
    BY DEF RequestShape, IdleRequest
  <2>8. ConfirmHoldsFile' /\ ParkedAwaits'
    BY <2>1, <2>2, <2>3, <2>4, <2>7
  <2>. QED
    BY <2>5, <2>6, <2>8
<1>7. ASSUME NEW r \in Requests, Advance(r)
      PROVE  Ownership'
  <2>1. \A q \in Requests : /\ req'[q].kind = req[q].kind
                            /\ req'[q].sid = req[q].sid
                            /\ req'[q].file = req[q].file
    BY <1>7 DEF Advance, TypeOK
  <2>2. \A q \in Requests : req[q].kind = "confirm" => req[q].file \in Files
    BY DEF RequestShape, IdleRequest
  <2>3. slot' = slot /\ \A f \in Files : /\ files'[f].status = files[f].status
                                         /\ files'[f].parked = files[f].parked
    BY <1>7 DEF Advance
  <2>. QED
    BY <2>1, <2>2, <2>3
<1>8. ASSUME NEW r \in Requests, Parks(r)
      PROVE  Ownership'
  <2> DEFINE s == req[r].sid
             f == req[r].file
  <2>1. s \in Sessions /\ f \in Files
    BY <1>8 DEF Parks, RequestShape, IdleRequest
  <2>2. /\ files'[f].status = "AwaitingChecksum"
        /\ \A g \in Files \ {f} : files'[g] = files[g]
    BY <1>8, <2>1 DEF Parks, TypeOK, FileType
  <2>3. /\ \A q \in Requests \ {r} : req'[q] = req[q]
        /\ req'[r] = IdleRequest
        /\ slot' = slot
    BY <1>8 DEF Parks, TypeOK
  <2>4. \A q \in Requests \ {r} : ~Working(q, s, f)
    BY <2>1
  <2>5. OneOwner'
    BY <1>8, OneOwnerAfterEnd DEF Parks
  <2>6. IsActive(s)
    BY <1>8 DEF Parks, InSession
  <2>7. InProgressOwned'
    BY <2>1, <2>2, <2>3, <2>4, <2>6, ConstantsAssumption DEF IdleRequest
  <2>8. ConfirmHoldsFile' /\ ParkedAwaits'
    BY <2>1, <2>2, <2>3, <2>4, <2>6 DEF IdleRequest, RequestShape
  <2>. QED
    BY <2>5, <2>7, <2>8
<1>9. ASSUME NEW r \in Requests, Settles(r)
      PROVE  Ownership'
  <2> DEFINE s == req[r].sid
             f == req[r].file
  <2>1. /\ s \in Sessions
        /\ f \in Files
        /\ req' = [req EXCEPT ![r] = IdleRequest]
    BY <1>9, SettlingFacts
  <2>2. OneOwner'
    BY <2>1, OneOwnerAfterEnd
  <2>3. /\ \A q \in Requests \ {r} : req'[q] = req[q]
        /\ req'[r] = IdleRequest
    BY <2>1 DEF TypeOK
  <2>4. ASSUME ~InSession(s), UNCHANGED <<slot, files>>
        PROVE  Ownership'
    <3>1. InProgressOwned'
      BY <2>1, <2>3, <2>4, ConstantsAssumption DEF IdleRequest, InSession
    <3>2. ConfirmHoldsFile' /\ ParkedAwaits'
      BY <2>3, <2>4 DEF IdleRequest
    <3>. QED
      BY <2>2, <3>1, <3>2
  <2>5. ASSUME NEW outcome, InSession(s), slot' = slot,
               files' = [files EXCEPT ![f] = SettledFile(s, files[f], outcome)]
        PROVE  Ownership'
    <3> DEFINE new == SettledFile(s, files[f], outcome)
    <3>1. files[f] \in FileType
      BY <2>1 DEF TypeOK
    <3>2. /\ new.status \notin {"InProgress", "AwaitingChecksum"}
          /\ ~new.parked
      BY <3>1, SettledFileFacts, <2>1 DEF Unsettled
    <3>3. files'[f] = new /\ \A g \in Files \ {f} : files'[g] = files[g]
      BY <2>1, <2>5 DEF TypeOK
    <3> HIDE DEF new
    <3>4. \A q \in Requests \ {r} : ~Working(q, s, f)
      BY <2>1
    <3>5. IsActive(s)
      BY <2>5 DEF InSession
    <3>6. InProgressOwned'
      BY <2>1, <2>3, <2>5, <3>2, <3>3, <3>4, <3>5, ConstantsAssumption
      DEF IdleRequest
    <3>7. ConfirmHoldsFile' /\ ParkedAwaits'
      BY <2>1, <2>3, <2>5, <3>2, <3>3, <3>4, <3>5 DEF IdleRequest, RequestShape
    <3>. QED
      BY <2>2, <3>6, <3>7
  <2>6. ASSUME slot' = FreeSlot, files' = NoFiles
        PROVE  Ownership'
    BY <2>2, <2>6, OwnershipWhenFree DEF NoFiles, BlankFile
  <2>. QED
    BY <1>9, <2>4, <2>5, <2>6, SettlingFacts
<1>10. ASSUME NEW r \in Requests, DropConfirm(r)
       PROVE  Ownership'
  <2>1. OneOwner'
    BY <1>10, OneOwnerAfterEnd DEF DropConfirm
  <2>2. /\ \A q \in Requests \ {r} : req'[q] = req[q]
        /\ req'[r] = IdleRequest
        /\ req[r].kind = "confirm"
        /\ UNCHANGED <<slot, files>>
    BY <1>10 DEF DropConfirm, TypeOK
  <2>3. InProgressOwned'
    BY <2>2, ConstantsAssumption DEF IdleRequest
  <2>4. ConfirmHoldsFile' /\ ParkedAwaits'
    BY <2>2 DEF IdleRequest
  <2>. QED
    BY <2>1, <2>3, <2>4
<1>11. ASSUME NEW s \in Sessions, Ends(s)
       PROVE  Ownership'
  BY <1>11, OwnershipWhenFree DEF Ends, DropSession, NoFiles, BlankFile
<1>. QED
  BY <1>1, <1>3, <1>4, <1>5, <1>6, <1>7, <1>8, <1>9, <1>10, <1>11
  DEF StepClass, Quiet

------------------------------------------------------------------------------
(* What is in place, and what the senders were told.                       *)

\* Nothing is taken out of its place again, only a handler that finishes tells
\* its sender 200, and the features of a session are fixed when it claims the
\* slot.
LEMMA OutcomeFrames ==
    ASSUME [Next]_vars
    PROVE  /\ placed \subseteq placed'
           /\ told' = told \/ \E r \in Requests : Finish(r)
           /\ \/ features' = features
              \/ \E s \in Sessions, ext \in FeatureSets : ClaimPending(s, ext)
<1> USE DEF handlerVars, outcomeVars
<1>1. ASSUME NEW s \in Sessions, PrepareNext(s) \/ SenderNext(s)
      PROVE  /\ placed \subseteq placed'
             /\ told' = told
             /\ \/ features' = features
                \/ \E ext \in FeatureSets : ClaimPending(s, ext)
  BY <1>1 DEF PrepareNext, SenderNext, ClaimPending, AskApplication,
     SessionAccepted, SessionRefused, PrepareWithdrawn, AnswerDropped,
     SenderGone, AbortPrepare, CancelPending, CancelBySender, Touch
<1>2. ASSUME NEW r \in Requests, HandlerNext(r) \/ DropHandler(r)
      PROVE  /\ placed \subseteq placed'
             /\ told' = told \/ Finish(r)
             /\ features' = features
  BY <1>2 DEF HandlerNext, DropHandler, AskTarget, StartSaving, TargetRefused,
     BodySaved, BodyHeld, Settle, Report, Finish, DropUpload, DropConfirm, Place
<1>3. ASSUME \/ \E r \in Requests, s \in Sessions, f \in Files : RequestNext(r, s, f)
             \/ TenMinutes
             \/ \E s \in Sessions : Reap(s)
             \/ \E e \in spawned : Deliver(e)
             \/ AppNext
             \/ UNCHANGED vars
      PROVE  UNCHANGED <<placed, told, features>>
  BY <1>3 DEF RequestNext, BeginUpload, BeginConfirm, TenMinutes, Reap, Deliver,
     AppNext, AppTakes, AppDecides, AppAnswers, CancelByReceiver, vars
<1>. QED
  BY <1>1, <1>2, <1>3 DEF Next, ServerNext

LEMMA SuccessIsPlacedStep ==
    ASSUME TypeOK, RequestShape, SuccessIsPlaced, StepClass, placed \subseteq placed'
    PROVE  SuccessIsPlaced'
<1> USE DEF SuccessIsPlaced, IsActive, FreeSlot, PendingSlot, ActiveSlot
<1>1. ASSUME UNCHANGED <<files, req>>,
             slot' = slot \/ slot'.kind # "Active"
      PROVE  SuccessIsPlaced'
  BY <1>1
<1>2. ASSUME NEW s \in Sessions, Claims(s) \/ Releases(s)
      PROVE  SuccessIsPlaced'
  BY <1>1, <1>2 DEF Claims, Releases, ClearPending
<1>3. ASSUME NEW s \in Sessions, NEW accepted \in SUBSET Files,
             SessionAccepted(s, accepted)
      PROVE  SuccessIsPlaced'
  BY <1>3 DEF SessionAccepted, Activate, AcceptedFiles, BlankFile
<1>4. ASSUME NEW r \in Requests, NEW s \in Sessions, NEW f \in Files,
             BeginUpload(r, s, f) \/ BeginConfirm(r, s, f)
      PROVE  SuccessIsPlaced'
  <2>1. /\ \A q \in Requests \ {r} : req'[q] = req[q]
        /\ req'[r].outcome = "none"
    BY <1>4 DEF BeginUpload, BeginConfirm, TypeOK
  <2>2. \A g \in Files : files'[g].status = "Finished" => files[g].status = "Finished"
    <3>1. CASE BeginUpload(r, s, f)
      BY <3>1 DEF BeginUpload, TypeOK, FileType
    <3>2. CASE BeginConfirm(r, s, f)
      BY <3>2 DEF BeginConfirm, TypeOK, FileType
    <3>. QED
      BY <1>4, <3>1, <3>2
  <2>. QED
    BY <1>4, <2>1, <2>2 DEF BeginUpload, BeginConfirm
<1>5. ASSUME NEW r \in Requests, Advance(r)
      PROVE  SuccessIsPlaced'
  BY <1>5 DEF Advance, TypeOK
<1>6. ASSUME NEW r \in Requests, Parks(r)
      PROVE  SuccessIsPlaced'
  <2>1. \A g \in Files : files'[g].status = "Finished" => files[g].status = "Finished"
    BY <1>6 DEF Parks, TypeOK, FileType
  <2>. QED
    BY <1>6, <2>1 DEF Parks, IdleRequest, TypeOK
<1>7. ASSUME NEW r \in Requests, Settles(r)
      PROVE  SuccessIsPlaced'
  <2> DEFINE s == req[r].sid
             f == req[r].file
  <2>1. /\ s \in Sessions
        /\ f \in Files
        /\ req' = [req EXCEPT ![r] = IdleRequest]
    BY <1>7, SettlingFacts
  <2>2. \A q \in Requests : req'[q].outcome = "Success" => req'[q] = req[q]
    BY <2>1 DEF TypeOK, IdleRequest
  <2>3. ASSUME NEW outcome, InSession(s), slot' = slot,
               outcome = "Success" => req[r].outcome = "Success",
               files' = [files EXCEPT ![f] = SettledFile(s, files[f], outcome)]
        PROVE  SuccessIsPlaced'
    <3> DEFINE new == SettledFile(s, files[f], outcome)
    <3>1. files[f] \in FileType
      BY <2>1 DEF TypeOK
    <3>2. new.status = "Finished" =>
              req[r].outcome = "Success" \/ files[f].status = "Finished"
      BY <2>3, <3>1, SettledFileFacts
    <3>3. files'[f] = new /\ \A g \in Files \ {f} : files'[g] = files[g]
      BY <2>1, <2>3 DEF TypeOK
    <3> HIDE DEF new
    <3>. QED
      BY <2>1, <2>2, <2>3, <3>2, <3>3 DEF InSession
  <2>4. ASSUME UNCHANGED <<slot, files>> \/ slot' = FreeSlot
        PROVE  SuccessIsPlaced'
    BY <2>2, <2>4
  <2>. QED
    BY <1>7, <2>3, <2>4, SettlingFacts
<1>8. ASSUME NEW r \in Requests, DropConfirm(r)
      PROVE  SuccessIsPlaced'
  BY <1>8 DEF DropConfirm, TypeOK, IdleRequest
<1>9. ASSUME NEW s \in Sessions, Ends(s)
      PROVE  SuccessIsPlaced'
  BY <1>1, <1>9 DEF Ends, DropSession
<1>. QED
  BY <1>1, <1>2, <1>3, <1>4, <1>5, <1>6, <1>7, <1>8, <1>9 DEF StepClass, Quiet

\* A session whose prepare-upload handler is done does not become active.
LEMMA NoRevival ==
    ASSUME TypeOK, RequestShape, StepClass, NEW s \in Sessions, prep[s] = "done"
    PROVE  /\ IsActive(s)' => IsActive(s)
           /\ prep'[s] = "done"
<1> USE DEF IsActive, FreeSlot, PendingSlot, ActiveSlot
<1>1. CASE Quiet
  BY <1>1 DEF Quiet, Waits
<1>2. ASSUME NEW t \in Sessions, Claims(t) \/ Releases(t)
      PROVE  /\ IsActive(s)' => IsActive(s)
             /\ prep'[s] = "done"
  BY <1>2 DEF Claims, Releases, Waits, ClearPending, TypeOK
<1>3. ASSUME NEW t \in Sessions, NEW accepted \in SUBSET Files,
             SessionAccepted(t, accepted)
      PROVE  /\ IsActive(s)' => IsActive(s)
             /\ prep'[s] = "done"
  BY <1>3 DEF SessionAccepted, Activate, TypeOK
<1>4. ASSUME prep' = prep,
             \/ slot' = slot
             \/ slot' = FreeSlot
      PROVE  /\ IsActive(s)' => IsActive(s)
             /\ prep'[s] = "done"
  BY <1>4
<1>5. ASSUME NEW r \in Requests, Settles(r)
      PROVE  /\ prep' = prep
             /\ \/ slot' = slot
                \/ slot' = FreeSlot
  <2>1. prep' = prep
    BY <1>5 DEF Settles, TargetRefused, Finish, DropUpload
  <2>. QED
    BY <1>5, <2>1, SettlingFacts
<1>. QED
  BY <1>1, <1>2, <1>3, <1>4, <1>5
  DEF StepClass, BeginUpload, BeginConfirm, Advance, Parks, DropConfirm, Ends,
      DropSession

\* The features of a session whose handler is done stay as they are.
LEMMA FeaturesStay ==
    ASSUME TypeOK, [Next]_vars, NEW s \in Sessions, prep[s] = "done"
    PROVE  features'[s] = features[s]
BY OutcomeFrames DEF ClaimPending, TypeOK

LEMMA HeldStep ==
    ASSUME TypeOK, RequestShape, SlotDiscipline, Ownership, HeldIsOver,
           StepClass, [Next]_vars
    PROVE  HeldIsOver'
<1> SUFFICES ASSUME NEW q \in Requests, req'[q].outcome = "Held"
             PROVE  Deferred(q)' /\ ~IsActive(req[q].sid)'
  BY DEF HeldIsOver
<1> DEFINE t == req[q].sid
<1>1. ASSUME req[q].outcome = "Held" \/ (req[q].kind = "upload" /\ HeldAside(q)),
             req'[q].sid = t, req'[q].file = req[q].file
      PROVE  Deferred(q)' /\ ~IsActive(req[q].sid)'
  <2>1. req[q].kind = "upload" => req[q].file \in Files
    BY DEF RequestShape, IdleRequest
  <2>2. t \in Sessions /\ prep[t] = "done"
    BY <1>1, ConstantsAssumption
    DEF RequestShape, IdleRequest, SlotDiscipline, ActiveWasPrepared
  <2>3. Deferred(q) /\ ~IsActive(t)
    BY <1>1, <2>1, <2>2
    DEF HeldIsOver, HeldAside, Ownership, InProgressOwned, Working, IsActive,
        InSession, ActiveSlot
  <2>4. features'[t] = features[t]
    BY <2>2, FeaturesStay
  <2>5. slot' # [kind |-> "Active", sid |-> t]
    BY <2>2, <2>3, NoRevival DEF IsActive
  <2>. QED
    BY <1>1, <2>3, <2>4, <2>5 DEF Deferred, IsActive
<1>2. CASE UNCHANGED req
  BY <1>1, <1>2
<1>3. ASSUME NEW r \in Requests, req' = [req EXCEPT ![r] = IdleRequest]
      PROVE  Deferred(q)' /\ ~IsActive(req[q].sid)'
  BY <1>1, <1>3 DEF TypeOK, IdleRequest
<1>4. ASSUME NEW r \in Requests, NEW s \in Sessions, NEW f \in Files,
             BeginUpload(r, s, f) \/ BeginConfirm(r, s, f)
      PROVE  Deferred(q)' /\ ~IsActive(req[q].sid)'
  BY <1>1, <1>4 DEF BeginUpload, BeginConfirm, TypeOK
<1>5. ASSUME NEW r \in Requests, Advance(r)
      PROVE  Deferred(q)' /\ ~IsActive(req[q].sid)'
  BY <1>1, <1>5 DEF Advance, TypeOK
<1>. QED
  BY <1>2, <1>3, <1>4, <1>5, SettlingFacts
  DEF StepClass, Quiet, Claims, Releases, SessionAccepted, Parks, DropConfirm, Ends

\* A sender is told 200 only by a handler that finishes.
LEMMA ToldStep ==
    ASSUME TypeOK, RequestShape, SlotDiscipline, Outcomes, StepClass, [Next]_vars
    PROVE  ToldWasPrepared' /\ ToldIsPlacedOrHeld'
<1> SUFFICES ASSUME NEW s \in Sessions, NEW f \in Files, <<s, f>> \in told'
             PROVE  /\ prep'[s] = "done"
                    /\ <<s, f>> \notin placed' =>
                           /\ "stream" \in features'[s]
                           /\ f \notin Digested
                           /\ ~IsActive(s)'
  BY DEF ToldWasPrepared, ToldIsPlacedOrHeld
<1>1. prep[s] = "done"
  <2>1. CASE <<s, f>> \in told
    BY <2>1 DEF Outcomes, ToldWasPrepared
  <2>2. ASSUME <<s, f>> \notin told, NEW r \in Requests, Finish(r)
        PROVE  prep[s] = "done"
    BY <2>2, ConstantsAssumption
    DEF Finish, SlotDiscipline, ActiveWasPrepared
  <2>. QED
    BY <2>1, <2>2, OutcomeFrames
<1>2. <<s, f>> \notin placed =>
          "stream" \in features[s] /\ f \notin Digested /\ ~IsActive(s)
  <2>1. CASE <<s, f>> \in told
    BY <2>1 DEF Outcomes, ToldIsPlacedOrHeld
  <2>2. ASSUME <<s, f>> \notin told, NEW r \in Requests, Finish(r)
        PROVE  <<s, f>> \notin placed =>
                   "stream" \in features[s] /\ f \notin Digested /\ ~IsActive(s)
    <3>1. /\ s = req[r].sid
          /\ f = req[r].file
          /\ req[r].outcome \in {"Success", "Held"}
      BY <2>2 DEF Finish, AnsweredOk
    <3>. QED
      BY <3>1 DEF Outcomes, SuccessIsPlaced, HeldIsOver, Deferred
  <2>. QED
    BY <2>1, <2>2, OutcomeFrames
<1>3. features'[s] = features[s]
  BY <1>1, FeaturesStay
<1>4. prep'[s] = "done" /\ (IsActive(s)' => IsActive(s))
  BY <1>1, NoRevival
<1>. QED
  BY <1>2, <1>3, <1>4, OutcomeFrames

------------------------------------------------------------------------------
(* The invariant is inductive.                                             *)

LEMMA InvInit == Init => IInv
<1> SUFFICES ASSUME Init PROVE IInv
  OBVIOUS
<1> USE DEF Init, FreeSlot, IdleRequest, NoFiles, BlankFile, IsActive
<1>1. TypeOK
  BY TypeInit
<1>2. RequestShape /\ PendingHasAttemptLeft /\ ActiveIncomplete
  BY DEF RequestShape, PendingHasAttemptLeft, ActiveIncomplete
<1>3. SlotDiscipline
  BY DEF SlotDiscipline, PendingSlotHeld, PendingSlot, ActiveWasPrepared
<1>4. Ownership
  BY ConstantsAssumption
  DEF Ownership, OneOwner, Working, InProgressOwned, ConfirmHoldsFile, ParkedAwaits
<1>5. Outcomes
  BY DEF Outcomes, SuccessIsPlaced, HeldIsOver, ToldWasPrepared, ToldIsPlacedOrHeld
<1>. QED
  BY <1>1, <1>2, <1>3, <1>4, <1>5 DEF IInv

LEMMA InvStep == IInv /\ [Next]_vars => IInv'
<1> SUFFICES ASSUME IInv, [Next]_vars PROVE IInv'
  OBVIOUS
<1> USE DEF IInv
<1>1. StepClass
  BY StepClasses
<1>2. TypeOK'
  BY TypeStep
<1>3. RequestShape'
  BY <1>1, RequestShapeStep
<1>4. PendingHasAttemptLeft'
  BY <1>1, PendingStep
<1>5. SlotDiscipline'
  BY <1>1, SlotDisciplineStep
<1>6. Ownership'
  BY <1>1, OwnershipStep
<1>7. ActiveIncomplete'
  BY <1>1, ActiveIncompleteStep
<1>8. SuccessIsPlaced'
  BY <1>1, OutcomeFrames, SuccessIsPlacedStep DEF Outcomes
<1>9. HeldIsOver'
  BY <1>1, HeldStep DEF Outcomes
<1>10. ToldWasPrepared' /\ ToldIsPlacedOrHeld'
  BY <1>1, ToldStep
<1>. QED
  BY <1>2, <1>3, <1>4, <1>5, <1>6, <1>7, <1>8, <1>9, <1>10 DEF Outcomes

\* The inductive invariant holds in every reachable state.
THEOREM Invariance == Spec => []IInv
BY InvInit, InvStep, PTL DEF Spec

\* Every variable keeps its shape; in particular no file is attempted more than
\* MAX_UPLOAD_ATTEMPTS times.
THEOREM TypeCorrect == Spec => []TypeOK
BY Invariance, PTL DEF IInv

\* A file that waits for another upload still has an attempt left.
THEOREM AttemptsBounded == Spec => []PendingHasAttemptLeft
BY Invariance, PTL DEF IInv

\* No two handlers ever work on the same file of a session.
THEOREM SingleOwner == Spec => []OneOwner
BY Invariance, PTL DEF IInv, Ownership

\* The files in progress are exactly those with a live upload handler.
THEOREM UploadsOwned == Spec => []InProgressOwned
BY Invariance, PTL DEF IInv, Ownership

\* A file whose digest is being settled is neither confirmed a second time nor
\* uploaded again meanwhile.
THEOREM ConfirmationsHold == Spec => []ConfirmHoldsFile
BY Invariance, PTL DEF IInv, Ownership

\* No file is ever in two hands, and none is without the handler its status claims
\* (the three theorems above together).
THEOREM FilesOwned == Spec => []FileOwnership
BY Invariance, SingleOwner, UploadsOwned, ConfirmationsHold, PTL DEF FileOwnership

\* An active session has a file that is not settled.
THEOREM SessionsComplete == Spec => []ActiveIncomplete
BY Invariance, PTL DEF IInv

\* The slot is pending exactly while the handler that claimed it is suspended.
THEOREM PendingOwned == Spec => []PendingSlotHeld
BY Invariance, PTL DEF IInv, SlotDiscipline

\* A file that counts, or is reported, as received is in its place.
THEOREM ReceivedInPlace == Spec => []SuccessIsPlaced
BY Invariance, PTL DEF IInv, Outcomes

\* A sender that was told 200 has its file in place, or owes a digest to a
\* session that is over.
THEOREM ToldHonestly == Spec => []ToldIsPlacedOrHeld
BY Invariance, PTL DEF IInv, Outcomes

------------------------------------------------------------------------------
(* The order of what the application hears: the end of a session comes     *)
(* after the results of its files.                                         *)

\* What a task brings late is the interruption of a dropped upload.
OnlyCutSpawned ==
    \A e \in spawned : e.type = "FileUploadResult" => e.outcome = "Interrupted"

\* No one works for the session any more and no one ever will.
IsOver(s) == /\ prep[s] = "done"
             /\ ~IsActive(s)
             /\ \A r \in Requests : req[r].sid # s

EndedIsOver == \A s \in Sessions : EndOf(s) \in Queued \cup spawned => IsOver(s)

\* A result that must not come after the end of its session.
IsLate(e, s) == /\ e.type = "FileUploadResult"
                /\ e.sid = s
                /\ e.outcome # "Interrupted"

EndInOrder ==
    \A s \in Sessions, i, j \in 1 .. Len(channel) :
        i < j /\ channel[i] = EndOf(s) => ~IsLate(channel[j], s)

EndInv == OnlyCutSpawned /\ EndedIsOver /\ EndInOrder

\* What a step may do to the events under way: spawn some, append one of a handler
\* at work or one that was spawned before, or take the first.
SpawnsFairly ==
    \A e \in spawned' \ spawned :
        /\ e.type = "FileUploadResult" => e.outcome = "Interrupted"
        /\ \A s \in Sessions : e = EndOf(s) => IsOver(s)'
MessageStep ==
    \/ channel' = channel /\ SpawnsFairly
    \/ \E e \in Events :
           /\ channel' = Append(channel, e)
           /\ spawned' = spawned
           /\ e.type # "SessionEnd"
           /\ \A s \in Sessions : IsLate(e, s) => \E r \in Requests : req[r].sid = s
    \/ \E e \in spawned : channel' = Append(channel, e) /\ spawned' = spawned \ {e}
    \/ channel # <<>> /\ channel' = Tail(channel) /\ spawned' = spawned

\* Appending to the channel.
LEMMA AppendQueued ==
    ASSUME TypeOK, NEW e \in Events, channel' = Append(channel, e)
    PROVE  /\ Queued' = Queued \cup {e}
           /\ Len(channel) \in Nat
           /\ \A i \in 1 .. Len(channel') :
                  \/ i \in 1 .. Len(channel) /\ channel'[i] = channel[i]
                  \/ i = Len(channel') /\ channel'[i] = e
<1>1. channel \in Seq(Events)
  BY DEF TypeOK
<1>2. /\ Len(channel') = Len(channel) + 1
      /\ \A i \in 1 .. Len(channel) : channel'[i] = channel[i]
      /\ channel'[Len(channel) + 1] = e
      /\ Len(channel) \in Nat
  BY <1>1
<1>3. \A x \in Queued' : x \in Queued \cup {e}
  <2> SUFFICES ASSUME NEW i \in 1 .. Len(channel') PROVE channel'[i] \in Queued \cup {e}
    BY DEF Queued
  <2> QED BY <1>2 DEF Queued
<1>4. \A x \in Queued \cup {e} : x \in Queued'
  <2>1. ASSUME NEW i \in 1 .. Len(channel) PROVE channel[i] \in Queued'
    BY <1>2 DEF Queued
  <2>2. e \in Queued'
    BY <1>2 DEF Queued
  <2> QED BY <2>1, <2>2 DEF Queued
<1> QED BY <1>2, <1>3, <1>4

\* Taking the first event.
LEMMA TailShifts ==
    ASSUME TypeOK, channel # <<>>, channel' = Tail(channel)
    PROVE  /\ Queued' \subseteq Queued
           /\ \A i \in 1 .. Len(channel') :
                  i + 1 \in 1 .. Len(channel) /\ channel'[i] = channel[i + 1]
<1>1. channel \in Seq(Events)
  BY DEF TypeOK
<1>2. \A i \in 1 .. Len(channel') :
          i + 1 \in 1 .. Len(channel) /\ channel'[i] = channel[i + 1]
  BY <1>1
<1> QED BY <1>2 DEF Queued

LEMMA EndInvSuffices ==
    ASSUME EndInv
    PROVE  EndIsLast
BY DEF EndInv, OnlyCutSpawned, EndedIsOver, EndInOrder, IsOver, IsLate, EndIsLast

\* Such steps keep the order, as long as no session that is over comes back.
LEMMA EndInvKept ==
    ASSUME TypeOK, EndInv, MessageStep, \A s \in Sessions : IsOver(s) => IsOver(s)'
    PROVE  EndInv'
<1>1. CASE channel' = channel /\ SpawnsFairly
  <2>1. Queued' = Queued
    BY <1>1 DEF Queued
  <2>2. OnlyCutSpawned'
    BY <1>1 DEF SpawnsFairly, EndInv, OnlyCutSpawned
  <2>3. ASSUME NEW s \in Sessions, EndOf(s) \in (Queued \cup spawned)' PROVE IsOver(s)'
    BY <1>1, <2>1, <2>3 DEF SpawnsFairly, EndInv, EndedIsOver
  <2>4. EndInOrder'
    BY <1>1 DEF EndInv, EndInOrder
  <2> QED BY <2>2, <2>3, <2>4 DEF EndInv, EndedIsOver, EndOf, SessionEvent, Event
<1>2. ASSUME NEW e \in Events, channel' = Append(channel, e), spawned' \subseteq spawned,
             \A s \in Sessions : e = EndOf(s) => EndOf(s) \in spawned,
             \A s \in Sessions : IsLate(e, s) => ~IsOver(s)
      PROVE  EndInv'
  <2>1. Queued' = Queued \cup {e}
    BY <1>2, AppendQueued
  <2>2. OnlyCutSpawned'
    BY <1>2 DEF EndInv, OnlyCutSpawned
  <2>3. ASSUME NEW s \in Sessions, EndOf(s) \in (Queued \cup spawned)' PROVE IsOver(s)'
    <3>1. EndOf(s) \in Queued \cup spawned
      BY <1>2, <2>1, <2>3
    <3> QED BY <3>1 DEF EndInv, EndedIsOver
  <2>4. ASSUME NEW s \in Sessions, NEW i \in 1 .. Len(channel'), NEW j \in 1 .. Len(channel'),
               i < j, channel'[i] = EndOf(s)
        PROVE  ~IsLate(channel'[j], s)
    <3>1. i \in 1 .. Len(channel) /\ channel'[i] = channel[i]
      BY <1>2, <2>4, AppendQueued
    <3>2. CASE j \in 1 .. Len(channel) /\ channel'[j] = channel[j]
      BY <2>4, <3>1, <3>2 DEF EndInv, EndInOrder
    <3>3. CASE channel'[j] = e
      <4>1. EndOf(s) \in Queued
        BY <2>4, <3>1 DEF Queued
      <4> QED BY <1>2, <3>3, <4>1 DEF EndInv, EndedIsOver
    <3> QED BY <1>2, <3>2, <3>3, AppendQueued
  <2> QED BY <2>2, <2>3, <2>4 DEF EndInv, EndedIsOver, EndInOrder, IsLate, EndOf, SessionEvent, Event
<1>3. ASSUME NEW e \in Events, channel' = Append(channel, e), spawned' = spawned,
             e.type # "SessionEnd",
             \A s \in Sessions : IsLate(e, s) => \E r \in Requests : req[r].sid = s
      PROVE  EndInv'
  <2>1. \A s \in Sessions : e # EndOf(s)
    BY <1>3 DEF EndOf, SessionEvent, Event
  <2>2. \A s \in Sessions : IsLate(e, s) => ~IsOver(s)
    BY <1>3 DEF IsOver
  <2> QED BY <1>2, <1>3, <2>1, <2>2
<1>4. ASSUME NEW e \in spawned, channel' = Append(channel, e), spawned' = spawned \ {e}
      PROVE  EndInv'
  <2>1. e \in Events
    BY DEF TypeOK
  <2>2. \A s \in Sessions : ~IsLate(e, s)
    BY DEF EndInv, OnlyCutSpawned, IsLate
  <2> QED BY <1>2, <1>4, <2>1, <2>2
<1>5. CASE channel # <<>> /\ channel' = Tail(channel) /\ spawned' = spawned
  <2>1. Queued' \subseteq Queued
    BY <1>5, TailShifts
  <2>2. OnlyCutSpawned'
    BY <1>5 DEF EndInv, OnlyCutSpawned
  <2>3. ASSUME NEW s \in Sessions, EndOf(s) \in (Queued \cup spawned)' PROVE IsOver(s)'
    BY <1>5, <2>1, <2>3 DEF EndInv, EndedIsOver
  <2>4. ASSUME NEW s \in Sessions, NEW i \in 1 .. Len(channel'), NEW j \in 1 .. Len(channel'),
               i < j, channel'[i] = EndOf(s)
        PROVE  ~IsLate(channel'[j], s)
    <3>1. /\ i + 1 \in 1 .. Len(channel) /\ channel'[i] = channel[i + 1]
          /\ j + 1 \in 1 .. Len(channel) /\ channel'[j] = channel[j + 1]
      BY <1>5, TailShifts
    <3>2. i + 1 < j + 1
      BY <2>4
    <3> QED BY <2>4, <3>1, <3>2 DEF EndInv, EndInOrder
  <2> QED BY <2>2, <2>3, <2>4 DEF EndInv, EndedIsOver, EndInOrder, IsLate, EndOf, SessionEvent, Event
<1> QED BY <1>1, <1>3, <1>4, <1>5 DEF MessageStep

\* A session that is over stays so.
LEMMA OverStays ==
    ASSUME TypeOK, RequestShape, StepClass, NEW s \in Sessions, IsOver(s)
    PROVE  IsOver(s)'
<1>1. ~IsActive(s)' /\ prep'[s] = "done"
  BY NoRevival DEF IsOver
<1>2. ASSUME NEW r \in Requests, req' = [req EXCEPT ![r] = IdleRequest]
      PROVE  \A q \in Requests : req'[q].sid # s
  BY <1>2, ConstantsAssumption DEF TypeOK, IsOver, IdleRequest
<1>3. ASSUME NEW r \in Requests, NEW t \in Sessions, NEW f \in Files,
             BeginUpload(r, t, f) \/ BeginConfirm(r, t, f)
      PROVE  \A q \in Requests : req'[q].sid # s
  <2>1. t # s
    BY <1>3 DEF BeginUpload, BeginConfirm, InSession, ActiveSlot, IsActive, IsOver
  <2>2. req'[r].sid = t /\ \A q \in Requests \ {r} : req'[q] = req[q]
    BY <1>3 DEF BeginUpload, BeginConfirm, TypeOK
  <2> QED BY <2>1, <2>2 DEF IsOver
<1>4. ASSUME NEW r \in Requests, Advance(r)
      PROVE  \A q \in Requests : req'[q].sid # s
  BY <1>4 DEF Advance, TypeOK, IsOver
<1>5. ASSUME NEW r \in Requests, Parks(r) \/ Settles(r) \/ DropConfirm(r)
      PROVE  req' = [req EXCEPT ![r] = IdleRequest]
  BY <1>5 DEF Parks, Settles, TargetRefused, Finish, DropUpload, DropConfirm
<1>6. ASSUME req' = req
      PROVE  \A q \in Requests : req'[q].sid # s
  BY <1>6 DEF IsOver
<1>7. \A q \in Requests : req'[q].sid # s
  BY <1>2, <1>3, <1>4, <1>5, <1>6
  DEF StepClass, Quiet, Claims, Releases, SessionAccepted, Ends
<1> QED BY <1>1, <1>7 DEF IsOver

\* The handler whose file completes the session is the last one at work in it.
LEMMA LastHandler ==
    ASSUME IInv, NEW r \in Requests, req[r] # IdleRequest, InSession(req[r].sid),
           NEW outcome,
           IsComplete([files EXCEPT ![req[r].file] = SettledFile(req[r].sid, @, outcome)])
    PROVE  \A q \in Requests \ {r} : req[q].sid # req[r].sid
<1> DEFINE s == req[r].sid
           f == req[r].file
<1>1. TypeOK /\ RequestShape /\ Ownership
  BY DEF IInv
<1>2. s \in Sessions /\ f \in Files /\ IsActive(s)
  BY <1>1 DEF RequestShape, InSession, IsActive, ActiveSlot
<1>3. SUFFICES ASSUME NEW q \in Requests \ {r}, req[q].sid = s PROVE FALSE
  OBVIOUS
<1>4. /\ req[q].kind \in {"upload", "confirm"}
      /\ req[q].file \in Files
  BY <1>1, <1>2, <1>3, ConstantsAssumption DEF RequestShape, IdleRequest
<1>5. req[q].file # f
  BY <1>1, <1>2, <1>3 DEF Ownership, OneOwner, Working
<1>6. files[req[q].file].status \in {"InProgress", "AwaitingChecksum"}
  <2>1. CASE req[q].kind = "upload"
    BY <1>1, <1>2, <1>3, <1>4, <2>1 DEF Ownership, InProgressOwned, Working
  <2>2. CASE req[q].kind = "confirm"
    BY <1>1, <1>2, <1>3, <1>4, <2>2 DEF Ownership, ConfirmHoldsFile
  <2> QED BY <1>4, <2>1, <2>2
<1> QED BY <1>1, <1>4, <1>5, <1>6 DEF IsComplete, TypeOK

\* Settling a file ends the session only with the last handler, and reports at most
\* an interruption.
LEMMA SettlingSpawns ==
    ASSUME IInv, NEW r \in Requests, Settles(r)
    PROVE  channel' = channel /\ SpawnsFairly
<1>1. TypeOK /\ RequestShape /\ SlotDiscipline
  BY DEF IInv
<1>2. /\ req[r] # IdleRequest
      /\ channel' = channel
      /\ UNCHANGED prep
      /\ req' = [req EXCEPT ![r] = IdleRequest]
  BY DEF Settles, TargetRefused, Finish, DropUpload, IdleRequest
<1>3. req[r].sid \in Sessions
  BY <1>1, <1>2 DEF RequestShape
<1> DEFINE cut == RequestEvent("FileUploadResult", r, "Interrupted")
           end == EndOf(req[r].sid)
<1>4. PICK results \in {{}, {cut}}, outcome \in SaveOutcomes \cup {"none"} :
          FinalizeFile(req[r].sid, req[r].file, outcome, results)
  BY <1>1 DEF Settles, TargetRefused, Finish, DropUpload, TypeOK, RequestType, SaveOutcomes
<1>5. cut.outcome = "Interrupted" /\ cut.type = "FileUploadResult"
  BY DEF RequestEvent, Event
<1>6. /\ end.type = "SessionEnd" /\ end.sid = req[r].sid
      /\ \A s \in Sessions : end = EndOf(s) => s = req[r].sid
  BY DEF EndOf, SessionEvent, Event
<1>7. \A s \in Sessions : cut # EndOf(s)
  BY DEF EndOf, SessionEvent, RequestEvent, Event
<1>8. CASE spawned' \subseteq spawned \cup {cut}
  <2> HIDE DEF cut, end
  <2> QED BY <1>2, <1>5, <1>7, <1>8 DEF SpawnsFairly
<1>9. ASSUME spawned' \subseteq spawned \cup {cut} \cup {end},
             InSession(req[r].sid), slot' = FreeSlot,
             IsComplete([files EXCEPT ![req[r].file] = SettledFile(req[r].sid, @, outcome)])
      PROVE  SpawnsFairly
  <2>1. \A q \in Requests \ {r} : req[q].sid # req[r].sid
    BY <1>2, <1>9, LastHandler
  <2>2. \A q \in Requests : req'[q].sid # req[r].sid
    BY <1>1, <1>2, <1>3, <2>1, ConstantsAssumption DEF TypeOK, IdleRequest
  <2>3. prep'[req[r].sid] = "done"
    BY <1>1, <1>2, <1>3, ConstantsAssumption DEF SlotDiscipline, ActiveWasPrepared
  <2>4. \A s \in Sessions : s = req[r].sid => IsOver(s)'
    BY <1>9, <2>2, <2>3 DEF IsOver, IsActive, FreeSlot
  <2> HIDE DEF cut, end
  <2> QED BY <1>5, <1>6, <1>7, <1>9, <2>4 DEF SpawnsFairly
<1>10. \/ spawned' \subseteq spawned \cup {cut}
       \/ /\ spawned' \subseteq spawned \cup {cut} \cup {end}
          /\ InSession(req[r].sid)
          /\ slot' = FreeSlot
          /\ IsComplete([files EXCEPT ![req[r].file] = SettledFile(req[r].sid, @, outcome)])
  BY <1>4 DEF FinalizeFile, EndOf
<1> QED BY <1>2, <1>8, <1>9, <1>10

LEMMA MessageSteps ==
    ASSUME IInv, [Next]_vars
    PROVE  MessageStep
<1> USE DEF handlerVars, outcomeVars
<1>0. TypeOK /\ RequestShape
  BY DEF IInv
<1>1. ASSUME NEW s \in Sessions, AskApplication(s)
      PROVE  MessageStep
  <2> DEFINE e == SessionEvent("PrepareUpload", s, "none")
  <2>1. e \in Events /\ e.type = "PrepareUpload"
    BY <1>0, EventTypes DEF SessionEvent, Event
  <2>2. channel' = Append(channel, e) /\ spawned' = spawned
    BY <1>1 DEF AskApplication
  <2> HIDE DEF e
  <2> QED BY <2>1, <2>2 DEF MessageStep, IsLate
<1>2. ASSUME NEW r \in Requests, AskTarget(r)
      PROVE  MessageStep
  <2> DEFINE e == RequestEvent("FileUpload", r, "none")
  <2>1. e \in Events /\ e.type = "FileUpload"
    BY <1>0, <1>2, EventTypes, BusyShape DEF AskTarget, RequestEvent, Event
  <2>2. channel' = Append(channel, e) /\ spawned' = spawned
    BY <1>2 DEF AskTarget
  <2> HIDE DEF e
  <2> QED BY <2>1, <2>2 DEF MessageStep, IsLate
<1>3. ASSUME NEW r \in Requests, Report(r)
      PROVE  MessageStep
  <2> DEFINE e == RequestEvent("FileUploadResult", r, req[r].outcome)
  <2>1. e \in Events /\ e.type = "FileUploadResult" /\ e.sid = req[r].sid
    BY <1>0, <1>3, EventTypes, BusyShape DEF Report, RequestEvent, Event, TypeOK, RequestType
  <2>2. channel' = Append(channel, e) /\ spawned' = spawned
    BY <1>3 DEF Report
  <2> HIDE DEF e
  <2> QED BY <2>1, <2>2 DEF MessageStep, IsLate
<1>4. ASSUME NEW r \in Requests, TargetRefused(r) \/ Finish(r) \/ DropUpload(r)
      PROVE  MessageStep
  BY <1>4, SettlingSpawns DEF MessageStep, Settles
<1>5. ASSUME NEW s \in Sessions,
             \/ PrepareWithdrawn(s) \/ AnswerDropped(s) \/ SenderGone(s)
             \/ CancelBySender(s) \/ Reap(s)
      PROVE  MessageStep
  <2>1. PICK type \in {"PrepareUploadAborted", "SessionEnd"}, outcome \in EndReasons \cup {"none"} :
            /\ spawned' = spawned \cup {SessionEvent(type, s, outcome)}
            /\ channel' = channel
            /\ outcome # "Finished"
    BY <1>5 DEF PrepareWithdrawn, AnswerDropped, SenderGone, AbortPrepare, CancelBySender,
                Reap, EndReasons
  <2> DEFINE e == SessionEvent(type, s, outcome)
  <2>2. e.type # "FileUploadResult" /\ e.outcome # "Finished"
    BY <2>1 DEF SessionEvent, Event
  <2>3. spawned' = spawned \cup {e}
    BY <2>1
  <2> HIDE DEF e
  <2>4. \A t \in Sessions : e # EndOf(t)
    BY <2>2 DEF EndOf, SessionEvent, Event
  <2> QED BY <2>1, <2>2, <2>3, <2>4 DEF MessageStep, SpawnsFairly
<1>6. ASSUME NEW e \in spawned, Deliver(e)
      PROVE  MessageStep
  BY <1>6 DEF Deliver, MessageStep
<1>7. CASE AppTakes
  BY <1>7 DEF AppTakes, MessageStep
<1>8. CASE channel' = channel /\ spawned' = spawned
  BY <1>8 DEF MessageStep, SpawnsFairly
<1>9. ASSUME NEW s \in Sessions,
             \/ \E ext \in FeatureSets : ClaimPending(s, ext)
             \/ \E accepted \in SUBSET Files : SessionAccepted(s, accepted)
             \/ SessionRefused(s) \/ CancelPending(s) \/ Touch(s) \/ CancelByReceiver(s)
             \/ \E answer \in AnsweredStates : AppDecides(s, answer)
      PROVE  channel' = channel /\ spawned' = spawned
  BY <1>9 DEF ClaimPending, SessionAccepted, SessionRefused, CancelPending, Touch,
              CancelByReceiver, AppDecides
<1>10. ASSUME NEW r \in Requests,
              \/ StartSaving(r) \/ BodyHeld(r) \/ DropConfirm(r)
              \/ \E outcome \in SaveOutcomes : BodySaved(r, outcome) \/ Settle(r, outcome)
              \/ \E s \in Sessions, f \in Files : BeginUpload(r, s, f) \/ BeginConfirm(r, s, f)
              \/ \E answer \in {"assigned", "rejected"} : AppAnswers(r, answer)
       PROVE  channel' = channel /\ spawned' = spawned
  BY <1>10 DEF StartSaving, BodyHeld, DropConfirm, BodySaved, Settle, BeginUpload, BeginConfirm,
               AppAnswers
<1>11. CASE TenMinutes \/ UNCHANGED vars
  BY <1>8, <1>11 DEF TenMinutes, vars
<1> QED
  BY <1>1, <1>2, <1>3, <1>4, <1>5, <1>6, <1>7, <1>8, <1>9, <1>10, <1>11
  DEF Next, ServerNext, AppNext, PrepareNext, SenderNext, HandlerNext, DropHandler, RequestNext

LEMMA EndInvInit == Init => EndInv
BY DEF Init, EndInv, OnlyCutSpawned, EndedIsOver, EndInOrder, Queued

LEMMA EndInvStep ==
    ASSUME IInv, EndInv, [Next]_vars
    PROVE  EndInv'
<1>1. TypeOK /\ RequestShape /\ StepClass
  BY StepClasses DEF IInv
<1> QED BY <1>1, MessageSteps, OverStays, EndInvKept

\* When SessionEnd(Finished) is on its way no handler works for the session any
\* more, and no result but an interruption can come after it: the application sums
\* up what it has heard.
THEOREM EndComesLast == Spec => []EndIsLast
<1>1. IInv /\ EndInv /\ [Next]_vars => EndInv'
  BY EndInvStep
<1>2. EndInv => EndIsLast
  BY EndInvSuffices
<1> QED BY <1>1, <1>2, EndInvInit, Invariance, PTL DEF Spec

------------------------------------------------------------------------------
(* An application that takes an event and answers in one step.             *)

DecisionTo(s, answer) ==
    /\ prep[s] = "waiting" /\ answer \in AnsweredStates
    /\ prep' = [prep EXCEPT ![s] = answer]
TargetTo(r, answer) ==
    /\ req[r].pc = "asked" /\ answer \in {"assigned", "rejected"}
    /\ req' = [req EXCEPT ![r].pc = answer]

\* The application takes an event, answers a request, or both.
RuntimeTouches ==
    /\ \/ prep' = prep
       \/ \E s \in Sessions, answer \in AnsweredStates : DecisionTo(s, answer)
    /\ \/ req' = req
       \/ \E r \in Requests, answer \in {"assigned", "rejected"} : TargetTo(r, answer)
    /\ channel' \in Seq(Events)
    /\ UNCHANGED <<slot, withdrawn, features, files, idle, placed, told, spawned>>

LEMMA TouchedRequests ==
    ASSUME IInv, RuntimeTouches
    PROVE  /\ req' \in [Requests -> RequestType]
           /\ RequestShape'
           /\ \A r \in Requests :
                  /\ req'[r].sid = req[r].sid /\ req'[r].file = req[r].file
                  /\ req'[r].kind = req[r].kind /\ req'[r].outcome = req[r].outcome
<1>0. req \in [Requests -> RequestType] /\ RequestShape
  BY DEF IInv, TypeOK
<1>1. CASE req' = req
  BY <1>0, <1>1 DEF RequestShape
<1>2. ASSUME NEW r \in Requests, NEW answer \in {"assigned", "rejected"}, TargetTo(r, answer)
      PROVE  /\ req' \in [Requests -> RequestType]
             /\ RequestShape'
             /\ \A q \in Requests :
                    /\ req'[q].sid = req[q].sid /\ req'[q].file = req[q].file
                    /\ req'[q].kind = req[q].kind /\ req'[q].outcome = req[q].outcome
  <2> DEFINE y == [req[r] EXCEPT !.pc = answer]
  <2>1. req[r] \in RequestType /\ req[r].pc = "asked" /\ req' = [req EXCEPT ![r] = y]
    BY <1>0, <1>2 DEF TargetTo
  <2>2. /\ y \in RequestType /\ y.pc = answer /\ y.sid = req[r].sid /\ y.file = req[r].file
        /\ y.kind = req[r].kind /\ y.outcome = req[r].outcome
    BY <2>1 DEF RequestType, UploadStates
  <2>3. req[r].kind = "upload" /\ req[r].sid \in Sessions /\ req[r].file \in Files
    BY <1>0, <2>1 DEF RequestShape, IdleRequest, ConfirmStates
  <2> HIDE DEF y
  <2>4. \A q \in Requests : req'[q] = IF q = r THEN y ELSE req[q]
    BY <1>0, <2>1
  <2>5. req' \in [Requests -> RequestType]
    BY <1>0, <2>1, <2>2
  <2>6. RequestShape'
    <3> SUFFICES ASSUME NEW q \in Requests
                 PROVE  \/ req'[q] = IdleRequest
                        \/ /\ req'[q].kind = "upload"
                           /\ req'[q].pc \in UploadStates
                           /\ req'[q].sid \in Sessions
                           /\ req'[q].file \in Files
                        \/ /\ req'[q].kind = "confirm"
                           /\ req'[q].pc \in ConfirmStates
                           /\ req'[q].sid \in Sessions
                           /\ req'[q].file \in Files
      BY DEF RequestShape
    <3>1. CASE q = r
      BY <2>2, <2>3, <2>4, <3>1 DEF UploadStates
    <3>2. CASE q # r
      BY <1>0, <2>4, <3>2 DEF RequestShape
    <3> QED BY <3>1, <3>2
  <2> QED BY <2>2, <2>4, <2>5, <2>6
<1> QED BY <1>1, <1>2 DEF RuntimeTouches

LEMMA TouchKeepsServer ==
    ASSUME IInv, RuntimeTouches
    PROVE  IInv'
<1>1. /\ req' \in [Requests -> RequestType]
      /\ RequestShape'
      /\ \A r \in Requests :
             /\ req'[r].sid = req[r].sid /\ req'[r].file = req[r].file
             /\ req'[r].kind = req[r].kind /\ req'[r].outcome = req[r].outcome
  BY TouchedRequests
<1>2. /\ prep' \in [Sessions -> PrepStates]
      /\ \A s \in Sessions : /\ prep'[s] = "done" <=> prep[s] = "done"
                             /\ prep'[s] \in {"new", "done"} <=> prep[s] \in {"new", "done"}
  <2>1. prep \in [Sessions -> PrepStates]
    BY DEF IInv, TypeOK
  <2>2. ASSUME NEW s \in Sessions, NEW answer \in AnsweredStates, DecisionTo(s, answer)
        PROVE  /\ prep' \in [Sessions -> PrepStates]
               /\ \A t \in Sessions : prep'[t] = IF t = s THEN answer ELSE prep[t]
    BY <2>1, <2>2 DEF DecisionTo, PrepStates
  <2>3. CASE prep' = prep
    BY <2>1, <2>3
  <2>4. CASE \E s \in Sessions, answer \in AnsweredStates : DecisionTo(s, answer)
    BY <2>2, <2>4 DEF DecisionTo, AnsweredStates
  <2> QED BY <2>3, <2>4 DEF RuntimeTouches
<1>3. UNCHANGED <<slot, withdrawn, features, files, idle, placed, told, spawned>>
  BY DEF RuntimeTouches
<1>4. TypeOK'
  BY <1>1, <1>2 DEF IInv, TypeOK, RuntimeTouches
<1>5. PendingHasAttemptLeft' /\ ActiveIncomplete'
  BY <1>3 DEF IInv, PendingHasAttemptLeft, ActiveIncomplete
<1>6. SlotDiscipline'
  BY <1>1, <1>2, <1>3 DEF IInv, TypeOK, RequestType, SlotDiscipline, PendingSlotHeld,
                          ActiveWasPrepared, IsActive
<1>7. Ownership'
  BY <1>1, <1>3 DEF IInv, Ownership, OneOwner, InProgressOwned, ConfirmHoldsFile, ParkedAwaits,
                    IsActive, Working
<1>8. Outcomes'
  BY <1>1, <1>2, <1>3 DEF IInv, Outcomes, SuccessIsPlaced, HeldIsOver, ToldWasPrepared,
                          ToldIsPlacedOrHeld, IsActive, Deferred
<1> QED BY <1>1, <1>4, <1>5, <1>6, <1>7, <1>8 DEF IInv

\* A session that is over for the server stays so.
LEMMA TouchKeepsOver ==
    ASSUME IInv, RuntimeTouches, NEW s \in Sessions, IsOver(s)
    PROVE  IsOver(s)'
<1>1. \A r \in Requests : req'[r].sid = req[r].sid
  BY TouchedRequests
<1>2. prep'[s] = "done"
  BY DEF RuntimeTouches, DecisionTo, AnsweredStates, IsOver, IInv, TypeOK
<1> QED BY <1>1, <1>2 DEF IsOver, IsActive, RuntimeTouches

------------------------------------------------------------------------------
(* Events.                                                                 *)

\* An event about a file names the file and the handler that waits for it; the end of
\* a session names neither.
NamesItsFile(e) ==
    /\ e.type \in {"FileUpload", "FileUploadResult"} =>
           /\ e.file \in Files
           /\ e.req \in Requests
    /\ e.type = "SessionEnd" => e.file = NoFile /\ e.req = NoRequest

EventShape == \A e \in Queued \cup spawned : NamesItsFile(e)

LEMMA TailQueued ==
    ASSUME TypeOK, channel # <<>>
    PROVE  /\ channel[1] \in Queued /\ channel[1] \in Events
           /\ Tail(channel) \in Seq(Events)
           /\ channel' = Tail(channel) => Queued' \subseteq Queued
<1>1. channel \in Seq(Events)
  BY DEF TypeOK
<1>2. /\ Len(channel) \in Nat \ {0}
      /\ Tail(channel) \in Seq(Events)
      /\ Len(Tail(channel)) = Len(channel) - 1
      /\ \A i \in 1 .. Len(channel) - 1 : Tail(channel)[i] = channel[i + 1]
  BY <1>1
<1>3. channel[1] \in Queued /\ channel[1] \in Events
  BY <1>1, <1>2 DEF Queued
<1>4. ASSUME channel' = Tail(channel), NEW i \in 1 .. Len(channel')
      PROVE  channel'[i] \in Queued
  <2>1. i + 1 \in 1 .. Len(channel) /\ channel'[i] = channel[i + 1]
    BY <1>2, <1>4
  <2> QED BY <2>1 DEF Queued
<1> QED BY <1>2, <1>3, <1>4 DEF Queued

\* What the server adds to the channel, or has a task add later.
Emits(e) == NamesItsFile(e) /\ e \in Events

EventStep ==
    /\ \A e \in spawned' : e \in spawned \/ NamesItsFile(e)
    /\ \A e \in Queued' : e \in Queued \cup spawned \/ NamesItsFile(e)

LEMMA EventStepKeeps ==
    ASSUME EventShape, EventStep
    PROVE  EventShape'
BY DEF EventShape, EventStep, NamesItsFile

LEMMA Announced ==
    ASSUME RequestShape
    PROVE  /\ \A s \in Sessions, type \in {"PrepareUpload", "PrepareUploadAborted", "SessionEnd"},
                  outcome \in EndReasons \cup {"none"} :
                  Emits(SessionEvent(type, s, outcome))
           /\ \A r \in Requests : req[r] # IdleRequest =>
                  /\ Emits(RequestEvent("FileUpload", r, "none"))
                  /\ \A outcome \in SaveOutcomes \cup {"none"} :
                         Emits(RequestEvent("FileUploadResult", r, outcome))
BY DEF RequestShape, SessionEvent, RequestEvent, Event, Events, Emits, NamesItsFile

LEMMA Appended ==
    ASSUME TypeOK, NEW e, Emits(e), channel' = Append(channel, e), spawned' = spawned
    PROVE  EventStep
BY AppendQueued DEF EventStep, Emits

LEMMA Spawned ==
    ASSUME channel' = channel, NEW E, \A e \in E : NamesItsFile(e),
           spawned' \subseteq spawned \cup E
    PROVE  EventStep
BY DEF EventStep, Queued

\* finalize_file spawns the end of the session besides the given results.
LEMMA FinalizeSpawns ==
    ASSUME RequestShape, NEW s \in Sessions, NEW f, NEW outcome, NEW results,
           FinalizeFile(s, f, outcome, results)
    PROVE  spawned' \subseteq spawned \cup (results \cup {SessionEvent("SessionEnd", s, "Finished")})
BY DEF FinalizeFile

LEMMA ServerEvents ==
    ASSUME IInv, [Next]_vars
    PROVE  EventStep
<1>0. TypeOK /\ RequestShape
  BY DEF IInv
<1> USE DEF handlerVars, outcomeVars
<1>1. ASSUME NEW s \in Sessions, AskApplication(s)
      PROVE  EventStep
  <2>1. Emits(SessionEvent("PrepareUpload", s, "none"))
    BY <1>0, Announced
  <2> QED BY <1>0, <1>1, <2>1, Appended DEF AskApplication
<1>2. ASSUME NEW r \in Requests, AskTarget(r)
      PROVE  EventStep
  <2>1. Emits(RequestEvent("FileUpload", r, "none"))
    BY <1>0, <1>2, Announced DEF AskTarget, IdleRequest
  <2> QED BY <1>0, <1>2, <2>1, Appended DEF AskTarget
<1>3. ASSUME NEW r \in Requests, Report(r)
      PROVE  EventStep
  <2>1. req[r] # IdleRequest /\ req[r].outcome \in SaveOutcomes \cup {"none"}
    BY <1>0, <1>3 DEF Report, IdleRequest, TypeOK, RequestType
  <2>2. Emits(RequestEvent("FileUploadResult", r, req[r].outcome))
    BY <1>0, <2>1, Announced
  <2> QED BY <1>0, <1>3, <2>2, Appended DEF Report
<1>4. ASSUME NEW r \in Requests, TargetRefused(r) \/ Finish(r) \/ DropUpload(r)
      PROVE  EventStep
  <2>1. /\ channel' = channel
        /\ req[r] # IdleRequest
    BY <1>4 DEF TargetRefused, Finish, DropUpload, IdleRequest
  <2>2. req[r].sid \in Sessions
    BY <1>0, <2>1 DEF RequestShape
  <2> DEFINE end == SessionEvent("SessionEnd", req[r].sid, "Finished")
             cut == RequestEvent("FileUploadResult", r, "Interrupted")
  <2>3. NamesItsFile(end) /\ NamesItsFile(cut)
    BY <1>0, <2>1, <2>2, Announced DEF Emits, EndReasons, SaveOutcomes
  <2>4. PICK results \in {{}, {cut}}, outcome \in SaveOutcomes \cup {"none"} :
            FinalizeFile(req[r].sid, req[r].file, outcome, results)
    BY <1>0, <1>4 DEF TargetRefused, Finish, DropUpload, TypeOK, RequestType, SaveOutcomes
  <2>5. spawned' \subseteq spawned \cup (results \cup {end})
    BY <1>0, <2>2, <2>4, FinalizeSpawns
  <2> HIDE DEF end, cut
  <2>6. \A e \in results \cup {end} : NamesItsFile(e)
    BY <2>3, <2>4
  <2> QED BY <2>1, <2>5, <2>6, Spawned
<1>5. ASSUME NEW s \in Sessions,
             \/ PrepareWithdrawn(s) \/ AnswerDropped(s) \/ SenderGone(s)
             \/ CancelBySender(s) \/ Reap(s)
      PROVE  EventStep
  <2>1. PICK type \in {"PrepareUploadAborted", "SessionEnd"}, outcome \in EndReasons \cup {"none"} :
            spawned' = spawned \cup {SessionEvent(type, s, outcome)} /\ channel' = channel
    BY <1>5 DEF PrepareWithdrawn, AnswerDropped, SenderGone, AbortPrepare, CancelBySender,
                Reap, EndReasons
  <2> DEFINE new == SessionEvent(type, s, outcome)
  <2>2. NamesItsFile(new)
    BY <1>0, Announced DEF Emits
  <2>3. channel' = channel /\ spawned' \subseteq spawned \cup {new}
    BY <2>1
  <2> HIDE DEF new
  <2>4. \A e \in {new} : NamesItsFile(e)
    BY <2>2
  <2> DEFINE E == {new}
  <2>6. spawned' \subseteq spawned \cup E /\ \A e \in E : NamesItsFile(e)
    BY <2>3, <2>4
  <2> HIDE DEF E
  <2> QED BY <2>3, <2>6, Spawned
<1>6. ASSUME NEW e \in spawned, Deliver(e)
      PROVE  EventStep
  <2>1. e \in Events /\ channel' = Append(channel, e) /\ spawned' \subseteq spawned
    BY <1>0, <1>6 DEF Deliver, TypeOK
  <2>2. Queued' = Queued \cup {e}
    BY <1>0, <2>1, AppendQueued
  <2> QED BY <2>1, <2>2 DEF EventStep
<1>7. CASE AppTakes
  BY <1>0, <1>7, TailQueued DEF AppTakes, EventStep
<1>8. CASE channel' = channel /\ spawned' = spawned
  BY <1>8 DEF EventStep, Queued
<1>9. ASSUME NEW s \in Sessions,
             \/ \E ext \in FeatureSets : ClaimPending(s, ext)
             \/ \E accepted \in SUBSET Files : SessionAccepted(s, accepted)
             \/ SessionRefused(s) \/ CancelPending(s) \/ Touch(s) \/ CancelByReceiver(s)
             \/ \E answer \in AnsweredStates : AppDecides(s, answer)
      PROVE  channel' = channel /\ spawned' = spawned
  BY <1>9 DEF ClaimPending, SessionAccepted, SessionRefused, CancelPending, Touch,
              CancelByReceiver, AppDecides
<1>10. ASSUME NEW r \in Requests,
              \/ StartSaving(r) \/ BodyHeld(r) \/ DropConfirm(r)
              \/ \E outcome \in SaveOutcomes : BodySaved(r, outcome) \/ Settle(r, outcome)
              \/ \E s \in Sessions, f \in Files : BeginUpload(r, s, f) \/ BeginConfirm(r, s, f)
              \/ \E answer \in {"assigned", "rejected"} : AppAnswers(r, answer)
       PROVE  channel' = channel /\ spawned' = spawned
  BY <1>10 DEF StartSaving, BodyHeld, DropConfirm, BodySaved, Settle, BeginUpload, BeginConfirm,
               AppAnswers
<1>11. CASE TenMinutes \/ UNCHANGED vars
  BY <1>8, <1>11 DEF TenMinutes, vars
<1> QED
  BY <1>1, <1>2, <1>3, <1>4, <1>5, <1>6, <1>7, <1>8, <1>9, <1>10, <1>11
  DEF Next, ServerNext, AppNext, PrepareNext, SenderNext, HandlerNext, DropHandler, RequestNext

------------------------------------------------------------------------------
(* A file that is through: it is in place, and its success was reported.   *)

\* Nothing will happen to the file any more.
Through(s, f) ==
    /\ <<s, f>> \in placed
    /\ prep[s] = "done"
    /\ \A r \in Requests : Working(r, s, f) => req[r].pc = "finishing" /\ req[r].outcome = "Success"
    /\ IsActive(s) => \/ files[f].status = "Finished"
                      \/ \E r \in Requests : Working(r, s, f)

\* The handler of a file of the active session finds the file unsettled, and it
\* cannot be taken up by another one.
LEMMA WorkerHoldsFile ==
    ASSUME IInv, NEW s \in Sessions, NEW f \in Files, IsActive(s),
           NEW r \in Requests, Working(r, s, f)
    PROVE  /\ Unsettled(files[f])
           /\ ~Startable(files[f])
           /\ ~Confirmable(files[f])
<1>1. RequestShape /\ Ownership
  BY DEF IInv
<1>2. req[r].kind \in {"upload", "confirm"}
  BY <1>1, ConstantsAssumption DEF RequestShape, IdleRequest, Working
<1>3. CASE req[r].kind = "upload"
  BY <1>1, <1>3 DEF Ownership, InProgressOwned, Unsettled, Startable, Confirmable
<1>4. CASE req[r].kind = "confirm"
  BY <1>1, <1>4 DEF Ownership, ConfirmHoldsFile, Unsettled, Startable, Confirmable, Working
<1> QED BY <1>2, <1>3, <1>4

\* The files keep their status, but for one that is not f, or the session ends.
LEMMA ThroughFrame ==
    ASSUME NEW s \in Sessions, NEW f \in Files, Through(s, f),
           placed \subseteq placed', prep'[s] = "done",
           \A r \in Requests : Working(r, s, f)' <=> Working(r, s, f),
           \A r \in Requests : Working(r, s, f) => req'[r] = req[r],
           IsActive(s)' => IsActive(s) /\ files'[f].status = files[f].status
    PROVE  Through(s, f)'
BY DEF Through

\* What a handler may do with a file before its success is reported.
LEMMA OnlyFinishes ==
    ASSUME IInv, NEW s \in Sessions, NEW f \in Files, Through(s, f),
           NEW r \in Requests, Handles(r), ~Finish(r)
    PROVE  ~Working(r, s, f)
<1>1. req[r].pc # "finishing"
  BY DEF Handles, HandlerNext, DropHandler, AskTarget, StartSaving, TargetRefused, BodySaved, BodyHeld, Settle,
         Report, DropUpload, DropConfirm
<1> QED BY <1>1 DEF Through

LEMMA ThroughStays ==
    ASSUME IInv, [Next]_vars, NEW s \in Sessions, NEW f \in Files, Through(s, f)
    PROVE  Through(s, f)'
<1>0. /\ TypeOK /\ RequestShape /\ Ownership /\ SlotDiscipline /\ StepClass
      /\ prep[s] = "done" /\ <<s, f>> \in placed /\ placed \subseteq placed'
      /\ s # NoSession /\ f # NoFile
      /\ req \in [Requests -> RequestType]
  BY StepClasses, OutcomeFrames, ConstantsAssumption DEF IInv, Through, TypeOK
<1>1. prep'[s] = "done" /\ (IsActive(s)' => IsActive(s))
  BY <1>0, NoRevival
<1>2. ASSUME req' = req,
             \/ slot' = slot /\ \A g \in Files : files'[g].status = files[g].status
             \/ ~IsActive(s)'
      PROVE  Through(s, f)'
  <2>1. IsActive(s)' => IsActive(s) /\ files'[f].status = files[f].status
    BY <1>1, <1>2
  <2> QED BY <1>0, <1>1, <1>2, <2>1, ThroughFrame DEF Working
<1>3. ASSUME NEW r \in Requests, ~Working(r, s, f), ~Working(r, s, f)',
             \A q \in Requests \ {r} : req'[q] = req[q],
             IsActive(s) /\ IsActive(s)' => files'[f].status = files[f].status
      PROVE  Through(s, f)'
  <2>1. \A q \in Requests : Working(q, s, f)' <=> Working(q, s, f)
    BY <1>3 DEF Working
  <2>2. \A q \in Requests : Working(q, s, f) => req'[q] = req[q]
    BY <1>3
  <2> QED BY <1>0, <1>1, <1>3, <2>1, <2>2, ThroughFrame
<1>4. CASE Quiet \/ \E t \in Sessions : Claims(t) \/ Releases(t) \/ Ends(t)
  <2>1. CASE Quiet
    BY <1>2, <2>1 DEF Quiet
  <2>2. ASSUME NEW t \in Sessions, Claims(t)
        PROVE  Through(s, f)'
    BY <1>2, <2>2 DEF Claims, IsActive, PendingSlot
  <2>3. ASSUME NEW t \in Sessions, Releases(t)
        PROVE  Through(s, f)'
    BY <1>2, <2>3 DEF Releases, ClearPending, IsActive, FreeSlot
  <2>4. ASSUME NEW t \in Sessions, Ends(t)
        PROVE  Through(s, f)'
    BY <1>2, <2>4 DEF Ends, DropSession, IsActive, FreeSlot
  <2> QED BY <1>4, <2>1, <2>2, <2>3, <2>4
<1>5. ASSUME NEW t \in Sessions, NEW accepted \in SUBSET Files, SessionAccepted(t, accepted)
      PROVE  Through(s, f)'
  <2>1. t # s
    BY <1>0, <1>5 DEF SessionAccepted
  <2>2. ~IsActive(s)'
    BY <1>5, <2>1 DEF SessionAccepted, Activate, IsActive, ActiveSlot
  <2> QED BY <1>2, <1>5, <2>2 DEF SessionAccepted
<1>6. ASSUME NEW r \in Requests, NEW t \in Sessions, NEW g \in Files,
             BeginUpload(r, t, g) \/ BeginConfirm(r, t, g)
      PROVE  Through(s, f)'
  <2>1. /\ req[r] = IdleRequest /\ IsActive(t)
        /\ Startable(files[g]) \/ Confirmable(files[g])
        /\ req'[r].sid = t /\ req'[r].file = g
        /\ \A q \in Requests \ {r} : req'[q] = req[q]
        /\ \A h \in Files \ {g} : files'[h] = files[h]
    BY <1>0, <1>6 DEF BeginUpload, BeginConfirm, Fresh, InSession, IsActive, ActiveSlot, TypeOK
  <2>2. ~(t = s /\ g = f)
    BY <2>1, WorkerHoldsFile DEF Through, Startable, Confirmable
  <2>3. ~Working(r, s, f) /\ ~Working(r, s, f)'
    BY <1>0, <2>1, <2>2 DEF Working, IdleRequest
  <2>4. IsActive(s) => t = s
    BY <2>1 DEF IsActive
  <2> QED BY <1>3, <2>1, <2>2, <2>3, <2>4
<1>7. ASSUME NEW r \in Requests, Handles(r), ~Finish(r)
      PROVE  Through(s, f)'
  <2>1. ~Working(r, s, f)
    BY <1>7, OnlyFinishes
  <2>2. CASE Advance(r)
    <3>1. /\ req'[r].sid = req[r].sid /\ req'[r].file = req[r].file
          /\ \A q \in Requests \ {r} : req'[q] = req[q]
          /\ files'[f].status = files[f].status
      BY <1>0, <2>2 DEF Advance
    <3> QED BY <1>3, <2>1, <3>1 DEF Working
  <2>3. ASSUME req' = [req EXCEPT ![r] = IdleRequest]
        PROVE  ~Working(r, s, f)' /\ \A q \in Requests \ {r} : req'[q] = req[q]
    BY <1>0, <2>3 DEF Working, IdleRequest
  <2>4. CASE Parks(r)
    <3>1. /\ req' = [req EXCEPT ![r] = IdleRequest]
          /\ IsActive(req[r].sid)
          /\ \A g \in Files \ {req[r].file} : files'[g].status = files[g].status
      BY <1>0, <2>4 DEF Parks, InSession, IsActive, ActiveSlot, TypeOK
    <3>2. IsActive(s) => req[r].file # f
      BY <2>1, <3>1 DEF Working, IsActive
    <3> QED BY <1>3, <2>1, <2>3, <3>1, <3>2
  <2>5. CASE Settles(r)
    <3>1. /\ req' = [req EXCEPT ![r] = IdleRequest]
          /\ \/ files' = files
             \/ /\ IsActive(req[r].sid)
                /\ \E outcome : files' = [files EXCEPT ![req[r].file] =
                                           SettledFile(req[r].sid, files[req[r].file], outcome)]
             \/ slot' = FreeSlot
      BY <1>0, <2>5, SettlingFacts DEF InSession, IsActive, ActiveSlot
    <3>2. IsActive(req[r].sid) /\ IsActive(s) => req[r].file # f
      BY <2>1 DEF Working, IsActive
    <3>3. IsActive(s) /\ IsActive(s)' => files'[f].status = files[f].status
      BY <1>0, <3>1, <3>2 DEF TypeOK, IsActive, FreeSlot
    <3> QED BY <1>3, <2>1, <2>3, <3>1, <3>3
  <2>6. CASE DropConfirm(r)
    BY <1>3, <2>1, <2>3, <2>6 DEF DropConfirm
  <2> QED BY <1>0, <1>7, <2>2, <2>4, <2>5, <2>6, HandlerClasses
<1>8. ASSUME NEW r \in Requests, Finish(r)
      PROVE  Through(s, f)'
  <2>1. /\ req' = [req EXCEPT ![r] = IdleRequest]
        /\ FinalizeFile(req[r].sid, req[r].file, req[r].outcome, {})
        /\ req[r].sid \in Sessions /\ req[r].file \in Files
    BY <1>0, <1>8, BusyShape DEF Finish
  <2>2. ~Working(r, s, f)' /\ \A q \in Requests \ {r} : req'[q] = req[q]
    BY <1>0, <2>1 DEF Working, IdleRequest
  <2>3. \/ ~IsActive(req[r].sid) /\ files' = files
        \/ /\ IsActive(req[r].sid)
           /\ files' = [files EXCEPT ![req[r].file] =
                                SettledFile(req[r].sid, files[req[r].file], req[r].outcome)]
        \/ slot' = FreeSlot
    BY <1>0, <2>1, FinalizeFacts DEF InSession, IsActive, ActiveSlot
  <2>4. CASE ~Working(r, s, f)
    <3>1. IsActive(req[r].sid) /\ IsActive(s) => req[r].file # f
      BY <2>4 DEF Working, IsActive
    <3>2. IsActive(s) /\ IsActive(s)' => files'[f].status = files[f].status
      BY <1>0, <2>3, <3>1 DEF TypeOK, IsActive, FreeSlot
    <3> QED BY <1>3, <2>2, <2>4, <3>2
  <2>5. CASE Working(r, s, f)
    <3>1. req[r].outcome = "Success" /\ req[r].sid = s /\ req[r].file = f
      BY <2>5 DEF Through, Working
    <3>2. \A q \in Requests : Working(q, s, f)' => FALSE
      BY <1>0, <2>2, <2>5 DEF Ownership, OneOwner, Working
    <3>3. IsActive(s)' => files'[f].status = "Finished"
      <4>1. SUFFICES ASSUME IsActive(s)' PROVE files'[f].status = "Finished"
        OBVIOUS
      <4>2. IsActive(s) /\ Unsettled(files[f]) /\ files[f] \in FileType
        BY <1>0, <1>1, <2>5, <4>1, WorkerHoldsFile DEF TypeOK
      <4>3. files'[f] = SettledFile(s, files[f], "Success")
        BY <1>0, <2>3, <3>1, <4>1, <4>2 DEF TypeOK, IsActive, FreeSlot
      <4>4. SettledFile(s, files[f], "Success").status = "Finished"
        BY <4>2 DEF SettledFile, NextStatus, FileType
      <4> QED BY <4>3, <4>4
    <3> QED BY <1>0, <1>1, <3>2, <3>3 DEF Through
  <2> QED BY <2>4, <2>5
<1>9. ASSUME NEW r \in Requests, NEW answer \in {"assigned", "rejected"}, AppAnswers(r, answer)
      PROVE  Through(s, f)'
  <2>1. ~Working(r, s, f)
    BY <1>9 DEF AppAnswers, Through
  <2>2. /\ req'[r].sid = req[r].sid /\ req'[r].file = req[r].file
        /\ \A q \in Requests \ {r} : req'[q] = req[q]
        /\ files' = files
    BY <1>0, <1>9 DEF AppAnswers, Goto, RequestType
  <2> QED BY <1>3, <2>1, <2>2 DEF Working
<1> QED BY <1>0, <1>4, <1>5, <1>6, <1>7, <1>8, <1>9, OtherClasses DEF Otherwise

\* The application takes events and answers, but a file that is through waits for none.
LEMMA TouchKeepsThrough ==
    ASSUME IInv, RuntimeTouches, NEW s \in Sessions, NEW f \in Files, Through(s, f)
    PROVE  Through(s, f)'
<1>0. TypeOK /\ prep[s] = "done"
  BY DEF IInv, Through
<1>1. \A r \in Requests : Working(r, s, f)' <=> Working(r, s, f)
  BY TouchedRequests DEF Working
<1>2. \A r \in Requests : Working(r, s, f) => req'[r] = req[r]
  <2>1. CASE req' = req
    BY <2>1
  <2>2. ASSUME NEW q \in Requests, NEW answer \in {"assigned", "rejected"}, TargetTo(q, answer),
               NEW r \in Requests, Working(r, s, f)
        PROVE  req'[r] = req[r]
    BY <1>0, <2>2 DEF TargetTo, Through, TypeOK
  <2> QED BY <2>1, <2>2 DEF RuntimeTouches
<1>3. prep'[s] = "done"
  BY <1>0 DEF RuntimeTouches, DecisionTo, TypeOK
<1> QED BY <1>1, <1>2, <1>3, ThroughFrame DEF RuntimeTouches, IsActive

------------------------------------------------------------------------------
(* The server implements the abstract slot.                                *)

LEMMA SlotInitMaps == Init => Abstract!SlotInit
BY DEF Init, Abstract!SlotInit, FreeSlot, Abstract!Free

\* Every step is a step of the abstract slot or leaves it alone.
LEMMA SlotStepMaps ==
    ASSUME IInv, [Next]_vars
    PROVE  [Abstract!SlotNext]_(Abstract!slotVars)
<1> USE DEF IInv, FreeSlot, PendingSlot, ActiveSlot, Abstract!Free,
            Abstract!Pending, Abstract!Active
<1>1. CASE Quiet
  BY <1>1 DEF Quiet, Waits, Abstract!slotVars
<1>2. ASSUME NEW s \in Sessions, Claims(s)
      PROVE  Abstract!SlotClaim(s)
  BY <1>2 DEF Claims, Abstract!SlotClaim, TypeOK
<1>3. ASSUME NEW s \in Sessions, Releases(s)
      PROVE  Abstract!SlotRelease(s)
  BY <1>3 DEF Releases, Waits, ClearPending, Abstract!SlotRelease, TypeOK,
              SlotDiscipline, PendingSlotHeld
<1>4. ASSUME NEW s \in Sessions, NEW accepted \in SUBSET Files,
             SessionAccepted(s, accepted)
      PROVE  Abstract!SlotActivate(s)
  BY <1>4 DEF SessionAccepted, Activate, Abstract!SlotActivate, TypeOK,
              SlotDiscipline, PendingSlotHeld
<1>5. ASSUME NEW s \in Sessions, prep' = prep, InSession(s), slot' = FreeSlot
      PROVE  Abstract!SlotEnd(s)
  BY <1>5 DEF InSession, Abstract!SlotEnd
<1>6. ASSUME prep' = prep, slot' = slot
      PROVE  UNCHANGED Abstract!slotVars
  BY <1>6 DEF Abstract!slotVars
<1>7. ASSUME NEW r \in Requests, Settles(r)
      PROVE  /\ prep' = prep
             /\ req[r].sid \in Sessions
             /\ \/ slot' = slot
                \/ InSession(req[r].sid) /\ slot' = FreeSlot
  <2>1. prep' = prep
    BY <1>7 DEF Settles, TargetRefused, Finish, DropUpload
  <2>. QED
    BY <1>7, <2>1, SettlingFacts
<1>8. StepClass
  BY StepClasses
<1>. QED
  BY <1>1, <1>2, <1>3, <1>4, <1>5, <1>6, <1>7, <1>8
  DEF StepClass, BeginUpload, BeginConfirm, Advance, Parks, DropConfirm, Ends,
      DropSession, Abstract!SlotNext

\* No session displaces another one, none comes back, and only a request that
\* holds the slot is turned into the active session.
THEOREM SlotImplemented == Spec => SlotRefined
<1>1. IInv /\ [Next]_vars => [Abstract!SlotNext]_(Abstract!slotVars)
  BY SlotStepMaps
<1>. QED
  BY <1>1, SlotInitMaps, Invariance, PTL DEF Spec, SlotRefined, Abstract!SlotSpec

\* A handler that goes on after its body was not cut off has an interruption to report
\* only if it had one before.
LEMMA NotCutOff ==
    ASSUME TypeOK, NEW r \in Requests, HandlerNext(r), ~BodySaved(r, "Interrupted"),
           req'[r].outcome = "Interrupted"
    PROVE  req[r].outcome = "Interrupted"
<1>0. req \in [Requests -> RequestType]
  BY DEF TypeOK
<1>1. CASE AskTarget(r) \/ StartSaving(r) \/ Report(r)
  BY <1>0, <1>1 DEF AskTarget, StartSaving, Report, Goto, RequestType
<1>2. CASE TargetRefused(r) \/ Finish(r)
  BY <1>0, <1>2 DEF TargetRefused, Finish, IdleRequest
<1>3. ASSUME NEW outcome \in SaveOutcomes, BodySaved(r, outcome) \/ Settle(r, outcome)
      PROVE  FALSE
  <2>1. req'[r].outcome = outcome
    BY <1>0, <1>3 DEF BodySaved, Settle, RequestType
  <2> QED BY <1>3, <2>1 DEF Settle
<1>4. CASE BodyHeld(r)
  BY <1>0, <1>4 DEF BodyHeld, IdleRequest, RequestType
<1> QED BY <1>1, <1>2, <1>3, <1>4 DEF HandlerNext

\* Nor does an application that takes events and answers touch the slot.
LEMMA TouchKeepsSlot ==
    ASSUME IInv, RuntimeTouches
    PROVE  UNCHANGED Abstract!slotVars
<1>0. prep \in [Sessions -> PrepStates]
  BY DEF IInv, TypeOK
<1>1. \A s \in Sessions : prep'[s] # "new" <=> prep[s] # "new"
  BY <1>0 DEF RuntimeTouches, DecisionTo, AnsweredStates
<1>2. slot' = slot
  BY DEF RuntimeTouches
<1> QED BY <1>1, <1>2 DEF Abstract!slotVars
==============================================================================
