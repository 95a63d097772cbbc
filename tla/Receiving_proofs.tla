-------------------------- MODULE Receiving_proofs --------------------------
(***************************************************************************)
(* Theorems about Receiving, for every number of sessions, files and       *)
(* requests.  The invariant of the server survives the steps of the        *)
(* runtime, which do in one step what the application of UploadSession     *)
(* does in two (RuntimeTouches); besides, the runtime has an invariant of  *)
(* its own, a formula about each session (Good).  What it shows of a file  *)
(* needs a second one, about each file of a session (FileInv): how the     *)
(* result of a file travels from its handler to the books.                 *)
(***************************************************************************)
EXTENDS Receiving, UploadSession_proofs

------------------------------------------------------------------------------
(* The runtime's steps as steps of the server.                             *)

RInv == IInv /\ EventShape /\ ReceiveTypeOK

LEMMA PrepareAnswers ==
    ASSUME NEW s \in Sessions, NEW answer \in AnsweredStates, AnswerPrepare(s, answer)
    PROVE  prep' = prep \/ DecisionTo(s, answer)
BY DEF AnswerPrepare, DecisionTo

LEMMA TargetAnswers ==
    ASSUME NEW r \in Requests, NEW answer \in {"assigned", "rejected"}, AnswerTarget(r, answer)
    PROVE  req' = req \/ TargetTo(r, answer)
BY DEF AnswerTarget, TargetTo

\* An event that waits for a path is about a file and a handler.
LEMMA TakenEvent ==
    ASSUME RInv, NEW type, Takes(type)
    PROVE  /\ First \in Events /\ First.type = type /\ First.sid \in Sessions
           /\ channel' \in Seq(Events)
           /\ First \in Queued
           /\ Queued' \subseteq Queued
           /\ type \in {"FileUpload", "FileUploadResult"} =>
                  First.file \in Files /\ First.req \in Requests
<1>1. /\ TypeOK /\ EventShape
      /\ channel # <<>> /\ channel' = Tail(channel) /\ First.type = type
  BY DEF RInv, IInv, Takes
<1>2. /\ First \in Queued /\ First \in Events
      /\ Tail(channel) \in Seq(Events)
      /\ Queued' \subseteq Queued
  BY <1>1, TailQueued DEF First
<1> QED BY <1>1, <1>2 DEF Events, EventShape, NamesItsFile

\* Every step of the event loop, of an accept and of the user but a cancel.
LEMMA RuntimeSteps ==
    ASSUME RInv,
           \/ LoopNext
           \/ \E s \in Sessions : AcceptNext(s) \/ UserAccepts(s) \/ UserDeclines(s)
           \/ \E c \in conflicts : ConflictAnswered(c)
    PROVE  /\ RuntimeTouches
           /\ Queued' \subseteq Queued
<1>0. TypeOK /\ ReceiveTypeOK
  BY DEF RInv, IInv
<1>1. ASSUME NEW type \in {"PrepareUpload", "PrepareUploadAborted", "FileUploadResult", "SessionEnd"},
             Takes(type), prep' = prep, req' = req, UNCHANGED serverRest
      PROVE  RuntimeTouches /\ Queued' \subseteq Queued
  BY <1>1, TakenEvent DEF RuntimeTouches, serverRest
<1>2. CASE OnPrepareAsk \/ OnPrepareAuto \/ OnPrepareAborted \/ OnSessionEnd
           \/ \E kept \in BOOLEAN : OnFileResult(kept)
  BY <1>1, <1>2 DEF OnPrepareAsk, OnPrepareAuto, OnPrepareAborted, OnSessionEnd, OnFileResult
<1>3. CASE OnFileUpload
  <2>1. /\ Takes("FileUpload") /\ prep' = prep /\ UNCHANGED serverRest
        /\ \/ req' = req
           \/ \E answer \in {"assigned", "rejected"} : AnswerTarget(First.req, answer)
    BY <1>3 DEF OnFileUpload, AssignUpload
  <2>2. /\ First.req \in Requests /\ channel' \in Seq(Events) /\ Queued' \subseteq Queued
    BY <2>1, TakenEvent
  <2>3. \/ req' = req
        \/ \E r \in Requests, answer \in {"assigned", "rejected"} : TargetTo(r, answer)
    BY <2>1, <2>2, TargetAnswers
  <2> QED BY <2>1, <2>2, <2>3 DEF RuntimeTouches, serverRest
<1>4. ASSUME NEW s \in Sessions, NEW answer \in AnsweredStates,
             AnswerPrepare(s, answer) \/ prep' = prep,
             req' = req, channel' = channel, UNCHANGED serverRest
      PROVE  RuntimeTouches /\ Queued' \subseteq Queued
  <2>1. prep' = prep \/ DecisionTo(s, answer)
    BY <1>4, PrepareAnswers
  <2>2. channel' \in Seq(Events) /\ Queued' = Queued
    BY <1>0, <1>4 DEF TypeOK, Queued
  <2> QED BY <1>4, <2>1, <2>2 DEF RuntimeTouches, serverRest
<1>5. ASSUME NEW s \in Sessions, RegisterQuestion(s)
      PROVE  RuntimeTouches /\ Queued' \subseteq Queued
  <2>1. \/ prep' = prep
        \/ question \in Sessions /\ AnswerPrepare(question, "declined")
    BY <1>0, <1>5 DEF RegisterQuestion, DeclinePrevious, ReceiveTypeOK
  <2> QED BY <1>4, <1>5, <2>1 DEF RegisterQuestion, AnsweredStates
<1>6. ASSUME NEW s \in Sessions,
             \/ AcceptFails(s) \/ StoreIncoming(s) \/ SendDecision(s) \/ MarkActive(s)
             \/ UserAccepts(s) \/ UserDeclines(s)
      PROVE  RuntimeTouches /\ Queued' \subseteq Queued
  <2>1. \E answer \in AnsweredStates : AnswerPrepare(s, answer) \/ prep' = prep
    BY <1>6 DEF AcceptFails, StoreIncoming, SendDecision, MarkActive, UserAccepts, UserDeclines,
                vars, AnsweredStates
  <2>2. req' = req /\ channel' = channel /\ UNCHANGED serverRest
    BY <1>6 DEF AcceptFails, StoreIncoming, SendDecision, MarkActive, UserAccepts, UserDeclines,
                vars, serverRest
  <2> QED BY <1>4, <2>1, <2>2
<1>7. ASSUME NEW c \in conflicts, ConflictAnswered(c)
      PROVE  RuntimeTouches /\ Queued' \subseteq Queued
  <2>1. c[1] \in Requests
    BY <1>0 DEF ReceiveTypeOK
  <2>2. req' = req \/ TargetTo(c[1], "assigned")
    BY <1>7, <2>1, TargetAnswers DEF ConflictAnswered, AssignUpload
  <2>3. channel' \in Seq(Events) /\ Queued' = Queued
    BY <1>0, <1>7 DEF ConflictAnswered, TypeOK, Queued
  <2> QED BY <1>7, <2>1, <2>2, <2>3 DEF ConflictAnswered, RuntimeTouches, serverRest
<1> QED
  BY <1>2, <1>3, <1>5, <1>6, <1>7 DEF LoopNext, AcceptNext

\* A cancelled session is dropped as cancel_session does it: no request of an
\* active session waits for an answer any more.
LEMMA CancelSteps ==
    ASSUME RInv, NEW s \in Sessions, UserCancels(s)
    PROVE  /\ \/ CancelByReceiver(s)
              \/ RuntimeTouches
           /\ Queued' = Queued /\ spawned' = spawned
<1>0. TypeOK /\ SlotDiscipline
  BY DEF RInv, IInv
<1>1. /\ UNCHANGED <<withdrawn, features, req, placed, told, channel, spawned>>
      /\ \/ InSession(s) /\ DropSession(s)
         \/ ~InSession(s) /\ UNCHANGED <<slot, files, idle>>
      /\ AnswerPrepare(s, "declined") \/ prep' = prep
  BY DEF UserCancels
<1>2. channel' \in Seq(Events) /\ Queued' = Queued
  BY <1>0, <1>1 DEF TypeOK, Queued
<1>3. CASE InSession(s)
  <2>1. prep[s] = "done"
    BY <1>0, <1>3 DEF SlotDiscipline, ActiveWasPrepared, IsActive, InSession, ActiveSlot
  <2>2. prep' = prep
    BY <1>1, <2>1 DEF AnswerPrepare
  <2> QED BY <1>1, <1>2, <1>3, <2>2 DEF CancelByReceiver, handlerVars, outcomeVars
<1>4. CASE ~InSession(s)
  <2>1. prep' = prep \/ DecisionTo(s, "declined")
    BY <1>1, PrepareAnswers DEF AnsweredStates
  <2> QED BY <1>1, <1>2, <1>4, <2>1 DEF RuntimeTouches, AnsweredStates
<1> QED BY <1>3, <1>4

\* What the composition adds to the server's own steps are its histories.
LEMMA ServerSteps ==
    ASSUME ReceiveServerNext
    PROVE  Next
<1>1. ASSUME NEW s \in Sessions, ReceivePrepareNext(s)
      PROVE  PrepareNext(s)
  BY <1>1 DEF ReceivePrepareNext, PrepareNext
<1>2. CASE QuietServerNext
  BY <1>1, <1>2 DEF QuietServerNext, ReceiveRequestNext, SenderNext, Next, ServerNext
<1>3. ASSUME NEW s \in Sessions, LostRequest(s)
      PROVE  Next
  BY <1>3 DEF LostRequest, Next, ServerNext, PrepareNext, SenderNext
<1>4. ASSUME NEW r \in Requests, LostConnection(r)
      PROVE  Next
  BY <1>4 DEF LostConnection, Next, ServerNext, HandlerNext, DropHandler, SaveOutcomes
<1> QED BY <1>2, <1>3, <1>4 DEF ReceiveServerNext

\* A step of the composition is a step of the server, a touch of the runtime,
\* or both.
LEMMA ReceiveSteps ==
    ASSUME RInv, [ReceiveNext]_receiveVars
    PROVE  \/ [Next]_vars
           \/ /\ RuntimeTouches
              /\ Queued' \subseteq Queued
<1>1. CASE ReceiveServerNext
  BY <1>1, ServerSteps
<1>2. CASE LoopNext \/ \E s \in Sessions : AcceptNext(s)
  BY <1>2, RuntimeSteps
<1>3. CASE UserNext
  <2>1. ASSUME NEW s \in Sessions, UserCancels(s)
        PROVE  Next \/ (RuntimeTouches /\ Queued' \subseteq Queued)
    BY <2>1, CancelSteps DEF Next, AppNext
  <2>2. ASSUME ~\E s \in Sessions : UserCancels(s)
        PROVE  RuntimeTouches /\ Queued' \subseteq Queued
    BY <1>3, <2>2, RuntimeSteps DEF UserNext
  <2> QED BY <2>1, <2>2
<1>4. CASE UNCHANGED receiveVars
  BY <1>4 DEF receiveVars
<1> QED BY <1>1, <1>2, <1>3, <1>4 DEF ReceiveNext

LEMMA ServerKept ==
    ASSUME RInv, [ReceiveNext]_receiveVars
    PROVE  IInv' /\ EventShape'
<1>1. CASE [Next]_vars
  BY <1>1, InvStep, ServerEvents, EventStepKeeps DEF RInv
<1>2. CASE RuntimeTouches /\ Queued' \subseteq Queued
  <2>1. spawned' = spawned
    BY <1>2 DEF RuntimeTouches
  <2> QED BY <1>2, <2>1, TouchKeepsServer DEF RInv, EventShape, NamesItsFile
<1> QED BY <1>1, <1>2, ReceiveSteps

------------------------------------------------------------------------------
(* The shape of the runtime's variables.                                   *)

IncomingType == [sid : Sessions \cup {NoSession}, failed : Nat,
                 received : SUBSET (Sessions \X Files)]
AcceptStates == {"no", "offered", "taken", "stored", "sent"}

BooksTyped == /\ transfer \in [Sessions -> TransferStates]
              /\ view \in [Sessions -> [Files -> FileViewStates]]

LEMMA CompleteTypes ==
    ASSUME BooksTyped, NEW s \in Sessions, NEW state \in FinalStates,
           CompleteTransfer(s, state)
    PROVE  /\ BooksTyped'
           /\ \A t \in Sessions \ {s} : transfer'[t] = transfer[t]
           /\ transfer'[s] = IF CanComplete(s) THEN state ELSE transfer[s]
<1>1. CASE CanComplete(s)
  <2>1. /\ transfer' = [transfer EXCEPT ![s] = state]
        /\ view' = [view EXCEPT ![s] =
               [f \in Files |-> IF IsOpen(view[s][f]) THEN ClosedAs(state) ELSE view[s][f]]]
    BY <1>1 DEF CompleteTransfer
  <2>2. [f \in Files |-> IF IsOpen(view[s][f]) THEN ClosedAs(state) ELSE view[s][f]]
            \in [Files -> FileViewStates]
    BY DEF BooksTyped, ClosedAs, FileViewStates
  <2> QED BY <1>1, <2>1, <2>2 DEF BooksTyped, TransferStates
<1>2. CASE ~CanComplete(s)
  BY <1>2 DEF CompleteTransfer, BooksTyped
<1> QED BY <1>1, <1>2

LEMMA RemoveTypes ==
    ASSUME BooksTyped, NEW s \in Sessions, RemoveTransfer(s)
    PROVE  /\ BooksTyped'
           /\ \A t \in Sessions : transfer'[t] = IF t = s THEN "none" ELSE transfer[t]
BY DEF BooksTyped, RemoveTransfer, TransferStates, FreshView, FileViewStates, OpenFileStates

LEMMA ShowTypes ==
    ASSUME BooksTyped, NEW s \in Sessions, NEW f \in Files, NEW state \in FileViewStates,
           ShowFile(s, f, state)
    PROVE  view' \in [Sessions -> [Files -> FileViewStates]]
BY DEF BooksTyped, ShowFile

LEMMA SetTransferTypes ==
    ASSUME BooksTyped, NEW s \in Sessions, NEW state \in TransferStates,
           transfer' = [transfer EXCEPT ![s] = state], view' = view
    PROVE  /\ BooksTyped'
           /\ \A t \in Sessions : transfer'[t] = IF t = s THEN state ELSE transfer[t]
BY DEF BooksTyped

\* How far an accept may be, and the loop it keeps.
AcceptTyped == /\ accepting \in [Sessions -> AcceptStates]
               /\ loop \in Sessions \cup {NoSession}
               /\ loop # NoSession => accepting[loop] # "no"

RestTyped == /\ question \in Sessions \cup {NoSession}
             /\ incoming \in IncomingType
             /\ conflicts \subseteq Requests \X Sessions \X Files
             /\ disturbed \subseteq Sessions

LEMMA ReceiveTypeParts == ReceiveTypeOK <=> BooksTyped /\ AcceptTyped /\ RestTyped
BY DEF ReceiveTypeOK, BooksTyped, AcceptTyped, RestTyped, IncomingType, AcceptStates

LEMMA SessionsExist == \A s \in Sessions : s # NoSession
BY ConstantsAssumption DEF ConstantsAssumption

\* An accept moves on, and frees the loop when it is over.
LEMMA AcceptMoves ==
    ASSUME AcceptTyped, NEW s \in Sessions, NEW state \in AcceptStates,
           accepting' = [accepting EXCEPT ![s] = state],
           \/ LoopAfter(s)
           \/ state # "no" /\ loop' = loop
           \/ state # "no" /\ loop' = s
    PROVE  /\ AcceptTyped'
           /\ \A t \in Sessions : accepting'[t] = IF t = s THEN state ELSE accepting[t]
BY SessionsExist DEF AcceptTyped, LoopAfter

LEMMA NewIncomingTypes ==
    ASSUME NEW s \in Sessions
    PROVE  /\ NewIncoming(s) \in IncomingType /\ NewIncoming(s).sid = s
           /\ NoIncoming \in IncomingType /\ NoIncoming.sid = NoSession
BY DEF NewIncoming, NoIncoming, IncomingType

LEMMA CountTypes ==
    ASSUME incoming \in IncomingType, NEW e, e.sid \in Sessions, e.file \in Files
    PROVE  /\ CountFailure \in IncomingType /\ CountFailure.sid = incoming.sid
           /\ CountReceived(e) \in IncomingType /\ CountReceived(e).sid = incoming.sid
BY DEF CountFailure, CountReceived, IncomingType

------------------------------------------------------------------------------
(* The events that are sent once for a session: the question whether to     *)
(* receive it, and its end.                                                *)

Marks == {"PrepareUpload", "SessionEnd"}

SameMark(e1, e2) == /\ e1.type \in Marks
                    /\ e1.type = e2.type
                    /\ e1.sid = e2.sid

MarksOnce ==
    /\ \A i, j \in 1 .. Len(channel) : SameMark(channel[i], channel[j]) => i = j
    /\ \A e \in spawned, i \in 1 .. Len(channel) : ~SameMark(e, channel[i])
    /\ \A e1, e2 \in spawned : SameMark(e1, e2) => e1 = e2
    /\ \A e \in spawned : e.type # "PrepareUpload"

\* An event of this type and session is on its way to the runtime.
Under(type, s) == \E e \in Queued \cup spawned : e.type = type /\ e.sid = s

UnderStays == \A type \in Marks, s \in Sessions : Under(type, s)' <=> Under(type, s)

LEMMA QueuedIsRange ==
    /\ \A i \in 1 .. Len(channel) : channel[i] \in Queued
    /\ \A e \in Queued : \E i \in 1 .. Len(channel) : channel[i] = e
BY DEF Queued

LEMMA TakeMarks ==
    ASSUME TypeOK, MarksOnce, channel # <<>>, channel' = Tail(channel), spawned' = spawned
    PROVE  /\ MarksOnce'
           /\ \A type \in Marks, s \in Sessions :
                  Under(type, s)' <=> Under(type, s) /\ ~(First.type = type /\ First.sid = s)
<1>1. channel \in Seq(Events)
  BY DEF TypeOK
<1>2. /\ Len(channel) \in Nat \ {0}
      /\ Len(channel') = Len(channel) - 1
      /\ \A i \in 1 .. Len(channel') : i + 1 \in 1 .. Len(channel) /\ channel'[i] = channel[i + 1]
      /\ \A i \in 1 .. Len(channel) : i # 1 => i - 1 \in 1 .. Len(channel') /\ channel'[i - 1] = channel[i]
  BY <1>1
<1>3. MarksOnce'
  <2>1. ASSUME NEW i \in 1 .. Len(channel'), NEW j \in 1 .. Len(channel'),
               SameMark(channel'[i], channel'[j])
        PROVE  i = j
    <3>1. i + 1 = j + 1
      BY <1>2, <2>1 DEF MarksOnce
    <3> QED BY <1>2, <3>1
  <2>2. ASSUME NEW e \in spawned, NEW i \in 1 .. Len(channel')
        PROVE  ~SameMark(e, channel'[i])
    BY <1>2 DEF MarksOnce
  <2> QED BY <2>1, <2>2 DEF MarksOnce, SameMark
<1>4. ASSUME NEW type \in Marks, NEW s \in Sessions
      PROVE  Under(type, s)' <=> Under(type, s) /\ ~(First.type = type /\ First.sid = s)
  <2>1. ASSUME NEW i \in 1 .. Len(channel'), channel'[i].type = type, channel'[i].sid = s
        PROVE  Under(type, s) /\ ~(First.type = type /\ First.sid = s)
    <3>1. i + 1 \in 1 .. Len(channel) /\ channel'[i] = channel[i + 1] /\ 1 \in 1 .. Len(channel)
      BY <1>2
    <3>2. i + 1 # 1
      BY <1>2
    <3> QED BY <2>1, <3>1, <3>2, QueuedIsRange DEF MarksOnce, Under, First, SameMark
  <2>2. ASSUME NEW e \in spawned, e.type = type, e.sid = s
        PROVE  Under(type, s) /\ ~(First.type = type /\ First.sid = s)
    <3>1. 1 \in 1 .. Len(channel)
      BY <1>2
    <3> QED BY <2>2, <3>1 DEF MarksOnce, Under, First, SameMark
  <2>3. ASSUME NEW i \in 1 .. Len(channel), channel[i].type = type, channel[i].sid = s,
               ~(First.type = type /\ First.sid = s)
        PROVE  Under(type, s)'
    <3>1. i # 1
      BY <2>3 DEF First
    <3>2. i - 1 \in 1 .. Len(channel') /\ channel'[i - 1] = channel[i]
      BY <1>2, <3>1
    <3>3. channel'[i - 1] \in Queued'
      BY <3>2 DEF Queued
    <3> QED BY <2>3, <3>2, <3>3 DEF Under
  <2>4. ASSUME NEW e \in spawned, e.type = type, e.sid = s
        PROVE  Under(type, s)'
    BY <2>4 DEF Under
  <2> QED BY <2>1, <2>2, <2>3, <2>4, QueuedIsRange DEF Under, Queued
<1> QED BY <1>3, <1>4

LEMMA AppendMarks ==
    ASSUME TypeOK, MarksOnce, NEW e \in Events, channel' = Append(channel, e),
           spawned' = spawned,
           e.type \in Marks => ~Under(e.type, e.sid)
    PROVE  /\ MarksOnce'
           /\ \A type \in Marks, s \in Sessions :
                  Under(type, s)' <=> Under(type, s) \/ (e.type = type /\ e.sid = s)
<1>1. channel \in Seq(Events)
  BY DEF TypeOK
<1>2. /\ Len(channel) \in Nat
      /\ Len(channel') = Len(channel) + 1
      /\ \A i \in 1 .. Len(channel') :
             \/ i \in 1 .. Len(channel) /\ channel'[i] = channel[i]
             \/ i = Len(channel') /\ channel'[i] = e
  BY <1>1
<1>3. Queued' = Queued \cup {e}
  BY AppendQueued
<1>4. \A x \in Queued \cup spawned : ~SameMark(x, e) /\ ~SameMark(e, x)
  BY DEF SameMark, Under
<1>5. MarksOnce'
  <2>1. ASSUME NEW i \in 1 .. Len(channel'), NEW j \in 1 .. Len(channel'),
               SameMark(channel'[i], channel'[j])
        PROVE  i = j
    BY <1>2, <1>4, <2>1, QueuedIsRange DEF MarksOnce
  <2>2. ASSUME NEW x \in spawned, NEW i \in 1 .. Len(channel')
        PROVE  ~SameMark(x, channel'[i])
    BY <1>2, <1>4 DEF MarksOnce
  <2> QED BY <2>1, <2>2 DEF MarksOnce, SameMark
<1> QED BY <1>3, <1>5 DEF Under

LEMMA SpawnMarks ==
    ASSUME MarksOnce, NEW E, channel' = channel, spawned' = spawned \cup E,
           \A e1, e2 \in E : SameMark(e1, e2) => e1 = e2,
           \A e \in E : /\ e.type # "PrepareUpload"
                        /\ e.type \in Marks => ~Under(e.type, e.sid)
    PROVE  /\ MarksOnce'
           /\ \A type \in Marks, s \in Sessions :
                  Under(type, s)' <=> Under(type, s) \/ \E e \in E : e.type = type /\ e.sid = s
<1>1. \A x \in Queued \cup spawned, e \in E : ~SameMark(x, e) /\ ~SameMark(e, x)
  BY DEF SameMark, Under
<1>2. Queued' = Queued
  BY DEF Queued
<1>3. MarksOnce'
  BY <1>1, QueuedIsRange DEF MarksOnce, SameMark
<1> QED BY <1>2, <1>3 DEF Under

LEMMA DeliverMarks ==
    ASSUME TypeOK, MarksOnce, NEW e \in spawned, Deliver(e)
    PROVE  MarksOnce' /\ UnderStays
<1>1. channel \in Seq(Events) /\ e \in Events
  BY DEF TypeOK
<1>2. channel' = Append(channel, e) /\ spawned' = spawned \ {e}
  BY DEF Deliver
<1>3. /\ Len(channel) \in Nat
      /\ Len(channel') = Len(channel) + 1
      /\ \A i \in 1 .. Len(channel') :
             \/ i \in 1 .. Len(channel) /\ channel'[i] = channel[i]
             \/ i = Len(channel') /\ channel'[i] = e
  BY <1>1, <1>2
<1>4. Queued' = Queued \cup {e}
  BY <1>1, <1>2, AppendQueued
<1>5. /\ \A i \in 1 .. Len(channel) : ~SameMark(e, channel[i]) /\ ~SameMark(channel[i], e)
      /\ \A x \in spawned : SameMark(x, e) => x = e
  BY DEF MarksOnce, SameMark
<1>6. MarksOnce'
  <2>1. ASSUME NEW i \in 1 .. Len(channel'), NEW j \in 1 .. Len(channel'),
               SameMark(channel'[i], channel'[j])
        PROVE  i = j
    BY <1>3, <1>5, <2>1 DEF MarksOnce
  <2>2. ASSUME NEW x \in spawned', NEW i \in 1 .. Len(channel')
        PROVE  ~SameMark(x, channel'[i])
    BY <1>2, <1>3, <1>5 DEF MarksOnce
  <2> QED BY <1>2, <2>1, <2>2 DEF MarksOnce, SameMark
<1> QED BY <1>2, <1>4, <1>6 DEF Under, UnderStays

------------------------------------------------------------------------------
(* What is true of each session.                                           *)

Asked(s) == Under("PrepareUpload", s)
Ending(s) == Under("SessionEnd", s)
UnderWay(s) == transfer[s] \in {"WaitingAccept", "Active"}

\* The server has taken the request for accepted.
Accepted(s) == prep[s] = "accepted" \/ IsActive(s) \/ Ending(s)

\* The runtime knows nothing of a request before it has taken its event.
BeforeAsked(s) ==
    /\ prep[s] \in {"new", "claimed"} => ~Asked(s)
    /\ prep[s] \in {"new", "claimed"} \/ Asked(s) =>
           accepting[s] = "no" /\ question # s /\ transfer[s] = "none"

\* A question is asked before it is accepted, and accepted before there is a session.
BeforeAnswered(s) ==
    /\ question = s => accepting[s] = "no"
    /\ Asked(s) \/ question = s \/ accepting[s] \in {"offered", "taken", "stored"} =>
           ~Accepted(s)
    /\ IsActive(s) \/ Ending(s) => prep[s] = "done"
    /\ ~(IsActive(s) /\ Ending(s))

\* The runtime and the server agree on the session, and there is someone to end
\* a transfer that is under way.
Agrees(s) ==
    /\ Accepted(s) \/ accepting[s] = "stored" => incoming.sid = s
    /\ question = s \/ accepting[s] # "no" => UnderWay(s)
    /\ UnderWay(s) => question = s \/ accepting[s] # "no" \/ Accepted(s)
    /\ accepting[s] = "sent" => Accepted(s)

Good(s) == /\ BeforeAsked(s)
           /\ BeforeAnswered(s)
           /\ s \notin disturbed => Agrees(s)

AllGood == \A s \in Sessions : Good(s)

SameServer(s) == /\ prep'[s] = prep[s]
                 /\ IsActive(s)' <=> IsActive(s)
                 /\ Asked(s)' <=> Asked(s)
                 /\ Ending(s)' <=> Ending(s)

SameRuntime(s) == /\ accepting'[s] = accepting[s]
                  /\ transfer'[s] = transfer[s]
                  /\ (question' = s) <=> (question = s)
                  /\ incoming.sid = s => incoming'.sid = s \/ s \in disturbed'

\* A session no step is about.
LEMMA Untouched ==
    ASSUME NEW s \in Sessions, Good(s), SameServer(s), SameRuntime(s),
           disturbed \subseteq disturbed'
    PROVE  Good(s)'
BY DEF Good, BeforeAsked, BeforeAnswered, Agrees, Accepted, UnderWay, SameServer, SameRuntime

OthersSame(s) == \A t \in Sessions \ {s} : SameServer(t)

\* What a step of the server does to the question, the session and the end.
Claiming(s) == prep[s] = "new" /\ prep'[s] = "claimed"
Closing(s) == /\ prep[s] \notin {"new", "done"}
              /\ prep'[s] = "done"
              /\ prep[s] = "accepted" => s \in disturbed'
Still(s) == /\ IsActive(s)' <=> IsActive(s)
            /\ Asked(s)' <=> Asked(s)
            /\ Ending(s)' <=> Ending(s)
Asking(s) == /\ prep[s] = "claimed" /\ prep'[s] = "waiting"
             /\ Asked(s)'
             /\ IsActive(s)' <=> IsActive(s)
             /\ Ending(s)' <=> Ending(s)
Starting(s) == /\ prep[s] = "accepted" /\ prep'[s] = "done"
               /\ IsActive(s)'
               /\ Asked(s)' <=> Asked(s)
               /\ Ending(s)' <=> Ending(s)
Stopping(s) == /\ IsActive(s) /\ ~IsActive(s)' /\ Ending(s)'
               /\ prep'[s] = prep[s]
               /\ Asked(s)' <=> Asked(s)

ServerEffect ==
    \/ \A s \in Sessions : SameServer(s)
    \/ \E s \in Sessions :
           /\ OthersSame(s)
           /\ \/ Claiming(s) /\ Still(s)
              \/ Closing(s) /\ Still(s)
              \/ Asking(s)
              \/ Starting(s)
              \/ Stopping(s)

LEMMA ServerEffectKeeps ==
    ASSUME AllGood, ServerEffect, UNCHANGED runtimeVars, disturbed \subseteq disturbed'
    PROVE  AllGood'
<1>1. \A s \in Sessions : SameRuntime(s)
  BY DEF runtimeVars, SameRuntime
<1>2. CASE \A s \in Sessions : SameServer(s)
  BY <1>1, <1>2, Untouched DEF AllGood
<1>3. ASSUME NEW s \in Sessions, OthersSame(s),
             \/ Claiming(s) /\ Still(s)
             \/ Closing(s) /\ Still(s)
             \/ Asking(s) \/ Starting(s) \/ Stopping(s)
      PROVE  AllGood'
  <2>1. \A t \in Sessions \ {s} : Good(t)'
    BY <1>1, <1>3, Untouched DEF AllGood, OthersSame
  <2>2. Good(s) /\ UNCHANGED <<accepting, transfer, question, incoming>>
    BY DEF AllGood, runtimeVars
  <2>3. Good(s)'
    <3>1. CASE Claiming(s) /\ Still(s)
      BY <2>2, <3>1 DEF Claiming, Still, Good, BeforeAsked, BeforeAnswered, Agrees, Accepted, UnderWay
    <3>2. CASE Closing(s) /\ Still(s)
      BY <2>2, <3>2 DEF Closing, Still, Good, BeforeAsked, BeforeAnswered, Agrees, Accepted, UnderWay
    <3>3. CASE Asking(s)
      BY <2>2, <3>3 DEF Asking, Good, BeforeAsked, BeforeAnswered, Agrees, Accepted, UnderWay
    <3>4. CASE Starting(s)
      BY <2>2, <3>4 DEF Starting, Good, BeforeAsked, BeforeAnswered, Agrees, Accepted, UnderWay
    <3>5. CASE Stopping(s)
      BY <2>2, <3>5 DEF Stopping, Good, BeforeAsked, BeforeAnswered, Agrees, Accepted, UnderWay
    <3> QED BY <1>3, <3>1, <3>2, <3>3, <3>4, <3>5
  <2> QED BY <2>1, <2>3 DEF AllGood
<1> QED BY <1>2, <1>3 DEF ServerEffect

------------------------------------------------------------------------------
(* The steps of the server, by what they do to a session.                  *)

ServerState == IInv /\ EventShape /\ MarksOnce /\ AllGood

LEMMA NothingSent ==
    ASSUME MarksOnce, channel' = channel, spawned' = spawned
    PROVE  MarksOnce' /\ UnderStays
BY DEF MarksOnce, SameMark, UnderStays, Under, Queued

LEMMA UnmarkedAppend ==
    ASSUME TypeOK, MarksOnce, NEW e \in Events, e.type \notin Marks,
           channel' = Append(channel, e), spawned' = spawned
    PROVE  MarksOnce' /\ UnderStays
<1>1. /\ MarksOnce'
      /\ \A type \in Marks, s \in Sessions :
             Under(type, s)' <=> Under(type, s) \/ (e.type = type /\ e.sid = s)
  BY AppendMarks
<1> QED BY <1>1 DEF UnderStays

LEMMA UnmarkedSpawn ==
    ASSUME MarksOnce, NEW E, \A e \in E : e.type \notin Marks,
           channel' = channel, spawned' = spawned \cup E
    PROVE  MarksOnce' /\ UnderStays
<1>1. /\ \A e1, e2 \in E : SameMark(e1, e2) => e1 = e2
      /\ \A e \in E : /\ e.type # "PrepareUpload"
                      /\ e.type \in Marks => ~Under(e.type, e.sid)
  BY DEF SameMark, Marks
<1>2. /\ MarksOnce'
      /\ \A type \in Marks, s \in Sessions :
             Under(type, s)' <=> Under(type, s) \/ \E e \in E : e.type = type /\ e.sid = s
  BY <1>1, SpawnMarks
<1> QED BY <1>2 DEF UnderStays

LEMMA QuietEffect ==
    ASSUME prep' = prep, slot' = slot, UnderStays
    PROVE  \A s \in Sessions : SameServer(s)
BY DEF SameServer, IsActive, UnderStays, Asked, Ending, Marks

\* One request moves on, and no session starts or ends.
LEMMA MoveEffect ==
    ASSUME NEW s \in Sessions, prep \in [Sessions -> PrepStates], NEW p,
           prep' = [prep EXCEPT ![s] = p],
           \A t \in Sessions : IsActive(t)' <=> IsActive(t),
           UnderStays
    PROVE  OthersSame(s) /\ Still(s) /\ prep'[s] = p
BY DEF OthersSame, SameServer, Still, UnderStays, Asked, Ending, Marks

LEMMA ClearEffect ==
    ASSUME NEW s, ClearPending(s)
    PROVE  \A t \in Sessions : IsActive(t)' <=> IsActive(t)
BY DEF ClearPending, IsActive, PendingSlot, FreeSlot

\* The end of the active session is announced, with results of its files.
LEMMA StopEffect ==
    ASSUME MarksOnce, AllGood, NEW s \in Sessions, IsActive(s),
           slot' = FreeSlot, prep' = prep, channel' = channel,
           NEW results, \A e \in results : e.type \notin Marks,
           NEW reason,
           spawned' = spawned \cup results \cup {SessionEvent("SessionEnd", s, reason)}
    PROVE  MarksOnce' /\ OthersSame(s) /\ Stopping(s)
<1> DEFINE end == SessionEvent("SessionEnd", s, reason)
           E == results \cup {end}
<1>1. end.type = "SessionEnd" /\ end.sid = s
  BY DEF SessionEvent, Event
<1>2. ~Ending(s)
  BY DEF AllGood, Good, BeforeAnswered
<1>3. spawned' = spawned \cup E
  OBVIOUS
<1>4. /\ \A e1, e2 \in E : SameMark(e1, e2) => e1 = e2
      /\ \A e \in E : /\ e.type # "PrepareUpload"
                      /\ e.type \in Marks => ~Under(e.type, e.sid)
  <2> HIDE DEF end
  <2> QED BY <1>1, <1>2 DEF SameMark, Marks, Ending
<1>5. \A type \in Marks, t \in Sessions :
          (\E e \in E : e.type = type /\ e.sid = t) <=> type = "SessionEnd" /\ t = s
  <2> HIDE DEF end
  <2> QED BY <1>1
<1> HIDE DEF E, end
<1>6. /\ MarksOnce'
      /\ \A type \in Marks, t \in Sessions :
             Under(type, t)' <=> Under(type, t) \/ \E e \in E : e.type = type /\ e.sid = t
  BY <1>3, <1>4, SpawnMarks
<1>7. \A t \in Sessions : /\ Asked(t)' <=> Asked(t)
                          /\ Ending(t)' <=> Ending(t) \/ t = s
  BY <1>5, <1>6 DEF Asked, Ending, Marks
<1>8. \A t \in Sessions : ~IsActive(t)' /\ (IsActive(t) <=> t = s)
  BY DEF IsActive, FreeSlot
<1> QED BY <1>6, <1>7, <1>8 DEF OthersSame, SameServer, Stopping

\* finalize_file, with or without the end of the session.
LEMMA FinalizeEffect ==
    ASSUME MarksOnce, AllGood, NEW s \in Sessions, NEW f, NEW outcome,
           NEW results, \A e \in results : e.type \notin Marks,
           FinalizeFile(s, f, outcome, results), prep' = prep, channel' = channel
    PROVE  MarksOnce' /\ ServerEffect
<1>1. CASE slot' = slot /\ spawned' = spawned \cup results
  BY <1>1, UnmarkedSpawn, QuietEffect DEF ServerEffect
<1>2. CASE /\ IsActive(s) /\ slot' = FreeSlot
           /\ spawned' = spawned \cup results \cup {SessionEvent("SessionEnd", s, "Finished")}
  BY <1>2, StopEffect DEF ServerEffect
<1> QED BY <1>1, <1>2 DEF FinalizeFile, InSession, IsActive, ActiveSlot

LEMMA RequestEffects ==
    ASSUME ServerState, NEW s \in Sessions,
           \/ \E ext \in FeatureSets : ClaimPending(s, ext)
           \/ AskApplication(s)
           \/ SessionAccepted(s, Files)
           \/ prep[s] = "declined" /\ SessionRefused(s)
    PROVE  MarksOnce' /\ ServerEffect
<1>0. /\ TypeOK /\ MarksOnce /\ AllGood /\ PendingSlotHeld
      /\ prep \in [Sessions -> PrepStates]
  BY DEF ServerState, IInv, TypeOK, SlotDiscipline
<1>1. ASSUME NEW ext \in FeatureSets, ClaimPending(s, ext)
      PROVE  MarksOnce' /\ ServerEffect
  <2>1. MarksOnce' /\ UnderStays /\ prep[s] = "new" /\ prep' = [prep EXCEPT ![s] = "claimed"]
    BY <1>0, <1>1, NothingSent DEF ClaimPending
  <2>2. \A t \in Sessions : IsActive(t)' <=> IsActive(t)
    BY <1>1 DEF ClaimPending, SlotIsFree, FreeSlot, PendingSlot, IsActive
  <2>3. OthersSame(s) /\ Still(s) /\ prep'[s] = "claimed"
    BY <1>0, <2>1, <2>2, MoveEffect
  <2> QED BY <2>1, <2>3 DEF ServerEffect, Claiming
<1>2. CASE AskApplication(s)
  <2> DEFINE ask == SessionEvent("PrepareUpload", s, "none")
  <2>1. ask.type = "PrepareUpload" /\ ask.sid = s /\ ask \in Events
    BY <1>0, Announced DEF ServerState, IInv, Emits, SessionEvent, Event
  <2>2. /\ channel' = Append(channel, ask) /\ spawned' = spawned /\ slot' = slot
        /\ prep[s] = "claimed" /\ prep' = [prep EXCEPT ![s] = "waiting"]
    BY <1>2 DEF AskApplication
  <2> HIDE DEF ask
  <2>3. ~Under(ask.type, ask.sid)
    BY <1>0, <2>1, <2>2 DEF AllGood, Good, BeforeAsked, Asked
  <2>4. /\ MarksOnce'
        /\ \A type \in Marks, t \in Sessions :
               Under(type, t)' <=> Under(type, t) \/ (ask.type = type /\ ask.sid = t)
    BY <1>0, <2>1, <2>2, <2>3, AppendMarks
  <2>5. \A t \in Sessions : /\ Asked(t)' <=> Asked(t) \/ t = s
                            /\ Ending(t)' <=> Ending(t)
    BY <2>1, <2>4 DEF Asked, Ending, Marks
  <2>6. \A t \in Sessions : IsActive(t)' <=> IsActive(t)
    BY <2>2 DEF IsActive
  <2>7. OthersSame(s) /\ Asking(s)
    BY <1>0, <2>2, <2>5, <2>6 DEF OthersSame, SameServer, Asking
  <2> QED BY <2>4, <2>7 DEF ServerEffect
<1>3. CASE SessionAccepted(s, Files)
  <2>1. /\ MarksOnce' /\ UnderStays
        /\ prep[s] = "accepted" /\ prep' = [prep EXCEPT ![s] = "done"]
        /\ slot' = ActiveSlot(s)
    BY <1>0, <1>3, NothingSent DEF SessionAccepted, Activate
  <2>2. slot = PendingSlot(s)
    BY <1>0, <2>1 DEF PendingSlotHeld
  <2>3. \A t \in Sessions : ~IsActive(t) /\ (IsActive(t)' <=> t = s)
    BY <2>1, <2>2 DEF IsActive, PendingSlot, ActiveSlot
  <2>4. OthersSame(s) /\ Starting(s)
    BY <1>0, <2>1, <2>3 DEF OthersSame, SameServer, Starting, UnderStays, Asked, Ending, Marks
  <2> QED BY <2>1, <2>4 DEF ServerEffect
<1>4. CASE prep[s] = "declined" /\ SessionRefused(s)
  <2>1. MarksOnce' /\ UnderStays /\ prep' = [prep EXCEPT ![s] = "done"] /\ ClearPending(s)
    BY <1>0, <1>4, NothingSent DEF SessionRefused
  <2>2. OthersSame(s) /\ Still(s) /\ prep'[s] = "done"
    BY <1>0, <2>1, ClearEffect, MoveEffect
  <2> QED BY <1>4, <2>1, <2>2 DEF ServerEffect, Closing
<1> QED BY <1>1, <1>2, <1>3, <1>4

LEMMA LostRequestEffect ==
    ASSUME ServerState, NEW s \in Sessions, LostRequest(s)
    PROVE  MarksOnce' /\ ServerEffect /\ disturbed \subseteq disturbed'
<1>1. /\ TypeOK /\ MarksOnce /\ prep \in [Sessions -> PrepStates]
      /\ prep[s] \notin {"new", "done"}
      /\ AbortPrepare(s)
      /\ disturbed' = disturbed \cup (IF prep[s] = "accepted" THEN {s} ELSE {})
  BY DEF ServerState, IInv, TypeOK, LostRequest, PrepareWithdrawn, SenderGone, Disturb,
         AnsweredStates
<1> DEFINE E == {SessionEvent("PrepareUploadAborted", s, "none")}
<1>2. \A e \in E : e.type \notin Marks
  BY DEF SessionEvent, Event, Marks
<1>3. /\ channel' = channel /\ spawned' = spawned \cup E
      /\ prep' = [prep EXCEPT ![s] = "done"] /\ ClearPending(s)
  BY <1>1 DEF AbortPrepare
<1> HIDE DEF E
<1>4. MarksOnce' /\ UnderStays
  BY <1>1, <1>2, <1>3, UnmarkedSpawn
<1>5. OthersSame(s) /\ Still(s) /\ prep'[s] = "done"
  BY <1>1, <1>3, <1>4, ClearEffect, MoveEffect
<1> QED BY <1>1, <1>4, <1>5 DEF ServerEffect, Closing

LEMMA EndEffects ==
    ASSUME ServerState, NEW s \in Sessions, CancelBySender(s) \/ Reap(s)
    PROVE  MarksOnce' /\ ServerEffect
<1>1. PICK reason \in EndReasons :
          spawned' = spawned \cup {} \cup {SessionEvent("SessionEnd", s, reason)}
  BY DEF CancelBySender, Reap, EndReasons
<1>2. IsActive(s) /\ slot' = FreeSlot /\ prep' = prep /\ channel' = channel
  BY DEF CancelBySender, Reap, DropSession, InSession, IsActive, ActiveSlot, handlerVars
<1>3. \A e \in {} : e.type \notin Marks
  OBVIOUS
<1> QED BY <1>1, <1>2, <1>3, StopEffect DEF ServerState, ServerEffect

LEMMA HandlerEffects ==
    ASSUME ServerState, NEW r \in Requests, HandlerNext(r) \/ DropHandler(r)
    PROVE  MarksOnce' /\ ServerEffect
<1>0. TypeOK /\ RequestShape /\ MarksOnce /\ AllGood
  BY DEF ServerState, IInv
<1>1. CASE AskTarget(r) \/ Report(r)
  <2>1. req[r] # IdleRequest /\ req[r].outcome \in SaveOutcomes \cup {"none"}
    BY <1>0, <1>1 DEF AskTarget, Report, IdleRequest, TypeOK, RequestType
  <2>2. PICK type \in {"FileUpload", "FileUploadResult"}, outcome \in SaveOutcomes \cup {"none"} :
            /\ channel' = Append(channel, RequestEvent(type, r, outcome))
            /\ RequestEvent(type, r, outcome) \in Events
    BY <1>0, <1>1, <2>1, Announced DEF AskTarget, Report, Emits
  <2>3. spawned' = spawned /\ slot' = slot /\ prep' = prep
    BY <1>1 DEF AskTarget, Report
  <2>4. RequestEvent(type, r, outcome).type \notin Marks
    BY DEF RequestEvent, Event, Marks
  <2>5. MarksOnce' /\ UnderStays
    BY <1>0, <2>2, <2>3, <2>4, UnmarkedAppend
  <2> QED BY <2>3, <2>5, QuietEffect DEF ServerEffect
<1>2. CASE TargetRefused(r) \/ Finish(r) \/ DropUpload(r)
  <2>1. req[r].sid \in Sessions
    BY <1>0, <1>2 DEF TargetRefused, Finish, DropUpload, RequestShape, IdleRequest
  <2> DEFINE cut == RequestEvent("FileUploadResult", r, "Interrupted")
  <2>2. cut.type \notin Marks
    BY DEF RequestEvent, Event, Marks
  <2>3. PICK results \in {{}, {cut}}, outcome \in SaveOutcomes \cup {"none"} :
            FinalizeFile(req[r].sid, req[r].file, outcome, results)
    BY <1>0, <1>2 DEF TargetRefused, Finish, DropUpload, TypeOK, RequestType, SaveOutcomes
  <2> HIDE DEF cut
  <2>4. \A e \in results : e.type \notin Marks
    BY <2>2, <2>3
  <2>5. prep' = prep /\ channel' = channel
    BY <1>2 DEF TargetRefused, Finish, DropUpload
  <2> QED BY <1>0, <2>1, <2>3, <2>4, <2>5, FinalizeEffect
<1>3. CASE \/ StartSaving(r) \/ BodyHeld(r) \/ DropConfirm(r)
           \/ \E outcome \in SaveOutcomes : BodySaved(r, outcome) \/ Settle(r, outcome)
  <2>1. channel' = channel /\ spawned' = spawned /\ slot' = slot /\ prep' = prep
    BY <1>3 DEF StartSaving, BodyHeld, DropConfirm, BodySaved, Settle
  <2> QED BY <1>0, <2>1, NothingSent, QuietEffect DEF ServerEffect
<1> QED BY <1>1, <1>2, <1>3 DEF HandlerNext, DropHandler

LEMMA ServerEffects ==
    ASSUME ServerState, ReceiveServerNext
    PROVE  MarksOnce' /\ ServerEffect /\ disturbed \subseteq disturbed'
<1>0. TypeOK /\ MarksOnce
  BY DEF ServerState, IInv
<1>1. ASSUME channel' = channel, spawned' = spawned, slot' = slot, prep' = prep
      PROVE  MarksOnce' /\ ServerEffect
  BY <1>0, <1>1, NothingSent, QuietEffect DEF ServerEffect
<1>2. ASSUME NEW s \in Sessions, CancelPending(s) \/ Touch(s)
      PROVE  MarksOnce' /\ ServerEffect
  BY <1>1, <1>2 DEF CancelPending, Touch, handlerVars
<1>3. ASSUME NEW r \in Requests, NEW s \in Sessions, NEW f \in Files, RequestNext(r, s, f)
      PROVE  MarksOnce' /\ ServerEffect
  BY <1>1, <1>3 DEF RequestNext, BeginUpload, BeginConfirm
<1>4. ASSUME TenMinutes
      PROVE  MarksOnce' /\ ServerEffect
  BY <1>1, <1>4 DEF TenMinutes, handlerVars
<1>5. ASSUME NEW e \in spawned, Deliver(e)
      PROVE  MarksOnce' /\ ServerEffect
  <2>1. MarksOnce' /\ UnderStays
    BY <1>0, <1>5, DeliverMarks
  <2>2. prep' = prep /\ slot' = slot
    BY <1>5 DEF Deliver, handlerVars
  <2> QED BY <2>1, <2>2, QuietEffect DEF ServerEffect
<1>6. CASE QuietServerNext /\ UNCHANGED disturbed
  <2>1. MarksOnce' /\ ServerEffect
    BY <1>2, <1>3, <1>4, <1>5, <1>6, RequestEffects, EndEffects, HandlerEffects
    DEF QuietServerNext, ReceivePrepareNext, ReceiveRequestNext
  <2> QED BY <1>6, <2>1
<1>7. ASSUME NEW r \in Requests, LostConnection(r)
      PROVE  MarksOnce' /\ ServerEffect /\ disturbed \subseteq disturbed'
  <2>1. HandlerNext(r) \/ DropHandler(r)
    BY <1>7 DEF LostConnection, HandlerNext, SaveOutcomes
  <2> QED BY <1>7, <2>1, HandlerEffects DEF LostConnection, Disturb
<1> QED BY <1>6, <1>7, LostRequestEffect DEF ReceiveServerNext

------------------------------------------------------------------------------
(* The steps of the runtime, by what they do to a session.                 *)

State == ServerState /\ ReceiveTypeOK

\* Outcomes shown before the step are shown after it.
OutcomesKept ==
    \A s \in Sessions \ disturbed' : transfer[s] \in FinalStates => transfer'[s] = transfer[s]

Kept == /\ ReceiveTypeOK'
        /\ MarksOnce'
        /\ AllGood'
        /\ disturbed \subseteq disturbed'
        /\ OutcomesKept

\* What a step that sends no event leaves as it is.
Aside == UNCHANGED <<slot, channel, spawned>>

LEMMA AsideStill ==
    ASSUME MarksOnce, Aside
    PROVE  MarksOnce' /\ \A s \in Sessions : Still(s)
<1>1. MarksOnce' /\ UnderStays
  BY NothingSent DEF Aside
<1> QED BY <1>1 DEF Aside, Still, IsActive, UnderStays, Asked, Ending, Marks

LEMMA AnswerMoves ==
    ASSUME prep \in [Sessions -> PrepStates], NEW s \in Sessions, NEW answer,
           AnswerPrepare(s, answer)
    PROVE  /\ \A t \in Sessions \ {s} : prep'[t] = prep[t]
           /\ prep'[s] = IF prep[s] = "waiting" THEN answer ELSE prep[s]
BY DEF AnswerPrepare

\* Nothing is known of the session any more, or its transfer is over.
LEMMA ClosedIsGood ==
    ASSUME NEW s \in Sessions, Good(s), Still(s),
           question = s \/ accepting[s] \in {"offered", "taken", "stored"},
           prep'[s] = prep[s] \/ prep'[s] = (IF prep[s] = "waiting" THEN "declined" ELSE prep[s]),
           accepting'[s] = "no", question' # s, ~UnderWay(s)'
    PROVE  Good(s)'
BY DEF Good, BeforeAsked, BeforeAnswered, Agrees, Accepted, UnderWay, Still

LEMMA StateParts ==
    ASSUME State
    PROVE  /\ TypeOK /\ MarksOnce /\ AllGood /\ RInv
           /\ BooksTyped /\ AcceptTyped /\ RestTyped
           /\ prep \in [Sessions -> PrepStates]
BY ReceiveTypeParts DEF State, ServerState, IInv, TypeOK, RInv

LEMMA UserAcceptsKeeps ==
    ASSUME State, NEW s \in Sessions, UserAccepts(s)
    PROVE  Kept
<1>0. /\ MarksOnce /\ AllGood /\ BooksTyped /\ AcceptTyped /\ RestTyped
  BY StateParts
<1>1. /\ question = s /\ question' = NoSession
      /\ accepting' = [accepting EXCEPT ![s] = "taken"]
      /\ UNCHANGED <<prep, transfer, view, incoming, loop, conflicts, disturbed>>
      /\ Aside
  BY DEF UserAccepts, vars, Aside
<1>2. MarksOnce' /\ \A t \in Sessions : Still(t)
  BY <1>0, <1>1, AsideStill
<1>3. /\ AcceptTyped'
      /\ \A t \in Sessions : accepting'[t] = IF t = s THEN "taken" ELSE accepting[t]
  BY <1>0, <1>1, AcceptMoves DEF AcceptStates
<1>4. ReceiveTypeOK'
  BY <1>0, <1>1, <1>3, ReceiveTypeParts DEF BooksTyped, RestTyped, ReceiveTypeOK, AcceptTyped, AcceptStates, IncomingType
<1>5. ASSUME NEW t \in Sessions, t # s
      PROVE  Good(t)'
  <2>1. SameServer(t) /\ SameRuntime(t)
    BY <1>1, <1>2, <1>3, <1>5, SessionsExist DEF SameServer, SameRuntime, Still
  <2> QED BY <1>0, <1>1, <2>1, Untouched DEF AllGood
<1>6. Good(s)'
  <2>1. Good(s) /\ Still(s)
    BY <1>0, <1>2 DEF AllGood
  <2> QED BY <1>1, <1>3, <2>1, SessionsExist
          DEF Good, BeforeAsked, BeforeAnswered, Agrees, Accepted, UnderWay, Still
<1> QED BY <1>1, <1>2, <1>4, <1>5, <1>6 DEF Kept, AllGood, OutcomesKept

LEMMA FinalCompletes ==
    ASSUME BooksTyped, NEW s \in Sessions, NEW state \in FinalStates,
           CompleteTransfer(s, state)
    PROVE  /\ BooksTyped'
           /\ \A t \in Sessions \ {s} : transfer'[t] = transfer[t]
           /\ ~UnderWay(s)'
           /\ OutcomesKept
<1>1. /\ BooksTyped'
      /\ \A t \in Sessions \ {s} : transfer'[t] = transfer[t]
      /\ transfer'[s] = IF CanComplete(s) THEN state ELSE transfer[s]
  BY CompleteTypes
<1> QED BY <1>1 DEF CanComplete, UnderWay, OutcomesKept, FinalStates, BooksTyped, TransferStates

LEMMA UserDeclinesKeeps ==
    ASSUME State, NEW s \in Sessions, UserDeclines(s)
    PROVE  Kept
<1>0. /\ MarksOnce /\ AllGood /\ BooksTyped /\ AcceptTyped /\ RestTyped
      /\ prep \in [Sessions -> PrepStates]
  BY StateParts
<1>1. /\ question = s /\ question' = NoSession
      /\ AnswerPrepare(s, "declined") /\ CompleteTransfer(s, "Declined")
      /\ UNCHANGED <<incoming, accepting, loop, conflicts, disturbed>>
      /\ Aside
  BY DEF UserDeclines, serverRest, Aside
<1>2. MarksOnce' /\ \A t \in Sessions : Still(t)
  BY <1>0, <1>1, AsideStill
<1>3. /\ BooksTyped' /\ ~UnderWay(s)' /\ OutcomesKept
      /\ \A t \in Sessions \ {s} : transfer'[t] = transfer[t]
  BY <1>0, <1>1, FinalCompletes DEF FinalStates
<1>4. /\ \A t \in Sessions \ {s} : prep'[t] = prep[t]
      /\ prep'[s] = IF prep[s] = "waiting" THEN "declined" ELSE prep[s]
  BY <1>0, <1>1, AnswerMoves
<1>5. ReceiveTypeOK'
  <2>1. AcceptTyped' /\ RestTyped'
    BY <1>0, <1>1 DEF AcceptTyped, RestTyped
  <2> QED BY <1>3, <2>1, ReceiveTypeParts DEF BooksTyped, RestTyped, ReceiveTypeOK, AcceptTyped, AcceptStates, IncomingType
<1>6. ASSUME NEW t \in Sessions, t # s
      PROVE  Good(t)'
  <2>1. SameServer(t) /\ SameRuntime(t)
    BY <1>1, <1>2, <1>3, <1>4, <1>6, SessionsExist DEF SameServer, SameRuntime, Still
  <2> QED BY <1>0, <1>1, <2>1, Untouched DEF AllGood
<1>7. Good(s)'
  <2>1. Good(s) /\ Still(s) /\ accepting[s] = "no"
    BY <1>0, <1>1, <1>2 DEF AllGood, Good, BeforeAnswered
  <2> QED BY <1>1, <1>3, <1>4, <2>1, ClosedIsGood, SessionsExist
<1> QED BY <1>1, <1>2, <1>3, <1>5, <1>6, <1>7 DEF Kept, AllGood

LEMMA UserCancelsKeeps ==
    ASSUME State, NEW s \in Sessions, UserCancels(s)
    PROVE  Kept
<1>0. /\ MarksOnce /\ AllGood /\ BooksTyped /\ AcceptTyped /\ RestTyped
      /\ prep \in [Sessions -> PrepStates]
  BY StateParts
<1>1. /\ transfer[s] # "none"
      /\ UNCHANGED <<channel, spawned, incoming, accepting, loop, conflicts>>
      /\ disturbed' = disturbed \cup (IF accepting[s] # "no" THEN {s} ELSE {})
      /\ \/ /\ question = s /\ question' = NoSession
            /\ AnswerPrepare(s, "declined") /\ CompleteTransfer(s, "Declined")
         \/ /\ question # s /\ question' = question
            /\ prep' = prep /\ CompleteTransfer(s, "Cancelled")
      /\ \/ IsActive(s) /\ slot' = FreeSlot
         \/ ~IsActive(s) /\ slot' = slot
  BY DEF UserCancels, Disturb, DropSession, InSession, IsActive, ActiveSlot
<1>2. MarksOnce' /\ UnderStays
  BY <1>0, <1>1, NothingSent
<1>3. /\ BooksTyped' /\ ~UnderWay(s)' /\ OutcomesKept
      /\ \A t \in Sessions \ {s} : transfer'[t] = transfer[t]
  BY <1>0, <1>1, FinalCompletes DEF FinalStates
<1>4. /\ \A t \in Sessions \ {s} : prep'[t] = prep[t]
      /\ \/ prep'[s] = prep[s]
         \/ prep[s] = "waiting" /\ prep'[s] = "declined"
  BY <1>0, <1>1, AnswerMoves
<1>5. /\ \A t \in Sessions \ {s} : IsActive(t)' <=> IsActive(t)
      /\ IsActive(s)' => IsActive(s)
  BY <1>1 DEF IsActive, FreeSlot
<1>6. ReceiveTypeOK'
  <2>1. AcceptTyped' /\ RestTyped'
    BY <1>0, <1>1 DEF AcceptTyped, RestTyped
  <2> QED BY <1>3, <2>1 DEF BooksTyped, RestTyped, ReceiveTypeOK, AcceptTyped, AcceptStates, IncomingType
<1>7. ASSUME NEW t \in Sessions, t # s
      PROVE  Good(t)'
  <2>1. SameServer(t) /\ SameRuntime(t)
    BY <1>1, <1>2, <1>3, <1>4, <1>5, <1>7, SessionsExist
    DEF SameServer, SameRuntime, UnderStays, Asked, Ending, Marks
  <2> QED BY <1>0, <1>1, <1>7, <2>1, Untouched DEF AllGood
<1>8. Good(s)'
  <2>1. Good(s) /\ (Asked(s)' <=> Asked(s)) /\ (Ending(s)' <=> Ending(s))
    BY <1>0, <1>2 DEF AllGood, UnderStays, Asked, Ending, Marks
  <2>2. question' # s
    BY <1>1, SessionsExist
  <2>3. BeforeAsked(s)' /\ BeforeAnswered(s)'
    BY <1>1, <1>4, <1>5, <2>1, <2>2 DEF Good, BeforeAsked, BeforeAnswered, Accepted
  <2>4. s \notin disturbed' => Agrees(s)'
    BY <1>1, <1>3, <1>4, <1>5, <2>1, <2>2 DEF Good, Agrees, Accepted, UnderWay
  <2> QED BY <2>3, <2>4 DEF Good
<1> QED BY <1>1, <1>2, <1>3, <1>6, <1>7, <1>8 DEF Kept, AllGood

LEMMA RegisterQuestionKeeps ==
    ASSUME State, NEW s \in Sessions, RegisterQuestion(s)
    PROVE  Kept
<1>0. /\ MarksOnce /\ AllGood /\ BooksTyped /\ AcceptTyped /\ RestTyped
      /\ prep \in [Sessions -> PrepStates]
  BY StateParts
<1>1. /\ accepting[s] = "offered"
      /\ accepting' = [accepting EXCEPT ![s] = "no"]
      /\ question' = s
      /\ LoopAfter(s)
      /\ UNCHANGED <<incoming, conflicts, disturbed>>
      /\ Aside
  BY DEF RegisterQuestion, serverRest, Aside
<1>2. MarksOnce' /\ \A t \in Sessions : Still(t)
  BY <1>0, <1>1, AsideStill
<1>3. /\ AcceptTyped'
      /\ \A t \in Sessions : accepting'[t] = IF t = s THEN "no" ELSE accepting[t]
  BY <1>0, <1>1, AcceptMoves DEF AcceptStates
<1>4. question # s
  BY <1>0, <1>1 DEF AllGood, Good, BeforeAnswered
<1>5. /\ BooksTyped' /\ OutcomesKept
      /\ \A t \in Sessions : t # question => /\ transfer'[t] = transfer[t]
                                             /\ prep'[t] = prep[t]
      /\ \A q \in Sessions : q = question =>
             /\ ~UnderWay(q)'
             /\ prep'[q] = IF prep[q] = "waiting" THEN "declined" ELSE prep[q]
  <2>1. CASE question = NoSession
    BY <1>0, <2>1, SessionsExist DEF RegisterQuestion, DeclinePrevious, BooksTyped, OutcomesKept
  <2>2. ASSUME NEW q \in Sessions, q = question
        PROVE  /\ BooksTyped' /\ OutcomesKept
               /\ \A t \in Sessions \ {q} : transfer'[t] = transfer[t] /\ prep'[t] = prep[t]
               /\ ~UnderWay(q)'
               /\ prep'[q] = IF prep[q] = "waiting" THEN "declined" ELSE prep[q]
    <3>1. AnswerPrepare(q, "declined") /\ CompleteTransfer(q, "Declined")
      BY <1>0, <2>2, SessionsExist DEF RegisterQuestion, DeclinePrevious, RestTyped
    <3>2. /\ BooksTyped' /\ ~UnderWay(q)' /\ OutcomesKept
          /\ \A t \in Sessions \ {q} : transfer'[t] = transfer[t]
      BY <1>0, <3>1, FinalCompletes DEF FinalStates
    <3>3. /\ \A t \in Sessions \ {q} : prep'[t] = prep[t]
          /\ prep'[q] = IF prep[q] = "waiting" THEN "declined" ELSE prep[q]
      BY <1>0, <3>1, AnswerMoves
    <3> QED BY <3>2, <3>3
  <2> QED BY <1>0, <2>1, <2>2 DEF RestTyped
<1>6. ReceiveTypeOK'
  <2>1. RestTyped'
    BY <1>0, <1>1 DEF RestTyped
  <2> QED BY <1>3, <1>5, <2>1 DEF BooksTyped, RestTyped, ReceiveTypeOK, AcceptTyped, AcceptStates, IncomingType
<1>7. ASSUME NEW t \in Sessions, t # s, t # question
      PROVE  Good(t)'
  <2>1. SameServer(t) /\ SameRuntime(t)
    BY <1>1, <1>2, <1>3, <1>5, <1>7 DEF SameServer, SameRuntime, Still
  <2> QED BY <1>0, <1>1, <2>1, Untouched DEF AllGood
<1>8. ASSUME NEW t \in Sessions, t = question
      PROVE  Good(t)'
  <2>1. Good(t) /\ Still(t) /\ t # s /\ t # NoSession /\ accepting[t] = "no"
    BY <1>0, <1>2, <1>4, <1>8, SessionsExist DEF AllGood, Good, BeforeAnswered
  <2>2. /\ accepting'[t] = "no" /\ question' # t /\ ~UnderWay(t)'
        /\ prep'[t] = IF prep[t] = "waiting" THEN "declined" ELSE prep[t]
    BY <1>1, <1>3, <1>5, <1>8, <2>1
  <2> QED BY <1>8, <2>1, <2>2, ClosedIsGood
<1>9. Good(s)'
  <2>1. Good(s) /\ Still(s) /\ prep'[s] = prep[s] /\ transfer'[s] = transfer[s]
    BY <1>0, <1>2, <1>4, <1>5 DEF AllGood
  <2> QED BY <1>1, <1>3, <2>1
          DEF Good, BeforeAsked, BeforeAnswered, Agrees, Accepted, UnderWay, Still
<1> QED BY <1>1, <1>2, <1>5, <1>6, <1>7, <1>8, <1>9 DEF Kept, AllGood

LEMMA AcceptFailsKeeps ==
    ASSUME State, NEW s \in Sessions, AcceptFails(s)
    PROVE  Kept
<1>0. /\ MarksOnce /\ AllGood /\ BooksTyped /\ AcceptTyped /\ RestTyped
      /\ prep \in [Sessions -> PrepStates]
  BY StateParts
<1>1. /\ accepting[s] = "taken"
      /\ accepting' = [accepting EXCEPT ![s] = "no"]
      /\ AnswerPrepare(s, "declined") /\ CompleteTransfer(s, "Failed")
      /\ LoopAfter(s)
      /\ UNCHANGED <<question, incoming, conflicts, disturbed>>
      /\ Aside
  BY DEF AcceptFails, serverRest, Aside
<1>2. MarksOnce' /\ \A t \in Sessions : Still(t)
  BY <1>0, <1>1, AsideStill
<1>3. /\ AcceptTyped'
      /\ \A t \in Sessions : accepting'[t] = IF t = s THEN "no" ELSE accepting[t]
  BY <1>0, <1>1, AcceptMoves DEF AcceptStates
<1>4. /\ BooksTyped' /\ ~UnderWay(s)' /\ OutcomesKept
      /\ \A t \in Sessions \ {s} : transfer'[t] = transfer[t]
  BY <1>0, <1>1, FinalCompletes DEF FinalStates
<1>5. /\ \A t \in Sessions \ {s} : prep'[t] = prep[t]
      /\ prep'[s] = IF prep[s] = "waiting" THEN "declined" ELSE prep[s]
  BY <1>0, <1>1, AnswerMoves
<1>6. ReceiveTypeOK'
  <2>1. RestTyped'
    BY <1>0, <1>1 DEF RestTyped
  <2> QED BY <1>3, <1>4, <2>1 DEF BooksTyped, RestTyped, ReceiveTypeOK, AcceptTyped, AcceptStates, IncomingType
<1>7. ASSUME NEW t \in Sessions, t # s
      PROVE  Good(t)'
  <2>1. SameServer(t) /\ SameRuntime(t)
    BY <1>1, <1>2, <1>3, <1>4, <1>5, <1>7 DEF SameServer, SameRuntime, Still
  <2> QED BY <1>0, <1>1, <2>1, Untouched DEF AllGood
<1>8. Good(s)'
  <2>1. Good(s) /\ Still(s) /\ question' # s
    BY <1>0, <1>1, <1>2 DEF AllGood, Good, BeforeAnswered
  <2> QED BY <1>1, <1>3, <1>4, <1>5, <2>1, ClosedIsGood
<1> QED BY <1>1, <1>2, <1>4, <1>6, <1>7, <1>8 DEF Kept, AllGood

LEMMA StoreIncomingKeeps ==
    ASSUME State, NEW s \in Sessions, StoreIncoming(s)
    PROVE  Kept
<1>0. /\ MarksOnce /\ AllGood /\ BooksTyped /\ AcceptTyped /\ RestTyped
      /\ prep \in [Sessions -> PrepStates]
  BY StateParts
<1>1. /\ accepting[s] = "taken"
      /\ accepting' = [accepting EXCEPT ![s] = "stored"]
      /\ incoming' = NewIncoming(s)
      /\ disturbed' = disturbed \cup ({incoming.sid} \ {NoSession, s})
      /\ UNCHANGED <<prep, transfer, view, question, loop, conflicts>>
      /\ Aside
  BY DEF StoreIncoming, Disturb, Others, vars, Aside
<1>2. MarksOnce' /\ \A t \in Sessions : Still(t)
  BY <1>0, <1>1, AsideStill
<1>3. /\ AcceptTyped'
      /\ \A t \in Sessions : accepting'[t] = IF t = s THEN "stored" ELSE accepting[t]
  BY <1>0, <1>1, AcceptMoves DEF AcceptStates
<1>4. incoming' \in IncomingType /\ incoming'.sid = s
  BY <1>1, NewIncomingTypes
<1>5. disturbed \subseteq disturbed' /\ disturbed' \subseteq Sessions
  BY <1>0, <1>1 DEF RestTyped, IncomingType
<1>6. ReceiveTypeOK'
  <2>1. RestTyped' /\ BooksTyped'
    BY <1>0, <1>1, <1>4, <1>5 DEF RestTyped, BooksTyped
  <2> QED BY <1>3, <2>1 DEF BooksTyped, RestTyped, ReceiveTypeOK, AcceptTyped, AcceptStates, IncomingType
<1>7. ASSUME NEW t \in Sessions, t # s
      PROVE  Good(t)'
  <2>1. SameServer(t) /\ SameRuntime(t)
    BY <1>1, <1>2, <1>3, <1>7, SessionsExist DEF SameServer, SameRuntime, Still
  <2> QED BY <1>0, <1>5, <2>1, Untouched DEF AllGood
<1>8. Good(s)'
  <2>1. Good(s) /\ Still(s)
    BY <1>0, <1>2 DEF AllGood
  <2> QED BY <1>1, <1>3, <1>4, <2>1 DEF Good, BeforeAsked, BeforeAnswered, Agrees, Accepted, UnderWay, Still
<1> QED BY <1>1, <1>2, <1>5, <1>6, <1>7, <1>8 DEF Kept, AllGood, OutcomesKept

LEMMA SendDecisionKeeps ==
    ASSUME State, NEW s \in Sessions, SendDecision(s)
    PROVE  Kept
<1>0. /\ MarksOnce /\ AllGood /\ BooksTyped /\ AcceptTyped /\ RestTyped
      /\ prep \in [Sessions -> PrepStates]
  BY StateParts
<1>1. accepting[s] = "stored" /\ Aside /\ UNCHANGED <<question, conflicts>>
  BY DEF SendDecision, serverRest, Aside
<1>2. MarksOnce' /\ \A t \in Sessions : Still(t)
  BY <1>0, <1>1, AsideStill
<1>3. Good(s) /\ Still(s)
  BY <1>0, <1>2 DEF AllGood
<1>4. CASE prep[s] = "waiting"
  <2>1. /\ AnswerPrepare(s, "accepted")
        /\ accepting' = [accepting EXCEPT ![s] = "sent"]
        /\ UNCHANGED <<transfer, view, incoming, loop, disturbed>>
    BY <1>4 DEF SendDecision
  <2>2. /\ \A t \in Sessions \ {s} : prep'[t] = prep[t]
        /\ prep'[s] = "accepted"
    BY <1>0, <1>4, <2>1, AnswerMoves
  <2>3. /\ AcceptTyped'
        /\ \A t \in Sessions : accepting'[t] = IF t = s THEN "sent" ELSE accepting[t]
    BY <1>0, <2>1, AcceptMoves DEF AcceptStates
  <2>4. ReceiveTypeOK'
    <3>1. RestTyped' /\ BooksTyped'
      BY <1>0, <1>1, <2>1 DEF RestTyped, BooksTyped
    <3> QED BY <2>3, <3>1 DEF BooksTyped, RestTyped, ReceiveTypeOK, AcceptTyped, AcceptStates, IncomingType
  <2>5. ASSUME NEW t \in Sessions, t # s
        PROVE  Good(t)'
    <3>1. SameServer(t) /\ SameRuntime(t)
      BY <1>1, <1>2, <2>1, <2>2, <2>3, <2>5 DEF SameServer, SameRuntime, Still
    <3> QED BY <1>0, <2>1, <3>1, Untouched DEF AllGood
  <2>6. Good(s)'
    BY <1>1, <1>3, <1>4, <2>1, <2>2, <2>3 DEF Good, BeforeAsked, BeforeAnswered, Agrees, Accepted, UnderWay, Still
  <2> QED BY <1>2, <2>1, <2>4, <2>5, <2>6 DEF Kept, AllGood, OutcomesKept
<1>5. CASE prep[s] # "waiting"
  <2>1. /\ incoming' = NoIncoming
        /\ RemoveTransfer(s)
        /\ accepting' = [accepting EXCEPT ![s] = "no"]
        /\ LoopAfter(s)
        /\ disturbed' = disturbed \cup ({incoming.sid} \ {NoSession, s})
        /\ prep' = prep
    BY <1>5 DEF SendDecision, Disturb, Others
  <2>2. /\ BooksTyped'
        /\ \A t \in Sessions : transfer'[t] = IF t = s THEN "none" ELSE transfer[t]
    BY <1>0, <2>1, RemoveTypes
  <2>3. /\ AcceptTyped'
        /\ \A t \in Sessions : accepting'[t] = IF t = s THEN "no" ELSE accepting[t]
    BY <1>0, <2>1, AcceptMoves DEF AcceptStates
  <2>4. disturbed \subseteq disturbed' /\ disturbed' \subseteq Sessions
    BY <1>0, <2>1 DEF RestTyped, IncomingType
  <2>5. ReceiveTypeOK'
    <3>1. incoming' \in IncomingType
      BY <2>1 DEF NoIncoming, IncomingType
    <3>2. RestTyped'
      BY <1>0, <1>1, <2>4, <3>1 DEF RestTyped
    <3> QED BY <2>2, <2>3, <3>2 DEF BooksTyped, RestTyped, ReceiveTypeOK, AcceptTyped, AcceptStates, IncomingType
  <2>6. ASSUME NEW t \in Sessions, t # s
        PROVE  Good(t)'
    <3>1. SameServer(t) /\ SameRuntime(t)
      BY <1>1, <1>2, <2>1, <2>2, <2>3, <2>6, SessionsExist DEF SameServer, SameRuntime, Still
    <3> QED BY <1>0, <2>4, <3>1, Untouched DEF AllGood
  <2>7. ~UnderWay(s)' /\ accepting'[s] = "no" /\ question' # s
    BY <1>1, <1>3, <2>2, <2>3 DEF UnderWay, Good, BeforeAnswered
  <2>8. Good(s)'
    BY <1>1, <1>3, <2>1, <2>7, ClosedIsGood
  <2>9. OutcomesKept
    <3>1. s \notin disturbed' => transfer[s] \notin FinalStates
      BY <1>1, <1>3, <2>4 DEF Good, Agrees, UnderWay, FinalStates
    <3> QED BY <2>2, <3>1 DEF OutcomesKept
  <2> QED BY <1>2, <2>4, <2>5, <2>6, <2>8, <2>9 DEF Kept, AllGood
<1> QED BY <1>4, <1>5

LEMMA MarkActiveKeeps ==
    ASSUME State, NEW s \in Sessions, MarkActive(s)
    PROVE  Kept
<1>0. /\ MarksOnce /\ AllGood /\ BooksTyped /\ AcceptTyped /\ RestTyped
      /\ prep \in [Sessions -> PrepStates]
  BY StateParts
<1>1. /\ accepting[s] = "sent"
      /\ accepting' = [accepting EXCEPT ![s] = "no"]
      /\ transfer[s] = "none" => transfer' = transfer
      /\ transfer[s] # "none" => transfer' = [transfer EXCEPT ![s] = "Active"]
      /\ LoopAfter(s)
      /\ UNCHANGED <<prep, view, question, incoming, conflicts, disturbed>>
      /\ Aside
  BY DEF MarkActive, vars, Aside
<1>2. MarksOnce' /\ \A t \in Sessions : Still(t)
  BY <1>0, <1>1, AsideStill
<1>3. /\ AcceptTyped'
      /\ \A t \in Sessions : accepting'[t] = IF t = s THEN "no" ELSE accepting[t]
  BY <1>0, <1>1, AcceptMoves DEF AcceptStates
<1>4. Good(s) /\ Still(s)
  BY <1>0, <1>2 DEF AllGood
<1>5. /\ BooksTyped'
      /\ \A t \in Sessions \ {s} : transfer'[t] = transfer[t]
      /\ transfer[s] # "none" => transfer'[s] = "Active"
      /\ transfer[s] = "none" => transfer'[s] = "none"
  BY <1>0, <1>1 DEF BooksTyped, TransferStates
<1>6. ReceiveTypeOK'
  <2>1. RestTyped'
    BY <1>0, <1>1 DEF RestTyped
  <2> QED BY <1>3, <1>5, <2>1 DEF BooksTyped, RestTyped, ReceiveTypeOK, AcceptTyped, AcceptStates, IncomingType
<1>7. ASSUME NEW t \in Sessions, t # s
      PROVE  Good(t)'
  <2>1. SameServer(t) /\ SameRuntime(t)
    BY <1>1, <1>2, <1>3, <1>5, <1>7 DEF SameServer, SameRuntime, Still
  <2> QED BY <1>0, <1>1, <2>1, Untouched DEF AllGood
<1>8. Good(s)'
  <2>1. /\ prep'[s] = prep[s] /\ accepting'[s] = "no" /\ (question' = s <=> question = s)
        /\ incoming' = incoming /\ disturbed' = disturbed
    BY <1>1, <1>3
  <2>2. /\ prep[s] \notin {"new", "claimed"} /\ ~Asked(s) /\ question # s
        /\ s \notin disturbed => /\ incoming.sid = s /\ Accepted(s) /\ UnderWay(s)
    BY <1>1, <1>4 DEF Good, BeforeAsked, BeforeAnswered, Agrees
  <2>3. Accepted(s)' <=> Accepted(s)
    BY <1>4, <2>1 DEF Accepted, Still
  <2>4. UnderWay(s) => UnderWay(s)'
    BY <1>5 DEF UnderWay
  <2>5. BeforeAsked(s)' /\ BeforeAnswered(s)'
    BY <1>4, <2>1, <2>2, <2>3 DEF Good, BeforeAsked, BeforeAnswered, Still
  <2>6. s \notin disturbed' => Agrees(s)'
    BY <2>1, <2>2, <2>3, <2>4 DEF Agrees
  <2> QED BY <2>5, <2>6 DEF Good
<1>9. OutcomesKept
  <2>1. s \notin disturbed' => transfer[s] \notin FinalStates
    BY <1>1, <1>4 DEF Good, Agrees, UnderWay, FinalStates
  <2> QED BY <1>5, <2>1 DEF OutcomesKept
<1> QED BY <1>1, <1>2, <1>6, <1>7, <1>8, <1>9 DEF Kept, AllGood

------------------------------------------------------------------------------
(* The steps of the event loop.                                            *)

LEMMA TakenFacts ==
    ASSUME State, NEW type, Takes(type), UNCHANGED serverRest
    PROVE  /\ MarksOnce' /\ loop = NoSession
           /\ First.sid \in Sessions
           /\ type \in {"FileUpload", "FileUploadResult"} =>
                  First.file \in Files /\ First.req \in Requests
           /\ \A s \in Sessions :
                  /\ IsActive(s)' <=> IsActive(s)
                  /\ Asked(s)' <=> Asked(s) /\ ~(type = "PrepareUpload" /\ First.sid = s)
                  /\ Ending(s)' <=> Ending(s) /\ ~(type = "SessionEnd" /\ First.sid = s)
           /\ type = "PrepareUpload" => Asked(First.sid)
           /\ type = "SessionEnd" => Ending(First.sid)
<1>0. TypeOK /\ MarksOnce /\ RInv
  BY StateParts
<1>1. /\ channel # <<>> /\ channel' = Tail(channel) /\ spawned' = spawned /\ slot' = slot
      /\ First.type = type /\ loop = NoSession
  BY DEF Takes, serverRest
<1>2. /\ First.sid \in Sessions /\ First \in Queued
      /\ type \in {"FileUpload", "FileUploadResult"} =>
             First.file \in Files /\ First.req \in Requests
  BY <1>0, TakenEvent
<1>3. /\ MarksOnce'
      /\ \A mark \in Marks, s \in Sessions :
             Under(mark, s)' <=> Under(mark, s) /\ ~(First.type = mark /\ First.sid = s)
  BY <1>0, <1>1, TakeMarks
<1>4. \A s \in Sessions : IsActive(s)' <=> IsActive(s)
  BY <1>1 DEF IsActive
<1>5. \A s \in Sessions :
          /\ Asked(s)' <=> Asked(s) /\ ~(type = "PrepareUpload" /\ First.sid = s)
          /\ Ending(s)' <=> Ending(s) /\ ~(type = "SessionEnd" /\ First.sid = s)
  BY <1>1, <1>3 DEF Asked, Ending, Marks
<1>6. /\ type = "PrepareUpload" => Asked(First.sid)
      /\ type = "SessionEnd" => Ending(First.sid)
  BY <1>1, <1>2 DEF Asked, Ending, Under
<1> QED BY <1>1, <1>2, <1>3, <1>4, <1>5, <1>6

LEMMA PrepareTaken ==
    ASSUME State, NEW state \in {"WaitingAccept", "Active"}, NEW stage \in {"offered", "taken"},
           Takes("PrepareUpload"),
           transfer' = [transfer EXCEPT ![First.sid] = state],
           accepting' = [accepting EXCEPT ![First.sid] = stage],
           loop' = First.sid,
           UNCHANGED serverRest,
           UNCHANGED <<prep, view, question, incoming, conflicts, disturbed>>
    PROVE  Kept
<1>0. /\ MarksOnce /\ AllGood /\ BooksTyped /\ AcceptTyped /\ RestTyped
      /\ prep \in [Sessions -> PrepStates]
  BY StateParts
<1>1. PICK s : s = First.sid
  OBVIOUS
<1>2. /\ MarksOnce' /\ s \in Sessions
      /\ \A t \in Sessions : /\ IsActive(t)' <=> IsActive(t)
                             /\ Asked(t)' <=> Asked(t) /\ t # s
                             /\ Ending(t)' <=> Ending(t)
      /\ Asked(s)
  <2>1. Takes("PrepareUpload") /\ UNCHANGED serverRest
    OBVIOUS
  <2>2. /\ MarksOnce' /\ First.sid \in Sessions /\ Asked(First.sid)
        /\ \A t \in Sessions : /\ IsActive(t)' <=> IsActive(t)
                               /\ Asked(t)' <=> Asked(t) /\ First.sid # t
                               /\ Ending(t)' <=> Ending(t)
    BY <2>1, TakenFacts
  <2> QED BY <1>1, <2>2
<1>3. /\ accepting' = [accepting EXCEPT ![s] = stage]
      /\ transfer' = [transfer EXCEPT ![s] = state]
      /\ loop' = s
  BY <1>1
<1>4. /\ AcceptTyped'
      /\ \A t \in Sessions : accepting'[t] = IF t = s THEN stage ELSE accepting[t]
  BY <1>0, <1>2, <1>3, AcceptMoves DEF AcceptStates
<1>5. /\ BooksTyped'
      /\ \A t \in Sessions : transfer'[t] = IF t = s THEN state ELSE transfer[t]
  BY <1>0, <1>2, <1>3, SetTransferTypes DEF TransferStates
<1>6. ReceiveTypeOK'
  <2>1. RestTyped'
    BY <1>0 DEF RestTyped
  <2> QED BY <1>4, <1>5, <2>1 DEF BooksTyped, RestTyped, ReceiveTypeOK, AcceptTyped, AcceptStates, IncomingType
<1>7. ASSUME NEW t \in Sessions, t # s
      PROVE  Good(t)'
  <2>1. SameServer(t) /\ SameRuntime(t)
    BY <1>2, <1>4, <1>5, <1>7 DEF SameServer, SameRuntime
  <2> QED BY <1>0, <2>1, Untouched DEF AllGood
<1>8. Good(s) /\ transfer[s] = "none"
  BY <1>0, <1>2 DEF AllGood, Good, BeforeAsked
<1>9. Good(s)'
  BY <1>2, <1>4, <1>5, <1>8 DEF Good, BeforeAsked, BeforeAnswered, Agrees, Accepted, UnderWay, Still
<1>10. OutcomesKept
  BY <1>5, <1>8 DEF OutcomesKept, FinalStates
<1> QED BY <1>2, <1>6, <1>7, <1>9, <1>10 DEF Kept, AllGood

LEMMA PrepareKeeps ==
    ASSUME State, OnPrepareAsk \/ OnPrepareAuto
    PROVE  Kept
BY PrepareTaken DEF OnPrepareAsk, OnPrepareAuto

LEMMA AbortedKeeps ==
    ASSUME State, OnPrepareAborted
    PROVE  Kept
<1>0. /\ MarksOnce /\ AllGood /\ BooksTyped /\ AcceptTyped /\ RestTyped
      /\ prep \in [Sessions -> PrepStates]
  BY StateParts
<1>1. PICK s : s = First.sid
  OBVIOUS
<1>2. /\ Takes("PrepareUploadAborted") /\ UNCHANGED serverRest
      /\ UNCHANGED <<prep, incoming, accepting, loop, conflicts, disturbed>>
  BY DEF OnPrepareAborted
<1>3. /\ MarksOnce' /\ s \in Sessions /\ \A t \in Sessions : Still(t)
  BY <1>1, <1>2, TakenFacts DEF Still
<1>4. AcceptTyped'
  BY <1>0, <1>2 DEF AcceptTyped
<1>5. CASE question = s
  <2>1. question' = NoSession /\ RemoveTransfer(s)
    BY <1>1, <1>5 DEF OnPrepareAborted
  <2>2. /\ BooksTyped'
        /\ \A t \in Sessions : transfer'[t] = IF t = s THEN "none" ELSE transfer[t]
    BY <1>0, <1>3, <2>1, RemoveTypes
  <2>3. ReceiveTypeOK'
    <3>1. RestTyped'
      BY <1>0, <1>2, <2>1 DEF RestTyped
    <3> QED BY <1>4, <2>2, <3>1 DEF BooksTyped, RestTyped, ReceiveTypeOK, AcceptTyped, AcceptStates, IncomingType
  <2>4. ASSUME NEW t \in Sessions, t # s
        PROVE  Good(t)'
    <3>1. SameServer(t) /\ SameRuntime(t)
      BY <1>2, <1>3, <1>5, <2>1, <2>2, <2>4, SessionsExist DEF SameServer, SameRuntime, Still
    <3> QED BY <1>0, <1>2, <3>1, Untouched DEF AllGood
  <2>5. Good(s) /\ Still(s) /\ accepting[s] = "no"
    BY <1>0, <1>3, <1>5 DEF AllGood, Good, BeforeAnswered
  <2>6. ~UnderWay(s)' /\ question' # s /\ accepting'[s] = "no" /\ prep'[s] = prep[s]
    BY <1>2, <1>3, <2>1, <2>2, <2>5, SessionsExist DEF UnderWay
  <2>7. Good(s)'
    BY <1>3, <1>5, <2>5, <2>6, ClosedIsGood
  <2>8. OutcomesKept
    <3>1. s \notin disturbed' => transfer[s] \notin FinalStates
      BY <1>2, <1>5, <2>5 DEF Good, Agrees, UnderWay, FinalStates
    <3> QED BY <2>2, <3>1 DEF OutcomesKept
  <2> QED BY <1>2, <1>3, <2>3, <2>4, <2>7, <2>8 DEF Kept, AllGood
<1>6. CASE question # s
  <2>1. UNCHANGED <<question, transfer, view>>
    BY <1>1, <1>6 DEF OnPrepareAborted
  <2>2. ReceiveTypeOK'
    BY <1>0, <1>2, <1>4, <2>1 DEF BooksTyped, RestTyped, ReceiveTypeOK, AcceptTyped, AcceptStates, IncomingType
  <2>3. ASSUME NEW t \in Sessions
        PROVE  Good(t)'
    <3>1. SameServer(t) /\ SameRuntime(t)
      BY <1>2, <1>3, <2>1 DEF SameServer, SameRuntime, Still
    <3> QED BY <1>0, <1>2, <3>1, Untouched DEF AllGood
  <2> QED BY <1>2, <1>3, <2>1, <2>2, <2>3 DEF Kept, AllGood, OutcomesKept
<1> QED BY <1>5, <1>6

\* What is known of the sessions is as before; files are shown differently.
LEMMA OnlyFiles ==
    ASSUME State, MarksOnce', \A s \in Sessions : Still(s),
           UNCHANGED <<prep, transfer, question, accepting, loop, disturbed>>,
           incoming' \in IncomingType, incoming'.sid = incoming.sid,
           view' \in [Sessions -> [Files -> FileViewStates]],
           conflicts' \subseteq Requests \X Sessions \X Files
    PROVE  Kept
<1>0. /\ MarksOnce /\ AllGood /\ BooksTyped /\ AcceptTyped /\ RestTyped
      /\ prep \in [Sessions -> PrepStates]
  BY StateParts
<1>1. ReceiveTypeOK'
  BY <1>0 DEF BooksTyped, RestTyped, ReceiveTypeOK, AcceptTyped, AcceptStates, IncomingType
<1>2. ASSUME NEW t \in Sessions
      PROVE  Good(t)'
  <2>1. SameServer(t) /\ SameRuntime(t)
    BY DEF SameServer, SameRuntime, Still
  <2> QED BY <1>0, <2>1, Untouched DEF AllGood
<1> QED BY <1>1, <1>2 DEF Kept, AllGood, OutcomesKept

LEMMA FileEventsKeep ==
    ASSUME State, OnFileUpload \/ \E kept \in BOOLEAN : OnFileResult(kept)
    PROVE  Kept
<1>0. /\ MarksOnce /\ AllGood /\ BooksTyped /\ AcceptTyped /\ RestTyped
      /\ prep \in [Sessions -> PrepStates]
  BY StateParts
<1>1. CASE OnFileUpload
  <2>1. /\ Takes("FileUpload") /\ UNCHANGED serverRest
        /\ UNCHANGED <<prep, transfer, question, incoming, accepting, loop, disturbed>>
    BY <1>1 DEF OnFileUpload
  <2>2. /\ MarksOnce' /\ First.sid \in Sessions
        /\ First.file \in Files /\ First.req \in Requests
        /\ \A s \in Sessions : Still(s)
    BY <2>1, TakenFacts DEF Still
  <2>3. \/ view' = view
        \/ \E state \in FileViewStates : ShowFile(First.sid, First.file, state)
    BY <1>1 DEF OnFileUpload, AssignUpload, FileViewStates, OpenFileStates
  <2>4. view' \in [Sessions -> [Files -> FileViewStates]]
    BY <1>0, <2>2, <2>3, ShowTypes DEF BooksTyped
  <2>5. conflicts' \subseteq Requests \X Sessions \X Files
    BY <1>0, <1>1, <2>2 DEF OnFileUpload, RestTyped
  <2>6. incoming' \in IncomingType /\ incoming'.sid = incoming.sid
    BY <1>0, <2>1 DEF RestTyped
  <2> QED BY <2>1, <2>2, <2>4, <2>5, <2>6, OnlyFiles
<1>2. ASSUME NEW kept \in BOOLEAN, OnFileResult(kept)
      PROVE  Kept
  <2>1. /\ Takes("FileUploadResult") /\ UNCHANGED serverRest
        /\ UNCHANGED <<prep, transfer, question, accepting, loop, conflicts, disturbed>>
    BY <1>2 DEF OnFileResult
  <2>2. /\ MarksOnce' /\ First.sid \in Sessions /\ First.file \in Files
        /\ \A s \in Sessions : Still(s)
    BY <2>1, TakenFacts DEF Still
  <2>3. /\ incoming' \in {incoming, CountReceived(First), CountFailure}
        /\ \/ view' = view
           \/ \E state \in FileViewStates : ShowFile(First.sid, First.file, state)
    <3>1. "Finished" \in FileViewStates /\ "Failed" \in FileViewStates
      BY DEF FileViewStates
    <3>2. CASE First.outcome = "Success"
      BY <1>2, <3>1, <3>2 DEF OnFileResult
    <3>3. CASE First.outcome # "Success" /\ KeptPartial(First, kept)
      BY <1>2, <3>3 DEF OnFileResult
    <3>4. CASE First.outcome # "Success" /\ ~KeptPartial(First, kept)
      BY <1>2, <3>1, <3>4 DEF OnFileResult
    <3> QED BY <3>2, <3>3, <3>4
  <2>4. view' \in [Sessions -> [Files -> FileViewStates]]
    BY <1>0, <2>2, <2>3, ShowTypes DEF BooksTyped
  <2>5. incoming' \in IncomingType /\ incoming'.sid = incoming.sid
    BY <1>0, <2>2, <2>3, CountTypes DEF RestTyped
  <2>6. conflicts' \subseteq Requests \X Sessions \X Files
    BY <1>0, <2>1 DEF RestTyped
  <2> QED BY <2>1, <2>2, <2>4, <2>5, <2>6, OnlyFiles
<1> QED BY <1>1, <1>2

LEMMA ConflictKeeps ==
    ASSUME State, NEW c \in conflicts, ConflictAnswered(c)
    PROVE  Kept
<1>0. /\ MarksOnce /\ AllGood /\ BooksTyped /\ AcceptTyped /\ RestTyped
      /\ prep \in [Sessions -> PrepStates]
  BY StateParts
<1>1. /\ Aside
      /\ UNCHANGED <<prep, transfer, question, incoming, accepting, loop, disturbed>>
      /\ conflicts' \subseteq conflicts
      /\ ShowFile(c[2], c[3], "Active")
  BY DEF ConflictAnswered, AssignUpload, serverRest, Aside
<1>2. c[2] \in Sessions /\ c[3] \in Files
  BY <1>0 DEF RestTyped
<1>3. MarksOnce' /\ \A s \in Sessions : Still(s)
  BY <1>0, <1>1, AsideStill
<1>4. view' \in [Sessions -> [Files -> FileViewStates]]
  BY <1>0, <1>1, <1>2, ShowTypes DEF FileViewStates, OpenFileStates
<1>5. /\ incoming' \in IncomingType /\ incoming'.sid = incoming.sid
      /\ conflicts' \subseteq Requests \X Sessions \X Files
  BY <1>0, <1>1 DEF RestTyped
<1> QED BY <1>1, <1>3, <1>4, <1>5, OnlyFiles

LEMMA SessionEndKeeps ==
    ASSUME State, OnSessionEnd
    PROVE  Kept
<1>0. /\ MarksOnce /\ AllGood /\ BooksTyped /\ AcceptTyped /\ RestTyped
      /\ prep \in [Sessions -> PrepStates]
  BY StateParts
<1>1. PICK s : s = First.sid
  OBVIOUS
<1>2. /\ Takes("SessionEnd") /\ UNCHANGED serverRest
      /\ UNCHANGED <<prep, question, accepting, loop, conflicts>>
      /\ disturbed' = disturbed \cup (IF accepting[s] # "no" THEN {s} ELSE {})
  BY <1>1 DEF OnSessionEnd, Disturb
<1>3. /\ MarksOnce' /\ First.sid \in Sessions /\ Ending(First.sid)
      /\ \A t \in Sessions : /\ IsActive(t)' <=> IsActive(t)
                             /\ Asked(t)' <=> Asked(t)
                             /\ Ending(t)' <=> Ending(t) /\ First.sid # t
  BY <1>2, TakenFacts
<1>4. /\ s \in Sessions /\ Ending(s) /\ ~Ending(s)'
      /\ \A t \in Sessions : t # s => (Ending(t)' <=> Ending(t))
  BY <1>1, <1>3
<1>5. Good(s) /\ prep[s] = "done" /\ ~IsActive(s) /\ ~IsActive(s)' /\ ~Asked(s) /\ ~Asked(s)' /\ question # s
  BY <1>0, <1>3, <1>4 DEF AllGood, Good, BeforeAnswered, Accepted
<1>6. \/ /\ incoming.sid = s /\ incoming' = NoIncoming
         /\ \E state \in FinalStates : CompleteTransfer(s, state)
      \/ /\ incoming.sid # s /\ UNCHANGED <<incoming, transfer, view>>
  BY <1>1 DEF OnSessionEnd, IsIncoming, Summary, FinalStates
<1>7. /\ BooksTyped' /\ OutcomesKept
      /\ \A t \in Sessions \ {s} : transfer'[t] = transfer[t]
      /\ incoming.sid = s => ~UnderWay(s)'
  <2>1. CASE incoming.sid = s
    BY <1>0, <1>4, <1>6, <2>1, FinalCompletes
  <2>2. CASE incoming.sid # s
    BY <1>0, <1>6, <2>2 DEF BooksTyped, OutcomesKept
  <2> QED BY <2>1, <2>2
<1>8. incoming' \in IncomingType /\ \A t \in Sessions \ {s} : incoming.sid = t => incoming'.sid = t
  BY <1>0, <1>6 DEF RestTyped, NoIncoming, IncomingType
<1>9. ReceiveTypeOK'
  <2>1. AcceptTyped' /\ RestTyped'
    BY <1>0, <1>2, <1>4, <1>8 DEF AcceptTyped, RestTyped
  <2> QED BY <1>7, <2>1 DEF BooksTyped, RestTyped, ReceiveTypeOK, AcceptTyped, AcceptStates, IncomingType
<1>10. ASSUME NEW t \in Sessions, t # s
       PROVE  Good(t)'
  <2>1. SameServer(t) /\ SameRuntime(t)
    BY <1>2, <1>3, <1>4, <1>7, <1>8, <1>10 DEF SameServer, SameRuntime
  <2> QED BY <1>0, <1>2, <2>1, Untouched DEF AllGood
<1>11. Good(s)'
  <2>1. ~Accepted(s)'
    BY <1>2, <1>4, <1>5 DEF Accepted
  <2>2. BeforeAsked(s)' /\ BeforeAnswered(s)'
    BY <1>2, <1>4, <1>5, <2>1 DEF BeforeAsked, BeforeAnswered
  <2>3. s \notin disturbed' => Agrees(s)'
    <3> SUFFICES ASSUME s \notin disturbed' PROVE Agrees(s)'
      OBVIOUS
    <3>1. s \notin disturbed /\ accepting[s] = "no"
      BY <1>2
    <3>2. incoming.sid = s
      BY <1>4, <1>5, <3>1 DEF Good, Agrees, Accepted
    <3> QED BY <1>2, <1>5, <1>7, <2>1, <3>1, <3>2 DEF Agrees
  <2> QED BY <2>2, <2>3 DEF Good
<1> QED BY <1>2, <1>3, <1>7, <1>9, <1>10, <1>11 DEF Kept, AllGood

------------------------------------------------------------------------------
(* The invariant of the composition.                                       *)

LEMMA StateInit == ReceiveInit => State
<1> SUFFICES ASSUME ReceiveInit PROVE State
  OBVIOUS
<1>1. IInv
  BY InvInit DEF ReceiveInit
<1>2. Queued = {} /\ spawned = {} /\ channel = <<>>
  BY DEF ReceiveInit, Init, Queued
<1>3. EventShape /\ MarksOnce
  BY <1>2 DEF EventShape, MarksOnce
<1>4. ReceiveTypeOK
  BY DEF ReceiveInit, ReceiveTypeOK, TransferStates, FreshView, FileViewStates, OpenFileStates,
         NoIncoming
<1>5. ASSUME NEW s \in Sessions
      PROVE  Good(s)
  <2>1. /\ ~Asked(s) /\ ~Ending(s) /\ ~IsActive(s) /\ prep[s] = "new"
        /\ accepting[s] = "no" /\ question # s /\ transfer[s] = "none"
    BY <1>2, SessionsExist DEF ReceiveInit, Init, Asked, Ending, Under, IsActive, FreeSlot
  <2> QED BY <2>1 DEF Good, BeforeAsked, BeforeAnswered, Agrees, Accepted, UnderWay
<1> QED BY <1>1, <1>3, <1>4, <1>5 DEF State, ServerState, AllGood

LEMMA StepKept ==
    ASSUME State, [ReceiveNext]_receiveVars
    PROVE  Kept
<1>1. CASE ReceiveServerNext
  <2>1. MarksOnce' /\ ServerEffect /\ disturbed \subseteq disturbed'
    BY <1>1, ServerEffects DEF State
  <2>2. UNCHANGED runtimeVars
    BY <1>1 DEF ReceiveServerNext
  <2>3. AllGood'
    BY <2>1, <2>2, ServerEffectKeeps DEF State, ServerState
  <2>4. disturbed' \subseteq Sessions
    <3>1. disturbed \subseteq Sessions /\ RequestShape
      BY DEF State, ServerState, IInv, ReceiveTypeOK
    <3>2. ASSUME NEW r \in Requests, LostConnection(r)
          PROVE  req[r].sid \in Sessions
      BY <3>1, <3>2 DEF LostConnection, DropHandler, DropUpload, DropConfirm, BodySaved,
                        RequestShape, IdleRequest
    <3> QED BY <1>1, <3>1, <3>2 DEF ReceiveServerNext, LostRequest, LostConnection, Disturb
  <2>5. ReceiveTypeOK' /\ OutcomesKept
    BY <2>2, <2>4 DEF State, ReceiveTypeOK, runtimeVars, OutcomesKept
  <2> QED BY <2>1, <2>3, <2>5 DEF Kept
<1>2. CASE LoopNext
  BY <1>2, PrepareKeeps, AbortedKeeps, FileEventsKeep, SessionEndKeeps DEF LoopNext
<1>3. ASSUME NEW s \in Sessions, AcceptNext(s)
      PROVE  Kept
  BY <1>3, RegisterQuestionKeeps, AcceptFailsKeeps, StoreIncomingKeeps, SendDecisionKeeps,
     MarkActiveKeeps DEF AcceptNext
<1>4. CASE UserNext
  BY <1>4, UserAcceptsKeeps, UserDeclinesKeeps, UserCancelsKeeps, ConflictKeeps DEF UserNext
<1>5. CASE UNCHANGED receiveVars
  <2>1. /\ UNCHANGED <<slot, prep, channel, spawned>> /\ UNCHANGED runtimeVars
        /\ disturbed' = disturbed
    BY <1>5 DEF receiveVars, vars
  <2>2. MarksOnce' /\ ServerEffect
    BY <2>1, NothingSent, QuietEffect DEF State, ServerState, ServerEffect
  <2>3. AllGood'
    BY <2>1, <2>2, ServerEffectKeeps DEF State, ServerState
  <2>4. ReceiveTypeOK' /\ OutcomesKept
    BY <2>1 DEF State, ReceiveTypeOK, runtimeVars, OutcomesKept
  <2> QED BY <2>1, <2>2, <2>3, <2>4 DEF Kept
<1> QED BY <1>1, <1>2, <1>3, <1>4, <1>5 DEF ReceiveNext

LEMMA StateStep ==
    ASSUME State, [ReceiveNext]_receiveVars
    PROVE  State'
<1>1. RInv
  BY StateParts
<1> QED BY <1>1, ServerKept, StepKept DEF State, ServerState, Kept

\* The server's invariant also holds when the runtime takes its events and
\* answers it, and runtime and server agree on every session.
THEOREM ReceivingInvariance == ReceiveSpec => []State
<1>1. State /\ [ReceiveNext]_receiveVars => State'
  BY StateStep
<1> QED BY <1>1, StateInit, PTL DEF ReceiveSpec

\* Every variable of the runtime keeps its shape.
THEOREM ReceiveTypes == ReceiveSpec => []ReceiveTypeOK
BY ReceivingInvariance, PTL DEF State

\* The server's files keep a single owner while the runtime answers for it.
THEOREM OwnershipInReceiving == ReceiveSpec => []FileOwnership
<1>1. State => FileOwnership
  BY DEF State, ServerState, IInv, Ownership, FileOwnership
<1> QED BY <1>1, ReceivingInvariance, PTL

\* Without one of the named races the runtime knows the session the server
\* receives, so no file of it is refused for want of one.
THEOREM SessionsKnown == ReceiveSpec => []SessionIsKnown
<1>1. State => SessionIsKnown
  BY DEF State, ServerState, AllGood, Good, Agrees, Accepted, IsActive, SessionIsKnown, Undisturbed
<1> QED BY <1>1, ReceivingInvariance, PTL

\* Without one of the named races no transfer is left behind as under way.
THEOREM NoneStranded == ReceiveSpec => []UndisturbedEnds
<1>1. State => UndisturbedEnds
  BY DEF State, ServerState, AllGood, Good, Agrees, Accepted, UnderWay, IsActive, Ending, Under,
         UndisturbedEnds, Undisturbed, Stranded
<1> QED BY <1>1, ReceivingInvariance, PTL

\* An outcome the user has seen is not taken back.
THEOREM OutcomesStay == ReceiveSpec => FinalStays
<1>1. State /\ [ReceiveNext]_receiveVars
          => [\A s \in Sessions \ disturbed' :
                 transfer[s] \in FinalStates => transfer'[s] = transfer[s]]_receiveVars
  BY StepKept DEF Kept, OutcomesKept
<1> QED BY <1>1, ReceivingInvariance, PTL DEF ReceiveSpec, FinalStays

\* The slot of the server behaves as SessionSlot promises also when the runtime answers,
\* accepts and cancels for the user: no session displaces another one, none comes back.
THEOREM ReceivingSlotImplemented == ReceiveSpec => SlotRefined
<1>1. ReceiveInit => Abstract!SlotInit
  BY SlotInitMaps DEF ReceiveInit
<1>2. State /\ [ReceiveNext]_receiveVars => [Abstract!SlotNext]_(Abstract!slotVars)
  <2> SUFFICES ASSUME State, [ReceiveNext]_receiveVars
               PROVE  [Abstract!SlotNext]_(Abstract!slotVars)
    OBVIOUS
  <2>1. RInv /\ IInv
    BY StateParts DEF RInv
  <2>2. CASE [Next]_vars
    BY <2>1, <2>2, SlotStepMaps
  <2>3. CASE RuntimeTouches
    BY <2>1, <2>3, TouchKeepsSlot
  <2> QED BY <2>1, <2>2, <2>3, ReceiveSteps
<1> QED BY <1>1, <1>2, ReceivingInvariance, PTL DEF ReceiveSpec, SlotRefined, Abstract!SlotSpec

------------------------------------------------------------------------------
(* What the interface shows of a file.  The results of a file travel in     *)
(* order: its success comes last, and the end of the session after it.      *)

\* What the runtime may do to the channel.
LEMMA RuntimeQueues ==
    ASSUME RInv,
           \/ LoopNext
           \/ \E s \in Sessions : AcceptNext(s)
           \/ UserNext
    PROVE  /\ \/ channel' = channel
              \/ channel # <<>> /\ channel' = Tail(channel)
           /\ spawned' = spawned
<1>1. CASE LoopNext
  BY <1>1 DEF LoopNext, OnPrepareAsk, OnPrepareAuto, OnPrepareAborted, OnFileUpload,
              OnFileResult, OnSessionEnd, Takes, serverRest
<1>2. ASSUME NEW s \in Sessions, AcceptNext(s)
      PROVE  channel' = channel /\ spawned' = spawned
  BY <1>2 DEF AcceptNext, RegisterQuestion, AcceptFails, StoreIncoming, SendDecision, MarkActive,
              serverRest, vars
<1>3. CASE UserNext
  BY <1>3 DEF UserNext, UserAccepts, UserDeclines, UserCancels, ConflictAnswered, serverRest, vars
<1> QED BY <1>1, <1>2, <1>3

\* The order of results and end survives in the composition.
LEMMA EndInvThere ==
    ASSUME State, EndInv, [ReceiveNext]_receiveVars
    PROVE  EndInv'
<1>0. RInv /\ IInv /\ TypeOK
  BY StateParts DEF State, ServerState
<1>1. CASE [Next]_vars
  BY <1>0, <1>1, EndInvStep
<1>2. CASE /\ RuntimeTouches
           /\ \/ channel' = channel
              \/ channel # <<>> /\ channel' = Tail(channel)
           /\ spawned' = spawned
  <2>1. MessageStep
    BY <1>2 DEF MessageStep, SpawnsFairly
  <2> QED BY <1>0, <1>2, <2>1, TouchKeepsOver, EndInvKept
<1>3. CASE ReceiveServerNext \/ UNCHANGED receiveVars
  BY <1>1, <1>3, ServerSteps DEF receiveVars
<1>4. CASE LoopNext \/ (\E s \in Sessions : AcceptNext(s)) \/ UserNext
  <2>1. [Next]_vars \/ RuntimeTouches
    BY <1>0, <1>4, ReceiveSteps DEF ReceiveNext
  <2> QED BY <1>0, <1>1, <1>2, <1>4, <2>1, RuntimeQueues
<1> QED BY <1>3, <1>4 DEF ReceiveNext

------------------------------------------------------------------------------
(* The question of an upload for its path.                                 *)

\* The handler waits for the answer, unless its connection was lost.
Awaited(r, s, f) == \/ req[r].pc = "asked" /\ Working(r, s, f)
                    \/ req[r] = IdleRequest /\ s \in disturbed

IsQuestion(e) == e.type = "FileUpload"
NoQuestion(r) == /\ \A i \in 1 .. Len(channel) : IsQuestion(channel[i]) => channel[i].req # r
                 /\ \A c \in conflicts : c[1] # r

\* There is one question of a handler at a time, in the channel or with the user.
AsksOnce ==
    /\ \A e \in spawned : ~IsQuestion(e)
    /\ \A i \in 1 .. Len(channel) : IsQuestion(channel[i]) =>
          /\ Awaited(channel[i].req, channel[i].sid, channel[i].file)
          /\ \A j \in 1 .. Len(channel) :
                IsQuestion(channel[j]) /\ channel[j].req = channel[i].req => i = j
          /\ \A c \in conflicts : c[1] # channel[i].req
    /\ \A c \in conflicts :
          /\ Awaited(c[1], c[2], c[3])
          /\ \A d \in conflicts : c[1] = d[1] => c = d

LEMMA NotAsked ==
    ASSUME AsksOnce, NEW r \in Requests, req[r].pc \notin {"asked", "idle"}
    PROVE  NoQuestion(r)
BY DEF AsksOnce, NoQuestion, Awaited, IdleRequest

\* A handler keeps its state, has no question, or loses its connection.
QuestionsStay ==
    \A r \in Requests : \/ req'[r] = req[r]
                        \/ NoQuestion(r)
                        \/ req'[r] = IdleRequest /\ req[r].sid \in disturbed'

AwaitedStays(r) == \A s, f : Awaited(r, s, f) => Awaited(r, s, f)'

LEMMA StillAwaited ==
    ASSUME NEW r \in Requests, disturbed \subseteq disturbed',
           req'[r] = req[r] \/ (req'[r] = IdleRequest /\ req[r].sid \in disturbed')
    PROVE  AwaitedStays(r)
BY DEF AwaitedStays, Awaited, Working, IdleRequest

\* The first event is taken, or none.
LEMMA AsksKept ==
    ASSUME State, AsksOnce, QuestionsStay, disturbed \subseteq disturbed',
           conflicts' \subseteq conflicts, \A e \in spawned' : ~IsQuestion(e),
           \/ channel' = channel
           \/ channel # <<>> /\ channel' = Tail(channel)
           \/ \E e \in Events : ~IsQuestion(e) /\ channel' = Append(channel, e)
    PROVE  AsksOnce'
<1>0. /\ TypeOK /\ EventShape
      /\ \A c \in conflicts : c[1] \in Requests /\ c[2] \in Sessions /\ c[3] \in Files
  BY DEF State, ServerState, IInv, ReceiveTypeOK
<1>1. \A i \in 1 .. Len(channel) : IsQuestion(channel[i]) => channel[i].req \in Requests
  BY <1>0, QueuedIsRange DEF EventShape, NamesItsFile, IsQuestion
<1>3. ASSUME NEW r \in Requests, ~NoQuestion(r)
      PROVE  AwaitedStays(r)
  BY <1>3, StillAwaited DEF QuestionsStay
<1>4. ASSUME NEW c \in conflicts'
      PROVE  /\ Awaited(c[1], c[2], c[3])'
             /\ \A d \in conflicts' : c[1] = d[1] => c = d
  <2>1. c[1] \in Requests /\ ~NoQuestion(c[1]) /\ Awaited(c[1], c[2], c[3])
    BY <1>0 DEF NoQuestion, AsksOnce
  <2> QED BY <1>3, <2>1 DEF AwaitedStays, AsksOnce
<1>5. ASSUME NEW x, NEW i \in 1 .. Len(channel), x = channel[i], IsQuestion(x)
      PROVE  /\ Awaited(x.req, x.sid, x.file)'
             /\ \A c \in conflicts' : c[1] # x.req
             /\ \A j \in 1 .. Len(channel) :
                   IsQuestion(channel[j]) /\ channel[j].req = x.req => i = j
  <2>1. x.req \in Requests /\ ~NoQuestion(x.req) /\ Awaited(x.req, x.sid, x.file)
    BY <1>1, <1>5 DEF NoQuestion, AsksOnce
  <2>2. Awaited(x.req, x.sid, x.file)'
    BY <1>3, <2>1 DEF AwaitedStays
  <2> QED BY <1>5, <2>2 DEF AsksOnce
<1>6. CASE channel' = channel
  BY <1>4, <1>5, <1>6 DEF AsksOnce
<1>7. CASE channel # <<>> /\ channel' = Tail(channel)
  <2>1. \A i \in 1 .. Len(channel') :
            i + 1 \in 1 .. Len(channel) /\ channel'[i] = channel[i + 1]
    BY <1>0, <1>7, TailShifts
  <2>2. ASSUME NEW i \in 1 .. Len(channel'), NEW x, x = channel'[i], IsQuestion(x)
        PROVE  /\ Awaited(x.req, x.sid, x.file)'
               /\ \A c \in conflicts' : c[1] # x.req
               /\ \A j \in 1 .. Len(channel') :
                     IsQuestion(channel'[j]) /\ channel'[j].req = x.req => i = j
    <3>1. i + 1 \in 1 .. Len(channel) /\ x = channel[i + 1]
      BY <2>1, <2>2
    <3>2. ASSUME NEW j \in 1 .. Len(channel'), IsQuestion(channel'[j]), channel'[j].req = x.req
          PROVE  i = j
      <4>1. i + 1 = j + 1
        BY <1>5, <2>1, <2>2, <3>1, <3>2
      <4> QED BY <4>1
    <3> QED BY <1>5, <2>2, <3>1, <3>2
  <2> QED BY <1>4, <2>2 DEF AsksOnce
<1>8. ASSUME NEW e \in Events, ~IsQuestion(e), channel' = Append(channel, e)
      PROVE  AsksOnce'
  <2>1. \A i \in 1 .. Len(channel') :
            \/ i \in 1 .. Len(channel) /\ channel'[i] = channel[i]
            \/ i = Len(channel') /\ channel'[i] = e
    BY <1>0, <1>8, AppendQueued
  <2>2. ASSUME NEW i \in 1 .. Len(channel'), NEW x, x = channel'[i], IsQuestion(x)
        PROVE  /\ Awaited(x.req, x.sid, x.file)'
               /\ \A c \in conflicts' : c[1] # x.req
               /\ \A j \in 1 .. Len(channel') :
                     IsQuestion(channel'[j]) /\ channel'[j].req = x.req => i = j
    <3>1. i \in 1 .. Len(channel) /\ x = channel[i]
      BY <1>8, <2>1, <2>2
    <3> QED BY <1>5, <1>8, <2>1, <2>2, <3>1
  <2> QED BY <1>4, <2>2 DEF AsksOnce
<1> QED BY <1>6, <1>7, <1>8

------------------------------------------------------------------------------
(* What the server sends.                                                  *)

\* An event a task carries to the channel: nobody waits for it.
IsNote(e) ==
    \/ e.type \in {"SessionEnd", "PrepareUploadAborted"}
    \/ e.type = "FileUploadResult" /\ e.outcome = "Interrupted" /\ e.sid \in disturbed'

ServerSends ==
    /\ \/ channel' = channel
       \/ \E e \in spawned : channel' = Append(channel, e) /\ spawned' = spawned \ {e}
       \/ /\ \E e \in Events : e.type = "PrepareUpload" /\ channel' = Append(channel, e)
          /\ spawned' = spawned /\ req' = req
       \/ \E r \in Requests : AskTarget(r) \/ Report(r)
    /\ \A e \in spawned' \ spawned : IsNote(e)

LEMMA SettlingNotes ==
    ASSUME NEW r \in Requests,
           \/ TargetRefused(r) \/ Finish(r)
           \/ DropUpload(r) /\ req[r].sid \in disturbed'
    PROVE  channel' = channel /\ \A e \in spawned' \ spawned : IsNote(e)
<1> DEFINE end == SessionEvent("SessionEnd", req[r].sid, "Finished")
           cut == RequestEvent("FileUploadResult", r, "Interrupted")
<1>1. channel' = channel
  BY DEF TargetRefused, Finish, DropUpload
<1>2. end.type = "SessionEnd"
  BY DEF SessionEvent, Event
<1>3. cut.type = "FileUploadResult" /\ cut.outcome = "Interrupted" /\ cut.sid = req[r].sid
  BY DEF RequestEvent, Event
<1>4. \/ spawned' \subseteq spawned \cup {end}
      \/ spawned' \subseteq spawned \cup {cut, end} /\ req[r].sid \in disturbed'
  BY DEF TargetRefused, Finish, DropUpload, FinalizeFile
<1> HIDE DEF end, cut
<1> QED BY <1>1, <1>2, <1>3, <1>4 DEF IsNote

LEMMA ServerSendings ==
    ASSUME ReceiveServerNext, TypeOK
    PROVE  ServerSends
<1>1. ASSUME channel' = channel, spawned' = spawned
      PROVE  ServerSends
  BY <1>1 DEF ServerSends
<1>2. ASSUME NEW s \in Sessions, AskApplication(s)
      PROVE  ServerSends
  <2>1. PICK e : e = SessionEvent("PrepareUpload", s, "none")
    OBVIOUS
  <2>2. e \in Events /\ e.type = "PrepareUpload"
    BY <2>1 DEF SessionEvent, Event, Events
  <2> QED BY <1>2, <2>1, <2>2 DEF AskApplication, ServerSends
<1>3. ASSUME NEW s \in Sessions, AbortPrepare(s) \/ CancelBySender(s) \/ Reap(s),
             channel' = channel
      PROVE  ServerSends
  <2>1. PICK type \in {"SessionEnd", "PrepareUploadAborted"}, outcome \in EndReasons \cup {"none"} :
            spawned' = spawned \cup {SessionEvent(type, s, outcome)}
    BY <1>3 DEF AbortPrepare, CancelBySender, Reap, EndReasons
  <2>2. PICK e : e = SessionEvent(type, s, outcome)
    OBVIOUS
  <2>3. e.type = type
    BY <2>2 DEF SessionEvent, Event
  <2>4. \A d \in spawned' \ spawned : IsNote(d)
    BY <2>1, <2>2, <2>3 DEF IsNote
  <2> QED BY <1>3, <2>4 DEF ServerSends
<1>4. ASSUME NEW r \in Requests, HandlerNext(r) \/ LostConnection(r)
      PROVE  ServerSends
  <2>1. CASE TargetRefused(r) \/ Finish(r) \/ (DropUpload(r) /\ req[r].sid \in disturbed')
    BY <2>1, SettlingNotes DEF ServerSends
  <2>2. CASE AskTarget(r) \/ Report(r)
    BY <2>2 DEF AskTarget, Report, ServerSends
  <2>3. CASE \/ StartSaving(r) \/ BodyHeld(r) \/ DropConfirm(r)
             \/ \E outcome \in SaveOutcomes \cup {"Interrupted"} :
                    BodySaved(r, outcome) \/ Settle(r, outcome)
    <3>1. channel' = channel /\ spawned' = spawned
      BY <2>3 DEF StartSaving, BodyHeld, DropConfirm, BodySaved, Settle
    <3> QED BY <1>1, <3>1
  <2> QED BY <1>4, <2>1, <2>2, <2>3 DEF HandlerNext, LostConnection, DropHandler, Disturb
<1>5. ASSUME NEW e \in spawned, Deliver(e)
      PROVE  ServerSends
  BY <1>5 DEF Deliver, ServerSends
<1>6. ASSUME NEW s \in Sessions,
             \/ \E ext \in FeatureSets : ClaimPending(s, ext)
             \/ SessionAccepted(s, Files) \/ SessionRefused(s) \/ CancelPending(s) \/ Touch(s)
      PROVE  ServerSends
  BY <1>1, <1>6 DEF ClaimPending, SessionAccepted, SessionRefused, CancelPending, Touch
<1>7. ASSUME NEW r \in Requests, NEW s \in Sessions, NEW f \in Files, RequestNext(r, s, f)
      PROVE  ServerSends
  BY <1>1, <1>7 DEF RequestNext, BeginUpload, BeginConfirm
<1>8. CASE TenMinutes
  BY <1>1, <1>8 DEF TenMinutes
<1>9. ASSUME NEW s \in Sessions, LostRequest(s)
      PROVE  ServerSends
  BY <1>3, <1>9 DEF LostRequest, PrepareWithdrawn, SenderGone, AbortPrepare
<1>10. CASE QuietServerNext
  <2>1. ASSUME NEW s \in Sessions, CancelBySender(s) \/ Reap(s)
        PROVE  ServerSends
    BY <1>3, <2>1 DEF CancelBySender, Reap
  <2> QED BY <1>2, <1>4, <1>5, <1>6, <1>7, <1>8, <1>10, <2>1
          DEF QuietServerNext, ReceivePrepareNext, ReceiveRequestNext
<1> QED BY <1>4, <1>9, <1>10 DEF ReceiveServerNext

\* Only a handler that does not ask moves on by itself, or one that is cut off.
LEMMA ServerQuestions ==
    ASSUME State, AsksOnce, ReceiveServerNext
    PROVE  QuestionsStay
<1>0. /\ TypeOK /\ req \in [Requests -> RequestType] /\ conflicts' = conflicts
  BY StateParts DEF TypeOK, ReceiveServerNext, runtimeVars
<1>1. ASSUME NEW r \in Requests, \A q \in Requests \ {r} : req'[q] = req[q],
             NoQuestion(r) \/ (req'[r] = IdleRequest /\ req[r].sid \in disturbed')
      PROVE  QuestionsStay
  BY <1>1 DEF QuestionsStay
<1>2. CASE req' = req
  BY <1>2 DEF QuestionsStay
<1>3. ASSUME NEW r \in Requests, HandlerNext(r) \/ BodySaved(r, "Interrupted")
      PROVE  QuestionsStay
  <2>1. req[r].pc \notin {"asked", "idle"}
    BY <1>3 DEF HandlerNext, AskTarget, StartSaving, TargetRefused, BodySaved, BodyHeld, Settle,
                Report, Finish
  <2>2. \A q \in Requests \ {r} : req'[q] = req[q]
    BY <1>0, <1>3 DEF HandlerNext, AskTarget, StartSaving, TargetRefused, BodySaved, BodyHeld,
                      Settle, Report, Finish, Goto
  <2> QED BY <1>1, <2>1, <2>2, NotAsked
<1>4. ASSUME NEW r \in Requests, DropHandler(r), req[r].sid \in disturbed'
      PROVE  QuestionsStay
  BY <1>0, <1>1, <1>4 DEF DropHandler, DropUpload, DropConfirm
<1>5. ASSUME NEW r \in Requests, NEW s \in Sessions, NEW f \in Files, ReceiveRequestNext(r, s, f)
      PROVE  QuestionsStay
  <2>1. \A q \in Requests \ {r} : req'[q] = req[q]
    BY <1>0, <1>5 DEF ReceiveRequestNext, RequestNext, BeginUpload, BeginConfirm
  <2>2. NoQuestion(r)
    BY <1>5, QueuedIsRange
    DEF ReceiveRequestNext, RequestNext, BeginUpload, BeginConfirm, Fresh, NoQuestion
  <2> QED BY <1>1, <2>1, <2>2
<1>6. ASSUME NEW s \in Sessions,
             \/ ReceivePrepareNext(s) \/ CancelPending(s) \/ CancelBySender(s) \/ Touch(s)
             \/ Reap(s) \/ LostRequest(s)
      PROVE  req' = req
  BY <1>6 DEF ReceivePrepareNext, ClaimPending, AskApplication, SessionAccepted, SessionRefused,
              CancelPending, CancelBySender, Touch, Reap, LostRequest, PrepareWithdrawn,
              SenderGone, AbortPrepare, handlerVars
<1>7. ASSUME TenMinutes \/ \E e \in spawned : Deliver(e)
      PROVE  req' = req
  BY <1>7 DEF TenMinutes, Deliver, handlerVars
<1> QED BY <1>2, <1>3, <1>4, <1>5, <1>6, <1>7
        DEF ReceiveServerNext, QuietServerNext, LostConnection, Disturb

\* A handler that asks for its path did not ask before.
LEMMA TargetAsked ==
    ASSUME State, AsksOnce, QuestionsStay, disturbed \subseteq disturbed', conflicts' = conflicts,
           NEW r \in Requests, AskTarget(r)
    PROVE  AsksOnce'
<1>0. /\ TypeOK /\ RequestShape /\ EventShape /\ req \in [Requests -> RequestType]
      /\ \A c \in conflicts : c[1] \in Requests
  BY StateParts DEF IInv, RInv, TypeOK, RestTyped
<1>1. PICK e : e = RequestEvent("FileUpload", r, "none")
  OBVIOUS
<1>2. /\ req[r].pc = "begun" /\ spawned' = spawned /\ channel' = Append(channel, e)
      /\ req' = [req EXCEPT ![r].pc = "asked"]
      /\ req[r] # IdleRequest
  BY <1>1 DEF AskTarget, Goto, IdleRequest
<1>3. e.req = r /\ e.sid = req[r].sid /\ e.file = req[r].file /\ e \in Events
  BY <1>0, <1>1, <1>2, EventTypes DEF RequestEvent, Event
<1>4. NoQuestion(r)
  BY <1>2, NotAsked
<1>5. Awaited(e.req, e.sid, e.file)'
  BY <1>0, <1>2, <1>3 DEF Awaited, Working
<1>6. \A i \in 1 .. Len(channel') : \/ i \in 1 .. Len(channel) /\ channel'[i] = channel[i]
                                    \/ i = Len(channel') /\ channel'[i] = e
  BY <1>0, <1>2, <1>3, AppendQueued
<1>7. ASSUME NEW q \in Requests \ {r}
      PROVE  AwaitedStays(q)
  BY <1>0, <1>2, StillAwaited
<1>8. ASSUME NEW i \in 1 .. Len(channel), NEW x, x = channel[i], IsQuestion(x)
      PROVE  /\ x.req # r
             /\ Awaited(x.req, x.sid, x.file)'
             /\ \A c \in conflicts' : c[1] # x.req
             /\ \A j \in 1 .. Len(channel) :
                   IsQuestion(channel[j]) /\ channel[j].req = x.req => i = j
  <2>1. x.req \in Requests \ {r}
    BY <1>0, <1>4, <1>8, QueuedIsRange DEF EventShape, NamesItsFile, IsQuestion, NoQuestion
  <2>2. Awaited(x.req, x.sid, x.file)
    BY <1>8 DEF AsksOnce
  <2>3. Awaited(x.req, x.sid, x.file)'
    BY <1>7, <2>1, <2>2 DEF AwaitedStays
  <2> QED BY <1>8, <2>1, <2>3 DEF AsksOnce
<1>9. ASSUME NEW i \in 1 .. Len(channel'), NEW x, x = channel'[i], IsQuestion(x)
      PROVE  /\ Awaited(x.req, x.sid, x.file)'
             /\ \A j \in 1 .. Len(channel') :
                   IsQuestion(channel'[j]) /\ channel'[j].req = x.req => i = j
             /\ \A c \in conflicts' : c[1] # x.req
  <2>1. CASE i \in 1 .. Len(channel) /\ x = channel[i]
    BY <1>3, <1>6, <1>8, <1>9, <2>1
  <2>2. CASE i = Len(channel') /\ x = e
    <3>1. \A c \in conflicts' : c[1] # x.req
      BY <1>3, <1>4, <2>2 DEF NoQuestion
    <3>2. ASSUME NEW j \in 1 .. Len(channel'), IsQuestion(channel'[j]), channel'[j].req = x.req
          PROVE  i = j
      BY <1>3, <1>4, <1>6, <2>2, <3>2 DEF NoQuestion
    <3> QED BY <1>5, <2>2, <3>1, <3>2
  <2> QED BY <1>6, <1>9, <2>1, <2>2
<1>10. ASSUME NEW c \in conflicts'
       PROVE  /\ Awaited(c[1], c[2], c[3])'
              /\ \A d \in conflicts' : c[1] = d[1] => c = d
  <2>1. c \in conflicts /\ c[1] \in Requests \ {r} /\ Awaited(c[1], c[2], c[3])
    BY <1>0, <1>4 DEF NoQuestion, AsksOnce
  <2> QED BY <1>7, <2>1 DEF AwaitedStays, AsksOnce
<1> QED BY <1>2, <1>9, <1>10 DEF AsksOnce

LEMMA ServerAsks ==
    ASSUME State, AsksOnce, ReceiveServerNext
    PROVE  AsksOnce'
<1>0. TypeOK /\ ServerSends /\ QuestionsStay /\ conflicts' = conflicts
  BY StateParts, ServerSendings, ServerQuestions DEF ReceiveServerNext, runtimeVars
<1>1. disturbed \subseteq disturbed'
  BY DEF ReceiveServerNext, LostRequest, LostConnection, Disturb
<1>2. \A e \in spawned' : ~IsQuestion(e)
  BY <1>0 DEF ServerSends, IsNote, IsQuestion, AsksOnce
<1>3. ASSUME NEW r \in Requests, Report(r)
      PROVE  \E e \in Events : ~IsQuestion(e) /\ channel' = Append(channel, e)
  <2>1. PICK e : e = RequestEvent("FileUploadResult", r, req[r].outcome)
    OBVIOUS
  <2>2. /\ RequestShape /\ req[r] # IdleRequest /\ req[r].outcome \in SaveOutcomes \cup {"none"}
    BY <1>0, <1>3, StateParts DEF RInv, IInv, Report, IdleRequest, TypeOK, RequestType
  <2>3. e \in Events /\ e.type = "FileUploadResult"
    BY <2>1, <2>2, EventTypes DEF RequestEvent, Event
  <2> QED BY <1>3, <2>1, <2>3 DEF Report, IsQuestion
<1>4. CASE \E r \in Requests : AskTarget(r)
  BY <1>0, <1>1, <1>4, TargetAsked
<1>5. CASE ~\E r \in Requests : AskTarget(r)
  <2>1. \/ channel' = channel
        \/ \E e \in Events : ~IsQuestion(e) /\ channel' = Append(channel, e)
    BY <1>0, <1>3, <1>5 DEF ServerSends, IsQuestion, AsksOnce, TypeOK
  <2> QED BY <1>0, <1>1, <1>2, <2>1, AsksKept
<1> QED BY <1>4, <1>5

\* The question is answered, or it goes to the user, or nobody waits for it any more.
LEMMA QuestionTaken ==
    ASSUME State, AsksOnce, OnFileUpload
    PROVE  AsksOnce'
<1>0. /\ TypeOK /\ EventShape /\ req \in [Requests -> RequestType]
      /\ \A c \in conflicts : c[1] \in Requests
      /\ First.type = "FileUpload" /\ First.req \in Requests
      /\ channel # <<>> /\ channel' = Tail(channel)
      /\ spawned' = spawned /\ disturbed' = disturbed
  BY StateParts, TakenEvent DEF RInv, RestTyped, OnFileUpload, Takes, serverRest, TypeOK
<1>1. PICK r \in Requests : r = First.req
  BY <1>0
<1>2. 1 \in 1 .. Len(channel) /\ IsQuestion(channel[1]) /\ First = channel[1]
  BY <1>0 DEF TypeOK, First, IsQuestion
<1>3. /\ \A q \in Requests \ {r} : req'[q] = req[q]
      /\ \/ conflicts' = conflicts
         \/ /\ req' = req
            /\ conflicts' = conflicts \cup {<<r, First.sid, First.file>>}
  BY <1>0, <1>1 DEF OnFileUpload, AssignUpload, AnswerTarget
<1>4. Awaited(r, First.sid, First.file) /\ \A c \in conflicts : c[1] # r
  BY <1>1, <1>2 DEF AsksOnce
<1>5. ASSUME NEW q \in Requests \ {r}
      PROVE  AwaitedStays(q)
  BY <1>0, <1>3, StillAwaited
<1>6. ASSUME NEW i \in 1 .. Len(channel'), NEW x, x = channel'[i], IsQuestion(x)
      PROVE  /\ Awaited(x.req, x.sid, x.file)'
             /\ \A j \in 1 .. Len(channel') :
                   IsQuestion(channel'[j]) /\ channel'[j].req = x.req => i = j
             /\ \A c \in conflicts' : c[1] # x.req
  <2>1. /\ i + 1 \in 1 .. Len(channel) /\ x = channel[i + 1]
        /\ \A j \in 1 .. Len(channel') :
              j + 1 \in 1 .. Len(channel) /\ channel'[j] = channel[j + 1]
        /\ \A j \in 1 .. Len(channel') : j \in Nat /\ j # 0
    BY <1>0, <1>6, TailShifts
  <2>2. /\ Awaited(x.req, x.sid, x.file)
        /\ \A j \in 1 .. Len(channel) :
              IsQuestion(channel[j]) /\ channel[j].req = x.req => i + 1 = j
        /\ \A c \in conflicts : c[1] # x.req
    BY <1>6, <2>1 DEF AsksOnce
  <2>3. x.req # r
    BY <1>1, <1>2, <2>1, <2>2
  <2>4. x.req \in Requests
    BY <1>0, <1>6, <2>1, QueuedIsRange DEF EventShape, NamesItsFile, IsQuestion
  <2>5. Awaited(x.req, x.sid, x.file)'
    BY <1>5, <2>2, <2>3, <2>4 DEF AwaitedStays
  <2>6. ASSUME NEW j \in 1 .. Len(channel'), IsQuestion(channel'[j]), channel'[j].req = x.req
        PROVE  i = j
    <3>1. i + 1 = j + 1
      BY <2>1, <2>2, <2>6
    <3> QED BY <2>1, <3>1
  <2>7. \A c \in conflicts' : c[1] # x.req
    BY <1>3, <2>2, <2>3
  <2> QED BY <2>5, <2>6, <2>7
<1>7. ASSUME NEW c \in conflicts'
      PROVE  /\ Awaited(c[1], c[2], c[3])'
             /\ \A d \in conflicts' : c[1] = d[1] => c = d
  <2>1. CASE c \in conflicts
    <3>1. c[1] \in Requests \ {r} /\ Awaited(c[1], c[2], c[3])
      BY <1>0, <1>4, <2>1 DEF AsksOnce
    <3> QED BY <1>3, <1>5, <2>1, <3>1 DEF AwaitedStays, AsksOnce
  <2>2. CASE c \notin conflicts
    <3>1. req' = req /\ c = <<r, First.sid, First.file>>
      BY <1>3, <1>7, <2>2
    <3>2. AwaitedStays(r)
      BY <1>0, <3>1, StillAwaited
    <3> QED BY <1>3, <1>4, <3>1, <3>2 DEF AwaitedStays
  <2> QED BY <2>1, <2>2
<1> QED BY <1>0, <1>6, <1>7 DEF AsksOnce

LEMMA ConflictAsked ==
    ASSUME State, AsksOnce, NEW c \in conflicts, ConflictAnswered(c)
    PROVE  AsksOnce'
<1>0. /\ TypeOK /\ EventShape /\ c[1] \in Requests
      /\ \A d \in conflicts : d[1] \in Requests
      /\ channel' = channel /\ spawned' = spawned /\ disturbed' = disturbed
      /\ conflicts' = conflicts \ {c}
      /\ \A q \in Requests \ {c[1]} : req'[q] = req[q]
  BY StateParts DEF RInv, RestTyped, ConflictAnswered, serverRest, AssignUpload, AnswerTarget, TypeOK
<1>1. ASSUME NEW q \in Requests \ {c[1]}
      PROVE  AwaitedStays(q)
  BY <1>0, <1>1, StillAwaited
<1>2. ASSUME NEW i \in 1 .. Len(channel), NEW x, x = channel[i], IsQuestion(x)
      PROVE  Awaited(x.req, x.sid, x.file)'
  <2>1. x.req \in Requests \ {c[1]} /\ Awaited(x.req, x.sid, x.file)
    BY <1>0, <1>2, QueuedIsRange DEF EventShape, NamesItsFile, IsQuestion, AsksOnce
  <2> QED BY <1>1, <2>1 DEF AwaitedStays
<1>3. ASSUME NEW d \in conflicts'
      PROVE  Awaited(d[1], d[2], d[3])'
  <2>1. d[1] \in Requests \ {c[1]} /\ Awaited(d[1], d[2], d[3])
    BY <1>0, <1>3 DEF AsksOnce
  <2> QED BY <1>1, <2>1 DEF AwaitedStays
<1> QED BY <1>0, <1>2, <1>3 DEF AsksOnce

LEMMA RuntimeAsks ==
    ASSUME State, AsksOnce,
           \/ LoopNext
           \/ \E s \in Sessions : AcceptNext(s)
           \/ UserNext
    PROVE  AsksOnce'
<1>1. ASSUME req' = req, conflicts' = conflicts, disturbed \subseteq disturbed'
      PROVE  AsksOnce'
  <2>1. spawned' = spawned /\ (channel' = channel \/ (channel # <<>> /\ channel' = Tail(channel)))
    BY StateParts, RuntimeQueues
  <2> QED BY <1>1, <2>1, AsksKept DEF QuestionsStay, AsksOnce
<1>2. CASE OnPrepareAsk \/ OnPrepareAuto \/ OnPrepareAborted \/ OnSessionEnd
           \/ \E kept \in BOOLEAN : OnFileResult(kept)
  BY <1>1, <1>2 DEF OnPrepareAsk, OnPrepareAuto, OnPrepareAborted, OnSessionEnd, OnFileResult, Disturb
<1>3. ASSUME NEW s \in Sessions, AcceptNext(s)
      PROVE  AsksOnce'
  BY <1>1, <1>3 DEF AcceptNext, RegisterQuestion, AcceptFails, StoreIncoming, SendDecision,
                    MarkActive, vars, Disturb
<1>4. ASSUME NEW s \in Sessions, UserAccepts(s) \/ UserDeclines(s) \/ UserCancels(s)
      PROVE  AsksOnce'
  BY <1>1, <1>4 DEF UserAccepts, UserDeclines, UserCancels, vars, Disturb
<1> QED BY <1>2, <1>3, <1>4, QuestionTaken, ConflictAsked DEF LoopNext, UserNext

------------------------------------------------------------------------------
(* A session that has begun is past its question, and one that is summed up *)
(* is past its uploads.                                                     *)

\* Requests are of sessions that are or were active; what is placed had a handler.
LEMMA WorkBefore ==
    ASSUME TypeOK, RequestShape, StepClass, NEW s \in Sessions, NEW r \in Requests,
           req'[r].sid = s
    PROVE  req[r].sid = s \/ IsActive(s)
<1>0. req \in [Requests -> RequestType] /\ s # NoSession
  BY ConstantsAssumption DEF TypeOK
<1>1. CASE req' = req
  BY <1>1
<1>2. ASSUME NEW q \in Requests, NEW t \in Sessions, NEW f \in Files,
             BeginUpload(q, t, f) \/ BeginConfirm(q, t, f)
      PROVE  req[r].sid = s \/ IsActive(s)
  BY <1>0, <1>2 DEF BeginUpload, BeginConfirm, InSession, IsActive, ActiveSlot
<1>3. ASSUME NEW q \in Requests, Advance(q)
      PROVE  req[r].sid = s
  BY <1>0, <1>3 DEF Advance
<1>4. ASSUME NEW q \in Requests, Parks(q) \/ Settles(q) \/ DropConfirm(q)
      PROVE  req[r].sid = s
  BY <1>0, <1>4 DEF Parks, Settles, TargetRefused, Finish, DropUpload, DropConfirm, IdleRequest
<1> QED BY <1>1, <1>2, <1>3, <1>4
        DEF StepClass, Quiet, Claims, Releases, SessionAccepted, Ends

LEMMA PlacedBefore ==
    ASSUME [Next]_vars, NEW s \in Sessions, NEW f \in Files, <<s, f>> \in placed' \ placed
    PROVE  \E r \in Requests : Working(r, s, f)
<1>1. ASSUME NEW r \in Requests, NEW outcome, Place(r, outcome)
      PROVE  Working(r, s, f)
  BY <1>1 DEF Place, Working
<1>2. CASE placed' = placed
  BY <1>2
<1>3. ASSUME NEW r \in Requests, Handles(r)
      PROVE  placed' = placed \/ \E outcome : Place(r, outcome)
  BY <1>3 DEF Handles, HandlerNext, DropHandler, AskTarget, StartSaving, TargetRefused, BodySaved,
              BodyHeld, Settle, Report, Finish, DropUpload, DropConfirm
<1>4. ASSUME NEW t \in Sessions, PrepareNext(t) \/ SenderNext(t) \/ Reap(t) \/ CancelByReceiver(t)
      PROVE  placed' = placed
  BY <1>4 DEF PrepareNext, ClaimPending, AskApplication, SessionAccepted, SessionRefused,
              PrepareWithdrawn, AnswerDropped, AbortPrepare, SenderNext, CancelPending, SenderGone,
              CancelBySender, Touch, Reap, CancelByReceiver, outcomeVars
<1>5. ASSUME NEW r \in Requests, NEW t \in Sessions, NEW g \in Files, RequestNext(r, t, g)
      PROVE  placed' = placed
  BY <1>5 DEF RequestNext, BeginUpload, BeginConfirm
<1>6. ASSUME TenMinutes \/ AppTakes \/ \E e \in spawned : Deliver(e)
      PROVE  placed' = placed
  BY <1>6 DEF TenMinutes, AppTakes, Deliver, outcomeVars
<1>7. ASSUME \/ \E t \in Sessions, answer \in AnsweredStates : AppDecides(t, answer)
             \/ \E r \in Requests, answer \in {"assigned", "rejected"} : AppAnswers(r, answer)
      PROVE  placed' = placed
  BY <1>7 DEF AppDecides, AppAnswers
<1>8. CASE UNCHANGED vars
  BY <1>8 DEF vars
<1> QED BY <1>1, <1>2, <1>3, <1>4, <1>5, <1>6, <1>7, <1>8 DEF Next, ServerNext, AppNext, Handles

\* What the runtime does to the server: it ends a session, or it answers.
Answers(r) == \/ req'[r] = req[r]
              \/ /\ req[r].pc = "asked"
                 /\ \E answer \in {"assigned", "rejected"} :
                        req'[r] = [req[r] EXCEPT !.pc = answer]
RuntimeServes ==
    /\ placed' = placed /\ spawned' = spawned
    /\ channel' = channel \/ (channel # <<>> /\ channel' = Tail(channel))
    /\ \A r \in Requests : Answers(r)
    /\ slot' = FreeSlot \/ (slot' = slot /\ files' = files)
    /\ \A s \in Sessions : \/ prep'[s] = prep[s]
                           \/ prep[s] = "waiting" /\ prep'[s] \in {"accepted", "declined"}

LEMMA RuntimeServing ==
    ASSUME State,
           \/ LoopNext
           \/ \E s \in Sessions : AcceptNext(s)
           \/ UserNext
    PROVE  RuntimeServes
<1>0. /\ prep \in [Sessions -> PrepStates] /\ req \in [Requests -> RequestType]
      /\ \A c \in conflicts : c[1] \in Requests
  BY StateParts DEF TypeOK, RestTyped
<1>1. spawned' = spawned /\ (channel' = channel \/ (channel # <<>> /\ channel' = Tail(channel)))
  BY StateParts, RuntimeQueues
<1> DEFINE Prepared == \A s \in Sessions :
               \/ prep'[s] = prep[s]
               \/ prep[s] = "waiting" /\ prep'[s] \in {"accepted", "declined"}
<1>2. ASSUME NEW s \in Sessions, NEW answer \in {"accepted", "declined"}, AnswerPrepare(s, answer)
      PROVE  Prepared
  BY <1>0, <1>2, AnswerMoves
<1>3. ASSUME NEW r \in Requests, NEW answer \in {"assigned", "rejected"}, AnswerTarget(r, answer)
      PROVE  \A q \in Requests : Answers(q)
  BY <1>0, <1>3 DEF AnswerTarget, Answers
<1>4. CASE OnFileUpload
  <2>1. First.req \in Requests
    BY <1>4, TakenEvent, StateParts DEF OnFileUpload
  <2>2. \A q \in Requests : Answers(q)
    BY <1>3, <1>4, <2>1 DEF OnFileUpload, AssignUpload, Answers
  <2> QED BY <1>1, <1>4, <2>2 DEF OnFileUpload, serverRest, RuntimeServes
<1>5. ASSUME NEW c \in conflicts, ConflictAnswered(c)
      PROVE  RuntimeServes
  <2>1. \A q \in Requests : Answers(q)
    BY <1>0, <1>3, <1>5 DEF ConflictAnswered, AssignUpload
  <2> QED BY <1>1, <1>5, <2>1 DEF ConflictAnswered, serverRest, RuntimeServes
<1>6. CASE OnPrepareAsk \/ OnPrepareAuto \/ OnPrepareAborted \/ OnSessionEnd
           \/ \E kept \in BOOLEAN : OnFileResult(kept)
  BY <1>1, <1>6 DEF OnPrepareAsk, OnPrepareAuto, OnPrepareAborted, OnSessionEnd, OnFileResult,
                    serverRest, RuntimeServes, Answers
<1>7. ASSUME NEW s \in Sessions, StoreIncoming(s) \/ MarkActive(s) \/ UserAccepts(s)
      PROVE  RuntimeServes
  BY <1>1, <1>7 DEF StoreIncoming, MarkActive, UserAccepts, vars, RuntimeServes, Answers
<1>8. ASSUME NEW s \in Sessions, RegisterQuestion(s) \/ AcceptFails(s) \/ SendDecision(s) \/ UserDeclines(s)
      PROVE  RuntimeServes
  <2>1. question \in Sessions \cup {NoSession}
    BY StateParts DEF RestTyped
  <2>2. Prepared
    BY <1>2, <1>8, <2>1 DEF RegisterQuestion, DeclinePrevious, AcceptFails, SendDecision, UserDeclines
  <2> QED BY <1>1, <1>8, <2>2 DEF RegisterQuestion, AcceptFails, SendDecision, UserDeclines,
                                  serverRest, RuntimeServes, Answers
<1>9. ASSUME NEW s \in Sessions, UserCancels(s)
      PROVE  RuntimeServes
  <2>1. Prepared
    BY <1>2, <1>9 DEF UserCancels
  <2>2. slot' = FreeSlot \/ (slot' = slot /\ files' = files)
    BY <1>9 DEF UserCancels, DropSession
  <2> QED BY <1>1, <1>9, <2>1, <2>2 DEF UserCancels, RuntimeServes, Answers
<1> QED BY <1>4, <1>5, <1>6, <1>7, <1>8, <1>9 DEF LoopNext, AcceptNext, UserNext

\* The question of a session is answered for good.
Deciding == {"offered", "taken", "stored"}
Past(s) == /\ prep[s] = "done"
           /\ ~Asked(s) /\ question # s /\ accepting[s] \notin Deciding

Begun(s) == \/ \E f \in Files : <<s, f>> \in placed
            \/ \E r \in Requests : req[r].sid = s
BegunIsPast == \A s \in Sessions : Begun(s) => Past(s)

LEMMA ActiveIsPast ==
    ASSUME State, NEW s \in Sessions, IsActive(s) \/ Ending(s)
    PROVE  Past(s)
BY DEF State, ServerState, AllGood, Good, BeforeAnswered, Accepted, Past, Deciding

\* Only a session that is asked about comes to a decision.
LEMMA RuntimeDecides ==
    ASSUME State,
           \/ LoopNext
           \/ \E s \in Sessions : AcceptNext(s)
           \/ UserNext,
           NEW s \in Sessions, question' = s \/ accepting'[s] \in Deciding
    PROVE  question = s \/ accepting[s] \in Deciding \/ Asked(s)
<1>0. accepting \in [Sessions -> AcceptStates] /\ s # NoSession
  BY StateParts, SessionsExist DEF AcceptTyped
<1>1. CASE OnPrepareAsk \/ OnPrepareAuto
  <2>1. First.sid = s => Asked(s)
    BY <1>1, TakenFacts DEF OnPrepareAsk, OnPrepareAuto
  <2> QED BY <1>0, <1>1, <2>1 DEF OnPrepareAsk, OnPrepareAuto
<1>2. CASE OnPrepareAborted \/ OnFileUpload \/ OnSessionEnd \/ \E kept \in BOOLEAN : OnFileResult(kept)
  BY <1>0, <1>2 DEF OnPrepareAborted, OnFileUpload, OnFileResult, OnSessionEnd
<1>3. ASSUME NEW t \in Sessions, AcceptNext(t)
      PROVE  question = s \/ accepting[s] \in Deciding
  BY <1>0, <1>3 DEF AcceptNext, RegisterQuestion, AcceptFails, StoreIncoming, SendDecision,
                    MarkActive, Deciding
<1>4. ASSUME NEW t \in Sessions, UserAccepts(t) \/ UserDeclines(t) \/ UserCancels(t)
      PROVE  question = s \/ accepting[s] \in Deciding
  BY <1>0, <1>4 DEF UserAccepts, UserDeclines, UserCancels
<1>5. ASSUME NEW c \in conflicts, ConflictAnswered(c)
      PROVE  question = s \/ accepting[s] \in Deciding
  BY <1>5 DEF ConflictAnswered
<1> QED BY <1>1, <1>2, <1>3, <1>4, <1>5 DEF LoopNext, UserNext

LEMMA PastStays ==
    ASSUME State, [ReceiveNext]_receiveVars, NEW s \in Sessions, Past(s)
    PROVE  Past(s)'
<1>1. CASE ReceiveServerNext
  <2>1. ServerEffect
    BY <1>1, ServerEffects DEF State
  <2>2. prep'[s] = "done" /\ (Asked(s)' => Asked(s))
    BY <2>1 DEF ServerEffect, OthersSame, SameServer, Claiming, Closing, Asking, Starting, Stopping,
                Still, Past
  <2> QED BY <1>1, <2>2 DEF ReceiveServerNext, runtimeVars, Past
<1>2. CASE LoopNext \/ (\E t \in Sessions : AcceptNext(t)) \/ UserNext
  <2>1. RuntimeServes
    BY <1>2, RuntimeServing
  <2>2. prep'[s] = "done"
    BY <2>1 DEF RuntimeServes, Past
  <2>3. Queued' \subseteq Queued /\ spawned' = spawned
    BY <2>1, StateParts, TailShifts DEF RuntimeServes, Queued
  <2>4. ~Asked(s)'
    BY <2>3 DEF Asked, Under, Past
  <2>5. question' # s /\ accepting'[s] \notin Deciding
    BY <1>2, RuntimeDecides DEF Past
  <2> QED BY <2>2, <2>4, <2>5 DEF Past
<1>3. CASE UNCHANGED receiveVars
  BY <1>3 DEF receiveVars, vars, runtimeVars, Past, Asked, Under, Queued
<1> QED BY <1>1, <1>2, <1>3 DEF ReceiveNext

LEMMA BegunBefore ==
    ASSUME State, [ReceiveNext]_receiveVars, NEW s \in Sessions, Begun(s)'
    PROVE  Begun(s) \/ IsActive(s)
<1>1. CASE [Next]_vars
  <2>1. StepClass /\ TypeOK /\ RequestShape
    BY <1>1, StateParts, StepClasses DEF RInv, IInv
  <2> QED BY <1>1, <2>1, WorkBefore, PlacedBefore DEF Begun, Working
<1>2. CASE LoopNext \/ (\E t \in Sessions : AcceptNext(t)) \/ UserNext
  <2>1. RuntimeServes
    BY <1>2, RuntimeServing
  <2>2. \A r \in Requests : req'[r].sid = req[r].sid
    <3>1. req \in [Requests -> RequestType]
      BY StateParts DEF TypeOK
    <3> QED BY <2>1, <3>1 DEF RuntimeServes, Answers, RequestType
  <2> QED BY <2>1, <2>2 DEF RuntimeServes, Begun
<1>3. CASE UNCHANGED receiveVars
  BY <1>1, <1>3 DEF receiveVars
<1> QED BY <1>1, <1>2, <1>3, ServerSteps DEF ReceiveNext

LEMMA BegunStep ==
    ASSUME State, BegunIsPast, [ReceiveNext]_receiveVars
    PROVE  BegunIsPast'
BY BegunBefore, PastStays, ActiveIsPast DEF BegunIsPast

\* Nobody receives for the session, and nobody will.
Closed(s) == /\ ~IsActive(s)
             /\ \A r \in Requests : req[r].sid # s
             /\ prep[s] \in {"declined", "dropped", "done"}

LEMMA ClosedStays ==
    ASSUME State, [ReceiveNext]_receiveVars, NEW s \in Sessions, Closed(s)
    PROVE  Closed(s)'
<1>0. TypeOK /\ RequestShape
  BY StateParts DEF RInv, IInv
<1>1. CASE ReceiveServerNext
  <2>1. ServerEffect
    BY <1>1, ServerEffects DEF State
  <2>2. prep'[s] \in {"declined", "dropped", "done"} /\ ~IsActive(s)'
    BY <2>1 DEF ServerEffect, OthersSame, SameServer, Claiming, Closing, Asking, Starting, Stopping,
                Still, Closed
  <2>3. StepClass
    BY <1>0, <1>1, ServerSteps, StepClasses
  <2> QED BY <1>0, <2>2, <2>3, WorkBefore DEF Closed
<1>2. CASE LoopNext \/ (\E t \in Sessions : AcceptNext(t)) \/ UserNext
  <2>1. RuntimeServes
    BY <1>2, RuntimeServing
  <2>2. \A r \in Requests : req'[r].sid = req[r].sid
    BY <1>0, <2>1 DEF RuntimeServes, Answers, TypeOK, RequestType
  <2> QED BY <2>1, <2>2 DEF RuntimeServes, Closed, IsActive, FreeSlot
<1>3. CASE UNCHANGED receiveVars
  BY <1>3 DEF receiveVars, vars, Closed, IsActive
<1> QED BY <1>1, <1>2, <1>3 DEF ReceiveNext

------------------------------------------------------------------------------
(* Results tell the truth.                                                 *)

IsResult(e, s, f) == e.type = "FileUploadResult" /\ e.sid = s /\ e.file = f

ResultIsTrue(e) == e.type = "FileUploadResult" =>
    /\ e.outcome = "Interrupted" => e.sid \in disturbed
    /\ e.outcome = "Success" => <<e.sid, e.file>> \in placed

\* A session of which something was cut off is disturbed; a success is in place.
ResultsTrue ==
    /\ \A e \in Queued \cup spawned : ResultIsTrue(e)
    /\ \A r \in Requests : req[r].outcome = "Interrupted" => req[r].sid \in disturbed

LEMMA AnsweredOnly ==
    ASSUME RuntimeServes, req \in [Requests -> RequestType], NEW r \in Requests
    PROVE  /\ req'[r].sid = req[r].sid /\ req'[r].file = req[r].file
           /\ req'[r].kind = req[r].kind /\ req'[r].outcome = req[r].outcome
           /\ \/ req'[r].pc = req[r].pc
              \/ req[r].pc = "asked" /\ req'[r].pc \in {"assigned", "rejected"}
<1>1. CASE req'[r] = req[r]
  BY <1>1
<1>2. ASSUME NEW answer \in {"assigned", "rejected"}, req[r].pc = "asked",
             req'[r] = [req[r] EXCEPT !.pc = answer]
      PROVE  /\ req'[r].sid = req[r].sid /\ req'[r].file = req[r].file
             /\ req'[r].kind = req[r].kind /\ req'[r].outcome = req[r].outcome
             /\ req[r].pc = "asked" /\ req'[r].pc = answer
  BY <1>2 DEF RequestType
<1> QED BY <1>1, <1>2 DEF RuntimeServes, Answers

\* Only LostConnection gives a handler an interruption to report.
LEMMA CutOffBefore ==
    ASSUME TypeOK, ReceiveServerNext, NEW r \in Requests, req'[r].outcome = "Interrupted"
    PROVE  \/ req[r].outcome = "Interrupted" /\ req'[r].sid = req[r].sid
           \/ req'[r].sid \in disturbed'
<1>0. req \in [Requests -> RequestType]
  BY DEF TypeOK
<1>1. ASSUME NEW q \in Requests, HandlerNext(q), ~BodySaved(q, "Interrupted")
      PROVE  req[r].outcome = "Interrupted" /\ req'[r].sid = req[r].sid
  <2>1. CASE q = r
    <3>1. req'[r] # IdleRequest
      BY DEF IdleRequest
    <3>2. req'[r].sid = req[r].sid
      BY <1>0, <1>1, <2>1, <3>1
      DEF HandlerNext, AskTarget, StartSaving, TargetRefused, BodySaved, BodyHeld, Settle, Report,
          Finish, Goto, RequestType
    <3> QED BY <1>1, <2>1, <3>2, NotCutOff
  <2>2. CASE q # r
    <3>1. req'[r] = req[r]
      BY <1>0, <1>1, <2>2
      DEF HandlerNext, AskTarget, StartSaving, TargetRefused, BodySaved, BodyHeld, Settle, Report,
          Finish, Goto
    <3> QED BY <3>1
  <2> QED BY <2>1, <2>2
<1>2. ASSUME NEW q \in Requests, LostConnection(q)
      PROVE  \/ req[r].outcome = "Interrupted" /\ req'[r].sid = req[r].sid
             \/ req'[r].sid \in disturbed'
  <2>1. req[q].sid \in disturbed'
    BY <1>2 DEF LostConnection, Disturb
  <2>2. req'[q] = IdleRequest \/ req'[q].sid = req[q].sid
    BY <1>0, <1>2 DEF LostConnection, DropHandler, DropUpload, DropConfirm, BodySaved, RequestType
  <2>3. \A p \in Requests \ {q} : req'[p] = req[p]
    BY <1>0, <1>2 DEF LostConnection, DropHandler, DropUpload, DropConfirm, BodySaved
  <2> QED BY <2>1, <2>2, <2>3 DEF IdleRequest
<1>3. ASSUME NEW q \in Requests, NEW s \in Sessions, NEW f \in Files, ReceiveRequestNext(q, s, f)
      PROVE  req'[r] = req[r]
  BY <1>0, <1>3 DEF ReceiveRequestNext, RequestNext, BeginUpload, BeginConfirm
<1>4. CASE req' = req
  BY <1>4
<1>5. ASSUME NEW s \in Sessions,
             \/ ReceivePrepareNext(s) \/ CancelPending(s) \/ CancelBySender(s) \/ Touch(s)
             \/ Reap(s) \/ LostRequest(s)
      PROVE  req' = req
  BY <1>5 DEF ReceivePrepareNext, ClaimPending, AskApplication, SessionAccepted, SessionRefused,
              CancelPending, CancelBySender, Touch, Reap, LostRequest, PrepareWithdrawn,
              SenderGone, AbortPrepare, handlerVars
<1>6. ASSUME TenMinutes \/ \E e \in spawned : Deliver(e)
      PROVE  req' = req
  BY <1>6 DEF TenMinutes, Deliver, handlerVars
<1> QED BY <1>1, <1>2, <1>3, <1>4, <1>5, <1>6 DEF ReceiveServerNext, QuietServerNext

LEMMA ResultsStep ==
    ASSUME State, ResultsTrue, [ReceiveNext]_receiveVars
    PROVE  ResultsTrue'
<1>0. TypeOK /\ IInv /\ RequestShape /\ req \in [Requests -> RequestType]
  BY StateParts DEF IInv, RInv, TypeOK
<1>1. disturbed \subseteq disturbed'
  BY StepKept DEF Kept
<1>2. ASSUME placed \subseteq placed', NEW e \in Queued \cup spawned
      PROVE  ResultIsTrue(e)'
  BY <1>1, <1>2 DEF ResultsTrue, ResultIsTrue
<1>3. CASE ReceiveServerNext
  <2>1. ServerSends /\ placed \subseteq placed'
    BY <1>0, <1>3, ServerSendings, ServerSteps, OutcomeFrames
  <2>2. ASSUME NEW r \in Requests, NEW e, AskTarget(r) \/ Report(r),
               e \in Queued' \ Queued
        PROVE  ResultIsTrue(e)'
    <3>1. req[r] # IdleRequest /\ req[r].outcome \in SaveOutcomes \cup {"none"}
      BY <1>0, <2>2 DEF AskTarget, Report, IdleRequest, RequestType
    <3>2. PICK d : /\ channel' = Append(channel, d)
                   /\ \/ d = RequestEvent("FileUpload", r, "none")
                      \/ d = RequestEvent("FileUploadResult", r, req[r].outcome)
      BY <2>2 DEF AskTarget, Report
    <3>3. /\ d \in Events /\ d.sid = req[r].sid /\ d.file = req[r].file
          /\ d.type = "FileUploadResult" => d.outcome = req[r].outcome
      <4>1. d \in Events
        BY <1>0, <3>1, <3>2, EventTypes
      <4>2. CASE d = RequestEvent("FileUpload", r, "none")
        BY <4>1, <4>2 DEF RequestEvent, Event
      <4>3. CASE d = RequestEvent("FileUploadResult", r, req[r].outcome)
        BY <4>1, <4>3 DEF RequestEvent, Event
      <4> QED BY <3>2, <4>2, <4>3
    <3>4. e = d
      BY <1>0, <2>2, <3>2, <3>3, AppendQueued
    <3>5. ResultIsTrue(d)
      BY <1>0, <3>3 DEF ResultIsTrue, ResultsTrue, IInv, Outcomes, SuccessIsPlaced
    <3> QED BY <1>1, <2>1, <3>4, <3>5 DEF ResultIsTrue
  <2>3. ASSUME NEW e \in Queued' \cup spawned', e \notin Queued \cup spawned
        PROVE  ResultIsTrue(e)'
    <3>1. CASE e \in spawned'
      BY <2>1, <2>3, <3>1 DEF ServerSends, IsNote, ResultIsTrue
    <3>2. CASE e \in Queued' \ Queued
      <4>1. CASE \E r \in Requests : AskTarget(r) \/ Report(r)
        BY <2>2, <3>2, <4>1
      <4>2. CASE channel' = channel
        BY <3>2, <4>2 DEF Queued
      <4>3. ASSUME NEW d \in Events, channel' = Append(channel, d),
                   d \in spawned \/ d.type = "PrepareUpload"
            PROVE  ResultIsTrue(e)'
        <5>1. e = d
          BY <1>0, <3>2, <4>3, AppendQueued
        <5> QED BY <2>3, <4>3, <5>1 DEF ResultIsTrue
      <4> QED BY <1>0, <2>1, <4>1, <4>2, <4>3 DEF ServerSends, TypeOK
    <3> QED BY <2>3, <3>1, <3>2
  <2>4. \A r \in Requests : req'[r].outcome = "Interrupted" => req'[r].sid \in disturbed'
    BY <1>0, <1>1, <1>3, CutOffBefore DEF ResultsTrue
  <2> QED BY <1>2, <2>1, <2>3, <2>4 DEF ResultsTrue
<1>4. CASE LoopNext \/ (\E t \in Sessions : AcceptNext(t)) \/ UserNext
  <2>1. RuntimeServes
    BY <1>4, RuntimeServing
  <2>2. Queued' \subseteq Queued /\ spawned' = spawned /\ placed' = placed
    BY <1>0, <2>1, TailShifts DEF RuntimeServes, Queued
  <2>3. \A r \in Requests : req'[r].sid = req[r].sid /\ req'[r].outcome = req[r].outcome
    BY <1>0, <2>1, AnsweredOnly
  <2> QED BY <1>1, <1>2, <2>2, <2>3 DEF ResultsTrue
<1>5. CASE UNCHANGED receiveVars
  BY <1>5 DEF receiveVars, vars, ResultsTrue, ResultIsTrue, Queued
<1> QED BY <1>3, <1>4, <1>5 DEF ReceiveNext

------------------------------------------------------------------------------
(* What the runtime shows of a file, step by step.                         *)

SameBooks(s, f) == transfer'[s] = transfer[s] /\ view'[s][f] = view[s][f]
Shows(s, f, state) == /\ transfer'[s] = transfer[s]
                      /\ view'[s][f] = IF transfer[s] = "none" THEN view[s][f] ELSE state
Removed(s, f) == transfer'[s] = "none" /\ view'[s][f] = "Pending"
Reopened(s, f) == /\ view'[s][f] = view[s][f]
                  /\ transfer'[s] \in {"WaitingAccept", "Active"}
                  /\ transfer[s] = "none" => Asked(s)
Completed(s, f, state) ==
    /\ transfer[s] # "none" /\ transfer'[s] = state
    /\ view'[s][f] = IF IsOpen(view[s][f]) THEN ClosedAs(state) ELSE view[s][f]

TakesResult(s, f) == channel' # channel /\ IsResult(First, s, f)
EndTaken(s) == channel' # channel /\ First = EndOf(s)
AsksFor(s, f) == \E r \in Requests : Working(r, s, f) /\ req[r].pc = "asked"
NoRefusal(s, f) ==
    \A r \in Requests : Working(r, s, f) /\ req'[r].pc = "rejected" => req'[r] = req[r]

\* A transfer is summed up at the end of its session, or failed before it was accepted.
SumsUp(s, state) ==
    \/ state \notin {"Finished", "Failed"}
    \/ EndTaken(s)
    \/ /\ state = "Failed" /\ accepting[s] = "taken"
       /\ prep'[s] = IF prep[s] = "waiting" THEN "declined" ELSE prep[s]

ResultShown(s, f) ==
    /\ TakesResult(s, f) /\ NoRefusal(s, f)
    /\ \/ First.outcome = "Success" /\ Shows(s, f, "Finished")
       \/ First.outcome # "Success" /\ Shows(s, f, "Failed")
QuestionShown(s, f) ==
    /\ ~TakesResult(s, f) /\ AsksFor(s, f)
    /\ Shows(s, f, "Failed") \/ (Shows(s, f, "Active") /\ NoRefusal(s, f))
TransferShown(s, f) ==
    /\ ~TakesResult(s, f) /\ NoRefusal(s, f)
    /\ \/ SameBooks(s, f) \/ Removed(s, f) \/ Reopened(s, f)
       \/ \E state \in FinalStates : SumsUp(s, state) /\ Completed(s, f, state)

BooksStep(s, f) == ResultShown(s, f) \/ QuestionShown(s, f) \/ TransferShown(s, f)

LEMMA CompletesFile ==
    ASSUME BooksTyped, NEW t \in Sessions, NEW state \in FinalStates, CompleteTransfer(t, state),
           NEW s \in Sessions, NEW f \in Files
    PROVE  SameBooks(s, f) \/ (s = t /\ Completed(s, f, state))
<1>1. CASE CanComplete(t)
  BY <1>1 DEF CompleteTransfer, BooksTyped, CanComplete, SameBooks, Completed
<1>2. CASE ~CanComplete(t)
  BY <1>2 DEF CompleteTransfer, SameBooks
<1> QED BY <1>1, <1>2

LEMMA RemovesFile ==
    ASSUME BooksTyped, NEW t \in Sessions, RemoveTransfer(t), NEW s \in Sessions, NEW f \in Files
    PROVE  SameBooks(s, f) \/ Removed(s, f)
BY DEF BooksTyped, RemoveTransfer, FreshView, SameBooks, Removed

LEMMA ShowsFile ==
    ASSUME BooksTyped, NEW t \in Sessions, NEW g \in Files, NEW state, ShowFile(t, g, state),
           transfer' = transfer,
           NEW s \in Sessions, NEW f \in Files
    PROVE  IF s = t /\ f = g THEN Shows(s, f, state) ELSE SameBooks(s, f)
BY DEF BooksTyped, ShowFile, Shows, SameBooks

LEMMA OpensTransfer ==
    ASSUME BooksTyped, NEW t \in Sessions, NEW state \in {"WaitingAccept", "Active"},
           transfer' = [transfer EXCEPT ![t] = state], view' = view,
           transfer[t] = "none" => Asked(t),
           NEW s \in Sessions, NEW f \in Files
    PROVE  SameBooks(s, f) \/ Reopened(s, f)
BY DEF BooksTyped, SameBooks, Reopened

\* Nothing is taken from the channel, or an event that is no result of the file.
LEMMA NothingTaken ==
    ASSUME channel' = channel, NEW s, NEW f
    PROVE  ~TakesResult(s, f)
BY DEF TakesResult

LEMMA Unanswered ==
    ASSUME req' = req, NEW s, NEW f
    PROVE  NoRefusal(s, f)
BY DEF NoRefusal

LEMMA TakenAway ==
    ASSUME TypeOK, channel # <<>>, channel' = Tail(channel)
    PROVE  channel' # channel
<1>1. /\ Len(channel) \in Nat /\ Len(channel) # 0
      /\ Len(channel') = Len(channel) - 1
  BY DEF TypeOK
<1>2. \A m \in Nat : m - 1 # m
  OBVIOUS
<1> QED BY <1>1, <1>2

LEMMA FileResultShown ==
    ASSUME State, ResultsTrue, NEW kept \in BOOLEAN, OnFileResult(kept),
           NEW s \in Sessions \ disturbed, NEW f \in Files
    PROVE  BooksStep(s, f)
<1>0. /\ BooksTyped /\ First.type = "FileUploadResult" /\ First \in Queued
      /\ First.sid \in Sessions /\ First.file \in Files
      /\ channel' # channel /\ transfer' = transfer /\ req' = req
  BY StateParts, TakenEvent, TakenAway DEF OnFileResult, Takes
<1>1. NoRefusal(s, f)
  BY <1>0, Unanswered
<1>2. \/ First.outcome = "Success" /\ ShowFile(First.sid, First.file, "Finished")
      \/ First.outcome = "Interrupted" /\ view' = view
      \/ First.outcome # "Success" /\ ShowFile(First.sid, First.file, "Failed")
  <2>1. CASE First.outcome = "Success" /\ ~KeptPartial(First, kept)
    BY <2>1 DEF OnFileResult
  <2>2. CASE First.outcome # "Success" /\ KeptPartial(First, kept)
    BY <2>2 DEF OnFileResult, KeptPartial
  <2>3. CASE First.outcome # "Success" /\ ~KeptPartial(First, kept)
    BY <2>3 DEF OnFileResult
  <2>4. KeptPartial(First, kept) => First.outcome # "Success"
    BY DEF KeptPartial
  <2> QED BY <2>1, <2>2, <2>3, <2>4
<1>3. CASE First.sid = s /\ First.file = f
  <2>1. First.outcome # "Interrupted"
    BY <1>0, <1>3 DEF ResultsTrue, ResultIsTrue
  <2>2. TakesResult(s, f)
    BY <1>0, <1>3 DEF TakesResult, IsResult
  <2> QED BY <1>0, <1>1, <1>2, <1>3, <2>1, <2>2, ShowsFile DEF BooksStep, ResultShown
<1>4. CASE ~(First.sid = s /\ First.file = f)
  <2>1. ~TakesResult(s, f)
    BY <1>4 DEF TakesResult, IsResult
  <2>2. SameBooks(s, f)
    <3>1. CASE view' = view
      BY <1>0, <3>1 DEF SameBooks
    <3>2. CASE \E state \in {"Finished", "Failed"} : ShowFile(First.sid, First.file, state)
      BY <1>0, <1>4, <3>2, ShowsFile
    <3> QED BY <1>2, <3>1, <3>2
  <2> QED BY <1>1, <2>1, <2>2 DEF BooksStep, TransferShown
<1> QED BY <1>3, <1>4

\* A question about a file of an undisturbed session is asked by its handler.
LEMMA AnswerShown ==
    ASSUME State, NEW r \in Requests, NEW t \in Sessions, NEW g \in Files, Awaited(r, t, g),
           NEW answer \in {"assigned", "rejected"}, AnswerTarget(r, answer),
           NEW state, ShowFile(t, g, state), transfer' = transfer,
           \/ answer = "assigned" /\ state = "Active"
           \/ answer = "rejected" /\ state = "Failed",
           NEW s \in Sessions \ disturbed, NEW f \in Files, ~TakesResult(s, f)
    PROVE  BooksStep(s, f)
<1>0. BooksTyped /\ req \in [Requests -> RequestType]
  BY StateParts DEF TypeOK
<1>1. answer = "assigned" => NoRefusal(s, f)
  BY <1>0 DEF AnswerTarget, NoRefusal, RequestType
<1>2. CASE s = t /\ f = g
  <2>1. AsksFor(s, f)
    BY <1>2 DEF Awaited, AsksFor
  <2>2. Shows(s, f, state)
    BY <1>0, <1>2, ShowsFile
  <2> QED BY <1>1, <2>1, <2>2 DEF BooksStep, QuestionShown
<1>3. CASE ~(s = t /\ f = g)
  <2>1. SameBooks(s, f)
    BY <1>0, <1>3, ShowsFile
  <2>2. NoRefusal(s, f)
    <3>1. CASE req' = req
      BY <3>1, Unanswered
    <3>2. CASE req[r].pc = "asked" /\ req' = [req EXCEPT ![r].pc = answer]
      <4>1. ~Working(r, s, f)
        BY <1>3, <3>2 DEF Awaited, Working, IdleRequest
      <4> QED BY <1>0, <3>2, <4>1 DEF NoRefusal
    <3> QED BY <3>1, <3>2 DEF AnswerTarget
  <2> QED BY <2>1, <2>2 DEF BooksStep, TransferShown
<1> QED BY <1>2, <1>3

LEMMA EndNamed ==
    ASSUME State, NEW e \in Queued, e.type = "SessionEnd", e.outcome = "Finished"
    PROVE  e = EndOf(e.sid)
<1>1. e \in Events /\ NamesItsFile(e)
  BY StateParts DEF RInv, EventShape, TypeOK, Queued
<1> QED BY <1>1 DEF NamesItsFile, EndOf, SessionEvent, Event, Events

LEMMA RuntimeShows ==
    ASSUME State, AsksOnce, ResultsTrue,
           \/ LoopNext
           \/ \E s \in Sessions : AcceptNext(s)
           \/ UserNext,
           NEW s \in Sessions \ disturbed, NEW f \in Files
    PROVE  BooksStep(s, f)
<1>0. BooksTyped /\ TypeOK /\ RInv
  BY StateParts
<1>1. ASSUME req' = req, ~TakesResult(s, f),
             SameBooks(s, f) \/ Removed(s, f) \/ Reopened(s, f)
      PROVE  BooksStep(s, f)
  BY <1>1, Unanswered DEF BooksStep, TransferShown
<1>2. ASSUME req' = req, ~TakesResult(s, f), NEW t \in Sessions, NEW state \in FinalStates,
             CompleteTransfer(t, state), SumsUp(t, state)
      PROVE  BooksStep(s, f)
  <2>1. SameBooks(s, f) \/ (s = t /\ Completed(s, f, state))
    BY <1>0, <1>2, CompletesFile
  <2>2. NoRefusal(s, f)
    BY <1>2, Unanswered
  <2> QED BY <1>2, <2>1, <2>2 DEF BooksStep, TransferShown
<1>3. ASSUME view' = view, transfer' = transfer
      PROVE  SameBooks(s, f)
  BY <1>3 DEF SameBooks
<1>4. CASE OnPrepareAsk \/ OnPrepareAuto
  <2>1. /\ First.type = "PrepareUpload" /\ First.sid \in Sessions
        /\ req' = req /\ view' = view
    BY <1>0, <1>4, TakenEvent DEF OnPrepareAsk, OnPrepareAuto
  <2>2. Asked(First.sid)
    BY <1>4, TakenFacts DEF OnPrepareAsk, OnPrepareAuto
  <2>3. SameBooks(s, f) \/ Reopened(s, f)
    BY <1>0, <1>4, <2>1, <2>2, OpensTransfer DEF OnPrepareAsk, OnPrepareAuto
  <2> QED BY <1>1, <2>1, <2>3 DEF TakesResult, IsResult
<1>5. CASE OnPrepareAborted
  <2>1. First.type = "PrepareUploadAborted" /\ First.sid \in Sessions /\ req' = req
    BY <1>0, <1>5, TakenEvent DEF OnPrepareAborted
  <2>2. SameBooks(s, f) \/ Removed(s, f)
    BY <1>0, <1>3, <1>5, <2>1, RemovesFile DEF OnPrepareAborted
  <2> QED BY <1>1, <2>1, <2>2 DEF TakesResult, IsResult
<1>6. CASE OnFileUpload
  <2>1. /\ First.type = "FileUpload" /\ First.sid \in Sessions
        /\ First.file \in Files /\ First.req \in Requests /\ First \in Queued
        /\ channel # <<>> /\ transfer' = transfer
    BY <1>0, <1>6, TakenEvent DEF OnFileUpload, Takes
  <2>2. Awaited(First.req, First.sid, First.file)
    <3>1. 1 \in 1 .. Len(channel) /\ channel[1] = First
      BY <1>0, <2>1 DEF TypeOK, First
    <3> QED BY <2>1, <3>1 DEF AsksOnce, IsQuestion
  <2>3. ~TakesResult(s, f)
    BY <2>1 DEF TakesResult, IsResult
  <2>4. CASE AssignUpload(First.req, First.sid, First.file)
    BY <2>1, <2>2, <2>3, <2>4, AnswerShown DEF AssignUpload
  <2>5. CASE view' = view /\ req' = req
    BY <1>1, <1>3, <2>1, <2>3, <2>5
  <2>6. CASE ShowFile(First.sid, First.file, "Failed") /\ AnswerTarget(First.req, "rejected")
    BY <2>1, <2>2, <2>3, <2>6, AnswerShown
  <2> QED BY <1>6, <2>4, <2>5, <2>6 DEF OnFileUpload
<1>7. ASSUME NEW c \in conflicts, ConflictAnswered(c)
      PROVE  BooksStep(s, f)
  <2>1. /\ c[1] \in Requests /\ c[2] \in Sessions /\ c[3] \in Files
        /\ Awaited(c[1], c[2], c[3])
    BY StateParts DEF RestTyped, AsksOnce
  <2>2. channel' = channel /\ transfer' = transfer /\ AssignUpload(c[1], c[2], c[3])
    BY <1>7 DEF ConflictAnswered
  <2> QED BY <2>1, <2>2, AnswerShown, NothingTaken DEF AssignUpload
<1>8. CASE OnSessionEnd
  <2>1. /\ First.type = "SessionEnd" /\ First.sid \in Sessions /\ First \in Queued
        /\ channel' # channel /\ req' = req
    BY <1>0, <1>8, TakenEvent, TakenAway DEF OnSessionEnd, Takes
  <2>2. ~TakesResult(s, f)
    BY <2>1 DEF TakesResult, IsResult
  <2>3. CASE view' = view /\ transfer' = transfer
    BY <1>1, <1>3, <2>1, <2>2, <2>3
  <2>4. ASSUME NEW state, state = Summary(First.outcome, incoming.failed),
               CompleteTransfer(First.sid, state)
        PROVE  BooksStep(s, f)
    <3>1. state \in FinalStates /\ (state # "Cancelled" => First.outcome = "Finished")
      BY <2>4 DEF Summary, FinalStates
    <3>2. SumsUp(First.sid, state)
      BY <2>1, <3>1, EndNamed DEF SumsUp, EndTaken
    <3> QED BY <1>2, <2>1, <2>2, <2>4, <3>1, <3>2
  <2> QED BY <1>8, <2>3, <2>4 DEF OnSessionEnd
<1>9. ASSUME NEW t \in Sessions,
             RegisterQuestion(t) \/ UserDeclines(t) \/ UserCancels(t) \/ AcceptFails(t)
      PROVE  BooksStep(s, f)
  <2>1. channel' = channel /\ req' = req
    BY <1>9 DEF RegisterQuestion, UserDeclines, UserCancels, AcceptFails
  <2>2. /\ \A state \in {"Declined", "Cancelled"} : state \in FinalStates /\ SumsUp(t, state)
        /\ \A state \in {"Declined", "Cancelled"} : SumsUp(question, state)
        /\ "Failed" \in FinalStates
    BY DEF FinalStates, SumsUp
  <2>3. CASE RegisterQuestion(t)
    <3>1. question \in Sessions \cup {NoSession}
      BY StateParts DEF RestTyped
    <3>2. CASE question = NoSession
      BY <1>1, <1>3, <2>1, <2>3, <3>2, NothingTaken DEF RegisterQuestion, DeclinePrevious
    <3>3. CASE question # NoSession
      BY <1>2, <2>1, <2>2, <2>3, <3>1, <3>3, NothingTaken DEF RegisterQuestion, DeclinePrevious
    <3> QED BY <3>2, <3>3
  <2>4. CASE UserDeclines(t)
    BY <1>2, <2>1, <2>2, <2>4, NothingTaken DEF UserDeclines
  <2>5. CASE UserCancels(t)
    BY <1>2, <2>1, <2>2, <2>5, NothingTaken DEF UserCancels
  <2>6. CASE AcceptFails(t)
    <3>1. SumsUp(t, "Failed")
      BY <1>0, <2>6, AnswerMoves, StateParts DEF AcceptFails, SumsUp
    <3> QED BY <1>2, <2>1, <2>2, <2>6, <3>1, NothingTaken DEF AcceptFails
  <2> QED BY <1>9, <2>3, <2>4, <2>5, <2>6
<1>10. ASSUME NEW t \in Sessions, StoreIncoming(t) \/ UserAccepts(t)
       PROVE  BooksStep(s, f)
  BY <1>1, <1>3, <1>10, NothingTaken DEF StoreIncoming, UserAccepts, vars
<1>11. ASSUME NEW t \in Sessions, SendDecision(t)
       PROVE  BooksStep(s, f)
  BY <1>0, <1>1, <1>3, <1>11, NothingTaken, RemovesFile DEF SendDecision
<1>12. ASSUME NEW t \in Sessions, MarkActive(t)
       PROVE  BooksStep(s, f)
  <2>1. channel' = channel /\ req' = req /\ view' = view
    BY <1>12 DEF MarkActive, vars
  <2>2. SameBooks(s, f) \/ Reopened(s, f)
    <3>1. CASE transfer[t] = "none"
      BY <1>3, <1>12, <2>1, <3>1 DEF MarkActive
    <3>2. CASE transfer[t] # "none"
      BY <1>0, <1>12, <2>1, <3>2, OpensTransfer DEF MarkActive
    <3> QED BY <3>1, <3>2
  <2> QED BY <1>1, <2>1, <2>2, NothingTaken
<1> QED BY <1>4, <1>5, <1>6, <1>7, <1>8, <1>9, <1>10, <1>11, <1>12, FileResultShown
        DEF LoopNext, AcceptNext, UserNext

------------------------------------------------------------------------------
(* The books agree with the disk, file by file.                            *)

\* The file is lost to its session.
Hopeless(s, f) ==
    \/ IsActive(s) /\ files[f].status = "Failed"
    \/ \E r \in Requests :
          /\ Working(r, s, f)
          /\ \/ req[r].pc = "rejected"
             \/ req[r].pc = "finishing" /\ req[r].outcome # "Success"
    \/ EndOf(s) \in Queued \cup spawned /\ <<s, f>> \notin placed

\* The interface shows that, or is about to.
GivenUp(s, f) ==
    \/ transfer[s] = "none"
    \/ ~IsOpen(view[s][f])
    \/ \E e \in Queued : IsResult(e, s, f) /\ e.outcome # "Success"
LossShown(s, f) == Hopeless(s, f) => GivenUp(s, f)

\* The success of the file was sent, and is shown or on its way.
Reported(s, f) ==
    /\ Through(s, f)
    /\ \/ transfer[s] = "none"
       \/ view[s][f] = "Finished"
       \/ \E e \in Queued : IsResult(e, s, f) /\ e.outcome = "Success"
Announces(r, s, f) == /\ Working(r, s, f)
                      /\ req[r].pc = "reporting" /\ req[r].outcome = "Success"
PlacedIsShown(s, f) ==
    <<s, f>> \in placed => Reported(s, f) \/ \E r \in Requests : Announces(r, s, f)
ShownIsPlaced(s, f) == view[s][f] = "Finished" => <<s, f>> \in placed

\* Nothing else is heard of the file after its success.
SuccessLast(s, f) ==
    \A j \in 1 .. Len(channel) :
        /\ IsResult(channel[j], s, f)
        /\ \/ view[s][f] = "Finished"
           \/ \E i \in 1 .. Len(channel) :
                 i < j /\ IsResult(channel[i], s, f) /\ channel[i].outcome = "Success"
        => channel[j].outcome = "Success"

\* A transfer that is summed up takes in nothing any more.
SummedUp(s) == transfer[s] \in {"Finished", "Failed"}
SummedIsClosed(s) == SummedUp(s) => Closed(s)
SummedIsShown(s, f) == SummedUp(s) /\ <<s, f>> \in placed => view[s][f] = "Finished"

\* Every file of the session was accepted.
Offered(s, f) == IsActive(s) => files[f].status # "Absent"

FileInv(s, f) == /\ LossShown(s, f)
                 /\ PlacedIsShown(s, f)
                 /\ ShownIsPlaced(s, f)
                 /\ SuccessLast(s, f)
                 /\ SummedIsClosed(s)
                 /\ SummedIsShown(s, f)
                 /\ Offered(s, f)
FilesAgree == \A s \in Sessions \ disturbed, f \in Files : FileInv(s, f)

\* The books before a step: what has begun, what was asked, what results say.
Books == State /\ EndInv /\ AsksOnce /\ ResultsTrue /\ BegunIsPast

------------------------------------------------------------------------------
(* The server's steps, as a session sees them.                             *)

\* A handler of the session goes on.
Works(r, s) ==
    /\ req[r].sid = s
    /\ \/ AskTarget(r) \/ StartSaving(r) \/ TargetRefused(r) \/ BodyHeld(r)
       \/ \E outcome \in SaveOutcomes : BodySaved(r, outcome) \/ Settle(r, outcome)
       \/ Report(r) \/ Finish(r)
Begins(s) == \E r \in Requests, f \in Files : BeginUpload(r, s, f) \/ BeginConfirm(r, s, f)

\* Whatever happens, nothing is done for the session.
Elsewhere(s) ==
    /\ \A r \in Requests : req[r].sid = s \/ req'[r].sid = s => req'[r] = req[r]
    /\ IsActive(s)' => IsActive(s) /\ files' = files
    /\ \A f \in Files : <<s, f>> \in placed' => <<s, f>> \in placed
    /\ \/ channel' = channel
       \/ \E e \in Events : /\ channel' = Append(channel, e)
                            /\ \A f \in Files : ~IsResult(e, s, f)
    /\ EndOf(s) \in Queued' \cup spawned' => EndOf(s) \in Queued \cup spawned
ServerWork(s) ==
    \/ \E r \in Requests : Works(r, s)
    \/ Begins(s)
    \/ SessionAccepted(s, Files)
    \/ Elsewhere(s)

LEMMA NotItsEnd ==
    ASSUME NEW s, NEW e, e.type # "SessionEnd" \/ e.sid # s \/ e.outcome # "Finished"
    PROVE  e # EndOf(s)
BY DEF EndOf, SessionEvent, Event

\* Nothing is sent, one event is appended, or some are handed to tasks.
LEMMA SentElsewhere ==
    ASSUME TypeOK, NEW s \in Sessions,
           \/ channel' = channel /\ spawned' = spawned
           \/ \E e \in Events : /\ channel' = Append(channel, e) /\ spawned' \subseteq spawned
                                /\ e \in spawned \/ e # EndOf(s)
                                /\ \A f \in Files : ~IsResult(e, s, f)
           \/ \E E : /\ channel' = channel /\ spawned' \subseteq spawned \cup E
                     /\ EndOf(s) \notin E
    PROVE  /\ \/ channel' = channel
              \/ \E e \in Events : /\ channel' = Append(channel, e)
                                   /\ \A f \in Files : ~IsResult(e, s, f)
           /\ EndOf(s) \in Queued' \cup spawned' => EndOf(s) \in Queued \cup spawned
<1>1. CASE channel' = channel
  BY <1>1 DEF Queued
<1>2. ASSUME NEW e \in Events, channel' = Append(channel, e), spawned' \subseteq spawned,
             e \in spawned \/ e # EndOf(s), \A f \in Files : ~IsResult(e, s, f)
      PROVE  /\ \A f \in Files : ~IsResult(e, s, f)
             /\ EndOf(s) \in Queued' \cup spawned' => EndOf(s) \in Queued \cup spawned
  BY <1>2, AppendQueued
<1> QED BY <1>1, <1>2

\* A handler of another session.
LEMMA HandlerElsewhere ==
    ASSUME TypeOK, RequestShape, NEW s \in Sessions, NEW r \in Requests, req[r].sid # s,
           HandlerNext(r) \/ DropHandler(r)
    PROVE  Elsewhere(s)
<1>0. req \in [Requests -> RequestType] /\ s # NoSession
  BY ConstantsAssumption DEF TypeOK
<1>1. \A q \in Requests : req[q].sid = s \/ req'[q].sid = s => req'[q] = req[q]
  <2>1. \A q \in Requests \ {r} : req'[q] = req[q]
    BY <1>0 DEF HandlerNext, DropHandler, AskTarget, StartSaving, TargetRefused, BodySaved, BodyHeld,
                Settle, Report, Finish, DropUpload, DropConfirm, Goto
  <2>2. req'[r] = IdleRequest \/ req'[r].sid = req[r].sid
    BY <1>0 DEF HandlerNext, DropHandler, AskTarget, StartSaving, TargetRefused, BodySaved, BodyHeld,
                Settle, Report, Finish, DropUpload, DropConfirm, Goto, RequestType
  <2> QED BY <1>0, <2>1, <2>2 DEF IdleRequest
<1>2. IsActive(s)' => IsActive(s) /\ files' = files
  BY DEF HandlerNext, DropHandler, AskTarget, StartSaving, TargetRefused, BodySaved, BodyHeld,
         Settle, Report, Finish, DropUpload, DropConfirm, FinalizeFile, IsActive, InSession,
         ActiveSlot, FreeSlot
<1>3. \A f \in Files : <<s, f>> \in placed' => <<s, f>> \in placed
  BY DEF HandlerNext, DropHandler, AskTarget, StartSaving, TargetRefused, BodySaved, BodyHeld,
         Settle, Report, Finish, DropUpload, DropConfirm, Place
<1>4. CASE AskTarget(r) \/ Report(r)
  <2>1. req[r] # IdleRequest /\ req[r].outcome \in SaveOutcomes \cup {"none"}
    BY <1>0, <1>4 DEF AskTarget, Report, IdleRequest, RequestType
  <2>2. PICK e : /\ channel' = Append(channel, e) /\ spawned' = spawned
                 /\ \/ e = RequestEvent("FileUpload", r, "none")
                    \/ e = RequestEvent("FileUploadResult", r, req[r].outcome)
    BY <1>4 DEF AskTarget, Report
  <2>3. e \in Events /\ e.sid = req[r].sid
    <3>1. e \in Events
      BY <1>0, <2>1, <2>2, EventTypes
    <3>2. e.sid = req[r].sid
      BY <2>2 DEF RequestEvent, Event
    <3> QED BY <3>1, <3>2
  <2>4. e # EndOf(s) /\ \A f \in Files : ~IsResult(e, s, f)
    BY <2>3, NotItsEnd DEF IsResult
  <2> QED BY <1>1, <1>2, <1>3, <2>2, <2>3, <2>4, SentElsewhere DEF Elsewhere
<1>5. CASE TargetRefused(r) \/ Finish(r) \/ DropUpload(r)
  <2> DEFINE end == SessionEvent("SessionEnd", req[r].sid, "Finished")
             cut == RequestEvent("FileUploadResult", r, "Interrupted")
  <2>1. channel' = channel /\ spawned' \subseteq spawned \cup {cut, end}
    BY <1>5 DEF TargetRefused, Finish, DropUpload, FinalizeFile
  <2>2. end.sid = req[r].sid /\ cut.sid = req[r].sid
    BY DEF SessionEvent, RequestEvent, Event
  <2>3. EndOf(s) \notin {cut, end}
    BY <2>2, NotItsEnd
  <2> HIDE DEF end, cut
  <2> QED BY <1>1, <1>2, <1>3, <2>1, <2>3, SentElsewhere DEF Elsewhere
<1>6. CASE \/ StartSaving(r) \/ BodyHeld(r) \/ DropConfirm(r)
           \/ \E outcome \in SaveOutcomes : BodySaved(r, outcome) \/ Settle(r, outcome)
  <2>1. channel' = channel /\ spawned' = spawned
    BY <1>6 DEF StartSaving, BodyHeld, DropConfirm, BodySaved, Settle
  <2> QED BY <1>1, <1>2, <1>3, <2>1, SentElsewhere DEF Elsewhere
<1> QED BY <1>4, <1>5, <1>6 DEF HandlerNext, DropHandler

\* A request for a session, or a step of another session.
LEMMA RequestElsewhere ==
    ASSUME TypeOK, NEW s \in Sessions, NEW t \in Sessions,
           \/ \E ext \in FeatureSets : ClaimPending(t, ext)
           \/ AskApplication(t) \/ SessionRefused(t) \/ CancelPending(t) \/ Touch(t)
           \/ PrepareWithdrawn(t) \/ SenderGone(t) \/ CancelBySender(t) \/ Reap(t)
           \/ t # s /\ SessionAccepted(t, Files)
    PROVE  Elsewhere(s)
<1>1. req' = req /\ placed' = placed
  BY DEF ClaimPending, AskApplication, SessionRefused, CancelPending, Touch, PrepareWithdrawn,
         SenderGone, AbortPrepare, CancelBySender, Reap, SessionAccepted, handlerVars, outcomeVars
<1>2. IsActive(s)' => IsActive(s) /\ files' = files
  BY DEF ClaimPending, AskApplication, SessionRefused, CancelPending, Touch, PrepareWithdrawn,
         SenderGone, AbortPrepare, CancelBySender, Reap, DropSession, SessionAccepted, Activate,
         ClearPending, IsActive, ActiveSlot, PendingSlot, FreeSlot
<1>3. CASE AskApplication(t)
  <2>1. PICK e : e = SessionEvent("PrepareUpload", t, "none")
    OBVIOUS
  <2>2. e \in Events /\ e.type = "PrepareUpload"
    BY <2>1 DEF SessionEvent, Event, Events
  <2>3. e # EndOf(s) /\ \A f \in Files : ~IsResult(e, s, f)
    BY <2>2, NotItsEnd DEF IsResult
  <2>4. channel' = Append(channel, e) /\ spawned' = spawned
    BY <1>3, <2>1 DEF AskApplication
  <2> QED BY <1>1, <1>2, <2>2, <2>3, <2>4, SentElsewhere DEF Elsewhere
<1>4. CASE PrepareWithdrawn(t) \/ SenderGone(t) \/ CancelBySender(t) \/ Reap(t)
  <2>1. PICK e : /\ channel' = channel /\ spawned' = spawned \cup {e}
                 /\ \/ e = SessionEvent("PrepareUploadAborted", t, "none")
                    \/ e = SessionEvent("SessionEnd", t, "Cancelled")
                    \/ e = SessionEvent("SessionEnd", t, "TimedOut")
    BY <1>4 DEF PrepareWithdrawn, SenderGone, AbortPrepare, CancelBySender, Reap
  <2>2. e.outcome # "Finished"
    BY <2>1 DEF SessionEvent, Event
  <2>3. spawned' \subseteq spawned \cup {e} /\ EndOf(s) \notin {e}
    BY <2>1, <2>2, NotItsEnd
  <2> QED BY <1>1, <1>2, <2>1, <2>3, SentElsewhere DEF Elsewhere
<1>5. CASE channel' = channel /\ spawned' = spawned
  BY <1>1, <1>2, <1>5, SentElsewhere DEF Elsewhere
<1> QED BY <1>3, <1>4, <1>5
        DEF ClaimPending, SessionRefused, CancelPending, Touch, SessionAccepted

LEMMA ServerWorks ==
    ASSUME Books, ReceiveServerNext, NEW s \in Sessions \ disturbed'
    PROVE  ServerWork(s)
<1>0. TypeOK /\ RequestShape /\ req \in [Requests -> RequestType] /\ s # NoSession
  BY StateParts, SessionsExist DEF Books, RInv, IInv, TypeOK
<1>1. ASSUME NEW r \in Requests, HandlerNext(r)
      PROVE  ServerWork(s)
  <2>1. CASE req[r].sid = s
    BY <1>1, <2>1 DEF HandlerNext, Works, ServerWork
  <2> QED BY <1>0, <1>1, <2>1, HandlerElsewhere DEF ServerWork
<1>2. ASSUME NEW r \in Requests, LostConnection(r)
      PROVE  ServerWork(s)
  <2>1. req[r].sid # s
    BY <1>2 DEF LostConnection, Disturb
  <2>2. HandlerNext(r) \/ DropHandler(r)
    BY <1>2 DEF LostConnection, HandlerNext, SaveOutcomes
  <2> QED BY <1>0, <2>1, <2>2, HandlerElsewhere DEF ServerWork
<1>3. ASSUME NEW r \in Requests, NEW t \in Sessions, NEW f \in Files, ReceiveRequestNext(r, t, f)
      PROVE  ServerWork(s)
  <2>1. CASE t = s
    BY <1>3, <2>1 DEF ReceiveRequestNext, RequestNext, Begins, ServerWork
  <2>2. CASE t # s
    <3>1. /\ \A q \in Requests \ {r} : req'[q] = req[q]
          /\ req[r].sid # s /\ req'[r].sid # s
          /\ placed' = placed /\ channel' = channel /\ spawned' = spawned /\ ~IsActive(s)'
      BY <1>0, <1>3, <2>2 DEF ReceiveRequestNext, RequestNext, BeginUpload, BeginConfirm, Fresh,
                              IdleRequest, InSession, IsActive, ActiveSlot
    <3> QED BY <1>0, <3>1, SentElsewhere DEF Elsewhere, ServerWork
  <2> QED BY <2>1, <2>2
<1>4. CASE TenMinutes
  <2>1. UNCHANGED <<slot, files, channel, spawned, req, placed>>
    BY <1>4 DEF TenMinutes, handlerVars, outcomeVars
  <2> QED BY <1>0, <2>1, SentElsewhere DEF Elsewhere, ServerWork, IsActive
<1>5. ASSUME NEW e \in spawned, Deliver(e)
      PROVE  ServerWork(s)
  <2>1. /\ UNCHANGED <<slot, files, req, placed>>
        /\ channel' = Append(channel, e) /\ spawned' \subseteq spawned
        /\ disturbed' = disturbed \/ disturbed \subseteq disturbed'
        /\ e \in Events
    BY <1>0, <1>5 DEF Deliver, handlerVars, outcomeVars, ReceiveServerNext, LostRequest,
                      LostConnection, Disturb, TypeOK
  <2>2. \A f \in Files : ~IsResult(e, s, f)
    BY <2>1, <1>5 DEF Books, EndInv, OnlyCutSpawned, ResultsTrue, ResultIsTrue, IsResult
  <2> QED BY <1>0, <1>5, <2>1, <2>2, SentElsewhere DEF Elsewhere, ServerWork, IsActive
<1>6. ASSUME NEW t \in Sessions,
             \/ ReceivePrepareNext(t) \/ CancelPending(t) \/ CancelBySender(t) \/ Touch(t)
             \/ Reap(t) \/ LostRequest(t)
      PROVE  ServerWork(s)
  <2>1. CASE SessionAccepted(t, Files)
    BY <1>0, <2>1, RequestElsewhere DEF ServerWork
  <2> QED BY <1>0, <1>6, <2>1, RequestElsewhere DEF ReceivePrepareNext, LostRequest, ServerWork
<1> QED BY <1>1, <1>2, <1>3, <1>4, <1>5, <1>6 DEF ReceiveServerNext, QuietServerNext

------------------------------------------------------------------------------
(* A lost file is shown as such.                                           *)

\* How a handler that is at its end settles its file.
OutcomeOf(r) == IF req[r].pc = "rejected" THEN "Failed" ELSE req[r].outcome
IsClosed(file) == file.status \in {"Absent", "Finished", "Failed"}

LEMMA SettledStatus ==
    ASSUME IInv, NEW r \in Requests, NEW s \in Sessions, NEW f \in Files, Working(r, s, f),
           IsActive(s), NEW outcome
    PROVE  /\ SettledFile(s, files[f], outcome).status \in {"Pending", "Finished", "Failed"}
           /\ outcome = "Success" => SettledFile(s, files[f], outcome).status = "Finished"
           /\ SettledFile(s, files[f], outcome).status = "Finished" => outcome = "Success"
<1>1. Unsettled(files[f]) /\ files[f] \in FileType
  BY WorkerHoldsFile DEF IInv, TypeOK
<1>2. SettledFile(s, files[f], outcome).status = NextStatus(s, files[f], outcome)
  BY <1>1 DEF SettledFile, FileType
<1>3. outcome = "Success" => NextStatus(s, files[f], outcome) = "Finished"
  BY DEF NextStatus
<1> QED BY <1>2, <1>3, NextStatusFacts

\* The last file of the session ends it.
LEMMA SettlingWork ==
    ASSUME IInv, NEW r \in Requests, TargetRefused(r) \/ Finish(r), NEW s \in Sessions, req[r].sid = s
    PROVE  LET g == req[r].file
               settled == SettledFile(s, files[g], OutcomeOf(r))
           IN  /\ g \in Files
               /\ req' = [req EXCEPT ![r] = IdleRequest]
               /\ channel' = channel /\ placed' = placed
               /\ \/ ~IsActive(s) /\ ~IsActive(s)' /\ spawned' = spawned
                  \/ /\ IsActive(s) /\ slot' = slot /\ spawned' = spawned
                     /\ files' = [files EXCEPT ![g] = settled]
                  \/ /\ IsActive(s) /\ ~IsActive(s)' /\ spawned' = spawned \cup {EndOf(s)}
                     /\ IsClosed(settled)
                     /\ \A f \in Files \ {g} : IsClosed(files[f])
<1> DEFINE g == req[r].file
           settled == SettledFile(s, files[g], OutcomeOf(r))
<1>1. g \in Files /\ files \in [Files -> FileType]
  <2>1. req[r].pc # "idle"
    BY DEF TargetRefused, Finish
  <2> QED BY <2>1, BusyShape DEF IInv, TypeOK
<1>2. /\ FinalizeFile(s, g, OutcomeOf(r), {})
      /\ req' = [req EXCEPT ![r] = IdleRequest] /\ channel' = channel /\ placed' = placed
  BY DEF TargetRefused, Finish, OutcomeOf
<1>3. InSession(s) <=> IsActive(s)
  BY DEF InSession, IsActive, ActiveSlot
<1>4. CASE ~IsActive(s)
  BY <1>1, <1>2, <1>3, <1>4 DEF FinalizeFile, IsActive
<1>5. CASE IsActive(s) /\ ~IsComplete([files EXCEPT ![g] = settled])
  BY <1>1, <1>2, <1>3, <1>5 DEF FinalizeFile
<1>6. CASE IsActive(s) /\ IsComplete([files EXCEPT ![g] = settled])
  <2>1. slot' = FreeSlot /\ spawned' = spawned \cup {EndOf(s)}
    BY <1>2, <1>3, <1>6 DEF FinalizeFile, EndOf
  <2>2. ~IsActive(s)'
    BY <2>1 DEF IsActive, FreeSlot
  <2>3. IsClosed(settled) /\ \A f \in Files \ {g} : IsClosed(files[f])
    BY <1>1, <1>6 DEF IsComplete, IsClosed
  <2> QED BY <1>1, <1>2, <1>6, <2>1, <2>2, <2>3
<1> QED BY <1>4, <1>5, <1>6

\* A handler at work that does not settle its file.
Moves(r) == \/ AskTarget(r) \/ StartSaving(r) \/ BodyHeld(r) \/ Report(r)
            \/ \E outcome \in SaveOutcomes : BodySaved(r, outcome) \/ Settle(r, outcome)

LEMMA MovingWork ==
    ASSUME IInv, NEW r \in Requests, Moves(r), NEW s \in Sessions
    PROVE  /\ slot' = slot /\ spawned' = spawned
           /\ \A f \in Files : files'[f].status \in {files[f].status, "AwaitingChecksum"}
           /\ \A q \in Requests \ {r} : req'[q] = req[q]
           /\ \/ req'[r] = IdleRequest
              \/ /\ req'[r].sid = req[r].sid /\ req'[r].file = req[r].file
                 /\ \/ req'[r].pc \in {"asked", "saving", "reporting"}
                    \/ Report(r) /\ req'[r].pc = "finishing" /\ req'[r].outcome = req[r].outcome
           /\ EndOf(s) \in Queued' => EndOf(s) \in Queued
<1>0. req \in [Requests -> RequestType] /\ files \in [Files -> FileType] /\ TypeOK /\ RequestShape
  BY DEF IInv, TypeOK
<1>1. slot' = slot /\ spawned' = spawned
  BY DEF Moves, AskTarget, StartSaving, BodyHeld, Report, BodySaved, Settle
<1>2. \A f \in Files : files'[f].status \in {files[f].status, "AwaitingChecksum"}
  <2>1. req[r].file \in Files
    BY <1>0, BusyShape DEF Moves, AskTarget, StartSaving, BodyHeld, Report, BodySaved, Settle
  <2>2. CASE StartSaving(r)
    BY <1>0, <2>1, <2>2 DEF StartSaving, FileType
  <2>3. CASE BodyHeld(r)
    BY <1>0, <2>1, <2>3 DEF BodyHeld, FileType
  <2>4. CASE files' = files
    BY <2>4
  <2> QED BY <2>2, <2>3, <2>4 DEF Moves, AskTarget, Report, BodySaved, Settle
<1>3. \A q \in Requests \ {r} : req'[q] = req[q]
  BY <1>0 DEF Moves, AskTarget, StartSaving, BodyHeld, Report, BodySaved, Settle, Goto
<1>4. \/ req'[r] = IdleRequest
      \/ /\ req'[r].sid = req[r].sid /\ req'[r].file = req[r].file
         /\ \/ req'[r].pc \in {"asked", "saving", "reporting"}
            \/ Report(r) /\ req'[r].pc = "finishing" /\ req'[r].outcome = req[r].outcome
  BY <1>0 DEF Moves, AskTarget, StartSaving, BodyHeld, Report, BodySaved, Settle, Goto, RequestType
<1>5. EndOf(s) \in Queued' => EndOf(s) \in Queued
  <2>1. CASE channel' = channel
    BY <2>1 DEF Queued
  <2>2. CASE AskTarget(r) \/ Report(r)
    <3>1. req[r] # IdleRequest /\ req[r].outcome \in SaveOutcomes \cup {"none"}
      BY <1>0, <2>2 DEF AskTarget, Report, IdleRequest, RequestType
    <3>2. PICK e : /\ channel' = Append(channel, e)
                   /\ \/ e = RequestEvent("FileUpload", r, "none")
                      \/ e = RequestEvent("FileUploadResult", r, req[r].outcome)
      BY <2>2 DEF AskTarget, Report
    <3>3. e \in Events
      BY <1>0, <3>1, <3>2, EventTypes
    <3>4. e.type # "SessionEnd"
      BY <3>2 DEF RequestEvent, Event
    <3> QED BY <1>0, <3>2, <3>3, <3>4, AppendQueued, NotItsEnd
  <2> QED BY <2>1, <2>2 DEF Moves, StartSaving, BodyHeld, BodySaved, Settle
<1> QED BY <1>1, <1>2, <1>3, <1>4, <1>5

\* A request or an answer begins work; nothing is sent.
LEMMA BeginningWork ==
    ASSUME IInv, NEW s \in Sessions, Begins(s) \/ SessionAccepted(s, Files)
    PROVE  /\ channel' = channel /\ spawned' = spawned /\ placed' = placed
           /\ \A r \in Requests : \/ req'[r] = req[r]
                                  \/ req'[r].pc \in {"begun", "saving", "settling"}
           /\ \A f \in Files : \/ IsActive(s) /\ files'[f].status = files[f].status
                               \/ files'[f].status \in {"Pending", "InProgress"}
<1>0. req \in [Requests -> RequestType] /\ files \in [Files -> FileType]
  BY DEF IInv, TypeOK
<1>1. ASSUME NEW r \in Requests, NEW g \in Files, BeginUpload(r, s, g) \/ BeginConfirm(r, s, g)
      PROVE  /\ channel' = channel /\ spawned' = spawned /\ placed' = placed
             /\ \A q \in Requests : \/ req'[q] = req[q]
                                    \/ req'[q].pc \in {"begun", "saving", "settling"}
             /\ \A f \in Files : \/ IsActive(s) /\ files'[f].status = files[f].status
                                 \/ files'[f].status \in {"Pending", "InProgress"}
  BY <1>0, <1>1 DEF BeginUpload, BeginConfirm, InSession, IsActive, ActiveSlot, FileType
<1>2. CASE SessionAccepted(s, Files)
  <2>1. \A f \in Files : files'[f].status = "Pending"
    BY <1>2 DEF SessionAccepted, Activate, AcceptedFiles, BlankFile
  <2> QED BY <1>2, <2>1 DEF SessionAccepted
<1> QED BY <1>1, <1>2 DEF Begins

LEMMA WorkCases ==
    ASSUME NEW r \in Requests, NEW s, Works(r, s)
    PROVE  req[r].sid = s /\ (Moves(r) \/ TargetRefused(r) \/ Finish(r))
BY DEF Works, Moves

LEMMA OfferedStep ==
    ASSUME IInv, NEW s \in Sessions, NEW f \in Files, Offered(s, f), ServerWork(s)
    PROVE  Offered(s, f)'
<1>0. files \in [Files -> FileType]
  BY DEF IInv, TypeOK
<1>1. ASSUME NEW r \in Requests, req[r].sid = s, Moves(r)
      PROVE  Offered(s, f)'
  BY <1>1, MovingWork DEF Offered, IsActive
<1>2. ASSUME NEW r \in Requests, req[r].sid = s, TargetRefused(r) \/ Finish(r)
      PROVE  Offered(s, f)'
  <2> DEFINE g == req[r].file
             settled == SettledFile(s, files[g], OutcomeOf(r))
  <2>1. g \in Files
    BY <1>2, SettlingWork
  <2>2. CASE ~IsActive(s)'
    BY <2>2 DEF Offered
  <2>3. CASE IsActive(s) /\ files' = [files EXCEPT ![g] = settled]
    <3>1. Working(r, s, g)
      BY <1>2 DEF Working
    <3>2. settled.status # "Absent"
      <4>1. \A outcome : SettledFile(s, files[g], outcome).status \in {"Pending", "Finished", "Failed"}
        BY <2>1, <2>3, <3>1, SettledStatus
      <4> QED BY <4>1
    <3> QED BY <1>0, <2>1, <2>3, <3>2 DEF Offered
  <2> QED BY <1>2, <2>2, <2>3, SettlingWork
<1>3. CASE Begins(s) \/ SessionAccepted(s, Files)
  BY <1>3, BeginningWork DEF Offered
<1>4. CASE Elsewhere(s)
  BY <1>4 DEF Elsewhere, Offered
<1> QED BY <1>1, <1>2, <1>3, <1>4, WorkCases DEF ServerWork

\* How the server gives a file up: the handler has reported that it failed.
LEMMA HopelessBefore ==
    ASSUME IInv, NEW s \in Sessions, NEW f \in Files, ServerWork(s), placed \subseteq placed',
           Offered(s, f), Hopeless(s, f)'
    PROVE  \/ Hopeless(s, f)
           \/ \E r \in Requests : Working(r, s, f) /\ Report(r) /\ req[r].outcome # "Success"
<1>0. /\ files \in [Files -> FileType] /\ req \in [Requests -> RequestType]
      /\ SuccessIsPlaced
  BY DEF IInv, TypeOK, Outcomes
<1>1. CASE Elsewhere(s)
  BY <1>1 DEF Elsewhere, Hopeless, Working
<1>2. CASE Begins(s) \/ SessionAccepted(s, Files)
  <2>1. /\ channel' = channel /\ spawned' = spawned /\ placed' = placed
        /\ \A r \in Requests : \/ req'[r] = req[r]
                               \/ req'[r].pc \in {"begun", "saving", "settling"}
        /\ \/ IsActive(s) /\ files'[f].status = files[f].status
           \/ files'[f].status \in {"Pending", "InProgress"}
    BY <1>2, BeginningWork
  <2> QED BY <2>1 DEF Hopeless, Working, Queued
<1>3. ASSUME NEW r \in Requests, req[r].sid = s, Moves(r)
      PROVE  \/ Hopeless(s, f)
             \/ Working(r, s, f) /\ Report(r) /\ req[r].outcome # "Success"
  <2>1. CASE IsActive(s)' /\ files'[f].status = "Failed"
    BY <1>3, <2>1, MovingWork DEF Hopeless, IsActive
  <2>2. ASSUME NEW q \in Requests, Working(q, s, f)',
               \/ req'[q].pc = "rejected"
               \/ req'[q].pc = "finishing" /\ req'[q].outcome # "Success"
        PROVE  \/ Hopeless(s, f)
               \/ Working(r, s, f) /\ Report(r) /\ req[r].outcome # "Success"
    <3>1. CASE q # r
      <4>1. req'[q] = req[q]
        BY <1>3, <3>1, MovingWork
      <4> QED BY <2>2, <4>1 DEF Hopeless, Working
    <3>2. CASE q = r
      BY <1>3, <2>2, <3>2, MovingWork DEF Working, IdleRequest
    <3> QED BY <3>1, <3>2
  <2>3. CASE EndOf(s) \in Queued' \cup spawned' /\ <<s, f>> \notin placed'
    BY <1>3, <2>3, MovingWork DEF Hopeless
  <2> QED BY <2>1, <2>2, <2>3 DEF Hopeless
<1>4. ASSUME NEW r \in Requests, req[r].sid = s, TargetRefused(r) \/ Finish(r)
      PROVE  Hopeless(s, f)
  <2> DEFINE g == req[r].file
             settled == SettledFile(s, files[g], OutcomeOf(r))
  <2>0. /\ g \in Files /\ Working(r, s, g)
        /\ req' = [req EXCEPT ![r] = IdleRequest]
        /\ channel' = channel /\ placed' = placed
    BY <1>4, SettlingWork DEF Working
  <2>1. ASSUME IsActive(s), g = f, settled.status = "Failed"
        PROVE  Hopeless(s, f)
    <3>1. OutcomeOf(r) # "Success"
      <4>1. \A outcome : outcome = "Success" => SettledFile(s, files[g], outcome).status = "Finished"
        BY <2>0, <2>1, SettledStatus
      <4> QED BY <2>1, <4>1
    <3> QED BY <1>4, <2>0, <2>1, <3>1 DEF OutcomeOf, Hopeless, TargetRefused, Finish
  <2>2. CASE IsActive(s)' /\ files'[f].status = "Failed"
    <3>1. IsActive(s) /\ files' = [files EXCEPT ![g] = settled]
      BY <1>4, <2>2, SettlingWork
    <3> QED BY <1>0, <2>0, <2>1, <2>2, <3>1 DEF Hopeless
  <2>3. ASSUME NEW q \in Requests, Working(q, s, f)',
               \/ req'[q].pc = "rejected"
               \/ req'[q].pc = "finishing" /\ req'[q].outcome # "Success"
        PROVE  Hopeless(s, f)
    <3>1. q # r
      BY <1>0, <2>0, <2>3 DEF IdleRequest
    <3>2. req'[q] = req[q]
      BY <1>0, <2>0, <3>1
    <3> QED BY <2>3, <3>2 DEF Hopeless, Working
  <2>4. CASE EndOf(s) \in Queued' \cup spawned' /\ <<s, f>> \notin placed'
    <3>1. CASE EndOf(s) \in Queued \cup spawned
      BY <2>0, <2>4, <3>1 DEF Hopeless
    <3>2. CASE EndOf(s) \notin Queued \cup spawned
      <4>1. /\ IsActive(s) /\ IsClosed(settled)
            /\ \A h \in Files \ {g} : IsClosed(files[h])
        BY <1>4, <2>0, <2>4, <3>2, SettlingWork DEF Queued
      <4>2. CASE f # g
        BY <1>0, <2>0, <2>4, <4>1, <4>2 DEF IsClosed, Offered, Hopeless, SuccessIsPlaced
      <4>3. CASE f = g
        <5>1. \A outcome : /\ SettledFile(s, files[g], outcome).status \in {"Pending", "Finished", "Failed"}
                           /\ SettledFile(s, files[g], outcome).status = "Finished" => outcome = "Success"
          BY <2>0, <4>1, SettledStatus
        <5>2. OutcomeOf(r) # "Success"
          BY <1>0, <1>4, <2>0, <2>4, <4>3 DEF OutcomeOf, TargetRefused, SuccessIsPlaced, Working
        <5>3. settled.status = "Failed"
          BY <4>1, <5>1, <5>2 DEF IsClosed
        <5> QED BY <2>1, <4>1, <4>3, <5>3
      <4> QED BY <4>2, <4>3
    <3> QED BY <3>1, <3>2
  <2> QED BY <2>2, <2>3, <2>4 DEF Hopeless
<1> QED BY <1>1, <1>2, <1>3, <1>4, WorkCases DEF ServerWork

LEMMA Reporting ==
    ASSUME TypeOK, RequestShape, NEW r \in Requests, Report(r)
    PROVE  \E e \in Events :
               /\ channel' = Append(channel, e)
               /\ e.type = "FileUploadResult" /\ e.outcome = req[r].outcome
               /\ e.sid = req[r].sid /\ e.file = req[r].file
<1>1. req[r] # IdleRequest /\ req[r].outcome \in SaveOutcomes \cup {"none"}
  BY DEF Report, IdleRequest, TypeOK, RequestType
<1>2. PICK e : e = RequestEvent("FileUploadResult", r, req[r].outcome)
  OBVIOUS
<1>3. e \in Events
  BY <1>1, <1>2, EventTypes
<1>4. /\ e.type = "FileUploadResult" /\ e.outcome = req[r].outcome
      /\ e.sid = req[r].sid /\ e.file = req[r].file
  BY <1>2 DEF RequestEvent, Event
<1> QED BY <1>2, <1>3, <1>4 DEF Report

\* Of a file only its handler reports a result.
LEMMA ChannelWork ==
    ASSUME IInv, NEW s \in Sessions, NEW f \in Files, ServerWork(s)
    PROVE  /\ \/ channel' = channel
              \/ \E e \in Events : ~IsResult(e, s, f) /\ channel' = Append(channel, e)
              \/ \E r \in Requests : Working(r, s, f) /\ Report(r)
           /\ Queued \subseteq Queued'
<1>0. TypeOK /\ RequestShape /\ req \in [Requests -> RequestType]
  BY DEF IInv, TypeOK
<1>1. \/ channel' = channel
      \/ \E e \in Events : ~IsResult(e, s, f) /\ channel' = Append(channel, e)
      \/ \E r \in Requests : Working(r, s, f) /\ Report(r)
  <2>1. CASE Elsewhere(s)
    BY <2>1 DEF Elsewhere
  <2>2. CASE Begins(s) \/ SessionAccepted(s, Files)
    BY <2>2, BeginningWork
  <2>3. ASSUME NEW r \in Requests, req[r].sid = s, Report(r), ~Working(r, s, f)
        PROVE  \E e \in Events : ~IsResult(e, s, f) /\ channel' = Append(channel, e)
    BY <1>0, <2>3, Reporting DEF IsResult, Working
  <2>4. ASSUME NEW r \in Requests, AskTarget(r)
        PROVE  \E e \in Events : ~IsResult(e, s, f) /\ channel' = Append(channel, e)
    <3>1. PICK e : e = RequestEvent("FileUpload", r, "none")
      OBVIOUS
    <3>2. req[r] # IdleRequest
      BY <2>4 DEF AskTarget, IdleRequest
    <3>3. e \in Events
      BY <1>0, <3>1, <3>2, EventTypes
    <3>4. e.type = "FileUpload"
      BY <3>1 DEF RequestEvent, Event
    <3> QED BY <2>4, <3>1, <3>3, <3>4 DEF AskTarget, IsResult
  <2>5. ASSUME NEW r \in Requests, TargetRefused(r) \/ Finish(r) \/ (Moves(r) /\ ~AskTarget(r) /\ ~Report(r))
        PROVE  channel' = channel
    BY <2>5 DEF TargetRefused, Finish, Moves, StartSaving, BodyHeld, BodySaved, Settle
  <2> QED BY <2>1, <2>2, <2>3, <2>4, <2>5, WorkCases DEF ServerWork
<1>2. ASSUME NEW r \in Requests, Report(r)
      PROVE  Queued \subseteq Queued'
  BY <1>0, <1>2, Reporting, AppendQueued
<1>3. ASSUME NEW e \in Events, channel' = Append(channel, e)
      PROVE  Queued \subseteq Queued'
  BY <1>0, <1>3, AppendQueued
<1> QED BY <1>1, <1>2, <1>3 DEF Queued

LEMMA ServerShowsLoss ==
    ASSUME IInv, NEW s \in Sessions, NEW f \in Files, ServerWork(s), placed \subseteq placed',
           UNCHANGED runtimeVars, Offered(s, f), LossShown(s, f)
    PROVE  LossShown(s, f)'
<1>1. Queued \subseteq Queued' /\ transfer' = transfer /\ view' = view
  BY ChannelWork DEF runtimeVars
<1>2. CASE GivenUp(s, f)
  BY <1>1, <1>2 DEF GivenUp, LossShown
<1>3. ASSUME NEW r \in Requests, Working(r, s, f), Report(r), req[r].outcome # "Success"
      PROVE  GivenUp(s, f)'
  <2>1. PICK e \in Events : /\ channel' = Append(channel, e)
                            /\ IsResult(e, s, f) /\ e.outcome # "Success"
    BY <1>3, Reporting DEF IInv, IsResult, Working
  <2>2. e \in Queued'
    BY <2>1, AppendQueued DEF IInv
  <2> QED BY <2>1, <2>2 DEF GivenUp
<1> QED BY <1>2, <1>3, HopelessBefore DEF LossShown

------------------------------------------------------------------------------
(* A file in place is reported, and its success is the last of it.         *)

\* A file is put into place by the handler that will report it.
LEMMA PlacedNow ==
    ASSUME IInv, NEW s \in Sessions, NEW f \in Files, ServerWork(s),
           <<s, f>> \in placed' \ placed
    PROVE  \E r \in Requests : Announces(r, s, f)'
<1>0. req \in [Requests -> RequestType]
  BY DEF IInv, TypeOK
<1>1. ASSUME NEW r \in Requests, NEW outcome \in SaveOutcomes, BodySaved(r, outcome) \/ Settle(r, outcome)
      PROVE  Announces(r, s, f)'
  <2>1. outcome = "Success" /\ req[r].sid = s /\ req[r].file = f
    BY <1>1 DEF BodySaved, Settle, Place
  <2>2. req'[r] = [req[r] EXCEPT !.pc = "reporting", !.outcome = "Success"]
    BY <1>0, <1>1, <2>1 DEF BodySaved, Settle
  <2> QED BY <1>0, <2>1, <2>2 DEF Announces, Working, RequestType
<1>2. ASSUME NEW r \in Requests, Works(r, s),
             ~\E outcome \in SaveOutcomes : BodySaved(r, outcome) \/ Settle(r, outcome)
      PROVE  FALSE
  BY <1>2 DEF Works, AskTarget, StartSaving, TargetRefused, BodyHeld, Report, Finish
<1> QED BY <1>1, <1>2, BeginningWork DEF ServerWork, Elsewhere

LEMMA AnnouncedNext ==
    ASSUME IInv, NEW s \in Sessions, NEW f \in Files, ServerWork(s), UNCHANGED runtimeVars,
           NEW r \in Requests, Announces(r, s, f)
    PROVE  Announces(r, s, f)' \/ Reported(s, f)'
<1>0. /\ req \in [Requests -> RequestType] /\ TypeOK /\ RequestShape /\ s # NoSession
      /\ <<s, f>> \in placed /\ prep[s] = "done" /\ OneOwner /\ req[r].sid = s /\ req[r].file = f
      /\ req[r].pc = "reporting" /\ req[r].outcome = "Success"
  BY SessionsExist DEF IInv, TypeOK, Outcomes, SuccessIsPlaced, SlotDiscipline, ActiveWasPrepared,
                       Ownership, Announces, Working
<1>1. CASE req'[r] = req[r]
  BY <1>1 DEF Announces, Working
<1>2. CASE Report(r)
  <2>1. PICK e \in Events : /\ channel' = Append(channel, e)
                            /\ IsResult(e, s, f) /\ e.outcome = "Success"
    BY <1>0, <1>2, Reporting DEF IsResult
  <2>2. e \in Queued'
    BY <1>0, <2>1, AppendQueued
  <2>3. /\ placed' = placed /\ prep' = prep
        /\ req' = [req EXCEPT ![r].pc = "finishing"]
    BY <1>2 DEF Report, Goto
  <2>4. ASSUME NEW q \in Requests, Working(q, s, f)'
        PROVE  req'[q].pc = "finishing" /\ req'[q].outcome = "Success"
    <3>1. Working(q, s, f)
      BY <1>0, <2>3, <2>4 DEF Working, RequestType
    <3>2. q = r
      BY <1>0, <3>1 DEF OneOwner, Working
    <3> QED BY <1>0, <2>3, <3>2 DEF RequestType
  <2>5. Working(r, s, f)'
    BY <1>0, <2>3 DEF Working, RequestType
  <2>6. Through(s, f)'
    BY <1>0, <2>3, <2>4, <2>5 DEF Through
  <2> QED BY <2>1, <2>2, <2>6 DEF Reported
<1>3. ASSUME NEW q \in Requests, Works(q, s), req'[r] # req[r]
      PROVE  Report(r)
  <2>1. q = r
    <3>1. CASE Moves(q)
      BY <1>3, <3>1, MovingWork
    <3>2. CASE TargetRefused(q) \/ Finish(q)
      BY <1>0, <1>3, <3>2 DEF TargetRefused, Finish
    <3> QED BY <1>3, <3>1, <3>2, WorkCases
  <2> QED BY <1>0, <1>3, <2>1 DEF Works, AskTarget, StartSaving, TargetRefused, BodyHeld, BodySaved,
                                  Settle, Finish
<1>4. ASSUME Begins(s) \/ SessionAccepted(s, Files) \/ Elsewhere(s)
      PROVE  req'[r] = req[r]
  <2>1. ASSUME NEW q \in Requests, NEW g \in Files, BeginUpload(q, s, g) \/ BeginConfirm(q, s, g)
        PROVE  req'[r] = req[r]
    <3>1. q # r
      BY <1>0, <2>1 DEF BeginUpload, BeginConfirm, Fresh, IdleRequest
    <3> QED BY <1>0, <2>1, <3>1 DEF BeginUpload, BeginConfirm
  <2> QED BY <1>0, <1>4, <2>1 DEF Begins, SessionAccepted, Elsewhere
<1> QED BY <1>1, <1>2, <1>3, <1>4 DEF ServerWork

LEMMA ServerShowsPlaced ==
    ASSUME IInv, [Next]_vars, NEW s \in Sessions, NEW f \in Files, ServerWork(s),
           UNCHANGED runtimeVars, PlacedIsShown(s, f)
    PROVE  PlacedIsShown(s, f)'
<1>1. CASE <<s, f>> \notin placed
  BY <1>1, PlacedNow DEF PlacedIsShown
<1>2. CASE Reported(s, f)
  <2>1. Through(s, f)'
    BY <1>2, ThroughStays DEF Reported
  <2>2. Queued \subseteq Queued' /\ transfer' = transfer /\ view' = view
    BY ChannelWork DEF runtimeVars
  <2> QED BY <1>2, <2>1, <2>2 DEF Reported, PlacedIsShown
<1>3. CASE \E r \in Requests : Announces(r, s, f)
  BY <1>3, AnnouncedNext DEF PlacedIsShown
<1> QED BY <1>1, <1>2, <1>3 DEF PlacedIsShown

\* Once its success was heard of, the file is in place, and its handler has reported.
LEMMA SuccessHeard ==
    ASSUME IInv, ResultsTrue, NEW s \in Sessions, NEW f \in Files,
           PlacedIsShown(s, f), ShownIsPlaced(s, f),
           \/ view[s][f] = "Finished"
           \/ \E e \in Queued : IsResult(e, s, f) /\ e.outcome = "Success",
           NEW r \in Requests, Working(r, s, f), req[r].pc = "reporting"
    PROVE  req[r].outcome = "Success"
<1>1. <<s, f>> \in placed
  BY DEF ShownIsPlaced, ResultsTrue, ResultIsTrue, IsResult
<1>2. CASE Reported(s, f)
  BY <1>2 DEF Reported, Through
<1>3. ASSUME NEW q \in Requests, Announces(q, s, f)
      PROVE  req[r].outcome = "Success"
  <2>1. q = r
    BY <1>3 DEF Announces, IInv, Ownership, OneOwner
  <2> QED BY <1>3, <2>1 DEF Announces
<1> QED BY <1>1, <1>2, <1>3 DEF PlacedIsShown

LEMMA ServerKeepsSuccessLast ==
    ASSUME IInv, ResultsTrue, NEW s \in Sessions, NEW f \in Files, ServerWork(s),
           UNCHANGED runtimeVars,
           PlacedIsShown(s, f), ShownIsPlaced(s, f), SuccessLast(s, f)
    PROVE  SuccessLast(s, f)'
<1>0. TypeOK /\ RequestShape /\ view' = view
  BY DEF IInv, runtimeVars
<1>1. CASE channel' = channel
  BY <1>0, <1>1 DEF SuccessLast
<1>2. ASSUME NEW e \in Events, channel' = Append(channel, e), ~IsResult(e, s, f)
      PROVE  SuccessLast(s, f)'
  <2>1. \A i \in 1 .. Len(channel') : IsResult(channel'[i], s, f) =>
            i \in 1 .. Len(channel) /\ channel'[i] = channel[i]
    BY <1>0, <1>2, AppendQueued
  <2> QED BY <1>0, <2>1 DEF SuccessLast
<1>3. ASSUME NEW r \in Requests, Working(r, s, f), Report(r)
      PROVE  SuccessLast(s, f)'
  <2>1. PICK e \in Events : /\ channel' = Append(channel, e)
                            /\ IsResult(e, s, f) /\ e.outcome = req[r].outcome
    BY <1>0, <1>3, Reporting DEF IsResult, Working
  <2>2. \A i \in 1 .. Len(channel') : \/ i \in 1 .. Len(channel) /\ channel'[i] = channel[i]
                                      \/ i = Len(channel') /\ channel'[i] = e
    BY <1>0, <2>1, AppendQueued
  <2>3. Len(channel') = Len(channel) + 1 /\ Len(channel) \in Nat
    BY <1>0, <2>1 DEF TypeOK
  <2>4. CASE e.outcome = "Success"
    <3>1. ASSUME NEW j \in 1 .. Len(channel'), IsResult(channel'[j], s, f),
                 \/ view[s][f] = "Finished"
                 \/ \E i \in 1 .. Len(channel') :
                       i < j /\ IsResult(channel'[i], s, f) /\ channel'[i].outcome = "Success"
          PROVE  channel'[j].outcome = "Success"
      <4>1. CASE channel'[j] = e
        BY <2>4, <4>1
      <4>2. CASE j \in 1 .. Len(channel) /\ channel'[j] = channel[j]
        <5>1. \A i \in 1 .. Len(channel') : i < j =>
                  i \in 1 .. Len(channel) /\ channel'[i] = channel[i]
          BY <2>2, <2>3, <4>2
        <5> QED BY <3>1, <4>2, <5>1 DEF SuccessLast
      <4> QED BY <2>2, <4>1, <4>2
    <3> QED BY <1>0, <3>1 DEF SuccessLast
  <2>5. CASE e.outcome # "Success"
    <3>1. /\ view[s][f] # "Finished"
          /\ ~\E d \in Queued : IsResult(d, s, f) /\ d.outcome = "Success"
      BY <1>3, <2>1, <2>5, SuccessHeard DEF Report
    <3>2. \A i \in 1 .. Len(channel') :
              ~(IsResult(channel'[i], s, f) /\ channel'[i].outcome = "Success")
      BY <2>2, <2>5, <3>1, QueuedIsRange
    <3> QED BY <1>0, <3>1, <3>2 DEF SuccessLast
  <2> QED BY <2>4, <2>5
<1> QED BY <1>1, <1>2, <1>3, ChannelWork

\* A step of the server keeps the books of a session that is not disturbed.
LEMMA ServerKeepsBooks ==
    ASSUME Books, FilesAgree, ReceiveServerNext, NEW s \in Sessions \ disturbed', NEW f \in Files
    PROVE  FileInv(s, f)'
<1>0. /\ IInv /\ ResultsTrue /\ UNCHANGED runtimeVars /\ s \in Sessions /\ s \notin disturbed
      /\ transfer' = transfer /\ view' = view
  BY DEF Books, State, ServerState, ReceiveServerNext, runtimeVars, LostRequest, LostConnection,
         Disturb
<1>1. FileInv(s, f) /\ ServerWork(s)
  BY <1>0, ServerWorks DEF FilesAgree
<1>2. [Next]_vars /\ placed \subseteq placed'
  BY ServerSteps, OutcomeFrames
<1>3. LossShown(s, f)' /\ Offered(s, f)'
  BY <1>0, <1>1, <1>2, ServerShowsLoss, OfferedStep DEF FileInv
<1>4. PlacedIsShown(s, f)' /\ SuccessLast(s, f)'
  BY <1>0, <1>1, <1>2, ServerShowsPlaced, ServerKeepsSuccessLast DEF FileInv
<1>5. ShownIsPlaced(s, f)'
  BY <1>0, <1>1, <1>2 DEF FileInv, ShownIsPlaced
<1>6. SummedIsClosed(s)'
  BY <1>0, <1>1, ClosedStays DEF FileInv, SummedIsClosed, SummedUp, Books, ReceiveNext
<1>7. SummedIsShown(s, f)'
  <2>1. CASE <<s, f>> \in placed' \ placed
    BY <1>0, <1>1, <1>2, <2>1, PlacedBefore
    DEF FileInv, SummedIsClosed, SummedUp, Closed, Working, SummedIsShown
  <2> QED BY <1>0, <1>1, <2>1 DEF FileInv, SummedIsShown, SummedUp
<1> QED BY <1>3, <1>4, <1>5, <1>6, <1>7 DEF FileInv

------------------------------------------------------------------------------
(* The runtime's steps, file by file.                                      *)

LEMMA StillQueued ==
    ASSUME TypeOK, RuntimeServes, NEW e \in Queued, channel' = channel \/ e # First
    PROVE  e \in Queued'
<1>1. CASE channel' = channel
  BY <1>1 DEF Queued
<1>2. CASE channel # <<>> /\ channel' = Tail(channel) /\ e # First
  <2>1. PICK i \in 1 .. Len(channel) : channel[i] = e
    BY QueuedIsRange
  <2>2. i # 1 /\ Len(channel) \in Nat /\ Len(channel') = Len(channel) - 1
    BY <1>2, <2>1 DEF First, TypeOK
  <2>3. i - 1 \in 1 .. Len(channel') /\ (i - 1) + 1 = i
    BY <2>1, <2>2
  <2>4. channel'[i - 1] = channel[(i - 1) + 1]
    BY <1>2, <2>3, TailShifts
  <2> QED BY <2>1, <2>3, <2>4 DEF Queued
<1> QED BY <1>1, <1>2 DEF RuntimeServes

\* What is behind the end of the session, when that is taken.
LEMMA BehindTheEnd ==
    ASSUME Books, NEW s \in Sessions \ disturbed, NEW f \in Files, EndTaken(s), RuntimeServes
    PROVE  /\ EndOf(s) \in Queued /\ IsOver(s)
           /\ \A e \in Queued : ~IsResult(e, s, f)
<1>0. TypeOK /\ EndInv /\ ResultsTrue /\ channel # <<>>
  BY StateParts DEF Books, EndTaken, RuntimeServes
<1>1. Len(channel) \in Nat /\ 1 \in 1 .. Len(channel) /\ channel[1] = EndOf(s)
  BY <1>0 DEF EndTaken, First, TypeOK
<1>2. EndOf(s) \in Queued
  BY <1>1, QueuedIsRange
<1>3. ASSUME NEW e \in Queued, IsResult(e, s, f)
      PROVE  FALSE
  <2>1. PICK i \in 1 .. Len(channel) : channel[i] = e
    BY QueuedIsRange
  <2>2. i # 1
    BY <1>1, <1>3, <2>1 DEF IsResult, EndOf, SessionEvent, Event
  <2>3. 1 < i
    BY <1>1, <2>1, <2>2
  <2>4. ~IsLate(e, s)
    BY <1>0, <1>1, <2>1, <2>3 DEF EndInv, EndInOrder
  <2>5. e.outcome = "Interrupted"
    BY <1>3, <2>4 DEF IsLate, IsResult
  <2> QED BY <1>0, <1>3, <2>5 DEF ResultsTrue, ResultIsTrue, IsResult
<1> QED BY <1>0, <1>2, <1>3 DEF EndInv, EndedIsOver

LEMMA HopelessIsPast ==
    ASSUME Books, NEW s \in Sessions, NEW f \in Files, Hopeless(s, f)
    PROVE  Past(s)
<1>1. CASE IsActive(s)
  BY <1>1, ActiveIsPast DEF Books
<1>2. CASE \E r \in Requests : Working(r, s, f)
  BY <1>2 DEF Books, BegunIsPast, Begun, Working
<1>3. CASE EndOf(s) \in Queued \cup spawned
  <2>1. Ending(s)
    BY <1>3 DEF Ending, Under, EndOf, SessionEvent, Event
  <2> QED BY <2>1, ActiveIsPast DEF Books
<1> QED BY <1>1, <1>2, <1>3 DEF Hopeless

\* Nobody asks for the path of a lost file.
LEMMA HopelessUnasked ==
    ASSUME Books, NEW s \in Sessions, NEW f \in Files, Hopeless(s, f)
    PROVE  ~AsksFor(s, f)
<1>0. IInv /\ OneOwner /\ EndedIsOver
  BY DEF Books, State, ServerState, IInv, Ownership, EndInv
<1>1. ASSUME NEW q \in Requests, Working(q, s, f), req[q].pc = "asked"
      PROVE  FALSE
  <2>1. CASE IsActive(s) /\ files[f].status = "Failed"
    BY <1>0, <1>1, <2>1, WorkerHoldsFile DEF Unsettled
  <2>2. ASSUME NEW r \in Requests, Working(r, s, f), req[r].pc \in {"rejected", "finishing"}
        PROVE  FALSE
    <3>1. q = r
      BY <1>0, <1>1, <2>2 DEF OneOwner
    <3> QED BY <1>1, <2>2, <3>1
  <2>3. CASE EndOf(s) \in Queued \cup spawned
    BY <1>0, <1>1, <2>3 DEF EndedIsOver, IsOver, Working
  <2> QED BY <2>1, <2>2, <2>3 DEF Hopeless
<1> QED BY <1>1 DEF AsksFor

\* What a step of the runtime needs to know of a file.
LEMMA RuntimeHopeless ==
    ASSUME Books, RuntimeServes, NEW s \in Sessions, NEW f \in Files, Hopeless(s, f)'
    PROVE  Hopeless(s, f) \/ ~NoRefusal(s, f)
<1>0. TypeOK /\ req \in [Requests -> RequestType]
  BY StateParts DEF Books, TypeOK
<1>1. CASE IsActive(s)' /\ files'[f].status = "Failed"
  BY <1>1 DEF RuntimeServes, IsActive, FreeSlot, Hopeless
<1>2. ASSUME NEW r \in Requests, Working(r, s, f)',
             \/ req'[r].pc = "rejected"
             \/ req'[r].pc = "finishing" /\ req'[r].outcome # "Success",
             NoRefusal(s, f)
      PROVE  Hopeless(s, f)
  <2>1. /\ req'[r].sid = req[r].sid /\ req'[r].file = req[r].file /\ req'[r].outcome = req[r].outcome
        /\ \/ req'[r].pc = req[r].pc
           \/ req[r].pc = "asked" /\ req'[r].pc \in {"assigned", "rejected"}
    BY <1>0, AnsweredOnly
  <2>2. Working(r, s, f)
    BY <1>2, <2>1 DEF Working
  <2> QED BY <1>2, <2>1, <2>2 DEF NoRefusal, Hopeless
<1>3. CASE EndOf(s) \in Queued' \cup spawned' /\ <<s, f>> \notin placed'
  <2>1. Queued' \subseteq Queued
    BY <1>0, TailShifts DEF RuntimeServes, Queued
  <2> QED BY <1>3, <2>1 DEF RuntimeServes, Hopeless
<1> QED BY <1>1, <1>2, <1>3 DEF Hopeless

LEMMA RuntimeShowsLoss ==
    ASSUME Books, RuntimeServes, NEW s \in Sessions, NEW f \in Files, BooksStep(s, f),
           LossShown(s, f)
    PROVE  LossShown(s, f)'
<1>0. TypeOK
  BY StateParts DEF Books
<1>1. ASSUME Shows(s, f, "Failed") \/ Shows(s, f, "Finished")
      PROVE  GivenUp(s, f)'
  BY <1>1 DEF Shows, GivenUp, IsOpen, OpenFileStates
<1>2. CASE ~NoRefusal(s, f)
  <2>1. Shows(s, f, "Failed")
    BY <1>2 DEF BooksStep, ResultShown, QuestionShown, TransferShown
  <2> QED BY <1>1, <2>1 DEF LossShown
<1>3. ASSUME Hopeless(s, f)
      PROVE  GivenUp(s, f)'
  <2>1. GivenUp(s, f) /\ ~AsksFor(s, f) /\ ~Asked(s)
    BY <1>3, HopelessUnasked, HopelessIsPast DEF LossShown, Past
  <2>2. CASE ResultShown(s, f)
    BY <1>1, <2>2 DEF ResultShown
  <2>3. CASE TransferShown(s, f)
    <3>1. ASSUME NEW e \in Queued, IsResult(e, s, f)
          PROVE  e \in Queued'
      BY <1>0, <2>3, <3>1, StillQueued DEF TransferShown, TakesResult
    <3>2. CASE SameBooks(s, f)
      BY <2>1, <3>1, <3>2 DEF SameBooks, GivenUp
    <3>3. CASE Removed(s, f)
      BY <3>3 DEF Removed, GivenUp
    <3>4. CASE Reopened(s, f)
      BY <2>1, <3>1, <3>4 DEF Reopened, GivenUp
    <3>5. ASSUME NEW state \in FinalStates, Completed(s, f, state)
          PROVE  GivenUp(s, f)'
      BY <3>5 DEF Completed, GivenUp, IsOpen, OpenFileStates, ClosedAs
    <3> QED BY <2>3, <3>2, <3>3, <3>4, <3>5 DEF TransferShown
  <2> QED BY <2>1, <2>2, <2>3 DEF BooksStep, QuestionShown
<1> QED BY <1>2, <1>3, RuntimeHopeless DEF LossShown

LEMMA RuntimeShowsPlaced ==
    ASSUME Books, RuntimeServes, NEW s \in Sessions, NEW f \in Files, BooksStep(s, f),
           Through(s, f) => Through(s, f)',
           SuccessLast(s, f), PlacedIsShown(s, f)
    PROVE  PlacedIsShown(s, f)'
<1>0. TypeOK /\ req \in [Requests -> RequestType] /\ placed' = placed
  BY StateParts DEF Books, TypeOK, RuntimeServes
<1>1. ASSUME NEW r \in Requests, Announces(r, s, f)
      PROVE  Announces(r, s, f)'
  <2>1. /\ req'[r].sid = req[r].sid /\ req'[r].file = req[r].file /\ req'[r].outcome = req[r].outcome
        /\ req'[r].pc = req[r].pc
    BY <1>0, <1>1, AnsweredOnly DEF Announces
  <2> QED BY <1>1, <2>1 DEF Announces, Working
<1>2. ASSUME Reported(s, f)
      PROVE  Reported(s, f)'
  <2>1. Through(s, f)' /\ ~AsksFor(s, f)
    BY <1>2 DEF Reported, Through, AsksFor
  <2>2. Past(s)
    BY <1>2 DEF Reported, Through, Books, BegunIsPast, Begun
  <2>3. CASE ResultShown(s, f) /\ First.outcome = "Success"
    BY <2>1, <2>3 DEF ResultShown, Shows, Reported
  <2>4. CASE ResultShown(s, f) /\ First.outcome # "Success"
    <3>1. IsResult(First, s, f) /\ Shows(s, f, "Failed") /\ channel # <<>>
      BY <2>4 DEF ResultShown, TakesResult, RuntimeServes
    <3>2. 1 \in 1 .. Len(channel) /\ channel[1] = First
      BY <1>0, <3>1 DEF First, TypeOK
    <3>3. view[s][f] # "Finished"
      BY <2>4, <3>1, <3>2 DEF SuccessLast
    <3>4. ASSUME NEW e \in Queued, IsResult(e, s, f), e.outcome = "Success"
          PROVE  e \in Queued'
      BY <1>0, <2>4, <3>4, StillQueued
    <3> QED BY <1>2, <2>1, <3>1, <3>3, <3>4 DEF Reported, Shows
  <2>5. CASE TransferShown(s, f)
    <3>1. ASSUME NEW e \in Queued, IsResult(e, s, f)
          PROVE  e \in Queued'
      BY <1>0, <2>5, <3>1, StillQueued DEF TransferShown, TakesResult
    <3>2. CASE SameBooks(s, f)
      BY <1>2, <2>1, <3>1, <3>2 DEF SameBooks, Reported
    <3>3. CASE Removed(s, f)
      BY <2>1, <3>3 DEF Removed, Reported
    <3>4. CASE Reopened(s, f)
      BY <1>2, <2>1, <2>2, <3>1, <3>4 DEF Reopened, Reported, Past
    <3>5. ASSUME NEW state \in FinalStates, Completed(s, f, state)
          PROVE  Reported(s, f)'
      BY <1>2, <2>1, <3>1, <3>5 DEF Completed, Reported, IsOpen, OpenFileStates
    <3> QED BY <2>5, <3>2, <3>3, <3>4, <3>5 DEF TransferShown
  <2> QED BY <2>1, <2>3, <2>4, <2>5 DEF BooksStep, QuestionShown, ResultShown
<1> QED BY <1>0, <1>1, <1>2 DEF PlacedIsShown

\* How a file comes to be shown as received.
LEMMA FinishedBefore ==
    ASSUME NEW s \in Sessions, NEW f \in Files, BooksStep(s, f), view'[s][f] = "Finished"
    PROVE  \/ view[s][f] = "Finished"
           \/ TakesResult(s, f) /\ First.outcome = "Success"
           \/ EndTaken(s) /\ transfer[s] # "none" /\ IsOpen(view[s][f])
<1>1. ASSUME NEW state \in FinalStates, SumsUp(s, state), Completed(s, f, state)
      PROVE  \/ view[s][f] = "Finished"
             \/ EndTaken(s) /\ transfer[s] # "none" /\ IsOpen(view[s][f])
  BY <1>1 DEF Completed, SumsUp, ClosedAs, FinalStates
<1> QED BY <1>1 DEF BooksStep, ResultShown, QuestionShown, TransferShown, Shows, SameBooks, Removed,
                    Reopened

LEMMA RuntimeShownIsPlaced ==
    ASSUME Books, RuntimeServes, NEW s \in Sessions \ disturbed, NEW f \in Files, BooksStep(s, f),
           LossShown(s, f), ShownIsPlaced(s, f)
    PROVE  ShownIsPlaced(s, f)'
<1>0. placed' = placed /\ TypeOK
  BY StateParts DEF RuntimeServes, Books
<1>1. CASE TakesResult(s, f) /\ First.outcome = "Success"
  <2>1. channel # <<>>
    BY <1>1 DEF TakesResult, RuntimeServes
  <2>2. First \in Queued
    BY <1>0, <2>1, TailQueued DEF First
  <2>3. <<s, f>> \in placed
    BY <1>1, <2>2 DEF TakesResult, IsResult, Books, ResultsTrue, ResultIsTrue
  <2> QED BY <1>0, <2>3 DEF ShownIsPlaced
<1>2. CASE EndTaken(s) /\ transfer[s] # "none" /\ IsOpen(view[s][f])
  <2>1. EndOf(s) \in Queued /\ \A e \in Queued : ~IsResult(e, s, f)
    BY <1>2, BehindTheEnd
  <2>2. ~GivenUp(s, f)
    BY <1>2, <2>1 DEF GivenUp
  <2>3. <<s, f>> \in placed
    BY <2>1, <2>2 DEF LossShown, Hopeless
  <2> QED BY <1>0, <2>3 DEF ShownIsPlaced
<1> QED BY <1>0, <1>1, <1>2, FinishedBefore DEF ShownIsPlaced

LEMMA RuntimeKeepsSuccessLast ==
    ASSUME Books, RuntimeServes, NEW s \in Sessions \ disturbed, NEW f \in Files, BooksStep(s, f),
           SuccessLast(s, f)
    PROVE  SuccessLast(s, f)'
<1>0. TypeOK
  BY StateParts DEF Books
<1>1. CASE channel' = channel
  <2>1. view'[s][f] = "Finished" => view[s][f] = "Finished"
    BY <1>1, FinishedBefore DEF TakesResult, EndTaken
  <2> QED BY <1>1, <2>1 DEF SuccessLast
<1>2. CASE channel # <<>> /\ channel' = Tail(channel)
  <2>1. \A i \in 1 .. Len(channel') :
            i + 1 \in 1 .. Len(channel) /\ channel'[i] = channel[i + 1]
    BY <1>0, <1>2, TailShifts
  <2>2. 1 \in 1 .. Len(channel) /\ channel[1] = First
    BY <1>0, <1>2 DEF First, TypeOK
  <2>3. ASSUME NEW j \in 1 .. Len(channel'), NEW x, x = channel'[j], IsResult(x, s, f),
               \/ view'[s][f] = "Finished"
               \/ \E i \in 1 .. Len(channel') :
                     i < j /\ IsResult(channel'[i], s, f) /\ channel'[i].outcome = "Success"
        PROVE  x.outcome = "Success"
    <3>1. j + 1 \in 1 .. Len(channel) /\ x = channel[j + 1] /\ 1 < j + 1
      BY <2>1, <2>3
    <3>2. CASE view[s][f] = "Finished"
      BY <2>3, <3>1, <3>2 DEF SuccessLast
    <3>3. CASE TakesResult(s, f) /\ First.outcome = "Success"
      BY <2>2, <2>3, <3>1, <3>3 DEF SuccessLast, TakesResult
    <3>4. CASE EndTaken(s)
      <4>1. x \in Queued
        BY <3>1, QueuedIsRange
      <4> QED BY <2>3, <3>4, <4>1, BehindTheEnd
    <3>5. ASSUME NEW i \in 1 .. Len(channel'), i < j, NEW y, y = channel'[i],
                 IsResult(y, s, f), y.outcome = "Success"
          PROVE  x.outcome = "Success"
      <4>1. i + 1 \in 1 .. Len(channel) /\ y = channel[i + 1] /\ i + 1 < j + 1
        BY <2>1, <3>5
      <4> QED BY <2>3, <3>1, <3>5, <4>1 DEF SuccessLast
    <3> QED BY <2>3, <3>2, <3>3, <3>4, <3>5, FinishedBefore
  <2> QED BY <2>3 DEF SuccessLast
<1> QED BY <1>1, <1>2 DEF RuntimeServes

\* How a transfer comes to be summed up.
LEMMA SummedBefore ==
    ASSUME NEW s \in Sessions, NEW f \in Files, BooksStep(s, f), SummedUp(s)'
    PROVE  \/ SummedUp(s)
           \/ \E state \in {"Finished", "Failed"} : SumsUp(s, state) /\ Completed(s, f, state)
BY DEF BooksStep, ResultShown, QuestionShown, TransferShown, Shows, SameBooks, Removed, Reopened,
       Completed, SummedUp

\* A request that is being accepted has no session and no handler.
LEMMA TakenIsUnbegun ==
    ASSUME Books, NEW s \in Sessions, accepting[s] = "taken"
    PROVE  /\ ~Begun(s) /\ ~IsActive(s)
           /\ prep[s] \in {"waiting", "declined", "dropped", "done"}
<1>1. Good(s) /\ prep[s] \in PrepStates
  BY StateParts DEF Books, AllGood
<1>2. ~Begun(s)
  BY DEF Books, BegunIsPast, Past, Deciding
<1>3. ~Accepted(s)
  BY <1>1 DEF Good, BeforeAnswered
<1>4. prep[s] \notin {"new", "claimed"}
  BY <1>1 DEF Good, BeforeAsked
<1> QED BY <1>1, <1>2, <1>3, <1>4 DEF Accepted, PrepStates, AnsweredStates

LEMMA SummedCloses ==
    ASSUME Books, RuntimeServes, [ReceiveNext]_receiveVars,
           NEW s \in Sessions \ disturbed, NEW f \in Files,
           NEW state \in {"Finished", "Failed"}, SumsUp(s, state)
    PROVE  Closed(s)'
<1>1. CASE EndTaken(s)
  <2>1. IsOver(s)
    BY <1>1, BehindTheEnd
  <2>2. Closed(s)
    BY <2>1 DEF IsOver, Closed
  <2> QED BY <2>2, ClosedStays DEF Books
<1>2. CASE accepting[s] = "taken" /\ prep'[s] = IF prep[s] = "waiting" THEN "declined" ELSE prep[s]
  <2>1. /\ ~Begun(s) /\ ~IsActive(s)
        /\ prep[s] \in {"waiting", "declined", "dropped", "done"}
    BY <1>2, TakenIsUnbegun
  <2>2. \A r \in Requests : req'[r].sid # s
    <3>1. req \in [Requests -> RequestType]
      BY StateParts DEF Books, TypeOK
    <3> QED BY <2>1, <3>1, AnsweredOnly DEF Begun
  <2>3. ~IsActive(s)'
    BY <2>1 DEF RuntimeServes, IsActive, FreeSlot
  <2> QED BY <1>2, <2>1, <2>2, <2>3 DEF Closed
<1> QED BY <1>1, <1>2 DEF SumsUp

LEMMA RuntimeShowsSum ==
    ASSUME Books, RuntimeServes, NEW s \in Sessions \ disturbed, NEW f \in Files, BooksStep(s, f),
           SuccessLast(s, f), PlacedIsShown(s, f), SummedIsClosed(s), SummedIsShown(s, f)
    PROVE  SummedIsShown(s, f)'
<1>0. TypeOK /\ placed' = placed
  BY StateParts DEF Books, RuntimeServes
<1> SUFFICES ASSUME SummedUp(s)', <<s, f>> \in placed
             PROVE  view'[s][f] = "Finished"
  BY <1>0 DEF SummedIsShown
<1>1. CASE SummedUp(s)
  <2>1. view[s][f] = "Finished" /\ ~AsksFor(s, f) /\ transfer[s] # "none"
    BY <1>1 DEF SummedIsShown, SummedIsClosed, Closed, AsksFor, Working, SummedUp
  <2>2. ASSUME ResultShown(s, f)
        PROVE  First.outcome = "Success"
    <3>1. IsResult(First, s, f) /\ channel # <<>>
      BY <2>2 DEF ResultShown, TakesResult, RuntimeServes
    <3>2. 1 \in 1 .. Len(channel) /\ channel[1] = First
      BY <1>0, <3>1 DEF First, TypeOK
    <3> QED BY <2>1, <3>1, <3>2 DEF SuccessLast
  <2>3. ~Removed(s, f)
    BY DEF Removed, SummedUp
  <2> QED BY <2>1, <2>2, <2>3
          DEF BooksStep, ResultShown, QuestionShown, TransferShown, Shows, SameBooks, Reopened,
              Completed, IsOpen, OpenFileStates
<1>2. ASSUME NEW state \in {"Finished", "Failed"}, SumsUp(s, state), Completed(s, f, state)
      PROVE  view'[s][f] = "Finished"
  <2>1. EndTaken(s)
    <3>1. Begun(s)
      BY DEF Begun
    <3> QED BY <1>2, <3>1, TakenIsUnbegun DEF SumsUp
  <2>2. IsOver(s) /\ \A e \in Queued : ~IsResult(e, s, f)
    BY <2>1, BehindTheEnd
  <2>3. ~\E r \in Requests : Announces(r, s, f)
    BY <2>2 DEF IsOver, Announces, Working
  <2>4. Reported(s, f)
    BY <2>3 DEF PlacedIsShown
  <2>5. view[s][f] = "Finished"
    BY <1>2, <2>2, <2>4 DEF Reported, Completed
  <2> QED BY <1>2, <2>5 DEF Completed, IsOpen, OpenFileStates
<1> QED BY <1>1, <1>2, SummedBefore

\* A step of the runtime keeps the books of a session that is not disturbed.
LEMMA RuntimeKeepsBooks ==
    ASSUME Books, FilesAgree,
           \/ LoopNext
           \/ \E s \in Sessions : AcceptNext(s)
           \/ UserNext,
           NEW s \in Sessions \ disturbed, NEW f \in Files
    PROVE  FileInv(s, f)'
<1>0. FileInv(s, f) /\ State /\ IInv /\ RInv
  BY StateParts DEF Books, FilesAgree, RInv
<1>1. RuntimeServes /\ BooksStep(s, f) /\ [ReceiveNext]_receiveVars
  BY <1>0, RuntimeServing, RuntimeShows DEF Books, ReceiveNext
<1>2. Through(s, f) => Through(s, f)'
  BY <1>0, <1>1, ReceiveSteps, ThroughStays, TouchKeepsThrough
<1>3. LossShown(s, f)' /\ PlacedIsShown(s, f)'
  BY <1>0, <1>1, <1>2, RuntimeShowsLoss, RuntimeShowsPlaced DEF FileInv
<1>4. ShownIsPlaced(s, f)' /\ SuccessLast(s, f)'
  BY <1>0, <1>1, RuntimeShownIsPlaced, RuntimeKeepsSuccessLast DEF FileInv
<1>5. SummedIsShown(s, f)'
  BY <1>0, <1>1, RuntimeShowsSum DEF FileInv
<1>6. SummedIsClosed(s)'
  <2>1. CASE SummedUp(s)
    BY <1>0, <1>1, <2>1, ClosedStays DEF FileInv, SummedIsClosed
  <2>2. ASSUME NEW state \in {"Finished", "Failed"}, SumsUp(s, state)
        PROVE  Closed(s)'
    BY <1>1, <2>2, SummedCloses
  <2> QED BY <1>1, <2>1, <2>2, SummedBefore DEF SummedIsClosed
<1>7. Offered(s, f)'
  BY <1>0, <1>1 DEF FileInv, Offered, RuntimeServes, IsActive, FreeSlot
<1> QED BY <1>3, <1>4, <1>5, <1>6, <1>7 DEF FileInv

------------------------------------------------------------------------------
(* The books agree in every reachable state.                               *)

LEMMA BooksInit == ReceiveInit => Books /\ FilesAgree
<1> SUFFICES ASSUME ReceiveInit
             PROVE  Books /\ FilesAgree
  OBVIOUS
<1>0. Init /\ State /\ EndInv
  BY StateInit, EndInvInit DEF ReceiveInit
<1>1. /\ channel = <<>> /\ spawned = {} /\ conflicts = {} /\ placed = {} /\ Queued = {}
      /\ \A i \in 1 .. Len(channel) : FALSE
      /\ \A r \in Requests : req[r] = IdleRequest
      /\ slot = FreeSlot
  BY DEF ReceiveInit, Init, Queued
<1>2. \A s \in Sessions : /\ transfer[s] = "none" /\ ~IsActive(s) /\ s # NoSession
                          /\ ~Ending(s)
                          /\ EndOf(s) \notin Queued \cup spawned
                          /\ \A f \in Files : view[s][f] = "Pending"
  <2>1. \A s \in Sessions : ~IsActive(s) /\ s # NoSession
    BY <1>1, SessionsExist DEF IsActive, FreeSlot
  <2> QED BY <1>1, <2>1 DEF ReceiveInit, FreshView, Ending, Under
<1>3. AsksOnce /\ ResultsTrue
  BY <1>1 DEF AsksOnce, ResultsTrue, IdleRequest
<1>4. BegunIsPast
  BY <1>1, <1>2 DEF BegunIsPast, Begun, IdleRequest
<1>5. ASSUME NEW s \in Sessions, NEW f \in Files
      PROVE  FileInv(s, f)
  <2>1. ~\E r \in Requests : Working(r, s, f)
    BY <1>1, <1>2 DEF Working, IdleRequest
  <2> QED BY <1>1, <1>2, <2>1 DEF FileInv, LossShown, Hopeless, PlacedIsShown, ShownIsPlaced, SuccessLast,
                                  SummedIsClosed, SummedUp, SummedIsShown, Offered
<1> QED BY <1>0, <1>3, <1>4, <1>5 DEF Books, FilesAgree

LEMMA BooksStay ==
    ASSUME Books, FilesAgree, UNCHANGED receiveVars
    PROVE  AsksOnce' /\ FilesAgree'
<1>0. /\ UNCHANGED <<slot, files, req, prep, placed, channel, spawned>>
      /\ UNCHANGED <<transfer, view, conflicts, disturbed>>
  BY DEF receiveVars, vars, runtimeVars
<1>1. AsksOnce'
  BY <1>0 DEF Books, AsksOnce, Awaited, Working
<1>2. ASSUME NEW s \in Sessions \ disturbed, NEW f \in Files
      PROVE  FileInv(s, f)'
  <2>1. FileInv(s, f)
    BY <1>2 DEF FilesAgree
  <2>2. LossShown(s, f)'
    BY <1>0, <2>1 DEF FileInv, LossShown, Hopeless, GivenUp, Working, IsActive, Queued
  <2>3. Through(s, f)' <=> Through(s, f)
    BY <1>0 DEF Through, Working, IsActive
  <2>4. PlacedIsShown(s, f)'
    BY <1>0, <2>1, <2>3 DEF FileInv, PlacedIsShown, Reported, Announces, Working, Queued
  <2>5. ShownIsPlaced(s, f)' /\ SuccessLast(s, f)'
    BY <1>0, <2>1 DEF FileInv, ShownIsPlaced, SuccessLast
  <2>6. SummedIsClosed(s)' /\ SummedIsShown(s, f)' /\ Offered(s, f)'
    BY <1>0, <2>1 DEF FileInv, SummedIsClosed, SummedUp, Closed, SummedIsShown, Offered, IsActive
  <2> QED BY <2>2, <2>4, <2>5, <2>6 DEF FileInv
<1> QED BY <1>0, <1>1, <1>2 DEF FilesAgree

LEMMA BooksKept ==
    ASSUME Books, FilesAgree, [ReceiveNext]_receiveVars
    PROVE  Books' /\ FilesAgree'
<1>1. State' /\ EndInv' /\ ResultsTrue' /\ BegunIsPast'
  BY StateStep, EndInvThere, ResultsStep, BegunStep DEF Books
<1>2. disturbed \subseteq disturbed'
  BY StepKept DEF Kept, Books
<1>3. CASE ReceiveServerNext
  BY <1>1, <1>3, ServerAsks, ServerKeepsBooks DEF Books, FilesAgree
<1>4. CASE LoopNext \/ (\E s \in Sessions : AcceptNext(s)) \/ UserNext
  BY <1>1, <1>2, <1>4, RuntimeAsks, RuntimeKeepsBooks DEF Books, FilesAgree
<1>5. CASE UNCHANGED receiveVars
  BY <1>1, <1>5, BooksStay DEF Books
<1> QED BY <1>3, <1>4, <1>5 DEF ReceiveNext

\* Without one of the named races a file is shown as received only when it is in
\* place, also when complete_transfer closed it with its transfer; and a file in
\* place is shown as received once its transfer is summed up.
THEOREM ShownIsInPlace == ReceiveSpec => []DiskAgrees
<1>1. ReceiveInit => Books /\ FilesAgree
  BY BooksInit
<1>2. (Books /\ FilesAgree) /\ [ReceiveNext]_receiveVars => (Books /\ FilesAgree)'
  BY BooksKept
<1>3. FilesAgree => DiskAgrees
  BY DEF FilesAgree, FileInv, ShownIsPlaced, SummedIsShown, SummedUp, DiskAgrees, Undisturbed
<1> QED BY <1>1, <1>2, <1>3, PTL DEF ReceiveSpec
==============================================================================
