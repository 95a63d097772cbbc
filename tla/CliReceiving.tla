----------------------------- MODULE CliReceiving -----------------------------
(***************************************************************************)
(* "lan-send receive" (and the receiving half of "lan-send clip watch")    *)
(* against the server of UploadSession: one loop takes the events of the   *)
(* server and handles each to its end, questions at the terminal included  *)
(* (crates/cli/src/commands/incoming.rs and receive.rs, the bookkeeping of *)
(* crates/cli/src/app.rs).                                                 *)
(*                                                                         *)
(* It knows one session, the one it accepted last.  Where a file goes is   *)
(* left to module Placement.                                               *)
(***************************************************************************)
EXTENDS UploadSession

CONSTANTS AutoAccepts   \* the answers of --yes, or of a paired sender's clipboard files

ASSUME AutoAcceptsAssumption == AutoAccepts \subseteq BOOLEAN /\ AutoAccepts # {}

VARIABLES
    session,    \* Incoming.session
    prompt,     \* the question at the terminal that keeps the loop
    entry,      \* per session and file: its entry in the transfer history
    stray,      \* entries written under the name of another session's sender
    partials,   \* <<session, file>> with a row for an unfinished upload
    report,     \* per session: the CompletedSession that handle returned
    disturbed   \* history: sessions that met one of the races named below

loopVars == <<session, prompt, entry, stray, partials, report>>
cliVars == <<vars, loopVars, disturbed>>

------------------------------------------------------------------------------
(* State.                                                                  *)

NoInfo == [sid |-> NoSession, resumable |-> FALSE, received |-> {}, failed |-> 0]
NewInfo(s) == [NoInfo EXCEPT !.sid = s, !.resumable = "resume" \in features[s]]

NoPrompt == [kind |-> "none", sid |-> NoSession, file |-> NoFile, req |-> NoRequest]
NoReport == [reason |-> "none", received |-> {}, failed |-> 0]

CliInit ==
    /\ Init
    /\ session = NoInfo
    /\ prompt = NoPrompt
    /\ entry = [s \in Sessions |-> [f \in Files |-> "none"]]
    /\ stray = {} /\ partials = {}
    /\ report = [s \in Sessions |-> NoReport]
    /\ disturbed = {}

Current == {session.sid} \ {NoSession}
Disturb(ss) == disturbed' = disturbed \cup ss

serverRest == <<slot, withdrawn, features, files, idle, placed, told, spawned>>

First == channel[1]
Takes(type) == /\ prompt = NoPrompt
               /\ channel # <<>> /\ First.type = type
               /\ channel' = Tail(channel)

------------------------------------------------------------------------------
(* A request.                                                              *)

\* An accept makes this the session, whatever was there; then the answer is sent,
\* and if nobody waits for it there is no session, whichever it was.
Answered(s, accept) ==
    IF prep[s] = "waiting"
    THEN /\ prep' = [prep EXCEPT ![s] = IF accept THEN "accepted" ELSE "declined"]
         /\ session' = IF accept THEN NewInfo(s) ELSE session
         /\ Disturb(IF accept THEN Current ELSE {})
    ELSE session' = NoInfo /\ Disturb(Current) /\ UNCHANGED prep

OnPrepareAuto ==
    /\ TRUE \in AutoAccepts
    /\ Takes("PrepareUpload")
    /\ Answered(First.sid, TRUE)
    /\ UNCHANGED <<serverRest, req, prompt, entry, stray, partials, report>>

\* "Accept? [y/N]": no other event is handled until this is answered.
OnPrepareAsk ==
    /\ FALSE \in AutoAccepts
    /\ Takes("PrepareUpload")
    /\ prompt' = [NoPrompt EXCEPT !.kind = "accept", !.sid = First.sid]
    /\ UNCHANGED <<serverRest, prep, req, session, entry, stray, partials, report, disturbed>>
AnswerRequest(accept) ==
    /\ prompt.kind = "accept"
    /\ prompt' = NoPrompt
    /\ Answered(prompt.sid, accept)
    /\ UNCHANGED <<serverRest, req, channel, entry, stray, partials, report>>

\* There is no session, also when the one withdrawn is another.
OnAborted ==
    /\ Takes("PrepareUploadAborted")
    /\ session' = NoInfo
    /\ Disturb(Current \ {First.sid})
    /\ UNCHANGED <<serverRest, prep, req, prompt, entry, stray, partials, report>>

------------------------------------------------------------------------------
(* A file.                                                                 *)

\* The oneshot reaches the upload handler, if it is still there.
AnswerTarget(r, answer) ==
    req' = IF req[r].pc = "asked" THEN [req EXCEPT ![r].pc = answer] ELSE req

\* It gets a path, and a row for the time it is unfinished.
Assign(r, s, f) ==
    /\ AnswerTarget(r, "assigned")
    /\ partials' = IF session.resumable THEN partials \cup {<<s, f>>} ELSE partials

OnUpload ==
    /\ Takes("FileUpload")
    /\ \/ /\ Assign(First.req, First.sid, First.file)
          /\ UNCHANGED prompt
       \/ /\ FALSE \in AutoAccepts
          /\ prompt' = [kind |-> "conflict", sid |-> First.sid, file |-> First.file,
                        req |-> First.req]
          /\ UNCHANGED <<req, partials>>
       \/ /\ AnswerTarget(First.req, "rejected")
          /\ UNCHANGED <<prompt, partials>>
    /\ UNCHANGED <<serverRest, prep, session, entry, stray, report, disturbed>>

\* "[r]ename / [o]verwrite?"
AnswerConflict ==
    /\ prompt.kind = "conflict"
    /\ Assign(prompt.req, prompt.sid, prompt.file)
    /\ prompt' = NoPrompt
    /\ UNCHANGED <<serverRest, prep, channel, session, entry, stray, report, disturbed>>

Succeeded(e) == e.outcome = "Success"

\* Interrupted, with bytes on disk: the sender can resume.
Resumable(e, bytes) == e.outcome = "Interrupted" /\ session.resumable /\ bytes

\* The session that is known now is credited, whichever the file belongs to.  The
\* variants do not look whether there is one, or count no failure.
Credited_Anyone(e, bytes) ==
    IF Succeeded(e) THEN [session EXCEPT !.received = @ \cup {<<e.sid, e.file>>}]
    ELSE [session EXCEPT !.failed = @ + 1]
Credited_Blind(e, bytes) ==
    IF session = NoInfo \/ ~Succeeded(e) THEN session
    ELSE [session EXCEPT !.received = @ \cup {<<e.sid, e.file>>}]
Credited(e, bytes) ==
    CASE session = NoInfo -> NoInfo
      [] session # NoInfo /\ Succeeded(e) ->
            [session EXCEPT !.received = @ \cup {<<e.sid, e.file>>}]
      [] session # NoInfo /\ Resumable(e, bytes) -> session
      [] OTHER -> [session EXCEPT !.failed = @ + 1]

\* Each file of the known session has one entry, which every attempt updates; the
\* result of another session's file is entered under the known session's sender,
\* and none at all if no session is known.
Record(e) ==
    LET status == IF Succeeded(e) THEN "Finished" ELSE "Failed"
    IN  CASE session.sid = e.sid ->
                 entry' = [entry EXCEPT ![e.sid][e.file] = status] /\ UNCHANGED stray
          [] session.sid \notin {e.sid, NoSession} ->
                 stray' = stray \cup {<<e.sid, e.file, session.sid>>} /\ UNCHANGED entry
          [] OTHER -> UNCHANGED <<entry, stray>>

OnResult(bytes) ==
    /\ Takes("FileUploadResult")
    /\ session' = Credited(First, bytes)
    /\ partials' = IF Resumable(First, bytes) THEN partials
                   ELSE partials \ {<<First.sid, First.file>>}
    /\ Record(First)
    /\ Disturb(Current \ {First.sid})
    /\ UNCHANGED <<serverRest, prep, req, prompt, report>>

------------------------------------------------------------------------------
(* The end of a session.                                                   *)

\* Of the session that is known; the variant does not compare.
IsKnown_Any(s) == session # NoInfo
IsKnown(s) == session.sid = s

\* The files of a finished clipboard session are put on the clipboard.
OnEnd ==
    /\ Takes("SessionEnd")
    /\ IF IsKnown(First.sid)
       THEN /\ session' = NoInfo
            /\ report' = [report EXCEPT ![First.sid] =
                  [reason |-> First.outcome, received |-> session.received,
                   failed |-> session.failed]]
       ELSE UNCHANGED <<session, report>>
    /\ UNCHANGED <<serverRest, prep, req, prompt, entry, stray, partials, disturbed>>

------------------------------------------------------------------------------
(* The specification.                                                      *)

\* Every file of a request is accepted.
CliPrepareNext(s) ==
    \/ \E ext \in FeatureSets : ClaimPending(s, ext)
    \/ AskApplication(s)
    \/ SessionAccepted(s, Files)
    \/ prep[s] = "declined" /\ SessionRefused(s)

\* A request identity is not reused while the terminal may answer it.
CliRequestNext(r, s, f) == prompt.req # r /\ RequestNext(r, s, f)

QuietNext ==
    \/ \E s \in Sessions : \/ CliPrepareNext(s)
                           \/ PrepareWithdrawn(s) \/ SenderGone(s)
                           \/ CancelPending(s) \/ CancelBySender(s) \/ Touch(s)
                           \/ Reap(s)
    \/ \E r \in Requests : HandlerNext(r) /\ ~BodySaved(r, "Interrupted")
    \/ \E r \in Requests, s \in Sessions, f \in Files : CliRequestNext(r, s, f)
    \/ TenMinutes
    \/ \E e \in spawned : Deliver(e)

\* An upload or a confirmation loses its connection.
LostConnection(r) ==
    /\ DropHandler(r) \/ BodySaved(r, "Interrupted")
    /\ Disturb({req[r].sid})

ServerStep ==
    /\ \/ QuietNext /\ UNCHANGED disturbed
       \/ \E r \in Requests : LostConnection(r)
    /\ UNCHANGED loopVars

LoopStep ==
    \/ OnPrepareAuto \/ OnPrepareAsk \/ OnAborted
    \/ OnUpload \/ \E bytes \in BOOLEAN : OnResult(bytes)
    \/ OnEnd

TerminalStep == AnswerConflict \/ \E accept \in BOOLEAN : AnswerRequest(accept)

CliNext == ServerStep \/ LoopStep \/ TerminalStep

CliSpec == CliInit /\ [][CliNext]_cliVars

------------------------------------------------------------------------------
(* Properties.                                                             *)

\* The type invariant.
CliTypeOK ==
    /\ session \in [sid : Sessions \cup {NoSession}, resumable : BOOLEAN,
                    received : SUBSET (Sessions \X Files), failed : Nat]
    /\ session.sid = NoSession => session = NoInfo
    /\ prompt \in [kind : {"none", "accept", "conflict"}, sid : Sessions \cup {NoSession},
                   file : Files \cup {NoFile}, req : Requests \cup {NoRequest}]
    /\ entry \in [Sessions -> [Files -> {"none", "Finished", "Failed"}]]
    /\ stray \subseteq Sessions \X Files \X Sessions
    /\ partials \subseteq Sessions \X Files
    /\ report \in [Sessions -> [reason : EndReasons \cup {"none"}, failed : Nat,
                                received : SUBSET (Sessions \X Files)]]
    /\ disturbed \subseteq Sessions

\* The loop knows the session the server receives, although it learns of requests,
\* withdrawals and ends late: otherwise its files go to the directory of an unknown
\* sender, without a row to resume them by, and without an entry.  A session is
\* disturbed when the withdrawal of an earlier request makes the loop forget it,
\* when a result of an earlier session is credited to it, or when it is replaced
\* before its end was handled.
SessionKnown ==
    \A s \in Sessions \ disturbed : slot = ActiveSlot(s) => session.sid = s

\* What the history says was received is in place, and nothing will be resumed.
EntryIsTrue ==
    \A s \in Sessions, f \in Files :
        entry[s][f] = "Finished" => <<s, f>> \in placed /\ <<s, f>> \notin partials

\* Besides, the report of a finished session names exactly the files that are in
\* place, the history agrees, and files that are missing were counted as failed or
\* refused: the results reach the loop before the end.  Sessions that lost a
\* connection are disturbed as well.
ReportIsTrue ==
    /\ EntryIsTrue
    /\ \A s \in Sessions \ disturbed : report[s].reason = "Finished" =>
            \A f \in Files :
                /\ <<s, f>> \in placed <=> <<s, f>> \in report[s].received
                /\ <<s, f>> \in placed <=> entry[s][f] = "Finished"
                /\ entry[s][f] = "Failed" => report[s].failed > 0
==============================================================================
