------------------------------ MODULE MCSending ------------------------------
(* Small instances of Sending for TLC.                                     *)
EXTENDS Sending, TLC

CONSTANTS s1, s2, f1, f2, r1, r2

\* Senders with both extensions, and senders with and without.
MCExtended == {{"resume", "stream"}}
MCFeatureSets == {{}, {"resume", "stream"}}

\* Files are interchangeable, and so are requests.
MCSymmetry == Permutations({f1, f2}) \cup Permutations({r1, r2})

\* What a sender was told shows in its tasks, no cancel comes without a
\* session, and a PIN is not looked at once the request was claimed.
MCView == <<slot, prep, features, files, idle, req, placed, channel, spawned,
            [s \in Sessions |->
                IF sender[s].stage \in {"preparing", "pin"} THEN sender[s]
                ELSE [sender[s] EXCEPT !.pin = "none"]],
            task, pinFailures, lossy>>

\* The other session only finds the slot free or taken.
MCOther == /\ prep[s2] = "new"
           /\ sender[s2].stage \in {"preparing", "done"}
           /\ sender[s2].pin = "none"
           /\ ~sender[s2].cancelled
==============================================================================
