----------------------------- MODULE MCReceiving -----------------------------
(* Small instances of Receiving for TLC.                                   *)
EXTENDS Receiving, TLC

CONSTANTS s1, s2, f1, f2, r1, r2

MCSymmetry == Permutations({s1, s2})

MCResume == {{"resume"}}

\* What the sender was told, and which finished requests had been withdrawn,
\* is read by no action and no property of these runs.
MCView == <<slot, prep, {s \in withdrawn : prep[s] # "done"}, features, files,
            idle, req, placed, channel, spawned, runtimeVars, disturbed>>
==============================================================================
