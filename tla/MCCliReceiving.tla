---------------------------- MODULE MCCliReceiving ----------------------------
(* Small instances of CliReceiving for TLC.                                *)
EXTENDS CliReceiving, TLC

CONSTANTS s1, s2, f1, r1, r2

MCSymmetry == Permutations({s1, s2}) \cup Permutations({r1, r2})
MCFeatures == {{}, {"resume", "stream"}}

\* What the sender was told, and which finished requests had been withdrawn,
\* is read by no action and no property of this run.
MCView == <<slot, prep, {s \in withdrawn : prep[s] # "done"}, features, files,
            idle, req, placed, channel, spawned, loopVars, disturbed>>
==============================================================================
