--------------------------- MODULE MCUploadSession ---------------------------
(* Small instances of UploadSession for TLC.                               *)
EXTENDS UploadSession, TLC

CONSTANTS s1, s2, f1, f2, r1, r2

\* Plain senders, and senders with both extensions of this server.
MCFeatureSets == {{}, {"resume", "stream"}}

\* Requests are interchangeable, and so are sessions before they start.
MCSymmetry == Permutations({s1, s2}) \cup Permutations({r1, r2})
==============================================================================
