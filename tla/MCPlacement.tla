----------------------------- MODULE MCPlacement -----------------------------
(* Small instances of Placement for TLC.                                   *)
EXTENDS Placement, TLC

CONSTANTS s1, s2, f1, f2, a, b, name, peer

\* Two files of one name, of which the second session offers one again.
MCOffers == s1 :> {f1, f2} @@ s2 :> {f1}
MCSenderOf == [s \in Sessions |-> peer]
MCNameOf == [f \in Files |-> name]
MCContentOf == f1 :> a @@ f2 :> b

\* Uploads begun, second tries and restarts together are bounded: under the
\* default policy any two uploads meet, of one session or of two, around one
\* retry or one restart; where the user is asked, or has chosen to overwrite,
\* two uploads meet or one is tried twice.  The runtime is not more than one
\* result behind.  Without a file of the user's the default policy does nothing
\* but to leave the number away.
MCBounded ==
    /\ Cardinality({u \in Uploads : upload[u].try > 0})
         + Cardinality({u \in Uploads : upload[u].try > 1}) + crashes
         <= IF policy = "rename" THEN 3 ELSE 2
    /\ Cardinality({u \in Uploads : upload[u].try > 0}) <= 2
    /\ Cardinality(results) <= 1
    /\ policy = "rename" => mine # {}

\* One session only.
MCOneOffer == [s \in Sessions |-> Files]
==============================================================================
