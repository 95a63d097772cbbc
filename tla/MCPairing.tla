------------------------------ MODULE MCPairing ------------------------------
(* A small instance of Pairing for TLC.                                    *)
EXTENDS Pairing, FiniteSets, TLC

CONSTANTS a, b, c1, c2

\* Nothing tells the devices apart, nor the requests.
MCSymmetry == Permutations({a, b}) \cup Permutations({c1, c2})

\* What goes wrong or is withdrawn in one behaviour is bounded together: two
\* withdrawals and a restart, or two of withdrawals, failing writes, restarts and
\* pairings started with the tool.
MCBounded ==
    LET others == failures + Cardinality({c \in Calls : call[c].tool})
    IN withdrawals + restarts + others <= IF others = 0 THEN 3 ELSE 2
==============================================================================
