------------------------------- MODULE MCProxy -------------------------------
(* Two connections: one that shakes hands and sends more than the capture    *)
(* keeps, and one that is opened and closed without a word.                  *)
EXTENDS ProxyProofs

CONSTANTS c1, c2
MCConns == {c1, c2}
MCMaxChunks == [c \in MCConns |-> IF c = c1 THEN [hs |-> 1, app |-> 2] ELSE Empty]
=============================================================================
