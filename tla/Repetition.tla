--------------------------------- MODULE Repetition ---------------------------------
(* A step repeated: what the while loops of pc110post.c's completers, the ROM's     *)
(* counted loops and the packer of Easy-Setup's image come to.                      *)
EXTENDS Naturals

\* q after n applications of the function G.
Repeat(G, q, n) ==
    LET after[i \in Nat] == IF i = 0 THEN q ELSE G[after[i - 1]]
    IN  after[n]
====================================================================================
