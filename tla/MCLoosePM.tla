---------------------------------- MODULE MCLoosePM ----------------------------------
(* LoosePM for TLC.                                                                *)
EXTENDS LoosePM

Of(kind, dpl, rpl) == [kind |-> kind, dpl |-> dpl, rpl |-> rpl]

\* Selectors of every kind, with and without low bits.
SomeSelectors ==
    {Of("null", 0, 0), Of("outside", 0, 0), Of("outside", 0, 3), Of("empty", 0, 1),
     Of("code", 0, 0), Of("code", 3, 3), Of("data", 3, 3), Of("gate", 3, 3)}
====================================================================================
