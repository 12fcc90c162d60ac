-------------------------------- MODULE MCLzwUnpack --------------------------------
(* Small instances of LzwUnpack: damaged streams, and those of its packer.         *)
EXTENDS LzwPack

CONSTANTS MaxData, MaxGarbage

\* Every sequence of codes of the widest width: what a damaged ROM may hold.
Garbage == UNION {[1..n -> 0..(MaxCodes - 1)] : n \in 0..MaxGarbage}

AllData    == UNION {[1..n -> Chars] : n \in 1..MaxData}
SomeLimits == {First + 1, First + 3, MaxCodes, MaxCodes + 1}

AllStreams == Garbage \cup Packed
====================================================================================
