------------------------------ MODULE MCLoopCompleters -----------------------------
(* Small instances of LoopCompleters for TLC.                                      *)
EXTENDS LoopCompleters

AllAddrs    == UNION {Offsets(k) : k \in Counted} \cup {"3C4C"} \cup Waits \cup OneShots
                   \cup Exits \cup {WaitHead[k] : k \in Waits}
                   \cup {"61BE", "5F232", "out64", "after", "FFF0", "rom"}
HookedAddrs == UNION {Offsets(k) : k \in Counted} \cup Waits \cup OneShots
                   \cup {"61BE", "5F232"}

Starting(visits, cuts, override) ==
    [visits |-> visits, cuts |-> cuts, override |-> override]

\* One loop or wait at a time, the forced sites with each other; the budget ends at one
\* place of a loop at a time.  The waits are paced, as the scripts start QEMU.
CutLoops(k) == { Starting({k}, {a}, FALSE) : a \in {Body[k][i] : i \in 2..Len(Body[k])} }
AllRuns ==
    UNION { CutLoops(k) : k \in Counted }
    \cup { Starting({k}, {k}, FALSE) : k \in Waits }
    \cup { Starting({"reset", "6998"}, {"after"}, FALSE) }
    \cup { Starting(v, {}, FALSE) : v \in
        { {"checksum"}, {"copy"}, {"delay"}, {"shl"}, {"rcl"}, {"reset", "6998"},
          {"D2D7", "61BE"}, {"6981", "3D90"}, {"6D3A", "4A51"}, {"52BE", "52BF", "6999"} } }
    \cup { Starting({"errorlog"}, {}, o) : o \in BOOLEAN }
Shifts    == { Starting({"shl"}, {}, FALSE) }
LogOnly   == { Starting({"errorlog"}, {}, TRUE) }

\* The completer's 4096, 512, 256, 128, 1024, ... scaled down.
SmallThreshold == [c \in Counters |-> IF c \in {"cksum", "53C1"} THEN 3 ELSE 2]
HigherThreshold == [c \in Counters |-> 3]

\* Words whose bytes all differ from zero and from each other's sums.
Words == [i \in 0..7 |-> <<1 + (i % 2), 2 + (i % 3)>>]

\* The guest gets to INT 13h's entry by INT 13h only.
IntEntries == {"D2D7"}
====================================================================================
