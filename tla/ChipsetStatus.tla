------------------------------- MODULE ChipsetStatus -------------------------------
(* The clock-stop latches and the 15ECh status port of pc110-chipset: 16-bit words *)
(* a guest assembles from byte and word writes, and a busy bit that clears because *)
(* it is read.                                                                     *)
EXTENDS Integers

CONSTANT ByteMax  \* the largest value of a byte of a latch, 255 on the device

ASSUME ByteAssumption == ByteMax \in Nat \ {0}

VARIABLES
    latch,        \* reg22; reg302 and reg704 have the same handlers
    bytes,        \* history: the latch as the guest wrote it
    busy,         \* bit 1 of status_15ec
    reads,        \* status_15ec_reads, up to the first value past the threshold
    polling       \* the guest waits for that bit to clear

clock  == <<latch, bytes>>
status == <<busy, reads, polling>>

StatusTypeOK ==
    /\ latch \in 0..(ByteMax + 1) * (ByteMax + 1) - 1
    /\ bytes \in [lo: 0..ByteMax, hi: 0..ByteMax]
    /\ busy \in BOOLEAN /\ polling \in BOOLEAN
    /\ reads \in 0..9

\* 22h starts with its lock bit, bit 0 of the high byte, set.
StatusInit ==
    /\ latch = ByteMax + 1 /\ bytes = [lo |-> 0, hi |-> 1]
    /\ busy = TRUE /\ reads = 0 /\ polling = FALSE

------------------------------------------------------------------------------------
(* The latches, two bytes wide: byte accesses merge, word accesses replace.        *)

Lo(n) == n % (ByteMax + 1)
Hi(n) == n \div (ByteMax + 1)

\* variant: the bytes swapped
Merge_Swapped(a, v) == IF a = 0 THEN Lo(latch) + v * (ByteMax + 1) ELSE latch - Lo(latch) + v

Merge(a, v) == IF a = 1 THEN Lo(latch) + v * (ByteMax + 1) ELSE latch - Lo(latch) + v

ClkByte(a, v) ==
    /\ latch' = Merge(a, v)
    /\ bytes' = IF a = 1 THEN [bytes EXCEPT !.hi = v] ELSE [bytes EXCEPT !.lo = v]

ClkWord(lo, hi) ==
    /\ latch' = lo + hi * (ByteMax + 1)
    /\ bytes' = [lo |-> lo, hi |-> hi]

ClockWrite == \/ \E a \in {0, 1}, v \in 0..ByteMax : ClkByte(a, v)
              \/ \E lo, hi \in 0..ByteMax : ClkWord(lo, hi)

------------------------------------------------------------------------------------
(* The status port: the busy bit clears on the ninth read.                         *)

Poll == ~polling /\ polling' = TRUE /\ UNCHANGED <<busy, reads>>

\* variant: reads do not clear the bit
StillBusy_Always(n) == busy

\* Past the ninth read, counting has no effect.
StillBusy(n) == busy /\ n <= 8

ReadStatus ==
    /\ polling
    /\ reads' = IF reads < 9 THEN reads + 1 ELSE reads
    /\ busy' = StillBusy(reads + 1)
    /\ polling' = busy'

------------------------------------------------------------------------------------
(* loadvm into a fresh device: the vmstate has the status byte, not its read        *)
(* counter, and not the latches.                                                   *)

StatusRestoredAs(b) ==
    /\ busy' = b /\ reads' = 0
    /\ latch' = ByteMax + 1
    /\ UNCHANGED <<polling, bytes>>

\* variant: the status byte left out too
RestoreStatus_Fresh == StatusRestoredAs(TRUE)

RestoreStatus == StatusRestoredAs(busy)
====================================================================================
