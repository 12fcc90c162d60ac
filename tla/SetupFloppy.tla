--------------------------------- MODULE SetupFloppy --------------------------------
(* The Easy-Setup floppy (boot/setupboot-floppy.asm) as run-easysetup.sh starts it:  *)
(* the loader that brings the image in sector by sector, the stub it leaves behind  *)
(* at 0000:0600, and the three ways out of Easy-Setup to the hard disk: the far      *)
(* return, INT 19h, and a machine reset, at which QEMU's once=a is used up.          *)
(* A sector's content is its number on the floppy; build-floppy.sh puts the loader  *)
(* in sector 0 and the image after it.                                              *)
EXTENDS Integers

CONSTANTS
    SECTORS,      \* of the image, 454
    LOAD_SEG      \* where it goes, 5000h

SPT     == 18
HEADS   == 2
FLOPPY  == 2880      \* sectors of a 1.44 MB floppy
SEGMENT == 65536     \* segments have sixteen bits

ASSUME SizeAssumption == /\ SECTORS \in Nat /\ 0 < SECTORS /\ SECTORS < FLOPPY
                         /\ LOAD_SEG \in Nat /\ LOAD_SEG + 32 * SECTORS <= SEGMENT

VARIABLES
    where,        \* who runs: "bios", "loader", "setup", "stub", "disk", or "stopped"
    once,         \* the floppy comes first in the boot order
    int19,        \* where vector 19h points: "bios" or "stub"
    lba, seg, cx, \* the loader's lba and cur_seg, and the sectors it has left
    mem,          \* the sector at each of the segments 20h apart that it loads to
    left          \* history: Easy-Setup was left, and how

loading == <<lba, seg, cx, mem>>
vars    == <<where, once, int19, loading, left>>

Places == {LOAD_SEG + 32 * i : i \in 0..SECTORS - 1}

TypeOK ==
    /\ where \in {"bios", "loader", "setup", "stub", "disk", "stopped"}
    /\ once \in BOOLEAN /\ int19 \in {"bios", "stub"}
    /\ lba \in 0..SECTORS + 1 /\ cx \in 0..SECTORS /\ seg \in 0..SEGMENT
    /\ mem \in [Places -> Nat]
    /\ left \in {"no", "retf", "int19", "reset"}

Init ==
    /\ where = "bios" /\ once = TRUE /\ int19 = "bios"
    /\ lba = 0 /\ seg = 0 /\ cx = 0
    /\ mem = [p \in Places |-> 0]
    /\ left = "no"

------------------------------------------------------------------------------------
(* SeaBIOS: the floppy while once=a lasts, else the disk, if there is one.          *)

\* variant: INT 19h is left to the BIOS
StartLoader_NoVector ==
    /\ where' = "loader"
    /\ lba' = 1 /\ seg' = LOAD_SEG /\ cx' = SECTORS
    /\ UNCHANGED <<int19, mem>>

\* start: the stub is copied, INT 19h hooked, the loader's variables set.
StartLoader ==
    /\ where' = "loader" /\ int19' = "stub"
    /\ lba' = 1 /\ seg' = LOAD_SEG /\ cx' = SECTORS
    /\ UNCHANGED mem

BootFloppy == where = "bios" /\ once /\ StartLoader /\ UNCHANGED <<once, left>>

BootDisk ==
    /\ where = "bios" /\ ~once
    /\ where' \in {"disk", "stopped"}
    /\ UNCHANGED <<once, int19, loading, left>>

------------------------------------------------------------------------------------
(* The loader: .rd, one sector a turn.                                             *)

Cylinder(n) == (n \div (HEADS * SPT)) % 256
Head(n)     == (n % (HEADS * SPT)) \div SPT

\* variant: sectors counted from 0
Sector_FromZero(n) == n % SPT
Sector(n)          == (n % SPT) + 1

\* The sector of the floppy that INT 13h finds at a cylinder, head and sector.
At(c, h, s) == (c * HEADS + h) * SPT + (s - 1)

ReadSector ==
    /\ where = "loader" /\ cx > 0
    /\ mem' = [mem EXCEPT ![seg] = At(Cylinder(lba), Head(lba), Sector(lba))]
    /\ seg' = seg + 32 /\ lba' = lba + 1 /\ cx' = cx - 1
    /\ UNCHANGED <<where, once, int19, left>>

\* .err: a sector that cannot be read ends it; nothing is tried twice.
ReadFails ==
    /\ where = "loader" /\ cx > 0
    /\ where' = "stopped"
    /\ UNCHANGED <<once, int19, loading, left>>

EnterSetup ==
    /\ where = "loader" /\ cx = 0
    /\ where' = "setup"
    /\ UNCHANGED <<once, int19, loading, left>>

------------------------------------------------------------------------------------
(* Out of Easy-Setup.                                                              *)

\* The far return goes to 0000:0600.
ExitByReturn ==
    /\ where = "setup" /\ where' = "stub" /\ left' = "retf"
    /\ UNCHANGED <<once, int19, loading>>

ExitByInt19 ==
    /\ where = "setup" /\ where' = int19 /\ left' = "int19"
    /\ UNCHANGED <<once, int19, loading>>

\* A machine reset, by Easy-Setup, DOS or the user, at any time.
Reset ==
    /\ where' = "bios" /\ once' = FALSE /\ int19' = "bios"
    /\ left' = IF where = "setup" THEN "reset" ELSE left
    /\ UNCHANGED loading

\* The stub boots the first sector of the hard disk, or stops.
ExitStub ==
    /\ where = "stub"
    /\ where' \in {"disk", "stopped"}
    /\ UNCHANGED <<once, int19, loading, left>>

Boots == BootFloppy \/ BootDisk \/ ReadSector \/ ReadFails \/ EnterSetup \/ ExitStub

Next == Boots \/ ExitByReturn \/ ExitByInt19 \/ Reset

Spec == Init /\ [][Next]_vars

\* The machine runs; when and how to leave is up to the user.
FairSpec == Spec /\ WF_vars(Boots)

------------------------------------------------------------------------------------
\* When Easy-Setup is entered the whole image is in its place, in order, however its
\* sectors lie over tracks, heads and cylinders (.rd, build-floppy.sh).
ImageInPlace ==
    where = "setup" => \A i \in 0..SECTORS - 1 : mem[LOAD_SEG + 32 * i] = 1 + i

\* However Easy-Setup is left, it does not come back: INT 19h finds the stub and a reset
\* the hard disk (run-easysetup.sh's three ways).
NeverBack == left # "no" => where \notin {"loader", "setup"}

\* Leaving it ends in a boot of the hard disk, or in a stop where that cannot be read.
ExitReachesDisk == (left # "no") ~> (where \in {"disk", "stopped"})
====================================================================================
