------------------------------ MODULE SetupFloppyProofs -----------------------------
(* Theorems about SetupFloppy for an image of any size a floppy holds.             *)
EXTENDS SetupFloppy, TLAPS

Place(i) == LOAD_SEG + 32 * i
Done     == SECTORS - cx

\* The sectors read so far are in place, and the loader's variables stand at the next.
Loaded ==
    /\ where = "loader" =>
          /\ lba = 1 + Done /\ seg = Place(Done)
          /\ \A i \in 0..Done - 1 : mem[Place(i)] = 1 + i
    /\ ImageInPlace

\* Who was there hooked INT 19h, and who left gave up the floppy or went by the stub.
Ways ==
    /\ where \in {"loader", "setup"} => int19 = "stub"
    /\ left # "no" /\ where = "bios" => ~once
    /\ NeverBack

FInv == TypeOK /\ Loaded /\ Ways

------------------------------------------------------------------------------------
\* Cylinder, head and sector name the sector they were computed from.
LEMMA ChsRoundTrip ==
    ASSUME NEW n \in Nat, n < 2880
    PROVE  At(Cylinder(n), Head(n), Sector(n)) = n
<1> DEFINE c == n \div 36
           q == n % 36
<1>1. n = (36 * c) + q /\ c \in 0..80 /\ q \in 0..35 OBVIOUS
<1>2. c % 256 = c BY <1>1
<1>3. n % 18 = q % 18 OBVIOUS
<1>4. Cylinder(n) = c /\ Head(n) = q \div 18 /\ Sector(n) = (q % 18) + 1
  BY <1>2, <1>3 DEF Cylinder, Head, Sector, HEADS, SPT
<1> HIDE DEF c, q
<1>5. q = (18 * (q \div 18)) + (q % 18) /\ q \div 18 \in Nat /\ q % 18 \in Nat BY <1>1
<1>6. At(c, q \div 18, (q % 18) + 1) = (((c * 2) + (q \div 18)) * 18) + (q % 18)
  BY <1>1, <1>5 DEF At, HEADS, SPT
<1> QED BY <1>1, <1>4, <1>5, <1>6

LEMMA Sizes ==
    /\ SECTORS \in Nat /\ 0 < SECTORS /\ LOAD_SEG \in Nat
    /\ SEGMENT \in Nat /\ LOAD_SEG + (32 * SECTORS) <= SEGMENT
<1>1. SEGMENT \in Nat BY DEF SEGMENT
<1> QED BY <1>1, SizeAssumption

LEMMA SegmentsFit ==
    ASSUME NEW i \in 0..SECTORS
    PROVE  Place(i) \in 0..SEGMENT /\ Place(i) + 32 = Place(i + 1)
<1>1. i \in Nat /\ i <= SECTORS BY Sizes
<1>2. LOAD_SEG + (32 * i) <= SEGMENT BY <1>1, Sizes
<1>3. LOAD_SEG + (32 * i) \in 0..SEGMENT BY <1>1, <1>2, Sizes
<1>4. LOAD_SEG + (32 * i) + 32 = LOAD_SEG + (32 * (i + 1)) BY <1>1, Sizes
<1> QED BY <1>3, <1>4 DEF Place

LEMMA PlaceFacts ==
    ASSUME NEW i \in 0..SECTORS - 1
    PROVE  /\ Place(i) \in Places
           /\ \A j \in 0..SECTORS - 1 : j # i => Place(j) # Place(i)
<1>1. Place(i) \in Places BY DEF Place, Places
<1>2. i \in Int /\ \A j \in 0..SECTORS - 1 : j \in Int BY Sizes
<1> QED BY <1>1, <1>2, Sizes DEF Place

LEMMA Start == Init => FInv
<1> SUFFICES ASSUME Init PROVE FInv OBVIOUS
<1>1. where = "bios" /\ once = TRUE /\ int19 = "bios" /\ lba = 0 /\ seg = 0 /\ cx = 0
      /\ mem = [p \in Places |-> 0] /\ left = "no"
  BY DEF Init
<1>2. once \in BOOLEAN BY <1>1
<1>3. 0 \in 0..SECTORS + 1 /\ 0 \in 0..SECTORS /\ 0 \in 0..SEGMENT /\ 0 \in Nat BY Sizes
<1>4. TypeOK BY <1>1, <1>2, <1>3 DEF TypeOK
<1>5. Loaded BY <1>1 DEF Loaded, ImageInPlace
<1>6. Ways BY <1>1 DEF Ways, NeverBack
<1> QED BY <1>4, <1>5, <1>6 DEF FInv

\* A turn of the loop puts one more sector in its place.
LEMMA ReadKeeps == ASSUME FInv, ReadSector PROVE FInv'
<1> DEFINE d == Done
<1>1. /\ where = "loader" /\ cx \in 1..SECTORS /\ d \in 0..SECTORS - 1
      /\ lba = 1 + d /\ seg = Place(d)
      /\ UNCHANGED <<where, once, int19, left>>
  BY Sizes DEF ReadSector, FInv, TypeOK, Loaded, Done
<1>2. \A i \in 0..d - 1 : mem[Place(i)] = 1 + i BY <1>1 DEF FInv, Loaded
<1>3. lba \in Nat /\ lba < 2880
  <2>1. SECTORS < 2880 BY SizeAssumption DEF FLOPPY
  <2> QED BY <1>1, <2>1, Sizes
<1>4. mem' = [mem EXCEPT ![Place(d)] = 1 + d]
      /\ seg' = seg + 32 /\ lba' = lba + 1 /\ cx' = cx - 1
  <2>1. At(Cylinder(lba), Head(lba), Sector(lba)) = lba BY <1>3, ChsRoundTrip
  <2> QED BY <1>1, <2>1 DEF ReadSector
<1>5. Done' = d + 1 BY <1>1, <1>4, Sizes DEF Done
<1> HIDE DEF d
<1>6. lba' = 1 + (d + 1) /\ seg' = Place(d + 1) BY <1>1, <1>4, Sizes DEF Place
<1>7. mem \in [Places -> Nat] BY DEF FInv, TypeOK
<1>8. 1 + d \in Nat /\ Place(d) \in Places BY <1>1, PlaceFacts, Sizes
<1>9. mem' \in [Places -> Nat] BY <1>4, <1>7, <1>8
<1>10. ASSUME NEW i \in 0..d PROVE mem'[Place(i)] = 1 + i
  <2>1. i \in 0..SECTORS - 1 BY <1>1, Sizes
  <2>2. CASE i = d BY <1>4, <1>7, <1>8, <2>2
  <2>3. CASE i # d
    <3>1. i \in 0..d - 1 BY <1>1, <2>3
    <3>2. Place(i) # Place(d) /\ Place(i) \in Places BY <1>1, <2>1, <2>3, PlaceFacts
    <3> QED BY <1>2, <1>4, <1>7, <3>1, <3>2
  <2> QED BY <2>2, <2>3
<1>11. TypeOK'
  <2>1. lba' \in 0..SECTORS + 1 /\ cx' \in 0..SECTORS BY <1>1, <1>4, <1>6, Sizes
  <2>2. seg' \in 0..SEGMENT BY <1>1, <1>6, SegmentsFit, Sizes
  <2> QED BY <1>1, <1>9, <2>1, <2>2 DEF FInv, TypeOK
<1>12. Loaded'
  <2>1. \A i \in 0..(d + 1) - 1 : mem'[Place(i)] = 1 + i BY <1>1, <1>10
  <2> QED BY <1>1, <1>5, <1>6, <2>1 DEF Loaded, ImageInPlace, Place
<1> QED BY <1>1, <1>11, <1>12 DEF FInv, Ways, NeverBack

LEMMA EnterKeeps == ASSUME FInv, EnterSetup PROVE FInv'
<1>1. /\ where = "loader" /\ cx = 0 /\ where' = "setup"
      /\ UNCHANGED <<once, int19, lba, seg, cx, mem, left>>
  BY DEF EnterSetup, loading
<1>2. Done = SECTORS BY <1>1, Sizes DEF Done
<1>3. \A i \in 0..SECTORS - 1 : mem[Place(i)] = 1 + i BY <1>1, <1>2 DEF FInv, Loaded
<1> QED BY <1>1, <1>3 DEF FInv, TypeOK, Loaded, ImageInPlace, Place, Ways, NeverBack

LEMMA LoaderStarts == ASSUME FInv, BootFloppy PROVE FInv'
<1>1. /\ where = "bios" /\ once /\ where' = "loader" /\ int19' = "stub"
      /\ lba' = 1 /\ seg' = LOAD_SEG /\ cx' = SECTORS
      /\ UNCHANGED <<mem, once, left>>
  BY DEF BootFloppy, StartLoader
<1>2. left = "no" BY <1>1 DEF FInv, Ways
<1>3. 1 \in 0..SECTORS + 1 /\ SECTORS \in 0..SECTORS /\ LOAD_SEG \in 0..SEGMENT
  BY Sizes
<1>4. Done' = 0 /\ Place(0) = LOAD_SEG BY <1>1, Sizes DEF Done, Place
<1>5. TypeOK' BY <1>1, <1>3 DEF FInv, TypeOK
<1>6. Loaded' BY <1>1, <1>4 DEF Loaded, ImageInPlace, Place
<1> QED BY <1>1, <1>2, <1>5, <1>6 DEF FInv, Ways, NeverBack

\* The other steps leave the image and the loader's variables alone.
LEMMA OthersKeep ==
    ASSUME FInv, BootDisk \/ ReadFails \/ ExitByReturn \/ ExitByInt19 \/ Reset \/ ExitStub
    PROVE  FInv'
<1>1. UNCHANGED <<lba, seg, cx, mem>> /\ where' \in {"bios", "stub", "disk", "stopped"}
  BY DEF FInv, TypeOK, BootDisk, ReadFails, ExitByReturn, ExitByInt19, Reset, ExitStub,
         loading
<1>2. once' \in BOOLEAN
  <2>1. CASE Reset BY <2>1 DEF Reset
  <2>2. CASE ~Reset
    BY <2>2 DEF FInv, TypeOK, BootDisk, ReadFails, ExitByReturn, ExitByInt19, ExitStub
  <2> QED BY <2>1, <2>2
<1>3. int19' \in {"bios", "stub"} /\ left' \in {"no", "retf", "int19", "reset"}
  BY DEF FInv, TypeOK, BootDisk, ReadFails, ExitByReturn, ExitByInt19, Reset, ExitStub
<1>4. TypeOK' BY <1>1, <1>2, <1>3 DEF FInv, TypeOK
<1>5. Loaded' BY <1>1 DEF Loaded, ImageInPlace
<1>6. Ways'
  <2>1. left' # "no" /\ where' = "bios" => ~once'
    BY DEF FInv, Ways, BootDisk, ReadFails, ExitByReturn, ExitByInt19, Reset, ExitStub
  <2> QED BY <1>1, <2>1 DEF Ways, NeverBack
<1> QED BY <1>4, <1>5, <1>6 DEF FInv

LEMMA Keeps == FInv /\ [Next]_vars => FInv'
<1> SUFFICES ASSUME FInv, [Next]_vars PROVE FInv' OBVIOUS
<1>1. CASE UNCHANGED vars
  <2>1. Done' = Done BY <1>1 DEF vars, loading, Done
  <2> QED BY <1>1, <2>1 DEF vars, loading, FInv, TypeOK, Loaded, ImageInPlace, Ways, NeverBack
<1> QED BY <1>1, ReadKeeps, EnterKeeps, LoaderStarts, OthersKeep DEF Next, Boots

THEOREM Invariance == Spec => []FInv
<1> QED BY Start, Keeps, PTL DEF Spec

\* The loader's counters and segments stay within a floppy and sixteen bits.
THEOREM TypeCorrect == Spec => []TypeOK
<1>1. FInv => TypeOK BY DEF FInv
<1> QED BY <1>1, Invariance, PTL

\* Easy-Setup is entered with its whole image in place, for every image size and segment.
THEOREM ImageInPlaceHolds == Spec => []ImageInPlace
<1>1. FInv => ImageInPlace BY DEF FInv, Loaded
<1> QED BY <1>1, Invariance, PTL

\* No way out of Easy-Setup leads back into it.
THEOREM NeverBackHolds == Spec => []NeverBack
<1>1. FInv => NeverBack BY DEF FInv, Ways
<1> QED BY <1>1, Invariance, PTL

\* Once Easy-Setup was left, the machine's next step towards a boot is the hard disk, or a
\* stop: the safety half of ExitReachesDisk, whose other half is that the machine runs.
THEOREM ExitFindsDisk ==
    Spec => [][left # "no" /\ Boots => where' \in {"disk", "stopped"}]_vars
<1>1. ASSUME FInv, left # "no", Boots PROVE where' \in {"disk", "stopped"}
  <2>1. where \notin {"loader", "setup"} /\ (where = "bios" => ~once)
    BY <1>1 DEF FInv, Ways, NeverBack
  <2>2. BootDisk \/ ExitStub
    BY <1>1, <2>1 DEF Boots, BootFloppy, ReadSector, ReadFails, EnterSetup
  <2> QED BY <2>2 DEF BootDisk, ExitStub
<1>2. FInv /\ [Next]_vars => [left # "no" /\ Boots => where' \in {"disk", "stopped"}]_vars
  BY <1>1
<1> QED BY <1>2, Invariance, PTL DEF Spec

------------------------------------------------------------------------------------
(* Liveness.  Whether an action is enabled is the one thing the prover cannot tell: *)
(* what the theorem assumes about it has a name.                                    *)

\* The guards of the boot steps, as their ENABLED: out of Easy-Setup one is possible
\* until the hard disk boots or cannot be read.
MayBoot == ENABLED <<Boots>>_vars
CanBoot == left # "no" /\ where \notin {"disk", "stopped"} => MayBoot

Out   == left # "no"
Final == where \in {"disk", "stopped"}

\* Where a step towards a boot is always possible, leaving Easy-Setup ends at the hard disk
\* or in a stop, for an image of any size, because the machine runs and resets of the user
\* lead to the disk too (run-easysetup.sh's once=a, exit_stub).
THEOREM ExitReachesDiskHolds == FairSpec /\ []CanBoot => ExitReachesDisk
<1>1. Spec => [][Out /\ Boots => Final']_vars
  <2>1. Out /\ Boots => Final' <=> (left # "no" /\ Boots => where' \in {"disk", "stopped"})
    BY DEF Out, Final
  <2> QED BY <2>1, ExitFindsDisk, PTL
<1>2. Out /\ [Next]_vars => Out'
  BY DEF Out, Next, Boots, BootFloppy, StartLoader, BootDisk, ReadSector, ReadFails, EnterSetup,
         ExitStub, ExitByReturn, ExitByInt19, Reset, loading, vars
<1>3. CanBoot <=> (Out /\ ~Final => MayBoot)
  BY DEF CanBoot, Out, Final
<1>4. (left # "no" <=> Out) /\ (where \in {"disk", "stopped"} <=> Final)
  BY DEF Out, Final
<1> QED BY <1>1, <1>2, <1>3, <1>4, PTL DEF Spec, FairSpec, ExitReachesDisk, MayBoot
====================================================================================
