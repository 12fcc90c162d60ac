------------------------------ MODULE Int13DiskProofs ------------------------------
(* Theorems about Int13Disk for images and transfer counts of every size.          *)
EXTENDS Int13Disk, TLAPS

\* Splitting a sector number into cylinder, head and sector loses nothing.
LEMMA ChsRoundTrip ==
    ASSUME NEW p \in Nat
    PROVE  ((p \div 64) * 2 + ((p \div 32) % 2)) * 32 + (p % 32) = p
<1>1. p = 32 * (p \div 32) + (p % 32)
  OBVIOUS
<1>2. p \div 32 = 2 * (p \div 64) + ((p \div 32) % 2)
  OBVIOUS
<1> QED BY <1>1, <1>2

\* What CH and CL have bits for: ten of cylinder and six of sector.
Packable(c, s) == c \in 0..1023 /\ s \in 1..63

\* CH and CL carry them.
LEMMA PackRoundTrip ==
    ASSUME NEW c, NEW s, Packable(c, s)
    PROVE  /\ CylOf(PackCh(c), PackCl(c, s)) = c
           /\ PackCl(c, s) % 64 = s
           /\ PackCh(c) \in Bytes /\ PackCl(c, s) \in Bytes
<1> DEFINE h == c \div 256
<1>0. c \in 0..1023 /\ s \in 1..63 BY DEF Packable
<1>1. h \in 0..3 /\ h % 4 = h
  BY <1>0
<1>2. s % 64 = s
  BY <1>0
<1>3. PackCl(c, s) = h * 64 + s
  BY <1>1, <1>2 DEF PackCl
<1>4. (h * 64 + s) \div 64 = h /\ (h * 64 + s) % 64 = s
  <2> HIDE DEF h
  <2> QED BY <1>0, <1>1
<1>5. c = h * 256 + (c % 256)
  BY <1>0
<1>6. CylOf(PackCh(c), PackCl(c, s)) = c
  BY <1>0, <1>1, <1>3, <1>4, <1>5 DEF CylOf, PackCh
<1>7. PackCl(c, s) \in Bytes
  <2> HIDE DEF h
  <2> QED BY <1>0, <1>1, <1>3 DEF Bytes
<1> QED BY <1>0, <1>3, <1>4, <1>6, <1>7 DEF PackCh, Bytes

\* The places that the registers can name on the drive.
IsPlace(c, h, s) == c \in 0..1023 /\ h \in 0..1 /\ s \in 1..32

\* What the service reads when it is asked, in registers, for a place on the drive.
LEMMA LbaOfPlace ==
    ASSUME NEW c, NEW h, NEW s, IsPlace(c, h, s)
    PROVE  /\ Lba(PackCh(c), PackCl(c, s), h) = (c * 2 + h) * 32 + (s - 1)
           /\ PackCl(c, s) % 64 = s
<1>0. c \in 0..1023 /\ h \in 0..1 /\ s \in 1..32 BY DEF IsPlace
<1>1. /\ CylOf(PackCh(c), PackCl(c, s)) = c
      /\ PackCl(c, s) % 64 = s
  <2>1. Packable(c, s) BY <1>0 DEF Packable
  <2> QED BY <2>1, PackRoundTrip
<1> QED BY <1>1 DEF Lba, LbaOf, HEADS, SPT

\* The service finds sector p where make-disk.py says it is.
LEMMA PackedPlace ==
    ASSUME NEW p \in Nat, p \div 64 \in 0..1023
    PROVE  Lba(PackCh(CylAt(p)), PackCl(CylAt(p), SecAt(p)), HeadAt(p)) = p
<1> DEFINE c == p \div 64
           h == (p \div 32) % 2
           s == (p % 32) + 1
<1>1. c = CylAt(p) /\ h = HeadAt(p) /\ s = SecAt(p)
  BY DEF CylAt, SecAt, HeadAt, HEADS, SPT
<1>2. IsPlace(c, h, s)
  BY DEF IsPlace
<1>3. (c * 2 + h) * 32 + (s - 1) = p
  BY ChsRoundTrip
<1> HIDE DEF c, h, s
<1>4. Lba(PackCh(c), PackCl(c, s), h) = (c * 2 + h) * 32 + (s - 1)
  BY <1>2, LbaOfPlace
<1> QED BY <1>1, <1>3, <1>4, Zenon

\* The partition entry of make-disk.py ends where the service finds the last sector,
\* for every disk up to 32 MB.
THEOREM EntryEndsAtLastHolds == Spec => []EntryEndsAtLast
<1> DEFINE Sized == size \in Nat
<1>1. Sized => EntryEndsAtLast
  <2> SUFFICES ASSUME size \in Nat, size > HIDDEN, size <= 65536, NEW last, last = size - 1
               PROVE  Lba(PackCh(CylAt(last)), PackCl(CylAt(last), SecAt(last)),
                          HeadAt(last)) = last
    BY DEF EntryEndsAtLast
  <2>1. last \in Nat /\ last \div 64 \in 0..1023
    BY DEF HIDDEN
  <2> QED BY <2>1, PackedPlace
<1>2. Init => Sized
  BY ImagesAssumption DEF Init
<1>3. Sized /\ [Next]_vars => Sized'
  BY DEF Next, Probe, AskGeometry, Walk, EndOfDrive, Again, vars
<1> QED BY <1>1, <1>2, <1>3, PTL DEF Spec

------------------------------------------------------------------------------------
\* While it walks, the client holds the geometry of AH=08, and what it has read ends
\* where the latest call's sectors end.
Walking ==
    /\ size \in Images /\ size \in Nat /\ pos \in 0..size
    /\ phase \in {"params", "walk", "done"}
    /\ geom \in [ch: Bytes, cl: Bytes, dh: Bytes]
    /\ cf \in BOOLEAN /\ ah \in Bytes /\ al \in Bytes /\ hostErr \in BOOLEAN
    /\ buf \in [first: Nat, n: 0..255]
    /\ phase = "walk" => geom = [ch |-> 127, cl |-> 32, dh |-> 1]
    /\ phase = "params" => pos = 0 /\ buf = [first |-> 0, n |-> 0]
    /\ buf.first + buf.n = pos

\* A read continues where the one before ended, however short it comes back, and without
\* a host error it comes back empty only at the image's end.
LEMMA WalkReads ==
    ASSUME Walking, NEW count \in Counts, Walk(count)
    PROVE  \E got \in 0..255 :
              /\ got <= size - pos
              /\ buf' = [first |-> pos, n |-> got] /\ al' = got
              /\ geom' = geom /\ cf' \in BOOLEAN /\ ah' \in {0, 4} /\ hostErr' \in BOOLEAN
              /\ got = 0 /\ ~hostErr' => pos = size
<1>1. geom = [ch |-> 127, cl |-> 32, dh |-> 1]
  BY DEF Walking, Walk
<1>2. Heads = 2 /\ Track = 32 /\ Cylinders = 128
  BY <1>1 DEF Heads, Track, Cylinders, CylOf
<1>3. pos \in Nat /\ Cylinder = pos \div 64 /\ pos \div 64 \in 0..1023
  BY <1>2 DEF Walking, Walk, Cylinder
<1> DEFINE c == pos \div 64
           s == (pos % 32) + 1
<1>4. ReadSectors(PackCh(c), PackCl(c, s), (pos \div 32) % 2, count)
  BY <1>2, <1>3 DEF Walk
<1>5. /\ Lba(PackCh(c), PackCl(c, s), (pos \div 32) % 2) = pos
      /\ PackCl(c, s) % 64 = s /\ s # 0
  <2> DEFINE h == (pos \div 32) % 2
  <2>1. IsPlace(c, h, s) /\ s # 0
    BY <1>3 DEF IsPlace
  <2>2. (c * 2 + h) * 32 + (s - 1) = pos
    BY <1>3, ChsRoundTrip
  <2> HIDE DEF c, s, h
  <2>3. /\ Lba(PackCh(c), PackCl(c, s), h) = (c * 2 + h) * 32 + (s - 1)
        /\ PackCl(c, s) % 64 = s
    BY <2>1, LbaOfPlace
  <2>4. Lba(PackCh(c), PackCl(c, s), h) = pos
    BY <2>2, <2>3, Zenon
  <2>5. s # 0
    BY <2>1
  <2> QED BY <2>3, <2>4, <2>5, Zenon DEF h
<1> DEFINE here == Available(pos, s, count)
<1>6. PICK got \in IF here > 0 THEN {0, here - 1, here} ELSE {here} :
         /\ buf' = [first |-> pos, n |-> got] /\ Answer(got, count)
         /\ hostErr' = (hostErr \/ got # here) /\ geom' = geom
  BY <1>4, <1>5 DEF ReadSectors
<1>7. here \in 0..count /\ here <= size - pos /\ (here = 0 => pos = size)
  BY <1>5, CountsAssumption DEF Walking, Available
<1> HIDE DEF here
<1>8. got \in 0..count /\ got <= size - pos
  BY <1>6, <1>7, CountsAssumption DEF Walking
<1>9. got \in 0..255 /\ al' = got
  BY <1>6, <1>8, CountsAssumption DEF Answer
<1>10. cf' \in BOOLEAN /\ ah' \in {0, 4} /\ hostErr' \in BOOLEAN
  <2>1. cf' = (got # count \/ count = 0) /\ ah' = IF cf' THEN 4 ELSE 0 BY <1>6 DEF Answer
  <2>2. cf' \in BOOLEAN BY <2>1, Zenon
  <2>3. ah' \in {0, 4} BY <2>1
  <2>4. hostErr' \in BOOLEAN BY <1>6, Zenon
  <2> QED BY <2>2, <2>3, <2>4
<1>11. ASSUME got = 0, ~hostErr' PROVE pos = size
  <2>1. got = here BY <1>6, <1>11
  <2> QED BY <1>7, <1>11, <2>1
<1> QED BY <1>6, <1>8, <1>9, <1>10, <1>11

LEMMA WalkStep ==
    ASSUME Walking, NEW count \in Counts, Walk(count)
    PROVE  Walking' /\ WalkSeesDisk'
<1>1. PICK got \in 0..255 : /\ got <= size - pos
                            /\ buf' = [first |-> pos, n |-> got] /\ al' = got
                            /\ geom' = geom /\ cf' \in BOOLEAN /\ ah' \in {0, 4}
                            /\ hostErr' \in BOOLEAN
                            /\ got = 0 /\ ~hostErr' => pos = size
  BY WalkReads
<1>2. /\ pos' = pos + got /\ size' = size /\ phase = "walk"
      /\ phase' = IF cf' /\ got = 0 THEN "done" ELSE "walk"
  BY <1>1 DEF Walk
<1>3. phase' \in {"walk", "done"} BY <1>2
<1>4. pos' \in 0..size' /\ pos' = pos + got BY <1>1, <1>2 DEF Walking
<1>5. Walking' BY <1>1, <1>2, <1>3, <1>4 DEF Walking, Bytes
<1>6. ASSUME phase' = "done", ~hostErr' PROVE pos' = size'
  <2>1. got = 0 BY <1>2, <1>6
  <2> QED BY <1>1, <1>2, <1>6, <2>1 DEF Walking
<1> QED BY <1>5, <1>6 DEF WalkSeesDisk

\* The drive ends where its cylinders do.
LEMMA EndStep == ASSUME Walking, EndOfDrive PROVE WalkSeesDisk'
<1>1. geom = [ch |-> 127, cl |-> 32, dh |-> 1] BY DEF Walking, EndOfDrive
<1>2. Heads = 2 /\ Track = 32 /\ Cylinders = 128
  BY <1>1 DEF Heads, Track, Cylinders, CylOf
<1>3. pos \div 64 >= 128 /\ pos \in 0..size /\ size \in Nat /\ UNCHANGED <<pos, size>>
  BY <1>2 DEF EndOfDrive, Cylinder, Walking
<1>4. pos >= 8192 BY <1>3
<1> QED BY <1>3, <1>4 DEF WalkSeesDisk, MaxCyl, HEADS, SPT

\* Every step keeps the client and the service agreed on where the walk is.
LEMMA WalkingInductive ==
    ASSUME Walking, WalkSeesDisk, [Next]_vars PROVE Walking' /\ WalkSeesDisk'
<1>1. CASE Probe
  <2>1. PICK fn \in {0, 2, 21, 65}, dl \in {0, 128} : StatusOnly(fn, dl) BY <1>1 DEF Probe
  <2>2. cf' \in BOOLEAN BY <2>1, Zenon DEF StatusOnly
  <2>3. ah' \in {0, 1, 3, 128} BY <2>1 DEF StatusOnly
  <2>4. UNCHANGED <<size, phase, pos, geom, al, buf, hostErr>> /\ phase = "params"
    BY <1>1, <2>1 DEF Probe, StatusOnly
  <2>5. ah' \in Bytes BY <2>3 DEF Bytes
  <2> QED BY <2>2, <2>4, <2>5 DEF Walking, WalkSeesDisk
<1>2. CASE AskGeometry
  <2>1. geom' = [ch |-> 127, cl |-> 32, dh |-> 1] /\ cf' = FALSE /\ ah' = 0
    BY <1>2 DEF AskGeometry, Parameters, ParametersUpTo, PackCh, PackCl, MaxCyl, SPT, HEADS
  <2>2. cf' \in BOOLEAN BY <2>1
  <2>3. /\ UNCHANGED <<size, pos, al, buf, hostErr>>
        /\ phase' = "walk" /\ phase = "params"
    BY <1>2 DEF AskGeometry, Parameters, ParametersUpTo
  <2> QED BY <2>1, <2>2, <2>3 DEF Walking, WalkSeesDisk, Bytes
<1>3. ASSUME NEW count \in Counts, Walk(count) PROVE Walking' /\ WalkSeesDisk'
  BY <1>3, WalkStep
<1>4. CASE EndOfDrive
  <2>1. Walking' BY <1>4 DEF EndOfDrive, Walking
  <2> QED BY <1>4, <2>1, EndStep
<1>5. CASE Again
  <2>1. hostErr' \in BOOLEAN BY <1>5 DEF Again
  <2> QED BY <1>5, <2>1 DEF Again, Walking, WalkSeesDisk
<1>6. CASE UNCHANGED vars
  BY <1>6 DEF vars, Walking, WalkSeesDisk
<1> QED BY <1>1, <1>2, <1>3, <1>4, <1>5, <1>6 DEF Next

LEMMA WalkingStart == Init => Walking /\ WalkSeesDisk
<1> SUFFICES ASSUME Init PROVE Walking /\ WalkSeesDisk OBVIOUS
<1>1. cf = FALSE /\ hostErr = FALSE BY DEF Init
<1>2. cf \in BOOLEAN /\ hostErr \in BOOLEAN BY <1>1
<1> QED BY <1>2, ImagesAssumption DEF Init, Walking, WalkSeesDisk, Bytes

\* The registers and the client's own counts stay in range (pc110_int13).
THEOREM TypeCorrect == Spec => []TypeOK
<1>1. Walking => TypeOK BY ImagesAssumption DEF Walking, TypeOK
<1> QED BY <1>1, WalkingStart, WalkingInductive, PTL DEF Spec

\* Whatever the size of the image, the counts asked for and the reads that come back
\* short, the client collects the image's sectors in order.
THEOREM WalkInOrderHolds == Spec => []WalkInOrder
<1>1. Walking => WalkInOrder BY DEF Walking, WalkInOrder
<1> QED BY <1>1, WalkingStart, WalkingInductive, PTL DEF Spec

\* Walking by the geometry AH=08 reports reaches the end of every image of up to 128
\* cylinders, whatever the counts, unless the host fails a read.
THEOREM WalkSeesDiskHolds == Spec => []WalkSeesDisk
<1> QED BY WalkingStart, WalkingInductive, PTL DEF Spec
====================================================================================
