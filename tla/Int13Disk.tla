--------------------------------- MODULE Int13Disk ---------------------------------
(* The software disk service pc110_int13() hooked at F000:D2D7, the disk images    *)
(* tools/make-disk.py writes for it, and a client that walks the drive the way a   *)
(* boot chain does: ask for the geometry, then read by cylinder, head and sector.  *)
(* A sector's content is its place in the image.                                   *)
EXTENDS Integers

CONSTANTS
    Images,       \* sizes of the image $PC110BOOT names, in sectors; 0: no file
    Counts        \* how many sectors the client asks for at once

ASSUME ImagesAssumption == Images \subseteq Nat
ASSUME CountsAssumption == Counts \subseteq 1..255

\* The geometry compiled into the service and into make-disk.py.
SPT    == 32
HEADS  == 2
MaxCyl == 127
HIDDEN == 32

VARIABLES
    size,         \* whole sectors in the image
    phase,        \* the client: asking for the geometry, walking, done
    geom,         \* CH, CL and DH as AH=08 returned them
    pos,          \* sectors the client has read
    cf, ah, al,   \* carry and AX as the service left them
    buf,          \* what the latest call stored: n sectors starting with first
    hostErr       \* history: the host failed to read a sector the image has

vars == <<size, phase, geom, pos, cf, ah, al, buf, hostErr>>

Bytes == 0..255

TypeOK ==
    /\ size \in Images
    /\ phase \in {"params", "walk", "done"}
    /\ geom \in [ch: Bytes, cl: Bytes, dh: Bytes]
    /\ pos \in 0..size
    /\ cf \in BOOLEAN /\ ah \in Bytes /\ al \in Bytes
    /\ buf \in [first: Nat, n: 0..255]
    /\ hostErr \in BOOLEAN

------------------------------------------------------------------------------------
(* Cylinder, head and sector: ten bits of cylinder and six of sector in CH and CL. *)

\* make-disk.py chs(), a client's CX and the CX of AH=08
PackCl(c, s) == ((c \div 256) % 4) * 64 + (s % 64)
PackCh(c)    == c % 256

\* pc110_int13: a variant loses the high bits of the cylinder
CylOf_LowByte(ch, cl) == ch
CylOf(ch, cl)         == ch + (cl \div 64) * 256

LbaOf(cyl, head, sec) == (cyl * HEADS + head) * SPT + (sec - 1)

\* The image sector that CH, CL and DH name.
Lba(ch, cl, dh) == LbaOf(CylOf(ch, cl), dh, cl % 64)

\* make-disk.py's cylinder, head and sector of a sector number
CylAt(lba)  == lba \div (HEADS * SPT)
HeadAt(lba) == (lba \div SPT) % HEADS
SecAt(lba)  == (lba % SPT) + 1

------------------------------------------------------------------------------------
(* The service.                                                                    *)

ParametersUpTo(maxCyl) ==
    /\ geom' = [ch |-> PackCh(maxCyl), cl |-> PackCl(maxCyl, SPT), dh |-> HEADS - 1]
    /\ cf' = FALSE /\ ah' = 0
    /\ UNCHANGED <<al, buf, hostErr>>

\* variant: the last cylinder kept back, as real BIOSes do for diagnostics
Parameters_LastLost == ParametersUpTo(MaxCyl - 1)

\* AH=08
Parameters == ParametersUpTo(MaxCyl)

\* How many of count sectors from lba on the file can give.
Available(lba, sec, count) ==
    IF sec = 0 \/ lba >= size THEN 0
    ELSE IF size - lba < count THEN size - lba ELSE count

\* variant: the count asked for in AL
Answer_AlAsAsked(got, count) ==
    /\ cf' = (got # count \/ count = 0)
    /\ ah' = IF cf' THEN 4 ELSE 0
    /\ al' = count

\* AH=02: AL and CF tell what was read, got of count sectors.
Answer(got, count) ==
    /\ cf' = (got # count \/ count = 0)
    /\ ah' = IF cf' THEN 4 ELSE 0
    /\ al' = got % 256

\* AH=02.  The host may fail to read the first sector or the last.
ReadSectors(ch, cl, dh, count) ==
    LET lba  == Lba(ch, cl, dh)
        here == Available(lba, cl % 64, count)
    IN  \E got \in IF here > 0 THEN {0, here - 1, here} ELSE {here} :
            /\ buf' = [first |-> lba, n |-> got]
            /\ Answer(got, count)
            /\ hostErr' = (hostErr \/ got # here)
            /\ UNCHANGED geom

\* The other functions, by AH: floppies are absent, resets succeed, AH=15 says fixed
\* disk, and what is not implemented (EDD among it) fails.
StatusOnly(fn, dl) ==
    /\ fn \notin {2, 8} \/ dl < 128
    /\ cf' = (dl < 128 \/ fn \notin {0, 9, 13, 17, 21, 37})
    /\ ah' = CASE dl < 128                     -> 128
               [] dl >= 128 /\ fn = 21          -> 3
               [] dl >= 128 /\ fn # 21 /\ cf'  -> 1
               [] dl >= 128 /\ fn # 21 /\ ~cf' -> 0
    /\ UNCHANGED <<geom, al, buf, hostErr>>

------------------------------------------------------------------------------------
(* The client.                                                                     *)

Init ==
    /\ size \in Images
    /\ phase = "params"
    /\ geom = [ch |-> 0, cl |-> 0, dh |-> 0]
    /\ pos = 0
    /\ cf = FALSE /\ ah = 0 /\ al = 0
    /\ buf = [first |-> 0, n |-> 0]
    /\ hostErr = FALSE

\* It resets drives and looks for a floppy and for EDD before it starts.
Probe ==
    /\ phase = "params"
    /\ \E fn \in {0, 2, 21, 65}, dl \in {0, 128} : StatusOnly(fn, dl)
    /\ UNCHANGED <<size, phase, pos>>

AskGeometry ==
    /\ phase = "params" /\ phase' = "walk"
    /\ Parameters
    /\ UNCHANGED <<size, pos>>

\* The drive as the client understands it.
Heads     == geom.dh + 1
Track     == geom.cl % 64
Cylinders == CylOf(geom.ch, geom.cl) + 1
Cylinder  == pos \div (Heads * Track)

\* It takes as many sectors as AL says, and stops where nothing can be read.
Walk(count) ==
    /\ phase = "walk" /\ Cylinder < Cylinders
    /\ ReadSectors(PackCh(Cylinder), PackCl(Cylinder, (pos % Track) + 1),
                   (pos \div Track) % Heads, count)
    /\ pos' = pos + al'
    /\ phase' = IF cf' /\ al' = 0 THEN "done" ELSE "walk"
    /\ UNCHANGED size

EndOfDrive ==
    /\ phase = "walk" /\ Cylinder >= Cylinders
    /\ phase' = "done"
    /\ UNCHANGED <<size, geom, pos, cf, ah, al, buf, hostErr>>

\* The next boot.
Again ==
    /\ phase = "done" /\ phase' = "params"
    /\ pos' = 0 /\ buf' = [first |-> 0, n |-> 0] /\ hostErr' = FALSE
    /\ UNCHANGED <<size, geom, cf, ah, al>>

Next == Probe \/ AskGeometry \/ (\E count \in Counts : Walk(count)) \/ EndOfDrive \/ Again

Spec == Init /\ [][Next]_vars

------------------------------------------------------------------------------------
\* Walking the drive by the geometry AH=08 reports gives the sectors of the image in
\* order, none twice and none skipped, however short the reads come back.
WalkInOrder == phase # "params" => buf.first + buf.n = pos

\* A walk that meets no host error sees all of an image of 128 cylinders or less.
WalkSeesDisk ==
    phase = "done" /\ ~hostErr /\ size <= (MaxCyl + 1) * HEADS * SPT => pos = size

\* The partition entry make-disk.py writes ends at the disk's last sector as the
\* service decodes it.
EntryEndsAtLast ==
    size > HIDDEN /\ size <= 65536 =>
        LET last == size - 1
        IN  Lba(PackCh(CylAt(last)), PackCl(CylAt(last), SecAt(last)), HeadAt(last)) = last
====================================================================================
