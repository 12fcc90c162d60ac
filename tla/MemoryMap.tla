--------------------------------- MODULE MemoryMap ---------------------------------
(* C0000-FFFFF as pc110-chipset (biosfile=, vgac000=on) and pc110-fontrom map it:  *)
(* the 256 KB ROM image copied into three regions with three write policies, and   *)
(* the banked kanji window over the top of the first.  One cell stands for each    *)
(* part of the image; W is DE000-DFFFF, the 8 KB the font window covers.           *)
EXTENDS Integers, Sequences

CONSTANTS
    Bytes,        \* what a cell may hold; unpatched, its own name
    Patches,      \* biospatch lists: sequences of <<cell, byte>>
    Probes,       \* what a guest may write to a cell
    Banks,        \* FONTROM_BANKS
    BankMax       \* the largest value of the bank register, 255 on the device

Cells == {"C", "D", "W", "E", "F"}

ASSUME PatchesAssumption == Cells \subseteq Bytes /\ Patches \subseteq Seq(Cells \X Bytes)
ASSUME ProbesAssumption  == Probes \subseteq Bytes
ASSUME BanksAssumption   == Banks \in Nat \ {0} /\ BankMax \in Nat /\ BankMax % 2 = 1

VARIABLES
    crom,         \* pc110-bios-crom, C0000-DFFFF
    eram,         \* pc110-bios-eram, E0000-EFFFF
    fram,         \* pc110-bios-fram, F0000-FFFFF
    bank,         \* the font ROM's bank register
    enable,       \* its enable register
    scratch,      \* and the register nobody reads
    probe,        \* how far $FONT.SYS is with looking for the font ROM
    patches       \* the biospatch option of this run

romImage == <<crom, patches>>
font     == <<bank, enable, scratch, probe>>
memVars  == <<romImage, eram, fram, font>>

ProbeSteps == {"start", "enabled", "toggled", "selected", "verified", "found", "absent"}

\* Every cell holds a byte, registers hold register values.
MemTypeOK ==
    /\ patches \in Patches
    /\ crom \in [{"C", "D", "W"} -> Bytes]
    /\ eram \in Bytes /\ fram \in Bytes
    /\ bank \in 0..BankMax /\ enable \in {0, 1} /\ scratch \in 0..BankMax
    /\ probe \in ProbeSteps

------------------------------------------------------------------------------------
(* Realization: read the image, patch it, copy the VGA BIOS, lay it out.           *)

\* The image with a patch list applied in order; an unpatched cell holds its name.
Patched(list) ==
    [c \in Cells |->
        LET hits == {i \in DOMAIN list : list[i][1] = c}
        IN  IF hits = {} THEN c
            ELSE list[CHOOSE i \in hits : \A j \in hits : j <= i][2]]

\* vgac000: the VGA BIOS at offset 20000h also goes to offset 0.
VgaCopied(img) == [img EXCEPT !["C"] = img["E"]]

Layout(list, img) ==
    /\ patches = list
    /\ crom = [c \in {"C", "D", "W"} |-> img[c]]
    /\ eram = img["E"]
    /\ fram = img["F"]

\* variant: the copy taken before the patches
RealizeWith_CopyFirst(list) ==
    Layout(list, [Patched(list) EXCEPT !["C"] = "E"])

RealizeWith(list) == Layout(list, VgaCopied(Patched(list)))

MemInit ==
    /\ \E list \in Patches : RealizeWith(list)
    /\ bank = 0 /\ enable = 0 /\ scratch = 0
    /\ probe = "start"

------------------------------------------------------------------------------------
(* Decoding: of the regions that cover a cell the highest priority answers.        *)

\* "pc" stands for what QEMU's PC maps there: PAM aliases and its own BIOSes.
Regions == {"pc", "crom", "eram", "fram", "window"}

Covers == [pc |-> Cells, crom |-> {"C", "D", "W"}, eram |-> {"E"}, fram |-> {"F"},
           window |-> {"W"}]

\* variant: the font window at the ROM overlay's priority, below it in the list
Priority_WindowLow ==
    [pc |-> 1, crom |-> 20, eram |-> 20, fram |-> 20, window |-> 10]

Priority == [pc |-> 1, crom |-> 20, eram |-> 20, fram |-> 20, window |-> 10000]

Decoded(c) ==
    CHOOSE r \in Regions :
        /\ c \in Covers[r]
        /\ \A q \in Regions : c \in Covers[q] => Priority[q] <= Priority[r]

\* fontrom_window_read: the enable register plays no part.
Window == (bank % Banks)

\* What the guest reads at a cell; the font ROM's bank 0 carries its signature.
View(c) ==
    CASE Decoded(c) = "crom"   -> crom[c]
      [] Decoded(c) = "eram"   -> eram
      [] Decoded(c) = "fram"   -> fram
      [] Decoded(c) = "window" -> IF Window = 0 THEN "AA55" ELSE "glyphs"
      [] OTHER                 -> "pc"

------------------------------------------------------------------------------------
(* Guest writes; open is what eram_write finds in pc110_booted.                    *)

\* variant: the window writable at any time
EramWrite_Always(v, open) == eram' = v

\* eram_write: dropped until the boot, applied after it.
EramWrite(v, open) == eram' = IF open THEN v ELSE eram

\* ROM and the font window ignore writes.
StoreCell(c, v, open) ==
    /\ IF Decoded(c) = "eram" THEN EramWrite(v, open) ELSE UNCHANGED eram
    /\ fram' = IF Decoded(c) = "fram" THEN v ELSE fram
    /\ UNCHANGED crom

WriteCell(c, v, open) == StoreCell(c, v, open) /\ UNCHANGED <<patches, font>>

------------------------------------------------------------------------------------
(* $FONT.SYS looks for the font ROM as the device's header comment describes.      *)

\* fontrom_io_write to 1160h
FontBank(b) == bank' = b

\* fontrom_io_write to 1163h
FontEnable(v) == enable' = v % 2

\* It enables the window.
ProbeEnable ==
    /\ probe = "start" /\ probe' = "enabled"
    /\ FontEnable(1)
    /\ UNCHANGED <<romImage, eram, fram, bank, scratch>>

\* It toggles bit 0 of the bank register and reads it back.
ProbeToggle ==
    /\ probe = "enabled"
    /\ LET toggled == IF bank % 2 = 0 THEN bank + 1 ELSE bank - 1
       IN  /\ FontBank(toggled)
           /\ probe' = IF bank' = toggled THEN "toggled" ELSE "absent"
    /\ UNCHANGED <<romImage, eram, fram, enable, scratch>>

\* It selects bank 0 and looks for the signature.
ProbeSelect ==
    /\ probe = "toggled" /\ probe' = "selected"
    /\ FontBank(0)
    /\ UNCHANGED <<romImage, eram, fram, enable, scratch>>

ProbeVerify ==
    /\ probe = "selected"
    /\ probe' = IF View("W") = "AA55" THEN "verified" ELSE "absent"
    /\ UNCHANGED <<romImage, eram, fram, bank, enable, scratch>>

\* It checks that a write to the window does not stick.
ProbeWrite(v, open) ==
    /\ probe = "verified"
    /\ StoreCell("W", v, open) /\ UNCHANGED <<patches, bank, enable, scratch>>
    /\ probe' = IF View("W")' = View("W") THEN "found" ELSE "absent"

\* A driver draws glyphs from any bank, or closes the window; after a restart of DOS
\* the search starts over with whatever the registers were left at.
FontUse ==
    /\ probe = "found"
    /\ \/ \E b \in 0..BankMax : FontBank(b) /\ UNCHANGED <<probe, enable, scratch>>
       \/ \E v \in 0..BankMax : FontEnable(v) /\ UNCHANGED <<probe, bank, scratch>>
       \/ \E v \in {0, BankMax} : scratch' = v /\ UNCHANGED <<probe, bank, enable>>
       \/ probe' = "start" /\ UNCHANGED <<bank, enable, scratch>>
    /\ UNCHANGED <<romImage, eram, fram>>

FontSys(open) == \/ ProbeEnable \/ ProbeToggle \/ ProbeSelect \/ ProbeVerify \/ FontUse
                 \/ \E v \in Probes : ProbeWrite(v, open)

------------------------------------------------------------------------------------
\* $FONT.SYS always finds the font ROM, on a cold device and on one an earlier DOS
\* used: the window outranks the BIOS overlay and PAM, ignores writes, and bank 0
\* carries the signature (fontrom_window_read, fontrom_realizefn).
FontRomFound == probe # "absent"
====================================================================================
