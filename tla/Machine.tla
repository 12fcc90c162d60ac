---------------------------------- MODULE Machine ----------------------------------
(* The boot controller and the memory map together.  They meet in pc110_booted:    *)
(* the hook sets it on the vCPU thread, the chipset's eram_write() reads it on     *)
(* every guest write to E0000-EFFFF.                                               *)
EXTENDS PostCompleter, MemoryMap

MachineInit == Init /\ MemInit

\* The memory sizing of the POST writes probe patterns across C0000-FFFFF, Easy-Setup
\* and DOS write where they please.
GuestWrites ==
    /\ pc \in PostPcs \cup SetupPcs \cup {"dos"} /\ ~kbcPending
    /\ \E c \in Cells, v \in Probes : WriteCell(c, v, booted)
    /\ UNCHANGED vars

DosLooksForFonts == At("dos") /\ FontSys(booted) /\ UNCHANGED vars

BootStep == Next /\ UNCHANGED memVars

MachineNext == BootStep \/ GuestWrites \/ DosLooksForFonts

MachineSpec == MachineInit /\ [][MachineNext]_<<vars, memVars>>

------------------------------------------------------------------------------------
\* Until an operating system is loaded the guest sees the ROM at E0000, whatever the
\* POST and Easy-Setup write there: the sizing loop must find ROM (eram_write).
RomUntilBoot == ~booted => View("E") = Patched(patches)["E"]

\* Easy-Setup, which calls into the ROM, never runs over an E segment that DOS has
\* used as upper memory: needs both the write gate and the hook's !pc110_booted.
SetupSeesRom == pc \in SetupPcs => View("E") = Patched(patches)["E"]

\* The VGA BIOS the POST far-calls at C000:0003 is the patched one from 20000h,
\* for ever: no guest write reaches it (vgac000, pc110-bios-crom).
VgaBiosAtC000 == View("C") = Patched(patches)["E"]
====================================================================================
