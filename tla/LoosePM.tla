----------------------------------- MODULE LoosePM -----------------------------------
(* Segment loads and far transfers in protected mode, as patches/05 changes them:   *)
(* once DOS has booted, selectors need no descriptor, far jumps, calls and returns  *)
(* follow no gate and no privilege rule, and interrupts stay at the current level.  *)
(* The guest is any guest that returns from what it called in order.  The rules of  *)
(* a faithful CPU, which hold before the boot and in V86 mode, are QEMU's.          *)
(*                                                                                  *)
(* An operation whose conditions fail raises #GP, which is one more interrupt: it    *)
(* is not enabled here, and Interrupt is always possible where its own gate is.     *)
EXTENDS Integers, Sequences

CONSTANTS
    Selectors,    \* the selectors the guest uses
    Args,         \* how many words a routine takes off the stack with RET n
    MaxFrames     \* bound: routines and handlers entered and not yet returned from

\* What the descriptor table has for a selector: no room, eight zero bytes, a segment
\* or a call gate to a code segment of level 0.
Kinds    == {"null", "outside", "empty", "code", "data", "gate"}
Levels   == 0..3
Selector == [kind: Kinds, dpl: Levels, rpl: Levels]

ASSUME SelectorsAssumption == Selectors \subseteq Selector
ASSUME ArgsAssumption      == Args \subseteq Nat /\ MaxFrames \in Nat

VARIABLES
    booted,       \* pc110_booted (the hook that sets it needs PC110POST, as this does)
    mode,         \* "real", "prot" or "v86"
    cpl,          \* the level of the SS segment
    cs,           \* selector and base of CS
    at,           \* the stack in use, and how many words are on it
    frames        \* what calls and interrupts have pushed, the latest last

vars == <<booted, mode, cpl, cs, at, frames>>

\* Bases: the one of a descriptor, or selector*16, which depends on the low bits too, as
\* real mode loads it or as pc110_loose_base does, which moves three of them.
InTable(s)    == [of |-> "table", sel |-> [s EXCEPT !.rpl = 0]]
Paragraph(s)  == [of |-> "selector", sel |-> s]
Bases         == [of: {"table", "selector", "real"}, sel: Selector]
RealBase(s)   == [of |-> "real", sel |-> s]
CodeSegments  == [sel: Selector, base: Bases]

Stacks    == {"app", "ring0"}          \* the guest's, and the one the TSS names
Positions == [stack: Stacks, sp: Nat]
Nowhere   == [stack |-> "none", sp |-> 0]

\* A frame: where the stack was before the arguments, how many words lie on the stack in
\* use now, the pushed CS and flags.VM, and the pushed SS:SP, if there is one.
Frames == [by: {"call", "int"}, from: Positions, args: Nat, words: Nat,
           cs: CodeSegments, v86: BOOLEAN, back: Positions \cup {Nowhere}]

TypeOK ==
    /\ booted \in BOOLEAN /\ mode \in {"real", "prot", "v86"}
    /\ cpl \in Levels /\ cs \in CodeSegments
    /\ at \in Positions
    /\ frames \in Seq(Frames)

RealMode(s) == [sel |-> s, base |-> RealBase(s)]

Init ==
    /\ booted = FALSE /\ mode = "real" /\ cpl = 0
    /\ cs \in {RealMode(s) : s \in Selectors}
    /\ at = [stack |-> "app", sp |-> 0] /\ frames = <<>>

------------------------------------------------------------------------------------
(* The patch's own rules.                                                          *)

\* variant: loose from power-on
Loose_Always == TRUE

\* pc110_loose_pm
Loose == booted

\* pc110_resolve_seg: a descriptor counts when its access byte is not zero.
HasAccess(s) == s.kind \in {"code", "data", "gate"}
Resolved(s)  == IF HasAccess(s) THEN InTable(s) ELSE Paragraph(s)

\* The level SS gets: the descriptor's, that of pc110_synth_desc for a selector beyond
\* the table, and none of the flags of pc110_resolve_seg for an empty descriptor.
SegmentLevel(s) ==
    CASE HasAccess(s)        -> s.dpl
      [] s.kind = "outside"  -> s.rpl
      [] OTHER               -> 0

\* variant: the gate's level, and with it the TSS stack, also in loose mode
HandlerLevel_Descriptor(s) == SegmentLevel(s)

\* The level an interrupt is delivered at (dpl = cpl, 162-164).
HandlerLevel(s) == IF Loose /\ mode # "v86" THEN cpl ELSE SegmentLevel(s)

\* load_segment fails beyond the table only; an empty descriptor is no code segment.
GateLeadsTo(s) == s.kind = "code" \/ (Loose /\ s.kind = "outside")

------------------------------------------------------------------------------------
(* The stack.                                                                      *)

Room == Len(frames) < MaxFrames

\* n words of arguments and w of return address on the stack in use.
PushHere(by, n, w) ==
    /\ Room
    /\ frames' = Append(frames, [by |-> by, from |-> at, args |-> n, words |-> n + w,
                                 cs |-> cs, v86 |-> mode = "v86", back |-> Nowhere])
    /\ at' = [at EXCEPT !.sp = @ + n + w]

\* The same with a switch to the stack the TSS names, SS:SP among the w words.
PushInner(by, n, w) ==
    /\ Room
    /\ frames' = Append(frames, [by |-> by, from |-> at, args |-> n, words |-> n + w,
                                 cs |-> cs, v86 |-> mode = "v86",
                                 back |-> [at EXCEPT !.sp = @ + n]])
    /\ at' = [stack |-> "ring0", sp |-> n + w]

Latest == frames[Len(frames)]
Rest   == SubSeq(frames, 1, Len(frames) - 1)

WordsOf(by) == IF by = "call" THEN 2 ELSE 3

\* A return on the same level takes its words and the arguments off.
PopHere == at' = [at EXCEPT !.sp = @ - (WordsOf(Latest.by) + Latest.args)]

\* A return to an outer level or to V86 mode takes SS:SP from the frame.
PopOuter ==
    at' = IF Latest.back = Nowhere THEN Nowhere
          ELSE [Latest.back EXCEPT !.sp = @ - Latest.args]

------------------------------------------------------------------------------------
(* Modes.                                                                          *)

\* The boot decision of F000:52BD sets pc110_booted; it is reached in real mode.
Boot ==
    /\ mode = "real" /\ ~booted
    /\ booted' = TRUE
    /\ UNCHANGED <<mode, cpl, cs, at, frames>>

\* LMSW.  Before the boot a far jump to level 0 follows; afterwards the segment registers
\* may keep what real mode put into them.
EnterProt ==
    /\ mode = "real" /\ mode' = "prot"
    /\ \/ \E s \in Selectors : s.kind = "code" /\ s.dpl = 0 /\ cs' = [sel |-> [s EXCEPT !.rpl = 0],
                                                                     base |-> InTable(s)]
       \/ Loose /\ UNCHANGED cs
    /\ UNCHANGED <<booted, cpl, at, frames>>

\* A reset, at any time; real mode loads CS as it likes.
LeaveProt ==
    /\ mode' = "real" /\ cpl' = 0
    /\ cs' \in {RealMode(s) : s \in Selectors}
    /\ at' = [stack |-> "app", sp |-> 0] /\ frames' = <<>>
    /\ UNCHANGED booted

\* A frame built by hand takes the guest to V86 mode (IRET), or to level 3 (RETF, which
\* in loose mode keeps the level and is a jump).
EnterV86 ==
    /\ mode = "prot" /\ cpl = 0 /\ frames = <<>>
    /\ mode' = "v86" /\ cpl' = 3
    /\ cs' \in {RealMode(s) : s \in Selectors}
    /\ UNCHANGED <<booted, at, frames>>

EnterRing3(s) ==
    /\ mode = "prot" /\ ~Loose /\ frames = <<>>
    /\ s.kind = "code" /\ s.dpl = 3 /\ s.rpl = 3
    /\ cs' = [sel |-> s, base |-> InTable(s)] /\ cpl' = 3
    /\ UNCHANGED <<booted, mode, at, frames>>

------------------------------------------------------------------------------------
(* Loads and transfers.                                                            *)

\* The guest reloads SS for the memory it has been using.  A null selector faults first.
LoadSS(s) ==
    /\ mode = "prot"
    /\ s.kind # "null"
    /\ ~Loose => s.kind = "data" /\ s.rpl = cpl /\ s.dpl = cpl
    /\ cpl' = SegmentLevel(s)
    /\ UNCHANGED <<booted, mode, cs, at, frames>>

SameLevelCode(s) == s.kind = "code" /\ s.dpl = cpl /\ s.rpl <= cpl

\* In loose mode CS takes the selector as it is, otherwise with the level in it.
LoadCS(s) ==
    cs' = IF Loose THEN [sel |-> s, base |-> Resolved(s)]
          ELSE [sel |-> [s EXCEPT !.rpl = cpl], base |-> InTable(s)]

FarJump(s) ==
    /\ mode = "prot"
    /\ Loose \/ SameLevelCode(s)
    /\ LoadCS(s)
    /\ UNCHANGED <<booted, mode, cpl, at, frames>>

FarCall(s, n) ==
    /\ mode = "prot"
    /\ Loose \/ SameLevelCode(s)
    /\ PushHere("call", n, 2)
    /\ LoadCS(s)
    /\ UNCHANGED <<booted, mode, cpl>>

\* A call gate to level 0, which only a faithful CPU honours.
GateCode == [kind |-> "code", dpl |-> 0, rpl |-> 0]

CallGate(s, n) ==
    /\ mode = "prot" /\ ~Loose
    /\ s.kind = "gate" /\ cpl <= s.dpl /\ s.rpl <= s.dpl
    /\ IF cpl = 0 THEN PushHere("call", n, 2) ELSE PushInner("call", n, 4)
    /\ cs' = [sel |-> GateCode, base |-> InTable(GateCode)] /\ cpl' = 0
    /\ UNCHANGED <<booted, mode>>

\* Delivery through an IDT gate that names s; the selector gets the level in its low bits.
DeliverAt(level, s) ==
    /\ \/ level = cpl /\ mode = "prot" /\ PushHere("int", 0, 3)
       \/ level < cpl /\ mode = "prot" /\ PushInner("int", 0, 5)
       \/ level = 0 /\ mode = "v86" /\ PushInner("int", 0, 9)
    /\ cpl' = level
    /\ cs' = [sel  |-> [s EXCEPT !.rpl = level],
              base |-> IF s.kind = "outside" THEN Paragraph(s) ELSE InTable(s)]
    /\ mode' = "prot"
    /\ UNCHANGED booted

Interrupt(s) == mode # "real" /\ GateLeadsTo(s) /\ DeliverAt(HandlerLevel(s), s)

------------------------------------------------------------------------------------
(* Returns: RETF n and IRET, from the routine entered last.                        *)

\* No checks, the level stays.
LooseReturn ==
    /\ PopHere
    /\ cs' = [sel |-> Latest.cs.sel, base |-> Resolved(Latest.cs.sel)]
    /\ UNCHANGED <<mode, cpl>>

\* flags.VM in the popped flags: QEMU's own way back (before the patched code).
V86Return ==
    /\ PopOuter
    /\ cs' = RealMode(Latest.cs.sel)
    /\ mode' = "v86" /\ cpl' = 3

\* The faithful rules: a present code segment of the level the selector asks for.
FaithfulReturn ==
    LET s == Latest.cs.sel IN
    /\ s.kind = "code" /\ s.dpl = s.rpl /\ cpl <= s.rpl
    /\ IF s.rpl = cpl THEN PopHere ELSE PopOuter
    /\ cs' = [sel |-> s, base |-> InTable(s)]
    /\ cpl' = s.rpl
    /\ UNCHANGED mode

Return ==
    /\ mode = "prot" /\ frames # <<>>
    /\ frames' = Rest
    /\ \/ Latest.v86 /\ V86Return
       \/ ~Latest.v86 /\ Loose /\ LooseReturn
       \/ ~Latest.v86 /\ ~Loose /\ FaithfulReturn
    /\ UNCHANGED booted

------------------------------------------------------------------------------------
Next ==
    \/ Boot \/ EnterProt \/ LeaveProt \/ EnterV86
    \/ \E s \in Selectors :
          EnterRing3(s) \/ LoadSS(s) \/ FarJump(s) \/ Interrupt(s)
    \/ \E s \in Selectors, n \in Args : FarCall(s, n) \/ CallGate(s, n)
    \/ Return

Spec == Init /\ [][Next]_vars

------------------------------------------------------------------------------------
Returns == mode' # "real" /\ Len(frames') < Len(frames)

\* Whatever was entered how, the return leaves the stack, and the choice of it, as
\* before the arguments of the call or as the interrupt found it: pushes and pops of
\* patched and unpatched operations match (the comments at 156-161 and 231-235).
FramesBalanced == [][Returns => at' = Latest.from]_vars

\* Before the boot the patch leaves protection alone: level is gained only by entering
\* through a gate, never by a load, a jump or a return.
LevelOnlyThroughGates ==
    [][~booted /\ mode = "prot" /\ mode' = "prot" /\ cpl' < cpl
          => Len(frames') > Len(frames)]_vars

\* A routine called from a segment that protected mode has loaded returns into that
\* segment, "so control-transfer frames stay in sync" (216-218).
ReturnsHome ==
    [][Returns /\ Latest.cs.base.of # "real" => cs'.base = Latest.cs.base]_vars
====================================================================================
