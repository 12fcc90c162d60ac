------------------------------- MODULE MachineProofs -------------------------------
(* Theorems about PostCompleter for every set of environments, every bound and     *)
(* every choice of the ways a guest resets; then about Machine, its composition    *)
(* with the overlay, for every set of patch lists, probe values and banks.         *)
EXTENDS Machine, WellFoundedInduction, TLAPS

------------------------------------------------------------------------------------
(* Types.                                                                          *)

\* The ROM and the guests go to F000:5516 only below the bound on counted resets.
Counted == pc = "fe5516" => resetCount < MaxResets

Typed == TypeOK /\ Counted

\* The fields a block starts with, stale ones of an earlier POST dropped, are of type.
LEMMA RbNowType == ASSUME Typed
                   PROVE  RbNow \in [gen: -1..MaxResets, modeset: BOOLEAN,
                                     ticks: 0..BeepTicks]
BY BoundsAssumption DEF Typed, TypeOK, DataOK, RbNow

\* Every step leaves the flags flags.
LEMMA FlagsStep ==
    ASSUME Typed, [Next]_vars PROVE FlagsOK'
<1> USE DEF Typed, TypeOK, FlagsOK, launch
<1>1. CASE TakeKbcReset
  BY <1>1 DEF TakeKbcReset, KbcResetTo, CpuReset, PromptUncounted
<1>2. CASE WarmReset
  BY <1>2 DEF WarmReset, WarmResetTo, CpuReset, Word72, At
<1>3. CASE ForceResume
  BY <1>3 DEF ForceResume, At
<1>4. CASE Teletype
  BY <1>4 DEF Teletype, history, At
<1>5. CASE Sentinel
  BY <1>5 DEF Sentinel, At
<1>6. CASE Decide
  BY <1>6 DEF Decide, DecideIf, EnterEasySetup, At
<1>7. CASE SetupTest
  BY <1>7 DEF SetupTest, statics, history, At
<1>8. CASE SetupLoad
  BY <1>8 DEF SetupLoad, SetupLoadWith, EnterEasySetup, At
<1>9. CASE DiskLoad
  BY <1>9 DEF DiskLoad, DiskLoadMarking, At
<1>10. CASE RomDispatch
  BY <1>10 DEF RomDispatch, At
<1>11. CASE PostPrint
  BY <1>11 DEF PostPrint, At
<1>12. CASE PostReset
  BY <1>12 DEF PostReset, history, At
<1>13. CASE PostBoot
  BY <1>13 DEF PostBoot, history, At
<1>14. CASE Int10Returns
  BY <1>14 DEF Int10Returns, statics, history, At
<1>15. CASE SetupRestart
  BY <1>15 DEF SetupRestart, GuestReset
<1>16. CASE SpuriousReset
  BY <1>16 DEF SpuriousReset, GuestReset, history
<1>17. CASE DriverReset
  BY <1>17 DEF DriverReset, GuestReset, At
<1>18. CASE Reboot
  BY <1>18 DEF Reboot, GuestReset, At
<1>19. CASE User
  BY <1>19 DEF User, KeyPress, guest
<1>20. CASE UNCHANGED vars
  BY <1>20 DEF vars, launch, statics, guest, history
<1>21. CASE PostResetUnseen
  BY <1>21 DEF PostResetUnseen, CpuReset, PromptUncounted, statics, At
<1>22. CASE TeletypeUnseen
  BY <1>22 DEF TeletypeUnseen, statics, history, At
<1> QED
  BY <1>1, <1>2, <1>3, <1>4, <1>5, <1>6, <1>7, <1>8, <1>9, <1>10, <1>11, <1>12, <1>13,
     <1>14, <1>15, <1>16, <1>17, <1>18, <1>19, <1>20, <1>21, <1>22
  DEF Next, Hook, Rom, Guest

\* Every step keeps counters within their bounds and goes to a known location.
LEMMA DataStep ==
    ASSUME Typed, [Next]_vars PROVE DataOK' /\ Counted'
<1> USE DEF Typed, TypeOK, DataOK, Counted, launch, Pcs, PostPcs, HookPcs, SetupPcs, Sessions,
           Prompts, PromptUncounted
<1>1. CASE TakeKbcReset
  BY <1>1, RbNowType, BoundsAssumption DEF TakeKbcReset, KbcResetTo, CpuReset, PromptUncounted
<1>2. CASE WarmReset
  BY <1>2, RbNowType, BoundsAssumption DEF WarmReset, WarmResetTo, CpuReset, Word72, At
<1>3. CASE ForceResume
  BY <1>3, RbNowType, BoundsAssumption DEF ForceResume, At
<1>4. CASE Teletype
  <2>1. rb' \in [gen: -1..MaxResets, modeset: BOOLEAN, ticks: 0..BeepTicks]
    <3> HIDE DEF Typed
    <3>1. CASE rb' = [RbNow EXCEPT !.modeset = TRUE]
      BY <3>1, RbNowType
    <3>2. CASE /\ rb' = [RbNow EXCEPT !.ticks = @ + 1]
               /\ RbNow.ticks < BeepTicks
      BY <3>2, RbNowType, BoundsAssumption
    <3>3. CASE rb' = RbNow
      BY <3>3, RbNowType
    <3> QED
      BY <1>4, <3>1, <3>2, <3>3 DEF Teletype
  <2>2. pc' \in {"int10", "post"}
    BY <1>4 DEF Teletype
  <2> QED
    BY <1>4, <2>1, <2>2 DEF Teletype, history
<1>5. CASE Sentinel
  BY <1>5, RbNowType, BoundsAssumption DEF Sentinel, At
<1>6. CASE Decide
  <2>1. pc' \in {"rom19", "setup", "romSetup", "setupTest"} /\ session' \in {session, "idle"}
    BY <1>6 DEF Decide, DecideIf, EnterEasySetup
  <2>2. rb' = RbNow /\ UNCHANGED <<launch, cached, resetCount, warm72, cmos0F, chars, prompt,
                                   resumeDue>>
    BY <1>6 DEF Decide, DecideIf
  <2> QED BY <2>1, <2>2, RbNowType
<1>7. CASE SetupTest
  BY <1>7, RbNowType, BoundsAssumption DEF SetupTest, statics, history, At
<1>8. CASE SetupLoad
  BY <1>8, RbNowType, BoundsAssumption DEF SetupLoad, SetupLoadWith, EnterEasySetup, At
<1>9. CASE DiskLoad
  BY <1>9, RbNowType, BoundsAssumption DEF DiskLoad, DiskLoadMarking, At
<1>10. CASE RomDispatch
  BY <1>10, RbNowType, BoundsAssumption DEF RomDispatch, At
<1>11. CASE PostPrint
  BY <1>11, RbNowType, BoundsAssumption DEF PostPrint, At
<1>12. CASE PostReset
  BY <1>12, RbNowType, BoundsAssumption DEF PostReset, history, At
<1>13. CASE PostBoot
  BY <1>13, RbNowType, BoundsAssumption DEF PostBoot, history, At
<1>14. CASE Int10Returns
  BY <1>14, RbNowType, BoundsAssumption DEF Int10Returns, statics, history, At
<1>15. CASE SetupRestart
  BY <1>15, RbNowType, BoundsAssumption DEF SetupRestart, GuestReset
<1>16. CASE SpuriousReset
  BY <1>16, RbNowType, BoundsAssumption DEF SpuriousReset, GuestReset, history
<1>17. CASE DriverReset
  BY <1>17, RbNowType, BoundsAssumption DEF DriverReset, GuestReset, At
<1>18. CASE Reboot
  BY <1>18, RbNowType, BoundsAssumption DEF Reboot, GuestReset, At
<1>19. CASE User
  BY <1>19, RbNowType, BoundsAssumption DEF User, KeyPress, guest
<1>20. CASE UNCHANGED vars
  BY <1>20, RbNowType, BoundsAssumption DEF vars, launch, statics, guest, history
<1>21. CASE PostResetUnseen
  BY <1>21, RbNowType, BoundsAssumption DEF PostResetUnseen, CpuReset, PromptUncounted, statics, At
<1>22. CASE TeletypeUnseen
  BY <1>22, RbNowType, BoundsAssumption DEF TeletypeUnseen, statics, history, At
<1> QED
  BY <1>1, <1>2, <1>3, <1>4, <1>5, <1>6, <1>7, <1>8, <1>9, <1>10, <1>11, <1>12, <1>13,
     <1>14, <1>15, <1>16, <1>17, <1>18, <1>19, <1>20, <1>21, <1>22
  DEF Next, Hook, Rom, Guest

\* Types are inductive together with the bound at F000:5516.
LEMMA TypedInductive == ASSUME Typed, [Next]_vars PROVE Typed'
BY FlagsStep, DataStep DEF Typed, TypeOK

\* Every flag, counter and location keeps its range: in particular g_reset_count and
\* the beep counter never pass their bounds (pc110post.c:301-306, 517-520).
THEOREM TypeCorrect == Spec => []TypeOK
<1>1. Init => Typed
  <2>1. Init => FlagsOK
    BY DEF Init, FlagsOK
  <2>2. Init => DataOK /\ Counted
    BY BoundsAssumption DEF Init, DataOK, Counted, Pcs, Sessions, Prompts
  <2> QED
    BY <2>1, <2>2 DEF Typed, TypeOK
<1> QED
  BY <1>1, TypedInductive, PTL DEF Spec, Typed

------------------------------------------------------------------------------------
(* Who may be where once an operating system is loaded.                            *)

\* Only DOS tags a reset, and only the boot leads to DOS.
TagsAfterBoot == cmos0F = 9 \/ warm72 = "4321" => booted
DosLoaded     == pc = "dos" => booted

\* A POST after the boot runs because nothing asked for a resume.
RepostPlain   == booted /\ pc \in PostPcs =>
                     cmos0F # 9 /\ warm72 # "4321"
UiPcs         == pc \in {"int10", "sentinel"} => env.postui

\* The beep is on only in a realistic POST and on the way from it to the decision,
\* and then no reset can lead back to DOS (without PC110RESUME).
ToneWhere == tone /\ ~env.resume =>
                 /\ env.postui
                 /\ pc \notin SetupPcs \cup DeciderPcs \cup {"dos"}
                 /\ booted => cmos0F # 9 /\ warm72 # "4321"

\* Only Easy-Setup and DOS reset by a port write of their own.
PendingFrom == kbcPending => pc \in SetupPcs \cup {"dos"}

SafeInv == /\ SetupNeverOverDos /\ TagsAfterBoot /\ DosLoaded
           /\ RepostPlain /\ UiPcs /\ ToneWhere /\ PendingFrom

\* SafeInv is inductive without the types: it speaks of flags and locations only.
LEMMA SafeInductive ==
    ASSUME SafeInv, [Next]_vars PROVE SafeInv'
<1> USE DEF launch, SafeInv, SetupNeverOverDos, TagsAfterBoot, DosLoaded, RepostPlain, UiPcs,
       ToneWhere, PendingFrom, PostPcs, SetupPcs, DeciderPcs
<1>1. CASE TakeKbcReset
  BY <1>1 DEF TakeKbcReset, KbcResetTo, CpuReset, PromptUncounted
<1>2. CASE WarmReset
  BY <1>2 DEF WarmReset, WarmResetTo, CpuReset, Word72, At
<1>3. CASE ForceResume
  BY <1>3 DEF ForceResume, At
<1>4. CASE Teletype
  <2>1. tone' => tone
    BY <1>4 DEF Teletype
  <2>2. /\ pc = "teletype" /\ pc' \in {"int10", "post"}
        /\ pc' = "int10" => env.postui
        /\ UNCHANGED <<env, booted, kbcPending, warm72, cmos0F>>
    BY <1>4 DEF Teletype, At
  <2> QED
    BY <2>1, <2>2
<1>5. CASE Sentinel
  BY <1>5 DEF Sentinel, At
<1>6. CASE Decide
  BY <1>6 DEF Decide, DecideIf, EnterEasySetup, At
<1>7. CASE SetupTest
  BY <1>7 DEF SetupTest, statics, history, At
<1>8. CASE SetupLoad
  BY <1>8 DEF SetupLoad, SetupLoadWith, EnterEasySetup, At
<1>9. CASE DiskLoad
  BY <1>9 DEF DiskLoad, DiskLoadMarking, At
<1>10. CASE RomDispatch
  BY <1>10 DEF RomDispatch, At
<1>11. CASE PostPrint
  BY <1>11 DEF PostPrint, At
<1>12. CASE PostReset
  BY <1>12 DEF PostReset, history, At
<1>13. CASE PostBoot
  BY <1>13 DEF PostBoot, history, At
<1>14. CASE Int10Returns
  BY <1>14 DEF Int10Returns, statics, history, At
<1>15. CASE SetupRestart
  BY <1>15 DEF SetupRestart, GuestReset
<1>16. CASE SpuriousReset
  BY <1>16 DEF SpuriousReset, GuestReset, history
<1>17. CASE DriverReset
  BY <1>17 DEF DriverReset, GuestReset, At
<1>18. CASE Reboot
  BY <1>18 DEF Reboot, GuestReset, At
<1>19. CASE User
  BY <1>19 DEF User, KeyPress, guest
<1>20. CASE UNCHANGED vars
  BY <1>20 DEF vars, launch, statics, guest, history
<1>21. CASE PostResetUnseen
  BY <1>21 DEF PostResetUnseen, CpuReset, PromptUncounted, statics, At
<1>22. CASE TeletypeUnseen
  BY <1>22 DEF TeletypeUnseen, statics, history, At
<1> QED
  BY <1>1, <1>2, <1>3, <1>4, <1>5, <1>6, <1>7, <1>8, <1>9, <1>10, <1>11, <1>12, <1>13,
     <1>14, <1>15, <1>16, <1>17, <1>18, <1>19, <1>20, <1>21, <1>22
  DEF Next, Hook, Rom, Guest

\* Who may be where once an operating system is loaded, the invariant the safety
\* theorems and the refinement rest on (the guards of pc110post.c:821, 853, 920).
THEOREM SafeInvariant == Spec => []SafeInv
<1>1. Init => SafeInv
  BY DEF Init, SafeInv, SetupNeverOverDos, TagsAfterBoot, DosLoaded, RepostPlain, UiPcs,
         ToneWhere, PendingFrom, PostPcs, SetupPcs, DeciderPcs
<1> QED
  BY <1>1, SafeInductive, PTL DEF Spec

\* Easy-Setup, whose image overwrites 50000h, and the code that loads it are never
\* reached once DOS is loaded (the !pc110_booted guards, pc110post.c:821, 853, 920).
THEOREM SetupNeverOverDosHolds == Spec => []SetupNeverOverDos
BY SafeInvariant, PTL DEF SafeInv

\* The power-on beep is off whenever Easy-Setup or DOS runs, whatever resets cut the
\* POST short (pc110post.c:517-520, 522-537, 822).
THEOREM BeepOff == Spec => []BeepOffAtHandover
<1>1. SafeInv => BeepOffAtHandover
  BY DEF SafeInv, ToneWhere, BeepOffAtHandover
<1> QED
  BY <1>1, SafeInvariant, PTL

------------------------------------------------------------------------------------
(* Resets of the driver.                                                           *)

\* The shutdown code the driver stored stays until the dispatch reads it.
CodeKept == resumeDue = "code" => cmos0F = 9 /\ pc \in {"dos", "fe5516", "entry"}

\* No step between the driver's reset and the dispatch touches the shutdown code.
LEMMA CodeKeptInductive ==
    ASSUME CodeKept, [Next]_vars PROVE CodeKept'
<1> USE DEF launch, CodeKept, PostPcs, SetupPcs, DeciderPcs
<1>1. CASE TakeKbcReset
  BY <1>1 DEF TakeKbcReset, KbcResetTo, CpuReset, PromptUncounted
<1>2. CASE WarmReset
  BY <1>2 DEF WarmReset, WarmResetTo, CpuReset, Word72, At
<1>3. CASE ForceResume
  BY <1>3 DEF ForceResume, At
<1>4. CASE Teletype
  BY <1>4 DEF Teletype, history, At
<1>5. CASE Sentinel
  BY <1>5 DEF Sentinel, At
<1>6. CASE Decide
  BY <1>6 DEF Decide, DecideIf, EnterEasySetup, At
<1>7. CASE SetupTest
  BY <1>7 DEF SetupTest, statics, history, At
<1>8. CASE SetupLoad
  BY <1>8 DEF SetupLoad, SetupLoadWith, EnterEasySetup, At
<1>9. CASE DiskLoad
  BY <1>9 DEF DiskLoad, DiskLoadMarking, At
<1>10. CASE RomDispatch
  BY <1>10 DEF RomDispatch, At
<1>11. CASE PostPrint
  BY <1>11 DEF PostPrint, At
<1>12. CASE PostReset
  BY <1>12 DEF PostReset, history, At
<1>13. CASE PostBoot
  BY <1>13 DEF PostBoot, history, At
<1>14. CASE Int10Returns
  BY <1>14 DEF Int10Returns, statics, history, At
<1>15. CASE SetupRestart
  BY <1>15 DEF SetupRestart, GuestReset
<1>16. CASE SpuriousReset
  BY <1>16 DEF SpuriousReset, GuestReset, history
<1>17. CASE DriverReset
  BY <1>17 DEF DriverReset, GuestReset, At
<1>18. CASE Reboot
  BY <1>18 DEF Reboot, GuestReset, At
<1>19. CASE User
  BY <1>19 DEF User, KeyPress, guest
<1>20. CASE UNCHANGED vars
  BY <1>20 DEF vars, launch, statics, guest, history
<1>21. CASE PostResetUnseen
  BY <1>21 DEF PostResetUnseen, CpuReset, PromptUncounted, statics, At
<1>22. CASE TeletypeUnseen
  BY <1>22 DEF TeletypeUnseen, statics, history, At
<1> QED
  BY <1>1, <1>2, <1>3, <1>4, <1>5, <1>6, <1>7, <1>8, <1>9, <1>10, <1>11, <1>12, <1>13,
     <1>14, <1>15, <1>16, <1>17, <1>18, <1>19, <1>20, <1>21, <1>22
  DEF Next, Hook, Rom, Guest

\* A reset the driver tagged with shutdown code 09h returns to the driver: neither
\* the port-level reset nor F000:5516 disturbs the CMOS (pc110post.c:434-448, 577-644).
THEOREM TaggedResumesHolds == Spec => []TaggedResumes
<1>1. Init => CodeKept
  BY DEF Init, CodeKept
<1>2. CodeKept => TaggedResumes
  BY DEF CodeKept, TaggedResumes, PostPcs
<1> QED
  BY <1>1, <1>2, CodeKeptInductive, PTL DEF Spec

\* The same for the word 4321h, as long as resets go through F000:5516: then no
\* port-level reset is ever pending.
MagicKept == exits = {"rom"} =>
                 /\ resumeDue = "magic" => /\ warm72 = "4321"
                                           /\ pc \in {"dos", "fe5516", "entry"}
                                           /\ booted
                 /\ ~kbcPending
                 /\ pc = "dos" => booted

\* No step between the driver's reset and the dispatch touches 40:72, if nothing
\* resets by a port write.
LEMMA MagicKeptInductive ==
    ASSUME MagicKept, SafeInv, [Next]_vars PROVE MagicKept'
<1> USE DEF launch, MagicKept, SafeInv, TagsAfterBoot, PostPcs, SetupPcs, DeciderPcs
<1>1. CASE TakeKbcReset
  BY <1>1 DEF TakeKbcReset, KbcResetTo, CpuReset, PromptUncounted
<1>2. CASE WarmReset
  BY <1>2 DEF WarmReset, WarmResetTo, CpuReset, Word72, At
<1>3. CASE ForceResume
  BY <1>3 DEF ForceResume, At
<1>4. CASE Teletype
  BY <1>4 DEF Teletype, history, At
<1>5. CASE Sentinel
  BY <1>5 DEF Sentinel, At
<1>6. CASE Decide
  BY <1>6 DEF Decide, DecideIf, EnterEasySetup, At
<1>7. CASE SetupTest
  BY <1>7 DEF SetupTest, statics, history, At
<1>8. CASE SetupLoad
  BY <1>8 DEF SetupLoad, SetupLoadWith, EnterEasySetup, At
<1>9. CASE DiskLoad
  BY <1>9 DEF DiskLoad, DiskLoadMarking, At
<1>10. CASE RomDispatch
  BY <1>10 DEF RomDispatch, At
<1>11. CASE PostPrint
  BY <1>11 DEF PostPrint, At
<1>12. CASE PostReset
  BY <1>12 DEF PostReset, history, At
<1>13. CASE PostBoot
  BY <1>13 DEF PostBoot, history, At
<1>14. CASE Int10Returns
  BY <1>14 DEF Int10Returns, statics, history, At
<1>15. CASE SetupRestart
  BY <1>15 DEF SetupRestart, GuestReset
<1>16. CASE SpuriousReset
  BY <1>16 DEF SpuriousReset, GuestReset, history
<1>17. CASE DriverReset
  BY <1>17 DEF DriverReset, GuestReset, At
<1>18. CASE Reboot
  BY <1>18 DEF Reboot, GuestReset, At
<1>19. CASE User
  BY <1>19 DEF User, KeyPress, guest
<1>20. CASE UNCHANGED vars
  BY <1>20 DEF vars, launch, statics, guest, history
<1>21. CASE PostResetUnseen
  BY <1>21 DEF PostResetUnseen, CpuReset, PromptUncounted, statics, At
<1>22. CASE TeletypeUnseen
  BY <1>22 DEF TeletypeUnseen, statics, history, At
<1> QED
  BY <1>1, <1>2, <1>3, <1>4, <1>5, <1>6, <1>7, <1>8, <1>9, <1>10, <1>11, <1>12, <1>13,
     <1>14, <1>15, <1>16, <1>17, <1>18, <1>19, <1>20, <1>21, <1>22
  DEF Next, Hook, Rom, Guest

\* A reset through F000:5516 with the driver's 4321h in 40:72 returns to the driver
\* (pc110post.c:577-594), where no port-level reset (434-448) comes in between.
THEOREM MagicResumesHolds == Spec => []MagicResumes
<1>1. Init => MagicKept
  BY DEF Init, MagicKept
<1>2. MagicKept => MagicResumes
  BY DEF MagicKept, MagicResumes, PostPcs
<1>3. MagicKept /\ SafeInv /\ [Next]_vars => MagicKept'
  BY MagicKeptInductive
<1> QED
  BY <1>1, <1>2, <1>3, SafeInvariant, PTL DEF Spec

------------------------------------------------------------------------------------
(* Keys.                                                                           *)

\* Only the disk load boots.
LEMMA BootsAtDiskLoad ==
    ASSUME [Next]_vars, ~booted, booted' PROVE pc = "diskLoad"
<1>1. CASE TakeKbcReset
  BY <1>1 DEF TakeKbcReset, KbcResetTo, CpuReset, PromptUncounted
<1>2. CASE WarmReset
  BY <1>2 DEF WarmReset, WarmResetTo, CpuReset, Word72, At
<1>3. CASE ForceResume
  BY <1>3 DEF ForceResume, At
<1>4. CASE Teletype
  BY <1>4 DEF Teletype, history, At
<1>5. CASE Sentinel
  BY <1>5 DEF Sentinel, At
<1>6. CASE Decide
  BY <1>6 DEF Decide, DecideIf, EnterEasySetup, At
<1>7. CASE SetupTest
  BY <1>7 DEF SetupTest, statics, history, At
<1>8. CASE SetupLoad
  BY <1>8 DEF SetupLoad, SetupLoadWith, EnterEasySetup, At
<1>9. CASE DiskLoad
  BY <1>9 DEF DiskLoad, DiskLoadMarking, At
<1>10. CASE RomDispatch
  BY <1>10 DEF RomDispatch, At
<1>11. CASE PostPrint
  BY <1>11 DEF PostPrint, At
<1>12. CASE PostReset
  BY <1>12 DEF PostReset, history, At
<1>13. CASE PostBoot
  BY <1>13 DEF PostBoot, history, At
<1>14. CASE Int10Returns
  BY <1>14 DEF Int10Returns, statics, history, At
<1>15. CASE SetupRestart
  BY <1>15 DEF SetupRestart, GuestReset
<1>16. CASE SpuriousReset
  BY <1>16 DEF SpuriousReset, GuestReset, history
<1>17. CASE DriverReset
  BY <1>17 DEF DriverReset, GuestReset, At
<1>18. CASE Reboot
  BY <1>18 DEF Reboot, GuestReset, At
<1>19. CASE User
  BY <1>19 DEF User, KeyPress, guest
<1>20. CASE UNCHANGED vars
  BY <1>20 DEF vars, launch, statics, guest, history
<1>21. CASE PostResetUnseen
  BY <1>21 DEF PostResetUnseen, CpuReset, PromptUncounted, statics, At
<1>22. CASE TeletypeUnseen
  BY <1>22 DEF TeletypeUnseen, statics, history, At
<1> QED
  BY <1>1, <1>2, <1>3, <1>4, <1>5, <1>6, <1>7, <1>8, <1>9, <1>10, <1>11, <1>12, <1>13,
     <1>14, <1>15, <1>16, <1>17, <1>18, <1>19, <1>20, <1>21, <1>22
  DEF Next, Hook, Rom, Guest

\* An F1 from before the decision keeps the flag set until Easy-Setup is entered.
F1Kept == f1 /\ env.postui /\ ~booted => keyPressed /\ pc \notin DeciderPcs \cup SetupPcs

\* No step loses an F1 before Easy-Setup has honoured it.
LEMMA F1KeptInductive ==
    ASSUME F1Kept, [Next]_vars PROVE F1Kept'
<1> USE DEF launch, F1Kept, DeciderPcs, SetupPcs
<1>1. CASE TakeKbcReset
  BY <1>1 DEF TakeKbcReset, KbcResetTo, CpuReset, PromptUncounted
<1>2. CASE WarmReset
  BY <1>2 DEF WarmReset, WarmResetTo, CpuReset, Word72, At
<1>3. CASE ForceResume
  BY <1>3 DEF ForceResume, At
<1>4. CASE Teletype
  BY <1>4 DEF Teletype, history, At
<1>5. CASE Sentinel
  BY <1>5 DEF Sentinel, At
<1>6. CASE Decide
  BY <1>6 DEF Decide, DecideIf, EnterEasySetup, At
<1>7. CASE SetupTest
  BY <1>7 DEF SetupTest, statics, history, At
<1>8. CASE SetupLoad
  BY <1>8 DEF SetupLoad, SetupLoadWith, EnterEasySetup, At
<1>9. CASE DiskLoad
  BY <1>9 DEF DiskLoad, DiskLoadMarking, At
<1>10. CASE RomDispatch
  BY <1>10 DEF RomDispatch, At
<1>11. CASE PostPrint
  BY <1>11 DEF PostPrint, At
<1>12. CASE PostReset
  BY <1>12 DEF PostReset, history, At
<1>13. CASE PostBoot
  BY <1>13 DEF PostBoot, history, At
<1>14. CASE Int10Returns
  BY <1>14 DEF Int10Returns, statics, history, At
<1>15. CASE SetupRestart
  BY <1>15 DEF SetupRestart, GuestReset
<1>16. CASE SpuriousReset
  BY <1>16 DEF SpuriousReset, GuestReset, history
<1>17. CASE DriverReset
  BY <1>17 DEF DriverReset, GuestReset, At
<1>18. CASE Reboot
  BY <1>18 DEF Reboot, GuestReset, At
<1>19. CASE User
  <2>1. PICK key \in {"F1", "other"} : KeyPress(key)
    BY <1>19 DEF User
  <2>2. f1' => f1 \/ pc \notin DeciderPcs \cup SetupPcs
    BY <2>1 DEF KeyPress
  <2>3. keyPressed' /\ UNCHANGED <<env, booted, pc>>
    BY <2>1 DEF KeyPress, guest
  <2> QED
    BY <2>2, <2>3
<1>20. CASE UNCHANGED vars
  BY <1>20 DEF vars, launch, statics, guest, history
<1>21. CASE PostResetUnseen
  BY <1>21 DEF PostResetUnseen, CpuReset, PromptUncounted, statics, At
<1>22. CASE TeletypeUnseen
  BY <1>22 DEF TeletypeUnseen, statics, history, At
<1> QED
  BY <1>1, <1>2, <1>3, <1>4, <1>5, <1>6, <1>7, <1>8, <1>9, <1>10, <1>11, <1>12, <1>13,
     <1>14, <1>15, <1>16, <1>17, <1>18, <1>19, <1>20, <1>21, <1>22
  DEF Next, Hook, Rom, Guest

\* In a realistic boot no F1 from before the decision is lost before Easy-Setup is
\* entered, however many resets come in between (pc110post.c:251-253, 821-826).
THEOREM F1NeverBootsDiskHolds == Spec => F1NeverBootsDisk
<1>1. Init => F1Kept
  BY DEF Init, F1Kept
<1>2. F1Kept /\ [Next]_vars => F1Kept'
  BY F1KeptInductive
<1>3. F1Kept /\ [Next]_vars => [env.postui /\ ~booted /\ booted' => ~f1]_vars
  BY BootsAtDiskLoad DEF F1Kept, DeciderPcs
<1> QED
  BY <1>1, <1>2, <1>3, PTL DEF Spec, F1NeverBootsDisk

\* The disk load cannot be reached from a session nobody touched: either the flag
\* still holds the key that opened it (PC110POSTUI, where it is never cleared), or it
\* is clear and the PC110SETUP branch enters Easy-Setup again.
IdleKept == /\ session = "idle" =>
                 /\ pc # "diskLoad"
                 /\ \/ env.postui /\ keyPressed /\ pc \notin {"setupTest", "setupLoad"}
                    \/ env.setup /\ ~keyPressed
            /\ pc = "setupLoad" => env.setup

\* No step leads from an untouched Easy-Setup towards the disk load.
LEMMA IdleKeptInductive ==
    ASSUME IdleKept, [Next]_vars PROVE IdleKept'
<1> USE DEF launch, IdleKept, DeciderPcs, SetupPcs
<1>1. CASE TakeKbcReset
  BY <1>1 DEF TakeKbcReset, KbcResetTo, CpuReset, PromptUncounted
<1>2. CASE WarmReset
  BY <1>2 DEF WarmReset, WarmResetTo, CpuReset, Word72, At
<1>3. CASE ForceResume
  BY <1>3 DEF ForceResume, At
<1>4. CASE Teletype
  BY <1>4 DEF Teletype, history, At
<1>5. CASE Sentinel
  BY <1>5 DEF Sentinel, At
<1>6. CASE Decide
  BY <1>6 DEF Decide, DecideIf, EnterEasySetup, At
<1>7. CASE SetupTest
  BY <1>7 DEF SetupTest, statics, history, At
<1>8. CASE SetupLoad
  BY <1>8 DEF SetupLoad, SetupLoadWith, EnterEasySetup, At
<1>9. CASE DiskLoad
  BY <1>9 DEF DiskLoad, DiskLoadMarking, At
<1>10. CASE RomDispatch
  BY <1>10 DEF RomDispatch, At
<1>11. CASE PostPrint
  BY <1>11 DEF PostPrint, At
<1>12. CASE PostReset
  BY <1>12 DEF PostReset, history, At
<1>13. CASE PostBoot
  BY <1>13 DEF PostBoot, history, At
<1>14. CASE Int10Returns
  BY <1>14 DEF Int10Returns, statics, history, At
<1>15. CASE SetupRestart
  BY <1>15 DEF SetupRestart, GuestReset
<1>16. CASE SpuriousReset
  BY <1>16 DEF SpuriousReset, GuestReset, history
<1>17. CASE DriverReset
  BY <1>17 DEF DriverReset, GuestReset, At
<1>18. CASE Reboot
  BY <1>18 DEF Reboot, GuestReset, At
<1>19. CASE User
  BY <1>19 DEF User, KeyPress, guest
<1>20. CASE UNCHANGED vars
  BY <1>20 DEF vars, launch, statics, guest, history
<1>21. CASE PostResetUnseen
  BY <1>21 DEF PostResetUnseen, CpuReset, PromptUncounted, statics, At
<1>22. CASE TeletypeUnseen
  BY <1>22 DEF TeletypeUnseen, statics, history, At
<1> QED
  BY <1>1, <1>2, <1>3, <1>4, <1>5, <1>6, <1>7, <1>8, <1>9, <1>10, <1>11, <1>12, <1>13,
     <1>14, <1>15, <1>16, <1>17, <1>18, <1>19, <1>20, <1>21, <1>22
  DEF Next, Hook, Rom, Guest

\* A reset out of an Easy-Setup that nobody touched returns to Easy-Setup and never
\* flips to the disk boot (pc110post.c:839-858).
THEOREM NoFlipHolds == Spec => NoFlip
<1>1. Init => IdleKept
  BY DEF Init, IdleKept
<1>2. IdleKept /\ [Next]_vars => IdleKept'
  BY IdleKeptInductive
<1>3. IdleKept /\ [Next]_vars => [~booted /\ booted' => session # "idle"]_vars
  BY BootsAtDiskLoad DEF IdleKept
<1> QED
  BY <1>1, <1>2, <1>3, PTL DEF Spec, NoFlip

------------------------------------------------------------------------------------
(* The prompt.                                                                     *)

\* A POST that still owes its prompt has printed nothing that is past the teletype, and
\* the hook has not set its text mode except on the way to the prompt; only Easy-Setup
\* and DOS have a keyboard-controller reset pending.
PromptKept ==
    env.postui =>
        /\ kbcPending => pc \in SetupPcs \cup {"dos"}
        /\ prompt = "due" /\ chars > 0 => pc \in {"teletype", "int10", "sentinel"}
        /\ prompt \in {"due", "missed"} /\ RbNow.modeset => pc \in {"int10", "sentinel"}

\* Taking the fields of this POST twice is taking them once.
LEMMA RbNowTwice ==
    ASSUME rb' = RbNow, launch' = launch, resetCount' = resetCount PROVE RbNow' = RbNow
BY DEF RbNow, launch

\* And not taking them changes nothing.
LEMMA RbNowSame ==
    ASSUME rb' = rb, launch' = launch, resetCount' = resetCount PROVE RbNow' = RbNow
BY DEF RbNow, launch

\* A counted reset makes the fields of the POST before it stale, and an uncounted one
\* leaves a POST that owes its prompt without a text mode.
LEMMA PromptKeptInductive ==
    ASSUME Typed, PromptKept, [Next]_vars PROVE PromptKept'
<1> USE DEF PromptKept, launch, SetupPcs
<1>1. CASE TakeKbcReset
  <2>2. CASE ~env.postui
    BY <1>1, <2>2 DEF TakeKbcReset, KbcResetTo
  <2>3. CASE env.postui
    <3>1. RbNow' = RbNow
      BY <1>1, RbNowSame DEF TakeKbcReset, KbcResetTo
    <3>2. prompt' \in {"due", "missed"} => prompt \in {"due", "missed"}
      BY <1>1 DEF TakeKbcReset, KbcResetTo, PromptUncounted
    <3>3. ~kbcPending' /\ chars' = 0 /\ pc \in SetupPcs \cup {"dos"}
      BY <1>1, <2>3 DEF TakeKbcReset, KbcResetTo, CpuReset
    <3> QED
      BY <3>1, <3>2, <3>3, <2>3, <1>1 DEF TakeKbcReset, KbcResetTo
  <2> QED
    BY <2>2, <2>3
<1>2. CASE WarmReset
  <2>1. /\ chars' = 0 /\ rb' = RbNow /\ resetCount' = resetCount + 1
        /\ UNCHANGED <<launch, kbcPending>> /\ ~kbcPending
    BY <1>2 DEF WarmReset, WarmResetTo, CpuReset, At
  <2>2. resetCount \in Int
    BY BoundsAssumption DEF Typed, TypeOK, DataOK
  <2>3. env.postui => RbNow.gen = resetCount
    BY DEF RbNow
  <2>4. env.postui => ~RbNow'.modeset
    BY <2>1, <2>2, <2>3 DEF RbNow
  <2> QED
    BY <2>1, <2>4
<1>3. CASE ForceResume
  BY <1>3, RbNowTwice DEF ForceResume, At
<1>4. CASE Teletype
  <2>1. CASE pc' = "int10"
    BY <1>4, <2>1 DEF Teletype, history, At
  <2>2. CASE pc' = "post" /\ RbNow.modeset
    BY <1>4, <2>2 DEF Teletype, history, At
  <2>3. CASE ~env.postui
    BY <1>4, <2>3 DEF Teletype
  <2> QED
    BY <1>4, <2>1, <2>2, <2>3 DEF Teletype
<1>5. CASE Sentinel
  BY <1>5, RbNowTwice DEF Sentinel, At
<1>6. CASE Decide
  BY <1>6, RbNowTwice DEF Decide, DecideIf, EnterEasySetup, At
<1>7. CASE SetupTest
  BY <1>7, RbNowSame DEF SetupTest, statics, history, At
<1>8. CASE SetupLoad
  BY <1>8, RbNowSame DEF SetupLoad, SetupLoadWith, EnterEasySetup, At
<1>9. CASE DiskLoad
  BY <1>9, RbNowSame DEF DiskLoad, DiskLoadMarking, At
<1>10. CASE RomDispatch
  BY <1>10, RbNowTwice DEF RomDispatch, At
<1>11. CASE PostPrint
  BY <1>11, RbNowTwice DEF PostPrint, At
<1>12. CASE PostReset
  BY <1>12, RbNowTwice DEF PostReset, history, At
<1>13. CASE PostBoot
  BY <1>13, RbNowTwice DEF PostBoot, history, At
<1>14. CASE Int10Returns
  BY <1>14, RbNowSame DEF Int10Returns, statics, history, At
<1>15. CASE SetupRestart
  BY <1>15, RbNowSame DEF SetupRestart, GuestReset
<1>16. CASE SpuriousReset
  BY <1>16, RbNowSame DEF SpuriousReset, GuestReset, history
<1>17. CASE DriverReset
  BY <1>17, RbNowSame DEF DriverReset, GuestReset, At
<1>18. CASE Reboot
  BY <1>18, RbNowSame DEF Reboot, GuestReset, At
<1>19. CASE User
  BY <1>19, RbNowSame DEF User, KeyPress, guest
<1>20. CASE UNCHANGED vars
  BY <1>20, RbNowSame DEF vars, statics, guest, history
<1>21. CASE PostResetUnseen
  BY <1>21, RbNowSame DEF PostResetUnseen, CpuReset, PromptUncounted, statics, At
<1>22. CASE TeletypeUnseen
  BY <1>22, RbNowSame DEF TeletypeUnseen, statics, history, At
<1> QED
  BY <1>1, <1>2, <1>3, <1>4, <1>5, <1>6, <1>7, <1>8, <1>9, <1>10, <1>11, <1>12, <1>13,
     <1>14, <1>15, <1>16, <1>17, <1>18, <1>19, <1>20, <1>21, <1>22
  DEF Next, Hook, Rom, Guest

\* Every realistic POST that g_reset_count tells from the one before shows its prompt,
\* for any number of resets anywhere in it (pc110post.c:491-537).
THEOREM PromptShownHolds == Spec => []PromptShown
<1>1. Init => Typed /\ PromptKept
  <2>1. Init => FlagsOK
    BY DEF Init, FlagsOK
  <2>2. Init => DataOK /\ Counted
    BY BoundsAssumption DEF Init, DataOK, Counted, Pcs, Sessions, Prompts
  <2>3. Init => PromptKept
    BY DEF Init, PromptKept, RbNow
  <2> QED
    BY <2>1, <2>2, <2>3 DEF Typed, TypeOK
<1>2. PromptKept => PromptShown
  BY DEF PromptKept, PromptShown
<1>3. Typed /\ PromptKept /\ [Next]_vars => Typed' /\ PromptKept'
  BY TypedInductive, PromptKeptInductive
<1> QED
  BY <1>1, <1>2, <1>3, PTL DEF Spec

------------------------------------------------------------------------------------
(* Refinement.                                                                     *)

\* Every step of the boot controller is a step of BootSession or a stutter.
LEMMA StepSimulation ==
    ASSUME SafeInv, [Next]_vars PROVE [Abstract!Next]_Abstract!sessionVars
<1> USE DEF launch, Stage, SetupPcs, PostPcs, SafeInv, SetupNeverOverDos, TagsAfterBoot, PendingFrom,
       Abstract!Next, Abstract!EnterSetup, Abstract!LeaveSetup,
       Abstract!LoadDisk, Abstract!LeaveDos, Abstract!Resume, Abstract!GiveUp,
       Abstract!sessionVars
<1>1. CASE TakeKbcReset
  BY <1>1 DEF TakeKbcReset, KbcResetTo, CpuReset, PromptUncounted
<1>2. CASE WarmReset
  BY <1>2 DEF WarmReset, WarmResetTo, CpuReset, Word72, At
<1>3. CASE ForceResume
  BY <1>3 DEF ForceResume, At
<1>4. CASE Teletype
  BY <1>4 DEF Teletype, history, At
<1>5. CASE Sentinel
  BY <1>5 DEF Sentinel, At
<1>6. CASE Decide
  BY <1>6 DEF Decide, DecideIf, EnterEasySetup, At
<1>7. CASE SetupTest
  BY <1>7 DEF SetupTest, statics, history, At
<1>8. CASE SetupLoad
  BY <1>8 DEF SetupLoad, SetupLoadWith, EnterEasySetup, At
<1>9. CASE DiskLoad
  BY <1>9 DEF DiskLoad, DiskLoadMarking, At
<1>10. CASE RomDispatch
  BY <1>10 DEF RomDispatch, At
<1>11. CASE PostPrint
  BY <1>11 DEF PostPrint, At
<1>12. CASE PostReset
  BY <1>12 DEF PostReset, history, At
<1>13. CASE PostBoot
  BY <1>13 DEF PostBoot, history, At
<1>14. CASE Int10Returns
  BY <1>14 DEF Int10Returns, statics, history, At
<1>15. CASE SetupRestart
  BY <1>15 DEF SetupRestart, GuestReset
<1>16. CASE SpuriousReset
  BY <1>16 DEF SpuriousReset, GuestReset, history
<1>17. CASE DriverReset
  BY <1>17 DEF DriverReset, GuestReset, At
<1>18. CASE Reboot
  BY <1>18 DEF Reboot, GuestReset, At
<1>19. CASE User
  BY <1>19 DEF User, KeyPress, guest
<1>20. CASE UNCHANGED vars
  BY <1>20 DEF vars, launch, statics, guest, history
<1>21. CASE PostResetUnseen
  BY <1>21 DEF PostResetUnseen, CpuReset, PromptUncounted, statics, At
<1>22. CASE TeletypeUnseen
  BY <1>22 DEF TeletypeUnseen, statics, history, At
<1> QED
  BY <1>1, <1>2, <1>3, <1>4, <1>5, <1>6, <1>7, <1>8, <1>9, <1>10, <1>11, <1>12, <1>13,
     <1>14, <1>15, <1>16, <1>17, <1>18, <1>19, <1>20, <1>21, <1>22
  DEF Next, Hook, Rom, Guest

\* The hook keeps the promise of BootSession: one load of the disk, Easy-Setup only
\* before it, and every reset back to DOS or to the POST.
THEOREM Refinement == Spec => ImplementsBootSession
<1>1. Init => Abstract!Init
  BY DEF Init, Abstract!Init, Stage, SetupPcs
<1>2. SafeInv /\ [Next]_vars => [Abstract!Next]_Abstract!sessionVars
  BY StepSimulation
<1> QED
  BY <1>1, <1>2, SafeInvariant, PTL DEF Spec, ImplementsBootSession, Abstract!Spec

------------------------------------------------------------------------------------
(* Restart.  CanGoOn, which TLC checks, says that a step is possible: whether an    *)
(* action is enabled is the one thing the prover cannot tell.                       *)

\* As run-easysetup-realbios.sh starts QEMU, with a disk.
Launched == env.setup /\ ~env.postui /\ env.disk

\* A session has been entered once, its user has pressed a key before the Restart, and from
\* the Restart on nothing leads back into it.
RestartKept == Launched =>
    /\ session # "none" => entered /\ ~booted
    /\ session \in {"touched", "restarting"} => keyPressed
    /\ session = "restarting" =>
          /\ pc \notin {"setupLoad", "rom19", "dos"}
          /\ pc \in SetupPcs => kbcPending

\* No step brings a restarting machine back to Easy-Setup or lets it forget the key.
LEMMA RestartKeptInductive ==
    ASSUME SafeInv, RestartKept, [Next]_vars PROVE RestartKept'
<1> USE DEF launch, RestartKept, Launched, SetupPcs
<1>0. TagsAfterBoot /\ DosLoaded /\ (pc = "setupLoad" => ~booted)
  BY DEF SafeInv, SetupNeverOverDos
<1>1. CASE TakeKbcReset
  BY <1>1 DEF TakeKbcReset, KbcResetTo, CpuReset, PromptUncounted
<1>2. CASE WarmReset
  BY <1>2 DEF WarmReset, WarmResetTo, CpuReset, Word72, At
<1>3. CASE ForceResume
  BY <1>3 DEF ForceResume, At
<1>4. CASE Teletype
  BY <1>4 DEF Teletype, history, At
<1>5. CASE Sentinel
  BY <1>5 DEF Sentinel, At
<1>6. CASE Decide
  BY <1>6 DEF Decide, DecideIf, EnterEasySetup, At
<1>7. CASE SetupTest
  BY <1>7 DEF SetupTest, statics, history, At
<1>8. CASE SetupLoad
  BY <1>8, <1>0 DEF SetupLoad, SetupLoadWith, EnterEasySetup, At
<1>9. CASE DiskLoad
  BY <1>9 DEF DiskLoad, DiskLoadMarking, At
<1>10. CASE RomDispatch
  BY <1>10, <1>0 DEF RomDispatch, At, TagsAfterBoot
<1>11. CASE PostPrint
  BY <1>11 DEF PostPrint, At
<1>12. CASE PostReset
  BY <1>12 DEF PostReset, history, At
<1>13. CASE PostBoot
  BY <1>13 DEF PostBoot, history, At
<1>14. CASE Int10Returns
  BY <1>14 DEF Int10Returns, statics, history, At
<1>15. CASE SetupRestart
  BY <1>15 DEF SetupRestart, GuestReset
<1>16. CASE SpuriousReset
  BY <1>16 DEF SpuriousReset, GuestReset, history
<1>17. CASE DriverReset
  BY <1>17, <1>0 DEF DriverReset, GuestReset, At, DosLoaded
<1>18. CASE Reboot
  BY <1>18, <1>0 DEF Reboot, GuestReset, At, DosLoaded
<1>19. CASE User
  BY <1>19 DEF User, KeyPress, guest
<1>20. CASE UNCHANGED vars
  BY <1>20 DEF vars, launch, statics, guest, history
<1>21. CASE PostResetUnseen
  BY <1>21 DEF PostResetUnseen, CpuReset, PromptUncounted, statics, At
<1>22. CASE TeletypeUnseen
  BY <1>22 DEF TeletypeUnseen, statics, history, At
<1> QED
  BY <1>1, <1>2, <1>3, <1>4, <1>5, <1>6, <1>7, <1>8, <1>9, <1>10, <1>11, <1>12, <1>13,
     <1>14, <1>15, <1>16, <1>17, <1>18, <1>19, <1>20, <1>21, <1>22
  DEF Next, Hook, Rom, Guest

\* Between a Restart and the disk.
OnTheWay ==
    /\ Launched /\ entered /\ keyPressed /\ ~booted
    /\ pc \notin {"setupLoad", "rom19", "dos"}
    /\ pc \in SetupPcs => kbcPending

Leaving == SetupPcs \cup {"fe5516"}

\* Where one step of the hook or of the ROM leads on the way.
Ahead ==
    \/ pc \in Leaving /\ pc' = "entry"
    \/ pc = "entry" /\ pc' = "post"
    \/ pc = "post" /\ pc' \in {"teletype", "fe5516", "entry", "int19"}
    \/ pc = "teletype" /\ pc' = "post"
    \/ pc = "int19" /\ pc' = "setupTest"
    \/ pc = "setupTest" /\ pc' = "diskLoad"
    \/ pc = "diskLoad" /\ pc' = "dos"

\* On the way every step of the hook or of the ROM is one towards the decision or takes the
\* POST back to one of its earlier stages; nothing else moves the CPU.
LEMMA WayStep ==
    ASSUME SafeInv, OnTheWay, [Next]_vars
    PROVE  \/ OnTheWay' /\ pc' = pc /\ ~(Hook \/ Rom)
           \/ Ahead /\ (OnTheWay' \/ pc' = "dos")
<1> USE DEF launch, OnTheWay, Launched, Leaving, SetupPcs, Ahead
<1>0. /\ cmos0F # 9 /\ warm72 # "4321" /\ pc \notin {"int10", "sentinel"}
      /\ kbcPending => pc \in SetupPcs
  BY DEF SafeInv, TagsAfterBoot, UiPcs, PendingFrom
<1>1. CASE TakeKbcReset
  BY <1>1, <1>0 DEF TakeKbcReset, KbcResetTo, CpuReset, PromptUncounted
<1>2. CASE WarmReset
  BY <1>2, <1>0 DEF WarmReset, WarmResetTo, CpuReset, Word72, At
<1>3. CASE ForceResume
  BY <1>3 DEF ForceResume, At
<1>4. CASE Teletype
  BY <1>4 DEF Teletype, history, At
<1>5. CASE Sentinel
  BY <1>5, <1>0 DEF Sentinel, At
<1>6. CASE Decide
  BY <1>6 DEF Decide, DecideIf, EnterEasySetup, At
<1>7. CASE SetupTest
  BY <1>7 DEF SetupTest, statics, history, At
<1>8. CASE SetupLoad
  BY <1>8, <1>0 DEF SetupLoad, SetupLoadWith, EnterEasySetup, At
<1>9. CASE DiskLoad
  BY <1>9 DEF DiskLoad, DiskLoadMarking, At
<1>10. CASE RomDispatch
  BY <1>10, <1>0 DEF RomDispatch, At
<1>11. CASE PostPrint
  BY <1>11 DEF PostPrint, At
<1>12. CASE PostReset
  BY <1>12 DEF PostReset, statics, history, At
<1>13. CASE PostBoot
  BY <1>13 DEF PostBoot, history, At
<1>14. CASE Int10Returns
  BY <1>14, <1>0 DEF Int10Returns, statics, history, At
<1>15. CASE SetupRestart
  BY <1>15 DEF SetupRestart, GuestReset
<1>16. CASE SpuriousReset
  BY <1>16 DEF SpuriousReset, GuestReset, history
<1>17. CASE DriverReset
  BY <1>17, <1>0 DEF DriverReset, GuestReset, At
<1>18. CASE Reboot
  BY <1>18, <1>0 DEF Reboot, GuestReset, At
<1>21. CASE PostResetUnseen
  BY <1>21 DEF PostResetUnseen, CpuReset, PromptUncounted, statics, At
<1>22. CASE TeletypeUnseen
  BY <1>22 DEF TeletypeUnseen, statics, history, At
<1>19. CASE ~(Hook \/ Rom) /\ User
  BY <1>19 DEF User, KeyPress, guest
<1>20. CASE ~(Hook \/ Rom) /\ UNCHANGED vars
  BY <1>20 DEF vars, launch, statics, guest, history
<1> QED
  BY <1>1, <1>2, <1>3, <1>4, <1>5, <1>6, <1>7, <1>8, <1>9, <1>10, <1>11, <1>12, <1>13,
     <1>14, <1>15, <1>16, <1>17, <1>18, <1>19, <1>20, <1>21, <1>22
  DEF Next, Hook, Rom, Guest

WayInv == TypeOK /\ SafeInv /\ RestartKept

\* The invariants of the way.
LEMMA WayInvariance == Spec => []WayInv
<1>1. Init => RestartKept BY DEF Init, RestartKept
<1>2. SafeInv /\ RestartKept /\ [Next]_vars => RestartKept'
  BY RestartKeptInductive
<1> QED BY <1>1, <1>2, TypeCorrect, SafeInvariant, PTL DEF Spec, WayInv

Way(p) == OnTheWay /\ pc = p
Gone   == OnTheWay /\ pc \in Leaving

\* Where the hook and the ROM are never stuck, every Restart gets to the disk boot, for any
\* number of resets and characters of the POST in between: each of them comes back to the
\* POST, whose boot strong fairness takes at last (pc110post.c:853-858, 893-976).
THEOREM RestartLeads == FairSpec /\ []CanGoOn => RestartReachesDisk
<1> DEFINE Go   == Hook \/ Rom
           Can  == OnTheWay => MayRun
           CanP == Way("post") => MayBoot
<1>1. WayInv /\ CanGoOn => Can /\ CanP
  BY DEF WayInv, SafeInv, PendingFrom, CanGoOn, OnTheWay, Way, At, SetupPcs
<1>2. /\ WayInv /\ Gone /\ [Next]_vars => Gone' \/ Way("entry")'
      /\ WayInv /\ Gone /\ <<Next /\ Go>>_vars => Way("entry")'
  BY WayStep DEF WayInv, Gone, Way, Ahead, Leaving, SetupPcs
<1>3. /\ WayInv /\ Way("entry") /\ [Next]_vars => Way("entry")' \/ Way("post")'
      /\ WayInv /\ Way("entry") /\ <<Next /\ Go>>_vars => Way("post")'
  BY WayStep DEF WayInv, Way, Ahead, Leaving, SetupPcs
<1>4. /\ WayInv /\ Way("teletype") /\ [Next]_vars => Way("teletype")' \/ Way("post")'
      /\ WayInv /\ Way("teletype") /\ <<Next /\ Go>>_vars => Way("post")'
  BY WayStep DEF WayInv, Way, Ahead, Leaving, SetupPcs
<1>5. /\ WayInv /\ Way("post") /\ [Next]_vars =>
            Way("post")' \/ Way("teletype")' \/ Gone' \/ Way("entry")' \/ Way("int19")'
      /\ WayInv /\ Way("post") /\ <<Next /\ PostBoot>>_vars => Way("int19")'
  BY WayStep DEF WayInv, Way, Gone, Ahead, Leaving, SetupPcs, PostBoot
<1>6. /\ WayInv /\ Way("int19") /\ [Next]_vars => Way("int19")' \/ Way("setupTest")'
      /\ WayInv /\ Way("int19") /\ <<Next /\ Go>>_vars => Way("setupTest")'
  BY WayStep DEF WayInv, Way, Ahead, Leaving, SetupPcs
<1>7. /\ WayInv /\ Way("setupTest") /\ [Next]_vars => Way("setupTest")' \/ Way("diskLoad")'
      /\ WayInv /\ Way("setupTest") /\ <<Next /\ Go>>_vars => Way("diskLoad")'
  BY WayStep DEF WayInv, Way, Ahead, Leaving, SetupPcs
<1>8. /\ WayInv /\ Way("diskLoad") /\ [Next]_vars => Way("diskLoad")' \/ (pc = "dos")'
      /\ WayInv /\ Way("diskLoad") /\ <<Next /\ Go>>_vars => (pc = "dos")'
  BY WayStep DEF WayInv, Way, Ahead, Leaving, SetupPcs
<1>9. FairSpec => [][Next]_vars /\ []WayInv /\ WF_vars(Go) /\ SF_vars(PostBoot)
  BY WayInvariance, PTL DEF FairSpec, Spec, Go
<1>10. /\ Gone \/ Way("entry") \/ Way("teletype") \/ Way("post") \/ Way("int19")
            \/ Way("setupTest") \/ Way("diskLoad") => OnTheWay
  BY DEF Gone, Way
<1>11. OnTheWay /\ PostBoot => Way("post")
  BY DEF PostBoot, At, Way
<1>12. FairSpec /\ []CanGoOn => (Gone ~> Way("entry"))
  BY <1>1, <1>2, <1>9, <1>10, PTL DEF MayRun
<1>13. FairSpec /\ []CanGoOn => (Way("entry") ~> Way("post"))
  BY <1>1, <1>3, <1>9, <1>10, PTL DEF MayRun
<1>14. FairSpec /\ []CanGoOn => (Way("teletype") ~> Way("post"))
  BY <1>1, <1>4, <1>9, <1>10, PTL DEF MayRun
<1>15. FairSpec /\ []CanGoOn => (Way("post") ~> Way("int19"))
  BY <1>1, <1>2, <1>3, <1>4, <1>5, <1>9, <1>10, <1>11, <1>12, <1>13, <1>14, PTL DEF MayBoot
<1>16. FairSpec /\ []CanGoOn => (Way("int19") ~> Way("setupTest"))
  BY <1>1, <1>6, <1>9, <1>10, PTL DEF MayRun
<1>17. FairSpec /\ []CanGoOn => (Way("setupTest") ~> Way("diskLoad"))
  BY <1>1, <1>7, <1>9, <1>10, PTL DEF MayRun
<1>18. FairSpec /\ []CanGoOn => (Way("diskLoad") ~> (pc = "dos"))
  BY <1>1, <1>8, <1>9, <1>10, PTL DEF MayRun
<1>19. FairSpec /\ []CanGoOn => (Way("int19") ~> (pc = "dos"))
  BY <1>16, <1>17, <1>18, PTL
<1>20. FairSpec /\ []CanGoOn => (Way("post") ~> (pc = "dos"))
  BY <1>15, <1>19, PTL
<1>21. WayInv /\ session = "restarting" /\ env.setup /\ ~env.postui /\ env.disk =>
            Gone \/ Way("entry") \/ Way("teletype") \/ Way("post") \/ Way("int19")
                \/ Way("setupTest") \/ Way("diskLoad")
  BY DEF WayInv, TypeOK, DataOK, Pcs, PostPcs, HookPcs, SafeInv, UiPcs, RestartKept, Launched,
         Gone, Way, OnTheWay, Leaving, SetupPcs
<1> QED
  BY <1>9, <1>12, <1>13, <1>14, <1>17, <1>18, <1>19, <1>20, <1>21, PTL
  DEF RestartReachesDisk

------------------------------------------------------------------------------------
(* The machine: the POST completer over the chipset's memory windows.              *)

\* Where the overlay's three regions answer.
LEMMA Decoding == /\ Decoded("C") = "crom"
                  /\ Decoded("E") = "eram"
                  /\ Decoded("W") = "window"
<1> USE DEF Decoded, Regions, Covers, Cells, Priority
<1>1. Decoded("C") = "crom"
  <2> DEFINE Best(r) == /\ r \in Regions /\ "C" \in Covers[r]
                        /\ \A q \in Regions : "C" \in Covers[q] => Priority[q] <= Priority[r]
  <2>1. Best("crom")
    OBVIOUS
  <2>2. \A r : Best(r) => r = "crom"
    OBVIOUS
  <2> QED BY <2>1, <2>2
<1>2. Decoded("E") = "eram"
  <2> DEFINE Best(r) == /\ r \in Regions /\ "E" \in Covers[r]
                        /\ \A q \in Regions : "E" \in Covers[q] => Priority[q] <= Priority[r]
  <2>1. Best("eram")
    OBVIOUS
  <2>2. \A r : Best(r) => r = "eram"
    OBVIOUS
  <2> QED BY <2>1, <2>2
<1>3. Decoded("W") = "window"
  <2> DEFINE Best(r) == /\ r \in Regions /\ "W" \in Covers[r]
                        /\ \A q \in Regions : "W" \in Covers[q] => Priority[q] <= Priority[r]
  <2>1. Best("window")
    OBVIOUS
  <2>2. \A r : Best(r) => r = "window"
    OBVIOUS
  <2> QED BY <2>1, <2>2
<1> QED BY <1>1, <1>2, <1>3

\* The boot flag is never taken back (nothing in pc110post.c clears it).
LEMMA BootedStays == ASSUME [Next]_vars, booted PROVE booted'
<1>1. CASE Hook
  BY <1>1 DEF Hook, TakeKbcReset, KbcResetTo, WarmReset, WarmResetTo, ForceResume,
              Teletype, Sentinel, Decide, DecideIf, SetupTest, statics, SetupLoad,
              SetupLoadWith, DiskLoad, DiskLoadMarking
<1>2. CASE Rom
  BY <1>2 DEF Rom, RomDispatch, PostPrint, PostReset, PostBoot, Int10Returns, statics,
              PostResetUnseen, TeletypeUnseen
<1>3. CASE Guest
  BY <1>3 DEF Guest, SetupRestart, SpuriousReset, DriverReset, Reboot
<1>4. CASE User
  BY <1>4 DEF User, KeyPress
<1>5. CASE UNCHANGED vars
  BY <1>5 DEF vars, statics
<1> QED BY <1>1, <1>2, <1>3, <1>4, <1>5 DEF Next

\* The VGA BIOS copy and, before the boot, the E segment are the patched image's.
RomKept == /\ crom["C"] = Patched(patches)["E"]
           /\ ~booted => eram = Patched(patches)["E"]

\* Realization copies the VGA BIOS after the patches and lays the image out.
LEMMA RomKeptInit == MachineInit => RomKept
<1> SUFFICES ASSUME NEW list \in Patches, RealizeWith(list) PROVE RomKept
  BY DEF MachineInit, MemInit
<1>1. patches = list
  BY DEF RealizeWith, Layout
<1> DEFINE img == Patched(list)
<1>2. img = [c \in Cells |-> img[c]]
  BY DEF Patched
<1>3. VgaCopied(img)["C"] = img["E"] /\ VgaCopied(img)["E"] = img["E"]
  <2> HIDE DEF img
  <2> QED BY <1>2 DEF VgaCopied, Cells
<1>4. crom["C"] = VgaCopied(img)["C"] /\ eram = VgaCopied(img)["E"]
  <2> HIDE DEF img
  <2>1. crom = [c \in {"C", "D", "W"} |-> VgaCopied(img)[c]] /\ eram = VgaCopied(img)["E"]
    BY DEF RealizeWith, Layout, img
  <2> QED BY <2>1
<1> QED BY <1>1, <1>3, <1>4 DEF RomKept

\* Nothing writes C0000-DFFFF, and nothing writes E0000 before the boot.
LEMMA RomKeptInductive ==
    ASSUME RomKept, [MachineNext]_<<vars, memVars>> PROVE RomKept'
<1>1. CASE BootStep
  <2>1. UNCHANGED <<crom, patches, eram>> /\ [Next]_vars
    BY <1>1 DEF BootStep, memVars, romImage
  <2> QED BY <2>1, BootedStays DEF RomKept, Patched
<1>2. CASE GuestWrites
  <2> PICK c \in Cells, v \in Probes : WriteCell(c, v, booted)
    BY <1>2 DEF GuestWrites
  <2>1. UNCHANGED <<crom, patches, booted>>
    BY <1>2 DEF GuestWrites, WriteCell, StoreCell, vars, statics
  <2>2. ~booted => eram' = eram
    BY DEF WriteCell, StoreCell, EramWrite
  <2> QED BY <2>1, <2>2 DEF RomKept, Patched
<1>3. CASE DosLooksForFonts
  <2>1. UNCHANGED <<crom, patches, booted>>
    BY <1>3 DEF DosLooksForFonts, FontSys, ProbeEnable, ProbeToggle, ProbeSelect,
                ProbeVerify, FontUse, ProbeWrite, StoreCell, romImage, vars, statics
  <2>2. ~booted => eram' = eram
    BY <1>3 DEF DosLooksForFonts, FontSys, ProbeEnable, ProbeToggle, ProbeSelect,
                ProbeVerify, FontUse, ProbeWrite, StoreCell, EramWrite
  <2> QED BY <2>1, <2>2 DEF RomKept, Patched
<1>4. CASE UNCHANGED <<vars, memVars>>
  BY <1>4 DEF RomKept, Patched, vars, statics, memVars, romImage
<1> QED BY <1>1, <1>2, <1>3, <1>4 DEF MachineNext

\* The composition adds no step to the boot controller.
LEMMA MachineIsBoot == MachineSpec => Spec
<1>1. MachineInit => Init
  BY DEF MachineInit
<1>2. [MachineNext]_<<vars, memVars>> => [Next]_vars
  BY DEF MachineNext, BootStep, GuestWrites, DosLooksForFonts
<1> QED BY <1>1, <1>2, PTL DEF MachineSpec, Spec

\* RomKept holds in every state.
LEMMA RomKeptInvariant == MachineSpec => []RomKept
<1> QED BY RomKeptInit, RomKeptInductive, PTL DEF MachineSpec

------------------------------------------------------------------------------------
\* Until the boot the guest sees the ROM at E0000 (eram_write), for every image patch
\* and every write.
THEOREM RomUntilBootHolds == MachineSpec => []RomUntilBoot
<1>1. RomKept => RomUntilBoot
  BY Decoding DEF RomKept, RomUntilBoot, View
<1> QED BY <1>1, RomKeptInvariant, PTL

\* Easy-Setup never runs over an E segment DOS has written: from the chipset's gate
\* and the hook's refusal to enter Easy-Setup after the boot.
THEOREM SetupSeesRomHolds == MachineSpec => []SetupSeesRom
<1>1. SafeInv /\ RomKept => SetupSeesRom
  BY Decoding DEF SafeInv, SetupNeverOverDos, RomKept, SetupSeesRom, View
<1> QED BY <1>1, MachineIsBoot, SafeInvariant, RomKeptInvariant, PTL

\* The POST's far call to C000:0003 always reaches the patched VGA BIOS.
THEOREM VgaBiosHolds == MachineSpec => []VgaBiosAtC000
<1>1. RomKept => VgaBiosAtC000
  BY Decoding DEF RomKept, VgaBiosAtC000, View
<1> QED BY <1>1, RomKeptInvariant, PTL

------------------------------------------------------------------------------------
(* Types and the search for the font ROM.                                          *)

\* A patch list that touches a cell has a last patch that does.
LEMMA LastPatch ==
    ASSUME NEW n \in Nat, NEW S \in SUBSET (1..n), S # {}
    PROVE  \E i \in S : \A j \in S : j <= i
<1> DEFINE T == {m \in Nat : \E i \in S : m = n - i}
<1>1. T \subseteq Nat /\ T # {}
  <2>1. PICK i \in S : TRUE
    OBVIOUS
  <2>2. n - i \in Nat
    OBVIOUS
  <2> QED BY <2>1, <2>2
<1>2. PICK m \in T : \A k \in T : ~ (<<k, m>> \in OpToRel(<, Nat))
  <2> HIDE DEF T
  <2> QED BY <1>1, NatLessThanWellFounded, WFMin
<1>3. \A k \in T : ~(k < m)
  BY <1>1, <1>2 DEF OpToRel
<1>4. PICK i \in S : m = n - i
  BY <1>2
<1>5. ASSUME NEW j \in S PROVE j <= i
  <2>1. n - j \in T
    OBVIOUS
  <2> QED BY <1>3, <1>4, <2>1
<1> QED BY <1>5

\* A patched image is one byte for each cell.
LEMMA PatchedType == ASSUME NEW list \in Patches PROVE Patched(list) \in [Cells -> Bytes]
<1>1. list \in Seq(Cells \X Bytes)
  BY PatchesAssumption
<1> SUFFICES ASSUME NEW c \in Cells PROVE Patched(list)[c] \in Bytes
  BY DEF Patched
<1> DEFINE hits == {i \in DOMAIN list : list[i][1] = c}
           latest == CHOOSE i \in hits : \A j \in hits : j <= i
<1>2. Patched(list)[c] = IF hits = {} THEN c ELSE list[latest][2]
  BY DEF Patched
<1>3. CASE hits = {}
  BY <1>2, <1>3, PatchesAssumption
<1>4. CASE hits # {}
  <2>1. hits \in SUBSET (1..Len(list)) /\ Len(list) \in Nat
    BY <1>1
  <2>2. \E i \in hits : \A j \in hits : j <= i
    <3> HIDE DEF hits
    <3> QED BY <1>4, <2>1, LastPatch
  <2>3. latest \in hits
    <3> HIDE DEF hits
    <3> QED BY <2>2
  <2>4. latest \in DOMAIN list
    BY <2>3
  <2>5. list[latest][2] \in Bytes
    <3> HIDE DEF latest
    <3> QED BY <1>1, <2>4
  <2> QED BY <1>2, <1>4, <2>5
<1> QED BY <1>3, <1>4

\* The layout of any patched image holds bytes, and the device starts with cleared
\* registers.
LEMMA MemTypeInit == MachineInit => MemTypeOK
<1> SUFFICES ASSUME NEW list \in Patches, RealizeWith(list), bank = 0, enable = 0,
                    scratch = 0, probe = "start"
             PROVE  MemTypeOK
  BY DEF MachineInit, MemInit
<1> DEFINE img == Patched(list)
<1>1. img \in [Cells -> Bytes]
  BY PatchedType
<1>2. VgaCopied(img) \in [Cells -> Bytes]
  <2> HIDE DEF img
  <2> QED BY <1>1 DEF VgaCopied, Cells
<1>3. /\ crom = [c \in {"C", "D", "W"} |-> VgaCopied(img)[c]]
      /\ eram = VgaCopied(img)["E"] /\ fram = VgaCopied(img)["F"]
      /\ patches = list
  BY DEF RealizeWith, Layout
<1>4. crom \in [{"C", "D", "W"} -> Bytes] /\ eram \in Bytes /\ fram \in Bytes
  <2> HIDE DEF img
  <2> QED BY <1>2, <1>3 DEF Cells
<1> QED BY <1>3, <1>4, BanksAssumption DEF MemTypeOK, ProbeSteps

\* A write stores a byte or nothing.
LEMMA StoreType ==
    ASSUME MemTypeOK, NEW c \in Cells, NEW v \in Probes, StoreCell(c, v, booted)
    PROVE  eram' \in Bytes /\ fram' \in Bytes /\ crom' = crom
BY ProbesAssumption DEF StoreCell, EramWrite, MemTypeOK

\* Every step of the search leaves registers with register values.
LEMMA MemTypeInductive ==
    ASSUME MemTypeOK, [MachineNext]_<<vars, memVars>> PROVE MemTypeOK'
<1>1. CASE BootStep
  BY <1>1 DEF BootStep, memVars, romImage, font, MemTypeOK
<1>2. CASE GuestWrites
  <2> PICK c \in Cells, v \in Probes : WriteCell(c, v, booted)
    BY <1>2 DEF GuestWrites
  <2> QED BY StoreType DEF WriteCell, font, MemTypeOK
<1>3. CASE DosLooksForFonts
  <2> USE DEF MemTypeOK, ProbeSteps
  <2>1. CASE ProbeEnable
    BY <2>1 DEF ProbeEnable, FontEnable, romImage
  <2>2. CASE ProbeToggle
    <3> DEFINE toggled == IF bank % 2 = 0 THEN bank + 1 ELSE bank - 1
    <3>1. toggled \in 0..BankMax
      BY BanksAssumption
    <3>2. bank' = toggled /\ probe' \in {"toggled", "absent"}
          /\ UNCHANGED <<romImage, eram, fram, enable, scratch>>
      <4> HIDE DEF MemTypeOK
      <4> QED BY <2>2 DEF ProbeToggle, FontBank
    <3> HIDE DEF toggled
    <3> QED BY <3>1, <3>2 DEF romImage
  <2>3. CASE ProbeSelect
    BY <2>3, BanksAssumption DEF ProbeSelect, FontBank, romImage
  <2>4. CASE ProbeVerify
    BY <2>4 DEF ProbeVerify, romImage
  <2>5. CASE FontUse
    BY <2>5, BanksAssumption DEF FontUse, FontBank, FontEnable, romImage
  <2>6. ASSUME NEW v \in Probes, ProbeWrite(v, booted) PROVE MemTypeOK'
    <3>1. eram' \in Bytes /\ fram' \in Bytes /\ crom' = crom
      BY <2>6, StoreType DEF ProbeWrite, Cells
    <3>2. UNCHANGED <<patches, bank, enable, scratch>> /\ probe' \in {"found", "absent"}
      BY <2>6 DEF ProbeWrite
    <3> QED BY <3>1, <3>2
  <2> QED BY <1>3, <2>1, <2>2, <2>3, <2>4, <2>5, <2>6 DEF DosLooksForFonts, FontSys
<1>4. CASE UNCHANGED <<vars, memVars>>
  BY <1>4 DEF memVars, romImage, font, MemTypeOK
<1> QED BY <1>1, <1>2, <1>3, <1>4 DEF MachineNext

\* Cells hold bytes and the font ROM's registers register values, for every list of
\* patches and every number of banks (fontrom_io_write, pc110-chipset.c:671-761).
THEOREM MemTypeCorrect == MachineSpec => []MemTypeOK
BY MemTypeInit, MemTypeInductive, PTL DEF MachineSpec

\* The search has bank 0 selected when it looks for the signature and tries to write.
FontKept == /\ probe # "absent"
            /\ probe \in {"selected", "verified"} => bank = 0

\* Bank 0 is the one with the signature, whatever the number of banks.
LEMMA ZeroModBanks == 0 % Banks = 0
BY BanksAssumption

\* No step of the search, nor anything else, changes the bank under it.
LEMMA FontKeptInductive ==
    ASSUME FontKept, [MachineNext]_<<vars, memVars>> PROVE FontKept'
<1> USE DEF FontKept
<1>1. CASE BootStep
  BY <1>1 DEF BootStep, memVars, font
<1>2. CASE GuestWrites
  BY <1>2 DEF GuestWrites, WriteCell, font
<1>3. CASE DosLooksForFonts
  <2>1. CASE ProbeEnable
    BY <2>1 DEF ProbeEnable
  <2>2. CASE ProbeToggle
    BY <2>2 DEF ProbeToggle, FontBank
  <2>3. CASE ProbeSelect
    BY <2>3 DEF ProbeSelect, FontBank
  <2>4. CASE ProbeVerify
    <3>1. bank = 0 /\ bank' = bank /\ probe' = IF View("W") = "AA55" THEN "verified" ELSE "absent"
      BY <2>4 DEF ProbeVerify
    <3>2. View("W") = "AA55"
      BY <3>1, ZeroModBanks, Decoding DEF View, Window
    <3> QED BY <3>1, <3>2
  <2>5. CASE FontUse
    BY <2>5 DEF FontUse
  <2>6. ASSUME NEW v \in Probes, ProbeWrite(v, booted) PROVE FontKept'
    <3>1. bank' = bank
      BY <2>6 DEF ProbeWrite
    <3>2. View("W")' = View("W")
      BY <3>1, Decoding DEF View, Window, Decoded
    <3> QED BY <2>6, <3>1, <3>2 DEF ProbeWrite
  <2> QED BY <1>3, <2>1, <2>2, <2>3, <2>4, <2>5, <2>6 DEF DosLooksForFonts, FontSys
<1>4. CASE UNCHANGED <<vars, memVars>>
  BY <1>4 DEF memVars, font
<1> QED BY <1>1, <1>2, <1>3, <1>4 DEF MachineNext

\* $FONT.SYS finds the font ROM with any number of banks and whatever an earlier DOS
\* left in its registers (pc110-fontrom.c:87-111, 160-168).
THEOREM FontRomFoundHolds == MachineSpec => []FontRomFound
<1>1. MachineInit => FontKept
  BY DEF MachineInit, MemInit, FontKept
<1>2. FontKept => FontRomFound
  BY DEF FontKept, FontRomFound
<1> QED BY <1>1, <1>2, FontKeptInductive, PTL DEF MachineSpec
====================================================================================
