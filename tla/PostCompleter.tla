------------------------------- MODULE PostCompleter -------------------------------
(* The boot controller of the POST completer (qemu/target-i386/pc110post.c): the   *)
(* hook cpu_exec_loop() calls before every translation block, the flags it shares  *)
(* with the keyboard (ps2.c, main-loop thread) and with the keyboard controller    *)
(* (pckbd.c), and the guest state that its decisions read: where the CPU is, the   *)
(* BDA warm-boot word 40:72 and the CMOS shutdown byte 0Fh.                        *)
(*                                                                                 *)
(* The hook runs without the big lock, so a key may arrive between any two of its  *)
(* steps; F000:52BD is therefore several actions.  The genuine ROM, Easy-Setup and *)
(* the DOS driver are not in the repository: they appear as the guest steps the    *)
(* hook's comments describe.                                                       *)
EXTENDS Integers, LaunchScripts

CONSTANTS
    Envs,         \* environments QEMU may be started in
    BeepTicks,    \* teletype characters after which the power-on beep stops
    MaxChars,     \* bound: characters one POST prints
    MaxResets,    \* bound: resets taken through F000:5516
    Exits         \* how Easy-Setup and DOS reset the machine: sets of ResetKinds

\* A guest resets through the ROM's own F000:5516, with an OUT 64,FE of its own, or
\* not at all, calling INT 19h.
ResetKinds == {"rom", "port", "int19"}

ASSUME EnvsAssumption   == Envs \subseteq QemuEnvs
ASSUME BoundsAssumption == /\ BeepTicks \in Nat \ {0}
                           /\ MaxChars \in Nat
                           /\ MaxResets \in Nat
ASSUME ExitsAssumption  == Exits \subseteq SUBSET ResetKinds

VARIABLES
    env,          \* the switches and files, fixed at launch
    exits,        \* one of Exits, for good
    booted,       \* pc110_booted
    keyPressed,   \* pc110_key_pressed
    kbcPending,   \* pc110_kbc_reset_pending
    resetCount,   \* g_reset_count
    entered,      \* the static of the PC110SETUP branch
    rb,           \* rb_gen, rb_modeset, rb_ticks
    pc,           \* where the guest CPU is, or which step of the hook runs
    warm72,       \* the word at 40:72
    cmos0F,       \* the CMOS shutdown code
    tone,         \* port 61h drives the speaker
    cached,       \* hooked addresses the guest may get to without the hook
    chars,        \* history: characters this POST has printed
    prompt,       \* history: what became of this POST's F1 prompt, see Prompts
    f1,           \* history: a POST got an F1 that Easy-Setup has not honoured yet
    session,      \* history: the latest Easy-Setup session, see Sessions
    resumeDue     \* history: the continuation the driver asked its reset for

launch    == <<env, exits>>
statics   == <<booted, keyPressed, kbcPending, resetCount, entered, rb>>
guest     == <<pc, warm72, cmos0F, tone>>
history   == <<chars, prompt, f1, session, resumeDue>>
vars      == <<launch, statics, guest, cached, history>>

\* Guest and hook locations.
PostPcs   == {"post",      \* the ROM's POST between two hooked addresses
              "teletype",  \* F000:542C
              "int10",     \* the injected INT 10h AX=0003
              "sentinel"}  \* F000:FF00, where the injected call returns
HookPcs   == {"fe5516",    \* F000:5516
              "int19",     \* F000:52BD, first test
              "setupTest", \* its PC110SETUP branch, reading the key flag
              "setupLoad", \* clearing the flag and loading the image
              "diskLoad"}  \* reading the boot sector
SetupPcs  == {"setup", "romSetup"}
Pcs       == {"entry", "dos", "rom19"} \cup PostPcs \cup HookPcs \cup SetupPcs

\* "idle": nobody touched Easy-Setup since it was entered; "restarting": its user
\* chose Restart.
Sessions  == {"none", "idle", "touched", "restarting"}

\* A POST owes its prompt until it has shown it; "missed": its first character went
\* past the hook; "uncounted": the reset before it was not counted, so that to the
\* hook it goes on with a POST that has shown its prompt.
Prompts   == {"due", "shown", "missed", "uncounted"}

FlagsOK ==
    /\ booted \in BOOLEAN /\ keyPressed \in BOOLEAN /\ kbcPending \in BOOLEAN
    /\ entered \in BOOLEAN /\ tone \in BOOLEAN /\ f1 \in BOOLEAN

DataOK ==
    /\ env \in Envs /\ exits \in Exits
    /\ resetCount \in 0..MaxResets
    /\ rb \in [gen: -1..MaxResets, modeset: BOOLEAN, ticks: 0..BeepTicks]
    /\ pc \in Pcs
    /\ warm72 \in {"0000", "1234", "4321"}
    /\ cmos0F \in {0, 9}
    /\ cached \subseteq {"entry", "teletype", "fe5516"}
    /\ chars \in 0..MaxChars
    /\ prompt \in Prompts
    /\ session \in Sessions
    /\ resumeDue \in {"none", "code", "magic"}

\* Flags are flags, counters stay within their bounds, locations are known ones.
TypeOK == FlagsOK /\ DataOK

------------------------------------------------------------------------------------
\* Power-on.
Init ==
    /\ env \in Envs /\ exits \in Exits /\ cached = {}
    /\ booted = FALSE /\ keyPressed = FALSE /\ kbcPending = FALSE
    /\ resetCount = 0
    /\ entered = FALSE
    /\ rb = [gen |-> -1, modeset |-> FALSE, ticks |-> 0]
    /\ pc = "entry" /\ warm72 = "0000" /\ cmos0F = 0 /\ tone = FALSE
    /\ chars = 0 /\ prompt = "due" /\ f1 = FALSE
    /\ session = "none" /\ resumeDue = "none"

\* The CPU runs at p; a pending keyboard-controller reset goes before everything.
At(p) == pc = p /\ ~kbcPending

\* What every F-segment block does first when PC110POSTUI is set.
RbNow == IF env.postui /\ rb.gen # resetCount
         THEN [gen |-> resetCount, modeset |-> FALSE, ticks |-> 0]
         ELSE rb

\* cpu_reset(): the CPU restarts, RAM, CMOS, ports and the hook's statics stay.
CpuReset == pc' = "entry" /\ chars' = 0

\* The prompt after a reset that g_reset_count does not count.
PromptUncounted == IF prompt \in {"due", "missed"} THEN "due" ELSE "uncounted"

------------------------------------------------------------------------------------
(* The keyboard: ps2_put_keycode() on the main-loop thread, at any moment.         *)

DeciderPcs == {"setupTest", "setupLoad", "diskLoad"}

KeyPress(key) ==
    /\ keyPressed' = TRUE
    /\ f1' = (f1 \/ (key = "F1" /\ pc \notin DeciderPcs \cup SetupPcs))
    /\ session' = IF \/ session = "idle"
                     \/ session = "restarting" /\ pc \notin SetupPcs
                  THEN "touched" ELSE session
    /\ UNCHANGED <<launch, cached, booted, kbcPending, resetCount, entered, rb, guest,
                   chars, prompt, resumeDue>>

------------------------------------------------------------------------------------
(* Resets.                                                                         *)

KbcResetTo(code) ==
    /\ kbcPending /\ kbcPending' = FALSE
    /\ warm72' = "1234" /\ cmos0F' = code
    /\ CpuReset /\ prompt' = PromptUncounted
    /\ UNCHANGED <<launch, cached, booted, keyPressed, resetCount, entered, rb, tone,
                   f1, session, resumeDue>>

\* variant: a full machine reset, which loses the CMOS
TakeKbcReset_FullMachine == KbcResetTo(0)

\* The pending OUT 64,FE of any code, consumed at the next block boundary.
TakeKbcReset == KbcResetTo(cmos0F)

WarmResetTo(word, count, key) ==
    /\ At("fe5516")
    /\ rb' = RbNow
    /\ warm72' = word /\ resetCount' = count /\ keyPressed' = key
    /\ CpuReset /\ prompt' = "due"
    /\ UNCHANGED <<launch, cached, booted, kbcPending, entered, cmos0F, tone,
                   f1, session, resumeDue>>

\* Before the boot the ROM wants the AT word, after it the driver's own.
Word72 == IF booted THEN warm72 ELSE "1234"

\* variants: the word always seeded, the reset not counted, counted twice, the key lost
WarmReset_AlwaysSeeds  == WarmResetTo("1234", resetCount + 1, keyPressed)
WarmReset_NotCounted   == WarmResetTo(Word72, resetCount, keyPressed)
WarmReset_CountedTwice == WarmResetTo(Word72, resetCount + 2, keyPressed)
WarmReset_ForgetsKey   == WarmResetTo(Word72, resetCount + 1, FALSE)

\* F000:5516.
WarmReset == WarmResetTo(Word72, resetCount + 1, keyPressed)

\* A guest asks for a reset in one of its ways.
GuestReset(kind) ==
    \/ kind = "port" /\ kbcPending' = TRUE /\ UNCHANGED pc
    \/ /\ kind = "rom" /\ resetCount < MaxResets
       /\ pc' = "fe5516" /\ UNCHANGED kbcPending
    \/ kind = "int19" /\ pc' = "int19" /\ UNCHANGED kbcPending

------------------------------------------------------------------------------------
(* The reset entry, F000:4656.                                                     *)

\* PC110RESUME: go to the resume handler without looking at the shutdown code.
ForceResume ==
    /\ At("entry") /\ booted /\ env.resume
    /\ rb' = RbNow
    /\ pc' = "dos"
    /\ resumeDue' = "none"
    /\ UNCHANGED <<launch, cached, booted, keyPressed, kbcPending, resetCount, entered,
                   warm72, cmos0F, tone, chars, prompt, f1, session>>

\* The ROM reads and clears the shutdown code; 09h and the driver's own 4321h
\* resume, everything else POSTs.  The block it is in stays translated.
RomDispatch ==
    /\ At("entry")
    /\ booted /\ env.resume => "entry" \in cached
    /\ cached' = cached \cup {"entry"}
    /\ rb' = RbNow
    /\ cmos0F' = 0
    /\ IF cmos0F = 9 \/ warm72 = "4321"
       THEN pc' = "dos" /\ resumeDue' = "none"
       ELSE pc' = "post" /\ UNCHANGED resumeDue
    /\ UNCHANGED <<launch, booted, keyPressed, kbcPending, resetCount, entered,
                   warm72, tone, chars, prompt, f1, session>>

------------------------------------------------------------------------------------
(* The POST: genuine ROM steps and the realistic-boot hooks in its teletype.       *)

PostPrint ==
    /\ At("post") /\ chars < MaxChars
    /\ pc' = "teletype" /\ chars' = chars + 1
    /\ rb' = RbNow
    /\ UNCHANGED <<launch, cached, booted, keyPressed, kbcPending, resetCount, entered,
                   warm72, cmos0F, tone, prompt, f1, session, resumeDue>>

\* A jump to F000:5516.  One of the five that the ROM has is in the page of 5516: the
\* hook's cpu_reset() leaves it linked to the reset vector (see ExecLoop).
PostReset ==
    /\ At("post") /\ resetCount < MaxResets
    /\ pc' = "fe5516"
    /\ cached' \in {cached, cached \cup {"fe5516"}}
    /\ rb' = RbNow
    /\ UNCHANGED <<launch, booted, keyPressed, kbcPending, resetCount, entered,
                   warm72, cmos0F, tone, history>>

\* The linked jump runs the ROM's reset entry, and nothing is reset.
PostResetUnseen ==
    /\ At("post") /\ "fe5516" \in cached
    /\ CpuReset /\ prompt' = PromptUncounted
    /\ UNCHANGED <<launch, cached, statics, warm72, cmos0F, tone, f1, session, resumeDue>>

PostBoot ==
    /\ At("post")
    /\ pc' = "int19"
    /\ rb' = RbNow
    /\ UNCHANGED <<launch, cached, booted, keyPressed, kbcPending, resetCount, entered,
                   warm72, cmos0F, tone, history>>

\* F000:542C: set the text mode once per POST, then count the beep down.  rb_ticks
\* is compared with BeepTicks for equality: past it, counting has no effect.
\* Once it has let the character through, the block stays translated.
Teletype ==
    /\ At("teletype")
    /\ \/ /\ env.postui /\ ~RbNow.modeset
          /\ rb' = [RbNow EXCEPT !.modeset = TRUE]
          /\ pc' = "int10"
          /\ UNCHANGED <<tone, cached>>
       \/ /\ env.postui /\ RbNow.modeset /\ RbNow.ticks < BeepTicks
          /\ rb' = [RbNow EXCEPT !.ticks = @ + 1]
          /\ tone' = (IF RbNow.ticks + 1 = BeepTicks THEN FALSE ELSE tone)
          /\ pc' = "post" /\ cached' = cached \cup {"teletype"}
       \/ /\ ~env.postui \/ (RbNow.modeset /\ RbNow.ticks = BeepTicks)
          /\ rb' = RbNow
          /\ pc' = "post" /\ cached' = cached \cup {"teletype"}
          /\ UNCHANGED tone
    /\ UNCHANGED <<launch, booted, keyPressed, kbcPending, resetCount, entered,
                   warm72, cmos0F, history>>

\* A character on a translated path: no prompt, no count.
TeletypeUnseen ==
    /\ At("teletype") /\ "teletype" \in cached
    /\ pc' = "post"
    /\ prompt' = IF prompt = "due" THEN "missed" ELSE prompt
    /\ UNCHANGED <<launch, cached, statics, warm72, cmos0F, tone, chars, f1, session,
                   resumeDue>>

\* The video BIOS sets the mode and returns to the sentinel.
Int10Returns ==
    /\ At("int10")
    /\ pc' = "sentinel"
    /\ UNCHANGED <<launch, cached, statics, warm72, cmos0F, tone, history>>

\* F000:FF00: paint the prompt, start the beep, go on with the character.
Sentinel ==
    /\ At("sentinel")
    /\ rb' = RbNow
    /\ prompt' = "shown"
    /\ tone' = TRUE
    /\ pc' = "teletype"
    /\ UNCHANGED <<launch, cached, booted, keyPressed, kbcPending, resetCount, entered,
                   warm72, cmos0F, chars, f1, session, resumeDue>>

------------------------------------------------------------------------------------
(* The boot decision, F000:52BD.                                                   *)

\* The image at 5000:0000 when its file can be read, else the ROM's own entry.
EnterEasySetup ==
    /\ pc' = IF env.image THEN "setup" ELSE "romSetup"
    /\ session' = "idle" /\ f1' = FALSE

\* to: whether the hook may still decide; toneThere: the speaker in Easy-Setup
DecideIf(to, toneThere) ==
    /\ At("int19")
    /\ rb' = RbNow
    /\ \/ ~to /\ pc' = "rom19" /\ UNCHANGED <<session, f1, tone>>
       \/ /\ to /\ env.postui /\ keyPressed
          /\ EnterEasySetup /\ tone' = toneThere
       \/ /\ to /\ ~(env.postui /\ keyPressed)
          /\ pc' = "setupTest"
          /\ tone' = (IF env.postui THEN FALSE ELSE tone)
          /\ UNCHANGED <<session, f1>>
    /\ UNCHANGED <<launch, cached, booted, keyPressed, kbcPending, resetCount, entered,
                   warm72, cmos0F, chars, prompt, resumeDue>>

\* variants: the beep left on, the decision taken again after the boot
Decide_KeepsBeep    == DecideIf(~booted, tone)
Decide_AfterBootToo == DecideIf(~booted \/ keyPressed, FALSE)

\* The realistic-boot test.  Once an operating system is loaded the hook declines
\* and the ROM's own INT 19h runs.
Decide == DecideIf(~booted, FALSE)

\* PC110SETUP: a second INT 19h with a key since the first is a real Restart.
SetupTest ==
    /\ At("setupTest")
    /\ pc' = IF env.setup /\ ~(entered /\ keyPressed) THEN "setupLoad" ELSE "diskLoad"
    /\ UNCHANGED <<launch, cached, statics, warm72, cmos0F, tone, history>>

SetupLoadWith(seen, key) ==
    /\ At("setupLoad")
    /\ entered' = seen /\ keyPressed' = key
    /\ EnterEasySetup
    /\ UNCHANGED <<launch, cached, booted, kbcPending, resetCount, rb, warm72, cmos0F, tone,
                   chars, prompt, resumeDue>>

\* variants: the key flag not cleared, the entry not recorded
SetupLoad_KeepsKey    == SetupLoadWith(TRUE, keyPressed)
SetupLoad_NotRecorded == SetupLoadWith(entered, FALSE)

SetupLoad == SetupLoadWith(TRUE, FALSE)

DiskLoadMarking(loaded) ==
    /\ At("diskLoad")
    /\ IF env.disk
       THEN booted' = loaded /\ pc' = "dos" /\ session' = "none"
       ELSE pc' = "rom19" /\ UNCHANGED <<booted, session>>
    /\ UNCHANGED <<launch, cached, keyPressed, kbcPending, resetCount, entered, rb, warm72, cmos0F,
                   tone, chars, prompt, f1, resumeDue>>

\* variant: pc110_booted not set
DiskLoad_NotRecorded == DiskLoadMarking(booted)

\* variant: nothing to fall back to
DiskLoad_NoFallback == env.disk /\ DiskLoadMarking(TRUE)

\* Load the boot sector and enter it; a short or missing file leaves the ROM's INT 19h.
DiskLoad == DiskLoadMarking(TRUE)

------------------------------------------------------------------------------------
(* What runs after the decision.                                                   *)

\* The user chooses Restart, which takes at least one key.
SetupRestart ==
    /\ pc \in SetupPcs /\ ~kbcPending /\ session = "touched"
    /\ session' = "restarting"
    /\ \E kind \in exits : GuestReset(kind)
    /\ UNCHANGED <<launch, cached, booted, keyPressed, resetCount, entered, rb, warm72, cmos0F,
                   tone, chars, prompt, f1, resumeDue>>

\* A reset out of Easy-Setup that nobody asked for.
SpuriousReset ==
    /\ pc \in SetupPcs /\ ~kbcPending
    /\ \E kind \in exits \ {"int19"} : GuestReset(kind)
    /\ UNCHANGED <<launch, cached, booted, keyPressed, resetCount, entered, rb, warm72, cmos0F,
                   tone, history>>

\* The driver leaves protected mode: it stores a continuation and resets the CPU.
DriverReset ==
    /\ At("dos")
    /\ \/ cmos0F' = 9 /\ resumeDue' = "code" /\ UNCHANGED warm72
       \/ warm72' = "4321" /\ cmos0F' = 0 /\ resumeDue' = "magic"
    /\ \E kind \in exits \ {"int19"} : GuestReset(kind)
    /\ UNCHANGED <<launch, cached, booted, keyPressed, resetCount, entered, rb,
                   tone, chars, prompt, f1, session>>

\* DOS reboots: the AT warm-boot word, no continuation.
Reboot ==
    /\ At("dos")
    /\ warm72' = "1234" /\ cmos0F' = 0 /\ resumeDue' = "none"
    /\ \E kind \in exits : GuestReset(kind)
    /\ UNCHANGED <<launch, cached, booted, keyPressed, resetCount, entered, rb,
                   tone, chars, prompt, f1, session>>

------------------------------------------------------------------------------------
Hook  == \/ TakeKbcReset \/ WarmReset \/ ForceResume \/ Teletype \/ Sentinel
         \/ Decide \/ SetupTest \/ SetupLoad \/ DiskLoad
Rom   == \/ RomDispatch \/ PostPrint \/ PostReset \/ PostBoot \/ Int10Returns
         \/ PostResetUnseen \/ TeletypeUnseen
Guest == SetupRestart \/ SpuriousReset \/ DriverReset \/ Reboot
User  == \E key \in {"F1", "other"} : KeyPress(key)

Next == Hook \/ Rom \/ Guest \/ User

Spec == Init /\ [][Next]_vars

\* The vCPU thread keeps running and a POST does not reset itself for ever; when to
\* reset is up to the guest and its user.
FairSpec == Spec /\ WF_vars(Hook \/ Rom) /\ SF_vars(PostBoot)

------------------------------------------------------------------------------------
(* Properties that hold.                                                           *)

\* Easy-Setup's image goes to 50000h and its POST to low memory, so neither may be
\* entered once DOS is loaded (the !pc110_booted guards of F000:52BD).
SetupNeverOverDos ==
    pc \in SetupPcs \cup {"setupTest", "setupLoad", "diskLoad"} => ~booted

\* The POST's beep never goes on under Easy-Setup or under DOS, however many of its
\* characters the hook misses (F000:542C, FF00 and 52BD); with PC110RESUME a reset in
\* the POST of a reboot may go straight back to DOS.
BeepOffAtHandover == tone /\ ~env.resume => pc \notin SetupPcs \cup {"dos"}

\* A reset out of an Easy-Setup that nobody touched never flips to the disk boot
\* (the reason pc110_key_pressed exists).
NoFlip == [][~booted /\ booted' => session # "idle"]_vars

\* An F1 that a realistic POST got before its decision is never lost, whatever resets
\* come in between: the disk is not loaded for the first time before Easy-Setup, which
\* honours the key, has been entered.  A Restart out of there may load it.
F1NeverBootsDisk == [][env.postui /\ ~booted /\ booted' => ~f1]_vars

\* A reset the driver tagged with shutdown code 09h comes back to the driver and
\* does not POST: RAM and CMOS survive both ways of resetting.
TaggedResumes == resumeDue = "code" => pc \notin PostPcs \cup {"int19", "rom19"}

\* The same for the driver's own 4321h in 40:72, as long as resets go through F000:5516.
MagicResumes == exits = {"rom"} /\ resumeDue = "magic" =>
                    pc \notin PostPcs \cup {"int19", "rom19"}

\* Every realistic POST that g_reset_count tells from the one before has shown its
\* prompt when it reaches the decision with anything on the screen, however many POSTs
\* came before it and wherever they were reset; and so has one after an uncounted reset
\* when the POST before it still owed it.  Only a POST whose first character went past
\* the hook is excused.
PromptShown == pc = "int19" /\ env.postui /\ chars > 0 => prompt # "due"

\* Between them the hook and the ROM are never stuck on the way to DOS, to Easy-Setup or
\* to the ROM's own INT 19h, and a POST may always get to its boot: every address the
\* hook declines is the ROM's to go on from.
MayRun  == ENABLED <<Hook \/ Rom>>_vars
MayBoot == ENABLED <<PostBoot>>_vars
CanGoOn == /\ pc \notin SetupPcs \cup {"dos", "rom19"} \/ kbcPending => MayRun
           /\ At("post") => MayBoot

\* As run-easysetup-realbios.sh starts QEMU, with a disk, Restart gets to the disk
\* boot, however many resets the POST and stray hardware take on the way.
RestartReachesDisk ==
    (session = "restarting" /\ env.setup /\ ~env.postui /\ env.disk) ~> (pc = "dos")

\* The boot controller implements the session a user is promised.
Stage == CASE pc \in SetupPcs -> "setup"
           [] pc = "dos"      -> "dos"
           [] pc = "rom19"    -> "stuck"
           [] OTHER           -> "post"

Abstract == INSTANCE BootSession WITH stage <- Stage, loaded <- booted
ImplementsBootSession == Abstract!Spec

------------------------------------------------------------------------------------
(* What the README and the comments say, and the code does not do.                 *)

\* README: "Exit/Restart returns to the normal boot".
RestartLeavesSetup ==
    [][session = "restarting" /\ pc \notin SetupPcs => pc' \notin SetupPcs]_vars
====================================================================================
