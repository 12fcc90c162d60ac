------------------------------- MODULE LoopCompleters ------------------------------
(* The loop completers of the POST completer (pc110post.c), on the CPU loop of      *)
(* ExecLoop: the four counted loops it finishes in native code, the waits it ends,  *)
(* the sites it always takes over, the reset it takes for an OUT 64,FE, and the     *)
(* answer it gives for the ROM's error log.                                         *)
(*                                                                                  *)
(* The ROM is not in the repository.  The loops' instructions are those that their  *)
(* addresses and the completers' own code leave possible; "rom" stands for all the  *)
(* code in between.                                                                 *)
EXTENDS ExecLoop, LazyFlags, Repetition, Integers, Sequences

CONSTANTS
    Runs,         \* what a behaviour visits, and how QEMU is started
    Threshold,    \* per counter, the hit that completes the loop
    Counts,       \* values of CX a counted loop is entered with
    WordMod,      \* 2^16
    ByteMod,      \* 2^8
    CopyMax,      \* the bound complete_copy puts on its blocks, 8000h
    Data          \* the words the checksum adds up: low and high byte, by index

Counted  == {"checksum", "copy", "delay", "shl", "rcl"}
Waits    == {"6943", "C960", "EA90", "6961", "53C1"}
OneShots == {"6981", "6D3A", "3D90", "6998", "6999", "52BE", "52BF", "4A51", "D2D7"}
Kinds    == Counted \cup Waits \cup OneShots \cup {"61BE", "reset", "errorlog"}

\* cuts: where the instruction budget of -icount may end in the middle of a block, none
\* without -icount; override: PC110SETUP or PC110POSTUI is set.
ASSUME RunsAssumption ==
    Runs \subseteq [visits: SUBSET Kinds, cuts: SUBSET Addrs, override: BOOLEAN]
ASSUME WordsAssumption ==
    /\ WordMod \in Nat \ {0} /\ WordMod % 4 = 0
    /\ ByteMod \in Nat \ {0, 1} /\ CopyMax \in Nat \ {0}
    /\ Counts \subseteq 0..WordMod - 1
    /\ Data \in [0..WordMod - 1 -> (0..ByteMod - 1) \X (0..ByteMod - 1)]

\* The instructions of a counted loop; the last one counts CX down and branches back.
Body == [checksum |-> <<"3CC1", "3CC2", "3CC4", "3CC6">>,
         copy     |-> <<"3C34", "3C4C">>,
         delay    |-> <<"4139", "413D">>,
         shl      |-> <<"61DB", "61DD", "61DF">>,
         rcl      |-> <<"61E9", "61EB", "61ED">>]

\* Where the loop of a wait starts: the IN or OUT before the site the hook looks at, or
\* what that comes after.
WaitHead == [k \in Waits |-> CASE k = "6943" -> "in6943" [] k = "C960" -> "inC960"
                          [] k = "EA90" -> "EA86" [] k = "6961" -> "6958"
                          [] k = "53C1" -> "53C1"]

\* Where a visit starts.
Entry(k) == CASE k \in Counted -> Body[k][1] [] k \in Waits -> WaitHead[k]
              [] k = "reset" -> "out64" [] k = "errorlog" -> "5F232" [] OTHER -> k

\* Where the completers put the guest.
Ended == Kinds \ {"reset"}
ExitOf == [k \in Ended |->
    CASE k = "checksum" -> "3CC8" [] k = "copy" -> "3C4E" [] k = "delay" -> "413F"
      [] k = "shl" -> "61E1" [] k = "rcl" -> "61EF"
      [] k = "6943" -> "6949" [] k = "C960" -> "C966" [] k = "EA90" -> "EA92"
      [] k = "6961" -> "6958" [] k = "53C1" -> "53CE" [] k = "6981" -> "698F"
      [] k = "6D3A" -> "6D49" [] k = "3D90" -> "3D9E" [] k \in {"6998", "6999"} -> "699A"
      [] k \in {"52BE", "52BF"} -> "52C0" [] k = "4A51" -> "4A53" [] k = "D2D7" -> "iret"
      [] k = "61BE" -> "418D" [] k = "errorlog" -> "5F239"]

\* Where a visit is over.  The wait of 6961 is sent back to its head, and left by the
\* guest when its bit is set or its count runs out.
Exits == {ExitOf[k] : k \in Ended \ {"6961"}} \cup {"ready", "timedout"}

\* The offsets at which a counted loop counts a hit.
Offsets(k) == IF k = "copy" THEN {"3C34"} ELSE {Body[k][i] : i \in DOMAIN Body[k]}

CounterOf(k) == CASE k = "checksum" -> "cksum"
                  [] k \in {"shl", "rcl"} -> "mempat"
                  [] OTHER -> k
Counters == {CounterOf(k) : k \in Counted \cup Waits}

\* The addresses of the guest are those above, the reset vector and the rest of the ROM; the
\* hook always takes over at forced sites only.
Sites == Exits \cup {Entry(k) : k \in Kinds} \cup Waits \cup {"rom", "after"}

ASSUME SitesAssumption ==
    /\ Sites \subseteq Addrs /\ ResetVector \notin Sites
    /\ \A k \in Counted : \A i \in DOMAIN Body[k] : Body[k][i] \in Addrs \ {ResetVector}
    /\ Always \subseteq OneShots

ASSUME ThresholdAssumption == Threshold \in [Counters -> Nat \ {0}]

VARIABLES
    run,          \* one of Runs, for good
    kind,         \* the visit under way
    r,            \* the registers, flags and memory it works on
    hits,         \* h_cksum, h_copy, h_delay, h_mempat and the statics h of the waits
    idle,         \* what follows an OUT 64,FE: "spin", "hlt", or "cli" (HLT with IF=0)
    visit         \* history: where this visit was completed and with which CX, whether
                  \* the hook has acted on it, and what the plain loop comes to

guest    == <<kind, r, idle>>
loopVars == <<vars, run, guest, hits, visit>>

Word(n) == n % WordMod
Byte(n) == n % ByteMod

\* mem is one cell for each address or block a loop can reach; cell 0 is also the byte
\* at 40:6B.  acc is BL, BH or the bit of port 61h in AL, ax any of AX, BX and SI, p any
\* of SI, DI and DX.
Regs == [cx: 0..WordMod - 1, p: 0..WordMod - 1, ax: 0..WordMod - 1,
         word: (0..ByteMod - 1) \X (0..ByteMod - 1), acc: 0..ByteMod - 1,
         fl: FlagsType, mem: [0..WordMod - 1 -> 0..WordMod - 1]]

AtRest == [cx |-> 0, p |-> 0, ax |-> 0, word |-> <<0, 0>>, acc |-> 0, fl |-> NoFlags,
           mem |-> [i \in 0..WordMod - 1 |-> i]]

NoVisit == [fired |-> "none", count |-> 0, acted |-> FALSE, want |-> AtRest]

LoopTypeOK ==
    /\ TypeOK
    /\ run \in Runs
    /\ kind \in run.visits \cup {"none"}
    /\ r \in Regs
    /\ hits \in [Counters -> Nat]
    /\ \A c \in Counters : hits[c] < Threshold[c]
    /\ idle \in {"spin", "hlt", "cli"}
    /\ visit \in [fired: Addrs \cup {"none"}, count: 0..WordMod - 1, acted: BOOLEAN,
                  want: Regs]

LoopInit ==
    /\ Init
    /\ run \in Runs
    /\ kind = "none" /\ r = AtRest /\ idle = "spin"
    /\ hits = [c \in Counters |-> 0]
    /\ visit = NoVisit

------------------------------------------------------------------------------------
(* The guest's loops.                                                              *)

\* What one instruction of a body does, the branch left out.
Work(a, q) ==
    CASE a = "3CC1" -> [q EXCEPT !.word = Data[q.p], !.p = Word(@ + 1)]
      [] a = "3CC2" -> [q EXCEPT !.acc = Byte(@ + q.word[1])]
      [] a = "3CC4" -> [q EXCEPT !.acc = Byte(@ + q.word[2])]
      [] a = "3C34" -> [q EXCEPT !.mem[Word(q.p + q.ax)] = q.mem[q.p], !.p = Word(@ + 1)]
      [] a = "4139" -> [q EXCEPT !.mem[0] = q.ax]
      [] a \in {"61DB", "61E9"} -> [q EXCEPT !.mem[q.p] = q.ax]
      [] a = "61DD" -> [q EXCEPT !.p = Word(2 * @), !.fl = SetCf(@, 2 * q.p >= WordMod)]
      [] a = "61EB" -> [q EXCEPT !.p = Word(2 * @ + (IF Carry(q.fl) THEN 1 ELSE 0)),
                                 !.fl = SetCf(@, 2 * q.p >= WordMod)]

\* The body of a loop up to its branch, and one turn of the loop.
Iteration(k, q) ==
    CASE k = "checksum" -> Work("3CC4", Work("3CC2", Work("3CC1", q)))
      [] k = "copy"     -> Work("3C34", q)
      [] k = "delay"    -> Work("4139", q)
      [] k = "shl"      -> Work("61DD", Work("61DB", q))
      [] k = "rcl"      -> Work("61EB", Work("61E9", q))

Turn(k) == [q \in Regs |-> [Iteration(k, q) EXCEPT !.cx = Word(@ - 1)]]

\* The loop run to its end on q without the hook; LOOP takes a CX of 0 for 2^16.
PlainLoop(k, q) == Repeat(Turn(k), q, IF q.cx = 0 THEN WordMod ELSE q.cx)

\* What of it the code after the loop can see and the completers provide.
Result(k, q) == [cx |-> q.cx, mem |-> q.mem, acc |-> q.acc,
                 p  |-> IF k = "copy" THEN 0 ELSE q.p,
                 cf |-> k \in {"shl", "rcl"} /\ Carry(q.fl)]

------------------------------------------------------------------------------------
(* The completers, entered at one of the loop's offsets.                           *)

AddWord(q, w) == [q EXCEPT !.acc = Byte(@ + w[1] + w[2])]

\* complete_checksum: past the load it first finishes the iteration under way.
Checksum(off, q) ==
    LET first == IF off \in {"3CC2", "3CC4", "3CC6"}
                 THEN [AddWord(q, q.word) EXCEPT !.cx = IF @ = 0 THEN 0 ELSE @ - 1]
                 ELSE q
        adds  == [s \in Regs |-> [AddWord(s, Data[s.p]) EXCEPT !.p = Word(@ + 1)]]
    IN  [Repeat(adds, first, first.cx) EXCEPT !.cx = 0]

\* variant: at least two blocks, as min(CX,...) read the other way round would have it
Copy_Two(q) ==
    LET copies == [s \in Regs |-> Work("3C34", s)]
    IN  [Repeat(copies, q, IF q.cx < 2 THEN 2 ELSE q.cx)
            EXCEPT !.cx = 0, !.fl = SetZf(@, FALSE)]

\* complete_copy: CX blocks, one after the other, no more than its bound.
Copy(q) ==
    LET copies == [s \in Regs |-> Work("3C34", s)]
        count  == IF q.cx = 0 THEN 1 ELSE IF q.cx > CopyMax THEN CopyMax ELSE q.cx
    IN  [Repeat(copies, q, count) EXCEPT !.cx = 0, !.fl = SetZf(@, FALSE)]

Delay(q) == [q EXCEPT !.mem[0] = IF q.cx = 0 THEN @ ELSE q.ax, !.cx = 0]

\* complete_mempat: whole iterations of the store and the shift or rotation.
Mempat(store, shift, q) ==
    LET tests == [s \in Regs |-> Work(shift, Work(store, s))]
    IN  [Repeat(tests, q, q.cx) EXCEPT !.cx = 0]

Completed(k, off, q) ==
    CASE k = "checksum" -> Checksum(off, q)
      [] k = "copy"     -> Copy(q)
      [] k = "delay"    -> Delay(q)
      [] k = "shl"      -> Mempat("61DB", "61DD", q)
      [] k = "rcl"      -> Mempat("61E9", "61EB", q)

------------------------------------------------------------------------------------
(* The hook.                                                                       *)

\* variant: one hit late
Due_Late(c) == hits[c] + 1 > Threshold[c]

Due(c) == hits[c] + 1 >= Threshold[c]

\* Below the threshold a hit lets the guest run.
HookCounts(k) ==
    /\ ~Due(CounterOf(k))
    /\ hits' = [hits EXCEPT ![CounterOf(k)] = @ + 1]
    /\ EnterBlock
    /\ UNCHANGED <<run, guest, visit>>

\* At the threshold the completer runs and the count starts over.
HookFires(k, result) ==
    /\ Due(CounterOf(k))
    /\ hits' = [hits EXCEPT ![CounterOf(k)] = 0]
    /\ r' = result
    /\ visit' = [visit EXCEPT !.fired = at, !.count = r.cx, !.acted = TRUE]
    /\ Complete(ExitOf[k])
    /\ UNCHANGED <<run, kind, idle>>

HookCounted ==
    /\ mode = "loop" /\ kind \in Counted /\ at \in Offsets(kind)
    /\ HookCounts(kind) \/ HookFires(kind, Completed(kind, at, r))

\* What the guest waits for: bit 5 of port 61h, the end of the count, [6Bh].0.
WaitEndsWith(k, q, count, byte) ==
    CASE k = "6943"             -> [q EXCEPT !.acc = 1, !.fl = SetZf(@, FALSE)]
      [] k \in {"C960", "EA90"} -> [q EXCEPT !.cx = count]
      [] k = "6961"             -> [q EXCEPT !.mem[0] = byte]
      [] k = "53C1"             -> q

\* variants: the count, or the status byte, left as it was
WaitOver_LeavesCount(k, q) == WaitEndsWith(k, q, q.cx, 1)
WaitOver_LeavesByte(k, q)  == WaitEndsWith(k, q, 0, q.mem[0])

WaitOver(k, q) == WaitEndsWith(k, q, 0, 1)

HookWait ==
    /\ mode = "loop" /\ kind \in Waits /\ at = kind
    /\ HookCounts(kind) \/ HookFires(kind, WaitOver(kind, r))

\* A timer count in range, the scan one step of 80h on.
Forced(k, q) == CASE k = "6981" -> [q EXCEPT !.ax = 1]
                  [] k = "6D3A" -> [q EXCEPT !.p = Word(@ + 1)]
                  [] OTHER      -> q

\* The sites the hook always skips or forces, and INT 13h's entry, which it serves
\* (Int13Disk) when PC110BOOT is set.
HookOneShot ==
    /\ kind \in OneShots /\ at = kind
    /\ Complete(ExitOf[kind])
    /\ r' = Forced(kind, r)
    /\ visit' = [visit EXCEPT !.acted = TRUE]
    /\ UNCHANGED <<run, kind, idle, hits>>

\* F000:61BE, the memory test's return: forced to succeed, and let run.
Hook61BE ==
    /\ at = "61BE"
    /\ r' = [r EXCEPT !.ax = 0, !.fl = SetCf(SetZf(@, TRUE), FALSE)]
    /\ visit' = [visit EXCEPT !.acted = TRUE]
    /\ EnterBlock
    /\ UNCHANGED <<run, kind, idle, hits>>

\* INT 15h AH=21h AL=00h through Easy-Setup's dispatcher, linear 5F232: no errors.
\* ax is AX, acc the count that comes back in BH.  A pending reset has to wait for it.
AsksForLog == at = "5F232" /\ run.override /\ r.ax = 0

HookErrorLog ==
    /\ AsksForLog
    /\ r' = [r EXCEPT !.acc = 0, !.fl.eflags = @ \ {"C"}]
    /\ visit' = [visit EXCEPT !.acted = TRUE]
    /\ Answer(ExitOf["errorlog"])
    /\ UNCHANGED <<run, kind, idle, hits>>

\* Everywhere else it lets the block run.
HookDeclines ==
    /\ \/ kind \in Counted /\ at \notin Offsets(kind)
       \/ kind = "errorlog" /\ ~AsksForLog
       \/ kind \notin Counted \cup {"errorlog"} /\ at # kind
    /\ Enter
    /\ UNCHANGED <<run, guest, hits, visit>>

HookReset ==
    /\ ~AsksForLog /\ TakeReset
    /\ kind' = "none" /\ r' = AtRest /\ visit' = NoVisit
    /\ UNCHANGED <<run, idle, hits>>

Hook == \/ HookReset \/ HookCounted \/ HookWait \/ HookOneShot \/ Hook61BE
        \/ HookErrorLog \/ HookDeclines

------------------------------------------------------------------------------------
(* The guest.                                                                      *)

Carries == {StoreEflags({}), StoreEflags({"C"})}

Registers(cx, ax, p, fl) == [AtRest EXCEPT !.cx = cx, !.ax = ax, !.p = p, !.fl = fl]

\* The registers and flags a visit may start with.
Starts(k) ==
    LET cx == IF k \in Counted \cup Waits THEN Counts ELSE {0}
        ax == IF k \in {"shl", "rcl"} THEN {3} ELSE IF k \in Counted \cup {"6D3A"} THEN {1}
              ELSE IF k = "errorlog" THEN {0, 1} ELSE {0}
        p  == IF k = "shl" THEN {WordMod \div 4 + 1}
              ELSE IF k = "rcl" THEN {WordMod \div 2} ELSE {0}
        fl == IF k \in {"rcl", "errorlog"} THEN Carries ELSE {NoFlags}
    IN  {Registers(n, a, d, f) : n \in cx, a \in ax, d \in p, f \in fl}

Reach(t) == JumpTo(t) \/ FarTo(t)

StartVisit(k) ==
    /\ at = "rom"
    /\ \E q \in Starts(k) :
            /\ r' = q
            /\ visit' = [NoVisit EXCEPT !.want = IF k \in Counted THEN PlainLoop(k, q) ELSE q]
    /\ kind' = k
    /\ Reach(Entry(k))
    /\ UNCHANGED <<pending, run, hits, idle>>

\* LOOP.
CountDown(back, out) ==
    /\ r' = [r EXCEPT !.cx = Word(@ - 1)]
    /\ JumpTo(IF r'.cx = 0 THEN out ELSE back)

\* The copy's LOOPE leaves early, with CX left, when a block made ZF clear.
RunBody ==
    /\ kind \in Counted
    /\ \E i \in DOMAIN Body[kind] :
        /\ at = Body[kind][i]
        /\ IF i < Len(Body[kind])
           THEN r' = Work(at, r) /\ Inside(Body[kind][i + 1])
           ELSE \/ CountDown(Body[kind][1], ExitOf[kind])
                \/ kind = "copy" /\ CountDown(ExitOf[kind], ExitOf[kind])
    /\ UNCHANGED <<pending, run, kind, idle, hits, visit>>

\* Under -icount an instruction that does I/O ends its block.
Paced == run.cuts # {}
PastIo(t) == IF Paced THEN JumpTo(t) ELSE Inside(t)

\* A port 61h wait reads whether its bit is there; the wait of 6961 is left when an
\* interrupt, or the hook, has set [6Bh].0.
RunHead ==
    /\ kind \in Waits \ {"53C1"} /\ at = WaitHead[kind]
    /\ \/ /\ kind # "6961" /\ PastIo(kind)
          /\ \E bit \in {0, 1} : r' = [r EXCEPT !.acc = bit]
       \/ kind = "6961" /\ r.mem[0] # 1 /\ PastIo("6961") /\ UNCHANGED r
       \/ kind = "6961" /\ JumpTo("ready") /\ r' = [r EXCEPT !.mem[0] = 1]
    /\ UNCHANGED <<pending, run, kind, idle, hits, visit>>

\* The site: bit 5 leaves 6943, a toggle of bit 4 counts in C960 and EA90, every turn
\* in 6961.  The bit may never come, and the end of the string at 53C1 neither.
RunSite ==
    /\ kind \in Waits /\ at = kind
    /\ \/ /\ kind = "6943" /\ r' = [r EXCEPT !.fl = SetZf(@, r.acc # 1)]
          /\ JumpTo(IF r.acc = 1 THEN "6949" ELSE "in6943")
       \/ kind \in {"C960", "EA90"} /\ r.acc # 1 /\ JumpTo(WaitHead[kind]) /\ UNCHANGED r
       \/ kind \in {"C960", "EA90"} /\ r.acc = 1 /\ CountDown(WaitHead[kind], ExitOf[kind])
       \/ kind = "6961" /\ CountDown("6958", "timedout")
       \/ kind = "53C1" /\ (JumpTo("53C1") \/ JumpTo("53CE")) /\ UNCHANGED r
    /\ UNCHANGED <<pending, run, kind, idle, hits, visit>>

RunWait == RunHead \/ RunSite

\* The option ROM scan has not passed the video ROM, whose size byte is 0, and gets to
\* the same place again.
ScanStays == kind = "6D3A" /\ r.p # r.ax

RunScan ==
    /\ at = "6D49" /\ ScanStays /\ JumpTo("6D3A")
    /\ UNCHANGED <<pending, run, guest, hits, visit>>

\* The RET at 61BE.
RunReturn ==
    /\ at = "61BE" /\ FarTo(ExitOf["61BE"])
    /\ UNCHANGED <<pending, run, guest, hits, visit>>

\* The real INT 15h answers Easy-Setup.
RunInt15 ==
    /\ at = "5F232" /\ FarTo(ExitOf["errorlog"])
    /\ \E n \in {0, 1}, f \in Carries :
            r' = [r EXCEPT !.acc = n, !.fl = f]
    /\ UNCHANGED <<pending, run, kind, idle, hits, visit>>

\* OUT 64,FE.
RunOut64 ==
    /\ at = "out64" /\ Out64 /\ PastIo("after")
    /\ idle' \in {"spin", "hlt", "cli"}
    /\ UNCHANGED <<run, kind, r, hits, visit>>

\* It then waits for the reset.
RunIdle ==
    /\ at = "after"
    /\ IF idle = "spin" THEN JumpTo("after") /\ UNCHANGED pending ELSE Halt
    /\ UNCHANGED <<run, guest, hits, visit>>

\* Back to the rest of the ROM.
RunOn ==
    /\ at \in Exits \cup {ResetVector} /\ ~ScanStays /\ FarTo("rom")
    /\ kind' = "none" /\ r' = AtRest /\ visit' = NoVisit
    /\ UNCHANGED <<pending, run, idle, hits>>

Guest == \/ \E k \in run.visits : StartVisit(k)
         \/ RunBody \/ RunWait \/ RunScan \/ RunReturn \/ RunInt15 \/ RunOut64 \/ RunIdle
         \/ RunOn

HostKick == Kick /\ UNCHANGED <<run, guest, hits, visit>>
HostCut  == at \in run.cuts /\ Cut /\ UNCHANGED <<run, guest, hits, visit>>
HostWake == idle = "hlt" /\ Wake /\ UNCHANGED <<run, guest, hits, visit>>

LoopNext == Hook \/ Guest \/ HostKick \/ HostCut \/ HostWake

LoopSpec == LoopInit /\ [][LoopNext]_loopVars

\* An exit request that comes before the second block of a wait's loop.
KickAtSite == at \in Waits /\ HostKick

\* The vCPU thread runs, a block entered executes at least an instruction before the
\* next exit, and the host's timers get the guest back to the loop wherever it spins, not
\* always before the same one of two blocks.
FairLoopSpec == /\ LoopSpec
                /\ WF_loopVars(Hook) /\ WF_loopVars(HostWake)
                /\ SF_loopVars(Guest) /\ SF_loopVars(HostKick) /\ SF_loopVars(KickAtSite)

------------------------------------------------------------------------------------
(* Properties that hold.                                                           *)

\* Inside an iteration the part already done must not be done again.
CleanEntries == {"none", "3CC1", "3CC2", "3C34", "4139", "413D",
                 "61DB", "61DD", "61E9", "61EB"}

\* No jump has been patched while the hook was redirecting it.
LinksFaithful == \A l \in links : l.jump = l.to

\* To a completer CX = 0 means that nothing is left (to the copy's: one block), and the
\* copy's does no more than CopyMax blocks: both differ from the plain loop.
WithinCount == visit.fired # "none" =>
                   visit.count # 0 /\ (kind = "copy" => visit.count <= CopyMax)

\* The copy's LOOPE left on ZF.
LeftEarly == kind = "copy" /\ visit.fired = "none" /\ r.cx # 0

\* However many iterations the guest and however many the completer did, and wherever
\* interrupts and budgets cut the guest's blocks, the code after a counted loop finds
\* what the plain loop leaves (complete_checksum, complete_copy, complete_delay,
\* complete_mempat): provided the completer was entered before anything it does again
\* and with a count it does in full, and no earlier one has left a jump of the loop
\* leading out of it.
LoopEffect ==
    /\ kind \in Counted /\ at = ExitOf[kind] /\ ~LeftEarly
    /\ visit.fired \in CleanEntries /\ WithinCount /\ LinksFaithful
    => Result(kind, r) = Result(kind, visit.want)

\* The code behind a wait finds it over: bit 5 of port 61h set and ZF clear behind 6943,
\* no count left behind C960 and EA90; and once the hook has ended the wait of 6961 the
\* guest leaves it as ready, never by its time-out.  (A wait that the hook has not ended
\* this time may run over a jump that it left leading out of the loop before.)
WaitLooksOver ==
    visit.fired # "none" \/ LinksFaithful =>
        /\ at = "6949" => r.acc = 1 /\ ~Zero(r.fl)
        /\ at \in {"C966", "EA92"} => r.cx = 0
        /\ at = "timedout" => visit.fired = "none"

\* At these two the guest leaves because of what the hook writes, and a jump patched while
\* the hook redirected it leads past the hook: later visits may turn for ever.
LeftByEffect == {"6961", "6D3A"}
Rewired      == kind \in LeftByEffect /\ \E l \in links : l.to = kind /\ l.jump # kind

\* Every loop, wait and forced site is left again, though what a wait waits for may never
\* come and blocks run over links that do not pass the hook: because of what the hook
\* writes and where it sends the guest.
VisitsEnd == (kind \notin {"none", "reset"} /\ ~Rewired) ~> (kind = "none")

\* A guest that resets through the keyboard controller gets its reset, unless it
\* halts the CPU with interrupts off first (patches/02, the hook's first test).
ResetTaken == pending ~> (~pending \/ (mode = "halted" /\ idle = "cli"))

\* Under -icount not even that stops the reset: the OUT ends its block, and the jump
\* behind it is never patched to lead to the HLT.
PacedNeverDies == Paced /\ pending => mode # "halted"

------------------------------------------------------------------------------------
(* What the comments say, and the code does not do.                                *)

\* pc110post.c: "loops that terminate naturally on QEMU run to completion".
LoopsRunOut == kind \in Counted \ {"copy"} /\ at = ExitOf[kind] => r.cx = 0

\* README: the INT 15h override returns "an empty log (BH=0, CF clear)".
EmptyLogCfClear ==
    kind = "errorlog" /\ visit.acted => r.acc = 0 /\ ~Carry(r.fl)
====================================================================================
