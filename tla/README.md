# A verification model of PC110-QEMU

TLA+ modules, TLC configurations and TLAPS proofs for the program kept in `src/`: the QEMU
patches, devices, scripts and tools that run an IBM Palm Top PC 110 from its real 256 KB BIOS.
Line numbers below are those of the files under `src/`. `PROJECT.json` maps every definition to
the lines it stands for and lists the runs, the mutants that show a property can fail, the
findings, the hazards and the theorems.

    tlc -workers 2 -config boot_session.cfg MCPostCompleter     # a run
    tlapm MachineProofs.tla                                      # a proof

## 1. Inventory

### How the parts interact

QEMU's CPU loop (patch 01) calls `pc110_post_intercept()` (`pc110post.c`) before it looks up a
translation block, on the vCPU thread and without the big lock. Blocks that are linked to each other,
or find each other, do not come by it. The hook looks at where the
guest is and either lets the block run or does something in its place and moves the guest on.
It shares three plain `int`s with the rest of QEMU:

| variable | written by | read by |
| --- | --- | --- |
| `pc110_key_pressed` | `ps2_put_keycode()` (patch 06, main-loop thread), the PC110SETUP branch | the boot decision |
| `pc110_kbc_reset_pending` | `pckbd.c` (patch 02), for a guest's `OUT 64,FE` | the hook, which clears it |
| `pc110_booted` | the disk load of the boot decision, once | the hook, `eram_write()` of `pc110-chipset.c`, and `pc110_loose_pm()` of patch 05 |

The guest's own memory and CMOS are the other channel: 40:72 (warm-boot word), CMOS 0Fh
(shutdown code), the E segment. The BIOS ROM, Easy-Setup, DOS and the RIOS driver are not in the
repository; the models take from the hook's comments and from the README what they do.

### Components

| component | state | operations | what is hard | what makes it correct |
| --- | --- | --- | --- | --- |
| Boot controller, `pc110post.c` 249-977 | the three flags, `g_reset_count`, `rb_*`, the static `entered` | port-level reset, F000:5516, 4656, 542C, FF00, 52BD | keys arrive between its steps; resets arrive anywhere; statics outlive resets | Easy-Setup never over DOS; stray reset and Restart told apart; tagged resets resume; no F1 lost; beep off |
| Launch scripts, `run-realbios.sh`, `run-easysetup-realbios.sh` | the environment | set switches, refuse to start | switches are tested by presence | the switch the user gave is the one that counts |
| Disk service, `pc110_int13()`, `make-disk.py` | none; the image file | AH=00,02,08,15 and the rest | short reads, packed cylinders | sectors in order, none lost, partition entry consistent |
| Memory windows, `pc110-chipset.c` 403-450, 671-761 | three regions | patch and copy the image, drop or apply writes | policy depends on `pc110_booted` | the POST sees ROM, DOS gets its upper memory |
| Font ROM, `pc110-fontrom.c` | bank, scratch, enable | port and window accesses | overlaps the BIOS overlay and PAM | `$FONT.SYS` finds it |
| Register windows, `pc110-chipset.c` 147-333, 459-508, 764-782 | index and data banks, latches, status | index/data accesses, word and byte accesses, save and restore | split accesses, shadowed index, partial vmstate | data goes where the accessor's index says; pollers get through |
| Hook in the CPU loop, patch 01 | QEMU's translated blocks and the jumps between them | hook, look up, link, run, leave on interrupts and budgets | the hook sees only what comes through the loop | what must never be missed is at addresses where no block can exist |
| Loop completers, `pc110post.c` 68-156, 1016-1125 | hit counters | complete a loop after n hits, end a wait, force a branch | counters accumulate, entry in mid-loop, linked blocks | a completed loop leaves what the plain loop leaves; every wait ends |
| Error-log override, `pc110post.c` 362-392 | none | answer INT 15h AH=21h AL=00h | QEMU keeps flags lazily | the log looks empty |
| Loose protected mode, patch 05 | segment caches, levels, stacks | SS loads, far jumps, calls, returns, interrupts after the boot | invalid selectors, mixed frames, mode switches | pushes and pops match; no level gained before the boot |
| Easy-Setup unpacker, `unpack-easysetup.py` | dictionary, width, string | read, expand, emit, clear | stale entries, width growth, the code not yet defined | unpacking inverts packing, damaged input ends in an error exit |
| Easy-Setup floppy, `setupboot-floppy.asm`, `build-floppy.sh`, `run-easysetup.sh` | sector number, segment, count; vector 19h; boot order | read a sector, enter, leave by far return, INT 19h or reset | track and cylinder ends, three ways out caught in three places | the image arrives whole; no way out leads back in |
| Diagnostics (`PC110RSTLOG` and others), window scaling (patch 03), build (patch 04, `build-qemu.sh`), `run-personaware.sh` | logs | - | - | they change no guest state |

`PROJECT.json` lists the hazards of this code line by line.

## 2. Modules

| module | models | used by |
| --- | --- | --- |
| `LaunchScripts` | what environment the scripts hand to QEMU | `PostCompleter` |
| `BootSession` | abstract: what a user is promised of a session | `PostCompleter` (refinement) |
| `PostCompleter` | the boot controller, keys, resets | `MCPostCompleter`, `Machine` |
| `MemoryMap` | image layout, E-segment gate, font window | `Machine` |
| `Machine` | boot controller and memory map composed | `MCMachine` |
| `MachineProofs` | theorems about the boot controller and about the composition | |
| `Int13Disk` | the disk service and a client that walks the drive | `MCInt13Disk` |
| `Int13DiskProofs` | theorems about it | |
| `ChipsetWindows`, `ChipsetStatus` | index/data windows and CMOS; clock latches and 15ECh | `PC110Chipset` |
| `PC110Chipset` | the two composed, with one save and one restore | `MCPC110Chipset` |
| `PC110ChipsetProofs` | theorems about it | |
| `ExecLoop` | QEMU's CPU loop with the hook in it, for any guest | `LoopCompleters` |
| `LazyFlags` | how QEMU keeps the condition codes | `LoopCompleters` |
| `LoopCompleters` | the completers and the ROM's loops on that CPU loop | `MCLoopCompleters` |
| `Repetition` | a function of states applied n times | `LoopCompleters`, `LzwPack` |
| `RepetitionProofs` | its laws, by induction over sets of numbers | the two proof modules below |
| `LoopCompletersProofs` | theorems about the CPU loop and the completers | |
| `LoosePM` | patch 05 and the faithful rules beside it | `MCLoosePM` |
| `LoosePMProofs` | theorems about it | |
| `SetupFloppy` | the loader, the exit stub, the boot order | `MCSetupFloppy` |
| `SetupFloppyProofs` | theorems about it | |
| `LzwUnpack` | the unpacker | `LzwPack` |
| `LzwPack` | the packer it is the inverse of, not in the repository | `MCLzwUnpack` |
| `LzwUnpackProofs` | theorems about the unpacker, alone and on what was packed | |

### PostCompleter

State: one variable per static or global of `pc110post.c` (`booted`, `keyPressed`,
`kbcPending`, `resetCount`, `entered`, `rb`), four for the guest (`pc`, `warm72`, `cmos0F`,
`tone`), and history variables that only properties read. `env` holds the switches and whether
the host's files can be read; every environment the scripts can produce is an initial state.

`pc` is the hooked address the guest has reached, or the step the hook is in. F000:52BD is
split into `Decide`, `SetupTest`, `SetupLoad` and `DiskLoad`, because a key may be stored by the
other thread between the reads and writes of `pc110_key_pressed` (lines 823, 855, 858); the
other hooks touch no variable another thread writes, and are one action each. `TakeKbcReset`
precedes everything, as lines 434-448 do: all other hooks require `~kbcPending`. `RbNow` is the
`g_reset_count` comparison at the head of every F-segment block (492-496).

The actions of the guest are what the comments say of it. The POST prints, resets or ends
(`PostPrint`, `PostReset`, `PostBoot`). The ROM's dispatch clears the shutdown code and
resumes on 09h or on the driver's 4321h (`RomDispatch`; the resume contract, 569-588). Easy-Setup
restarts (`SetupRestart`) or is thrown out by a stray reset (`SpuriousReset`, the comment at
841-852). The driver resets with a continuation (`DriverReset`), DOS without one (`Reboot`).
The last four reset through F000:5516, by a port write or, where nothing resets, by INT 19h;
which of these is possible is a CONSTANT.

`exits` is the set of ways the guests of this behaviour reset. `cached` holds the hooked
addresses that have a translated block, at which the hook may be passed by (see `ExecLoop`
below): a hook that lets its block run leaves one behind. So a later POST may print without
prompt or count (`TeletypeUnseen`), the dispatch at 4656 may run although `PC110RESUME` is set, and
a jump to F000:5516 may run the ROM's own entry (`PostResetUnseen`). At 52BD and FF00 the hook
either takes over or, at 52BD after the boot, has nothing to do any more.

Two histories carry the promises about one POST over the resets between them. `f1` is set by an F1
that reaches the machine before the decision and outside Easy-Setup, and cleared when Easy-Setup
is entered, which is what the key asked for: a Restart out of there may then boot the disk.
`prompt` says whether the POST under way owes its prompt. A counted reset (F000:5516)
makes it due; after an uncounted one (a port-level reset, a jump past the hook)
it stays due if the POST before had not shown it, and else the hook takes the new POST
for a continuation of the old (`PromptUncounted`).

The teletype counter is cut off at `BeepTicks`, where the code's equality test has had its only
effect.

### MemoryMap and Machine

One cell stands for each part of C0000-FFFFF that has its own policy: the VGA BIOS copy (C),
the rest of the first region (D), the part of it under the font window (W), E and F.
`Realize` patches, copies and lays out in the code's order. `Decoded` picks the region with
the highest priority, `View` is what the guest reads. In `Machine` the boot controller's
`booted` is the gate of `eram_write()`; the POST, Easy-Setup and DOS write to any cell at any
time.

### Int13Disk

A sector's content is its place in the image. The client asks for the geometry, reads by
cylinder, head and sector, and moves on by what AL says. The host may fail to read the first
sector asked for or the last. `PackCh`, `PackCl`, `CylAt`, `HeadAt` and `SecAt` are `make-disk.py`'s,
`Lba` is the service's.

### ChipsetWindows, ChipsetStatus and PC110Chipset

Six windows of the same shape and the scratch registers at 80h-8Fh, told apart by how much of the
index counts and by whether the vmstate carries them; each has one accessor, and the accessors
interleave between index and data. The write of an index to port 4Fh that shadows each CMOS access is
`SelectConfig`. `ChipsetStatus` has the latch arithmetic and the busy bit of 15ECh.
`PC110Chipset` is the device: `Restore` is QEMU's loadvm into a freshly realized one, for all of
its parts at once.

### ExecLoop, LazyFlags and LoopCompleters

`ExecLoop` is `cpu_exec_loop()` as patch 01 leaves it. In mode "loop" the hook takes over
(`TakeReset`, `Complete`, `Answer`: `continue`) or lets the block at `at` be found or made and the
jump that led here be linked to it (`EnterBlock`). In mode "code" blocks follow each other over links
(`JumpTo`) or by lookup (`FarTo`), and the guest is back in the loop only where there is neither,
on an exit request (`Kick`), or when an instruction budget ends inside a block (`Cut`).
`continue` keeps `last_tb`. `skipped` records the hooked addresses that were passed unseen.

`LoopCompleters` adds the completers and the guest they are for. The four counted loops are those
whose effect the completers' own code and addresses give away, instruction by instruction
(`Body`, `Work`); the completers are `Checksum`, `Copy`, `Delay` and `Mempat` with the entry offsets
of the source; `hits` are the static counters, shared as in the source. A loop entered with CX = 0
runs 2^16 turns, as LOOP does; the branch of the copy is a LOOPE, which may also leave early. A visit
remembers in `visit.want` what the plain loop (`PlainLoop`: one `Iteration` of the body per turn)
comes to.

A wait has a head (`WaitHead`: the IN or OUT before the hooked site, or what the comments at
1014-1015 name) and the site itself. The guest reads whether its bit is there, counts CX down, or
looks at [6Bh].0 (`RunHead`, `RunSite`); the bit may come or never. `WaitOver` and `Forced` are what
the hook writes to make the guest leave: bit 5 and ZF, a CX of 0, [6Bh].0, the timer count in BX, DX
moved on by 80h. The hook does not send the guest out of the wait of 6961 but back to its head, 6958,
and the scan of 6D3A goes round again at 6D49 as long as DX has not moved (`ScanStays`), so there it
is only what was written that ends them. The scan has one module of size 0, as the comment says of the
video ROM. Heads and tests have no addresses in the source but for 6958 and EA86; the others are
symbols.

`run` fixes what a behaviour visits and where budgets cut. With a budget (`Paced`, `-icount`,
on by default in `run-realbios.sh`) an instruction that does I/O ends its block. 52BD and FF00, which
only far transfers reach, are hooked as D2D7 is, which stands for them here (`FarOnly`); a near CALL
may lead to 6998, whose block ends in a near RET, so nothing is claimed of it.
`HookErrorLog` comes before the pending reset, as in the source; `LazyFlags` says which copy of CF it
clears and which copy the guest reads.

### LoosePM

A selector is what the table has for it, its descriptor's level and its low bits. A segment's
base says how it was resolved: by the table, from the selector, or by real mode. `frames` is
what calls and interrupts have pushed, in order, with the number of words and whether
SS:SP is among them; `at` is the stack in use. Patched operations (`LoadSS`, `FarJump`,
`FarCall`, `LooseReturn`, `Interrupt`) and the faithful ones before the boot and in V86 mode work
on the same frames, and the boot may fall between a push and its pop. The guest is any guest that
returns in order from what it entered.

### SetupFloppy

The content of a sector is its number. One action per turn of the loader's loop with the
conversion of `.rd`, a read failure ends it; the far return, INT 19h through the stub's vector,
and a reset, at which QEMU's `once=a` is spent, lead out. `Reset` may come at any time.

### LzwUnpack and LzwPack

The bit stream is a sequence of codes of which the decoder sees as many low bits as its width
says. Table size, alphabet and widths are constants, so that small tables fill up and
grow in a run. All error exits of the tool are phases of their own. `LzwPack` is the textbook packer,
which sends the longest known string and makes a word of it and the next character; it may clear its
dictionary at any size (`Limits`) or never. It packs non-empty data: the tool takes a clear code that
an end code follows for an error (line 54).

## 3. Runs

| run | question | bounds |
| --- | --- | --- |
| `boot_session` | the boot controller's safety, its refinement of `BootSession`, whether it can always go on and Restart gets to the disk boot | all environments, resets through the ROM only and in every way; 3 counted resets, 3 characters, beep of 2 |
| `machine` | the memory map under a running boot controller | both launchers, 4 patch lists, 2 banks in a register of 4; one counted reset |
| `int13` | the walk and the partition entry | 12 image sizes, transfers of 1, 33 and 255 sectors |
| `chipset` | split accesses, latches, polling and restores | four pieces of software with two parts of the device each; registers 0Dh (fixed) and 0Fh with and without bit 7; bytes of 0..3 |
| `completers` | completed loops, ended waits and what they leave, missed hooks, resets that come or do not | one loop or wait at a time, forced sites in small groups; thresholds of 2 and 3; CX of 0, 1 and 7 in words of 8, bytes of 5, a copy bound of 6; a budget that cuts at one place |
| `loose_pm` | stack and level across mixed transfers | eight selectors of every kind, 0 or 1 argument words, 3 frames |
| `setup_floppy` | does the image arrive, does every exit lead to the disk | none: 454 sectors at 5000h |
| `lzw` | any stream, and unpacking what was packed | all streams of up to 5 codes; all data of up to 11 symbols of 2, packed under four clearing policies; a table of 10 |
| `v_*` | statements of the documentation that the code does not keep | those of the passing run of the same module or smaller |

Why the bounds are enough. In the boot controller a counted reset matters by whether `rb.gen`
equals `resetCount`; three allow two POSTs after the first and a reset within each. The beep
needs a character before, at and after its end. The port-level reset is not bounded at all. In the
memory map a cell is either as realized or written, so one probe value suffices. In the disk
service what matters is the position in the track and in the cylinder, and whether the high bits
of the cylinder are in use: the sizes go around a track (31 to 33), a cylinder (63 to 65), the
4 MB disk, twice that, and a disk of 625 cylinders. In the chipset two parts together show
every interference, as parts share nothing but the restore and the 4Fh shadow. In the completers a
threshold of 2 lets the hook fire in the first visit, in a later one and within one;
CX of 1 and 7 put the end before and after it, 7 is beyond the copy's bound, and 0 is the count LOOP and
the completers read differently; a block is made, linked and skipped for each
address on its own. Three frames hold a V86 monitor, a handler within it and a call within that. In
the unpacker the width grows once, the table fills, and a clear code comes before and after both;
five codes are enough to follow an entry left over from before a clear code. Section 5 says where
the theorems remove the bounds.

`CHECK_DEADLOCK FALSE` is set for the unpacker, which ends, and for the completers, where a guest
that halts with interrupts off before its reset is taken really stops.

**Fairness.** `FairSpec` of `PostCompleter` is weak fairness of the hook and the ROM taken together,
the vCPU thread executing block after block, and strong fairness of `PostBoot`: a POST that can
end does not reset itself for ever (a jump that skips the hook, `PostResetUnseen`, is not
counted, so no bound ends it). Keys, resets and the choice of Restart are under no
fairness. `FairLoopSpec` has weak fairness of the hook and of the wake-up of a CPU that halted with
interrupts on; strong fairness of the guest, which executes at least an instruction of each
block it enters however often it is interrupted, and of `HostKick`: QEMU's timers ask for an
exit again and again, and any block start grants it. So is that of `KickAtSite`, an exit
request at a wait's site: a wait with two blocks in its loop passes its hook for ever if every
request comes before the other one, and timers are not so synchronized with the guest. Budgets (`HostCut`) are under none. `FairSpec`
of `PC110Chipset` says that a guest that polls goes on polling, that of `SetupFloppy` that BIOS,
loader and stub run; the exits are the user's.

**Mutants.** Every property of a passing run has one: an operator next to the definition it
replaces, marked "variant", that changes it the way a plausible bug would.

## 4. Findings

Each `v_*` run checks one statement of the documentation, of a comment or of a test and finds it
violated; `PROJECT.json` quotes them.

| run | what happens |
| --- | --- |
| `v_restart` | in a realistic boot Restart comes straight back to Easy-Setup, since the key flag is never cleared there |
| `v_error_log` | the empty error log comes back with CF as it was: the override clears a bit QEMU does not keep CF in |
| `v_stale_chain` | after one completed visit the loop's jump back is linked to the completer's exit, and a later visit ends after one iteration |
| `v_returns_home` | a handler reached through an out-of-table selector with low bits calls a routine and is returned to at another base |

Met while modelling, and not given a run of their own.

Boot and keyboard:

- any keycode, a key's release included, sets the key flag, so any key enters Easy-Setup where
  `pc110post.c:256` says F1;
- a POST after the boot offers F1 again and then neither enters Easy-Setup nor boots
  (`pc110post.c:821` and 921, against 256-257);
- `PC110POSTUI=0` does not turn the realistic boot off: `run-realbios.sh:48` only refrains from
  setting it, and `pc110post.c:492` tests for presence;
- a port-level reset writes 1234h over the driver's 4321h (`pc110post.c:437`, against the comment
  at 587), and does not count in `g_reset_count` (446, against 481), so the POST after it shows no
  prompt. This is why `MagicResumes` speaks of resets through the ROM only and `PromptShown` lets an
  uncounted reset pass for a continuation of the POST before it;
- once 542C has a block that other blocks are linked to, later POSTs may miss prompt, beep
  counter and text mode; the same goes for `PC110RESUME` at 4656, for a jump to 5516 from its own page,
  and for the error-log override at 5F232h;
- with `PC110RESUME` a reset within a later POST resumes DOS with the beep still on.

Completers:

- the hit counters are static and start over only when a completer fires, so visits that ended by
  themselves count towards the next one (`pc110post.c:1096`, against 1091-1093); the budget
  of 53C1, meant for one string, counts the characters of all;
- entered at 3CC4 or 3CC6, the checksum adds AL and AH of the current word a second time; entered
  at 61DF or 61ED, the pattern loops run one iteration too many. `LoopEffect` excepts
  these entries, and links that already lead out of the loop;
- CX = 0 at a completer means that nothing is left (at the copy's: one block), where LOOP has 65536
  turns to go (`pc110post.c:78-79`, 102, 125, 140); `LoopEffect` excepts it, and copies longer than
  the bound;
- the jump back to 6961 or 6D3A, once linked to where the hook redirected it, leads past the hook: a
  later wait of 6961 then goes round its head and counts nothing until an interrupt sets the bit,
  and the scan may turn for ever. `VisitsEnd` excepts such links (`Rewired`); a link out of 6943,
  C960 or EA90 leaves a later wait without the bit or with CX left, which `WaitLooksOver` excepts;
- with chained blocks a hit is not an iteration; 61BE is forced at the arrivals the loop sees only;
- the comment of `complete_copy` has min(CX, 0x200), the code 0x8000; the checksum leaves AX and
  the flags as they were;
- the error-log answer comes before a pending keyboard-controller reset is looked at.

Chipset and disk:

- AH=08 reports 128 cylinders whatever the image (`pc110post.c:217`, against
  `disks/README.md:11-12`), so a larger image is out of its reach; `disks/README.md:74` tells the user to name a
  disk with `PC110_DISK`, which `run-realbios.sh:31` does not read;
- the POST of a reboot out of DOS can write the E segment, which the comment at
  `pc110-chipset.c:723` calls read-only for the POST;
- the font window ignores its enable register (`pc110-fontrom.c:95`);
- the vmstate leaves out `cmos` and `rtc_index` (`pc110-chipset.c:768`), so a restored machine has
  the seeded CMOS while register 0Dh says the battery is good; `ReadsBack` excepts that case. The
  statics of `pc110post.c` are in no vmstate at all;
- the comment at `pc110-chipset.c:186` sends an index with bit 7 set to the configuration bank,
  which the comment after it and the code do not.

Loose protected mode:

- a descriptor of eight zero bytes within the table is a good segment for loads, jumps, calls and
  returns and still faults for an interrupt; a null selector still faults for SS;
- SS takes its level from the low bits of a selector beyond the table and level 0 from an empty
  descriptor; a call gate is treated as a segment;
- a far return to the CS real mode left goes to the base of a descriptor, if there is one of that
  number;
- nothing clears `pc110_booted`, so a POST after the boot runs in loose mode.

## 5. Proofs

All theorems hold for every value of the constants, under the assumptions the modules name (bounds
are naturals, environments are environments, tables have room for the codes, the image fits on the
floppy, words have a multiple of four values and bytes more than one, the sites of the completers
are not the reset vector). Every property that a run checks is also a theorem, but for `VisitsEnd`
and `CanGoOn`. The types of `MemoryMap`, `Int13Disk`, `PC110Chipset` and `LoosePM` are proved
(`MemTypeCorrect`, `TypeCorrect`) and in no run.

**Liveness.** The prover has no ENABLED: it can use that an action is enabled and cannot find
out that it is. So each theorem about liveness has one hypothesis, with a name, that says where a
fair action is possible, and derives the property from it and from the fairness alone, for every value
of the constants. `CanGoOn` is more than the guards of single actions (it says that hook and ROM
between them leave no branch without a way on) and is checked by TLC on the run of the boot
controller. `NeverStuck`, `CanPoll` and `CanBoot` (in the proof modules) only restate guards as
ENABLED, and no run checks them:

| theorem | hypothesis | argument |
| --- | --- | --- |
| `ExitReachesDiskHolds` | `[]CanBoot` | out of Easy-Setup every boot step ends at the disk or in a stop (`ExitFindsDisk`), and one is always possible |
| `PollEndsHolds` | `[]CanPoll` | each read brings the busy count nearer to its end (`PollCounts`), and nothing takes a read back but the one restore (`ReadStays`) |
| `RestartLeads` | `[]CanGoOn` | under the setup script nothing leaves the way from the reset over POST, INT 19h and the boot decision to the disk load, but a reset of the POST, which starts the way again and which the strong fairness of `PostBoot` ends (`WayStep`, `WayInvariance`) |
| `ResetTakenHolds` | `[]NeverStuck` | the guest leaves any block within four instructions (`MidMoves`), and out of it an exit request brings it to the loop, where the hook resets at once or after one answer for the error log (`ArrivedMoves`) |

**Boot controller** (`MachineProofs`).
- `TypeCorrect`: types, with `Counted`: F000:5516 is entered below the bound.
- `SetupNeverOverDosHolds`, `BeepOff`: from `SafeInv`. The guards of 52BD alone are not
  inductive: whether the beep may be on under DOS depends on whether a POST with the beep on can
  still lead back to DOS, so `SafeInv` also says that only DOS tags resets (`TagsAfterBoot`), that
  a POST after the boot runs because nothing asked for a resume (`RepostPlain`), and where the beep
  and a pending reset can come from (`ToneWhere`, `PendingFrom`).
- `TaggedResumesHolds` from `CodeKept`; `MagicResumesHolds` from `MagicKept`, for guests whose
  resets all go through F000:5516 (section 4 says why).
- `PromptShownHolds` from `PromptKept`: a POST that owes its prompt and has printed is on the way
  through the injected mode set, and as long as it owes it the hook's `rb_modeset` is not set for it;
  that a reset may come anywhere is why it must speak of `RbNow`, what the hook will find at its next
  block, and not of `rb`.
- `F1NeverBootsDiskHolds` from `F1Kept`: an F1 that no Easy-Setup has honoured keeps the flag set,
  through every reset, and keeps the guest out of the branch that clears it. `NoFlipHolds` from
  `IdleKept`: in an untouched session either the key that opened it is still in the flag, or the
  flag is clear and PC110SETUP is on. Both use `BootsAtDiskLoad`: only the disk load boots.
- `Refinement`: every step of the controller is a step of `BootSession` or a stutter.

**Composition** (the same module). `MachineIsBoot`: the composition adds no step to the
controller, so its theorems carry over. `RomKept` (nothing writes C0000-DFFFF; nothing writes E
before the boot, and the boot is never taken back) gives `RomUntilBootHolds` and
`VgaBiosHolds`; with `SafeInv` it gives `SetupSeesRomHolds`. `MemTypeCorrect` and
`FontRomFoundHolds`, for every number of banks.

**CPU loop and completers** (`LoopCompletersProofs`). `ExecInv` adds `NeverTranslated` to the types: no
block exists where the hook always takes over, every link leads to a block, and code that runs has
one. It holds of `ExecLoop` whatever the guest, and gives `FarArrivalsSeenHolds`. `IsExecLoop`:
each step of the completers and their guest is a step of `ExecLoop`, so what holds there holds here.
`PacedNeverDiesHolds` from `PacedInv`: under -icount a guest behind its `OUT 64,FE` is in the loop
with the reset pending.

`LoopTypeCorrect`: the registers stay registers and the visit a visit, through every instruction of
the loops and every completer (`DataOK`). `LoopEffectHolds` is the property the completers exist for:
whenever the guest leaves a counted loop, by itself, by a completer after any number of its own turns,
or both, cut by interrupts and budgets anywhere, it has what the plain loop leaves. The invariant is
`EffectInv`: a visit is either `UnderWay`, which says that some state `q` at the head of the loop
would come to what is wanted by the plain loop, and that the registers are what the part of the body
already executed makes of `q`; or `Finished`, with what is wanted. A turn of the guest moves `q` on by
one `Iteration`. That a completer does the same as the turns left is a simulation: `Like` relates
states that differ in the count and the word read last only, one turn of the completer (`Adds`,
`Copies`, `Tests`) takes like states to like states, and repetition keeps that (`RepeatsAgree`). The
conditions are those of the property, each of them a finding: no link leads out of the loop already
(`LinksFaithful`), the completer is entered where it repeats nothing (`CleanEntries`) and with a
count it does in full (`WithinCount`). `WaitLooksOverHolds` from `OverInv`: nothing leads back from
where a wait was left (`JumpsInv`), and once the hook has fired the guest is at the exit or, behind
6961, on its way out with the bit set (`FiredInv`).

**Repetition** (`RepetitionProofs`). `Repeat(G, q, n)` is a recursive function, so it needs an
induction over n to know that it exists, is unique (`RepetitionExists`, `RepetitionUnique`) and may be
unrolled at either end (`RepeatIs`, `RepeatShift`). The library's induction theorems take an
operator as their parameter, which the provers cannot instantiate; the induction here is over sets
(`SetInduction`: a set of naturals with 0 and all successors has them all), from the
well-foundedness of < on the naturals.

**Loose protected mode** (`LoosePMProofs`). `FramesBalancedHolds` from `IInv`: each frame starts
where the one below it ends (`Chain`), a frame without SS:SP has the words its return takes, one with
SS:SP names the place it came from, in loose mode only the frame of a V86 monitor has it
(`Shapes`), and a faithful one has it exactly if its routine runs at another level than the one it
returns to (`KeepsLevels`). The boot keeps all this because it happens in real mode, where
there are no frames. `LevelOnlyThroughGatesHolds` from `KeepsLevels` too.

**Chipset** (`PC110ChipsetProofs`). `ReadsBackHolds` from `Mirrors`: on a bank that no restore has
taken from them, device and accessor agree on the selected register and on all contents.
`LatchAssembledHolds` for every width of a byte; `StaysReadyHolds` across a restore; `PollEndsHolds`.

**Disk service** (`Int13DiskProofs`). `PackRoundTrip` and `ChsRoundTrip` are the arithmetic of
CH and CL. `EntryEndsAtLastHolds` follows for every disk of up to 1024 cylinders.
`WalkInOrderHolds` and `WalkSeesDiskHolds` from `Walking`: the client holds the geometry of AH=08
and is where the latest read ended. `TypeCorrect`: the answers are of a legal shape.

**Easy-Setup floppy** (`SetupFloppyProofs`). `ImageInPlaceHolds` from `Loaded` (the sectors read so
far are in place and the loader's variables stand at the next) and `ChsRoundTrip`, for any image
that fits; `NeverBackHolds` from `Ways`: whoever runs after the loader started has the vector at the
stub or has spent `once=a`. `ExitFindsDisk`, from the same invariant, is the safety half of
`ExitReachesDisk`: after Easy-Setup every boot step ends at the hard disk or in a stop.
`ExitReachesDiskHolds` adds that such a step is taken.

**Unpacker** (`LzwUnpackProofs`). `Inv`: every defined code continues a smaller one and none
continues Clear or End, so an expansion goes down at least one code per character (`DepthOK`) and ends
before the length guard of `expand()`. It gives `TypeCorrect`, `ExpandNeverFailsHolds` and
`NextCodeReadableHolds`, for any stream.

`UnpackedHolds`: of a stream the packer makes, of any data and with any policy of clearing, the decoder takes no
error exit, and what is put out at the end code is the data; `RoundTripHolds` follows. The argument
runs decoder and packer in lock-step (`LockStep`). `PackerIs`, `PackerBegins` and `TurnSends` say
where in the stream the codes of the packer's i-th turn are. `Follows` says that for some i the
decoder has put out the n characters packed in i turns and is before, or in the middle of, the code
of turn i + 1. Between codes it is `Latest`: its dictionary is the beginning of the packer's
(`Matches`, through prefix and suffix), one word behind, and what it lacks of that word is the
character that comes next; or both are full. That is why the one code above the dictionary can only be
the string sent last and its own first character (`ReadingStep`), and why the code defined at the end of
an expansion is the packer's word (`EmitStep`). `Grown` (the width is never too small for the codes in
use, also when the table is full) makes the masking of `read_code()` harmless.

`Ends`: each step lowers `StepsLeft`, which is a natural number throughout and starts at MaxCodes + 3
steps for each code of the stream and one more, so the tool ends on every input. It is the safety half of a
liveness property, and all of it here, since nothing but the tool itself moves.

**Only model-checked.** `CanGoOn`, which is about ENABLED, so that `RestartLeads` stands on an
invariant that is checked on small instances only; `NeverStuck`, `CanPoll` and `CanBoot` are
hypotheses of their theorems. `VisitsEnd`: that a wait of any length ends needs an induction over
the count under fairness, and a temporal statement with a parameter is out of the prover's reach.

## 6. What is not modelled, and why

- *Diagnostics, window scaling, the build patch, `build-qemu.sh`, `run-personaware.sh`.* They change no
  guest state or are straight-line command lines.
- *INT 13h beside the IDE drive.* The service reads the file, the drive writes to a snapshot of it
  (`pc110post.c:198`, `run-realbios.sh:61`); whether DOS mixes the two is in the disk image, which
  the repository does not have.
- *Blocks translated from the E segment* before DOS wrote it (`pc110-chipset.c:420`). `ExecLoop` knows that a block
  exists, not which bytes it was made from; whether QEMU notices the write is its memory API's.
- *The hook at 5F232h over DOS* (`pc110post.c:362`): a model would have to assume the code it collides
  with.
- *savevm of the whole machine.* Only the chipset's and the font ROM's vmstate are this repository's.
- Register values no later code reads, the layout of screens, the palette fix, display and audio
  options, and the contents of ROM and disk images. Whether ROM, driver and Easy-Setup behave as the
  comments say is outside the models; another guest would need other actions in `Rom`
  and `Guest`.

What could come next: a continuation address at 40:67 beside the shutdown code in `DriverReset`,
and `PostCompleter` on top of `ExecLoop` itself, in place of the set `cached`.
