---------------------------------- MODULE ExecLoop ---------------------------------
(* cpu_exec_loop() of QEMU with the PC110 hook in it (patches/01): whenever the     *)
(* loop is about to look up a translation block it calls pc110_post_intercept()     *)
(* and, when that returns true, starts over at the new eip.  Translated code runs   *)
(* from block to block without coming back: over links patched into its direct      *)
(* jumps, or by looking the next block up itself.  So the hook sees an arrival at   *)
(* an address only when the guest gets there through the loop.                      *)
(*                                                                                  *)
(* The module describes any guest; LoopCompleters gives it one.  Only the call of   *)
(* the hook is this repository's: the rest is how QEMU behaves around it.           *)

CONSTANTS
    Addrs,        \* guest addresses
    Hooked,       \* those the hook looks at
    Always,       \* those of them at which it always takes over (returns true)
    FarOnly,      \* addresses no direct jump leads to, only INT, IRET, RET and far jumps
    ResetVector   \* F000:FFF0

ASSUME AddrsAssumption == /\ Hooked \subseteq Addrs /\ Always \subseteq Hooked
                          /\ FarOnly \subseteq Addrs
                          /\ ResetVector \in Addrs \ Hooked

VARIABLES
    at,           \* where the guest is
    mode,         \* "loop" (about to call the hook), "code" or "halted"
    block,        \* in code: the start of the block that runs
    translated,   \* the blocks that exist
    links,        \* patched jumps: from block `from`, meant for `to`, lead to `jump`
    last,         \* last_tb and its exit, a block and the target it meant
    pending,      \* pc110_kbc_reset_pending
    skipped       \* history: hooked addresses the guest got to without the hook

cache == <<block, translated, links>>
vars  == <<at, mode, cache, last, pending, skipped>>

NoExit == <<>>
Links  == [from: Addrs, to: Addrs, jump: Addrs]

\* The cache holds what the loop has put there.
TypeOK ==
    /\ at \in Addrs /\ block \in Addrs
    /\ mode \in {"loop", "code", "halted"}
    /\ translated \subseteq Addrs
    /\ links \subseteq Links
    /\ last \in (Addrs \X Addrs) \cup {NoExit}
    /\ pending \in BOOLEAN
    /\ skipped \subseteq Hooked

Init ==
    /\ at = ResetVector /\ block = ResetVector /\ mode = "loop"
    /\ translated = {} /\ links = {} /\ last = NoExit
    /\ pending = FALSE /\ skipped = {}

------------------------------------------------------------------------------------
(* In the loop: the hook, then the lookup.                                         *)

\* The hook takes over and the loop starts again at another address.  `continue`
\* keeps last_tb, which still names the block that meant to come to this address.
Continue(exit) ==
    /\ mode = "loop"
    /\ at' = exit
    /\ UNCHANGED <<mode, cache, last, skipped>>

\* variant: the reset is done and stays pending
TakeReset_Keeps == pending /\ UNCHANGED pending /\ Continue(ResetVector)

\* A pending keyboard-controller reset is taken wherever the guest is.
TakeReset == pending /\ pending' = FALSE /\ Continue(ResetVector)

\* variant: the hook comes after the block has been looked up and translated
Complete_AfterLookup(exit) ==
    /\ mode = "loop" /\ ~pending
    /\ at' = exit
    /\ translated' = translated \cup {at}
    /\ UNCHANGED <<mode, block, links, last, pending, skipped>>

\* It takes over, looking at the reset first or not.
Answer(exit)   == Continue(exit) /\ UNCHANGED pending
Complete(exit) == ~pending /\ Answer(exit)

Linked(from, to) == \E l \in links : l.from = from /\ l.to = to

\* tb_add_jump: the jump that led here is patched, unless it already was.
LinkLast ==
    IF last = NoExit \/ (\E l \in links : l.from = last[1] /\ l.to = last[2])
    THEN links
    ELSE links \cup {[from |-> last[1], to |-> last[2], jump |-> at]}

\* variant: the pending reset is looked at after the rest
EnterBlock_First ==
    /\ mode = "loop"
    /\ translated' = translated \cup {at}
    /\ links' = LinkLast
    /\ block' = at
    /\ mode' = "code" /\ last' = NoExit
    /\ UNCHANGED <<at, pending, skipped>>

\* The hook returned false: find or make the block, patch the jump that led here.
EnterBlock ==
    /\ mode = "loop" /\ ~pending
    /\ translated' = translated \cup {at}
    /\ links' = LinkLast
    /\ block' = at
    /\ mode' = "code" /\ last' = NoExit
    /\ UNCHANGED <<at, pending, skipped>>

Enter == at \notin Always /\ EnterBlock

------------------------------------------------------------------------------------
(* In translated code.                                                             *)

\* The guest goes on within its block, over whatever the hook would look at.
Inside(t) ==
    /\ mode = "code" /\ t \notin FarOnly
    /\ at' = t
    /\ skipped' = skipped \cup ({t} \cap Hooked)
    /\ UNCHANGED <<mode, cache, last>>

\* A direct jump: over its link, or through the loop when it has none.
JumpTo(t) ==
    /\ mode = "code" /\ t \notin FarOnly
    /\ \/ \E l \in links :
            /\ l.from = block /\ l.to = t
            /\ at' = l.jump /\ block' = l.jump
            /\ skipped' = skipped \cup ({t} \cap Hooked)
            /\ UNCHANGED <<mode, last, translated, links>>
       \/ /\ ~Linked(block, t)
          /\ at' = t /\ mode' = "loop" /\ last' = <<block, t>>
          /\ UNCHANGED <<cache, skipped>>

\* Any other transfer looks its block up and runs it, or returns to the loop.
FarTo(t) ==
    /\ mode = "code"
    /\ at' = t
    /\ \/ /\ t \in translated
          /\ block' = t
          /\ skipped' = skipped \cup ({t} \cap Hooked)
          /\ UNCHANGED <<mode, last, translated, links>>
       \/ /\ mode' = "loop" /\ last' = NoExit
          /\ UNCHANGED <<cache, skipped>>

\* OUT 64,FE: pckbd.c only sets the flag (patches/02).
Out64 == pending' = TRUE

Halt == /\ mode = "code" /\ mode' = "halted"
        /\ UNCHANGED <<at, cache, last, pending, skipped>>

------------------------------------------------------------------------------------
(* From outside: interrupts, timers, the instruction budget.                       *)

\* An exit request, honoured where blocks start, and in the loop by forgetting last_tb.
Kick ==
    /\ \/ mode = "code" /\ at = block
       \/ mode = "loop" /\ last # NoExit
    /\ mode' = "loop" /\ last' = NoExit
    /\ UNCHANGED <<at, cache, pending, skipped>>

\* The instruction budget ends in the middle of a block; the next one starts there.
Cut ==
    /\ mode = "code" /\ at # block
    /\ mode' = "loop" /\ last' = NoExit
    /\ UNCHANGED <<at, cache, pending, skipped>>

\* An interrupt wakes the CPU.
Wake ==
    /\ mode = "halted"
    /\ mode' = "loop" /\ last' = NoExit
    /\ UNCHANGED <<at, cache, pending, skipped>>

------------------------------------------------------------------------------------
(* Any guest.                                                                      *)

InLoop  == TakeReset \/ Enter \/ \E t \in Addrs : Complete(t) \/ Answer(t)

InCode  == /\ \E t \in Addrs : Inside(t) \/ JumpTo(t) \/ FarTo(t)
           /\ Out64 \/ UNCHANGED pending

Outside == Kick \/ Cut \/ Wake

Next == InLoop \/ InCode \/ Halt \/ Outside

Spec == Init /\ [][Next]_vars

------------------------------------------------------------------------------------
\* No block exists at an address where the hook always takes over, so no link and no
\* lookup of translated code can lead into one (the hook comes before tb_lookup).
NeverTranslated ==
    /\ translated \cap Always = {}
    /\ \A l \in links : l.jump \in translated
    /\ mode # "loop" => block \in translated

\* An address where the hook always takes over, and to which no direct jump leads, is
\* never passed unseen, whatever is cached: F000:52BD, FF00 and D2D7 rely on it.
FarArrivalsSeen == skipped \cap Always \cap FarOnly = {}
====================================================================================
