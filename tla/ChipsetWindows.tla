------------------------------- MODULE ChipsetWindows -------------------------------
(* The index/data windows of pc110-chipset, the CMOS behind 70h/71h with its 4Fh   *)
(* shadow among them, and what a saved and restored machine keeps of them.  The    *)
(* accessors are the guest's, one per window: each writes an index and then uses   *)
(* the data port, interrupted by the others in between.  PC110Chipset composes them *)
(* with the rest of the device.                                                    *)

CONSTANTS
    Uses,         \* the parts of the device a piece of guest software uses, one set for each
    Regs,         \* low seven bits of an index
    Values        \* what a register may hold, besides its seed

\* The windows, and the scratch registers at 80h-8Fh, whose index is the port number.
Windows == {"rtc", "scamp", "mcu", "ext15", "ext35", "block2"}
Banks   == Windows \cup {"page"}

\* 74h/76h and 70h/71h hold 128 registers, the others 256.
HalfWindows == {"rtc", "scamp"}

\* The windows vmstate_pc110_chipset carries.
Saved == {"scamp", "mcu", "ext15", "ext35"}

ASSUME ValuesAssumption == Values \subseteq STRING /\ Regs \subseteq STRING

\* An index byte: bit 7 (for 70h the NMI mask) and the rest.
Indexes  == [bit7: BOOLEAN, reg: Regs]
Unset    == [bit7 |-> FALSE, reg |-> "none"]
Contents == Values \cup {"seed"}

VARIABLES
    use,          \* the parts in use, one of Uses
    index,        \* rtc_index, scamp_index, ...
    regs,         \* cmos, scamp_regs, ...
    config,       \* config_index
    chosen,       \* history: the index the accessor of a window wrote last
    wrote,        \* history: what the accessors stored
    seen,         \* history: the latest data read, and what its accessor stored there
    restored      \* history: the machine was restored from a saved one

banks == <<index, regs, config, chosen, wrote, seen>>

\* Which register of window w an index byte selects.
At(w, i) == IF w \in HalfWindows THEN [bit7 |-> FALSE, reg |-> i.reg] ELSE i

BanksTypeOK ==
    /\ index \in [Banks -> Indexes \cup {Unset}]
    /\ regs \in [Banks -> [Indexes \cup {Unset} -> Contents]]
    /\ config \in Indexes \cup {Unset}
    /\ seen.have \in Contents
    /\ use \in Uses /\ restored \in BOOLEAN

------------------------------------------------------------------------------------
\* Realization seeds the windows.
Fresh == [w \in Banks |-> [i \in Indexes \cup {Unset} |-> "seed"]]

BanksInit ==
    /\ use \in Uses
    /\ index = [w \in Banks |-> Unset] /\ regs = Fresh /\ config = Unset
    /\ chosen = index /\ wrote = Fresh
    /\ seen = [window |-> "none", have |-> "seed", want |-> "seed"]
    /\ restored = FALSE

------------------------------------------------------------------------------------
(* The banks.                                                                      *)

\* scamp_write masks the index it stores; the others keep the byte.
Select(w, i) ==
    /\ index' = [index EXCEPT ![w] = IF w = "scamp" THEN At(w, i) ELSE i]
    /\ chosen' = [chosen EXCEPT ![w] = i]
    /\ UNCHANGED <<regs, config, wrote, seen>>

\* variant: 4Fh is an alias of 70h
ConfigTo_Rtc(i) == config' = i /\ index' = [index EXCEPT !["rtc"] = i]

ConfigTo(i) == config' = i /\ UNCHANGED index

\* cfg_write, port 4Fh
SelectConfig(i) == ConfigTo(i) /\ UNCHANGED <<regs, chosen, wrote, seen>>

\* The register the index selects.
RegOf(w) == At(w, index[w])

\* The register a data access goes to, and the one its accessor means.
Accesses(w) ==
    IF w = "page" THEN {[reg |-> i, meant |-> i] : i \in Indexes}
    ELSE {[reg |-> RegOf(w), meant |-> At(w, chosen[w])] : i \in {chosen[w]} \ {Unset}}

Store(w, v) == \E a \in Accesses(w) :
    /\ regs' = [regs EXCEPT ![w][a.reg] = v]
    /\ wrote' = [wrote EXCEPT ![w][a.meant] = v]
    /\ UNCHANGED <<index, config, chosen, seen>>

\* cmos_get: 0Ah loses its UIP bit, 0Ch reads as zero, 0Dh as valid.
Fixed(w, i) == w = "rtc" /\ i.reg \in {"0A", "0C", "0D"}

Load(w) == \E a \in Accesses(w) :
    /\ ~Fixed(w, a.reg)
    /\ seen' = [window |-> w, have |-> regs[w][a.reg], want |-> wrote[w][a.meant]]
    /\ UNCHANGED <<index, regs, config, chosen, wrote>>

------------------------------------------------------------------------------------
(* savevm and loadvm: a fresh device takes over what the vmstate lists.            *)

Restored(f, g) == [w \in Banks |-> IF w \in Saved THEN f[w] ELSE g[w]]

RestoreWith(i) ==
    /\ index' = i
    /\ regs' = Restored(regs, Fresh)
    /\ UNCHANGED <<config, chosen, wrote, seen>>

RestoreBanks == RestoreWith(Restored(index, [w \in Banks |-> Unset]))

------------------------------------------------------------------------------------
Access == \/ \E w \in use \cap Windows, i \in Indexes : Select(w, i)
          \/ \E i \in Indexes : "rtc" \in use /\ SelectConfig(i)
          \/ \E w \in use \cap Banks, v \in Values : Store(w, v)
          \/ \E w \in use \cap Banks : Load(w)

------------------------------------------------------------------------------------
\* A data read returns what the accessor of that register stored there, whatever the
\* accessors of the other banks and of 4Fh do between its index and its data, and
\* for a window in the vmstate also across a restore.
ReadsBack ==
    seen.window \in Saved \/ ~restored => seen.have = seen.want
====================================================================================
