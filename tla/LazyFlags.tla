--------------------------------- MODULE LazyFlags ---------------------------------
(* How QEMU keeps the guest's condition codes and how the POST completer writes     *)
(* them.  The arithmetic flags live in cc_src (with cc_op saying how to read them); *)
(* the flags a guest sees are cpu_compute_eflags(), those of cc_src over those of   *)
(* env->eflags, whose own copies of these bits are kept clear.                      *)

Codes     == {"C", "Z"}
FlagsType == [cc: SUBSET Codes, eflags: SUBSET Codes]

ComputeEflags(f) == f.cc \cup f.eflags

\* pc_store_eflags
StoreEflags(codes) == [cc |-> codes, eflags |-> {}]

With(codes, c, on) == IF on THEN codes \cup {c} ELSE codes \ {c}

\* set_zf and set_cf
SetZf(f, on) == StoreEflags(With(ComputeEflags(f), "Z", on))
SetCf(f, on) == StoreEflags(With(ComputeEflags(f), "C", on))

\* The guest's own instructions go through cc_src too.
Carry(f) == "C" \in ComputeEflags(f)
Zero(f)  == "Z" \in ComputeEflags(f)

NoFlags == StoreEflags({})
====================================================================================
