-------------------------------- MODULE PC110Chipset --------------------------------
(* The registers of pc110-chipset as one device: the banks, the clock latches and  *)
(* the status port, with one savevm and one loadvm.  (Its memory windows are in     *)
(* MemoryMap; ports EEh, EFh, 3E0h, 3E1h, 3F0h and 3F1h read FFh and keep nothing,  *)
(* and 15E8h is zero from realization on.)                                          *)
EXTENDS ChipsetWindows, ChipsetStatus

vars == <<use, banks, clock, status, restored>>

TypeOK == BanksTypeOK /\ StatusTypeOK

Init == BanksInit /\ StatusInit

------------------------------------------------------------------------------------
UseBanks   == Access /\ UNCHANGED <<use, clock, status, restored>>
UseClock   == "clock" \in use /\ ClockWrite /\ UNCHANGED <<use, banks, status, restored>>
StartPoll  == "status" \in use /\ Poll /\ UNCHANGED <<use, banks, clock, restored>>
PollStatus == ReadStatus /\ UNCHANGED <<use, banks, clock, restored>>

\* A machine is saved at any point and its state loaded into another.
Restore ==
    /\ ~restored /\ restored' = TRUE
    /\ RestoreBanks /\ RestoreStatus
    /\ UNCHANGED use

Next == UseBanks \/ UseClock \/ StartPoll \/ PollStatus \/ Restore

Spec == Init /\ [][Next]_vars

\* A guest that polls goes on polling.
FairSpec == Spec /\ WF_vars(PollStatus)

------------------------------------------------------------------------------------
\* Until a restore, which forgets it, a clock latch holds the word the guest assembled
\* from byte and word writes, lock bit included (clk22_write).
LatchAssembled == ~restored => latch = bytes.lo + bytes.hi * (ByteMax + 1)

\* Once ready, the status port never reads busy again, on a restored machine neither:
\* the counter restarts, the saved status byte keeps it ready.
StaysReady == [][~busy => ~busy']_vars

\* A guest that waits for 15ECh to become ready gets through, restored or not.
PollEnds == polling ~> ~polling
====================================================================================
