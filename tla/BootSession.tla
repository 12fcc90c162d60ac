-------------------------------- MODULE BootSession --------------------------------
(* What a user of the real-BIOS build is promised, whatever the POST completer     *)
(* does inside: the machine POSTs, shows Easy-Setup as often as it is asked to     *)
(* before an operating system is loaded, loads the disk at most once, and from     *)
(* then on a reset brings either the running DOS back or the POST - never the      *)
(* Easy-Setup image over DOS's memory, and never a second load of the disk.        *)

VARIABLES stage,    \* "post", "setup", "dos" or "stuck"
          loaded    \* the boot sector has been loaded

sessionVars == <<stage, loaded>>

SessionTypeOK == /\ stage \in {"post", "setup", "dos", "stuck"}
                 /\ loaded \in BOOLEAN

Init == stage = "post" /\ loaded = FALSE

EnterSetup == /\ stage = "post" /\ ~loaded
              /\ stage' = "setup"
              /\ UNCHANGED loaded

LeaveSetup == /\ stage = "setup"
              /\ stage' = "post"
              /\ UNCHANGED loaded

LoadDisk == /\ stage = "post" /\ ~loaded
            /\ stage' = "dos"
            /\ loaded' = TRUE

\* A reset, or a jump back into the ROM, out of the running system.
LeaveDos == /\ stage = "dos"
            /\ stage' = "post"
            /\ UNCHANGED loaded

Resume == /\ stage = "post" /\ loaded
          /\ stage' = "dos"
          /\ UNCHANGED loaded

\* The ROM's own INT 19h, which finds no device it can boot.
GiveUp == /\ stage = "post"
          /\ stage' = "stuck"
          /\ UNCHANGED loaded

Next == EnterSetup \/ LeaveSetup \/ LoadDisk \/ LeaveDos \/ Resume \/ GiveUp

Spec == Init /\ [][Next]_sessionVars
====================================================================================
