------------------------------ MODULE MCPostCompleter ------------------------------
(* Small instances of PostCompleter for TLC: the environments each run starts in.  *)
EXTENDS PostCompleter

HostOk == [image |-> TRUE, disk |-> TRUE]

\* What the two scripts can hand to QEMU, whatever the user exports and has on disk,
\* and QEMU started by hand.
ScriptEnvs == {RunRealBios(u, f) : u \in Users, f \in HostFiles}
                  \cup {RunEasySetup(u, f) : u \in Users, f \in HostFiles}
AllEnvs    == QemuEnvs \cup ScriptEnvs

\* The README's command line for a realistic boot.
RealisticEnvs ==
    {RunRealBios([postui |-> "unset", setup |-> FALSE, resume |-> FALSE], HostOk)}

\* Resets through the ROM only, and in every way.
AllExits == { {"rom"}, {"rom", "port", "int19"} }
====================================================================================
