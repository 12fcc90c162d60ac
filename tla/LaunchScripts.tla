------------------------------- MODULE LaunchScripts -------------------------------
(* How the shell scripts turn the user's environment into the one QEMU sees.       *)
(* The C code tests every PC110* switch with getenv(), that is, for PRESENCE: a    *)
(* variable set to "0" is on.  `exec env A=1 qemu` keeps all the variables the     *)
(* user exported, so a script can add a switch and cannot take one away.           *)

\* What the user exports before running a script.
Users == [postui: {"unset", "0", "1"}, setup: BOOLEAN, resume: BOOLEAN]

\* What the host's files look like: the unpacked Easy-Setup image is there, and
\* the disk image holds at least the 512 bytes of a boot sector.
HostFiles == [image: BOOLEAN, disk: BOOLEAN]

\* The switches and files the POST completer acts on.
QemuEnvs == [postui: BOOLEAN, setup: BOOLEAN, resume: BOOLEAN,
             image: BOOLEAN, disk: BOOLEAN]

\* getenv(): a variable exported with any value counts.
Present(value) == value # "unset"

\* run-realbios.sh adds PC110POSTUI=1 unless the user's value is "0".
RunRealBios(user, files) ==
    [postui |-> Present(user.postui) \/ user.postui # "0",
     setup  |-> user.setup,
     resume |-> user.resume,
     image  |-> files.image,
     disk   |-> files.disk]

\* run-easysetup-realbios.sh adds PC110SETUP=1 and refuses to start without the
\* unpacked image.
RunEasySetup(user, files) ==
    [postui |-> Present(user.postui),
     setup  |-> TRUE,
     resume |-> user.resume,
     image  |-> TRUE,
     disk   |-> files.disk]
====================================================================================
