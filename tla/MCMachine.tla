--------------------------------- MODULE MCMachine ---------------------------------
(* Small instances of Machine for TLC.                                             *)
EXTENDS Machine

HostFine == [image |-> TRUE, disk |-> TRUE]

\* The realistic boot and the Easy-Setup launcher, as a user with no exports gets them.
LaunchEnvs ==
    LET user == [postui |-> "unset", setup |-> FALSE, resume |-> FALSE]
    IN  {RunRealBios(user, HostFine), RunEasySetup(user, HostFine)}

\* Resets in every way.
AllExits == { {"rom", "port", "int19"} }

\* No patch, one in the VGA BIOS, two of the same cell, one under the copy.
PatchLists == { <<>>, << <<"E", "p">> >>, << <<"E", "p">>, <<"E", "q">> >>,
                << <<"C", "p">>, <<"F", "q">> >> }
====================================================================================
