------------------------------- MODULE MCPC110Chipset -------------------------------
(* PC110Chipset for TLC.                                                           *)
EXTENDS PC110Chipset

\* A shadowed and unsaved window beside a masked and saved one; a saved window with
\* the registers that have no index; the rest of the device.
SomeUses == {{"rtc", "scamp"}, {"ext15", "page"}, {"block2", "status"}, {"clock", "status"}}
====================================================================================
