------------------------------- MODULE MCInt13Disk -------------------------------
(* A small instance of Int13Disk for TLC.                                         *)
EXTENDS Int13Disk

\* No file, part of a track, the sizes around a track and a cylinder, the 4 MB disk
\* of the README, an 8 MB CF and a disk whose cylinders need CL's high bits.
SomeImages == {0, 1, 31, 32, 33, 63, 64, 65, 200, 8192, 16384, 40000}
==================================================================================
