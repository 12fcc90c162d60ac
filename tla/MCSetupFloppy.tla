-------------------------------- MODULE MCSetupFloppy --------------------------------
(* SetupFloppy for TLC, with the numbers of setupboot-floppy.asm.                  *)
EXTENDS SetupFloppy

ImageSectors == 454
ImageSegment == 5 * 4096      \* 5000h
====================================================================================
