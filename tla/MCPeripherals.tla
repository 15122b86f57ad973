--------------------------- MODULE MCPeripherals ----------------------------
(* An instance of Peripherals for TLC.  Values: none, a small and a large  *)
(* one of either sign.  Rows of a stopline: those of the mask, and some    *)
(* above it, above the picture and below the picture.                      *)
EXTENDS Peripherals

MCValues == {-5, 0, 1, 30, NaN}
MCFound == {-3, 5, 25} \union (10 .. 19)
=============================================================================
