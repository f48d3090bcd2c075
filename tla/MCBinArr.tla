------------------------------ MODULE MCBinArr -------------------------------
(* The ends of the ranges of four-valued bytes: -2 of one of them, 7 of two,      *)
(* -128 and 255 of four.  As floats, in steps of 1/64 and with a significand      *)
(* below 64: one that scaling rounds up, to a number above it (-51), and one that *)
(* loses a part when it is sent on (7).                                           *)
EXTENDS BinArr

MCNumbers == {-128, -51, -2, 7, 255}
=============================================================================
