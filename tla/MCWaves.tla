------------------------------- MODULE MCWaves -------------------------------
(* An instance of Waves: widths on both sides of a buffer's length and of the  *)
(* triangle's bounds, a rest and a frequency above the sample rate.            *)
EXTENDS Waves

MCFreqs == {-1, 3, 4, 6, 8, 25, 99}
=============================================================================
