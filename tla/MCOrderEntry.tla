---------------------------- MODULE MCOrderEntry ----------------------------
(***************************************************************************)
(* OrderEntry scaled for TLC: 3-digit tokens instead of 14, 100 order      *)
(* slots instead of 2^20, a 9-bit persisted index instead of 32 bits (so   *)
(* that, as in the code, the index is narrower than the token), 3-bit      *)
(* quantities.  The seeds are values the app_parameters file may hold:     *)
(* none, one just below a carry into the middle digit, one whose tokens    *)
(* overflow the persisted index.                                           *)
(***************************************************************************)
EXTENDS OrderEntry

MCSeeds == {0, 88, 509}

MCCarrySeeds == {88}

=============================================================================
