------------------------- MODULE MCMarketDataClient -------------------------
(***************************************************************************)
(* Model-checking instance of MarketDataClient.  The bounds are set in the *)
(* .cfg files: a feed of a handful of messages in packets of one or two,   *)
(* enough for a first packet that is not number 1, a rewind answered in   *)
(* several chunks, reordered chunks and a live packet lost after catch-up. *)
(***************************************************************************)
EXTENDS MarketDataClient

=============================================================================
