--------------------------- MODULE MCMarketCache ---------------------------
(* An ETF that trades and an option that is only quoted, so that the cache *)
(* and the monitor see different last values.                              *)
EXTENDS MarketCache
=============================================================================
