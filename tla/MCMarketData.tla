----------------------------- MODULE MCMarketData -----------------------------
(* Instances of MarketData for TLC. *)
EXTENDS MarketData, TLC

TwoFrames == <<"1m", "5m">>
================================================================================
