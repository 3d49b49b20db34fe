--------------------------- MODULE MCMarketPipeline ---------------------------
(* Instances of MarketPipeline for TLC.                                    *)
EXTENDS MarketPipeline, TLC

AllRequests == Request
OneSymbol   == {<<"a">>}
TwoSymbols  == {<<"a", "b">>}
\* Records that may not convert: two days that are the first, the last or the
\* only ones left of some window; the last day.
MidWeek == {[symbol |-> "a", day |-> d] : d \in {3, 4}}
LatestDay == {[symbol |-> s, day |-> LastDay] : s \in Symbols}

ClientSymmetry == Permutations(Clients)
==============================================================================
