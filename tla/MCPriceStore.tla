---------------------------- MODULE MCPriceStore ----------------------------
(* Instances of PriceStore for TLC.                                        *)
EXTENDS PriceStore, TLC

\* One symbol on two exchanges: overlapping date sets and two version dates on
\* the one delete() is bound to, a single dataset on the other.
BothExchanges ==
  LET Stores(e, sets, dates) ==
        [listing : [symbol : Symbols, exchange : e], dates : sets, version : dates]
  IN  Stores({Home}, {{1, 2}, {2, 3}}, {1, 2}) \cup Stores(Exchanges \ {Home}, {{1, 2}}, {1})

\* Two clients are interchangeable.
ClientSymmetry == Permutations(Clients)
==============================================================================
