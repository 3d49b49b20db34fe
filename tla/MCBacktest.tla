------------------------------ MODULE MCBacktest ------------------------------
(* Instances of Backtest for TLC.                                          *)
EXTENDS Backtest

Config(symbols, capital, rate) == [symbols |-> symbols, capital |-> capital, rate |-> rate]

\* 0.2% is close to the default costs, 1.6% exceeds what buying sets aside.
CheapAndDear ==
  {Config(<<"a", "b">>, 100, 2), Config(<<"a", "b">>, 100, 16), Config(<<"b">>, 50, 9)}
==============================================================================
