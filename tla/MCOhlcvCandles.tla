---- MODULE MCOhlcvCandles ----
(* Two clients and two timeframes, one twice the other; the history keeps  *)
(* one candle of the larger.                                               *)
EXTENDS OhlcvCandles

CONSTANTS c1, c2

OneClient == {c1}
MCClient == {c1, c2}
MCTimeframe == {1, 2}
====
