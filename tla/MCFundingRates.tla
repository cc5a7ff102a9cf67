---- MODULE MCFundingRates ----
(* Three exchanges in batches of two, so that the last batch is not full. *)
EXTENDS FundingRatesMonitor

CONSTANTS e1, e2, e3, x1, x2

MCExchangeIds == <<e1, e2, e3>>
MCCycle == {x1, x2}
====
