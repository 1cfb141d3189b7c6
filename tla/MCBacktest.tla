------------------------------ MODULE MCBacktest ------------------------------
(* Series 1 is spot and series 2 a perpetual.  Prices are multiples of 64, so   *)
(* that the averages of a bounded run divide exactly, or small odd numbers.    *)
EXTENDS Backtest

MCSpot(s) == s = 1
Conf(type, tif, notional, target) ==
    [type |-> type, tif |-> tif, notional |-> notional, target |-> target,
     offset |-> 2500, limit |-> 2500]
MCTypes == {Conf("market", "gtc", TRUE, 256), Conf("limit", "gtc", FALSE, 2),
            Conf("stop", "ioc", FALSE, 1), Conf("stop_limit", "gtc", FALSE, 2)}
MCRates == {-1, 1}
MCLimits == [order |-> NoLimit, position |-> NoLimit, gross |-> NoLimit, net |-> NoLimit,
             ratio |-> NoLimit, drawdown |-> 50, open |-> 1, noShorts |-> TRUE]
=============================================================================
