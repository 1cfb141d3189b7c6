----------------------------- MODULE MCFixGateway -----------------------------
(* Orders and bars for TLC: a sell used twice with different content, a market *)
(* sell that carries a price, a limit sell, a stop-limit buy, an unsupported    *)
(* one; prices around their levels.                                            *)
EXTENDS FixGateway

Order(side, type, tif, limit, stop) ==
    [NoOrder EXCEPT !.side = side, !.type = type, !.qty = 1, !.tif = tif,
                    !.limit = limit, !.stop = stop]
Template(id, order, ok) == [id |-> id, order |-> order, acceptable |-> ok]

MCTemplates == <<Template(1, Order("sell", "market", "gtc", 3, NoPrice), TRUE),
                 Template(2, Order("sell", "limit", "gtc", 2, NoPrice), TRUE),
                 Template(3, Order("buy", "stop_limit", "ioc", 2, 2), TRUE),
                 Template(3, Order("buy", "stop", "gtc", NoPrice, 3), FALSE)>>
MCBars == {[open |-> 2, low |-> 1, high |-> 3], [open |-> 3, low |-> 3, high |-> 3]}
=============================================================================
