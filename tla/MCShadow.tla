------------------------------ MODULE MCShadow -------------------------------
(* A clean fixture, one the risk evaluation refuses, one with several faults.   *)
EXTENDS Shadow

Clean == [market |-> {}, account |-> {}, request |-> {}, risk |-> {}, short |-> FALSE]

MCFixtures ==
  {Clean, [Clean EXCEPT !.risk = {"risk"}],
   [Clean EXCEPT !.account = {"synthetic_short_position"}, !.short = TRUE,
                 !.request = {"quantity_must_be_positive", "instrument_not_allowed"}]}

MCPublicFaults == {{}, {"stale_market_data", "instrument_not_live"}}
=============================================================================
