------------------------------- MODULE MCApi -------------------------------
(* An instance of Api: an institution f with quarters, an amendment, a notice, *)
(* an undated filing, a fund's reports, a stake in company c and insiders'     *)
(* filings about it, one without a trade and one with an undated one, a few of *)
(* which EDGAR offers at a time; lists are cut short.                          *)
EXTENDS Api

CONSTANTS aapl, cola, tick, cikC, cikF, inc, corp

MCText  == {aapl, cola, tick, cikC, cikF, inc, corp}
MCShort == [t \in MCText \cup {None} |-> t]
MCCik   == {"c", "f"}
MCCikText == [f \in MCCik |-> IF f = "c" THEN cikC ELSE cikF]

Security(cusip, ticker, issuer, name) ==
  [cusip |-> cusip, ticker |-> ticker, issuer |-> issuer, name |-> name]
ByCusip(c)    == Security(c, None, None, None)
L(ref, n, v)  == [ref |-> ref, shares |-> n, value |-> v, txns |-> <<>>]
Trades(ref, dates) == [ref |-> ref, shares |-> 0, value |-> 0, txns |-> dates]

Filed(ciks, name, form, filed, p, ls) ==
  [ciks |-> ciks, names |-> {name}, form |-> form, filed |-> filed, period |-> p,
   main |-> TRUE, table |-> ls # <<>>, lines |-> ls]
F13(form, filed, p, ls) == Filed({"f"}, None, form, filed, p, ls)

MCAccession == {"q1", "q2", "q2a", "q3", "nt", "noq", "g1", "n0", "n1", "d", "t", "t0", "t5", "ten"}

MCDoc ==
  [a \in MCAccession |->
     CASE a = "q1"  -> F13("13F-HR", 1, 1, <<L(ByCusip(aapl), 1, 10), L(ByCusip(cola), 2, 4)>>)
       [] a = "q2"  -> F13("13F-HR", 2, 2, <<L(ByCusip(aapl), 3, 9), L(ByCusip(aapl), 1, 2)>>)
       [] a = "q2a" -> F13("13F-HR/A", 4, 2, <<L(ByCusip(aapl), 1, 2), L(ByCusip(cola), 2, 5)>>)
       [] a = "q3"  -> F13("13F-HR", 3, 3, <<L(ByCusip(aapl), 40, 50), L(ByCusip(cola), 0, 0)>>)
       [] a = "nt"  -> F13("13F-NT", 3, 3, <<>>)
       [] a = "noq" -> F13("13F-HR", 3, NoPeriod, <<L(ByCusip(cola), 1, 1)>>)
       [] a = "g1"  -> Filed({"c"}, corp, "13F-HR", 1, 1, <<L(ByCusip(cola), 5, 5)>>)
       [] a = "n0"  -> Filed({"f"}, None, "NPORT-P", 2, NoPeriod, <<L(ByCusip(aapl), 0, 3)>>)
       [] a = "n1"  -> Filed({"f"}, None, "NPORT-P", 3, 1, <<L(ByCusip(cola), 0, 3)>>)
       [] a = "d"   -> Filed({"c", "f"}, None, "SC 13D", 3, 2,
              <<L(Security(cola, None, cikC, inc), 9, 0)>>)
       [] a = "t"   -> Filed({"c", "f"}, corp, "4", 2, 2,
              <<Trades(Security(None, tick, cikC, inc), <<2, 0>>)>>)
       [] a = "t0"  -> Filed({"c"}, None, "3/A", 1, 1,
              <<Trades(Security(None, None, cikC, None), <<>>)>>)
       [] a = "t5"  -> Filed({"c"}, None, "5", 3, 1,
              <<Trades(Security(None, tick, cikC, None), <<1, 3>>)>>)
       [] a = "ten" -> Filed({"f"}, None, "10-K", 3, 3, <<>>)]

MCOffers ==
  {{"q1", "q2", "q2a", "nt"}, {"q1", "q2", "q3"}, {"q2", "q2a", "q3"}, {"q1", "noq", "g1"},
   {"n0", "n1", "ten"}, {"g1", "d"}, {"d", "t0", "t5"}, {"t", "t0", "t5"}}
=============================================================================
