------------------------------ MODULE MCIngest ------------------------------
(* An instance of Ingest.  Sessions are the worker and the API's background     *)
(* task; the filings are chosen so that calls meet on a filer, on a security, *)
(* on an accession number and on the order in which rows are locked.          *)
EXTENDS Ingest

CONSTANTS aapl, cola, apple, issuer

MCText  == {aapl, cola, apple, issuer}
MCShort == [t \in MCText \cup {None} |-> t]
MCCik   == {"f1", "f2"}

Sec(c)      == [cusip |-> c, ticker |-> None, issuer |-> None, name |-> None]
Named(c, n) == [Sec(c) EXCEPT !.name = n]
L(sec, n)   == [ref |-> sec, shares |-> n, value |-> n, txns |-> <<>>]

F13(p, names, lines) ==
  [ciks |-> {"f1"}, names |-> names, form |-> "13F-HR", filed |-> p, period |-> p,
   main |-> TRUE, table |-> TRUE, lines |-> lines]

Stake(sec) ==
  [ciks |-> {"f2"}, names |-> {None}, form |-> "SC 13D", filed |-> 2, period |-> 1,
   main |-> TRUE, table |-> FALSE, lines |-> <<L(sec, 9)>>]

\* Two quarters of one filer that name the securities in opposite orders, one of
\* them with a name, an amendment, another filer's stake that adds the
\* issuer, and an unsupported form.
MCAccession == {"q1", "q1a", "q2", "s", "ten"}

MCDoc ==
  [a \in MCAccession |->
     CASE a = "q1"  -> F13(1, {None}, <<L(Sec(aapl), 1), L(Sec(cola), 2)>>)
       [] a = "q1a" -> [F13(1, {None}, <<L(Sec(aapl), 0)>>) EXCEPT !.form = "13F-HR/A",
                                                                   !.filed = 3]
       [] a = "q2"  -> F13(2, {apple}, <<L(Sec(cola), 3), L(Named(aapl, apple), 12)>>)
       [] a = "s"   -> Stake([Sec(aapl) EXCEPT !.issuer = issuer])
       [] a = "ten" -> [Stake(Sec(aapl)) EXCEPT !.form = "10-K"]]
=============================================================================
