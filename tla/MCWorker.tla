------------------------------ MODULE MCWorker ------------------------------
(* An instance of Worker: a feed that shows one filing per form, the three     *)
(* days of daily_backfill, two filings of one form and one of another.         *)
EXTENDS Worker

MCFiling == {"a", "b", "c"}
MCFormOf == [a \in MCFiling |-> IF a = "c" THEN "4" ELSE "13F"]
=============================================================================
