----------------------------- MODULE MCBackfill -----------------------------
(* Instances of Backfill: two quarters, of which the first ends; a 13F and a  *)
(* Form 4 in the first quarter's index, on a line each, or with the Form 4    *)
(* listed twice: under its issuer and under the insider.                      *)
EXTENDS Backfill

TwoFilings   == {"a", "b"}
TwoForms     == [a \in TwoFilings |-> IF a = "a" THEN "13F" ELSE "4"]
FirstQuarter == [a \in TwoFilings |-> 1]

TwoLines   == {"a1", "b1"}
OneEach    == [r \in TwoLines |-> IF r = "a1" THEN "a" ELSE "b"]
ThreeLines == {"a1", "b1", "b2"}
TwoOfThem  == [r \in ThreeLines |-> IF r = "a1" THEN "a" ELSE "b"]

AllForms  == [j \in Job |-> {"13F", "4"}]
FromFirst == [j \in Job |-> 1]
=============================================================================
