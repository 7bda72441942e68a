---------------------------- MODULE MCDeployment ----------------------------
(* An instance of Deployment: the API container, an operator's migrate, two    *)
(* filings of different forms, one of which has a filter, and a list of one,   *)
(* so that the newer hides the older; two requests at a time.                  *)
EXTENDS Deployment, TLC

MCRunner  == {"api", "operator"}
MCFormOf  == ("x" :> "13F-HR") @@ ("y" :> "4")
MCFiledAt == ("x" :> 1) @@ ("y" :> 2)
=============================================================================
