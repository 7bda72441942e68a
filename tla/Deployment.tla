----------------------------- MODULE Deployment -----------------------------
(***************************************************************************)
(* docker-compose.yml: the API container runs "python -m app.migrate &&    *)
(* uvicorn", so that it answers while the last run of migrate (module      *)
(* Migrate) is done; the worker, started beside it, stores filings once    *)
(* the tables exist; a browser shows the feed (module LiveFeed).           *)
(***************************************************************************)
EXTENDS Migrate, LiveFeed

CONSTANT Api   \* the runner that is the API container's start

ASSUME DeploymentAssumption == Api \in Runner

allVars == <<vars, feedVars>>

DeploymentInit == Init /\ FeedInit

\* A mutant: ";" instead of "&&", uvicorn starts whatever migrate has returned.
ApiUpRegardless == pc[Api] \in {"done", "failed"}

ApiUp == pc[Api] = "done"

\* A runner's steps, and its start while its last run has not finished.
Container(r) == (Step(r) \/ Restart(r)) /\ UNCHANGED feedVars
Killed(r)    == Die(r) /\ UNCHANGED feedVars

\* Whoever is done is run again: for the API, a redeployment.
Redeploy(r)  == pc[r] = "done" /\ Start(r) /\ UNCHANGED feedVars

\* The worker commits a filing.  File 1 creates the tables; one with securities needs
\* the column that file 3 adds to them as well, one without (a 13F notice) does not.
WorkerStores ==
  /\ 1 \in schema
  /\ \E x \in Filing \ stored : stored' = stored \cup {x}
  /\ UNCHANGED <<vars, form, inflight, shown, error>>

\* A request meets the API or finds nobody; either way the browser hears.
Served(i) == (IF ApiUp THEN Respond(i) ELSE Refuse(i)) /\ UNCHANGED vars

\* The connection breaks, or uvicorn fails.
Broken(i) == ApiUp /\ Refuse(i) /\ UNCHANGED vars

Browser(i) == Deliver(i) /\ UNCHANGED vars
Timer      == Poll /\ UNCHANGED vars
Visitor    == (\E g \in Form : Click(g)) /\ UNCHANGED vars

DeploymentNext ==
  \/ \E r \in Runner : Container(r) \/ Killed(r) \/ Redeploy(r)
  \/ \E i \in Slot : Served(i) \/ Broken(i) \/ Browser(i)
  \/ WorkerStores \/ Timer \/ Visitor

DeploymentSpec == DeploymentInit /\ [][DeploymentNext]_allVars

\* Containers that have not finished are started again (there is no restart policy
\* for the API: somebody does), are killed and redeployed finitely often, and the
\* network fails finitely often; requests are answered and the timer ticks.  The
\* worker need not store anything and nobody needs to click.
DeploymentFairness ==
  /\ \A r \in Runner : WF_allVars(Container(r))
  /\ \A i \in Slot : WF_allVars(Served(i)) /\ WF_allVars(Browser(i))
  /\ WF_allVars(Timer)
  /\ <>[][/\ \A r \in Runner : ~Killed(r) /\ ~Redeploy(r)
          /\ \A i \in Slot : ~Broken(i)]_allVars

FairDeployment == DeploymentSpec /\ DeploymentFairness

\* "Poll so new filings surface as soon as they come out": for a visitor who stays
\* with a filter, a filing that belongs in the list is shown in the end and no
\* error hides it, whatever collided, broke or overtook something else before.
Surfaces ==
  \A x \in Filing, g \in Form :
    <>[](form = g /\ x \in Feed(g)) => <>[](x \in shown /\ ~error)

\* "python -m app.migrate && uvicorn": whoever else runs migrate, fails or is killed
\* at the same time, a query that is answered has found the complete schema.
QueriesFindSchema ==
  [][\A i \in Slot :
       inflight[i].state = "sent" /\ inflight'[i].state = "answered" => schema = Version]_allVars

=============================================================================
