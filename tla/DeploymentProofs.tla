-------------------------- MODULE DeploymentProofs --------------------------
(***************************************************************************)
(* Proofs about the migration runners of module Migrate, for any number of *)
(* runners and of files and any interleaving, and about module Deployment, *)
(* for any filings, filters and number of requests: the migration's        *)
(* invariant survives the composition, and the feed's holds beside it.     *)
(***************************************************************************)
EXTENDS Deployment, TLAPS

USE DEF Version

\* A runner that has pending files is at the first of them.
LEMMA FileIsFirst ==
  ASSUME NEW r \in Runner, NEW n \in 1..Files, todo[r] = n..Files
  PROVE  File(r) = n
<1>1. n \in todo[r] /\ \A v \in todo[r] : n <= v
  BY MigrateAssumption
<1>2. /\ File(r) \in todo[r]
      /\ \A v \in todo[r] : File(r) <= v
  <2>1. \E m \in todo[r] : \A v \in todo[r] : m <= v
    BY <1>1
  <2> QED
    BY <2>1 DEF File, Min
<1>3. File(r) \in Int /\ n \in Int
  BY <1>2, MigrateAssumption
<1>4. n <= File(r) /\ File(r) <= n
  BY <1>1, <1>2
<1> QED
  BY <1>3, <1>4

LEMMA SomeFile ==
  ASSUME IndInv, NEW r \in Runner, todo[r] # {}
  PROVE  \E n \in 1..Files : todo[r] = n..Files /\ File(r) = n
<1>1. PICK n \in 1..(Files + 1) : todo[r] = n..Files
  BY DEF IndInv, RunnerInv
<1>2. n \in 1..Files
  BY <1>1, MigrateAssumption
<1> QED
  BY <1>1, <1>2, FileIsFirst

LEMMA InitIndInv == Init => IndInv
<1> SUFFICES ASSUME Init PROVE IndInv
  OBVIOUS
<1>1. (Files + 1)..Files = {} /\ 1..0 = {} /\ Files + 1 \in 1..(Files + 1) /\ 0 \in 0..Files
  BY MigrateAssumption
<1>2. NoGap
  BY <1>1 DEF Init, NoGap
<1>3. ASSUME NEW r \in Runner PROVE RunnerInv(r)
  BY <1>1 DEF Init, RunnerInv, InTransaction
<1> QED
  BY <1>2, <1>3 DEF Init, IndInv, TypeOK, RecordedIsApplied, DoneIsComplete, Labels

\* A step of r outside a transaction, which leaves what is committed alone.
LEMMA OutsideTransaction ==
  ASSUME IndInv, NEW r \in Runner, UNCHANGED committed,
         NEW label \in Labels \ InTransaction, Goto(r, label),
         NEW n \in 1..(Files + 1), todo' = [todo EXCEPT ![r] = n..Files],
         NEW said \in SUBSET schema, report' = [report EXCEPT ![r] = said],
         ddl' = [ddl EXCEPT ![r] = {}], rows' = [rows EXCEPT ![r] = {}],
         label = "ddl" => n..Files # {},
         label \in {"next", "ddl"} => Version \ (n..Files) \subseteq schema,
         label = "done" => schema = Version
  PROVE  IndInv'
<1> USE DEF IndInv, TypeOK, RecordedIsApplied, NoGap, DoneIsComplete, committed, Goto
<1>1. TypeOK' /\ RecordedIsApplied' /\ NoGap'
  <2>1. n..Files \subseteq Version
    BY MigrateAssumption
  <2> QED
    BY <2>1
<1>2. DoneIsComplete'
  OBVIOUS
<1>3. ASSUME NEW o \in Runner PROVE RunnerInv(o)'
  <2>1. CASE o = r
    BY <2>1 DEF RunnerInv, InTransaction
  <2>2. CASE o # r
    <3>1. /\ pc'[o] = pc[o] /\ todo'[o] = todo[o] /\ ddl'[o] = ddl[o]
          /\ rows'[o] = rows[o] /\ report'[o] = report[o] /\ schema' = schema
      BY <2>2
    <3>2. File(o)' = File(o)
      BY <3>1 DEF File
    <3> QED
      BY <3>1, <3>2 DEF RunnerInv
  <2> QED
    BY <2>1, <2>2
<1>4. (\A p, o \in Runner : p # o => ddl[p] \cap ddl[o] = {})'
  OBVIOUS
<1> QED
  BY <1>1, <1>2, <1>3, <1>4

\* A connection that is closed before the end of the list, or at it.
LEMMA Closing ==
  ASSUME IndInv, NEW r \in Runner, NEW label \in {"done", "failed"}, Close(r, label),
         label = "done" => schema = Version,
         report' = [report EXCEPT ![r] = report'[r]], report'[r] \subseteq schema
  PROVE  IndInv'
<1>1. (Files + 1)..Files = {} /\ Files + 1 \in 1..(Files + 1)
  BY MigrateAssumption
<1> QED
  BY <1>1, OutsideTransaction DEF Close, Labels, InTransaction

\* The other runners' part when r alone moves inside its transaction.
LEMMA OthersUndisturbed ==
  ASSUME IndInv, NEW r \in Runner, NEW o \in Runner, o # r,
         pc'[o] = pc[o], todo'[o] = todo[o], ddl'[o] = ddl[o], rows'[o] = rows[o],
         report'[o] = report[o], schema \subseteq schema', schema' \subseteq schema \cup ddl[r]
  PROVE  RunnerInv(o)'
<1>1. File(o)' = File(o)
  BY DEF File
<1>2. pc[o] \in InTransaction => File(o) \notin schema'
  BY DEF IndInv, RunnerInv
<1> QED
  BY <1>1, <1>2 DEF IndInv, RunnerInv

LEMMA ExecuteStep ==
  ASSUME IndInv, NEW r \in Runner, Execute(r)
  PROVE  IndInv'
<1>1. /\ pc[r] = "ddl" /\ todo[r] # {} /\ File(r) \in todo[r]
      /\ Version \ todo[r] \subseteq schema /\ report[r] \subseteq schema
      /\ ddl[r] = {} /\ rows[r] = {} /\ RunnerInv(r)
  BY SomeFile DEF Execute, IndInv, RunnerInv, InTransaction
<1>2. /\ pc' = [pc EXCEPT ![r] = "record"] /\ ddl' = [ddl EXCEPT ![r] = {File(r)}]
      /\ UNCHANGED <<tracking, schema, recorded, todo, rows, report>>
  BY <1>1 DEF Execute, Goto, committed
<1>3. TypeOK' /\ RecordedIsApplied' /\ NoGap' /\ DoneIsComplete'
  BY <1>1, <1>2 DEF IndInv, TypeOK, RecordedIsApplied, NoGap, DoneIsComplete, Labels,
                    InTransaction
<1>4. RunnerInv(r)'
  <2>1. File(r)' = File(r)
    BY <1>2 DEF File
  <2>2. pc'[r] = "record" /\ ddl'[r] = {File(r)} /\ File(r) \notin schema
    BY <1>2 DEF Execute, IndInv, TypeOK
  <2> QED
    BY <1>1, <1>2, <2>1, <2>2 DEF RunnerInv, InTransaction
<1>5. \A o \in Runner \ {r} : RunnerInv(o)'
  BY <1>2, OthersUndisturbed DEF IndInv, TypeOK
<1>6. (\A p, o \in Runner : p # o => ddl[p] \cap ddl[o] = {})'
  BY <1>2 DEF Execute, IndInv, TypeOK
<1> QED
  BY <1>3, <1>4, <1>5, <1>6 DEF IndInv

LEMMA RecordStep ==
  ASSUME IndInv, NEW r \in Runner, Record(r)
  PROVE  IndInv'
<1>1. /\ pc[r] = "record" /\ todo[r] # {} /\ File(r) \in todo[r]
      /\ rows[r] = {} /\ RunnerInv(r)
  BY SomeFile DEF Record, IndInv, RunnerInv, InTransaction
<1>2. /\ pc' = [pc EXCEPT ![r] = "commit"] /\ rows' = [rows EXCEPT ![r] = {File(r)}]
      /\ UNCHANGED <<tracking, schema, recorded, todo, ddl, report>>
  BY <1>1 DEF Record, Goto, committed
<1>3. TypeOK' /\ RecordedIsApplied' /\ NoGap' /\ DoneIsComplete'
  BY <1>1, <1>2 DEF IndInv, TypeOK, RecordedIsApplied, NoGap, DoneIsComplete, Labels,
                    InTransaction
<1>4. RunnerInv(r)'
  <2>1. File(r)' = File(r)
    BY <1>2 DEF File
  <2>2. pc'[r] = "commit" /\ rows'[r] = {File(r)}
    BY <1>2 DEF IndInv, TypeOK
  <2> QED
    BY <1>1, <1>2, <2>1, <2>2 DEF RunnerInv, InTransaction
<1>5. \A o \in Runner \ {r} : RunnerInv(o)'
  BY <1>2, OthersUndisturbed DEF IndInv, TypeOK
<1> QED
  BY <1>2, <1>3, <1>4, <1>5 DEF IndInv

LEMMA CommitStep ==
  ASSUME IndInv, NEW r \in Runner, Commit(r)
  PROVE  IndInv'
<1>1. PICK v \in 1..Files : todo[r] = v..Files /\ File(r) = v
  BY SomeFile DEF Commit, IndInv, RunnerInv, InTransaction
<1>2. /\ ddl[r] = {v} /\ rows[r] = {v} /\ report[r] \subseteq schema
      /\ Version \ todo[r] \subseteq schema /\ v \notin schema
  BY <1>1 DEF Commit, IndInv, RunnerInv, InTransaction
<1>3. /\ schema' = schema \cup {v} /\ recorded' = recorded \cup {v}
      /\ pc' = [pc EXCEPT ![r] = "next"]
      /\ ddl' = [ddl EXCEPT ![r] = {}] /\ rows' = [rows EXCEPT ![r] = {}]
      /\ todo' = [todo EXCEPT ![r] = (v + 1)..Files]
      /\ report' = [report EXCEPT ![r] = report[r] \cup {v}]
      /\ tracking' = tracking
  <2>1. todo[r] \ {v} = (v + 1)..Files
    BY <1>1, MigrateAssumption
  <2> QED
    BY <1>1, <1>2, <2>1 DEF Commit, Goto, IndInv, TypeOK
<1>4. TypeOK'
  <2>1. (v + 1)..Files \subseteq Version
    BY MigrateAssumption
  <2> QED
    BY <1>3, <2>1 DEF IndInv, TypeOK, Labels, InTransaction
<1>5. RecordedIsApplied' /\ DoneIsComplete'
  BY <1>3 DEF IndInv, RecordedIsApplied, DoneIsComplete, TypeOK
<1>6. NoGap'
  <2>1. PICK n \in 0..Files : schema = 1..n
    BY DEF IndInv, NoGap
  <2>2. \A w \in 1..(v - 1) : w \in Version \ todo[r]
    BY <1>1, MigrateAssumption
  <2>3. v = n + 1
    <3>1. ~ v <= n
      BY <1>2, <2>1, MigrateAssumption
    <3>2. v > 1 => v - 1 \in 1..n
      BY <1>2, <2>1, <2>2, MigrateAssumption
    <3> QED
      BY <3>1, <3>2, MigrateAssumption
  <2>4. schema' = 1..v
    BY <1>3, <2>1, <2>3, MigrateAssumption
  <2> QED
    BY <2>4, MigrateAssumption DEF NoGap
<1>7. RunnerInv(r)'
  <2>1. Version \ ((v + 1)..Files) \subseteq schema'
    BY <1>1, <1>2, <1>3, MigrateAssumption
  <2>2. v + 1 \in 1..(Files + 1)
    BY MigrateAssumption
  <2> QED
    BY <1>2, <1>3, <2>1, <2>2 DEF RunnerInv, InTransaction, IndInv, TypeOK
<1>8. \A o \in Runner \ {r} : RunnerInv(o)'
  BY <1>2, <1>3, OthersUndisturbed DEF IndInv, TypeOK
<1>9. (\A p, o \in Runner : p # o => ddl[p] \cap ddl[o] = {})'
  BY <1>3 DEF IndInv, TypeOK
<1> QED
  BY <1>4, <1>5, <1>6, <1>7, <1>8, <1>9 DEF IndInv

\* The steps outside a transaction.
LEMMA OtherSteps ==
  ASSUME IndInv, NEW r \in Runner,
         \/ Start(r) \/ EnsureTrackingTable(r) \/ CreateTrackingTable(r) \/ Pending(r)
         \/ NextFile(r) \/ Finish(r) \/ Fails(r) \/ Die(r)
  PROVE  IndInv'
<1>1. /\ RunnerInv(r)
      /\ report[r] \in SUBSET schema /\ {} \in SUBSET schema
      /\ report = [report EXCEPT ![r] = report[r]]
      /\ pc[r] \notin InTransaction =>
           ddl = [ddl EXCEPT ![r] = {}] /\ rows = [rows EXCEPT ![r] = {}]
  BY DEF IndInv, TypeOK, RunnerInv, InTransaction
<1>0. /\ "ensure" \in Labels \ InTransaction /\ "next" \in Labels \ InTransaction
      /\ "ddl" \in Labels \ InTransaction
  BY DEF Labels, InTransaction
<1>2. PICK n \in 1..(Files + 1) : /\ todo[r] = n..Files
                                 /\ todo = [todo EXCEPT ![r] = n..Files]
  BY <1>1 DEF RunnerInv, IndInv, TypeOK
<1>3. CASE Start(r)
  <2>1. /\ Goto(r, "ensure") /\ UNCHANGED committed
        /\ todo' = [todo EXCEPT ![r] = n..Files] /\ report' = [report EXCEPT ![r] = {}]
        /\ ddl' = [ddl EXCEPT ![r] = {}] /\ rows' = [rows EXCEPT ![r] = {}]
    BY <1>1, <1>2, <1>3 DEF Start, InTransaction
  <2> QED
    BY <1>1, <1>0, <2>1, OutsideTransaction
<1>4. CASE EnsureTrackingTable(r)
  <2>1. PICK label \in {"select", "create"} : Goto(r, label)
    BY <1>4 DEF EnsureTrackingTable
  <2>2. /\ UNCHANGED committed
        /\ todo' = [todo EXCEPT ![r] = n..Files] /\ report' = [report EXCEPT ![r] = report[r]]
        /\ ddl' = [ddl EXCEPT ![r] = {}] /\ rows' = [rows EXCEPT ![r] = {}]
    BY <1>1, <1>2, <1>4 DEF EnsureTrackingTable, InTransaction
  <2> QED
    BY <1>1, <2>1, <2>2, OutsideTransaction DEF Labels, InTransaction
<1>5. CASE CreateTrackingTable(r)
  <2>1. /\ tracking' = TRUE /\ pc' = [pc EXCEPT ![r] = "select"] /\ pc[r] = "create"
        /\ UNCHANGED <<schema, recorded, todo, ddl, rows, report>>
    BY <1>5 DEF CreateTrackingTable, Goto
  <2>2. ASSUME NEW o \in Runner PROVE RunnerInv(o)'
    <3>1. File(o)' = File(o)
      BY <2>1 DEF File
    <3>2. pc'[o] = pc[o] \/ (pc'[o] = "select" /\ pc[o] = "create")
      BY <2>1 DEF IndInv, TypeOK
    <3> QED
      BY <2>1, <3>1, <3>2 DEF IndInv, RunnerInv, InTransaction
  <2> QED
    BY <2>1, <2>2
       DEF IndInv, TypeOK, RecordedIsApplied, NoGap, DoneIsComplete, Labels
<1>6. CASE Pending(r)
  <2>1. PICK k \in 0..Files : recorded = 1..k
    BY DEF IndInv, RecordedIsApplied, NoGap
  <2>2. Version \ recorded = (k + 1)..Files /\ k + 1 \in 1..(Files + 1)
    BY <2>1, MigrateAssumption
  <2>3. Version \ (Version \ recorded) \subseteq schema
    BY DEF IndInv, RecordedIsApplied
  <2>4. /\ Goto(r, "next") /\ UNCHANGED committed
        /\ todo' = [todo EXCEPT ![r] = (k + 1)..Files]
        /\ report' = [report EXCEPT ![r] = report[r]]
        /\ ddl' = [ddl EXCEPT ![r] = {}] /\ rows' = [rows EXCEPT ![r] = {}]
    BY <1>1, <1>6, <2>2 DEF Pending, InTransaction
  <2> QED
    BY <1>1, <1>0, <2>2, <2>3, <2>4, OutsideTransaction
<1>7. CASE NextFile(r)
  <2>1. /\ Goto(r, "ddl") /\ UNCHANGED committed
        /\ todo' = [todo EXCEPT ![r] = n..Files] /\ report' = [report EXCEPT ![r] = report[r]]
        /\ ddl' = [ddl EXCEPT ![r] = {}] /\ rows' = [rows EXCEPT ![r] = {}]
    BY <1>1, <1>2, <1>7 DEF NextFile, InTransaction
  <2>2. n..Files # {} /\ Version \ (n..Files) \subseteq schema
    BY <1>1, <1>2, <1>7 DEF NextFile, RunnerInv
  <2> QED
    BY <1>1, <1>0, <2>1, <2>2, OutsideTransaction
<1>8. CASE Finish(r)
  <2>1. schema = Version
    BY <1>8 DEF Finish, IndInv, RunnerInv, TypeOK
  <2> QED
    BY <1>1, <1>8, <2>1, Closing DEF Finish
<1>9. CASE Fails(r) \/ Die(r)
  BY <1>1, <1>9, Closing DEF Fails, Die, IndInv, TypeOK
<1> QED
  BY <1>3, <1>4, <1>5, <1>6, <1>7, <1>8, <1>9

LEMMA StepIndInv == IndInv /\ [Next]_vars => IndInv'
<1> SUFFICES ASSUME IndInv, [Next]_vars PROVE IndInv'
  OBVIOUS
<1>1. CASE UNCHANGED vars
  BY <1>1
     DEF vars, IndInv, TypeOK, RecordedIsApplied, NoGap, DoneIsComplete, RunnerInv, File
<1>2. ASSUME NEW r \in Runner, Start(r) \/ Step(r) \/ Die(r) PROVE IndInv'
  BY <1>2, ExecuteStep, RecordStep, CommitStep, OtherSteps DEF Step
<1> QED
  BY <1>1, <1>2 DEF Next

\* Whichever runners collide and wherever they die, the committed schema and its
\* bookkeeping agree, have no gap, and are complete when a runner returns
\* (migrate.py:7-8, "a failing migration leaves nothing behind").
THEOREM MigrateInvariance == Spec => []IndInv
BY InitIndInv, StepIndInv, PTL DEF Spec

\* uvicorn starts after "python -m app.migrate &&" on a complete schema.
THEOREM DoneMeansComplete == Spec => []DoneIsComplete
<1>1. IndInv => DoneIsComplete
  BY DEF IndInv
<1> QED
  BY <1>1, MigrateInvariance, PTL

-----------------------------------------------------------------------------
(* The composition. *)

\* A step of the deployment is a step of the migration or leaves it alone.
LEMMA StepOfMigrate == [DeploymentNext]_allVars => [Next]_vars
<1> SUFFICES ASSUME [DeploymentNext]_allVars PROVE [Next]_vars
  OBVIOUS
<1> USE DEF Next
<1>1. CASE UNCHANGED allVars
  BY <1>1 DEF allVars
<1>2. ASSUME NEW r \in Runner, Container(r) \/ Killed(r) \/ Redeploy(r)
      PROVE  Next
  BY <1>2 DEF Container, Restart, Killed, Redeploy
<1>3. ASSUME NEW i \in Slot, Served(i) \/ Broken(i) \/ Browser(i)
      PROVE  UNCHANGED vars
  BY <1>3 DEF Served, Broken, Browser
<1>4. WorkerStores \/ Timer \/ Visitor => UNCHANGED vars
  BY DEF WorkerStores, Timer, Visitor
<1> QED
  BY <1>1, <1>2, <1>3, <1>4 DEF DeploymentNext

\* ... and likewise of the feed: it is one of these.
FeedStep ==
  \/ UNCHANGED feedVars
  \/ Poll
  \/ \E g \in Form : Click(g)
  \/ \E i \in Slot : Respond(i) \/ Refuse(i) \/ Deliver(i)
  \/ /\ \E x \in Filing \ stored : stored' = stored \cup {x}
     /\ UNCHANGED <<form, inflight, shown, error>>

LEMMA StepOfFeed == [DeploymentNext]_allVars => FeedStep
<1> SUFFICES ASSUME [DeploymentNext]_allVars PROVE FeedStep
  OBVIOUS
<1> USE DEF FeedStep
<1>1. CASE UNCHANGED allVars
  BY <1>1 DEF allVars
<1>2. ASSUME NEW r \in Runner, Container(r) \/ Killed(r) \/ Redeploy(r)
      PROVE  UNCHANGED feedVars
  BY <1>2 DEF Container, Killed, Redeploy
<1>3. ASSUME NEW i \in Slot, Served(i) \/ Broken(i) \/ Browser(i)
      PROVE  Respond(i) \/ Refuse(i) \/ Deliver(i)
  BY <1>3 DEF Served, Broken, Browser
<1>4. WorkerStores \/ Timer \/ Visitor => FeedStep
  BY DEF WorkerStores, Timer, Visitor
<1> QED
  BY <1>1, <1>2, <1>3, <1>4 DEF DeploymentNext

LEMMA InitFeedInv == FeedInit => FeedInv
<1> SUFFICES ASSUME FeedInit PROVE FeedInv
  OBVIOUS
<1>1. PICK i \in Slot : inflight = [j \in Slot |-> IF j = i THEN Sent(All) ELSE Free]
  BY DEF FeedInit
<1>2. Sent(All) \in Requests /\ Free \in Requests
  BY FeedAssumption DEF Sent, Free, Requests
<1> QED
  BY <1>1, <1>2, FeedAssumption DEF FeedInit, FeedInv, FeedTypeOK, Sent, Free

\* The rows of an answer pass its filter.
LEMMA FeedMatches == ASSUME NEW g \in Form PROVE Feed(g) \subseteq {x \in stored : Matches(x, g)}
BY DEF Feed

LEMMA StepFeedInv == FeedInv /\ FeedStep => FeedInv'
<1> SUFFICES ASSUME FeedInv, FeedStep PROVE FeedInv'
  OBVIOUS
<1> USE DEF FeedInv, FeedTypeOK
<1>1. CASE UNCHANGED feedVars
  BY <1>1 DEF feedVars, Matches
<1>2. CASE Poll
  <2>1. PICK i \in Slot : inflight' = [inflight EXCEPT ![i] = Sent(form)]
    BY <1>2 DEF Poll
  <2>2. Sent(form) \in Requests
    BY DEF Sent, Requests
  <2> QED
    BY <1>2, <2>1, <2>2 DEF Poll, Sent, Matches
<1>3. ASSUME NEW g \in Form, Click(g)
      PROVE  FeedInv'
  <2>1. PICK i \in Slot : inflight' = [j \in Slot |->
          IF j = i THEN Sent(g)
          ELSE IF inflight[j] = Free THEN Free ELSE [inflight[j] EXCEPT !.active = FALSE]]
    BY <1>3 DEF Click
  <2>2. Sent(g) \in Requests /\ Free \in Requests
    BY FeedAssumption DEF Sent, Free, Requests
  <2>3. \A j \in Slot : [inflight[j] EXCEPT !.active = FALSE] \in Requests
    BY DEF Requests
  <2>4. ASSUME NEW j \in Slot
        PROVE  /\ inflight'[j] \in Requests
               /\ inflight'[j].active => inflight'[j].form = g
               /\ inflight'[j].rows \subseteq {x \in stored : Matches(x, inflight'[j].form)}
    <3>1. CASE j = i
      BY <3>1, <2>1, <2>2 DEF Sent
    <3>2. CASE j # i /\ inflight[j] = Free
      BY <3>2, <2>1, <2>2 DEF Free
    <3>3. CASE j # i /\ inflight[j] # Free
      <4>1. inflight'[j] = [inflight[j] EXCEPT !.active = FALSE]
        BY <3>3, <2>1
      <4>2. /\ inflight'[j].rows = inflight[j].rows /\ inflight'[j].form = inflight[j].form
            /\ inflight'[j].active = FALSE
        BY <4>1 DEF Requests
      <4> QED
        BY <4>1, <4>2, <2>3
    <3> QED
      BY <3>1, <3>2, <3>3
  <2>5. inflight' \in [Slot -> Requests]
    BY <2>1, <2>4
  <2> QED
    BY <1>3, <2>4, <2>5 DEF Click, Matches
<1>4. ASSUME NEW i \in Slot, Respond(i)
      PROVE  FeedInv'
  <2>1. inflight' = [inflight EXCEPT ![i] =
          [inflight[i] EXCEPT !.state = "answered", !.rows = Feed(inflight[i].form)]]
    BY <1>4 DEF Respond
  <2>2. Feed(inflight[i].form) \subseteq {x \in stored : Matches(x, inflight[i].form)}
    BY FeedMatches DEF Requests
  <2>3. [inflight[i] EXCEPT !.state = "answered", !.rows = Feed(inflight[i].form)] \in Requests
    BY <2>2 DEF Requests
  <2>4. \A j \in Slot : /\ inflight'[j].form = inflight[j].form
                        /\ inflight'[j].active = inflight[j].active
                        /\ inflight'[j].rows = IF j = i THEN Feed(inflight[i].form)
                                              ELSE inflight[j].rows
    BY <2>1 DEF Requests
  <2> QED
    BY <1>4, <2>1, <2>2, <2>3, <2>4 DEF Respond, Matches
<1>5. ASSUME NEW i \in Slot, Refuse(i)
      PROVE  FeedInv'
  <2>1. inflight' = [inflight EXCEPT ![i] = [inflight[i] EXCEPT !.state = "failed"]]
    BY <1>5 DEF Refuse
  <2>2. [inflight[i] EXCEPT !.state = "failed"] \in Requests
    BY DEF Requests
  <2>3. \A j \in Slot : /\ inflight'[j].form = inflight[j].form
                        /\ inflight'[j].active = inflight[j].active
                        /\ inflight'[j].rows = inflight[j].rows
    BY <2>1 DEF Requests
  <2> QED
    BY <1>5, <2>1, <2>2, <2>3 DEF Refuse, Matches
<1>6. ASSUME NEW i \in Slot, Deliver(i)
      PROVE  FeedInv'
  <2>1. inflight' = [inflight EXCEPT ![i] = Free] /\ stored' = stored /\ form' = form
    BY <1>6 DEF Deliver
  <2>2. Free \in Requests
    BY FeedAssumption DEF Free, Requests
  <2>3. shown' \subseteq stored /\ error' \in BOOLEAN
    BY <1>6 DEF Deliver, Requests
  <2> QED
    BY <2>1, <2>2, <2>3 DEF Free, Matches
<1>7. ASSUME NEW x \in Filing, stored' = stored \cup {x},
             UNCHANGED <<form, inflight, shown, error>>
      PROVE  FeedInv'
  BY <1>7 DEF Matches
<1> QED
  BY <1>1, <1>2, <1>3, <1>4, <1>5, <1>6, <1>7 DEF FeedStep

DeploymentInv == IndInv /\ FeedInv

\* Migration and feed keep their invariants in each other's company.
THEOREM DeploymentInvariance == DeploymentSpec => []DeploymentInv
<1>1. DeploymentInit => DeploymentInv
  BY InitIndInv, InitFeedInv DEF DeploymentInit, DeploymentInv
<1>2. DeploymentInv /\ [DeploymentNext]_allVars => DeploymentInv'
  BY StepIndInv, StepOfMigrate, StepFeedInv, StepOfFeed DEF DeploymentInv
<1> QED
  BY <1>1, <1>2, PTL DEF DeploymentSpec

\* The feed's list is always committed filings, and its active requests are for the
\* filter selected (LiveFeed.tsx).
THEOREM FeedInvariance == DeploymentSpec => []FeedInv
<1>1. DeploymentInv => FeedInv
  BY DEF DeploymentInv
<1> QED
  BY <1>1, DeploymentInvariance, PTL

\* No late answer to a filter that was left replaces the list, or the error message.
THEOREM LateAnswersIgnored == DeploymentSpec => ShownIsAsked
<1> DEFINE Asked ==
      /\ shown' # shown => \A x \in shown' : Matches(x, form)
      /\ error' # error =>
           \E i \in Slot : inflight[i].active /\ inflight[i].form = form /\ inflight'[i] = Free
<1>1. FeedInv /\ FeedStep => [Asked]_feedVars
  <2> SUFFICES ASSUME FeedInv, FeedStep PROVE Asked \/ UNCHANGED feedVars
    OBVIOUS
  <2>1. ASSUME NEW i \in Slot, Deliver(i) PROVE Asked
    <3>1. inflight'[i] = Free
      BY <2>1 DEF Deliver, FeedInv, FeedTypeOK
    <3>2. inflight[i].active \in BOOLEAN
      BY DEF FeedInv, FeedTypeOK, Requests
    <3> QED
      BY <2>1, <3>1, <3>2 DEF Deliver, FeedInv
  <2>2. UNCHANGED <<shown, error>> => Asked
    OBVIOUS
  <2> QED
    BY <2>1, <2>2 DEF FeedStep, Poll, Click, Respond, Refuse
<1>2. FeedInv /\ [DeploymentNext]_allVars => [Asked]_feedVars
  BY <1>1, StepOfFeed
<1> QED
  BY <1>2, FeedInvariance, PTL DEF DeploymentSpec, ShownIsAsked

\* The API's queries always find the complete schema, whichever runners collide.
THEOREM AnswersOnCompleteSchema == DeploymentSpec => QueriesFindSchema
<1> DEFINE Found ==
      \A i \in Slot :
        inflight[i].state = "sent" /\ inflight'[i].state = "answered" => schema = Version
<1>1. DeploymentInv /\ [DeploymentNext]_allVars => [Found]_allVars
  <2> SUFFICES ASSUME DeploymentInv, DeploymentNext,
                      NEW i \in Slot, inflight[i].state = "sent", inflight'[i].state = "answered"
               PROVE  schema = Version
    OBVIOUS
  <2>1. ASSUME NEW j \in Slot, Served(j) PROVE schema = Version
    <3>1. CASE ApiUp
      BY <3>1, DeploymentAssumption DEF ApiUp, DeploymentInv, IndInv, DoneIsComplete
    <3>2. CASE ~ApiUp
      BY <2>1, <3>2 DEF Served, Refuse, DeploymentInv, FeedInv, FeedTypeOK, Requests
    <3> QED
      BY <3>1, <3>2
  <2>2. ASSUME NEW j \in Slot, Broken(j) \/ Browser(j) PROVE FALSE
    BY <2>2 DEF Broken, Browser, Refuse, Deliver, Free, DeploymentInv, FeedInv, FeedTypeOK, Requests
  <2>3. ~ UNCHANGED inflight
    OBVIOUS
  <2>4. ~ Timer
    BY DEF Timer, Poll, Sent, DeploymentInv, FeedInv, FeedTypeOK
  <2>5. ~ Visitor
    BY DEF Visitor, Click, Sent, Free, DeploymentInv, FeedInv, FeedTypeOK, Requests
  <2> QED
    BY <2>1, <2>2, <2>3, <2>4, <2>5
       DEF DeploymentNext, Container, Killed, Redeploy, WorkerStores, feedVars
<1> QED
  BY <1>1, DeploymentInvariance, PTL DEF DeploymentSpec, QueriesFindSchema

=============================================================================
