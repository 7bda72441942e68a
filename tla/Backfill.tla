------------------------------ MODULE Backfill ------------------------------
(***************************************************************************)
(* backend/app/backfill.py and edgar/full_index.py: jobs that walk EDGAR's *)
(* quarterly index and feed every filing in it through the ingest          *)
(* pipeline, with a row of backfill_progress per quarter to resume from.   *)
(* A job is a command line (its forms, its first quarter); it can die      *)
(* between any two statements and be started again, and another job can    *)
(* run beside it.  A statement that is committed at once is one action     *)
(* with its COMMIT.                                                        *)
(*                                                                         *)
(* Ingesting a filing is one step here, as module Ingest is proved to      *)
(* implement it.  Quarters are numbered from EDGAR's first; filings are    *)
(* added to a quarter's index during that quarter and not afterwards.  The *)
(* index lists a filing once under every CIK it concerns, and a ref is one *)
(* such listing: the job feeds all of them, in any order here.             *)
(***************************************************************************)
EXTENDS Integers, FiniteSets

CONSTANTS Job,
          Filing,
          Listing,      \* the lines of the indexes
          FilingOf,     \* FilingOf[r]: the filing that line r lists
          Form,
          FormOf,       \* FormOf[a]: the base form type of filing a
          QuarterOf,    \* QuarterOf[a]: the quarter that accepts filing a
          FormsOf,      \* FormsOf[j]: the forms job j is asked for
          Since,        \* Since[j]: the first quarter job j is asked for
          Every,        \* _CHECKPOINT_EVERY
          LastQuarter,  \* bound on time
          NoRow

ASSUME BackfillAssumption ==
  /\ LastQuarter \in Nat \ {0} /\ Every \in Nat \ {0}
  /\ IsFiniteSet(Filing) /\ IsFiniteSet(Listing) /\ FilingOf \in [Listing -> Filing]
  /\ FormOf \in [Filing -> Form] /\ QuarterOf \in [Filing -> 1..LastQuarter]
  /\ FormsOf \in [Job -> SUBSET Form] /\ Since \in [Job -> 1..LastQuarter]

Quarter == 1..LastQuarter

\* A row of backfill_progress; `started' is the quarter of started_at.
Segment == [forms : SUBSET Form, seen : Nat, ingested : Nat, started : Quarter,
            completed : BOOLEAN]

ASSUME NoRowIsNoSegment == NoRow \notin Segment

VARIABLES
  today,     \* the current quarter
  index,     \* the filings in the published indexes
  stored,    \* the filings in the database
  progress,  \* progress[q]: the row of quarter q, or NoRow
  pc,        \* pc[j]: the next statement of job j
  cur,       \* cur[j]: the quarter that job j is at
  last,      \* last[j]: the last quarter of its range
  todo,      \* todo[j]: the refs of this quarter that it has not fed yet
  count,     \* count[j]: its `ingested'
  \* History, for the properties only:
  fed,       \* the refs that a job has passed to ingest_filing
  outage,    \* outage[j]: job j could not read the index of its quarter
  unread     \* the quarters whose completing job could not read their index

world   == <<today, index, stored>>
history == <<fed, outage, unread>>
vars    == <<today, index, stored, progress, pc, cur, last, todo, count,
             fed, outage, unread>>

Matching(q, forms) ==
  {r \in Listing : /\ FilingOf[r] \in index
                   /\ QuarterOf[FilingOf[r]] = q /\ FormOf[FilingOf[r]] \in forms}

Init ==
  /\ today = 1
  /\ index = {} /\ stored = {}
  /\ progress = [q \in Quarter |-> NoRow]
  /\ pc = [j \in Job |-> "idle"]
  /\ cur = [j \in Job |-> 1] /\ last = [j \in Job |-> 1]
  /\ todo = [j \in Job |-> {}]
  /\ count = [j \in Job |-> 0]
  /\ fed = {} /\ unread = {}
  /\ outage = [j \in Job |-> FALSE]

Goto(j, label) == pc' = [pc EXCEPT ![j] = label]

Update(q, row) == progress' = [progress EXCEPT ![q] = row]

-----------------------------------------------------------------------------
(* The world: time, EDGAR, and the worker that ingests filings too. *)

NextQuarter ==
  /\ today < LastQuarter
  /\ today' = today + 1
  /\ UNCHANGED <<index, stored, progress, pc, cur, last, todo, count, history>>

Publish(a) ==
  /\ a \notin index /\ QuarterOf[a] = today
  /\ index' = index \cup {a}
  /\ UNCHANGED <<today, stored, progress, pc, cur, last, todo, count, history>>

\* The worker sees the current quarter's filings before the index lists them.
IngestElsewhere(a) ==
  /\ a \notin stored /\ (QuarterOf[a] = today \/ a \in index)
  /\ stored' = stored \cup {a}
  /\ UNCHANGED <<today, index, progress, pc, cur, last, todo, count, history>>

-----------------------------------------------------------------------------
(* run_backfill and quarters_in_range *)

\* The range is fixed when the job starts: up to the quarter of that day.
Start(j) ==
  /\ pc[j] \in {"idle", "dead"} /\ Since[j] <= today
  /\ cur' = [cur EXCEPT ![j] = Since[j]]
  /\ last' = [last EXCEPT ![j] = today]
  /\ Goto(j, "select")
  /\ UNCHANGED <<world, progress, todo, count, history>>

\* A mutant: the count goes on into the next quarter.
AdvanceKeepsCount(j) ==
  /\ Goto(j, IF cur[j] < last[j] THEN "select" ELSE "idle")
  /\ cur' = [cur EXCEPT ![j] = IF cur[j] < last[j] THEN cur[j] + 1 ELSE cur[j]]
  /\ todo' = [todo EXCEPT ![j] = {}]
  /\ count' = count
  /\ outage' = [outage EXCEPT ![j] = FALSE]

\* The next quarter, or the end of the run.
Advance(j) ==
  /\ Goto(j, IF cur[j] < last[j] THEN "select" ELSE "idle")
  /\ cur' = [cur EXCEPT ![j] = IF cur[j] < last[j] THEN cur[j] + 1 ELSE cur[j]]
  /\ todo' = [todo EXCEPT ![j] = {}]
  /\ count' = [count EXCEPT ![j] = 0]
  /\ outage' = [outage EXCEPT ![j] = FALSE]

-----------------------------------------------------------------------------
(* _segment and backfill_quarter *)

\* No row, an unfinished quarter, or one to skip.
SelectSegment(j) ==
  /\ pc[j] = "select"
  /\ LET row == progress[cur[j]]
     IN  \/ /\ row = NoRow
            /\ Goto(j, "insert")
            /\ UNCHANGED <<cur, todo, count, outage>>
         \/ /\ row # NoRow /\ ~row.completed
            /\ Goto(j, "fetch")
            /\ UNCHANGED <<cur, todo, count, outage>>
         \/ /\ row # NoRow /\ row.completed
            /\ Advance(j)
  /\ UNCHANGED <<world, progress, last, fed, unread>>

InsertSegment(j) ==
  /\ pc[j] = "insert" /\ progress[cur[j]] = NoRow
  /\ Update(cur[j], [forms |-> {}, seen |-> 0, ingested |-> 0, started |-> today,
                     completed |-> FALSE])
  /\ Goto(j, "fetch")
  /\ UNCHANGED <<world, cur, last, todo, count, history>>

\* A mutant: resumes behind as many refs as the row says were ingested.
FetchQuarterBehindCheckpoint(j) ==
  /\ pc[j] = "fetch"
  /\ LET refs == Matching(cur[j], FormsOf[j])
         row  == progress[cur[j]]
     IN  \E rest \in SUBSET refs :
           /\ Cardinality(rest) = Cardinality(refs) - row.ingested
           /\ todo' = [todo EXCEPT ![j] = rest]
  /\ Goto(j, "record")
  /\ UNCHANGED <<world, progress, cur, last, count, history>>

FetchQuarter(j) ==
  /\ pc[j] = "fetch"
  /\ todo' = [todo EXCEPT ![j] = Matching(cur[j], FormsOf[j])]
  /\ Goto(j, "record")
  /\ UNCHANGED <<world, progress, cur, last, count, history>>

\* Whatever goes wrong with the request, fetch_quarter returns [].
FetchFails(j) ==
  /\ pc[j] = "fetch"
  /\ outage' = [outage EXCEPT ![j] = TRUE]
  /\ Goto(j, "record")
  /\ UNCHANGED <<world, progress, cur, last, todo, count, fed, unread>>

\* A mutant: the row does not say which forms its quarter was walked for.
RecordSeenWithoutForms(j) ==
  /\ pc[j] = "record"
  /\ Update(cur[j], [progress[cur[j]] EXCEPT !.seen = Cardinality(todo[j])])
  /\ Goto(j, "feed")
  /\ UNCHANGED <<world, cur, last, todo, count, history>>

\* filings_seen is len(refs): it counts every listing.
RecordSeen(j) ==
  /\ pc[j] = "record"
  /\ Update(cur[j], [progress[cur[j]] EXCEPT !.forms = FormsOf[j],
                                             !.seen = Cardinality(todo[j])])
  /\ Goto(j, "feed")
  /\ UNCHANGED <<world, cur, last, todo, count, history>>

\* ingest_filing: already stored or failed, None; otherwise a new filing.  The
\* next listing of a filing that failed is another attempt.
Feed(j) ==
  /\ pc[j] = "feed"
  /\ \E r \in todo[j] :
       /\ todo' = [todo EXCEPT ![j] = @ \ {r}]
       /\ fed' = fed \cup {r}
       /\ \/ /\ Goto(j, "feed")
             /\ UNCHANGED <<stored, count>>
          \/ /\ FilingOf[r] \notin stored
             /\ stored' = stored \cup {FilingOf[r]}
             /\ count' = [count EXCEPT ![j] = @ + 1]
             /\ Goto(j, IF (count[j] + 1) % Every = 0 THEN "checkpoint" ELSE "feed")
  /\ UNCHANGED <<today, index, progress, cur, last, outage, unread>>

Checkpoint(j) ==
  /\ pc[j] = "checkpoint"
  /\ Update(cur[j], [progress[cur[j]] EXCEPT !.ingested = count[j]])
  /\ Goto(j, "feed")
  /\ UNCHANGED <<world, cur, last, todo, count, history>>

\* A mutant: a quarter without a ref is left open, as one that has no index yet.
CompleteUnlessEmpty(j) ==
  /\ pc[j] = "feed" /\ todo[j] = {}
  /\ Update(cur[j], [progress[cur[j]] EXCEPT !.ingested = count[j],
                                             !.completed = progress[cur[j]].seen > 0])
  /\ unread' = IF outage[j] THEN unread \cup {cur[j]} ELSE unread \ {cur[j]}
  /\ Advance(j)
  /\ UNCHANGED <<world, last, fed>>

Complete(j) ==
  /\ pc[j] = "feed" /\ todo[j] = {}
  /\ Update(cur[j], [progress[cur[j]] EXCEPT !.ingested = count[j],
                                             !.completed = TRUE])
  /\ unread' = IF outage[j] THEN unread \cup {cur[j]} ELSE unread \ {cur[j]}
  /\ Advance(j)
  /\ UNCHANGED <<world, last, fed>>

\* The process ends before the run does.
Stop(j, label) ==
  /\ Goto(j, label)
  /\ todo' = [todo EXCEPT ![j] = {}]
  /\ count' = [count EXCEPT ![j] = 0]
  /\ outage' = [outage EXCEPT ![j] = FALSE]
  /\ UNCHANGED <<world, progress, cur, last, fed, unread>>

\* Another job has inserted the row: UniqueViolation, which nobody catches.
InsertFails(j) == pc[j] = "insert" /\ progress[cur[j]] # NoRow /\ Stop(j, "idle")

\* Interrupted, or the connection is lost.
Die(j) == pc[j] \notin {"idle", "dead"} /\ Stop(j, "dead")

-----------------------------------------------------------------------------

World == NextQuarter \/ \E a \in Filing : Publish(a) \/ IngestElsewhere(a)

Step(j) ==
  \/ SelectSegment(j) \/ InsertSegment(j) \/ InsertFails(j)
  \/ FetchQuarter(j) \/ FetchFails(j) \/ RecordSeen(j) \/ Feed(j) \/ Checkpoint(j) \/ Complete(j)

Next == World \/ \E j \in Job : Start(j) \/ Step(j) \/ Die(j)

Spec == Init /\ [][Next]_vars

\* Jobs make progress and are started again (by whoever watches over the
\* backfill), and from some moment on none of them is interrupted.
Fairness ==
  /\ \A j \in Job : WF_vars(Start(j)) /\ WF_vars(Step(j))
  /\ <>[][\A j \in Job : ~Die(j)]_vars

FairSpec == Spec /\ Fairness

-----------------------------------------------------------------------------
(* Types, and the invariant behind the properties. *)

Labels == {"idle", "dead", "select", "insert", "fetch", "record", "feed", "checkpoint"}

\* Every variable has its type.
TypeOK ==
  /\ today \in Quarter
  /\ index \subseteq Filing /\ stored \subseteq Filing /\ fed \subseteq Listing
  /\ progress \in [Quarter -> Segment \cup {NoRow}]
  /\ pc \in [Job -> Labels]
  /\ cur \in [Job -> Quarter] /\ last \in [Job -> Quarter]
  /\ todo \in [Job -> SUBSET Listing]
  /\ count \in [Job -> Nat]
  /\ outage \in [Job -> BOOLEAN] /\ unread \subseteq Quarter

\* Quarter q has a row that was inserted when q was over, its index final.
Settled(q) == progress[q] # NoRow /\ progress[q].started > q

Completed(q) == progress[q] # NoRow /\ progress[q].completed

SameForms == \A i, j \in Job : FormsOf[i] = FormsOf[j]

\* Where job j is in its quarter: the row exists and names the job's forms, and
\* what is not to be done any more has been done.
JobInv(j) ==
  /\ pc[j] \in {"fetch", "record", "feed", "checkpoint"} => progress[cur[j]] # NoRow
  /\ pc[j] \in {"feed", "checkpoint"} => progress[cur[j]].forms = FormsOf[j]
  /\ pc[j] \in {"record", "feed", "checkpoint"} /\ Settled(cur[j]) /\ ~outage[j] =>
       Matching(cur[j], FormsOf[j]) \subseteq fed \cup todo[j]

\* completed_at of a row that a job opened after the end of its quarter means what
\* the row says: every line of that quarter's index with a recorded form has been
\* passed to ingest_filing, whatever was interrupted and resumed before and
\* whichever jobs (for the same forms) ran side by side; unless the completing
\* run could not read the index.
CompletedWasFed ==
  \A q \in Quarter :
    Completed(q) /\ Settled(q) /\ q \notin unread =>
      Matching(q, progress[q].forms) \subseteq fed

\* The inductive invariant, for jobs with the same forms.
IndInv ==
  /\ TypeOK
  /\ \A q \in Quarter : progress[q] # NoRow => progress[q].started <= today
  /\ \A q \in Quarter : Completed(q) => \A j \in Job : progress[q].forms = FormsOf[j]
  /\ \A j \in Job : JobInv(j)
  /\ CompletedWasFed

-----------------------------------------------------------------------------
(* Properties. *)

\* filings_ingested, written by several statements, runs and jobs, over and over,
\* never counts what is not there: at most the quarter's filings in the database,
\* though a filing is fed once per listing.  (It can be less, and even fall:
\* a resumed run counts from zero and writes over what the last one had saved.)
CountsStored ==
  \A q \in Quarter :
    progress[q] # NoRow =>
      progress[q].ingested <= Cardinality({a \in stored : QuarterOf[a] = q})

\* backfill.py:16, "safe to interrupt - re-running resumes where it left off":
\* every quarter in range is completed in the end.
QuartersComplete ==
  \A q \in Quarter : (\E j \in Job : Since[j] <= q /\ q <= today) ~> Completed(q)

\* 0002_backfill_progress.sql:2, "A non-null completed_at means the segment is
\* done".  Does not hold, in two ways: a quarter whose index could not be read is
\* completed, and so is the current quarter, whose index still grows.
DoneMeansFed ==
  \A q \in Quarter : Completed(q) => Matching(q, progress[q].forms) \subseteq fed

=============================================================================
