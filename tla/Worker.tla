------------------------------- MODULE Worker -------------------------------
(***************************************************************************)
(* backend/app/worker.py with edgar/feed.py and edgar/indexes.py: the loop *)
(* that polls EDGAR's feed and once a day reads the daily indexes of the   *)
(* last days to catch what left the feed unseen.                           *)
(*                                                                         *)
(* Time goes on for ever: instead of dates the variables hold how many     *)
(* days ago something was, counted up to Days, the size of the catch-up's  *)
(* window.  Ingesting a filing is one step, as module Ingest is proved to  *)
(* implement it; it raises only when the connection is lost or the table   *)
(* is not there yet (already_ingested is outside its try).                 *)
(***************************************************************************)
EXTENDS Integers, FiniteSets, SequencesExt

CONSTANTS Filing,
          Form,      \* settings.watch_forms
          FormOf,    \* FormOf[a]: the base form type of filing a
          FeedSize,  \* fetch_recent's count
          Days       \* fetch_recent_days' days

ASSUME WorkerAssumption ==
  /\ FormOf \in [Filing -> Form]
  /\ FeedSize \in Nat \ {0} /\ Days \in Nat \ {0}

VARIABLES
  \* The world:
  late,      \* the hour is SECHUB_BACKFILL_HOUR or later
  listed,    \* listed[d]: the index of d days ago is published, d \in 1..Days-1
  accepted,  \* the filings EDGAR has accepted, in order
  age,       \* age[a]: how many days ago a was accepted, up to Days
  migrated,  \* the migrations have been applied
  stored,    \* the filings in the database
  \* The worker:
  pc,
  forms,     \* the watched forms still to poll in this cycle
  todo,      \* the refs still to ingest
  now,       \* how many days ago `now' was read, 0 or 1 (or more)
  last,      \* how many days ago last_backfill is, 0 or 1 (or more, or None)
  shutdown,  \* _shutdown
  \* For the properties only:
  calm       \* nothing fails any more

world  == <<late, listed, accepted, age, migrated>>
cycle  == <<forms, todo>>
vars   == <<late, listed, accepted, age, migrated, stored, pc, forms, todo, now, last,
            shutdown, calm>>

Window == 0..(Days - 1)

Down == {"down", "stopped"}

Init ==
  /\ late \in BOOLEAN
  /\ listed = [d \in 1..(Days - 1) |-> FALSE]
  /\ accepted = <<>>
  /\ age = [a \in Filing |-> 0]
  /\ migrated = FALSE
  /\ stored = {}
  /\ pc = "down"
  /\ forms = {} /\ todo = {}
  /\ now = 1 /\ last = 1
  /\ shutdown = FALSE
  /\ calm = FALSE

-----------------------------------------------------------------------------
(* The world. *)

Accept(a) ==
  /\ a \notin ToSet(accepted)
  /\ accepted' = Append(accepted, a)
  /\ age' = [age EXCEPT ![a] = 0]
  /\ UNCHANGED <<late, listed, migrated, stored, pc, cycle, now, last, shutdown, calm>>

\* A day's index is published when the day is over.
Publish(d) ==
  /\ ~listed[d]
  /\ listed' = [listed EXCEPT ![d] = TRUE]
  /\ UNCHANGED <<late, accepted, age, migrated, stored, pc, cycle, now, last, shutdown, calm>>

\* EDGAR publishes overnight: yesterday's index is there at the backfill hour.
BackfillHour ==
  /\ ~late /\ \A d \in DOMAIN listed : d = 1 => listed[d]
  /\ late' = TRUE
  /\ UNCHANGED <<listed, accepted, age, migrated, stored, pc, cycle, now, last, shutdown, calm>>

Older(n, m) == IF n < m THEN n + 1 ELSE m

\* Midnight.  A worker that nothing disturbs has begun the day's catch-up by then:
\* a cycle does not last for the rest of the day.
Midnight ==
  /\ late
  /\ calm => last = 0 \/ (pc = "catching" /\ now = 0)
  /\ late' = FALSE
  /\ listed' = [d \in DOMAIN listed |-> d # 1 /\ listed[d - 1]]
  /\ age' = [a \in Filing |-> IF a \in ToSet(accepted) THEN Older(age[a], Days) ELSE 0]
  /\ now' = 1 /\ last' = 1
  /\ UNCHANGED <<accepted, migrated, stored, pc, cycle, shutdown, calm>>

\* The API container's migrations end, some time after the worker has started.
Migrated ==
  /\ ~migrated /\ migrated' = TRUE
  /\ UNCHANGED <<late, listed, accepted, age, stored, pc, cycle, now, last, shutdown, calm>>

Calm ==
  /\ ~calm /\ migrated
  /\ calm' = TRUE
  /\ UNCHANGED <<world, stored, pc, cycle, now, last, shutdown>>

-----------------------------------------------------------------------------
(* run_forever and _backfill_due *)

\* The container is (re)started: last_backfill is None.
Boot ==
  /\ pc \in Down
  /\ pc' = "loop"
  /\ last' = 1
  /\ shutdown' = FALSE
  /\ UNCHANGED <<world, stored, cycle, now, calm>>

\* A mutant: the event is cleared at the top of the cycle.
LoopClears ==
  /\ pc = "loop"
  /\ pc' = "poll" /\ forms' = Form
  /\ shutdown' = FALSE
  /\ UNCHANGED <<world, stored, todo, now, last, calm>>

Loop ==
  /\ pc = "loop"
  /\ pc' = IF shutdown THEN "stopped" ELSE "poll"
  /\ forms' = IF shutdown THEN {} ELSE Form
  /\ UNCHANGED <<world, stored, todo, now, last, shutdown, calm>>

Due ==
  /\ pc = "due"
  /\ now' = 0
  /\ pc' = IF late /\ last # 0 THEN "catchup" ELSE "wait"
  /\ UNCHANGED <<world, stored, cycle, last, shutdown, calm>>

Wait ==
  /\ pc = "wait"
  /\ pc' = "loop"
  /\ UNCHANGED <<world, stored, cycle, now, last, shutdown, calm>>

\* SIGINT or SIGTERM.
Signal ==
  /\ ~calm /\ pc \notin Down
  /\ shutdown' = TRUE
  /\ UNCHANGED <<world, stored, pc, cycle, now, last, calm>>

\* The process ends where it is.
Killed ==
  /\ ~calm /\ pc \notin Down
  /\ pc' = "down"
  /\ forms' = {} /\ todo' = {}
  /\ UNCHANGED <<world, stored, now, last, shutdown, calm>>

\* It crashes, or the host does.
Crash == ~shutdown /\ Killed

\* `docker stop' sends SIGKILL when the grace period (10 s, nothing sets another)
\* is over.  A cycle is as long as its filings take, up to 100 for every form, and
\* one of them can take minutes (EdgarClient's backoffs): how far the worker gets
\* in the grace period is left open.
GraceOver == shutdown /\ Killed

-----------------------------------------------------------------------------
(* poll_feed and daily_backfill *)

\* The newest filings of a form that EDGAR has accepted.
Feed(f) ==
  LET ofForm == SelectSeq(accepted, LAMBDA a : FormOf[a] = f)
      n      == Len(ofForm)
  IN  {ofForm[i] : i \in {j \in 1..n : j > n - FeedSize}}

PollForm ==
  /\ pc = "poll" /\ todo = {}
  /\ \E f \in forms :
       /\ forms' = forms \ {f}
       /\ todo' = Feed(f)
  /\ UNCHANGED <<world, stored, pc, now, last, shutdown, calm>>

\* fetch_recent raises: the next form.
PollFails ==
  /\ ~calm /\ pc = "poll" /\ todo = {}
  /\ \E f \in forms : forms' = forms \ {f}
  /\ UNCHANGED <<world, stored, pc, todo, now, last, shutdown, calm>>

PollEnds ==
  /\ pc = "poll" /\ todo = {} /\ forms = {}
  /\ pc' = "due"
  /\ UNCHANGED <<world, stored, cycle, now, last, shutdown, calm>>

\* The filings of the days in read whose index is published; today's is not.
Indexed(read) ==
  {a \in ToSet(accepted) : age[a] \in read \cap DOMAIN listed /\ listed[age[a]]}

\* A mutant: the last day of the window is left out.
CatchUpTwoDays ==
  /\ pc = "catchup"
  /\ \E read \in SUBSET Window :
       /\ calm => read = Window
       /\ todo' = Indexed(read \ {Days - 1})
  /\ pc' = "catching"
  /\ UNCHANGED <<world, stored, forms, now, last, shutdown, calm>>

\* fetch_recent_days: an index that cannot be read counts as empty.
CatchUp ==
  /\ pc = "catchup"
  /\ \E read \in SUBSET Window :
       /\ calm => read = Window
       /\ todo' = Indexed(read)
  /\ pc' = "catching"
  /\ UNCHANGED <<world, stored, forms, now, last, shutdown, calm>>

\* last_backfill is the day on which the catch-up was found due.
CatchUpEnds ==
  /\ pc = "catching" /\ todo = {}
  /\ last' = now
  /\ pc' = "wait"
  /\ UNCHANGED <<world, stored, cycle, now, shutdown, calm>>

\* ingest_filing stores the filing, finds it stored, or fails and returns None.
IngestNext ==
  /\ migrated
  /\ \E a \in todo :
       /\ todo' = todo \ {a}
       /\ stored' \in {stored \cup {a}} \cup IF calm THEN {} ELSE {stored}
  /\ UNCHANGED <<world, pc, forms, now, last, shutdown, calm>>

\* Out of the cycle with an exception, to be tried again after the wait.
Raise ==
  /\ pc' = "wait"
  /\ forms' = {} /\ todo' = {}
  /\ UNCHANGED <<world, stored, now, last, shutdown, calm>>

NoConnection == ~calm /\ pc \in {"poll", "catchup", "catching"} /\ Raise

NoTable == todo # {} /\ ~migrated /\ Raise

-----------------------------------------------------------------------------

World ==
  \/ \E a \in Filing : Accept(a)
  \/ \E d \in DOMAIN listed : Publish(d)
  \/ BackfillHour \/ Midnight \/ Migrated \/ Calm

Step ==
  \/ Loop \/ Due \/ Wait \/ PollForm \/ PollEnds \/ CatchUp \/ CatchUpEnds
  \/ IngestNext \/ NoTable

Next == World \/ Boot \/ Step \/ PollFails \/ NoConnection \/ Signal \/ Crash \/ GraceOver

Spec == Init /\ [][Next]_vars

\* Days pass, EDGAR publishes its indexes, the worker's statements are executed and
\* its container is started again.  Nothing makes the world calm or a call fail.
Fairness ==
  /\ WF_vars(BackfillHour) /\ WF_vars(Midnight)
  /\ \A d \in 1..(Days - 1) : WF_vars(d \in DOMAIN listed /\ Publish(d))
  /\ WF_vars(Step) /\ WF_vars(Boot)

FairSpec == Spec /\ Fairness

-----------------------------------------------------------------------------
(* Properties. *)

\* "Catch anything the poller missed": once nothing fails any more, every filing
\* accepted today or yesterday (a day less than the window) is stored in the end,
\* though the feed has overflowed, earlier catch-ups have failed half-way and were
\* marked done, one of them runs over midnight, or the worker has just restarted.
EverythingCaught ==
  \A a \in Filing :
    (calm /\ a \in ToSet(accepted) /\ age[a] <= Days - 2) ~> (a \in stored)

\* worker.py:11, "stops at the end of the current cycle": wherever in a cycle the
\* signal has come, and whatever has failed before, a worker that is not killed
\* for it leaves the loop by itself.
SignalStops == (shutdown /\ calm /\ pc \notin Down) ~> (pc = "stopped")

\* worker.py:11-13, "shuts it down cleanly within the grace period instead of being
\* killed mid-write".  Does not hold: the event is looked at between two cycles,
\* not between two filings.
StopsCleanly == [][GraceOver => todo = {}]_vars

=============================================================================
