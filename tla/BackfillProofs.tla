--------------------------- MODULE BackfillProofs ---------------------------
(***************************************************************************)
(* Proofs about the backfill of module Backfill, for any number of jobs,   *)
(* any filings and any interruptions: what a completed quarter means, for  *)
(* jobs with the same forms, and what a row counts, for jobs of any forms. *)
(***************************************************************************)
EXTENDS Backfill, FiniteSetTheorems, TLAPS

USE DEF Quarter

LEMMA InitIndInv == Init => IndInv
<1> USE BackfillAssumption
<1>1. Init => TypeOK
  BY DEF Init, TypeOK, Labels
<1> QED
  BY <1>1 DEF Init, IndInv, JobInv, CompletedWasFed, Completed

\* A row updated in place is a row.
LEMMA UpdateType ==
  ASSUME TypeOK, NEW q \in Quarter, NEW row \in Segment, Update(q, row)
  PROVE  progress' \in [Quarter -> Segment \cup {NoRow}]
BY DEF TypeOK, Update

\* A job at work on a quarter has found or inserted its row.
HasRow(j) == pc[j] \in {"fetch", "record", "feed", "checkpoint"} => progress[cur[j]] # NoRow

LEMMA TypeStep ==
  ASSUME TypeOK, [Next]_vars, \A j \in Job : HasRow(j)
  PROVE  TypeOK'
<1> USE BackfillAssumption, NoRowIsNoSegment DEF TypeOK, Goto, world, history
<1>1. CASE World
  <2>1. CASE NextQuarter
    BY <2>1 DEF NextQuarter
  <2>2. ASSUME NEW a \in Filing, Publish(a) \/ IngestElsewhere(a) PROVE TypeOK'
    BY <2>2 DEF Publish, IngestElsewhere
  <2> QED
    BY <1>1, <2>1, <2>2 DEF World
<1>2. ASSUME NEW j \in Job, Start(j) \/ Die(j) \/ InsertFails(j) PROVE TypeOK'
  <2>1. CASE Start(j)
    BY <2>1 DEF Start, Labels
  <2>2. CASE Die(j) \/ InsertFails(j)
    <3>1. PICK label \in Labels : Stop(j, label)
      BY <2>2 DEF Die, InsertFails, Labels
    <3>2. pc' \in [Job -> Labels]
      BY <3>1 DEF Stop
    <3>3. todo' \in [Job -> SUBSET Listing] /\ count' \in [Job -> Nat]
      BY <3>1 DEF Stop
    <3> QED
      BY <3>1, <3>2, <3>3 DEF Stop
  <2> QED
    BY <1>2, <2>1, <2>2
<1>3. ASSUME NEW j \in Job, SelectSegment(j) PROVE TypeOK'
  <2>1. CASE Advance(j)
    <3>1. cur' \in [Job -> Quarter]
      BY <2>1 DEF Advance
    <3> QED
      BY <1>3, <2>1, <3>1 DEF SelectSegment, Advance, Labels
  <2>2. CASE UNCHANGED <<cur, todo, count, outage>>
    <3>1. pc' \in [Job -> Labels]
      <4>1. Goto(j, "insert") \/ Goto(j, "fetch") \/ Goto(j, "select") \/ Goto(j, "idle")
        BY <1>3 DEF SelectSegment, Advance
      <4> QED
        BY <4>1 DEF Labels
    <3>2. UNCHANGED <<world, progress, last, fed, unread>>
      BY <1>3 DEF SelectSegment
    <3> QED
      BY <2>2, <3>1, <3>2
  <2> QED
    BY <1>3, <2>1, <2>2 DEF SelectSegment
<1>4. ASSUME NEW j \in Job, InsertSegment(j) PROVE TypeOK'
  BY <1>4, UpdateType DEF InsertSegment, Segment, Labels
<1>5. ASSUME NEW j \in Job, FetchQuarter(j) \/ FetchFails(j) PROVE TypeOK'
  <2>1. CASE FetchQuarter(j)
    <3>1. Matching(cur[j], FormsOf[j]) \subseteq Listing
      BY DEF Matching
    <3> QED
      BY <2>1, <3>1 DEF FetchQuarter, Labels
  <2>2. CASE FetchFails(j)
    BY <2>2 DEF FetchFails, Labels
  <2> QED
    BY <1>5, <2>1, <2>2
<1>6. ASSUME NEW j \in Job, RecordSeen(j) PROVE TypeOK'
  <2>1. Cardinality(todo[j]) \in Nat
    BY FS_Subset, FS_CardinalityType
  <2>2. progress[cur[j]] \in Segment
    BY <1>6 DEF RecordSeen, HasRow
  <2>3. [progress[cur[j]] EXCEPT !.forms = FormsOf[j], !.seen = Cardinality(todo[j])]
          \in Segment
    BY <2>1, <2>2 DEF Segment
  <2> QED
    BY <1>6, <2>3, UpdateType DEF RecordSeen, Labels
<1>7. ASSUME NEW j \in Job, Feed(j) PROVE TypeOK'
  <2>1. PICK r \in todo[j] :
          /\ todo' = [todo EXCEPT ![j] = todo[j] \ {r}]
          /\ fed' = fed \cup {r}
          /\ \/ Goto(j, "feed") /\ UNCHANGED <<stored, count>>
             \/ /\ stored' = stored \cup {FilingOf[r]}
                /\ count' = [count EXCEPT ![j] = count[j] + 1]
                /\ Goto(j, IF (count[j] + 1) % Every = 0 THEN "checkpoint" ELSE "feed")
    BY <1>7 DEF Feed
  <2>2. r \in Listing /\ FilingOf[r] \in Filing
    OBVIOUS
  <2>3. pc' \in [Job -> Labels] /\ count' \in [Job -> Nat] /\ stored' \subseteq Filing
    <3>1. CASE Goto(j, "feed") /\ UNCHANGED <<stored, count>>
      BY <3>1 DEF Labels
    <3>2. CASE /\ stored' = stored \cup {FilingOf[r]}
               /\ count' = [count EXCEPT ![j] = count[j] + 1]
               /\ \E label \in {"checkpoint", "feed"} : Goto(j, label)
      BY <2>2, <3>2 DEF Labels
    <3> QED
      BY <2>1, <3>1, <3>2
  <2>4. todo' \in [Job -> SUBSET Listing] /\ fed' \subseteq Listing
    BY <2>1, <2>2
  <2> QED
    <3>1. UNCHANGED <<today, index, progress, cur, last, outage, unread>>
      BY <1>7 DEF Feed
    <3>2. today' \in Quarter /\ index' \subseteq Filing
      BY <3>1
    <3>3. progress' \in [Quarter -> Segment \cup {NoRow}]
      BY <3>1
    <3>4. cur' \in [Job -> Quarter] /\ last' \in [Job -> Quarter]
      BY <3>1
    <3>5. unread' \subseteq Quarter
      BY <3>1
    <3>6. outage' \in [Job -> BOOLEAN]
      BY <3>1
    <3> QED
      BY <2>3, <2>4, <3>2, <3>3, <3>4, <3>5, <3>6
<1>8. ASSUME NEW j \in Job, Checkpoint(j) PROVE TypeOK'
  <2>2. progress[cur[j]] \in Segment
    BY <1>8 DEF Checkpoint, HasRow
  <2>1. [progress[cur[j]] EXCEPT !.ingested = count[j]] \in Segment
    BY <2>2 DEF Segment
  <2> QED
    BY <1>8, <2>1, UpdateType DEF Checkpoint, Labels
<1>9. ASSUME NEW j \in Job, Complete(j) PROVE TypeOK'
  <2>2. progress[cur[j]] \in Segment
    BY <1>9 DEF Complete, HasRow
  <2>1. [progress[cur[j]] EXCEPT !.ingested = count[j], !.completed = TRUE] \in Segment
    BY <2>2 DEF Segment
  <2> QED
    BY <1>9, <2>1, UpdateType DEF Complete, Advance, Labels
<1>10. CASE UNCHANGED vars
  BY <1>10 DEF vars
<1> QED
  BY <1>1, <1>2, <1>3, <1>4, <1>5, <1>6, <1>7, <1>8, <1>9, <1>10 DEF Next, Step

-----------------------------------------------------------------------------
(* What the steps do to the rest of the invariant. *)

\* A new filing is in the index of no settled quarter.
LEMMA MatchingStep ==
  ASSUME IndInv, [Next]_vars, NEW q \in Quarter, NEW forms, Settled(q)
  PROVE  Matching(q, forms)' = Matching(q, forms)
<1>1. progress[q].started \in Quarter /\ q < today
  BY BackfillAssumption DEF IndInv, TypeOK, Settled, Segment
<1>2. ASSUME NEW a \in Filing, Publish(a)
      PROVE  Matching(q, forms)' = Matching(q, forms)
  BY <1>1, <1>2, BackfillAssumption DEF Publish, Matching, IndInv, TypeOK
<1>3. CASE index' = index
  BY <1>3 DEF Matching
<1> QED
  <2>1. index' = index \/ \E a \in Filing : Publish(a)
    BY DEF Next, World, NextQuarter, IngestElsewhere, Start, Step, SelectSegment,
           InsertSegment, InsertFails, Die, Stop, FetchQuarter, FetchFails, RecordSeen,
           Feed, Checkpoint, Complete, world, vars
  <2> QED
    BY <1>2, <1>3, <2>1

\* What the two UPDATEs of filings_ingested do to a row.
LEMMA RowCounted ==
  ASSUME NEW row \in Segment, NEW n \in Nat, NEW r, r = [row EXCEPT !.ingested = n]
  PROVE  /\ r \in Segment /\ r.forms = row.forms
         /\ r.started = row.started /\ r.completed = row.completed
BY DEF Segment

LEMMA RowCompleted ==
  ASSUME NEW row \in Segment, NEW n \in Nat,
         NEW r, r = [row EXCEPT !.ingested = n, !.completed = TRUE]
  PROVE  /\ r \in Segment /\ r.forms = row.forms /\ r.started = row.started
BY DEF Segment

\* One job's UPDATE of the row of its quarter.
LEMMA SegmentUpdate ==
  ASSUME IndInv, NEW j \in Job, RecordSeen(j) \/ Checkpoint(j) \/ Complete(j)
  PROVE  \E row \in Segment :
           /\ progress[cur[j]] \in Segment
           /\ progress' = [progress EXCEPT ![cur[j]] = row]
           /\ row.started = progress[cur[j]].started
           /\ row.forms \in {progress[cur[j]].forms, FormsOf[j]}
           /\ RecordSeen(j) \/ Checkpoint(j) => row.completed = progress[cur[j]].completed
           /\ Complete(j) => row.forms = FormsOf[j]
<1> USE BackfillAssumption
<1>1. progress[cur[j]] \in Segment /\ cur[j] \in Quarter
  BY DEF IndInv, TypeOK, RecordSeen, Checkpoint, Complete, JobInv
<1>2. Cardinality(todo[j]) \in Nat /\ count[j] \in Nat /\ FormsOf[j] \in SUBSET Form
  BY FS_Subset, FS_CardinalityType DEF IndInv, TypeOK
<1>3. CASE RecordSeen(j)
  <2> DEFINE n   == Cardinality(todo[j])
             row == [progress[cur[j]] EXCEPT !.forms = FormsOf[j], !.seen = n]
  <2>4. n \in Nat
    BY <1>2
  <2>5. row = [progress[cur[j]] EXCEPT !.forms = FormsOf[j], !.seen = n]
    OBVIOUS
  <2> HIDE DEF n, row
  <2>1. /\ row \in Segment /\ row.forms = FormsOf[j]
        /\ row.started = progress[cur[j]].started
        /\ row.completed = progress[cur[j]].completed
    BY <1>1, <1>2, <2>4, <2>5 DEF Segment
  <2>2. progress' = [progress EXCEPT ![cur[j]] = row] /\ pc[j] = "record"
    BY <1>3 DEF RecordSeen, Update, n, row
  <2>3. ~Complete(j)
    BY <2>2 DEF Complete
  <2> QED
    BY <1>1, <2>1, <2>2, <2>3
<1>4. CASE Checkpoint(j)
  <2> DEFINE row == [progress[cur[j]] EXCEPT !.ingested = count[j]]
  <2>1. /\ row \in Segment /\ row.forms = progress[cur[j]].forms
        /\ row.started = progress[cur[j]].started
        /\ row.completed = progress[cur[j]].completed
    BY <1>1, <1>2, RowCounted
  <2>2. progress' = [progress EXCEPT ![cur[j]] = row] /\ pc[j] = "checkpoint"
    BY <1>4 DEF Checkpoint, Update
  <2>3. ~Complete(j)
    BY <2>2 DEF Complete
  <2>4. row.forms \in {progress[cur[j]].forms, FormsOf[j]}
    BY <2>1
  <2> HIDE DEF row
  <2> QED
    BY <1>1, <2>1, <2>2, <2>3, <2>4
<1>5. CASE Complete(j)
  <2> DEFINE row == [progress[cur[j]] EXCEPT !.ingested = count[j], !.completed = TRUE]
  <2>1. /\ row \in Segment /\ row.forms = progress[cur[j]].forms
        /\ row.started = progress[cur[j]].started
    BY <1>1, <1>2, RowCompleted
  <2>2. progress' = [progress EXCEPT ![cur[j]] = row] /\ pc[j] = "feed"
    BY <1>5 DEF Complete, Update
  <2>3. ~RecordSeen(j) /\ ~Checkpoint(j)
    BY <2>2 DEF RecordSeen, Checkpoint
  <2>4. progress[cur[j]].forms = FormsOf[j]
    BY <2>2 DEF IndInv, JobInv
  <2> HIDE DEF row
  <2> QED
    BY <1>1, <2>1, <2>2, <2>3, <2>4
<1> QED
  BY <1>3, <1>4, <1>5

\* Every other step leaves the rows alone, except for the one it inserts.
LEMMA OtherSteps ==
  ASSUME [Next]_vars
  PROVE  \/ progress' = progress /\ unread' = unread
         \/ \E j \in Job : \/ RecordSeen(j) \/ Checkpoint(j) \/ Complete(j)
                          \/ InsertSegment(j)
BY DEF Next, World, NextQuarter, Publish, IngestElsewhere, Start, Step, SelectSegment,
       InsertFails, Die, Stop, FetchQuarter, FetchFails, Feed, history, vars

\* Rows stay, with their started_at; their forms change only to the jobs' forms.
LEMMA RowsEvolve ==
  ASSUME SameForms, IndInv, [Next]_vars, NEW q \in Quarter, progress[q] # NoRow
  PROVE  /\ progress'[q] # NoRow
         /\ progress'[q].started = progress[q].started
         /\ \/ progress'[q].forms = progress[q].forms
            \/ Job # {} /\ \A i \in Job : progress'[q].forms = FormsOf[i]
<1>1. ASSUME NEW j \in Job, RecordSeen(j) \/ Checkpoint(j) \/ Complete(j)
      PROVE  /\ progress'[q] # NoRow
             /\ progress'[q].started = progress[q].started
             /\ \/ progress'[q].forms = progress[q].forms
                \/ Job # {} /\ \A i \in Job : progress'[q].forms = FormsOf[i]
  <2>1. PICK row \in Segment :
          /\ progress' = [progress EXCEPT ![cur[j]] = row]
          /\ row.started = progress[cur[j]].started
          /\ row.forms \in {progress[cur[j]].forms, FormsOf[j]}
    BY <1>1, SegmentUpdate
  <2>2. progress'[q] = IF q = cur[j] THEN row ELSE progress[q]
    BY <2>1 DEF IndInv, TypeOK
  <2> QED
    BY <2>1, <2>2, NoRowIsNoSegment DEF SameForms
<1>2. ASSUME NEW j \in Job, InsertSegment(j)
      PROVE  progress'[q] = progress[q]
  BY <1>2 DEF InsertSegment, Update, IndInv, TypeOK
<1> QED
  BY <1>1, <1>2, OtherSteps

\* A row that appears is inserted today; one is completed by Complete alone.
LEMMA RowsAppear ==
  ASSUME IndInv, [Next]_vars, NEW q \in Quarter, progress[q] = NoRow, progress'[q] # NoRow
  PROVE  progress'[q].started = today /\ ~progress'[q].completed
<1>1. ASSUME NEW j \in Job, RecordSeen(j) \/ Checkpoint(j) \/ Complete(j)
      PROVE  FALSE
  BY <1>1, SegmentUpdate, NoRowIsNoSegment DEF IndInv, TypeOK
<1>2. ASSUME NEW j \in Job, InsertSegment(j)
      PROVE  progress'[q].started = today /\ ~progress'[q].completed
  BY <1>2 DEF InsertSegment, Update, IndInv, TypeOK
<1> QED
  BY <1>1, <1>2, OtherSteps

LEMMA Completing ==
  ASSUME IndInv, [Next]_vars, NEW q \in Quarter, Completed(q)'
  PROVE  \/ Completed(q) /\ (q \in unread' <=> q \in unread)
         \/ \E j \in Job : Complete(j) /\ q = cur[j]
<1>1. ASSUME NEW j \in Job, RecordSeen(j) \/ Checkpoint(j)
      PROVE  Completed(q) /\ unread' = unread
  <2>1. PICK row \in Segment :
          /\ progress[cur[j]] \in Segment
          /\ progress' = [progress EXCEPT ![cur[j]] = row]
          /\ row.completed = progress[cur[j]].completed
    BY <1>1, SegmentUpdate
  <2>2. unread' = unread
    BY <1>1 DEF RecordSeen, Checkpoint, history
  <2>3. progress'[q] = IF q = cur[j] THEN row ELSE progress[q]
    BY <2>1 DEF IndInv, TypeOK
  <2> QED
    BY <2>1, <2>2, <2>3, NoRowIsNoSegment DEF Completed
<1>2. ASSUME NEW j \in Job, Complete(j), q # cur[j]
      PROVE  Completed(q) /\ (q \in unread' <=> q \in unread)
  <2>1. progress'[q] = progress[q]
    BY <1>2 DEF Complete, Update, IndInv, TypeOK
  <2>2. q \in unread' <=> q \in unread
    BY <1>2 DEF Complete
  <2> QED
    BY <2>1, <2>2 DEF Completed
<1>3. ASSUME NEW j \in Job, InsertSegment(j)
      PROVE  Completed(q) /\ unread' = unread
  BY <1>3, RowsAppear DEF InsertSegment, Update, IndInv, TypeOK, Completed, history
<1>4. CASE progress' = progress /\ unread' = unread
  BY <1>4 DEF Completed
<1> QED
  BY <1>1, <1>2, <1>3, <1>4, OtherSteps

LEMMA Grows ==
  ASSUME TypeOK, [Next]_vars
  PROVE  fed \subseteq fed' /\ today <= today'
<1>1. fed' = fed \/ \E j \in Job : Feed(j)
  BY DEF Next, World, NextQuarter, Publish, IngestElsewhere, Start, Step, SelectSegment,
         InsertSegment, InsertFails, Die, Stop, FetchQuarter, FetchFails, RecordSeen,
         Checkpoint, Complete, history, vars
<1>2. today' = today \/ NextQuarter
  BY DEF Next, World, Publish, IngestElsewhere, Start, Step, SelectSegment,
         InsertSegment, InsertFails, Die, Stop, FetchQuarter, FetchFails, RecordSeen,
         Feed, Checkpoint, Complete, world, vars
<1>3. fed \subseteq fed'
  BY <1>1 DEF Feed
<1>4. today <= today'
  BY <1>2, BackfillAssumption DEF NextQuarter, TypeOK
<1> QED
  BY <1>3, <1>4

-----------------------------------------------------------------------------
(* The jobs' part of the invariant. *)

\* A job at work on a quarter keeps what it knows of it, whoever takes the step,
\* as long as the refs it drops have been fed.
LEMMA JobInvKept ==
  ASSUME SameForms, IndInv, [Next]_vars, NEW i \in Job,
         pc'[i] \in {"record", "feed", "checkpoint"} =>
           pc[i] \in {"record", "feed", "checkpoint"},
         pc'[i] \in {"feed", "checkpoint"} =>
           pc[i] \in {"feed", "checkpoint"} \/ progress'[cur[i]].forms = FormsOf[i],
         pc'[i] = "fetch" => pc[i] = "fetch",
         cur'[i] = cur[i], outage'[i] = outage[i], todo[i] \subseteq fed' \cup todo'[i]
  PROVE  JobInv(i)'
<1>1. cur[i] \in Quarter
  BY DEF IndInv, TypeOK
<1>2. SUFFICES ASSUME pc'[i] \in {"fetch", "record", "feed", "checkpoint"}
               PROVE  JobInv(i)'
  BY DEF JobInv
<1>3. progress[cur[i]] # NoRow
  BY <1>2 DEF IndInv, JobInv
<1>4. /\ progress'[cur[i]] # NoRow
      /\ progress'[cur[i]].started = progress[cur[i]].started
      /\ \/ progress'[cur[i]].forms = progress[cur[i]].forms
         \/ progress'[cur[i]].forms = FormsOf[i]
  BY <1>1, <1>3, RowsEvolve
<1>5. pc'[i] \in {"feed", "checkpoint"} => progress'[cur[i]].forms = FormsOf[i]
  BY <1>4 DEF IndInv, JobInv
<1>6. ASSUME pc'[i] \in {"record", "feed", "checkpoint"}, Settled(cur[i])', ~outage[i]
      PROVE  Matching(cur[i], FormsOf[i])' \subseteq fed' \cup todo'[i]
  <2>1. Settled(cur[i])
    <3>1. progress'[cur[i]].started > cur[i]
      BY <1>6 DEF Settled
    <3> QED
      BY <1>3, <1>4, <3>1 DEF Settled
  <2>2. Matching(cur[i], FormsOf[i]) \subseteq fed \cup todo[i]
    BY <1>6, <2>1 DEF IndInv, JobInv
  <2> QED
    BY <1>1, <2>1, <2>2, MatchingStep, Grows DEF IndInv
<1> QED
  BY <1>2, <1>4, <1>5, <1>6 DEF JobInv

LEMMA JobStep ==
  ASSUME SameForms, IndInv, [Next]_vars, NEW j \in Job, Start(j) \/ Step(j) \/ Die(j)
  PROVE  JobInv(j)'
<1>1. /\ cur[j] \in Quarter /\ pc \in [Job -> Labels] /\ cur \in [Job -> Quarter]
      /\ todo \in [Job -> SUBSET Listing] /\ outage \in [Job -> BOOLEAN]
      /\ progress \in [Quarter -> Segment \cup {NoRow}]
  BY DEF IndInv, TypeOK
<1>2. CASE Start(j) \/ Die(j) \/ InsertFails(j) \/ Complete(j)
  <2>1. pc'[j] \in {"select", "dead", "idle"}
    BY <1>1, <1>2 DEF Start, Die, InsertFails, Stop, Complete, Advance, Goto
  <2> QED
    BY <2>1 DEF JobInv
<1>3. CASE SelectSegment(j)
  <2>1. CASE progress[cur[j]] # NoRow /\ Goto(j, "fetch") /\ UNCHANGED <<cur, progress>>
    BY <1>1, <2>1 DEF JobInv, Goto
  <2>2. CASE \E label \in {"insert", "select", "idle"} : Goto(j, label)
    BY <1>1, <2>2 DEF JobInv, Goto
  <2> QED
    BY <1>3, <2>1, <2>2 DEF SelectSegment, Advance
<1>4. CASE InsertSegment(j)
  <2>1. progress'[cur[j]] # NoRow
    <3>1. [forms |-> {}, seen |-> 0, ingested |-> 0, started |-> today,
           completed |-> FALSE] \in Segment
      BY DEF Segment, IndInv, TypeOK
    <3> QED
      BY <1>1, <1>4, <3>1, NoRowIsNoSegment DEF InsertSegment, Update
  <2>2. pc'[j] = "fetch" /\ cur'[j] = cur[j]
    BY <1>1, <1>4 DEF InsertSegment, Goto
  <2> QED
    BY <2>1, <2>2 DEF JobInv
<1>5. CASE FetchQuarter(j)
  <2>1. /\ pc'[j] = "record" /\ cur'[j] = cur[j] /\ progress' = progress /\ index' = index
        /\ todo'[j] = Matching(cur[j], FormsOf[j])
    BY <1>1, <1>5 DEF FetchQuarter, Goto, world
  <2>2. Matching(cur[j], FormsOf[j])' = todo'[j]
    BY <2>1 DEF Matching
  <2>3. progress[cur[j]] # NoRow
    BY <1>5 DEF FetchQuarter, IndInv, JobInv
  <2> QED
    BY <2>1, <2>2, <2>3 DEF JobInv
<1>6. CASE FetchFails(j)
  <2>1. /\ pc'[j] = "record" /\ cur'[j] = cur[j] /\ progress' = progress /\ outage'[j]
    BY <1>1, <1>6 DEF FetchFails, Goto
  <2>2. progress[cur[j]] # NoRow
    BY <1>6 DEF FetchFails, IndInv, JobInv
  <2> QED
    BY <2>1, <2>2 DEF JobInv
<1>7. CASE RecordSeen(j) \/ Checkpoint(j)
  <2>1. /\ pc[j] \in {"record", "checkpoint"} /\ pc'[j] = "feed"
        /\ cur'[j] = cur[j] /\ outage'[j] = outage[j] /\ todo'[j] = todo[j]
    BY <1>1, <1>7 DEF RecordSeen, Checkpoint, Goto, history
  <2>2. pc[j] = "checkpoint" \/ progress'[cur[j]].forms = FormsOf[j]
    <3>1. CASE RecordSeen(j)
      <4>1. progress[cur[j]] \in Segment
        BY <1>1, <3>1 DEF RecordSeen, IndInv, JobInv
      <4> QED
        BY <1>1, <3>1, <4>1 DEF RecordSeen, Update, Segment
    <3>2. CASE Checkpoint(j)
      BY <3>2 DEF Checkpoint
    <3> QED
      BY <1>7, <3>1, <3>2
  <2> QED
    BY <2>1, <2>2, JobInvKept
<1>8. CASE Feed(j)
  <2>1. /\ pc[j] = "feed" /\ pc'[j] \in {"feed", "checkpoint"} /\ cur'[j] = cur[j]
        /\ outage'[j] = outage[j] /\ todo[j] \subseteq fed' \cup todo'[j]
    BY <1>1, <1>8 DEF Feed, Goto
  <2> QED
    BY <2>1, JobInvKept
<1> QED
  BY <1>2, <1>3, <1>4, <1>5, <1>6, <1>7, <1>8 DEF Step

\* A step that is not job i's own.
LEMMA OtherJobs ==
  ASSUME SameForms, IndInv, [Next]_vars, NEW i \in Job
  PROVE  JobInv(i)' \/ Start(i) \/ Step(i) \/ Die(i)
<1>1. ASSUME NEW j \in Job, j # i, Start(j) \/ Step(j) \/ Die(j)
      PROVE  pc'[i] = pc[i] /\ cur'[i] = cur[i] /\ outage'[i] = outage[i] /\ todo'[i] = todo[i]
  BY <1>1
     DEF IndInv, TypeOK, Start, Step, SelectSegment, InsertSegment, InsertFails, Die, Stop,
         FetchQuarter, FetchFails, RecordSeen, Feed, Checkpoint, Complete, Advance, Goto,
         history
<1>2. CASE World \/ UNCHANGED vars
  BY <1>2, JobInvKept
     DEF World, NextQuarter, Publish, IngestElsewhere, history, vars
<1> QED
  BY <1>1, <1>2, JobInvKept DEF Next

-----------------------------------------------------------------------------
(* The whole invariant. *)

LEMMA NextIndInv ==
  ASSUME SameForms, IndInv, [Next]_vars
  PROVE  IndInv'
<1>1. TypeOK'
  BY TypeStep DEF IndInv, JobInv, HasRow
<1>2. \A j \in Job : JobInv(j)'
  BY JobStep, OtherJobs
<1>3. ASSUME NEW q \in Quarter, progress'[q] # NoRow
      PROVE  progress'[q].started <= today'
  <2>1. today \in Int /\ today' \in Int /\ today <= today'
    BY <1>1, Grows, BackfillAssumption DEF IndInv, TypeOK
  <2>2. CASE progress[q] = NoRow
    BY <1>3, <2>1, <2>2, RowsAppear
  <2>3. CASE progress[q] # NoRow
    <3>1. progress'[q].started = progress[q].started /\ progress[q].started <= today
      BY <2>3, RowsEvolve DEF IndInv
    <3>2. progress[q].started \in Int
      BY <2>3, BackfillAssumption DEF IndInv, TypeOK, Segment
    <3> QED
      BY <2>1, <3>1, <3>2
  <2> QED
    BY <2>2, <2>3
<1>4. ASSUME NEW q \in Quarter, Completed(q)'
      PROVE  \A j \in Job : progress'[q].forms = FormsOf[j]
  <2>1. CASE Completed(q)
    BY <2>1, RowsEvolve DEF IndInv, Completed
  <2>2. ASSUME NEW j \in Job, Complete(j), q = cur[j]
        PROVE  \A i \in Job : progress'[q].forms = FormsOf[i]
    BY <2>2, RowsEvolve DEF Complete, IndInv, JobInv, SameForms
  <2> QED
    BY <1>4, <2>1, <2>2, Completing
<1>5. ASSUME NEW q \in Quarter, Completed(q)', Settled(q)', q \notin unread'
      PROVE  Matching(q, progress[q].forms)' \subseteq fed'
  <2>1. progress[q] # NoRow
    BY <1>5, RowsAppear DEF Completed
  <2>2. Settled(q)
    BY <1>5, <2>1, RowsEvolve DEF Settled
  <2>3. ASSUME NEW forms, Matching(q, forms) \subseteq fed, progress'[q].forms = forms
        PROVE  Matching(q, progress[q].forms)' \subseteq fed'
    <3>1. Matching(q, forms)' = Matching(q, forms)
      BY <2>2, MatchingStep
    <3>2. Matching(q, progress[q].forms)' = Matching(q, forms)'
      BY <2>3 DEF Matching
    <3> QED
      BY <2>3, <3>1, <3>2, Grows DEF IndInv
  <2>4. CASE Completed(q) /\ q \notin unread
    <3>1. Matching(q, progress[q].forms) \subseteq fed
      BY <2>2, <2>4 DEF IndInv, CompletedWasFed
    <3>2. progress'[q].forms = progress[q].forms
      <4>1. \A j \in Job : progress[q].forms = FormsOf[j]
        BY <2>4 DEF IndInv
      <4> QED
        BY <2>1, <4>1, RowsEvolve
    <3> QED
      BY <2>3, <3>1, <3>2
  <2>5. ASSUME NEW j \in Job, Complete(j), q = cur[j]
        PROVE  Matching(q, progress[q].forms)' \subseteq fed'
    <3>1. ~outage[j] /\ todo[j] = {} /\ pc[j] = "feed"
      BY <1>5, <2>5 DEF Complete
    <3>2. Matching(q, FormsOf[j]) \subseteq fed
      BY <2>2, <2>5, <3>1 DEF IndInv, JobInv
    <3>3. progress'[q].forms = FormsOf[j]
      BY <1>4, <1>5
    <3> QED
      BY <2>3, <3>2, <3>3
  <2> QED
    BY <1>5, <2>4, <2>5, Completing
<1> QED
  BY <1>1, <1>2, <1>3, <1>4, <1>5 DEF IndInv, CompletedWasFed

\* For jobs with the same forms, however many, the invariant always holds.
THEOREM BackfillInvariance == ASSUME SameForms PROVE Spec => []IndInv
<1>1. IndInv /\ [Next]_vars => IndInv'
  BY NextIndInv
<1> QED
  BY <1>1, InitIndInv, PTL DEF Spec

\* A quarter that is marked complete has been walked, whatever was interrupted.
THEOREM CompletionMeansFed == ASSUME SameForms PROVE Spec => []CompletedWasFed
<1>1. IndInv => CompletedWasFed
  BY DEF IndInv
<1> QED
  BY <1>1, BackfillInvariance, PTL

-----------------------------------------------------------------------------
(* What filings_ingested counts, whatever forms the jobs are asked for.    *)

StoredIn(q) == {a \in stored : QuarterOf[a] = q}

\* A job has counted no more than what is stored of its quarter: it counts a filing
\* when it stores it, so that no second listing counts it again.
CountInv(j) ==
  /\ HasRow(j)
  /\ pc[j] \notin {"record", "feed", "checkpoint"} => todo[j] = {}
  /\ pc[j] \notin {"feed", "checkpoint"} => count[j] = 0
  /\ \A r \in todo[j] : QuarterOf[FilingOf[r]] = cur[j]
  /\ count[j] <= Cardinality(StoredIn(cur[j]))

CountingInv == TypeOK /\ (\A j \in Job : CountInv(j)) /\ CountsStored

LEMMA StoredFinite ==
  ASSUME TypeOK, NEW q
  PROVE  IsFiniteSet(StoredIn(q)) /\ Cardinality(StoredIn(q)) \in Nat
<1>1. StoredIn(q) \in SUBSET Filing
  BY DEF TypeOK, StoredIn
<1> QED
  BY <1>1, BackfillAssumption, FS_Subset, FS_CardinalityType

LEMMA StoredGrows ==
  ASSUME [Next]_vars
  PROVE  stored \subseteq stored'
BY DEF Next, World, NextQuarter, Publish, IngestElsewhere, Start, Step, SelectSegment,
       InsertSegment, InsertFails, Die, Stop, FetchQuarter, FetchFails, RecordSeen, Feed,
       Checkpoint, Complete, world, vars

\* What a statement of job j writes to the row of its quarter.
LEMMA RowWritten ==
  ASSUME TypeOK, NEW j \in Job, HasRow(j),
         RecordSeen(j) \/ Checkpoint(j) \/ Complete(j) \/ InsertSegment(j)
  PROVE  \E row \in Segment :
           /\ progress' = [progress EXCEPT ![cur[j]] = row]
           /\ \/ row.ingested \in {0, count[j]}
              \/ progress[cur[j]] # NoRow /\ row.ingested = progress[cur[j]].ingested
<1>1. cur[j] \in Quarter /\ count[j] \in Nat /\ FormsOf[j] \in SUBSET Form
  BY BackfillAssumption DEF TypeOK
<1>2. CASE InsertSegment(j)
  <2> DEFINE new == [forms |-> {}, seen |-> 0, ingested |-> 0, started |-> today,
                     completed |-> FALSE]
  <2>1. new \in Segment /\ new.ingested = 0
    BY DEF Segment, TypeOK
  <2>2. progress' = [progress EXCEPT ![cur[j]] = new]
    BY <1>2 DEF InsertSegment, Update
  <2> HIDE DEF new
  <2> QED
    BY <2>1, <2>2
<1>3. CASE RecordSeen(j)
  <2> DEFINE n   == Cardinality(todo[j])
             new == [progress[cur[j]] EXCEPT !.forms = FormsOf[j], !.seen = n]
  <2>1. progress[cur[j]] \in Segment /\ progress[cur[j]] # NoRow
    BY <1>1, <1>3 DEF TypeOK, RecordSeen, HasRow
  <2>2. n \in Nat
    BY BackfillAssumption, FS_Subset, FS_CardinalityType DEF TypeOK
  <2>3. progress' = [progress EXCEPT ![cur[j]] = new]
    BY <1>3 DEF RecordSeen, Update
  <2>4. new = [progress[cur[j]] EXCEPT !.forms = FormsOf[j], !.seen = n]
    OBVIOUS
  <2> HIDE DEF n, new
  <2>5. new \in Segment /\ new.ingested = progress[cur[j]].ingested
    BY <1>1, <2>1, <2>2, <2>4 DEF Segment
  <2> QED
    BY <2>1, <2>3, <2>5
<1>4. CASE Checkpoint(j)
  <2> DEFINE new == [progress[cur[j]] EXCEPT !.ingested = count[j]]
  <2>1. progress[cur[j]] \in Segment
    BY <1>1, <1>4 DEF TypeOK, Checkpoint, HasRow
  <2>2. progress' = [progress EXCEPT ![cur[j]] = new]
    BY <1>4 DEF Checkpoint, Update
  <2>3. new \in Segment /\ new.ingested = count[j]
    BY <1>1, <2>1 DEF Segment
  <2> HIDE DEF new
  <2> QED
    BY <2>2, <2>3
<1>5. CASE Complete(j)
  <2> DEFINE new == [progress[cur[j]] EXCEPT !.ingested = count[j], !.completed = TRUE]
  <2>1. progress[cur[j]] \in Segment
    BY <1>1, <1>5 DEF TypeOK, Complete, HasRow
  <2>2. progress' = [progress EXCEPT ![cur[j]] = new]
    BY <1>5 DEF Complete, Update
  <2>3. new \in Segment /\ new.ingested = count[j]
    BY <1>1, <2>1 DEF Segment
  <2> HIDE DEF new
  <2> QED
    BY <2>2, <2>3
<1> QED
  BY <1>2, <1>3, <1>4, <1>5

\* Rows are not deleted, and what they count is what they counted or what a job has.
LEMMA RowsCounted ==
  ASSUME CountingInv, [Next]_vars, NEW q \in Quarter
  PROVE  /\ progress[q] # NoRow => progress'[q] # NoRow
         /\ progress'[q] # NoRow =>
              \/ progress'[q].ingested = 0
              \/ progress[q] # NoRow /\ progress'[q].ingested = progress[q].ingested
              \/ \E j \in Job : cur[j] = q /\ progress'[q].ingested = count[j]
<1>1. CASE progress' = progress
  BY <1>1
<1>2. ASSUME NEW j \in Job, RecordSeen(j) \/ Checkpoint(j) \/ Complete(j) \/ InsertSegment(j)
      PROVE  /\ progress[q] # NoRow => progress'[q] # NoRow
             /\ progress'[q] # NoRow =>
                  \/ progress'[q].ingested = 0
                  \/ progress[q] # NoRow /\ progress'[q].ingested = progress[q].ingested
                  \/ \E i \in Job : cur[i] = q /\ progress'[q].ingested = count[i]
  <2>1. PICK row \in Segment :
          /\ progress' = [progress EXCEPT ![cur[j]] = row]
          /\ \/ row.ingested \in {0, count[j]}
             \/ progress[cur[j]] # NoRow /\ row.ingested = progress[cur[j]].ingested
    BY <1>2, RowWritten DEF CountingInv, CountInv
  <2>2. progress'[q] = IF q = cur[j] THEN row ELSE progress[q]
    BY <2>1 DEF CountingInv, TypeOK
  <2> QED
    BY <2>1, <2>2, NoRowIsNoSegment
<1> QED
  BY <1>1, <1>2, OtherSteps

\* A job's own steps.
LEMMA CountStep ==
  ASSUME CountingInv, TypeOK', [Next]_vars, NEW j \in Job, Start(j) \/ Step(j) \/ Die(j)
  PROVE  CountInv(j)'
<1>1. /\ cur[j] \in Quarter /\ cur'[j] \in Quarter /\ count[j] \in Nat /\ count'[j] \in Nat
      /\ pc \in [Job -> Labels] /\ cur \in [Job -> Quarter] /\ count \in [Job -> Nat]
      /\ todo \in [Job -> SUBSET Listing]
  BY DEF CountingInv, TypeOK
<1>2. /\ HasRow(j)
      /\ pc[j] \notin {"record", "feed", "checkpoint"} => todo[j] = {}
      /\ pc[j] \notin {"feed", "checkpoint"} => count[j] = 0
      /\ \A r \in todo[j] : QuarterOf[FilingOf[r]] = cur[j]
      /\ count[j] <= Cardinality(StoredIn(cur[j]))
  BY DEF CountingInv, CountInv
<1>3. progress[cur[j]] # NoRow => progress'[cur[j]] # NoRow
  BY <1>1, RowsCounted
<1>4. ASSUME count'[j] = 0
      PROVE  count'[j] <= Cardinality(StoredIn(cur[j])')
  <2>1. StoredIn(cur[j])' \in SUBSET Filing
    BY DEF TypeOK, StoredIn
  <2>2. Cardinality(StoredIn(cur[j])') \in Nat
    BY <2>1, BackfillAssumption, FS_Subset, FS_CardinalityType
  <2> QED
    BY <1>4, <2>2
<1>5. CASE \/ Start(j) \/ Die(j) \/ InsertFails(j) \/ Complete(j)
           \/ SelectSegment(j) /\ Advance(j)
  <2>1. pc'[j] \in {"select", "dead", "idle"} /\ todo'[j] = {} /\ count'[j] = 0
    BY <1>1, <1>2, <1>5 DEF Start, Die, InsertFails, Stop, Complete, Advance, Goto
  <2> QED
    BY <1>4, <2>1 DEF CountInv, HasRow
<1>6. CASE \/ SelectSegment(j) /\ ~Advance(j)
           \/ InsertSegment(j) \/ FetchQuarter(j) \/ FetchFails(j)
  <2>1. /\ count'[j] = 0 /\ cur'[j] = cur[j]
        /\ pc'[j] \in {"insert", "fetch", "record"}
        /\ pc'[j] # "record" => todo'[j] = {}
    BY <1>1, <1>2, <1>6 DEF SelectSegment, InsertSegment, FetchQuarter, FetchFails, Goto
  <2>2. \A r \in todo'[j] : QuarterOf[FilingOf[r]] = cur[j]
    BY <1>1, <1>2, <1>6 DEF SelectSegment, InsertSegment, FetchQuarter, FetchFails, Goto, Matching
  <2>3. HasRow(j)'
    <3>1. CASE SelectSegment(j)
      BY <1>1, <1>6, <2>1, <3>1 DEF SelectSegment, HasRow, Goto
    <3>2. CASE InsertSegment(j)
      <4>1. PICK new \in Segment : progress' = [progress EXCEPT ![cur[j]] = new]
        BY <1>2, <3>2, RowWritten DEF CountingInv
      <4>2. progress'[cur[j]] # NoRow
        BY <1>1, <4>1, NoRowIsNoSegment DEF CountingInv, TypeOK
      <4> QED
        BY <2>1, <4>2 DEF HasRow
    <3>3. CASE FetchQuarter(j) \/ FetchFails(j)
      BY <1>2, <2>1, <3>3 DEF FetchQuarter, FetchFails, HasRow
    <3> QED
      BY <1>6, <3>1, <3>2, <3>3
  <2> QED
    BY <1>4, <2>1, <2>2, <2>3 DEF CountInv
<1>7. CASE RecordSeen(j) \/ Checkpoint(j)
  <2>1. /\ pc[j] \in {"record", "checkpoint"} /\ pc'[j] = "feed" /\ cur'[j] = cur[j]
        /\ todo'[j] = todo[j] /\ count'[j] = count[j] /\ stored' = stored
    BY <1>1, <1>7 DEF RecordSeen, Checkpoint, Goto, world
  <2>2. StoredIn(cur[j])' = StoredIn(cur[j])
    BY <2>1 DEF StoredIn
  <2> QED
    BY <1>2, <1>3, <2>1, <2>2 DEF CountInv, HasRow
<1>8. CASE Feed(j)
  <2>1. PICK r \in todo[j] :
          /\ todo'[j] = todo[j] \ {r}
          /\ \/ stored' = stored /\ count'[j] = count[j]
             \/ /\ FilingOf[r] \notin stored /\ stored' = stored \cup {FilingOf[r]}
                /\ count'[j] = count[j] + 1
    BY <1>1, <1>8 DEF Feed
  <2>2. /\ pc[j] = "feed" /\ pc'[j] \in {"feed", "checkpoint"} /\ cur'[j] = cur[j]
        /\ progress' = progress
    BY <1>1, <1>8 DEF Feed, Goto
  <2> DEFINE A == StoredIn(cur[j])
             B == StoredIn(cur[j])'
  <2>3. B = {b \in stored' : QuarterOf[b] = cur[j]}
    BY <2>1, <2>2 DEF StoredIn
  <2>4. IsFiniteSet(A) /\ Cardinality(A) \in Nat
    BY StoredFinite DEF CountingInv
  <2>5. IsFiniteSet(B) /\ Cardinality(B) \in Nat
    <3>1. B \in SUBSET Filing
      BY DEF TypeOK, StoredIn
    <3> QED
      BY <3>1, BackfillAssumption, FS_Subset, FS_CardinalityType
  <2>6. CASE stored' = stored /\ count'[j] = count[j]
    <3>1. A \in SUBSET B
      BY <2>3, <2>6 DEF StoredIn
    <3> HIDE DEF A, B
    <3>2. Cardinality(A) <= Cardinality(B)
      BY <2>5, <3>1, FS_Subset
    <3>3. count'[j] <= Cardinality(B)
      BY <1>1, <1>2, <2>4, <2>5, <2>6, <3>2 DEF A
    <3> QED
      BY <1>2, <2>1, <2>2, <3>3 DEF CountInv, HasRow, B
  <2>7. CASE /\ FilingOf[r] \notin stored /\ stored' = stored \cup {FilingOf[r]}
             /\ count'[j] = count[j] + 1
    <3>1. B = A \cup {FilingOf[r]} /\ FilingOf[r] \notin A
      BY <1>2, <2>3, <2>7 DEF StoredIn
    <3> HIDE DEF A, B
    <3>2. Cardinality(B) = Cardinality(A) + 1
      BY <2>4, <3>1, FS_AddElement
    <3>3. count'[j] <= Cardinality(B)
      BY <1>1, <1>2, <2>4, <2>7, <3>2 DEF A
    <3> QED
      BY <1>2, <2>1, <2>2, <3>3 DEF CountInv, HasRow, B
  <2> QED
    BY <2>1, <2>6, <2>7
<1> QED
  BY <1>5, <1>6, <1>7, <1>8, Zenon DEF Step

\* Nobody else's step touches what job i has counted.
LEMMA CountKept ==
  ASSUME CountingInv, TypeOK', [Next]_vars, NEW i \in Job
  PROVE  CountInv(i)' \/ Start(i) \/ Step(i) \/ Die(i)
<1>1. ASSUME pc'[i] = pc[i], cur'[i] = cur[i], todo'[i] = todo[i], count'[i] = count[i]
      PROVE  CountInv(i)'
  <2>1. /\ CountInv(i) /\ TypeOK /\ cur[i] \in Quarter /\ count[i] \in Nat
    BY DEF CountingInv, TypeOK
  <2>2. HasRow(i)'
    BY <1>1, <2>1, RowsCounted DEF HasRow, CountInv
  <2>3. Cardinality(StoredIn(cur[i])) <= Cardinality({a \in stored' : QuarterOf[a] = cur[i]})
    <3>1. StoredIn(cur[i]) \in SUBSET {a \in stored' : QuarterOf[a] = cur[i]}
      BY StoredGrows DEF StoredIn
    <3>2. {a \in stored' : QuarterOf[a] = cur[i]} \in SUBSET Filing
      BY DEF TypeOK
    <3> QED
      BY <3>1, <3>2, BackfillAssumption, FS_Subset
  <2>4. StoredIn(cur[i])' = {a \in stored' : QuarterOf[a] = cur[i]}
    BY <1>1 DEF StoredIn
  <2>5. /\ Cardinality(StoredIn(cur[i])) \in Nat
        /\ Cardinality(StoredIn(cur[i])') \in Nat
    <3>1. StoredIn(cur[i])' \in SUBSET Filing
      BY DEF TypeOK, StoredIn
    <3> QED
      BY <2>1, <3>1, StoredFinite, BackfillAssumption, FS_Subset, FS_CardinalityType
  <2>6. count'[i] <= Cardinality(StoredIn(cur[i])')
    BY <1>1, <2>1, <2>3, <2>4, <2>5 DEF CountInv
  <2> QED
    BY <1>1, <2>1, <2>2, <2>6 DEF CountInv
<1>2. ASSUME NEW j \in Job, j # i, Start(j) \/ Step(j) \/ Die(j)
      PROVE  pc'[i] = pc[i] /\ cur'[i] = cur[i] /\ todo'[i] = todo[i] /\ count'[i] = count[i]
  BY <1>2
     DEF CountingInv, TypeOK, Start, Step, SelectSegment, InsertSegment, InsertFails, Die, Stop,
         FetchQuarter, FetchFails, RecordSeen, Feed, Checkpoint, Complete, Advance, Goto
<1>3. CASE World \/ UNCHANGED vars
  BY <1>1, <1>3 DEF World, NextQuarter, Publish, IngestElsewhere, vars
<1> QED
  BY <1>1, <1>2, <1>3 DEF Next

LEMMA CountsStoredStep ==
  ASSUME CountingInv, TypeOK', [Next]_vars
  PROVE  CountsStored'
<1> SUFFICES ASSUME NEW q \in Quarter, progress'[q] # NoRow
             PROVE  progress'[q].ingested <= Cardinality({a \in stored' : QuarterOf[a] = q})
  BY DEF CountsStored
<1> DEFINE S == {a \in stored : QuarterOf[a] = q}
           T == {a \in stored' : QuarterOf[a] = q}
<1>1. T \in SUBSET Filing /\ S \in SUBSET T
  BY StoredGrows DEF TypeOK
<1>2. /\ IsFiniteSet(T) /\ IsFiniteSet(S) /\ Cardinality(S) <= Cardinality(T)
      /\ Cardinality(S) \in Nat /\ Cardinality(T) \in Nat
  <2> HIDE DEF S, T
  <2> QED
    BY <1>1, BackfillAssumption, FS_Subset, FS_CardinalityType
<1>3. ASSUME progress[q] # NoRow PROVE progress[q].ingested \in Nat /\ progress[q].ingested <= Cardinality(S)
  BY <1>3 DEF CountingInv, CountsStored, TypeOK, Segment
<1>4. ASSUME NEW j \in Job, cur[j] = q PROVE count[j] \in Nat /\ count[j] <= Cardinality(S)
  <2>1. StoredIn(q) \in SUBSET S
    BY DEF StoredIn
  <2> HIDE DEF S
  <2>2. Cardinality(StoredIn(q)) <= Cardinality(S) /\ Cardinality(StoredIn(q)) \in Nat
    BY <1>2, <2>1, FS_Subset, FS_CardinalityType
  <2> QED
    BY <1>2, <1>4, <2>2 DEF CountingInv, CountInv, TypeOK
<1> HIDE DEF S
<1>5. progress'[q].ingested <= Cardinality(T)
  <2> HIDE DEF T
  <2> QED
    BY <1>2, <1>3, <1>4, RowsCounted
<1> QED
  BY <1>5

\* filings_ingested is never more than the quarter's filings in the database, for
\* jobs of any forms side by side, interrupted anywhere (backfill_quarter).
THEOREM CountsNeverExceed == Spec => []CountsStored
<1>1. Init => CountingInv
  <2> SUFFICES ASSUME Init PROVE CountingInv
    OBVIOUS
  <2>1. TypeOK
    BY InitIndInv DEF IndInv
  <2>2. \A q : Cardinality(StoredIn(q)) \in Nat
    BY <2>1, StoredFinite
  <2> QED
    BY <2>1, <2>2 DEF CountingInv, CountInv, CountsStored, HasRow, Init
<1>2. CountingInv /\ [Next]_vars => CountingInv'
  <2> SUFFICES ASSUME CountingInv, [Next]_vars PROVE CountingInv'
    OBVIOUS
  <2>1. TypeOK'
    BY TypeStep DEF CountingInv, CountInv
  <2> QED
    BY <2>1, CountStep, CountKept, CountsStoredStep DEF CountingInv
<1>3. CountingInv => CountsStored
  BY DEF CountingInv
<1> QED
  BY <1>1, <1>2, <1>3, PTL DEF Spec

=============================================================================
