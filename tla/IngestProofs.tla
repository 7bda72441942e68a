---------------------------- MODULE IngestProofs ----------------------------
(***************************************************************************)
(* Proofs about module Ingest for any number of sessions, filings, filers  *)
(* and securities: the inductive invariant, the implementation of the      *)
(* store, and what concurrent enrichments leave of a security's identity.  *)
(***************************************************************************)
EXTENDS Ingest, DiffProofs

-----------------------------------------------------------------------------
(* Rows, and what a step of one session leaves to the others. *)

LEMMA RowKinds ==
  /\ \A f \in Cik : <<"filer", f>> \in Row /\ Version(<<"filer", f>>) = FilerVersion
  /\ \A a \in Accession : <<"filing", a>> \in Row /\ Version(<<"filing", a>>) = FilingVersion
  /\ \A k \in Key : <<"security", k>> \in Row /\ Version(<<"security", k>>) = SecurityRef
BY DEF Row, Version

LEMMA RefFields ==
  ASSUME NEW r \in Ref
  PROVE  /\ r.cik \in Cik /\ r.acc \in Accession /\ r.name \in Value
         /\ Doc[r.acc].filed \in Nat \ {0}
         /\ FamilyOf(r.acc) \in Families \cup {Unsupported}
<1>1. /\ r.cik \in Cik /\ r.acc \in Accession /\ r.name \in Value
  BY DEF Ref
<1>2. Doc[r.acc].filed \in Nat \ {0}
  BY <1>1, DocAssumption
<1>3. FamilyOf(r.acc) \in Families \cup {Unsupported}
  BY DEF FamilyOf, Family, Families
<1> QED
  BY <1>1, <1>2, <1>3

\* Session t changes its own locals only.
OnlyLocal(t) ==
  \A s \in Session \ {t} :
    /\ pc'[s] = pc[s] /\ ref'[s] = ref[s] /\ out'[s] = out[s]
    /\ pos'[s] = pos[s] /\ diff'[s] = diff[s]

\* Rows of other sessions stay theirs; a committed version changes only when t
\* commits its own.
OthersKeep(t) ==
  \A r \in Row :
    /\ \A s \in Session \ {t} : lock'[r] = s <=> lock[r] = s
    /\ \A s \in Session \ {t} : lock[r] = s => dirty'[r] = dirty[r]
    /\ db'[r] = db[r] \/ (pc[t] = "commit" /\ lock[r] = t /\ db'[r] = dirty[r])

\* Session t keeps the rows it has and commits none.
OwnKeep(t) ==
  \A r \in Row : (lock[r] = t => lock'[r] = t) /\ db'[r] = db[r]

LEMMA KnownByOthers ==
  ASSUME TablesOK, NEW t \in Session, OthersKeep(t), NEW s \in Session \ {t},
         NEW r \in Row, Known(s, r)
  PROVE  Known(s, r)'
<1>1. CASE lock[r] = s
  BY <1>1 DEF OthersKeep, Known, View
<1>2. CASE lock[r] # s
  BY <1>2, SessionAssumption DEF OthersKeep, Known, View, TablesOK
<1> QED
  BY <1>1, <1>2

LEMMA KnownByItself ==
  ASSUME TablesOK', NEW t \in Session, OwnKeep(t), NEW r \in Row, Known(t, r)
  PROVE  Known(t, r)'
<1>1. CASE lock'[r] = t
  BY <1>1, SessionAssumption DEF Known, View, TablesOK
<1>2. CASE lock'[r] # t
  BY <1>2 DEF OwnKeep, Known, View
<1> QED
  BY <1>1, <1>2

LEMMA SecurityRowOfLine ==
  ASSUME NEW o \in Outcome, NEW i \in 1..Len(o.lines)
  PROVE  /\ o.lines[i] \in Line
         /\ SecurityKey(o.lines[i].ref) \in Key
         /\ <<"security", SecurityKey(o.lines[i].ref)>> \in Row
<1>1. o.lines[i] \in Line
  BY DEF Outcome
<1>2. SecurityKey(o.lines[i].ref) \in Key
  BY <1>1, SecurityKeyType DEF Line
<1> QED
  BY <1>1, <1>2, RowKinds

\* A session that takes no part in a step keeps its part of the invariant.
LEMMA OtherSessions ==
  ASSUME IndInv, TablesOK', NEW t \in Session, OnlyLocal(t), OthersKeep(t),
         NEW s \in Session \ {t}
  PROVE  SessionInv(s)'
<1> USE DEF IndInv, TypeOK, SessionInv
<1>1. /\ pc'[s] = pc[s] /\ ref'[s] = ref[s] /\ out'[s] = out[s]
      /\ pos'[s] = pos[s] /\ diff'[s] = diff[s]
  BY DEF OnlyLocal
<1>2. FilerRow(s)' = FilerRow(s) /\ FilingRow(s)' = FilingRow(s)
  BY <1>1 DEF FilerRow, FilingRow
<1>3. pc[s] # "idle" => FilerRow(s) \in Row /\ FilingRow(s) \in Row /\ ref[s] \in Ref
  BY RefFields, RowKinds DEF LocalsOK, FilerRow, FilingRow
<1>4. Progress(s)'
  BY <1>1 DEF Progress
<1>5. Resolved(s)'
  <2>1. pc[s] \notin {"idle", "filer", "newfiler"} => Known(s, FilerRow(s))'
    BY <1>2, <1>3, KnownByOthers DEF Resolved
  <2>2. ASSUME pc[s] \in {"enrich", "child"}
        PROVE  Known(s, SecurityRow(s))'
    <3>1. SecurityRow(s)' = SecurityRow(s)
      BY <1>1 DEF SecurityRow, CurrentLine
    <3>2. pos[s] \in 1..Len(out[s].lines) /\ out[s] \in Outcome
      BY <2>2 DEF Progress, InLoop, LocalsOK
    <3>3. SecurityRow(s) \in Row
      BY <3>2, SecurityRowOfLine DEF SecurityRow, CurrentLine
    <3> QED
      BY <2>2, <3>1, <3>3, KnownByOthers DEF Resolved
  <2>3. ASSUME pc[s] \in InLoop \cup AfterLoop, NEW i \in 1..(pos[s] - 1),
               NEW r, r = <<"security", SecurityKey(out[s].lines[i].ref)>>
        PROVE  Known(s, r)'
    <3>1. out[s] \in Outcome /\ Len(out[s].lines) \in Nat
      BY DEF LocalsOK, Outcome
    <3>2. i \in 1..Len(out[s].lines)
      BY <2>3, <3>1 DEF Progress
    <3>3. r \in Row
      BY <2>3, <3>1, <3>2, SecurityRowOfLine
    <3>4. Known(s, r)
      BY <2>3 DEF Resolved
    <3> QED
      BY <3>3, <3>4, KnownByOthers
  <2> QED
    BY <1>1, <1>2, <2>1, <2>2, <2>3 DEF Resolved, Known, View
<1>6. OwnFiling(s)'
  <2>1. ASSUME pc[s] \in {"fetch"} \cup InLoop \cup AfterLoop
        PROVE  /\ lock'[FilingRow(s)] = s
               /\ db'[FilingRow(s)] = NoRow
               /\ dirty'[FilingRow(s)] = dirty[FilingRow(s)]
    BY <2>1, <1>3 DEF OwnFiling, OthersKeep, InLoop, AfterLoop
  <2>2. FilingSoFar(s)' = FilingSoFar(s)
    BY <1>1 DEF FilingSoFar
  <2> QED
    BY <1>1, <1>2, <2>1, <2>2 DEF OwnFiling
<1>7. OwnFiler(s)'
  BY <1>1, <1>2, <1>3 DEF OwnFiler, OthersKeep
<1>8. OwnDiff(s)'
  <2> SUFFICES ASSUME pc[s] = "commit", HasDiff(s)
               PROVE  OwnFilings(s)' = OwnFilings(s)
    BY <1>1 DEF OwnDiff, HasDiff
  <2> DEFINE F == [a \in Accession |-> View(s, <<"filing", a>>)]
             G == [a \in Accession |-> View(s, <<"filing", a>>)']
             f == ref[s].cik
  <2>1. ASSUME NEW a \in Accession
        PROVE  G[a] = F[a] \/ (F[a] = NoRow /\ (G[a] = NoRow \/ G[a].cik # f))
    <3> DEFINE r == <<"filing", a>>
    <3>1. r \in Row
      BY RowKinds
    <3>2. CASE lock[r] = s
      BY <3>1, <3>2 DEF OthersKeep, View
    <3>3. CASE lock[r] # s /\ db'[r] = db[r]
      BY <3>1, <3>3 DEF OthersKeep, View
    <3>4. CASE lock[r] = t /\ pc[t] = "commit" /\ db'[r] = dirty[r]
      <4>1. r = FilingRow(t)
        BY <3>1, <3>4 DEF Owners, OwnsOnly
      <4>2. db[r] = NoRow /\ dirty[r].cik = ref[t].cik
        <5>1. db[r] = NoRow /\ dirty[r] = FilingSoFar(t)
          BY <3>4, <4>1 DEF OwnFiling, AfterLoop
        <5>2. FilingSoFar(t).cik = ref[t].cik
          BY DEF FilingSoFar, FilingWith
        <5> QED
          BY <5>1, <5>2
      <4>3. ref[t].cik # ref[s].cik
        BY <3>4 DEF OwnFiler, FilerRow
      <4> QED
        BY <3>1, <3>4, <4>2, <4>3 DEF OthersKeep, View
    <3> QED
      BY <3>1, <3>2, <3>3, <3>4 DEF OthersKeep
  <2>2. FiledBy(F, f) = FiledBy(G, f)
    <3> HIDE DEF f
    <3>1. F = [a \in Accession |-> F[a]] /\ G = [a \in Accession |-> G[a]]
      OBVIOUS
    <3> HIDE DEF F, G
    <3> QED
      BY <2>1, <3>1, FiledByOther
  <2> QED
    BY <1>1, <2>2 DEF OwnFilings
<1> QED
  BY <1>4, <1>5, <1>6, <1>7, <1>8

-----------------------------------------------------------------------------
(* The kinds of effect a step of session t has on the tables. *)

LEMMA NoWrite ==
  ASSUME TablesOK, NEW t \in Session, UNCHANGED tables
  PROVE  TablesOK' /\ OthersKeep(t) /\ OwnKeep(t)
BY DEF tables, TablesOK, OthersKeep, OwnKeep

LEMMA OneWrite ==
  ASSUME TablesOK, NEW t \in Session, NEW r \in Row, NEW v \in Version(r), Write(t, r, v)
  PROVE  /\ TablesOK' /\ OthersKeep(t) /\ OwnKeep(t)
         /\ lock'[r] = t /\ dirty'[r] = v
         /\ \A q \in Row \ {r} : lock'[q] = lock[q] /\ dirty'[q] = dirty[q]
<1>1. /\ lock'[r] = t /\ dirty'[r] = v
      /\ \A q \in Row \ {r} : lock'[q] = lock[q] /\ dirty'[q] = dirty[q]
      /\ db' = db
      /\ lock' \in [Row -> Session \cup {Nobody}]
      /\ dirty' = [q \in Row |-> dirty'[q]]
  BY DEF Write, TablesOK
<1>2. TablesOK'
  BY <1>1 DEF TablesOK
<1>3. lock[r] \in {Nobody, t}
  BY DEF Write, Free
<1>4. OthersKeep(t) /\ OwnKeep(t)
  BY <1>1, <1>3, SessionAssumption DEF OthersKeep, OwnKeep
<1> QED
  BY <1>1, <1>2, <1>4

LEMMA RolledBack ==
  ASSUME TablesOK, NEW t \in Session, Rollback(t)
  PROVE  /\ TablesOK' /\ OthersKeep(t)
         /\ \A r \in Row : lock'[r] # t
         /\ db' = db /\ change' = change
<1>1. /\ \A r \in Row : lock'[r] = IF lock[r] = t THEN Nobody ELSE lock[r]
      /\ \A r \in Row : dirty'[r] = IF lock[r] = t THEN NoRow ELSE dirty[r]
      /\ db' = db /\ change' = change
      /\ dirty' = [r \in Row |-> dirty'[r]]
      /\ lock' = [r \in Row |-> lock'[r]]
  BY DEF Rollback, Unlock
<1>2. lock' \in [Row -> Session \cup {Nobody}]
  BY <1>1 DEF TablesOK
<1>3. TablesOK'
  BY <1>1, <1>2, SessionAssumption DEF TablesOK
<1> QED
  BY <1>1, <1>3, SessionAssumption DEF OthersKeep

\* What is left to show for a step of session t.
LEMMA AssembleAny ==
  ASSUME IndInv, TablesOK', LocalsOK', ReferencesResolve',
         change' = [x \in Cik \X Period |-> change'[x]],
         NEW t \in Session, OnlyLocal(t), OthersKeep(t), OwnsOnly(t)', SessionInv(t)'
  PROVE  IndInv'
<1>1. TypeOK'
  BY DEF TypeOK
<1>2. Owners'
  <2> SUFFICES ASSUME NEW s \in Session \ {t}
               PROVE  OwnsOnly(s)'
    BY DEF Owners
  <2>1. FilerRow(s)' = FilerRow(s) /\ FilingRow(s)' = FilingRow(s) /\ pc'[s] = pc[s]
    BY DEF OnlyLocal, FilerRow, FilingRow
  <2> QED
    BY <2>1 DEF IndInv, Owners, OwnsOnly, OthersKeep
<1>3. \A s \in Session \ {t} : SessionInv(s)'
  BY OtherSessions
<1> QED
  BY <1>1, <1>2, <1>3 DEF IndInv

\* ... and for one that commits nothing.
LEMMA Assemble ==
  ASSUME IndInv, TablesOK', LocalsOK', UNCHANGED <<change, db>>,
         NEW t \in Session, OnlyLocal(t), OthersKeep(t), OwnsOnly(t)', SessionInv(t)'
  PROVE  IndInv'
<1>1. ReferencesResolve'
  BY DEF IndInv, ReferencesResolve
<1>2. change' = [x \in Cik \X Period |-> change'[x]]
  BY DEF IndInv, TypeOK
<1> QED
  BY <1>1, <1>2, AssembleAny

\* Between calls a session has no part in the invariant.
LEMMA Returned ==
  ASSUME LocalsOK, NEW t \in Session, Return(t)
  PROVE  OnlyLocal(t) /\ LocalsOK' /\ SessionInv(t)'
<1>1. OnlyLocal(t)
  BY DEF OnlyLocal, Return, Goto, LocalsOK
<1>2. "idle" \in Labels /\ Empty \in Outcome /\ {} \in SUBSET Column
  BY EmptyType DEF Labels
<1>3. /\ pc'[t] = "idle" /\ out'[t] = Empty /\ pos'[t] = 1
      /\ \A s \in Session \ {t} : pc'[s] = pc[s] /\ ref'[s] = ref[s]
  BY DEF LocalsOK, Return, Goto
<1>4. pc' \in [Session -> Labels] /\ ref' \in [Session -> Ref \cup {NoRow}]
  BY <1>2 DEF LocalsOK, Return, Goto
<1>5. /\ out' \in [Session -> Outcome] /\ pos' \in [Session -> Nat \ {0}]
      /\ cols' \in [Session -> SUBSET Column]
  BY <1>2 DEF LocalsOK, Return
<1>6. diff' = [s \in Session |-> diff'[s]]
  BY DEF LocalsOK, Return
<1>7. LocalsOK'
  BY <1>3, <1>4, <1>5, <1>6 DEF LocalsOK
<1>8. SessionInv(t)'
  BY <1>3 DEF SessionInv, Progress, Resolved, OwnFiling, OwnFiler, OwnDiff, InLoop, AfterLoop
<1> QED
  BY <1>1, <1>7, <1>8

\* A rollback keeps the invariant.
LEMMA RollbackStep ==
  ASSUME IndInv, NEW t \in Session, Rollback(t), Return(t)
  PROVE  IndInv'
<1>1. /\ TablesOK' /\ OthersKeep(t) /\ \A r \in Row : lock'[r] # t
      /\ UNCHANGED <<change, db>>
  BY RolledBack DEF IndInv, TypeOK
<1>2. OnlyLocal(t) /\ LocalsOK' /\ SessionInv(t)'
  BY Returned DEF IndInv, TypeOK
<1>3. OwnsOnly(t)'
  BY <1>1 DEF OwnsOnly
<1> QED
  BY <1>1, <1>2, <1>3, Assemble

-----------------------------------------------------------------------------
(* The session's own part of the invariant, action by action. *)

LEMMA OwnRows ==
  ASSUME LocalsOK, NEW t \in Session, pc[t] # "idle"
  PROVE  /\ ref[t] \in Ref /\ ref[t].cik \in Cik /\ ref[t].acc \in Accession
         /\ FilerRow(t) \in Row /\ Version(FilerRow(t)) = FilerVersion
         /\ FilingRow(t) \in Row /\ Version(FilingRow(t)) = FilingVersion
         /\ FilerRow(t) # FilingRow(t)
         /\ FilerRow(t)[1] = "filer" /\ FilingRow(t)[1] = "filing"
BY RefFields, RowKinds DEF LocalsOK, FilerRow, FilingRow

LEMMA OwnLine ==
  ASSUME LocalsOK, NEW t \in Session, Progress(t), pc[t] \in InLoop
  PROVE  /\ CurrentLine(t) \in Line
         /\ SecurityRow(t) \in Row /\ Version(SecurityRow(t)) = SecurityRef
         /\ SecurityRow(t)[1] = "security"
         /\ SecurityRow(t) # FilingRow(t) /\ SecurityRow(t) # FilerRow(t)
<1>1. out[t] \in Outcome /\ pos[t] \in 1..Len(out[t].lines)
  BY DEF LocalsOK, Progress
<1>2. CurrentLine(t) \in Line /\ SecurityKey(CurrentLine(t).ref) \in Key
  BY <1>1, SecurityRowOfLine DEF CurrentLine
<1> QED
  BY <1>2, RowKinds DEF SecurityRow, FilingRow, FilerRow

LEMMA OwnResolved ==
  ASSUME IndInv, TablesOK', NEW t \in Session, OwnKeep(t),
         ref'[t] = ref[t], out'[t] = out[t],
         pc[t] \in {"filing", "fetch", "rename"} \cup InLoop \cup AfterLoop
  PROVE  /\ Known(t, FilerRow(t))'
         /\ pc[t] \in InLoop \cup AfterLoop =>
              \A i \in 1..(pos[t] - 1) :
                Known(t, <<"security", SecurityKey(out[t].lines[i].ref)>>)'
<1> USE DEF IndInv, TypeOK, SessionInv
<1>1. Known(t, FilerRow(t))'
  <2>1. FilerRow(t) \in Row /\ Known(t, FilerRow(t))
    BY OwnRows DEF Resolved, InLoop, AfterLoop
  <2>2. FilerRow(t)' = FilerRow(t)
    BY DEF FilerRow
  <2>3. ASSUME NEW r, r = FilerRow(t)
        PROVE  Known(t, r)'
    BY <2>1, <2>3, KnownByItself
  <2> QED
    BY <2>2, <2>3 DEF Known, View
<1>2. ASSUME pc[t] \in InLoop \cup AfterLoop, NEW i \in 1..(pos[t] - 1),
             NEW r, r = <<"security", SecurityKey(out[t].lines[i].ref)>>
      PROVE  Known(t, r)'
  <2>1. out[t] \in Outcome /\ Len(out[t].lines) \in Nat
    BY DEF LocalsOK, Outcome
  <2>2. i \in 1..Len(out[t].lines)
    BY <1>2, <2>1 DEF Progress
  <2>3. r \in Row
    BY <1>2, <2>1, <2>2, SecurityRowOfLine
  <2>4. Known(t, r)
    BY <1>2 DEF Resolved
  <2> QED
    BY <2>3, <2>4, KnownByItself
<1> QED
  BY <1>1, <1>2 DEF Known, View

LEMMA CallStep ==
  ASSUME IndInv, NEW t \in Session, Call(t)
  PROVE  IndInv'
<1> USE DEF IndInv, TypeOK
<1>1. TablesOK' /\ OthersKeep(t) /\ OwnKeep(t) /\ UNCHANGED <<tables, change, db>>
  BY NoWrite DEF Call, tables
<1>2. PICK r \in Ref : /\ FamilyOf(r.acc) # Unsupported
                       /\ ref' = [ref EXCEPT ![t] = r]
  BY DEF Call
<1>3. FamilyOf(r.acc) \in Families
  BY <1>2, RefFields
<1>4. /\ pc' = [pc EXCEPT ![t] = "filer"] /\ pc[t] = "idle"
      /\ out' = out /\ pos' = pos /\ cols' = cols /\ diff' = diff
  BY DEF Call, Goto, locals
<1>5. "filer" \in Labels
  BY DEF Labels, BeforeFiling
<1>6. LocalsOK'
  BY <1>2, <1>3, <1>4, <1>5 DEF LocalsOK
<1>7. OnlyLocal(t)
  BY <1>2, <1>4 DEF OnlyLocal, LocalsOK
<1>8. OwnsOnly(t)'
  BY <1>1, <1>4 DEF Owners, OwnsOnly, tables
<1>9. SessionInv(t)'
  <2>1. pc'[t] = "filer" /\ out'[t] = Empty /\ pos'[t] = 1
    BY <1>4 DEF LocalsOK, SessionInv, Progress
  <2> QED
    BY <2>1 DEF SessionInv, Progress, Resolved, OwnFiling, OwnFiler, OwnDiff,
                InLoop, AfterLoop, BeforeFiling
<1> QED
  BY <1>1, <1>6, <1>7, <1>8, <1>9, Assemble

LEMMA SelectFilerStep ==
  ASSUME IndInv, NEW t \in Session, SelectFiler(t)
  PROVE  IndInv'
<1> USE DEF IndInv, TypeOK
<1> DEFINE row  == View(t, FilerRow(t))
           next == IF row = NoRow THEN "newfiler"
                   ELSE IF ref[t].name \notin {None, row.name} THEN "rename"
                   ELSE "filing"
<1>1. TablesOK' /\ OthersKeep(t) /\ OwnKeep(t) /\ UNCHANGED <<tables, change, db>>
  BY NoWrite DEF SelectFiler, tables
<1>2. /\ pc[t] = "filer" /\ pc' = [pc EXCEPT ![t] = next]
      /\ ref' = ref /\ out' = out /\ pos' = pos /\ cols' = cols /\ diff' = diff
  BY DEF SelectFiler, Goto, locals
<1>3. next \in {"newfiler", "rename", "filing"}
  OBVIOUS
<1> HIDE DEF next
<1>4. LocalsOK'
  BY <1>2, <1>3 DEF LocalsOK, Labels, BeforeFiling
<1>5. OnlyLocal(t)
  BY <1>2 DEF OnlyLocal, LocalsOK
<1>6. OwnsOnly(t)'
  BY <1>1, <1>2, <1>3 DEF Owners, OwnsOnly, tables, FilerRow, FilingRow, LocalsOK
<1>7. SessionInv(t)'
  <2>1. pc'[t] = next /\ out'[t] = Empty /\ pos'[t] = 1
    BY <1>2 DEF LocalsOK, SessionInv, Progress, BeforeFiling
  <2>2. next # "newfiler" => Known(t, FilerRow(t))
    BY <1>2, OwnRows, SessionAssumption DEF next, Known, View, TablesOK
  <2>3. next # "newfiler" => Known(t, FilerRow(t))'
    BY <1>1, <1>2, <2>2 DEF Known, View, FilerRow, tables
  <2> QED
    BY <1>3, <2>1, <2>3 DEF SessionInv, Progress, Resolved, OwnFiling, OwnFiler, OwnDiff,
                            InLoop, AfterLoop, BeforeFiling
<1> QED
  BY <1>1, <1>4, <1>5, <1>6, <1>7, Assemble

\* Effect on session t's locals of a statement that only moves its pc.
LEMMA Moved ==
  ASSUME LocalsOK, NEW t \in Session, pc[t] # "idle",
         NEW label \in Labels \ {"idle"}, Goto(t, label),
         UNCHANGED <<ref, out, pos, diff>>, cols' \in [Session -> SUBSET Column]
  PROVE  /\ LocalsOK' /\ OnlyLocal(t)
         /\ pc'[t] = label /\ ref'[t] = ref[t] /\ out'[t] = out[t] /\ pos'[t] = pos[t]
         /\ diff'[t] = diff[t]
<1>1. /\ pc' = [pc EXCEPT ![t] = label]
      /\ ref' = ref /\ out' = out /\ pos' = pos /\ diff' = diff
  BY DEF Goto
<1> QED
  BY <1>1 DEF LocalsOK, OnlyLocal

\* A write to one of the rows a session may own.
LEMMA OwnsWritten ==
  ASSUME IndInv, NEW t \in Session, NEW r \in Row,
         \A q \in Row \ {r} : lock'[q] = lock[q],
         pc'[t] # "idle", ref'[t] = ref[t],
         r[1] = "filer" => r = FilerRow(t), r[1] = "filing" => r = FilingRow(t)
  PROVE  OwnsOnly(t)'
<1>1. FilerRow(t)' = FilerRow(t) /\ FilingRow(t)' = FilingRow(t)
  BY DEF FilerRow, FilingRow
<1> QED
  BY <1>1 DEF IndInv, Owners, OwnsOnly

LEMMA InsertFilerStep ==
  ASSUME IndInv, NEW t \in Session, InsertFiler(t)
  PROVE  IndInv'
<1> USE DEF IndInv, TypeOK
<1> DEFINE r == FilerRow(t)
           v == [name |-> ref[t].name, latest |-> 0]
<1>1. /\ pc[t] = "newfiler" /\ Write(t, r, v) /\ Goto(t, "filing")
      /\ UNCHANGED <<change, ref, locals>>
  BY DEF InsertFiler
<1>2. r \in Row /\ v \in Version(r)
  BY <1>1, OwnRows, RefFields DEF FilerVersion
<1>3. /\ TablesOK' /\ OthersKeep(t) /\ OwnKeep(t)
      /\ lock'[r] = t /\ dirty'[r] = v
      /\ \A q \in Row \ {r} : lock'[q] = lock[q] /\ dirty'[q] = dirty[q]
  <2> HIDE DEF r, v
  <2> QED
    BY <1>1, <1>2, OneWrite
<1>4. /\ LocalsOK' /\ OnlyLocal(t)
      /\ pc'[t] = "filing" /\ ref'[t] = ref[t] /\ out'[t] = out[t] /\ pos'[t] = pos[t]
  BY <1>1, Moved DEF Labels, BeforeFiling, locals, LocalsOK
<1>5. OwnsOnly(t)'
  BY <1>1, <1>2, <1>3, <1>4, OwnsWritten, OwnRows
<1>6. SessionInv(t)'
  <2>1. out'[t] = Empty /\ pos'[t] = 1
    BY <1>1, <1>4 DEF SessionInv, Progress, BeforeFiling
  <2>2. FilerRow(t)' = r
    BY <1>4 DEF FilerRow
  <2>3. Known(t, FilerRow(t))'
    BY <1>2, <1>3, <2>2, OwnRows, <1>1 DEF Known, View
  <2> QED
    BY <1>4, <2>1, <2>3 DEF SessionInv, Progress, Resolved, OwnFiling, OwnFiler, OwnDiff,
                            InLoop, AfterLoop, BeforeFiling
<1>7. UNCHANGED <<change, db>>
  BY <1>1 DEF Write
<1> QED
  BY <1>3, <1>4, <1>5, <1>6, <1>7, Assemble

LEMMA RenameFilerStep ==
  ASSUME IndInv, NEW t \in Session, RenameFiler(t)
  PROVE  IndInv'
<1> USE DEF IndInv, TypeOK
<1> DEFINE r == FilerRow(t)
           v == [View(t, r) EXCEPT !.name = ref[t].name]
<1>1. /\ pc[t] = "rename" /\ Write(t, r, v) /\ Goto(t, "filing")
      /\ UNCHANGED <<change, ref, locals>>
  BY DEF RenameFiler
<1>2. r \in Row /\ v \in Version(r)
  <2>1. View(t, r) \in FilerVersion
    BY <1>1, OwnRows DEF SessionInv, Resolved, Known
  <2> QED
    BY <1>1, <2>1, OwnRows, RefFields DEF FilerVersion
<1>3. /\ TablesOK' /\ OthersKeep(t) /\ OwnKeep(t)
      /\ lock'[r] = t /\ dirty'[r] = v
      /\ \A q \in Row \ {r} : lock'[q] = lock[q] /\ dirty'[q] = dirty[q]
  <2> HIDE DEF r, v
  <2> QED
    BY <1>1, <1>2, OneWrite
<1>4. /\ LocalsOK' /\ OnlyLocal(t)
      /\ pc'[t] = "filing" /\ ref'[t] = ref[t] /\ out'[t] = out[t] /\ pos'[t] = pos[t]
  BY <1>1, Moved DEF Labels, BeforeFiling, locals, LocalsOK
<1>5. OwnsOnly(t)'
  BY <1>1, <1>2, <1>3, <1>4, OwnsWritten, OwnRows
<1>6. SessionInv(t)'
  <2>1. out'[t] = Empty /\ pos'[t] = 1
    BY <1>1, <1>4 DEF SessionInv, Progress, BeforeFiling
  <2>2. Known(t, FilerRow(t))'
    BY <1>1, <1>3, <1>4, OwnResolved
  <2> QED
    BY <1>4, <2>1, <2>2 DEF SessionInv, Progress, Resolved, OwnFiling, OwnFiler, OwnDiff,
                            InLoop, AfterLoop, BeforeFiling
<1>7. UNCHANGED <<change, db>>
  BY <1>1 DEF Write
<1> QED
  BY <1>3, <1>4, <1>5, <1>6, <1>7, Assemble

LEMMA InsertFilingStep ==
  ASSUME IndInv, NEW t \in Session, InsertFiling(t)
  PROVE  IndInv'
<1> USE DEF IndInv, TypeOK
<1> DEFINE r == FilingRow(t)
           v == NewFiling(ref[t])
<1>1. /\ pc[t] = "filing" /\ Write(t, r, v) /\ Goto(t, "fetch")
      /\ db[r] = NoRow /\ UNCHANGED <<change, ref, locals>>
  BY DEF InsertFiling
<1>2. r \in Row /\ v \in Version(r)
  <2>1. <<>> \in Seq([key : Key, shares : Nat, value : Nat, txns : Seq(Nat)])
    OBVIOUS
  <2>2. FamilyOf(ref[t].acc) \in Families
    BY <1>1 DEF LocalsOK
  <2> QED
    BY <1>1, <2>1, <2>2, OwnRows, RefFields DEF FilingVersion, NewFiling, FilingWith
<1>3. /\ TablesOK' /\ OthersKeep(t) /\ OwnKeep(t)
      /\ lock'[r] = t /\ dirty'[r] = v
      /\ \A q \in Row \ {r} : lock'[q] = lock[q] /\ dirty'[q] = dirty[q]
  <2> HIDE DEF r, v
  <2> QED
    BY <1>1, <1>2, OneWrite
<1>4. /\ LocalsOK' /\ OnlyLocal(t)
      /\ pc'[t] = "fetch" /\ ref'[t] = ref[t] /\ out'[t] = out[t] /\ pos'[t] = pos[t]
  BY <1>1, Moved DEF Labels, BeforeFiling, locals, LocalsOK
<1>5. OwnsOnly(t)'
  BY <1>1, <1>2, <1>3, <1>4, OwnsWritten, OwnRows
<1>6. SessionInv(t)'
  <2>1. out'[t] = Empty /\ pos'[t] = 1
    BY <1>1, <1>4 DEF SessionInv, Progress, BeforeFiling
  <2>2. Known(t, FilerRow(t))'
    BY <1>1, <1>3, <1>4, OwnResolved
  <2>3. OwnFiling(t)'
    <3>1. FilingRow(t)' = r
      BY <1>4 DEF FilingRow
    <3>2. FilingSoFar(t)' = v
      <4>1. ChildRows(out'[t].lines, pos'[t] - 1) = <<>>
        BY <2>1, NoChildRows
      <4>2. pc'[t] \notin {"diff", "commit"} /\ ref'[t] = ref[t]
        BY <1>4
      <4> QED
        BY <4>1, <4>2 DEF FilingSoFar, NewFiling
    <3>3. db'[r] = NoRow
      BY <1>1 DEF Write
    <3> QED
      BY <1>3, <3>1, <3>2, <3>3 DEF OwnFiling
  <2> QED
    BY <1>4, <2>1, <2>2, <2>3 DEF SessionInv, Progress, Resolved, OwnFiler, OwnDiff,
                                  InLoop, AfterLoop, BeforeFiling
<1>7. UNCHANGED <<change, db>>
  BY <1>1 DEF Write
<1> QED
  BY <1>3, <1>4, <1>5, <1>6, <1>7, Assemble

\* Session t's own filing row is as far as before when it is not written.
LEMMA OwnFilingKept ==
  ASSUME IndInv, NEW t \in Session, pc[t] \in {"fetch"} \cup InLoop \cup AfterLoop,
         lock'[FilingRow(t)] = lock[FilingRow(t)], dirty'[FilingRow(t)] = dirty[FilingRow(t)],
         db' = db, ref'[t] = ref[t], FilingSoFar(t)' = FilingSoFar(t)
  PROVE  OwnFiling(t)'
<1>1. FilingRow(t)' = FilingRow(t)
  BY DEF FilingRow
<1> QED
  BY <1>1 DEF IndInv, SessionInv, OwnFiling

LEMMA FetchStep ==
  ASSUME IndInv, NEW t \in Session, Fetch(t)
  PROVE  IndInv'
<1> USE DEF IndInv, TypeOK
<1>1. TablesOK' /\ OthersKeep(t) /\ OwnKeep(t) /\ UNCHANGED <<tables, change, db>>
  BY NoWrite DEF Fetch, tables
<1>2. PICK o \in Fetched(ref[t]) : /\ out' = [out EXCEPT ![t] = o]
                                   /\ AfterLine(t, 1, o.lines)
  BY DEF Fetch
<1> DEFINE next == IF 1 > Len(o.lines) THEN "touch" ELSE "security"
<1>3. /\ pc[t] = "fetch" /\ pc' = [pc EXCEPT ![t] = next]
      /\ ref' = ref /\ pos' = pos /\ cols' = cols /\ diff' = diff
  BY <1>2 DEF Fetch, AfterLine, Goto
<1>4. o \in Outcome /\ Len(o.lines) \in Nat
  BY <1>2, <1>3, FetchedType, OwnRows DEF Outcome
<1>5. /\ next \in {"touch", "security"}
      /\ next = "touch" => Len(o.lines) = 0
      /\ next = "security" => Len(o.lines) >= 1
  BY <1>4
<1> HIDE DEF next
<1>6. LocalsOK'
  <2>1. next \in Labels /\ next # "idle"
    BY <1>5 DEF Labels, InLoop, AfterLoop
  <2>2. pc' \in [Session -> Labels] /\ out' \in [Session -> Outcome]
    BY <1>2, <1>3, <1>4, <2>1 DEF LocalsOK
  <2> QED
    BY <1>3, <2>2 DEF LocalsOK
<1>7. OnlyLocal(t)
  BY <1>2, <1>3 DEF OnlyLocal, LocalsOK
<1>8. OwnsOnly(t)'
  BY <1>1, <1>3, <1>5 DEF Owners, OwnsOnly, tables, FilerRow, FilingRow, LocalsOK
<1>9. SessionInv(t)'
  <2>1. pc'[t] = next /\ out'[t] = o /\ pos'[t] = 1 /\ ref'[t] = ref[t] /\ pos[t] = 1
    BY <1>2, <1>3 DEF LocalsOK, SessionInv, Progress
  <2>2. Progress(t)'
    BY <1>2, <1>4, <1>5, <2>1 DEF Progress, BeforeFiling, InLoop, AfterLoop
  <2>3. Resolved(t)'
    <3>1. Known(t, FilerRow(t))'
      BY <1>1, <1>3 DEF SessionInv, Resolved, Known, View, FilerRow, tables
    <3> QED
      BY <1>5, <2>1, <3>1 DEF Resolved
  <2>4. OwnFiling(t)'
    <3>1. FilingSoFar(t)' = FilingSoFar(t)
      <4>1. /\ ChildRows(out'[t].lines, pos'[t] - 1) = <<>>
            /\ ChildRows(out[t].lines, pos[t] - 1) = <<>>
        BY <2>1, NoChildRows
      <4> QED
        BY <1>3, <1>5, <2>1, <4>1 DEF FilingSoFar
    <3> QED
      BY <1>1, <1>3, <2>1, <3>1, OwnFilingKept DEF tables
  <2> QED
    BY <1>5, <2>1, <2>2, <2>3, <2>4 DEF SessionInv, OwnFiler, OwnDiff
<1> QED
  BY <1>1, <1>6, <1>7, <1>8, <1>9, Assemble

LEMMA SelectSecurityStep ==
  ASSUME IndInv, NEW t \in Session, SelectSecurity(t)
  PROVE  IndInv'
<1> USE DEF IndInv, TypeOK
<1> DEFINE row   == View(t, SecurityRow(t))
           stale == IF row = NoRow THEN {} ELSE Updates(row, CurrentLine(t).ref)
           next  == IF row = NoRow THEN "newsecurity"
                    ELSE IF stale # {} THEN "enrich" ELSE "child"
<1>1. TablesOK' /\ OthersKeep(t) /\ OwnKeep(t) /\ UNCHANGED <<tables, change, db>>
  BY NoWrite DEF SelectSecurity, tables
<1>2. /\ pc[t] = "security" /\ Goto(t, next) /\ cols' = [cols EXCEPT ![t] = stale]
      /\ UNCHANGED <<ref, out, pos, diff>>
  BY DEF SelectSecurity
<1>3. stale \in SUBSET Column
  BY DEF Updates
<1>4. next \in {"newsecurity", "enrich", "child"}
  OBVIOUS
<1>5. next # "newsecurity" => row # NoRow
  OBVIOUS
<1> HIDE DEF next, stale
<1>6. next \in Labels \ {"idle"}
  BY <1>4 DEF Labels, InLoop
<1>7. cols' \in [Session -> SUBSET Column]
  BY <1>2, <1>3 DEF LocalsOK
<1>8. /\ LocalsOK' /\ OnlyLocal(t)
      /\ pc'[t] = next /\ ref'[t] = ref[t] /\ out'[t] = out[t] /\ pos'[t] = pos[t]
  BY <1>2, <1>6, <1>7, Moved
<1>9. OwnsOnly(t)'
  BY <1>1, <1>2, <1>4, <1>8 DEF Owners, OwnsOnly, tables, FilerRow, FilingRow
<1>10. SessionInv(t)'
  <2>1. Progress(t)'
    BY <1>2, <1>4, <1>8 DEF SessionInv, Progress, InLoop, AfterLoop, BeforeFiling
  <2>2. Resolved(t)'
    <3>1. next # "newsecurity" => Known(t, SecurityRow(t))
      BY <1>2, <1>5, OwnLine, SessionAssumption
         DEF Known, View, TablesOK, SessionInv, InLoop
    <3>2. next # "newsecurity" => Known(t, SecurityRow(t))'
      BY <1>1, <1>8, <3>1 DEF Known, View, SecurityRow, CurrentLine, tables
    <3> QED
      BY <1>1, <1>2, <1>4, <1>8, <3>2, OwnResolved DEF Resolved, InLoop, AfterLoop
  <2>3. OwnFiling(t)'
    <3>1. FilingSoFar(t)' = FilingSoFar(t)
      BY <1>2, <1>4, <1>8 DEF FilingSoFar
    <3> QED
      BY <1>1, <1>2, <1>8, <3>1, OwnFilingKept DEF tables, InLoop
  <2> QED
    BY <1>4, <1>8, <2>1, <2>2, <2>3 DEF SessionInv, OwnFiler, OwnDiff
<1> QED
  BY <1>1, <1>8, <1>9, <1>10, Assemble

\* After the security is inserted or enriched the handler inserts the child row.
LEMMA SecurityWritten ==
  ASSUME IndInv, NEW t \in Session, pc[t] \in {"newsecurity", "enrich"},
         NEW v \in SecurityRef, Write(t, SecurityRow(t), v), Goto(t, "child"),
         UNCHANGED <<change, ref, out, pos, diff>>, cols' \in [Session -> SUBSET Column]
  PROVE  IndInv'
<1> USE DEF IndInv, TypeOK
<1> DEFINE r == SecurityRow(t)
<1>1. /\ pc[t] \in InLoop /\ r \in Row /\ v \in Version(r)
      /\ r[1] = "security" /\ r # FilingRow(t)
  BY OwnLine DEF SessionInv, InLoop
<1>2. /\ TablesOK' /\ OthersKeep(t) /\ OwnKeep(t)
      /\ lock'[r] = t /\ dirty'[r] = v
      /\ \A q \in Row \ {r} : lock'[q] = lock[q] /\ dirty'[q] = dirty[q]
  <2> HIDE DEF r
  <2>1. Write(t, r, v)
    BY DEF r
  <2> QED
    BY <1>1, <2>1, OneWrite
<1>3. "child" \in Labels \ {"idle"}
  BY DEF Labels, InLoop
<1>4. /\ LocalsOK' /\ OnlyLocal(t)
      /\ pc'[t] = "child" /\ ref'[t] = ref[t] /\ out'[t] = out[t] /\ pos'[t] = pos[t]
  BY <1>3, Moved
<1>5. OwnsOnly(t)'
  BY <1>1, <1>2, <1>4, OwnsWritten
<1>6. db' = db
  BY DEF Write
<1>7. SessionInv(t)'
  <2>1. Progress(t)'
    BY <1>4 DEF SessionInv, Progress, InLoop, AfterLoop, BeforeFiling
  <2>2. Resolved(t)'
    <3>1. SecurityRow(t)' = r
      BY <1>4 DEF SecurityRow, CurrentLine
    <3>2. Known(t, SecurityRow(t))'
      BY <1>1, <1>2, <3>1 DEF Known, View
    <3> QED
      BY <1>1, <1>2, <1>4, <3>2, OwnResolved DEF Resolved, InLoop, AfterLoop
  <2>3. OwnFiling(t)'
    <3>1. FilingSoFar(t)' = FilingSoFar(t)
      BY <1>4 DEF FilingSoFar
    <3>2. FilingRow(t) \in Row
      BY <1>1, OwnRows DEF InLoop
    <3> QED
      BY <1>1, <1>2, <1>4, <1>6, <3>1, <3>2, OwnFilingKept
  <2> QED
    BY <1>4, <2>1, <2>2, <2>3 DEF SessionInv, OwnFiler, OwnDiff
<1> QED
  BY <1>2, <1>4, <1>5, <1>6, <1>7, Assemble

LEMMA InsertSecurityStep ==
  ASSUME IndInv, NEW t \in Session, InsertSecurity(t)
  PROVE  IndInv'
<1>1. CurrentLine(t).ref \in SecurityRef
  BY OwnLine DEF IndInv, TypeOK, SessionInv, InsertSecurity, InLoop, Line
<1> QED
  BY <1>1, SecurityWritten
     DEF InsertSecurity, NewSecurity, locals, IndInv, TypeOK, LocalsOK

LEMMA EnrichSecurityStep ==
  ASSUME IndInv, NEW t \in Session, EnrichSecurity(t)
  PROVE  IndInv'
<1> DEFINE v == Enriched(View(t, SecurityRow(t)), cols[t], CurrentLine(t).ref)
<1>1. /\ pc[t] = "enrich" /\ Write(t, SecurityRow(t), v) /\ Goto(t, "child")
      /\ UNCHANGED <<change, ref, out, pos, diff>> /\ cols' = [cols EXCEPT ![t] = {}]
  BY DEF EnrichSecurity
<1>2. /\ CurrentLine(t).ref \in SecurityRef
      /\ View(t, SecurityRow(t)) \in SecurityRef
  BY <1>1, OwnLine DEF IndInv, TypeOK, SessionInv, InLoop, Line, Resolved, Known
<1>3. v \in SecurityRef
  BY <1>2 DEF Enriched, SecurityRef
<1>4. cols' \in [Session -> SUBSET Column]
  BY <1>1 DEF IndInv, TypeOK, LocalsOK
<1> HIDE DEF v
<1> QED
  BY <1>1, <1>3, <1>4, SecurityWritten

LEMMA InsertChildStep ==
  ASSUME IndInv, NEW t \in Session, InsertChild(t)
  PROVE  IndInv'
<1> USE DEF IndInv, TypeOK
<1> DEFINE r    == FilingRow(t)
           row  == dirty[r]
           v    == [row EXCEPT !.lines = Append(@, ChildRow(CurrentLine(t)))]
           next == IF pos[t] + 1 > Len(out[t].lines) THEN "touch" ELSE "security"
           n    == pos[t]
<1>1. /\ pc[t] = "child" /\ Write(t, r, v) /\ pc' = [pc EXCEPT ![t] = next]
      /\ pos' = [pos EXCEPT ![t] = n + 1]
      /\ UNCHANGED <<change, ref, out, cols, diff>>
  BY DEF InsertChild, AfterLine, Goto
<1>2. /\ out[t] \in Outcome /\ n \in 1..Len(out[t].lines)
      /\ Len(out[t].lines) \in Nat /\ n \in Nat \ {0}
  BY <1>1 DEF SessionInv, Progress, InLoop, LocalsOK, Outcome
<1>3. v = FilingWith(ref[t], NoPeriod, ChildRows(out[t].lines, n))
  <2>1. row = FilingWith(ref[t], NoPeriod, ChildRows(out[t].lines, n - 1))
    BY <1>1 DEF SessionInv, OwnFiling, InLoop, FilingSoFar
  <2>2. row.lines = ChildRows(out[t].lines, n - 1)
    BY <2>1 DEF FilingWith
  <2>3. Append(row.lines, ChildRow(CurrentLine(t))) = ChildRows(out[t].lines, n)
    BY <1>2, <2>2, ChildRowsGrow DEF CurrentLine
  <2>4. v = [row EXCEPT !.lines = ChildRows(out[t].lines, n)]
    BY <2>3
  <2> HIDE DEF v, row, n
  <2> QED
    BY <2>1, <2>4, FilingUpdate
<1>4. r \in Row /\ v \in Version(r)
  <2>1. ChildRows(out[t].lines, n) \in Seq([key : Key, shares : Nat, value : Nat, txns : Seq(Nat)])
    <3>1. out[t] \in Outcome /\ n \in 0..Len(out[t].lines)
      BY <1>2
    <3> QED
      BY <3>1, ChildRowsType, Zenon
  <2>2. FamilyOf(ref[t].acc) \in Families
    BY <1>1 DEF LocalsOK
  <2>3. FilingWith(ref[t], NoPeriod, ChildRows(out[t].lines, n)) \in FilingVersion
    BY <1>1, <2>1, <2>2, OwnRows, RefFields DEF FilingVersion, FilingWith
  <2> HIDE DEF v, n
  <2> QED
    BY <1>1, <1>3, <2>3, OwnRows
<1> HIDE DEF v
<1>5. /\ TablesOK' /\ OthersKeep(t) /\ OwnKeep(t)
      /\ lock'[r] = t /\ dirty'[r] = v
      /\ \A q \in Row \ {r} : lock'[q] = lock[q] /\ dirty'[q] = dirty[q]
  <2> HIDE DEF r
  <2> QED
    BY <1>1, <1>4, OneWrite
<1>6. /\ next \in {"touch", "security"}
      /\ next = "touch" => n = Len(out[t].lines)
      /\ next = "security" => n + 1 \in 1..Len(out[t].lines)
  BY <1>2
<1> HIDE DEF next
<1>7. /\ pc'[t] = next /\ ref'[t] = ref[t] /\ out'[t] = out[t] /\ pos'[t] = n + 1
      /\ OnlyLocal(t)
  BY <1>1 DEF LocalsOK, OnlyLocal
<1>8. LocalsOK'
  <2>1. next \in Labels
    BY <1>6 DEF Labels, InLoop, AfterLoop
  <2>2. pc' \in [Session -> Labels]
    BY <1>1, <2>1 DEF LocalsOK
  <2>3. pos' \in [Session -> Nat \ {0}]
    BY <1>1, <1>2 DEF LocalsOK
  <2>4. \A s \in Session : pc'[s] # "idle" => ref'[s] \in Ref /\ FamilyOf(ref'[s].acc) \in Families
    BY <1>1 DEF LocalsOK
  <2> QED
    BY <1>1, <2>2, <2>3, <2>4 DEF LocalsOK
<1>9. OwnsOnly(t)'
  BY <1>1, <1>4, <1>5, <1>6, <1>7, OwnsWritten, OwnRows
<1>10. db' = db
  BY <1>1 DEF Write
<1>11. SessionInv(t)'
  <2>1. Progress(t)'
    BY <1>1, <1>2, <1>6, <1>7 DEF SessionInv, Progress, InLoop, AfterLoop, BeforeFiling
  <2>2. Resolved(t)'
    <3>1. /\ Known(t, FilerRow(t))'
          /\ \A i \in 1..(n - 1) :
               Known(t, <<"security", SecurityKey(out[t].lines[i].ref)>>)'
      BY <1>1, <1>5, <1>7, OwnResolved DEF InLoop
    <3>2. ASSUME NEW q, q = SecurityRow(t)
          PROVE  Known(t, q)'
      BY <1>1, <1>5, <3>2, OwnLine, KnownByItself DEF SessionInv, Resolved, InLoop
    <3>3. ASSUME NEW i \in 1..n, NEW q,
                 q = <<"security", SecurityKey(out[t].lines[i].ref)>>
          PROVE  Known(t, q)'
      <4>1. CASE i = n
        BY <3>2, <3>3, <4>1 DEF SecurityRow, CurrentLine
      <4>2. CASE i \in 1..(n - 1)
        BY <1>7, <3>1, <3>3, <4>2 DEF Known, View
      <4> QED
        BY <1>2, <4>1, <4>2
    <3>6. (n + 1) - 1 = n
      BY <1>2
    <3> QED
      BY <1>6, <1>7, <3>1, <3>3, <3>6 DEF Resolved, Known, View
  <2>3. OwnFiling(t)'
    <3>1. FilingRow(t)' = r
      BY <1>7 DEF FilingRow
    <3>2. (n + 1) - 1 = n
      BY <1>2
    <3>3. FilingSoFar(t)' = v
      BY <1>3, <1>6, <1>7, <3>2 DEF FilingSoFar
    <3>4. db'[r] = NoRow
      BY <1>1, <1>10 DEF SessionInv, OwnFiling, InLoop
    <3> QED
      BY <1>5, <3>1, <3>3, <3>4 DEF OwnFiling
  <2> QED
    BY <1>6, <1>7, <2>1, <2>2, <2>3 DEF SessionInv, OwnFiler, OwnDiff
<1> QED
  BY <1>1, <1>5, <1>7, <1>8, <1>9, <1>10, <1>11, Assemble

LEMMA TouchStep ==
  ASSUME IndInv, NEW t \in Session, Touch(t)
  PROVE  IndInv'
<1> USE DEF IndInv, TypeOK
<1> DEFINE fr   == FilerRow(t)
           gr   == FilingRow(t)
           row  == dirty[gr]
           v    == [View(t, fr) EXCEPT !.latest = Doc[ref[t].acc].filed]
           w    == [row EXCEPT !.period = out[t].period]
           next == IF HasDiff(t) THEN "diff" ELSE "commit"
<1>1. /\ pc[t] = "touch" /\ Free(t, fr) /\ lock' = [lock EXCEPT ![fr] = t]
      /\ dirty' = [dirty EXCEPT ![gr].period = out[t].period, ![fr] = v]
      /\ Goto(t, next) /\ UNCHANGED <<db, change, ref, locals>>
  BY DEF Touch
<1>2. /\ fr \in Row /\ gr \in Row /\ fr # gr /\ fr[1] = "filer"
      /\ Version(fr) = FilerVersion /\ Version(gr) = FilingVersion
      /\ ref[t] \in Ref /\ Doc[ref[t].acc].filed \in Nat
  BY <1>1, OwnRows, RefFields
<1>3. v \in FilerVersion /\ v.latest = Doc[ref[t].acc].filed
  <2>1. View(t, fr) \in FilerVersion
    BY <1>1, <1>2 DEF SessionInv, Resolved, Known
  <2> HIDE DEF fr
  <2> QED
    BY <1>2, <2>1 DEF FilerVersion
<1>4. w \in FilingVersion /\ lock[gr] = t /\ db[gr] = NoRow
  <2>1. lock[gr] = t /\ db[gr] = NoRow
    BY <1>1 DEF SessionInv, OwnFiling, AfterLoop
  <2>2. row \in FilingVersion
    BY <1>2, <2>1, SessionAssumption DEF TablesOK
  <2>3. out[t].period \in Period \cup {NoPeriod}
    BY DEF LocalsOK, Outcome
  <2> HIDE DEF row
  <2> QED
    BY <2>1, <2>2, <2>3 DEF FilingVersion
<1>5. w = FilingWith(ref[t], out[t].period, ChildRows(out[t].lines, pos[t] - 1))
  <2>1. row = FilingWith(ref[t], NoPeriod, ChildRows(out[t].lines, pos[t] - 1))
    BY <1>1 DEF SessionInv, OwnFiling, AfterLoop, FilingSoFar
  <2> HIDE DEF row
  <2> QED
    BY <2>1, FilingUpdate
<1>6. dirty'[gr] = w /\ dirty'[fr] = v
  BY <1>1, <1>2 DEF TablesOK
<1> HIDE DEF v, w
<1>7. /\ lock'[gr] = t /\ lock'[fr] = t
      /\ \A q \in Row \ {fr} : lock'[q] = lock[q]
      /\ \A q \in Row \ {fr, gr} : dirty'[q] = dirty[q]
      /\ lock' \in [Row -> Session \cup {Nobody}]
  BY <1>1, <1>2, <1>4 DEF TablesOK
<1>8. dirty' = [q \in Row |-> dirty'[q]]
  BY <1>1 DEF TablesOK
<1>9. TablesOK'
  BY <1>1, <1>2, <1>3, <1>4, <1>6, <1>7, <1>8 DEF TablesOK
<1>10. OthersKeep(t) /\ OwnKeep(t)
  <2>1. lock[fr] \in {Nobody, t} /\ db' = db
    BY <1>1 DEF Free
  <2> HIDE DEF fr, gr, row, next
  <2>2. ASSUME NEW q \in Row
        PROVE  /\ \A s \in Session \ {t} : lock'[q] = s <=> lock[q] = s
               /\ lock[q] = t => lock'[q] = t
    BY <1>7, <2>1, <2>2, SessionAssumption
  <2>3. ASSUME NEW q \in Row, NEW s \in Session \ {t}, lock[q] = s
        PROVE  dirty'[q] = dirty[q]
    BY <1>4, <1>7, <2>1, <2>3, SessionAssumption
  <2> QED
    BY <2>1, <2>2, <2>3 DEF OthersKeep, OwnKeep
<1>11. next \in {"diff", "commit"} /\ (next = "diff" <=> HasDiff(t))
  OBVIOUS
<1> HIDE DEF next
<1>12. /\ LocalsOK' /\ OnlyLocal(t)
       /\ pc'[t] = next /\ ref'[t] = ref[t] /\ out'[t] = out[t] /\ pos'[t] = pos[t]
  <2>1. next \in Labels \ {"idle"}
    BY <1>11 DEF Labels, AfterLoop
  <2>2. cols' \in [Session -> SUBSET Column]
    BY <1>1 DEF locals, LocalsOK
  <2>3. Goto(t, next) /\ UNCHANGED <<ref, out, pos, diff>>
    BY <1>1 DEF locals
  <2> QED
    BY <1>1, <2>1, <2>2, <2>3, Moved
<1>13. OwnsOnly(t)'
  BY <1>2, <1>7, <1>11, <1>12, OwnsWritten, OwnRows, <1>1
<1>14. SessionInv(t)'
  <2>1. Progress(t)'
    BY <1>1, <1>11, <1>12 DEF SessionInv, Progress, InLoop, AfterLoop, BeforeFiling
  <2>2. Resolved(t)'
    BY <1>1, <1>9, <1>10, <1>11, <1>12, OwnResolved DEF Resolved, InLoop, AfterLoop
  <2>3. FilingRow(t)' = gr /\ FilerRow(t)' = fr
    BY <1>12 DEF FilingRow, FilerRow
  <2>4. OwnFiling(t)'
    <3>1. FilingSoFar(t)' = w
      BY <1>5, <1>11, <1>12 DEF FilingSoFar
    <3> QED
      BY <1>1, <1>4, <1>6, <1>7, <2>3, <3>1 DEF OwnFiling
  <2>5. OwnFiler(t)'
    BY <1>3, <1>6, <1>7, <1>12, <2>3 DEF OwnFiler
  <2>6. OwnDiff(t)'
    BY <1>11, <1>12 DEF OwnDiff, HasDiff
  <2> QED
    BY <2>1, <2>2, <2>4, <2>5, <2>6 DEF SessionInv
<1> QED
  BY <1>1, <1>9, <1>10, <1>12, <1>13, <1>14, Assemble

LEMMA ComputeDiffStep ==
  ASSUME IndInv, NEW t \in Session, ComputeDiff(t)
  PROVE  IndInv'
<1> USE DEF IndInv, TypeOK
<1> DEFINE d == ComputeChanges(OwnFilings(t), out[t].period)
<1>1. TablesOK' /\ OthersKeep(t) /\ OwnKeep(t) /\ UNCHANGED <<tables, change, db>>
  BY NoWrite DEF ComputeDiff, tables
<1>2. /\ pc[t] = "diff" /\ pc' = [pc EXCEPT ![t] = "commit"]
      /\ diff' = [diff EXCEPT ![t] = d] /\ ~Overflows(OwnFilings(t), out[t].period)
      /\ UNCHANGED <<ref, out, pos, cols>>
  BY DEF ComputeDiff, Goto
<1> HIDE DEF d
<1>3. "commit" \in Labels
  BY DEF Labels, AfterLoop
<1>4. diff' = [s \in Session |-> diff'[s]]
  BY <1>2 DEF LocalsOK
<1>5. LocalsOK'
  BY <1>2, <1>3, <1>4 DEF LocalsOK
<1>6. /\ OnlyLocal(t) /\ pc'[t] = "commit" /\ diff'[t] = d
      /\ ref'[t] = ref[t] /\ out'[t] = out[t] /\ pos'[t] = pos[t]
  BY <1>2 DEF OnlyLocal, LocalsOK
<1>7. OwnsOnly(t)'
  BY <1>1, <1>2, <1>6 DEF Owners, OwnsOnly, tables, FilerRow, FilingRow
<1>8. SessionInv(t)'
  <2>1. Progress(t)'
    BY <1>2, <1>6 DEF SessionInv, Progress, InLoop, AfterLoop, BeforeFiling
  <2>2. Resolved(t)'
    BY <1>1, <1>2, <1>6, OwnResolved DEF Resolved, InLoop, AfterLoop
  <2>3. OwnFiling(t)'
    <3>1. FilingSoFar(t)' = FilingSoFar(t)
      BY <1>2, <1>6 DEF FilingSoFar
    <3> QED
      BY <1>1, <1>2, <1>6, <3>1, OwnFilingKept DEF tables, AfterLoop
  <2>4. OwnFiler(t)'
    BY <1>1, <1>2, <1>6 DEF SessionInv, OwnFiler, FilerRow, tables
  <2>5. OwnDiff(t)'
    <3>1. OwnFilings(t)' = OwnFilings(t)
      BY <1>1, <1>6 DEF OwnFilings, View, tables
    <3> QED
      BY <1>2, <1>6, <3>1 DEF OwnDiff, d
  <2> QED
    BY <2>1, <2>2, <2>3, <2>4, <2>5 DEF SessionInv
<1> QED
  BY <1>1, <1>5, <1>6, <1>7, <1>8, Assemble

LEMMA CommitStep ==
  ASSUME IndInv, NEW t \in Session, Commit(t)
  PROVE  IndInv'
<1> USE DEF IndInv, TypeOK
<1>1. /\ pc[t] = "commit" /\ Unlock(t) /\ Return(t)
      /\ db' = [r \in Row |-> IF lock[r] = t THEN dirty[r] ELSE db[r]]
  BY DEF Commit
<1>2. change' = [x \in Cik \X Period |-> change'[x]]
  BY DEF Commit
<1>3. /\ \A r \in Row : lock'[r] = IF lock[r] = t THEN Nobody ELSE lock[r]
      /\ \A r \in Row : dirty'[r] = IF lock[r] = t THEN NoRow ELSE dirty[r]
      /\ \A r \in Row : db'[r] = View(t, r)
      /\ db' = [r \in Row |-> db'[r]]
      /\ dirty' = [r \in Row |-> dirty'[r]]
      /\ lock' = [r \in Row |-> lock'[r]]
  BY <1>1 DEF Unlock, View
<1>4. lock' \in [Row -> Session \cup {Nobody}]
  BY <1>3 DEF TablesOK
<1>5. \A r \in Row : View(t, r) \in Version(r) \cup {NoRow}
  BY SessionAssumption DEF TablesOK, View
<1>6. TablesOK'
  BY <1>3, <1>4, <1>5, SessionAssumption DEF TablesOK
<1>7. OthersKeep(t)
  BY <1>1, <1>3, SessionAssumption DEF OthersKeep, View
<1>8. OnlyLocal(t) /\ LocalsOK' /\ SessionInv(t)'
  BY <1>1, Returned
<1>9. OwnsOnly(t)'
  BY <1>3, SessionAssumption DEF OwnsOnly
<1>10. ReferencesResolve'
  <2> SUFFICES ASSUME NEW a \in Accession, NEW row, row = db'[<<"filing", a>>],
                      row # NoRow
               PROVE  /\ db'[<<"filer", row.cik>>] # NoRow
                      /\ \A i \in DOMAIN row.lines :
                           db'[<<"security", row.lines[i].key>>] # NoRow
    BY DEF ReferencesResolve
  <2> DEFINE r == <<"filing", a>>
  <2>1. ASSUME NEW q \in Row, Known(t, q)
        PROVE  db'[q] # NoRow
    BY <1>3, <2>1, NoRowAssumption DEF Known, Version, Row
  <2>2. r \in Row /\ Version(r) = FilingVersion
    BY RowKinds
  <2>3. CASE lock[r] = t
    <3>1. r = FilingRow(t)
      BY <1>1, <2>2, <2>3 DEF Owners, OwnsOnly
    <3>2. row = FilingSoFar(t)
      BY <1>1, <1>3, <2>2, <2>3, <3>1 DEF SessionInv, OwnFiling, AfterLoop, View
    <3>3. row.cik = ref[t].cik /\ row.lines = ChildRows(out[t].lines, pos[t] - 1)
      BY <3>2 DEF FilingSoFar, FilingWith
    <3>4. db'[<<"filer", row.cik>>] # NoRow
      BY <1>1, <2>1, <3>3, OwnRows DEF SessionInv, Resolved, FilerRow
    <3>5. /\ out[t] \in Outcome /\ Len(out[t].lines) \in Nat
          /\ pos[t] = Len(out[t].lines) + 1
      BY <1>1 DEF SessionInv, Progress, AfterLoop, LocalsOK, Outcome
    <3>6. ASSUME NEW i \in DOMAIN row.lines
          PROVE  db'[<<"security", row.lines[i].key>>] # NoRow
      <4>1. i \in 1..(pos[t] - 1) /\ i \in 1..Len(out[t].lines)
        BY <3>3, <3>5 DEF ChildRows
      <4>2. row.lines[i].key = SecurityKey(out[t].lines[i].ref)
        BY <3>3, <4>1 DEF ChildRows, ChildRow
      <4>3. ASSUME NEW q, q = <<"security", SecurityKey(out[t].lines[i].ref)>>
            PROVE  Known(t, q) /\ q \in Row
        BY <1>1, <3>5, <4>1, <4>3, SecurityRowOfLine DEF SessionInv, Resolved, AfterLoop
      <4> QED
        BY <2>1, <4>2, <4>3
    <3> QED
      BY <3>4, <3>6
  <2>4. CASE lock[r] # t
    <3>1. row = db[r] /\ row \in FilingVersion
      BY <1>3, <2>2, <2>4 DEF TablesOK, View
    <3>2. ASSUME NEW q \in Row, db[q] # NoRow
          PROVE  db'[q] # NoRow
      BY <2>1, <3>2, SessionAssumption DEF Known, View, TablesOK
    <3>3. db'[<<"filer", row.cik>>] # NoRow
      <4>1. row.cik \in Cik /\ db[<<"filer", row.cik>>] # NoRow
        BY <3>1 DEF ReferencesResolve, FilingVersion
      <4> QED
        BY <3>2, <4>1, RowKinds
    <3>4. ASSUME NEW i \in DOMAIN row.lines
          PROVE  db'[<<"security", row.lines[i].key>>] # NoRow
      <4>1. row.lines[i].key \in Key
        <5>1. row.lines \in Seq([key : Key, shares : Nat, value : Nat, txns : Seq(Nat)])
          BY <3>1 DEF FilingVersion
        <5>2. ASSUME NEW S, NEW rows \in Seq(S), NEW j \in DOMAIN rows
              PROVE  rows[j] \in S
          OBVIOUS
        <5>3. row.lines[i] \in [key : Key, shares : Nat, value : Nat, txns : Seq(Nat)]
          BY <5>1, <5>2
        <5> QED
          BY <5>3
      <4>2. db[<<"security", row.lines[i].key>>] # NoRow
        BY <3>1 DEF ReferencesResolve
      <4> QED
        BY <3>2, <4>1, <4>2, RowKinds
    <3> QED
      BY <3>3, <3>4
  <2> QED
    BY <2>3, <2>4
<1> QED
  BY <1>2, <1>6, <1>7, <1>8, <1>9, <1>10, AssembleAny

-----------------------------------------------------------------------------
(* The invariant holds initially and is preserved by every step. *)

LEMMA InitIndInv == Init => IndInv
<1> SUFFICES ASSUME Init PROVE IndInv
  OBVIOUS
<1>1. TablesOK
  BY DEF Init, TablesOK
<1>2. LocalsOK
  BY EmptyType DEF Init, LocalsOK, Labels
<1>3. change = [x \in Cik \X Period |-> change[x]]
  BY DEF Init
<1>4. Owners
  BY SessionAssumption DEF Init, Owners, OwnsOnly
<1>5. ReferencesResolve
  BY RowKinds DEF Init, ReferencesResolve
<1>6. \A s \in Session : SessionInv(s)
  BY DEF Init, SessionInv, Progress, Resolved, OwnFiling, OwnFiler, OwnDiff, InLoop, AfterLoop
<1> QED
  BY <1>1, <1>2, <1>3, <1>4, <1>5, <1>6 DEF IndInv, TypeOK

LEMMA Unchanged ==
  ASSUME IndInv, UNCHANGED vars
  PROVE  IndInv'
<1>1. TypeOK'
  BY DEF IndInv, TypeOK, TablesOK, LocalsOK, vars
<1>2. Owners'
  BY DEF IndInv, Owners, OwnsOnly, FilerRow, FilingRow, vars
<1>3. ReferencesResolve'
  BY DEF IndInv, ReferencesResolve, vars
<1>4. ASSUME NEW s \in Session
      PROVE  SessionInv(s)'
  <2> USE DEF IndInv, SessionInv, vars
  <2>1. Progress(s)'
    BY DEF Progress
  <2>2. Resolved(s)'
    BY DEF Resolved, Known, View, FilerRow, SecurityRow, CurrentLine
  <2>3. OwnFiling(s)'
    BY DEF OwnFiling, FilingSoFar, FilingRow
  <2>4. OwnFiler(s)'
    BY DEF OwnFiler, FilerRow
  <2>5. OwnDiff(s)'
    BY DEF OwnDiff, HasDiff, OwnFilings, View
  <2> QED
    BY <2>1, <2>2, <2>3, <2>4, <2>5
<1> QED
  BY <1>1, <1>2, <1>3, <1>4 DEF IndInv

LEMMA NextIndInv ==
  ASSUME IndInv, [Next]_vars
  PROVE  IndInv'
<1>1. CASE UNCHANGED vars
  BY <1>1, Unchanged
<1>2. ASSUME NEW t \in Session, CallReturnsAtOnce(t)
      PROVE  IndInv'
  BY <1>2, Unchanged DEF CallReturnsAtOnce
<1>3. ASSUME NEW t \in Session, Proceed(t)
      PROVE  IndInv'
  <2>1. CASE DuplicateKey(t) \/ DiffFails(t)
    BY <2>1, RollbackStep DEF DuplicateKey, DiffFails
  <2>2. CASE SelectFiler(t) \/ InsertFiler(t) \/ RenameFiler(t) \/ InsertFiling(t)
    BY <2>2, SelectFilerStep, InsertFilerStep, RenameFilerStep, InsertFilingStep
  <2>3. CASE Fetch(t) \/ SelectSecurity(t) \/ InsertSecurity(t) \/ EnrichSecurity(t)
    BY <2>3, FetchStep, SelectSecurityStep, InsertSecurityStep, EnrichSecurityStep
  <2>4. CASE InsertChild(t) \/ Touch(t) \/ ComputeDiff(t) \/ Commit(t)
    BY <2>4, InsertChildStep, TouchStep, ComputeDiffStep, CommitStep
  <2> QED
    BY <1>3, <2>1, <2>2, <2>3, <2>4 DEF Proceed
<1>4. ASSUME NEW t \in Session, FetchFails(t) \/ DeadlockAbort(t) \/ Crash(t)
      PROVE  IndInv'
  BY <1>4, RollbackStep DEF FetchFails, DeadlockAbort, Crash
<1> QED
  BY <1>1, <1>2, <1>3, <1>4, CallStep DEF Next

-----------------------------------------------------------------------------
(* The theorems. *)

\* The inductive invariant holds in every reachable state: row locks belong to
\* running calls, and each transaction's rows are what its handler has done.
THEOREM IndInvariance == Spec => []IndInv
<1>1. Init => IndInv
  BY InitIndInv
<1>2. IndInv /\ [Next]_vars => IndInv'
  BY NextIndInv
<1> QED
  BY <1>1, <1>2, PTL DEF Spec

\* Every variable of the pipeline always has its type.
THEOREM TypeCorrect == Spec => []TypeOK
<1>1. IndInv => TypeOK
  BY DEF IndInv
<1> QED
  BY <1>1, IndInvariance, PTL

\* A connection is clean between two calls of ingest_filing, whatever way the
\* last one ended (pipeline.py's docstring).
THEOREM ConnectionClean == Spec => []CleanBetweenCalls
<1>1. IndInv => CleanBetweenCalls
  BY DEF IndInv, Owners, OwnsOnly, CleanBetweenCalls
<1> QED
  BY <1>1, IndInvariance, PTL

\* No committed filing refers to a filer or a security that is not committed,
\* although its call resolved them before another session's rollback.
THEOREM ReferencesCommitted == Spec => []ReferencesResolve
<1>1. IndInv => ReferencesResolve
  BY DEF IndInv
<1> QED
  BY <1>1, IndInvariance, PTL

-----------------------------------------------------------------------------
(* The pipeline implements the store of module FilingStore.  Store is an   *)
(* INSTANCE of it, so the operators that FilingStore takes from Filings    *)
(* and Diff appear twice, as Store!X and as X: the two are one.            *)

LEMMA SamePositions ==
  ASSUME NEW T, NEW p
  PROVE  Store!PositionsForPeriod(T, p) = PositionsForPeriod(T, p)
BY DEF Store!PositionsForPeriod, PositionsForPeriod,
       Store!SumFunctionOnSet, SumFunctionOnSet, Store!FoldFunctionOnSet, FoldFunctionOnSet,
       Store!MapThenFoldSet, MapThenFoldSet

LEMMA SamePrevious ==
  ASSUME NEW T, NEW p
  PROVE  /\ Store!PriorPeriod(T, p) = PriorPeriod(T, p)
         /\ Store!PreviousPositions(T, p) = PreviousPositions(T, p)
<1>1. Store!PriorPeriod(T, p) = PriorPeriod(T, p)
  BY DEF Store!PriorPeriod, PriorPeriod, Store!NoPeriod, NoPeriod, Store!Max, Max
<1> QED
  BY <1>1, SamePositions
     DEF Store!PreviousPositions, PreviousPositions, Store!NoPeriod, NoPeriod

LEMMA SameHeld ==
  ASSUME NEW positions, NEW k
  PROVE  Store!Held(positions, k) = Held(positions, k)
BY DEF Store!Held, Held, Store!Nothing, Nothing

LEMMA SameClassify ==
  ASSUME NEW prev, NEW cur
  PROVE  Store!Classify(prev, cur) = Classify(prev, cur)
BY DEF Store!Classify, Classify

LEMMA SameChanges ==
  ASSUME NEW T, NEW p
  PROVE  Store!ComputeChanges(T, p) = ComputeChanges(T, p)
BY SamePositions, SamePrevious, SameHeld, SameClassify
   DEF Store!ComputeChanges, ComputeChanges

LEMMA SameOverflows ==
  ASSUME NEW T, NEW p
  PROVE  Store!Overflows(T, p) = Overflows(T, p)
BY SamePositions, SamePrevious, SameHeld DEF Store!Overflows, Overflows

LEMMA SameFiledBy ==
  ASSUME NEW F, NEW f
  PROVE  Store!FiledBy(F, f) = FiledBy(F, f)
BY DEF Store!FiledBy, FiledBy

LEMMA SameFilings ==
  ASSUME NEW r
  PROVE  /\ Store!Ref = Ref
         /\ Store!FamilyOf(r) = FamilyOf(r)
         /\ Store!Unsupported = Unsupported
         /\ Store!Fetched(r) = Fetched(r)
<1>1. Store!Unsupported = Unsupported /\ Store!Ref = Ref
  BY DEF Store!Unsupported, Unsupported, Store!Ref, Ref, Store!Value, Value
<1>2. Store!FamilyOf(r) = FamilyOf(r)
  BY DEF Store!FamilyOf, FamilyOf, Store!Family, Family, Store!Amends, Amends, Store!IsPrefix, IsPrefix,
       Store!Unsupported, Unsupported
<1>3. Store!Fetched(r) = Fetched(r)
  BY DEF Store!Fetched, Fetched, Store!Family, Family, Store!Amends, Amends, Store!IsPrefix, IsPrefix,
       Store!Unsupported, Unsupported,
         Store!Handle13F, Handle13F, Store!HandleOwnership, HandleOwnership,
         Store!HandleNport, HandleNport, Store!HandleStake, HandleStake,
         Store!Empty, Empty, Store!NoPeriod, NoPeriod
<1> QED
  BY <1>1, <1>2, <1>3

LEMMA SameStored ==
  ASSUME NEW r, NEW o
  PROVE  Store!StoredFiling(r, o) = StoredFiling(r, o)
BY DEF Store!StoredFiling, StoredFiling, Store!FilingWith, FilingWith,
       Store!FamilyOf, FamilyOf, Store!Family, Family, Store!Amends, Amends, Store!IsPrefix, IsPrefix,
       Store!Unsupported, Unsupported,
       Store!ChildRows, ChildRows, Store!ChildRow, ChildRow,
       Store!SecurityKey, SecurityKey

-----------------------------------------------------------------------------
(* A commit is one ingest of the store. *)

LEMMA CommitIngests ==
  ASSUME IndInv, NEW t \in Session, Commit(t)
  PROVE  Store!StoreNext
<1> USE DEF IndInv, TypeOK
<1> DEFINE r       == ref[t]
           o       == out[t]
           row     == StoredFiling(r, o)
           F       == [a \in Accession |-> db[<<"filing", a>>]]
           G       == [a \in Accession |-> View(t, <<"filing", a>>)]
           filings == [F EXCEPT ![r.acc] = row]
<1>1. pc[t] = "commit" /\ \A q \in Row : db'[q] = View(t, q)
  BY DEF Commit, View
<1>2. /\ r \in Ref /\ r.acc \in Accession /\ r.cik \in Cik
      /\ FilingRow(t) \in Row /\ FilerRow(t) \in Row
      /\ Version(FilerRow(t)) = FilerVersion
      /\ FamilyOf(r.acc) # Unsupported /\ o \in Fetched(r)
  BY <1>1, OwnRows DEF LocalsOK, SessionInv, Progress, AfterLoop, Families, Unsupported
<1>3. /\ lock[FilingRow(t)] = t /\ db[FilingRow(t)] = NoRow
      /\ dirty[FilingRow(t)] = row
  <2>1. pos[t] - 1 = Len(o.lines)
    BY <1>1 DEF SessionInv, Progress, AfterLoop, LocalsOK, Outcome
  <2> QED
    BY <1>1, <2>1 DEF SessionInv, OwnFiling, AfterLoop, FilingSoFar, StoredFiling
<1>4. /\ row.filed = Doc[r.acc].filed /\ row.period = o.period
      /\ row.fam = FamilyOf(r.acc)
  BY DEF StoredFiling, FilingWith
<1>5. /\ lock[FilerRow(t)] = t /\ dirty[FilerRow(t)].latest = row.filed
      /\ dirty[FilerRow(t)] # NoRow
  BY <1>1, <1>2, <1>4, NoRowAssumption, SessionAssumption
     DEF SessionInv, OwnFiler, TablesOK
<1>6. \A a \in Accession :
        View(t, <<"filing", a>>) = IF a = r.acc THEN row ELSE db[<<"filing", a>>]
  BY <1>3, RowKinds DEF View, FilingRow, Owners, OwnsOnly
<1>7. \A f \in Cik :
        View(t, <<"filer", f>>) = IF f = r.cik THEN dirty[FilerRow(t)]
                                                ELSE db[<<"filer", f>>]
  BY <1>5, RowKinds DEF View, FilerRow, Owners, OwnsOnly
<1> HIDE DEF row
<1>8. G = filings
  BY <1>2, <1>6
<1>9. OwnFilings(t) = Store!FiledBy(filings, r.cik)
  BY <1>8, SameFiledBy DEF OwnFilings
<1>10. Store!HasDiff(row) <=> HasDiff(t)
  BY <1>4 DEF Store!HasDiff, HasDiff, Store!NoPeriod, NoPeriod
<1>11. F[r.acc] = NoRow
  BY <1>2, <1>3 DEF FilingRow
<1>12. Store!HasDiff(row) =>
         ~Store!Overflows(Store!FiledBy(filings, r.cik), row.period)
  BY <1>1, <1>4, <1>9, <1>10, SameOverflows DEF SessionInv, OwnDiff
<1>13. [a \in Accession |-> db'[<<"filing", a>>]] = filings
  BY <1>1, <1>8, RowKinds
<1>14. [f \in Cik |-> IF db'[<<"filer", f>>] = NoRow THEN 0
                      ELSE db'[<<"filer", f>>].latest]
         = [[f \in Cik |-> IF db[<<"filer", f>>] = NoRow THEN 0
                           ELSE db[<<"filer", f>>].latest] EXCEPT ![r.cik] = row.filed]
  <2>1. \A f \in Cik : db'[<<"filer", f>>] = IF f = r.cik THEN dirty[FilerRow(t)]
                                                         ELSE db[<<"filer", f>>]
    BY <1>1, <1>7, RowKinds
  <2> HIDE DEF r
  <2> QED
    BY <1>5, <2>1
<1>15. change' = IF Store!HasDiff(row)
                   THEN [change EXCEPT ![<<r.cik, row.period>>] =
                           Store!ComputeChanges(Store!FiledBy(filings, r.cik), row.period)]
                   ELSE change
  <2>1. HasDiff(t) => diff[t] = ComputeChanges(OwnFilings(t), o.period)
    BY <1>1 DEF SessionInv, OwnDiff
  <2>2. HasDiff(t) => diff[t] = Store!ComputeChanges(Store!FiledBy(filings, r.cik), row.period)
    BY <1>4, <1>9, <2>1, SameChanges
  <2>3. change' = IF HasDiff(t) THEN [change EXCEPT ![<<r.cik, o.period>>] = diff[t]]
                                ELSE change
    BY DEF Commit
  <2> HIDE DEF filings, r, o
  <2> QED
    BY <1>4, <1>10, <2>2, <2>3
<1>16. Store!Record(r, Store!StoredFiling(r, o))
  <2>1. row = Store!StoredFiling(r, o)
    BY SameStored DEF row
  <2> HIDE DEF r, o
  <2> QED
    BY <1>11, <1>12, <1>13, <1>14, <1>15, <2>1 DEF Store!Record
<1>17. Store!StoreIngest(r)
  <2>1. o \in Store!Fetched(r) /\ Store!FamilyOf(r.acc) # Store!Unsupported
    BY <1>2, SameFilings
  <2> HIDE DEF r, o
  <2> QED
    BY <1>16, <2>1 DEF Store!StoreIngest
<1> QED
  BY <1>2, <1>17, SameFilings DEF Store!StoreNext

\* No other step commits anything.
LEMMA OthersCommitNothing ==
  ASSUME NEW t \in Session,
         \/ CallReturnsAtOnce(t) \/ Call(t) \/ SelectFiler(t) \/ InsertFiler(t)
         \/ RenameFiler(t) \/ InsertFiling(t) \/ Fetch(t) \/ SelectSecurity(t)
         \/ InsertSecurity(t) \/ EnrichSecurity(t) \/ InsertChild(t) \/ Touch(t)
         \/ ComputeDiff(t) \/ DuplicateKey(t) \/ DiffFails(t) \/ FetchFails(t)
         \/ DeadlockAbort(t) \/ Crash(t)
  PROVE  UNCHANGED <<db, change>>
BY DEF CallReturnsAtOnce, Call, SelectFiler, InsertFiler, RenameFiler, InsertFiling,
       Fetch, SelectSecurity, InsertSecurity, EnrichSecurity, InsertChild, Touch,
       ComputeDiff, DuplicateKey, DiffFails, FetchFails, DeadlockAbort, Crash,
       Write, Rollback, tables, vars

-----------------------------------------------------------------------------
(* The theorem. *)

\* The pipeline implements the store: however the sessions interleave, each
\* commit is one indivisible ingest of one new accession with the changes that
\* the filer's committed filings, this one included, call for.
THEOREM PipelineImplementsStore == Spec => ImplementsStore
<1>1. Init => Store!StoreInit
  BY RowKinds DEF Init, Store!StoreInit
<1>2. IndInv /\ [Next]_vars => [Store!StoreNext]_(Store!storeVars)
  <2> SUFFICES ASSUME IndInv, [Next]_vars
               PROVE  Store!StoreNext \/ UNCHANGED Store!storeVars
    OBVIOUS
  <2>1. ASSUME UNCHANGED <<db, change>>
        PROVE  UNCHANGED Store!storeVars
    BY <2>1 DEF Store!storeVars
  <2>2. CASE UNCHANGED vars
    BY <2>1, <2>2 DEF vars
  <2>3. CASE Next
    BY <2>1, <2>3, CommitIngests, OthersCommitNothing DEF Next, Proceed
  <2> QED
    BY <2>2, <2>3
<1> QED
  BY <1>1, <1>2, IndInvariance, PTL DEF Spec, ImplementsStore, Store!StoreSpec

-----------------------------------------------------------------------------
(* What FilingStore's theorems say of the pipeline.  Promise is the same   *)
(* instance as Store, of the module that holds these theorems.             *)

Promise == INSTANCE StoreProofs WITH
  filing <- [a \in Accession |-> db[<<"filing", a>>]],
  latest <- [f \in Cik |-> IF db[<<"filer", f>>] = NoRow THEN 0
                           ELSE db[<<"filer", f>>].latest]

\* The assumptions under which FilingStore's theorems hold are Ingest's own.
LEMMA PromiseAssumptions ==
  /\ PctLimit \in Nat \ {0}
  /\ None \notin Text /\ Short \in [Promise!Value -> Promise!Value]
  /\ /\ Period \subseteq Nat \ {Promise!NoPeriod} /\ Promise!IsFiniteSet(Accession)
     /\ Doc \in [Accession ->
                [ciks : SUBSET Cik, names : SUBSET Promise!Value, form : STRING,
                 filed : Nat \ {0}, period : Period \cup {Promise!NoPeriod},
                 main : BOOLEAN, table : BOOLEAN, lines : Seq(Promise!Line)]]
  /\ \A a \in Accession : Promise!FamilyOf(a) = "OWNERSHIP" =>
       \A i \in DOMAIN Doc[a].lines : Doc[a].lines[i].ref["cusip"] = None
  /\ NoRow \notin Promise!FilerVersion \cup Promise!FilingVersion \cup Promise!SecurityRef
<1>1. Promise!Value = Value /\ Promise!NoPeriod = NoPeriod /\ Promise!SecurityRef = SecurityRef
  BY DEF Promise!Value, Value, Promise!NoPeriod, NoPeriod, Promise!SecurityRef, SecurityRef, Promise!Column,
         Column
<1>2. Promise!IsFiniteSet(Accession) <=> IsFiniteSet(Accession)
  BY DEF Promise!IsFiniteSet, IsFiniteSet
<1>3. Promise!Line = Line
  BY <1>1 DEF Promise!Line, Line
<1>4. \A a : Promise!FamilyOf(a) = FamilyOf(a)
  BY DEF Promise!FamilyOf, FamilyOf, Promise!Family, Family, Promise!Amends, Amends,
      Promise!IsPrefix, IsPrefix, Promise!Unsupported, Unsupported
<1>5. Promise!FilerVersion = FilerVersion /\ Promise!FilingVersion = FilingVersion
  BY <1>1 DEF Promise!FilerVersion, FilerVersion, Promise!FilingVersion, FilingVersion,
              Promise!Families, Families, Promise!Key, Key, Promise!Value, Value
<1> QED
  BY <1>1, <1>2, <1>3, <1>4, <1>5, PctLimitAssumption, TextAssumption, DocAssumption,
     OwnershipAssumption, NoRowAssumption


\* Store and Promise are the same specification.
LEMMA OneStore == Store!StoreSpec => Promise!StoreSpec
<1>1. Store!StoreInit => Promise!StoreInit
  BY DEF Store!StoreInit, Promise!StoreInit
<1>2. ASSUME NEW T, NEW p
      PROVE  /\ Promise!ComputeChanges(T, p) = Store!ComputeChanges(T, p)
             /\ Promise!Overflows(T, p) <=> Store!Overflows(T, p)
  BY Zenon
     DEF Store!ComputeChanges, Promise!ComputeChanges, Store!Overflows, Promise!Overflows,
         Store!PreviousPositions, Promise!PreviousPositions,
         Store!PositionsForPeriod, Promise!PositionsForPeriod,
         Store!PriorPeriod, Promise!PriorPeriod, Store!Held, Promise!Held,
         Store!Nothing, Promise!Nothing, Store!NoPeriod, Promise!NoPeriod, Store!Max, Promise!Max,
         Store!Classify, Promise!Classify, Store!SumFunctionOnSet, Promise!SumFunctionOnSet,
         Store!FoldFunctionOnSet, Promise!FoldFunctionOnSet,
         Store!MapThenFoldSet, Promise!MapThenFoldSet
<1>3. ASSUME NEW r, NEW o
      PROVE  /\ Promise!Ref = Store!Ref /\ Promise!Unsupported = Store!Unsupported
             /\ Promise!FamilyOf(r) = Store!FamilyOf(r) /\ Promise!Fetched(r) = Store!Fetched(r)
             /\ Promise!StoredFiling(r, o) = Store!StoredFiling(r, o)
  BY Zenon
     DEF Store!Ref, Promise!Ref, Store!Value, Promise!Value, Store!Unsupported, Promise!Unsupported,
         Store!FamilyOf, Promise!FamilyOf, Store!Family, Promise!Family,
         Store!Amends, Promise!Amends, Store!IsPrefix, Promise!IsPrefix,
         Store!Fetched, Promise!Fetched, Store!Handle13F, Promise!Handle13F,
         Store!HandleOwnership, Promise!HandleOwnership, Store!HandleNport, Promise!HandleNport,
         Store!HandleStake, Promise!HandleStake, Store!Empty, Promise!Empty,
         Store!NoPeriod, Promise!NoPeriod, Store!StoredFiling, Promise!StoredFiling,
         Store!FilingWith, Promise!FilingWith, Store!ChildRows, Promise!ChildRows,
         Store!ChildRow, Promise!ChildRow, Store!SecurityKey, Promise!SecurityKey
<1>4. ASSUME NEW F, NEW f
      PROVE  Promise!FiledBy(F, f) = Store!FiledBy(F, f) /\ (Promise!HasDiff(F) <=> Store!HasDiff(F))
  BY Zenon
     DEF Store!FiledBy, Promise!FiledBy, Store!HasDiff, Promise!HasDiff,
         Store!NoPeriod, Promise!NoPeriod
<1>5. ASSUME NEW r, NEW row, Store!Record(r, row) PROVE Promise!Record(r, row)
  <2> DEFINE table == [[a \in Accession |-> db[<<"filing", a>>]] EXCEPT ![r.acc] = row]
             own   == Store!FiledBy(table, r.cik)
  <2>1. /\ Promise!FiledBy(table, r.cik) = own
        /\ Promise!HasDiff(row) <=> Store!HasDiff(row)
        /\ Promise!Overflows(own, row.period) <=> Store!Overflows(own, row.period)
        /\ Promise!ComputeChanges(own, row.period) = Store!ComputeChanges(own, row.period)
    BY <1>2, <1>4
  <2> QED
    BY <1>5, <2>1, Zenon DEF Store!Record, Promise!Record
<1>6. [Store!StoreNext]_(Store!storeVars) => [Promise!StoreNext]_(Promise!storeVars)
  BY <1>3, <1>5 DEF Store!StoreNext, Promise!StoreNext, Store!StoreIngest, Promise!StoreIngest,
                    Store!storeVars, Promise!storeVars
<1> QED
  BY <1>1, <1>6, PTL DEF Store!StoreSpec, Promise!StoreSpec

\* What is proved of the atomic store holds of the database behind the pipeline,
\* between any two statements of any sessions: the changes replay the committed
\* positions, only a late prior quarter makes them stale, and nothing that is
\* committed for a quarter is listed as sold in it (ingest_filing, compute_changes).
THEOREM PipelineKeepsPromises ==
  Spec => []Promise!SharesReplay /\ Promise!StaleOnlyByLatePrior /\ []Promise!StoreInv
<1>1. Promise!StoreSpec => []Promise!SharesReplay
  BY Promise!ChangesReplay, PromiseAssumptions, PTL
<1>2. Promise!StoreSpec => Promise!StaleOnlyByLatePrior
  BY Promise!OnlyLatePriorsStale, PromiseAssumptions, PTL
<1>3. Promise!StoreSpec => []Promise!StoreInv
  BY Promise!SoldIsGone, PromiseAssumptions, PTL
<1> QED
  BY <1>1, <1>2, <1>3, OneStore, PipelineImplementsStore, PTL DEF ImplementsStore

-----------------------------------------------------------------------------
(* The columns which identify a security are never lost.  A session may    *)
(* fill in a column that another one has filled in since it looked, but it *)
(* writes only what it chose to fill in, over the row as it is when it     *)
(* gets the lock; and while it holds the lock the committed row stays.     *)

\* The uncommitted version of a security row has what the committed one has.
Identified(r) ==
  db[r] # NoRow /\ lock[r] # Nobody =>
    \A c \in Column : db[r][c] # None => dirty[r][c] # None

\* A session has chosen columns that the reference has a value for.
Chosen(s) == pc[s] = "enrich" => \A c \in cols[s] : CurrentLine(s).ref[c] # None

IdentityInv ==
  /\ \A k \in Key : Identified(<<"security", k>>)
  /\ \A s \in Session : Chosen(s)

\* A step of session s in its call.
StepOf(s) ==
  CallReturnsAtOnce(s) \/ Call(s) \/ Proceed(s) \/ FetchFails(s) \/ DeadlockAbort(s) \/ Crash(s)

Untouched(t) == pc'[t] = pc[t] /\ out'[t] = out[t] /\ pos'[t] = pos[t] /\ cols'[t] = cols[t]

-----------------------------------------------------------------------------
(* The sessions' choices. *)

LEMMA Elsewhere ==
  ASSUME LocalsOK, NEW s \in Session, NEW t \in Session, t # s, StepOf(s)
  PROVE  Untouched(t)
<1> USE DEF Untouched, LocalsOK, Goto
<1>1. ASSUME Return(s) PROVE Untouched(t)
  BY <1>1 DEF Return
<1>2. CASE CallReturnsAtOnce(s) \/ Call(s)
  BY <1>2 DEF CallReturnsAtOnce, Call, vars, locals
<1>3. CASE FetchFails(s) \/ DeadlockAbort(s) \/ Crash(s) \/ DuplicateKey(s) \/ DiffFails(s) \/ Commit(s)
  BY <1>1, <1>3 DEF FetchFails, DeadlockAbort, Crash, DuplicateKey, DiffFails, Commit
<1>4. CASE SelectFiler(s) \/ InsertFiler(s) \/ RenameFiler(s) \/ InsertFiling(s) \/ Touch(s)
  BY <1>4 DEF SelectFiler, InsertFiler, RenameFiler, InsertFiling, Touch, locals
<1>5. CASE Fetch(s)
  BY <1>5 DEF Fetch, AfterLine
<1>6. CASE SelectSecurity(s) \/ InsertSecurity(s) \/ EnrichSecurity(s)
  BY <1>6 DEF SelectSecurity, InsertSecurity, EnrichSecurity, locals
<1>7. CASE InsertChild(s) \/ ComputeDiff(s)
  BY <1>7 DEF InsertChild, ComputeDiff, AfterLine
<1> QED
  BY <1>2, <1>3, <1>4, <1>5, <1>6, <1>7 DEF StepOf, Proceed

\* Only SelectSecurity leads to the UPDATE.
LEMMA NotEnriching ==
  ASSUME LocalsOK, NEW s \in Session, StepOf(s), ~SelectSecurity(s), ~CallReturnsAtOnce(s)
  PROVE  pc'[s] # "enrich"
<1> USE DEF LocalsOK, Goto
<1>1. ASSUME Return(s) PROVE pc'[s] # "enrich"
  BY <1>1 DEF Return
<1>2. CASE Call(s) \/ SelectFiler(s) \/ InsertFiler(s) \/ RenameFiler(s) \/ InsertFiling(s)
  BY <1>2 DEF Call, SelectFiler, InsertFiler, RenameFiler, InsertFiling
<1>3. CASE FetchFails(s) \/ DeadlockAbort(s) \/ Crash(s) \/ DuplicateKey(s) \/ DiffFails(s) \/ Commit(s)
  BY <1>1, <1>3 DEF FetchFails, DeadlockAbort, Crash, DuplicateKey, DiffFails, Commit
<1>4. CASE Fetch(s) \/ InsertChild(s)
  BY <1>4 DEF Fetch, InsertChild, AfterLine
<1>5. CASE InsertSecurity(s) \/ EnrichSecurity(s) \/ Touch(s) \/ ComputeDiff(s)
  BY <1>5 DEF InsertSecurity, EnrichSecurity, Touch, ComputeDiff
<1> QED
  BY <1>2, <1>3, <1>4, <1>5 DEF StepOf, Proceed

LEMMA ChosenStep ==
  ASSUME LocalsOK, NEW s \in Session, NEW t \in Session, Chosen(t), StepOf(s)
  PROVE  Chosen(t)'
<1>1. CASE t # s
  BY <1>1, Elsewhere DEF Untouched, Chosen, CurrentLine
<1>2. CASE t = s /\ SelectSecurity(s)
  BY <1>2 DEF SelectSecurity, Chosen, CurrentLine, Updates, LocalsOK, Goto
<1>3. CASE t = s /\ CallReturnsAtOnce(s)
  BY <1>3 DEF CallReturnsAtOnce, Chosen, CurrentLine, vars
<1>4. CASE t = s /\ ~SelectSecurity(s) /\ ~CallReturnsAtOnce(s)
  BY <1>4, NotEnriching DEF Chosen
<1> QED
  BY <1>1, <1>2, <1>3, <1>4

-----------------------------------------------------------------------------
(* The rows. *)

LEMMA SecurityRows ==
  ASSUME NEW k \in Key
  PROVE  /\ <<"security", k>> \in Row
         /\ \A s \in Session : <<"security", k>> # FilerRow(s) /\ <<"security", k>> # FilingRow(s)
BY DEF Row, FilerRow, FilingRow

LEMMA Written ==
  ASSUME TablesOK, NEW s \in Session, NEW r, NEW v, Write(s, r, v),
         NEW k \in Key, Identified(<<"security", k>>),
         r = <<"security", k>> /\ db[r] # NoRow =>
           \A c \in Column : db[r][c] # None => v[c] # None
  PROVE  Identified(<<"security", k>>)'
BY SecurityRows DEF Write, Identified, TablesOK

\* What the enriching session sees has what the committed row has.
LEMMA EnrichedKeeps ==
  ASSUME TablesOK, NEW s \in Session, NEW r, Identified(r), db[r] # NoRow,
         lock[r] \in {Nobody, s}, NEW columns, NEW new,
         \A c \in columns : new[c] # None
  PROVE  \A c \in Column : db[r][c] # None => Enriched(View(s, r), columns, new)[c] # None
<1>1. \A c \in Column : db[r][c] # None => View(s, r)[c] # None
  BY SessionAssumption DEF View, Identified
<1> QED
  BY <1>1 DEF Enriched

LEMMA IdentifiedStep ==
  ASSUME IndInv, IdentityInv, NEW s \in Session, StepOf(s), NEW k \in Key
  PROVE  Identified(<<"security", k>>)'
<1> DEFINE r == <<"security", k>>
<1>1. TablesOK /\ LocalsOK /\ Identified(r) /\ Chosen(s) /\ r \in Row
      /\ r # FilerRow(s) /\ r # FilingRow(s)
  BY SecurityRows DEF IndInv, TypeOK, IdentityInv
<1>2. ASSUME UNCHANGED tables PROVE Identified(r)'
  BY <1>1, <1>2 DEF Identified, tables
<1>3. CASE CallReturnsAtOnce(s) \/ Call(s) \/ SelectFiler(s) \/ Fetch(s) \/ SelectSecurity(s) \/ ComputeDiff(s)
  BY <1>2, <1>3 DEF CallReturnsAtOnce, Call, SelectFiler, Fetch, SelectSecurity, ComputeDiff, vars, tables
<1>4. CASE InsertFiler(s) \/ RenameFiler(s) \/ InsertFiling(s) \/ InsertChild(s)
  BY <1>1, <1>4, Written DEF InsertFiler, RenameFiler, InsertFiling, InsertChild
<1>5. CASE InsertSecurity(s)
  BY <1>1, <1>5, Written DEF InsertSecurity
<1>6. CASE EnrichSecurity(s)
  <2> DEFINE q == SecurityRow(s)
             v == Enriched(View(s, q), cols[s], CurrentLine(s).ref)
  <2>1. Write(s, q, v) /\ q = r /\ db[r] # NoRow =>
          \A c \in Column : db[r][c] # None => v[c] # None
    BY <1>1, <1>6, EnrichedKeeps DEF EnrichSecurity, Chosen, Write, Free
  <2>2. Write(s, q, v)
    BY <1>6 DEF EnrichSecurity
  <2> HIDE DEF q, v
  <2> QED
    BY <1>1, <2>1, <2>2, Written
<1>7. CASE Touch(s)
  <2>1. dirty'[r] = dirty[r] /\ lock'[r] = lock[r] /\ db'[r] = db[r]
    BY <1>1, <1>7 DEF Touch, TablesOK
  <2> QED
    BY <1>1, <2>1 DEF Identified
<1>8. ASSUME Rollback(s) PROVE Identified(r)'
  BY <1>1, <1>8 DEF Rollback, Unlock, Identified
<1>9. CASE Commit(s)
  <2>1. db'[r] = (IF lock[r] = s THEN dirty[r] ELSE db[r])
        /\ lock'[r] = (IF lock[r] = s THEN Nobody ELSE lock[r])
        /\ dirty'[r] = (IF lock[r] = s THEN NoRow ELSE dirty[r])
    BY <1>1, <1>9 DEF Commit, Unlock
  <2> QED
    BY <1>1, <2>1 DEF Identified
<1>10. CASE FetchFails(s) \/ DeadlockAbort(s) \/ Crash(s) \/ DuplicateKey(s) \/ DiffFails(s)
  BY <1>8, <1>10 DEF FetchFails, DeadlockAbort, Crash, DuplicateKey, DiffFails
<1> QED
  BY <1>3, <1>4, <1>5, <1>6, <1>7, <1>9, <1>10 DEF StepOf, Proceed

\* Only a commit changes a committed row, into the version its session has written.
LEMMA KeptStep ==
  ASSUME IndInv, IdentityInv, NEW s \in Session, StepOf(s), NEW k \in Key,
         db[<<"security", k>>] # NoRow
  PROVE  /\ db'[<<"security", k>>] # NoRow
         /\ \A c \in Column : db[<<"security", k>>][c] # None => db'[<<"security", k>>][c] # None
<1> DEFINE r == <<"security", k>>
<1>1. TablesOK /\ Identified(r) /\ r \in Row
  BY SecurityRows DEF IndInv, TypeOK, IdentityInv
<1>2. CASE Commit(s)
  <2>1. db'[r] = IF lock[r] = s THEN dirty[r] ELSE db[r]
    BY <1>1, <1>2 DEF Commit
  <2>2. lock[r] = s => dirty[r] \in SecurityRef /\ lock[r] # Nobody
    BY <1>1, SessionAssumption DEF TablesOK, Version
  <2> QED
    BY <1>1, <2>1, <2>2, NoRowAssumption DEF Identified
<1>3. CASE ~Commit(s)
  <2>1. db' = db
    BY <1>3 DEF StepOf, Proceed, CallReturnsAtOnce, Call, SelectFiler, InsertFiler, RenameFiler,
         InsertFiling, Fetch, SelectSecurity, InsertSecurity, EnrichSecurity, InsertChild,
         Touch, ComputeDiff, DuplicateKey, DiffFails, FetchFails, DeadlockAbort, Crash,
         Write, Rollback, tables, vars
  <2> QED
    BY <2>1
<1> QED
  BY <1>2, <1>3

-----------------------------------------------------------------------------
(* The theorem. *)

\* However sessions enrich a security at the same time, and whichever of them roll
\* back: what has been committed of its CUSIP, ticker, issuer and name stays known.
THEOREM IdentityNeverLost == Spec => IdentityKept
<1>1. Init => IdentityInv
  BY SecurityRows DEF Init, IdentityInv, Identified, Chosen
<1>2. IndInv /\ IdentityInv /\ [Next]_vars => IdentityInv'
  <2> SUFFICES ASSUME IndInv, IdentityInv, [Next]_vars PROVE IdentityInv'
    OBVIOUS
  <2>1. CASE UNCHANGED vars
    BY <2>1 DEF IdentityInv, Identified, Chosen, CurrentLine, vars
  <2>2. ASSUME NEW s \in Session, StepOf(s) PROVE IdentityInv'
    <3>1. \A k \in Key : Identified(<<"security", k>>)'
      BY <2>2, IdentifiedStep
    <3>2. \A t \in Session : Chosen(t)'
      BY <2>2, ChosenStep DEF IndInv, TypeOK, IdentityInv
    <3> QED
      BY <3>1, <3>2 DEF IdentityInv
  <2> QED
    BY <2>1, <2>2 DEF Next, StepOf
<1>3. IndInv /\ IdentityInv /\ [Next]_vars =>
        [\A k \in Key :
           LET old == db[<<"security", k>>]
               new == db'[<<"security", k>>]
           IN  old # NoRow =>
                 new # NoRow /\ \A c \in Column : old[c] # None => new[c] # None]_vars
  <2> SUFFICES ASSUME IndInv, IdentityInv, Next, NEW k \in Key, db[<<"security", k>>] # NoRow
               PROVE  /\ db'[<<"security", k>>] # NoRow
                      /\ \A c \in Column : db[<<"security", k>>][c] # None =>
                                             db'[<<"security", k>>][c] # None
    OBVIOUS
  <2> QED
    BY KeptStep DEF Next, StepOf
<1> QED
  BY <1>1, <1>2, <1>3, IndInvariance, PTL DEF Spec, IdentityKept

=============================================================================
