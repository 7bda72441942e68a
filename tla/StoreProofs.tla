----------------------------- MODULE StoreProofs -----------------------------
(***************************************************************************)
(* Proofs about module FilingStore, for any filings, filers, securities    *)
(* and any order of ingest: the changes recorded for a quarter replay the  *)
(* positions, and which ingest can leave them out of date.                 *)
(***************************************************************************)
EXTENDS FilingStore, DiffProofs

StoreType ==
  /\ filing \in [Accession -> FilingVersion \cup {NoRow}]
  /\ latest \in [Cik -> Nat]
  /\ change = [x \in Cik \X Period |-> change[x]]

LEMMA StoredFilingType ==
  ASSUME NEW r \in Ref, FamilyOf(r.acc) # Unsupported, NEW o \in Fetched(r)
  PROVE  StoredFiling(r, o) \in FilingVersion
<1>1. o \in Outcome
  BY FetchedType
<1>2. ChildRows(o.lines, Len(o.lines)) \in Seq([key : Key, shares : Nat, value : Nat, txns : Seq(Nat)])
  <2>1. Len(o.lines) \in 0..Len(o.lines)
    BY <1>1 DEF Outcome
  <2> QED
    BY <1>1, <2>1, ChildRowsType
<1>3. r.cik \in Cik /\ r.acc \in Accession
  BY DEF Ref
<1>4. Doc[r.acc].filed \in Nat
  BY <1>3, DocAssumption
<1>5. FamilyOf(r.acc) \in Families
  BY DEF FamilyOf, Family, Families, Unsupported
<1>6. o.period \in Period \cup {NoPeriod}
  BY <1>1 DEF Outcome
<1> QED
  BY <1>2, <1>3, <1>4, <1>5, <1>6 DEF StoredFiling, FilingWith, FilingVersion

\* What one ingest does.
Recorded(r, row) ==
  /\ r \in Ref /\ row \in FilingVersion /\ row.cik = r.cik
  /\ Record(r, row)

LEMMA IngestRecords ==
  ASSUME NEW r \in Ref, StoreIngest(r)
  PROVE  \E row : Recorded(r, row)
<1>1. PICK o \in Fetched(r) : Record(r, StoredFiling(r, o))
  BY DEF StoreIngest
<1>2. StoredFiling(r, o) \in FilingVersion
  BY StoredFilingType DEF StoreIngest
<1>3. StoredFiling(r, o).cik = r.cik
  BY DEF StoredFiling, FilingWith
<1> QED
  BY <1>1, <1>2, <1>3 DEF Recorded

LEMMA StoreTypeInit == StoreInit => StoreType
BY DEF StoreInit, StoreType

LEMMA StoreTypeStep == StoreType /\ [StoreNext]_storeVars => StoreType'
<1> SUFFICES ASSUME StoreType, [StoreNext]_storeVars PROVE StoreType'
  OBVIOUS
<1>1. CASE UNCHANGED storeVars
  BY <1>1 DEF StoreType, storeVars
<1>2. ASSUME NEW r \in Ref, StoreIngest(r)
      PROVE  StoreType'
  <2>1. PICK row : Recorded(r, row)
    BY <1>2, IngestRecords
  <2>2. row \in FilingVersion /\ r.acc \in Accession /\ r.cik \in Cik
    BY <2>1 DEF Recorded, Ref
  <2>3. filing' \in [Accession -> FilingVersion \cup {NoRow}]
    BY <2>1, <2>2 DEF StoreType, Recorded, Record
  <2>4. latest' \in [Cik -> Nat]
    BY <2>1, <2>2 DEF StoreType, Recorded, Record, FilingVersion
  <2>5. change' = [x \in Cik \X Period |-> change'[x]]
    BY <2>1 DEF StoreType, Recorded, Record
  <2> QED
    BY <2>3, <2>4, <2>5 DEF StoreType
<1> QED
  BY <1>1, <1>2 DEF StoreNext

\* The tables always have their types.
THEOREM StoreTypeCorrect == StoreSpec => []StoreType
BY StoreTypeInit, StoreTypeStep, PTL DEF StoreSpec

-----------------------------------------------------------------------------
(* The rows replay the positions. *)

\* What Describes says of security k and the changes just computed for period p.
Replayed(T, p, k) ==
  LET rows == ComputeChanges(T, p)
      prev == Held(PreviousPositions(T, p), k).shares
      cur  == Held(PositionsForPeriod(T, p), k).shares
      Of   == {r \in rows : r.security = k}
  IN  /\ cur = prev + SumFunctionOnSet([r \in rows |-> r.shares_delta], Of)
      /\ (\E r \in Of : r.action = "NEW") <=> prev = 0 /\ cur > 0
      /\ (\E r \in Of : r.action = "EXIT") <=> prev > 0 /\ cur = 0

LEMMA Replays ==
  ASSUME NEW T, FilerFilings(T), NEW p, NEW k \in Compared(T, p)
  PROVE  Replayed(T, p, k)
<1> DEFINE rows  == ComputeChanges(T, p)
           Of    == {r \in rows : r.security = k}
           prev  == Held(PreviousPositions(T, p), k).shares
           cur   == Held(PositionsForPeriod(T, p), k).shares
           delta == [r \in rows |-> r.shares_delta]
           row   == Change(T, p, k)
<1>1. prev \in Nat /\ cur \in Nat
  BY HeldType
<1>2. row.shares_delta = cur - prev /\ row.action = Classify(prev, cur)
  BY DEF Change
<1>3. Of = IF cur = prev THEN {} ELSE {row}
  BY ChangesOf
<1>4. row \in Of => delta[row] = cur - prev
  BY <1>2
<1> HIDE DEF rows, prev, cur, delta, row, Of
<1>5. CASE cur = prev
  <2>1. Of = {}
    BY <1>3, <1>5
  <2>2. SumFunctionOnSet(delta, Of) = 0
    BY <2>1, SumEmpty
  <2> QED
    BY <1>1, <1>5, <2>1, <2>2 DEF Replayed, rows, prev, cur, delta, Of
<1>6. CASE cur # prev
  <2>1. Of = {row} /\ delta[row] = cur - prev
    BY <1>3, <1>4, <1>6
  <2>2. SumFunctionOnSet(delta, Of) = cur - prev
    BY <1>1, <2>1, SumSingle
  <2>3. /\ row.action = "NEW" <=> prev = 0 /\ cur > 0
        /\ row.action = "EXIT" <=> prev > 0 /\ cur = 0
    BY <1>1, <1>2, Classified
  <2>4. cur = prev + SumFunctionOnSet(delta, Of)
    BY <1>1, <2>2
  <2> QED
    BY <2>1, <2>3, <2>4 DEF Replayed, rows, prev, cur, delta, Of
<1> QED
  BY <1>5, <1>6

\* The changes just computed describe the move to p from the period before it.
LEMMA ComputedDescribe ==
  ASSUME NEW T, FilerFilings(T), NEW p
  PROVE  /\ \A r \in ComputeChanges(T, p) : r.prev_period = PriorPeriod(T, p)
         /\ Describes(ComputeChanges(T, p), PreviousPositions(T, p), PositionsForPeriod(T, p))
<1>1. \A r \in ComputeChanges(T, p) : /\ r.security \in Compared(T, p)
                                      /\ r.prev_period = PriorPeriod(T, p)
  BY ChangesAre DEF Change
<1>2. \A k \in Compared(T, p) : Replayed(T, p, k)
  BY Replays
<1>3. Compared(T, p) = DOMAIN PreviousPositions(T, p) \cup DOMAIN PositionsForPeriod(T, p)
  BY DEF Compared
<1> QED
  BY <1>1, <1>2, <1>3, Zenon DEF Describes, Replayed

\* The 13F filings of a filer for a period carry its positions, without the others.
LEMMA PositionsAlone ==
  ASSUME NEW T, NEW q
  PROVE  PositionsForPeriod([a \in For(T, q) |-> T[a]], q) = PositionsForPeriod(T, q)
<1> DEFINE U == [a \in For(T, q) |-> T[a]]
<1>1. For(U, q) = For(T, q) /\ \A a \in For(U, q) : U[a] = T[a]
  BY DEF For
<1> HIDE DEF U
<1>2. PositionsForPeriod(U, q) = PositionsForPeriod(T, q)
  BY <1>1, PositionsSame
<1> QED
  BY <1>2 DEF U

LEMMA NoPositions ==
  ASSUME NEW T, NEW q
  PROVE  PositionsForPeriod([a \in {} |-> T[a]], q) = <<>>
<1> DEFINE U == [a \in {} |-> T[a]]
<1>1. HoldingRows(U, q) = {}
  BY DEF HoldingRows, For
<1> HIDE DEF U
<1>2. PositionsForPeriod(U, q) =
        [k \in {} |-> [shares |-> SumFunctionOnSet([h \in {} |-> LineAt(U, h).shares],
                                                   KeyRows(U, q, k)),
                       value  |-> SumFunctionOnSet([h \in {} |-> LineAt(U, h).value],
                                                   KeyRows(U, q, k))]]
  <2>1. {LineAt(U, h).key : h \in HoldingRows(U, q)} = {}
    BY <1>1
  <2> QED
    BY <1>1, <2>1, PositionsAre
<1>3. DOMAIN PositionsForPeriod(U, q) = {}
  BY <1>2
<1>4. PositionsForPeriod(U, q) = [k \in {} |-> PositionsForPeriod(U, q)[k]]
  BY <1>2
<1>5. PositionsForPeriod(U, q) = <<>>
  BY <1>3, <1>4
<1> QED
  BY <1>5 DEF U

\* What SharesReplay says of the filings T of a filer and the rows of period p.
Witness(T, p, rows, q, B) ==
  /\ q \in Reported(T) \cup {NoPeriod} /\ B \in SUBSET For(T, q)
  /\ q < p /\ (B = {} <=> q = NoPeriod)
  /\ \A r \in rows : r.prev_period = q
  /\ Describes(rows, PositionsForPeriod([a \in B |-> T[a]], q), PositionsForPeriod(T, p))

LEMMA WitnessMeans ==
  SharesReplay <=>
    \A f \in Cik : \A p \in Reported(FiledBy(filing, f)) :
      \E q, B : Witness(FiledBy(filing, f), p, change[<<f, p>>], q, B)
BY DEF SharesReplay, Witness, For

\* When they are computed, the previous quarter is the newest before, with all its
\* filings.
LEMMA ComputedWitness ==
  ASSUME NEW T, FilerFilings(T), NEW p \in Nat \ {0}
  PROVE  \E q, B : Witness(T, p, ComputeChanges(T, p), q, B)
<1> DEFINE q == PriorPeriod(T, p)
           B == IF q = NoPeriod THEN {} ELSE For(T, q)
<1>1. \/ q = NoPeriod
      \/ q \in Reported(T) /\ q < p /\ q # NoPeriod /\ For(T, q) # {}
  <2>1. CASE Before(T, p) = {}
    BY <2>1, PriorIs
  <2>2. CASE Before(T, p) # {}
    <3>1. q \in Before(T, p)
      BY <2>2, PriorIs
    <3> QED
      BY <3>1 DEF Before, Reported, For
  <2> QED
    BY <2>1, <2>2
<1>2. NoPeriod < p
  BY DEF NoPeriod
<1>3. PositionsForPeriod([a \in B |-> T[a]], q) = PreviousPositions(T, p)
  <2>1. CASE q = NoPeriod
    BY <2>1, NoPositions DEF PreviousPositions
  <2>2. CASE q # NoPeriod
    BY <2>2, PositionsAlone DEF PreviousPositions
  <2> QED
    BY <2>1, <2>2
<1>4. B \in SUBSET For(T, q)
  OBVIOUS
<1>5. B = {} <=> q = NoPeriod
  BY <1>1
<1> HIDE DEF q, B
<1>6. /\ \A r \in ComputeChanges(T, p) : r.prev_period = q
      /\ Describes(ComputeChanges(T, p), PositionsForPeriod([a \in B |-> T[a]], q),
                   PositionsForPeriod(T, p))
  BY <1>3, ComputedDescribe DEF q
<1>7. q \in Reported(T) \cup {NoPeriod} /\ q < p
  BY <1>1, <1>2
<1>8. Witness(T, p, ComputeChanges(T, p), q, B)
  BY <1>4, <1>5, <1>6, <1>7 DEF Witness
<1> QED
  BY <1>8

\* Rows that are left as they are keep describing what they described.
LEMMA WitnessStays ==
  ASSUME NEW T, NEW U, NEW b, NEW p, NEW rows, NEW q, NEW B, Witness(T, p, rows, q, B),
         DOMAIN U = DOMAIN T \cup {b}, b \notin DOMAIN T, \A a \in DOMAIN T : U[a] = T[a],
         ~(U[b].fam = "13F" /\ U[b].period = p)
  PROVE  Witness(U, p, rows, q, B)
<1>1. Reported(T) \subseteq Reported(U)
  BY DEF Reported
<1>2. For(T, q) \subseteq For(U, q) /\ B \subseteq DOMAIN T
  BY DEF For, Witness
<1>3. [a \in B |-> U[a]] = [a \in B |-> T[a]]
  BY <1>2
<1>4. PositionsForPeriod(U, p) = PositionsForPeriod(T, p)
  <2>1. For(U, p) = For(T, p) /\ \A a \in For(U, p) : U[a] = T[a]
    BY DEF For
  <2> QED
    BY <2>1, PositionsSame
<1> QED
  BY <1>1, <1>2, <1>3, <1>4, Zenon DEF Witness

-----------------------------------------------------------------------------
(* What leaves them out of date. *)

\* Of filer f's recorded changes, an ingest computes those of its own period, and
\* leaves those of the others as they are.
LEMMA OthersComputed ==
  ASSUME StoreType, NEW r, NEW row, Recorded(r, row), NEW f \in Cik, NEW p \in Period
  PROVE  change'[<<f, p>>] =
           IF r.cik = f /\ HasDiff(row) /\ row.period = p
             THEN ComputeChanges(FiledBy(filing', f), p) ELSE change[<<f, p>>]
<1>1. r.cik \in Cik
  BY DEF Recorded, Ref
<1>2. change' = IF HasDiff(row)
                  THEN [change EXCEPT ![<<r.cik, row.period>>] =
                          ComputeChanges(FiledBy(filing', r.cik), row.period)]
                  ELSE change
  BY DEF Recorded, Record
<1>3. <<f, p>> \in DOMAIN change
  BY DEF StoreType
<1> QED
  BY <1>2, <1>3

LEMMA FiledAfter ==
  ASSUME StoreType, NEW r, NEW row, Recorded(r, row), NEW f \in Cik
  PROVE  LET T == FiledBy(filing, f)
             U == FiledBy(filing', f)
         IN  /\ FilerFilings(T) /\ FilerFilings(U)
             /\ r.cik # f => U = T
             /\ r.cik = f => /\ DOMAIN U = DOMAIN T \cup {r.acc} /\ r.acc \notin DOMAIN T
                             /\ U[r.acc] = row /\ \A a \in DOMAIN T : U[a] = T[a]
<1> DEFINE T == FiledBy(filing, f)
           U == FiledBy(filing', f)
<1>1. /\ r.acc \in Accession /\ row \in FilingVersion /\ row # NoRow /\ row.cik = r.cik
      /\ filing[r.acc] = NoRow /\ filing' = [filing EXCEPT ![r.acc] = row]
  BY NoRowAssumption DEF Recorded, Record, Ref
<1>2. filing' \in [Accession -> FilingVersion \cup {NoRow}]
  BY <1>1 DEF StoreType
<1>3. /\ FilerFilings(T) /\ FilerFilings(U)
      /\ DOMAIN T = {a \in Accession : filing[a] # NoRow /\ filing[a].cik = f}
      /\ DOMAIN U = {a \in Accession : filing'[a] # NoRow /\ filing'[a].cik = f}
      /\ \A a \in DOMAIN T : T[a] = filing[a]
      /\ \A a \in DOMAIN U : U[a] = filing'[a]
  BY <1>2, FilerFilingsType DEF StoreType
<1>4. \A a \in Accession : filing'[a] = IF a = r.acc THEN row ELSE filing[a]
  BY <1>1 DEF StoreType
<1>5. r.cik # f => U = T
  <2> SUFFICES ASSUME r.cik # f PROVE U = T
    OBVIOUS
  <2>1. filing = [a \in Accession |-> filing[a]] /\ filing' = [a \in Accession |-> filing'[a]]
    BY <1>2 DEF StoreType
  <2>2. \A a \in Accession :
          (filing[a] # NoRow /\ filing[a].cik = f) <=> (filing'[a] # NoRow /\ filing'[a].cik = f)
    BY <1>1, <1>4
  <2>3. \A a \in Accession : filing[a] # NoRow /\ filing[a].cik = f => filing[a] = filing'[a]
    BY <1>1, <1>4
  <2> QED
    BY <2>1, <2>2, <2>3, FiledByOther
<1> HIDE DEF T, U
<1>6. r.cik = f => /\ DOMAIN U = DOMAIN T \cup {r.acc} /\ r.acc \notin DOMAIN T
                   /\ U[r.acc] = row /\ \A a \in DOMAIN T : U[a] = T[a]
  BY <1>1, <1>3, <1>4
<1> QED
  BY <1>3, <1>5, <1>6 DEF T, U

\* One ingest keeps what the recorded changes of filer f's period p say.
LEMMA ReplayStep ==
  ASSUME StoreType, SharesReplay, NEW r, NEW row, Recorded(r, row), NEW f \in Cik,
         NEW p \in Reported(FiledBy(filing', f))
  PROVE  \E q, B : Witness(FiledBy(filing', f), p, change'[<<f, p>>], q, B)
<1> DEFINE T == FiledBy(filing, f)
           U == FiledBy(filing', f)
<1>1. /\ FilerFilings(T) /\ FilerFilings(U)
      /\ r.cik # f => U = T
      /\ r.cik = f => /\ DOMAIN U = DOMAIN T \cup {r.acc} /\ r.acc \notin DOMAIN T
                      /\ U[r.acc] = row /\ \A a \in DOMAIN T : U[a] = T[a]
  BY FiledAfter
<1>2. p \in Period /\ p \in Nat \ {0}
  BY <1>1, DocAssumption DEF Reported, FilerFilings, FilingVersion, NoPeriod
<1>3. change'[<<f, p>>] = IF r.cik = f /\ HasDiff(row) /\ row.period = p
                        THEN ComputeChanges(U, p) ELSE change[<<f, p>>]
  BY <1>2, OthersComputed
<1>4. \A o \in Reported(T) : \E q, B : Witness(T, o, change[<<f, o>>], q, B)
  BY WitnessMeans
<1> HIDE DEF T, U
<1>5. CASE r.cik # f
  BY <1>1, <1>3, <1>4, <1>5 DEF T, U
<1>6. CASE r.cik = f /\ HasDiff(row) /\ row.period = p
  BY <1>1, <1>2, <1>3, <1>6, ComputedWitness DEF U
<1>7. CASE r.cik = f /\ ~(HasDiff(row) /\ row.period = p)
  <2>1. p # NoPeriod /\ \E a \in DOMAIN U : U[a].fam = "13F" /\ U[a].period = p
    BY DEF Reported, U
  <2>2. ~(row.fam = "13F" /\ row.period = p)
    BY <1>7, <2>1 DEF HasDiff
  <2>3. p \in Reported(T)
    BY <1>1, <1>7, <2>1, <2>2 DEF Reported
  <2>4. PICK q, B : Witness(T, p, change[<<f, p>>], q, B)
    BY <1>4, <2>3
  <2>5. Witness(U, p, change[<<f, p>>], q, B)
    BY <1>1, <1>7, <2>2, <2>4, WitnessStays
  <2> QED
    BY <1>3, <1>7, <2>5 DEF U
<1> QED
  BY <1>5, <1>6, <1>7

\* The recorded changes describe a move that was really made, whatever filings,
\* amendments and notices a filer has and in whatever order they were ingested: to
\* the holdings of all the filings of the quarter, from holdings of the quarter the
\* rows name.
THEOREM ChangesReplay == StoreSpec => []SharesReplay
<1>1. StoreInit => SharesReplay
  <2> SUFFICES ASSUME StoreInit, NEW f \in Cik PROVE Reported(FiledBy(filing, f)) = {}
    BY DEF SharesReplay
  <2> QED
    BY DEF StoreInit, FiledBy, Reported
<1>2. StoreType /\ SharesReplay /\ [StoreNext]_storeVars => SharesReplay'
  <2> DEFINE Moved == \A f \in Cik : \A p \in Reported(FiledBy(filing', f)) :
                        \E q, B : Witness(FiledBy(filing', f), p, change'[<<f, p>>], q, B)
  <2> SUFFICES ASSUME StoreType, SharesReplay, [StoreNext]_storeVars PROVE Moved
    BY Zenon DEF SharesReplay, Witness, For
  <2>1. CASE UNCHANGED storeVars
    <3>1. filing' = filing /\ change' = change
      BY <2>1 DEF storeVars
    <3> QED
      BY <3>1, WitnessMeans
  <2>2. ASSUME NEW r \in Ref, StoreIngest(r)
        PROVE  Moved
    <3>1. PICK row : Recorded(r, row)
      BY <2>2, IngestRecords
    <3> QED
      BY <3>1, ReplayStep
  <2> QED
    BY <2>1, <2>2 DEF StoreNext
<1> QED
  BY <1>1, <1>2, StoreTypeCorrect, PTL DEF StoreSpec

LEMMA StaleStep ==
  ASSUME StoreType, NEW r, NEW row, Recorded(r, row), NEW f \in Cik,
         NEW p \in Reported(FiledBy(filing', f))
  PROVE  LET T == FiledBy(filing, f)
             U == FiledBy(filing', f)
         IN  \/ Fresh(U, p, change'[<<f, p>>])
             \/ p \in Reported(T) /\ ~Fresh(T, p, change[<<f, p>>])
             \/ \E a \in DOMAIN U \ DOMAIN T :
                  U[a].fam = "13F" /\ U[a].period = PriorPeriod(U, p)
<1> DEFINE T == FiledBy(filing, f)
           U == FiledBy(filing', f)
<1>1. /\ FilerFilings(T) /\ FilerFilings(U)
      /\ r.cik # f => U = T
      /\ r.cik = f => /\ DOMAIN U = DOMAIN T \cup {r.acc} /\ r.acc \notin DOMAIN T
                      /\ U[r.acc] = row /\ \A a \in DOMAIN T : U[a] = T[a]
  BY FiledAfter
<1>2. p \in Period /\ p \in Nat
  BY <1>1, DocAssumption DEF Reported, FilerFilings, FilingVersion
<1>3. change'[<<f, p>>] = IF r.cik = f /\ HasDiff(row) /\ row.period = p
                        THEN ComputeChanges(U, p) ELSE change[<<f, p>>]
  BY <1>2, OthersComputed
<1> HIDE DEF T, U
<1>4. CASE r.cik # f
  BY <1>1, <1>3, <1>4 DEF Fresh, T, U
<1>5. CASE r.cik = f /\ HasDiff(row) /\ row.period = p
  BY <1>3, <1>5 DEF Fresh, T, U
<1>6. CASE r.cik = f /\ ~(HasDiff(row) /\ row.period = p)
  <2>1. p # NoPeriod /\ \E a \in DOMAIN U : U[a].fam = "13F" /\ U[a].period = p
    BY DEF Reported, U
  <2>2. ~(row.fam = "13F" /\ row.period = p)
    BY <1>6, <2>1 DEF HasDiff
  <2>3. p \in Reported(T)
    BY <1>1, <1>6, <2>1, <2>2 DEF Reported
  <2>4. CASE row.fam = "13F" /\ row.period = PriorPeriod(U, p)
    BY <1>1, <1>6, <2>4 DEF T, U
  <2>5. CASE ~(row.fam = "13F" /\ row.period = PriorPeriod(U, p))
    <3>1. ComputeChanges(U, p) = ComputeChanges(T, p)
      BY <1>1, <1>2, <1>6, <2>2, <2>5, ChangesSame
    <3> QED
      BY <1>3, <1>6, <2>3, <3>1 DEF Fresh, T, U
  <2> QED
    BY <2>4, <2>5
<1> QED
  BY <1>4, <1>5, <1>6

\* Nothing but a filing for the quarter compared with, ingested afterwards, leaves
\* the changes of a reported quarter out of date: the first filing of a quarter and
\* its amendments make them fresh, and no other filing disturbs them.
THEOREM OnlyLatePriorsStale == StoreSpec => StaleOnlyByLatePrior
<1> DEFINE Disturbed ==
      ~UNCHANGED <<filing, change>> =>
      \A f \in Cik :
        LET T == FiledBy(filing, f)
            U == FiledBy(filing', f)
        IN  \A p \in Reported(U) :
              \/ Fresh(U, p, change'[<<f, p>>])
              \/ p \in Reported(T) /\ ~Fresh(T, p, change[<<f, p>>])
              \/ \E a \in DOMAIN U \ DOMAIN T :
                   U[a].fam = "13F" /\ U[a].period = PriorPeriod(U, p)
<1>1. ASSUME StoreType, [StoreNext]_storeVars
      PROVE  [Disturbed]_storeVars
  <2>1. CASE UNCHANGED storeVars
    BY <2>1
  <2>2. ASSUME NEW r \in Ref, StoreIngest(r)
        PROVE  Disturbed
    <3>1. PICK row : Recorded(r, row)
      BY <2>2, IngestRecords
    <3> QED
      BY <1>1, <3>1, StaleStep
  <2> QED
    BY <1>1, <2>1, <2>2 DEF StoreNext
<1> HIDE DEF Disturbed
<1>2. StoreSpec => [][Disturbed]_storeVars
  BY <1>1, StoreTypeCorrect, PTL DEF StoreSpec
<1> QED
  BY <1>2 DEF StaleOnlyByLatePrior, Disturbed

-----------------------------------------------------------------------------
(* What the table of changes holds, whatever has been ingested since. *)

ChangeRow ==
  [security : Key, prev_period : Period \cup {NoPeriod}, action : {"NEW", "ADD", "TRIM", "EXIT"},
   shares_delta : Int, value_delta : Int]

\* a is a 13F of filer f for period p.
Quarterly(a, f, p) ==
  filing[a] # NoRow /\ filing[a].cik = f /\ filing[a].fam = "13F" /\ filing[a].period = p

ChangesTyped == \A f \in Cik, p \in Period : change[<<f, p>>] \subseteq ChangeRow

\* Changes are those of a quarter that was reported.
ChangesReported ==
  \A f \in Cik, p \in Period :
    change[<<f, p>>] # {} => \E a \in Accession : Quarterly(a, f, p)

\* What is listed as sold has no shares in any filing for the quarter, amendments
\* that came after included.
ExitsGone ==
  \A f \in Cik, p \in Period : \A row \in change[<<f, p>>] :
    row.action = "EXIT" =>
      \A a \in Accession : Quarterly(a, f, p) =>
        \A i \in DOMAIN filing[a].lines :
          filing[a].lines[i].key = row.security => filing[a].lines[i].shares = 0

StoreInv == StoreType /\ ChangesTyped /\ ChangesReported /\ ExitsGone

LEMMA PositionKeys ==
  ASSUME NEW T, FilerFilings(T), NEW p
  PROVE  /\ DOMAIN PositionsForPeriod(T, p) \subseteq Key
         /\ DOMAIN PreviousPositions(T, p) \subseteq Key
<1>1. ASSUME NEW q PROVE DOMAIN PositionsForPeriod(T, q) \subseteq Key
  <2>1. DOMAIN PositionsForPeriod(T, q) = {LineAt(T, h).key : h \in HoldingRows(T, q)}
    BY PositionsAre
  <2>2. \A h \in HoldingRows(T, q) : LineAt(T, h).key \in Key
    BY HoldingRowsType
  <2> QED
    BY <2>1, <2>2
<1>2. DOMAIN <<>> \subseteq Key
  OBVIOUS
<1> QED
  BY <1>1, <1>2 DEF PreviousPositions

LEMMA ChangesType ==
  ASSUME NEW T, FilerFilings(T), NEW p
  PROVE  ComputeChanges(T, p) \subseteq ChangeRow
<1> SUFFICES ASSUME NEW k \in Compared(T, p), Change(T, p, k).action # "HOLD"
             PROVE  Change(T, p, k) \in ChangeRow
  BY ChangesAre
<1>1. k \in Key
  BY PositionKeys DEF Compared
<1>2. PriorPeriod(T, p) \in Period \cup {NoPeriod}
  <2>1. Before(T, p) \subseteq Period \cup {NoPeriod}
    BY DEF Before, FilerFilings, FilingVersion
  <2> QED
    BY <2>1, PriorIs
<1> QED
  BY <1>1, <1>2, HeldType, Classified DEF Change, ChangeRow

\* An EXIT among the changes of T says that no line of the period has shares.
LEMMA ExitMeansNone ==
  ASSUME NEW T, FilerFilings(T), NEW p, NEW row \in ComputeChanges(T, p), row.action = "EXIT",
         NEW a \in For(T, p), NEW i \in DOMAIN T[a].lines, T[a].lines[i].key = row.security
  PROVE  T[a].lines[i].shares = 0
<1>1. PICK k \in Compared(T, p) : row = Change(T, p, k)
  BY ChangesAre
<1>2. Held(PositionsForPeriod(T, p), k).shares = 0 /\ row.security = k
  BY <1>1, HeldType, Classified DEF Change
<1>3. <<a, i>> \in KeyRows(T, p, k)
  BY <1>2, LineIsRow
<1>4. LineAt(T, <<a, i>>).shares = 0
  BY <1>2, <1>3, NothingHeld
<1> QED
  BY <1>4 DEF LineAt

LEMMA StoreInvStep ==
  ASSUME StoreInv, NEW r, NEW row, Recorded(r, row)
  PROVE  ChangesTyped' /\ ChangesReported' /\ ExitsGone'
<1> USE DEF StoreInv
<1> SUFFICES ASSUME NEW f \in Cik, NEW p \in Period
             PROVE  /\ change'[<<f, p>>] \subseteq ChangeRow
                    /\ change'[<<f, p>>] # {} => \E a \in Accession : Quarterly(a, f, p)'
                    /\ \A c \in change'[<<f, p>>] : c.action = "EXIT" =>
                         \A a \in Accession : Quarterly(a, f, p)' =>
                           \A i \in DOMAIN filing'[a].lines :
                             filing'[a].lines[i].key = c.security =>
                               filing'[a].lines[i].shares = 0
  BY DEF ChangesTyped, ChangesReported, ExitsGone
<1> DEFINE U == FiledBy(filing', f)
<1>1. /\ r.acc \in Accession /\ row \in FilingVersion /\ row # NoRow /\ row.cik = r.cik
      /\ filing[r.acc] = NoRow /\ filing' = [filing EXCEPT ![r.acc] = row]
  BY NoRowAssumption DEF Recorded, Record, Ref
<1>2. filing' \in [Accession -> FilingVersion \cup {NoRow}]
  BY <1>1 DEF StoreType
<1>3. /\ FilerFilings(U)
      /\ DOMAIN U = {a \in Accession : filing'[a] # NoRow /\ filing'[a].cik = f}
      /\ \A a \in DOMAIN U : U[a] = filing'[a]
  BY <1>2, FilerFilingsType
<1>4. \A a \in Accession : filing'[a] = IF a = r.acc THEN row ELSE filing[a]
  BY <1>1 DEF StoreType
<1>5. change'[<<f, p>>] = IF r.cik = f /\ HasDiff(row) /\ row.period = p
                            THEN ComputeChanges(U, p) ELSE change[<<f, p>>]
  BY OthersComputed
<1>6. p # NoPeriod
  BY DocAssumption
<1> HIDE DEF U
<1>7. CASE r.cik = f /\ HasDiff(row) /\ row.period = p
  <2>1. Quarterly(r.acc, f, p)'
    BY <1>1, <1>4, <1>7 DEF Quarterly, HasDiff
  <2>2. ASSUME NEW a \in Accession, Quarterly(a, f, p)'
        PROVE  a \in For(U, p) /\ U[a] = filing'[a]
    BY <1>3, <2>2 DEF Quarterly, For
  <2>3. change'[<<f, p>>] = ComputeChanges(U, p)
    BY <1>5, <1>7
  <2> QED
    BY <1>1, <1>3, <2>1, <2>2, <2>3, ChangesType, ExitMeansNone
<1>8. CASE ~(r.cik = f /\ HasDiff(row) /\ row.period = p)
  <2>1. \A a \in Accession : Quarterly(a, f, p)' <=> Quarterly(a, f, p)
    BY <1>1, <1>4, <1>6, <1>8 DEF Quarterly, HasDiff
  <2>2. \A a \in Accession : Quarterly(a, f, p) => filing'[a] = filing[a]
    BY <1>1, <1>4 DEF Quarterly
  <2>3. change'[<<f, p>>] = change[<<f, p>>]
    BY <1>5, <1>8
  <2> QED
    BY <2>1, <2>2, <2>3 DEF ChangesTyped, ChangesReported, ExitsGone
<1> QED
  BY <1>7, <1>8

\* The recorded changes are well-formed, belong to a reported quarter, and list as
\* sold only what no filing for the quarter still shows.
THEOREM SoldIsGone == StoreSpec => []StoreInv
<1>1. StoreInit => StoreInv
  <2> SUFFICES ASSUME StoreInit PROVE StoreInv
    OBVIOUS
  <2>1. \A f \in Cik, p \in Period : change[<<f, p>>] = {}
    BY DEF StoreInit
  <2> QED
    BY <2>1, StoreTypeInit DEF StoreInv, ChangesTyped, ChangesReported, ExitsGone
<1>2. StoreInv /\ [StoreNext]_storeVars => StoreInv'
  <2> SUFFICES ASSUME StoreInv, [StoreNext]_storeVars PROVE StoreInv'
    OBVIOUS
  <2>1. CASE UNCHANGED storeVars
    <3>1. filing' = filing /\ latest' = latest /\ change' = change
      BY <2>1 DEF storeVars
    <3>2. \A a, f, p : Quarterly(a, f, p)' <=> Quarterly(a, f, p)
      BY <3>1 DEF Quarterly
    <3>3. StoreType' /\ ChangesTyped'
      BY <3>1 DEF StoreInv, StoreType, ChangesTyped
    <3>4. ChangesReported' /\ ExitsGone'
      BY <3>1, <3>2 DEF StoreInv, ChangesReported, ExitsGone
    <3> QED
      BY <3>3, <3>4 DEF StoreInv
  <2>2. ASSUME NEW r \in Ref, StoreIngest(r)
        PROVE  StoreInv'
    <3>1. PICK row : Recorded(r, row)
      BY <2>2, IngestRecords
    <3>2. StoreType'
      BY StoreTypeStep DEF StoreInv
    <3> QED
      BY <3>1, <3>2, StoreInvStep DEF StoreInv
  <2> QED
    BY <2>1, <2>2 DEF StoreNext
<1> QED
  BY <1>1, <1>2, PTL DEF StoreSpec

=============================================================================
