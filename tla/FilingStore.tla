---------------------------- MODULE FilingStore ----------------------------
(***************************************************************************)
(* What the ingest pipeline promises, as seen through the database: a      *)
(* filing is ingested by one indivisible step, at most once, together with *)
(* its child rows, the filer's latest filing date and, for a 13F, the      *)
(* holding_change rows of its period computed from the filer's filings,    *)
(* this one included.  Module Ingest is the pipeline that implements it.   *)
(***************************************************************************)
EXTENDS Filings

VARIABLES filing,   \* filing[a]: the committed filing row of accession a
          latest,   \* latest[f]: filer f's latest_filing_at, 0 for NULL
          change    \* change[<<f, p>>]: the holding_change rows of filer f, period p

storeVars == <<filing, latest, change>>

StoreInit ==
  /\ filing = [a \in Accession |-> NoRow]
  /\ latest = [f \in Cik |-> 0]
  /\ change = [x \in Cik \X Period |-> {}]

\* Only a 13F with a period has its changes computed.
HasDiff(row) == row.fam = "13F" /\ row.period # NoPeriod

\* A mutant: the changes are computed before the child rows are inserted.
RecordDiffFirst(r, row) ==
  LET own == FiledBy(filing, r.cik)
  IN  /\ filing[r.acc] = NoRow
      /\ HasDiff(row) => ~Overflows(own, row.period)
      /\ filing' = [filing EXCEPT ![r.acc] = row]
      /\ latest' = [latest EXCEPT ![r.cik] = row.filed]
      /\ change' = IF HasDiff(row)
                     THEN [change EXCEPT ![<<r.cik, row.period>>] =
                             ComputeChanges(own, row.period)]
                     ELSE change

\* A mutant: compute_changes does not clear what it computed before.
RecordKeepsRows(r, row) ==
  LET filings == [filing EXCEPT ![r.acc] = row]
      own     == FiledBy(filings, r.cik)
  IN  /\ filing[r.acc] = NoRow
      /\ HasDiff(row) => ~Overflows(own, row.period)
      /\ filing' = filings
      /\ latest' = [latest EXCEPT ![r.cik] = row.filed]
      /\ change' = IF HasDiff(row)
                     THEN [change EXCEPT ![<<r.cik, row.period>>] =
                             @ \cup ComputeChanges(own, row.period)]
                     ELSE change

Record(r, row) ==
  LET filings == [filing EXCEPT ![r.acc] = row]
      own     == FiledBy(filings, r.cik)
  IN  /\ filing[r.acc] = NoRow
      /\ HasDiff(row) => ~Overflows(own, row.period)
      /\ filing' = filings
      /\ latest' = [latest EXCEPT ![r.cik] = row.filed]
      /\ change' = IF HasDiff(row)
                     THEN [change EXCEPT ![<<r.cik, row.period>>] =
                             ComputeChanges(own, row.period)]
                     ELSE change

StoreIngest(r) ==
  /\ FamilyOf(r.acc) # Unsupported
  /\ \E o \in Fetched(r) : Record(r, StoredFiling(r, o))

StoreNext == \E r \in Ref : StoreIngest(r)

StoreSpec == StoreInit /\ [][StoreNext]_storeVars

-----------------------------------------------------------------------------
(* Properties of the promise itself. *)

\* The rows c are what compute_changes would write now for the filings T.
Fresh(T, p, c) == c = ComputeChanges(T, p)

\* Periods for which there is a 13F among the filings T.
Reported(T) ==
  {T[a].period : a \in {b \in DOMAIN T : T[b].fam = "13F"}} \ {NoPeriod}

\* docs/ARCHITECTURE.md: holding_change "is the derived quarter-over-quarter
\* diff" of the holdings: for every reported period the rows agree with the
\* holdings in the database.  Does not hold: nothing recomputes the following
\* period when an earlier one is ingested late.
ChangesFresh ==
  \A f \in Cik :
    LET T == FiledBy(filing, f)
    IN  \A p \in Reported(T) : Fresh(T, p, change[<<f, p>>])

\* The only way the rows of a reported period go stale: a filing for the period
\* they compare with (or for one that becomes it) is ingested afterwards.  In
\* particular a period's first filing and its amendments leave it fresh, and
\* filings of other filers, of later periods and of other forms disturb nothing.
\* (A step that moves neither table cannot; it is left out for the checker's sake.)
StaleOnlyByLatePrior ==
  [][~UNCHANGED <<filing, change>> =>
     \A f \in Cik :
       LET T == FiledBy(filing, f)
           U == FiledBy(filing', f)
       IN  \A p \in Reported(U) :
             \/ Fresh(U, p, change'[<<f, p>>])
             \/ p \in Reported(T) /\ ~Fresh(T, p, change[<<f, p>>])
             \/ \E a \in DOMAIN U \ DOMAIN T :
                  U[a].fam = "13F" /\ U[a].period = PriorPeriod(U, p)]_storeVars

\* The rows say how the holdings prev became the holdings cur: adding the deltas
\* to the previous shares gives the current shares of every security, NEW and EXIT
\* mean exactly appearing and disappearing, and a security without a row did not move.
Describes(rows, prev, cur) ==
  /\ \A r \in rows : r.security \in DOMAIN prev \cup DOMAIN cur
  /\ \A k \in DOMAIN prev \cup DOMAIN cur :
       LET Of == {r \in rows : r.security = k}
       IN  /\ Held(cur, k).shares =
                Held(prev, k).shares + SumFunctionOnSet([r \in rows |-> r.shares_delta], Of)
           /\ (\E r \in Of : r.action = "NEW") <=>
                Held(prev, k).shares = 0 /\ Held(cur, k).shares > 0
           /\ (\E r \in Of : r.action = "EXIT") <=>
                Held(prev, k).shares > 0 /\ Held(cur, k).shares = 0

\* The holding_change rows that are on record describe a move that was really made,
\* even when they have gone stale: to the holdings of all the filings the quarter
\* has by now, amendments included, from those of the quarter the rows name as the
\* previous one, in some of the filings it has by now (the ones that were there),
\* or from nothing when they name none.
SharesReplay ==
  \A f \in Cik :
    LET T == FiledBy(filing, f)
    IN  \A p \in Reported(T) :
          \E q \in Reported(T) \cup {NoPeriod} :
            \E B \in SUBSET {a \in DOMAIN T : T[a].fam = "13F" /\ T[a].period = q} :
              /\ q < p /\ (B = {} <=> q = NoPeriod)
              /\ \A r \in change[<<f, p>>] : r.prev_period = q
              /\ Describes(change[<<f, p>>],
                           PositionsForPeriod([a \in B |-> T[a]], q),
                           PositionsForPeriod(T, p))

=============================================================================
