------------------------------- MODULE Diff -------------------------------
(***************************************************************************)
(* backend/app/ingest/diff.py: the quarter-over-quarter comparison of a    *)
(* 13F filer's positions.  Everything here is a function of one filer's    *)
(* committed (or own, uncommitted) filings T, a function from accession    *)
(* numbers to filing rows                                                  *)
(*     [cik, fam, filed, period, lines]                                    *)
(* in which `lines' is the sequence of child rows, each with the key of    *)
(* its security, a number of shares and a value.  A period is a positive   *)
(* integer (a quarter-end date in order); NoPeriod is SQL's NULL.          *)
(***************************************************************************)
EXTENDS Integers, Sequences, FiniteSetsExt, Functions

CONSTANTS NoRow,      \* stands for "the table has no such row"
          PctLimit    \* pct_change NUMERIC(12,4) holds |x| < PctLimit

ASSUME PctLimitAssumption == PctLimit \in Nat \ {0}

NoPeriod == 0

\* The rows of the filing table F that belong to filer f.
FiledBy(F, f) ==
  [a \in {b \in DOMAIN F : F[b] # NoRow /\ F[b].cik = f} |-> F[a]]

Nothing == [shares |-> 0, value |-> 0]

\* Shares and value per security, summed over all the filings for period p
\* (an amendment can split a position).  Only 13F filings own holding rows.
PositionsForPeriod(T, p) ==
  LET filings == {a \in DOMAIN T : T[a].fam = "13F" /\ T[a].period = p}
      rows    == UNION {{a} \X DOMAIN T[a].lines : a \in filings}
      At(h)   == T[h[1]].lines[h[2]]
      Of(k)   == {h \in rows : At(h).key = k}
  IN  [k \in {At(h).key : h \in rows} |->
         [shares |-> SumFunctionOnSet([h \in rows |-> At(h).shares], Of(k)),
          value  |-> SumFunctionOnSet([h \in rows |-> At(h).value], Of(k))]]

\* The most recent 13F period before p, with or without holding rows.
PriorPeriod(T, p) ==
  LET before == {q \in {T[a].period : a \in {b \in DOMAIN T : T[b].fam = "13F"}} :
                   q # NoPeriod /\ q < p}
  IN  IF before = {} THEN NoPeriod ELSE Max(before)

\* What compute_changes compares p with: {} when there is no prior period.
PreviousPositions(T, p) ==
  LET prior == PriorPeriod(T, p)
  IN  IF prior = NoPeriod THEN <<>> ELSE PositionsForPeriod(T, prior)

Held(positions, k) == IF k \in DOMAIN positions THEN positions[k] ELSE Nothing

\* A mutant: the direction of the move is tested first.
ClassifyDirectionFirst(prev, cur) ==
  IF cur > prev THEN "ADD" ELSE IF cur < prev THEN "TRIM" ELSE "HOLD"

Classify(prev, cur) ==
  CASE prev = 0 /\ cur > 0             -> "NEW"
    [] cur = 0 /\ prev > 0             -> "EXIT"
    [] cur > prev /\ prev # 0          -> "ADD"
    [] cur < prev /\ cur # 0           -> "TRIM"
    [] cur = prev                      -> "HOLD"

\* The holding_change rows compute_changes leaves for one filer and period.
ComputeChanges(T, p) ==
  LET current  == PositionsForPeriod(T, p)
      previous == PreviousPositions(T, p)
      Row(k)   == [security     |-> k,
                   prev_period  |-> PriorPeriod(T, p),
                   action       |-> Classify(Held(previous, k).shares,
                                             Held(current, k).shares),
                   shares_delta |-> Held(current, k).shares - Held(previous, k).shares,
                   value_delta  |-> Held(current, k).value - Held(previous, k).value]
  IN  {row \in {Row(k) : k \in DOMAIN current \cup DOMAIN previous} :
         row.action # "HOLD"}

\* The INSERT of a row fails when its percentage does not fit the column.
Overflows(T, p) ==
  LET current  == PositionsForPeriod(T, p)
      previous == PreviousPositions(T, p)
      Delta(k) == Held(current, k).shares - previous[k].shares
  IN  \E k \in DOMAIN previous :
        /\ previous[k].shares # 0
        /\ \/ Delta(k) * 100 >= PctLimit * previous[k].shares
           \/ -Delta(k) * 100 >= PctLimit * previous[k].shares

=============================================================================
