----------------------------- MODULE DiffProofs -----------------------------
(***************************************************************************)
(* Lemmas about the data of modules Filings and Diff, for any filings: what*)
(* the handlers read is well-typed, and what the quarter-over-quarter      *)
(* comparison computes from a filer's filings depends only on those of the *)
(* period and of the one before it, and replays the positions.             *)
(***************************************************************************)
EXTENDS Filings, Sums

-----------------------------------------------------------------------------
(* Filings. *)

LEMMA SecurityKeyType ==
  ASSUME NEW r \in SecurityRef
  PROVE  SecurityKey(r) \in Key
BY TextAssumption DEF SecurityKey, Key, SecurityRef, Column, Value

LEMMA ChildRowType ==
  ASSUME NEW line \in Line
  PROVE  ChildRow(line) \in [key : Key, shares : Nat, value : Nat, txns : Seq(Nat)]
BY SecurityKeyType DEF ChildRow, Line

LEMMA StakeLineType ==
  ASSUME NEW line \in Line, NEW n \in Value, NEW b \in BOOLEAN,
         NEW cover, cover = [line.ref EXCEPT !["name"] = IF @ = None THEN n ELSE @],
         NEW issuer, issuer = IF b THEN cover ELSE [cover EXCEPT !["issuer"] = None]
  PROVE  [line EXCEPT !.ref = issuer] \in Line
<1>1. line.ref \in [Column -> Value]
  BY DEF Line, SecurityRef
<1>2. cover \in [Column -> Value]
  BY <1>1 DEF Column
<1>3. issuer \in [Column -> Value]
  BY <1>2 DEF Column, Value
<1> QED
  BY <1>3 DEF Line, SecurityRef

LEMMA EmptyType == Empty \in Outcome
<1>1. <<>> \in Seq(Line)
  OBVIOUS
<1> QED
  BY <1>1 DEF Empty, Outcome

LEMMA FetchedType ==
  ASSUME NEW r \in Ref, NEW o \in Fetched(r)
  PROVE  o \in Outcome
<1> DEFINE d == Doc[r.acc]
<1>1. d \in [ciks : SUBSET Cik, names : SUBSET Value, form : STRING,
             filed : Nat \ {0}, period : Period \cup {NoPeriod}, main : BOOLEAN,
             table : BOOLEAN, lines : Seq(Line)]
  BY DocAssumption DEF Ref
<1>2. Empty \in Outcome
  BY EmptyType
<1>3. Handle13F(d) \in Outcome
  BY <1>1 DEF Handle13F, Outcome
<1>4. HandleOwnership(d) \in Outcome
  BY <1>1, <1>2 DEF HandleOwnership, Outcome
<1>5. HandleNport(d) \in Outcome
  BY <1>1, <1>2 DEF HandleNport, Outcome
<1>6. ASSUME NEW b \in BOOLEAN
      PROVE  HandleStake(d, r.name, b) \in Outcome
  <2> DEFINE Cover(ref_1)  == [ref_1 EXCEPT !["name"] = IF @ = None THEN r.name ELSE @]
             Issuer(ref_1) == IF b THEN ref_1 ELSE [ref_1 EXCEPT !["issuer"] = None]
             ls == [i \in DOMAIN d.lines |-> [d.lines[i] EXCEPT !.ref = Issuer(Cover(@))]]
  <2>1. r.name \in Value
    BY DEF Ref
  <2>2. ASSUME NEW i \in DOMAIN d.lines
        PROVE  [d.lines[i] EXCEPT !.ref = Issuer(Cover(@))] \in Line
    <3>1. d.lines[i] \in Line
      BY <1>1
    <3> QED
      BY <3>1, <2>1, StakeLineType DEF Line
  <2>3. ls \in Seq(Line)
    <3>1. DOMAIN d.lines = 1..Len(d.lines) /\ Len(d.lines) \in Nat
      BY <1>1
    <3>2. ls \in [1..Len(d.lines) -> Line]
      BY <2>2, <3>1
    <3> QED
      BY <3>1, <3>2
  <2>4. d.main => HandleStake(d, r.name, b) = [period |-> d.period, lines |-> ls]
    BY DEF HandleStake
  <2>5. ~d.main => HandleStake(d, r.name, b) = Empty
    BY DEF HandleStake
  <2>6. CASE d.main
    <3> HIDE DEF ls
    <3>1. d.period \in Period \cup {NoPeriod}
      BY <1>1
    <3> QED
      BY <2>3, <2>4, <2>6, <3>1 DEF Outcome
  <2>7. CASE ~d.main
    BY <1>2, <2>5, <2>7
  <2> QED
    BY <2>6, <2>7
<1> QED
  BY <1>3, <1>4, <1>5, <1>6 DEF Fetched, Family

LEMMA ChildRowsType ==
  ASSUME NEW o \in Outcome, NEW n \in 0..Len(o.lines)
  PROVE  /\ ChildRows(o.lines, n) \in Seq([key : Key, shares : Nat, value : Nat, txns : Seq(Nat)])
         /\ Len(ChildRows(o.lines, n)) = n
<1>1. ASSUME NEW i \in 1..n
      PROVE  ChildRow(o.lines[i]) \in [key : Key, shares : Nat, value : Nat, txns : Seq(Nat)]
  BY ChildRowType DEF Outcome
<1>2. n \in Nat
  BY DEF Outcome
<1> DEFINE c == [i \in 1..n |-> ChildRow(o.lines[i])]
<1>3. c \in [1..n -> [key : Key, shares : Nat, value : Nat, txns : Seq(Nat)]]
  BY <1>1
<1>4. c \in Seq([key : Key, shares : Nat, value : Nat, txns : Seq(Nat)]) /\ Len(c) = n
  BY <1>2, <1>3
<1> QED
  BY <1>4 DEF ChildRows

LEMMA NoChildRows ==
  ASSUME NEW lines
  PROVE  ChildRows(lines, 0) = <<>>
<1>1. 1..0 = {}
  OBVIOUS
<1> QED
  BY <1>1 DEF ChildRows

LEMMA FilingUpdate ==
  ASSUME NEW r, NEW p, NEW rows, NEW q, NEW more, NEW row, row = FilingWith(r, p, rows)
  PROVE  /\ [row EXCEPT !.lines = more] = FilingWith(r, p, more)
         /\ [row EXCEPT !.period = q] = FilingWith(r, q, rows)
BY DEF FilingWith

LEMMA ChildRowsGrow ==
  ASSUME NEW o \in Outcome, NEW n \in 1..Len(o.lines)
  PROVE  Append(ChildRows(o.lines, n - 1), ChildRow(o.lines[n])) = ChildRows(o.lines, n)
<1> DEFINE c == ChildRows(o.lines, n - 1)
           a == Append(c, ChildRow(o.lines[n]))
<1>1. Len(o.lines) \in Nat
  BY DEF Outcome
<1>2. /\ c \in Seq([key : Key, shares : Nat, value : Nat, txns : Seq(Nat)])
      /\ Len(c) = n - 1
  <2>1. n - 1 \in 0..Len(o.lines)
    BY <1>1
  <2> QED
    BY <2>1, ChildRowsType, Zenon
<1>3. \A i \in 1..(n - 1) : c[i] = ChildRow(o.lines[i])
  BY DEF ChildRows
<1>4. /\ a = [i \in 1..n |-> a[i]]
      /\ \A i \in 1..n : a[i] = IF i = n THEN ChildRow(o.lines[n]) ELSE c[i]
  <2>1. ChildRow(o.lines[n]) \in [key : Key, shares : Nat, value : Nat, txns : Seq(Nat)]
    BY <1>1, ChildRowType DEF Outcome
  <2> HIDE DEF c
  <2>2. /\ a \in Seq([key : Key, shares : Nat, value : Nat, txns : Seq(Nat)])
        /\ Len(a) = n
        /\ \A i \in 1..n : a[i] = IF i = n THEN ChildRow(o.lines[n]) ELSE c[i]
    BY <1>1, <1>2, <2>1
  <2> HIDE DEF a
  <2> QED
    BY <2>2
<1> HIDE DEF c, a
<1>5. \A i \in 1..n : a[i] = ChildRow(o.lines[i])
  BY <1>1, <1>3, <1>4
<1>6. a = ChildRows(o.lines, n)
  BY <1>4, <1>5 DEF ChildRows
<1> QED
  BY <1>6 DEF c, a

\* What compute_changes reads of the filing table are the filer's rows only.
LEMMA FiledByOther ==
  ASSUME NEW F, NEW G, NEW f,
         F = [a \in Accession |-> F[a]], G = [a \in Accession |-> G[a]],
         \A a \in Accession : (F[a] # NoRow /\ F[a].cik = f) <=> (G[a] # NoRow /\ G[a].cik = f),
         \A a \in Accession : F[a] # NoRow /\ F[a].cik = f => F[a] = G[a]
  PROVE  FiledBy(F, f) = FiledBy(G, f)
<1>1. {b \in DOMAIN F : F[b] # NoRow /\ F[b].cik = f} =
      {b \in DOMAIN G : G[b] # NoRow /\ G[b].cik = f}
  BY Zenon
<1> QED
  BY <1>1 DEF FiledBy

-----------------------------------------------------------------------------
(* Positions. *)

\* A filer's filings as the database has them.
FilerFilings(T) == IsFiniteSet(DOMAIN T) /\ \A a \in DOMAIN T : T[a] \in FilingVersion

LEMMA FilerFilingsType ==
  ASSUME NEW F \in [Accession -> FilingVersion \cup {NoRow}], NEW f
  PROVE  /\ FilerFilings(FiledBy(F, f))
         /\ DOMAIN FiledBy(F, f) = {a \in Accession : F[a] # NoRow /\ F[a].cik = f}
         /\ \A a \in DOMAIN FiledBy(F, f) : FiledBy(F, f)[a] = F[a]
<1>1. DOMAIN FiledBy(F, f) = {a \in Accession : F[a] # NoRow /\ F[a].cik = f}
  BY DEF FiledBy
<1>2. \A a \in DOMAIN FiledBy(F, f) : FiledBy(F, f)[a] = F[a]
  BY DEF FiledBy
<1>3. IsFiniteSet(DOMAIN FiledBy(F, f))
  BY <1>1, DocAssumption, FS_Subset
<1> QED
  BY <1>1, <1>2, <1>3 DEF FilerFilings

\* The filings that PositionsForPeriod joins, and their child rows.
For(T, p)         == {a \in DOMAIN T : T[a].fam = "13F" /\ T[a].period = p}
HoldingRows(T, p) == UNION {{a} \X DOMAIN T[a].lines : a \in For(T, p)}
LineAt(T, h)      == T[h[1]].lines[h[2]]
KeyRows(T, p, k)   == {h \in HoldingRows(T, p) : LineAt(T, h).key = k}

LEMMA PositionsAre ==
  ASSUME NEW T, NEW p
  PROVE  PositionsForPeriod(T, p) =
           [k \in {LineAt(T, h).key : h \in HoldingRows(T, p)} |->
              [shares |-> SumFunctionOnSet([h \in HoldingRows(T, p) |-> LineAt(T, h).shares],
                                           KeyRows(T, p, k)),
               value  |-> SumFunctionOnSet([h \in HoldingRows(T, p) |-> LineAt(T, h).value],
                                           KeyRows(T, p, k))]]
BY DEF PositionsForPeriod, HoldingRows, LineAt, KeyRows, For

LEMMA HoldingRowsType ==
  ASSUME NEW T, FilerFilings(T), NEW p
  PROVE  /\ IsFiniteSet(HoldingRows(T, p))
         /\ \A h \in HoldingRows(T, p) :
              /\ h[1] \in For(T, p) /\ h[2] \in DOMAIN T[h[1]].lines
              /\ LineAt(T, h) \in [key : Key, shares : Nat, value : Nat, txns : Seq(Nat)]
<1> DEFINE Own(a) == {a} \X DOMAIN T[a].lines
           owns   == {Own(a) : a \in For(T, p)}
<1>1. \A a \in For(T, p) : /\ T[a].lines \in Seq([key : Key, shares : Nat, value : Nat, txns : Seq(Nat)])
                           /\ DOMAIN T[a].lines = 1..Len(T[a].lines)
                           /\ Len(T[a].lines) \in Nat
  <2> SUFFICES ASSUME NEW a \in For(T, p)
               PROVE  /\ T[a].lines \in Seq([key : Key, shares : Nat, value : Nat, txns : Seq(Nat)])
                      /\ DOMAIN T[a].lines = 1..Len(T[a].lines)
                      /\ Len(T[a].lines) \in Nat
    OBVIOUS
  <2>1. T[a].lines \in Seq([key : Key, shares : Nat, value : Nat, txns : Seq(Nat)])
    BY DEF FilerFilings, FilingVersion, For
  <2> QED
    BY <2>1
<1>2. IsFiniteSet(owns)
  <2> DEFINE own == [a \in For(T, p) |-> Own(a)]
  <2>1. IsFiniteSet(For(T, p))
    BY FS_Subset DEF For, FilerFilings
  <2>2. {own[a] : a \in For(T, p)} = owns
    OBVIOUS
  <2> HIDE DEF own, owns
  <2>3. IsFiniteSet({own[a] : a \in For(T, p)})
    BY <2>1, ImageFinite
  <2> QED
    BY <2>2, <2>3
<1>3. \A o \in owns : IsFiniteSet(o)
  <2> SUFFICES ASSUME NEW a \in For(T, p) PROVE IsFiniteSet(Own(a))
    OBVIOUS
  <2>1. IsFiniteSet(1..Len(T[a].lines))
    BY <1>1, FS_Interval
  <2>2. IsFiniteSet(DOMAIN T[a].lines)
    BY <1>1, <2>1
  <2> QED
    BY <2>2, FS_Singleton, FS_Product
<1>4. IsFiniteSet(HoldingRows(T, p))
  BY <1>2, <1>3, FS_UNION DEF HoldingRows
<1>5. ASSUME NEW h \in HoldingRows(T, p)
      PROVE  h[1] \in For(T, p) /\ h[2] \in DOMAIN T[h[1]].lines
  <2>1. PICK a \in For(T, p) : h \in Own(a)
    BY DEF HoldingRows
  <2> QED
    BY <2>1
<1>6. ASSUME NEW h \in HoldingRows(T, p)
      PROVE  LineAt(T, h) \in [key : Key, shares : Nat, value : Nat, txns : Seq(Nat)]
  <2> DEFINE Row == [key : Key, shares : Nat, value : Nat, txns : Seq(Nat)]
             lines == T[h[1]].lines
  <2>1. lines \in Seq(Row) /\ h[2] \in DOMAIN lines
    BY <1>1, <1>5
  <2> HIDE DEF Row, lines
  <2>2. lines[h[2]] \in Row
    BY <2>1
  <2> QED
    BY <2>2 DEF LineAt, lines, Row
<1> QED
  BY <1>4, <1>5, <1>6

\* A filing's line is a row of its period's.
LEMMA LineIsRow ==
  ASSUME NEW T, NEW p, NEW a \in For(T, p), NEW i \in DOMAIN T[a].lines
  PROVE  <<a, i>> \in KeyRows(T, p, T[a].lines[i].key)
BY DEF HoldingRows, KeyRows, LineAt

LEMMA PositionsType ==
  ASSUME NEW T, FilerFilings(T), NEW p
  PROVE  \A k \in DOMAIN PositionsForPeriod(T, p) :
           PositionsForPeriod(T, p)[k] \in [shares : Nat, value : Nat]
<1> DEFINE rows == HoldingRows(T, p)
           s    == [h \in rows |-> LineAt(T, h).shares]
           v    == [h \in rows |-> LineAt(T, h).value]
<1>1. \A h \in rows : s[h] \in Nat /\ v[h] \in Nat
  BY HoldingRowsType
<1>2. ASSUME NEW k
      PROVE  /\ SumFunctionOnSet(s, KeyRows(T, p, k)) \in Nat
             /\ SumFunctionOnSet(v, KeyRows(T, p, k)) \in Nat
  <2>1. KeyRows(T, p, k) \subseteq rows /\ IsFiniteSet(KeyRows(T, p, k))
    BY HoldingRowsType, FS_Subset DEF KeyRows
  <2> HIDE DEF s, v, rows
  <2> QED
    BY <1>1, <2>1, SumNat
<1> QED
  BY <1>2, PositionsAre

LEMMA HeldType ==
  ASSUME NEW T, FilerFilings(T), NEW p, NEW k
  PROVE  /\ Held(PositionsForPeriod(T, p), k) \in [shares : Nat, value : Nat]
         /\ Held(PreviousPositions(T, p), k) \in [shares : Nat, value : Nat]
<1>1. Held(<<>>, k) \in [shares : Nat, value : Nat]
  BY DEF Held, Nothing
<1>2. ASSUME NEW q
      PROVE  Held(PositionsForPeriod(T, q), k) \in [shares : Nat, value : Nat]
  BY PositionsType DEF Held, Nothing
<1> QED
  BY <1>1, <1>2 DEF PreviousPositions

\* A position without shares has no line with shares.
LEMMA NothingHeld ==
  ASSUME NEW T, FilerFilings(T), NEW p, NEW k, Held(PositionsForPeriod(T, p), k).shares = 0,
         NEW h \in KeyRows(T, p, k)
  PROVE  LineAt(T, h).shares = 0
<1> DEFINE rows == HoldingRows(T, p)
           s    == [g \in rows |-> LineAt(T, g).shares]
<1>1. h \in rows /\ k \in {LineAt(T, g).key : g \in rows}
  BY DEF KeyRows
<1>2. SumFunctionOnSet(s, KeyRows(T, p, k)) = 0
  BY <1>1, PositionsAre DEF Held
<1>3. \A g \in KeyRows(T, p, k) : s[g] \in Nat
  BY HoldingRowsType DEF KeyRows
<1>4. IsFiniteSet(KeyRows(T, p, k))
  BY HoldingRowsType, FS_Subset DEF KeyRows
<1>5. s[h] = LineAt(T, h).shares /\ s[h] \in Nat
  BY <1>1, <1>3
<1> HIDE DEF s
<1>6. s[h] <= 0
  BY <1>2, <1>3, <1>4, SumAtLeast
<1> QED
  BY <1>5, <1>6

\* Positions depend on the 13F filings for the period only.
LEMMA PositionsSame ==
  ASSUME NEW T, NEW U, NEW p, For(T, p) = For(U, p), \A a \in For(T, p) : T[a] = U[a]
  PROVE  PositionsForPeriod(T, p) = PositionsForPeriod(U, p)
<1>1. HoldingRows(T, p) = HoldingRows(U, p)
  BY DEF HoldingRows
<1>2. \A h \in HoldingRows(T, p) : LineAt(T, h) = LineAt(U, h)
  BY DEF HoldingRows, LineAt
<1>3. \A k : KeyRows(T, p, k) = KeyRows(U, p, k)
  BY <1>1, <1>2 DEF KeyRows
<1>4. {LineAt(T, h).key : h \in HoldingRows(T, p)} = {LineAt(U, h).key : h \in HoldingRows(U, p)}
  BY <1>1, <1>2
<1>5. /\ [h \in HoldingRows(T, p) |-> LineAt(T, h).shares] =
           [h \in HoldingRows(U, p) |-> LineAt(U, h).shares]
      /\ [h \in HoldingRows(T, p) |-> LineAt(T, h).value] =
           [h \in HoldingRows(U, p) |-> LineAt(U, h).value]
  BY <1>1, <1>2
<1> QED
  BY <1>3, <1>4, <1>5, PositionsAre

-----------------------------------------------------------------------------
(* The period before. *)

\* The dated periods of T's 13F filings before p.
Before(T, p) ==
  {q \in {T[a].period : a \in {b \in DOMAIN T : T[b].fam = "13F"}} : q # NoPeriod /\ q < p}

LEMMA PriorIs ==
  ASSUME NEW T, FilerFilings(T), NEW p
  PROVE  /\ Before(T, p) \in SUBSET Nat
         /\ Before(T, p) = {} => PriorPeriod(T, p) = NoPeriod
         /\ Before(T, p) # {} => /\ PriorPeriod(T, p) \in Before(T, p)
                                 /\ \A q \in Before(T, p) : q <= PriorPeriod(T, p)
<1>1. PriorPeriod(T, p) = IF Before(T, p) = {} THEN NoPeriod ELSE Max(Before(T, p))
  BY DEF PriorPeriod, Before
<1> DEFINE all == {T[a].period : a \in {b \in DOMAIN T : T[b].fam = "13F"}}
<1>2. all \in SUBSET Nat
  <2>1. \A a \in DOMAIN T : T[a].period \in Period \cup {NoPeriod}
    BY DEF FilerFilings, FilingVersion
  <2>2. Period \cup {NoPeriod} \subseteq Nat
    BY DocAssumption DEF NoPeriod
  <2> QED
    BY <2>1, <2>2
<1>3. IsFiniteSet(all)
  <2> DEFINE quarterly == {b \in DOMAIN T : T[b].fam = "13F"}
             period    == [a \in quarterly |-> T[a].period]
  <2>1. IsFiniteSet(quarterly)
    BY FS_Subset DEF FilerFilings
  <2>2. IsFiniteSet({period[a] : a \in quarterly})
    BY <2>1, ImageFinite, Zenon
  <2>3. {period[a] : a \in quarterly} = all
    OBVIOUS
  <2> QED
    BY <2>2, <2>3
<1>4. Before(T, p) \in SUBSET all
  BY DEF Before
<1>5. Before(T, p) \in SUBSET Int /\ Before(T, p) \in SUBSET Nat /\ IsFiniteSet(Before(T, p))
  BY <1>2, <1>3, <1>4, FS_Subset
<1> QED
  BY <1>1, <1>5, MaxOfFinite

\* The only filing of U that T has not changes the comparison for another period
\* only if it is a 13F for the period before that one.
LEMMA ChangesSame ==
  ASSUME NEW T, FilerFilings(T), NEW U, FilerFilings(U), NEW b,
         DOMAIN U = DOMAIN T \cup {b}, b \notin DOMAIN T, \A a \in DOMAIN T : U[a] = T[a],
         NEW p \in Nat,
         U[b].fam = "13F" => U[b].period # p /\ U[b].period # PriorPeriod(U, p)
  PROVE  ComputeChanges(U, p) = ComputeChanges(T, p)
<1>1. ASSUME NEW q, U[b].fam = "13F" => U[b].period # q
      PROVE  PositionsForPeriod(U, q) = PositionsForPeriod(T, q)
  <2>1. For(U, q) = For(T, q) /\ \A a \in For(U, q) : U[a] = T[a]
    BY <1>1 DEF For
  <2> QED
    BY <2>1, PositionsSame
<1>2. PriorPeriod(U, p) = PriorPeriod(T, p)
  <2>1. Before(T, p) \subseteq Before(U, p)
    BY DEF Before
  <2>2. \A q \in Before(U, p) \ Before(T, p) : U[b].fam = "13F" /\ q = U[b].period
    BY DEF Before
  <2>3. CASE Before(U, p) = {}
    BY <2>1, <2>3, PriorIs
  <2>4. CASE Before(U, p) # {}
    <3>1. /\ PriorPeriod(U, p) \in Before(U, p)
          /\ \A q \in Before(U, p) : q <= PriorPeriod(U, p)
      BY <2>4, PriorIs
    <3>2. PriorPeriod(U, p) \in Before(T, p)
      BY <2>2, <3>1
    <3>3. /\ PriorPeriod(T, p) \in Before(T, p)
          /\ \A q \in Before(T, p) : q <= PriorPeriod(T, p)
      BY <3>2, PriorIs
    <3>4. PriorPeriod(U, p) \in Nat /\ PriorPeriod(T, p) \in Nat
      BY <3>2, <3>3, PriorIs
    <3> QED
      BY <2>1, <3>1, <3>2, <3>3, <3>4
  <2> QED
    BY <2>3, <2>4
<1>3. PositionsForPeriod(U, p) = PositionsForPeriod(T, p)
  BY <1>1
<1>4. PreviousPositions(U, p) = PreviousPositions(T, p)
  BY <1>1, <1>2 DEF PreviousPositions
<1> QED
  BY <1>2, <1>3, <1>4 DEF ComputeChanges

-----------------------------------------------------------------------------
(* What the rows of holding_change say. *)

\* The row for security k, kept unless it is a HOLD.
Change(T, p, k) ==
  LET current  == Held(PositionsForPeriod(T, p), k)
      previous == Held(PreviousPositions(T, p), k)
  IN  [security     |-> k,
       prev_period  |-> PriorPeriod(T, p),
       action       |-> Classify(previous.shares, current.shares),
       shares_delta |-> current.shares - previous.shares,
       value_delta  |-> current.value - previous.value]

Compared(T, p) == DOMAIN PositionsForPeriod(T, p) \cup DOMAIN PreviousPositions(T, p)

LEMMA ChangesAre ==
  ASSUME NEW T, NEW p
  PROVE  ComputeChanges(T, p) =
           {row \in {Change(T, p, k) : k \in Compared(T, p)} : row.action # "HOLD"}
BY DEF ComputeChanges, Change, Compared

LEMMA Classified ==
  ASSUME NEW prev \in Nat, NEW cur \in Nat
  PROVE  /\ Classify(prev, cur) \in {"NEW", "EXIT", "ADD", "TRIM", "HOLD"}
         /\ Classify(prev, cur) = "NEW" <=> prev = 0 /\ cur > 0
         /\ Classify(prev, cur) = "EXIT" <=> prev > 0 /\ cur = 0
         /\ Classify(prev, cur) = "HOLD" <=> prev = cur
BY DEF Classify

\* Each compared security has its row, unless its shares are the same as before.
LEMMA ChangesOf ==
  ASSUME NEW T, FilerFilings(T), NEW p, NEW k \in Compared(T, p)
  PROVE  {row \in ComputeChanges(T, p) : row.security = k} =
           IF Held(PositionsForPeriod(T, p), k).shares = Held(PreviousPositions(T, p), k).shares
             THEN {} ELSE {Change(T, p, k)}
<1>1. \A l : Change(T, p, l).security = l
  BY DEF Change
<1>2. Change(T, p, k).action = "HOLD" <=>
        Held(PositionsForPeriod(T, p), k).shares = Held(PreviousPositions(T, p), k).shares
  BY HeldType, Classified DEF Change
<1> QED
  BY <1>1, <1>2, ChangesAre

=============================================================================
