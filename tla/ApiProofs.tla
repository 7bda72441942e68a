----------------------------- MODULE ApiProofs -----------------------------
(***************************************************************************)
(* Proofs about module Api, for any filings, any order of their ingest and *)
(* any requests: the database beside the requests is the store, and what   *)
(* the requests of a page show agrees, although every statement of theirs  *)
(* sees another database.                                                  *)
(***************************************************************************)
EXTENDS Api, StoreProofs, SequenceTheorems

-----------------------------------------------------------------------------
(* Data. *)

\* A reference discovered under one company and name is known by its filing.
LEMMA HistoryType ==
  ASSUME offered \in Offers, NEW r \in Discovered, NEW form,
         NEW refs \in FilerHistory(r.cik, form, r.name)
  PROVE  refs \in Seq(Discovered)
<1> DEFINE R == {q \in Discovered : q.cik = r.cik /\ q.name = r.name /\ Doc[q.acc].form = form}
           g == [q \in R |-> q.acc]
<1>1. Discovered \subseteq Ref
  BY ApiAssumption, DocAssumption DEF Discovered, Ref
<1>2. \A q \in R : q \in Ref /\ q = [acc |-> q.acc, cik |-> r.cik, name |-> r.name]
  BY <1>1 DEF Ref
<1>3. g \in Injection(R, Accession)
  BY <1>2 DEF Injection, Ref, IsInjective
<1>4. IsFiniteSet(R)
  BY <1>3, DocAssumption, FS_Injection
<1>5. Cardinality(R) \in Nat
  BY <1>4, FS_CardinalityType
<1>6. refs \in [1..Cardinality(R) -> R]
  BY DEF FilerHistory, SetToSeqs
<1>7. R \subseteq Discovered
  OBVIOUS
<1> HIDE DEF R
<1> QED
  BY <1>5, <1>6, <1>7

\* The period of a stored filing is a date or NULL.
LEMMA StoredPeriod ==
  ASSUME NEW r \in Ref, NEW o \in Fetched(r)
  PROVE  StoredFiling(r, o).period \in Date
<1>1. Doc[r.acc].period \in Date
  BY DocAssumption DEF Ref, Date
<1> QED
  BY <1>1 DEF Fetched, StoredFiling, FilingWith, Handle13F, HandleOwnership, HandleNport,
              HandleStake, Empty, Date

-----------------------------------------------------------------------------
(* The invariant. *)

\* Only filings that exist are in the table, and their periods are dates or NULL.
FilingTyped ==
  /\ filing = [a \in Accession |-> filing[a]]
  /\ \A a \in Committed : filing[a].period \in Date

WorldInv ==
  /\ FilingTyped
  /\ offered \in Offers
  /\ queue \in Seq(Discovered)

\* A request is a record of these fields.
Shape ==
  request.at # "idle" =>
    request = [op |-> request.op, of |-> request.of, asked |-> request.asked,
               at |-> request.at, seen |-> request.seen, period |-> request.period,
               name |-> request.name, keys |-> request.keys, answer |-> request.answer]

SeenCommitted == request.at # "idle" => request.seen \subseteq Committed

\* What the page shows is still in the table.
PageRows == page # NoPage => page.holdings \subseteq RowsFor("13F", page.of, page.period)

\* The quarter selector is asked for the filer of the page.
PageFollowed ==
  request.at # "idle" /\ request.op = "periods" => page # NoPage /\ request.of = page.of

HoldersListed ==
  Answered("holders") => \A f \in DOMAIN request.answer : request.answer[f] \in ChildTable("13F")

\* The period chosen for the request is no older than what the request has seen.
LatestResolved ==
  /\ At("detail", "rows") /\ request.asked = NoPeriod =>
       \A p \in SeenPeriods("13F", request.of) : p <= request.period
  /\ At("funds", "rows") /\ request.asked = NoPeriod =>
       \A h \in FiledRows("NPORT", request.of) :
         h[1] \in request.seen /\ FilingOf(h).period # NoPeriod =>
           RowsFor("NPORT", request.of, request.period) # {}

PageInv   == PageRows /\ PageFollowed /\ PeriodsAgree
HolderInv == HoldersListed /\ HoldersComplete
LatestInv == LatestResolved /\ LatestShown
ReadInv   == Shape /\ SeenCommitted /\ PageInv /\ HolderInv /\ LatestInv
ApiInv    == WorldInv /\ ReadInv

LEMMA InitApi == Init => ApiInv
<1> SUFFICES ASSUME Init PROVE ApiInv
  OBVIOUS
<1>1. request.at = "idle" /\ page = NoPage
  BY DEF Init
<1>2. Committed = {}
  BY DEF Init, StoreInit, Committed
<1>3. FilingTyped
  BY <1>2 DEF FilingTyped, Init, StoreInit
<1>4. offered \in Offers /\ queue \in Seq(Discovered)
  BY DEF Init
<1> QED
  BY <1>1, <1>3, <1>4 DEF ApiInv, WorldInv, ReadInv, Shape, SeenCommitted, PageInv, PageRows,
     PageFollowed, PeriodsAgree, HolderInv, HoldersListed, HoldersComplete, LatestInv,
     LatestResolved, LatestShown, Answered, At

-----------------------------------------------------------------------------
(* The database. *)

\* What is committed stays as it is.
Growing == \A a \in Committed : a \in Committed' /\ filing'[a] = filing[a]

LEMMA RecordGrows ==
  ASSUME FilingTyped, NEW r \in Ref, Ingest(r)
  PROVE  FilingTyped' /\ Growing
<1>1. PICK o \in Fetched(r) : Record(r, StoredFiling(r, o))
  BY DEF Ingest
<1>2. r.acc \in Accession /\ filing[r.acc] = NoRow
  BY <1>1 DEF Ref, Record
<1>3. filing' = [filing EXCEPT ![r.acc] = StoredFiling(r, o)]
  BY <1>1 DEF Record
<1>4. filing' = [a \in Accession |-> filing'[a]]
  BY <1>3 DEF FilingTyped
<1>5. \A a \in Accession : a # r.acc => filing'[a] = filing[a]
  BY <1>3 DEF FilingTyped
<1>6. filing'[r.acc] = StoredFiling(r, o)
  BY <1>2, <1>3 DEF FilingTyped
<1>7. Growing
  BY <1>2, <1>5 DEF Growing, Committed
<1>8. \A a \in Committed' : filing'[a].period \in Date'
  BY <1>5, <1>6, StoredPeriod DEF FilingTyped, Committed, Date
<1> QED
  BY <1>4, <1>7, <1>8 DEF FilingTyped

LEMMA DiscoveredType ==
  ASSUME offered \in Offers
  PROVE  Discovered \subseteq Ref
BY ApiAssumption, DocAssumption DEF Discovered, Ref

LEMMA WorldStays ==
  ASSUME WorldInv, UNCHANGED <<tables, offered, queue>>
  PROVE  WorldInv'
<1>1. Discovered' = Discovered /\ Date' = Date
  BY DEF Discovered, Date
<1> QED
  BY <1>1 DEF WorldInv, FilingTyped, Committed, tables

\* Ingest and its background job: the tables grow, the requests stay.
LEMMA WorldStep ==
  ASSUME WorldInv, IngestElsewhere \/ Job
  PROVE  WorldInv' /\ Growing /\ UNCHANGED <<page, request>>
<1> USE DEF WorldInv
<1>0. offered' = offered => Discovered' = Discovered
  BY DEF Discovered
<1>1. CASE IngestElsewhere
  <2>1. PICK r \in Ref : Ingest(r)
    BY <1>1, DiscoveredType DEF IngestElsewhere
  <2> QED
    BY <1>0, <1>1, <2>1, RecordGrows DEF Ingest, IngestElsewhere
<1>2. CASE JobIngests
  <2>1. queue \in Seq(Discovered) /\ queue # <<>>
    BY <1>2 DEF JobIngests
  <2>2. Head(queue) \in Discovered /\ Tail(queue) \in Seq(Discovered)
    BY <2>1
  <2>3. Head(queue) \in Ref
    BY <2>2, DiscoveredType
  <2> QED
    BY <1>0, <1>2, <2>2, <2>3, RecordGrows DEF Ingest, JobIngests
<1>3. ASSUME UNCHANGED <<tables, offered, page, request>>, queue' \in Seq(Discovered)
      PROVE  WorldInv' /\ Growing /\ UNCHANGED <<page, request>>
  BY <1>0, <1>3 DEF tables, FilingTyped, Committed, Growing, Date
<1>4. CASE Trigger
  <2>1. PICK r \in Discovered : TriggerIngest(r.cik, Doc[r.acc].form, r.name)
    BY <1>4 DEF Trigger
  <2>2. PICK refs \in FilerHistory(r.cik, Doc[r.acc].form, r.name) :
          queue' = SubSeq(refs, 1, Min({HistoryLimit, Len(refs)}))
    BY <2>1 DEF TriggerIngest
  <2>3. refs \in Seq(Discovered)
    BY <2>2, HistoryType
  <2>4. Min({HistoryLimit, Len(refs)}) \in 0..Len(refs)
    <3>1. HistoryLimit \in Nat /\ Len(refs) \in Nat
      BY <2>3, ApiAssumption
    <3>2. \E x \in {HistoryLimit, Len(refs)} : \A y \in {HistoryLimit, Len(refs)} : x =< y
      BY <3>1
    <3>3. /\ Min({HistoryLimit, Len(refs)}) \in {HistoryLimit, Len(refs)}
          /\ Min({HistoryLimit, Len(refs)}) =< Len(refs)
      BY <3>2 DEF Min
    <3> QED
      BY <3>1, <3>3
  <2>5. queue' \in Seq(Discovered)
    <3> DEFINE m == Min({HistoryLimit, Len(refs)})
    <3> HIDE DEF m
    <3>1. m \in Int /\ \A i \in 1..m : refs[i] \in Discovered
      <4>1. m \in 0..Len(refs)
        BY <2>4 DEF m
      <4>2. Len(refs) \in Nat /\ \A i \in 1..Len(refs) : refs[i] \in Discovered
        BY <2>3
      <4> QED
        BY <4>1, <4>2
    <3>2. SubSeq(refs, 1, m) \in Seq(Discovered)
      BY <3>1, SubSeqProperties
    <3> QED
      BY <2>2, <3>2 DEF m
  <2> QED
    BY <1>3, <2>1, <2>5 DEF TriggerIngest
<1>5. CASE JobSkips
  BY <1>3, <1>5 DEF JobSkips
<1>6. CASE JobDies
  BY <1>3, <1>6 DEF JobDies
<1> QED
  BY <1>1, <1>2, <1>4, <1>5, <1>6 DEF Job

\* What is read of a committed filing stays as well.
LEMMA RowsStay ==
  ASSUME Growing
  PROVE  /\ \A fam : \A h \in ChildTable(fam) :
              h \in ChildTable(fam)' /\ FilingOf(h)' = FilingOf(h) /\ KeyOf(h)' = KeyOf(h)
         /\ \A fam : \A h \in ChildTable(fam)' : h[1] \in Committed =>
              h \in ChildTable(fam) /\ FilingOf(h)' = FilingOf(h) /\ KeyOf(h)' = KeyOf(h)
         /\ \A fam : \A h \in ChildTable(fam) : h[1] \in Committed
BY DEF Growing, ChildTable, FilingOf, KeyOf, Committed

\* A transaction is a place in a line of a Form 3/4/5.
Txn(t) ==
  /\ t = <<t[1], t[2], t[3]>> /\ <<t[1], t[2]>> \in ChildTable("OWNERSHIP")
  /\ t[3] \in DOMAIN filing[t[1]].lines[t[2]].txns

LEMMA TxnIs ==
  ASSUME NEW t
  PROVE  /\ t \in InsiderTxn <=> Txn(t)
         /\ t \in InsiderTxn' <=> Txn(t)'
         /\ KeyOf(t) = KeyOf(<<t[1], t[2]>>) /\ KeyOf(t)' = KeyOf(<<t[1], t[2]>>)'
<1>1. t \in InsiderTxn <=> Txn(t)
  <2>1. \A h \in ChildTable("OWNERSHIP") : h = <<h[1], h[2]>>
    BY DEF ChildTable
  <2> QED
    BY <2>1 DEF InsiderTxn, Txn, FilingOf
<1>2. t \in InsiderTxn' <=> Txn(t)'
  <2>1. \A h \in ChildTable("OWNERSHIP")' : h = <<h[1], h[2]>>
    BY DEF ChildTable
  <2> QED
    BY <2>1 DEF InsiderTxn, Txn, FilingOf
<1> QED
  BY <1>1, <1>2 DEF KeyOf, FilingOf

LEMMA TxnsStay ==
  ASSUME Growing
  PROVE  /\ InsiderTxn \subseteq InsiderTxn'
         /\ \A t \in InsiderTxn : KeyOf(t)' = KeyOf(t) /\ TxnDate(t)' = TxnDate(t)
         /\ \A t \in InsiderTxn' : t[1] \in Committed => t \in InsiderTxn
<1>1. \A a \in Accession : a \in Committed => filing'[a] = filing[a]
  BY DEF Growing
<1>2. \A h \in ChildTable("OWNERSHIP") : h[1] \in Accession /\ h[1] \in Committed
  BY DEF ChildTable, Committed
<1>3. ASSUME NEW t \in InsiderTxn
      PROVE  /\ Txn(t)' /\ KeyOf(t)' = KeyOf(t) /\ TxnDate(t)' = TxnDate(t)
  <2>1. Txn(t)
    BY TxnIs
  <2>2. filing'[t[1]] = filing[t[1]]
    BY <1>1, <1>2, <2>1 DEF Txn
  <2>3. <<t[1], t[2]>> \in ChildTable("OWNERSHIP")'
    BY <2>1, RowsStay DEF Txn
  <2> QED
    BY <2>1, <2>2, <2>3 DEF Txn, KeyOf, TxnDate, FilingOf
<1>4. ASSUME NEW t \in InsiderTxn', t[1] \in Committed
      PROVE  Txn(t)
  <2>1. Txn(t)'
    BY TxnIs
  <2>2. filing'[t[1]] = filing[t[1]]
    BY <1>1, <1>4 DEF Committed
  <2>3. <<t[1], t[2]>> \in ChildTable("OWNERSHIP")
    BY <1>4, <2>1, RowsStay DEF Txn
  <2> QED
    BY <2>1, <2>2, <2>3 DEF Txn
<1> QED
  BY <1>3, <1>4, TxnIs

\* A list holds every row, or is full of rows that do not rank below the others.
LEMMA TopIs ==
  ASSUME NEW rank, NEW A \in Top(rank, ListLimit)
  PROVE  /\ A \subseteq DOMAIN rank
         /\ DOMAIN rank # {} => A # {}
         /\ \A x \in DOMAIN rank :
              x \in A \/ (Cardinality(A) = ListLimit /\ \A h \in A : rank[x] <= rank[h])
<1>1. Cardinality({}) = 0 /\ ListLimit # 0
  BY FS_EmptySet, ApiAssumption
<1> QED
  BY <1>1 DEF Top

-----------------------------------------------------------------------------
(* What a request reads. *)

\* Ingest disturbs nothing that a request has found out.
LEMMA GrowthKeepsReads ==
  ASSUME ReadInv, Growing, UNCHANGED <<page, request>>
  PROVE  ReadInv'
<1> USE DEF ReadInv
<1>1. Shape'
  BY DEF Shape
<1>2. SeenCommitted'
  BY DEF SeenCommitted, Growing
<1>3. PageInv'
  <2>1. \A fam, f, p : RowsFor(fam, f, p) \subseteq RowsFor(fam, f, p)'
    BY RowsStay DEF RowsFor, FiledRows
  <2> QED
    BY <2>1 DEF PageInv, PageRows, PageFollowed, PeriodsAgree, Answered
<1>4. HolderInv'
  <2>1. HoldersListed'
    BY RowsStay DEF HolderInv, HoldersListed, Answered
  <2>2. ASSUME Answered("holders"), NEW h \in ChildTable("13F")',
               h[1] \in request.seen, KeyOf(h)' \in request.keys,
               NEW own, own = filing[h[1]].cik
        PROVE  /\ FilingOf(h)' = FilingOf(h) /\ own \in DOMAIN request.answer
               /\ filing'[request.answer[own][1]].period >= FilingOf(h).period
    <3>1. h \in ChildTable("13F") /\ FilingOf(h)' = FilingOf(h) /\ KeyOf(h)' = KeyOf(h)
      BY <2>2, RowsStay DEF SeenCommitted, Answered
    <3>2. /\ own \in DOMAIN request.answer
          /\ FilingOf(request.answer[own]).period >= FilingOf(h).period
      BY <2>2, <3>1 DEF HolderInv, HoldersComplete, FilingOf
    <3>3. request.answer[own] \in ChildTable("13F")
      BY <2>2, <3>2 DEF HolderInv, HoldersListed
    <3> QED
      BY <3>1, <3>2, <3>3, RowsStay DEF FilingOf
  <2>3. HoldersComplete'
    BY <2>2 DEF HoldersComplete, Answered, FilingOf
  <2> QED
    BY <2>1, <2>3 DEF HolderInv
<1>5. LatestInv'
  <2>1. \A fam, f : request.at # "idle" => SeenPeriods(fam, f)' = SeenPeriods(fam, f)
    BY DEF SeenCommitted, SeenPeriods, Growing
  <2>2. \A h, f : request.at # "idle" /\ h[1] \in request.seen /\ h \in FiledRows("NPORT", f)' =>
          h \in FiledRows("NPORT", f) /\ FilingOf(h)' = FilingOf(h)
    BY RowsStay DEF FiledRows, SeenCommitted
  <2>3. \A f, p : RowsFor("NPORT", f, p) # {} => RowsFor("NPORT", f, p)' # {}
    BY RowsStay DEF RowsFor, FiledRows
  <2> QED
    BY <2>1, <2>2, <2>3 DEF LatestInv, LatestResolved, LatestShown, Answered, At
<1> QED
  BY <1>1, <1>2, <1>3, <1>4, <1>5

\* A new request has seen what is committed and has no answer yet.
LEMMA SendKeepsReads ==
  ASSUME ReadInv, UNCHANGED tables, NEW op, NEW of, NEW asked, Send(op, of, asked),
         \/ op # "periods" /\ page' = NoPage
         \/ page # NoPage /\ of = page.of /\ UNCHANGED page
  PROVE  ReadInv'
<1>1. /\ request'.at = "resolve" /\ request'.op = op /\ request'.of = of
      /\ request'.seen = Committed
  BY DEF Send
<1>2. Shape'
  BY DEF Send, Shape
<1>3. Committed' = Committed
  BY DEF tables, Committed
<1>4. PageRows' /\ PageFollowed'
  BY <1>1 DEF ReadInv, PageInv, PageRows, PageFollowed, RowsFor, FiledRows, ChildTable,
              FilingOf, tables
<1> QED
  BY <1>1, <1>2, <1>3, <1>4 DEF ReadInv, SeenCommitted, PageInv, PeriodsAgree, HolderInv,
     HoldersListed, HoldersComplete, LatestInv, LatestResolved, LatestShown, Answered, At

LEMMA BrowseStep ==
  ASSUME ApiInv, Browse
  PROVE  ApiInv'
<1>1. UNCHANGED <<tables, offered, queue>>
  BY DEF Browse, OpenPage, Follow, OpenSecurity
<1>2. WorldInv'
  BY <1>1, WorldStays DEF ApiInv
<1>3. ASSUME NEW f \in Cik, NEW p \in Period \cup {NoPeriod}, OpenPage(f, p)
      PROVE  ReadInv'
  <2>1. Send("detail", f, p) /\ page' = NoPage
    BY <1>3 DEF OpenPage
  <2> QED
    BY <1>1, <2>1, SendKeepsReads DEF ApiInv
<1>4. ASSUME NEW op \in {"periods", "changes", "funds", "stakes", "issuer"}, Follow(op)
      PROVE  ReadInv'
  <2>1. PICK asked : Send(op, page.of, asked)
    BY <1>4 DEF Follow
  <2>2. page # NoPage /\ UNCHANGED page
    BY <1>4 DEF Follow
  <2> QED
    BY <1>1, <2>1, <2>2, SendKeepsReads DEF ApiInv
<1>5. ASSUME NEW c \in Text, OpenSecurity(c)
      PROVE  ReadInv'
  <2>1. Send("holders", c, NoPeriod) /\ page' = NoPage
    BY <1>5 DEF OpenSecurity
  <2> QED
    BY <1>1, <2>1, SendKeepsReads DEF ApiInv
<1> QED
  BY <1>2, <1>3, <1>4, <1>5 DEF Browse, ApiInv

-----------------------------------------------------------------------------
(* The statements. *)

LEMMA DatesAreNumbers == Date \subseteq Nat
<1>1. Period \subseteq Nat
  BY DocAssumption
<1> QED
  BY <1>1 DEF Date, NoPeriod

\* The period chosen from a nonempty set of filings is that of one of them, and the newest.
LEMMA NewestOf ==
  ASSUME FilingTyped, NEW A \in SUBSET Committed, A # {},
         NEW S, S = {filing[a].period : a \in A}
  PROVE  LatestOf(S) \in S /\ \A a \in A : filing[a].period <= LatestOf(S)
<1>1. S \in SUBSET Int /\ S # {}
  <2>1. \A a \in A : filing[a].period \in Nat
    BY DatesAreNumbers DEF FilingTyped
  <2> QED
    BY <2>1
<1>2. IsFiniteSet(A)
  BY DocAssumption, FS_Subset DEF Committed
<1>3. IsFiniteSet(S)
  <2> DEFINE g == [a \in A |-> filing[a].period]
  <2>1. {g[a] : a \in A} = S
    OBVIOUS
  <2> HIDE DEF g
  <2>2. IsFiniteSet({g[a] : a \in A})
    BY <1>2, ImageFinite
  <2> QED
    BY <2>1, <2>2
<1>4. Max(S) \in S /\ \A y \in S : y <= Max(S)
  BY <1>1, <1>3, MaxOfFinite
<1> QED
  BY <1>1, <1>4 DEF LatestOf, Newest

LEMMA PeriodResolved ==
  ASSUME WorldInv, ReadInv, ResolvePeriod
  PROVE  LatestResolved'
<1> DEFINE f == request.of
<1>1. /\ request.at = "period"
      /\ request' = [request EXCEPT !.period = LatestPeriod(request.op, f), !.at = "rows"]
      /\ UNCHANGED tables
  BY DEF ResolvePeriod, Only
<1>2. /\ request'.op = request.op /\ request'.of = f /\ request'.seen = request.seen
      /\ request'.period = LatestPeriod(request.op, f)
  BY <1>1 DEF ReadInv, Shape
<1>3. request.seen \subseteq Committed
  BY <1>1 DEF ReadInv, SeenCommitted
<1>4. ASSUME request.op = "detail", NEW p \in SeenPeriods("13F", f)
      PROVE  p <= LatestPeriod("detail", f)
  <2> DEFINE A == {b \in Accession : filing[b] # NoRow /\ filing[b].cik = f /\ filing[b].fam = "13F"}
             S == {filing[a].period : a \in A}
  <2>1. PICK a \in A : p = filing[a].period
    BY <1>3, <1>4 DEF SeenPeriods, Committed
  <2>2. A \subseteq Committed
    BY DEF Committed
  <2>3. filing[a].period <= LatestOf(S)
    BY <2>1, <2>2, NewestOf DEF WorldInv
  <2>4. LatestPeriod("detail", f) = LatestOf(S)
    BY DEF LatestPeriod
  <2> QED
    BY <2>1, <2>3, <2>4
<1>5. ASSUME request.op = "funds", NEW h \in FiledRows("NPORT", f), FilingOf(h).period # NoPeriod
      PROVE  RowsFor("NPORT", f, LatestPeriod("funds", f)) # {}
  <2> DEFINE A == {k[1] : k \in FiledRows("NPORT", f)}
             S == {filing[a].period : a \in A}
             p == LatestOf(S)
  <2>1. A \subseteq Committed /\ h[1] \in A
    BY DEF Committed, FiledRows, ChildTable
  <2>2. p \in S /\ filing[h[1]].period <= p
    BY <2>1, NewestOf DEF WorldInv
  <2>3. PICK k \in FiledRows("NPORT", f) : filing[k[1]].period = p
    BY <2>2
  <2>4. p # NoPeriod
    <3>1. filing[h[1]].period \in Nat /\ filing[h[1]].period # 0
      BY <1>5, <2>1, DatesAreNumbers DEF FilingOf, WorldInv, FilingTyped, NoPeriod
    <3>2. p \in Nat
      BY <2>1, <2>2, DatesAreNumbers DEF WorldInv, FilingTyped
    <3> QED
      BY <2>2, <3>1, <3>2 DEF NoPeriod
  <2>5. k \in RowsFor("NPORT", f, p)
    BY <2>3, <2>4 DEF RowsFor, FilingOf
  <2>6. S = {FilingOf(k_1).period : k_1 \in FiledRows("NPORT", f)}
    BY DEF FilingOf
  <2>7. LatestPeriod("funds", f) = p
    BY <2>6 DEF LatestPeriod
  <2> QED
    BY <2>5, <2>7
<1>6. /\ SeenPeriods("13F", f)' = SeenPeriods("13F", f)
      /\ FiledRows("NPORT", f)' = FiledRows("NPORT", f)
      /\ \A p : RowsFor("NPORT", f, p)' = RowsFor("NPORT", f, p)
      /\ \A h : FilingOf(h)' = FilingOf(h)
  BY <1>1, <1>2 DEF SeenPeriods, RowsFor, FiledRows, ChildTable, FilingOf, tables
<1> QED
  BY <1>2, <1>4, <1>5, <1>6 DEF LatestResolved, At

\* The first request of a page: what is shown is what is in the table.
LEMMA DetailStep ==
  ASSUME WorldInv, ReadInv, Detail
  PROVE  ReadInv'
<1> DEFINE rows == RowsFor("13F", request.of, request.period)
<1>1. /\ request.at = "rows" /\ request.op = "detail"
      /\ request' = [request EXCEPT !.at = "answered",
                                    !.answer = [period |-> request.period, holdings |-> rows]]
      /\ page'.of = request.of /\ page'.period = request.period /\ page'.holdings = rows
      /\ UNCHANGED tables
  BY DEF Detail, At, Answer
<1>2. /\ request'.at = "answered" /\ request'.op = "detail" /\ request'.of = request.of
      /\ request'.asked = request.asked /\ request'.seen = request.seen
      /\ request'.answer.period = request.period
  BY <1>1 DEF ReadInv, Shape
<1>3. Shape'
  BY <1>1 DEF ReadInv, Shape
<1>4. SeenCommitted'
  BY <1>1, <1>2 DEF ReadInv, SeenCommitted, Committed, tables
<1>5. PageInv'
  BY <1>1, <1>2 DEF PageInv, PageRows, PageFollowed, PeriodsAgree, Answered, RowsFor, FiledRows,
                    ChildTable, FilingOf, tables
<1>6. HolderInv'
  BY <1>2 DEF HolderInv, HoldersListed, HoldersComplete, Answered
<1>7. LatestInv'
  BY <1>1, <1>2 DEF ReadInv, LatestInv, LatestResolved, LatestShown, Answered, At, SeenPeriods, tables
<1> QED
  BY <1>3, <1>4, <1>5, <1>6, <1>7 DEF ReadInv

\* What any other statement does: it reads, and leaves the page as it is.
Reads ==
  /\ UNCHANGED <<tables, page>> /\ request.at # "idle" /\ request'.at # "idle"
  /\ Shape'
  /\ request'.op = request.op /\ request'.of = request.of
  /\ request'.asked = request.asked /\ request'.seen = request.seen

LEMMA StatementReads ==
  ASSUME Shape, Statement, ~Detail
  PROVE  Reads
<1> USE DEF Reads, Shape, Only, Reach, Answer, At
<1>1. CASE ResolveFiler
  BY <1>1 DEF ResolveFiler
<1>2. CASE ResolvePeriod
  BY <1>2 DEF ResolvePeriod
<1>3. CASE ResolveSecurity
  BY <1>3 DEF ResolveSecurity
<1>4. CASE Periods
  BY <1>4 DEF Periods
<1>5. CASE Changes
  BY <1>5 DEF Changes
<1>6. CASE FundHoldings
  BY <1>6 DEF FundHoldings
<1>7. CASE StakesHeld
  BY <1>7 DEF StakesHeld
<1>8. CASE Holders
  BY <1>8 DEF Holders
<1>9. CASE IssuerActivity
  BY <1>9 DEF IssuerActivity
<1>10. CASE InsiderTxns \/ StakesIn
  BY <1>10 DEF InsiderTxns, StakesIn
<1>11. CASE TopHolders
  BY <1>11 DEF TopHolders
<1> QED
  BY <1>1, <1>2, <1>3, <1>4, <1>5, <1>6, <1>7, <1>8, <1>9, <1>10, <1>11 DEF Statement

LEMMA ReadsKeep ==
  ASSUME ReadInv, Reads
  PROVE  /\ Shape' /\ SeenCommitted' /\ PageRows' /\ PageFollowed'
         /\ \A fam : ChildTable(fam)' = ChildTable(fam)
         /\ \A fam, f : SeenPeriods(fam, f)' = SeenPeriods(fam, f)
         /\ \A fam, f : FiledRows(fam, f)' = FiledRows(fam, f)
         /\ \A fam, f, p : RowsFor(fam, f, p)' = RowsFor(fam, f, p)
         /\ \A h : FilingOf(h)' = FilingOf(h) /\ KeyOf(h)' = KeyOf(h)
         /\ InsiderTxn' = InsiderTxn /\ \A t : TxnDate(t)' = TxnDate(t)
BY DEF ReadInv, Reads, SeenCommitted, Committed, PageInv, PageRows, PageFollowed,
       SeenPeriods, RowsFor, FiledRows, ChildTable, FilingOf, KeyOf, InsiderTxn, TxnDate, tables

\* The quarter selector lists the quarter shown, with what is shown of it.
LEMMA PeriodsListed ==
  ASSUME WorldInv, ReadInv, Statement, ~Detail
  PROVE  PeriodsAgree'
<1>1. Reads
  BY StatementReads DEF ReadInv
<1>2. CASE Periods
  <2> DEFINE RowsOf(p) == RowsFor("13F", request.of, p)
             outs      == {[period |-> p, holdings |-> RowsOf(p)] :
                             p \in {q \in Period : RowsOf(q) # {}}}
  <2>1. request.op = "periods" /\ request.at # "idle" /\ request'.answer = outs
    BY <1>2 DEF Periods, At, Answer, ReadInv, Shape
  <2>2. page # NoPage /\ request.of = page.of /\ page.holdings \subseteq RowsOf(page.period)
    BY <2>1 DEF ReadInv, PageInv, PageFollowed, PageRows
  <2>3. ASSUME page.holdings # {} PROVE page.period \in Period
    <3>1. PICK h \in page.holdings : TRUE
      BY <2>3
    <3>2. /\ h[1] \in Committed /\ filing[h[1]].period = page.period /\ page.period # NoPeriod
      BY <2>2, <3>1 DEF RowsFor, FiledRows, ChildTable, FilingOf, Committed
    <3> QED
      BY <3>2 DEF WorldInv, FilingTyped, Date
  <2>4. ASSUME page.holdings # {}
        PROVE  \E out \in outs : out.period = page.period /\ page.holdings \subseteq out.holdings
    <3> DEFINE shown == [period |-> page.period, holdings |-> RowsOf(page.period)]
    <3>1. shown \in outs
      BY <2>2, <2>3, <2>4
    <3> QED
      BY <2>2, <3>1
  <2> HIDE DEF outs
  <2> QED
    BY <1>1, <2>1, <2>4 DEF PeriodsAgree, Reads
<1>3. CASE ~Periods
  <2>1. ~Answered("periods")'
    BY <1>1, <1>3 DEF Answered, Reads, Statement, ResolveFiler, ResolvePeriod, ResolveSecurity,
       Changes, FundHoldings, StakesHeld, Holders, IssuerActivity, InsiderTxns, StakesIn,
       TopHolders, At, Reach, Shape, ReadInv
  <2> QED
    BY <2>1 DEF PeriodsAgree, Answered
<1> QED
  BY <1>2, <1>3

\* Every institution with a row for the security is listed with a row of its newest period.
LEMMA HoldersFound ==
  ASSUME WorldInv, ReadInv, Statement, ~Detail
  PROVE  HolderInv'
<1>1. Reads
  BY StatementReads DEF ReadInv
<1>2. CASE Holders
  <2> DEFINE rows == {h \in ChildTable("13F") : KeyOf(h) \in request.keys}
  <2>1. PICK g \in HoldersOf(request.keys) : Answer(g)
    BY <1>2 DEF Holders
  <2>2. request'.answer = g /\ request'.keys = request.keys
    BY <1>1, <2>1 DEF Reads, Answer, ReadInv, Shape
  <2>3. g \in FirstPerFiler(rows)
    BY <2>1 DEF HoldersOf
  <2>4. /\ g \in [{FilingOf(h).cik : h \in rows} -> rows]
        /\ \A f \in DOMAIN g : \A h \in rows :
             FilingOf(h).cik = f => FilingOf(h).period <= FilingOf(g[f]).period
    BY <2>3 DEF FirstPerFiler
  <2>5. \A h \in rows : h[1] \in Committed
    BY DEF ChildTable, Committed
  <2>6. \A h \in rows : FilingOf(h).period \in Nat
    BY <2>5, DatesAreNumbers DEF FilingOf, WorldInv, FilingTyped
  <2>7. \A f \in DOMAIN g : g[f] \in ChildTable("13F")
    BY <2>4
  <2>8. \A h \in rows : /\ FilingOf(h).cik \in DOMAIN g
                        /\ FilingOf(g[FilingOf(h).cik]).period >= FilingOf(h).period
    BY <2>4, <2>6
  <2>9. HoldersListed'
    BY <1>1, <2>2, <2>7, ReadsKeep DEF HoldersListed, Answered
  <2>10. \A h \in ChildTable("13F") : KeyOf(h) \in request.keys => h \in rows
    OBVIOUS
  <2> HIDE DEF rows
  <2>11. HoldersComplete'
    BY <1>1, <2>2, <2>8, <2>10, ReadsKeep DEF HoldersComplete, Answered, FilingOf
  <2> QED
    BY <2>9, <2>11 DEF HolderInv
<1>3. CASE ~Holders
  <2>1. ~Answered("holders")'
    BY <1>1, <1>3 DEF Answered, Reads, Statement, ResolveFiler, ResolvePeriod, ResolveSecurity,
       Changes, FundHoldings, StakesHeld, Periods, IssuerActivity, InsiderTxns, StakesIn,
       TopHolders, At, Reach, Shape, ReadInv
  <2> QED
    BY <2>1 DEF HolderInv, HoldersListed, HoldersComplete, Answered
<1> QED
  BY <1>2, <1>3

\* Only ResolvePeriod leads to the rows of a request without a period.
LEMMA LatestFound ==
  ASSUME WorldInv, ReadInv, Statement, ~Detail
  PROVE  LatestInv'
<1>1. Reads
  BY StatementReads DEF ReadInv
<1>2. LatestResolved'
  <2>1. CASE ResolvePeriod
    BY <2>1, PeriodResolved
  <2>2. CASE ~ResolvePeriod
    <3>1. ~(/\ request'.at = "rows" /\ request'.op \in {"detail", "funds"}
            /\ request'.asked = NoPeriod)
      BY <1>1, <2>2 DEF Reads, Statement, ResolveFiler, ResolveSecurity, Periods,
         Changes, FundHoldings, StakesHeld, Holders, IssuerActivity, InsiderTxns, StakesIn,
         TopHolders, At, Reach, Answer, Shape, ReadInv
    <3> QED
      BY <3>1 DEF LatestResolved, At
  <2> QED
    BY <2>1, <2>2
<1>3. LatestShown'
  <2>1. CASE FundHoldings
    <3> DEFINE rows == RowsFor("NPORT", request.of, request.period)
    <3>1. PICK A \in Top([h \in rows |-> FilingOf(h).lines[h[2]].value], ListLimit) : Answer(A)
      BY <2>1 DEF FundHoldings
    <3>2. At("funds", "rows") /\ request'.answer = A
      BY <1>1, <2>1, <3>1 DEF FundHoldings, Reads, Answer, At, ReadInv, Shape
    <3>3. rows # {} => A # {}
      BY <3>1, TopIs
    <3> QED
      BY <1>1, <3>2, <3>3, ReadsKeep DEF LatestShown, LatestInv, LatestResolved, ReadInv, Answered, At, Reads
  <2>2. CASE ~FundHoldings
    <3>1. ~Answered("detail")' /\ ~Answered("funds")'
      BY <1>1, <2>2 DEF Answered, Reads, Statement, ResolveFiler, ResolvePeriod, ResolveSecurity,
         Changes, Periods, StakesHeld, Holders, IssuerActivity, InsiderTxns, StakesIn,
         TopHolders, At, Reach, Shape, ReadInv
    <3> QED
      BY <3>1 DEF LatestShown, Answered
  <2> QED
    BY <2>1, <2>2
<1> QED
  BY <1>2, <1>3 DEF LatestInv

LEMMA StatementStep ==
  ASSUME ApiInv, Statement
  PROVE  ApiInv'
<1>1. UNCHANGED <<tables, offered, queue>>
  BY DEF Statement, ResolveFiler, ResolvePeriod, ResolveSecurity, Detail, Periods, Changes,
     FundHoldings, StakesHeld, Holders, IssuerActivity, InsiderTxns, StakesIn, TopHolders, Only
<1>2. WorldInv'
  BY <1>1, WorldStays DEF ApiInv
<1>3. CASE Detail
  BY <1>2, <1>3, DetailStep DEF ApiInv
<1>4. CASE ~Detail
  <2>1. Reads
    BY <1>4, StatementReads DEF ApiInv, ReadInv
  <2>2. Shape' /\ SeenCommitted' /\ PageRows' /\ PageFollowed'
    BY <2>1, ReadsKeep DEF ApiInv
  <2> QED
    BY <1>2, <1>4, <2>2, PeriodsListed, HoldersFound, LatestFound DEF ApiInv, ReadInv, PageInv
<1> QED
  BY <1>3, <1>4

-----------------------------------------------------------------------------
(* Theorems. *)

LEMMA NextApi ==
  ASSUME ApiInv, [Next]_vars
  PROVE  ApiInv'
<1>1. CASE IngestElsewhere \/ Job
  BY <1>1, WorldStep, GrowthKeepsReads DEF ApiInv
<1>2. CASE Browse
  BY <1>2, BrowseStep
<1>3. CASE Statement
  BY <1>3, StatementStep
<1>4. CASE UNCHANGED vars
  <2>1. UNCHANGED <<tables, offered, queue, page, request>>
    BY <1>4 DEF vars
  <2>2. WorldInv'
    BY <2>1, WorldStays DEF ApiInv
  <2>3. Growing
    BY <2>1 DEF Growing, Committed, tables
  <2> QED
    BY <2>1, <2>2, <2>3, GrowthKeepsReads DEF ApiInv
<1> QED
  BY <1>1, <1>2, <1>3, <1>4 DEF Next

\* The invariant: what a request has seen and chosen stays committed, and what the
\* page shows stays in the tables, whatever is ingested between its statements.
THEOREM ReadsInvariance == Spec => []ApiInv
<1> QED
  BY InitApi, NextApi, PTL DEF Spec

\* The quarter that the portfolio shows can be selected, with what is shown of it
\* (list_periods beside filer_detail), for any filings and any interleaving.
THEOREM SelectorAgrees == Spec => []PeriodsAgree
<1>1. ApiInv => PeriodsAgree
  BY DEF ApiInv, ReadInv, PageInv
<1> QED
  BY <1>1, ReadsInvariance, PTL

\* The holders of a security miss no institution whose report was there when they
\* were asked for, and show none of them older than that (_holders).
THEOREM HoldersMissNobody == Spec => []HoldersComplete
<1>1. ApiInv => HoldersComplete
  BY DEF ApiInv, ReadInv, HolderInv
<1> QED
  BY <1>1, ReadsInvariance, PTL

\* A portfolio without a period in its address is of the newest dated 13F, and a
\* filing without a period hides nothing (_latest_13f_period, fund_holdings).
THEOREM NewestPeriodShown == Spec => []LatestShown
<1>1. ApiInv => LatestShown
  BY DEF ApiInv, ReadInv, LatestInv
<1> QED
  BY <1>1, ReadsInvariance, PTL

\* Beside all the requests the database is the store: each commit is one
\* indivisible ingest of a discovered filing, by the worker or by the job that a
\* request started, and reading changes nothing.
THEOREM ApiImplementsStore == Spec => StoreSpec
<1>1. Init => StoreInit
  BY DEF Init
<1>2. ASSUME ApiInv, [Next]_vars PROVE [StoreNext]_storeVars
  <2>1. ASSUME NEW r \in Ref, Ingest(r) PROVE StoreNext
    BY <2>1 DEF Ingest, StoreNext, StoreIngest
  <2>2. CASE IngestElsewhere
    BY <1>2, <2>1, <2>2, DiscoveredType DEF IngestElsewhere, ApiInv, WorldInv
  <2>3. CASE JobIngests
    <3>1. queue \in Seq(Discovered) /\ queue # <<>>
      BY <1>2, <2>3 DEF JobIngests, ApiInv, WorldInv
    <3>2. Head(queue) \in Ref
      BY <1>2, <3>1, DiscoveredType DEF ApiInv, WorldInv
    <3> QED
      BY <2>1, <2>3, <3>2 DEF JobIngests
  <2>4. CASE Trigger \/ JobSkips \/ JobDies
    BY <2>4 DEF Trigger, TriggerIngest, JobSkips, JobDies, tables, storeVars
  <2>5. CASE Browse
    BY <2>5 DEF Browse, OpenPage, Follow, OpenSecurity, tables, storeVars
  <2>6. CASE Statement
    BY <2>6 DEF Statement, ResolveFiler, ResolvePeriod, ResolveSecurity, Detail, Periods,
       Changes, FundHoldings, StakesHeld, Holders, IssuerActivity, InsiderTxns, StakesIn,
       TopHolders, Only, tables, storeVars
  <2>7. CASE UNCHANGED vars
    BY <2>7 DEF vars, tables, storeVars
  <2> QED
    BY <1>2, <2>2, <2>3, <2>4, <2>5, <2>6, <2>7 DEF Next, Job
<1> QED
  BY <1>1, <1>2, ReadsInvariance, PTL DEF Spec, StoreSpec

-----------------------------------------------------------------------------
(* The security table after the references of some lines. *)

\* T is S with the row of key k created or enriched from ref.
Merged(S, ref, k, T) ==
  /\ DOMAIN T = DOMAIN S \cup {k}
  /\ \A l \in DOMAIN S : l # k => T[l] = S[l]
  /\ k \notin DOMAIN S => T[k] = ref
  /\ k \in DOMAIN S => T[k] = Enriched(S[k], Updates(S[k], ref), ref)

LEMMA ResolvedSecurity ==
  ASSUME NEW S, NEW ref
  PROVE  Merged(S, ref, SecurityKey(ref), GetOrCreateSecurity(S, ref))
<1> DEFINE k == SecurityKey(ref)
           T == GetOrCreateSecurity(S, ref)
<1>1. CASE k \in DOMAIN S
  <2>1. T = [S EXCEPT ![k] = Enriched(S[k], Updates(S[k], ref), ref)]
    BY <1>1 DEF GetOrCreateSecurity
  <2> HIDE DEF T, k
  <2> QED
    BY <1>1, <2>1 DEF Merged, T, k
<1>2. CASE k \notin DOMAIN S
  <2>1. T = [l \in DOMAIN S \cup {k} |-> IF l = k THEN ref ELSE S[l]]
    BY <1>2 DEF GetOrCreateSecurity, NewSecurity
  <2> HIDE DEF T, k
  <2> QED
    BY <1>2, <2>1 DEF Merged, T, k
<1> QED
  BY <1>1, <1>2

\* G gives the table after each of the first n lines.
Steps(S, lines, n, G) ==
  G = [m \in 0..n |-> IF m = 0 THEN S ELSE GetOrCreateSecurity(G[m - 1], lines[m].ref)]

LEMMA StepsAt ==
  ASSUME NEW S, NEW lines, NEW n, NEW G, Steps(S, lines, n, G), NEW m \in 0..n
  PROVE  G[m] = IF m = 0 THEN S ELSE GetOrCreateSecurity(G[m - 1], lines[m].ref)
<1> DEFINE e(i) == IF i = 0 THEN S ELSE GetOrCreateSecurity(G[i - 1], lines[i].ref)
<1>1. G = [i \in 0..n |-> e(i)]
  BY DEF Steps
<1> HIDE DEF e
<1>2. G[m] = e(m)
  BY <1>1
<1> QED
  BY <1>2 DEF e

LEMMA StepsExist ==
  ASSUME NEW S, NEW lines, NEW N \in Nat
  PROVE  \E G : Steps(S, lines, N, G)
<1> DEFINE B == {n \in Nat : ~\E G : Steps(S, lines, n, G)}
<1>1. ASSUME B # {} PROVE FALSE
  <2>1. PICK n \in B : \A m \in B : n <= m
    <3> HIDE DEF B
    <3>1. B \in SUBSET Nat
      BY DEF B
    <3> QED
      BY <1>1, <3>1, Smallest
  <2>2. CASE n = 0
    <3> DEFINE G == [m \in 0..0 |-> S]
    <3>1. G = [m \in 0..0 |-> IF m = 0 THEN S ELSE GetOrCreateSecurity(G[m - 1], lines[m].ref)]
      OBVIOUS
    <3>2. Steps(S, lines, 0, G)
      BY <3>1 DEF Steps
    <3> QED
      BY <2>1, <2>2, <3>2
  <2>3. CASE n # 0
    <3>1. n \in Nat /\ n - 1 \in Nat /\ n - 1 \notin B
      BY <2>1, <2>3
    <3>2. PICK H : Steps(S, lines, n - 1, H)
      BY <3>1
    <3> DEFINE G    == [m \in 0..n |-> IF m = n THEN GetOrCreateSecurity(H[n - 1], lines[n].ref)
                                               ELSE H[m]]
               e(m) == IF m = 0 THEN S ELSE GetOrCreateSecurity(G[m - 1], lines[m].ref)
    <3>3. ASSUME NEW m \in 0..n PROVE G[m] = e(m)
      <4>1. CASE m = n
        <5>1. n - 1 \in 0..n /\ n - 1 # n
          BY <3>1
        <5>2. G[n - 1] = H[n - 1]
          BY <5>1
        <5> QED
          BY <2>3, <4>1, <5>2
      <4>2. CASE m # n /\ m = 0
        <5>1. 0 \in 0..n - 1
          BY <3>1
        <5>2. H[0] = S
          BY <3>2, <5>1, StepsAt
        <5> QED
          BY <4>2, <5>2
      <4>3. CASE m # n /\ m # 0
        <5>1. m \in 0..n - 1 /\ m - 1 \in 0..n /\ m - 1 # n
          BY <3>1, <4>3
        <5>2. H[m] = GetOrCreateSecurity(H[m - 1], lines[m].ref)
          BY <3>2, <4>3, <5>1, StepsAt
        <5>3. G[m] = H[m] /\ G[m - 1] = H[m - 1]
          BY <4>3, <5>1
        <5> QED
          BY <4>3, <5>2, <5>3
      <4> QED
        BY <4>1, <4>2, <4>3
    <3>4. G = [m \in 0..n |-> G[m]]
      OBVIOUS
    <3> HIDE DEF G, e
    <3>5. G = [m \in 0..n |-> e(m)]
      BY <3>3, <3>4
    <3>6. Steps(S, lines, n, G)
      BY <3>5 DEF Steps, e
    <3> QED
      BY <2>1, <3>6
  <2> QED
    BY <2>2, <2>3
<1> QED
  BY <1>1

LEMMA SecuritiesSteps ==
  ASSUME NEW S, NEW lines, Len(lines) \in Nat
  PROVE  \E G : Steps(S, lines, Len(lines), G) /\ SecuritiesAfter(S, lines) = G[Len(lines)]
<1>1. SecuritiesAfter(S, lines) = (CHOOSE G : Steps(S, lines, Len(lines), G))[Len(lines)]
  BY DEF SecuritiesAfter, Steps
<1> QED
  BY <1>1, StepsExist

\* Rows of securities: a CUSIP is the one in the key.
SecurityRows(S) ==
  \A k \in DOMAIN S :
    /\ k \in Key /\ S[k] \in SecurityRef
    /\ S[k]["cusip"] # None => k = <<"CUSIP", S[k]["cusip"]>>

\* A filing that EDGAR has gives this issuer to this ticker.
Issues(ticker, issuer) ==
  \E a \in offered : \E i \in DOMAIN Doc[a].lines :
    Doc[a].lines[i].ref["ticker"] = ticker /\ Doc[a].lines[i].ref["issuer"] = issuer

\* The issuer of a security known by its CIK or by its ticker.
IssuersKnown(S) ==
  \A k \in DOMAIN S :
    S[k]["issuer"] # None =>
      /\ k[1] = "CIK" => k[2] = S[k]["issuer"]
      /\ k[1] = "TICKER" => Issues(k[2], S[k]["issuer"])

\* Nothing that identifies a security of S is gone in T.
SecuritiesKept(S, T) ==
  \A k \in DOMAIN S : k \in DOMAIN T /\ \A c \in Column : S[k][c] # None => T[k][c] = S[k][c]

\* The first n lines have their securities in T, with an issuer if they name one.
LinesResolved(lines, n, T) ==
  \A i \in 1..n :
    /\ SecurityKey(lines[i].ref) \in DOMAIN T
    /\ lines[i].ref["issuer"] # None => T[SecurityKey(lines[i].ref)]["issuer"] # None

\* What is known of a reference that a handler resolves.
Genuine(ref) ==
  /\ ref \in SecurityRef
  /\ ref["ticker"] # None /\ ref["issuer"] # None => Issues(ref["ticker"], ref["issuer"])

LEMMA ResolvedOne ==
  ASSUME NEW S, SecurityRows(S), IssuersKnown(S), NEW ref, Genuine(ref),
         NEW T, T = GetOrCreateSecurity(S, ref)
  PROVE  /\ SecurityRows(T) /\ IssuersKnown(T) /\ SecuritiesKept(S, T)
         /\ SecurityKey(ref) \in DOMAIN T
         /\ ref["issuer"] # None => T[SecurityKey(ref)]["issuer"] # None
<1> SUFFICES ASSUME NEW k, k = SecurityKey(ref)
             PROVE  /\ SecurityRows(T) /\ IssuersKnown(T) /\ SecuritiesKept(S, T)
                    /\ k \in DOMAIN T /\ (ref["issuer"] # None => T[k]["issuer"] # None)
  OBVIOUS
<1>1. /\ DOMAIN T = DOMAIN S \cup {k}
      /\ \A l \in DOMAIN S : l # k => T[l] = S[l]
      /\ k \notin DOMAIN S => T[k] = ref
      /\ k \in DOMAIN S => T[k] = Enriched(S[k], Updates(S[k], ref), ref)
  <2>1. Merged(S, ref, k, T)
    BY ResolvedSecurity
  <2> QED
    BY <2>1 DEF Merged
<1>2. /\ ref \in [Column -> Value] /\ {"cusip", "ticker", "issuer"} \subseteq Column
      /\ k \in Key
  BY SecurityKeyType DEF Genuine, SecurityRef, Column
<1>3. /\ ref["cusip"] # None => k = <<"CUSIP", ref["cusip"]>>
      /\ k[1] = "CIK" => k[2] = ref["issuer"]
      /\ k[1] = "TICKER" => k[2] = ref["ticker"] /\ ref["ticker"] # None
  BY DEF SecurityKey
<1>4. \A c \in Column : T[k][c] = IF k \in DOMAIN S /\ ~(ref[c] # None /\ S[k][c] = None)
                                    THEN S[k][c] ELSE ref[c]
  BY <1>1 DEF Enriched, Updates
<1>5. T[k] \in [Column -> Value]
  BY <1>1, <1>2 DEF SecurityRows, SecurityRef, Enriched, Updates
<1>6. T[k]["cusip"] # None => k = <<"CUSIP", T[k]["cusip"]>>
  BY <1>2, <1>3, <1>4 DEF SecurityRows
<1>7. T[k]["issuer"] # None =>
        /\ k[1] = "CIK" => k[2] = T[k]["issuer"]
        /\ k[1] = "TICKER" => Issues(k[2], T[k]["issuer"])
  BY <1>2, <1>3, <1>4 DEF IssuersKnown, Genuine
<1>8. SecurityRows(T)
  BY <1>1, <1>2, <1>5, <1>6 DEF SecurityRows, SecurityRef
<1>9. IssuersKnown(T)
  BY <1>1, <1>7 DEF IssuersKnown
<1>10. SecuritiesKept(S, T)
  BY <1>1, <1>4 DEF SecuritiesKept
<1>11. ref["issuer"] # None => T[k]["issuer"] # None
  BY <1>2, <1>4
<1> QED
  BY <1>1, <1>8, <1>9, <1>10, <1>11

LEMMA ResolvedLines ==
  ASSUME NEW S, SecurityRows(S), IssuersKnown(S), NEW lines, Len(lines) \in Nat,
         \A i \in 1..Len(lines) : Genuine(lines[i].ref), NEW T, T = SecuritiesAfter(S, lines)
  PROVE  /\ SecurityRows(T) /\ IssuersKnown(T) /\ SecuritiesKept(S, T)
         /\ LinesResolved(lines, Len(lines), T)
<1>1. PICK G : Steps(S, lines, Len(lines), G) /\ T = G[Len(lines)]
  BY SecuritiesSteps
<1> DEFINE Good(n) == /\ SecurityRows(G[n]) /\ IssuersKnown(G[n]) /\ SecuritiesKept(S, G[n])
                      /\ LinesResolved(lines, n, G[n])
           B == {n \in 0..Len(lines) : ~Good(n)}
<1>2. ASSUME B # {} PROVE FALSE
  <2>1. PICK n \in B : \A m \in B : n <= m
    <3> HIDE DEF B
    <3>1. B \in SUBSET Nat
      BY DEF B
    <3> QED
      BY <1>2, <3>1, Smallest
  <2>2. CASE n = 0
    <3>1. G[0] = S
      BY <1>1, StepsAt
    <3>2. SecuritiesKept(S, S) /\ LinesResolved(lines, 0, S)
      BY DEF SecuritiesKept, LinesResolved
    <3> QED
      BY <2>1, <2>2, <3>1, <3>2
  <2>3. CASE n # 0
    <3>1. /\ n - 1 \in 0..Len(lines) /\ n \in 0..Len(lines) /\ n \in 1..Len(lines)
          /\ n - 1 \in Nat /\ 1..n = (1..n - 1) \cup {n}
      BY <2>1, <2>3
    <3>2. Good(n - 1) /\ ~Good(n)
      BY <2>1, <3>1
    <3>3. G[n] = GetOrCreateSecurity(G[n - 1], lines[n].ref)
      BY <1>1, <2>3, <3>1, StepsAt
    <3>4. /\ SecurityRows(G[n]) /\ IssuersKnown(G[n]) /\ SecuritiesKept(G[n - 1], G[n])
          /\ SecurityKey(lines[n].ref) \in DOMAIN G[n]
          /\ lines[n].ref["issuer"] # None => G[n][SecurityKey(lines[n].ref)]["issuer"] # None
      BY <3>1, <3>2, <3>3, ResolvedOne
    <3>5. SecuritiesKept(S, G[n])
      BY <3>2, <3>4 DEF SecuritiesKept
    <3>6. LinesResolved(lines, n, G[n])
      <4>1. "issuer" \in Column
        BY DEF Column
      <4> QED
        BY <3>1, <3>2, <3>4, <4>1 DEF LinesResolved, SecuritiesKept
    <3> QED
      BY <3>2, <3>4, <3>5, <3>6
  <2> QED
    BY <2>2, <2>3
<1>3. Good(Len(lines))
  BY <1>2
<1> QED
  BY <1>1, <1>3

-----------------------------------------------------------------------------
(* The tables beside the requests. *)

\* Stored Forms 3/4/5 are among those EDGAR has, and the securities they name are
\* in the table with their issuers.
TradesStored ==
  \A a \in Accession : filing[a] # NoRow /\ filing[a].fam = "OWNERSHIP" =>
    /\ a \in offered /\ FamilyOf(a) = "OWNERSHIP"
    /\ \A i \in DOMAIN filing[a].lines :
         /\ i \in DOMAIN Doc[a].lines
         /\ filing[a].lines[i].key = SecurityKey(Doc[a].lines[i].ref)
         /\ filing[a].lines[i].key \in DOMAIN security
         /\ Doc[a].lines[i].ref["issuer"] # None =>
              security[filing[a].lines[i].key]["issuer"] # None

TablesInv ==
  /\ SecurityRows(security) /\ IssuersKnown(security)
  /\ named \in [Cik -> Value]
  /\ TradesStored

LEMMA Elements ==
  ASSUME NEW S, NEW s \in Seq(S)
  PROVE  /\ Len(s) \in Nat /\ DOMAIN s = 1..Len(s)
         /\ \A i \in DOMAIN s : s[i] \in S
OBVIOUS

\* What the handlers resolve is what the filing says, less what a stake may lack.
LEMMA FetchedLines ==
  ASSUME NEW r \in Ref, NEW o \in Fetched(r)
  PROVE  /\ Len(o.lines) \in Nat
         /\ \A i \in 1..Len(o.lines) :
              LET ref == Doc[r.acc].lines[i].ref
              IN  /\ o.lines[i].ref \in SecurityRef /\ i \in DOMAIN Doc[r.acc].lines
                  /\ o.lines[i].ref["ticker"] = ref["ticker"]
                  /\ o.lines[i].ref["issuer"] \in {None, ref["issuer"]}
                  /\ FamilyOf(r.acc) = "OWNERSHIP" => o.lines[i].ref = ref
<1> DEFINE d == Doc[r.acc]
           Said(ls) ==
             \A i \in DOMAIN ls :
               /\ i \in DOMAIN d.lines
               /\ ls[i].ref["ticker"] = d.lines[i].ref["ticker"]
               /\ ls[i].ref["issuer"] \in {None, d.lines[i].ref["issuer"]}
               /\ FamilyOf(r.acc) = "OWNERSHIP" => ls[i].ref = d.lines[i].ref
<1>1. o \in Outcome
  BY FetchedType
<1>2. d.lines \in Seq(Line)
  BY DocAssumption DEF Ref
<1>3. Said(d.lines) /\ Said(<<>>)
  OBVIOUS
<1>4. ASSUME NEW n \in Value, NEW b \in BOOLEAN, Family(d.form) = "STAKE"
      PROVE  Said(HandleStake(d, n, b).lines)
  <2> DEFINE Cover(ref_1)  == [ref_1 EXCEPT !["name"] = IF @ = None THEN n ELSE @]
             Issuer(ref_1) == IF b THEN ref_1 ELSE [ref_1 EXCEPT !["issuer"] = None]
             ls == [i \in DOMAIN d.lines |-> [d.lines[i] EXCEPT !.ref = Issuer(Cover(@))]]
  <2>1. ASSUME NEW ref \in SecurityRef
        PROVE  /\ Issuer(Cover(ref))["ticker"] = ref["ticker"]
               /\ Issuer(Cover(ref))["issuer"] \in {None, ref["issuer"]}
    BY DEF SecurityRef, Column
  <2>2. \A i \in DOMAIN d.lines : d.lines[i].ref \in SecurityRef /\ d.lines[i] \in Line
    <3>1. \A i \in DOMAIN d.lines : d.lines[i] \in Line
      <4> HIDE DEF d
      <4> QED
        BY <1>2, Elements
    <3>2. \A line \in Line : line.ref \in SecurityRef
      BY DEF Line
    <3> QED
      BY <3>1, <3>2
  <2>3. \A i \in DOMAIN ls : i \in DOMAIN d.lines /\ ls[i].ref = Issuer(Cover(d.lines[i].ref))
    <3> HIDE DEF Cover, Issuer
    <3> QED
      BY <2>2 DEF Line
  <2>4. FamilyOf(r.acc) # "OWNERSHIP"
    BY <1>4 DEF FamilyOf
  <2> HIDE DEF Cover, Issuer, ls
  <2>5. Said(ls)
    BY <2>1, <2>2, <2>3, <2>4
  <2>6. d.main => HandleStake(d, n, b).lines = ls
    BY DEF HandleStake, ls, Cover, Issuer
  <2>7. ~d.main => HandleStake(d, n, b).lines = <<>>
    BY DEF HandleStake, Empty
  <2> HIDE DEF Said
  <2> QED
    BY <1>3, <2>5, <2>6, <2>7
<1>5. Said(o.lines)
  <2> HIDE DEF Said
  <2>1. CASE Family(d.form) = "STAKE"
    <3>1. r.name \in Value
      BY DEF Ref
    <3>2. Fetched(r) = {HandleStake(d, r.name, b) : b \in BOOLEAN}
      BY <2>1 DEF Fetched
    <3> QED
      BY <1>4, <2>1, <3>1, <3>2
  <2>2. CASE Family(d.form) # "STAKE"
    <3>1. o.lines \in {d.lines, <<>>}
      BY <2>2 DEF Fetched, Handle13F, HandleOwnership, HandleNport, Empty
    <3> QED
      BY <1>3, <3>1
  <2> QED
    BY <2>1, <2>2
<1>6. /\ Len(o.lines) \in Nat /\ DOMAIN o.lines = 1..Len(o.lines)
      /\ \A i \in 1..Len(o.lines) : o.lines[i].ref \in SecurityRef
  <2>1. o.lines \in Seq(Line)
    BY <1>1 DEF Outcome
  <2>2. Len(o.lines) \in Nat /\ DOMAIN o.lines = 1..Len(o.lines)
    BY <2>1
  <2>3. \A i \in 1..Len(o.lines) : o.lines[i] \in Line
    BY <2>1
  <2> QED
    BY <2>2, <2>3 DEF Line
<1> QED
  BY <1>5, <1>6

LEMMA IngestTables ==
  ASSUME FilingTyped, TablesInv, offered \in Offers, NEW r \in Discovered, Ingest(r)
  PROVE  TablesInv'
<1> USE DEF TablesInv
<1>1. r \in Ref /\ r.acc \in offered
  BY DiscoveredType DEF Discovered
<1>2. PICK o \in Fetched(r) : /\ Record(r, StoredFiling(r, o))
                              /\ security' = SecuritiesAfter(security, o.lines)
  BY DEF Ingest
<1>3. /\ Len(o.lines) \in Nat
      /\ \A i \in 1..Len(o.lines) :
           /\ o.lines[i].ref \in SecurityRef /\ i \in DOMAIN Doc[r.acc].lines
           /\ o.lines[i].ref["ticker"] = Doc[r.acc].lines[i].ref["ticker"]
           /\ o.lines[i].ref["issuer"] \in {None, Doc[r.acc].lines[i].ref["issuer"]}
           /\ FamilyOf(r.acc) = "OWNERSHIP" => o.lines[i].ref = Doc[r.acc].lines[i].ref
  BY <1>1, FetchedLines
<1>4. \A i \in 1..Len(o.lines) : Genuine(o.lines[i].ref)
  BY <1>1, <1>3 DEF Genuine, Issues
<1>5. /\ SecurityRows(security') /\ IssuersKnown(security') /\ SecuritiesKept(security, security')
      /\ LinesResolved(o.lines, Len(o.lines), security')
  BY <1>2, <1>3, <1>4, ResolvedLines
<1>6. offered' = offered
  BY DEF Ingest
<1>7. SecurityRows(security)' /\ IssuersKnown(security)'
  BY <1>5, <1>6 DEF SecurityRows, IssuersKnown, Issues
<1>8. named' \in [Cik -> Value]
  BY <1>1 DEF Ingest, Ref
<1>9. TradesStored'
  <2> SUFFICES ASSUME NEW a \in Accession, filing'[a] # NoRow, filing'[a].fam = "OWNERSHIP"
               PROVE  /\ a \in offered /\ FamilyOf(a) = "OWNERSHIP"
                      /\ \A i \in DOMAIN filing'[a].lines :
                           /\ i \in DOMAIN Doc[a].lines
                           /\ filing'[a].lines[i].key = SecurityKey(Doc[a].lines[i].ref)
                           /\ filing'[a].lines[i].key \in DOMAIN security'
                           /\ Doc[a].lines[i].ref["issuer"] # None =>
                                security'[filing'[a].lines[i].key]["issuer"] # None
    BY <1>6 DEF TradesStored
  <2>1. filing' = [filing EXCEPT ![r.acc] = StoredFiling(r, o)]
    BY <1>2 DEF Record
  <2>2. CASE a # r.acc
    <3>1. filing'[a] = filing[a]
      BY <2>1, <2>2 DEF FilingTyped
    <3>2. "issuer" \in Column
      BY DEF Column
    <3> QED
      BY <1>5, <3>1, <3>2 DEF TradesStored, SecuritiesKept
  <2>3. CASE a = r.acc
    <3>1. filing'[a] = StoredFiling(r, o)
      BY <2>1, <2>3 DEF FilingTyped
    <3>2. /\ FamilyOf(a) = "OWNERSHIP" /\ DOMAIN filing'[a].lines = 1..Len(o.lines)
          /\ \A i \in 1..Len(o.lines) : filing'[a].lines[i].key = SecurityKey(o.lines[i].ref)
      BY <2>3, <3>1 DEF StoredFiling, FilingWith, ChildRows, ChildRow
    <3> QED
      BY <1>1, <1>3, <1>5, <2>3, <3>2 DEF LinesResolved
  <2> QED
    BY <2>2, <2>3
<1> QED
  BY <1>7, <1>8, <1>9

LEMMA TablesInit == Init => TablesInv
<1> SUFFICES ASSUME Init PROVE TablesInv
  OBVIOUS
<1>1. DOMAIN security = {}
  BY DEF Init
<1>2. \A a \in Accession : filing[a] = NoRow
  BY DEF Init, StoreInit
<1>3. named \in [Cik -> Value]
  BY DEF Init, Value
<1> QED
  BY <1>1, <1>2, <1>3 DEF TablesInv, SecurityRows, IssuersKnown, TradesStored

LEMMA TablesStay ==
  ASSUME TablesInv, UNCHANGED <<tables, offered>>
  PROVE  TablesInv'
BY DEF TablesInv, SecurityRows, IssuersKnown, Issues, TradesStored, tables

LEMMA TablesStep ==
  ASSUME WorldInv, TablesInv, [Next]_vars
  PROVE  TablesInv'
<1>1. CASE IngestElsewhere
  BY <1>1, IngestTables DEF IngestElsewhere, WorldInv
<1>2. CASE JobIngests
  <2>1. queue \in Seq(Discovered) /\ queue # <<>>
    BY <1>2 DEF JobIngests, WorldInv
  <2>2. Head(queue) \in Discovered
    BY <2>1
  <2> QED
    BY <1>2, <2>2, IngestTables DEF JobIngests, WorldInv
<1>3. CASE Trigger \/ JobSkips \/ JobDies
  BY <1>3, TablesStay DEF Trigger, TriggerIngest, JobSkips, JobDies
<1>4. CASE Browse
  BY <1>4, TablesStay DEF Browse, OpenPage, Follow, OpenSecurity
<1>5. CASE Statement
  BY <1>5, TablesStay DEF Statement, ResolveFiler, ResolvePeriod, ResolveSecurity, Detail,
     Periods, Changes, FundHoldings, StakesHeld, Holders, IssuerActivity, InsiderTxns,
     StakesIn, TopHolders, Only
<1>6. CASE UNCHANGED vars
  BY <1>6, TablesStay DEF vars
<1> QED
  BY <1>1, <1>2, <1>3, <1>4, <1>5, <1>6 DEF Next, Job

\* A security row keeps what identifies it, is under the key of its CUSIP if it has
\* one, and has an issuer that a filing gave to its key (get_or_create_security).
THEOREM TablesInvariance == Spec => []TablesInv
<1>1. Init => TablesInv
  BY TablesInit
<1>2. ApiInv /\ TablesInv /\ [Next]_vars => TablesInv'
  BY TablesStep DEF ApiInv
<1> QED
  BY <1>1, <1>2, ReadsInvariance, PTL DEF Spec

\* A CUSIP names one security: no enrichment gives it to a second row (schema.sql
\* has no constraint that says so; /securities/{cusip}/holders takes the first).
THEOREM CusipsNameOne == Spec => []CusipNamesOne
<1>1. TablesInv => CusipNamesOne
  BY DEF TablesInv, SecurityRows, CusipNamesOne
<1> QED
  BY <1>1, TablesInvariance, PTL

\* What the store promises of its changes holds beside the requests: well-formed
\* rows, which replay the positions, and which only a late prior quarter leaves
\* out of date (compute_changes under trigger_ingest and under the worker).
COROLLARY StoreHolds == Spec => []StoreInv /\ []SharesReplay /\ StaleOnlyByLatePrior
<1> QED
  BY ApiImplementsStore, SoldIsGone, ChangesReplay, OnlyLatePriorsStale, PTL

-----------------------------------------------------------------------------
(* What the requests answer. *)

Dated      == {"detail", "changes", "funds"}
Operations == Dated \cup {"periods", "stakes", "issuer", "holders"}

RequestTyped ==
  request.at # "idle" =>
    /\ request.op \in Operations
    /\ request.op # "holders" => request.of \in Cik
    /\ request.asked \in Date /\ request.period \in Date
    /\ request.at = "period" => request.op \in Dated

PageTyped == page # NoPage => page.of \in Cik /\ page.asked \in Date

\* The page's own requests ask for its filer.
PageAsked ==
  request.at # "idle" /\ request.op \notin {"detail", "holders"} =>
    page # NoPage /\ request.of = page.of

\* The conjuncts of TypeOK about answers.
AnswersTyped ==
  /\ Answered("detail")  => request.answer \in FilerDetailOut(request.of)
  /\ Answered("periods") => request.answer \subseteq PeriodOut(request.of)
  /\ Answered("changes") => request.answer.period \in Date /\ request.answer \in ChangesOut
  /\ Answered("funds")   => request.answer \subseteq FiledRows("NPORT", request.of)
  /\ Answered("stakes")  => request.answer \subseteq FiledRows("STAKE", request.of)
  /\ Answered("holders") => HolderOut(request.answer)

\* A company's activity is put together by one statement after the other.
ActivityTyped ==
  request.at # "idle" /\ request.op = "issuer" /\ request.at \in {"txns", "stakes", "holders", "answered"} =>
    /\ request.answer = [txns |-> request.answer.txns, stakes |-> request.answer.stakes,
                         holders |-> request.answer.holders]
    /\ IssuerActivityOut(request.answer)

\* The insider trades in the company that was asked for, of those seen.
TradesIn(f) ==
  {t \in InsiderTxn :
     t[1] \in request.seen /\ Doc[t[1]].lines[t[2]].ref["issuer"] = CikText[f]}

\* Trade t is among those listed, or not newer than the ones that fill the list.
Listed(t, txns) ==
  t \in txns \/ (Cardinality(txns) = ListLimit /\ \A u \in txns : TxnDate(u) >= TxnDate(t))

TradesListed ==
  request.at # "idle" /\ request.op = "issuer" /\ TickersNameOne =>
    \A t \in TradesIn(request.of) :
      /\ request.at = "txns" => KeyOf(t) \in request.keys
      /\ request.at \in {"stakes", "holders", "answered"} => Listed(t, request.answer.txns)

AskInv    == RequestTyped /\ PageTyped /\ PageAsked
AnswerInv == AskInv /\ AnswersTyped /\ ActivityTyped /\ NoExitHeld /\ TradesListed

LEMMA AnswersInit == Init => AnswerInv
<1> SUFFICES ASSUME Init PROVE AnswerInv
  OBVIOUS
<1>1. request.at = "idle" /\ page = NoPage
  BY DEF Init
<1> QED
  BY <1>1 DEF AnswerInv, AskInv, RequestTyped, PageTyped, PageAsked, AnswersTyped,
     ActivityTyped, NoExitHeld, TradesListed, Answered

\* A company's trades are found by the issuer of their securities: it is the one
\* that the filings name.
LEMMA CompanyFound ==
  ASSUME TablesInv, TickersNameOne, NEW f \in Cik, NEW t \in InsiderTxn,
         Doc[t[1]].lines[t[2]].ref["issuer"] = CikText[f]
  PROVE  KeyOf(t) \in DOMAIN security /\ security[KeyOf(t)]["issuer"] = CikText[f]
<1> DEFINE a   == t[1]
           i   == t[2]
           ref == Doc[a].lines[i].ref
           k   == KeyOf(t)
<1>1. /\ a \in Accession /\ filing[a] # NoRow /\ filing[a].fam = "OWNERSHIP"
      /\ i \in DOMAIN filing[a].lines /\ k = filing[a].lines[i].key
  <2>1. <<a, i>> \in ChildTable("OWNERSHIP")
    BY TxnIs DEF Txn
  <2> QED
    BY <2>1 DEF ChildTable, KeyOf, FilingOf
<1>2. CikText[f] # None
  BY ApiAssumption, TextAssumption
<1>3. /\ a \in offered /\ FamilyOf(a) = "OWNERSHIP" /\ i \in DOMAIN Doc[a].lines
      /\ k = SecurityKey(ref) /\ k \in DOMAIN security /\ security[k]["issuer"] # None
  BY <1>1, <1>2 DEF TablesInv, TradesStored
<1>4. ref["cusip"] = None /\ ref["issuer"] = CikText[f]
  BY <1>1, <1>3, OwnershipAssumption
<1>5. CASE ref["ticker"] # None
  <2>1. k[1] = "TICKER" /\ k[2] = ref["ticker"]
    <3>1. k = SecurityKey(ref) /\ ref["cusip"] = None /\ ref["ticker"] # None
      BY <1>3, <1>4, <1>5
    <3> HIDE DEF ref, k
    <3>2. k = <<"TICKER", ref["ticker"]>>
      BY <3>1 DEF SecurityKey
    <3> QED
      BY <3>2
  <2>2. Issues(ref["ticker"], security[k]["issuer"])
    BY <1>3, <2>1 DEF TablesInv, IssuersKnown
  <2> QED
    BY <1>3, <1>4, <1>5, <2>2 DEF Issues, TickersNameOne
<1>6. CASE ref["ticker"] = None
  <2>1. k[1] = "CIK" /\ k[2] = ref["issuer"]
    BY <1>2, <1>3, <1>4, <1>6 DEF SecurityKey
  <2> QED
    BY <1>3, <1>4, <2>1 DEF TablesInv, IssuersKnown
<1> QED
  BY <1>5, <1>6

\* What has been answered is of rows that stay.
LEMMA GrowthKeepsAnswers ==
  ASSUME ApiInv, AnswerInv, Growing, UNCHANGED <<page, request, offered>>
  PROVE  AnswerInv'
<1>1. /\ Date' = Date /\ TickersNameOne' = TickersNameOne /\ ChangesOut' = ChangesOut
      /\ \A op : Answered(op)' = Answered(op)
  BY DEF Date, TickersNameOne, ChangesOut, Answered
<1>2. AskInv'
  BY <1>1 DEF AnswerInv, AskInv, RequestTyped, PageTyped, PageAsked
<1>3. /\ \A fam : ChildTable(fam) \subseteq ChildTable(fam)'
      /\ \A fam, f : FiledRows(fam, f) \subseteq FiledRows(fam, f)'
      /\ \A g : HolderOut(g) => HolderOut(g)'
      /\ \A act : IssuerActivityOut(act) => IssuerActivityOut(act)'
  <2>1. \A fam : ChildTable(fam) \subseteq ChildTable(fam)'
    BY RowsStay
  <2>2. \A fam, f : FiledRows(fam, f) \subseteq FiledRows(fam, f)'
    BY RowsStay DEF FiledRows
  <2>3. \A g : HolderOut(g) => HolderOut(g)'
    BY <2>2 DEF HolderOut
  <2> QED
    BY <2>1, <2>2, <2>3, TxnsStay DEF IssuerActivityOut
<1>4. AnswersTyped'
  <2>1. \A f : FilerDetailOut(f) \subseteq FilerDetailOut(f)' /\ PeriodOut(f) \subseteq PeriodOut(f)'
    BY <1>1, <1>3 DEF FilerDetailOut, PeriodOut
  <2> QED
    BY <1>1, <1>3, <2>1 DEF AnswerInv, AnswersTyped
<1>5. ActivityTyped'
  BY <1>3 DEF AnswerInv, ActivityTyped
<1>6. NoExitHeld'
  <2>1. ASSUME Answered("changes"), request.answer.period = page.period, NEW h \in page.holdings
        PROVE  FilingOf(h)' = FilingOf(h) /\ KeyOf(h)' = KeyOf(h)
    <3>1. page # NoPage
      BY <2>1 DEF AnswerInv, AskInv, PageAsked, Answered
    <3>2. h \in ChildTable("13F")
      BY <2>1, <3>1 DEF ApiInv, ReadInv, PageInv, PageRows, RowsFor, FiledRows
    <3> QED
      BY <3>2, RowsStay
  <2> QED
    BY <1>1, <2>1 DEF AnswerInv, NoExitHeld
<1>7. TradesListed'
  <2>1. ASSUME request.at # "idle", NEW f, NEW t \in TradesIn(f)'
        PROVE  t \in TradesIn(f) /\ KeyOf(t)' = KeyOf(t) /\ TxnDate(t)' = TxnDate(t)
    BY <2>1, TxnsStay DEF TradesIn, ApiInv, ReadInv, SeenCommitted
  <2>2. ASSUME request.op = "issuer", request.at \in {"stakes", "holders", "answered"},
               NEW t \in TradesIn(request.of), TxnDate(t)' = TxnDate(t),
               Listed(t, request.answer.txns)
        PROVE  Listed(t, request.answer.txns)'
    <3>1. request.answer.txns \subseteq InsiderTxn
      BY <2>2 DEF AnswerInv, ActivityTyped, IssuerActivityOut
    <3>2. \A u \in request.answer.txns : TxnDate(u)' = TxnDate(u)
      BY <3>1, TxnsStay
    <3> QED
      BY <2>2, <3>2 DEF Listed
  <2> QED
    BY <1>1, <2>1, <2>2 DEF AnswerInv, TradesListed
<1> QED
  BY <1>2, <1>4, <1>5, <1>6, <1>7 DEF AnswerInv

\* A new request has no answer yet.
LEMMA SendKeepsAnswers ==
  ASSUME NEW op \in Operations, NEW of, op # "holders" => of \in Cik, NEW asked \in Date,
         Send(op, of, asked), PageTyped',
         op \notin {"detail", "holders"} => page' # NoPage /\ of = page'.of
  PROVE  AnswerInv'
<1>1. /\ request'.at = "resolve" /\ request'.op = op /\ request'.of = of
      /\ request'.asked = asked /\ request'.period = asked
  BY DEF Send
<1>2. Date' = Date
  BY DEF Date
<1>3. RequestTyped' /\ PageAsked'
  BY <1>1, <1>2 DEF RequestTyped, PageAsked
<1>4. \A o : ~Answered(o)'
  BY <1>1 DEF Answered
<1> QED
  BY <1>1, <1>3, <1>4 DEF AnswerInv, AskInv, AnswersTyped, ActivityTyped, NoExitHeld, TradesListed

LEMMA BrowseAnswers ==
  ASSUME AnswerInv, Browse
  PROVE  AnswerInv'
<1>1. Date' = Date /\ NoPeriod \in Date
  BY DEF Date
<1>2. ASSUME NEW f \in Cik, NEW p \in Period \cup {NoPeriod}, OpenPage(f, p)
      PROVE  AnswerInv'
  <2>1. Send("detail", f, p) /\ page' = NoPage
    BY <1>2 DEF OpenPage
  <2>2. p \in Date /\ PageTyped'
    BY <2>1 DEF Date, PageTyped
  <2> QED
    BY <2>1, <2>2, SendKeepsAnswers DEF Operations, Dated
<1>3. ASSUME NEW op \in {"periods", "changes", "funds", "stakes", "issuer"}, Follow(op)
      PROVE  AnswerInv'
  <2>1. PICK asked \in {page.asked, NoPeriod} : Send(op, page.of, asked)
    BY <1>3 DEF Follow
  <2>2. page # NoPage /\ UNCHANGED page
    BY <1>3 DEF Follow
  <2>3. PageTyped' /\ page.of \in Cik /\ asked \in Date
    BY <1>1, <2>2 DEF AnswerInv, AskInv, PageTyped
  <2> QED
    BY <2>1, <2>2, <2>3, SendKeepsAnswers DEF Operations, Dated
<1>4. ASSUME NEW c \in Text, OpenSecurity(c)
      PROVE  AnswerInv'
  <2>1. Send("holders", c, NoPeriod) /\ page' = NoPage
    BY <1>4 DEF OpenSecurity
  <2>2. PageTyped'
    BY <2>1 DEF PageTyped
  <2> QED
    BY <1>1, <2>1, <2>2, SendKeepsAnswers DEF Operations, Dated
<1> QED
  BY <1>2, <1>3, <1>4 DEF Browse

LEMMA LatestPeriodType ==
  ASSUME FilingTyped, StoreInv, NEW op \in Dated, NEW f \in Cik
  PROVE  LatestPeriod(op, f) \in Date
<1>1. ASSUME NEW A \in SUBSET Committed
      PROVE  LatestOf({filing[a].period : a \in A}) \in Date
  <2> DEFINE S == {filing[a].period : a \in A}
  <2>1. S \subseteq Date
    BY DEF FilingTyped
  <2>2. A = {} => S = {}
    OBVIOUS
  <2>3. A # {} => LatestOf(S) \in S
    <3> HIDE DEF S
    <3> QED
      BY NewestOf DEF S
  <2>4. LatestOf({}) \in Date
    BY DEF LatestOf, Date
  <2> QED
    BY <2>1, <2>2, <2>3, <2>4
<1>2. CASE op = "detail"
  <2> DEFINE A == {b \in Accession : filing[b] # NoRow /\ filing[b].cik = f /\ filing[b].fam = "13F"}
  <2>1. A \in SUBSET Committed
    BY DEF Committed
  <2>2. LatestPeriod("detail", f) = LatestOf({filing[a].period : a \in A})
    BY DEF LatestPeriod
  <2> HIDE DEF A
  <2> QED
    BY <1>1, <1>2, <2>1, <2>2
<1>3. CASE op = "changes"
  <2> DEFINE S == {p \in Period : change[<<f, p>>] # {}}
             A == {a \in Committed : filing[a].period \in S}
  <2>1. \A p \in S : \E a \in Accession : filing[a] # NoRow /\ filing[a].period = p
    BY DEF StoreInv, ChangesReported, Quarterly
  <2>2. S = {filing[a].period : a \in A}
    BY <2>1 DEF Committed
  <2>3. LatestPeriod("changes", f) = LatestOf(S)
    BY DEF LatestPeriod
  <2>4. A \in SUBSET Committed
    OBVIOUS
  <2> HIDE DEF A, S
  <2> QED
    BY <1>1, <1>3, <2>2, <2>3, <2>4
<1>4. CASE op = "funds"
  <2> DEFINE A == {h[1] : h \in FiledRows("NPORT", f)}
  <2>1. A \in SUBSET Committed
    BY DEF Committed, FiledRows, ChildTable
  <2>2. {FilingOf(h).period : h \in FiledRows("NPORT", f)} = {filing[a].period : a \in A}
    BY DEF FilingOf
  <2>3. LatestPeriod("funds", f) = LatestOf({filing[a].period : a \in A})
    BY <2>2 DEF LatestPeriod
  <2> HIDE DEF A
  <2> QED
    BY <1>1, <1>4, <2>1, <2>3
<1> QED
  BY <1>2, <1>3, <1>4 DEF Dated

\* What is asked stays, and a period that is found is a date.
LEMMA StatementAsk ==
  ASSUME ApiInv, StoreInv, AskInv, Statement
  PROVE  AskInv'
<1>1. Date' = Date
  BY DEF Date
<1>2. Shape
  BY DEF ApiInv, ReadInv
<1>3. CASE Detail
  <2>1. /\ request.at # "idle" /\ request'.at = "answered"
        /\ request'.op = "detail" /\ request.op = "detail"
        /\ request'.of = request.of /\ request'.asked = request.asked
        /\ request'.period = request.period
        /\ page'.of = request.of /\ page'.asked = request.asked
    BY <1>2, <1>3 DEF Detail, At, Answer, Shape
  <2> QED
    BY <1>1, <2>1 DEF AskInv, RequestTyped, PageTyped, PageAsked, Operations
<1>4. CASE ~Detail
  <2>1. Reads
    BY <1>2, <1>4, StatementReads
  <2>2. PageTyped' /\ PageAsked'
    BY <1>1, <2>1 DEF Reads, AskInv, PageTyped, PageAsked
  <2>3. CASE ResolvePeriod
    <3>1. /\ request'.period = LatestPeriod(request.op, request.of) /\ request'.at = "rows"
          /\ request.at = "period"
      BY <1>2, <2>1, <2>3 DEF ResolvePeriod, Shape, Reads
    <3>2. request.op \in Dated /\ request.of \in Cik
      BY <2>1, <3>1 DEF AskInv, RequestTyped, Reads, Dated
    <3>3. request'.period \in Date
      BY <3>1, <3>2, LatestPeriodType DEF ApiInv, WorldInv
    <3> QED
      BY <1>1, <2>1, <2>2, <3>1, <3>3 DEF AskInv, RequestTyped, Reads
  <2>4. CASE ~ResolvePeriod
    <3>1. /\ request'.period = request.period
          /\ request'.at = "period" => request.op \in Dated
      BY <1>2, <1>4, <2>4 DEF Statement, ResolveFiler, ResolveSecurity, Periods, Changes,
         FundHoldings, StakesHeld, Holders, IssuerActivity, InsiderTxns, StakesIn, TopHolders,
         At, Reach, Answer, Shape, Dated
    <3> QED
      BY <1>1, <2>1, <2>2, <3>1 DEF AskInv, RequestTyped, Reads
  <2> QED
    BY <2>3, <2>4
<1> QED
  BY <1>3, <1>4

LEMMA HoldersType ==
  ASSUME StoreInv, NEW keys, NEW g \in HoldersOf(keys)
  PROVE  HolderOut(g)
<1> DEFINE rows == {h \in ChildTable("13F") : KeyOf(h) \in keys}
<1>1. g \in FirstPerFiler(rows)
  BY DEF HoldersOf
<1>2. /\ g \in [{FilingOf(h).cik : h \in rows} -> rows]
      /\ \A f \in DOMAIN g : FilingOf(g[f]).cik = f
  BY <1>1 DEF FirstPerFiler
<1>3. \A f \in DOMAIN g : g[f] \in FiledRows("13F", f)
  BY <1>2 DEF FiledRows
<1>4. \A h \in ChildTable("13F") : FilingOf(h).cik \in Cik
  <2>1. \A h \in ChildTable("13F") : filing[h[1]] \in FilingVersion
    BY DEF ChildTable, StoreInv, StoreType
  <2>2. \A row \in FilingVersion : row.cik \in Cik
    BY DEF FilingVersion
  <2> QED
    BY <2>1, <2>2 DEF FilingOf
<1>5. \A f \in DOMAIN g : f \in Cik
  BY <1>2, <1>4
<1> QED
  BY <1>3, <1>5 DEF HolderOut

\* The rows of one statement make a well-formed answer of the filer that was asked for.
LEMMA StatementAnswered ==
  ASSUME ApiInv, StoreInv, AskInv, Statement, ~Detail
  PROVE  AnswersTyped'
<1>1. Shape /\ Reads
  BY StatementReads DEF ApiInv, ReadInv
<1>2. /\ \A fam, f : FiledRows(fam, f)' = FiledRows(fam, f)
      /\ \A h : FilingOf(h)' = FilingOf(h)
  BY <1>1, ReadsKeep DEF ApiInv
<1>3. /\ Date' = Date /\ ChangesOut' = ChangesOut
      /\ \A f : PeriodOut(f)' = PeriodOut(f)
      /\ \A g : HolderOut(g)' = HolderOut(g)
  BY <1>2 DEF Date, ChangesOut, PeriodOut, HolderOut
<1>4. request'.op = request.op /\ request'.of = request.of /\ request.at # "idle"
  BY <1>1 DEF Reads
<1>5. request.op \in Operations /\ request.period \in Date
      /\ (request.op # "holders" => request.of \in Cik)
  BY <1>4 DEF AskInv, RequestTyped
<1>6. CASE Periods
  <2> DEFINE RowsOf(p) == RowsFor("13F", request.of, p)
             outs == {[period |-> p, holdings |-> RowsOf(p)] : p \in {q \in Period : RowsOf(q) # {}}}
  <2>1. request'.answer = outs /\ request.op = "periods"
    BY <1>1, <1>6 DEF Periods, At, Answer, Shape, Reads
  <2>2. outs \subseteq PeriodOut(request.of)
    BY DEF PeriodOut, RowsFor
  <2> HIDE DEF outs
  <2> QED
    BY <1>3, <1>4, <2>1, <2>2 DEF AnswersTyped, Answered
<1>7. CASE Changes
  <2> DEFINE rows == IF request.period = NoPeriod THEN {} ELSE change[<<request.of, request.period>>]
  <2>1. request'.answer = [period |-> request.period, changes |-> rows] /\ request.op = "changes"
    BY <1>1, <1>7 DEF Changes, At, Answer, Shape, Reads
  <2>2. rows \subseteq ChangeRow
    BY <1>5, <2>1 DEF StoreInv, ChangesTyped, Date
  <2>3. rows \subseteq [security : Key, prev_period : Date, action : {"NEW", "ADD", "TRIM", "EXIT"},
                        shares_delta : Int, value_delta : Int]
    BY <2>2 DEF ChangeRow, Date
  <2> HIDE DEF rows
  <2>4. request'.answer \in ChangesOut /\ request'.answer.period \in Date
    BY <1>5, <2>1, <2>3 DEF ChangesOut
  <2> QED
    BY <1>3, <1>4, <2>1, <2>4 DEF AnswersTyped, Answered
<1>8. CASE FundHoldings
  <2> DEFINE rows == RowsFor("NPORT", request.of, request.period)
  <2>1. PICK A \in Top([h \in rows |-> FilingOf(h).lines[h[2]].value], ListLimit) : Answer(A)
    BY <1>8 DEF FundHoldings
  <2>2. request'.answer = A /\ request.op = "funds"
    BY <1>1, <1>8, <2>1 DEF FundHoldings, At, Answer, Shape, Reads
  <2>3. A \subseteq rows
    BY <2>1, TopIs
  <2> QED
    BY <1>2, <1>4, <2>2, <2>3 DEF AnswersTyped, Answered, RowsFor
<1>9. CASE StakesHeld
  <2> DEFINE rows == FiledRows("STAKE", request.of)
  <2>1. PICK A \in Top([h \in rows |-> FilingOf(h).filed], ListLimit) : Answer(A)
    BY <1>9 DEF StakesHeld
  <2>2. request'.answer = A /\ request.op = "stakes"
    BY <1>1, <1>9, <2>1 DEF StakesHeld, At, Answer, Shape, Reads
  <2>3. A \subseteq rows
    BY <2>1, TopIs
  <2> QED
    BY <1>2, <1>4, <2>2, <2>3 DEF AnswersTyped, Answered
<1>10. CASE Holders
  <2>1. PICK g \in HoldersOf(request.keys) : request'.answer = g /\ request.op = "holders"
    BY <1>1, <1>10 DEF Holders, At, Answer, Shape, Reads
  <2> QED
    BY <1>3, <1>4, <2>1, HoldersType DEF AnswersTyped, Answered
<1>11. CASE ~(Periods \/ Changes \/ FundHoldings \/ StakesHeld \/ Holders)
  <2>1. request'.at = "answered" => request'.op = "issuer"
    BY <1>1, <1>11 DEF Statement, ResolveFiler, ResolvePeriod, ResolveSecurity,
       IssuerActivity, InsiderTxns, StakesIn, TopHolders, At, Reach, Shape, Reads
  <2> QED
    BY <2>1 DEF AnswersTyped, Answered
<1> QED
  BY <1>6, <1>7, <1>8, <1>9, <1>10, <1>11

LEMMA DetailAnswers ==
  ASSUME ApiInv, StoreInv, AskInv, Detail
  PROVE  AnswersTyped' /\ ActivityTyped' /\ NoExitHeld' /\ TradesListed'
<1> DEFINE rows == RowsFor("13F", request.of, request.period)
<1>1. /\ request'.op = "detail" /\ request'.of = request.of
      /\ request'.answer = [period |-> request.period, holdings |-> rows]
      /\ request.period \in Date /\ UNCHANGED tables
  BY DEF Detail, At, Answer, ApiInv, ReadInv, Shape, AskInv, RequestTyped
<1>2. rows \subseteq FiledRows("13F", request.of)
  BY DEF RowsFor
<1>3. Date' = Date /\ \A f : FiledRows("13F", f)' = FiledRows("13F", f)
  BY <1>1 DEF Date, FiledRows, ChildTable, FilingOf, tables
<1>4. \A f : FilerDetailOut(f)' = FilerDetailOut(f)
  BY <1>3 DEF FilerDetailOut
<1> HIDE DEF rows
<1>5. request'.answer \in FilerDetailOut(request.of)
  BY <1>1, <1>2 DEF FilerDetailOut
<1>6. AnswersTyped'
  BY <1>1, <1>4, <1>5 DEF AnswersTyped, Answered
<1> QED
  BY <1>1, <1>6 DEF ActivityTyped, NoExitHeld, TradesListed, Answered

\* The three lists of a company's activity are of rows of their tables.
LEMMA StatementActivity ==
  ASSUME ApiInv, StoreInv, ActivityTyped, Statement, ~Detail
  PROVE  ActivityTyped'
<1> DEFINE Parts(act) == act = [txns |-> act.txns, stakes |-> act.stakes, holders |-> act.holders]
<1>1. Shape /\ Reads
  BY StatementReads DEF ApiInv, ReadInv
<1>2. \A fam, f : ChildTable(fam)' = ChildTable(fam) /\ FiledRows(fam, f)' = FiledRows(fam, f)
  BY <1>1, ReadsKeep DEF ApiInv
<1>3. \A act : IssuerActivityOut(act)' = IssuerActivityOut(act)
  BY <1>1, <1>2, ReadsKeep DEF ApiInv, IssuerActivityOut, HolderOut
<1>4. request'.op = request.op /\ request.at # "idle"
  BY <1>1 DEF Reads
<1>5. ASSUME request.op = "issuer", request.at \in {"txns", "stakes", "holders"}
      PROVE  Parts(request.answer) /\ IssuerActivityOut(request.answer)
  BY <1>4, <1>5 DEF ActivityTyped
<1>6. CASE IssuerActivity
  <2>1. request'.answer = [txns |-> {}, stakes |-> {}, holders |-> <<>>]
    BY <1>1, <1>6 DEF IssuerActivity, Shape
  <2>2. IssuerActivityOut([txns |-> {}, stakes |-> {}, holders |-> <<>>])
    BY DEF IssuerActivityOut, HolderOut
  <2> QED
    BY <1>3, <2>1, <2>2 DEF ActivityTyped
<1>7. CASE InsiderTxns
  <2>1. PICK A : /\ A \in SUBSET InsiderTxn /\ request.op = "issuer" /\ request.at = "txns"
                 /\ request' = [request EXCEPT !.at = "stakes", !.answer.txns = A]
    <3> DEFINE rows == {t \in InsiderTxn : KeyOf(t) \in request.keys}
    <3>1. PICK A \in Top([t \in rows |-> TxnDate(t)], ListLimit) :
            request' = [request EXCEPT !.at = "stakes", !.answer.txns = A]
      BY <1>7 DEF InsiderTxns
    <3>2. A \subseteq rows
      BY <3>1, TopIs
    <3> QED
      BY <1>7, <3>1, <3>2 DEF InsiderTxns, At
  <2>2. Parts(request.answer) /\ IssuerActivityOut(request.answer)
    BY <1>5, <2>1
  <2>3. request'.answer = [request.answer EXCEPT !.txns = A]
    BY <1>1, <2>1 DEF Shape
  <2>4. /\ Parts(request'.answer) /\ request'.answer.txns = A
        /\ request'.answer.stakes = request.answer.stakes
        /\ request'.answer.holders = request.answer.holders
    BY <2>2, <2>3
  <2> QED
    BY <1>3, <2>1, <2>2, <2>4 DEF ActivityTyped, IssuerActivityOut
<1>8. CASE StakesIn
  <2>1. PICK A : /\ A \in SUBSET ChildTable("STAKE")
                 /\ request.op = "issuer" /\ request.at = "stakes"
                 /\ request' = [request EXCEPT !.at = "holders", !.answer.stakes = A]
    <3> DEFINE rows == {h \in ChildTable("STAKE") : KeyOf(h) \in request.keys}
    <3>1. PICK A \in Top([h \in rows |-> FilingOf(h).filed], ListLimit) :
            request' = [request EXCEPT !.at = "holders", !.answer.stakes = A]
      BY <1>8 DEF StakesIn
    <3>2. A \subseteq rows
      BY <3>1, TopIs
    <3> QED
      BY <1>8, <3>1, <3>2 DEF StakesIn, At
  <2>2. Parts(request.answer) /\ IssuerActivityOut(request.answer)
    BY <1>5, <2>1
  <2>3. request'.answer = [request.answer EXCEPT !.stakes = A]
    BY <1>1, <2>1 DEF Shape
  <2>4. /\ Parts(request'.answer) /\ request'.answer.stakes = A
        /\ request'.answer.txns = request.answer.txns
        /\ request'.answer.holders = request.answer.holders
    BY <2>2, <2>3
  <2> QED
    BY <1>3, <2>1, <2>2, <2>4 DEF ActivityTyped, IssuerActivityOut
<1>9. CASE TopHolders
  <2>1. PICK g \in HoldersOf(request.keys) :
          \E F \in Top([f \in DOMAIN g |-> FilingOf(g[f]).lines[g[f][2]].value], ListLimit) :
            Answer([request.answer EXCEPT !.holders = [f \in F |-> g[f]]])
    BY <1>9 DEF TopHolders
  <2>2. PICK F \in Top([f \in DOMAIN g |-> FilingOf(g[f]).lines[g[f][2]].value], ListLimit) :
          Answer([request.answer EXCEPT !.holders = [f \in F |-> g[f]]])
    BY <2>1
  <2> DEFINE shown == [f \in F |-> g[f]]
  <2>3. F \subseteq DOMAIN g
    BY <2>2, TopIs
  <2>4. HolderOut(shown)
    BY <2>3, HoldersType DEF HolderOut
  <2>5. request.op = "issuer" /\ request.at = "holders"
    BY <1>9 DEF TopHolders, At
  <2>6. Parts(request.answer) /\ IssuerActivityOut(request.answer)
    BY <1>5, <2>5
  <2> HIDE DEF shown
  <2>7. request'.answer = [request.answer EXCEPT !.holders = shown]
    BY <1>1, <2>2 DEF Answer, Shape, shown
  <2>8. /\ Parts(request'.answer) /\ request'.answer.holders = shown
        /\ request'.answer.txns = request.answer.txns
        /\ request'.answer.stakes = request.answer.stakes
    BY <2>6, <2>7
  <2> QED
    BY <1>3, <2>4, <2>6, <2>8 DEF ActivityTyped, IssuerActivityOut
<1>10. CASE ~(IssuerActivity \/ InsiderTxns \/ StakesIn \/ TopHolders)
  <2>1. request'.at \in {"txns", "stakes", "holders", "answered"} => request'.op # "issuer"
    BY <1>1, <1>10 DEF Statement, ResolveFiler, ResolvePeriod, ResolveSecurity, Periods,
       Changes, FundHoldings, StakesHeld, Holders, At, Reach, Answer, Shape, Reads
  <2> QED
    BY <2>1 DEF ActivityTyped
<1> QED
  BY <1>6, <1>7, <1>8, <1>9, <1>10

\* The changes are of the filer of the page, and what is sold has no shares.
LEMMA StatementSold ==
  ASSUME ApiInv, StoreInv, AskInv, Statement, ~Detail
  PROVE  NoExitHeld'
<1>1. Shape /\ Reads
  BY StatementReads DEF ApiInv, ReadInv
<1>2. CASE Changes
  <2> DEFINE rows == IF request.period = NoPeriod THEN {} ELSE change[<<request.of, request.period>>]
  <2>1. request'.answer = [period |-> request.period, changes |-> rows] /\ request.op = "changes"
    BY <1>1, <1>2 DEF Changes, At, Answer, Shape, Reads
  <2>2. /\ request.of \in Cik /\ request.period \in Date
        /\ page # NoPage /\ request.of = page.of /\ page' = page
    BY <1>1, <2>1 DEF Reads, AskInv, RequestTyped, PageAsked
  <2>3. ASSUME request.period = page.period, NEW h \in page.holdings, NEW row \in rows,
               FilingOf(h).lines[h[2]].shares > 0, row.security = KeyOf(h), row.action = "EXIT"
        PROVE  FALSE
    <3>1. h \in RowsFor("13F", page.of, page.period)
      BY <2>2, <2>3 DEF ApiInv, ReadInv, PageInv, PageRows
    <3>2. h[1] \in Accession /\ h[2] \in DOMAIN filing[h[1]].lines
          /\ Quarterly(h[1], request.of, request.period)
      BY <2>2, <2>3, <3>1 DEF RowsFor, FiledRows, ChildTable, FilingOf, Quarterly
    <3>3. request.period \in Period /\ row \in change[<<request.of, request.period>>]
      BY <2>2, <2>3 DEF Date
    <3>4. filing[h[1]].lines[h[2]].shares = 0
      BY <2>2, <2>3, <3>2, <3>3 DEF StoreInv, ExitsGone, KeyOf, FilingOf
    <3> QED
      BY <2>3, <3>4 DEF FilingOf
  <2>4. \A h : FilingOf(h)' = FilingOf(h) /\ KeyOf(h)' = KeyOf(h)
    BY <1>1, ReadsKeep DEF ApiInv
  <2> HIDE DEF rows
  <2> QED
    BY <2>1, <2>2, <2>3, <2>4 DEF NoExitHeld, Answered
<1>3. CASE ~Changes
  <2>1. ~Answered("changes")'
    BY <1>1, <1>3 DEF Answered, Reads, Statement, ResolveFiler, ResolvePeriod, ResolveSecurity,
       Periods, FundHoldings, StakesHeld, Holders, IssuerActivity, InsiderTxns, StakesIn,
       TopHolders, At, Reach, Shape
  <2> QED
    BY <2>1 DEF NoExitHeld, Answered
<1> QED
  BY <1>2, <1>3

\* The securities of a company include those of its trades, and so the list has them.
LEMMA StatementTrades ==
  ASSUME ApiInv, StoreInv, TablesInv, AnswerInv, Statement, ~Detail
  PROVE  TradesListed'
<1>1. Shape /\ Reads
  BY StatementReads DEF ApiInv, ReadInv
<1>2. /\ request'.op = request.op /\ request'.of = request.of /\ request'.seen = request.seen
      /\ request.at # "idle"
  BY <1>1 DEF Reads
<1>3. /\ \A f : TradesIn(f)' = TradesIn(f)
      /\ \A t : KeyOf(t)' = KeyOf(t) /\ \A txns : Listed(t, txns)' = Listed(t, txns)
      /\ TickersNameOne' = TickersNameOne
  <2>1. offered' = offered
    BY DEF Statement, ResolveFiler, ResolvePeriod, ResolveSecurity, Detail, Periods, Changes,
       FundHoldings, StakesHeld, Holders, IssuerActivity, InsiderTxns, StakesIn, TopHolders, Only
  <2> QED
    BY <1>1, <1>2, <2>1, ReadsKeep DEF ApiInv, TradesIn, TickersNameOne, Listed
<1>4. SUFFICES ASSUME request.op = "issuer", TickersNameOne, NEW t \in TradesIn(request.of)
               PROVE  /\ request'.at = "txns" => KeyOf(t) \in request'.keys
                      /\ request'.at \in {"stakes", "holders", "answered"} =>
                           Listed(t, request'.answer.txns)
  BY <1>2, <1>3 DEF TradesListed
<1>5. /\ request.at = "txns" => KeyOf(t) \in request.keys
      /\ request.at \in {"stakes", "holders", "answered"} => Listed(t, request.answer.txns)
  BY <1>2, <1>4 DEF AnswerInv, TradesListed
<1>6. CASE IssuerActivity
  <2> DEFINE ks == IssuerSecurities(request.of, request.name)
  <2>1. request'.keys = ks /\ request'.at = IF ks = {} THEN "answered" ELSE "txns"
    BY <1>1, <1>6 DEF IssuerActivity, Shape
  <2>2. request.of \in Cik
    BY <1>2, <1>4 DEF AnswerInv, AskInv, RequestTyped
  <2>3. KeyOf(t) \in ks
    BY <1>4, <2>2, CompanyFound DEF TradesIn, IssuerSecurities
  <2> QED
    BY <2>1, <2>3
<1>7. ASSUME request.at \in {"stakes", "holders"}
      PROVE  request.answer = [txns |-> request.answer.txns, stakes |-> request.answer.stakes,
                               holders |-> request.answer.holders]
  BY <1>2, <1>4, <1>7 DEF AnswerInv, ActivityTyped
<1>8. CASE InsiderTxns
  <2> DEFINE rows == {u \in InsiderTxn : KeyOf(u) \in request.keys}
             rank == [u \in rows |-> TxnDate(u)]
  <2>1. PICK A \in Top(rank, ListLimit) :
          request' = [request EXCEPT !.at = "stakes", !.answer.txns = A]
    BY <1>8 DEF InsiderTxns
  <2>2. t \in rows
    BY <1>4, <1>5, <1>8 DEF TradesIn, InsiderTxns, At
  <2>3. request.answer = [txns |-> request.answer.txns, stakes |-> request.answer.stakes,
                          holders |-> request.answer.holders]
    BY <1>2, <1>4, <1>8 DEF AnswerInv, ActivityTyped, InsiderTxns, At
  <2>4. request'.at = "stakes" /\ request'.answer = [request.answer EXCEPT !.txns = A]
    BY <1>1, <2>1 DEF Shape
  <2>5. request'.answer.txns = A
    BY <2>3, <2>4
  <2>6. \A u \in A : u \in rows /\ rank[u] = TxnDate(u)
    BY <2>1, TopIs
  <2>7. t \in A \/ (Cardinality(A) = ListLimit /\ \A u \in A : rank[t] <= rank[u])
    BY <2>1, <2>2, TopIs
  <2>8. rank[t] = TxnDate(t)
    BY <2>2
  <2> HIDE DEF rows, rank
  <2>9. Listed(t, A)
    <3>1. \A u \in A : TxnDate(t) <= TxnDate(u) => TxnDate(u) >= TxnDate(t)
      OBVIOUS
    <3> QED
      BY <2>6, <2>7, <2>8, <3>1 DEF Listed
  <2> QED
    BY <2>4, <2>5, <2>9
<1>9. CASE StakesIn
  <2>1. PICK A : /\ request.at = "stakes"
                 /\ request' = [request EXCEPT !.at = "holders", !.answer.stakes = A]
    BY <1>9 DEF StakesIn, At
  <2>2. request'.answer = [request.answer EXCEPT !.stakes = A]
    BY <1>1, <2>1 DEF Shape
  <2>3. request'.answer.txns = request.answer.txns
    BY <1>7, <2>1, <2>2
  <2> QED
    BY <1>1, <1>5, <2>1, <2>3 DEF Shape
<1>10. CASE TopHolders
  <2>1. PICK g : /\ request.at = "holders"
                 /\ request' = [request EXCEPT !.at = "answered",
                                  !.answer = [request.answer EXCEPT !.holders = g]]
    BY <1>10 DEF TopHolders, At, Answer
  <2>2. request'.answer = [request.answer EXCEPT !.holders = g]
    BY <1>1, <2>1 DEF Shape
  <2>3. request'.answer.txns = request.answer.txns
    BY <1>7, <2>1, <2>2
  <2> QED
    BY <1>1, <1>5, <2>1, <2>3 DEF Shape
<1>11. CASE ~(IssuerActivity \/ InsiderTxns \/ StakesIn \/ TopHolders)
  <2>1. request'.at \notin {"txns", "stakes", "holders", "answered"}
    BY <1>1, <1>2, <1>4, <1>11 DEF Statement, ResolveFiler, ResolvePeriod, ResolveSecurity,
       Periods, Changes, FundHoldings, StakesHeld, Holders, At, Reach, Answer, Shape
  <2> QED
    BY <2>1
<1> QED
  BY <1>6, <1>8, <1>9, <1>10, <1>11

LEMMA AnswersStep ==
  ASSUME ApiInv, StoreInv, TablesInv, AnswerInv, [Next]_vars
  PROVE  AnswerInv'
<1>1. CASE IngestElsewhere \/ Job
  <2>1. UNCHANGED offered
    BY <1>1 DEF IngestElsewhere, Ingest, Job, Trigger, TriggerIngest, JobIngests, JobSkips, JobDies
  <2> QED
    BY <1>1, <2>1, WorldStep, GrowthKeepsAnswers DEF ApiInv
<1>2. CASE Browse
  BY <1>2, BrowseAnswers
<1>3. CASE Statement
  <2>1. AskInv'
    BY <1>3, StatementAsk DEF AnswerInv
  <2>2. CASE Detail
    BY <2>1, <2>2, DetailAnswers DEF AnswerInv
  <2>3. CASE ~Detail
    BY <1>3, <2>1, <2>3, StatementAnswered, StatementActivity, StatementSold, StatementTrades
       DEF AnswerInv
  <2> QED
    BY <2>2, <2>3
<1>4. CASE UNCHANGED vars
  <2>1. UNCHANGED <<page, request, offered>> /\ Growing
    BY <1>4 DEF vars, Growing, Committed, tables
  <2> QED
    BY <2>1, GrowthKeepsAnswers
<1> QED
  BY <1>1, <1>2, <1>3, <1>4 DEF Next

\* The answers: each is put together from what its statements found, and of the
\* filer of the page, while filings are ingested between them.
THEOREM AnswersInvariance == Spec => []AnswerInv
<1>1. Init => AnswerInv
  BY AnswersInit
<1>2. ApiInv /\ StoreInv /\ TablesInv /\ AnswerInv /\ [Next]_vars => AnswerInv'
  BY AnswersStep
<1> QED
  BY <1>1, <1>2, ReadsInvariance, StoreHolds, TablesInvariance, PTL DEF Spec

\* Every answer fits its response model, and its rows are rows of the filer that
\* was asked for (response_model in routers/filers.py, securities.py).
THEOREM TypeCorrect == Spec => []TypeOK
<1>1. ASSUME ApiInv, TablesInv, AnswerInv PROVE TypeOK
  <2>1. queue \in Seq(Ref)
    <3>1. queue \in Seq(Discovered) /\ Discovered \subseteq Ref
      BY <1>1, DiscoveredType DEF ApiInv, WorldInv
    <3> HIDE DEF Discovered
    <3> QED
      BY <3>1
  <2>2. Answered("issuer") => IssuerActivityOut(request.answer)
    BY <1>1 DEF AnswerInv, ActivityTyped, Answered
  <2>3. /\ offered \in Offers /\ named \in [Cik -> Value]
        /\ \A k \in DOMAIN security : k \in Key /\ security[k] \in SecurityRef
    BY <1>1 DEF ApiInv, WorldInv, TablesInv, SecurityRows
  <2> QED
    BY <1>1, <2>1, <2>2, <2>3 DEF AnswerInv, AnswersTyped, TypeOK
<1> QED
  BY <1>1, ReadsInvariance, TablesInvariance, AnswersInvariance, PTL

\* Nothing that the portfolio shows is listed as sold, whatever amendment is
\* ingested between the two requests (list_changes beside filer_detail).
THEOREM NothingHeldIsSold == Spec => []NoExitHeld
<1>1. AnswerInv => NoExitHeld
  BY DEF AnswerInv
<1> QED
  BY <1>1, AnswersInvariance, PTL

\* A company's page has the insider trades in it, or is full of trades that are not
\* older, provided no ticker passed from one company to another: every trade's
\* security has the issuer its filing names, though it may have been created, and
\* enriched, by others (_issuer_securities, LIMIT in filer_issuer_activity).
THEOREM TradesOnPage == Spec => []CompanySeesTrades
<1>1. ASSUME AnswerInv PROVE CompanySeesTrades
  <2> SUFFICES ASSUME Answered("issuer"), TickersNameOne, NEW t \in InsiderTxn,
                      t[1] \in request.seen,
                      Doc[t[1]].lines[t[2]].ref["issuer"] = CikText[request.of]
               PROVE  Listed(t, request.answer.txns)
    BY DEF CompanySeesTrades, Listed
  <2>1. t \in TradesIn(request.of)
    BY DEF TradesIn
  <2> QED
    BY <1>1, <2>1 DEF AnswerInv, TradesListed, Answered
<1> QED
  BY <1>1, AnswersInvariance, PTL

=============================================================================
