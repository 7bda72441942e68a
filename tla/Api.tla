-------------------------------- MODULE Api --------------------------------
(***************************************************************************)
(* backend/app/api: the read API beside the ingest it triggers.  Every     *)
(* query is a statement of its own under READ COMMITTED (db.py opens a     *)
(* connection per request and nothing starts a snapshot), so that filings  *)
(* are committed between the statements of one request and between the     *)
(* requests of one page.  Ingest is the indivisible step of FilingStore,   *)
(* with the security and filer rows it leaves behind.                      *)
(*                                                                         *)
(* A child row is named by its filing and its place in it.  Reads change   *)
(* nothing, so one watched request at a time shows what any of the         *)
(* parallel requests of a page can see.  Lists are sets: their order is    *)
(* layout, except that it decides what a LIMIT leaves out.                 *)
(***************************************************************************)
EXTENDS FilingStore, SequencesExt

CONSTANTS Offers,      \* the sets of filings EDGAR may have
          CikText,     \* CikText[f]: filer f's CIK as an issuer_cik column
          HistoryLimit,\* `limit' of an ingest request
          ListLimit    \* `limit' of a request for a list

ASSUME ApiAssumption ==
  /\ Offers \subseteq SUBSET Accession
  /\ CikText \in [Cik -> Text] /\ HistoryLimit \in Nat /\ ListLimit \in Nat \ {0}

VARIABLES
  offered,   \* the filings EDGAR has
  security,  \* security[k]: the row with key k, for the keys in the table
  named,     \* named[f]: filer f's name, None for the placeholder
  queue,     \* what is left to ingest of the last accepted ingest request
  page,      \* the answered request a filer page is built around, or NoPage
  request    \* the watched request

tables == <<filing, latest, change, security, named>>
vars   == <<tables, offered, queue, page, request>>

NoPage == [of |-> NoRow, asked |-> NoPeriod]

Init ==
  /\ StoreInit
  /\ offered \in Offers
  /\ security = <<>>
  /\ named = [f \in Cik |-> None]
  /\ queue = <<>>
  /\ page = NoPage
  /\ request = [at |-> "idle"]

-----------------------------------------------------------------------------
(* Ingest *)

GetOrCreateSecurity(S, ref) ==
  LET k == SecurityKey(ref)
  IN  IF k \in DOMAIN S
        THEN [S EXCEPT ![k] = Enriched(@, Updates(@, ref), ref)]
        ELSE [l \in DOMAIN S \cup {k} |-> IF l = k THEN NewSecurity(ref) ELSE S[l]]

\* The security table S after the references of some lines were resolved in order.
SecuritiesAfter(S, lines) ==
  LET After[n \in 0..Len(lines)] ==
        IF n = 0 THEN S ELSE GetOrCreateSecurity(After[n - 1], lines[n].ref)
  IN  After[Len(lines)]

\* The listings under which the filings EDGAR has are found.
Discovered ==
  UNION {[acc : {a}, cik : Doc[a].ciks, name : Doc[a].names] : a \in offered}

Ingest(r) ==
  /\ FamilyOf(r.acc) # Unsupported
  /\ \E o \in Fetched(r) :
       /\ Record(r, StoredFiling(r, o))
       /\ security' = SecuritiesAfter(security, o.lines)
  /\ named' = IF r.name = None THEN named ELSE [named EXCEPT ![r.cik] = r.name]
  /\ UNCHANGED <<offered, page, request>>

\* The worker or a backfill ingests whatever it has discovered.
IngestElsewhere == (\E r \in Discovered : Ingest(r)) /\ UNCHANGED queue

\* fetch_filer_history: the filings of one form under one CIK, newest first (of one
\* day in any order), all with the company's name n.
FilerHistory(f, form, n) ==
  {refs \in SetToSeqs({r \in Discovered : r.cik = f /\ r.name = n /\ Doc[r.acc].form = form}) :
     \A i, j \in DOMAIN refs : i < j => Doc[refs[i].acc].filed >= Doc[refs[j].acc].filed}

\* POST /filings/ingest/{cik} (or "ingest-filer") once its list has been fetched;
\* one such job at a time.
TriggerIngest(f, form, n) ==
  /\ queue = <<>>
  /\ \E refs \in FilerHistory(f, form, n) :
       queue' = SubSeq(refs, 1, Min({HistoryLimit, Len(refs)}))
  /\ UNCHANGED <<tables, offered, page, request>>

JobIngests == queue # <<>> /\ Ingest(Head(queue)) /\ queue' = Tail(queue)

\* ingest_filing returns None: ingested before, or it failed and was rolled back.
JobSkips ==
  /\ queue # <<>> /\ queue' = Tail(queue)
  /\ UNCHANGED <<tables, offered, page, request>>

\* An exception ends the background task; nobody hears of it.
JobDies ==
  /\ queue # <<>> /\ queue' = <<>>
  /\ UNCHANGED <<tables, offered, page, request>>

Trigger == \E r \in Discovered : TriggerIngest(r.cik, Doc[r.acc].form, r.name)
Job     == Trigger \/ JobIngests \/ JobSkips \/ JobDies

-----------------------------------------------------------------------------
(* Queries *)

\* The lines of the filings of family fam.  They are the rows of its child table,
\* holding, fund_holding or ownership_stake ...
ChildTable(fam) ==
  UNION {{a} \X DOMAIN filing[a].lines :
           a \in {b \in Accession : filing[b] # NoRow /\ filing[b].fam = fam}}

FilingOf(h) == filing[h[1]]
KeyOf(h)    == FilingOf(h).lines[h[2]].key

\* ... except for Forms 3/4/5, whose rows are the transactions.
InsiderTxn == UNION {{h[1]} \X {h[2]} \X DOMAIN FilingOf(h).lines[h[2]].txns :
                       h \in ChildTable("OWNERSHIP")}

TxnDate(t) == FilingOf(t).lines[t[2]].txns[t[3]]

FiledRows(fam, f) == {h \in ChildTable(fam) : FilingOf(h).cik = f}

\* A mutant: the filer is left out of the WHERE clause.
RowsForAnyone(fam, f, p) == {h \in ChildTable(fam) : p # NoPeriod /\ FilingOf(h).period = p}

RowsFor(fam, f, p) == {h \in FiledRows(fam, f) : p # NoPeriod /\ FilingOf(h).period = p}

\* A mutant: DESC without NULLS LAST puts the undated filings first.
NewestNullsFirst(periods) == IF NoPeriod \in periods THEN NoPeriod ELSE Max(periods)

\* ORDER BY period DESC NULLS LAST LIMIT 1, of a nonempty set.
Newest(periods) == Max(periods)

LatestOf(periods) == IF periods = {} THEN NoPeriod ELSE Newest(periods)

\* The default period of a request about filer f: of the 13F filings (with rows
\* or without), of the changes, of the fund holdings.
LatestPeriod(op, f) ==
  CASE op = "detail" ->
         LatestOf({filing[a].period : a \in {b \in Accession :
                     filing[b] # NoRow /\ filing[b].cik = f /\ filing[b].fam = "13F"}})
    [] op = "changes" -> LatestOf({p \in Period : change[<<f, p>>] # {}})
    [] op = "funds"   -> LatestOf({FilingOf(h).period : h \in FiledRows("NPORT", f)})

\* ORDER BY rank DESC NULLS LAST LIMIT n of the rows that rank is a function on, NULL
\* being 0; which of several with the same rank remain is not fixed.
Top(rank, n) ==
  {A \in SUBSET DOMAIN rank :
     /\ A = DOMAIN rank \/ Cardinality(A) = n
     /\ Cardinality(A) <= n
     /\ \A h \in A, out \in DOMAIN rank \ A : rank[out] <= rank[h]}

\* A mutant: the last row of each filer overwrites the earlier ones.
LastPerFiler(rows) ==
  {g \in [{FilingOf(h).cik : h \in rows} -> rows] :
     \A f \in DOMAIN g :
       /\ FilingOf(g[f]).cik = f
       /\ \A h \in rows : FilingOf(h).cik = f => FilingOf(h).period >= FilingOf(g[f]).period}

\* One row per filer, of its newest period; which one of several is not fixed.
FirstPerFiler(rows) ==
  {g \in [{FilingOf(h).cik : h \in rows} -> rows] :
     \A f \in DOMAIN g :
       /\ FilingOf(g[f]).cik = f
       /\ \A h \in rows : FilingOf(h).cik = f => FilingOf(h).period <= FilingOf(g[f]).period}

HoldersOf(keys) == FirstPerFiler({h \in ChildTable("13F") : KeyOf(h) \in keys})

\* A mutant: the join before migration 0003.
IssuerSecuritiesByName(f, n) ==
  {k \in DOMAIN security : security[k]["name"] # None /\ security[k]["name"] = n}

\* The securities of company f: by its CIK, or by the name n it had when resolved.
IssuerSecurities(f, n) ==
  {k \in DOMAIN security :
     \/ security[k]["issuer"] = CikText[f]
     \/ security[k]["name"] # None /\ security[k]["name"] = n}

-----------------------------------------------------------------------------
(* Response models: the answers of each request, in the database of now *)

Date == Period \cup {NoPeriod}

FilerDetailOut(f) == [period : Date, holdings : SUBSET FiledRows("13F", f)]
PeriodOut(f)      == [period : Period, holdings : SUBSET FiledRows("13F", f)]
ChangesOut        == [period : Date, changes : SUBSET
                        [security : Key, prev_period : Date, action : {"NEW", "ADD", "TRIM", "EXIT"},
                         shares_delta : Int, value_delta : Int]]
HolderOut(g)      == \A f \in DOMAIN g : f \in Cik /\ g[f] \in FiledRows("13F", f)
IssuerActivityOut(a) ==
  /\ a.txns \subseteq InsiderTxn
  /\ a.stakes \subseteq ChildTable("STAKE")
  /\ HolderOut(a.holders)

-----------------------------------------------------------------------------
(* Requests.  `seen' is what was committed when the request was sent. *)

Committed == {a \in Accession : filing[a] # NoRow}

Send(op, of, asked) ==
  request' = [op |-> op, of |-> of, asked |-> asked, at |-> "resolve", seen |-> Committed,
              period |-> asked, name |-> None, keys |-> {}, answer |-> <<>>]

Settled == request.at \in {"idle", "answered", "missing"}

\* The filer page asks for the detail first, for the period in its address ...
OpenPage(f, p) ==
  /\ Settled
  /\ page' = NoPage
  /\ Send("detail", f, p)
  /\ UNCHANGED <<tables, offered, queue>>

\* ... and then for everything else at once, for the same one.
Follow(op) ==
  /\ Settled /\ page # NoPage
  /\ Send(op, page.of, IF op \in {"changes", "funds"} THEN page.asked ELSE NoPeriod)
  /\ UNCHANGED <<tables, offered, queue, page>>

\* GET /securities/{cusip}/holders
OpenSecurity(cusip) ==
  /\ Settled
  /\ page' = NoPage
  /\ Send("holders", cusip, NoPeriod)
  /\ UNCHANGED <<tables, offered, queue>>

\* The next statement, unless the request ends here.
Reach(label) == request' = [request EXCEPT !.at = label]
Answer(a)    == request' = [request EXCEPT !.at = "answered", !.answer = a]

At(op, label) == request.at = label /\ request.op = op
Only          == UNCHANGED <<tables, offered, queue, page>>

\* _resolve_filer: 404 for a filer without a row.
ResolveFiler ==
  /\ request.at = "resolve" /\ request.op # "holders"
  /\ IF request.op = "issuer" /\ latest[request.of] # 0
       THEN request' = [request EXCEPT !.at = "securities", !.name = named[request.of]]
       ELSE Reach(IF latest[request.of] = 0 THEN "missing"
                  ELSE IF request.op \in {"detail", "changes", "funds"} /\ request.asked = NoPeriod
                       THEN "period" ELSE "rows")
  /\ Only

ResolvePeriod ==
  /\ request.at = "period"
  /\ request' = [request EXCEPT !.period = LatestPeriod(request.op, request.of), !.at = "rows"]
  /\ Only

\* Holdings of any filing for the period: only 13F filings have rows in the table.
Detail ==
  /\ At("detail", "rows")
  /\ LET rows == RowsFor("13F", request.of, request.period)
     IN  /\ Answer([period |-> request.period, holdings |-> rows])
         /\ page' = [of |-> request.of, asked |-> request.asked,
                     period |-> request.period, holdings |-> rows]
  /\ UNCHANGED <<tables, offered, queue>>

\* A mutant: the form is compared exactly, amendments are left out.
PeriodsExactForm ==
  /\ At("periods", "rows")
  /\ LET RowsOf(p) == {h \in RowsFor("13F", request.of, p) : Doc[h[1]].form = "13F-HR"}
     IN  Answer({[period |-> p, holdings |-> RowsOf(p)] : p \in {q \in Period : RowsOf(q) # {}}})
  /\ Only

Periods ==
  /\ At("periods", "rows")
  /\ LET RowsOf(p) == RowsFor("13F", request.of, p)
     IN  Answer({[period |-> p, holdings |-> RowsOf(p)] : p \in {q \in Period : RowsOf(q) # {}}})
  /\ Only

Changes ==
  /\ At("changes", "rows")
  /\ Answer([period |-> request.period,
             changes |-> IF request.period = NoPeriod THEN {}
                         ELSE change[<<request.of, request.period>>]])
  /\ Only

FundHoldings ==
  /\ At("funds", "rows")
  /\ LET rows == RowsFor("NPORT", request.of, request.period)
     IN  \E A \in Top([h \in rows |-> FilingOf(h).lines[h[2]].value], ListLimit) : Answer(A)
  /\ Only

StakesHeld ==
  /\ At("stakes", "rows")
  /\ LET rows == FiledRows("STAKE", request.of)
     IN  \E A \in Top([h \in rows |-> FilingOf(h).filed], ListLimit) : Answer(A)
  /\ Only

\* issuer-activity: without a security there is nothing to ask for.
IssuerActivity ==
  /\ At("issuer", "securities")
  /\ LET ks == IssuerSecurities(request.of, request.name)
     IN  request' = [request EXCEPT
                       !.keys   = ks,
                       !.answer = [txns |-> {}, stakes |-> {}, holders |-> <<>>],
                       !.at     = IF ks = {} THEN "answered" ELSE "txns"]
  /\ Only

\* A mutant: the oldest trades first.
InsiderTxnsAscending ==
  /\ At("issuer", "txns")
  /\ LET rows == {t \in InsiderTxn : KeyOf(t) \in request.keys}
     IN  \E A \in Top([t \in rows |-> -TxnDate(t)], ListLimit) :
           request' = [request EXCEPT !.at = "stakes", !.answer.txns = A]
  /\ Only

InsiderTxns ==
  /\ At("issuer", "txns")
  /\ LET rows == {t \in InsiderTxn : KeyOf(t) \in request.keys}
     IN  \E A \in Top([t \in rows |-> TxnDate(t)], ListLimit) :
           request' = [request EXCEPT !.at = "stakes", !.answer.txns = A]
  /\ Only

StakesIn ==
  /\ At("issuer", "stakes")
  /\ LET rows == {h \in ChildTable("STAKE") : KeyOf(h) \in request.keys}
     IN  \E A \in Top([h \in rows |-> FilingOf(h).filed], ListLimit) :
           request' = [request EXCEPT !.at = "holders", !.answer.stakes = A]
  /\ Only

\* One row per filer as for a security's holders, the largest of them.
TopHolders ==
  /\ At("issuer", "holders")
  /\ \E g \in HoldersOf(request.keys) :
       \E F \in Top([f \in DOMAIN g |-> FilingOf(g[f]).lines[g[f][2]].value], ListLimit) :
         Answer([request.answer EXCEPT !.holders = [f \in F |-> g[f]]])
  /\ Only

\* The CUSIP is looked up first; nothing but the key makes its row the only one.
ResolveSecurity ==
  /\ At("holders", "resolve")
  /\ LET found == {k \in DOMAIN security : security[k]["cusip"] = request.of}
     IN  \/ found = {} /\ Reach("missing")
         \/ \E k \in found : request' = [request EXCEPT !.keys = {k}, !.at = "rows"]
  /\ Only

Holders ==
  /\ At("holders", "rows")
  /\ \E g \in HoldersOf(request.keys) : Answer(g)
  /\ Only

Statement ==
  \/ ResolveFiler \/ ResolvePeriod \/ ResolveSecurity
  \/ Detail \/ Periods \/ Changes \/ FundHoldings \/ StakesHeld \/ Holders
  \/ IssuerActivity \/ InsiderTxns \/ StakesIn \/ TopHolders

Browse ==
  \/ \E f \in Cik, p \in Period \cup {NoPeriod} : OpenPage(f, p)
  \/ \E op \in {"periods", "changes", "funds", "stakes", "issuer"} : Follow(op)
  \/ \E c \in Text : OpenSecurity(c)

Next == IngestElsewhere \/ Job \/ Browse \/ Statement

Spec == Init /\ [][Next]_vars

\* Nobody but the targeted ingest fills the database.
JobSpec == Init /\ [][Job]_vars

-----------------------------------------------------------------------------
(* Properties *)

Answered(op) == request.at = "answered" /\ request.op = op

\* Every variable has its type, and an answer its response model, made of
\* committed rows of the filer that was asked for.
TypeOK ==
  /\ offered \in Offers
  /\ \A k \in DOMAIN security : k \in Key /\ security[k] \in SecurityRef
  /\ named \in [Cik -> Value]
  /\ queue \in Seq(Ref)
  /\ Answered("detail")  => request.answer \in FilerDetailOut(request.of)
  /\ Answered("periods") => request.answer \subseteq PeriodOut(request.of)
  /\ Answered("changes") => request.answer.period \in Date /\ request.answer \in ChangesOut
  /\ Answered("funds")   => request.answer \subseteq FiledRows("NPORT", request.of)
  /\ Answered("stakes")  => request.answer \subseteq FiledRows("STAKE", request.of)
  /\ Answered("holders") => HolderOut(request.answer)
  /\ Answered("issuer")  => IssuerActivityOut(request.answer)

\* What the 13F or fund filings of f that were committed before the request say.
SeenPeriods(fam, f) ==
  {filing[a].period : a \in {b \in request.seen : filing[b].cik = f /\ filing[b].fam = fam}}

\* "defaults to latest": without a period in its address the portfolio is of the
\* newest dated 13F that was there when it was asked for, or of a later one, and
\* fund holdings with a date are shown; a filing whose period could not be read
\* hides neither.
LatestShown ==
  /\ Answered("detail") /\ request.asked = NoPeriod =>
       \A p \in SeenPeriods("13F", request.of) : p <= request.answer.period
  /\ Answered("funds") /\ request.asked = NoPeriod =>
       \A h \in FiledRows("NPORT", request.of) :
         h[1] \in request.seen /\ FilingOf(h).period # NoPeriod => request.answer # {}

\* The quarter selector and the portfolio agree, though filings are committed
\* between the two requests and only one of them filters by form: the quarter that
\* shows holdings can be selected, with at least the positions shown.
PeriodsAgree ==
  Answered("periods") /\ page.holdings # {} =>
    \E out \in request.answer :
      out.period = page.period /\ page.holdings \subseteq out.holdings

\* Nothing the portfolio shows is listed as sold: when the changes are of the same
\* quarter, whatever was ingested in between, no security held is an EXIT.
NoExitHeld ==
  Answered("changes") /\ request.answer.period = page.period =>
    \A h \in page.holdings, row \in request.answer.changes :
      FilingOf(h).lines[h[2]].shares > 0 /\ row.security = KeyOf(h) => row.action # "EXIT"

\* The holders of a security are complete and up to date: every institution that
\* had reported it is listed with its newest such report, or one made since.
HoldersComplete ==
  Answered("holders") =>
    \A h \in ChildTable("13F") :
      h[1] \in request.seen /\ KeyOf(h) \in request.keys =>
        /\ FilingOf(h).cik \in DOMAIN request.answer
        /\ FilingOf(request.answer[FilingOf(h).cik]).period >= FilingOf(h).period

\* No ticker has passed from one company to another.
TickersNameOne ==
  \A a, b \in offered :
    \A i \in DOMAIN Doc[a].lines, j \in DOMAIN Doc[b].lines :
      LET r == Doc[a].lines[i].ref  q == Doc[b].lines[j].ref
      IN  r["ticker"] # None /\ r["ticker"] = q["ticker"] => r["issuer"] = q["issuer"]

\* The company side joins exactly where the filing names the issuer (Form 3/4/5):
\* an insider trade in a company that was there when its page was asked for is on
\* it, whatever the names are, or the list is full of trades that are not older (a
\* trade without a date being the oldest).  The external assumption is needed: a
\* security is known by its ticker and keeps the issuer it was first seen with.
CompanySeesTrades ==
  Answered("issuer") /\ TickersNameOne =>
    \A t \in InsiderTxn :
      t[1] \in request.seen /\ Doc[t[1]].lines[t[2]].ref["issuer"] = CikText[request.of] =>
        \/ t \in request.answer.txns
        \/ /\ Cardinality(request.answer.txns) = ListLimit
           /\ \A u \in request.answer.txns : TxnDate(u) >= TxnDate(t)

\* A CUSIP, which the API takes for a security's name, names one security, though
\* only the derived key is unique.
CusipNamesOne ==
  \A k, l \in DOMAIN security :
    security[k]["cusip"] # None /\ security[k]["cusip"] = security[l]["cusip"] => k = l

\* "stakes this filer holds in other companies" (filers.py), "who holds the stake"
\* (schemas.py).  Does not hold: the filing belongs to the listing under which it
\* was discovered first, and a 13D is listed under its subject too.
StakesAreHeld ==
  Answered("stakes") =>
    \A h \in request.answer : Doc[h[1]].lines[h[2]].ref["issuer"] # CikText[request.of]

=============================================================================
