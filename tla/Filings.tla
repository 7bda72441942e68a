------------------------------ MODULE Filings ------------------------------
(***************************************************************************)
(* What EDGAR offers (external, immutable) and what the per-form handlers  *)
(* of backend/app/ingest/pipeline.py read from it.  Doc[a] describes the   *)
(* filing with accession number a:                                         *)
(*   ciks    the companies it is listed under (a 13D appears under the     *)
(*           subject and under the beneficial owner, a Form 4 under the    *)
(*           issuer and the insider): a discovered reference carries any   *)
(*   names   the spellings of the filer's name in the feed and the indexes *)
(*   form, filed, period                                                   *)
(*   main    the handler finds its main document in the listing            *)
(*   table   a 13F's information table is found                            *)
(*   lines   what parsing yields: a security reference per child row, with *)
(*           its amounts.  A Form 3/4/5 names one security, its issuer, in *)
(*           one line, with the dates of the transactions in it (0 is no   *)
(*           date), of which there may be none; other forms have no dates. *)
(***************************************************************************)
EXTENDS Integers, Sequences, FiniteSets, SequencesExt, Diff, Resolve

CONSTANTS Accession, Cik, Period, Doc

Line    == [ref : SecurityRef, shares : Nat, value : Nat, txns : Seq(Nat)]
Outcome == [period : Period \cup {NoPeriod}, lines : Seq(Line)]

ASSUME DocAssumption ==
  /\ Period \subseteq Nat \ {NoPeriod} /\ IsFiniteSet(Accession)
  /\ Doc \in [Accession ->
                [ciks : SUBSET Cik, names : SUBSET Value, form : STRING,
                 filed : Nat \ {0}, period : Period \cup {NoPeriod},
                 main : BOOLEAN, table : BOOLEAN, lines : Seq(Line)]]

\* A FilingRef: one of the listings under which a filing was discovered.
Ref == {r \in [acc : Accession, cik : Cik, name : Value] :
          r.cik \in Doc[r.acc].ciks /\ r.name \in Doc[r.acc].names}

Families == {"13F", "OWNERSHIP", "STAKE", "NPORT"}

Unsupported == "unsupported"

\* form is the form `base' or an amendment of it, "base/A".
Amends(form, base) == form = base \/ IsPrefix(base \o "/", form)

\* The handler family of a form type, which EDGAR writes in capitals.  (A prefix
\* of the form is one of what stands before the "/": none of these has a "/".)
Family(form) ==
  CASE IsPrefix("13F", form)                                         -> "13F"
    [] \E base \in {"3", "4", "5"} : Amends(form, base)              -> "OWNERSHIP"
    [] \/ IsPrefix("SC 13D", form) \/ IsPrefix("SC 13G", form)
       \/ \E base \in {"13D", "13G"} : Amends(form, base)            -> "STAKE"
    [] IsPrefix("NPORT", form)                                       -> "NPORT"
    [] OTHER                                                         -> Unsupported

FamilyOf(a) == Family(Doc[a].form)

\* A Form 3/4/5 gives its issuer's ticker, CIK and name, never a CUSIP.
ASSUME OwnershipAssumption ==
  \A a \in Accession : FamilyOf(a) = "OWNERSHIP" =>
    \A i \in DOMAIN Doc[a].lines : Doc[a].lines[i].ref["cusip"] = None

Empty == [period |-> NoPeriod, lines |-> <<>>]

\* A 13F without a table still has its period.
Handle13F(d) ==
  [period |-> IF d.main THEN d.period ELSE NoPeriod,
   lines  |-> IF d.table THEN d.lines ELSE <<>>]

\* Forms 3/4/5 and N-PORT: the one document, or nothing.  (A Form 3/4/5 has its
\* security resolved whether or not it reports transactions.)
HandleOwnership(d) == IF d.main THEN [period |-> d.period, lines |-> d.lines] ELSE Empty
HandleNport(d)     == IF d.main THEN [period |-> d.period, lines |-> d.lines] ELSE Empty

\* A stake: a name missing on the cover page is taken from the reference, and
\* the issuer's CIK is lost when the fetch of the SGML header fails.
HandleStake(d, name, headerRead) ==
  LET Cover(ref)  == [ref EXCEPT !["name"] = IF @ = None THEN name ELSE @]
      Issuer(ref) == IF headerRead THEN ref ELSE [ref EXCEPT !["issuer"] = None]
  IN  IF d.main
        THEN [period |-> d.period,
              lines  |-> [i \in DOMAIN d.lines |->
                            [d.lines[i] EXCEPT !.ref = Issuer(Cover(@))]]]
        ELSE Empty

\* Every result the handler's reads can have for reference r.
Fetched(r) ==
  LET d == Doc[r.acc]
  IN  CASE Family(d.form) = "13F"       -> {Handle13F(d)}
        [] Family(d.form) = "OWNERSHIP" -> {HandleOwnership(d)}
        [] Family(d.form) = "STAKE"     -> {HandleStake(d, r.name, b) : b \in BOOLEAN}
        [] Family(d.form) = "NPORT"     -> {HandleNport(d)}
        [] OTHER                        -> {}

\* What a handler leaves of one line: its child row or, of a Form 3/4/5, one for
\* each transaction.
ChildRow(line) ==
  [key |-> SecurityKey(line.ref), shares |-> line.shares, value |-> line.value,
   txns |-> line.txns]

\* The child rows of the first n lines.
ChildRows(lines, n) == [i \in 1..n |-> ChildRow(lines[i])]

\* The versions of a row of the filer and filing tables.
FilerVersion  == [name : Value, latest : Nat]
FilingVersion ==
  [cik : Cik, fam : Families, filed : Nat, period : Period \cup {NoPeriod},
   lines : Seq([key : Key, shares : Nat, value : Nat, txns : Seq(Nat)])]

ASSUME NoRowAssumption == NoRow \notin FilerVersion \cup FilingVersion \cup SecurityRef

\* A filing row for reference r.
FilingWith(r, period, rows) ==
  [cik |-> r.cik, fam |-> FamilyOf(r.acc), filed |-> Doc[r.acc].filed,
   period |-> period, lines |-> rows]

\* As INSERTed, and as the pipeline leaves it.
NewFiling(r)       == FilingWith(r, NoPeriod, <<>>)
StoredFiling(r, o) == FilingWith(r, o.period, ChildRows(o.lines, Len(o.lines)))

=============================================================================
