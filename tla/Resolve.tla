------------------------------ MODULE Resolve ------------------------------
(***************************************************************************)
(* backend/app/ingest/resolve.py: the canonical key of a security and the  *)
(* enrichment of a security row.  A reference to a security and a row of   *)
(* the security table have the same four identifying columns; None is an   *)
(* absent (or empty) value, and in a row's name it is the placeholder the  *)
(* code writes there, the key itself.                                      *)
(***************************************************************************)
CONSTANTS Text,     \* CUSIPs, tickers, CIKs and names, abstractly
          None,     \* an absent value
          Short     \* Short[n]: the first 24 characters of the name n

Column == {"cusip", "ticker", "issuer", "name"}

Value == Text \cup {None}

ASSUME TextAssumption == None \notin Text /\ Short \in [Value -> Value]

SecurityRef == [Column -> Value]

Key == {"CUSIP", "TICKER", "CIK", "NAME"} \X Value

\* A mutant: the issuer's CIK, which joins exactly, is preferred.
SecurityKeyByIssuer(ref) ==
  CASE ref["issuer"] # None -> <<"CIK", ref["issuer"]>>
    [] ref["issuer"] = None /\ ref["cusip"] # None -> <<"CUSIP", ref["cusip"]>>
    [] OTHER -> <<"NAME", Short[ref["name"]]>>

\* The best identifier available: CUSIP, ticker, issuer CIK, name prefix.
SecurityKey(ref) ==
  CASE ref["cusip"] # None -> <<"CUSIP", ref["cusip"]>>
    [] ref["cusip"] = None /\ ref["ticker"] # None -> <<"TICKER", ref["ticker"]>>
    [] ref["cusip"] = None /\ ref["ticker"] = None /\ ref["issuer"] # None ->
         <<"CIK", ref["issuer"]>>
    [] OTHER -> <<"NAME", Short[ref["name"]]>>

\* The row inserted for a security seen for the first time.
NewSecurity(ref) == ref

\* The columns a richer reference fills in, judged by the row as selected.
Updates(row, ref) == {c \in Column : ref[c] # None /\ row[c] = None}

\* UPDATE security SET <those columns>: applied to the row as it is now.
Enriched(row, columns, ref) ==
  [c \in Column |-> IF c \in columns THEN ref[c] ELSE row[c]]

=============================================================================
