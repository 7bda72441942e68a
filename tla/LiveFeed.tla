------------------------------ MODULE LiveFeed ------------------------------
(***************************************************************************)
(* frontend/src/components/LiveFeed.tsx and the query it polls, GET        *)
(* /filings (backend/app/api/routers/filings.py): the server reads the     *)
(* database at one moment, the browser gets the answer at a later one, and *)
(* requests overtake each other.  Changing the filter runs the effect      *)
(* again: its cleanup clears the flag `active' of the requests under way.  *)
(* Module Deployment says when the server answers.                         *)
(***************************************************************************)
EXTENDS Naturals, FiniteSets

CONSTANTS Filing, FormOf, FiledAt,  \* the filings, their form types and dates
          Form, All,                \* the filter buttons (not every form has one), and
                                    \* the one without a filter
          FeedSize,                 \* the LIMIT of the query
          Slot                      \* bounds the requests under way at a time

ASSUME FeedAssumption ==
  /\ All \in Form
  /\ \A x \in Filing : FormOf[x] # All /\ FiledAt[x] \in Nat
  /\ FeedSize \in Nat \ {0}

VARIABLES
  stored,    \* the committed filings
  form,      \* the selected filter
  inflight,  \* inflight[i]: a request of the page
  shown,     \* the list on the screen
  error      \* "Could not reach API" is on the screen instead of an empty list

feedVars == <<stored, form, inflight, shown, error>>

Requests == [state : {"free", "sent", "answered", "failed"}, form : Form,
             active : BOOLEAN, rows : SUBSET Filing]

Free == [state |-> "free", form |-> All, active |-> FALSE, rows |-> {}]

\* A click or a timer starts a request for filter g.
Sent(g) == [state |-> "sent", form |-> g, active |-> TRUE, rows |-> {}]

Matches(x, g) == g \in {All, FormOf[x]}

\* The newest FeedSize filings that pass filter g (the dates are different).
Feed(g) ==
  LET found == {x \in stored : Matches(x, g)}
  IN  {x \in found : Cardinality({y \in found : FiledAt[y] > FiledAt[x]}) < FeedSize}

\* The page is loaded: the effect runs for the first time.
FeedInit ==
  /\ stored = {}
  /\ form = All
  /\ \E i \in Slot : inflight = [j \in Slot |-> IF j = i THEN Sent(All) ELSE Free]
  /\ shown = {} /\ error = FALSE

\* Every 30 seconds.
Poll ==
  /\ \E i \in Slot :
       inflight[i] = Free /\ inflight' = [inflight EXCEPT ![i] = Sent(form)]
  /\ UNCHANGED <<stored, form, shown, error>>

\* A mutant: the effect has no cleanup.
ClickWithoutCleanup(g) ==
  /\ g # form /\ form' = g
  /\ \E i \in Slot :
       inflight[i] = Free /\ inflight' = [inflight EXCEPT ![i] = Sent(g)]
  /\ UNCHANGED <<stored, shown, error>>

\* Another filter: cleanup of the old effect, first request of the new one.
Click(g) ==
  /\ g # form /\ form' = g
  /\ \E i \in Slot :
       /\ inflight[i] = Free
       /\ inflight' = [j \in Slot |->
            IF j = i THEN Sent(g)
            ELSE IF inflight[j] = Free THEN Free ELSE [inflight[j] EXCEPT !.active = FALSE]]
  /\ UNCHANGED <<stored, shown, error>>

\* The server runs the query ...
Respond(i) ==
  /\ inflight[i].state = "sent"
  /\ inflight' = [inflight EXCEPT ![i].state = "answered", ![i].rows = Feed(inflight[i].form)]
  /\ UNCHANGED <<stored, form, shown, error>>

\* ... or the request fails.
Refuse(i) ==
  /\ inflight[i].state = "sent"
  /\ inflight' = [inflight EXCEPT ![i].state = "failed"]
  /\ UNCHANGED <<stored, form, shown, error>>

\* A mutant: the flag is not looked at.
DeliverAlways(i) ==
  /\ inflight[i].state \in {"answered", "failed"}
  /\ shown' = IF inflight[i].state = "answered" THEN inflight[i].rows ELSE shown
  /\ error' = (inflight[i].state = "failed")
  /\ inflight' = [inflight EXCEPT ![i] = Free]
  /\ UNCHANGED <<stored, form>>

\* A mutant: a success does not clear the error.
DeliverKeepsError(i) ==
  /\ inflight[i].state \in {"answered", "failed"}
  /\ LET r == inflight[i]
     IN  /\ shown' = IF r.active /\ r.state = "answered" THEN r.rows ELSE shown
         /\ error' = (error \/ (r.active /\ r.state = "failed"))
  /\ inflight' = [inflight EXCEPT ![i] = Free]
  /\ UNCHANGED <<stored, form>>

\* The browser gets the answer and ignores it unless its effect is still active.
Deliver(i) ==
  /\ inflight[i].state \in {"answered", "failed"}
  /\ LET r == inflight[i]
     IN  /\ shown' = IF r.active /\ r.state = "answered" THEN r.rows ELSE shown
         /\ error' = IF r.active THEN r.state = "failed" ELSE error
  /\ inflight' = [inflight EXCEPT ![i] = Free]
  /\ UNCHANGED <<stored, form>>

-----------------------------------------------------------------------------

\* Every variable has its type.
FeedTypeOK ==
  /\ stored \subseteq Filing /\ form \in Form
  /\ inflight \in [Slot -> Requests]
  /\ shown \subseteq Filing /\ error \in BOOLEAN

\* What keeps the list right: an active request asks for the present filter, and an
\* answer, like the list, holds only committed filings and passes its filter.
FeedInv ==
  /\ FeedTypeOK
  /\ shown \subseteq stored
  /\ \A i \in Slot :
       /\ inflight[i].active => inflight[i].form = form
       /\ inflight[i].rows \subseteq {x \in stored : Matches(x, inflight[i].form)}

\* The answer to a filter that was left never replaces the list of the present one,
\* however late it comes, nor its error message.
ShownIsAsked ==
  [][/\ shown' # shown => \A x \in shown' : Matches(x, form)
     /\ error' # error =>
          \E i \in Slot : inflight[i].active /\ inflight[i].form = form /\ inflight'[i] = Free]_feedVars

=============================================================================
