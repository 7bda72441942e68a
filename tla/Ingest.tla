------------------------------- MODULE Ingest -------------------------------
(***************************************************************************)
(* backend/app/ingest/pipeline.py: ingest_filing, called by the worker,    *)
(* the backfill, the CLI and the API's background task, each a session     *)
(* with a connection of its own.  One action per SQL statement or EDGAR    *)
(* read.  The database is Postgres at READ COMMITTED: a statement reads    *)
(* the committed rows and the session's own writes; a write locks its row  *)
(* until the transaction ends; an INSERT waits for a transaction that has  *)
(* inserted the same key and then succeeds or raises UniqueViolation.      *)
(*                                                                         *)
(* Rows are named by what makes them unique: the filer's CIK, the filing's *)
(* accession number, the security's key.  A filing row carries its child   *)
(* rows.  The share locks of foreign keys conflict with none of the writes *)
(* here (no key column is ever updated) and are left out.                  *)
(***************************************************************************)
EXTENDS Filings

CONSTANTS Session,   \* the connections that call ingest_filing
          Nobody     \* the owner of an unlocked row

ASSUME SessionAssumption == Nobody \notin Session

VARIABLES
  db,      \* db[r]: the committed version of row r, or NoRow
  dirty,   \* dirty[r]: the uncommitted version, NoRow when r is unlocked
  lock,    \* lock[r]: the session whose transaction wrote r, or Nobody
  change,  \* change[<<f, p>>]: the committed holding_change rows
  pc,      \* pc[s]: the next statement of session s's call
  ref,     \* ref[s]: the FilingRef being ingested, NoRow between calls
  out,     \* out[s]: what the handler read from EDGAR
  pos,     \* pos[s]: the handler's loop index into out[s].lines
  cols,    \* cols[s]: the security columns chosen for enrichment
  diff     \* diff[s]: the uncommitted holding_change rows

tables == <<db, dirty, lock>>
locals == <<out, pos, cols, diff>>
vars   == <<db, dirty, lock, change, pc, ref, out, pos, cols, diff>>

Row == ({"filer"} \X Cik) \cup ({"filing"} \X Accession) \cup ({"security"} \X Key)

FilerRow(s)    == <<"filer", ref[s].cik>>
FilingRow(s)   == <<"filing", ref[s].acc>>
CurrentLine(s) == out[s].lines[pos[s]]
SecurityRow(s) == <<"security", SecurityKey(CurrentLine(s).ref)>>

\* What a statement of session s sees of row r, and whether it may write it.
View(s, r) == IF lock[r] = s THEN dirty[r] ELSE db[r]
Free(s, r) == lock[r] \in {Nobody, s}

Write(s, r, v) ==
  /\ Free(s, r)
  /\ lock' = [lock EXCEPT ![r] = s]
  /\ dirty' = [dirty EXCEPT ![r] = v]
  /\ UNCHANGED db

\* A mutant: the diff reads through another connection.
OwnFilingsElsewhere(s) == FiledBy([a \in Accession |-> db[<<"filing", a>>]], ref[s].cik)

\* A filer's filings as session s sees them.
OwnFilings(s) == FiledBy([a \in Accession |-> View(s, <<"filing", a>>)], ref[s].cik)

HasDiff(s) == FamilyOf(ref[s].acc) = "13F" /\ out[s].period # NoPeriod

Init ==
  /\ db = [r \in Row |-> NoRow]
  /\ dirty = [r \in Row |-> NoRow]
  /\ lock = [r \in Row |-> Nobody]
  /\ change = [x \in Cik \X Period |-> {}]
  /\ pc = [s \in Session |-> "idle"]
  /\ ref = [s \in Session |-> NoRow]
  /\ out = [s \in Session |-> Empty]
  /\ pos = [s \in Session |-> 1]
  /\ cols = [s \in Session |-> {}]
  /\ diff = [s \in Session |-> {}]

Goto(s, label) == pc' = [pc EXCEPT ![s] = label]

\* The call returns: no row stays locked and the locals are gone.
Unlock(s) ==
  /\ lock' = [r \in Row |-> IF lock[r] = s THEN Nobody ELSE lock[r]]
  /\ dirty' = [r \in Row |-> IF lock[r] = s THEN NoRow ELSE dirty[r]]

Return(s) ==
  /\ Goto(s, "idle")
  /\ ref' = [ref EXCEPT ![s] = NoRow]
  /\ out' = [out EXCEPT ![s] = Empty]
  /\ pos' = [pos EXCEPT ![s] = 1]
  /\ cols' = [cols EXCEPT ![s] = {}]
  /\ diff' = [diff EXCEPT ![s] = {}]

Rollback(s) == Unlock(s) /\ UNCHANGED <<db, change>>

-----------------------------------------------------------------------------
(* The call up to the INSERT of the filing. *)

\* already_ingested or no family: the call returns at once.
CallReturnsAtOnce(s) ==
  /\ pc[s] = "idle"
  /\ \E r \in Ref : db[<<"filing", r.acc>>] # NoRow \/ FamilyOf(r.acc) = Unsupported
  /\ UNCHANGED vars

Call(s) ==
  /\ pc[s] = "idle"
  /\ \E r \in Ref :
       /\ db[<<"filing", r.acc>>] = NoRow
       /\ FamilyOf(r.acc) # Unsupported
       /\ ref' = [ref EXCEPT ![s] = r]
  /\ Goto(s, "filer")
  /\ UNCHANGED <<tables, change, locals>>

SelectFiler(s) ==
  /\ pc[s] = "filer"
  /\ LET row == View(s, FilerRow(s))
     IN  Goto(s, IF row = NoRow THEN "newfiler"
                 ELSE IF ref[s].name \notin {None, row.name} THEN "rename"
                 ELSE "filing")
  /\ UNCHANGED <<tables, change, ref, locals>>

InsertFiler(s) ==
  /\ pc[s] = "newfiler"
  /\ db[FilerRow(s)] = NoRow
  /\ Write(s, FilerRow(s), [name |-> ref[s].name, latest |-> 0])
  /\ Goto(s, "filing")
  /\ UNCHANGED <<change, ref, locals>>

RenameFiler(s) ==
  /\ pc[s] = "rename"
  /\ Write(s, FilerRow(s), [View(s, FilerRow(s)) EXCEPT !.name = ref[s].name])
  /\ Goto(s, "filing")
  /\ UNCHANGED <<change, ref, locals>>

InsertFiling(s) ==
  /\ pc[s] = "filing"
  /\ db[FilingRow(s)] = NoRow
  /\ Write(s, FilingRow(s), NewFiling(ref[s]))
  /\ Goto(s, "fetch")
  /\ UNCHANGED <<change, ref, locals>>

-----------------------------------------------------------------------------
(* The handler. *)

AfterLine(s, n, lines) == Goto(s, IF n > Len(lines) THEN "touch" ELSE "security")

\* The EDGAR reads, made with the transaction open.
Fetch(s) ==
  /\ pc[s] = "fetch"
  /\ \E o \in Fetched(ref[s]) :
       /\ out' = [out EXCEPT ![s] = o]
       /\ AfterLine(s, 1, o.lines)
  /\ UNCHANGED <<tables, change, ref, pos, cols, diff>>

\* A mutant: a key that any session has resolved is kept in a cache.
SelectSecurityCached(s) ==
  /\ pc[s] = "security"
  /\ LET row    == View(s, SecurityRow(s))
         cached == row = NoRow /\ dirty[SecurityRow(s)] # NoRow
         stale  == IF row = NoRow THEN {} ELSE Updates(row, CurrentLine(s).ref)
     IN  /\ cols' = [cols EXCEPT ![s] = stale]
         /\ Goto(s, IF row = NoRow /\ ~cached THEN "newsecurity"
                    ELSE IF stale # {} THEN "enrich"
                    ELSE "child")
  /\ UNCHANGED <<tables, change, ref, out, pos, diff>>

SelectSecurity(s) ==
  /\ pc[s] = "security"
  /\ LET row   == View(s, SecurityRow(s))
         stale == IF row = NoRow THEN {} ELSE Updates(row, CurrentLine(s).ref)
     IN  /\ cols' = [cols EXCEPT ![s] = stale]
         /\ Goto(s, IF row = NoRow THEN "newsecurity"
                    ELSE IF stale # {} THEN "enrich"
                    ELSE "child")
  /\ UNCHANGED <<tables, change, ref, out, pos, diff>>

InsertSecurity(s) ==
  /\ pc[s] = "newsecurity"
  /\ db[SecurityRow(s)] = NoRow
  /\ Write(s, SecurityRow(s), NewSecurity(CurrentLine(s).ref))
  /\ Goto(s, "child")
  /\ UNCHANGED <<change, ref, locals>>

\* A mutant: the UPDATE names every column of the reference.
EnrichEveryColumn(s) ==
  /\ pc[s] = "enrich"
  /\ Write(s, SecurityRow(s), CurrentLine(s).ref)
  /\ Goto(s, "child")
  /\ cols' = [cols EXCEPT ![s] = {}]
  /\ UNCHANGED <<change, ref, out, pos, diff>>

\* The columns were chosen from the row as selected; the row may have changed.
EnrichSecurity(s) ==
  /\ pc[s] = "enrich"
  /\ Write(s, SecurityRow(s),
           Enriched(View(s, SecurityRow(s)), cols[s], CurrentLine(s).ref))
  /\ Goto(s, "child")
  /\ cols' = [cols EXCEPT ![s] = {}]
  /\ UNCHANGED <<change, ref, out, pos, diff>>

\* For a Form 3/4/5 the INSERTs of all its transactions.
InsertChild(s) ==
  /\ pc[s] = "child"
  /\ LET row == dirty[FilingRow(s)]
     IN  Write(s, FilingRow(s), [row EXCEPT !.lines = Append(@, ChildRow(CurrentLine(s)))])
  /\ pos' = [pos EXCEPT ![s] = @ + 1]
  /\ AfterLine(s, pos[s] + 1, out[s].lines)
  /\ UNCHANGED <<change, ref, out, cols, diff>>

-----------------------------------------------------------------------------
(* After the handler: the two UPDATEs, the diff and the COMMIT. *)

\* A mutant: UPDATE filer ... WHERE latest_filing_at < the new date, which
\* neither changes nor locks the row when the filing is an older one.
TouchWhenLater(s) ==
  /\ pc[s] = "touch"
  /\ Free(s, FilerRow(s))
  /\ LET row   == View(s, FilerRow(s))
         filed == Doc[ref[s].acc].filed
     IN  IF row.latest < filed
           THEN /\ lock' = [lock EXCEPT ![FilerRow(s)] = s]
                /\ dirty' = [dirty EXCEPT ![FilingRow(s)].period = out[s].period,
                                          ![FilerRow(s)] = [row EXCEPT !.latest = filed]]
           ELSE /\ dirty' = [dirty EXCEPT ![FilingRow(s)].period = out[s].period]
                /\ UNCHANGED lock
  /\ Goto(s, IF HasDiff(s) THEN "diff" ELSE "commit")
  /\ UNCHANGED <<db, change, ref, locals>>

Touch(s) ==
  /\ pc[s] = "touch"
  /\ Free(s, FilerRow(s))
  /\ lock' = [lock EXCEPT ![FilerRow(s)] = s]
  /\ dirty' = [dirty EXCEPT
                 ![FilingRow(s)].period = out[s].period,
                 ![FilerRow(s)] = [View(s, FilerRow(s)) EXCEPT
                                     !.latest = Doc[ref[s].acc].filed]]
  /\ Goto(s, IF HasDiff(s) THEN "diff" ELSE "commit")
  /\ UNCHANGED <<db, change, ref, locals>>

ComputeDiff(s) ==
  /\ pc[s] = "diff"
  /\ ~Overflows(OwnFilings(s), out[s].period)
  /\ diff' = [diff EXCEPT ![s] = ComputeChanges(OwnFilings(s), out[s].period)]
  /\ Goto(s, "commit")
  /\ UNCHANGED <<tables, change, ref, out, pos, cols>>

\* Also taken when the commit succeeds and its acknowledgement is lost: the
\* caller then sees an exception, the database the same commit.
Commit(s) ==
  /\ pc[s] = "commit"
  /\ db' = [r \in Row |-> IF lock[r] = s THEN dirty[r] ELSE db[r]]
  /\ change' = IF HasDiff(s)
                 THEN [change EXCEPT ![<<ref[s].cik, out[s].period>>] = diff[s]]
                 ELSE change
  /\ Unlock(s)
  /\ Return(s)

-----------------------------------------------------------------------------
(* The ways a call ends without a commit, each with a rollback. *)

\* INSERT meets a committed row with its key: psycopg raises UniqueViolation.
Inserting(s) ==
  CASE pc[s] = "newfiler"    -> {FilerRow(s)}
    [] pc[s] = "filing"      -> {FilingRow(s)}
    [] pc[s] = "newsecurity" -> {SecurityRow(s)}
    [] OTHER                 -> {}

\* A mutant: the call reports "already done" without a rollback.
DuplicateKeyKeepsTransaction(s) ==
  /\ \E r \in Inserting(s) : Free(s, r) /\ db[r] # NoRow
  /\ Return(s)
  /\ UNCHANGED <<tables, change>>

DuplicateKey(s) ==
  /\ \E r \in Inserting(s) : Free(s, r) /\ db[r] # NoRow
  /\ Rollback(s)
  /\ Return(s)

\* EDGAR unreachable, unparseable document.
FetchFails(s) ==
  /\ pc[s] = "fetch"
  /\ Rollback(s)
  /\ Return(s)

\* A percentage that does not fit pct_change.
DiffFails(s) ==
  /\ pc[s] = "diff"
  /\ Overflows(OwnFilings(s), out[s].period)
  /\ Rollback(s)
  /\ Return(s)

\* The rows a session is about to write; it is blocked while another holds one.
Wanted(s) ==
  CASE pc[s] \in {"rename", "touch"} -> {FilerRow(s)}
    [] pc[s] = "enrich"              -> {SecurityRow(s)}
    [] OTHER                         -> Inserting(s)

Holder(s)  == {lock[r] : r \in Wanted(s)} \ {Nobody, s}

\* Postgres finds a cycle of waits and aborts one of the transactions in it.
DeadlockAbort(s) ==
  /\ \E cycle \in SUBSET Session :
       /\ s \in cycle
       /\ UNION {Holder(t) : t \in cycle} = cycle
       /\ \A t \in cycle : Holder(t) # {}
  /\ Rollback(s)
  /\ Return(s)

\* The process dies or loses its connection; the server rolls back.
Crash(s) ==
  /\ pc[s] # "idle"
  /\ Rollback(s)
  /\ Return(s)

-----------------------------------------------------------------------------
(* The handler's part and the whole. *)

Proceed(s) ==
  \/ SelectFiler(s) \/ InsertFiler(s) \/ RenameFiler(s) \/ InsertFiling(s)
  \/ Fetch(s) \/ SelectSecurity(s) \/ InsertSecurity(s) \/ EnrichSecurity(s)
  \/ InsertChild(s) \/ Touch(s) \/ ComputeDiff(s) \/ Commit(s)
  \/ DuplicateKey(s) \/ DiffFails(s)

Next ==
  \E s \in Session :
    \/ CallReturnsAtOnce(s) \/ Call(s) \/ Proceed(s)
    \/ FetchFails(s) \/ DeadlockAbort(s) \/ Crash(s)

Spec == Init /\ [][Next]_vars

\* A session's statements keep being executed (a row lock is handed on in the
\* order of the requests, so a waiting session is not overtaken for ever), and
\* Postgres runs its deadlock detector.  Nothing makes a session call or fail.
Fairness ==
  \A s \in Session : SF_vars(Proceed(s)) /\ WF_vars(DeadlockAbort(s))

FairSpec == Spec /\ Fairness

-----------------------------------------------------------------------------
(* Types, and the invariant that makes the pipeline correct. *)

BeforeFiling == {"filer", "newfiler", "rename", "filing"}
InLoop       == {"security", "newsecurity", "enrich", "child"}
AfterLoop    == {"touch", "diff", "commit"}
Labels       == {"idle"} \cup BeforeFiling \cup {"fetch"} \cup InLoop \cup AfterLoop

\* The versions a row of each table can have.
Version(r) ==
  CASE r[1] = "filer"    -> FilerVersion
    [] r[1] = "filing"   -> FilingVersion
    [] r[1] = "security" -> SecurityRef

\* The tables: a locked row has a dirty version.
TablesOK ==
  /\ db = [r \in Row |-> db[r]]
  /\ dirty = [r \in Row |-> dirty[r]]
  /\ lock \in [Row -> Session \cup {Nobody}]
  /\ \A r \in Row : db[r] \in Version(r) \cup {NoRow}
  /\ \A r \in Row : lock[r] # Nobody => dirty[r] \in Version(r)

\* The sessions' local state.
LocalsOK ==
  /\ pc \in [Session -> Labels]
  /\ ref \in [Session -> Ref \cup {NoRow}]
  /\ \A s \in Session :
       pc[s] # "idle" => ref[s] \in Ref /\ FamilyOf(ref[s].acc) \in Families
  /\ out \in [Session -> Outcome]
  /\ pos \in [Session -> Nat \ {0}]
  /\ cols \in [Session -> SUBSET Column]
  /\ diff = [s \in Session |-> diff[s]]

\* Every variable has its type.
TypeOK ==
  /\ TablesOK
  /\ LocalsOK
  /\ change = [x \in Cik \X Period |-> change[x]]

\* Row r exists for session s, for good unless s itself rolls back.
Known(s, r) == View(s, r) \in Version(r)

\* A session owns rows only during a call, and of the filer and filing tables
\* only the two rows its call is about.
OwnsOnly(s) ==
  \A r \in Row :
    lock[r] = s => /\ pc[s] # "idle"
                   /\ r[1] = "filer" => r = FilerRow(s)
                   /\ r[1] = "filing" => r = FilingRow(s)

Owners == \A s \in Session : OwnsOnly(s)

\* How far the handler is.
Progress(s) ==
  /\ pc[s] \in {"idle", "fetch"} \cup BeforeFiling => out[s] = Empty /\ pos[s] = 1
  /\ pc[s] \in InLoop => out[s] \in Fetched(ref[s]) /\ pos[s] \in 1..Len(out[s].lines)
  /\ pc[s] \in AfterLoop => out[s] \in Fetched(ref[s]) /\ pos[s] = Len(out[s].lines) + 1

\* What the call has resolved so far exists.
Resolved(s) ==
  /\ pc[s] \notin {"idle", "filer", "newfiler"} => Known(s, FilerRow(s))
  /\ pc[s] \in {"enrich", "child"} => Known(s, SecurityRow(s))
  /\ pc[s] \in InLoop \cup AfterLoop =>
       \A i \in 1..(pos[s] - 1) :
         Known(s, <<"security", SecurityKey(out[s].lines[i].ref)>>)

\* The session's own filing row, uncommitted, with the child rows so far.
FilingSoFar(s) ==
  FilingWith(ref[s],
             IF pc[s] \in {"diff", "commit"} THEN out[s].period ELSE NoPeriod,
             ChildRows(out[s].lines, pos[s] - 1))

OwnFiling(s) ==
  pc[s] \in {"fetch"} \cup InLoop \cup AfterLoop =>
    /\ lock[FilingRow(s)] = s
    /\ db[FilingRow(s)] = NoRow
    /\ dirty[FilingRow(s)] = FilingSoFar(s)

\* From the UPDATE of the filer to the commit its row is locked, so that no other
\* filing of this filer is committed and the computed changes stay right.
OwnFiler(s) ==
  pc[s] \in {"diff", "commit"} =>
    /\ lock[FilerRow(s)] = s
    /\ dirty[FilerRow(s)].latest = Doc[ref[s].acc].filed

OwnDiff(s) ==
  pc[s] = "commit" /\ HasDiff(s) =>
    /\ ~Overflows(OwnFilings(s), out[s].period)
    /\ diff[s] = ComputeChanges(OwnFilings(s), out[s].period)

\* Every committed filing's filer is committed, and so is the security of each
\* of its child rows, although a call resolves them long before it commits and
\* the session that inserted them may roll back.
ReferencesResolve ==
  \A a \in Accession :
    LET row == db[<<"filing", a>>]
    IN  row # NoRow =>
          /\ db[<<"filer", row.cik>>] # NoRow
          /\ \A i \in DOMAIN row.lines : db[<<"security", row.lines[i].key>>] # NoRow

\* What is known of a security is never lost, although a session chooses the columns
\* it fills in from a row that others may have filled in since, and writes them at
\* a time when others do the same.
IdentityKept ==
  [][\A k \in Key :
       LET old == db[<<"security", k>>]
           new == db'[<<"security", k>>]
       IN  old # NoRow =>
             new # NoRow /\ \A c \in Column : old[c] # None => new[c] # None]_vars

\* The inductive invariant: types, lock ownership and, per session, what its
\* transaction has done so far and what that still means for the others' commits.
SessionInv(s) ==
  Progress(s) /\ Resolved(s) /\ OwnFiling(s) /\ OwnFiler(s) /\ OwnDiff(s)

IndInv ==
  /\ TypeOK
  /\ Owners
  /\ ReferencesResolve
  /\ \A s \in Session : SessionInv(s)

-----------------------------------------------------------------------------
(* Properties. *)

\* The pipeline implements the store of module FilingStore: whatever the
\* sessions interleave, every commit is one indivisible ingest, at most one per
\* accession, and a 13F commits with the changes computed from all the filings
\* of its filer that are committed at that moment (concurrent ingests of two
\* quarters of one filer do not miss each other).
Store == INSTANCE FilingStore WITH
  filing <- [a \in Accession |-> db[<<"filing", a>>]],
  latest <- [f \in Cik |-> IF db[<<"filer", f>>] = NoRow THEN 0
                           ELSE db[<<"filer", f>>].latest]

ImplementsStore == Store!StoreSpec

\* "A single bad (or racing) filing can never leave the connection in an
\* aborted-transaction state": between calls a connection owns no lock and no
\* uncommitted row, whatever way its last call ended.
CleanBetweenCalls ==
  \A s \in Session : pc[s] = "idle" => \A r \in Row : lock[r] # s

\* A call of ingest_filing always returns: sessions that wait for each other's
\* rows are all released in the end.
CallReturns == \A s \in Session : (pc[s] # "idle") ~> (pc[s] = "idle")

\* pipeline.py:78: a UniqueViolation means that "another worker/thread ingested
\* this accession", so that the filing can be treated as already done.  Does not
\* hold: the filer and the security are inserted under unique keys as well.
DuplicateMeansIngested ==
  [][\A s \in Session : DuplicateKey(s) => db[FilingRow(s)] # NoRow]_vars

=============================================================================
