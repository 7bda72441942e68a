---------------------------- MODULE ClientProofs ----------------------------
(***************************************************************************)
(* Proofs about the rate limiter of module EdgarClient, for any number of  *)
(* processes and threads, any interval and any interleaving: how far apart *)
(* its stamps are, and what that bounds of the requests in any window.     *)
(***************************************************************************)
EXTENDS EdgarClient, Sums

LEMMA InitIndInv == Init => IndInv
BY ClientAssumption DEF Init, IndInv, TypeOK, Labels, Far

\* A step that leaves the limiter of its process alone and neither starts nor
\* ends a wait for it.
LEMMA OutsideAcquire ==
  ASSUME IndInv, NEW t \in Thread, pc[t] \notin {"sleep", "stamp"},
         NEW label \in Labels \ {"sleep", "stamp"}, Goto(t, label),
         UNCHANGED <<limiter, age>>, wait' = [u \in Thread |-> wait'[u]],
         \A u \in Thread \ {t} : wait'[u] = wait[u],
         attempt' \in [Thread -> 0..Retries],
         \A u \in Thread \ {t} : attempt'[u] = attempt[u],
         label = "backoff" => attempt'[t] < Retries,
         hops' \in [Thread -> 0..MaxRedirects],
         recent' \in [Process -> [1..Window -> Nat]]
  PROVE  IndInv'
<1>1. /\ pc' = [pc EXCEPT ![t] = label]
      /\ gap' = gap /\ lock' = lock /\ since' = since /\ age' = age
  BY DEF Goto, limiter
<1>2. TypeOK'
  BY <1>1 DEF IndInv, TypeOK
<1> QED
  BY <1>1, <1>2 DEF IndInv, TypeOK

LEMMA RequestType ==
  ASSUME TypeOK, NEW p \in Process, Request(p)
  PROVE  recent' \in [Process -> [1..Window -> Nat]]
<1>1. recent[p] \in [1..Window -> Nat] /\ 1 \in 1..Window
  BY ClientAssumption DEF TypeOK
<1>5. recent[p][1] \in Nat
  BY <1>1
<1> DEFINE counts == [recent[p] EXCEPT ![1] = recent[p][1] + 1]
<1>2. counts \in [1..Window -> Nat]
  <2>1. ASSUME NEW f \in [1..Window -> Nat], NEW n \in Nat
        PROVE  [f EXCEPT ![1] = n] \in [1..Window -> Nat]
    OBVIOUS
  <2>2. recent[p][1] + 1 \in Nat
    BY <1>5
  <2> QED
    BY <1>1, <2>1, <2>2
<1>3. recent' = [recent EXCEPT ![p] = counts]
  BY DEF Request
<1> HIDE DEF counts
<1> QED
  BY <1>2, <1>3 DEF TypeOK

LEMMA GetStep ==
  ASSUME IndInv, NEW t \in Thread,
         Call(t) \/ Send(t) \/ Redirect(t) \/ Finish(t) \/ Fail(t) \/ Retry(t)
  PROVE  IndInv'
<1> USE ClientAssumption DEF IndInv, call, limiter
<1>1. CASE Call(t)
  BY <1>1, OutsideAcquire DEF Call, Labels, TypeOK
<1>2. CASE Send(t)
  BY <1>2, OutsideAcquire, RequestType DEF Send, Labels, TypeOK
<1>3. CASE Redirect(t)
  <2>1. Goto(t, "respond") /\ hops' \in [Thread -> 0..MaxRedirects]
    BY <1>3 DEF Redirect, Goto, TypeOK
  <2> QED
    BY <1>3, <2>1, OutsideAcquire, RequestType DEF Redirect, Labels, TypeOK
<1>4. CASE Finish(t)
  <2>1. /\ attempt' \in [Thread -> 0..Retries] /\ hops' \in [Thread -> 0..MaxRedirects]
        /\ \A u \in Thread \ {t} : attempt'[u] = attempt[u]
    BY <1>4 DEF Finish, TypeOK
  <2> QED
    BY <1>4, <2>1, OutsideAcquire DEF Finish, Labels, TypeOK
<1>5. CASE Fail(t)
  <2>1. hops' \in [Thread -> 0..MaxRedirects]
    BY <1>5 DEF Fail, TypeOK
  <2>2. wait' = [u \in Thread |-> wait'[u]] /\ \A u \in Thread \ {t} : wait'[u] = wait[u]
    BY <1>5 DEF Fail, TypeOK
  <2> QED
    BY <1>5, <2>1, <2>2, OutsideAcquire DEF Fail, Labels, TypeOK
<1>6. CASE Retry(t)
  <2>1. /\ attempt' \in [Thread -> 0..Retries]
        /\ \A u \in Thread \ {t} : attempt'[u] = attempt[u]
    BY <1>6 DEF Retry, TypeOK
  <2> QED
    BY <1>6, <2>1, OutsideAcquire DEF Retry, Labels, TypeOK
<1> QED
  BY <1>1, <1>2, <1>3, <1>4, <1>5, <1>6

\* A step of acquire by t: the others in acquire belong to other processes.
LEMMA InsideAcquire ==
  ASSUME IndInv, NEW t \in Thread, NEW p \in Process, p = Home[t],
         lock[p] \in {NoThread, t}, UNCHANGED <<attempt, hops, recent>>,
         pc'[t] \in Labels \ {"backoff"}, pc' = [pc EXCEPT ![t] = pc'[t]],
         gap'[p] \in 0..Interval, gap' = [gap EXCEPT ![p] = gap'[p]],
         since'[p] \in 0..Far, since' = [since EXCEPT ![p] = since'[p]],
         lock'[p] \in Thread \cup {NoThread}, lock' = [lock EXCEPT ![p] = lock'[p]],
         age'[t] \in 0..Interval, age' = [age EXCEPT ![t] = age'[t]],
         wait' = [wait EXCEPT ![t] = wait'[t]],
         gap'[p] + since'[p] >= Interval,
         pc'[t] \in {"sleep", "stamp"} => lock'[p] = t,
         pc'[t] = "sleep" => wait'[t] \in Nat /\ gap'[p] <= wait'[t],
         pc'[t] = "stamp" => since'[p] - age'[t] >= Interval
  PROVE  IndInv'
<1> USE ClientAssumption
<1>1. \A u \in Thread \ {t} : pc[u] \in {"sleep", "stamp"} => Home[u] # p
  BY DEF IndInv
<1>2. \A u \in Thread \ {t} : pc'[u] = pc[u] /\ age'[u] = age[u] /\ wait'[u] = wait[u]
  BY DEF IndInv, TypeOK
<1>3. \A q \in Process \ {p} :
        gap'[q] = gap[q] /\ since'[q] = since[q] /\ lock'[q] = lock[q]
  BY DEF IndInv, TypeOK
<1>4. TypeOK'
  <2>1. /\ gap' \in [Process -> 0..Interval] /\ since' \in [Process -> 0..Far]
        /\ lock' \in [Process -> Thread \cup {NoThread}]
    BY DEF IndInv, TypeOK
  <2>2. /\ pc' \in [Thread -> Labels] /\ age' \in [Thread -> 0..Interval]
        /\ wait' = [u \in Thread |-> wait'[u]]
    BY DEF IndInv, TypeOK
  <2>3. \A u \in Thread : pc'[u] = "sleep" => wait'[u] \in Nat
    BY <1>2 DEF IndInv, TypeOK
  <2> QED
    BY <2>1, <2>2, <2>3 DEF IndInv, TypeOK
<1>5. \A q \in Process : gap'[q] + since'[q] >= Interval
  BY <1>3 DEF IndInv
<1>6. ASSUME NEW u \in Thread
      PROVE  /\ pc'[u] \in {"sleep", "stamp"} => lock'[Home[u]] = u
             /\ pc'[u] = "sleep" => gap'[Home[u]] <= wait'[u]
             /\ pc'[u] = "stamp" => since'[Home[u]] - age'[u] >= Interval
             /\ pc'[u] = "backoff" => attempt'[u] < Retries
  <2>1. CASE u = t
    BY <1>2, <1>3, <2>1
  <2>2. CASE u # t /\ pc[u] \in {"sleep", "stamp"}
    <3>1. Home[u] \in Process \ {p}
      BY <1>1, <2>2
    <3> QED
      BY <1>2, <1>3, <2>2, <3>1 DEF IndInv
  <2>3. CASE u # t /\ pc[u] \notin {"sleep", "stamp"}
    BY <1>2, <2>3 DEF IndInv
  <2> QED
    BY <2>1, <2>2, <2>3
<1> QED
  BY <1>4, <1>5, <1>6 DEF IndInv

LEMMA AcquireStep ==
  ASSUME IndInv, NEW t \in Thread, Enter(t) \/ Wake(t) \/ Stamp(t)
  PROVE  IndInv'
<1> USE ClientAssumption
<1>1. PICK p \in Process : p = Home[t]
  OBVIOUS
<1>2. /\ gap[p] \in 0..Interval /\ since[p] \in 0..Far /\ age[t] \in 0..Interval
      /\ lock[p] \in Thread \cup {NoThread} /\ gap[p] + since[p] >= Interval
      /\ gap = [gap EXCEPT ![p] = gap[p]] /\ since = [since EXCEPT ![p] = since[p]]
      /\ lock = [lock EXCEPT ![p] = lock[p]] /\ wait = [wait EXCEPT ![t] = wait[t]]
  BY DEF IndInv, TypeOK
<1>3. CASE Enter(t)
  <2> DEFINE label == IF gap[p] > 0 THEN "sleep" ELSE "stamp"
  <2>1. /\ lock[p] = NoThread /\ lock' = [lock EXCEPT ![p] = t]
        /\ age' = [age EXCEPT ![t] = 0] /\ wait' = [wait EXCEPT ![t] = gap[p]]
        /\ pc' = [pc EXCEPT ![t] = label]
        /\ UNCHANGED <<gap, since, attempt, hops, recent>>
    BY <1>1, <1>3 DEF Enter, call, Goto
  <2>2. /\ label \in Labels \ {"backoff"}
        /\ label = "stamp" => since[p] - 0 >= Interval
    BY <1>2 DEF Labels, Far
  <2> HIDE DEF label
  <2>3. lock'[p] = t /\ age'[t] = 0 /\ wait'[t] = gap[p] /\ pc'[t] = label
    BY <2>1 DEF IndInv, TypeOK
  <2>4. /\ gap'[p] = gap[p] /\ since'[p] = since[p] /\ pc' = [pc EXCEPT ![t] = pc'[t]]
        /\ gap' = [gap EXCEPT ![p] = gap'[p]] /\ since' = [since EXCEPT ![p] = since'[p]]
        /\ lock' = [lock EXCEPT ![p] = lock'[p]] /\ age' = [age EXCEPT ![t] = age'[t]]
        /\ wait' = [wait EXCEPT ![t] = wait'[t]]
    BY <1>2, <2>1, <2>3
  <2>5. /\ lock[p] = NoThread /\ 0 \in 0..Interval
        /\ UNCHANGED <<attempt, hops, recent>>
    BY <2>1
  <2>6. /\ pc'[t] \in Labels \ {"backoff"} /\ gap'[p] \in 0..Interval
        /\ since'[p] \in 0..Far /\ gap'[p] + since'[p] >= Interval
        /\ wait'[t] \in Nat /\ gap'[p] <= wait'[t]
        /\ pc'[t] = "stamp" => since'[p] - age'[t] >= Interval
    BY <1>2, <2>2, <2>3, <2>4
  <2> QED
    BY <1>1, <2>3, <2>4, <2>5, <2>6, InsideAcquire
<1>4. CASE Wake(t)
  <2>1. /\ pc[t] = "sleep" /\ wait[t] = 0
        /\ age' = [age EXCEPT ![t] = 0] /\ pc' = [pc EXCEPT ![t] = "stamp"]
        /\ UNCHANGED <<gap, lock, since, wait, attempt, hops, recent>>
    BY <1>4 DEF Wake, limiter, call, Goto
  <2>2. lock[p] = t /\ gap[p] <= wait[t]
    BY <1>1, <2>1 DEF IndInv
  <2>3. since[p] - 0 >= Interval
    BY <1>2, <2>1, <2>2 DEF Far
  <2>4. age'[t] = 0 /\ pc'[t] = "stamp" /\ "stamp" \in Labels \ {"backoff"}
    BY <2>1 DEF Labels, IndInv, TypeOK
  <2>5. /\ gap'[p] = gap[p] /\ since'[p] = since[p] /\ pc' = [pc EXCEPT ![t] = pc'[t]]
        /\ gap' = [gap EXCEPT ![p] = gap'[p]] /\ since' = [since EXCEPT ![p] = since'[p]]
        /\ lock' = [lock EXCEPT ![p] = lock'[p]] /\ age' = [age EXCEPT ![t] = age'[t]]
        /\ wait' = [wait EXCEPT ![t] = wait'[t]]
    BY <1>2, <2>1, <2>4
  <2>6. /\ lock'[p] = t /\ 0 \in 0..Interval
        /\ UNCHANGED <<attempt, hops, recent>>
    BY <1>2, <2>1, <2>2
  <2> QED
    BY <1>1, <1>2, <2>2, <2>3, <2>4, <2>5, <2>6, InsideAcquire
<1>5. CASE Stamp(t)
  <2>1. /\ pc[t] = "stamp" /\ gap' = [gap EXCEPT ![p] = Interval - age[t]]
        /\ since' = [since EXCEPT ![p] = age[t]] /\ lock' = [lock EXCEPT ![p] = NoThread]
        /\ age' = [age EXCEPT ![t] = 0] /\ pc' = [pc EXCEPT ![t] = "send"]
        /\ UNCHANGED <<wait, attempt, hops, recent>>
    BY <1>1, <1>5 DEF Stamp, call, Goto
  <2>2. lock[p] = t
    BY <1>1, <2>1 DEF IndInv
  <2>3. /\ Interval - age[t] \in 0..Interval /\ age[t] \in 0..Far
        /\ (Interval - age[t]) + age[t] >= Interval
    BY <1>2 DEF Far
  <2>4. /\ gap'[p] = Interval - age[t] /\ since'[p] = age[t] /\ lock'[p] = NoThread
        /\ age'[t] = 0 /\ pc'[t] = "send" /\ "send" \in Labels \ {"backoff"}
    BY <2>1 DEF Labels, IndInv, TypeOK
  <2>5. /\ pc' = [pc EXCEPT ![t] = pc'[t]]
        /\ gap' = [gap EXCEPT ![p] = gap'[p]] /\ since' = [since EXCEPT ![p] = since'[p]]
        /\ lock' = [lock EXCEPT ![p] = lock'[p]] /\ age' = [age EXCEPT ![t] = age'[t]]
        /\ wait' = [wait EXCEPT ![t] = wait'[t]]
    BY <1>2, <2>1, <2>4
  <2>6. 0 \in 0..Interval /\ UNCHANGED <<attempt, hops, recent>>
    BY <1>2, <2>1
  <2> QED
    BY <1>1, <1>2, <2>2, <2>3, <2>4, <2>5, <2>6, InsideAcquire
<1> QED
  BY <1>3, <1>4, <1>5

LEMMA TickStep ==
  ASSUME IndInv, Tick
  PROVE  IndInv'
<1> USE ClientAssumption DEF IndInv, TypeOK
<1>1. recent' \in [Process -> [1..Window -> Nat]]
  <2>1. ASSUME NEW q \in Process, NEW i \in 1..Window, i # 1
        PROVE  recent[q][i - 1] \in Nat
    <3>1. i - 1 \in 1..Window /\ recent[q] \in [1..Window -> Nat]
      BY <2>1
    <3> QED
      BY <3>1
  <2> QED
    BY <2>1 DEF Tick
<1>2. /\ gap' \in [Process -> 0..Interval] /\ since' \in [Process -> 0..Far]
      /\ age' \in [Thread -> 0..Interval]
  BY DEF Tick, Less, More, Far
<1>3. \A q \in Process : gap'[q] + since'[q] >= Interval
  BY DEF Tick, Less, More, Far
<1>4. \A u \in Thread : pc[u] = "sleep" => wait'[u] \in Nat /\ gap'[Home[u]] <= wait'[u]
  BY DEF Tick, Less
<1>5. \A u \in Thread : pc[u] = "stamp" => since'[Home[u]] - age'[u] >= Interval
  BY DEF Tick, More, Far
<1> QED
  BY <1>1, <1>2, <1>3, <1>4, <1>5 DEF Tick, call

LEMMA NextIndInv ==
  ASSUME IndInv, [Next]_vars
  PROVE  IndInv'
<1>1. CASE UNCHANGED vars
  BY <1>1 DEF vars, IndInv, TypeOK
<1> QED
  BY <1>1, GetStep, AcquireStep, TickStep DEF Next, Proceed

\* The limiter's invariant, and with it the types, hold in every reachable state.
THEOREM LimiterInvariance == Spec => []IndInv
<1> QED
  BY InitIndInv, NextIndInv, PTL DEF Spec

\* A limiter's stamps are an Interval apart, for any number of threads.
THEOREM StampSpacing == Spec => StampsSpaced
<1>1. IndInv /\ [Next]_vars =>
        [\A t \in Thread : Stamp(t) => since[Home[t]] - age[t] >= Interval]_vars
  BY DEF IndInv, Stamp
<1> QED
  BY <1>1, LimiterInvariance, PTL DEF Spec, StampsSpaced

-----------------------------------------------------------------------------
(* Bursts.  A stamp earns its thread one request and the redirects it may  *)
(* follow.  What a process has sent in the last k ticks and what its       *)
(* threads may still send on their stamps were earned by stamps of those k *)
(* ticks or by one older stamp per thread.                                 *)

Threads(p) == {t \in Thread : Home[t] = p}

\* How many requests each thread may send before it stamps again.
Earned ==
  [t \in Thread |->
     IF pc[t] \in {"stamp", "send"} THEN 1 + MaxRedirects
     ELSE IF pc[t] = "respond" THEN MaxRedirects - hops[t] ELSE 0]

Owed(p)    == SumFunctionOnSet(Earned, Threads(p))
Sent(p, k) == SumFunctionOnSet(recent[p], 1..k)

\* d ticks ago p read the clock for its last stamp, made or about to be made.
LastStamp(p, d) ==
  \/ \E t \in Threads(p) : pc[t] = "stamp" /\ d = age[t]
  \/ (\A t \in Threads(p) : pc[t] # "stamp") /\ d = since[p]

\* m stamps that end d ticks ago, an Interval apart, are all that k ticks can hold.
Budgeted(p) ==
  \A d \in Nat : LastStamp(p, d) =>
    \A k \in 1..Window, m \in Nat :
      k <= d + m * Interval =>
        Sent(p, k) + Owed(p) <= (1 + MaxRedirects) * (Cardinality(Threads(p)) + m)

HopsCounted == \A t \in Thread : pc[t] # "respond" => hops[t] = 0

BurstInv == HopsCounted /\ \A p \in Process : Budgeted(p)

LEMMA EarnedType ==
  ASSUME TypeOK
  PROVE  \A t \in Thread : Earned[t] \in 0..1 + MaxRedirects
<1>1. \A t \in Thread : hops[t] \in 0..MaxRedirects
  BY DEF TypeOK
<1> QED
  BY <1>1, ClientAssumption DEF Earned

LEMMA ThreadsFinite ==
  ASSUME NEW p
  PROVE  IsFiniteSet(Threads(p)) /\ Cardinality(Threads(p)) \in Nat
<1>1. Threads(p) \in SUBSET Thread
  BY DEF Threads
<1> QED
  BY <1>1, ClientAssumption, FS_Subset, FS_CardinalityType

LEMMA OwedType ==
  ASSUME TypeOK, NEW p
  PROVE  /\ Owed(p) \in Nat
         /\ Owed(p) <= (1 + MaxRedirects) * Cardinality(Threads(p))
<1>1. \A t \in Threads(p) : Earned[t] \in Nat /\ Earned[t] <= 1 + MaxRedirects
  BY EarnedType, ClientAssumption DEF Threads
<1>2. 1 + MaxRedirects \in Nat
  BY ClientAssumption
<1> QED
  BY <1>1, <1>2, ThreadsFinite, SumNat, SumAtMost DEF Owed

LEMMA SentType ==
  ASSUME TypeOK, NEW p \in Process, NEW k \in 0..Window
  PROVE  Sent(p, k) \in Nat
<1>1. IsFiniteSet(1..k)
  BY FS_Interval
<1>2. \A i \in 1..k : recent[p][i] \in Nat
  <2>1. recent[p] \in [1..Window -> Nat] /\ \A i \in 1..k : i \in 1..Window
    BY ClientAssumption DEF TypeOK
  <2> QED
    BY <2>1
<1> QED
  BY <1>1, <1>2, SumNat DEF Sent

\* A step of t changes what t may still send, and nobody else.
LEMMA OwedChanges ==
  ASSUME TypeOK, TypeOK', NEW t \in Thread,
         \A u \in Thread \ {t} : pc'[u] = pc[u] /\ hops'[u] = hops[u]
  PROVE  /\ Owed(Home[t])' = Owed(Home[t]) - Earned[t] + Earned'[t]
         /\ \A p : p # Home[t] => Owed(p)' = Owed(p)
<1>1. \A u \in Thread : Earned[u] \in Int /\ Earned'[u] \in Int
  <2>1. \A u \in Thread : Earned'[u] \in 0..1 + MaxRedirects
    <3>1. \A u \in Thread : hops'[u] \in 0..MaxRedirects
      BY DEF TypeOK
    <3> QED
      BY <3>1, ClientAssumption DEF Earned
  <2> QED
    BY <2>1, EarnedType, ClientAssumption
<1>2. \A u \in Thread \ {t} : Earned'[u] = Earned[u]
  BY DEF Earned
<1> DEFINE f == Earned
           g == Earned'
<1> HIDE DEF f, g
<1>3. \A p : Owed(p) = SumFunctionOnSet(f, Threads(p)) /\ Owed(p)' = SumFunctionOnSet(g, Threads(p))
  BY DEF f, g, Owed, Threads
<1>4. ASSUME NEW p, p = Home[t]
      PROVE  SumFunctionOnSet(g, Threads(p)) = SumFunctionOnSet(f, Threads(p)) - f[t] + g[t]
  <2>1. /\ t \in Threads(p) /\ \A u \in Threads(p) : f[u] \in Int /\ g[u] \in Int
        /\ \A u \in Threads(p) \ {t} : g[u] = f[u]
    BY <1>1, <1>2, <1>4 DEF Threads, f, g
  <2> QED
    BY <2>1, ThreadsFinite, SumChange
<1>5. ASSUME NEW p, p # Home[t]
      PROVE  SumFunctionOnSet(f, Threads(p)) = SumFunctionOnSet(g, Threads(p))
  <2>1. \A u \in Threads(p) : f[u] = g[u]
    BY <1>2, <1>5 DEF Threads, f, g
  <2> QED
    BY <2>1, ThreadsFinite, SumSame
<1> QED
  BY <1>3, <1>4, <1>5 DEF f, g

\* A request is one more in every window.
LEMMA SentMore ==
  ASSUME TypeOK, NEW p \in Process, Request(p)
  PROVE  /\ \A k \in 1..Window : Sent(p, k)' = Sent(p, k) + 1
         /\ \A q \in Process \ {p}, k \in 1..Window : Sent(q, k)' = Sent(q, k)
<1> DEFINE f == recent[p]
           g == [recent[p] EXCEPT ![1] = recent[p][1] + 1]
<1>1. recent' = [recent EXCEPT ![p] = g]
  BY DEF Request
<1>2. f \in [1..Window -> Nat] /\ 1 \in 1..Window
  BY ClientAssumption DEF TypeOK
<1>3. /\ g \in [1..Window -> Int] /\ g[1] = f[1] + 1
      /\ \A i \in 1..Window : i # 1 => g[i] = f[i]
  <2>1. ASSUME NEW h \in [1..Window -> Nat]
        PROVE  /\ [h EXCEPT ![1] = h[1] + 1] \in [1..Window -> Int]
               /\ [h EXCEPT ![1] = h[1] + 1][1] = h[1] + 1
               /\ \A i \in 1..Window : i # 1 => [h EXCEPT ![1] = h[1] + 1][i] = h[i]
    BY <1>2
  <2> QED
    BY <1>2, <2>1
<1> HIDE DEF g, f
<1>4. recent'[p] = g /\ \A q \in Process \ {p} : recent'[q] = recent[q]
  BY <1>1 DEF TypeOK
<1>5. ASSUME NEW k \in 1..Window
      PROVE  SumFunctionOnSet(g, 1..k) = SumFunctionOnSet(f, 1..k) + 1
  <2>1. /\ IsFiniteSet(1..k) /\ 1 \in 1..k
        /\ \A i \in 1..k : i \in 1..Window
    BY FS_Interval, ClientAssumption
  <2>2. \A i \in 1..k : f[i] \in Int /\ g[i] \in Int
    BY <1>2, <1>3, <2>1
  <2>3. \A i \in 1..k \ {1} : g[i] = f[i]
    BY <1>3, <2>1
  <2>4. SumFunctionOnSet(g, 1..k) = SumFunctionOnSet(f, 1..k) - f[1] + g[1]
    BY <2>1, <2>2, <2>3, SumChange
  <2>5. SumFunctionOnSet(f, 1..k) \in Int
    BY <2>1, <2>2, SumInt
  <2> QED
    BY <1>2, <1>3, <2>4, <2>5
<1> QED
  BY <1>4, <1>5 DEF Sent, f

\* No more requests than before on a stamp that is no older: the budget lasts.
LEMMA BudgetLasts ==
  ASSUME TypeOK, NEW p \in Process, Budgeted(p),
         \A d \in Nat : LastStamp(p, d)' => LastStamp(p, d),
         NEW c \in Nat, \A k \in 1..Window : Sent(p, k)' + Owed(p)' = Sent(p, k) + Owed(p) - c
  PROVE  Budgeted(p)'
<1> SUFFICES ASSUME NEW d \in Nat, LastStamp(p, d)', NEW k \in 1..Window, NEW m \in Nat,
                    k <= d + m * Interval
             PROVE  Sent(p, k)' + Owed(p)' <= (1 + MaxRedirects) * (Cardinality(Threads(p)) + m)
  BY DEF Budgeted, Threads
<1> DEFINE b == (1 + MaxRedirects) * (Cardinality(Threads(p)) + m)
<1>1. Sent(p, k) + Owed(p) <= b
  BY DEF Budgeted
<1>2. b \in Nat /\ Sent(p, k) \in Nat /\ Owed(p) \in Nat
  <2>1. k \in 0..Window /\ 1 + MaxRedirects \in Nat /\ Cardinality(Threads(p)) + m \in Nat
    BY ClientAssumption, ThreadsFinite
  <2> QED
    BY <2>1, SentType, OwedType
<1>3. Sent(p, k)' + Owed(p)' = Sent(p, k) + Owed(p) - c
  OBVIOUS
<1> HIDE DEF b
<1>4. Sent(p, k)' + Owed(p)' <= b
  BY <1>1, <1>2, <1>3
<1> QED
  BY <1>4 DEF b

\* A stamp is about to be made an Interval after the last one: it pays for the
\* requests it earns.
LEMMA BudgetGrows ==
  ASSUME TypeOK, NEW p \in Process, Budgeted(p), LastStamp(p, since[p]), since[p] >= Interval,
         \A d \in Nat : LastStamp(p, d)' => d = 0,
         \A k \in 1..Window : Sent(p, k)' = Sent(p, k),
         Owed(p)' = Owed(p) + (1 + MaxRedirects)
  PROVE  Budgeted(p)'
<1> SUFFICES ASSUME NEW d \in Nat, LastStamp(p, d)', NEW k \in 1..Window, NEW m \in Nat,
                    k <= d + m * Interval
             PROVE  Sent(p, k)' + Owed(p)' <= (1 + MaxRedirects) * (Cardinality(Threads(p)) + m)
  BY DEF Budgeted, Threads
<1> DEFINE n == Cardinality(Threads(p))
           R == 1 + MaxRedirects
<1>1. k >= 1 /\ d = 0 /\ Interval \in Nat /\ since[p] \in Nat
  BY ClientAssumption DEF TypeOK, Far
<1>2. m # 0
  BY <1>1
<1>3. k <= since[p] + (m - 1) * Interval
  BY <1>1, <1>2
<1>4. Sent(p, k) + Owed(p) <= R * (n + (m - 1))
  BY <1>1, <1>2, <1>3 DEF Budgeted
<1>5. n \in Nat /\ R \in Nat /\ Sent(p, k) \in Nat /\ Owed(p) \in Nat
  <2>1. k \in 0..Window
    BY ClientAssumption
  <2> QED
    BY <2>1, ClientAssumption, ThreadsFinite, SentType, OwedType
<1>6. Sent(p, k)' = Sent(p, k) /\ Owed(p)' = Owed(p) + R
  OBVIOUS
<1> HIDE DEF n, R
<1>7. R * (n + (m - 1)) + R = R * (n + m)
  BY <1>2, <1>5
<1>8. Sent(p, k)' + Owed(p)' <= R * (n + m)
  <2> DEFINE b == R * (n + (m - 1))
  <2>1. b \in Int
    BY <1>2, <1>5
  <2> HIDE DEF b
  <2>2. Sent(p, k) + Owed(p) + R <= b + R
    BY <1>4, <1>5, <2>1 DEF b
  <2> QED
    BY <1>5, <1>6, <1>7, <2>2 DEF b
<1> QED
  BY <1>8 DEF n, R

\* What a step of t does to the other processes' budgets: nothing.
LEMMA OthersBudget ==
  ASSUME TypeOK, TypeOK', \A p \in Process : Budgeted(p), NEW t \in Thread,
         \A u \in Thread \ {t} : pc'[u] = pc[u] /\ hops'[u] = hops[u] /\ age'[u] = age[u],
         \A q \in Process \ {Home[t]} :
           since'[q] = since[q] /\ \A k \in 1..Window : Sent(q, k)' = Sent(q, k),
         Budgeted(Home[t])'
  PROVE  \A p \in Process : Budgeted(p)'
<1> SUFFICES ASSUME NEW p \in Process, p # Home[t] PROVE Budgeted(p)'
  OBVIOUS
<1>1. \A d \in Nat : LastStamp(p, d)' => LastStamp(p, d)
  BY DEF LastStamp, Threads
<1>2. Owed(p)' = Owed(p)
  BY OwedChanges
<1>3. \A k \in 1..Window : Sent(p, k)' + Owed(p)' = Sent(p, k) + Owed(p) - 0
  <2>1. \A k \in 1..Window : Sent(p, k) \in Nat /\ Owed(p) \in Nat
    <3>1. \A k \in 1..Window : k \in 0..Window
      BY ClientAssumption
    <3> QED
      BY <3>1, SentType, OwedType
  <2> QED
    BY <1>2, <2>1
<1> QED
  BY <1>1, <1>3, BudgetLasts

\* A step of get spends what its thread has earned, or gives it up.
LEMMA GetSpends ==
  ASSUME IndInv, TypeOK', BurstInv, NEW t \in Thread,
         Call(t) \/ Send(t) \/ Redirect(t) \/ Finish(t) \/ Fail(t) \/ Retry(t)
  PROVE  BurstInv'
<1> DEFINE p == Home[t]
<1>1. /\ p \in Process /\ TypeOK
      /\ pc[t] \in Labels \ {"stamp"} /\ hops[t] \in 0..MaxRedirects
      /\ pc[t] # "respond" => hops[t] = 0
  BY ClientAssumption DEF IndInv, TypeOK, BurstInv, HopsCounted, Labels, Call, Send, Redirect,
     Finish, Fail, Retry
<1>2. /\ UNCHANGED <<limiter, age>>
      /\ \A u \in Thread \ {t} : pc'[u] = pc[u] /\ hops'[u] = hops[u]
  BY <1>1 DEF TypeOK, Call, Send, Redirect, Finish, Fail, Retry, call, limiter, Goto
<1>3. pc'[t] \notin {"stamp", "send"} /\ (pc'[t] # "respond" => hops'[t] = 0)
  BY <1>1 DEF TypeOK, Call, Send, Redirect, Finish, Fail, Retry, call, Goto
<1>4. HopsCounted'
  BY <1>2, <1>3 DEF HopsCounted, BurstInv
<1>5. \A d \in Nat : LastStamp(p, d)' => LastStamp(p, d)
  BY <1>1, <1>2, <1>3 DEF LastStamp, Threads, limiter
<1>6. Owed(p)' = Owed(p) - Earned[t] + Earned'[t]
  BY <1>1, <1>2, OwedChanges
<1>7. \A k \in 1..Window : Sent(p, k) \in Nat /\ Owed(p) \in Nat
  <2>1. \A k \in 1..Window : k \in 0..Window
    BY ClientAssumption
  <2> QED
    BY <1>1, <2>1, SentType, OwedType
<1>8. CASE Send(t) \/ Redirect(t)
  <2>1. Request(p)
    BY <1>8 DEF Send, Redirect
  <2>2. Earned'[t] = Earned[t] - 1 /\ Earned[t] \in Int
    BY <1>1, <1>8, ClientAssumption DEF Earned, Send, Redirect, Goto, call, TypeOK
  <2>3. \A k \in 1..Window : Sent(p, k)' = Sent(p, k) + 1
    BY <1>1, <2>1, SentMore
  <2>4. \A k \in 1..Window : Sent(p, k)' + Owed(p)' = Sent(p, k) + Owed(p) - 0
    BY <1>6, <1>7, <2>2, <2>3
  <2>5. Budgeted(p)'
    BY <1>1, <1>5, <2>4, BudgetLasts DEF BurstInv
  <2>6. \A q \in Process \ {p} :
          since'[q] = since[q] /\ \A k \in 1..Window : Sent(q, k)' = Sent(q, k)
    BY <1>1, <1>2, <2>1, SentMore DEF limiter
  <2> QED
    BY <1>1, <1>2, <1>4, <2>5, <2>6, OthersBudget DEF BurstInv
<1>9. CASE Call(t) \/ Finish(t) \/ Fail(t) \/ Retry(t)
  <2>1. \A q \in Process, k \in 1..Window : Sent(q, k)' = Sent(q, k)
    BY <1>9 DEF Sent, Call, Finish, Fail, Retry
  <2>2. Earned'[t] = 0 /\ Earned[t] \in Nat
    <3>1. pc'[t] \notin {"stamp", "send", "respond"}
      BY <1>1, <1>9 DEF Call, Finish, Fail, Retry, Goto, TypeOK
    <3> QED
      BY <1>1, <3>1, EarnedType, ClientAssumption DEF Earned
  <2>3. \A k \in 1..Window : Sent(p, k)' + Owed(p)' = Sent(p, k) + Owed(p) - Earned[t]
    BY <1>1, <1>6, <1>7, <2>1, <2>2
  <2>4. Budgeted(p)'
    BY <1>1, <1>5, <2>2, <2>3, BudgetLasts DEF BurstInv
  <2> QED
    BY <1>1, <1>2, <1>4, <2>1, <2>4, OthersBudget DEF BurstInv, limiter
<1> QED
  BY <1>8, <1>9

\* Only the thread with the lock is about to stamp.
LEMMA AcquireEarns ==
  ASSUME IndInv, TypeOK', BurstInv, NEW t \in Thread, Enter(t) \/ Wake(t) \/ Stamp(t)
  PROVE  BurstInv'
<1> DEFINE p == Home[t]
<1>1. p \in Process /\ TypeOK /\ Budgeted(p)
  BY ClientAssumption DEF IndInv, BurstInv
<1>2. /\ recent' = recent /\ hops' = hops
      /\ \A u \in Thread \ {t} : pc'[u] = pc[u] /\ age'[u] = age[u]
      /\ \A q \in Process \ {p} : since'[q] = since[q]
  BY <1>1 DEF TypeOK, Enter, Wake, Stamp, limiter, call, Goto
<1>3. \A u \in Threads(p) \ {t} : pc[u] # "stamp"
  BY ClientAssumption DEF Threads, IndInv, Enter, Wake, Stamp
<1>4. /\ pc[t] \notin {"send", "respond"} /\ pc'[t] # "respond"
      /\ HopsCounted'
  BY <1>1, <1>2 DEF TypeOK, BurstInv, HopsCounted, Enter, Wake, Stamp, Goto
<1>5. \A q \in Process, k \in 1..Window : Sent(q, k)' = Sent(q, k)
  BY <1>2 DEF Sent
<1>6. Owed(p)' = Owed(p) - Earned[t] + Earned'[t]
  BY <1>1, <1>2, OwedChanges
<1>7. \A k \in 1..Window : Sent(p, k) \in Nat /\ Owed(p) \in Nat
  <2>1. \A k \in 1..Window : k \in 0..Window
    BY ClientAssumption
  <2> QED
    BY <1>1, <2>1, SentType, OwedType
<1>8. gap[p] \in Nat /\ since[p] \in Nat /\ gap[p] + since[p] >= Interval
  BY <1>1, ClientAssumption DEF IndInv, TypeOK, Far
<1>9. t \in Threads(p)
  BY DEF Threads
<1>10. Budgeted(p)'
  <2>1. CASE pc'[t] = "stamp"
    <3>1. since[p] >= Interval /\ pc[t] # "stamp" /\ age'[t] = 0
      BY <1>1, <1>8, <2>1 DEF Enter, Wake, Stamp, Goto, TypeOK, IndInv
    <3>2. LastStamp(p, since[p])
      BY <1>3, <3>1 DEF LastStamp
    <3>3. \A d \in Nat : LastStamp(p, d)' => d = 0
      BY <1>2, <1>3, <1>9, <2>1, <3>1 DEF LastStamp, Threads
    <3>4. Earned[t] = 0 /\ Earned'[t] = 1 + MaxRedirects
      BY <1>4, <2>1, <3>1 DEF Earned
    <3>5. Owed(p)' = Owed(p) + (1 + MaxRedirects)
      <4>1. Owed(p) \in Nat /\ 1 + MaxRedirects \in Nat
        BY <1>1, OwedType, ClientAssumption
      <4> QED
        BY <1>6, <3>4, <4>1
    <3> QED
      BY <1>1, <1>5, <3>1, <3>2, <3>3, <3>5, BudgetGrows
  <2>2. CASE pc'[t] # "stamp" /\ Enter(t)
    <3>1. pc[t] = "acquire" /\ pc'[t] = "sleep" /\ since' = since
      BY <1>1, <2>2 DEF Enter, Goto, TypeOK
    <3>2. \A d \in Nat : LastStamp(p, d)' => LastStamp(p, d)
      BY <1>2, <1>3, <3>1 DEF LastStamp, Threads
    <3>3. Earned[t] = 0 /\ Earned'[t] = 0
      BY <3>1 DEF Earned
    <3>4. \A k \in 1..Window : Sent(p, k)' + Owed(p)' = Sent(p, k) + Owed(p) - 0
      BY <1>1, <1>5, <1>6, <1>7, <3>3
    <3> QED
      BY <1>1, <3>2, <3>4, BudgetLasts
  <2>3. CASE Stamp(t)
    <3>1. pc[t] = "stamp" /\ pc'[t] = "send" /\ since'[p] = age[t]
      BY <1>1, <2>3 DEF Stamp, Goto, TypeOK
    <3>2. \A d \in Nat : LastStamp(p, d)' => LastStamp(p, d)
      BY <1>2, <1>3, <1>9, <3>1 DEF LastStamp, Threads
    <3>3. Earned[t] = 1 + MaxRedirects /\ Earned'[t] = 1 + MaxRedirects /\ 1 + MaxRedirects \in Nat
      BY <3>1, ClientAssumption DEF Earned
    <3>4. \A k \in 1..Window : Sent(p, k)' + Owed(p)' = Sent(p, k) + Owed(p) - 0
      BY <1>1, <1>5, <1>6, <1>7, <3>3
    <3> QED
      BY <1>1, <3>2, <3>4, BudgetLasts
  <2> QED
    BY <1>1, <2>1, <2>2, <2>3 DEF Wake, Goto, TypeOK
<1> QED
  BY <1>1, <1>2, <1>4, <1>5, <1>10, OthersBudget DEF BurstInv

\* A tick moves the windows by one and ages the stamps by at most one.
LEMMA TickAges ==
  ASSUME IndInv, BurstInv, Tick
  PROVE  BurstInv'
<1>1. TypeOK /\ pc' = pc /\ hops' = hops
  BY DEF IndInv, Tick, call
<1>2. HopsCounted'
  BY <1>1 DEF BurstInv, HopsCounted
<1>3. Earned' = Earned
  BY <1>1 DEF Earned
<1>4. SUFFICES ASSUME NEW p \in Process, NEW d \in Nat, LastStamp(p, d)',
                      NEW k \in 1..Window, NEW m \in Nat, k <= d + m * Interval
               PROVE  Sent(p, k)' + Owed(p)' <= (1 + MaxRedirects) * (Cardinality(Threads(p)) + m)
  BY <1>2 DEF BurstInv, Budgeted, Threads
<1> DEFINE n == Cardinality(Threads(p))
           R == 1 + MaxRedirects
<1>5. Owed(p)' = Owed(p) /\ Owed(p) \in Nat /\ Owed(p) <= R * n
  BY <1>1, <1>3, OwedType DEF Owed, Threads
<1>6. Sent(p, k)' = Sent(p, k - 1)
  <2>1. recent'[p] = [i \in 1..Window |-> IF i = 1 THEN 0 ELSE recent[p][i - 1]]
    BY DEF Tick
  <2>2. \A i \in 1..Window : recent[p][i] \in Int
    <3>1. recent[p] \in [1..Window -> Nat]
      BY <1>1 DEF TypeOK
    <3>2. \A i \in 1..Window : recent[p][i] \in Nat
      BY <3>1
    <3> QED
      BY <3>2
  <2>3. \A i \in 1..Window : /\ recent'[p][i] = IF i = 1 THEN 0 ELSE recent[p][i - 1]
                             /\ recent'[p][i] \in Int
    <3>1. \A i \in 1..Window : i # 1 => i - 1 \in 1..Window
      BY ClientAssumption
    <3> QED
      BY <2>1, <2>2, <3>1
  <2>4. Window \in Nat
    BY ClientAssumption
  <2> DEFINE f == recent[p]
             g == recent'[p]
  <2>5. Shifted(Window, f, g)
    BY <2>2, <2>3 DEF Shifted
  <2> HIDE DEF f, g
  <2>6. SumFunctionOnSet(g, 1..k) = SumFunctionOnSet(f, 1..k - 1)
    BY <2>4, <2>5, SumShift
  <2> QED
    BY <2>6 DEF f, g, Sent
<1>7. n \in Nat /\ R \in Nat /\ Interval \in Nat /\ k \in 1..Window /\ Window \in Nat
  BY ClientAssumption, ThreadsFinite
<1>8. PICK e \in Nat : LastStamp(p, e) /\ d <= e + 1
  <2>1. ASSUME NEW t \in Threads(p), pc[t] = "stamp", d = age'[t]
        PROVE  \E e \in Nat : LastStamp(p, e) /\ d <= e + 1
    <3>1. age[t] \in Nat /\ age'[t] <= age[t] + 1
      BY <1>1, <2>1, ClientAssumption DEF Tick, More, TypeOK, Threads
    <3> QED
      BY <2>1, <3>1 DEF LastStamp
  <2>2. ASSUME \A t \in Threads(p) : pc[t] # "stamp", d = since'[p]
        PROVE  \E e \in Nat : LastStamp(p, e) /\ d <= e + 1
    <3>1. since[p] \in Nat /\ since'[p] <= since[p] + 1
      BY <1>1, ClientAssumption DEF Tick, More, TypeOK, Far
    <3> QED
      BY <2>2, <3>1 DEF LastStamp
  <2> QED
    BY <1>1, <1>4, <2>1, <2>2 DEF LastStamp, Threads
<1>9. CASE k = 1
  <2>1. Sent(p, k - 1) = 0
    <3>1. 1..k - 1 = {}
      BY <1>9
    <3> QED
      BY <3>1, SumEmpty DEF Sent
  <2> HIDE DEF n, R
  <2>2. R * n <= R * (n + m)
    BY <1>7
  <2>3. R * n \in Nat /\ R * (n + m) \in Nat
    BY <1>7
  <2> QED
    BY <1>5, <1>6, <2>1, <2>2, <2>3 DEF n, R
<1>10. CASE k # 1
  <2>1. k - 1 \in 1..Window
    BY <1>7, <1>10
  <2>2. k - 1 <= e + m * Interval
    <3>1. m * Interval \in Nat
      BY <1>7
    <3> QED
      BY <1>4, <1>7, <1>8, <3>1
  <2>3. Sent(p, k - 1) + Owed(p) <= R * (n + m)
    BY <1>8, <2>1, <2>2 DEF BurstInv, Budgeted
  <2> QED
    BY <1>5, <1>6, <2>3
<1> QED
  BY <1>9, <1>10

LEMMA Quotient ==
  ASSUME NEW n \in Nat, NEW i \in Nat \ {0}
  PROVE  n \div i \in Nat /\ n < (n \div i + 1) * i
OBVIOUS

\* What was sent was earned: the budget, for every process and every window.
THEOREM BurstInvariance == Spec => []BurstInv
<1>1. Init => BurstInv
  <2> SUFFICES ASSUME Init PROVE BurstInv
    OBVIOUS
  <2>1. TypeOK
    BY InitIndInv DEF IndInv
  <2>2. HopsCounted
    BY DEF Init, HopsCounted
  <2>3. ASSUME NEW p \in Process, NEW k \in 1..Window, NEW m \in Nat
        PROVE  Sent(p, k) + Owed(p) <= (1 + MaxRedirects) * (Cardinality(Threads(p)) + m)
    <3>1. Sent(p, k) = 0
      <4>1. IsFiniteSet(1..k) /\ \A i \in 1..k : recent[p][i] = 0
        BY FS_Interval, ClientAssumption DEF Init
      <4> QED
        BY <4>1, SumZeros DEF Sent
    <3>2. Owed(p) = 0
      <4>1. \A t \in Threads(p) : Earned[t] = 0
        BY DEF Init, Earned, Threads
      <4> QED
        BY <4>1, ThreadsFinite, SumZeros DEF Owed
    <3>3. 1 + MaxRedirects \in Nat /\ Cardinality(Threads(p)) + m \in Nat
      BY ClientAssumption, ThreadsFinite
    <3>4. (1 + MaxRedirects) * (Cardinality(Threads(p)) + m) >= 0
      BY <3>3
    <3> QED
      BY <3>1, <3>2, <3>4
  <2> QED
    BY <2>2, <2>3 DEF BurstInv, Budgeted
<1>2. ASSUME IndInv, IndInv', BurstInv, [Next]_vars PROVE BurstInv'
  <2>1. TypeOK'
    BY <1>2 DEF IndInv
  <2>2. CASE UNCHANGED vars
    BY <1>2, <2>2 DEF vars, limiter, call, BurstInv, HopsCounted, Budgeted, LastStamp, Sent, Owed,
                      Earned, Threads
  <2> QED
    BY <1>2, <2>1, <2>2, GetSpends, AcquireEarns, TickAges DEF Next, Proceed
<1> QED
  BY <1>1, <1>2, LimiterInvariance, PTL DEF Spec

\* However the threads of a process are preempted between the stamp and the request,
\* no Window holds more of its requests than the stamps that fit into it and one
\* late stamp per thread account for, each with its redirects (client.py:27-42).
THEOREM BurstsBounded == Spec => []BurstBound
<1>1. ASSUME IndInv, BurstInv PROVE BurstBound
  <2> SUFFICES ASSUME NEW p \in Process
               PROVE  Sum(recent[p]) <= (1 + MaxRedirects) *
                        ((Window - 1) \div Interval + 1 + Cardinality({t \in Thread : Home[t] = p}))
    BY DEF BurstBound
  <2> DEFINE q == (Window - 1) \div Interval
             n == Cardinality(Threads(p))
  <2>1. TypeOK /\ Window - 1 \in Nat /\ Window \in 1..Window /\ Interval \in Nat \ {0}
    BY <1>1, ClientAssumption DEF IndInv
  <2>2. q \in Nat /\ Window - 1 < (q + 1) * Interval
    BY <2>1, Quotient
  <2> HIDE DEF q
  <2>3. PICK d \in Nat : LastStamp(p, d)
    <3>1. CASE \E t \in Threads(p) : pc[t] = "stamp"
      <4>1. \A t \in Threads(p) : age[t] \in Nat
        BY <2>1 DEF TypeOK, Threads
      <4> QED
        BY <3>1, <4>1 DEF LastStamp
    <3>2. CASE \A t \in Threads(p) : pc[t] # "stamp"
      <4>1. since[p] \in Nat
        BY <2>1, ClientAssumption DEF TypeOK, Far
      <4> QED
        BY <3>2, <4>1 DEF LastStamp
    <3> QED
      BY <3>1, <3>2
  <2>4. Window <= d + (q + 1) * Interval /\ q + 1 \in Nat
    <3>1. (q + 1) * Interval \in Int
      BY <2>1, <2>2
    <3> QED
      BY <2>1, <2>2, <3>1
  <2>5. Sent(p, Window) + Owed(p) <= (1 + MaxRedirects) * (n + (q + 1))
    BY <1>1, <2>1, <2>3, <2>4 DEF BurstInv, Budgeted
  <2>6. Sent(p, Window) \in Nat /\ Owed(p) \in Nat /\ n \in Nat
    <3>1. Window \in 0..Window
      BY <2>1
    <3> QED
      BY <2>1, <3>1, SentType, OwedType, ThreadsFinite
  <2>7. Sent(p, Window) <= (1 + MaxRedirects) * (n + (q + 1))
    <3> DEFINE b == (1 + MaxRedirects) * (n + (q + 1))
    <3>1. b \in Int
      BY <2>4, <2>6, ClientAssumption
    <3> HIDE DEF b
    <3> QED
      BY <2>5, <2>6, <3>1 DEF b
  <2>8. n + (q + 1) = q + 1 + n
    BY <2>2, <2>6
  <2> QED
    BY <2>7, <2>8 DEF q, Sent, Sum, Threads
<1> QED
  BY <1>1, LimiterInvariance, BurstInvariance, PTL

=============================================================================
