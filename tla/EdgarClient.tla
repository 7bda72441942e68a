---------------------------- MODULE EdgarClient ----------------------------
(***************************************************************************)
(* backend/app/edgar/client.py: the rate limiter every EDGAR request goes  *)
(* through and the retrying get.  Each process imports the module and so   *)
(* has a limiter of its own; the threads of a process share it.            *)
(*                                                                         *)
(* Time is discrete.  Instead of the clock, each variable holds how far a  *)
(* point of time is away: gap[p] is how long until _next_allowed, wait[t]  *)
(* how much of a sleep is left, age[t] how long ago `now' was read.  A     *)
(* tick may come between any two steps: a thread may be preempted anywhere *)
(* and a sleep may last longer than asked.                                 *)
(***************************************************************************)
EXTENDS Integers, FiniteSets, Functions

CONSTANTS Process,
          Thread,
          Home,          \* Home[t]: the process of thread t
          NoThread,      \* the holder of a free lock
          Interval,      \* _min_interval, in ticks
          Second,        \* one second, in ticks
          Retries,       \* the parameter `retries'
          MaxRedirects,  \* hops httpx follows by itself
          Window         \* observed span of time, in ticks

ASSUME ClientAssumption ==
  /\ IsFiniteSet(Thread) /\ Home \in [Thread -> Process]
  /\ NoThread \notin Thread
  /\ Interval \in Nat \ {0} /\ Second \in Nat \ {0} /\ Window \in Nat \ {0}
  /\ Retries \in Nat /\ MaxRedirects \in Nat

VARIABLES
  gap,      \* gap[p]: ticks until p's limiter allows the next request
  lock,     \* lock[p]: the thread inside acquire, or NoThread
  since,    \* since[p]: ticks since p's last stamp, counted up to Far
  pc,       \* pc[t]: where thread t is
  wait,     \* wait[t]: ticks that its sleep still lasts
  age,      \* age[t]: ticks since it read the `now' it is about to use,
            \* counted up to Interval
  attempt,  \* attempt[t]: the loop variable of get
  hops,     \* hops[t]: redirects its request has followed so far
  recent    \* recent[p][i]: requests p sent in the i-th last tick

limiter == <<gap, lock, since>>
call    == <<attempt, hops>>
vars    == <<gap, lock, since, pc, wait, age, attempt, hops, recent>>

Far == 2 * Interval

Labels == {"idle", "acquire", "sleep", "stamp", "send", "respond", "backoff"}

Init ==
  /\ gap = [p \in Process |-> 0]
  /\ lock = [p \in Process |-> NoThread]
  /\ since = [p \in Process |-> Far]
  /\ pc = [t \in Thread |-> "idle"]
  /\ wait = [t \in Thread |-> 0]
  /\ age = [t \in Thread |-> 0]
  /\ attempt = [t \in Thread |-> 0]
  /\ hops = [t \in Thread |-> 0]
  /\ recent = [p \in Process |-> [i \in 1..Window |-> 0]]

Goto(t, label) == pc' = [pc EXCEPT ![t] = label]

-----------------------------------------------------------------------------
(* _RateLimiter.acquire *)

\* A mutant: sleeps without the lock.
EnterSleepsOutside(t) ==
  LET p == Home[t]
  IN  /\ pc[t] = "acquire"
      /\ lock[p] = NoThread
      /\ lock' = [lock EXCEPT ![p] = IF gap[p] > 0 THEN NoThread ELSE t]
      /\ age' = [age EXCEPT ![t] = 0]
      /\ wait' = [wait EXCEPT ![t] = gap[p]]
      /\ Goto(t, IF gap[p] > 0 THEN "sleep" ELSE "stamp")
      /\ UNCHANGED <<gap, since, call, recent>>

\* Takes the lock and reads the clock.
Enter(t) ==
  LET p == Home[t]
  IN  /\ pc[t] = "acquire"
      /\ lock[p] = NoThread
      /\ lock' = [lock EXCEPT ![p] = t]
      /\ age' = [age EXCEPT ![t] = 0]
      /\ wait' = [wait EXCEPT ![t] = gap[p]]
      /\ Goto(t, IF gap[p] > 0 THEN "sleep" ELSE "stamp")
      /\ UNCHANGED <<gap, since, call, recent>>

\* Sleeps with the lock held, then reads the clock again.
Wake(t) ==
  /\ pc[t] = "sleep" /\ wait[t] = 0
  /\ age' = [age EXCEPT ![t] = 0]
  /\ Goto(t, "stamp")
  /\ UNCHANGED <<limiter, wait, call, recent>>

\* A mutant: adds the interval to an old _next_allowed, so that a pause is made
\* up for by a burst.
StampCatchesUp(t) ==
  LET p == Home[t]
  IN  /\ pc[t] = "stamp"
      /\ gap' = [gap EXCEPT ![p] = IF age[t] = 0 THEN Interval ELSE 0]
      /\ since' = [since EXCEPT ![p] = age[t]]
      /\ lock' = [lock EXCEPT ![p] = NoThread]
      /\ age' = [age EXCEPT ![t] = 0]
      /\ Goto(t, "send")
      /\ UNCHANGED <<wait, call, recent>>

\* _next_allowed = now + _min_interval, with the `now' that was read.
Stamp(t) ==
  LET p == Home[t]
  IN  /\ pc[t] = "stamp"
      /\ gap' = [gap EXCEPT ![p] = Interval - age[t]]
      /\ since' = [since EXCEPT ![p] = age[t]]
      /\ lock' = [lock EXCEPT ![p] = NoThread]
      /\ age' = [age EXCEPT ![t] = 0]
      /\ Goto(t, "send")
      /\ UNCHANGED <<wait, call, recent>>

-----------------------------------------------------------------------------
(* EdgarClient.get *)

Call(t) ==
  /\ pc[t] = "idle"
  /\ Goto(t, "acquire")
  /\ UNCHANGED <<limiter, wait, age, call, recent>>

Request(p) == recent' = [recent EXCEPT ![p][1] = @ + 1]

Send(t) ==
  /\ pc[t] = "send"
  /\ Request(Home[t])
  /\ Goto(t, "respond")
  /\ UNCHANGED <<limiter, wait, age, call>>

\* httpx follows a redirect inside the one call of self._client.get.
Redirect(t) ==
  /\ pc[t] = "respond" /\ hops[t] < MaxRedirects
  /\ Request(Home[t])
  /\ hops' = [hops EXCEPT ![t] = @ + 1]
  /\ UNCHANGED <<limiter, pc, wait, age, attempt>>

\* A response; an exception get does not catch (too many redirects); or one it
\* does, at the last attempt: raised.  Which one matters only to the caller.
Finish(t) ==
  /\ pc[t] = "respond"
  /\ attempt' = [attempt EXCEPT ![t] = 0]
  /\ hops' = [hops EXCEPT ![t] = 0]
  /\ Goto(t, "idle")
  /\ UNCHANGED <<limiter, wait, age, recent>>

\* A mutant: the last attempt is found one too late.
FailOnceMore(t) ==
  /\ pc[t] = "respond" /\ attempt[t] <= Retries
  /\ wait' = [wait EXCEPT ![t] = 2 ^ attempt[t] * Second]
  /\ hops' = [hops EXCEPT ![t] = 0]
  /\ Goto(t, "backoff")
  /\ UNCHANGED <<limiter, age, attempt, recent>>

\* HTTPStatusError (raised for every 4xx and 5xx, a permanent one too) or
\* TransportError: raised to the caller at the last attempt (see Finish), before
\* it 1, 2, 4, ... seconds of sleep.
Fail(t) ==
  /\ pc[t] = "respond" /\ attempt[t] < Retries
  /\ wait' = [wait EXCEPT ![t] = 2 ^ attempt[t] * Second]
  /\ hops' = [hops EXCEPT ![t] = 0]
  /\ Goto(t, "backoff")
  /\ UNCHANGED <<limiter, age, attempt, recent>>

\* A mutant: a while loop that forgets to count.
RetryUncounted(t) ==
  /\ pc[t] = "backoff" /\ wait[t] = 0
  /\ Goto(t, "acquire")
  /\ UNCHANGED <<limiter, wait, age, attempt, hops, recent>>

Retry(t) ==
  /\ pc[t] = "backoff" /\ wait[t] = 0
  /\ attempt' = [attempt EXCEPT ![t] = @ + 1]
  /\ Goto(t, "acquire")
  /\ UNCHANGED <<limiter, wait, age, hops, recent>>

-----------------------------------------------------------------------------

Less(n)    == IF n > 0 THEN n - 1 ELSE 0
More(n, m) == IF n < m THEN n + 1 ELSE m

\* Time passes for everybody.
Tick ==
  /\ gap' = [p \in Process |-> Less(gap[p])]
  /\ since' = [p \in Process |-> More(since[p], Far)]
  /\ wait' = [t \in Thread |-> Less(wait[t])]
  /\ age' = [t \in Thread |-> IF pc[t] = "stamp" THEN More(age[t], Interval) ELSE 0]
  /\ recent' = [p \in Process |-> [i \in 1..Window |-> IF i = 1 THEN 0
                                                      ELSE recent[p][i - 1]]]
  /\ UNCHANGED <<lock, pc, call>>

\* What thread t does once it has called get.
Proceed(t) ==
  \/ Wake(t) \/ Stamp(t) \/ Send(t) \/ Redirect(t) \/ Finish(t) \/ Fail(t) \/ Retry(t)

Next == Tick \/ \E t \in Thread : Call(t) \/ Enter(t) \/ Proceed(t)

Spec == Init /\ [][Next]_vars

\* Time passes, threads run, a request ends (httpx has a timeout of 30 s), and a
\* thread is not passed over for ever when the lock is released.
Fairness ==
  /\ WF_vars(Tick)
  /\ \A t \in Thread : WF_vars(Proceed(t)) /\ SF_vars(Enter(t))

FairSpec == Spec /\ Fairness

-----------------------------------------------------------------------------
(* Properties. *)

\* The types; a sleep in acquire lasts a number of ticks.
TypeOK ==
  /\ gap \in [Process -> 0..Interval]
  /\ lock \in [Process -> Thread \cup {NoThread}]
  /\ since \in [Process -> 0..Far]
  /\ pc \in [Thread -> Labels]
  /\ wait = [t \in Thread |-> wait[t]]
  /\ \A t \in Thread : pc[t] = "sleep" => wait[t] \in Nat
  /\ age \in [Thread -> 0..Interval]
  /\ attempt \in [Thread -> 0..Retries]
  /\ hops \in [Thread -> 0..MaxRedirects]
  /\ recent \in [Process -> [1..Window -> Nat]]

\* The limiter's inductive invariant: the next request is not allowed before an
\* Interval after the last stamp; a thread sleeps long enough and with the lock,
\* and when it is about to stamp, its `now' is an Interval after the last stamp.
\* A backoff is never the last attempt.
IndInv ==
  /\ TypeOK
  /\ \A p \in Process : gap[p] + since[p] >= Interval
  /\ \A t \in Thread :
       /\ pc[t] \in {"sleep", "stamp"} => lock[Home[t]] = t
       /\ pc[t] = "sleep" => gap[Home[t]] <= wait[t]
       /\ pc[t] = "stamp" => since[Home[t]] - age[t] >= Interval
       /\ pc[t] = "backoff" => attempt[t] < Retries

\* client.py:22-23, "space requests at least 1/rps apart": the instants that a
\* limiter stamps its requests with are an Interval apart, whatever threads wait
\* for it and wherever they are preempted or oversleep.
StampsSpaced ==
  [][\A t \in Thread : Stamp(t) => since[Home[t]] - age[t] >= Interval]_vars

Sum(f) == SumFunctionOnSet(f, 1..Window)

\* What the spacing of the stamps is worth on the wire: a stamped thread may be
\* preempted before it sends, so that in one window a process can send one late
\* request per thread beyond the ones stamped in it, and each with its redirects.
\* It is the bound the code keeps; the one it claims is CeilingKept.
BurstBound ==
  \A p \in Process :
    LET threads == {t \in Thread : Home[t] = p}
    IN  Sum(recent[p]) <=
          (1 + MaxRedirects) * ((Window - 1) \div Interval + 1 + Cardinality(threads))

\* The SEC's ceiling of 10 where the configured rate is 8 (config.py:28).
Ceiling == (10 * Second) \div (8 * Interval)

\* client.py:23-24, "guarantees we never trip the SEC's 10 rps ceiling regardless
\* of how many worker threads call in".  Does not hold of the wire: the limiter
\* spaces its stamps, and a thread sends some time after its stamp.
CeilingKept ==
  \A p \in Process : SumFunctionOnSet(recent[p], 1..Second) <= Ceiling

\* Every get returns or raises.
GetReturns == \A t \in Thread : (pc[t] # "idle") ~> (pc[t] = "idle")

=============================================================================
