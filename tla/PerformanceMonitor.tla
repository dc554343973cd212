-------------------------- MODULE PerformanceMonitor --------------------------
(***************************************************************************)
(* The timings kept in memory (monitoring.py): of each metric a window of   *)
(* samples, the latest samples of all, and how many retained samples each   *)
(* principal has, under one lock.  A timer belongs to a name and a thread,  *)
(* and is not under the lock.                                               *)
(***************************************************************************)
EXTENDS Naturals, Sequences, FiniteSets

CONSTANTS
  Threads, Names, Principals,
  Retention,  \* length of each window, 1000 in the code
  None

VARIABLES
  metrics,  \* _metrics: the principals of the samples of each name
  recent,   \* _recent_observations: <<name, principal>>
  counts,   \* _principal_counts, 0 where there is no key
  timers    \* _timers: the principal stored under a name and a thread

vars == <<metrics, recent, counts, timers>>

TypeOK ==
  /\ metrics \in [Names -> Seq(Principals)]
  /\ recent \in Seq(Names \X Principals)
  /\ counts \in [Principals -> Nat]
  /\ timers \in [Names \X Threads -> Principals \cup {None}]

Init ==
  /\ metrics = [n \in Names |-> <<>>] /\ recent = <<>>
  /\ counts = [p \in Principals |-> 0]
  /\ timers = [k \in Names \X Threads |-> None]

Window(s) == IF Len(s) > Retention THEN Tail(s) ELSE s

Decremented(c, p) == [c EXCEPT ![p] = IF @ = 0 THEN 0 ELSE @ - 1]

\* A slip for TLC: the window drops its oldest sample by itself.
SlipObserve(n, p) ==
  /\ metrics' = [metrics EXCEPT ![n] = Window(Append(@, p))]
  /\ recent' = Window(Append(recent, <<n, p>>))
  /\ counts' = [counts EXCEPT ![p] = @ + 1]

\* _record_observation
Observe(n, p) ==
  LET full == Len(metrics[n]) >= Retention IN
  /\ metrics' = [metrics EXCEPT ![n] = Append(IF full THEN Tail(@) ELSE @, p)]
  /\ counts' = [(IF full THEN Decremented(counts, Head(metrics[n])) ELSE counts) EXCEPT ![p] = @ + 1]
  /\ recent' = Window(Append(recent, <<n, p>>))

Record(n, p) == Observe(n, p) /\ UNCHANGED timers

\* start_timer, again before it is stopped too: nested calls share the key.
StartTimer(t, n, p) ==
  /\ timers' = [timers EXCEPT ![<<n, t>>] = p]
  /\ UNCHANGED <<metrics, recent, counts>>

\* stop_timer: for the caller's principal, or for the one it was started with.
StopTimer(t, n, p) ==
  /\ timers[<<n, t>>] # None
  /\ timers' = [timers EXCEPT ![<<n, t>>] = None]
  /\ Observe(n, IF p = None THEN timers[<<n, t>>] ELSE p)

\* How many samples of a name are of a principal.
Of(n, p) == Cardinality({i \in DOMAIN metrics[n] : metrics[n][i] = p})

\* reset of one name, each of whose samples is counted out, and of all; running
\* timers go on.
Reset(n) ==
  /\ metrics' = [metrics EXCEPT ![n] = <<>>]
  /\ recent' = SelectSeq(recent, LAMBDA o : o[1] # n)
  /\ counts' = [p \in Principals |-> IF counts[p] > Of(n, p) THEN counts[p] - Of(n, p) ELSE 0]
  /\ UNCHANGED timers

ResetAll ==
  /\ metrics' = [n \in Names |-> <<>>] /\ recent' = <<>>
  /\ counts' = [p \in Principals |-> 0]
  /\ UNCHANGED timers

Next ==
  \/ \E n \in Names, p \in Principals : Record(n, p) \/ \E t \in Threads : StartTimer(t, n, p)
  \/ \E t \in Threads, n \in Names, p \in Principals \cup {None} : StopTimer(t, n, p)
  \/ \E n \in Names : Reset(n)
  \/ ResetAll

Spec == Init /\ [][Next]_vars

-----------------------------------------------------------------------------
\* The summary attributes every retained sample to its principal and no other:
\* the counts are those of the windows, through evictions and resets
\* (_record_observation, _decrement_principal, reset, get_observability_summary).
Samples(p) == {k \in Names \X (1 .. Retention) : k[2] \in DOMAIN metrics[k[1]] /\ metrics[k[1]][k[2]] = p}
Retained(p) == Cardinality(Samples(p))

SamplesCounted == \A p \in Principals : counts[p] = Retained(p)
=============================================================================
