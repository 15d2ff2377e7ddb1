------------------------------ MODULE Monitoring ------------------------------
(***************************************************************************)
(* What the monitor makes of a deployment's load (service/monitor):        *)
(* iterations of MonitorRuntime._loop, each a scrape of cumulative latency *)
(* histograms (Collector), a push to the SLO checker's sliding window and  *)
(* a power sample for the buffers. Module DeployLifecycle has the threads  *)
(* around the store: its MonBreach and MonFine are outcomes of Push here.  *)
(*                                                                         *)
(* Time counts polling intervals. A latency is the number of the           *)
(* histogram's bucket it is in, its target the number of an upper edge;    *)
(* interpolation within a bucket is left out. The last bucket has no edge. *)
(***************************************************************************)
EXTENDS Integers, Sequences, FiniteSets, FiniteSetsExt, SequencesExt

CONSTANTS
  Loads,         \* load of an interval: [events |-> of each bucket, watts |-> power]
  Gaps,          \* how long an iteration may take
  Targets,       \* promised p95s: the numbers of edges, 0 for none of them
  Window,        \* SLOChecker.window_s
  Consecutive,   \* SLOChecker.consecutive_for_degraded
  MaxLen,        \* entries of a ring buffer
  MaxTime        \* bound on the time

\* A histogram has the same buckets in every scrape, one at least (the one without an
\* edge); counts, watts and spans are not negative.
ASSUME LoadsAssumption ==
  /\ Loads # {}
  /\ \A l, m \in Loads : /\ l.events \in Seq(Nat) \ {<<>>} /\ l.watts \in Nat
                          /\ Len(l.events) = Len(m.events)
  /\ Gaps \subseteq Nat
ASSUME CheckerAssumption ==
  Targets \subseteq Nat /\ Window \in Nat /\ Consecutive \in Nat \ {0} /\ MaxLen \in Nat

VARIABLES
  target,        \* SLOChecker.targets, chosen once
  now,
  counters,      \* of the server: cumulative counts of its buckets
  prevBuckets,   \* of the Collector: what its last scrape saw
  samples,       \* of the SLOChecker: [ts, p95] in the window
  violations, degraded,
  power, energy, \* of DeploymentBuffers: the ring of [ts, w]; twice the joules
  attached,
  scrapes,       \* history: for every scrape its time and the events since the last
  events,        \* history: events since the last scrape
  pushed         \* history: all power samples

checker == <<samples, violations, degraded>>
vars == <<target, now, counters, prevBuckets, checker, power, energy, attached, scrapes, events, pushed>>

Zero == [b \in DOMAIN (CHOOSE l \in Loads : TRUE).events |-> 0]
Plus(a, b) == [k \in DOMAIN a |-> a[k] + b[k]]

\* Buckets count what is at most their edge.
Cumulative(n) == [b \in DOMAIN n |-> MapThenSumSet(LAMBDA k : n[k], 1..b)]

Init ==
  /\ target \in Targets
  /\ now = 0 /\ counters = Zero /\ prevBuckets = Zero
  /\ samples = <<>> /\ violations = 0 /\ degraded = FALSE
  /\ power = <<>> /\ energy = 0 /\ attached = TRUE
  /\ scrapes = <<>> /\ events = Zero /\ pushed = <<>>

\* Mutant of Delta: the counts since the server's start.
DeltaSinceStart(cur, prev) == cur
Delta(cur, prev) == [b \in DOMAIN cur |-> cur[b] - prev[b]]

\* histogram_quantile for 95 %, over what was counted since the last scrape: the
\* bucket that holds it; the edge before it if that is the last one, which has
\* none; 0 in a quiet window.
P95(cur, prev) ==
  LET d == Delta(cur, prev)
      total == d[Len(d)]
      reaching == {b \in DOMAIN d : 100 * d[b] >= 95 * total}
      winning == CHOOSE b \in reaching : \A c \in reaching : b <= c
  IN IF total <= 0 THEN 0 ELSE IF winning = Len(d) THEN winning - 1 ELSE winning

\* What is left when the old samples at the front are gone; the newest is never old.
InWindow(seq, ts) ==
  SubSeq(seq, Min({k \in DOMAIN seq : ts - seq[k].ts <= Window}), Len(seq))

\* SLOChecker.push
Push(ts, p95) ==
  /\ samples' = InWindow(Append(samples, [ts |-> ts, p95 |-> p95]), ts)
  /\ LET breach == \E k \in DOMAIN samples' : samples'[k].p95 > target
     IN /\ violations' = IF breach THEN violations + 1 ELSE 0
        /\ degraded' = (breach /\ (degraded \/ violations' >= Consecutive))

\* Mutant of Trapezoid: the rectangle of the new sample, counted twice as often.
TrapezoidDouble(w0, w, dt) == 2 * (w0 + w) * dt
\* Twice the area.
Trapezoid(w0, w, dt) == (w0 + w) * dt

\* DeploymentBuffers.push_power; the energy is kept for ever, the ring is not.
PushPower(ts, w) ==
  /\ pushed' = Append(pushed, [ts |-> ts, w |-> w])
  /\ energy' = IF power = <<>> THEN energy
               ELSE energy + Trapezoid(Last(power).w, w, ts - Last(power).ts)
  /\ power' = LET longer == Append(power, [ts |-> ts, w |-> w])
              IN IF Len(longer) > MaxLen THEN Tail(longer) ELSE longer

\* One iteration of _loop. A scrape or nvidia-smi may fail or time out; then its
\* part of the iteration is skipped.
Iterate ==
  /\ attached
  /\ \E load \in Loads, gap \in Gaps, scraped, metered \in BOOLEAN :
       /\ now + gap <= MaxTime
       /\ now' = now + gap
       /\ counters' = Plus(counters, load.events)
       /\ IF scraped
          THEN /\ Push(now', P95(Cumulative(counters'), prevBuckets))
               /\ prevBuckets' = Cumulative(counters')
               /\ scrapes' = Append(scrapes, [ts |-> now', events |-> Plus(events, load.events)])
               /\ events' = Zero
          ELSE /\ events' = Plus(events, load.events)
               /\ UNCHANGED <<checker, prevBuckets, scrapes>>
       /\ IF metered THEN PushPower(now', load.watts) ELSE UNCHANGED <<power, energy, pushed>>
  /\ UNCHANGED <<target, attached>>

\* The row has ended, or terminate's hook detaches.
Detach ==
  /\ attached /\ attached' = FALSE
  /\ UNCHANGED <<target, now, counters, prevBuckets, checker, power, energy, scrapes, events, pushed>>

Next == Iterate \/ Detach
Spec == Init /\ [][Next]_vars

\* DeploymentBuffers.summary
Span == IF Len(power) > 1 THEN Last(power).ts - power[1].ts ELSE 0

(***************************************************************************)
(* Properties.                                                             *)
(***************************************************************************)

\* More than 5 % of the events are above the target, which is below the last
\* edge: beyond that edge the histogram tells nothing apart.
Slow(n, t) == /\ t < Len(n) - 1
              /\ 100 * MapThenSumSet(LAMBDA b : n[b], {b \in DOMAIN n : b <= t})
                   < 95 * MapThenSumSet(LAMBDA b : n[b], DOMAIN n)

\* Scrape k finds a slow interval within its window.
Breached(k) ==
  \E j \in 1..k : scrapes[k].ts - scrapes[j].ts <= Window /\ Slow(scrapes[j].events, target)

\* The verdict follows the load of the windows and nothing older: a deployment is
\* DEGRADED only if the last Consecutive scrapes had a slow interval in their
\* windows, then certainly, and not any longer when the last has none, however
\* slow it was before (Collector.sample, histogram_quantile, SLOChecker.push).
VerdictFollowsLoad ==
  LET n == Len(scrapes)
      bad == n >= Consecutive /\ \A k \in (n - Consecutive + 1)..n : Breached(k)
  IN degraded = bad

\* The average power of the calibration record lies between the least and the
\* greatest sample, as long as the ring holds all of them: the energy is summed
\* over everything, the span is the ring's (push_power against summary).
AverageIsPower ==
  Span > 0 /\ Len(pushed) <= MaxLen =>
    LET ws == {pushed[k].w : k \in DOMAIN pushed}
    IN 2 * Span * Min(ws) <= energy /\ energy <= 2 * Span * Max(ws)
=============================================================================
