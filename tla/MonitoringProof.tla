----------------------------- MODULE MonitoringProof -----------------------------
(***************************************************************************)
(* Theorems about Monitoring, for all histograms and loads, any number of  *)
(* scrapes and samples: the verdict and the average power.                 *)
(***************************************************************************)
EXTENDS Monitoring, DataTheorems, SequenceTheorems

Buckets == DOMAIN (CHOOSE l \in Loads : TRUE).events
Counts == [Buckets -> Nat]

LEMMA BucketsAre ==
  /\ \E n \in Nat \ {0} : Buckets = 1..n
  /\ \A l \in Loads : l.events \in Counts /\ l.watts \in Nat
  /\ Zero \in Counts
  <1> DEFINE l0 == CHOOSE l \in Loads : TRUE
  <1>1. l0 \in Loads
    BY LoadsAssumption
  <1>2. Len(l0.events) \in Nat \ {0} /\ Buckets = 1..Len(l0.events)
    BY <1>1, LoadsAssumption DEF Buckets
  <1>3. \A l \in Loads : l.events \in Counts /\ l.watts \in Nat
    <2> HIDE DEF l0
    <2> TAKE l \in Loads
    <2>1. l.events \in Seq(Nat) /\ Len(l.events) = Len(l0.events) /\ l.watts \in Nat
      BY <1>1, LoadsAssumption
    <2> QED
      BY <1>2, <2>1 DEF Counts
  <1> QED
    BY <1>2, <1>3 DEF Zero, Counts, Buckets

------------------------------------------------------------------------------
(* The quantile of a histogram *)

LEMMA BucketsUpTo ==
  ASSUME NEW b \in Buckets
  PROVE  IsFiniteSet(1..b) /\ 1..b \subseteq Buckets
  BY BucketsAre, FS_Interval

LEMMA CumulativeIs ==
  ASSUME NEW e \in Counts, NEW b \in Buckets
  PROVE  Cumulative(e)[b] = SumFunctionOnSet(e, 1..b) /\ Cumulative(e)[b] \in Nat
         /\ DOMAIN Cumulative(e) = Buckets
  <1>1. Cumulative(e)[b] = SumFunctionOnSet(e, 1..b) /\ DOMAIN Cumulative(e) = Buckets
    BY MapThenSumIsSum DEF Cumulative, Counts
  <1>2. SumFunctionOnSet(e, 1..b) \in Nat
    BY BucketsUpTo, SumIsNat DEF Counts
  <1> QED
    BY <1>1, <1>2

LEMMA CumulativeType ==
  ASSUME NEW e \in Counts PROVE Cumulative(e) \in Counts
  BY CumulativeIs DEF Cumulative, Counts

LEMMA CumulativeOfZero ==
  ASSUME NEW b \in Buckets PROVE Cumulative(Zero)[b] = 0
  <1>1. Zero \in Counts /\ IsFiniteSet(1..b) /\ \A x \in 1..b : Zero[x] = 0
    BY BucketsAre, BucketsUpTo DEF Zero, Buckets
  <1>2. SumFunctionOnSet(Zero, 1..b) = 0
    BY <1>1, SumOfZeros
  <1> QED
    BY <1>1, <1>2, CumulativeIs

LEMMA CumulativeIsMonotone ==
  ASSUME NEW e \in Counts, NEW a \in Buckets, NEW b \in Buckets, a <= b
  PROVE  Cumulative(e)[a] <= Cumulative(e)[b]
  <1> DEFINE Bad == {c \in Buckets : a <= c /\ Cumulative(e)[c] < Cumulative(e)[a]}
  <1>1. SUFFICES ASSUME Bad # {} PROVE FALSE
    BY CumulativeIs
  <1>2. IsFiniteSet(Bad) /\ Bad \in SUBSET Int
    <2>1. IsFiniteSet(Buckets) /\ Buckets \subseteq Int /\ Bad \subseteq Buckets
      BY BucketsAre, FS_Interval
    <2> HIDE DEF Bad
    <2> QED
      BY <2>1, FS_Subset
  <1>3. PICK c \in Bad : \A d \in Bad : c <= d
    BY <1>1, <1>2, FiniteSetHasMin
  <1>4. c \in Buckets /\ c - 1 \in Buckets /\ a <= c - 1 /\ c - 1 \notin Bad
    <2>1. c \in Buckets /\ a <= c /\ Cumulative(e)[c] < Cumulative(e)[a] /\ Cumulative(e)[a] \in Nat
      BY <1>3, CumulativeIs
    <2>2. a \in Int /\ c \in Int /\ a # c
      BY <2>1, BucketsAre
    <2>3. c - 1 \in Buckets /\ a <= c - 1 /\ c - 1 < c
      BY <2>1, <2>2, BucketsAre
    <2>4. c - 1 \notin Bad
      <3> HIDE DEF Bad
      <3> QED
        BY <1>3, <2>2, <2>3
    <2> QED
      BY <2>1, <2>3, <2>4
  <1>5. Cumulative(e)[c] = e[c] + Cumulative(e)[c - 1]
    <2>1. 1..c = (1..(c - 1)) \cup {c} /\ c \notin 1..(c - 1)
      BY <1>4, BucketsAre
    <2>2. IsFiniteSet(1..(c - 1)) /\ \A y \in 1..c : e[y] \in Int
      BY <1>4, BucketsUpTo DEF Counts
    <2>3. SumFunctionOnSet(e, 1..c) = e[c] + SumFunctionOnSet(e, 1..(c - 1))
      BY <2>1, <2>2, SumAdds
    <2> QED
      BY <1>4, <2>3, CumulativeIs
  <1>6. e[c] \in Nat /\ Cumulative(e)[c - 1] \in Nat /\ Cumulative(e)[a] \in Nat
    BY <1>4, CumulativeIs DEF Counts
  <1>7. Cumulative(e)[c] < Cumulative(e)[a] /\ ~(Cumulative(e)[c - 1] < Cumulative(e)[a])
    BY <1>3, <1>4
  <1> HIDE DEF Bad
  <1> QED
    BY <1>5, <1>6, <1>7

LEMMA CumulativeAdds ==
  ASSUME NEW e \in Counts, NEW h \in Counts, NEW b \in Buckets
  PROVE  Plus(e, h) \in Counts
         /\ Cumulative(Plus(e, h))[b] = Cumulative(e)[b] + Cumulative(h)[b]
  <1>1. Plus(e, h) \in Counts /\ \A k \in Buckets : Plus(e, h)[k] = e[k] + h[k]
    BY DEF Plus, Counts
  <1>2. SumFunctionOnSet(Plus(e, h), 1..b) = SumFunctionOnSet(e, 1..b) + SumFunctionOnSet(h, 1..b)
    <2>1. IsFiniteSet(1..b)
      BY BucketsUpTo
    <2>2. \A x \in 1..b : e[x] \in Int /\ h[x] \in Int /\ Plus(e, h)[x] = e[x] + h[x]
      BY <1>1, BucketsUpTo DEF Counts
    <2> QED
      BY <2>1, <2>2, SumsAdd
  <1> QED
    BY <1>1, <1>2, CumulativeIs

\* The bucket that the quantile names lies above the target if and only if too many
\* events do: histogram_quantile against a count of the events.
LEMMA QuantileCounts ==
  ASSUME NEW e \in Counts, NEW cur, NEW prev, DOMAIN cur = Buckets,
         \A b \in Buckets : cur[b] - prev[b] = Cumulative(e)[b], NEW t \in Nat
  PROVE  P95(cur, prev) \in Nat /\ (P95(cur, prev) > t <=> Slow(e, t))
  <1> DEFINE d == Delta(cur, prev)
             n == Len(d)
             total == d[n]
             reaching == {b \in DOMAIN d : 100 * d[b] >= 95 * total}
  <1>1. PICK m \in Nat \ {0} : Buckets = 1..m
    BY BucketsAre
  <1>2. d = [b \in Buckets |-> Cumulative(e)[b]]
    BY DEF Delta
  <1>3. n = m /\ DOMAIN d = 1..m /\ total = Cumulative(e)[m] /\ total \in Nat
    BY <1>1, <1>2, CumulativeIs
  <1>4. \A b \in 1..m : d[b] = Cumulative(e)[b] /\ d[b] \in Nat
    BY <1>1, <1>2, CumulativeIs
  <1>5. t \in Nat /\ Len(e) = m
    BY <1>1 DEF Counts
  <1>6. /\ MapThenSumSet(LAMBDA b : e[b], DOMAIN e) = total
        /\ MapThenSumSet(LAMBDA b : e[b], {b \in DOMAIN e : b <= t})
             = IF t = 0 THEN 0 ELSE IF t <= m THEN Cumulative(e)[t] ELSE total
    <2>1. DOMAIN e = 1..m
      BY <1>1 DEF Counts
    <2>2. \A S : MapThenSumSet(LAMBDA b : e[b], S) = SumFunctionOnSet(e, S)
      BY MapThenSumIsSum
    <2>3. {b \in DOMAIN e : b <= t}
            = IF t = 0 THEN {} ELSE IF t <= m THEN 1..t ELSE 1..m
      BY <1>5, <2>1
    <2>4. total = SumFunctionOnSet(e, 1..m)
      BY <1>1, <1>3, CumulativeIs
    <2>5. t # 0 /\ t <= m => Cumulative(e)[t] = SumFunctionOnSet(e, 1..t)
      BY <1>1, <1>5, CumulativeIs
    <2> HIDE DEF d, n, total, reaching
    <2> QED
      BY <2>1, <2>2, <2>3, <2>4, <2>5, SumOfEmpty
  <1>7. CASE total = 0
    <2>1. P95(cur, prev) = 0
      BY <1>3, <1>7 DEF P95
    <2>2. t # 0 /\ t <= m => Cumulative(e)[t] \in Nat
      BY <1>1, <1>5, CumulativeIs
    <2>3. ~Slow(e, t)
      <3> HIDE DEF d, n, total, reaching
      <3> QED
        BY <1>5, <1>6, <1>7, <2>2 DEF Slow
    <2> QED
      BY <1>5, <2>1, <2>3
  <1>8. CASE total > 0
    <2>1. reaching # {} /\ IsFiniteSet(reaching) /\ reaching \in SUBSET Int
      <3>1. m \in reaching
        BY <1>3, <1>4
      <3>2. reaching \subseteq 1..m /\ IsFiniteSet(1..m) /\ 1..m \subseteq Int
        BY <1>3, FS_Interval
      <3> HIDE DEF reaching, d, n, total
      <3> QED
        BY <3>1, <3>2, FS_Subset
    <2> DEFINE p == CHOOSE b \in reaching : \A c \in reaching : b <= c
    <2>2. P95(cur, prev) = IF p = m THEN m - 1 ELSE p
      <3>1. ~(d[Len(d)] <= 0)
        BY <1>3, <1>8
      <3>2. P95(cur, prev) = IF d[Len(d)] <= 0 THEN 0 ELSE IF p = n THEN p - 1 ELSE p
        BY DEF P95
      <3> HIDE DEF p, d, total, reaching
      <3> QED
        BY <1>3, <3>1, <3>2
    <2>3. p \in reaching /\ \A c \in reaching : p <= c
      <3>1. \E b \in reaching : \A c \in reaching : b <= c
        BY <2>1, FiniteSetHasMin
      <3> HIDE DEF reaching
      <3> QED
        BY <2>2, <3>1
    <2>4. p \in 1..m /\ 100 * Cumulative(e)[p] >= 95 * total
      BY <1>3, <1>4, <2>3
    <2>5. \A c \in 1..m : c < p => 100 * Cumulative(e)[c] < 95 * total
      <3> TAKE c \in 1..m
      <3> HAVE c < p
      <3>1. c \notin reaching
        BY <2>3, <2>4
      <3>2. ~(100 * d[c] >= 95 * total)
        BY <1>3, <3>1
      <3> QED
        BY <1>3, <1>4, <3>2
    <2>6. Slow(e, t) <=> t < m - 1 /\ (t = 0 \/ 100 * Cumulative(e)[t] < 95 * total)
      <3>1. t # 0 /\ t <= m => Cumulative(e)[t] \in Nat
        BY <1>1, <1>5, CumulativeIs
      <3> HIDE DEF d, n, total, reaching
      <3> QED
        BY <1>3, <1>5, <1>6, <1>8, <3>1 DEF Slow
    <2>7. CASE t = 0 \/ t >= m - 1
      BY <1>5, <2>2, <2>4, <2>6, <2>7
    <2>8. CASE t \in 1..(m - 2)
      <3>1. p <= t => Cumulative(e)[p] <= Cumulative(e)[t]
        BY <1>1, <2>4, <2>8, CumulativeIsMonotone
      <3>2. Cumulative(e)[p] \in Nat /\ Cumulative(e)[t] \in Nat
        BY <1>1, <2>4, <2>8, CumulativeIs
      <3>3. t < p => 100 * Cumulative(e)[t] < 95 * total
        BY <2>5, <2>8
      <3>4. t < P95(cur, prev) <=> t < p
        <4> HIDE DEF p
        <4> QED
          BY <2>2, <2>4, <2>8
      <3>5. P95(cur, prev) \in Nat
        BY <2>2, <2>4
      <3> HIDE DEF p, d, n, total, reaching
      <3> QED
        BY <1>3, <2>4, <2>6, <2>8, <3>1, <3>2, <3>3, <3>4, <3>5
    <2> QED
      BY <1>5, <2>7, <2>8
  <1> HIDE DEF d, n, total, reaching
  <1> QED
    BY <1>3, <1>7, <1>8

------------------------------------------------------------------------------
(* The verdict *)

\* The window lies this far back in the scrapes.
Before == Len(scrapes) - Len(samples)

\* The counts: what the server has counted is what the last scrape saw and the events
\* since then.
CountsInv ==
  /\ counters \in Counts /\ events \in Counts
  /\ prevBuckets \in Counts
  /\ \A b \in Buckets : Cumulative(counters)[b] - prevBuckets[b] = Cumulative(events)[b]

\* The scrapes, in their order.
ScrapesInv ==
  /\ now \in Nat
  /\ scrapes \in Seq([ts : Nat, events : Counts])
  /\ \A j, k \in DOMAIN scrapes : j <= k => scrapes[j].ts <= scrapes[k].ts
  /\ \A k \in DOMAIN scrapes : scrapes[k].ts <= now

\* The window is the end of the scrapes: all of them that are not older than it.
WindowInv ==
  /\ samples \in Seq([ts : Nat, p95 : Int])
  /\ Before \in Nat
  /\ \A k \in DOMAIN samples :
       /\ samples[k].ts = scrapes[Before + k].ts
       /\ samples[k].p95 > target <=> Slow(scrapes[Before + k].events, target)
  /\ \A j \in 1..Len(scrapes) :
       scrapes[Len(scrapes)].ts - scrapes[j].ts <= Window <=> j > Before

\* As many scrapes as violations say, and no more, were breaches.
StreakInv ==
  /\ violations \in 0..Len(scrapes)
  /\ \A k \in (Len(scrapes) - violations + 1)..Len(scrapes) : Breached(k)
  /\ violations < Len(scrapes) => ~Breached(Len(scrapes) - violations)
  /\ \/ degraded = TRUE /\ violations >= Consecutive
     \/ degraded = FALSE /\ violations < Consecutive

TargetInv == target \in Nat

VerdictInv == TargetInv /\ CountsInv /\ ScrapesInv /\ WindowInv /\ StreakInv

LEMMA VerdictInit == Init => VerdictInv
  <1> SUFFICES ASSUME Init PROVE VerdictInv
    OBVIOUS
  <1>1. CountsInv
    <2>1. \A b \in Buckets : Zero[b] = 0 /\ Cumulative(Zero)[b] \in Nat
      BY BucketsAre, CumulativeIs DEF Zero, Buckets
    <2> QED
      BY <2>1, BucketsAre DEF Init, CountsInv, Counts
  <1>2. scrapes = <<>> /\ samples = <<>> /\ now = 0 /\ violations = 0 /\ degraded = FALSE
    BY DEF Init
  <1> QED
    <2>1. ScrapesInv
      BY <1>2 DEF ScrapesInv
    <2>2. WindowInv
      BY <1>2 DEF WindowInv, Before
    <2>4. TargetInv
      BY CheckerAssumption DEF Init, TargetInv
    <2>3. StreakInv
      <3>1. Len(scrapes) = 0 /\ violations = 0 /\ degraded = FALSE /\ violations < Consecutive
        BY <1>2, CheckerAssumption
      <3> QED
        BY <3>1 DEF StreakInv
    <2> QED
      BY <1>1, <2>1, <2>2, <2>3, <2>4 DEF VerdictInv

\* An iteration: the time and the counts.
LEMMA IterateCounts ==
  ASSUME CountsInv, ScrapesInv, NEW load \in Loads, NEW gap \in Gaps, now' = now + gap,
         counters' = Plus(counters, load.events)
  PROVE  /\ now' \in Nat /\ now <= now'
         /\ counters' \in Counts /\ Plus(events, load.events) \in Counts
         /\ Cumulative(counters') \in Counts
         /\ \A b \in Buckets :
              Cumulative(counters')[b] - prevBuckets[b] = Cumulative(Plus(events, load.events))[b]
  <1>1. now' \in Nat /\ now <= now'
    BY LoadsAssumption DEF ScrapesInv
  <1>2. counters' \in Counts /\ Plus(events, load.events) \in Counts
    BY BucketsAre, CumulativeAdds DEF CountsInv
  <1>3. Cumulative(counters') \in Counts
    BY <1>2, CumulativeType
  <1>4. ASSUME NEW b \in Buckets
        PROVE  Cumulative(counters')[b] - prevBuckets[b] = Cumulative(Plus(events, load.events))[b]
    <2>1. /\ Cumulative(counters')[b] = Cumulative(counters)[b] + Cumulative(load.events)[b]
          /\ Cumulative(Plus(events, load.events))[b] = Cumulative(events)[b] + Cumulative(load.events)[b]
      BY BucketsAre, CumulativeAdds DEF CountsInv
    <2>2. /\ Cumulative(counters)[b] \in Nat /\ Cumulative(load.events)[b] \in Nat
          /\ Cumulative(events)[b] \in Nat
      BY BucketsAre, CumulativeIs DEF CountsInv
    <2>3. Cumulative(counters)[b] - prevBuckets[b] = Cumulative(events)[b] /\ prevBuckets[b] \in Nat
      BY DEF CountsInv, Counts
    <2> QED
      BY <2>1, <2>2, <2>3
  <1> QED
    BY <1>1, <1>2, <1>3, <1>4
Sample == [ts : Nat, p95 : Int]
ScrapeRecord == [ts : Nat, events : Counts]

\* What is dropped from the front of a sequence in the order of time is what is too old.
LEMMA InWindowIsSuffix ==
  ASSUME NEW L, NEW n \in Nat, n = Len(L), n > 0, DOMAIN L = 1..n,
         \A k \in 1..n : L[k].ts \in Nat,
         \A j, k \in 1..n : j <= k => L[j].ts <= L[k].ts
  PROVE  \E f \in 1..n :
           /\ InWindow(L, L[n].ts) = SubSeq(L, f, n)
           /\ \A k \in 1..n : L[n].ts - L[k].ts <= Window <=> k >= f
  <1> DEFINE fresh == {k \in DOMAIN L : L[n].ts - L[k].ts <= Window}
             f == Min(fresh)
  <1>1. Window \in Nat
    BY CheckerAssumption
  <1>2. n \in fresh /\ fresh \subseteq 1..n
    BY <1>1
  <1>3. f \in fresh /\ \A k \in fresh : f <= k
    <2>1. IsFiniteSet(1..n) /\ 1..n \subseteq Int
      BY FS_Interval
    <2> HIDE DEF fresh
    <2>2. fresh # {} /\ IsFiniteSet(fresh) /\ fresh \in SUBSET Int
      BY <1>2, <2>1, FS_Subset
    <2>3. \E k \in fresh : \A j \in fresh : k <= j
      BY <2>2, FiniteSetHasMin
    <2> QED
      BY <2>3 DEF Min
  <1>4. ASSUME NEW k \in 1..n PROVE L[n].ts - L[k].ts <= Window <=> k >= f
    <2>1. f \in 1..n /\ L[n].ts - L[f].ts <= Window
      BY <1>2, <1>3
    <2>2. L[n].ts - L[k].ts <= Window => k \in fresh
      OBVIOUS
    <2>3. f <= k => L[f].ts <= L[k].ts
      BY <2>1
    <2>4. L[f].ts \in Nat /\ L[k].ts \in Nat /\ L[n].ts \in Nat
      BY <2>1
    <2> HIDE DEF fresh, f
    <2>5. k >= f => L[n].ts - L[k].ts <= Window
      BY <1>1, <2>1, <2>3, <2>4
    <2>6. L[n].ts - L[k].ts <= Window => f <= k
      BY <1>3, <2>2
    <2> QED
      BY <2>1, <2>5, <2>6
  <1>5. InWindow(L, L[n].ts) = SubSeq(L, f, n)
    BY DEF InWindow
  <1>6. f \in 1..n
    BY <1>2, <1>3
  <1> HIDE DEF f
  <1> QED
    BY <1>4, <1>5, <1>6

LEMMA OneMore ==
  ASSUME NEW R, NEW s \in Seq(R), NEW x \in R, NEW s2, s2 = Append(s, x)
  PROVE  /\ s2 \in Seq(R) /\ Len(s) \in Nat /\ Len(s2) = Len(s) + 1 /\ s2[Len(s) + 1] = x
         /\ \A k \in 1..Len(s) : s2[k] = s[k] /\ s[k] \in R
         /\ DOMAIN s = 1..Len(s) /\ DOMAIN s2 = 1..(Len(s) + 1)
  OBVIOUS

\* One scrape more, now.
NewScrape(e) == scrapes' = Append(scrapes, [ts |-> now', events |-> e])

LEMMA ScrapesGrow ==
  ASSUME ScrapesInv, NEW e \in Counts, now' \in Nat, now <= now', NewScrape(e),
         NEW n \in Nat, n = Len(scrapes)
  PROVE  /\ ScrapesInv' /\ Len(scrapes') = n + 1 /\ DOMAIN scrapes' = 1..(n + 1)
         /\ scrapes'[n + 1].ts = now' /\ scrapes'[n + 1].events = e
         /\ \A k \in 1..n : scrapes'[k] = scrapes[k] /\ scrapes[k].ts \in Nat /\ scrapes[k].ts <= now
  <1>1. /\ scrapes' \in Seq(ScrapeRecord) /\ Len(scrapes') = n + 1
        /\ scrapes'[n + 1] = [ts |-> now', events |-> e]
        /\ \A k \in 1..n : scrapes'[k] = scrapes[k] /\ scrapes[k] \in ScrapeRecord
        /\ DOMAIN scrapes = 1..n /\ DOMAIN scrapes' = 1..(n + 1)
    <2>1. scrapes \in Seq(ScrapeRecord)
      BY DEF ScrapesInv, ScrapeRecord
    <2>2. PICK x : x = [ts |-> now', events |-> e]
      OBVIOUS
    <2>3. x \in ScrapeRecord
      BY <2>2 DEF ScrapeRecord
    <2>4. scrapes' = Append(scrapes, x)
      BY <2>2 DEF NewScrape
    <2> QED
      BY <2>1, <2>2, <2>3, <2>4, OneMore
  <1>2. \A k \in 1..n : scrapes'[k].ts = scrapes[k].ts /\ scrapes[k].ts <= now /\ scrapes[k].ts \in Nat
    BY <1>1 DEF ScrapesInv, ScrapeRecord
  <1>3. scrapes'[n + 1].ts = now' /\ scrapes'[n + 1].events = e /\ now \in Nat
    BY <1>1 DEF ScrapesInv
  <1>4. ASSUME NEW k \in 1..(n + 1) PROVE scrapes'[k].ts <= now' /\ scrapes'[k].ts \in Nat
    <2>1. CASE k = n + 1
      BY <1>3, <2>1
    <2>2. CASE k # n + 1
      <3>1. k \in 1..n
        BY <2>2
      <3> QED
        BY <1>2, <1>3, <3>1
    <2> QED
      BY <2>1, <2>2
  <1>5. ASSUME NEW j \in 1..(n + 1), NEW k \in 1..(n + 1), j <= k
        PROVE  scrapes'[j].ts <= scrapes'[k].ts
    <2>1. CASE k = n + 1
      BY <1>3, <1>4, <2>1
    <2>2. CASE k # n + 1
      <3>1. j \in 1..n /\ k \in 1..n
        BY <1>5, <2>2
      <3>2. scrapes[j].ts <= scrapes[k].ts
        BY <1>1, <1>5, <3>1 DEF ScrapesInv
      <3> QED
        BY <1>2, <3>1, <3>2
    <2> QED
      BY <2>1, <2>2
  <1>6. ScrapesInv'
    BY <1>1, <1>4, <1>5 DEF ScrapesInv, ScrapeRecord
  <1> QED
    BY <1>1, <1>2, <1>3, <1>6

\* The checker's window takes a sample in, now.
NewSample(p) == samples' = InWindow(Append(samples, [ts |-> now', p95 |-> p]), now')

\* A scrape: the window afterwards.
LEMMA ScrapeMovesWindow ==
  ASSUME ScrapesInv, WindowInv, now' \in Nat, now <= now', NEW p \in Nat, NEW e \in Counts,
         target' = target, p > target <=> Slow(e, target), NewSample(p), NewScrape(e), NEW n \in Nat, n = Len(scrapes)
  PROVE  WindowInv'
  <1>1. /\ ScrapesInv' /\ Len(scrapes') = n + 1 /\ DOMAIN scrapes' = 1..(n + 1)
        /\ scrapes'[n + 1].ts = now' /\ scrapes'[n + 1].events = e
        /\ \A k \in 1..n : scrapes'[k] = scrapes[k] /\ scrapes[k].ts \in Nat /\ scrapes[k].ts <= now
    BY ScrapesGrow
  <1>2. PICK L : L = Append(samples, [ts |-> now', p95 |-> p])
    OBVIOUS
  <1>3. PICK m \in Nat : m = Len(L)
    BY <1>2 DEF WindowInv
  <1>4. /\ L \in Seq(Sample) /\ m = Len(samples) + 1 /\ Len(samples) \in Nat
        /\ L[m].ts = now' /\ L[m].p95 = p /\ DOMAIN L = 1..m
        /\ \A k \in 1..Len(samples) : L[k] = samples[k]
    <2>1. samples \in Seq(Sample) /\ [ts |-> now', p95 |-> p] \in Sample
      BY DEF WindowInv, Sample
    <2>2. /\ L \in Seq(Sample) /\ m = Len(samples) + 1 /\ Len(samples) \in Nat
          /\ L[m] = [ts |-> now', p95 |-> p] /\ DOMAIN L = 1..m
          /\ \A k \in 1..Len(samples) : L[k] = samples[k]
      BY <1>2, <1>3, <2>1, OneMore
    <2> QED
      BY <2>2
  <1>5. PICK b \in Nat : b = Before
    BY DEF WindowInv
  <1>6. n = b + Len(samples) /\ n + 1 = b + m
    BY <1>4, <1>5 DEF Before
  <1>7. ASSUME NEW k \in 1..m
        PROVE  /\ b + k \in 1..(n + 1) /\ L[k].ts = scrapes'[b + k].ts
               /\ L[k].p95 > target <=> Slow(scrapes'[b + k].events, target)
    <2>1. CASE k = m
      BY <1>1, <1>4, <1>6, <2>1
    <2>2. CASE k # m
      <3>1. k \in 1..Len(samples) /\ b + k \in 1..n
        BY <1>4, <1>6, <2>2
      <3>2. scrapes'[b + k] = scrapes[b + k] /\ L[k] = samples[k]
        BY <1>1, <1>4, <3>1
      <3>3. /\ samples[k].ts = scrapes[b + k].ts
            /\ samples[k].p95 > target <=> Slow(scrapes[b + k].events, target)
        <4>1. DOMAIN samples = 1..Len(samples)
          BY DEF WindowInv
        <4> QED
          BY <1>5, <3>1, <4>1 DEF WindowInv
      <3> QED
        BY <1>6, <3>1, <3>2, <3>3
    <2> QED
      BY <2>1, <2>2
  <1>8. \A j, k \in 1..m : j <= k => L[j].ts <= L[k].ts
    <2> TAKE j, k \in 1..m
    <2> HAVE j <= k
    <2>1. b + j \in 1..(n + 1) /\ b + k \in 1..(n + 1) /\ b + j <= b + k
      BY <1>7
    <2>2. scrapes'[b + j].ts <= scrapes'[b + k].ts
      BY <1>1, <2>1 DEF ScrapesInv
    <2> QED
      BY <1>7, <2>2
  <1>9. \A k \in 1..m : L[k].ts \in Nat
    <2>1. \A k \in 1..m : L[k] \in Sample
      BY <1>3, <1>4
    <2> QED
      BY <2>1 DEF Sample
  <1>10. PICK f \in 1..m : /\ samples' = SubSeq(L, f, m)
                           /\ \A k \in 1..m : L[m].ts - L[k].ts <= Window <=> k >= f
    <2>1. samples' = InWindow(L, L[m].ts)
      BY <1>2, <1>4 DEF NewSample
    <2>2. m > 0
      BY <1>4
    <2> QED
      BY <1>3, <1>4, <1>8, <1>9, <2>1, <2>2, InWindowIsSuffix
  <1>11. /\ samples' \in Seq(Sample) /\ Len(samples') = m - f + 1
         /\ \A k \in 1..(m - f + 1) : samples'[k] = L[f + k - 1]
    <2>1. \A i \in f..m : L[i] \in Sample
      BY <1>3, <1>4
    <2>2. f \in Int /\ m \in Int /\ f <= m
      OBVIOUS
    <2>3. /\ SubSeq(L, f, m) \in Seq(Sample)
          /\ Len(SubSeq(L, f, m)) = IF f <= m THEN m - f + 1 ELSE 0
          /\ \A k \in 1..(m - f + 1) : SubSeq(L, f, m)[k] = L[f + k - 1]
      BY <2>1, <2>2, SubSeqProperties
    <2> QED
      BY <1>10, <2>2, <2>3
  <1>12. Before' = b + f - 1 /\ Before' \in Nat
    <2>1. Before' = (n + 1) - (m - f + 1)
      BY <1>1, <1>11 DEF Before
    <2> QED
      BY <1>6, <2>1
  <1>13. ASSUME NEW k \in DOMAIN samples'
         PROVE  /\ samples'[k].ts = scrapes'[Before' + k].ts
                /\ samples'[k].p95 > target <=> Slow(scrapes'[Before' + k].events, target)
    <2>1. k \in 1..(m - f + 1)
      BY <1>11
    <2>2. f + k - 1 \in 1..m /\ Before' + k = b + (f + k - 1)
      BY <1>12, <2>1
    <2>3. samples'[k] = L[f + k - 1]
      BY <1>11, <2>1
    <2> QED
      BY <1>7, <2>2, <2>3
  <1>14. ASSUME NEW j \in 1..(n + 1)
         PROVE  now' - scrapes'[j].ts <= Window <=> j > Before'
    <2>1. CASE j > b
      <3>1. j - b \in 1..m /\ j = b + (j - b)
        BY <1>6, <2>1
      <3>2. L[j - b].ts = scrapes'[j].ts
        BY <1>7, <3>1
      <3>3. now' - scrapes'[j].ts <= Window <=> j - b >= f
        BY <1>4, <1>10, <3>1, <3>2
      <3>4. j - b >= f <=> j > Before'
        BY <1>12
      <3> QED
        BY <3>3, <3>4
    <2>2. CASE j <= b
      <3>1. j \in 1..n /\ n \in 1..n
        BY <1>4, <1>6, <2>2
      <3>2. scrapes[j].ts \in Nat /\ scrapes[n].ts \in Nat /\ scrapes[n].ts <= now /\ now \in Nat
            /\ scrapes'[j] = scrapes[j]
        BY <1>1, <3>1 DEF ScrapesInv
      <3>3. ~(scrapes[n].ts - scrapes[j].ts <= Window)
        BY <1>5, <2>2, <3>1 DEF WindowInv
      <3>4. Window \in Nat
        BY CheckerAssumption
      <3>5. ~(now' - scrapes[j].ts <= Window)
        BY <3>2, <3>3, <3>4
      <3>6. ~(j > Before')
        BY <1>12, <2>2
      <3> QED
        BY <3>2, <3>5, <3>6
    <2> QED
      BY <2>1, <2>2
  <1> QED
    BY <1>1, <1>11, <1>12, <1>13, <1>14 DEF WindowInv, Sample

\* What the checker makes of a scrape: a breach is a slow interval in the window. Stated
\* for the next state, where the checker looks.
LEMMA BreachIsBreached ==
  ASSUME ScrapesInv', WindowInv', NEW n \in Nat, Len(scrapes') = n, n > 0
  PROVE  (\E k \in DOMAIN samples' : samples'[k].p95 > target') <=> Breached(n)'
  <1>1. Before' \in Nat /\ n = Before' + Len(samples') /\ Len(samples') \in Nat
        /\ DOMAIN samples' = 1..Len(samples')
    BY DEF WindowInv, Before
  <1>2. ASSUME NEW k \in DOMAIN samples', samples'[k].p95 > target' PROVE Breached(n)'
    <2>1. Before' + k \in 1..n /\ Before' + k > Before'
      BY <1>1
    <2>2. Slow(scrapes'[Before' + k].events, target')
      BY <1>2 DEF WindowInv
    <2>3. scrapes'[n].ts - scrapes'[Before' + k].ts <= Window
      BY <2>1 DEF WindowInv
    <2> QED
      BY <2>1, <2>2, <2>3 DEF Breached
  <1>3. ASSUME Breached(n)' PROVE \E k \in DOMAIN samples' : samples'[k].p95 > target'
    <2>1. PICK j \in 1..n : scrapes'[n].ts - scrapes'[j].ts <= Window /\ Slow(scrapes'[j].events, target')
      BY <1>3 DEF Breached
    <2>2. j > Before'
      BY <2>1 DEF WindowInv
    <2>3. j - Before' \in DOMAIN samples' /\ Before' + (j - Before') = j
      <3>1. PICK b \in Nat : b = Before'
        BY <1>1
      <3>2. PICK l \in Nat : l = Len(samples')
        BY <1>1
      <3>3. n = b + l /\ DOMAIN samples' = 1..l /\ j > b
        BY <1>1, <2>2, <3>1, <3>2
      <3>4. j - b \in 1..l /\ b + (j - b) = j
        BY <3>3
      <3> QED
        BY <3>1, <3>3, <3>4
    <2>4. samples'[j - Before'].p95 > target' <=> Slow(scrapes'[Before' + (j - Before')].events, target')
      BY <2>3 DEF WindowInv
    <2> QED
      BY <2>1, <2>3, <2>4
  <1> QED
    BY <1>2, <1>3

LEMMA ScrapeCounts ==
  ASSUME StreakInv, ScrapesInv', WindowInv', target' = target, NEW n \in Nat, n = Len(scrapes),
         Len(scrapes') = n + 1, \A k \in 1..n : scrapes'[k] = scrapes[k],
         LET breach == \E k \in DOMAIN samples' : samples'[k].p95 > target
         IN /\ violations' = IF breach THEN violations + 1 ELSE 0
            /\ degraded' = (breach /\ (degraded \/ violations' >= Consecutive))
  PROVE  StreakInv'
  <1> DEFINE breach == \E k \in DOMAIN samples' : samples'[k].p95 > target
  <1>1. breach <=> Breached(n + 1)'
    <2>1. n + 1 \in Nat /\ n + 1 > 0
      OBVIOUS
    <2> QED
      BY <2>1, BreachIsBreached
  <1>2. ASSUME NEW k \in 1..n PROVE Breached(k)' <=> Breached(k)
    <2>1. \A j \in 1..k : scrapes'[j] = scrapes[j]
      OBVIOUS
    <2> QED
      BY <2>1 DEF Breached
  <1>3. violations' = (IF breach THEN violations + 1 ELSE 0)
        /\ degraded' = (breach /\ (degraded \/ violations' >= Consecutive))
    OBVIOUS
  <1> HIDE DEF breach
  <1>4. Consecutive \in Nat \ {0} /\ violations \in 0..n /\ violations \in Nat
    BY CheckerAssumption DEF StreakInv
  <1>5. CASE breach
    <2>1. violations' = violations + 1 /\ violations' \in 0..(n + 1)
      BY <1>3, <1>4, <1>5
    <2>2. \/ degraded' = TRUE /\ violations' >= Consecutive
          \/ degraded' = FALSE /\ violations' < Consecutive
      <3>1. CASE degraded = TRUE
        <4>1. violations >= Consecutive
          BY <3>1 DEF StreakInv
        <4>2. violations' >= Consecutive
          BY <1>4, <2>1, <4>1
        <4> QED
          BY <1>3, <1>5, <3>1, <4>2
      <3>2. CASE degraded = FALSE /\ violations' >= Consecutive
        BY <1>3, <1>5, <3>2
      <3>3. CASE degraded = FALSE /\ ~(violations' >= Consecutive)
        <4>1. degraded' = FALSE
          BY <1>3, <1>5, <3>3
        <4>2. violations' < Consecutive
          BY <1>4, <2>1, <3>3
        <4> QED
          BY <4>1, <4>2
      <3> QED
        BY <3>1, <3>2, <3>3 DEF StreakInv
    <2>3. ASSUME NEW k \in (n + 1 - violations' + 1)..(n + 1) PROVE Breached(k)'
      <3>1. CASE k = n + 1
        BY <1>1, <1>5, <3>1
      <3>2. CASE k # n + 1
        <4>1. k \in (n - violations + 1)..n /\ k \in 1..n
          BY <1>4, <2>1, <3>2
        <4>2. Breached(k)
          BY <4>1 DEF StreakInv
        <4> QED
          BY <1>2, <4>1, <4>2
      <3> QED
        BY <3>1, <3>2
    <2>4. ASSUME NEW k, k = n + 1 - violations', violations' < n + 1 PROVE ~Breached(k)'
      <3>1. k = n - violations /\ k \in 1..n /\ violations < n
        BY <1>4, <2>1, <2>4
      <3>2. ~Breached(k)
        BY <3>1 DEF StreakInv
      <3> QED
        BY <1>2, <3>1, <3>2
    <2> QED
      BY <2>1, <2>2, <2>3, <2>4 DEF StreakInv
  <1>6. CASE ~breach
    <2>1. violations' = 0 /\ degraded' = FALSE
      BY <1>3, <1>6
    <2>2. violations' < Consecutive /\ violations' \in 0..(n + 1)
      BY <1>4, <2>1
    <2>3. ASSUME NEW k, k = n + 1 - violations' PROVE ~Breached(k)'
      BY <1>1, <1>6, <2>1, <2>3
    <2>4. (n + 1 - violations' + 1)..(n + 1) = {}
      BY <2>1
    <2> QED
      BY <2>1, <2>2, <2>3, <2>4 DEF StreakInv
  <1> QED
    BY <1>5, <1>6

LEMMA IterateVerdict ==
  ASSUME VerdictInv, Iterate PROVE VerdictInv'
  <1>1. PICK load \in Loads, gap \in Gaps, scraped \in BOOLEAN :
          /\ now' = now + gap /\ target' = target
          /\ counters' = Plus(counters, load.events)
          /\ IF scraped
             THEN /\ Push(now', P95(Cumulative(counters'), prevBuckets))
                  /\ prevBuckets' = Cumulative(counters')
                  /\ scrapes' = Append(scrapes, [ts |-> now', events |-> Plus(events, load.events)])
                  /\ events' = Zero
             ELSE /\ events' = Plus(events, load.events)
                  /\ UNCHANGED <<checker, prevBuckets, scrapes>>
    BY DEF Iterate
  <1>2. PICK e : e = Plus(events, load.events)
    OBVIOUS
  <1>3. /\ now' \in Nat /\ now <= now' /\ counters' \in Counts /\ e \in Counts
        /\ Cumulative(counters') \in Counts
        /\ \A b \in Buckets : Cumulative(counters')[b] - prevBuckets[b] = Cumulative(e)[b]
    BY <1>1, <1>2, IterateCounts DEF VerdictInv
  <1>4. PICK p : p = P95(Cumulative(counters'), prevBuckets)
    OBVIOUS
  <1>5. p \in Nat /\ (p > target <=> Slow(e, target))
    <2>1. DOMAIN Cumulative(counters') = Buckets
      BY <1>3 DEF Counts
    <2> QED
      BY <1>3, <1>4, <2>1, QuantileCounts DEF VerdictInv, TargetInv
  <1>6. CASE scraped
    <2>1. /\ Push(now', p) /\ prevBuckets' = Cumulative(counters') /\ NewScrape(e) /\ events' = Zero
          /\ NewSample(p)
      BY <1>1, <1>2, <1>4, <1>6 DEF NewScrape, NewSample, Push
    <2>2. PICK n \in Nat : n = Len(scrapes)
      BY DEF VerdictInv, ScrapesInv
    <2>3. /\ ScrapesInv' /\ Len(scrapes') = n + 1
          /\ \A k \in 1..n : scrapes'[k] = scrapes[k]
      BY <1>3, <2>1, <2>2, ScrapesGrow DEF VerdictInv
    <2>4. WindowInv'
      BY <1>1, <1>3, <1>5, <2>1, <2>2, ScrapeMovesWindow DEF VerdictInv
    <2>5. StreakInv'
      BY <1>1, <2>1, <2>2, <2>3, <2>4, ScrapeCounts DEF VerdictInv, Push
    <2>6. CountsInv'
      <3>1. \A b \in Buckets : Cumulative(Zero)[b] = 0
        BY CumulativeOfZero
      <3>2. \A b \in Buckets : Cumulative(counters')[b] \in Nat
        BY <1>3 DEF Counts
      <3> QED
        BY <1>3, <2>1, <3>1, <3>2, BucketsAre DEF CountsInv
    <2> QED
      BY <1>1, <2>3, <2>4, <2>5, <2>6 DEF VerdictInv, TargetInv
  <1>7. CASE ~scraped
    <2>1. /\ events' = e
          /\ UNCHANGED <<samples, violations, degraded, prevBuckets, scrapes>>
      BY <1>1, <1>2, <1>7 DEF checker
    <2>2. CountsInv'
      BY <1>3, <2>1 DEF CountsInv, VerdictInv
    <2>3. ScrapesInv'
      <3>1. \A k \in DOMAIN scrapes : scrapes[k].ts \in Nat /\ now \in Nat
        <4>1. scrapes \in Seq(ScrapeRecord) /\ now \in Nat
          BY DEF VerdictInv, ScrapesInv, ScrapeRecord
        <4>2. \A k \in DOMAIN scrapes : scrapes[k] \in ScrapeRecord
          BY <4>1
        <4> QED
          BY <4>1, <4>2 DEF ScrapeRecord
      <3>2. \A k \in DOMAIN scrapes : scrapes[k].ts <= now'
        BY <1>3, <3>1 DEF VerdictInv, ScrapesInv
      <3> QED
        BY <1>3, <2>1, <3>2 DEF VerdictInv, ScrapesInv
    <2>4. WindowInv' /\ StreakInv'
      BY <1>1, <2>1 DEF VerdictInv, WindowInv, StreakInv, Before, Breached
    <2> QED
      BY <1>1, <2>2, <2>3, <2>4 DEF VerdictInv, TargetInv
  <1> QED
    BY <1>6, <1>7

LEMMA VerdictStep ==
  ASSUME VerdictInv, [Next]_vars PROVE VerdictInv'
  <1>1. CASE Iterate
    BY <1>1, IterateVerdict
  <1>2. CASE Detach \/ UNCHANGED vars
    <2>1. UNCHANGED <<target, now, counters, prevBuckets, samples, violations, degraded, scrapes, events>>
      BY <1>2 DEF Detach, vars, checker
    <2> QED
      BY <2>1 DEF VerdictInv, TargetInv, CountsInv, ScrapesInv, WindowInv, StreakInv, Before, Breached
  <1> QED
    BY <1>1, <1>2 DEF Next

\* VerdictInv holds throughout.
THEOREM VerdictInvariant == Spec => []VerdictInv
  BY VerdictInit, VerdictStep, PTL DEF Spec

\* Whatever the load, its histogram and the scrapes that fail, a deployment is degraded
\* if and only if each of the last Consecutive scrapes had a slow interval in its window
\* (Collector.sample, histogram_quantile, SLOChecker.push).
THEOREM VerdictIsLoad == Spec => []VerdictFollowsLoad
  <1>1. VerdictInv => VerdictFollowsLoad
    <2> SUFFICES ASSUME StreakInv, ScrapesInv PROVE VerdictFollowsLoad
      BY DEF VerdictInv
    <2>1. PICK n \in Nat : n = Len(scrapes)
      BY DEF ScrapesInv
    <2> DEFINE bad == n >= Consecutive /\ \A k \in (n - Consecutive + 1)..n : Breached(k)
    <2>2. Consecutive \in Nat \ {0} /\ violations \in 0..n
      BY <2>1, CheckerAssumption DEF StreakInv
    <2>3. CASE degraded = TRUE /\ violations >= Consecutive
      <3>1. n >= Consecutive
        BY <2>2, <2>3
      <3>2. ASSUME NEW k \in (n - Consecutive + 1)..n PROVE Breached(k)
        <4>1. k \in (n - violations + 1)..n
          BY <2>2, <2>3
        <4> QED
          BY <2>1, <4>1 DEF StreakInv
      <3>3. bad
        BY <3>1, <3>2
      <3> HIDE DEF bad
      <3>4. degraded = bad
        BY <2>3, <3>3
      <3> QED
        BY <2>1, <3>4 DEF VerdictFollowsLoad, bad
    <2>4. CASE degraded = FALSE /\ violations < Consecutive
      <3>1. ~bad
        <4>1. CASE n < Consecutive
          BY <2>2, <4>1
        <4>2. CASE n >= Consecutive
          <5>1. violations < n /\ n - violations \in (n - Consecutive + 1)..n
            BY <2>2, <2>4, <4>2
          <5>2. ~Breached(n - violations)
            BY <2>1, <5>1 DEF StreakInv
          <5> QED
            BY <5>1, <5>2
        <4> QED
          BY <2>2, <4>1, <4>2
      <3> HIDE DEF bad
      <3>2. degraded = bad
        BY <2>4, <3>1 DEF bad
      <3> QED
        BY <2>1, <3>2 DEF VerdictFollowsLoad, bad
    <2> QED
      BY <2>3, <2>4 DEF StreakInv
  <1> QED
    BY <1>1, VerdictInvariant, PTL

------------------------------------------------------------------------------
(* The average power *)

LEMMA ProductsKeepOrder ==
  ASSUME NEW a \in Int, NEW b \in Int, a <= b, NEW d \in Nat
  PROVE  a * d <= b * d
  <1>1. (b - a) * d >= 0
    OBVIOUS
  <1>2. b * d = a * d + (b - a) * d
    OBVIOUS
  <1> QED
    BY <1>1, <1>2

\* A span d longer, at powers w0 and w that are within lo and hi.
LEMMA TrapezoidWithin ==
  ASSUME NEW S \in Int, NEW d \in Nat, NEW w0 \in Nat, NEW w \in Nat, NEW E \in Int,
         NEW lo \in Nat, NEW hi \in Nat, lo <= w0, lo <= w, w0 <= hi, w <= hi,
         2 * S * lo <= E, E <= 2 * S * hi
  PROVE  2 * (S + d) * lo <= E + Trapezoid(w0, w, d) /\ E + Trapezoid(w0, w, d) <= 2 * (S + d) * hi
  <1> DEFINE more == (w0 + w) * d
  <1>1. (lo + lo) * d <= more /\ more <= (hi + hi) * d
    <2>1. /\ lo + lo \in Int /\ hi + hi \in Int /\ w0 + w \in Int
          /\ lo + lo <= w0 + w /\ w0 + w <= hi + hi
      OBVIOUS
    <2> QED
      BY <2>1, ProductsKeepOrder
  <1>2. 2 * (S + d) * lo = 2 * S * lo + (lo + lo) * d /\ 2 * (S + d) * hi = 2 * S * hi + (hi + hi) * d
    OBVIOUS
  <1>3. /\ more \in Int /\ (lo + lo) * d \in Int /\ (hi + hi) * d \in Int
        /\ 2 * S * lo \in Int /\ 2 * S * hi \in Int
    OBVIOUS
  <1>4. Trapezoid(w0, w, d) = more
    BY DEF Trapezoid
  <1>5. ASSUME NEW x \in Int, NEW y \in Int, NEW z \in Int, NEW u \in Int, x <= y, z <= u
        PROVE  x + z <= y + u
    BY <1>5
  <1> HIDE DEF more
  <1>6. 2 * S * lo + (lo + lo) * d <= E + more /\ E + more <= 2 * S * hi + (hi + hi) * d
    BY <1>1, <1>3, <1>5
  <1> QED
    BY <1>2, <1>4, <1>6

PowerSample == [ts : Nat, w : Nat]

\* Every sample lies within these bounds.
Within(lo, hi) == \A k \in DOMAIN pushed : lo <= pushed[k].w /\ pushed[k].w <= hi

\* As long as nothing is dropped from the ring, it holds all samples, and the energy is
\* within whatever bounds their powers are in.
EnergyInv ==
  /\ now \in Nat
  /\ pushed \in Seq(PowerSample) /\ power \in Seq(PowerSample)
  /\ energy \in Int
  /\ Len(pushed) = 0 => energy = 0
  /\ Len(pushed) > 0 => pushed[Len(pushed)].ts <= now
  /\ Len(pushed) <= MaxLen => power = pushed
  /\ 0 < Len(pushed) /\ Len(pushed) <= MaxLen => \A lo, hi \in Nat : Within(lo, hi) =>
       /\ 2 * (pushed[Len(pushed)].ts - pushed[1].ts) * lo <= energy
       /\ energy <= 2 * (pushed[Len(pushed)].ts - pushed[1].ts) * hi

LEMMA EnergyInit == Init => EnergyInv
  BY DEF Init, EnergyInv

LEMMA PushEnergy ==
  ASSUME EnergyInv, NEW ts \in Nat, now' = ts, now <= ts, NEW w \in Nat, PushPower(ts, w),
         NEW n \in Nat, n = Len(pushed)
  PROVE  EnergyInv'
  <1>1. PICK x : x = [ts |-> ts, w |-> w]
    OBVIOUS
  <1>2. x \in PowerSample /\ x.ts = ts /\ x.w = w
    BY <1>1 DEF PowerSample
  <1>3. /\ pushed' = Append(pushed, x)
        /\ energy' = IF power = <<>> THEN energy
                     ELSE energy + Trapezoid(Last(power).w, w, ts - Last(power).ts)
        /\ power' = IF Len(Append(power, x)) > MaxLen THEN Tail(Append(power, x)) ELSE Append(power, x)
    BY <1>1 DEF PushPower
  <1>4. /\ pushed' \in Seq(PowerSample) /\ Len(pushed') = n + 1 /\ pushed'[n + 1] = x
        /\ \A k \in 1..n : pushed'[k] = pushed[k] /\ pushed[k] \in PowerSample
        /\ DOMAIN pushed = 1..n /\ DOMAIN pushed' = 1..(n + 1)
    <2>1. pushed \in Seq(PowerSample)
      BY DEF EnergyInv
    <2> QED
      BY <1>2, <1>3, <2>1, OneMore
  <1>5. MaxLen \in Nat
    BY CheckerAssumption
  <1>6. n + 1 <= MaxLen => power = pushed /\ power' = pushed'
    <2> SUFFICES ASSUME n + 1 <= MaxLen PROVE power = pushed /\ power' = pushed'
      OBVIOUS
    <2>1. power = pushed
      BY <1>5 DEF EnergyInv
    <2>2. Append(power, x) = pushed' /\ ~(Len(Append(power, x)) > MaxLen)
      BY <1>3, <1>4, <1>5, <2>1
    <2> QED
      BY <1>3, <2>1, <2>2
  <1>7. energy \in Int /\ now \in Nat /\ power \in Seq(PowerSample)
    BY DEF EnergyInv
  <1>8. power # <<>> => /\ Last(power).w \in Nat /\ Last(power).ts \in Nat
    <2> SUFFICES ASSUME power # <<>> PROVE Last(power) \in PowerSample
      BY DEF PowerSample
    <2>1. Len(power) \in 1..Len(power)
      BY <1>7
    <2> QED
      BY <1>7, <2>1 DEF Last
  <1>9. energy' \in Int
    <2>1. CASE power = <<>>
      BY <1>3, <1>7, <2>1
    <2>2. CASE power # <<>>
      <3>1. PICK w0 \in Nat, t0 \in Nat : w0 = Last(power).w /\ t0 = Last(power).ts
        BY <1>8, <2>2
      <3>2. Trapezoid(w0, w, ts - t0) \in Int
        BY DEF Trapezoid
      <3> QED
        BY <1>3, <1>7, <2>2, <3>1, <3>2
    <2> QED
      BY <2>1, <2>2
  <1>10. power' \in Seq(PowerSample)
    <2>1. Append(power, x) \in Seq(PowerSample) /\ Append(power, x) # <<>>
      BY <1>2, <1>7
    <2>2. Tail(Append(power, x)) \in Seq(PowerSample)
      BY <2>1
    <2> QED
      BY <1>3, <2>1, <2>2
  <1>11. ASSUME n + 1 <= MaxLen, NEW lo \in Nat, NEW hi \in Nat, Within(lo, hi)'
         PROVE  /\ 2 * (ts - pushed'[1].ts) * lo <= energy'
                /\ energy' <= 2 * (ts - pushed'[1].ts) * hi
    <2>1. power = pushed
      BY <1>6, <1>11
    <2>2. \A k \in 1..n : lo <= pushed[k].w /\ pushed[k].w <= hi
      <3>1. \A k \in 1..n : k \in DOMAIN pushed' /\ pushed'[k] = pushed[k]
        BY <1>4
      <3> QED
        BY <1>11, <3>1 DEF Within
    <2>3. lo <= w /\ w <= hi
      BY <1>2, <1>4, <1>11 DEF Within
    <2>4. CASE n = 0
      <3>1. power = <<>>
        BY <1>4, <2>1, <2>4
      <3>2. energy' = energy /\ pushed'[1].ts = ts
        BY <1>2, <1>3, <1>4, <2>4, <3>1
      <3>3. energy = 0
        BY <1>4, <2>4 DEF EnergyInv
      <3> QED
        BY <3>2, <3>3
    <2>5. CASE n > 0
      <3>1. 1 \in 1..n /\ n \in 1..n
        BY <2>5
      <3>2. pushed[1] \in PowerSample /\ pushed[n] \in PowerSample /\ pushed'[1] = pushed[1]
        BY <1>4, <3>1
      <3>3. PICK t1 \in Nat, t0 \in Nat, w0 \in Nat :
              t1 = pushed[1].ts /\ t0 = pushed[n].ts /\ w0 = pushed[n].w
        BY <3>2 DEF PowerSample
      <3>4. power # <<>> /\ Last(power) = pushed[n]
        BY <1>4, <2>1, <2>5 DEF Last
      <3>5. energy' = energy + Trapezoid(w0, w, ts - t0)
        BY <1>3, <3>3, <3>4
      <3>6. t0 <= ts
        BY <1>7, <2>5, <3>3 DEF EnergyInv
      <3>7. 2 * (t0 - t1) * lo <= energy /\ energy <= 2 * (t0 - t1) * hi
        <4>1. Within(lo, hi)
          BY <1>4, <2>2 DEF Within
        <4>2. 0 < Len(pushed) /\ Len(pushed) <= MaxLen
          BY <1>5, <1>11, <2>5
        <4> QED
          BY <3>3, <4>1, <4>2 DEF EnergyInv
      <3>8. lo <= w0 /\ w0 <= hi
        BY <2>2, <3>1, <3>3
      <3>9. PICK d \in Nat, S \in Int : d = ts - t0 /\ S = t0 - t1 /\ S + d = ts - t1
        BY <3>6
      <3>10. 2 * (S + d) * lo <= energy + Trapezoid(w0, w, d)
             /\ energy + Trapezoid(w0, w, d) <= 2 * (S + d) * hi
        BY <1>7, <2>3, <3>7, <3>8, <3>9, TrapezoidWithin
      <3> QED
        BY <3>2, <3>3, <3>5, <3>9, <3>10
    <2> QED
      BY <2>4, <2>5
  <1>12. Len(pushed') > 0 /\ pushed'[Len(pushed')].ts = ts
    BY <1>2, <1>4
  <1> QED
    BY <1>4, <1>6, <1>9, <1>10, <1>11, <1>12 DEF EnergyInv

LEMMA EnergyStep ==
  ASSUME EnergyInv, [Next]_vars PROVE EnergyInv'
  <1>1. CASE Iterate
    <2>1. PICK load \in Loads, gap \in Gaps, metered \in BOOLEAN :
            /\ now' = now + gap
            /\ IF metered THEN PushPower(now', load.watts) ELSE UNCHANGED <<power, energy, pushed>>
      BY <1>1 DEF Iterate
    <2>2. now \in Nat /\ now' \in Nat /\ now <= now' /\ load.watts \in Nat
      BY <2>1, LoadsAssumption, BucketsAre DEF EnergyInv
    <2>3. CASE metered
      <3>1. PICK n \in Nat : n = Len(pushed)
        BY DEF EnergyInv
      <3> QED
        BY <2>1, <2>2, <2>3, <3>1, PushEnergy
    <2>4. CASE ~metered
      <3>1. UNCHANGED <<power, energy, pushed>>
        BY <2>1, <2>4
      <3>2. Len(pushed) > 0 => pushed[Len(pushed)].ts <= now'
        <4> SUFFICES ASSUME Len(pushed) > 0 PROVE pushed[Len(pushed)].ts <= now'
          OBVIOUS
        <4>1. pushed \in Seq(PowerSample)
          BY DEF EnergyInv
        <4>2. Len(pushed) \in 1..Len(pushed)
          BY <4>1
        <4>3. pushed[Len(pushed)] \in PowerSample
          BY <4>1, <4>2
        <4>4. PICK t \in Nat : t = pushed[Len(pushed)].ts
          BY <4>3 DEF PowerSample
        <4>5. t <= now
          BY <4>4 DEF EnergyInv
        <4> QED
          BY <2>2, <4>4, <4>5
      <3> QED
        BY <2>2, <3>1, <3>2 DEF EnergyInv, Within
    <2> QED
      BY <2>3, <2>4
  <1>2. CASE Detach \/ UNCHANGED vars
    <2>1. UNCHANGED <<now, power, energy, pushed>>
      BY <1>2 DEF Detach, vars
    <2> QED
      BY <2>1 DEF EnergyInv, Within
  <1> QED
    BY <1>1, <1>2 DEF Next

\* EnergyInv holds throughout.
THEOREM EnergyInvariant == Spec => []EnergyInv
  BY EnergyInit, EnergyStep, PTL DEF Spec

\* However the samples are spaced and whatever the ring's length, the average power of a
\* deployment's record is none that it never drew, as long as the ring holds all samples
\* (DeploymentBuffers.push_power, summary).
THEOREM AverageIsWithin == Spec => []AverageIsPower
  <1>1. EnergyInv => AverageIsPower
    <2> SUFFICES ASSUME EnergyInv, Span > 0, Len(pushed) <= MaxLen
                 PROVE  LET ws == {pushed[k].w : k \in DOMAIN pushed}
                        IN 2 * Span * Min(ws) <= energy /\ energy <= 2 * Span * Max(ws)
      BY DEF AverageIsPower
    <2> DEFINE ws == {pushed[k].w : k \in DOMAIN pushed}
    <2>1. PICK n \in Nat : n = Len(pushed) /\ DOMAIN pushed = 1..n /\ \A k \in 1..n : pushed[k] \in PowerSample
      BY DEF EnergyInv
    <2>2. power = pushed
      BY DEF EnergyInv
    <2>3. n > 1 /\ Span = pushed[n].ts - pushed[1].ts
      BY <2>1, <2>2 DEF Span, Last
    <2>4. \A k \in 1..n : pushed[k].w \in Nat
      BY <2>1 DEF PowerSample
    <2>5. ws # {} /\ IsFiniteSet(ws) /\ ws \in SUBSET Int /\ ws \subseteq Nat
      <3>1. IsFiniteSet(1..n) /\ 1 \in 1..n
        BY <2>3, FS_Interval
      <3>2. PICK f : f = [k \in 1..n |-> pushed[k].w]
        OBVIOUS
      <3>3. ws = {f[k] : k \in 1..n}
        BY <2>1, <3>2
      <3>4. IsFiniteSet({f[k] : k \in 1..n})
        BY <3>1, ImageIsFinite
      <3>5. ws \subseteq Nat /\ pushed[1].w \in ws
        BY <2>1, <2>4, <3>1
      <3> HIDE DEF ws
      <3> QED
        BY <3>3, <3>4, <3>5
    <2>6. /\ Min(ws) \in ws /\ \A x \in ws : Min(ws) <= x
          /\ Max(ws) \in ws /\ \A x \in ws : x <= Max(ws)
      <3> HIDE DEF ws
      <3>1. /\ \E x \in ws : \A y \in ws : x <= y
            /\ \E x \in ws : \A y \in ws : y <= x
        BY <2>5, FiniteSetHasMin, FiniteSetHasMax
      <3> QED
        BY <3>1 DEF Min, Max
    <2>7. PICK lo \in Nat, hi \in Nat : lo = Min(ws) /\ hi = Max(ws)
      BY <2>5, <2>6
    <2>8. Within(lo, hi)
      <3>1. \A k \in DOMAIN pushed : pushed[k].w \in ws
        OBVIOUS
      <3> HIDE DEF ws
      <3> QED
        BY <2>6, <2>7, <3>1 DEF Within
    <2>9. 0 < Len(pushed) /\ Len(pushed) <= MaxLen
      BY <2>1, <2>3
    <2>10. 2 * Span * lo <= energy /\ energy <= 2 * Span * hi
      BY <2>1, <2>3, <2>8, <2>9 DEF EnergyInv
    <2> HIDE DEF ws
    <2>11. 2 * Span * Min(ws) <= energy /\ energy <= 2 * Span * Max(ws)
      BY <2>7, <2>10
    <2> QED
      BY <2>11 DEF ws
  <1> QED
    BY <1>1, EnergyInvariant, PTL
=============================================================================
