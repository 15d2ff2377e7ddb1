----------------------------- MODULE EventSimProof -----------------------------
(***************************************************************************)
(* Theorems about EventSim, for every cluster, workload and number of      *)
(* requests.                                                               *)
(***************************************************************************)
EXTENDS EventSim, FiniteSetTheorems, WellFoundedInduction, SequenceTheorems, TLAPS

------------------------------------------------------------------------------
(* Orders on finite sets *)

\* A strict order on a finite set has a minimal element.
LEMMA OrderHasMinimal ==
  ASSUME NEW S, IsFiniteSet(S), S # {}, NEW R,
         \A x \in S : <<x, x>> \notin R,
         \A x, y, z \in S : <<x, y>> \in R /\ <<y, z>> \in R => <<x, z>> \in R
  PROVE  \E x \in S : \A y \in S : <<y, x>> \notin R
  <1> DEFINE Lacks(U) == \A x \in U : \E y \in U : <<y, x>> \in R
             Bad == {U \in SUBSET S : U # {} /\ Lacks(U)}
  <1> SUFFICES ASSUME S \in Bad PROVE FALSE
    OBVIOUS
  <1>1. Bad \subseteq FiniteSubsetsOf(S)
    BY FS_FiniteSubsetsOfFinite
  <1>2. PICK U \in Bad : \A V \in Bad : <<V, U>> \notin StrictSubsetOrdering(S)
    <2> HIDE DEF Bad
    <2> QED
      BY <1>1, FS_StrictSubsetOrderingWellFounded, WFMin
  <1>3. PICK x \in U : TRUE
    OBVIOUS
  <1> DEFINE V == U \ {x}
  <1>4. V \notin Bad
    <2>1. V \in SUBSET S /\ U \in SUBSET S /\ V \subseteq U /\ V # U
      BY <1>3
    <2>2. <<V, U>> \in StrictSubsetOrdering(S)
      BY <2>1 DEF StrictSubsetOrdering
    <2> QED
      BY <1>2, <2>2
  <1>5. V # {}
    BY <1>3
  <1>6. PICK m \in V : \A y \in V : <<y, m>> \notin R
    BY <1>4, <1>5
  <1>7. <<x, m>> \in R
    BY <1>6, <1>3
  <1>8. PICK y \in U : <<y, x>> \in R
    BY <1>3
  <1>9. y \in V /\ <<y, m>> \in R
    BY <1>3, <1>6, <1>7, <1>8
  <1> QED
    BY <1>6, <1>9

\* A nonempty finite set of integers has a least element.
LEMMA SetHasLeast ==
  ASSUME NEW S \in SUBSET Int, IsFiniteSet(S), S # {}
  PROVE  \E x \in S : \A y \in S : x <= y
  <1> DEFINE R == {p \in S \X S : p[1] < p[2]}
  <1>1. \A x, y \in S : <<x, y>> \in R <=> x < y
    OBVIOUS
  <1>2. \E x \in S : \A y \in S : <<y, x>> \notin R
    <2>1. /\ \A x \in S : <<x, x>> \notin R
          /\ \A x, y, z \in S : <<x, y>> \in R /\ <<y, z>> \in R => <<x, z>> \in R
      BY <1>1
    <2> HIDE DEF R
    <2> QED
      BY <2>1, OrderHasMinimal
  <1>3. \A x, y \in S : x <= y <=> ~(y < x)
    OBVIOUS
  <1> HIDE DEF R
  <1> QED
    BY <1>1, <1>2, <1>3

------------------------------------------------------------------------------
(* Shares are compared by cross-multiplication *)

LEMMA Scaling ==
  ASSUME NEW a \in Int, NEW b \in Int, NEW k \in Nat \ {0}
  PROVE  a * k < b * k <=> a < b
  <1>1. CASE a < b
    <2>1. b = a + (b - a) /\ b - a >= 1
      BY <1>1
    <2>2. b * k = a * k + (b - a) * k
      BY <2>1
    <2>3. (b - a) * k >= k
      BY <2>1
    <2> QED
      BY <1>1, <2>2, <2>3
  <1>2. CASE a >= b
    <2>1. a * k = b * k + (a - b) * k /\ (a - b) * k >= 0
      BY <1>2
    <2> QED
      BY <1>2, <2>1
  <1> QED
    BY <1>1, <1>2

LEMMA ShareIsTransitive ==
  ASSUME NEW a \in Nat, NEW b \in Nat, NEW c \in Nat,
         NEW u \in Nat \ {0}, NEW v \in Nat \ {0}, NEW w \in Nat \ {0},
         a * v < b * u, b * w < c * v
  PROVE  a * w < c * u
  <1>1. (a * v) * w < (b * u) * w
    BY Scaling
  <1>2. (b * w) * u < (c * v) * u
    BY Scaling
  <1>3. /\ (a * v) * w = (a * w) * v /\ (b * u) * w = (b * w) * u
        /\ (c * v) * u = (c * u) * v
    OBVIOUS
  <1>4. (a * w) * v < (c * u) * v
    BY <1>1, <1>2, <1>3
  <1> QED
    BY <1>4, Scaling

------------------------------------------------------------------------------
(* The invariant *)

OptTime == Nat \cup {None}

Types ==
  /\ cluster \in Clusters /\ load \in Workloads
  /\ now \in Nat /\ phase \in {"advance", "arrivals", "transfers", "prefills", "decodes"}
  /\ where \in [Requests -> Stages]
  /\ at \in [Requests -> Nat] /\ entry \in [Requests -> Nat]
  /\ due \in [Requests -> Nat] /\ left \in [Requests -> Int]
  /\ queue \in [Insts -> Seq(Requests)]
  /\ dispatched \in [Insts -> Nat]
  /\ admitted \in [Requests -> OptTime]
  /\ first \in [Requests -> OptTime] /\ end \in [Requests -> OptTime]

\* Where a request is, and who is in a queue.
PlaceInv ==
  /\ \A r \in Requests : where[r] \in {"queued", "prefill", "decode"} => at[r] \in Insts
  /\ \A r \in Requests : where[r] = "transit" => DecodePool # {}
  /\ \A i \in Insts : \A k \in 1..Len(queue[i]) :
       where[queue[i][k]] = "queued" /\ at[queue[i][k]] = i
  /\ \A i \in Insts : \A j, k \in 1..Len(queue[i]) : queue[i][j] = queue[i][k] => j = k

IInv == Types /\ PlaceInv /\ WorkConserving

\* What the assumptions say of the cluster at hand.
LEMMA ClusterFacts ==
  ASSUME Types
  PROVE  /\ Insts # {} /\ Insts \subseteq Nat \ {0} /\ IsFiniteSet(Insts)
         /\ \A i \in Insts : /\ Cap(i) \in Nat
                             /\ cluster.inst[i].weight \in Int /\ Weight(i) \in Int
                             /\ \A n \in 0..Cap(i) : Ttft(i, n) \in Nat /\ Tpot(i, n) \in Nat \ {0}
  <1>1. Len(cluster.inst) \in Nat \ {0} /\ Insts = 1..Len(cluster.inst)
    BY ClustersAssumption DEF Types, Insts
  <1>2. \A i \in Insts : Cap(i) \in Nat /\ cluster.inst[i].weight \in Int
    BY ClustersAssumption DEF Types, Insts, Cap
  <1>3. IsFiniteSet(Insts)
    BY <1>1, FS_Interval
  <1>4. \A i \in Insts : \A n \in 0..Cap(i) : Ttft(i, n) \in Nat /\ Tpot(i, n) \in Nat \ {0}
    BY TicksAssumption DEF Types, Insts, Cap, Ttft, Tpot
  <1> QED
    BY <1>1, <1>2, <1>3, <1>4 DEF Weight

LEMMA LoadFacts ==
  ASSUME NEW i
  PROVE  IsFiniteSet(Serving(i)) /\ Load(i) \in Nat
  BY RequestsAssumption, FS_Subset, FS_CardinalityType DEF Serving, Load

\* Route answers with a candidate that is lightest for its weight.
LEMMA RouteChooses ==
  ASSUME Types, NEW pool \in SUBSET Insts, pool # {}
  PROVE  /\ Route(pool) \in Candidates(pool) /\ Route(pool) \in Insts
         /\ \A j \in Candidates(pool) : ~LighterThan(j, Route(pool))
  <1> DEFINE cands == Candidates(pool)
             least == {i \in cands : \A j \in cands : ~LighterThan(j, i)}
             R == {p \in cands \X cands : LighterThan(p[1], p[2])}
  <1>1. cands \subseteq Insts /\ cands # {} /\ IsFiniteSet(cands)
    BY ClusterFacts, FS_Subset DEF Candidates, Positive
  <1>2. \A i \in cands : dispatched[i] \in Nat /\ Weight(i) \in Int
    BY <1>1, ClusterFacts DEF Types
  <1>3. \A i, j \in cands : <<i, j>> \in R <=> LighterThan(i, j)
    OBVIOUS
  <1>4. \E i \in cands : \A j \in cands : <<j, i>> \notin R
    <2> HIDE DEF cands, R
    <2>1. \A x \in cands : <<x, x>> \notin R
      BY <1>2, <1>3 DEF LighterThan
    <2>2. ASSUME NEW x \in cands, NEW y \in cands, NEW z \in cands,
                 LighterThan(x, y), LighterThan(y, z)
          PROVE  LighterThan(x, z)
      <3>1. CASE Weight(z) > 0
        <4>1. /\ {Weight(x), Weight(y), Weight(z)} \subseteq Nat \ {0}
              /\ dispatched[x] * Weight(y) < dispatched[y] * Weight(x)
              /\ dispatched[y] * Weight(z) < dispatched[z] * Weight(y)
          BY <1>2, <2>2, <3>1 DEF LighterThan
        <4> QED
          BY <1>2, <4>1, ShareIsTransitive DEF LighterThan
      <3>2. CASE ~(Weight(z) > 0)
        BY <2>2, <3>2 DEF LighterThan
      <3> QED
        BY <3>1, <3>2
    <2>3. \A x, y, z \in cands : <<x, y>> \in R /\ <<y, z>> \in R => <<x, z>> \in R
      BY <1>3, <2>2
    <2> QED
      BY <1>1, <2>1, <2>3, OrderHasMinimal
  <1>5. least # {}
    BY <1>3, <1>4
  <1>6. least \in SUBSET Int /\ IsFiniteSet(least)
    BY <1>1, ClusterFacts, FS_Subset
  <1>7. \E i \in least : \A j \in least : i <= j
    BY <1>5, <1>6, SetHasLeast
  <1>8. Route(pool) = CHOOSE i \in least : \A j \in least : i <= j
    BY DEF Route
  <1>9. Route(pool) \in least
    BY <1>7, <1>8
  <1> QED
    BY <1>1, <1>9

\* Where no candidate is lighter than another, Route answers with the first.
LEMMA RouteIsFirst ==
  ASSUME Types, NEW pool \in SUBSET Insts, pool # {},
         \A i, j \in Candidates(pool) : ~LighterThan(i, j),
         NEW j \in Candidates(pool)
  PROVE  Route(pool) <= j
  <1> DEFINE cands == Candidates(pool)
             least == {i \in cands : \A m \in cands : ~LighterThan(m, i)}
  <1>1. least = cands
    OBVIOUS
  <1>2. cands \subseteq Insts /\ cands # {} /\ IsFiniteSet(cands)
    BY ClusterFacts, FS_Subset DEF Candidates, Positive
  <1>3. cands \in SUBSET Int
    BY <1>2, ClusterFacts
  <1>4. \E i \in cands : \A m \in cands : i <= m
    BY <1>2, <1>3, SetHasLeast
  <1>5. Route(pool) = CHOOSE i \in least : \A m \in least : i <= m
    BY DEF Route
  <1> QED
    BY <1>1, <1>4, <1>5

------------------------------------------------------------------------------
(* Steps *)

LEMMA InitInv == Init => IInv
  <1> SUFFICES ASSUME Init PROVE IInv
    OBVIOUS
  <1>1. Types
    BY DEF Init, Types, Stages, OptTime, None
  <1>2. \A i \in Insts : queue[i] = <<>> /\ Len(queue[i]) = 0
    BY DEF Init
  <1>3. PlaceInv
    BY <1>2 DEF Init, PlaceInv
  <1>4. \A i \in Insts : Serving(i) = {} /\ Load(i) = 0
    BY FS_EmptySet DEF Init, Serving, Load
  <1>5. WorkConserving
    BY <1>1, <1>2, <1>4, ClusterFacts DEF WorkConserving
  <1> QED
    BY <1>1, <1>3, <1>5 DEF IInv

\* A move keeps the types, if those admitted fit under the cap.
LEMMA MoveTypes ==
  ASSUME Types, NEW r \in Requests, NEW stage \in Stages, NEW i \in Insts,
         NEW s \in Seq(Requests), NEW n \in Nat, n + Len(s) <= Cap(i) \/ Len(s) = 0,
         Move(r, stage, i, s, n)
  PROVE  /\ where' \in [Requests -> Stages] /\ at' \in [Requests -> Nat]
         /\ due' \in [Requests -> Nat] /\ admitted' \in [Requests -> OptTime]
  <1> DEFINE inclusive(q) == n + CHOOSE k \in DOMAIN s : s[k] = q
             c(q) == IF inclusive(q) <= Cap(i) THEN inclusive(q) ELSE Cap(i)
  <1>0. now \in Nat
    BY DEF Types
  <1>1. where' \in [Requests -> Stages] /\ at' \in [Requests -> Nat]
    BY ClusterFacts DEF Move, Types, Stages
  <1>2. admitted' \in [Requests -> OptTime]
    BY DEF Move, Types, OptTime
  <1>3. \A q \in ToSet(s) : c(q) \in 0..Cap(i)
    <2> SUFFICES ASSUME NEW q \in ToSet(s) PROVE c(q) \in 0..Cap(i)
      OBVIOUS
    <2>1. Len(s) \in Nat /\ DOMAIN s = 1..Len(s)
      OBVIOUS
    <2>2. (CHOOSE k \in DOMAIN s : s[k] = q) \in 1..Len(s)
      BY <2>1 DEF ToSet
    <2> QED
      BY <2>1, <2>2, ClusterFacts
  <1>4. \A q \in ToSet(s) : now + Ttft(i, c(q)) \in Nat
    <2> TAKE q \in ToSet(s)
    <2>1. PICK m \in 0..Cap(i) : m = c(q)
      BY <1>3
    <2>2. Ttft(i, m) \in Nat
      BY ClusterFacts
    <2> QED
      BY <1>0, <2>1, <2>2
  <1>5. \A q \in Requests : now + load.handoff[q] \in Nat
    <2>1. load.handoff \in [Requests -> Nat]
      BY WorkloadsAssumption DEF Types
    <2> QED
      BY <1>0, <2>1
  <1>6. due' = [q \in Requests |->
                  IF q \in ToSet(s) /\ first[q] = None THEN now + Ttft(i, c(q))
                  ELSE IF q = r /\ stage = "transit" THEN now + load.handoff[q]
                  ELSE due[q]]
    BY DEF Move
  <1>7. due' \in [Requests -> Nat]
    <2> HIDE DEF c
    <2> QED
      BY <1>4, <1>5, <1>6 DEF Types
  <1> QED
    BY <1>1, <1>2, <1>7

\* Counting an injective sequence.
LEMMA CountSeq ==
  ASSUME NEW S, NEW s \in Seq(S), \A j, k \in 1..Len(s) : s[j] = s[k] => j = k
  PROVE  IsFiniteSet(ToSet(s)) /\ Cardinality(ToSet(s)) = Len(s)
  <1>1. Len(s) \in Nat /\ DOMAIN s = 1..Len(s)
    OBVIOUS
  <1>2. s \in Bijection(1..Len(s), ToSet(s))
    <2>1. s \in [1..Len(s) -> ToSet(s)]
      BY <1>1, LenProperties DEF ToSet
    <2> QED
      BY <1>1, <2>1 DEF Bijection, Injection, Surjection, IsInjective, ToSet
  <1>3. ExistsBijection(1..Len(s), ToSet(s))
    BY <1>2 DEF ExistsBijection
  <1> QED
    BY <1>1, <1>3, FS_NatBijection, FS_CountingElements

\* What becomes of the others, of the queues and of admissions when a request
\* comes to instance i, and when one leaves it and the first k of its queue
\* are admitted.
Comes(r, i) ==
  /\ \A q \in Requests \ {r} : where'[q] = where[q] /\ at'[q] = at[q] /\ admitted'[q] = admitted[q]
  /\ at'[r] = i
  /\ \A j \in Insts \ {i} : queue'[j] = queue[j]
  /\ \/ /\ where'[r] \in {"prefill", "decode"} /\ queue[i] = <<>> /\ queue'[i] = <<>>
        /\ admitted'[r] = IF admitted[r] = None THEN now ELSE admitted[r]
     \/ /\ where'[r] = "queued" /\ admitted'[r] = admitted[r]
        /\ Len(queue'[i]) = Len(queue[i]) + 1
        /\ \A k \in 1..Len(queue[i]) : queue'[i][k] = queue[i][k]
        /\ queue'[i][Len(queue[i]) + 1] = r

Leaves(r, stage, i, k) ==
  /\ at' = at
  /\ where'[r] = stage
  /\ \A m \in 1..k : where'[queue[i][m]] \in {"prefill", "decode"}
  /\ \A p \in Requests \ ({queue[i][m] : m \in 1..k} \cup {r}) : where'[p] = where[p]
  /\ admitted' = [p \in Requests |-> IF p \in {queue[i][m] : m \in 1..k} /\ admitted[p] = None
                                     THEN now ELSE admitted[p]]
  /\ Len(queue'[i]) = Len(queue[i]) - k
  /\ \A m \in 1..Len(queue'[i]) : queue'[i][m] = queue[i][k + m]
  /\ \A j \in Insts \ {i} : queue'[j] = queue[j]

\* A request comes to instance i: served at once, or behind a full instance.
LEMMA EnqueueStep ==
  ASSUME IInv, NEW r \in Requests, where[r] \in {"arriving", "transit"}, NEW i \in Insts,
         Enqueue(r, i), UNCHANGED fixed
  PROVE  /\ where' \in [Requests -> Stages] /\ at' \in [Requests -> Nat]
         /\ due' \in [Requests -> Nat] /\ admitted' \in [Requests -> OptTime]
         /\ queue' \in [Insts' -> Seq(Requests)]
         /\ PlaceInv' /\ WorkConserving' /\ Comes(r, i)
  <1> DEFINE TypesAfter == /\ where' \in [Requests -> Stages] /\ at' \in [Requests -> Nat]
                           /\ due' \in [Requests -> Nat] /\ admitted' \in [Requests -> OptTime]
                           /\ queue' \in [Insts' -> Seq(Requests)]
  <1>0. /\ Insts' = Insts /\ DecodePool' = DecodePool /\ \A j \in Insts : Cap(j)' = Cap(j)
        /\ Types /\ PlaceInv /\ WorkConserving
    BY DEF IInv, fixed, Insts, DecodePool, Cap
  <1>1. \A j \in Insts : Cap(j) \in Nat /\ Load(j) \in Nat /\ Load(j)' \in Nat
    BY <1>0, ClusterFacts, LoadFacts, RequestsAssumption, FS_Subset, FS_CardinalityType DEF Load, Serving
  <1>2. \A j \in Insts : \A k \in 1..Len(queue[j]) : queue[j][k] \in Requests /\ queue[j][k] # r
    BY <1>0 DEF Types, PlaceInv
  <1>3. CASE Load(i) < Cap(i)
    <2>1. Move(r, "prefill", i, <<r>>, Load(i)) /\ queue' = queue
      BY <1>1, <1>3 DEF Enqueue
    <2>2. <<r>> \in Seq(Requests) /\ Len(<<r>>) = 1 /\ ToSet(<<r>>) = {r}
      BY DEF ToSet
    <2>3. TypesAfter
      <3>1. Load(i) + Len(<<r>>) <= Cap(i) /\ Load(i) \in Nat /\ "prefill" \in Stages
        BY <2>2, <1>1, <1>3 DEF Stages
      <3>2. /\ where' \in [Requests -> Stages] /\ at' \in [Requests -> Nat]
            /\ due' \in [Requests -> Nat] /\ admitted' \in [Requests -> OptTime]
        BY <3>1, <2>1, <2>2, <1>0, MoveTypes
      <3> QED
        BY <3>2, <2>1, <1>0 DEF Types
    <2>4. /\ \A q \in Requests \ {r} : where'[q] = where[q] /\ at'[q] = at[q]
          /\ where'[r] \in {"prefill", "decode"} /\ at'[r] = i
      BY <2>1, <2>2, <1>0 DEF Move, Types
    <2>5. PlaceInv'
      BY <2>1, <2>4, <1>0, <1>2 DEF PlaceInv
    <2>6. Load(i)' = Load(i) + 1
      <3>1. Serving(i)' = Serving(i) \cup {r} /\ r \notin Serving(i)
        BY <2>4 DEF Serving
      <3> QED
        BY <3>1, LoadFacts, FS_AddElement DEF Load
    <2>7. \A j \in Insts \ {i} : Load(j)' = Load(j)
      <3>1. \A j \in Insts \ {i} : Serving(j)' = Serving(j)
        BY <2>4 DEF Serving
      <3> QED
        BY <3>1 DEF Load
    <2>8. WorkConserving'
      BY <1>0, <1>1, <1>3, <2>1, <2>6, <2>7 DEF WorkConserving
    <2>9. queue[i] = <<>>
      BY <1>0, <1>1, <1>3 DEF WorkConserving
    <2>10. /\ \A q \in Requests \ {r} : admitted'[q] = admitted[q]
           /\ admitted'[r] = IF admitted[r] = None THEN now ELSE admitted[r]
      BY <2>1, <2>2, <1>0 DEF Move, Types
    <2>11. Comes(r, i)
      BY <2>1, <2>4, <2>9, <2>10 DEF Comes
    <2> QED
      BY <2>3, <2>5, <2>8, <2>11
  <1>4. CASE Load(i) >= Cap(i)
    <2>1. Move(r, "queued", i, <<>>, Load(i)) /\ queue' = [queue EXCEPT ![i] = Append(@, r)]
      BY <1>1, <1>4 DEF Enqueue
    <2>2. <<>> \in Seq(Requests) /\ Len(<<>>) = 0 /\ ToSet(<<>>) = {}
      BY DEF ToSet
    <2>3. queue' \in [Insts -> Seq(Requests)]
      BY <2>1, <1>0 DEF Types
    <2>4. TypesAfter
      BY <2>1, <2>2, <2>3, <1>0, <1>1, MoveTypes DEF Types, Stages
    <2>5. /\ \A q \in Requests \ {r} : where'[q] = where[q] /\ at'[q] = at[q]
          /\ where'[r] = "queued" /\ at'[r] = i
      BY <2>1, <2>2, <1>0 DEF Move, Types
    <2>6. /\ \A j \in Insts \ {i} : queue'[j] = queue[j]
          /\ Len(queue[i]) \in Nat /\ Len(queue'[i]) = Len(queue[i]) + 1
          /\ \A k \in 1..Len(queue[i]) : queue'[i][k] = queue[i][k]
          /\ queue'[i][Len(queue[i]) + 1] = r
      BY <2>1, <1>0 DEF Types
    <2>7. PlaceInv'
      <3>1. \A p \in Requests : where'[p] \in {"queued", "prefill", "decode"} => at'[p] \in Insts
        BY <2>5, <1>0 DEF PlaceInv
      <3>2. \A p \in Requests : where'[p] = "transit" => DecodePool # {}
        BY <2>5, <1>0 DEF PlaceInv
      <3>3. \A j \in Insts : \A k \in 1..Len(queue'[j]) :
              where'[queue'[j][k]] = "queued" /\ at'[queue'[j][k]] = j
        <4>1. \A j \in Insts : \A k \in 1..Len(queue[j]) :
                where'[queue[j][k]] = "queued" /\ at'[queue[j][k]] = j
          BY <2>5, <1>0, <1>2 DEF PlaceInv
        <4>2. \A k \in 1..Len(queue'[i]) : k \in 1..Len(queue[i]) \/ k = Len(queue[i]) + 1
          BY <2>6
        <4>3. \A k \in 1..Len(queue'[i]) : where'[queue'[i][k]] = "queued" /\ at'[queue'[i][k]] = i
          BY <2>5, <2>6, <4>1, <4>2
        <4>4. \A j \in Insts \ {i} : \A k \in 1..Len(queue'[j]) :
                where'[queue'[j][k]] = "queued" /\ at'[queue'[j][k]] = j
          BY <2>6, <4>1
        <4> QED
          BY <4>3, <4>4
      <3>4. \A j \in Insts : \A k, l \in 1..Len(queue'[j]) : queue'[j][k] = queue'[j][l] => k = l
        <4>1. \A j \in Insts : \A k, l \in 1..Len(queue[j]) : queue[j][k] = queue[j][l] => k = l
          BY <1>0 DEF PlaceInv
        <4>2. \A k \in 1..Len(queue'[i]) : k \in 1..Len(queue[i]) \/ k = Len(queue[i]) + 1
          BY <2>6
        <4>3. \A k, l \in 1..Len(queue'[i]) : queue'[i][k] = queue'[i][l] => k = l
          <5> TAKE k, l \in 1..Len(queue'[i])
          <5>1. CASE k \in 1..Len(queue[i]) /\ l \in 1..Len(queue[i])
            BY <2>6, <4>1, <5>1
          <5>2. CASE k = Len(queue[i]) + 1 /\ l \in 1..Len(queue[i])
            BY <2>6, <1>2, <5>2
          <5>3. CASE l = Len(queue[i]) + 1 /\ k \in 1..Len(queue[i])
            BY <2>6, <1>2, <5>3
          <5> QED
            BY <4>2, <5>1, <5>2, <5>3
        <4> QED
          BY <2>6, <4>1, <4>3
      <3> QED
        BY <1>0, <3>1, <3>2, <3>3, <3>4 DEF PlaceInv
    <2>8. \A j \in Insts : Load(j)' = Load(j)
      <3>1. \A j \in Insts : Serving(j)' = Serving(j)
        BY <2>5 DEF Serving
      <3> QED
        BY <3>1 DEF Load
    <2>9. WorkConserving'
      BY <1>0, <1>1, <1>4, <2>6, <2>8 DEF WorkConserving
    <2>10. admitted' = admitted
      BY <2>1, <2>2, <1>0 DEF Move, Types
    <2>11. Comes(r, i)
      BY <2>5, <2>6, <2>10 DEF Comes
    <2> QED
      BY <2>4, <2>7, <2>9, <2>11
  <1> QED
    BY <1>1, <1>3, <1>4

\* A request leaves the instance that serves it, which fills up from its queue.
LEMMA TryAdmitStep ==
  ASSUME IInv, NEW r \in Requests, where[r] \in {"prefill", "decode"},
         NEW stage \in {"done", "transit"}, stage = "transit" => DecodePool # {},
         TryAdmit(r, stage, at[r]), UNCHANGED fixed
  PROVE  /\ where' \in [Requests -> Stages] /\ at' \in [Requests -> Nat]
         /\ due' \in [Requests -> Nat] /\ admitted' \in [Requests -> OptTime]
         /\ queue' \in [Insts' -> Seq(Requests)]
         /\ PlaceInv' /\ WorkConserving'
         /\ \E k \in 0..Len(queue[at[r]]) : Leaves(r, stage, at[r], k)
  <1>a. PICK i : i = at[r]
    OBVIOUS
  <1> DEFINE q == queue[i]
             free == Cap(i) - (Load(i) - 1)
             k == IF Len(q) <= free THEN Len(q) ELSE free
             s == SubSeq(q, 1, k)
             rest == SubSeq(q, k + 1, Len(q))
  <1>0. /\ Insts' = Insts /\ DecodePool' = DecodePool /\ \A j \in Insts : Cap(j)' = Cap(j)
        /\ Types /\ PlaceInv /\ WorkConserving
    BY DEF IInv, fixed, Insts, DecodePool, Cap
  <1>1. \A j \in Insts : Cap(j) \in Nat /\ Load(j) \in Nat /\ Load(j)' \in Nat
    BY <1>0, ClusterFacts, LoadFacts, RequestsAssumption, FS_Subset, FS_CardinalityType DEF Load, Serving
  <1>2. i \in Insts /\ q \in Seq(Requests) /\ Len(q) \in Nat /\ r \in Serving(i)
    BY <1>a, <1>0 DEF Types, PlaceInv, Serving
  <1>3. Load(i) >= 1 /\ Load(i) <= Cap(i)
    BY <1>0, <1>1, <1>2, LoadFacts, FS_EmptySet DEF Load, WorkConserving
  <1>4. k \in 0..Len(q) /\ Load(i) - 1 + k <= Cap(i) /\ free \in Nat \ {0}
    BY <1>1, <1>2, <1>3
  <1>5. /\ s \in Seq(Requests) /\ Len(s) = k /\ \A m \in 1..k : s[m] = q[m]
        /\ rest \in Seq(Requests) /\ Len(rest) = Len(q) - k
        /\ \A m \in 1..(Len(q) - k) : rest[m] = q[k + m]
    <2>1. \A m \in 1..Len(q) : q[m] \in Requests
      BY <1>2
    <2> HIDE DEF q, k
    <2> QED
      BY <1>2, <1>4, <2>1, SubSeqProperties
  <1>6. Move(r, stage, i, s, Load(i) - 1) /\ queue' = [queue EXCEPT ![i] = rest]
    BY <1>a DEF TryAdmit
  <1> HIDE DEF q, k, free, s, rest
  <1>7. queue' \in [Insts -> Seq(Requests)] /\ queue'[i] = rest
        /\ \A j \in Insts \ {i} : queue'[j] = queue[j]
    BY <1>0, <1>2, <1>5, <1>6 DEF Types
  <1>8. /\ where' \in [Requests -> Stages] /\ at' \in [Requests -> Nat]
        /\ due' \in [Requests -> Nat] /\ admitted' \in [Requests -> OptTime]
    BY <1>0, <1>1, <1>2, <1>3, <1>4, <1>5, <1>6, MoveTypes DEF Stages
  <1>9. /\ ToSet(s) = {q[m] : m \in 1..k} /\ IsFiniteSet(ToSet(s)) /\ Cardinality(ToSet(s)) = k
    <2>1. ToSet(s) = {q[m] : m \in 1..k}
      <3>1. DOMAIN s = 1..k
        BY <1>5
      <3>2. ToSet(s) = {s[m] : m \in 1..k}
        BY <3>1 DEF ToSet
      <3>3. \A m \in 1..k : s[m] = q[m]
        BY <1>5
      <3> QED
        BY <3>2, <3>3, Zenon
    <2>2. \A l, m \in 1..Len(q) : q[l] = q[m] => l = m
      BY <1>0, <1>2 DEF PlaceInv, q
    <2>3. \A l, m \in 1..Len(s) : s[l] = s[m] => l = m
      <3>1. \A m \in 1..Len(s) : m \in 1..Len(q)
        BY <1>2, <1>4, <1>5
      <3>2. \A m \in 1..Len(s) : s[m] = q[m]
        BY <1>5
      <3> QED
        BY <2>2, <3>1, <3>2, Zenon
    <2> QED
      BY <1>5, <2>1, <2>3, CountSeq
  <1>10. \A m \in 1..Len(q) : q[m] \in Requests /\ where[q[m]] = "queued" /\ at[q[m]] = i /\ q[m] # r
    BY <1>0, <1>2 DEF PlaceInv, q
  <1>11. /\ at' = at
         /\ \A p \in ToSet(s) : where'[p] \in {"prefill", "decode"}
         /\ \A p \in Requests \ (ToSet(s) \cup {r}) : where'[p] = where[p]
         /\ where'[r] = stage
    <2>1. ToSet(s) \subseteq Requests \ {r}
      BY <1>4, <1>9, <1>10
    <2> QED
      BY <1>a, <1>0, <1>6, <2>1 DEF Move, Types
  <1>12. \A j \in Insts : \A m \in 1..Len(queue'[j]) :
           where'[queue'[j][m]] = "queued" /\ at'[queue'[j][m]] = j
    <2>1. \A m \in 1..Len(rest) : rest[m] = q[k + m] /\ k + m \in 1..Len(q) /\ q[k + m] \notin ToSet(s)
      <3>1. \A m \in 1..Len(rest) : rest[m] = q[k + m] /\ k + m \in (k + 1)..Len(q)
        BY <1>2, <1>4, <1>5
      <3>2. \A l \in 1..k : \A m \in (k + 1)..Len(q) : q[l] # q[m]
        BY <1>0, <1>2, <1>4 DEF PlaceInv, q
      <3> QED
        BY <1>2, <1>4, <1>9, <3>1, <3>2
    <2>2. CASE TRUE
      <3> TAKE j \in Insts
      <3>1. CASE j = i
        BY <1>2, <1>7, <1>10, <1>11, <2>1, <3>1
      <3>2. CASE j # i
        <4>1. \A m \in 1..Len(queue[j]) : /\ queue[j][m] \in Requests /\ queue[j][m] # r
                                          /\ where[queue[j][m]] = "queued" /\ at[queue[j][m]] = j
          BY <1>0 DEF PlaceInv, Types
        <4>2. \A p \in ToSet(s) : at[p] = i
          BY <1>4, <1>9, <1>10
        <4> QED
          BY <1>7, <1>11, <3>2, <4>1, <4>2
      <3> QED
        BY <3>1, <3>2
    <2> QED
      BY <2>2
  <1>13. PlaceInv'
    <2>1. \A j \in Insts : \A l, m \in 1..Len(queue'[j]) : queue'[j][l] = queue'[j][m] => l = m
      <3>1. \A l, m \in 1..Len(rest) : rest[l] = rest[m] => l = m
        <4>1. \A l, m \in 1..Len(rest) : k + l \in 1..Len(q) /\ k + m \in 1..Len(q)
          BY <1>2, <1>4, <1>5
        <4>2. \A l, m \in 1..Len(q) : q[l] = q[m] => l = m
          BY <1>0, <1>2 DEF PlaceInv, q
        <4>3. \A l, m \in 1..Len(rest) : rest[l] = rest[m] => k + l = k + m
          <5>1. \A m \in 1..Len(rest) : rest[m] = q[k + m]
            BY <1>5
          <5> QED
            BY <4>1, <4>2, <5>1, Zenon
        <4> QED
          BY <1>2, <1>4, <4>3
      <3>2. \A j \in Insts \ {i} : \A l, m \in 1..Len(queue'[j]) : queue'[j][l] = queue'[j][m] => l = m
        BY <1>0, <1>7 DEF PlaceInv
      <3> QED
        BY <1>7, <3>1, <3>2
    <2>2. \A p \in Requests : where'[p] \in {"queued", "prefill", "decode"} => at'[p] \in Insts
      <3>1. \A p \in ToSet(s) : at[p] = i
        BY <1>4, <1>9, <1>10
      <3> QED
        BY <1>0, <1>2, <1>11, <3>1 DEF PlaceInv
    <2>3. \A p \in Requests : where'[p] = "transit" => DecodePool # {}
      BY <1>0, <1>11 DEF PlaceInv
    <2> QED
      BY <1>0, <1>12, <2>1, <2>2, <2>3 DEF PlaceInv
  <1>14. Load(i)' = Load(i) - 1 + k
    <2>1. Serving(i)' = (Serving(i) \ {r}) \cup ToSet(s)
      <3>1. ToSet(s) \subseteq Requests /\ \A p \in ToSet(s) : at[p] = i
        BY <1>4, <1>9, <1>10
      <3> QED
        BY <1>11, <3>1 DEF Serving
    <2>2. (Serving(i) \ {r}) \cap ToSet(s) = {}
      BY <1>4, <1>9, <1>10 DEF Serving
    <2>3. IsFiniteSet(Serving(i) \ {r}) /\ Cardinality(Serving(i) \ {r}) = Load(i) - 1
      BY <1>2, LoadFacts, FS_RemoveElement DEF Load
    <2>4. Cardinality(Serving(i)') = Cardinality(Serving(i) \ {r}) + Cardinality(ToSet(s)) - Cardinality({})
      BY <1>9, <2>1, <2>2, <2>3, FS_Union
    <2>5. Cardinality({}) = 0
      BY FS_EmptySet
    <2> QED
      BY <1>1, <1>4, <1>9, <2>3, <2>4, <2>5 DEF Load
  <1>15. \A j \in Insts \ {i} : Load(j)' = Load(j)
    <2>1. \A p \in ToSet(s) \cup {r} : at[p] = i
      BY <1>a, <1>4, <1>9, <1>10
    <2>2. \A j \in Insts \ {i} : Serving(j)' = Serving(j)
      BY <1>11, <2>1 DEF Serving
    <2> QED
      BY <2>2 DEF Load
  <1>16. WorkConserving'
    <2>1. rest # <<>> => k = free
      BY <1>2, <1>4, <1>5 DEF k
    <2>2. Load(i)' <= Cap(i) /\ (queue'[i] # <<>> => Load(i)' = Cap(i))
      BY <1>1, <1>2, <1>4, <1>7, <1>14, <2>1 DEF free
    <2>3. \A j \in Insts \ {i} : Load(j)' <= Cap(j) /\ (queue'[j] # <<>> => Load(j)' = Cap(j))
      BY <1>0, <1>7, <1>15 DEF WorkConserving
    <2> QED
      BY <1>0, <2>2, <2>3 DEF WorkConserving
  <1>17. Leaves(r, stage, i, k)
    <2>1. admitted' = [p \in Requests |-> IF p \in ToSet(s) /\ admitted[p] = None
                                          THEN now ELSE admitted[p]]
      BY <1>6 DEF Move
    <2>2. \A m \in 1..k : q[m] \in ToSet(s)
      BY <1>9
    <2> QED
      BY <1>5, <1>7, <1>9, <1>11, <2>1, <2>2 DEF Leaves, q
  <1> QED
    BY <1>a, <1>0, <1>4, <1>7, <1>8, <1>13, <1>16, <1>17 DEF q

\* A request decodes where it was prefilled.
LEMMA StayStep ==
  ASSUME IInv, NEW r \in Requests, where[r] = "prefill",
         Move(r, "decode", at[r], <<>>, Load(at[r])), UNCHANGED <<fixed, queue>>
  PROVE  /\ where' \in [Requests -> Stages] /\ at' \in [Requests -> Nat]
         /\ due' \in [Requests -> Nat] /\ admitted' \in [Requests -> OptTime]
         /\ queue' \in [Insts' -> Seq(Requests)]
         /\ PlaceInv' /\ WorkConserving'
  <1>0. /\ Insts' = Insts /\ DecodePool' = DecodePool /\ \A j \in Insts : Cap(j)' = Cap(j)
        /\ Types /\ PlaceInv /\ WorkConserving /\ queue' = queue
    BY DEF IInv, fixed, Insts, DecodePool, Cap
  <1>1. at[r] \in Insts /\ Load(at[r]) \in Nat /\ "decode" \in Stages
    BY <1>0, LoadFacts DEF PlaceInv, Stages
  <1>2. <<>> \in Seq(Requests) /\ Len(<<>>) = 0 /\ ToSet(<<>>) = {}
    BY DEF ToSet
  <1>3. /\ where' \in [Requests -> Stages] /\ at' \in [Requests -> Nat]
        /\ due' \in [Requests -> Nat] /\ admitted' \in [Requests -> OptTime]
    BY <1>0, <1>1, <1>2, MoveTypes
  <1>4. at' = at /\ where' = [where EXCEPT ![r] = "decode"]
    BY <1>0, <1>1, <1>2 DEF Move, Types
  <1>5. \A j \in Insts : \A k \in 1..Len(queue[j]) : queue[j][k] \in Requests /\ queue[j][k] # r
    <2>1. \A j \in Insts : \A k \in 1..Len(queue[j]) : queue[j][k] \in Requests
      BY <1>0 DEF Types
    <2>2. \A j \in Insts : \A k \in 1..Len(queue[j]) : where[queue[j][k]] = "queued"
      BY <1>0 DEF PlaceInv
    <2> QED
      BY <2>1, <2>2
  <1>6. PlaceInv'
    <2>1. \A q \in Requests : at'[q] = at[q] /\ where'[q] = IF q = r THEN "decode" ELSE where[q]
      BY <1>0, <1>4 DEF Types
    <2>2. \A j \in Insts : \A k \in 1..Len(queue'[j]) :
            where'[queue'[j][k]] = "queued" /\ at'[queue'[j][k]] = j
      BY <1>0, <1>5, <2>1 DEF PlaceInv
    <2> QED
      BY <1>0, <2>1, <2>2 DEF PlaceInv
  <1>7. \A j \in Insts : Load(j)' = Load(j)
    <2>1. \A j \in Insts : Serving(j)' = Serving(j)
      BY <1>0, <1>4 DEF Serving, Types
    <2> QED
      BY <2>1 DEF Load
  <1>8. WorkConserving'
    BY <1>0, <1>7 DEF WorkConserving
  <1> QED
    BY <1>0, <1>3, <1>6, <1>8 DEF Types

\* The clock moves to a time, and what remains to be decoded is a number.
LEMMA AdvanceTypes ==
  ASSUME IInv, Advance
  PROVE  now' \in Nat /\ left' \in [Requests -> Int]
  <1>0. Types /\ PlaceInv /\ WorkConserving /\ now \in Nat
    BY DEF IInv, Types
  <1>1. \A r \in Requests : where[r] = "decode" => Tpot(at[r], Load(at[r])) \in Nat \ {0}
    <2> SUFFICES ASSUME NEW r \in Requests, where[r] = "decode"
                 PROVE  Tpot(at[r], Load(at[r])) \in Nat \ {0}
      OBVIOUS
    <2>1. at[r] \in Insts /\ Cap(at[r]) \in Nat
      BY <1>0, ClusterFacts DEF PlaceInv
    <2>2. PICK n \in 0..Cap(at[r]) : n = Load(at[r])
      BY <1>0, <2>1, LoadFacts DEF WorkConserving
    <2> QED
      BY <1>0, <2>1, <2>2, ClusterFacts
  <1>2. \A r \in Pending : NextEvent(r) \in Int
    <2> SUFFICES ASSUME NEW r \in Pending PROVE NextEvent(r) \in Int
      OBVIOUS
    <2>1. r \in Requests /\ load.arrival[r] \in Int /\ due[r] \in Int /\ left[r] \in Int /\ now \in Int
      BY <1>0, WorkloadsAssumption DEF Pending, Types
    <2>2. CASE where[r] = "decode"
      <3>1. PICK p \in Nat \ {0} : p = Tpot(at[r], Load(at[r]))
        BY <1>1, <2>1, <2>2
      <3>2. NextEvent(r) = now + (left[r] * p) \div Unit + 1
        BY <2>2, <3>1 DEF NextEvent
      <3>3. Unit \in Nat \ {0}
        BY WorkloadsAssumption
      <3> QED
        BY <2>1, <3>1, <3>2, <3>3
    <2>3. CASE where[r] # "decode"
      BY <2>1, <2>3 DEF NextEvent, Pending
    <2> QED
      BY <2>2, <2>3
  <1>3. now' \in Nat
    <2>1. PICK r \in Pending : now' = IF NextEvent(r) > now THEN NextEvent(r) ELSE now
      BY DEF Advance
    <2> QED
      BY <1>0, <1>2, <2>1
  <1>4. left' \in [Requests -> Int]
    <2> DEFINE lost(r) == (now' - now) * (Unit \div Tpot(at[r], Load(at[r])))
    <2>1. \A r \in Requests : where[r] = "decode" => lost(r) \in Int
      <3> SUFFICES ASSUME NEW r \in Requests, where[r] = "decode" PROVE lost(r) \in Int
        OBVIOUS
      <3>1. PICK p \in Nat \ {0} : p = Tpot(at[r], Load(at[r]))
        BY <1>1
      <3>2. Unit \div p \in Int /\ now' - now \in Int
        BY <1>0, <1>3, WorkloadsAssumption
      <3> QED
        BY <3>1, <3>2
    <2>2. left' = [r \in Requests |-> IF where[r] = "decode" THEN left[r] - lost(r) ELSE left[r]]
      BY DEF Advance
    <2>3. \A r \in Requests : left[r] \in Int
      BY <1>0 DEF Types
    <2> HIDE DEF lost
    <2> QED
      BY <2>1, <2>2, <2>3
  <1> QED
    BY <1>3, <1>4

LEMMA StepInv == IInv /\ [Next]_vars => IInv'
  <1> SUFFICES ASSUME IInv, [Next]_vars PROVE IInv'
    OBVIOUS
  <1>0. Types /\ PlaceInv /\ WorkConserving
    BY DEF IInv
  <1>1. CASE Advance
    <2>1. UNCHANGED <<fixed, where, at, entry, due, queue, dispatched, times>> /\ phase' = "arrivals"
      BY <1>1 DEF Advance
    <2>2. Types'
      BY <1>0, <1>1, <2>1, AdvanceTypes DEF Types, Insts, fixed, times
    <2>3. PlaceInv'
      BY <1>0, <2>1 DEF PlaceInv, Insts, DecodePool, fixed
    <2>4. WorkConserving'
      BY <1>0, <2>1 DEF WorkConserving, Insts, Load, Serving, Cap, fixed
    <2> QED
      BY <2>2, <2>3, <2>4 DEF IInv
  <1>2. CASE NextPhase
    <2>1. /\ UNCHANGED <<fixed, now, where, at, entry, due, left, queue, dispatched, times>>
          /\ phase' \in {"advance", "transfers", "prefills", "decodes"}
      BY <1>2 DEF NextPhase
    <2>2. Types'
      BY <1>0, <2>1 DEF Types, Insts, fixed, times
    <2>3. PlaceInv'
      BY <1>0, <2>1 DEF PlaceInv, Insts, DecodePool, fixed
    <2>4. WorkConserving'
      BY <1>0, <2>1 DEF WorkConserving, Insts, Load, Serving, Cap, fixed
    <2> QED
      BY <2>2, <2>3, <2>4 DEF IInv
  <1>3. ASSUME NEW r \in Requests, Arrive(r) PROVE IInv'
    <2>1. PICK i : i = Route(ArrivalPool)
      OBVIOUS
    <2>2. ArrivalPool \in SUBSET Insts /\ ArrivalPool # {}
      BY <1>0, ClusterFacts DEF ArrivalPool, DecodePool
    <2>3. i \in Insts /\ i \in Nat
      BY <1>0, <2>1, <2>2, RouteChooses, ClusterFacts
    <2>4. /\ Enqueue(r, i) /\ where[r] = "arriving" /\ UNCHANGED <<fixed, clock, left, first, end>>
          /\ entry' = [entry EXCEPT ![r] = i] /\ dispatched' = [dispatched EXCEPT ![i] = @ + 1]
      BY <1>3, <2>1 DEF Arrive, Arriving
    <2>5. /\ where' \in [Requests -> Stages] /\ at' \in [Requests -> Nat]
          /\ due' \in [Requests -> Nat] /\ admitted' \in [Requests -> OptTime]
          /\ queue' \in [Insts' -> Seq(Requests)]
          /\ PlaceInv' /\ WorkConserving'
      BY <2>3, <2>4, EnqueueStep
    <2>6. entry' \in [Requests -> Nat] /\ dispatched' \in [Insts -> Nat]
      BY <1>0, <2>3, <2>4 DEF Types
    <2>7. Types'
      BY <1>0, <2>4, <2>5, <2>6 DEF Types, Insts, fixed, clock
    <2> QED
      BY <2>5, <2>7 DEF IInv
  <1>4. ASSUME NEW r \in Requests, Transferred(r) PROVE IInv'
    <2>1. PICK i : i = Route(DecodePool)
      OBVIOUS
    <2>2. DecodePool \in SUBSET Insts /\ DecodePool # {}
      BY <1>0, <1>4 DEF DecodePool, Transferred, Arrived, PlaceInv
    <2>3. i \in Insts
      BY <1>0, <2>1, <2>2, RouteChooses
    <2>4. /\ Enqueue(r, i) /\ where[r] = "transit" /\ UNCHANGED <<fixed, clock, entry, left, first, end>>
          /\ dispatched' = [dispatched EXCEPT ![i] = @ + 1]
      BY <1>4, <2>1 DEF Transferred, Arrived
    <2>5. /\ where' \in [Requests -> Stages] /\ at' \in [Requests -> Nat]
          /\ due' \in [Requests -> Nat] /\ admitted' \in [Requests -> OptTime]
          /\ queue' \in [Insts' -> Seq(Requests)]
          /\ PlaceInv' /\ WorkConserving'
      BY <2>3, <2>4, EnqueueStep
    <2>6. Types'
      BY <1>0, <2>3, <2>4, <2>5 DEF Types, Insts, fixed, clock
    <2> QED
      BY <2>5, <2>6 DEF IInv
  <1>5. ASSUME NEW r \in Requests, FirstToken(r) PROVE IInv'
    <2>1. /\ where[r] = "prefill" /\ UNCHANGED <<fixed, clock, entry, dispatched>>
          /\ first' = [first EXCEPT ![r] = now]
          /\ end' = end \/ end' = [end EXCEPT ![r] = now]
          /\ left' = left \/ left' = [left EXCEPT ![r] = DecodeTarget(r)]
      BY <1>5 DEF FirstToken, Prefilled
    <2>2. DecodeTarget(r) \in Int
      <3>1. load.output[r] \in Nat /\ Unit \in Nat
        BY <1>0, WorkloadsAssumption DEF Types
      <3> QED
        BY <3>1 DEF DecodeTarget
    <2>3. /\ first' \in [Requests -> OptTime] /\ end' \in [Requests -> OptTime]
          /\ left' \in [Requests -> Int]
      BY <1>0, <2>1, <2>2 DEF Types, OptTime
    <2>4. /\ where' \in [Requests -> Stages] /\ at' \in [Requests -> Nat]
          /\ due' \in [Requests -> Nat] /\ admitted' \in [Requests -> OptTime]
          /\ queue' \in [Insts' -> Seq(Requests)]
          /\ PlaceInv' /\ WorkConserving'
      <3>1. CASE TryAdmit(r, "done", at[r])
        BY <2>1, <3>1, TryAdmitStep
      <3>2. CASE PDMode /\ TryAdmit(r, "transit", at[r])
        <4>1. DecodePool # {}
          BY <3>2 DEF PDMode
        <4> QED
          BY <2>1, <3>2, <4>1, TryAdmitStep
      <3>3. CASE Move(r, "decode", at[r], <<>>, Load(at[r])) /\ UNCHANGED queue
        BY <2>1, <3>3, StayStep
      <3> QED
        BY <1>5, <3>1, <3>2, <3>3 DEF FirstToken
    <2>5. Types'
      BY <1>0, <2>1, <2>3, <2>4 DEF Types, Insts, fixed, clock
    <2> QED
      BY <2>4, <2>5 DEF IInv
  <1>6. ASSUME NEW r \in Requests, Finish(r) PROVE IInv'
    <2>1. /\ where[r] = "decode" /\ TryAdmit(r, "done", at[r])
          /\ UNCHANGED <<fixed, clock, entry, left, dispatched, first>>
          /\ end' = [end EXCEPT ![r] = now]
      BY <1>6 DEF Finish, Decoded
    <2>2. /\ where' \in [Requests -> Stages] /\ at' \in [Requests -> Nat]
          /\ due' \in [Requests -> Nat] /\ admitted' \in [Requests -> OptTime]
          /\ queue' \in [Insts' -> Seq(Requests)]
          /\ PlaceInv' /\ WorkConserving'
      BY <2>1, TryAdmitStep
    <2>3. Types'
      BY <1>0, <2>1, <2>2 DEF Types, Insts, fixed, clock, OptTime
    <2> QED
      BY <2>2, <2>3 DEF IInv
  <1>7. CASE UNCHANGED vars
    <2>1. Types'
      BY <1>0, <1>7 DEF Types, Insts, vars, fixed, clock, times
    <2>2. PlaceInv'
      BY <1>0, <1>7 DEF PlaceInv, Insts, DecodePool, vars, fixed
    <2>3. WorkConserving'
      BY <1>0, <1>7 DEF WorkConserving, Insts, Load, Serving, Cap, vars, fixed
    <2> QED
      BY <2>1, <2>2, <2>3 DEF IInv
  <1> QED
    BY <1>1, <1>2, <1>3, <1>4, <1>5, <1>6, <1>7 DEF Next

LEMMA Invariance == Spec => []IInv
  <1> QED
    BY InitInv, StepInv, PTL DEF Spec

\* Every variable keeps its type and a queue names instances and requests only
\* (the loop of event_sim.py).
THEOREM TypeCorrect == Spec => []TypeOK
  <1>1. IInv => TypeOK
    BY DEF IInv, Types, PlaceInv, TypeOK
  <1> QED
    BY <1>1, Invariance, PTL

\* No instance ever serves more than its cap, and none has a queue while it
\* serves fewer (_enqueue, _try_admit).
THEOREM NoIdleCapacity == Spec => []WorkConserving
  <1>1. IInv => WorkConserving
    BY DEF IInv
  <1> QED
    BY <1>1, Invariance, PTL

------------------------------------------------------------------------------
(* Deficit routing *)

\* Arrivals and decodes go to the same pool, or to disjoint ones.
LEMMA PoolsAreApart ==
  ASSUME NEW p \in {ArrivalPool, DecodePool}, NEW q \in {ArrivalPool, DecodePool}
  PROVE  p \subseteq Insts /\ (p = q \/ p \cap q = {})
  BY DEF ArrivalPool, DecodePool

\* One more dispatch to the instance Route picks keeps every share.
LEMMA DispatchKeepsShares ==
  ASSUME Types, FairShare, NEW pool \in {ArrivalPool, DecodePool}, pool # {}, pool \subseteq Insts,
         dispatched' = [dispatched EXCEPT ![Route(pool)] = @ + 1], UNCHANGED fixed
  PROVE  FairShare'
  <1>1. PICK k : k = Route(pool)
    OBVIOUS
  <1>2. k \in Candidates(pool) /\ k \in Insts /\ \A j \in Candidates(pool) : ~LighterThan(j, k)
    BY <1>1, RouteChooses
  <1>3. \A j \in Insts : dispatched[j] \in Nat /\ Weight(j) \in Int
    BY ClusterFacts DEF Types
  <1>4. \A p \in {ArrivalPool, DecodePool} : p \subseteq Insts /\ (k \in p => p = pool)
    BY <1>2, PoolsAreApart DEF Candidates, Positive
  <1>5. /\ ArrivalPool' = ArrivalPool /\ DecodePool' = DecodePool
        /\ \A i : Weight(i)' = Weight(i)
    BY DEF fixed, ArrivalPool, DecodePool, Insts, Weight
  <1>6. \A j \in Insts : dispatched'[j] = IF j = k THEN dispatched[j] + 1 ELSE dispatched[j]
    BY <1>1 DEF Types
  <1>7. \A j \in pool : Weight(j) > 0 => j \in Candidates(pool) /\ Weight(k) > 0
    BY <1>2 DEF Candidates, Positive, Weight
  <1>8. \A j \in pool : Weight(k) <= 0 => Weight(j) <= 0 /\ j \in Candidates(pool)
    BY <1>2, <1>3, <1>7, <1>4 DEF Candidates, Positive, Weight
  <1>9. ASSUME NEW p \in {ArrivalPool, DecodePool}, NEW i \in p, NEW j \in p,
               Weight(i) > 0, Weight(j) > 0
        PROVE  (dispatched'[i] - 1) * Weight(j) <= dispatched'[j] * Weight(i)
    <2>1. /\ dispatched[i] \in Nat /\ dispatched[j] \in Nat /\ i \in Insts /\ j \in Insts
          /\ Weight(i) \in Nat \ {0} /\ Weight(j) \in Nat \ {0}
      BY <1>3, <1>4, <1>9
    <2>2. (dispatched[i] - 1) * Weight(j) <= dispatched[j] * Weight(i)
      BY <1>9 DEF FairShare
    <2>3. CASE i = k
      <3>1. ~(dispatched[j] * Weight(k) < dispatched[k] * Weight(j))
        BY <1>2, <1>4, <1>7, <1>9, <2>3 DEF LighterThan
      <3>2. dispatched[k] * Weight(j) <= dispatched[j] * Weight(k)
        BY <2>1, <2>3, <3>1
      <3>3. dispatched'[i] - 1 = dispatched[k]
        BY <1>6, <2>1, <2>3
      <3>4. CASE j = k
        <4>1. (dispatched[k] + 1) * Weight(k) = dispatched[k] * Weight(k) + Weight(k)
          BY <2>1, <2>3
        <4> QED
          BY <1>6, <2>1, <2>3, <3>2, <3>3, <3>4, <4>1
      <3>5. CASE j # k
        BY <1>6, <2>1, <2>3, <3>2, <3>3, <3>5
      <3> QED
        BY <3>4, <3>5
    <2>4. CASE i # k
      <3>1. dispatched'[i] = dispatched[i]
        BY <1>6, <2>1, <2>4
      <3>2. (dispatched[j] + 1) * Weight(i) = dispatched[j] * Weight(i) + Weight(i)
        BY <2>1
      <3>3. dispatched[j] * Weight(i) <= dispatched'[j] * Weight(i)
        <4>1. dispatched'[j] = dispatched[j] + 1 \/ dispatched'[j] = dispatched[j]
          BY <1>6, <2>1
        <4> QED
          BY <2>1, <3>2, <4>1
      <3>4. dispatched'[j] \in Nat
        BY <1>6, <2>1
      <3> QED
        BY <2>1, <2>2, <3>1, <3>3, <3>4
    <2> QED
      BY <2>3, <2>4
  <1>10. ASSUME NEW p \in {ArrivalPool, DecodePool}, NEW i \in p, NEW j \in p,
                Weight(i) <= 0, dispatched'[i] > 0
         PROVE  Weight(j) <= 0 /\ i <= j
    <2>1. CASE i = k
      <3>1. p = pool /\ Weight(j) <= 0
        BY <1>4, <1>8, <1>10, <2>1
      <3>2. \A x, y \in Candidates(pool) : ~LighterThan(x, y)
        <4>1. Candidates(pool) \subseteq pool /\ pool \subseteq Insts
          BY DEF Candidates, Positive
        <4>2. \A x \in pool : Weight(x) <= 0 /\ Weight(x) \in Int
          BY <1>3, <1>8, <1>10, <2>1, <4>1
        <4> QED
          BY <4>1, <4>2 DEF LighterThan
      <3>3. j \in Candidates(pool)
        BY <1>8, <1>10, <2>1, <3>1
      <3> QED
        BY <1>1, <2>1, <3>1, <3>2, <3>3, RouteIsFirst
    <2>2. CASE i # k
      <3>1. dispatched'[i] = dispatched[i]
        BY <1>4, <1>6, <2>2
      <3> QED
        BY <1>10, <3>1 DEF FairShare
    <2> QED
      BY <2>1, <2>2
  <1> QED
    BY <1>5, <1>9, <1>10 DEF FairShare

\* No instance with a weight is ever more than one request ahead of its share
\* of its pool; where no instance has one, the first of the pool serves alone
\* (_route).
THEOREM SharesAreFair == Spec => []FairShare
  <1>1. Init => FairShare
    <2> SUFFICES ASSUME Init PROVE FairShare
      OBVIOUS
    <2>1. Types
      BY InitInv DEF IInv
    <2>2. \A p \in {ArrivalPool, DecodePool} : \A j \in p : dispatched[j] = 0 /\ Weight(j) \in Int
      BY <2>1, ClusterFacts, PoolsAreApart DEF Init
    <2> QED
      BY <2>2 DEF FairShare
  <1>2. IInv /\ FairShare /\ [Next]_vars => FairShare'
    <2> SUFFICES ASSUME IInv, FairShare, [Next]_vars PROVE FairShare'
      OBVIOUS
    <2>1. Types /\ PlaceInv
      BY DEF IInv
    <2>2. CASE UNCHANGED <<fixed, dispatched>>
      BY <2>2 DEF FairShare, ArrivalPool, DecodePool, Insts, Weight, fixed
    <2>3. ASSUME NEW r \in Requests, Arrive(r) PROVE FairShare'
      <3>1. dispatched' = [dispatched EXCEPT ![Route(ArrivalPool)] = @ + 1] /\ UNCHANGED fixed
        BY <2>3 DEF Arrive
      <3>2. ArrivalPool # {} /\ ArrivalPool \subseteq Insts
        BY <2>1, ClusterFacts DEF ArrivalPool, DecodePool
      <3> QED
        BY <2>1, <3>1, <3>2, DispatchKeepsShares
    <2>4. ASSUME NEW r \in Requests, Transferred(r) PROVE FairShare'
      <3>1. dispatched' = [dispatched EXCEPT ![Route(DecodePool)] = @ + 1] /\ UNCHANGED fixed
        BY <2>4 DEF Transferred
      <3>2. DecodePool # {} /\ DecodePool \subseteq Insts
        BY <2>1, <2>4 DEF DecodePool, Transferred, Arrived, PlaceInv
      <3> QED
        BY <2>1, <3>1, <3>2, DispatchKeepsShares
    <2>5. (\E r \in Requests : Arrive(r) \/ Transferred(r)) \/ UNCHANGED <<fixed, dispatched>>
      BY DEF Next, Advance, NextPhase, FirstToken, Finish, vars
    <2> QED
      BY <2>2, <2>3, <2>4, <2>5
  <1> QED
    BY <1>1, <1>2, Invariance, PTL DEF Spec

------------------------------------------------------------------------------
(* First come, first served *)

\* Who has not been admitted waits where it was routed; who has not been
\* routed arrives no earlier than who has.
AdmissionInv ==
  /\ \A r \in Requests : entry[r] # 0 <=> where[r] # "arriving"
  /\ \A r \in Requests : where[r] = "arriving" => admitted[r] = None
  /\ \A r \in Requests : admitted[r] # None => admitted[r] <= now
  /\ \A r \in Requests : where[r] # "arriving" /\ admitted[r] = None =>
       where[r] = "queued" /\ at[r] = entry[r] /\ \E k \in 1..Len(queue[entry[r]]) : queue[entry[r]][k] = r
  /\ \A r, s \in Requests : where[r] = "arriving" /\ where[s] # "arriving" =>
       load.arrival[s] <= load.arrival[r]

\* Among those never admitted a queue is in order of arrival.
QueueInOrder ==
  \A i \in Insts : \A j, k \in 1..Len(queue[i]) :
    /\ j < k
    /\ admitted[queue[i][j]] = None /\ admitted[queue[i][k]] = None
    => load.arrival[queue[i][j]] <= load.arrival[queue[i][k]]

HistInv == AdmissionInv /\ QueueInOrder /\ FirstComeFirstServed

LEMMA HistInit == Init => HistInv
  <1> SUFFICES ASSUME Init PROVE HistInv
    OBVIOUS
  <1>1. \A i \in Insts : Len(queue[i]) = 0
    BY DEF Init
  <1>2. QueueInOrder
    BY <1>1 DEF QueueInOrder
  <1> QED
    BY <1>2 DEF Init, HistInv, AdmissionInv, FirstComeFirstServed

\* A step that admits nobody, moves nobody to or from a queue and turns no
\* clock back.
LEMMA HistQuiet ==
  ASSUME IInv, HistInv, UNCHANGED <<fixed, at, entry, queue, admitted>>, now' \in Nat, now' >= now,
         \A q \in Requests : where'[q] = where[q] \/ (where[q] = "prefill" /\ where'[q] = "decode")
  PROVE  HistInv'
  <1>0. /\ AdmissionInv /\ QueueInOrder /\ FirstComeFirstServed /\ now \in Nat
        /\ \A q \in Requests : admitted[q] \in OptTime
        /\ load' = load /\ Insts' = Insts
    BY DEF HistInv, IInv, Types, fixed, Insts
  <1>1. AdmissionInv'
    <2>1. \A q \in Requests : admitted'[q] # None => admitted'[q] <= now'
      BY <1>0 DEF AdmissionInv, OptTime
    <2>2. \A q \in Requests : /\ where'[q] = "arriving" <=> where[q] = "arriving"
                              /\ where[q] = "queued" => where'[q] = "queued"
      OBVIOUS
    <2> QED
      BY <1>0, <2>1, <2>2 DEF AdmissionInv
  <1>2. QueueInOrder'
    BY <1>0 DEF QueueInOrder
  <1>3. FirstComeFirstServed'
    BY <1>0 DEF FirstComeFirstServed
  <1> QED
    BY <1>1, <1>2, <1>3 DEF HistInv

\* Once more what the queues become, for who waits in them.
LEMMA ComesQueues ==
  ASSUME IInv, NEW r \in Requests, NEW i \in Insts, Comes(r, i)
  PROVE  /\ \A j \in Insts : \A k \in 1..Len(queue'[j]) :
              \/ k \in 1..Len(queue[j]) /\ queue'[j][k] = queue[j][k]
              \/ j = i /\ k = Len(queue[i]) + 1 /\ queue'[j][k] = r /\ where'[r] = "queued"
         /\ \A j \in Insts : \A k \in 1..Len(queue[j]) :
              k \in 1..Len(queue'[j]) /\ queue'[j][k] = queue[j][k]
         /\ where'[r] = "queued" => \E k \in 1..Len(queue'[i]) : queue'[i][k] = r
  <1>1. \A j \in Insts : queue[j] \in Seq(Requests) /\ Len(queue[j]) \in Nat
    BY DEF IInv, Types
  <1>2. CASE /\ where'[r] \in {"prefill", "decode"} /\ queue[i] = <<>> /\ queue'[i] = <<>>
    <2>1. \A j \in Insts : queue'[j] = queue[j]
      BY <1>2 DEF Comes
    <2> QED
      BY <1>2, <2>1
  <1>3. CASE /\ where'[r] = "queued" /\ Len(queue'[i]) = Len(queue[i]) + 1
             /\ \A k \in 1..Len(queue[i]) : queue'[i][k] = queue[i][k]
             /\ queue'[i][Len(queue[i]) + 1] = r
    <2>1. \A k \in 1..Len(queue'[i]) : k \in 1..Len(queue[i]) \/ k = Len(queue[i]) + 1
      BY <1>1, <1>3
    <2>2. \A k \in 1..Len(queue[i]) : k \in 1..Len(queue'[i])
      BY <1>1, <1>3
    <2>3. Len(queue[i]) + 1 \in 1..Len(queue'[i])
      BY <1>1, <1>3
    <2>4. \A j \in Insts \ {i} : queue'[j] = queue[j]
      BY DEF Comes
    <2> QED
      BY <1>3, <2>1, <2>2, <2>3, <2>4
  <1> QED
    BY <1>2, <1>3 DEF Comes

LEMMA WaitsInQueue ==
  ASSUME IInv, NEW r \in Requests, where[r] # "queued"
  PROVE  \A j \in Insts : \A k \in 1..Len(queue[j]) :
           /\ queue[j][k] \in Requests \ {r} /\ where[queue[j][k]] = "queued"
           /\ at[queue[j][k]] = j /\ Len(queue[j]) \in Nat
  <1>1. \A j \in Insts : Len(queue[j]) \in Nat /\ \A k \in 1..Len(queue[j]) : queue[j][k] \in Requests
    BY DEF IInv, Types
  <1>2. \A j \in Insts : \A k \in 1..Len(queue[j]) :
          where[queue[j][k]] = "queued" /\ at[queue[j][k]] = j
    BY DEF IInv, PlaceInv
  <1> QED
    BY <1>1, <1>2

LEMMA HistArrive ==
  ASSUME IInv, HistInv, NEW r \in Requests, NEW i \in Insts, i # 0, UNCHANGED <<fixed, clock>>,
         where[r] = "arriving", entry' = [entry EXCEPT ![r] = i], Comes(r, i),
         \A s \in Requests : where[s] = "arriving" => load.arrival[r] <= load.arrival[s]
  PROVE  HistInv'
  <1>0. /\ AdmissionInv /\ QueueInOrder /\ FirstComeFirstServed /\ now \in Nat /\ now' = now
        /\ \A q \in Requests : admitted[q] \in OptTime /\ load.arrival[q] \in Nat
        /\ load' = load /\ Insts' = Insts /\ 0 \notin Insts
        /\ \A q \in Requests \ {r} : entry'[q] = entry[q]
        /\ entry'[r] = i /\ entry[r] = 0 /\ admitted[r] = None
    <2>1. \A q \in Requests : load.arrival[q] \in Nat
      BY WorkloadsAssumption DEF IInv, Types
    <2>2. 0 \notin Insts
      BY ClusterFacts DEF IInv
    <2>3. entry \in [Requests -> Nat] /\ admitted \in [Requests -> OptTime] /\ now \in Nat
      BY DEF IInv, Types
    <2>4. entry[r] = 0 /\ admitted[r] = None
      BY DEF HistInv, AdmissionInv
    <2> QED
      BY <2>1, <2>2, <2>3, <2>4 DEF HistInv, fixed, clock, Insts
  <1>1. /\ \A q \in Requests \ {r} : where'[q] = where[q] /\ at'[q] = at[q] /\ admitted'[q] = admitted[q]
        /\ at'[r] = i /\ where'[r] \in {"prefill", "decode", "queued"}
        /\ \/ admitted'[r] = now /\ queue[i] = <<>>
           \/ admitted'[r] = None /\ where'[r] = "queued"
    BY <1>0 DEF Comes
  <1>2. \A q \in Requests \ {r} : where[q] # "arriving" => load.arrival[q] <= load.arrival[r]
    BY <1>0 DEF AdmissionInv
  <1>3. \A q \in Requests \ {r} : where[q] # "arriving" /\ admitted[q] = None =>
          /\ where[q] = "queued" /\ at[q] = entry[q] /\ entry[q] \in Insts
          /\ \E k \in 1..Len(queue[entry[q]]) : queue[entry[q]][k] = q
    BY <1>0 DEF AdmissionInv, IInv, PlaceInv
  <1>4. AdmissionInv'
    <2>1. \A q \in Requests : entry'[q] # 0 <=> where'[q] # "arriving"
      BY <1>0, <1>1 DEF AdmissionInv
    <2>2. \A q \in Requests : where'[q] = "arriving" => admitted'[q] = None
      BY <1>0, <1>1 DEF AdmissionInv
    <2>3. \A q \in Requests : admitted'[q] # None => admitted'[q] <= now'
      BY <1>0, <1>1 DEF AdmissionInv, OptTime
    <2>4. \A q \in Requests : where'[q] # "arriving" /\ admitted'[q] = None =>
            /\ where'[q] = "queued" /\ at'[q] = entry'[q]
            /\ \E k \in 1..Len(queue'[entry'[q]]) : queue'[entry'[q]][k] = q
      <3> SUFFICES ASSUME NEW q \in Requests, where'[q] # "arriving", admitted'[q] = None
                   PROVE  /\ where'[q] = "queued" /\ at'[q] = entry'[q]
                          /\ \E k \in 1..Len(queue'[entry'[q]]) : queue'[entry'[q]][k] = q
        OBVIOUS
      <3>1. CASE q = r
        <4>1. admitted'[r] # now
          BY <1>0, <3>1 DEF None
        <4>2. \E k \in 1..Len(queue'[i]) : queue'[i][k] = r
          BY <1>1, <4>1, ComesQueues
        <4> QED
          BY <1>0, <1>1, <3>1, <4>1, <4>2
      <3>2. CASE q # r
        <4>1. where[q] # "arriving" /\ admitted[q] = None /\ entry'[q] = entry[q] /\ at'[q] = at[q]
          BY <1>0, <1>1, <3>2
        <4>2. PICK k \in 1..Len(queue[entry[q]]) : queue[entry[q]][k] = q
          BY <1>3, <3>2, <4>1
        <4>3. k \in 1..Len(queue'[entry[q]]) /\ queue'[entry[q]][k] = q
          BY <1>3, <3>2, <4>1, <4>2, ComesQueues
        <4> QED
          BY <1>1, <1>3, <3>2, <4>1, <4>3
      <3> QED
        BY <3>1, <3>2
    <2>5. \A p, q \in Requests : where'[p] = "arriving" /\ where'[q] # "arriving" =>
            load.arrival[q] <= load.arrival[p]
      BY <1>0, <1>1 DEF AdmissionInv
    <2> QED
      BY <1>0, <2>1, <2>2, <2>3, <2>4, <2>5 DEF AdmissionInv
  <1>5. \A j \in Insts : \A k \in 1..Len(queue[j]) :
          queue[j][k] \in Requests \ {r} /\ where[queue[j][k]] = "queued" /\ Len(queue[j]) \in Nat
    BY WaitsInQueue
  <1>6. QueueInOrder'
    <2> SUFFICES ASSUME NEW j \in Insts, NEW k \in 1..Len(queue'[j]), NEW l \in 1..Len(queue'[j]), k < l,
                        admitted'[queue'[j][k]] = None, admitted'[queue'[j][l]] = None
                 PROVE  load.arrival[queue'[j][k]] <= load.arrival[queue'[j][l]]
      BY <1>0 DEF QueueInOrder
    <2>1. CASE k \in 1..Len(queue[j]) /\ l \in 1..Len(queue[j])
      <3>1. queue'[j][k] = queue[j][k] /\ queue'[j][l] = queue[j][l]
        BY <2>1, ComesQueues
      <3>2. admitted[queue[j][k]] = None /\ admitted[queue[j][l]] = None
        BY <1>1, <1>5, <2>1, <3>1
      <3> QED
        BY <1>0, <2>1, <3>1, <3>2 DEF QueueInOrder
    <2>2. CASE k \in 1..Len(queue[j]) /\ queue'[j][l] = r
      <3>1. queue'[j][k] = queue[j][k]
        BY <2>2, ComesQueues
      <3> QED
        BY <1>2, <1>5, <2>2, <3>1
    <2>3. k \notin 1..Len(queue[j]) => k = Len(queue[j]) + 1 /\ l \in 1..(Len(queue[j]) + 1)
      BY ComesQueues
    <2>4. k \in 1..Len(queue[j])
      <3>1. Len(queue[j]) \in Nat
        BY DEF IInv, Types
      <3> QED
        BY <2>3, <3>1
    <2>5. l \in 1..Len(queue[j]) \/ queue'[j][l] = r
      BY ComesQueues
    <2> QED
      BY <2>1, <2>2, <2>4, <2>5
  <1>7. FirstComeFirstServed'
    <2> SUFFICES ASSUME NEW p \in Requests, NEW s \in Requests, entry'[p] # 0, entry'[p] = entry'[s],
                        load.arrival[p] < load.arrival[s], admitted'[s] # None
                 PROVE  admitted'[p] # None /\ admitted'[p] <= admitted'[s]
      BY <1>0 DEF FirstComeFirstServed
    <2>1. p # s
      BY <1>0
    <2>2. CASE p = r
      <3>1. where[s] = "arriving" \/ load.arrival[s] <= load.arrival[p]
        BY <1>2, <2>1, <2>2
      <3>2. admitted[s] # None
        BY <1>1, <2>1, <2>2
      <3> QED
        BY <1>0, <3>1, <3>2 DEF AdmissionInv
    <2>3. CASE s = r
      <3>1. admitted'[r] = now /\ queue[i] = <<>>
        BY <1>1, <2>3
      <3>2. entry[p] = i /\ where[p] # "arriving" /\ admitted'[p] = admitted[p]
        BY <1>0, <1>1, <2>1, <2>3 DEF AdmissionInv
      <3>3. admitted[p] # None
        BY <1>3, <2>1, <2>3, <3>1, <3>2
      <3> QED
        BY <1>0, <2>3, <3>1, <3>2, <3>3 DEF AdmissionInv
    <2>4. CASE p # r /\ s # r
      BY <1>0, <1>1, <2>4 DEF FirstComeFirstServed
    <2> QED
      BY <2>2, <2>3, <2>4
  <1> QED
    BY <1>4, <1>6, <1>7 DEF HistInv

LEMMA ArrivalIsNat ==
  ASSUME IInv
  PROVE  \A q \in Requests : load.arrival[q] \in Nat
  BY WorkloadsAssumption DEF IInv, Types

LEMMA HistTransferred ==
  ASSUME IInv, HistInv, NEW r \in Requests, NEW i \in Insts, UNCHANGED <<fixed, clock, entry>>,
         where[r] = "transit", Comes(r, i)
  PROVE  HistInv'
  <1>0. /\ AdmissionInv /\ QueueInOrder /\ FirstComeFirstServed
        /\ load' = load /\ Insts' = Insts /\ entry' = entry /\ now' = now
    BY DEF HistInv, fixed, clock, Insts
  <1>1. admitted[r] # None
    BY <1>0 DEF AdmissionInv
  <1>2. /\ \A q \in Requests \ {r} : where'[q] = where[q] /\ at'[q] = at[q]
        /\ where'[r] \in {"prefill", "decode", "queued"}
        /\ \A q \in Requests : admitted'[q] = admitted[q]
    BY <1>1 DEF Comes
  <1>3. AdmissionInv'
    <2>1. \A q \in Requests : where'[q] # "arriving" /\ admitted'[q] = None =>
            /\ where'[q] = "queued" /\ at'[q] = entry[q]
            /\ \E k \in 1..Len(queue'[entry[q]]) : queue'[entry[q]][k] = q
      <3> SUFFICES ASSUME NEW q \in Requests, where'[q] # "arriving", admitted'[q] = None
                   PROVE  /\ where'[q] = "queued" /\ at'[q] = entry[q]
                          /\ \E k \in 1..Len(queue'[entry[q]]) : queue'[entry[q]][k] = q
        OBVIOUS
      <3>1. q # r /\ where[q] # "arriving" /\ admitted[q] = None
        BY <1>1, <1>2
      <3>2. /\ where[q] = "queued" /\ at[q] = entry[q]
            /\ \E k \in 1..Len(queue[entry[q]]) : queue[entry[q]][k] = q
        BY <1>0, <3>1 DEF AdmissionInv
      <3>3. entry[q] \in Insts
        BY <3>2 DEF IInv, PlaceInv
      <3> QED
        BY <1>2, <3>1, <3>2, <3>3, ComesQueues
    <2>2. /\ \A q \in Requests : entry[q] # 0 <=> where'[q] # "arriving"
          /\ \A q \in Requests : where'[q] = "arriving" => admitted'[q] = None
          /\ \A q \in Requests : admitted'[q] # None => admitted'[q] <= now
          /\ \A p, q \in Requests : where'[p] = "arriving" /\ where'[q] # "arriving" =>
               load.arrival[q] <= load.arrival[p]
      <3>1. \A q \in Requests : where'[q] = "arriving" <=> where[q] = "arriving"
        BY <1>2
      <3> QED
        BY <1>0, <1>2, <3>1 DEF AdmissionInv
    <2> QED
      BY <1>0, <2>1, <2>2 DEF AdmissionInv
  <1>4. QueueInOrder'
    <2> SUFFICES ASSUME NEW j \in Insts, NEW k \in 1..Len(queue'[j]), NEW l \in 1..Len(queue'[j]), k < l,
                        admitted'[queue'[j][k]] = None, admitted'[queue'[j][l]] = None
                 PROVE  load.arrival[queue'[j][k]] <= load.arrival[queue'[j][l]]
      BY <1>0 DEF QueueInOrder
    <2>1. queue'[j][k] # r /\ queue'[j][l] # r
      BY <1>1, <1>2
    <2>2. /\ k \in 1..Len(queue[j]) /\ queue'[j][k] = queue[j][k]
          /\ l \in 1..Len(queue[j]) /\ queue'[j][l] = queue[j][l]
      BY <2>1, ComesQueues
    <2>3. queue[j][k] \in Requests /\ queue[j][l] \in Requests
      BY <2>2, WaitsInQueue
    <2> QED
      BY <1>0, <1>2, <2>2, <2>3 DEF QueueInOrder
  <1>5. FirstComeFirstServed'
    BY <1>0, <1>2 DEF FirstComeFirstServed
  <1> QED
    BY <1>3, <1>4, <1>5 DEF HistInv

LEMMA HistLeaves ==
  ASSUME IInv, HistInv, NEW r \in Requests, where[r] \in {"prefill", "decode"},
         NEW stage \in {"done", "transit"}, NEW k \in 0..Len(queue[at[r]]),
         Leaves(r, stage, at[r], k), UNCHANGED <<fixed, clock, entry>>
  PROVE  HistInv'
  <1>0. /\ AdmissionInv /\ QueueInOrder /\ FirstComeFirstServed /\ now \in Nat
        /\ load' = load /\ Insts' = Insts /\ entry' = entry /\ now' = now
    BY DEF HistInv, IInv, Types, fixed, clock, Insts
  <1>1. PICK i \in Insts : i = at[r]
    BY DEF IInv, PlaceInv
  <1> DEFINE P == {queue[i][m] : m \in 1..k}
  <1>2. /\ at' = at /\ where'[r] = stage
        /\ \A p \in P : where'[p] \in {"prefill", "decode"}
        /\ \A p \in Requests \ (P \cup {r}) : where'[p] = where[p]
        /\ \A p \in Requests : admitted'[p] = IF p \in P /\ admitted[p] = None THEN now ELSE admitted[p]
    BY <1>1 DEF Leaves
  <1>3. /\ Len(queue[i]) \in Nat /\ k \in 0..Len(queue[i]) /\ Len(queue'[i]) = Len(queue[i]) - k
        /\ \A m \in 1..Len(queue'[i]) : queue'[i][m] = queue[i][k + m]
        /\ \A j \in Insts \ {i} : queue'[j] = queue[j]
    <2>1. Leaves(r, stage, i, k) /\ k \in 0..Len(queue[i])
      BY <1>1
    <2>2. Len(queue[i]) \in Nat
      BY DEF IInv, Types
    <2> QED
      BY <2>1, <2>2 DEF Leaves
  <1>4. \A j \in Insts : \A m \in 1..Len(queue[j]) :
          /\ queue[j][m] \in Requests \ {r} /\ where[queue[j][m]] = "queued"
          /\ at[queue[j][m]] = j /\ Len(queue[j]) \in Nat
    BY WaitsInQueue
  <1>5. \A p \in P : p \in Requests \ {r} /\ where[p] = "queued" /\ at[p] = i
    <2>1. \A m \in 1..k : m \in 1..Len(queue[i])
      BY <1>3
    <2> QED
      BY <1>4, <2>1
  <1> HIDE DEF P
  <1>6. \A q \in Requests : /\ where'[q] = "arriving" <=> where[q] = "arriving"
                            /\ admitted'[q] = None => admitted[q] = None /\ q \notin P
    BY <1>0, <1>2, <1>5 DEF None
  <1>7. \A q \in Requests : where[q] # "arriving" /\ admitted[q] = None =>
          /\ where[q] = "queued" /\ at[q] = entry[q] /\ entry[q] \in Insts
          /\ \E m \in 1..Len(queue[entry[q]]) : queue[entry[q]][m] = q
    BY <1>0 DEF AdmissionInv, IInv, PlaceInv
  <1>8. AdmissionInv'
    <2>1. \A q \in Requests : where'[q] # "arriving" /\ admitted'[q] = None =>
            /\ where'[q] = "queued" /\ at'[q] = entry[q]
            /\ \E m \in 1..Len(queue'[entry[q]]) : queue'[entry[q]][m] = q
      <3> SUFFICES ASSUME NEW q \in Requests, where'[q] # "arriving", admitted'[q] = None
                   PROVE  /\ where'[q] = "queued" /\ at'[q] = entry[q]
                          /\ \E m \in 1..Len(queue'[entry[q]]) : queue'[entry[q]][m] = q
        OBVIOUS
      <3>1. where[q] # "arriving" /\ admitted[q] = None /\ q \notin P
        BY <1>6
      <3>2. where'[q] = "queued" /\ at'[q] = entry[q]
        BY <1>2, <1>7, <3>1
      <3>3. PICK m \in 1..Len(queue[entry[q]]) : queue[entry[q]][m] = q
        BY <1>7, <3>1
      <3>4. CASE entry[q] = i
        <4>1. m > k
          <5>1. m \notin 1..k
            BY <3>1, <3>3, <3>4 DEF P
          <5> QED
            BY <1>3, <3>3, <3>4, <5>1
        <4>2. m - k \in 1..Len(queue'[i]) /\ k + (m - k) = m
          BY <1>3, <3>3, <3>4, <4>1
        <4>3. queue'[i][m - k] = q
          BY <1>3, <3>3, <3>4, <4>2
        <4> QED
          BY <3>2, <3>4, <4>2, <4>3
      <3>5. CASE entry[q] # i
        <4>1. queue'[entry[q]] = queue[entry[q]]
          BY <1>3, <1>7, <3>1, <3>5
        <4> QED
          BY <3>2, <3>3, <4>1
      <3> QED
        BY <3>4, <3>5
    <2>2. /\ \A q \in Requests : entry[q] # 0 <=> where'[q] # "arriving"
          /\ \A p, q \in Requests : where'[p] = "arriving" /\ where'[q] # "arriving" =>
               load.arrival[q] <= load.arrival[p]
      BY <1>0, <1>6 DEF AdmissionInv
    <2>3. \A q \in Requests : where'[q] = "arriving" => admitted'[q] = None
      <3>1. \A q \in Requests : where[q] = "arriving" => q \notin P /\ admitted[q] = None
        BY <1>0, <1>5 DEF AdmissionInv
      <3> QED
        BY <1>2, <1>6, <3>1
    <2>4. \A q \in Requests : admitted'[q] # None => admitted'[q] <= now
      BY <1>0, <1>2 DEF AdmissionInv
    <2> QED
      BY <1>0, <2>1, <2>2, <2>3, <2>4 DEF AdmissionInv
  <1>9. QueueInOrder'
    <2> SUFFICES ASSUME NEW j \in Insts, NEW l \in 1..Len(queue'[j]), NEW m \in 1..Len(queue'[j]), l < m,
                        admitted'[queue'[j][l]] = None, admitted'[queue'[j][m]] = None
                 PROVE  load.arrival[queue'[j][l]] <= load.arrival[queue'[j][m]]
      BY <1>0 DEF QueueInOrder
    <2>1. CASE j = i
      <3>1. /\ k + l \in 1..Len(queue[i]) /\ k + m \in 1..Len(queue[i]) /\ k + l < k + m
        BY <1>3, <2>1
      <3>2. queue'[i][l] = queue[i][k + l] /\ queue'[i][m] = queue[i][k + m]
        BY <1>3, <2>1
      <3>3. admitted[queue[i][k + l]] = None /\ admitted[queue[i][k + m]] = None
        BY <1>4, <1>6, <2>1, <3>1, <3>2
      <3> QED
        BY <1>0, <2>1, <3>1, <3>2, <3>3 DEF QueueInOrder
    <2>2. CASE j # i
      <3>1. queue'[j] = queue[j]
        BY <1>3, <2>2
      <3>2. admitted[queue[j][l]] = None /\ admitted[queue[j][m]] = None
        BY <1>4, <1>6, <3>1
      <3> QED
        BY <1>0, <3>1, <3>2 DEF QueueInOrder
    <2> QED
      BY <2>1, <2>2
  <1>10. FirstComeFirstServed'
    <2> SUFFICES ASSUME NEW p \in Requests, NEW s \in Requests, entry[p] # 0, entry[p] = entry[s],
                        load.arrival[p] < load.arrival[s], admitted'[s] # None
                 PROVE  admitted'[p] # None /\ admitted'[p] <= admitted'[s]
      BY <1>0 DEF FirstComeFirstServed
    <2>1. CASE admitted[s] # None
      <3>1. admitted'[s] = admitted[s]
        BY <1>2, <2>1
      <3>2. admitted[p] # None /\ admitted[p] <= admitted[s]
        BY <1>0, <2>1 DEF FirstComeFirstServed
      <3> QED
        BY <1>2, <3>1, <3>2
    <2>2. CASE admitted[s] = None
      <3>1. s \in P /\ admitted'[s] = now
        BY <1>2, <2>2
      <3>2. CASE admitted[p] # None
        BY <1>0, <1>2, <3>1, <3>2 DEF AdmissionInv
      <3>3. CASE admitted[p] = None
        <4>1. where[p] # "arriving" /\ where[s] # "arriving"
          BY <1>0 DEF AdmissionInv
        <4>2. entry[s] = i /\ entry[p] = i
          BY <1>5, <1>7, <2>2, <3>1, <4>1
        <4>3. PICK m \in 1..Len(queue[i]) : queue[i][m] = p
          BY <1>7, <3>3, <4>1, <4>2
        <4>4. PICK l \in 1..k : queue[i][l] = s
          BY <3>1 DEF P
        <4>5. l \in 1..Len(queue[i]) /\ m # l
          BY <1>0, <1>3, <4>3, <4>4, ArrivalIsNat
        <4>6. ~(l < m)
          <5>1. l < m => load.arrival[s] <= load.arrival[p]
            BY <1>0, <2>2, <3>3, <4>3, <4>4, <4>5 DEF QueueInOrder
          <5> QED
            BY <5>1, ArrivalIsNat
        <4>7. m \in 1..k
          BY <1>3, <4>3, <4>4, <4>5, <4>6
        <4>8. p \in P
          BY <4>3, <4>7 DEF P
        <4> QED
          BY <1>0, <1>2, <3>1, <3>3, <4>8 DEF None
      <3> QED
        BY <3>2, <3>3
    <2> QED
      BY <2>1, <2>2
  <1> QED
    BY <1>8, <1>9, <1>10 DEF HistInv

\* Of two requests routed to an instance the one that arrived earlier is
\* admitted no later (the arrivals heap, _enqueue and _try_admit together).
THEOREM NoOvertaking == Spec => []FirstComeFirstServed
  <1>1. IInv /\ HistInv /\ [Next]_vars => HistInv'
    <2> SUFFICES ASSUME IInv, HistInv, [Next]_vars PROVE HistInv'
      OBVIOUS
    <2>0. Types /\ PlaceInv /\ now \in Nat
      BY DEF IInv, Types
    <2>1. CASE Advance
      <3>1. now' \in Nat
        BY <2>1, AdvanceTypes
      <3>2. now' >= now
        <4>1. PICK t : now' = IF t > now THEN t ELSE now
          BY <2>1 DEF Advance
        <4> QED
          BY <2>0, <3>1, <4>1
      <3> QED
        BY <2>1, <3>1, <3>2, HistQuiet DEF Advance, times
    <2>2. CASE NextPhase \/ UNCHANGED vars
      <3>1. UNCHANGED <<fixed, now, where, at, entry, queue, admitted>>
        BY <2>2 DEF NextPhase, vars, clock, times
      <3> QED
        BY <2>0, <3>1, HistQuiet
    <2>3. ASSUME NEW r \in Requests, Arrive(r) PROVE HistInv'
      <3>1. PICK i : i = Route(ArrivalPool)
        OBVIOUS
      <3>2. ArrivalPool \in SUBSET Insts /\ ArrivalPool # {}
        BY <2>0, ClusterFacts DEF ArrivalPool, DecodePool
      <3>3. i \in Insts /\ i # 0
        BY <2>0, <3>1, <3>2, RouteChooses, ClusterFacts
      <3>4. /\ Enqueue(r, i) /\ where[r] = "arriving" /\ UNCHANGED <<fixed, clock>>
            /\ entry' = [entry EXCEPT ![r] = i]
        BY <2>3, <3>1 DEF Arrive, Arriving
      <3>5. \A s \in Requests : where[s] = "arriving" => load.arrival[r] <= load.arrival[s]
        <4>1. load.arrival[r] <= now /\ \A s \in Arriving : Before(r, s)
          BY <2>3 DEF Arrive, Arriving
        <4>2. \A s \in Requests : where[s] = "arriving" => s \in Arriving \/ ~(load.arrival[s] <= now)
          BY DEF Arriving
        <4> QED
          BY <2>0, <4>1, <4>2, ArrivalIsNat DEF Before
      <3>6. Comes(r, i)
        BY <3>3, <3>4, EnqueueStep
      <3> QED
        BY <3>3, <3>4, <3>5, <3>6, HistArrive
    <2>4. ASSUME NEW r \in Requests, Transferred(r) PROVE HistInv'
      <3>1. PICK i : i = Route(DecodePool)
        OBVIOUS
      <3>2. DecodePool \in SUBSET Insts /\ DecodePool # {}
        BY <2>0, <2>4 DEF DecodePool, Transferred, Arrived, PlaceInv
      <3>3. i \in Insts
        BY <2>0, <3>1, <3>2, RouteChooses
      <3>4. Enqueue(r, i) /\ where[r] = "transit" /\ UNCHANGED <<fixed, clock, entry>>
        BY <2>4, <3>1 DEF Transferred, Arrived
      <3>5. Comes(r, i)
        BY <3>3, <3>4, EnqueueStep
      <3> QED
        BY <3>3, <3>4, <3>5, HistTransferred
    <2>5. ASSUME NEW r \in Requests, FirstToken(r) PROVE HistInv'
      <3>1. where[r] = "prefill" /\ UNCHANGED <<fixed, clock, entry>>
        BY <2>5 DEF FirstToken, Prefilled
      <3>2. CASE TryAdmit(r, "done", at[r])
        <4>1. \E k \in 0..Len(queue[at[r]]) : Leaves(r, "done", at[r], k)
          BY <3>1, <3>2, TryAdmitStep
        <4> QED
          BY <3>1, <4>1, HistLeaves
      <3>3. CASE PDMode /\ TryAdmit(r, "transit", at[r])
        <4>1. \E k \in 0..Len(queue[at[r]]) : Leaves(r, "transit", at[r], k)
          BY <3>1, <3>3, TryAdmitStep DEF PDMode
        <4> QED
          BY <3>1, <4>1, HistLeaves
      <3>4. CASE Move(r, "decode", at[r], <<>>, Load(at[r])) /\ UNCHANGED queue
        <4>1. ToSet(<<>>) = {}
          BY DEF ToSet
        <4>2. /\ \A q \in Requests : where'[q] = IF q = r THEN "decode" ELSE where[q]
              /\ at' = at /\ admitted' = admitted
          BY <2>0, <3>4, <4>1 DEF Move, Types
        <4> QED
          BY <2>0, <3>1, <3>4, <4>2, HistQuiet DEF clock
      <3> QED
        BY <2>5, <3>2, <3>3, <3>4 DEF FirstToken
    <2>6. ASSUME NEW r \in Requests, Finish(r) PROVE HistInv'
      <3>1. where[r] = "decode" /\ TryAdmit(r, "done", at[r]) /\ UNCHANGED <<fixed, clock, entry>>
        BY <2>6 DEF Finish, Decoded
      <3>2. \E k \in 0..Len(queue[at[r]]) : Leaves(r, "done", at[r], k)
        BY <3>1, TryAdmitStep
      <3> QED
        BY <3>1, <3>2, HistLeaves
    <2> QED
      BY <2>1, <2>2, <2>3, <2>4, <2>5, <2>6 DEF Next
  <1>2. HistInv => FirstComeFirstServed
    BY DEF HistInv
  <1> QED
    BY <1>1, <1>2, HistInit, Invariance, PTL DEF Spec
=============================================================================
