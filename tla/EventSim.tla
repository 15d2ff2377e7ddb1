------------------------------ MODULE EventSim ------------------------------
(***************************************************************************)
(* The measured backend's simulator of a serving cluster                   *)
(* (sim_backends/measured/event_sim.py) over the measured capacity curves  *)
(* of its instances (oracles/capacity_curve.py), for a cluster built from  *)
(* a cluster configuration (backend.py).                                   *)
(*                                                                         *)
(* One pass of the main loop is the phases "arrivals", "transfers",        *)
(* "prefills" and "decodes"; Advance starts a pass by moving the clock.    *)
(* Each request handled in a phase is a step; the requests that complete   *)
(* in one phase complete in any order (the code takes them by instance).   *)
(* Decoding proceeds at 1/TPOT(load) tokens per time unit; a token is Unit *)
(* units of work, so that every TPOT divides it and the arithmetic is      *)
(* exact. Power and the CSV are left out.                                  *)
(***************************************************************************)
EXTENDS Integers, Sequences, FiniteSets, SequencesExt

CONSTANTS Requests,    \* request ids, a set of numbers (the heap's tie-break)
          Clusters,    \* the clusters simulated: see ClusterOf
          Workloads,   \* arrival time, output tokens and KV hand-off delay of each request
          Unit         \* work units per token

None == -1

ASSUME RequestsAssumption == Requests \subseteq Nat /\ IsFiniteSet(Requests)
ASSUME WorkloadsAssumption ==
  /\ Unit \in Nat \ {0}
  /\ \A w \in Workloads : {w.arrival, w.output, w.handoff} \subseteq [Requests -> Nat]

(***************************************************************************)
(* Clusters. A capacity curve is a set of points [c, ttft, tpot].          *)
(***************************************************************************)

\* steady_state: clamped outside the measured range, linear within it.
Steady(curve, field, c) ==
  LET below == {p \in curve : p.c <= c}
      above == {p \in curve : p.c >= c}
      a == CHOOSE p \in below : \A q \in below : q.c <= p.c
      b == CHOOSE p \in above : \A q \in above : p.c <= q.c
  IN IF below = {} THEN b[field]
     ELSE IF above = {} \/ a = b THEN a[field]
     ELSE a[field] + ((c - a.c) * (b[field] - a[field])) \div (b.c - a.c)

Envelope(curve) == CHOOSE c \in {p.c : p \in curve} : \A p \in curve : p.c <= c

\* An entry of a node's "instances" stands for as many serving instances as
\* whole tensor-parallel groups fit its devices, and for at least one.
Replicas(entry) == IF entry.npus \div entry.tp >= 1 THEN entry.npus \div entry.tp ELSE 1

\* cluster_model_from_config: inst_id is the position in the sequence.
ClusterOf(routing, entries) ==
  [routing |-> routing,
   inst    |-> FlattenSeq([k \in DOMAIN entries |->
                 [j \in 1..Replicas(entries[k]) |->
                   [role |-> entries[k].role, weight |-> entries[k].weight,
                    cap  |-> IF entries[k].cap = None THEN Envelope(entries[k].curve)
                             ELSE entries[k].cap,
                    curve |-> entries[k].curve]]])]

\* A cluster has an instance; requests are admitted one by one.
ASSUME ClustersAssumption ==
  \A c \in Clusters :
    /\ Len(c.inst) \in Nat \ {0} /\ DOMAIN c.inst = 1..Len(c.inst)
    /\ \A i \in DOMAIN c.inst : c.inst[i].cap \in Nat /\ c.inst[i].weight \in Int

\* Within an instance's cap times are whole ticks, and a tick of decoding is whole work.
ASSUME TicksAssumption ==
  \A c \in Clusters : \A i \in DOMAIN c.inst : \A n \in 0..c.inst[i].cap :
    /\ Steady(c.inst[i].curve, "ttft", n) \in Nat
    /\ Steady(c.inst[i].curve, "tpot", n) \in Nat \ {0}
    /\ Unit % Steady(c.inst[i].curve, "tpot", n) = 0

VARIABLES
  cluster, load,      \* the cluster and the workload, chosen once
  now, phase,
  where,              \* the structure a request is in
  at,                 \* the instance whose prefill, decode or queue holds it
  entry,              \* history: the instance it was first routed to
  due,                \* its prefill deadline, or when its KV transfer is ready
  left,               \* decode_target - decode_done, in work units
  queue, dispatched,  \* of each instance
  admitted, first, end

clock == <<now, phase>>
times == <<admitted, first, end>>
fixed == <<cluster, load>>
vars == <<fixed, clock, where, at, entry, due, left, queue, dispatched, times>>

Insts == DOMAIN cluster.inst
Cap(i) == cluster.inst[i].cap
Ttft(i, c) == Steady(cluster.inst[i].curve, "ttft", c)
Tpot(i, c) == Steady(cluster.inst[i].curve, "tpot", c)

Serving(i) == {r \in Requests : at[r] = i /\ where[r] \in {"prefill", "decode"}}
Load(i) == Cardinality(Serving(i))          \* _InstState.concurrency

\* _route_targets: arrivals go to combined and prefill instances, if there are any.
DecodePool == {i \in Insts : cluster.inst[i].role = "decode"}
ArrivalPool == IF DecodePool = Insts THEN Insts ELSE Insts \ DecodePool
PDMode == /\ DecodePool # {}
          /\ \E i \in Insts : cluster.inst[i].role = "prefill"

Positive(pool) == {i \in pool : cluster.inst[i].weight > 0}
Candidates(pool) == IF cluster.routing = "WEIGHTED" /\ Positive(pool) # {}
                    THEN Positive(pool) ELSE pool
Weight(i) == IF cluster.routing = "WEIGHTED" THEN cluster.inst[i].weight ELSE 1

\* The sort key is dispatched over weight, infinite for a weight that is not
\* positive; compared without dividing.
LighterThan(i, j) ==
  /\ Weight(i) > 0
  /\ Weight(j) > 0 => dispatched[i] * Weight(j) < dispatched[j] * Weight(i)

\* Mutant of Route: weighted by multiplying.
RouteByProduct(pool) ==
  CHOOSE i \in Candidates(pool) :
    \A j \in Candidates(pool) : dispatched[i] * Weight(i) <= dispatched[j] * Weight(j)

\* _route: the least dispatched for its weight, the first of these.
Route(pool) ==
  LET cands == Candidates(pool)
      least == {i \in cands : \A j \in cands : ~LighterThan(j, i)}
  IN CHOOSE i \in least : \A j \in least : i <= j

Init ==
  /\ cluster \in Clusters
  /\ load \in Workloads
  /\ now = 0 /\ phase = "advance"
  /\ where = [r \in Requests |-> "arriving"]
  /\ at = [r \in Requests |-> 0]
  /\ entry = [r \in Requests |-> 0]
  /\ due = [r \in Requests |-> 0]
  /\ left = [r \in Requests |-> 0]
  /\ queue = [i \in Insts |-> <<>>]
  /\ dispatched = [i \in Insts |-> 0]
  /\ admitted = [r \in Requests |-> None]
  /\ first = [r \in Requests |-> None]
  /\ end = [r \in Requests |-> None]

(***************************************************************************)
(* Time.                                                                   *)
(***************************************************************************)

\* When each request's next event comes; +1 rounds the float up.
NextEvent(r) ==
  CASE where[r] = "arriving" -> load.arrival[r]
    [] where[r] \in {"prefill", "transit"} -> due[r]
    [] where[r] = "decode" -> now + (left[r] * Tpot(at[r], Load(at[r]))) \div Unit + 1

Pending == {r \in Requests : where[r] \in {"arriving", "prefill", "transit", "decode"}}

\* The top of the loop. Without a next event it breaks, whatever is queued.
Advance ==
  /\ phase = "advance"
  /\ \E t \in {NextEvent(r) : r \in Pending} :
       /\ \A r \in Pending : t <= NextEvent(r)
       /\ now' = IF t > now THEN t ELSE now
  /\ left' = [r \in Requests |->
                IF where[r] = "decode"
                THEN left[r] - (now' - now) * (Unit \div Tpot(at[r], Load(at[r])))
                ELSE left[r]]
  /\ phase' = "arrivals"
  /\ UNCHANGED <<fixed, where, at, entry, due, queue, dispatched, times>>

(***************************************************************************)
(* Admission.                                                              *)
(***************************************************************************)

\* _admit of the requests in s to instance i, which serves n others, while r
\* moves to the given stage there. A request that has its first token was
\* prefilled elsewhere and enters decode.
Move(r, stage, i, s, n) ==
  LET inclusive(q) == n + CHOOSE k \in DOMAIN s : s[k] = q
      c(q) == IF inclusive(q) <= Cap(i) THEN inclusive(q) ELSE Cap(i)
  IN /\ where' = [q \in Requests |->
                    IF q \in ToSet(s) THEN IF first[q] = None THEN "prefill" ELSE "decode"
                    ELSE IF q = r THEN stage ELSE where[q]]
     /\ at' = [at EXCEPT ![r] = i]
     /\ admitted' = [q \in Requests |-> IF q \in ToSet(s) /\ admitted[q] = None THEN now
                                        ELSE admitted[q]]
     /\ due' = [q \in Requests |->
                  IF q \in ToSet(s) /\ first[q] = None THEN now + Ttft(i, c(q))
                  ELSE IF q = r /\ stage = "transit" THEN now + load.handoff[q]
                  ELSE due[q]]

\* Mutant of Enqueue: the bound is checked after the fact.
EnqueueOneMore(r, i) ==
  \/ /\ Load(i) <= Cap(i)
     /\ Move(r, "prefill", i, <<r>>, Load(i))
     /\ UNCHANGED queue
  \/ /\ Load(i) > Cap(i)
     /\ Move(r, "queued", i, <<>>, Load(i))
     /\ queue' = [queue EXCEPT ![i] = Append(@, r)]

Enqueue(r, i) ==
  \/ /\ Load(i) < Cap(i)
     /\ Move(r, "prefill", i, <<r>>, Load(i))
     /\ UNCHANGED queue
  \/ /\ Load(i) >= Cap(i)
     /\ Move(r, "queued", i, <<>>, Load(i))
     /\ queue' = [queue EXCEPT ![i] = Append(@, r)]

\* Mutant of TryAdmit: the latest first.
TryAdmitLast(r, stage, i) ==
  LET q == queue[i]
  IN /\ Move(r, stage, i, IF q = <<>> THEN <<>> ELSE <<Last(q)>>, Load(i) - 1)
     /\ queue' = [queue EXCEPT ![i] = IF q = <<>> THEN q ELSE Front(q)]

\* r leaves instance i; _try_admit fills what is free now from the front.
TryAdmit(r, stage, i) ==
  LET others == Load(i) - 1
      free == Cap(i) - others
      k == IF Len(queue[i]) <= free THEN Len(queue[i]) ELSE free
  IN /\ Move(r, stage, i, SubSeq(queue[i], 1, k), others)
     /\ queue' = [queue EXCEPT ![i] = SubSeq(@, k + 1, Len(@))]

(***************************************************************************)
(* One pass of the main loop.                                              *)
(***************************************************************************)

Arriving == {r \in Requests : where[r] = "arriving" /\ load.arrival[r] <= now}
Arrived == {r \in Requests : where[r] = "transit" /\ due[r] <= now}
Prefilled == {r \in Requests : where[r] = "prefill" /\ due[r] <= now}
Decoded == {r \in Requests : where[r] = "decode" /\ left[r] <= 0}

\* The heap's order: by time, then by id.
Before(r, s) == \/ load.arrival[r] < load.arrival[s]
                \/ load.arrival[r] = load.arrival[s] /\ r <= s

Arrive(r) ==
  /\ phase = "arrivals"
  /\ r \in Arriving
  /\ \A s \in Arriving : Before(r, s)
  /\ LET i == Route(ArrivalPool)
     IN /\ Enqueue(r, i)
        /\ entry' = [entry EXCEPT ![r] = i]
        /\ dispatched' = [dispatched EXCEPT ![i] = @ + 1]
  /\ UNCHANGED <<fixed, clock, left, first, end>>

Transferred(r) ==
  /\ phase = "transfers"
  /\ r \in Arrived
  /\ LET i == Route(DecodePool)
     IN /\ Enqueue(r, i)
        /\ dispatched' = [dispatched EXCEPT ![i] = @ + 1]
  /\ UNCHANGED <<fixed, clock, entry, left, first, end>>

DecodeTarget(r) == (load.output[r] - 1) * Unit

\* The first token. A request of one token ends with it, one on a prefill
\* instance is handed over, any other decodes where it is.
FirstToken(r) ==
  /\ phase = "prefills"
  /\ r \in Prefilled
  /\ first' = [first EXCEPT ![r] = now]
  /\ \/ /\ load.output[r] <= 1
        /\ end' = [end EXCEPT ![r] = now]
        /\ TryAdmit(r, "done", at[r])
        /\ UNCHANGED left
     \/ /\ load.output[r] > 1
        /\ left' = [left EXCEPT ![r] = DecodeTarget(r)]
        /\ UNCHANGED end
        /\ IF PDMode /\ cluster.inst[at[r]].role = "prefill"
           THEN TryAdmit(r, "transit", at[r])
           ELSE Move(r, "decode", at[r], <<>>, Load(at[r])) /\ UNCHANGED queue
  /\ UNCHANGED <<fixed, clock, entry, dispatched>>

\* Mutant of Finish: a decoder that ends admits nobody.
FinishAlone(r) ==
  /\ phase = "decodes"
  /\ r \in Decoded
  /\ end' = [end EXCEPT ![r] = now]
  /\ Move(r, "done", at[r], <<>>, Load(at[r]))
  /\ UNCHANGED <<fixed, clock, entry, left, queue, dispatched, first>>

Finish(r) ==
  /\ phase = "decodes"
  /\ r \in Decoded
  /\ end' = [end EXCEPT ![r] = now]
  /\ TryAdmit(r, "done", at[r])
  /\ UNCHANGED <<fixed, clock, entry, left, dispatched, first>>

NextPhase ==
  /\ \/ phase = "arrivals" /\ Arriving = {} /\ phase' = "transfers"
     \/ phase = "transfers" /\ Arrived = {} /\ phase' = "prefills"
     \/ phase = "prefills" /\ Prefilled = {} /\ phase' = "decodes"
     \/ phase = "decodes" /\ Decoded = {} /\ phase' = "advance"
  /\ UNCHANGED <<fixed, now, where, at, entry, due, left, queue, dispatched, times>>

Next ==
  \/ Advance \/ NextPhase
  \/ \E r \in Requests : Arrive(r) \/ Transferred(r) \/ FirstToken(r) \/ Finish(r)

\* A single thread that never waits: it runs while there is an event.
Spec == Init /\ [][Next]_vars /\ WF_vars(Next)

(***************************************************************************)
(* Properties.                                                             *)
(***************************************************************************)

Stages == {"arriving", "queued", "prefill", "transit", "decode", "done"}

\* Every variable keeps its type; a queue holds what its instance keeps waiting.
TypeOK ==
  /\ cluster \in Clusters /\ load \in Workloads
  /\ now \in Nat /\ phase \in {"advance", "arrivals", "transfers", "prefills", "decodes"}
  /\ where \in [Requests -> Stages]
  /\ \A r \in Requests : where[r] \in {"queued", "prefill", "decode"} => at[r] \in Insts
  /\ queue \in [Insts -> Seq(Requests)]
  /\ dispatched \in [Insts -> Nat]

\* Between an instance's bound and its queue there is no gap: it never serves
\* more than its admission cap, and nobody waits while it serves fewer
\* (_enqueue, _try_admit).
WorkConserving ==
  \A i \in Insts : /\ Load(i) <= Cap(i)
                   /\ queue[i] # <<>> => Load(i) = Cap(i)

\* Of two requests routed to the same instance the one that arrived earlier is
\* admitted no later (the arrivals heap, the deque and _try_admit together).
FirstComeFirstServed ==
  \A r, s \in Requests :
    /\ entry[r] # 0 /\ entry[r] = entry[s]
    /\ load.arrival[r] < load.arrival[s]
    /\ admitted[s] # None
    => admitted[r] # None /\ admitted[r] <= admitted[s]

\* Deficit routing: of the instances of a pool that have a weight, none is ever
\* more than one request ahead of its weighted share; one without a weight
\* serves only when no instance of its pool has one, and then the first of them
\* serves alone (_route).
FairShare ==
  \A pool \in {ArrivalPool, DecodePool} : \A i, j \in pool :
    /\ Weight(i) > 0 /\ Weight(j) > 0
       => (dispatched[i] - 1) * Weight(j) <= dispatched[j] * Weight(i)
    /\ Weight(i) <= 0 /\ dispatched[i] > 0
       => Weight(j) <= 0 /\ i <= j

\* Conservation: the run ends with a record of every request.
AllServed == <>(\A r \in Requests : where[r] = "done")
=============================================================================
