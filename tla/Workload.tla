------------------------------- MODULE Workload -------------------------------
(***************************************************************************)
(* From a request rate to a trace and a demand (service/workload_synth.py, *)
(* service/presets.py). Lengths and arrival times are drawn with a fixed   *)
(* seed: which ones is not known, so every draw from Draws and every set   *)
(* of at most MaxArrivals times is possible.                               *)
(***************************************************************************)
EXTENDS Ordering, Functions

CONSTANTS Presets,      \* name -> [input, output], each [mean, p90, cap]
          Draws,        \* what the lognormal may yield before it is clamped
          MaxArrivals   \* bound on the requests of a trace

\* LengthDist refuses a mean below one or not below the 90th percentile.
ASSUME PresetsAssumption ==
  /\ \A p \in DOMAIN Presets : \A d \in {Presets[p].input, Presets[p].output} :
       1 <= d.mean /\ d.mean < d.p90 /\ d.cap \in Nat
  /\ Draws \subseteq Nat

Lengths(d) == {IF n < 1 THEN 1 ELSE IF n > d.cap THEN d.cap ELSE n : n \in Draws}

\* expected_toks_per_request, and the demand of a rate.
PerRequest(preset) == Presets[preset].input.mean + Presets[preset].output.mean
DemandToksPerS(rate, preset) == rate * PerRequest(preset)

\* _arrival_times_s: increasing, before the end; none at all is possible.
ArrivalTimes(scale) ==
  {Ascending(S) : S \in {T \in SUBSET (0..(scale.duration - 1)) :
                                 Cardinality(T) <= MaxArrivals}}

\* synthesize: a row for each arrival. All requests of a trace are drawn alike.
Traces(scale) ==
  LET p == Presets[scale.preset]
  IN {[i \in DOMAIN at |-> [input |-> in, output |-> out, arrival |-> at[i]]] :
        at \in ArrivalTimes(scale), in \in Lengths(p.input), out \in Lengths(p.output)}

\* It raises without a preset, for an unknown one, and when nothing arrives.
Synthesizes(scale, trace) == scale.preset \in DOMAIN Presets /\ trace # <<>>

\* What SynthResult says: the rate of all tokens, and of generated ones.
Rates(scale, trace) ==
  LET sum(f) == SumFunction([i \in DOMAIN trace |-> trace[i][f]])
  IN [all |-> (sum("input") + sum("output")) \div scale.duration,
      generated |-> sum("output") \div scale.duration]
=============================================================================
