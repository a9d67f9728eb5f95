------------------------------- MODULE Stats --------------------------------
(***************************************************************************)
(* The first-time-seen baselines of detect/stats: one per entity, with the *)
(* number of observations and the values seen for each attribute.          *)
(***************************************************************************)
EXTENDS Integers, TLC

NewBaseline == [ObservationCount |-> <<>>, SeenValues |-> <<>>]

NewStore(threshold) == [WarmupThreshold |-> threshold, Baselines |-> <<>>]

\* What a map answers for a key, present or not.
Lookup(map, key, zero) == IF key \in DOMAIN map THEN map[key] ELSE zero

\* The store after Get: a baseline asked for exists from then on.
Get(store, entity) ==
    [store EXCEPT !.Baselines = @ @@ (entity :> NewBaseline)]

Observe(baseline, attribute, value) ==
    [ObservationCount |->
        (attribute :> Lookup(baseline.ObservationCount, attribute, 0) + 1)
            @@ baseline.ObservationCount,
     SeenValues |->
        (attribute :> Lookup(baseline.SeenValues, attribute, {}) \union {value})
            @@ baseline.SeenValues]

\* Mutant: an entity still warming up finds everything novel.
IsNovelMutant(baseline, threshold, attribute, value) ==
    value \notin Lookup(baseline.SeenValues, attribute, {})

\* Below the threshold nothing is novel.
IsNovel(baseline, threshold, attribute, value) ==
    /\ Lookup(baseline.ObservationCount, attribute, 0) >= threshold
    /\ value \notin Lookup(baseline.SeenValues, attribute, {})

=============================================================================
