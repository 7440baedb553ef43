----------------------------- MODULE Reservation -----------------------------
(***************************************************************************)
(* The growth a build is expected to need, learnt from the builds before   *)
(* it (crates/zhold-store: reservation/profile.rs).  A window of samples   *)
(* is a sequence, its newest sample last.                                  *)
(***************************************************************************)
EXTENDS FiniteSetsExt, Functions, Naturals, Sequences

CONSTANT SampleLimit    \* SAMPLE_LIMIT

ASSUME ReservationAssumption == SampleLimit \in Nat \ {0}

\* Mutant of PushSample: the window is not bounded.
PushAnySample(samples, growth) == Append(samples, growth)

\* push_sample: a full window loses its oldest sample.
PushSample(samples, growth) ==
    Append(IF Len(samples) = SampleLimit THEN Tail(samples) ELSE samples, growth)

\* Mutant of Rank: the fraction is rounded down.
RankRoundedDown(n) == (n * 95) \div 100

\* The rank of the 95th percentile, counted from 1: the fraction is rounded up.
Rank(n) == (n * 95 + 99) \div 100

\* sort_unstable: the places of the window in an order in which its samples grow.
Sorts(order, samples) ==
    \A i, j \in DOMAIN samples : i < j => samples[order[i]] <= samples[order[j]]

Ordering(samples) ==
    CHOOSE order \in Bijection(DOMAIN samples, DOMAIN samples) : Sorts(order, samples)

Percentile95(samples) ==
    IF samples = << >> THEN 0 ELSE samples[Ordering(samples)[Max({Rank(Len(samples)), 1})]]

\* ReservationProfile::recommend: neither the configured minimum, nor most of the window,
\* nor the build before is undercut.
Recommend(samples, minimum) ==
    Max({minimum, Percentile95(samples), IF samples = << >> THEN 0 ELSE samples[Len(samples)]})

=============================================================================
