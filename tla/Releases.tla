------------------------------- MODULE Releases -------------------------------
(***************************************************************************)
(* Releases of a retrieval profile for an index generation                 *)
(* (RetrievalReleaseService), the versioned gates they are judged by       *)
(* (RetrievalReleaseGateService) and the command that judges one           *)
(* (run_release_acceptance).                                               *)
(*                                                                         *)
(* A release freezes the generation's component manifest and its own       *)
(* acceptance suite when it is staged; it is judged later, against the     *)
(* gate version it refers to and the newest released row of its profile,   *)
(* read without a lock.  A switch of generations judges it a second time,  *)
(* by the frozen suite.  One metric is better when lower, one when higher; *)
(* values are small numbers and a tolerated regression is one of them.     *)
(***************************************************************************)
EXTENDS Integers, Sequences, FiniteSets, FiniteSetsExt

CONSTANTS
    ReleaseGens,        \* index generations
    ReleaseIds,         \* bound: releases staged, numbered in the order of created_at
    GateVersions,       \* bound: gate versions registered
    GateInstants,       \* bound: instants a gate takes effect at
    MaxManifest,        \* bound: times a generation's components change
    Scores,             \* values of a metric
    GateShapes,         \* entries a gate may have: a limit and a severity per metric
    Suites              \* limits an acceptance suite may have

ReleaseMetrics == {"latency", "quality"}

ASSUME ReleasesAssumption ==
    /\ ReleaseIds \subseteq Nat /\ IsFiniteSet(ReleaseIds)
    /\ GateVersions \in Nat /\ GateInstants \in Nat /\ MaxManifest \in Nat
    /\ Scores \subseteq Int /\ Suites \subseteq [ReleaseMetrics -> Scores]
    /\ GateShapes \subseteq [limits : [ReleaseMetrics -> Scores],
                             severity : [ReleaseMetrics -> {"blocking", "advisory"}]]

VARIABLES
    gates,      \* retrieval_release_gates, oldest first
    releases,   \* retrieval_releases
    manifest,   \* component manifest of each generation
    judging     \* the judgement under way of each release: the baseline it read

releaseVars == <<gates, releases, manifest, judging>>

StillOpen == 0
\* baseline and judged remember, for the properties, what a judgement compared
NotStaged == [state |-> "none"]
NotJudging == [busy |-> FALSE]
Staged == {r \in ReleaseIds : releases[r].state = "staged"}
Released == {r \in ReleaseIds : releases[r].state = "released"}

\* direction: latency "below", quality "above"
Worse(metric, value, limit) == IF metric = "latency" THEN value > limit ELSE value < limit
Regressed(metric, value, baseline) ==
    IF metric = "latency" THEN value > baseline + 1 ELSE value < baseline - 1

Metrics == [ReleaseMetrics -> Scores]
ReleasesTypeOK ==
    /\ gates \in Seq([from : 1..GateInstants, to : 0..GateInstants, limits : Metrics,
                     severity : [ReleaseMetrics -> {"blocking", "advisory"}]])
    /\ releases \in [ReleaseIds -> {NotStaged} \cup
         [state : {"staged", "released"}, generation : ReleaseGens, gate : 1..GateVersions, suite : Metrics,
          binding : 0..MaxManifest, metrics : Metrics, baseline : Seq(Metrics), judged : 0..MaxManifest]]
    /\ manifest \in [ReleaseGens -> 0..MaxManifest]
    /\ judging \in [ReleaseIds -> {NotJudging} \cup
         [busy : {TRUE}, baseline : Seq(Metrics), on : 0..MaxManifest]]

-----------------------------------------------------------------------------
(* Gates *)

\* register: the first version supersedes nothing, each later one the open one
MutantMaySupersede(from) == TRUE                \* whenever it takes effect
MaySupersede(from) == gates # << >> => from > gates[Len(gates)].from
RegisterGate(from, shape) ==
    /\ Len(gates) < GateVersions
    /\ MaySupersede(from)
    /\ LET closed == [i \in DOMAIN gates |-> IF gates[i].to = StillOpen
                                             THEN [gates[i] EXCEPT !.to = from] ELSE gates[i]]
       IN  gates' = Append(closed, [from |-> from, to |-> StillOpen,
                                       limits |-> shape.limits, severity |-> shape.severity])
    /\ UNCHANGED <<releases, manifest, judging>>

\* resolve
GatesAt(at) == {i \in DOMAIN gates : gates[i].from <= at /\ (gates[i].to = StillOpen \/ gates[i].to > at)}
GateAt(at) == Max({i \in GatesAt(at) : \A j \in GatesAt(at) : gates[j].from <= gates[i].from})

-----------------------------------------------------------------------------
(* Releases *)

\* stage: the same generation, profile and version again is the same release
\* or a conflict
Stage(r, g, gate, suite) ==
    /\ releases[r].state = "none"
    /\ \A q \in ReleaseIds : q < r => releases[q].state # "none"
    /\ gate \in DOMAIN gates
    /\ releases' = [releases EXCEPT ![r] =
                        [state |-> "staged", generation |-> g, gate |-> gate, suite |-> suite,
                         binding |-> manifest[g], metrics |-> suite, baseline |-> << >>, judged |-> 0]]
    /\ UNCHANGED <<gates, manifest, judging>>

\* release: the newest released row of the generation and profile, if any
Baselines(r) == {q \in Released \ {r} : releases[q].generation = releases[r].generation}
BaselineOf(r) == IF Baselines(r) = {} THEN << >> ELSE <<releases[Max(Baselines(r))].metrics>>

\* _generation_binding: what was frozen must still be the generation's
StillBound(r) == releases[r].binding = manifest[releases[r].generation]

\* release, up to its update
BeginJudgement(r) ==
    /\ r \in Staged /\ ~judging[r].busy
    /\ StillBound(r)
    /\ judging' = [judging EXCEPT ![r] = [busy |-> TRUE, baseline |-> BaselineOf(r),
                                             on |-> manifest[releases[r].generation]]]
    /\ UNCHANGED <<gates, releases, manifest>>

\* _judge_with_gate: a blocking violation leaves the release staged, an
\* advisory one is only recorded
Violations(r, metrics, baseline) ==
    {m \in ReleaseMetrics : \/ Worse(m, metrics[m], gates[releases[r].gate].limits[m])
                            \/ baseline # << >> /\ Regressed(m, metrics[m], baseline[1][m])}
Passes(r, metrics, baseline) ==
    \A m \in Violations(r, metrics, baseline) : gates[releases[r].gate].severity[m] = "advisory"
\* The row is updated only while it is staged
EndJudgement(r, metrics) ==
    /\ judging[r].busy
    /\ IF Passes(r, metrics, judging[r].baseline) /\ r \in Staged
       THEN releases' = [releases EXCEPT ![r].state = "released", ![r].metrics = metrics,
                                         ![r].baseline = judging[r].baseline,
                                         ![r].judged = judging[r].on]
       ELSE UNCHANGED releases
    /\ judging' = [judging EXCEPT ![r] = NotJudging]
    /\ UNCHANGED <<gates, manifest>>

\* is_released_for_generation: what the switch of generations asks
MeetsSuite(r) == \A m \in ReleaseMetrics : ~Worse(m, releases[r].metrics[m], releases[r].suite[m])
IsReleasedForGeneration(g) ==
    \E r \in Released : releases[r].generation = g /\ StillBound(r) /\ MeetsSuite(r)

\* A component of the generation becomes ready, or is replaced
ComponentsChange(g) ==
    /\ manifest[g] < MaxManifest
    /\ manifest' = [manifest EXCEPT ![g] = @ + 1]
    /\ UNCHANGED <<gates, releases, judging>>

ReleaseInit ==
    /\ gates = << >>
    /\ releases = [r \in ReleaseIds |-> NotStaged]
    /\ manifest = [g \in ReleaseGens |-> 0]
    /\ judging = [r \in ReleaseIds |-> NotJudging]

ReleaseNext ==
    \/ \E from \in 1..GateInstants, shape \in GateShapes : RegisterGate(from, shape)
    \/ \E g \in ReleaseGens : ComponentsChange(g)
    \/ \E r \in ReleaseIds :
          \/ \E g \in ReleaseGens, gate \in DOMAIN gates, suite \in Suites : Stage(r, g, gate, suite)
          \/ BeginJudgement(r)
          \/ \E metrics \in [ReleaseMetrics -> Scores] : EndJudgement(r, metrics)

ReleaseSpec == ReleaseInit /\ [][ReleaseNext]_releaseVars

-----------------------------------------------------------------------------
(* Properties *)

\* At every instant at most one gate version is in force, resolve finds it, and
\* every version was in force for some time.
OneGateInForce ==
    /\ \A i \in DOMAIN gates : gates[i].to # StillOpen => gates[i].from < gates[i].to
    /\ \A at \in 1..GateInstants :
          /\ Cardinality(GatesAt(at)) <= 1
          /\ gates # << >> /\ at >= gates[1].from => GatesAt(at) = {GateAt(at)}

\* A released profile satisfies every blocking entry of the gate it was staged
\* under, whatever gate versions came later, and gives up at most the tolerated
\* regression against the release it was compared with (releases.py:147-222).
ReleasedMeetsItsGate ==
    \A r \in Released : \A m \in ReleaseMetrics :
        gates[releases[r].gate].severity[m] = "blocking" =>
            /\ ~Worse(m, releases[r].metrics[m], gates[releases[r].gate].limits[m])
            /\ releases[r].baseline # << >> =>
                  ~Regressed(m, releases[r].metrics[m], releases[r].baseline[1][m])

\* What is released was measured on the components it was staged for, and a
\* generation is switched to only on a measurement of the components it has
\* now, whenever a component was replaced in between.
JudgedOnItsComponents ==
    /\ \A r \in Released : releases[r].judged = releases[r].binding
    /\ \A g \in ReleaseGens : IsReleasedForGeneration(g) =>
          \E r \in Released : releases[r].generation = g /\ releases[r].judged = manifest[g]

ReleasesSafe == ReleasesTypeOK /\ OneGateInForce /\ ReleasedMeetsItsGate /\ JudgedOnItsComponents

=============================================================================
