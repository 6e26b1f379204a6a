----------------------------- MODULE Enrichment -----------------------------
(***************************************************************************)
(* One document through the processor (indexing/processing.py and          *)
(* indexing/contextual.py): the parser is tried a few times and replaced   *)
(* by the raw text when it stays away; the chunks that take a context are  *)
(* packed into prefix units; each unit warms its prompt prefix with two    *)
(* calls in sequence and only then asks for the rest in a thread pool; the *)
(* usage of the calls is handed to the ledger unit by unit.  A chunk the   *)
(* provider refuses keeps its raw text, and says so.                       *)
(*                                                                         *)
(* Chunk texts are their token counts; prompts, locators and the summary   *)
(* are left out.                                                           *)
(***************************************************************************)
EXTENDS Naturals, Sequences, FiniteSets, SequencesExt

CONSTANTS
    Inputs,        \* documents: [tokens, section : Seq, bySection, whole : BOOLEAN]
    TokenLimit,    \* CONTEXTUAL_PREFIX_TOKEN_LIMIT
    WarmupCalls,   \* CONTEXTUAL_WARMUP_CALLS
    MaxCalls,      \* CONTEXTUAL_PROVIDER_ATTEMPTS
    Concurrency,   \* threads of the pool
    ParseAttempts  \* MINERU_PROVIDER_ATTEMPTS

ASSUME EnrichmentAssumption ==
    /\ \A in \in Inputs : in.tokens \in Seq(Nat)
    /\ {MaxCalls, Concurrency, ParseAttempts} \subseteq Nat \ {0} /\ {TokenLimit, WarmupCalls} \subseteq Nat

VARIABLES
    input,      \* the document
    plan,       \* its prefix units
    step,       \* where process stands
    parses,     \* parser calls so far
    unit,       \* number of the prefix unit under way
    cacheMode,  \* what the prefix cache said of it
    cached,     \* units recorded as warm in the prefix cache
    calling,    \* chunks with a call under way
    tries,      \* calls made for each chunk
    result,     \* "none", "enhanced", "raw", or "broken" by an unexpected error
    unflushed,  \* facts of the unit not yet handed to the ledger
    recorded    \* facts the ledger has

enrichmentVars == <<input, plan, step, parses, unit, cacheMode, cached, calling,
                    tries, result, unflushed, recorded>>

Targets(in) == DOMAIN in.tokens

\* plan_prefix_units: the whole document if it fits; otherwise chunks in order,
\* packed greedily up to the limit, never across a section when the document
\* has sections or symbols.
Tokens(in, chunks) == FoldLeft(LAMBDA n, c : n + in.tokens[c], 0, chunks)

UnitFits(in, chunks) == Tokens(in, chunks) <= TokenLimit

Packed(in, group) ==
    FoldLeft(LAMBDA units, c :
                IF units # <<>> /\ UnitFits(in, Append(Last(units), c))
                THEN Front(units) \o <<Append(Last(units), c)>>
                ELSE Append(units, <<c>>),
             <<>>, group)

Sections(in) ==
    FoldLeft(LAMBDA groups, c :
                IF groups # <<>> /\ in.section[Last(Last(groups))] = in.section[c]
                THEN Front(groups) \o <<Append(Last(groups), c)>>
                ELSE Append(groups, <<c>>),
             <<>>, [c \in Targets(in) |-> c])

InOrder(in) == [c \in Targets(in) |-> c]

PlanUnits(in) ==
    IF in.whole THEN <<InOrder(in)>>
    ELSE LET groups == IF in.bySection THEN Sections(in) ELSE <<InOrder(in)>>
         IN  FoldLeft(LAMBDA units, g : units \o Packed(in, g), <<>>, groups)

Unit == plan[unit]
Warmups == {Unit[i] : i \in {j \in DOMAIN Unit : j <= WarmupCalls}}
PoolChunks == Range(Unit) \ Warmups

Facts == Targets(input) \X (1..MaxCalls)
Spent == {f \in Facts : f[2] <= tries[f[1]]}

EnrichmentTypeOK ==
    /\ input \in Inputs
    /\ step \in {"parse", "units", "warm", "pool", "flush", "receipt", "done", "failed"}
    /\ parses \in 0..ParseAttempts
    /\ unit \in 0..Len(plan)
    /\ cacheMode \in {"none", "warm", "ready", "no-cache"}
    /\ cached \subseteq DOMAIN plan
    /\ calling \subseteq Targets(input)
    /\ tries \in [Targets(input) -> 0..MaxCalls]
    /\ result \in [Targets(input) -> {"none", "enhanced", "raw", "broken"}]
    /\ unflushed \subseteq Facts /\ recorded \subseteq Facts

EnrichmentInit ==
    /\ input \in Inputs
    /\ plan = PlanUnits(input)
    /\ step = "parse" /\ parses = 0 /\ unit = 0 /\ cacheMode = "none"
    /\ cached \in {{}, DOMAIN plan}
    /\ calling = {}
    /\ tries = [c \in Targets(input) |-> 0]
    /\ result = [c \in Targets(input) |-> "none"]
    /\ unflushed = {} /\ recorded = {}

-----------------------------------------------------------------------------
NoCalls == UNCHANGED <<calling, tries, result, unflushed>>

\* A failed parse is tried again; after the last attempt the raw bytes are
\* taken instead, and no chunk of that text is given a context.
Parse ==
    /\ step = "parse"
    /\ \/ /\ parses' = parses /\ step' = "units" /\ UNCHANGED result
       \/ /\ parses' = parses + 1 /\ parses' < ParseAttempts
          /\ UNCHANGED <<step, result>>
       \/ /\ parses' = parses + 1 /\ parses' = ParseAttempts
          /\ step' = "receipt" /\ result' = [c \in Targets(input) |-> "raw"]
       \/ /\ parses' = parses + 1 /\ step' = "failed" /\ UNCHANGED result
    /\ UNCHANGED <<input, plan, unit, cacheMode, cached, calling, tries, unflushed, recorded>>

\* begin_prefix: the cache knows the prefix, does not, or is away.
BeginUnit ==
    /\ step = "units" /\ unit < Len(plan)
    /\ unit' = unit + 1
    /\ cacheMode' \in {IF unit' \in cached THEN "ready" ELSE "warm", "no-cache"}
    /\ step' = "warm"
    /\ UNCHANGED <<input, plan, parses, cached, recorded>> /\ NoCalls

EndUnits ==
    /\ step = "units" /\ unit = Len(plan)
    /\ step' = "receipt"
    /\ UNCHANGED <<input, plan, parses, unit, cacheMode, cached, recorded>> /\ NoCalls

\* The next call of a warm-up: one at a time, in order, while all succeed.
WarmupDue(c) ==
    /\ step = "warm" /\ calling = {} /\ c \in Warmups /\ result[c] = "none"
    /\ \A d \in Warmups : d < c => result[d] = "enhanced"

PoolHasRoom == Cardinality(calling) < Concurrency

PoolDue(c) == step = "pool" /\ c \in PoolChunks /\ result[c] = "none" /\ c \notin calling /\ PoolHasRoom

StartCall(c) ==
    /\ WarmupDue(c) \/ PoolDue(c)
    /\ calling' = calling \union {c}
    /\ tries' = [tries EXCEPT ![c] = 1]
    /\ UNCHANGED <<input, plan, step, parses, unit, cacheMode, cached, result, unflushed, recorded>>

\* Every answer of the provider is one fact of usage.
Fact(c) == <<c, tries[c]>>

Answer(c, outcome) ==
    /\ result' = [result EXCEPT ![c] = outcome]
    /\ calling' = calling \ {c}
    /\ unflushed' = unflushed \union {Fact(c)}
    /\ UNCHANGED tries

CallSucceeds(c) == Answer(c, "enhanced")

CallRejected(c) == Answer(c, "raw")

MayRetry(c) == tries[c] < MaxCalls

CallUnavailable(c) ==
    \/ ~MayRetry(c) /\ Answer(c, "raw")
    \/ /\ MayRetry(c)
       /\ tries' = [tries EXCEPT ![c] = @ + 1]
       /\ unflushed' = unflushed \union {Fact(c)}
       /\ UNCHANGED <<calling, result>>

\* An error the service does not expect leaves the call without a fact.
CallBreaks(c) ==
    /\ result' = [result EXCEPT ![c] = "broken"]
    /\ calling' = calling \ {c}
    /\ UNCHANGED <<tries, unflushed>>

EndCall(c) ==
    /\ c \in calling
    /\ CallSucceeds(c) \/ CallRejected(c) \/ CallUnavailable(c) \/ CallBreaks(c)
    /\ UNCHANGED <<input, plan, step, parses, unit, cacheMode, cached, recorded>>

\* After the warm-ups: the pool if they all succeeded, otherwise every chunk
\* left of the unit keeps its raw text without a call.
WarmedUp == \A c \in Warmups : result[c] = "enhanced"

Warmable == Cardinality(Warmups) = WarmupCalls /\ cacheMode # "no-cache"

EndWarmup ==
    /\ step = "warm" /\ calling = {}
    /\ \A c \in Range(Unit) : result[c] # "broken"
    /\ \/ /\ WarmedUp
          /\ cached' = IF Warmable THEN cached \union {unit} ELSE cached
          /\ step' = "pool" /\ UNCHANGED result
       \/ /\ ~WarmedUp /\ \E c \in Warmups : result[c] = "raw"
          /\ result' = [c \in Targets(input) |->
                           IF c \in Range(Unit) /\ result[c] = "none" THEN "raw" ELSE result[c]]
          /\ step' = "flush" /\ UNCHANGED cached
    /\ UNCHANGED <<input, plan, parses, unit, cacheMode, calling, tries, unflushed, recorded>>

Returned(c) == result[c] # "none"

EndPool ==
    /\ step = "pool" /\ calling = {}
    /\ \A c \in PoolChunks : Returned(c)
    /\ step' = IF \A c \in PoolChunks : result[c] # "broken" THEN "flush" ELSE "failed"
    /\ UNCHANGED <<input, plan, parses, unit, cacheMode, cached, recorded>> /\ NoCalls

WarmupBreaks ==
    /\ step = "warm" /\ calling = {} /\ \E c \in Warmups : result[c] = "broken"
    /\ step' = "failed"
    /\ UNCHANGED <<input, plan, parses, unit, cacheMode, cached, recorded>> /\ NoCalls

\* The facts of the unit go to the ledger one by one; the first that is
\* refused fails the document, and those behind it are lost.
AllRecorded == recorded \union unflushed

FlushUsage ==
    /\ step = "flush"
    /\ unflushed' = {}
    /\ \/ /\ recorded' = AllRecorded /\ step' = "units"
       \/ /\ step' = "failed"
          /\ \E some \in SUBSET unflushed :
                some # unflushed /\ recorded' = recorded \union some
    /\ UNCHANGED <<input, plan, parses, unit, cacheMode, cached, calling, tries, result>>

\* The receipt is checked and the local usage submitted; either may fail.
Finish ==
    /\ step = "receipt"
    /\ step' \in {"done", "failed"}
    /\ UNCHANGED <<input, plan, parses, unit, cacheMode, cached, recorded>> /\ NoCalls

EnrichmentNext ==
    \/ Parse \/ BeginUnit \/ EndUnits
    \/ \E c \in Targets(input) : StartCall(c) \/ EndCall(c)
    \/ EndWarmup \/ EndPool \/ WarmupBreaks \/ FlushUsage \/ Finish

EnrichmentSpec ==
    EnrichmentInit /\ [][EnrichmentNext]_enrichmentVars /\ WF_enrichmentVars(EnrichmentNext)

-----------------------------------------------------------------------------
\* The prefix units hold every target once, in order; a unit over the limit is
\* a single chunk (its prefix is then cut), and with sections no unit crosses one.
HoldsAllInOrder(in, units) ==
    /\ units \in Seq(Seq(Targets(in)))
    /\ \A u \in DOMAIN units : \A i \in DOMAIN units[u] : units[u][i] = units[u][1] + i - 1
    /\ \A u, v \in DOMAIN units : u < v => \A c \in Range(units[u]), d \in Range(units[v]) : c < d
    /\ Targets(in) = UNION {Range(units[u]) : u \in DOMAIN units}

InSections(in, units) ==
    in.bySection => \A u \in DOMAIN units : \A c, d \in Range(units[u]) : in.section[c] = in.section[d]

SoundPlan(in, units) ==
    /\ HoldsAllInOrder(in, units)
    /\ in.whole \/ \A u \in DOMAIN units : UnitFits(in, units[u]) \/ Len(units[u]) = 1
    /\ in.whole \/ InSections(in, units)

PlanIsSound == step = "parse" => SoundPlan(input, plan)

\* No call of the pool is made before every warm-up of its unit succeeded, and
\* the cache records a prefix as warm only then.
PoolAfterWarmup ==
    /\ \A u \in DOMAIN plan :
          (\E j \in DOMAIN plan[u] : j > WarmupCalls /\ tries[plan[u][j]] > 0)
              => \A i \in DOMAIN plan[u] : i <= WarmupCalls => result[plan[u][i]] = "enhanced"
    /\ Cardinality(calling) <= Concurrency

\* The ledger hears of no call that was not made, and of every call the
\* processor made, failed ones included, when the document is done.
UsageIsComplete ==
    /\ recorded \union unflushed \subseteq Spent
    /\ step = "done" => recorded = Spent

\* A finished document has every target enhanced or explicitly raw.
EveryTargetResolved ==
    step = "done" => \A c \in Targets(input) : result[c] \in {"enhanced", "raw"}

EnrichmentSafe ==
    /\ EnrichmentTypeOK /\ PlanIsSound /\ PoolAfterWarmup
    /\ UsageIsComplete /\ EveryTargetResolved

\* Where processing ends, however the parser, the provider and the ledger
\* answer: EnrichmentSpec has []<>ProcessingEnded
ProcessingEnded == step \in {"done", "failed"}
=============================================================================
