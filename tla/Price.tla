-------------------------------- MODULE Price --------------------------------
(***************************************************************************)
(* The price catalog of one provider scope (PriceCatalogService) and the   *)
(* ledger's use of it: a call is dispatched under the lock of the price    *)
(* version that covers its send time (UsageLedger.mark_dispatching) and    *)
(* priced again, much later, when its usage is completed (_complete_usage).*)
(*                                                                         *)
(* A dispatch takes several steps, because its send time is sampled again  *)
(* after each wait for a lock.  Registering and closing versions locks the *)
(* scope, then the version: with both locks held it is one step.           *)
(***************************************************************************)
EXTENDS Integers, Sequences

CONSTANTS
    PriceCalls,         \* provider calls
    PriceTimes,         \* bound: instants
    PriceVersions,      \* bound: versions that are registered
    PriceDeadline,      \* deadline of every call
    PriceGranularity,   \* billing_granularity of a line
    PriceMinimum,       \* minimum_billable_quantity of a line
    PriceQuantities     \* what a call may have consumed of a meter

ASSUME PriceAssumption ==
    /\ PriceTimes \in Nat /\ PriceVersions \in Nat
    /\ PriceGranularity \in Nat \ {0} /\ PriceMinimum \in Nat
    /\ PriceQuantities \subseteq Nat

VARIABLES
    pnow,       \* the clock
    pversions,  \* price_catalog: versions in the order of effective_from
    pcalls      \* provider_call and its usage_event, with the locks of its dispatch

priceVars == <<pnow, pversions, pcalls>>

Open == 0       \* effective_to_utc is null
Instants == 1..PriceTimes
VersionIds == 1..Len(pversions)
Meters == {"input", "output"}

\* under is not stored: it remembers the version a call was sent under
NewCall == [status |-> "prepared", sample |-> 0, locks |-> {}, started |-> 0, under |-> 0,
            version |-> 0, amount |-> 0, cost |-> "none", used |-> [m \in Meters |-> 0]]

Covers(version, at) == version.from <= at /\ (version.to = Open \/ at < version.to)
\* select_for: the latest version that covers the instant
Selected(at) == {v \in VersionIds : /\ Covers(pversions[v], at)
                                    /\ \A w \in VersionIds : Covers(pversions[w], at) => w <= v}

RowFree(v, c) == \A other \in PriceCalls \ {c} : v \notin pcalls[other].locks
NobodyLocks(v) == \A c \in PriceCalls : v \notin pcalls[c].locks

Set(c, call) == pcalls' = [pcalls EXCEPT ![c] = call]

-----------------------------------------------------------------------------
(* PriceCatalogService *)

\* _reject_pending_dispatches
PendingFrom(at) == \E c \in PriceCalls :
    pcalls[c].status \in {"dispatching", "unknown"} /\ pcalls[c].started >= at
\* _reject_retroactive_close
UsedFrom(v, at) == \E c \in PriceCalls :
    pcalls[c].status = "completed" /\ pcalls[c].version = v /\ pcalls[c].started >= at

\* register: the first version of a scope, or the successor of the latest one,
\* which it closes at its own start
MutantMaySucceed(v, from) ==        \* calls still under way are not looked at
    /\ NobodyLocks(v)
    /\ ~UsedFrom(v, from)
    /\ IF pversions[v].to = Open THEN from > pversions[v].from ELSE from >= pversions[v].to
MaySucceed(v, from) ==
    /\ NobodyLocks(v)
    /\ ~UsedFrom(v, from)
    /\ IF pversions[v].to = Open THEN from > pversions[v].from /\ ~PendingFrom(from)
       ELSE from >= pversions[v].to
Register(from) ==
    /\ Len(pversions) < PriceVersions
    /\ LET last == Len(pversions)
           new  == [from |-> from, to |-> Open]
       IN  \/ last = 0 /\ pversions' = <<new>>
           \/ /\ last > 0 /\ MaySucceed(last, from)
              /\ pversions' = Append([pversions EXCEPT ![last].to = IF @ = Open THEN from ELSE @], new)
    /\ UNCHANGED <<pnow, pcalls>>

\* close_version: only a version no usage refers to
CloseVersion(v, to) ==
    /\ pversions[v].to = Open /\ to > pversions[v].from
    /\ NobodyLocks(v)
    /\ ~\E c \in PriceCalls : pcalls[c].status = "completed" /\ pcalls[c].version = v
    /\ ~PendingFrom(to)
    /\ pversions' = [pversions EXCEPT ![v].to = to]
    /\ UNCHANGED <<pnow, pcalls>>

\* estimate_cost: blocks of the granularity, rounded up, at least the minimum;
\* nothing consumed costs nothing, what is not known is never taken for zero
Ceiling(n, d) == (n + d - 1) \div d
LineTotal(rate, quantity) ==
    IF quantity = 0 THEN 0
    ELSE rate * Ceiling(IF quantity < PriceMinimum THEN PriceMinimum ELSE quantity, PriceGranularity)
CostStatusOf(availability) ==
    CASE \A m \in Meters : availability[m] = "unavailable" -> "unavailable"
      [] \A m \in Meters : availability[m] = "complete"    -> "complete"
      [] OTHER                                             -> "partial"
EstimateCost(rate, used, availability) ==
    LET Line(m) == IF availability[m] = "unavailable" THEN 0 ELSE LineTotal(rate, used[m])
    IN  Line("input") + Line("output")

-----------------------------------------------------------------------------
(* UsageLedger *)

NotSent(c) == Set(c, [pcalls[c] EXCEPT !.status = "not_sent", !.locks = {}])

\* mark_dispatching: sample the send time and lock the version that covers it;
\* with none the call stays prepared
LockPrice(c) ==
    /\ pcalls[c].status = "prepared"
    /\ LET at == IF pcalls[c].locks = {} THEN pnow ELSE pcalls[c].sample
       IN  IF at >= PriceDeadline THEN NotSent(c)
           ELSE \E v \in Selected(at) :
                   /\ RowFree(v, c)
                   /\ v \notin pcalls[c].locks
                   /\ Set(c, [pcalls[c] EXCEPT !.locks = @ \cup {v}, !.sample = at])
    /\ UNCHANGED <<pnow, pversions>>

\* Sampled again with the lock: still in the version, and the call is sent; in
\* another, and that one is locked too; past the deadline, and it is not sent
Dispatch(c) ==
    /\ pcalls[c].status = "prepared" /\ pcalls[c].locks # {}
    /\ IF pnow >= PriceDeadline THEN NotSent(c)
       ELSE LET held == {v \in pcalls[c].locks : /\ v \in Selected(pcalls[c].sample)
                                                 /\ Covers(pversions[v], pnow)}
            IN  \/ \E v \in held : Set(c, [pcalls[c] EXCEPT !.status = "dispatching", !.locks = {},
                                                 !.started = pnow, !.under = v])
                \/ held = {} /\ pcalls[c].sample # pnow /\ Set(c, [pcalls[c] EXCEPT !.sample = pnow])
    /\ UNCHANGED <<pnow, pversions>>

\* The transaction fails (no price, eight samples, a lost connection)
DispatchFails(c) ==
    /\ pcalls[c].status = "prepared" /\ pcalls[c].locks # {}
    /\ Set(c, [pcalls[c] EXCEPT !.locks = {}])
    /\ UNCHANGED <<pnow, pversions>>

\* _complete_usage, directly or when an unknown call is reconciled: priced at
\* the persisted send time
CompleteUsage(c, used, availability) ==
    /\ pcalls[c].status \in {"dispatching", "unknown"}
    /\ \E v \in Selected(pcalls[c].started) :
          /\ NobodyLocks(v)
          /\ Set(c, [pcalls[c] EXCEPT !.status = "completed", !.version = v, !.used = used,
                        !.amount = EstimateCost(v, used, availability),
                        !.cost = CostStatusOf(availability)])
    /\ UNCHANGED <<pnow, pversions>>

\* mark_unknown, or the reconciliation that finds it was not sent
MarkUnsure(c) ==
    /\ \/ pcalls[c].status = "dispatching" /\ Set(c, [pcalls[c] EXCEPT !.status = "unknown"])
       \/ pcalls[c].status = "unknown" /\ NotSent(c)
    /\ UNCHANGED <<pnow, pversions>>

PriceTick ==
    /\ pnow < PriceTimes
    /\ pnow' = pnow + 1
    /\ UNCHANGED <<pversions, pcalls>>

PriceInit ==
    /\ pnow = 1
    /\ pversions = << >>
    /\ pcalls = [c \in PriceCalls |-> NewCall]

PriceNext ==
    \/ PriceTick
    \/ \E at \in Instants : Register(at) \/ \E v \in VersionIds : CloseVersion(v, at)
    \/ \E c \in PriceCalls :
          \/ LockPrice(c) \/ Dispatch(c) \/ DispatchFails(c) \/ MarkUnsure(c)
          \/ \E used \in [Meters -> PriceQuantities],
                availability \in [Meters -> {"complete", "unavailable"}] :
                CompleteUsage(c, used, availability)

PriceSpec == PriceInit /\ [][PriceNext]_priceVars

-----------------------------------------------------------------------------
(* Properties *)

\* However versions are registered, back-dated, scheduled and closed while
\* calls are being sent, their intervals are disjoint and only the last is open.
PriceIntervals ==
    \A v \in VersionIds :
        /\ pversions[v].to # Open => pversions[v].from < pversions[v].to
        /\ v < Len(pversions) => /\ pversions[v].to # Open
                                 /\ pversions[v].to <= pversions[v + 1].from

\* A call is charged at the price it was sent under: the version it locked is
\* the one selected for its send time until it is completed, however long its
\* result stays unknown, and ever after (ledger.py:1290, price.py:857).
PriceBound ==
    \A c \in PriceCalls :
        /\ pcalls[c].status \in {"dispatching", "unknown", "completed"} =>
              Selected(pcalls[c].started) = {pcalls[c].under}
        /\ pcalls[c].status = "completed" => pcalls[c].version = pcalls[c].under

\* A charge never falls below the consumption it is for, and only a call none
\* of whose meters is known goes without an amount (price.py:estimate_cost).
PriceCharges ==
    \A c \in PriceCalls : pcalls[c].status = "completed" /\ pcalls[c].cost = "complete" =>
        /\ pcalls[c].amount * PriceGranularity
             >= pcalls[c].version * (pcalls[c].used["input"] + pcalls[c].used["output"])
        /\ (pcalls[c].amount = 0) <=> (\A m \in Meters : pcalls[c].used[m] = 0)

PriceSafe == PriceIntervals /\ PriceBound /\ PriceCharges

=============================================================================
