------------------------------- MODULE Metering -------------------------------
(***************************************************************************)
(* Local usage meters (app/usage/metering.py): an execution starts a meter *)
(* with a lease, reports growing checkpoints and finalizes it into one     *)
(* usage event and its projection; the maintenance tick abandons the       *)
(* meters whose lease has expired with the figures it read.  The tick      *)
(* reads the expired rows in one transaction, finalizes each in another,  *)
(* so the execution can report, or finish, in between; and the lease is    *)
(* never extended, so it expires under a live execution too.               *)
(***************************************************************************)
EXTENDS Naturals

CONSTANTS
    Scopes,          \* (execution kind, execution, stage, resource) of a meter
    Ticks,           \* maintenance processes
    MaxReading,      \* bound: the figures measured
    MaxCheckpoints,  \* bound: checkpoint_sequence
    TickCrashes      \* bound: ticks that die between two rows

ASSUME MeteringAssumption == MaxReading \in Nat /\ MaxCheckpoints \in Nat

VARIABLES
    meter,      \* local_usage_meter: status, checkpoint_sequence, reading, lease
    running,    \* the executions that are alive
    reported,   \* the last checkpoint each execution was told is stored
    usageEvent, \* the usage_event of a scope: None or its reading
    projected,  \* local_usage_projection: None or its reading
    found,      \* the rows a tick has read and not yet finalized
    tickCrashes

meteringVars == <<meter, running, reported, usageEvent, projected, found, tickCrashes>>

None == MaxReading + 1
Readings == 0 .. MaxReading
NoMeter == [status |-> "none", sequence |-> 0, reading |-> 0, lapsed |-> FALSE]
Terminal == {"completed", "abandoned"}

MeteringInit ==
    /\ meter = [s \in Scopes |-> NoMeter]
    /\ running = {}
    /\ reported = [s \in Scopes |-> 0]
    /\ usageEvent = [s \in Scopes |-> None]
    /\ projected = [s \in Scopes |-> None]
    /\ found = [t \in Ticks |-> {}]
    /\ tickCrashes = 0

\* The first start inserts the meter, a later one is given the row as it is.
StartMeter(s) ==
    /\ s \notin running
    /\ meter[s].status \notin Terminal
    /\ running' = running \cup {s}
    /\ meter' = IF meter[s].status = "none" THEN [meter EXCEPT ![s].status = "running"] ELSE meter
    /\ UNCHANGED <<reported, usageEvent, projected, found, tickCrashes>>

\* No figure may become smaller than the stored one.
Monotonic(s, reading) == reading >= meter[s].reading

Checkpoint(s, reading) ==
    /\ s \in running
    /\ meter[s].status = "running"
    /\ meter[s].sequence < MaxCheckpoints
    /\ Monotonic(s, reading)
    /\ meter' = [meter EXCEPT ![s].sequence = @ + 1, ![s].reading = reading]
    /\ reported' = [reported EXCEPT ![s] = reading]
    /\ UNCHANGED <<running, usageEvent, projected, found, tickCrashes>>

\* One usage event per scope: an event with other figures is a conflict, and
\* the transaction, the meter and the projection with it, is rolled back.
Insertable(s, reading) == usageEvent[s] \in {None, reading}

Finalize(s, reading, status) ==
    /\ meter[s].status = "running"
    /\ Monotonic(s, reading)
    /\ Insertable(s, reading)
    /\ usageEvent' = [usageEvent EXCEPT ![s] = reading]
    /\ projected' = [projected EXCEPT ![s] = reading]
    /\ meter' = [meter EXCEPT ![s].status = status, ![s].sequence = @ + 1, ![s].reading = reading]
    /\ UNCHANGED <<reported, tickCrashes>>

\* The execution finishes, with or without a meter still running.
FinishExecution(s, reading) ==
    /\ s \in running
    /\ \/ Finalize(s, reading, "completed")
       \/ /\ meter[s].status \in Terminal
          /\ UNCHANGED <<meter, usageEvent, projected, reported, tickCrashes>>
    /\ running' = running \ {s}
    /\ UNCHANGED found

CrashExecution(s) ==
    /\ s \in running
    /\ running' = running \ {s}
    /\ UNCHANGED <<meter, reported, usageEvent, projected, found, tickCrashes>>

MeterLapses(s) ==
    /\ meter[s].status = "running"
    /\ ~meter[s].lapsed
    /\ meter' = [meter EXCEPT ![s].lapsed = TRUE]
    /\ UNCHANGED <<running, reported, usageEvent, projected, found, tickCrashes>>

-----------------------------------------------------------------------------
(* The maintenance tick *)

MutantExpiredMeters ==
    {s \in Scopes : meter[s].status = "running" /\ meter[s].lapsed /\ meter[s].sequence > 0}
ExpiredMeters == {s \in Scopes : meter[s].status = "running" /\ meter[s].lapsed}

FindExpired(t) ==
    /\ found[t] = {}
    /\ ExpiredMeters # {}
    /\ found' = [found EXCEPT ![t] = {[scope |-> s, reading |-> meter[s].reading] : s \in ExpiredMeters}]
    /\ UNCHANGED <<meter, running, reported, usageEvent, projected, tickCrashes>>

AbandonRow(t, r) ==
    /\ Finalize(r.scope, r.reading, "abandoned")
    /\ found' = [found EXCEPT ![t] = @ \ {r}]
    /\ UNCHANGED running

\* A meter that ended since it was read is left as it is.
SkipRow(t, r) ==
    /\ meter[r.scope].status \in Terminal
    /\ found' = [found EXCEPT ![t] = @ \ {r}]
    /\ UNCHANGED <<meter, running, reported, usageEvent, projected, tickCrashes>>

\* The figures have grown since the row was read: the error ends the tick.
TickFails(t, r) ==
    /\ meter[r.scope].status = "running"
    /\ ~Monotonic(r.scope, r.reading)
    /\ found' = [found EXCEPT ![t] = {}]
    /\ UNCHANGED <<meter, running, reported, usageEvent, projected, tickCrashes>>

RecoverRow(t) == \E r \in found[t] : AbandonRow(t, r) \/ SkipRow(t, r) \/ TickFails(t, r)

CrashTick(t) ==
    /\ found[t] # {}
    /\ tickCrashes < TickCrashes
    /\ found' = [found EXCEPT ![t] = {}]
    /\ tickCrashes' = tickCrashes + 1
    /\ UNCHANGED <<meter, running, reported, usageEvent, projected>>

MeteringNext ==
    \/ \E s \in Scopes : StartMeter(s) \/ CrashExecution(s) \/ MeterLapses(s)
    \/ \E s \in Scopes, v \in Readings : Checkpoint(s, v) \/ FinishExecution(s, v)
    \/ \E t \in Ticks : FindExpired(t) \/ RecoverRow(t) \/ CrashTick(t)

\* Time passes, and the tick runs again and again.
MeteringFairness ==
    /\ \A s \in Scopes : WF_meteringVars(MeterLapses(s))
    /\ \A t \in Ticks : WF_meteringVars(FindExpired(t)) /\ WF_meteringVars(RecoverRow(t))

MeteringSpec == MeteringInit /\ [][MeteringNext]_meteringVars /\ MeteringFairness

-----------------------------------------------------------------------------
(* Properties *)

MeteringTypeOK ==
    /\ meter \in [Scopes -> [status : {"none", "running"} \cup Terminal, sequence : Nat,
                              reading : Readings, lapsed : BOOLEAN]]
    /\ running \subseteq Scopes
    /\ reported \in [Scopes -> Readings]
    /\ usageEvent \in [Scopes -> Readings \cup {None}]
    /\ projected \in [Scopes -> Readings \cup {None}]
    /\ found \in [Ticks -> SUBSET [scope : Scopes, reading : Readings]]

\* A meter ends in exactly one usage event, whose figures are those of the
\* meter and of the projection.
EventMatches ==
    \A s \in Scopes :
        /\ meter[s].status \in Terminal <=> usageEvent[s] # None
        /\ projected[s] = usageEvent[s]
        /\ usageEvent[s] # None => usageEvent[s] = meter[s].reading

\* A checkpoint an execution was told is stored is never lost: neither the row
\* nor the usage event falls behind it, whoever finalizes the meter.
NothingReportedIsLost ==
    \A s \in Scopes :
        /\ meter[s].reading >= reported[s]
        /\ usageEvent[s] # None => usageEvent[s] >= reported[s]

MeteringSafe == MeteringTypeOK /\ EventMatches /\ NothingReportedIsLost

\* Every meter ends, also when its execution dies, an execution reports while
\* its row is being recovered or a tick dies half way.
MetersEnd == \A s \in Scopes : []<>(meter[s].status # "running")
=============================================================================
