------------------------------- MODULE Circuit -------------------------------
(***************************************************************************)
(* The circuit breaker of one provider operation (CircuitBreakerRegistry)  *)
(* and the calls that go through it (call_with_policy) in the threads of   *)
(* one process.  A call asks once to be allowed and reports once, whatever *)
(* its retries: its attempts are abstracted to how it ends.  Each registry *)
(* method holds the lock and is one action; a timestamp is sampled before  *)
(* the lock is taken and may be stale by then.                             *)
(*                                                                         *)
(* Times are kept as ages in ticks.  A thread stalls at most Stall ticks   *)
(* between its sample and the lock, so the age of an open circuit need not *)
(* be counted beyond OpenTicks + Stall.                                    *)
(***************************************************************************)
EXTENDS Integers

CONSTANTS
    Calls,          \* slots for concurrent calls; a slot is used again and again
    NoCall,         \* half_open_probe_owner of a circuit without a probe
    Threshold,      \* CircuitBreakerRegistry.threshold
    OpenTicks,      \* CircuitBreakerRegistry.open_seconds
    Stall           \* bound on the age of a sampled timestamp

ASSUME CircuitAssumption ==
    /\ NoCall \notin Calls
    /\ Threshold \in Nat \ {0} /\ OpenTicks \in Nat \ {0} /\ Stall \in Nat

VARIABLES
    circuit,    \* the _Circuit: failures, open (opened_at is set), age, owner
    call        \* each call: pc, age of its last sample, half_open_probe

vars == <<circuit, call>>

Closed == [failures |-> 0, open |-> FALSE, age |-> 0, owner |-> NoCall]
Idle   == [pc |-> "idle", age |-> 0, probe |-> FALSE]

AtMost(n, bound) == IF n > bound THEN bound ELSE n

-----------------------------------------------------------------------------
(* The registry, called with the token of c *)

\* Another call's probe is in flight
MutantProbeOfAnother(c) == FALSE    \* a late result is taken for the probe's own
ProbeOfAnother(c) == circuit.owner \notin {NoCall, c}

Cooled(c) == circuit.age - call[c].age >= OpenTicks

\* allow
Rejects(c) == circuit.open /\ (~Cooled(c) \/ circuit.owner # NoCall)
MutantAcquire(c) == UNCHANGED circuit   \* the probe is not recorded
Acquire(c) == circuit' = IF circuit.open THEN [circuit EXCEPT !.owner = c] ELSE circuit

Success(c) == circuit' = IF ProbeOfAnother(c) THEN circuit ELSE Closed

Failure(c) ==
    LET failures == AtMost(circuit.failures + 1, Threshold)
        counted  == [circuit EXCEPT !.failures = failures, !.owner = NoCall]
    IN  circuit' = IF ProbeOfAnother(c) THEN circuit
                   ELSE IF failures = Threshold
                   THEN [counted EXCEPT !.open = TRUE, !.age = call[c].age]
                   ELSE counted

\* _release_probe_owned_by_token
Release(c) == circuit' = IF circuit.owner = c THEN [circuit EXCEPT !.owner = NoCall] ELSE circuit

-----------------------------------------------------------------------------
(* A call *)

Goto(c, pc) == call' = [call EXCEPT ![c].pc = pc, ![c].age = 0]
Return(c)   == call' = [call EXCEPT ![c] = Idle]

\* Samples the time it will ask with
Start(c) ==
    /\ call[c].pc = "idle"
    /\ Goto(c, "starting")
    /\ UNCHANGED circuit

\* Circuit open: the call is refused
Refused(c) ==
    /\ call[c].pc = "starting"
    /\ Rejects(c)
    /\ Return(c)
    /\ UNCHANGED circuit

Allowed(c) ==
    /\ call[c].pc = "starting"
    /\ ~Rejects(c)
    /\ Acquire(c)
    /\ call' = [call EXCEPT ![c] = [pc |-> "allowed", age |-> 0, probe |-> circuit.open]]

\* The local half_open_probe is set and the attempts begin
HandOff(c) ==
    /\ call[c].pc = "allowed"
    /\ Goto(c, "running")
    /\ UNCHANGED circuit

\* An exception between allow and the hand-off: the inner finally releases
HandOffFails(c) ==
    /\ call[c].pc = "allowed"
    /\ Release(c)
    /\ Return(c)

\* The attempts end: in time, with a failure that counts, or neutrally
Outcome(c) ==
    /\ call[c].pc = "running"
    /\ \E pc \in {"succeeding", "failing", "cleanup"} : Goto(c, pc)
    /\ UNCHANGED circuit

\* complete_with_success and complete_with_failure; an exception after the
\* registry method leaves probe_completed unset
Report(c) ==
    /\ \/ call[c].pc = "succeeding" /\ Success(c)
       \/ call[c].pc = "failing" /\ Failure(c)
    /\ Return(c) \/ Goto(c, "cleanup")

\* An exception before the registry method
ReportFails(c) ==
    /\ call[c].pc \in {"succeeding", "failing"}
    /\ Goto(c, "cleanup")
    /\ UNCHANGED circuit

\* The outer finally: abort_probe
Cleanup(c) ==
    /\ call[c].pc = "cleanup"
    /\ IF call[c].probe THEN Release(c) ELSE UNCHANGED circuit
    /\ Return(c)

Tick ==
    /\ \A c \in Calls : call[c].pc \in {"starting", "failing"} => call[c].age < Stall
    /\ circuit' = [circuit EXCEPT
                      !.age = IF circuit.open THEN AtMost(@ + 1, OpenTicks + Stall) ELSE @]
    /\ call' = [c \in Calls |->
                   IF call[c].pc \in {"starting", "failing"}
                   THEN [call[c] EXCEPT !.age = @ + 1] ELSE call[c]]

-----------------------------------------------------------------------------

Init == circuit = Closed /\ call = [c \in Calls |-> Idle]

CallStep(c) ==
    \/ Start(c) \/ Refused(c) \/ Allowed(c) \/ HandOff(c) \/ HandOffFails(c)
    \/ Outcome(c) \/ Report(c) \/ ReportFails(c) \/ Cleanup(c)

Next == Tick \/ \E c \in Calls : CallStep(c)

Spec == Init /\ [][Next]_vars

(* Time passes, transports stop at their deadline (ProviderPort.call) and   *)
(* calls keep being made                                                    *)
Fairness == WF_vars(Tick) /\ \A c \in Calls : WF_vars(CallStep(c))

FairSpec == Spec /\ Fairness

-----------------------------------------------------------------------------
(* Properties *)

Active == {"allowed", "running", "succeeding", "failing"}

\* Counters, ages and owner stay in range: failures saturate at the threshold
\* and a sampled time is never staler than assumed (_Circuit)
TypeOK ==
    /\ circuit \in [failures : 0..Threshold, open : BOOLEAN,
                    age : 0..(OpenTicks + Stall), owner : Calls \cup {NoCall}]
    /\ call \in [Calls -> [pc : Active \cup {"idle", "starting", "cleanup"},
                           age : 0..Stall, probe : BOOLEAN]]

\* The circuit names a probe exactly while that call is under way: at most one
\* call probes, only an open circuit is probed, and no call that is gone leaves
\* a probe behind (half_open_probe_owner)
ProbeExclusive ==
    /\ \A c \in Calls :
          /\ call[c].probe /\ call[c].pc \in Active => circuit.owner = c
          /\ circuit.owner = c => call[c].probe /\ call[c].pc \in Active \cup {"cleanup"}
    /\ circuit.owner # NoCall => circuit.open

\* While a probe is under way nobody else's late result changes the circuit
\* (success, failure)
ByItsProbe ==
    circuit.owner # NoCall /\ [circuit' EXCEPT !.age = 0] # [circuit EXCEPT !.age = 0]
        => call'[circuit.owner] # call[circuit.owner]
ProbeDecides == [][ByItsProbe]_vars

\* An open circuit is never locked: a probe comes again and again or it closes,
\* and every probe ends, however it ends (allow, abort_probe)
NeverLocked ==
    /\ []<>(~circuit.open \/ circuit.owner # NoCall)
    /\ []<>(circuit.owner = NoCall)

=============================================================================
