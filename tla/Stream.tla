------------------------------- MODULE Stream -------------------------------
(***************************************************************************)
(* The event stream of one generation (GenerationStreamService): clients   *)
(* that break off and reconnect with the id of the last event they         *)
(* received, the subscription leases of their streams (leases.py), and the *)
(* reaper that stops a generation nobody listens to any more               *)
(* (_reap_disconnect_grace).                                               *)
(*                                                                         *)
(* The generation itself is only what the streams see of it: its status,   *)
(* its log of events and its disconnect deadline.  A stream is the         *)
(* coroutine in the server; its client may be gone before it notices.      *)
(***************************************************************************)
EXTENDS Naturals, Sequences, FiniteSets

CONSTANTS
    Streams,    \* bound: the streams ever opened
    Clients,    \* who opens them
    MaxEvents,  \* bound: events after which only the last one and clicks come
    MaxClicks   \* bound: citation clicks

VARIABLES
    life,       \* chat_generation.status: running, stop_requested, ended or deleted
    events,     \* chat_generation_event rows, in event_seq order
    deadline,   \* disconnect_deadline_at_utc: none, in the future (armed) or over
    stream,     \* the coroutines: pc, client, whether it still listens, position, batch
    leases,     \* chat_subscription_lease rows by stream: none, live or expired
    received,   \* by client, the id of the last event it received
    reaper      \* the maintenance pass: idle, or what it has read

streamVars == <<life, events, deadline, stream, leases, received, reaper>>

Unfinished == {"running", "stop_requested"}
NoStream == [pc |-> "none", client |-> "none", online |-> FALSE, at |-> 0, batch |-> {}]
\* what is left to know of a stream that no longer reads
Away(s, pc) == [NoStream EXCEPT !.pc = pc, !.client = stream[s].client]
Leaving == {"leaving", "last", "leaves"}
Held == {s \in Streams : leases[s] # "none"}
StreamOf(c) == {s \in Streams : stream[s].pc = "streaming" /\ stream[s].client = c /\ stream[s].online}

\* list_events_after: citation clicks share the log and are no stream events
StreamEvent(n) == events[n] # "click"
EventsAfter(n) == {i \in DOMAIN events : i > n /\ StreamEvent(i) /\ life # "deleted"}

-----------------------------------------------------------------------------
(* A stream *)

\* _open: the lease, the deadline cleared, and the replay, in one transaction
Open(s, c) ==
    /\ stream[s].pc = "none" /\ StreamOf(c) = {} /\ life # "deleted"
    /\ leases' = [leases EXCEPT ![s] = "live"]
    /\ deadline' = "none"
    /\ stream' = [stream EXCEPT ![s] = [pc |-> "streaming", client |-> c, online |-> TRUE,
                                        at |-> received[c], batch |-> EventsAfter(received[c])]]
    /\ UNCHANGED <<life, events, received, reaper>>

\* The events of a batch are written out by their numbers; after a batch that
\* ends in the terminal event the stream is over
Deliver(s) ==
    /\ stream[s].pc = "streaming" /\ stream[s].online
    /\ \E n \in stream[s].batch :
          LET rest == stream[s].batch \ {n} IN
          /\ \A m \in rest : n < m
          /\ received' = [received EXCEPT ![stream[s].client] = n]
          /\ stream' = [stream EXCEPT ![s] =
                           IF rest = {} /\ events[n] = "end"
                           THEN Away(s, "leaving") ELSE [@ EXCEPT !.at = n, !.batch = rest]]
    /\ UNCHANGED <<life, events, deadline, leases, reaper>>

\* _read_events, once the batch before is written out
Poll(s) ==
    /\ stream[s].pc = "streaming" /\ stream[s].batch = {}
    /\ stream' = [stream EXCEPT ![s].batch = EventsAfter(stream[s].at)]
    /\ UNCHANGED <<life, events, deadline, leases, received, reaper>>

\* The heartbeat: a lease that is gone or over is not renewed and ends the stream
Refused(s) ==
    /\ stream[s].pc = "streaming" /\ stream[s].batch = {} /\ leases[s] # "live"
    /\ stream' = [stream EXCEPT ![s] = Away(s, "leaving")]
    /\ UNCHANGED <<life, events, deadline, leases, received, reaper>>

\* The connection breaks; the server learns of it some time later and cancels
Break(s) ==
    /\ stream[s].pc = "streaming" /\ stream[s].online
    /\ stream' = [stream EXCEPT ![s].online = FALSE]
    /\ UNCHANGED <<life, events, deadline, leases, received, reaper>>
Cancel(s) ==
    /\ stream[s].pc = "streaming" /\ ~stream[s].online
    /\ stream' = [stream EXCEPT ![s] = Away(s, "leaving")]
    /\ UNCHANGED <<life, events, deadline, leases, received, reaper>>

\* invalidate_lease: the row is deleted and the rows that are left are counted,
\* expired ones too.  Another stream that is leaving sees this row until ...
LeaveCounts(s) ==
    /\ stream[s].pc = "leaving" /\ leases[s] # "none"
    /\ stream' = [stream EXCEPT ![s].pc = IF Held = {s} THEN "last" ELSE "leaves"]
    /\ UNCHANGED <<life, events, deadline, leases, received, reaper>>
LeaveFindsNothing(s) ==
    /\ stream[s].pc = "leaving" /\ leases[s] = "none"
    /\ stream' = [stream EXCEPT ![s] = [NoStream EXCEPT !.pc = "gone"]]
    /\ UNCHANGED <<life, events, deadline, leases, received, reaper>>
\* ... the transaction commits; the last one arms the deadline of a generation
\* that has not ended, whoever has subscribed since
Arms(s) == stream[s].pc = "last" /\ life \in Unfinished
LeaveCommits(s) ==
    /\ stream[s].pc \in {"last", "leaves"}
    /\ leases' = [leases EXCEPT ![s] = "none"]
    /\ deadline' = IF Arms(s) THEN "armed" ELSE deadline
    /\ stream' = [stream EXCEPT ![s] = [NoStream EXCEPT !.pc = "gone"]]
    /\ UNCHANGED <<life, events, received, reaper>>

\* The server dies, or a request is cancelled while its thread is still in
\* _open: the row stays, and nobody will renew or delete it
StreamDies(s) ==
    /\ stream[s].pc \in {"streaming"} \cup Leaving
    /\ stream' = [stream EXCEPT ![s] = Away(s, "dead")]
    /\ UNCHANGED <<life, events, deadline, leases, received, reaper>>

-----------------------------------------------------------------------------
(* Time.  A pass of the reaper reads the clock once: what is armed or lapses  *)
(* during the pass does so after its now                                      *)

LeaseLapses(s) ==
    /\ leases[s] = "live" /\ reaper = "idle"
    /\ leases' = [leases EXCEPT ![s] = "expired"]
    /\ UNCHANGED <<life, events, deadline, stream, received, reaper>>
GracePasses ==
    /\ deadline = "armed" /\ reaper = "idle"
    /\ deadline' = "over"
    /\ UNCHANGED <<life, events, stream, leases, received, reaper>>

-----------------------------------------------------------------------------
(* The reaper: _reap_disconnect_grace *)

Live == \E s \in Streams : leases[s] = "live"

\* The candidates are read, then whether the generation has an active lease
MutantFindsLease == FALSE                       \* the rows are not looked at
FindsLease == Live
ScanGrace ==
    /\ reaper = "idle" /\ life = "running" /\ deadline = "over"
    /\ reaper' = IF FindsLease THEN "disarming" ELSE "locking"
    /\ UNCHANGED <<life, events, deadline, stream, leases, received>>
\* The deadline is cleared whatever it is by now
DisarmGrace ==
    /\ reaper = "disarming"
    /\ reaper' = "idle"
    /\ deadline' = "none"
    /\ UNCHANGED <<life, events, stream, leases, received>>
\* With the rows locked the deadline is read again, and must still be over
StillOver == deadline = "over"
Reap ==
    /\ reaper = "locking"
    /\ reaper' = "idle"
    /\ IF life = "running" /\ StillOver
       THEN life' = "ended" /\ events' = events \o <<"progress", "end">>
       ELSE UNCHANGED <<life, events>>
    /\ UNCHANGED <<deadline, stream, leases, received>>

-----------------------------------------------------------------------------
(* The generation *)

\* append_event by the worker, a stop or a choice; record_citation_click also
\* after the end
Log(kind) == events' = events \o <<kind>>
Progress ==
    /\ life \in Unfinished /\ Len(events) < MaxEvents
    /\ Log("progress")
    /\ UNCHANGED <<life, deadline, stream, leases, received, reaper>>
Click ==
    /\ life # "deleted" /\ Cardinality({n \in DOMAIN events : ~StreamEvent(n)}) < MaxClicks
    /\ Log("click")
    /\ UNCHANGED <<life, deadline, stream, leases, received, reaper>>
RequestStop ==
    /\ life = "running"
    /\ life' = "stop_requested"
    /\ UNCHANGED <<events, deadline, stream, leases, received, reaper>>
Finish ==
    /\ life \in Unfinished
    /\ life' = "ended" /\ Log("end")
    /\ UNCHANGED <<deadline, stream, leases, received, reaper>>

\* apply_revocation_effects: leases go without arming anything.  They are those of a
\* session, or of all the user's
Revoke(clients) ==
    /\ life # "deleted"
    /\ leases' = [s \in Streams |-> IF stream[s].client \in clients THEN "none" ELSE leases[s]]
    /\ life' = IF life = "running" THEN "stop_requested" ELSE life
    /\ UNCHANGED <<events, deadline, stream, received, reaper>>
\* delete_conversation: events and leases cascade; what a stream has read it has
Delete ==
    /\ life # "deleted"
    /\ life' = "deleted" /\ deadline' = "none"
    /\ leases' = [s \in Streams |-> "none"]
    /\ UNCHANGED <<events, stream, received, reaper>>

StreamInit ==
    /\ life = "running" /\ events = <<"progress">> /\ deadline = "none"
    /\ stream = [s \in Streams |-> NoStream] /\ leases = [s \in Streams |-> "none"]
    /\ received = [c \in Clients |-> 0] /\ reaper = "idle"

\* what the coroutine does next of its own accord
StreamStep(s) ==
    Deliver(s) \/ Poll(s) \/ Cancel(s)
    \/ LeaveCounts(s) \/ LeaveFindsNothing(s) \/ LeaveCommits(s)
ReaperStep == ScanGrace \/ DisarmGrace \/ Reap

StreamNext ==
    \/ \E s \in Streams :
          \/ StreamStep(s) \/ Refused(s) \/ Break(s) \/ StreamDies(s) \/ LeaseLapses(s)
          \/ \E c \in Clients : Open(s, c)
    \/ GracePasses \/ ReaperStep
    \/ Progress \/ Click \/ RequestStop \/ Finish \/ Delete
    \/ \E clients \in SUBSET Clients \ {{}} : Revoke(clients)

\* The event loop of the server and the resident maintenance worker keep going,
\* and so does time.  Nobody need subscribe, and the generation may take for ever
StreamSpec ==
    /\ StreamInit /\ [][StreamNext]_streamVars
    /\ \A s \in Streams : WF_streamVars(StreamStep(s)) /\ WF_streamVars(Refused(s))
    /\ WF_streamVars(GracePasses) /\ WF_streamVars(ReaperStep)

-----------------------------------------------------------------------------
(* Properties *)

\* A client receives every stream event once and in order, however often it
\* breaks off and reconnects: each one it receives is the first after the last
\* one it had, and never a citation click (stream, list_events_after).
EveryEventOnce ==
    [][\A c \in Clients : received'[c] # received[c] =>
          /\ received[c] < received'[c] /\ events[received'[c]] # "click"
          /\ \A n \in received[c] + 1 .. received'[c] - 1 : events[n] = "click"]_streamVars

\* The reaper stops a generation only when the whole grace is over and no stream
\* holds a lease it could still renew, whoever subscribed or left while the pass
\* was on its way (_reap_disconnect_grace, create_lease).
ReapsOnlyAbandoned ==
    [][reaper = "locking" /\ reaper' = "idle" /\ life' # life => deadline = "over" /\ ~Live]_streamVars

\* The end of a generation reaches every client that keeps listening to it: a
\* stream that has not written the terminal event out yet ends.
LastEvent == {n \in DOMAIN events : events[n] = "end"}
Waiting(s) == /\ life = "ended" /\ stream[s].pc = "streaming"
              /\ \E n \in LastEvent : stream[s].at < n
EndReachesReaders ==
    \A s \in Streams : Waiting(s) ~> (stream[s].pc # "streaming" \/ life = "deleted")

\* An armed deadline is not forgotten: it is cleared by the reaper or by somebody
\* who subscribes, or the generation ends (invalidate_lease, _reap_disconnect_grace).
DeadlineIsMet == deadline # "none" ~> deadline = "none" \/ life # "running"

StreamsEnd == EveryEventOnce /\ ReapsOnlyAbandoned /\ EndReachesReaders /\ DeadlineIsMet

-----------------------------------------------------------------------------
(* What the code does not keep *)

\* Every stream of a generation that has ended is over some time: a client that
\* reconnects with the id of the terminal event reads empty batches for ever.
StreamsStop == \A s \in Streams : life = "ended" /\ stream[s].pc = "streaming" ~> stream[s].pc # "streaming"

\* A generation whose last client left is stopped when its grace is over, unless
\* somebody comes back: not when two leave at once, when the row of a dead server is
\* left, or when the reaper clears a deadline that was armed after it looked.
Deserted == life = "running" /\ \A s \in Streams : stream[s].pc \in {"gone", "dead"}
AbandonedIsReaped == Deserted ~> life # "running"

=============================================================================
