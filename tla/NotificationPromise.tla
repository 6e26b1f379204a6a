------------------------ MODULE NotificationPromise ------------------------
(***************************************************************************)
(* What the outbox promises the recipients of an event: nobody hears of it *)
(* before everybody's fate is decided, each is then shown the notification *)
(* or it is withheld, and a notification leaves the inbox only for the     *)
(* archive.                                                                *)
(***************************************************************************)
CONSTANTS Events, Users, Audience

VARIABLE fate   \* what became of the notification of an event for a user

Init == fate = [e \in Events |-> [u \in Users |-> "none"]]

\* Notifications of the given events and users are archived
Aged(f, e, u) == IF f[e][u] = "shown" THEN {"shown", "archived"} ELSE {f[e][u]}

Archive ==
    /\ fate' \in [Events -> [Users -> {"none", "shown", "archived", "withheld"}]]
    /\ \A e \in Events, u \in Users : fate'[e][u] \in Aged(fate, e, u)

\* The whole audience of e is served at once; older notifications may make room
Serve(e) ==
    /\ \A u \in Users : fate[e][u] = "none"
    /\ fate' \in [Events -> [Users -> {"none", "shown", "archived", "withheld"}]]
    /\ \A f \in Events, u \in Users :
          fate'[f][u] \in IF f = e /\ u \in Audience[e] THEN {"shown", "withheld"}
                          ELSE Aged(fate, f, u)

Next == Archive \/ \E e \in Events : Serve(e)

Spec == Init /\ [][Next]_fate

=============================================================================
