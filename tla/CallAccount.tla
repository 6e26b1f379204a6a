---------------------------- MODULE CallAccount ----------------------------
(***************************************************************************)
(* What the usage ledger promises about the physical requests of a call: a *)
(* request is billed only if the provider served it, written off as unsent *)
(* only if the provider never serves it, and the decision is final.        *)
(***************************************************************************)
CONSTANT Requests

VARIABLES
    served,     \* requests the provider has worked on
    account     \* what the ledger has decided about each request

Init == served = {} /\ account = [n \in Requests |-> "open"]

Serve(n) ==
    /\ account[n] = "open"
    /\ served' = served \cup {n}
    /\ UNCHANGED account

Decide(n, verdict) ==
    /\ account[n] = "open"
    /\ account' = [account EXCEPT ![n] = verdict]
    /\ UNCHANGED served

Bill(n)     == n \in served /\ Decide(n, "billed")
WriteOff(n) == n \notin served /\ Decide(n, "written_off")

Next == \E n \in Requests : Serve(n) \/ Bill(n) \/ WriteOff(n)

Spec == Init /\ [][Next]_<<served, account>>

=============================================================================
