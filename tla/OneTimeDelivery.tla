--------------------------- MODULE OneTimeDelivery ---------------------------
(***************************************************************************)
(* What Flick promises about one delivery, whatever the transactions, the  *)
(* sweeps and the object store do underneath (contracts/                   *)
(* sender-management-v1.md, "Exactly one terminal transition wins"): a     *)
(* delivery is offered at most once, ends in exactly one way, its          *)
(* ciphertext is released by the opening step and by no other, and nothing *)
(* leaves a terminal phase except the record being forgotten.              *)
(***************************************************************************)
EXTENDS Naturals

CONSTANT Secrets

VARIABLES
    phase,      \* where each delivery stands, as its sender may see it
    released    \* how often the ciphertext of each delivery was handed out

vars == <<phase, released>>

Live == {"pending_upload", "active"}
Ended == {"opened", "locked", "cancelled", "unavailable", "expired"}
Phases == {"none", "gone"} \cup Live \cup Ended

Init ==
    /\ phase = [s \in Secrets |-> "none"]
    /\ released = [s \in Secrets |-> 0]

(* A slow insert may commit a delivery whose deadline has already passed.  *)
Arrive(s) ==
    /\ phase[s] = "none"
    /\ \E p \in Live \cup {"unavailable", "expired"} :
          phase' = [phase EXCEPT ![s] = p]
    /\ UNCHANGED released

Activate(s) ==
    /\ phase[s] = "pending_upload"
    /\ phase' = [phase EXCEPT ![s] = "active"]
    /\ UNCHANGED released

Open(s) ==
    /\ phase[s] = "active"
    /\ phase' = [phase EXCEPT ![s] = "opened"]
    /\ released' = [released EXCEPT ![s] = @ + 1]

Lock(s) ==
    /\ phase[s] = "active"
    /\ phase' = [phase EXCEPT ![s] = "locked"]
    /\ UNCHANGED released

Cancel(s) ==
    /\ phase[s] \in Live
    /\ phase' = [phase EXCEPT ![s] = "cancelled"]
    /\ UNCHANGED released

(* Deadlines may pass for several deliveries in the same instant.          *)
Lapse(S) ==
    /\ \A s \in S : phase[s] \in Live
    /\ phase' = [s \in Secrets |->
                    IF s \notin S THEN phase[s]
                    ELSE IF phase[s] = "active" THEN "expired" ELSE "unavailable"]
    /\ UNCHANGED released

(* One sweep forgets a batch of ended deliveries.                          *)
Forget(S) ==
    /\ \A s \in S : phase[s] \in Ended
    /\ phase' = [s \in Secrets |-> IF s \in S THEN "gone" ELSE phase[s]]
    /\ UNCHANGED released

Next ==
    \/ \E s \in Secrets : Arrive(s) \/ Activate(s) \/ Open(s) \/ Lock(s) \/ Cancel(s)
    \/ \E S \in SUBSET Secrets : Lapse(S) \/ Forget(S)

Spec == Init /\ [][Next]_vars
=============================================================================
