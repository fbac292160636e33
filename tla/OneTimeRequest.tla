--------------------------- MODULE OneTimeRequest ---------------------------
(***************************************************************************)
(* What a request link promises its two parties (docs/architecture/        *)
(* request-links.md): it takes uploads one reservation at a time, each     *)
(* under a generation of its own, accepts at most one submission and only  *)
(* while its generation is current, releases exactly the accepted body, at *)
(* most once, and not after it was cancelled or has expired.               *)
(***************************************************************************)
EXTENDS Naturals

CONSTANTS Requests, Attempts, Bodies, MaxGeneration, None

VARIABLES
    phase,      \* where each request stands
    generation, \* the generation it answers to, 0 when it answers to nobody
    accepted,   \* the accepted submission: [gen, token, body], or None
    released    \* the body handed to the requester, or None

vars == <<phase, generation, accepted, released>>

Open == {"waiting", "uploading"}
Ended == {"consumed", "cancelled", "unavailable", "expired"}

Init ==
    /\ phase = [r \in Requests |-> "none"]
    /\ generation = [r \in Requests |-> 0]
    /\ accepted = [r \in Requests |-> None]
    /\ released = [r \in Requests |-> None]

Create(r) ==
    /\ phase[r] = "none"
    /\ phase' = [phase EXCEPT ![r] = "waiting"]
    /\ generation' = [generation EXCEPT ![r] = 1]
    /\ UNCHANGED <<accepted, released>>

Reserve(r) ==
    /\ phase[r] = "waiting"
    /\ phase' = [phase EXCEPT ![r] = "uploading"]
    /\ UNCHANGED <<generation, accepted, released>>

(* A submission in one piece, or the end of an upload.                     *)
Accept(r) ==
    /\ phase[r] \in Open
    /\ phase' = [phase EXCEPT ![r] = "submitted"]
    /\ \E t \in Attempts, b \in Bodies :
          accepted' = [accepted EXCEPT
                          ![r] = [gen |-> generation[r], token |-> t, body |-> b]]
    /\ UNCHANGED <<generation, released>>

Consume(r) ==
    /\ phase[r] = "submitted"
    /\ phase' = [phase EXCEPT ![r] = "consumed"]
    /\ released' = [released EXCEPT ![r] = accepted[r].body]
    /\ UNCHANGED <<generation, accepted>>

Cancel(r) ==
    /\ phase[r] \in Open \cup {"submitted"}
    /\ phase' = [phase EXCEPT ![r] = "cancelled"]
    /\ UNCHANGED <<generation, accepted, released>>

(* A reservation that ends takes its generation along; the last one takes  *)
(* the request.  Submitters abandon one at a time, the clock ends any      *)
(* number and lets requests expire at the same instant.                    *)
EndAndExpire(E, X) ==
    /\ \A r \in E : phase[r] = "uploading"
    /\ \A r \in X : phase[r] \in Open \cup {"submitted", "unavailable"}
    /\ phase' = [r \in Requests |->
                    IF r \in X THEN "expired"
                    ELSE IF r \notin E THEN phase[r]
                    ELSE IF generation[r] = MaxGeneration THEN "unavailable" ELSE "waiting"]
    /\ generation' = [r \in Requests |->
                         IF r \in X THEN 0
                         ELSE IF r \in E /\ generation[r] < MaxGeneration
                            THEN generation[r] + 1 ELSE generation[r]]
    /\ UNCHANGED <<accepted, released>>

Forget(R) ==
    /\ \A r \in R : phase[r] \in Ended
    /\ phase' = [r \in Requests |-> IF r \in R THEN "gone" ELSE phase[r]]
    /\ generation' = [r \in Requests |-> IF r \in R THEN 0 ELSE generation[r]]
    /\ UNCHANGED <<accepted, released>>

Next ==
    \/ \E r \in Requests : Create(r) \/ Reserve(r) \/ Accept(r) \/ Consume(r) \/ Cancel(r)
    \/ \E E, X \in SUBSET Requests : EndAndExpire(E, X)
    \/ \E R \in SUBSET Requests : Forget(R)

Spec == Init /\ [][Next]_vars
=============================================================================
