-------------------------- MODULE RequestLinksProofs ------------------------
(***************************************************************************)
(* Proofs about RequestLinks, for any number of requests, submitters and   *)
(* handlers, any lifetimes, and any grace longer than a stream may take:   *)
(* the steps that stream, finish and purge a row, what the invariant       *)
(* implies, and that the store implements its contract.                    *)
(***************************************************************************)
EXTENDS RequestLinksSteps

-----------------------------------------------------------------------------
(* Only one open turns a submitted row into a consumed one.                *)
LEMMA ConsumeObjectStep ==
    ASSUME Inv, NEW o \in Openers, consumeObject(o)
    PROVE  Inv'
<1> DEFINE r == opn[o].id
<1>0. /\ req \in [Requests -> Row] /\ now \in Nat /\ StateInv
      /\ opn \in [Openers -> Reader] /\ opn[o] \in Reader
    BY InvParts, Zenon DEF StateInv
<1>1. UNCHANGED <<now, bucket, forms, puts, jobs, fin, finalizing, reaperNow, told, accepted>>
    BY Zenon DEF consumeObject, objectVars
<1>2. /\ opn[o].at = "opened" /\ req[r].state = "submitted" /\ req[r].finalKey = opn[o].key
      /\ now < req[r].expires
      /\ req' = [req EXCEPT ![r].state = "consumed", ![r].consumedAt = now]
      /\ released' = [released EXCEPT ![r] = opn[o].body]
      /\ opn' = [opn EXCEPT ![o].at = "streaming"]
    BY Zenon DEF consumeObject, begin, authorized
<1>3. r \in Requests /\ opn[o].key \in 1 .. MaxGeneration /\ OpenInv(o)
    BY <1>2, InvParts, Zenon DEF OpenInv
<1>4. req[r] \in Row /\ RowOK(req[r], accepted[r])
    BY <1>3, InvParts, Zenon
<1>5. /\ opn' \in [Openers -> Reader]
      /\ opn'[o].at = "streaming" /\ opn'[o].id = r /\ opn'[o].key = opn[o].key
      /\ \A x \in Openers : x # o => opn'[x] = opn[x]
    BY <1>0, <1>2, Zenon DEF Reader
<1>6. opn[o].body \in Bodies \cup {None}
    BY <1>0, Zenon DEF Reader
<1>7. \A x \in Openers : Sending(x) => opn[x].id # r
    BY <1>2, InvParts, Zenon DEF Sending, OpenInv
<1> HIDE DEF r
<1>8. /\ req' \in [Requests -> Row]
      /\ \A q \in Requests \ {r} : req'[q] = req[q]
    <2> DEFINE new == [req[r] EXCEPT !.state = "consumed", !.consumedAt = now]
    <2>1. req' = [req EXCEPT ![r] = new]
        BY <1>2, Zenon
    <2>2. now \in Int
        BY <1>0
    <2>3. new \in Row
        BY <1>4, <2>2, Zenon DEF Row, States
    <2> HIDE DEF new
    <2> QED BY <1>0, <2>1, <2>3, Zenon
<1>9. /\ req'[r].state = "consumed" /\ req'[r].attempt = req[r].attempt
      /\ req'[r].gen = req[r].gen /\ req'[r].expires = req[r].expires
      /\ SameKeys(req[r], req'[r]) /\ req'[r].consumedAt = now
    BY <1>0, <1>2, <1>3, Zenon DEF Row, SameKeys
<1>10. req'[r] \in Row
    BY <1>3, <1>8, Zenon
<1>11. RowOK(req'[r], accepted[r]) /\ Follows(req[r], req'[r], now)
    BY <1>0, <1>2, <1>4, <1>9, <1>10, ConsumedRow, ZenonT(30)
<1>12. Evolves
    BY <1>1, <1>3, <1>8, <1>10, <1>11, InvParts, OneEvolves, Zenon
<1>13. StateInv'
    <2>1. released' \in [Requests -> Bodies \cup {None}]
        BY <1>0, <1>2, <1>6, Zenon DEF StateInv
    <2> QED BY <1>0, <1>1, <1>5, <1>8, <2>1, Zenon DEF StateInv
<1>14. KeysInv'
    <2>1. forms' \subseteq Requests \X (1 .. MaxGeneration) /\ jobs' \subseteq Keys
        BY <1>13, Zenon DEF StateInv
    <2> QED BY <1>1, <1>12, <2>1, InvParts, KeysStep, Zenon
<1>15. \A q \in Requests : ObjectInv(q)'
    BY <1>1, <1>8, <1>9, InvParts, Zenon DEF ObjectInv
<1>16. \A f \in Finalizers : FinalizeInv(f)'
    BY <1>1, <1>12, FinalizesStay, Zenon
<1>17. ASSUME NEW x \in Openers, x # o
       PROVE  OpenInv(x)'
    <2>1. OpenInv(x) /\ opn'[x] = opn[x]
        BY <1>5, <1>17, InvParts, Zenon
    <2>2. opn[x].at = "streaming" => req'[opn[x].id] = req[opn[x].id]
        BY <1>7, <1>8, <2>1, Zenon DEF OpenInv, Sending
    <2> QED BY <1>0, <1>12, <2>1, <2>2, OpenFrame, Zenon
<1>18. OpenInv(o)'
    <2>1. Past(req'[r])
        <3>1. req'[r].expires # Null
            BY <1>2, <1>4, <1>9, Zenon DEF RowOK
        <3> QED BY <1>9, <3>1, Zenon DEF Past
    <2>2. now' <= req'[r].consumedAt + StreamTimeout
        BY <1>0, <1>1, <1>9, RequestAssumption
    <2>3. req'[r].finalKey = opn[o].key
        BY <1>2, <1>9, Zenon DEF SameKeys
    <2> QED BY <1>3, <1>5, <1>9, <2>1, <2>2, <2>3, Zenon DEF OpenInv
<1>19. OneReader'
    <2> SUFFICES ASSUME NEW x \in Openers, NEW y \in Openers, Sending(x)', Sending(y)',
                        opn'[x].id = opn'[y].id
                 PROVE  x = y
        BY Zenon DEF OneReader
    <2>1. \A z \in Openers : Sending(z)' => z = o \/ (Sending(z) /\ opn'[z].id # r)
        BY <1>5, <1>7, Zenon DEF Sending
    <2>2. CASE x = o \/ y = o
        BY <1>5, <2>1, <2>2, Zenon
    <2>3. CASE x # o /\ y # o
        <3>1. Sending(x) /\ Sending(y) /\ opn[x].id = opn[y].id
            BY <1>5, <2>1, <2>3, Zenon
        <3> QED BY <3>1, InvParts, Zenon DEF OneReader
    <2> QED BY <2>2, <2>3, Zenon
<1>20. \A q \in Requests : RowInv(q)'
    BY <1>1, <1>12, ToldStays, Zenon
<1> QED BY <1>13, <1>14, <1>15, <1>16, <1>17, <1>18, <1>19, <1>20, Zenon DEF Inv

(* The key is dropped by the open that read it: nobody else is sending.    *)
LEMMA FinishOpenStep ==
    ASSUME Inv, NEW o \in Openers, FinishOpen(o)
    PROVE  Inv'
<1> DEFINE r == opn[o].id
           key == opn[o].key
<1>0. /\ req \in [Requests -> Row] /\ now \in Nat /\ StateInv /\ opn \in [Openers -> Reader]
    BY InvParts, Zenon DEF StateInv
<1>1. /\ UNCHANGED <<now, bucket, forms, puts, fin, finalizing, reaperNow, told, accepted, released>>
      /\ opn[o].at = "ended" /\ opn' = [opn EXCEPT ![o] = IdleOpen]
    BY Zenon DEF FinishOpen, objectVars, history
<1>2. r \in Requests /\ key \in 1 .. MaxGeneration
    BY <1>1, InvParts, Zenon DEF OpenInv
<1>3. /\ opn' \in [Openers -> Reader] /\ opn'[o].at = "idle"
      /\ \A x \in Openers : x # o => opn'[x] = opn[x]
    BY <1>0, <1>1, IdleOpenTyped, Zenon
<1>4. \A x \in Openers : Sending(x)' => Sending(x) /\ opn'[x].id = opn[x].id
    BY <1>3, Zenon DEF Sending
<1>5. CASE UNCHANGED <<req, jobs>>
    <2>1. ASSUME Evolves, NEW x \in Openers
          PROVE  OpenInv(x)'
        BY <1>3, <1>5, <2>1, OpenMoves, Zenon
    <2> QED BY <1>1, <1>3, <1>4, <1>5, <2>1, OpensOnly, Zenon
<1>6. CASE /\ req[r].state = "consumed" /\ req[r].finalKey = key
           /\ req' = [req EXCEPT ![r].finalKey = 0] /\ jobs' = jobs \cup {<<r, key, "final">>}
    <2>0. req[r] \in Row /\ RowOK(req[r], accepted[r])
        BY <1>2, InvParts, Zenon
    <2>1. \A x \in Openers : Sending(x) /\ x # o => opn[x].id # r
        <3>1. Sending(o)
            BY <1>1, Zenon DEF Sending
        <3> QED BY <3>1, InvParts, Zenon DEF OneReader
    <2> HIDE DEF r, key
    <2>2. /\ req' \in [Requests -> Row]
          /\ \A q \in Requests \ {r} : req'[q] = req[q]
        <3> DEFINE new == [req[r] EXCEPT !.finalKey = 0]
        <3>1. req' = [req EXCEPT ![r] = new]
            BY <1>6, Zenon
        <3>2. 0 \in 0 .. MaxGeneration
            BY RequestAssumption
        <3>3. new \in Row
            BY <2>0, <3>2, Zenon DEF Row
        <3> HIDE DEF new
        <3> QED BY <1>0, <3>1, <3>3, Zenon
    <2>3. /\ req'[r].state = "consumed" /\ req'[r].attempt = req[r].attempt
          /\ req'[r].gen = req[r].gen /\ req'[r].expires = req[r].expires
          /\ req'[r].uploadKey = req[r].uploadKey /\ req'[r].finalKey = 0
        BY <1>0, <1>2, <1>6, Zenon DEF Row
    <2>4. req'[r] \in Row
        BY <1>2, <2>2, Zenon
    <2>5. /\ RowOK(req'[r], accepted[r]) /\ Follows(req[r], req'[r], now)
          /\ \A g \in 1 .. MaxGeneration, s \in Sides :
                ~Ahead(req'[r], g) /\ ~Guards(req'[r], g, s, now)
        BY <1>0, <1>6, <2>0, <2>3, <2>4, FinishedRow, Zenon
    <2>6. Evolves
        BY <1>1, <1>2, <2>2, <2>4, <2>5, InvParts, OneEvolves, Zenon
    <2>7. StateInv'
        <3>1. jobs' \subseteq Keys
            BY <1>0, <1>2, <1>6 DEF StateInv, Keys
        <3> QED BY <1>0, <1>1, <1>3, <2>2, <3>1, Zenon DEF StateInv
    <2>8. KeysInv'
        <3>1. forms' \subseteq Requests \X (1 .. MaxGeneration) /\ jobs' \subseteq Keys
            BY <2>7, Zenon DEF StateInv
        <3>2. \A k \in jobs' : \/ k \in jobs
                               \/ ~Ahead(req'[k[1]], k[2]) /\ ~Guards(req'[k[1]], k[2], k[3], now)
            <4> SUFFICES ASSUME NEW k \in jobs', k \notin jobs
                         PROVE  ~Ahead(req'[k[1]], k[2]) /\ ~Guards(req'[k[1]], k[2], k[3], now)
                BY Zenon
            <4>1. k = <<r, key, "final">>
                BY <1>6, Zenon
            <4>2. "final" \in Sides
                BY Zenon DEF Sides
            <4> QED BY <1>2, <2>5, <4>1, <4>2, Zenon
        <3> QED BY <1>1, <2>6, <3>1, <3>2, InvParts, KeysStep, Zenon
    <2>9. \A q \in Requests : ObjectInv(q)'
        BY <1>1, <2>2, <2>3, InvParts, Zenon DEF ObjectInv
    <2>10. \A f \in Finalizers : FinalizeInv(f)'
        BY <1>1, <2>6, FinalizesStay, Zenon
    <2>11. ASSUME NEW x \in Openers, x # o
           PROVE  OpenInv(x)'
        <3>1. OpenInv(x) /\ opn'[x] = opn[x]
            BY <1>3, <2>11, InvParts, Zenon
        <3>2. opn[x].at = "streaming" => req'[opn[x].id] = req[opn[x].id]
            BY <2>1, <2>2, <2>11, <3>1, Zenon DEF OpenInv, Sending
        <3> QED BY <1>0, <2>6, <3>1, <3>2, OpenFrame, Zenon
    <2>12. OpenInv(o)'
        BY <1>3, Zenon DEF OpenInv
    <2>13. OneReader'
        BY <1>4, InvParts, ReaderFrame, Zenon
    <2>14. \A q \in Requests : RowInv(q)'
        BY <1>1, <2>6, ToldStays, Zenon
    <2> QED BY <2>7, <2>8, <2>9, <2>10, <2>11, <2>12, <2>13, <2>14, Zenon DEF Inv
<1> QED BY <1>5, <1>6, Zenon DEF FinishOpen

(* A purge ends overdue reservations and drops rows past their grace: no   *)
(* row of a body that is being sent is among them.                         *)
LEMMA PurgeStep ==
    ASSUME Inv, PurgeExpiredTx
    PROVE  Inv'
<1>0. req \in [Requests -> Row] /\ now \in Nat /\ StateInv
    BY InvParts, Zenon DEF StateInv
<1>1. UNCHANGED <<now, bucket, forms, puts, fin, finalizing, opn, told, accepted, released>>
      /\ reaperNow' = Null /\ reaperNow # Null
    BY Zenon DEF PurgeExpiredTx, objectVars, history
<1>2. PICK ends \in SUBSET Requests, drops \in SUBSET Requests :
          /\ \A q \in ends : Overdue(q)
          /\ \A q \in drops : Purgeable(q)
          /\ jobs' = jobs \cup UNION {RequestKeys(q) : q \in ends \cup drops}
          /\ req' = [q \in Requests |->
                        IF q \in ends THEN Reopened(req[q])
                        ELSE IF q \in drops THEN [NoRow EXCEPT !.expires = req[q].expires]
                        ELSE req[q]]
    BY Zenon DEF PurgeExpiredTx, FirstBatch
<1>3. \A q \in Requests : req[q] \in Row /\ RowOK(req[q], accepted[q])
    BY InvParts, Zenon
<1>4. ASSUME NEW q \in ends
      PROVE  /\ req'[q] \in Row /\ RowOK(req'[q], accepted[q]) /\ Follows(req[q], req'[q], now)
             /\ req'[q].state # "submitted" /\ req[q].state = "uploading"
             /\ \A k \in RequestKeys(q) : ~Ahead(req'[q], k[2]) /\ ~Guards(req'[q], k[2], k[3], now)
    <2>1. q \in Requests /\ req'[q] = Reopened(req[q]) /\ req[q].state = "uploading"
        BY <1>2, Zenon DEF Overdue
    <2>2. /\ Reopened(req[q]) \in Row /\ Reopened(req[q]).state \notin {"uploading", "submitted"}
          /\ RowOK(Reopened(req[q]), accepted[q]) /\ Follows(req[q], Reopened(req[q]), now)
          /\ \A s \in Sides :
                ~Ahead(Reopened(req[q]), req[q].gen) /\ ~Guards(Reopened(req[q]), req[q].gen, s, now)
        BY <1>0, <1>3, <2>1, EndedRow, Zenon
    <2>3. ASSUME NEW k \in RequestKeys(q)
          PROVE  ~Ahead(req'[q], k[2]) /\ ~Guards(req'[q], k[2], k[3], now)
        <3>1. k[2] = req[q].gen /\ k[3] \in Sides
            BY <1>3, <2>1, KeysOfRow DEF RowOK
        <3> QED BY <2>1, <2>2, <3>1, Zenon
    <2> QED BY <2>1, <2>2, <2>3, Zenon
<1>5. ASSUME NEW q \in drops, q \notin ends
      PROVE  /\ req'[q] \in Row /\ RowOK(req'[q], accepted[q]) /\ Follows(req[q], req'[q], now)
             /\ req'[q].state # "submitted"
             /\ \A k \in RequestKeys(q) : ~Ahead(req'[q], k[2]) /\ ~Guards(req'[q], k[2], k[3], now)
    <2> DEFINE new == [NoRow EXCEPT !.expires = req[q].expires]
    <2>1. q \in Requests /\ req'[q] = new /\ req[q].state # "none"
        BY <1>2, <1>5, Zenon DEF Purgeable
    <2>2. /\ new \in Row /\ new.state = "none" /\ RowOK(new, accepted[q]) /\ Follows(req[q], new, now)
          /\ \A g \in 1 .. MaxGeneration, s \in Sides : ~Ahead(new, g) /\ ~Guards(new, g, s, now)
        BY <1>0, <1>3, <2>1, DroppedRow, Zenon
    <2> HIDE DEF new
    <2>3. ASSUME NEW k \in RequestKeys(q)
          PROVE  ~Ahead(req'[q], k[2]) /\ ~Guards(req'[q], k[2], k[3], now)
        <3>1. k[2] \in 1 .. MaxGeneration /\ k[3] \in Sides
            BY <2>1, KeysOfRow, KeyParts, Zenon
        <3> QED BY <2>1, <2>2, <3>1, Zenon
    <2> QED BY <2>1, <2>2, <2>3, Zenon
<1>6. \A q \in Requests : q \notin ends \cup drops => req'[q] = req[q]
    BY <1>2, Zenon
<1>7. Evolves
    <2> SUFFICES ASSUME NEW q \in Requests
                 PROVE  req'[q] \in Row /\ RowOK(req'[q], accepted[q]) /\ Follows(req[q], req'[q], now)
        BY <1>1, Zenon DEF Evolves
    <2>1. CASE q \in ends
        BY <1>4, <2>1, Zenon
    <2>2. CASE q \in drops /\ q \notin ends
        BY <1>5, <2>2, Zenon
    <2>3. CASE q \notin ends \cup drops
        <3>1. now \in Int
            BY <1>0
        <3> QED BY <1>3, <1>6, <2>3, <3>1, SameRowFollows, Zenon
    <2> QED BY <2>1, <2>2, <2>3, Zenon
<1>8. StateInv'
    <2>1. req' \in [Requests -> Row]
        BY <1>2, <1>7, Zenon DEF Evolves
    <2>2. jobs' \subseteq Keys
        BY <1>0, <1>2, KeysOfRow DEF StateInv
    <2> QED BY <1>0, <1>1, <2>1, <2>2 DEF StateInv, Null
<1>9. KeysInv'
    <2>1. forms' \subseteq Requests \X (1 .. MaxGeneration) /\ jobs' \subseteq Keys
        BY <1>8, Zenon DEF StateInv
    <2>2. \A k \in jobs' : \/ k \in jobs
                           \/ ~Ahead(req'[k[1]], k[2]) /\ ~Guards(req'[k[1]], k[2], k[3], now)
        <3> SUFFICES ASSUME NEW k \in jobs', k \notin jobs
                     PROVE  ~Ahead(req'[k[1]], k[2]) /\ ~Guards(req'[k[1]], k[2], k[3], now)
            BY Zenon
        <3>1. PICK q \in ends \cup drops : k \in RequestKeys(q)
            BY <1>2, Zenon
        <3>2. k[1] = q
            BY <3>1, KeysOfRow, Zenon
        <3> QED BY <1>4, <1>5, <3>1, <3>2, Zenon
    <2> QED BY <1>1, <1>7, <2>1, <2>2, InvParts, KeysStep, Zenon
<1>10. ASSUME NEW q \in Requests
       PROVE  ObjectInv(q)'
    <2>1. CASE q \in ends \cup drops
        BY <1>4, <1>5, <2>1, Zenon DEF ObjectInv
    <2>2. CASE q \notin ends \cup drops
        BY <1>1, <1>6, <2>2, InvParts, Zenon DEF ObjectInv
    <2> QED BY <2>1, <2>2, Zenon
<1>11. ASSUME NEW o \in Openers, opn[o].at = "streaming"
       PROVE  req'[opn[o].id] = req[opn[o].id]
    <2> DEFINE q == opn[o].id
    <2>1. /\ q \in Requests /\ opn[o].key \in 1 .. MaxGeneration /\ req[q].state = "consumed"
          /\ req[q].finalKey = opn[o].key /\ now <= req[q].consumedAt + StreamTimeout
        BY <1>11, InvParts, Zenon DEF OpenInv
    <2>2. req[q].consumedAt \in Int /\ reaperNow \in Int /\ reaperNow <= now /\ now \in Int
        BY <1>0, <1>3, <2>1 DEF StateInv, Row
    <2>3. req[q].consumedAt > reaperNow - OpenObjectGrace /\ req[q].finalKey # 0
        BY <2>1, <2>2, RequestAssumption
    <2>4. q \notin ends \cup drops
        BY <1>2, <2>1, <2>3, Zenon DEF Overdue, Purgeable
    <2> QED BY <1>6, <2>1, <2>4, Zenon
<1>12. \A f \in Finalizers : FinalizeInv(f)'
    BY <1>1, <1>7, FinalizesStay, Zenon
<1>13. OneReader' /\ \A o \in Openers : OpenInv(o)'
    BY <1>1, <1>7, <1>11, OpensStay, Zenon
<1>14. \A q \in Requests : RowInv(q)'
    BY <1>1, <1>7, ToldStays, Zenon
<1> QED BY <1>8, <1>9, <1>10, <1>12, <1>13, <1>14, Zenon DEF Inv

-----------------------------------------------------------------------------
LEMMA InvInit == Init => Inv
<1> SUFFICES ASSUME Init
             PROVE  Inv
    BY Zenon
<1>1. NoRow \in Row
    <2>1. 0 \in 0 .. MaxGeneration /\ 1 \in 1 .. MaxGeneration /\ Null \in Int
        BY RequestAssumption DEF Null
    <2> QED BY <2>1, Zenon DEF NoRow, Row
<1>2. RowOK(NoRow, None)
    BY Zenon DEF RowOK, NoRow
<1>3. StateInv
    <2>1. req \in [Requests -> Row] /\ fin \in [Finalizers -> Call] /\ opn \in [Openers -> Reader]
        BY <1>1, IdleCallTyped, IdleOpenTyped, Zenon DEF Init
    <2>2. now \in 0 .. MaxTime /\ puts \in 0 .. MaxPuts /\ reaperNow \in Int
          /\ Null <= reaperNow /\ reaperNow <= now
        BY RequestAssumption DEF Init, Null
    <2> QED BY <2>1, <2>2, Zenon DEF Init, StateInv
<1>4. \A r \in Requests : RowInv(r) /\ ObjectInv(r)
    BY <1>2, Zenon DEF Init, RowInv, ObjectInv, NoRow
<1>5. KeysInv
    BY Zenon DEF Init, KeysInv
<1>6. (\A f \in Finalizers : FinalizeInv(f)) /\ OneReader /\ \A o \in Openers : OpenInv(o)
    BY IdleCallTyped, IdleOpenTyped, Zenon DEF Init, FinalizeInv, OpenInv, OneReader, Sending
<1> QED BY <1>3, <1>4, <1>5, <1>6, Zenon DEF Inv

LEMMA InvStutter ==
    ASSUME Inv, UNCHANGED vars
    PROVE  Inv'
<1>1. UNCHANGED <<now, req, bucket, forms, puts, jobs, fin, finalizing, opn, reaperNow, told, accepted, released>>
    BY Zenon DEF vars, objectVars, handlerVars, history
<1>2. Evolves /\ KeysInv' /\ \A q \in Requests : ObjectInv(q)'
    BY <1>1, ObjectsStay, Zenon
<1>3. StateInv'
    BY <1>1, InvParts, Zenon DEF StateInv
<1>4. (\A f \in Finalizers : FinalizeInv(f)') /\ OneReader' /\ \A o \in Openers : OpenInv(o)'
    BY <1>1, <1>2, FinalizesStay, OpensStay, Zenon
<1>5. \A q \in Requests : RowInv(q)'
    BY <1>1, <1>2, ToldStays, Zenon
<1> QED BY <1>2, <1>3, <1>4, <1>5, Zenon DEF Inv

LEMMA InvNext ==
    ASSUME Inv, Next
    PROVE  Inv'
<1>1. ASSUME NEW r \in Requests, Create(r)
      PROVE  Inv'
    BY <1>1, CreateStep, Zenon
<1>2. ASSUME NEW r \in Requests, BeginEndsReservation(r)
      PROVE  Inv'
    <2>1. req[r].state = "uploading" /\ endReservationTx(r)
          /\ UNCHANGED <<now, objectVars, handlerVars, history>>
        BY <1>2, Zenon DEF BeginEndsReservation, ReservationIsOver
    <2> QED BY <2>1, EndReservationStep, Zenon
<1>3. ASSUME NEW r \in Requests, Revoke(r)
      PROVE  Inv'
    BY <1>3, RevokeStep, Zenon
<1>4. ASSUME NEW r \in Requests, NEW g \in 1 .. MaxGeneration, NEW t \in Tokens
      PROVE  /\ AttemptStatus(r, g, t) => Inv'
             /\ Abandon(r, g, t) => Inv'
             /\ \A f \in Finalizers : Finalize(f, r, g, t) => Inv'
             /\ \A b \in Bodies : Submit(r, g, t, b) => Inv'
             /\ \A b \in Bodies : Reserve(r, g, t, b) => Inv'
    <2>1. ASSUME Abandon(r, g, t)
          PROVE  Inv'
        <3>1. req[r].state = "uploading" /\ endReservationTx(r)
              /\ UNCHANGED <<now, objectVars, handlerVars, history>>
            BY <2>1, Zenon DEF Abandon
        <3> QED BY <3>1, EndReservationStep, Zenon
    <2> QED BY <2>1, AttemptStatusStep, FinalizeStarts, SubmitStep, ReserveStep, Zenon
<1>5. ASSUME NEW r \in Requests, NEW g \in 1 .. MaxGeneration, NEW b \in Bodies, PresignedPut(r, g, b)
      PROVE  Inv'
    BY <1>5, PresignedPutStep, Zenon
<1>6. ASSUME NEW r \in Requests, NEW o \in Openers, Open(o, r)
      PROVE  Inv'
    BY <1>6, OpenInlineStep, OpenStarts, Zenon
<1>7. ASSUME NEW f \in Finalizers, FinalizeStep(f) \/ WaiterLeaves(f)
      PROVE  Inv'
    BY <1>7, CoalesceStep, StartCopyStep, PutStreamStep, FinalizeAttemptStep, FinalizeFailsStep,
       FinalizeReturnsStep, WaiterLeavesStep, Zenon DEF FinalizeStep
<1>8. ASSUME NEW o \in Openers, OpenStep(o)
      PROVE  Inv'
    BY <1>8, OpenObjectStep, ConsumeObjectStep, OpenFailsStep, StreamEndStep, FinishOpenStep, Zenon
       DEF OpenStep
<1>9. ASSUME NEW k \in Keys, Reconcile(k) \/ handleObjectDelete(k)
      PROVE  Inv'
    BY <1>9, ReconcileStep, ObjectDeleteStep, Zenon
<1>10. SweepBegin \/ PurgeExpiredTx \/ Restart \/ Tick => Inv'
    BY SweepBeginStep, PurgeStep, RestartStep, TickStep, Zenon
<1> QED BY <1>1, <1>2, <1>3, <1>4, <1>5, <1>6, <1>7, <1>8, <1>9, <1>10, Zenon DEF Next

-----------------------------------------------------------------------------
(* The inductive invariant holds in every reachable state.                 *)
THEOREM Invariance == Spec => []Inv
<1>1. Inv /\ [Next]_vars => Inv'
    BY InvNext, InvStutter, Zenon
<1> QED BY <1>1, InvInit, PTL DEF Spec

(* The rows, objects, jobs and handlers of request links keep their types: *)
(* an uploading row has an attempt and both keys, a submitted one an       *)
(* attempt and, if large, a final key.                                     *)
THEOREM Typed == Spec => []TypeOK
<1>1. Inv => TypeOK
    <2> SUFFICES ASSUME Inv
                 PROVE  TypeOK
        BY Zenon
    <2>1. StateInv /\ \A r \in Requests : req[r] \in Row /\ RowOK(req[r], accepted[r])
        BY InvParts, Zenon
    <2>2. ASSUME NEW r \in Requests
          PROVE  /\ req[r].state \in States \cup {"none"}
                 /\ req[r].gen \in 1 .. MaxGeneration
                 /\ req[r].attempt \in Attempt \cup {None}
                 /\ req[r].payload \in Bodies \cup {None}
                 /\ req[r].large \in BOOLEAN
                 /\ req[r].uploadKey \in 0 .. MaxGeneration /\ req[r].finalKey \in 0 .. MaxGeneration
                 /\ req[r].expires \in Int /\ req[r].reservation \in Int /\ req[r].consumedAt \in Int
        BY <2>1, ZenonT(30) DEF Row
    <2>3. ASSUME NEW r \in Requests
          PROVE  /\ req[r].state = "uploading" =>
                        req[r].attempt # None /\ 0 \notin {req[r].uploadKey, req[r].finalKey}
                 /\ req[r].state = "submitted" =>
                        req[r].attempt # None /\ (req[r].large => req[r].finalKey # 0)
        BY <2>1, <2>2 DEF RowOK, Remembers
    <2>4. reaperNow \in 0 .. MaxTime \cup {Null}
        BY <2>1, RequestAssumption DEF StateInv, Null
    <2>5. \A f \in Finalizers : fin[f].at \in {"idle", "checked", "waiting", "queued", "copying",
                                               "copied", "succeeded", "failed"}
        BY <2>1, Zenon DEF StateInv, Call
    <2>6. \A o \in Openers : opn[o].at \in {"idle", "checked", "opened", "streaming", "ended"}
        BY <2>1, Zenon DEF StateInv, Reader
    <2> QED BY <2>1, <2>2, <2>3, <2>4, <2>5, <2>6 DEF StateInv, TypeOK
<1> QED BY <1>1, Invariance, PTL

(* Whoever was told "submitted" had that very attempt accepted, and the    *)
(* live row still says so: Submit, Reserve, Finalize and Attempt answer    *)
(* every retry alike, through revocation and consumption.                  *)
THEOREM ReceiptsAreTruthful == Spec => []ReceiptIsTruthful
<1>1. Inv => ReceiptIsTruthful
    <2> SUFFICES ASSUME Inv, NEW r \in Requests
                 PROVE  /\ \A x \in told[r] :
                              accepted[r] # None /\ x = <<accepted[r].gen, accepted[r].token>>
                        /\ accepted[r] # None /\ authorized(r) => Remembers(req[r], accepted[r])
        BY Zenon DEF ReceiptIsTruthful, Remembers
    <2>1. RowInv(r) /\ req[r] \in Row /\ RowOK(req[r], accepted[r])
        BY InvParts, Zenon
    <2>2. ASSUME accepted[r] # None, authorized(r)
          PROVE  Remembers(req[r], accepted[r])
        <3>1. req[r].state \in {"submitted", "consumed", "cancelled"}
            BY <2>1, <2>2, Zenon DEF authorized, RowOK, Row, States
        <3> QED BY <2>1, <2>2, <3>1, Zenon DEF RowOK
    <2> QED BY <2>1, <2>2, Zenon DEF RowInv
<1> QED BY <1>1, Invariance, PTL

(* The body of an accepted submission is there until its link expires, in  *)
(* the row or under the final key: no later upload, losing finalize, sweep *)
(* or deletion job replaces or removes it.                                 *)
THEOREM AcceptedBodiesStay == Spec => []AcceptedIsRetrievable
<1>1. Inv => AcceptedIsRetrievable
    BY InvParts, ZenonT(30) DEF AcceptedIsRetrievable, authorized, ObjectInv, RowOK
<1> QED BY <1>1, Invariance, PTL

(* A deletion job never names an object that a row protects or an open is  *)
(* sending: keys are queued by the transaction that gives them up, and the *)
(* purge and the reconciliation query both spare the grace of an open.     *)
THEOREM JobsSpareObjectsInUse == Spec => []NoJobForObjectInUse
<1>1. Inv => NoJobForObjectInUse
    <2> SUFFICES ASSUME Inv, NEW k \in jobs
                 PROVE  /\ ~Protected(k)
                        /\ \A o \in Openers :
                              opn[o].at = "streaming" => k # <<opn[o].id, opn[o].key, "final">>
        BY Zenon DEF NoJobForObjectInUse
    <2>1. k \in Keys /\ ~Guards(req[k[1]], k[2], k[3], now)
        BY InvParts, Zenon DEF StateInv, KeysInv
    <2>2. ASSUME NEW o \in Openers, opn[o].at = "streaming"
          PROVE  Guards(req[opn[o].id], opn[o].key, "final", now)
        <3> DEFINE row == req[opn[o].id]
        <3>1. /\ opn[o].id \in Requests /\ row.state = "consumed" /\ row.finalKey = opn[o].key
              /\ now <= row.consumedAt + StreamTimeout
            BY <2>2, InvParts, Zenon DEF OpenInv
        <3>2. row.consumedAt \in Int /\ now \in Int
            BY <3>1, InvParts DEF Row
        <3>3. row.consumedAt > now - OpenObjectGrace
            BY <3>1, <3>2, RequestAssumption
        <3> QED BY <3>1, <3>3, Zenon DEF Guards
    <2> QED BY <2>1, <2>2, ProtectedIsGuarded, Zenon
<1> QED BY <1>1, Invariance, PTL

-----------------------------------------------------------------------------
(* The request store implements OneTimeRequest: each action, seen through  *)
(* the phase and the generation a request answers to, is an action of the  *)
(* contract or invisible in it.                                            *)

(* Phase and generation of a row at an instant.                            *)
Late(row, n) == row.state = "uploading" /\ n >= row.reservation

PhaseAt(row, n) ==
    IF row.expires = Null THEN "none"
    ELSE IF row.state = "none" THEN "gone"
    ELSE IF n >= row.expires /\ row.state \notin {"consumed", "cancelled"} THEN "expired"
    ELSE IF ~Late(row, n) THEN row.state
    ELSE IF row.gen = MaxGeneration THEN "unavailable" ELSE "waiting"

GenAt(row, n) ==
    IF PhaseAt(row, n) \in {"none", "gone", "expired"} THEN 0
    ELSE IF Late(row, n) /\ row.gen # MaxGeneration THEN row.gen + 1 ELSE row.gen

Generation(r) == IF Phase(r) \in {"none", "gone", "expired"} THEN 0 ELSE Current(r).gen

phases == [r \in Requests |-> Phase(r)]
generations == [r \in Requests |-> Generation(r)]

LEMMA SeenAt ==
    ASSUME NEW r \in Requests, req[r] \in Row
    PROVE  Phase(r) = PhaseAt(req[r], now) /\ Generation(r) = GenAt(req[r], now)
<1> DEFINE row == req[r]
           new == Reopened(row)
<1>1. /\ new.state = IF row.gen = MaxGeneration THEN "unavailable" ELSE "waiting"
      /\ new.gen = IF row.gen = MaxGeneration THEN row.gen ELSE row.gen + 1
    BY ReopenedFields, Zenon
<1>2. ReservationIsOver(r) <=> Late(row, now)
    BY Zenon DEF ReservationIsOver, Late
<1>3. Current(r) = IF Late(row, now) THEN new ELSE row
    BY <1>2, Zenon DEF Current
<1> HIDE DEF new
<1>4. Phase(r) = PhaseAt(row, now)
    BY <1>1, <1>3, Zenon DEF Phase, PhaseAt
<1>5. Generation(r) = GenAt(row, now)
    BY <1>1, <1>3, <1>4, Zenon DEF Generation, GenAt
<1> QED BY <1>4, <1>5, Zenon

LEMMA SeenNext ==
    ASSUME NEW r \in Requests, req'[r] \in Row
    PROVE  Phase(r)' = PhaseAt(req'[r], now') /\ Generation(r)' = GenAt(req'[r], now')
<1> DEFINE row == req'[r]
           new == Reopened(row)
<1>1. /\ new.state = IF row.gen = MaxGeneration THEN "unavailable" ELSE "waiting"
      /\ new.gen = IF row.gen = MaxGeneration THEN row.gen ELSE row.gen + 1
    BY ReopenedFields, Zenon
<1>2. ReservationIsOver(r)' <=> Late(row, now')
    BY Zenon DEF ReservationIsOver, Late
<1>3. Current(r)' = IF Late(row, now') THEN new ELSE row
    BY <1>2, Zenon DEF Current
<1> HIDE DEF new
<1>4. Phase(r)' = PhaseAt(row, now')
    BY <1>1, <1>3, Zenon DEF Phase, PhaseAt
<1>5. Generation(r)' = GenAt(row, now')
    BY <1>1, <1>3, <1>4, Zenon DEF Generation, GenAt
<1> QED BY <1>4, <1>5, Zenon

(* A step on one row is seen in one place.                                 *)
LEMMA OneSeen ==
    ASSUME Inv, Inv', now' = now, NEW r \in Requests,
           \A q \in Requests \ {r} : req'[q] = req[q]
    PROVE  /\ phases[r] = PhaseAt(req[r], now) /\ generations[r] = GenAt(req[r], now)
           /\ phases' = [phases EXCEPT ![r] = PhaseAt(req'[r], now)]
           /\ generations' = [generations EXCEPT ![r] = GenAt(req'[r], now)]
<1>1. \A q \in Requests : req[q] \in Row /\ req'[q] \in Row
    BY Zenon DEF Inv, StateInv
<1>2. \A q \in Requests : /\ Phase(q) = PhaseAt(req[q], now)
                          /\ Generation(q) = GenAt(req[q], now)
                          /\ Phase(q)' = PhaseAt(req'[q], now)
                          /\ Generation(q)' = GenAt(req'[q], now)
    BY <1>1, SeenAt, SeenNext, Zenon
<1>3. \A q \in Requests \ {r} : Phase(q)' = Phase(q) /\ Generation(q)' = Generation(q)
    BY <1>2, Zenon
<1> QED BY <1>2, <1>3, Zenon DEF phases, generations

(* A row that answers shows its own state and generation.                  *)
LEMMA LiveIsSeen ==
    ASSUME NEW row \in Row, NEW n \in Int, row.expires # Null, row.state # "none",
           n < row.expires, ~Late(row, n)
    PROVE  /\ PhaseAt(row, n) = row.state
           /\ GenAt(row, n) = row.gen
<1>1. row.expires \in Int /\ row.state \in States
    BY Zenon DEF Row
<1>2. PhaseAt(row, n) = row.state
    BY <1>1 DEF PhaseAt
<1>3. row.state \notin {"none", "gone", "expired"}
    BY <1>1, Zenon DEF States
<1> QED BY <1>2, <1>3, Zenon DEF GenAt

LEMMA EndedIsSeen ==
    ASSUME NEW row \in Row, NEW n, row.expires # Null, row.state \in {"consumed", "cancelled"}
    PROVE  PhaseAt(row, n) = row.state /\ GenAt(row, n) = row.gen
BY Zenon DEF PhaseAt, GenAt, Late

(* begin lets a transaction go on with a live row.                         *)
LEMMA BegunIsSeen ==
    ASSUME Inv, NEW r \in Requests, begin(r)
    PROVE  /\ req[r] \in Row /\ RowOK(req[r], accepted[r]) /\ req[r].expires # Null
           /\ now < req[r].expires /\ ~Late(req[r], now)
           /\ PhaseAt(req[r], now) = req[r].state /\ GenAt(req[r], now) = req[r].gen
<1>1. req[r] \in Row /\ RowOK(req[r], accepted[r]) /\ now \in Int
    BY InvParts
<1>2. now < req[r].expires /\ ~Late(req[r], now) /\ req[r].state # "none"
    BY Zenon DEF begin, authorized, ReservationIsOver, Late
<1>3. req[r].expires # Null
    BY <1>1, <1>2, Zenon DEF RowOK
<1> QED BY <1>1, <1>2, <1>3, LiveIsSeen, Zenon

(* A step that moves no row, accepts nothing and releases nothing.         *)
LEMMA Unseen ==
    ASSUME UNCHANGED <<now, req, accepted, released>>
    PROVE  UNCHANGED Link!vars
<1>1. \A r \in Requests : Phase(r)' = Phase(r) /\ Current(r)' = Current(r)
    BY Zenon DEF Phase, Current, ReservationIsOver
<1> QED BY <1>1, Zenon DEF Link!vars

-----------------------------------------------------------------------------
(* One step of the contract for each action that moves a row.              *)

LEMMA CreateSeen ==
    ASSUME Inv, Inv', NEW r \in Requests, Create(r)
    PROVE  Link!Create(r)
<1>1. /\ req \in [Requests -> Row] /\ req[r] \in Row /\ req'[r] \in Row /\ now \in Nat
      /\ RowOK(req[r], accepted[r])
    BY InvParts, Zenon DEF Inv, StateInv
<1>2. /\ req[r].expires = Null /\ UNCHANGED <<now, accepted, released>>
      /\ req' = [req EXCEPT ![r].state = "waiting", ![r].expires = now + TTL]
    BY Zenon DEF Create, history
<1>3. /\ req'[r].state = "waiting" /\ req'[r].expires = now + TTL /\ req'[r].gen = req[r].gen
      /\ \A q \in Requests \ {r} : req'[q] = req[q]
    BY <1>1, <1>2, Zenon DEF Row
<1>4. req[r].gen = 1 /\ PhaseAt(req[r], now) = "none"
    BY <1>1, <1>2, Zenon DEF RowOK, PhaseAt
<1>5. now + TTL # Null /\ now < now + TTL
    BY <1>1, RequestAssumption DEF Null
<1>6. PhaseAt(req'[r], now) = "waiting" /\ GenAt(req'[r], now) = 1
    BY <1>1, <1>3, <1>4, <1>5, LiveIsSeen DEF Late
<1>7. /\ phases[r] = "none"
      /\ phases' = [phases EXCEPT ![r] = "waiting"]
      /\ generations' = [generations EXCEPT ![r] = 1]
    BY <1>2, <1>3, <1>4, <1>6, OneSeen, Zenon
<1> QED BY <1>2, <1>7, Zenon DEF Link!Create, phases, generations, Generation

LEMMA ReserveSeen ==
    ASSUME Inv, Inv', NEW r \in Requests, NEW g, NEW t, NEW b, Reserve(r, g, t, b)
    PROVE  Link!Reserve(r) \/ UNCHANGED Link!vars
<1>0. UNCHANGED <<now, accepted, released>> /\ begin(r) /\ req[r].gen = g
    BY Zenon DEF Reserve
<1>1. CASE UNCHANGED req
    BY <1>0, <1>1, Unseen, Zenon
<1>2. CASE /\ req[r].state = "waiting"
           /\ req' = [req EXCEPT ![r].state = "uploading", ![r].large = TRUE,
                                 ![r].attempt = [token |-> t, large |-> TRUE, body |-> b],
                                 ![r].uploadKey = g, ![r].finalKey = g,
                                 ![r].reservation = Earlier(now + ReservationTTL, req[r].expires)]
    <2>1. /\ req \in [Requests -> Row] /\ req[r] \in Row /\ req'[r] \in Row /\ now \in Nat
        BY InvParts, Zenon DEF Inv, StateInv
    <2>2. /\ req'[r].state = "uploading" /\ req'[r].expires = req[r].expires
          /\ req'[r].gen = req[r].gen
          /\ req'[r].reservation = Earlier(now + ReservationTTL, req[r].expires)
          /\ \A q \in Requests \ {r} : req'[q] = req[q]
        <3> DEFINE until == Earlier(now + ReservationTTL, req[r].expires)
                   attempt == [token |-> t, large |-> TRUE, body |-> b]
        <3>1. req' = [req EXCEPT ![r].state = "uploading", ![r].large = TRUE,
                                 ![r].attempt = attempt, ![r].uploadKey = g,
                                 ![r].finalKey = g, ![r].reservation = until]
            BY <1>2, Zenon
        <3> HIDE DEF until, attempt
        <3>2. /\ req'[r].state = "uploading" /\ req'[r].expires = req[r].expires
              /\ req'[r].gen = req[r].gen /\ req'[r].reservation = until
              /\ \A q \in Requests \ {r} : req'[q] = req[q]
            BY <2>1, <3>1 DEF Row
        <3> QED BY <3>2, Zenon DEF until
    <2>3. /\ req[r].expires # Null /\ now < req[r].expires
          /\ PhaseAt(req[r], now) = "waiting" /\ GenAt(req[r], now) = req[r].gen
        BY <1>0, <1>2, BegunIsSeen, Zenon
    <2>4. now < Earlier(now + ReservationTTL, req[r].expires)
        BY <2>1, <2>3, RequestAssumption DEF Earlier
    <2>5. ~Late(req'[r], now)
        BY <2>1, <2>2, <2>4 DEF Late, Row
    <2>6. PhaseAt(req'[r], now) = "uploading" /\ GenAt(req'[r], now) = GenAt(req[r], now)
        BY <2>1, <2>2, <2>3, <2>5, LiveIsSeen
    <2>7. /\ phases[r] = "waiting"
          /\ phases' = [phases EXCEPT ![r] = "uploading"]
          /\ generations' = [generations EXCEPT ![r] = generations[r]]
        BY <1>0, <2>2, <2>3, <2>6, OneSeen
    <2>8. generations' = generations
        BY <2>7, Zenon DEF generations
    <2> QED BY <1>0, <2>7, <2>8, Zenon DEF Link!Reserve, phases, generations, Generation
<1> QED BY <1>1, <1>2, Zenon DEF Reserve

(* A live row that becomes submitted, with what is recorded as accepted.   *)
LEMMA AcceptanceSeen ==
    ASSUME Inv, Inv', NEW r \in Requests, NEW g, NEW t \in Tokens, NEW b \in Bodies, begin(r),
           req[r].state \in {"waiting", "uploading"}, req[r].gen = g, now' = now,
           RecordAcceptance(r, g, t, b),
           req'[r].state = "submitted", req'[r].expires = req[r].expires,
           req'[r].gen = req[r].gen, \A q \in Requests \ {r} : req'[q] = req[q]
    PROVE  Link!Accept(r)
<1>1. req[r] \in Row /\ req'[r] \in Row /\ now \in Nat
    BY InvParts, Zenon DEF Inv, StateInv
<1>2. /\ req[r].expires # Null /\ now < req[r].expires
      /\ PhaseAt(req[r], now) = req[r].state /\ GenAt(req[r], now) = g
    BY BegunIsSeen, Zenon
<1>3. PhaseAt(req'[r], now) = "submitted" /\ GenAt(req'[r], now) = g
    BY <1>1, <1>2, LiveIsSeen DEF Late
<1>4. /\ phases[r] \in {"waiting", "uploading"} /\ generations[r] = g
      /\ phases' = [phases EXCEPT ![r] = "submitted"]
      /\ generations' = [generations EXCEPT ![r] = generations[r]]
    BY <1>2, <1>3, OneSeen
<1>5. generations' = generations
    BY <1>4, Zenon DEF generations
<1>6. /\ accepted' = [accepted EXCEPT ![r] = [gen |-> generations[r], token |-> t, body |-> b]]
      /\ UNCHANGED released
    BY <1>4, Zenon DEF RecordAcceptance
<1> QED BY <1>4, <1>5, <1>6, Zenon DEF Link!Accept, Link!Open, phases, generations, Generation

LEMMA SubmitSeen ==
    ASSUME Inv, Inv', NEW r \in Requests, NEW g, NEW t \in Tokens, NEW b \in Bodies,
           Submit(r, g, t, b)
    PROVE  Link!Accept(r) \/ UNCHANGED Link!vars
<1>0. now' = now /\ begin(r) /\ req[r].gen = g
    BY Zenon DEF Submit
<1>1. CASE UNCHANGED <<req, accepted, released>>
    BY <1>0, <1>1, Unseen, Zenon
<1>2. CASE /\ req[r].state = "waiting" /\ RecordAcceptance(r, g, t, b)
           /\ req' = [req EXCEPT ![r].state = "submitted", ![r].payload = b,
                                 ![r].attempt = [token |-> t, large |-> FALSE, body |-> b]]
    <2>1. req \in [Requests -> Row] /\ req[r] \in Row
        BY InvParts, Zenon DEF StateInv
    <2>2. /\ req'[r].state = "submitted" /\ req'[r].expires = req[r].expires
          /\ req'[r].gen = req[r].gen /\ \A q \in Requests \ {r} : req'[q] = req[q]
        BY <1>2, <2>1, Zenon DEF Row
    <2> QED BY <1>0, <1>2, <2>2, AcceptanceSeen, Zenon
<1> QED BY <1>1, <1>2, Zenon DEF Submit

LEMMA FinalizeAttemptSeen ==
    ASSUME Inv, Inv', NEW f \in Finalizers, finalizeAttempt(f)
    PROVE  (\E r \in Requests : Link!Accept(r)) \/ UNCHANGED Link!vars
<1> DEFINE r == fin[f].id
           g == fin[f].gen
           t == fin[f].token
           b == fin[f].body
<1>0. now' = now /\ fin[f].at = "copied"
    BY Zenon DEF finalizeAttempt
<1>1. CASE UNCHANGED <<req, accepted, released>>
    BY <1>0, <1>1, Unseen, Zenon
<1>2. CASE AcceptUpload(f)
    <2>1. r \in Requests /\ t \in Tokens /\ b \in Bodies
        BY <1>0, InvParts, Zenon DEF FinalizeInv
    <2>2. /\ req[r].state = "uploading" /\ begin(r) /\ req[r].gen = g
          /\ RecordAcceptance(r, g, t, b)
          /\ req' = [req EXCEPT ![r].state = "submitted", ![r].uploadKey = 0,
                                ![r].reservation = Null]
        BY <1>2, Zenon DEF AcceptUpload, Known
    <2>3. req \in [Requests -> Row] /\ req[r] \in Row
        BY <2>1, InvParts, Zenon DEF StateInv
    <2>4. /\ req'[r].state = "submitted" /\ req'[r].expires = req[r].expires
          /\ req'[r].gen = req[r].gen /\ \A q \in Requests \ {r} : req'[q] = req[q]
        BY <2>1, <2>2, <2>3, Zenon DEF Row
    <2> HIDE DEF r, g, t, b
    <2>5. Link!Accept(r)
        BY <1>0, <2>1, <2>2, <2>4, AcceptanceSeen, Zenon
    <2> QED BY <2>1, <2>5, Zenon
<1> QED BY <1>1, <1>2, Zenon DEF finalizeAttempt

(* A live submitted row that becomes consumed, with what was released.     *)
LEMMA ConsumptionSeen ==
    ASSUME Inv, Inv', NEW r \in Requests, begin(r), req[r].state = "submitted",
           UNCHANGED <<now, accepted>>,
           released' = [released EXCEPT ![r] = accepted[r].body],
           req'[r].state = "consumed", req'[r].expires = req[r].expires,
           req'[r].gen = req[r].gen, \A q \in Requests \ {r} : req'[q] = req[q]
    PROVE  Link!Consume(r)
<1>1. req'[r] \in Row
    BY Zenon DEF Inv, StateInv
<1>2. /\ req[r].expires # Null
      /\ PhaseAt(req[r], now) = "submitted" /\ GenAt(req[r], now) = req[r].gen
    BY BegunIsSeen, Zenon
<1>3. PhaseAt(req'[r], now) = "consumed" /\ GenAt(req'[r], now) = req[r].gen
    BY <1>1, <1>2, EndedIsSeen, Zenon
<1>4. /\ phases[r] = "submitted" /\ phases' = [phases EXCEPT ![r] = "consumed"]
      /\ generations' = [generations EXCEPT ![r] = generations[r]]
    BY <1>2, <1>3, OneSeen
<1>5. generations' = generations
    BY <1>4, Zenon DEF generations
<1> QED BY <1>4, <1>5, Zenon DEF Link!Consume, phases, generations, Generation

LEMMA OpenSeen ==
    ASSUME Inv, Inv', NEW r \in Requests, NEW o \in Openers, Open(o, r)
    PROVE  Link!Consume(r) \/ UNCHANGED Link!vars
<1>0. UNCHANGED <<now, accepted>> /\ begin(r) /\ req[r].state = "submitted"
    BY Zenon DEF Open
<1>1. CASE UNCHANGED <<req, released>>
    BY <1>0, <1>1, Unseen, Zenon
<1>2. CASE /\ ~req[r].large
           /\ req' = [req EXCEPT ![r].state = "consumed", ![r].payload = None,
                                 ![r].consumedAt = now]
           /\ released' = [released EXCEPT ![r] = req[r].payload]
    <2>1. req \in [Requests -> Row] /\ req[r] \in Row /\ RowOK(req[r], accepted[r])
        BY InvParts, Zenon DEF StateInv
    <2>2. /\ req'[r].state = "consumed" /\ req'[r].expires = req[r].expires
          /\ req'[r].gen = req[r].gen /\ \A q \in Requests \ {r} : req'[q] = req[q]
        BY <1>2, <2>1, Zenon DEF Row
    <2>3. released' = [released EXCEPT ![r] = accepted[r].body]
        BY <1>0, <1>2, <2>1, Zenon DEF RowOK
    <2> QED BY <1>0, <2>2, <2>3, ConsumptionSeen, Zenon
<1> QED BY <1>1, <1>2, Zenon DEF Open

LEMMA ConsumeObjectSeen ==
    ASSUME Inv, Inv', NEW o \in Openers, consumeObject(o)
    PROVE  \E r \in Requests : Link!Consume(r)
<1> DEFINE r == opn[o].id
<1>1. /\ opn[o].at = "opened" /\ begin(r) /\ req[r].state = "submitted"
      /\ now < req[r].expires /\ UNCHANGED <<now, accepted>>
      /\ req' = [req EXCEPT ![r].state = "consumed", ![r].consumedAt = now]
      /\ released' = [released EXCEPT ![r] = opn[o].body]
    BY Zenon DEF consumeObject, begin, authorized
<1>2. r \in Requests /\ opn[o].body = accepted[r].body
    BY <1>1, InvParts, Zenon DEF OpenInv
<1>3. req \in [Requests -> Row] /\ req[r] \in Row
    BY <1>2, InvParts, Zenon DEF StateInv
<1>4. /\ req'[r].state = "consumed" /\ req'[r].expires = req[r].expires
      /\ req'[r].gen = req[r].gen /\ \A q \in Requests \ {r} : req'[q] = req[q]
    BY <1>1, <1>2, <1>3, Zenon DEF Row
<1>5. released' = [released EXCEPT ![r] = accepted[r].body]
    BY <1>1, <1>2, Zenon
<1> HIDE DEF r
<1>6. Link!Consume(r)
    BY <1>1, <1>2, <1>4, <1>5, ConsumptionSeen, Zenon
<1> QED BY <1>2, <1>6, Zenon

(* The end of a stream only drops the key: the request was consumed.       *)
LEMMA FinishOpenSeen ==
    ASSUME Inv, Inv', NEW o \in Openers, FinishOpen(o)
    PROVE  UNCHANGED Link!vars
<1> DEFINE r == opn[o].id
<1>0. UNCHANGED <<now, accepted, released>> /\ opn[o].at = "ended"
    BY Zenon DEF FinishOpen, history
<1>1. CASE UNCHANGED req
    BY <1>0, <1>1, Unseen, Zenon
<1>2. CASE req[r].state = "consumed" /\ req' = [req EXCEPT ![r].finalKey = 0]
    <2>1. r \in Requests
        BY <1>0, InvParts, Zenon DEF OpenInv
    <2>2. /\ req \in [Requests -> Row] /\ req[r] \in Row /\ req'[r] \in Row
          /\ RowOK(req[r], accepted[r])
        BY <2>1, InvParts, Zenon DEF Inv, StateInv
    <2>3. /\ req'[r].state = "consumed" /\ req'[r].expires = req[r].expires
          /\ req'[r].gen = req[r].gen /\ \A q \in Requests \ {r} : req'[q] = req[q]
        BY <1>2, <2>1, <2>2, Zenon DEF Row
    <2>4. req[r].expires # Null
        BY <1>2, <2>2, Zenon DEF RowOK
    <2> HIDE DEF r
    <2>a. PhaseAt(req[r], now) = "consumed" /\ GenAt(req[r], now) = req[r].gen
        BY <1>2, <2>2, <2>4, EndedIsSeen, Zenon DEF r
    <2>b. PhaseAt(req'[r], now) = "consumed" /\ GenAt(req'[r], now) = req[r].gen
        BY <2>2, <2>3, <2>4, EndedIsSeen, Zenon
    <2>5. /\ PhaseAt(req'[r], now) = PhaseAt(req[r], now)
          /\ GenAt(req'[r], now) = GenAt(req[r], now)
        BY <2>a, <2>b, Zenon
    <2>6. /\ phases' = [phases EXCEPT ![r] = phases[r]]
          /\ generations' = [generations EXCEPT ![r] = generations[r]]
        BY <1>0, <2>1, <2>3, <2>5, OneSeen
    <2>7. phases' = phases /\ generations' = generations
        BY <2>6, Zenon DEF phases, generations
    <2> QED BY <1>0, <2>7, Zenon DEF Link!vars, phases, generations, Generation
<1> QED BY <1>1, <1>2, Zenon DEF FinishOpen

(* Revoking again what was cancelled is invisible.                         *)
LEMMA RevokeSeen ==
    ASSUME Inv, Inv', NEW r \in Requests, Revoke(r)
    PROVE  Link!Cancel(r) \/ UNCHANGED Link!vars
<1>1. /\ UNCHANGED <<now, accepted, released>> /\ begin(r) /\ authorized(r)
      /\ req[r].state # "consumed" /\ req' = [req EXCEPT ![r] = Cancelled(req[r])]
    BY Zenon DEF Revoke, begin, history
<1>2. req \in [Requests -> Row] /\ req[r] \in Row
    BY InvParts, Zenon DEF StateInv
<1>3. /\ req[r].expires # Null
      /\ PhaseAt(req[r], now) = req[r].state /\ GenAt(req[r], now) = req[r].gen
    BY <1>1, BegunIsSeen, Zenon
<1>4. req[r].state \in {"waiting", "uploading", "submitted", "cancelled"}
    BY <1>1, <1>2, Zenon DEF authorized, Row, States
<1>5. req'[r] = Cancelled(req[r]) /\ \A q \in Requests \ {r} : req'[q] = req[q]
    BY <1>1, <1>2, Zenon
<1>6. /\ req'[r] \in Row /\ req'[r].state = "cancelled" /\ req'[r].expires = req[r].expires
      /\ req'[r].gen = req[r].gen
    BY <1>2, <1>5, CancelledFields
<1>7. PhaseAt(req'[r], now) = "cancelled" /\ GenAt(req'[r], now) = req[r].gen
    BY <1>3, <1>6, EndedIsSeen, Zenon
<1>8. /\ phases[r] = req[r].state /\ phases' = [phases EXCEPT ![r] = "cancelled"]
      /\ generations' = [generations EXCEPT ![r] = generations[r]]
    BY <1>1, <1>3, <1>5, <1>7, OneSeen
<1>9. generations' = generations
    BY <1>8, Zenon DEF generations
<1>10. CASE req[r].state = "cancelled"
    <2>1. phases' = phases
        BY <1>8, <1>10, Zenon DEF phases
    <2> QED BY <1>1, <1>9, <2>1, Zenon DEF Link!vars, phases, generations, Generation
<1>11. CASE req[r].state # "cancelled"
    <2>1. phases[r] \in {"waiting", "uploading", "submitted"}
        BY <1>4, <1>8, <1>11, Zenon
    <2> QED BY <1>1, <1>8, <1>9, <2>1, Zenon DEF Link!Cancel, Link!Open, phases, generations, Generation
<1> QED BY <1>10, <1>11, Zenon

-----------------------------------------------------------------------------
(* Reservations that end, requests that expire, rows that are purged.      *)

(* Ending an overdue reservation is invisible: the request already answers *)
(* to the next generation.                                                 *)
LEMMA OverdueIsReopened ==
    ASSUME NEW row \in Row, NEW n \in Int, row.expires # Null, Late(row, n)
    PROVE  /\ PhaseAt(Reopened(row), n) = PhaseAt(row, n)
           /\ GenAt(Reopened(row), n) = GenAt(row, n)
<1> DEFINE new == Reopened(row)
<1>1. /\ new.state = IF row.gen = MaxGeneration THEN "unavailable" ELSE "waiting"
      /\ new.gen = IF row.gen = MaxGeneration THEN row.gen ELSE row.gen + 1
      /\ new.expires = row.expires
    BY ReopenedFields, Zenon
<1> HIDE DEF new
<1>2. row.state = "uploading"
    BY Zenon DEF Late
<1>3. ~Late(new, n)
    BY <1>1, Zenon DEF Late
<1>4. PhaseAt(new, n) = PhaseAt(row, n)
    BY <1>1, <1>2, <1>3, Zenon DEF PhaseAt
<1>5. GenAt(new, n) = GenAt(row, n)
    BY <1>1, <1>3, <1>4, Zenon DEF GenAt
<1> QED BY <1>4, <1>5, Zenon DEF new

(* A reservation that ends before its time.                                *)
LEMMA CurrentIsReopened ==
    ASSUME NEW row \in Row, NEW n \in Int, row.expires # Null, row.state = "uploading",
           n < row.expires, ~Late(row, n)
    PROVE  /\ PhaseAt(row, n) = "uploading" /\ GenAt(row, n) = row.gen
           /\ PhaseAt(Reopened(row), n) = IF row.gen = MaxGeneration THEN "unavailable" ELSE "waiting"
           /\ GenAt(Reopened(row), n) = IF row.gen < MaxGeneration THEN row.gen + 1 ELSE row.gen
<1> DEFINE new == Reopened(row)
<1>1. /\ new \in Row
      /\ new.state = IF row.gen = MaxGeneration THEN "unavailable" ELSE "waiting"
      /\ new.gen = IF row.gen = MaxGeneration THEN row.gen ELSE row.gen + 1
      /\ new.expires = row.expires
    BY ReopenedFields, Zenon
<1> HIDE DEF new
<1>2. ~Late(new, n) /\ new.state # "none"
    BY <1>1, Zenon DEF Late
<1>3. PhaseAt(new, n) = new.state /\ GenAt(new, n) = new.gen
    BY <1>1, <1>2, LiveIsSeen
<1>4. PhaseAt(row, n) = "uploading" /\ GenAt(row, n) = row.gen
    BY LiveIsSeen, Zenon
<1>5. row.gen \in 1 .. MaxGeneration
    BY Zenon DEF Row
<1>6. row.gen < MaxGeneration <=> row.gen # MaxGeneration
    BY <1>5, RequestAssumption
<1>7. /\ PhaseAt(new, n) = IF row.gen = MaxGeneration THEN "unavailable" ELSE "waiting"
      /\ GenAt(new, n) = IF row.gen < MaxGeneration THEN row.gen + 1 ELSE row.gen
    BY <1>1, <1>3, <1>6, Zenon
<1> QED BY <1>4, <1>7, Zenon DEF new

LEMMA EndReservationSeen ==
    ASSUME Inv, Inv', NEW r \in Requests, BeginEndsReservation(r)
    PROVE  UNCHANGED Link!vars
<1>1. /\ UNCHANGED <<now, accepted, released>> /\ ReservationIsOver(r)
      /\ req' = [req EXCEPT ![r] = Reopened(req[r])]
    BY Zenon DEF BeginEndsReservation, endReservationTx, history
<1>2. /\ req \in [Requests -> Row] /\ req[r] \in Row /\ now \in Int
      /\ RowOK(req[r], accepted[r])
    BY InvParts, SMTT(20) DEF StateInv
<1>3. Late(req[r], now) /\ req[r].expires # Null
    BY <1>1, <1>2, Zenon DEF ReservationIsOver, Late, RowOK
<1>4. req'[r] = Reopened(req[r]) /\ \A q \in Requests \ {r} : req'[q] = req[q]
    BY <1>1, <1>2, Zenon
<1>5. /\ PhaseAt(req'[r], now) = PhaseAt(req[r], now)
      /\ GenAt(req'[r], now) = GenAt(req[r], now)
    BY <1>2, <1>3, <1>4, OverdueIsReopened, Zenon
<1>6. /\ phases' = [phases EXCEPT ![r] = phases[r]]
      /\ generations' = [generations EXCEPT ![r] = generations[r]]
    BY <1>1, <1>4, <1>5, OneSeen
<1>7. phases' = phases /\ generations' = generations
    BY <1>6, Zenon DEF phases, generations
<1> QED BY <1>1, <1>7, Zenon DEF Link!vars, phases, generations, Generation

LEMMA AbandonSeen ==
    ASSUME Inv, Inv', NEW r \in Requests, NEW g, NEW t, Abandon(r, g, t)
    PROVE  Link!EndAndExpire({r}, {})
<1>1. /\ UNCHANGED <<now, accepted, released>> /\ begin(r) /\ req[r].state = "uploading"
      /\ req' = [req EXCEPT ![r] = Reopened(req[r])]
    BY Zenon DEF Abandon, Known, endReservationTx, history
<1>2. req \in [Requests -> Row] /\ req[r] \in Row /\ now \in Int
    BY InvParts DEF StateInv
<1>3. req[r].expires # Null /\ now < req[r].expires /\ ~Late(req[r], now)
    BY <1>1, BegunIsSeen, Zenon
<1>4. req'[r] = Reopened(req[r]) /\ \A q \in Requests \ {r} : req'[q] = req[q]
    BY <1>1, <1>2, Zenon
<1> DEFINE p == IF generations[r] = MaxGeneration THEN "unavailable" ELSE "waiting"
           g2 == IF generations[r] < MaxGeneration THEN generations[r] + 1 ELSE generations[r]
<1>5. /\ PhaseAt(req[r], now) = "uploading" /\ GenAt(req[r], now) = req[r].gen
      /\ PhaseAt(req'[r], now) = IF req[r].gen = MaxGeneration THEN "unavailable" ELSE "waiting"
      /\ GenAt(req'[r], now) = IF req[r].gen < MaxGeneration THEN req[r].gen + 1 ELSE req[r].gen
    BY <1>1, <1>2, <1>3, <1>4, CurrentIsReopened, Zenon
<1>6. /\ phases[r] = "uploading" /\ phases' = [phases EXCEPT ![r] = p]
      /\ generations' = [generations EXCEPT ![r] = g2]
    BY <1>1, <1>4, <1>5, OneSeen
<1>7. /\ phases' = [q \in Requests |-> IF q \notin {r} THEN phases[q]
                         ELSE IF generations[q] = MaxGeneration THEN "unavailable" ELSE "waiting"]
      /\ generations' = [q \in Requests |-> IF q \in {r} /\ generations[q] < MaxGeneration
                                               THEN generations[q] + 1 ELSE generations[q]]
    BY <1>6, Zenon DEF phases, generations
<1>8. /\ phases' = [q \in Requests |-> IF q \in {} THEN "expired"
                         ELSE IF q \notin {r} THEN phases[q]
                         ELSE IF generations[q] = MaxGeneration THEN "unavailable" ELSE "waiting"]
      /\ generations' = [q \in Requests |-> IF q \in {} THEN 0
                         ELSE IF q \in {r} /\ generations[q] < MaxGeneration
                                               THEN generations[q] + 1 ELSE generations[q]]
    BY <1>7, Zenon
<1>9. (\A q \in {r} : phases[q] = "uploading") /\ UNCHANGED <<accepted, released>>
    BY <1>1, <1>6, Zenon
<1> HIDE DEF p, g2
<1> QED BY <1>8, <1>9, Zenon DEF Link!EndAndExpire, phases, generations, Generation

(* What the next instant makes of a row.                                   *)
LEMMA NextInstant ==
    ASSUME NEW row \in Row, NEW n \in Nat
    PROVE  LET p == PhaseAt(row, n)
               g == GenAt(row, n)
               e == p = "uploading" /\ Late(row, n + 1)
               x == p # "expired" /\ PhaseAt(row, n + 1) = "expired"
           IN  /\ x => p \in {"waiting", "uploading", "submitted", "unavailable"}
               /\ PhaseAt(row, n + 1) =
                     IF x THEN "expired"
                     ELSE IF ~e THEN p
                     ELSE IF g = MaxGeneration THEN "unavailable" ELSE "waiting"
               /\ GenAt(row, n + 1) =
                     IF x THEN 0 ELSE IF e /\ g < MaxGeneration THEN g + 1 ELSE g
<1> DEFINE p == PhaseAt(row, n)
           g == GenAt(row, n)
           m == n + 1
           e == p = "uploading" /\ Late(row, m)
           x == p # "expired" /\ PhaseAt(row, m) = "expired"
           last == IF row.gen = MaxGeneration THEN "unavailable" ELSE "waiting"
           Seen == /\ x => p \in {"waiting", "uploading", "submitted", "unavailable"}
                   /\ PhaseAt(row, m) = IF x THEN "expired"
                                        ELSE IF ~e THEN p
                                        ELSE IF g = MaxGeneration THEN "unavailable" ELSE "waiting"
                   /\ GenAt(row, m) = IF x THEN 0
                                      ELSE IF e /\ g < MaxGeneration THEN g + 1 ELSE g
<1> SUFFICES Seen
    BY Zenon
<1>0. /\ row.expires \in Int /\ row.reservation \in Int /\ row.state \in States \cup {"none"}
      /\ row.gen \in 1 .. MaxGeneration /\ m \in Int /\ n < m /\ \A d \in Int : n >= d => m >= d
      /\ \A d \in Int : m >= d <=> ~(m < d)
      /\ \A d \in Int : n >= d <=> ~(n < d)
    BY DEF Row
<1>1. row.gen < MaxGeneration <=> row.gen # MaxGeneration
    BY <1>0, RequestAssumption
<1>2. Late(row, n) => Late(row, m)
    BY <1>0, Zenon DEF Late
<1> HIDE DEF m
<1>3. CASE row.expires = Null \/ row.state = "none"
    <2>1. p \in {"none", "gone"} /\ PhaseAt(row, m) = p /\ g = 0 /\ GenAt(row, m) = 0
        BY <1>3, Zenon DEF PhaseAt, GenAt
    <2> QED BY <2>1, Zenon
<1>4. CASE /\ row.expires # Null /\ row.state # "none"
           /\ n >= row.expires /\ row.state \notin {"consumed", "cancelled"}
    <2>1. p = "expired" /\ PhaseAt(row, m) = "expired" /\ g = 0 /\ GenAt(row, m) = 0
        BY <1>0, <1>4, Zenon DEF PhaseAt, GenAt
    <2> QED BY <2>1, Zenon
<1>5. CASE row.expires # Null /\ row.state \in {"consumed", "cancelled"}
    <2>1. /\ p = row.state /\ PhaseAt(row, m) = row.state
          /\ g = row.gen /\ GenAt(row, m) = row.gen
        BY <1>5, EndedIsSeen, Zenon
    <2> QED BY <1>5, <2>1, Zenon
<1>6. CASE /\ row.expires # Null /\ row.state # "none" /\ ~(n >= row.expires)
           /\ row.state \notin {"consumed", "cancelled"} /\ m >= row.expires
    <2>1. row.state \in {"waiting", "uploading", "submitted", "unavailable"}
        BY <1>0, <1>6, Zenon DEF States
    <2>2. PhaseAt(row, m) = "expired" /\ GenAt(row, m) = 0
        BY <1>6, Zenon DEF PhaseAt, GenAt
    <2>3. p \in {"waiting", "uploading", "submitted", "unavailable"}
        BY <1>6, <2>1, Zenon DEF PhaseAt
    <2> QED BY <2>2, <2>3
<1>7. CASE /\ row.expires # Null /\ row.state # "none" /\ ~(n >= row.expires)
           /\ row.state \notin {"consumed", "cancelled"} /\ ~(m >= row.expires)
    <2>1. row.state \in {"waiting", "uploading", "submitted", "unavailable"}
        BY <1>0, <1>7, Zenon DEF States
    <2>2. CASE Late(row, n)
        <3>1. /\ p = last /\ PhaseAt(row, m) = last
              /\ p # "uploading" /\ p # "expired"
            BY <1>2, <1>7, <2>2, Zenon DEF PhaseAt
        <3>2. GenAt(row, m) = g
            BY <1>2, <2>2, <3>1, Zenon DEF GenAt
        <3> QED BY <3>1, <3>2, Zenon
    <2>3. CASE ~Late(row, n) /\ ~Late(row, m)
        <3>1. /\ p = row.state /\ PhaseAt(row, m) = row.state /\ row.state # "expired"
              /\ GenAt(row, m) = g
            BY <1>7, <2>1, <2>3, Zenon DEF PhaseAt, GenAt
        <3> QED BY <2>3, <3>1, Zenon
    <2>4. CASE ~Late(row, n) /\ Late(row, m)
        <3>1. p = "uploading" /\ PhaseAt(row, m) = last
            BY <1>7, <2>4, Zenon DEF PhaseAt, Late
        <3>2. g = row.gen
            BY <2>4, <3>1, Zenon DEF GenAt
        <3>3. GenAt(row, m) = IF row.gen < MaxGeneration THEN row.gen + 1 ELSE row.gen
            BY <1>1, <2>4, <3>1, Zenon DEF GenAt
        <3>4. e /\ ~x
            BY <2>4, <3>1, Zenon
        <3> QED BY <3>1, <3>2, <3>3, <3>4, Zenon
    <2> QED BY <2>2, <2>3, <2>4, Zenon
<1> HIDE DEF Seen
<1> QED BY <1>0, <1>3, <1>4, <1>5, <1>6, <1>7

LEMMA AllSeen ==
    ASSUME Inv, Inv'
    PROVE  /\ \A q \in Requests : /\ phases[q] = PhaseAt(req[q], now)
                                  /\ generations[q] = GenAt(req[q], now)
           /\ phases' = [q \in Requests |-> PhaseAt(req'[q], now')]
           /\ generations' = [q \in Requests |-> GenAt(req'[q], now')]
<1>1. \A q \in Requests : req[q] \in Row /\ req'[q] \in Row
    BY Zenon DEF Inv, StateInv
<1>2. \A q \in Requests : /\ Phase(q) = PhaseAt(req[q], now)
                          /\ Generation(q) = GenAt(req[q], now)
                          /\ Phase(q)' = PhaseAt(req'[q], now')
                          /\ Generation(q)' = GenAt(req'[q], now')
    BY <1>1, SeenAt, SeenNext, Zenon
<1> QED BY <1>2, Zenon DEF phases, generations

(* Time ends reservations and lets requests expire, any number at once.    *)
LEMMA TickSeen ==
    ASSUME Inv, Inv', Tick
    PROVE  \E E, X \in SUBSET Requests : Link!EndAndExpire(E, X)
<1> DEFINE E == {q \in Requests : phases[q] = "uploading" /\ Late(req[q], now + 1)}
           X == {q \in Requests : phases[q] # "expired" /\ PhaseAt(req[q], now + 1) = "expired"}
<1>1. now' = now + 1 /\ UNCHANGED <<req, accepted, released>>
    BY Zenon DEF Tick, history
<1>2. now \in Nat /\ \A q \in Requests : req[q] \in Row
    BY InvParts, Zenon
<1>3. \A q \in Requests : phases[q] = PhaseAt(req[q], now) /\ generations[q] = GenAt(req[q], now)
    BY AllSeen, Zenon
<1>4. ASSUME NEW q \in Requests
      PROVE  /\ q \in X => phases[q] \in {"waiting", "uploading", "submitted", "unavailable"}
             /\ PhaseAt(req[q], now + 1) =
                   IF q \in X THEN "expired"
                   ELSE IF q \notin E THEN phases[q]
                   ELSE IF generations[q] = MaxGeneration THEN "unavailable" ELSE "waiting"
             /\ GenAt(req[q], now + 1) =
                   IF q \in X THEN 0
                   ELSE IF q \in E /\ generations[q] < MaxGeneration
                      THEN generations[q] + 1 ELSE generations[q]
    BY <1>2, <1>3, NextInstant
<1>5. /\ phases' = [q \in Requests |-> PhaseAt(req[q], now + 1)]
      /\ generations' = [q \in Requests |-> GenAt(req[q], now + 1)]
    BY <1>1, AllSeen, Zenon
<1>6. /\ E \in SUBSET Requests /\ X \in SUBSET Requests
      /\ \A q \in E : phases[q] = "uploading"
      /\ \A q \in X : phases[q] \in {"waiting", "uploading"} \cup {"submitted", "unavailable"}
    BY <1>4, Zenon
<1> HIDE DEF E, X
<1>7. /\ phases' = [q \in Requests |->
                       IF q \in X THEN "expired"
                       ELSE IF q \notin E THEN phases[q]
                       ELSE IF generations[q] = MaxGeneration THEN "unavailable" ELSE "waiting"]
      /\ generations' = [q \in Requests |->
                            IF q \in X THEN 0
                            ELSE IF q \in E /\ generations[q] < MaxGeneration
                               THEN generations[q] + 1 ELSE generations[q]]
    BY <1>4, <1>5, Zenon
<1>8. Link!EndAndExpire(E, X)
    BY <1>1, <1>6, <1>7, Zenon DEF Link!EndAndExpire, Link!Open, phases, generations, Generation
<1> QED BY <1>6, <1>8, Zenon

(* A batch of the reaper forgets requests that ended; the reservations it  *)
(* ends were overdue.                                                      *)
LEMMA PurgeSeen ==
    ASSUME Inv, Inv', PurgeExpiredTx
    PROVE  \E R \in SUBSET Requests : Link!Forget(R)
<1>1. /\ UNCHANGED <<now, accepted, released>> /\ reaperNow \in Int /\ reaperNow <= now
      /\ now \in Int
      /\ \A q \in Requests : req[q] \in Row /\ RowOK(req[q], accepted[q])
    BY InvParts DEF PurgeExpiredTx, history, StateInv
<1>2. PICK ends \in SUBSET Requests, drops \in SUBSET Requests :
          /\ ends \subseteq {q \in Requests : Overdue(q)}
          /\ drops \subseteq {q \in Requests : Purgeable(q)}
          /\ req' = [q \in Requests |->
                        IF q \in ends THEN Reopened(req[q])
                        ELSE IF q \in drops THEN [NoRow EXCEPT !.expires = req[q].expires]
                        ELSE req[q]]
    BY Zenon DEF PurgeExpiredTx, FirstBatch
<1>3. ASSUME NEW q \in ends
      PROVE  /\ q \notin drops
             /\ PhaseAt(req'[q], now) = PhaseAt(req[q], now)
             /\ GenAt(req'[q], now) = GenAt(req[q], now)
    <2>1. q \in Requests /\ Overdue(q) /\ req'[q] = Reopened(req[q])
        BY <1>2, Zenon
    <2>2. req[q].expires \in Int /\ req[q].reservation \in Int
        BY <1>1, <2>1, Zenon DEF Row
    <2>3. /\ req[q].state = "uploading" /\ req[q].reservation <= reaperNow
          /\ req[q].expires > reaperNow
        BY <2>1, Zenon DEF Overdue
    <2>4. req[q].expires # Null
        BY <1>1, <2>1, <2>3, Zenon DEF RowOK
    <2>5. Late(req[q], now)
        BY <1>1, <2>2, <2>3, SMTT(20) DEF Late
    <2>6. q \notin drops
        BY <1>1, <1>2, <2>2, <2>3, SMTT(20) DEF Purgeable
    <2> QED BY <1>1, <2>1, <2>3, <2>4, <2>5, <2>6, OverdueIsReopened, Zenon
<1>4. ASSUME NEW q \in drops
      PROVE  /\ PhaseAt(req[q], now) \in {"consumed", "cancelled", "expired"}
             /\ PhaseAt(req'[q], now) = "gone" /\ GenAt(req'[q], now) = 0
    <2>1. q \in Requests /\ Purgeable(q) /\ q \notin ends
        BY <1>2, <1>3, Zenon
    <2>2. req'[q] = [NoRow EXCEPT !.expires = req[q].expires]
        BY <1>2, <2>1, Zenon
    <2>3. req[q].expires \in Int /\ req[q] \in Row
        BY <1>1, <2>1, Zenon DEF Row
    <2>4. req[q].state # "none" /\ req[q].expires # Null /\ now >= req[q].expires
        BY <1>1, <2>1, <2>3 DEF Purgeable, RowOK
    <2>5. req'[q].state = "none" /\ req'[q].expires = req[q].expires
        BY <2>2, Zenon DEF NoRow
    <2>6. PhaseAt(req[q], now) \in {"consumed", "cancelled", "expired"}
        BY <2>4, Zenon DEF PhaseAt, Late
    <2>7. PhaseAt(req'[q], now) = "gone"
        BY <2>4, <2>5, Zenon DEF PhaseAt
    <2> QED BY <2>6, <2>7, Zenon DEF GenAt
<1>5. ASSUME NEW q \in Requests \ (ends \cup drops)
      PROVE  req'[q] = req[q]
    BY <1>2, Zenon
<1>6. \A q \in Requests : phases[q] = PhaseAt(req[q], now) /\ generations[q] = GenAt(req[q], now)
    BY AllSeen, Zenon
<1>7. /\ phases' = [q \in Requests |-> PhaseAt(req'[q], now)]
      /\ generations' = [q \in Requests |-> GenAt(req'[q], now)]
    BY <1>1, AllSeen, Zenon
<1>8. \A q \in Requests :
          /\ PhaseAt(req'[q], now) = IF q \in drops THEN "gone" ELSE phases[q]
          /\ GenAt(req'[q], now) = IF q \in drops THEN 0 ELSE generations[q]
    <2> TAKE q \in Requests
    <2>1. CASE q \in drops
        BY <1>4, <2>1, Zenon
    <2>2. CASE q \in ends
        BY <1>3, <1>6, <2>2, Zenon
    <2>3. CASE q \notin ends /\ q \notin drops
        BY <1>5, <1>6, <2>3, Zenon
    <2> QED BY <2>1, <2>2, <2>3, Zenon
<1>9. /\ phases' = [q \in Requests |-> IF q \in drops THEN "gone" ELSE phases[q]]
      /\ generations' = [q \in Requests |-> IF q \in drops THEN 0 ELSE generations[q]]
    BY <1>7, <1>8, Zenon
<1>10. \A q \in drops : phases[q] \in {"consumed", "cancelled", "unavailable", "expired"}
    BY <1>2, <1>4, <1>6, Zenon
<1>11. Link!Forget(drops)
    BY <1>1, <1>9, <1>10, Zenon DEF Link!Forget, Link!Ended, phases, generations, Generation
<1> QED BY <1>11, Zenon

-----------------------------------------------------------------------------
LEMMA InitSeen == Init => Link!Init
<1> SUFFICES ASSUME Init
             PROVE  Link!Init
    BY Zenon
<1>1. \A r \in Requests : req[r] = NoRow
    BY Zenon DEF Init
<1>2. \A r \in Requests : Phase(r) = "none"
    <2>1. NoRow.expires = Null
        BY Zenon DEF NoRow
    <2> QED BY <1>1, <2>1, Zenon DEF Phase
<1>3. accepted = [r \in Requests |-> None] /\ released = [r \in Requests |-> None]
    BY Zenon DEF Init
<1>4. [r \in Requests |-> Phase(r)] = [r \in Requests |-> "none"]
    BY <1>2, Zenon
<1>5. [r \in Requests |-> IF Phase(r) \in {"none", "gone", "expired"} THEN 0 ELSE Current(r).gen]
      = [r \in Requests |-> 0]
    BY <1>2, Zenon
<1> QED BY <1>3, <1>4, <1>5, Zenon DEF Link!Init

LEMMA NextSeen ==
    ASSUME Inv, Inv', Next
    PROVE  Link!Next \/ UNCHANGED Link!vars
<1> DEFINE Seen == Link!Next \/ UNCHANGED Link!vars
           Idle == UNCHANGED <<now, req, accepted, released>>
<1>0. Idle => Seen
    BY Unseen, Zenon
<1>1. ASSUME NEW r \in Requests, Create(r) \/ BeginEndsReservation(r) \/ Revoke(r)
      PROVE  Seen
    BY <1>1, CreateSeen, EndReservationSeen, RevokeSeen, Zenon DEF Link!Next
<1>2. ASSUME NEW r \in Requests, NEW g \in 1 .. MaxGeneration, NEW t \in Tokens, Abandon(r, g, t)
      PROVE  Seen
    <2>1. Link!EndAndExpire({r}, {}) /\ {r} \in SUBSET Requests /\ {} \in SUBSET Requests
        BY <1>2, AbandonSeen, Zenon
    <2> QED BY <2>1, Zenon DEF Link!Next
<1>3. ASSUME NEW r \in Requests, NEW g \in 1 .. MaxGeneration, NEW t \in Tokens
      PROVE  /\ AttemptStatus(r, g, t) => Idle
             /\ \A f \in Finalizers : Finalize(f, r, g, t) => Idle
    BY Zenon DEF AttemptStatus, Finalize
<1>4. ASSUME NEW r \in Requests, NEW g \in 1 .. MaxGeneration, NEW t \in Tokens, NEW b \in Bodies,
             Submit(r, g, t, b) \/ Reserve(r, g, t, b)
      PROVE  Seen
    BY <1>4, SubmitSeen, ReserveSeen, Zenon DEF Link!Next
<1>5. ASSUME NEW r \in Requests, NEW g \in 1 .. MaxGeneration, NEW b \in Bodies, PresignedPut(r, g, b)
      PROVE  Idle
    BY <1>5, Zenon DEF PresignedPut, history
<1>6. ASSUME NEW r \in Requests, NEW o \in Openers, Open(o, r)
      PROVE  Seen
    BY <1>6, OpenSeen, Zenon DEF Link!Next
<1>7. ASSUME NEW f \in Finalizers, FinalizeStep(f) \/ WaiterLeaves(f)
      PROVE  Seen
    <2>1. CASE finalizeAttempt(f)
        BY <2>1, FinalizeAttemptSeen, Zenon DEF Link!Next
    <2>2. \/ Coalesce(f) \/ StartCopy(f) \/ PutStream(f)
          \/ FinalizeFails(f) \/ FinalizeReturns(f) \/ WaiterLeaves(f)
          => Idle
        BY Zenon DEF Coalesce, StartCopy, PutStream, FinalizeFails, FinalizeReturns, WaiterLeaves,
           history
    <2> HIDE DEF Idle, Seen
    <2> QED BY <1>0, <1>7, <2>1, <2>2, Zenon DEF FinalizeStep
<1>8. ASSUME NEW o \in Openers, OpenStep(o)
      PROVE  Seen
    <2>1. CASE consumeObject(o)
        BY <2>1, ConsumeObjectSeen, Zenon DEF Link!Next
    <2>2. CASE FinishOpen(o)
        BY <2>2, FinishOpenSeen, Zenon
    <2>3. OpenObject(o) \/ OpenFails(o) \/ StreamEnd(o) => Idle
        BY Zenon DEF OpenObject, OpenFails, StreamEnd, history
    <2> HIDE DEF Idle, Seen
    <2> QED BY <1>0, <1>8, <2>1, <2>2, <2>3, Zenon DEF OpenStep
<1>9. ASSUME NEW k \in Keys, Reconcile(k) \/ handleObjectDelete(k)
      PROVE  Idle
    BY <1>9, Zenon DEF Reconcile, handleObjectDelete, history
<1>10. SweepBegin \/ Restart => Idle
    BY Zenon DEF SweepBegin, Restart, history
<1>11. PurgeExpiredTx \/ Tick => Seen
    BY PurgeSeen, TickSeen, Zenon DEF Link!Next
<1> HIDE DEF Idle, Seen
<1>12. Seen
    BY <1>0, <1>1, <1>2, <1>3, <1>4, <1>5, <1>6, <1>7, <1>8, <1>9, <1>10, <1>11, Zenon DEF Next
<1> QED BY <1>12, Zenon DEF Seen

(* The request store keeps the request-link contract: over retries,        *)
(* overdue reservations, concurrent finalizes and opens, sweeps and        *)
(* restarts it accepts one submission, under the current generation, and   *)
(* Open releases its exact body at most once, never after a revocation or  *)
(* the deadline.                                                           *)
THEOREM Refinement == Spec => ImplementsOneTimeRequest
<1>1. Inv /\ Inv' /\ [Next]_vars => [Link!Next]_Link!vars
    <2> SUFFICES ASSUME Inv, Inv', [Next]_vars
                 PROVE  Link!Next \/ UNCHANGED Link!vars
        BY Zenon
    <2>1. CASE Next
        BY <2>1, NextSeen, Zenon
    <2>2. CASE UNCHANGED vars
        BY <2>2, Unseen, Zenon DEF vars, history
    <2> QED BY <2>1, <2>2, Zenon
<1> QED BY <1>1, InitSeen, Invariance, PTL DEF Spec, ImplementsOneTimeRequest, Link!Spec
=============================================================================
