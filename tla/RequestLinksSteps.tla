-------------------------- MODULE RequestLinksSteps -------------------------
(***************************************************************************)
(* The inductive invariant of RequestLinks, how one row may follow another *)
(* and what the rest of the state owes to that; the steps of handlers,     *)
(* scan, worker and clock that move no row; and the steps that move a row  *)
(* that no open has consumed.                                              *)
(***************************************************************************)
EXTENDS RequestLinks, TLAPS

-----------------------------------------------------------------------------
(* The inductive invariant, row by row.                                    *)

Row == [state : States \cup {"none"}, expires : Int, gen : 1 .. MaxGeneration,
        attempt : Attempt \cup {None}, payload : Bodies \cup {None}, large : BOOLEAN,
        uploadKey : 0 .. MaxGeneration, finalKey : 0 .. MaxGeneration,
        reservation : Int, consumedAt : Int]

(* The row remembers the submission that was accepted.                     *)
Remembers(row, acc) ==
    /\ acc # None /\ row.attempt # None
    /\ row.gen = acc.gen /\ row.attempt.token = acc.token

(* A row against the submission accepted for it.                           *)
RowOK(row, acc) ==
    /\ row.state # "none" => row.expires # Null
    /\ row.expires = Null => row.gen = 1
    /\ row.state \in {"none", "waiting"} => ~row.large
    /\ row.state \in {"none", "waiting", "unavailable"} => row.attempt = None
    /\ row.state # "uploading" => row.uploadKey = 0
    /\ row.state \notin {"uploading", "submitted", "consumed"} => row.finalKey = 0
    /\ row.state \in {"waiting", "uploading", "unavailable"} \/ row.expires = Null => acc = None
    /\ row.state = "uploading" =>
          /\ row.attempt # None /\ row.large
          /\ row.uploadKey = row.gen /\ row.finalKey = row.gen
    /\ row.state = "submitted" =>
          /\ Remembers(row, acc)
          /\ row.large => row.finalKey = row.gen /\ row.attempt.body = acc.body
          /\ ~row.large => row.finalKey = 0 /\ row.payload = acc.body
    /\ row.state = "consumed" => Remembers(row, acc) /\ row.finalKey \in {0, row.gen}
    /\ row.state = "cancelled" => Remembers(row, acc) \/ (acc = None /\ row.attempt = None)

(* Generation g of the request may still begin: no key of it exists yet.   *)
Ahead(row, g) ==
    \/ row.expires = Null
    \/ row.state = "waiting" /\ g >= row.gen
    \/ row.state = "uploading" /\ g > row.gen

(* A submission was accepted, or none will be: nothing is ahead.           *)
Past(row) ==
    /\ row.expires # Null
    /\ row.state \in {"submitted", "consumed", "cancelled", "none"}

(* Protected, of a row at an instant.                                      *)
Guards(row, g, side, n) ==
    \/ /\ row.state = "consumed" /\ side = "final" /\ row.finalKey = g
       /\ row.consumedAt > n - OpenObjectGrace
    \/ /\ row.expires > n
       /\ \/ row.state = "submitted" /\ side = "final" /\ row.finalKey = g
          \/ /\ row.state = "uploading" /\ row.reservation > n
             /\ \/ side = "final" /\ row.finalKey = g
                \/ side = "upload" /\ row.uploadKey = g

RowInv(r) ==
    /\ RowOK(req[r], accepted[r])
    /\ \A x \in told[r] : accepted[r] # None /\ x = <<accepted[r].gen, accepted[r].token>>

(* An accepted upload is where its row says, until the link expires.       *)
ObjectInv(r) ==
    req[r].state = "submitted" /\ req[r].large /\ now < req[r].expires =>
        bucket[<<r, req[r].finalKey, "final">>] = accepted[r].body

(* Objects belong to generations that have begun; a key that is queued for *)
(* deletion is guarded by no row, and will not be.                         *)
KeysInv ==
    /\ \A x \in forms : ~Ahead(req[x[1]], x[2])
    /\ \A k \in Keys : bucket[k] # None => ~Ahead(req[k[1]], k[2])
    /\ \A k \in jobs : ~Ahead(req[k[1]], k[2]) /\ ~Guards(req[k[1]], k[2], k[3], now)

Call == [at : {"idle", "checked", "waiting", "queued", "copying", "copied", "succeeded", "failed"},
         id : Requests \cup {None}, gen : 0 .. MaxGeneration, token : Tokens \cup {None},
         body : Bodies \cup {None}, copy : Bodies \cup {None}, lead : Finalizers \cup {NoCall}]

(* A finalize knows the attempt of its generation, and what it has copied  *)
(* stays for as long as the reservation it copied for.                     *)
FinalizeInv(f) ==
    LET c == fin[f]
        row == req[c.id]
    IN  c.at # "idle" =>
            /\ c.id \in Requests /\ c.gen \in 1 .. MaxGeneration
            /\ c.token \in Tokens /\ c.body \in Bodies
            /\ ~Ahead(row, c.gen)
            /\ row.state \in {"uploading", "submitted"} /\ row.gen = c.gen =>
                  row.large /\ row.attempt.token = c.token /\ row.attempt.body = c.body
            /\ c.at = "copied" /\ Guards(row, c.gen, "final", now) /\ row.state = "uploading" =>
                  bucket[<<c.id, c.gen, "final">>] = c.body

Reader == [at : {"idle", "checked", "opened", "streaming", "ended"},
           id : Requests \cup {None}, key : 0 .. MaxGeneration, body : Bodies \cup {None}]

(* An open knows the final key, has the accepted body once the object is   *)
(* open, and its stream ends before the grace of its row does.             *)
OpenInv(o) ==
    LET c == opn[o]
        row == req[c.id]
    IN  c.at # "idle" =>
            /\ c.id \in Requests /\ c.key \in 1 .. MaxGeneration
            /\ Past(row)
            /\ row.state = "submitted" => row.large /\ row.finalKey = c.key
            /\ c.at = "opened" /\ row.state = "submitted" /\ now < row.expires =>
                  c.body = accepted[c.id].body
            /\ c.at \in {"streaming", "ended"} => row.state \in {"consumed", "none"}
            /\ c.at = "streaming" =>
                  /\ row.state = "consumed" /\ row.finalKey = c.key
                  /\ now <= row.consumedAt + StreamTimeout

Sending(o) == opn[o].at \in {"streaming", "ended"}

OneReader == \A o, p \in Openers : Sending(o) /\ Sending(p) /\ opn[o].id = opn[p].id => o = p

StateInv ==
    /\ now \in 0 .. MaxTime
    /\ req \in [Requests -> Row]
    /\ bucket \in [Keys -> Bodies \cup {None}]
    /\ forms \subseteq Requests \X (1 .. MaxGeneration)
    /\ puts \in 0 .. MaxPuts
    /\ jobs \subseteq Keys
    /\ fin \in [Finalizers -> Call]
    /\ finalizing \in [Requests -> Finalizers \cup {NoCall}]
    /\ opn \in [Openers -> Reader]
    /\ reaperNow \in Int /\ Null <= reaperNow /\ reaperNow <= now
    /\ told \in [Requests -> SUBSET ((1 .. MaxGeneration) \X Tokens)]
    /\ accepted \in [Requests -> Submission \cup {None}]
    /\ released \in [Requests -> Bodies \cup {None}]

Inv ==
    /\ StateInv
    /\ \A r \in Requests : RowInv(r) /\ ObjectInv(r)
    /\ KeysInv
    /\ \A f \in Finalizers : FinalizeInv(f)
    /\ \A o \in Openers : OpenInv(o)
    /\ OneReader

-----------------------------------------------------------------------------
(* How one row may follow another.                                         *)

Sides == {"upload", "final"}

(* Deadlines stay, a generation begins once, a current upload or accepted  *)
(* submission keeps its attempt, and what no row guards stays unguarded.   *)
Follows(old, new, n) ==
    /\ old.expires # Null => new.expires = old.expires
    /\ \A g \in 1 .. MaxGeneration : ~Ahead(old, g) => ~Ahead(new, g)
    /\ ~Ahead(old, new.gen) /\ new.state = "uploading" => new = old
    /\ ~Ahead(old, new.gen) /\ new.state = "submitted" =>
          /\ old.state \in {"uploading", "submitted"} /\ old.gen = new.gen
          /\ new.attempt = old.attempt /\ new.large = old.large /\ new.finalKey = old.finalKey
    /\ Past(old) => Past(new)
    /\ old.state \in {"consumed", "none"} /\ Past(old) => new.state \in {"consumed", "none"}
    /\ \A g \in 1 .. MaxGeneration, s \in Sides :
          ~Ahead(old, g) /\ ~Guards(old, g, s, n) => ~Guards(new, g, s, n)

(* The fields a step on a row may leave alone.                             *)
SameKeys(old, new) == new.uploadKey = old.uploadKey /\ new.finalKey = old.finalKey

LEMMA SameRowFollows ==
    ASSUME NEW row \in Row, NEW n \in Int
    PROVE  Follows(row, row, n)
<1>1. ~Ahead(row, row.gen) /\ row.state = "submitted" => row.state \in {"uploading", "submitted"}
    BY Zenon
<1> QED BY <1>1, Zenon DEF Follows

LEMMA CreatedRow ==
    ASSUME NEW old \in Row, NEW new \in Row, NEW acc, NEW n \in Nat, RowOK(old, acc),
           old.expires = Null, new.state = "waiting", new.expires # Null,
           new.gen = old.gen, new.attempt = old.attempt, new.large = old.large,
           SameKeys(old, new)
    PROVE  RowOK(new, acc) /\ Follows(old, new, n)
<1>1. \A g : Ahead(old, g)
    BY Zenon DEF Ahead
<1>2. ~Past(old) /\ old.state = "none"
    BY Zenon DEF Past, RowOK
<1>3. RowOK(new, acc)
    BY <1>2, Zenon DEF RowOK, SameKeys, Null
<1>4. Follows(old, new, n)
    BY <1>1, <1>2, Zenon DEF Follows
<1> QED BY <1>3, <1>4, Zenon

LEMMA ReservedRow ==
    ASSUME NEW old \in Row, NEW new \in Row, NEW acc, NEW n \in Nat, RowOK(old, acc),
           old.state = "waiting", new.state = "uploading", new.expires = old.expires,
           new.gen = old.gen, new.attempt \in Attempt, new.large,
           new.uploadKey = new.gen, new.finalKey = new.gen
    PROVE  RowOK(new, acc) /\ Follows(old, new, n)
<1>1. old.expires # Null /\ acc = None /\ old.gen \in Int
    BY DEF RowOK, Row
<1>2. RowOK(new, acc)
    BY <1>1, RequestAssumption, Zenon DEF RowOK
<1>3. Ahead(old, new.gen)
    BY <1>1 DEF Ahead
<1>4. \A g \in 1 .. MaxGeneration : ~Ahead(old, g) => ~Ahead(new, g) /\ g # new.gen
    BY <1>1, RequestAssumption DEF Ahead
<1>5. ~Past(old)
    BY Zenon DEF Past
<1>6. \A g \in 1 .. MaxGeneration, s \in Sides :
          ~Ahead(old, g) /\ ~Guards(old, g, s, n) => ~Guards(new, g, s, n)
    BY <1>4, Zenon DEF Guards
<1> QED BY <1>1, <1>2, <1>3, <1>4, <1>5, <1>6, Zenon DEF Follows

LEMMA SubmittedRow ==
    ASSUME NEW old \in Row, NEW new \in Row, NEW acc, NEW n \in Nat, RowOK(old, acc),
           old.state = "waiting", new.state = "submitted", new.expires = old.expires,
           new.gen = old.gen, new.attempt \in Attempt, new.large = old.large,
           SameKeys(old, new), NEW sub \in Submission,
           sub.gen = new.gen, sub.token = new.attempt.token, sub.body = new.payload
    PROVE  RowOK(new, sub) /\ Follows(old, new, n)
<1>1. old.expires # Null /\ ~old.large /\ old.uploadKey = 0 /\ old.finalKey = 0 /\ old.gen \in Int
    BY DEF RowOK, Row
<1>2. sub # None /\ new.attempt # None
    BY RequestAssumption, Zenon
<1>3. RowOK(new, sub)
    BY <1>1, <1>2, Zenon DEF RowOK, Remembers, SameKeys
<1>4. Ahead(old, new.gen)
    BY <1>1 DEF Ahead
<1>5. \A g : ~Ahead(new, g)
    BY <1>1, Zenon DEF Ahead
<1>6. ~Past(old)
    BY Zenon DEF Past
<1>7. \A g \in 1 .. MaxGeneration, s \in Sides : ~Guards(new, g, s, n)
    BY <1>1, RequestAssumption DEF Guards, SameKeys
<1> QED BY <1>1, <1>3, <1>4, <1>5, <1>6, <1>7, Zenon DEF Follows

LEMMA AcceptedRow ==
    ASSUME NEW old \in Row, NEW new \in Row, NEW acc, NEW n \in Nat, RowOK(old, acc),
           old.state = "uploading", n < old.expires, n < old.reservation,
           new.state = "submitted", new.expires = old.expires, new.gen = old.gen,
           new.attempt = old.attempt, new.large = old.large,
           new.uploadKey = 0, new.finalKey = old.finalKey, NEW sub \in Submission,
           sub.gen = new.gen, sub.token = new.attempt.token, sub.body = new.attempt.body
    PROVE  RowOK(new, sub) /\ Follows(old, new, n)
<1>1. old.expires # Null /\ old.large /\ old.finalKey = old.gen /\ old.attempt # None
    BY Zenon DEF RowOK, Row
<1>2. sub # None
    BY RequestAssumption, Zenon
<1>3. RowOK(new, sub)
    BY <1>1, <1>2, Zenon DEF RowOK, Remembers
<1>5. \A g : ~Ahead(new, g)
    BY <1>1, Zenon DEF Ahead
<1>6. ~Past(old)
    BY Zenon DEF Past
<1>7. \A g \in 1 .. MaxGeneration, s \in Sides : Guards(new, g, s, n) => Guards(old, g, s, n)
    BY Zenon DEF Guards, Row
<1> QED BY <1>1, <1>3, <1>5, <1>6, <1>7, Zenon DEF Follows

LEMMA ConsumedRow ==
    ASSUME NEW old \in Row, NEW new \in Row, NEW acc, NEW n \in Nat, RowOK(old, acc),
           old.state = "submitted", n < old.expires,
           new.state = "consumed", new.expires = old.expires, new.gen = old.gen,
           new.attempt = old.attempt, SameKeys(old, new)
    PROVE  RowOK(new, acc) /\ Follows(old, new, n)
<1>1. old.expires # Null /\ old.finalKey \in {0, old.gen}
    BY Zenon DEF RowOK, Row
<1>3. RowOK(new, acc)
    BY <1>1, Zenon DEF RowOK, Remembers, SameKeys
<1>5. \A g : ~Ahead(new, g)
    BY <1>1, Zenon DEF Ahead
<1>6. Past(new)
    BY <1>1, Zenon DEF Past
<1>7. \A g \in 1 .. MaxGeneration, s \in Sides : Guards(new, g, s, n) => Guards(old, g, s, n)
    BY Zenon DEF Guards, Row, SameKeys
<1> QED BY <1>1, <1>3, <1>5, <1>6, <1>7, Zenon DEF Follows

LEMMA FinishedRow ==
    ASSUME NEW old \in Row, NEW new \in Row, NEW acc, NEW n \in Nat, RowOK(old, acc),
           old.state = "consumed", new.state = "consumed", new.expires = old.expires,
           new.gen = old.gen, new.attempt = old.attempt,
           new.uploadKey = old.uploadKey, new.finalKey = 0
    PROVE  /\ RowOK(new, acc) /\ Follows(old, new, n)
           /\ \A g \in 1 .. MaxGeneration, s \in Sides : ~Ahead(new, g) /\ ~Guards(new, g, s, n)
<1>1. old.expires # Null
    BY Zenon DEF RowOK, Row
<1>3. RowOK(new, acc)
    BY <1>1, Zenon DEF RowOK, Remembers
<1>5. \A g : ~Ahead(new, g)
    BY <1>1, Zenon DEF Ahead
<1>6. Past(new)
    BY <1>1, Zenon DEF Past
<1>7. \A g \in 1 .. MaxGeneration, s \in Sides : ~Guards(new, g, s, n)
    BY RequestAssumption DEF Guards
<1> QED BY <1>1, <1>3, <1>5, <1>6, <1>7, Zenon DEF Follows

LEMMA ReopenedFields ==
    ASSUME NEW old \in Row
    PROVE  LET new == Reopened(old)
           IN  /\ new \in Row
               /\ new.state = IF old.gen = MaxGeneration THEN "unavailable" ELSE "waiting"
               /\ new.gen = IF old.gen = MaxGeneration THEN old.gen ELSE old.gen + 1
               /\ new.expires = old.expires /\ new.attempt = None /\ ~new.large
               /\ new.uploadKey = 0 /\ new.finalKey = 0
<1>0. 0 \in 0 .. MaxGeneration /\ Null \in Int
    BY RequestAssumption DEF Null
<1>1. Cleared(old) \in Row
    BY <1>0, Zenon DEF Cleared, Row
<1>2. /\ Cleared(old).gen = old.gen /\ Cleared(old).expires = old.expires
      /\ Cleared(old).uploadKey = 0 /\ Cleared(old).finalKey = 0
    BY Zenon DEF Cleared, Row
<1>3. old.gen \in 1 .. MaxGeneration /\ (old.gen # MaxGeneration => old.gen + 1 \in 1 .. MaxGeneration)
    BY RequestAssumption DEF Row
<1> DEFINE c == Cleared(old)
<1> HIDE DEF c
<1>4. Reopened(old) = [c EXCEPT !.state = IF old.gen = MaxGeneration THEN "unavailable" ELSE "waiting",
                                !.gen = IF old.gen = MaxGeneration THEN old.gen ELSE old.gen + 1,
                                !.large = FALSE, !.attempt = None]
    BY <1>2, Zenon DEF Reopened, c
<1>5. c \in Row /\ c.expires = old.expires /\ c.uploadKey = 0 /\ c.finalKey = 0
    BY <1>1, <1>2, Zenon DEF c
<1>6. {"unavailable", "waiting"} \subseteq States \cup {"none"}
    BY Zenon DEF States
<1>7. Reopened(old) \in Row
    <2>1. CASE old.gen = MaxGeneration
        BY <1>3, <1>4, <1>5, <1>6, <2>1, Zenon DEF Row
    <2>2. CASE old.gen # MaxGeneration
        BY <1>3, <1>4, <1>5, <1>6, <2>2, Zenon DEF Row
    <2> QED BY <2>1, <2>2, Zenon
<1>9. /\ Reopened(old).state = IF old.gen = MaxGeneration THEN "unavailable" ELSE "waiting"
      /\ Reopened(old).gen = IF old.gen = MaxGeneration THEN old.gen ELSE old.gen + 1
    BY <1>4, <1>5, Zenon DEF Row
<1>10. /\ Reopened(old).expires = old.expires /\ Reopened(old).attempt = None
       /\ ~Reopened(old).large /\ Reopened(old).uploadKey = 0 /\ Reopened(old).finalKey = 0
    BY <1>4, <1>5, Zenon DEF Row
<1> QED BY <1>7, <1>9, <1>10, Zenon

LEMMA EndedRow ==
    ASSUME NEW old \in Row, NEW acc, NEW n \in Nat, RowOK(old, acc), old.state = "uploading"
    PROVE  /\ Reopened(old) \in Row
           /\ RowOK(Reopened(old), acc) /\ Follows(old, Reopened(old), n)
           /\ Reopened(old).state \notin {"uploading", "submitted"}
           /\ \A s \in Sides :
                 ~Ahead(Reopened(old), old.gen) /\ ~Guards(Reopened(old), old.gen, s, n)
<1> DEFINE new == Reopened(old)
<1>1. /\ new \in Row
      /\ new.state = IF old.gen = MaxGeneration THEN "unavailable" ELSE "waiting"
      /\ new.gen = IF old.gen = MaxGeneration THEN old.gen ELSE old.gen + 1
      /\ new.expires = old.expires /\ new.attempt = None /\ ~new.large
      /\ new.uploadKey = 0 /\ new.finalKey = 0
    BY ReopenedFields, Zenon
<1> HIDE DEF new
<1>2. old.expires # Null /\ acc = None /\ old.gen \in Int /\ old.gen \in 1 .. MaxGeneration
    BY DEF RowOK, Row
<1>3. RowOK(new, acc)
    BY <1>1, <1>2, Zenon DEF RowOK
<1>4. \A g \in 1 .. MaxGeneration : ~Ahead(old, g) => ~Ahead(new, g)
    BY <1>1, <1>2 DEF Ahead
<1>5. ~Ahead(new, old.gen)
    BY <1>1, <1>2 DEF Ahead
<1>6. ~Past(old)
    BY Zenon DEF Past
<1>7. \A g \in 1 .. MaxGeneration, s \in Sides : ~Guards(new, g, s, n)
    BY <1>1, Zenon DEF Guards
<1>8. Follows(old, new, n)
    BY <1>1, <1>2, <1>4, <1>6, <1>7, Zenon DEF Follows
<1> QED BY <1>1, <1>2, <1>3, <1>5, <1>7, <1>8, Zenon DEF new

LEMMA CancelledFields ==
    ASSUME NEW old \in Row
    PROVE  LET new == Cancelled(old)
           IN  /\ new \in Row
               /\ new.state = "cancelled" /\ new.gen = old.gen /\ new.expires = old.expires
               /\ new.attempt = IF old.state = "uploading" THEN None ELSE old.attempt
               /\ new.uploadKey = 0 /\ new.finalKey = 0
<1>0. 0 \in 0 .. MaxGeneration /\ Null \in Int
    BY RequestAssumption DEF Null
<1>1. Cleared(old) \in Row
    BY <1>0, Zenon DEF Cleared, Row
<1>2. /\ Cleared(old).gen = old.gen /\ Cleared(old).expires = old.expires
      /\ Cleared(old).uploadKey = 0 /\ Cleared(old).finalKey = 0
      /\ Cleared(old).attempt = old.attempt
    BY Zenon DEF Cleared, Row
<1> DEFINE c == Cleared(old)
<1> HIDE DEF c
<1>4. Cancelled(old) = [c EXCEPT !.state = "cancelled", !.payload = None,
                                 !.attempt = IF old.state = "uploading" THEN None ELSE old.attempt]
    BY <1>2, Zenon DEF Cancelled, c
<1>5. c \in Row /\ c.gen = old.gen /\ c.expires = old.expires /\ c.uploadKey = 0 /\ c.finalKey = 0
    BY <1>1, <1>2, Zenon DEF c
<1>6. old.attempt \in Attempt \cup {None}
    BY Zenon DEF Row
<1> QED BY <1>4, <1>5, <1>6, Zenon DEF Row, States

LEMMA CancelledRow ==
    ASSUME NEW old \in Row, NEW acc, NEW n \in Nat, RowOK(old, acc),
           old.state \in {"waiting", "uploading", "submitted", "cancelled"}
    PROVE  /\ Cancelled(old) \in Row
           /\ RowOK(Cancelled(old), acc) /\ Follows(old, Cancelled(old), n)
           /\ Cancelled(old).state \notin {"uploading", "submitted"}
           /\ \A g \in 1 .. MaxGeneration, s \in Sides :
                 ~Ahead(Cancelled(old), g) /\ ~Guards(Cancelled(old), g, s, n)
<1> DEFINE new == Cancelled(old)
<1>1. /\ new \in Row
      /\ new.state = "cancelled" /\ new.gen = old.gen /\ new.expires = old.expires
      /\ new.attempt = IF old.state = "uploading" THEN None ELSE old.attempt
      /\ new.uploadKey = 0 /\ new.finalKey = 0
    BY CancelledFields, Zenon
<1> HIDE DEF new
<1>2. old.expires # Null
    BY Zenon DEF RowOK
<1>3. RowOK(new, acc)
    BY <1>1, <1>2, Zenon DEF RowOK, Remembers
<1>4. \A g : ~Ahead(new, g)
    BY <1>1, <1>2, Zenon DEF Ahead
<1>5. Past(new)
    BY <1>1, <1>2, Zenon DEF Past
<1>6. \A g \in 1 .. MaxGeneration, s \in Sides : ~Guards(new, g, s, n)
    BY <1>1, Zenon DEF Guards
<1>7. Follows(old, new, n)
    BY <1>1, <1>2, <1>4, <1>5, <1>6, Zenon DEF Follows
<1> QED BY <1>1, <1>3, <1>4, <1>6, <1>7, Zenon DEF new

LEMMA DroppedRow ==
    ASSUME NEW old \in Row, NEW acc, NEW n \in Nat, RowOK(old, acc), old.state # "none"
    PROVE  LET new == [NoRow EXCEPT !.expires = old.expires]
           IN  /\ new \in Row /\ new.state = "none" /\ new.expires = old.expires
               /\ RowOK(new, acc) /\ Follows(old, new, n)
               /\ \A g \in 1 .. MaxGeneration, s \in Sides : ~Ahead(new, g) /\ ~Guards(new, g, s, n)
<1> DEFINE new == [NoRow EXCEPT !.expires = old.expires]
<1>1. /\ new.state = "none" /\ new.expires = old.expires /\ new.attempt = None
      /\ ~new.large /\ new.uploadKey = 0 /\ new.finalKey = 0
    BY Zenon DEF NoRow
<1>2. old.expires # Null /\ old.expires \in Int
    BY Zenon DEF RowOK, Row
<1>0. 0 \in 0 .. MaxGeneration /\ 1 \in 1 .. MaxGeneration /\ Null \in Int
    BY RequestAssumption DEF Null
<1>3. new \in Row
    BY <1>0, <1>2, Zenon DEF Row, NoRow
<1> HIDE DEF new
<1>4. RowOK(new, acc)
    BY <1>1, <1>2, Zenon DEF RowOK
<1>5. \A g : ~Ahead(new, g)
    BY <1>1, <1>2, Zenon DEF Ahead
<1>6. Past(new)
    BY <1>1, <1>2, Zenon DEF Past
<1>7. \A g \in 1 .. MaxGeneration, s \in Sides : ~Guards(new, g, s, n)
    BY <1>1, Zenon DEF Guards
<1>8. Follows(old, new, n)
    BY <1>1, <1>2, <1>5, <1>6, <1>7, Zenon DEF Follows
<1> QED BY <1>1, <1>3, <1>4, <1>5, <1>7, <1>8, Zenon DEF new

-----------------------------------------------------------------------------
(* What every step owes the rest of the state when the rows follow.        *)

Evolves ==
    /\ now' = now
    /\ \A q \in Requests :
          /\ req'[q] \in Row
          /\ RowOK(req'[q], accepted'[q])
          /\ Follows(req[q], req'[q], now)
          /\ Past(req[q]) => accepted'[q] = accepted[q]

LEMMA KeyParts ==
    ASSUME NEW k \in Keys
    PROVE  k[1] \in Requests /\ k[2] \in 1 .. MaxGeneration /\ k[3] \in Sides
BY Zenon DEF Keys, Sides

(* A step that moves no row.                                               *)
LEMMA StillEvolves ==
    ASSUME StateInv, \A r \in Requests : RowInv(r), UNCHANGED <<now, req, accepted>>
    PROVE  Evolves
<1> SUFFICES ASSUME NEW q \in Requests
             PROVE  req[q] \in Row /\ RowOK(req[q], accepted[q]) /\ Follows(req[q], req[q], now)
    BY Zenon DEF Evolves
<1>1. req[q] \in Row /\ now \in Int
    BY DEF StateInv
<1> QED BY <1>1, SameRowFollows, Zenon DEF RowInv

(* A step that moves one row.                                              *)
LEMMA OneEvolves ==
    ASSUME StateInv, \A r \in Requests : RowInv(r), now' = now,
           NEW r \in Requests,
           \A q \in Requests \ {r} : req'[q] = req[q] /\ accepted'[q] = accepted[q],
           req'[r] \in Row, RowOK(req'[r], accepted'[r]), Follows(req[r], req'[r], now),
           Past(req[r]) => accepted'[r] = accepted[r]
    PROVE  Evolves
<1> SUFFICES ASSUME NEW q \in Requests, q # r
             PROVE  /\ req'[q] \in Row /\ RowOK(req'[q], accepted'[q])
                    /\ Follows(req[q], req'[q], now) /\ accepted'[q] = accepted[q]
    BY Zenon DEF Evolves
<1>1. req[q] \in Row /\ now \in Int /\ req'[q] = req[q] /\ accepted'[q] = accepted[q]
    BY DEF StateInv
<1> QED BY <1>1, SameRowFollows, Zenon DEF RowInv

LEMMA KeysStep ==
    ASSUME StateInv, KeysInv, Evolves,
           forms' \subseteq Requests \X (1 .. MaxGeneration), jobs' \subseteq Keys,
           \A x \in forms' : x \in forms \/ ~Ahead(req'[x[1]], x[2]),
           \A k \in Keys : bucket'[k] # None => bucket[k] # None \/ ~Ahead(req'[k[1]], k[2]),
           \A k \in jobs' : \/ k \in jobs
                            \/ ~Ahead(req'[k[1]], k[2]) /\ ~Guards(req'[k[1]], k[2], k[3], now)
    PROVE  KeysInv'
<1>1. \A x \in forms' : ~Ahead(req'[x[1]], x[2])
    <2> SUFFICES ASSUME NEW x \in forms', x \in forms
                 PROVE  ~Ahead(req'[x[1]], x[2])
        BY Zenon
    <2>1. x[1] \in Requests /\ x[2] \in 1 .. MaxGeneration
        BY Zenon
    <2>2. ~Ahead(req[x[1]], x[2])
        BY Zenon DEF KeysInv
    <2> QED BY <2>1, <2>2, Zenon DEF Evolves, Follows
<1>2. \A k \in Keys : bucket'[k] # None => ~Ahead(req'[k[1]], k[2])
    <2> SUFFICES ASSUME NEW k \in Keys, bucket[k] # None
                 PROVE  ~Ahead(req'[k[1]], k[2])
        BY Zenon
    <2>1. ~Ahead(req[k[1]], k[2])
        BY Zenon DEF KeysInv
    <2> QED BY <2>1, KeyParts, Zenon DEF Evolves, Follows
<1>3. \A k \in jobs' : ~Ahead(req'[k[1]], k[2]) /\ ~Guards(req'[k[1]], k[2], k[3], now)
    <2> SUFFICES ASSUME NEW k \in jobs', k \in jobs
                 PROVE  ~Ahead(req'[k[1]], k[2]) /\ ~Guards(req'[k[1]], k[2], k[3], now)
        BY Zenon
    <2>0. k \in Keys
        BY Zenon
    <2>1. ~Ahead(req[k[1]], k[2]) /\ ~Guards(req[k[1]], k[2], k[3], now)
        BY Zenon DEF KeysInv
    <2> QED BY <2>0, <2>1, KeyParts, Zenon DEF Evolves, Follows
<1> QED BY <1>1, <1>2, <1>3, Zenon DEF KeysInv, Evolves

(* A finalize goes on, and its copy is disturbed by nobody while the row   *)
(* guards it.                                                              *)
LEMMA FinalizeFrame ==
    ASSUME StateInv, Evolves, NEW f \in Finalizers, FinalizeInv(f),
           fin'[f].at # "idle" =>
               /\ fin[f].at # "idle"
               /\ fin'[f].id = fin[f].id /\ fin'[f].gen = fin[f].gen
               /\ fin'[f].token = fin[f].token /\ fin'[f].body = fin[f].body
               /\ /\ fin'[f].at = "copied" /\ req[fin[f].id].state = "uploading"
                  /\ Guards(req[fin[f].id], fin[f].gen, "final", now)
                  => LET key == <<fin[f].id, fin[f].gen, "final">>
                     IN  \/ bucket'[key] = fin[f].body
                         \/ fin[f].at = "copied" /\ bucket'[key] = bucket[key]
    PROVE  FinalizeInv(f)'
<1> SUFFICES ASSUME fin'[f].at # "idle"
             PROVE  FinalizeInv(f)'
    BY Zenon DEF FinalizeInv
<1> DEFINE r == fin[f].id
           g == fin[f].gen
           old == req[r]
           new == req'[r]
<1>1. /\ fin[f].at # "idle" /\ r \in Requests /\ g \in 1 .. MaxGeneration
      /\ fin[f].token \in Tokens /\ fin[f].body \in Bodies /\ ~Ahead(old, g)
    BY Zenon DEF FinalizeInv
<1>2. new \in Row /\ RowOK(new, accepted'[r]) /\ Follows(old, new, now) /\ now' = now
    BY <1>1, Zenon DEF Evolves
<1>3. ~Ahead(new, g)
    BY <1>1, <1>2, Zenon DEF Follows
<1>4. ASSUME new.state \in {"uploading", "submitted"}, new.gen = g
      PROVE  new.large /\ new.attempt.token = fin[f].token /\ new.attempt.body = fin[f].body
    <2>1. old.state \in {"uploading", "submitted"} /\ old.gen = g
          /\ new.attempt = old.attempt /\ new.large = old.large
        BY <1>1, <1>2, <1>4, Zenon DEF Follows
    <2> QED BY <1>1, <2>1, Zenon DEF FinalizeInv
<1>5. ASSUME fin'[f].at = "copied", Guards(new, g, "final", now), new.state = "uploading"
      PROVE  bucket'[<<r, g, "final">>] = fin[f].body
    <2>1. new.gen = g
        BY <1>2, <1>5, Zenon DEF Guards, RowOK
    <2>2. new = old
        BY <1>1, <1>2, <1>5, <2>1, Zenon DEF Follows
    <2> QED BY <1>1, <1>5, <2>2, Zenon DEF FinalizeInv
<1> QED BY <1>1, <1>2, <1>3, <1>4, <1>5, Zenon DEF FinalizeInv

(* An open goes on; the row of one that streams does not move.             *)
LEMMA OpenFrame ==
    ASSUME StateInv, Evolves, NEW o \in Openers, OpenInv(o),
           opn'[o].at # "idle" =>
               /\ opn[o].at # "idle"
               /\ opn'[o].id = opn[o].id /\ opn'[o].key = opn[o].key
               /\ opn'[o].at = "opened" => opn[o].at = "opened" /\ opn'[o].body = opn[o].body
               /\ opn'[o].at \in {"streaming", "ended"} => opn[o].at \in {"streaming", "ended"}
               /\ opn'[o].at = "streaming" =>
                     opn[o].at = "streaming" /\ req'[opn[o].id] = req[opn[o].id]
    PROVE  OpenInv(o)'
<1> SUFFICES ASSUME opn'[o].at # "idle"
             PROVE  OpenInv(o)'
    BY Zenon DEF OpenInv
<1> DEFINE r == opn[o].id
           old == req[r]
           new == req'[r]
<1>1. opn[o].at # "idle" /\ r \in Requests /\ opn[o].key \in 1 .. MaxGeneration /\ Past(old)
    BY Zenon DEF OpenInv
<1>2. /\ new \in Row /\ Follows(old, new, now) /\ now' = now
      /\ accepted'[r] = accepted[r]
    BY <1>1, Zenon DEF Evolves
<1>3. Past(new)
    BY <1>1, <1>2, Zenon DEF Follows
<1>4. \A g : ~Ahead(old, g)
    BY <1>1, Zenon DEF Past, Ahead
<1>5. ASSUME new.state = "submitted"
      PROVE  old.state = "submitted" /\ new.large = old.large /\ new.finalKey = old.finalKey
             /\ new.expires = old.expires
    BY <1>1, <1>2, <1>4, <1>5 DEF Follows, Past
<1>6. new.state = "submitted" => new.large /\ new.finalKey = opn[o].key
    BY <1>1, <1>5, Zenon DEF OpenInv
<1>7. opn'[o].at = "opened" /\ new.state = "submitted" /\ now < new.expires =>
          opn'[o].body = accepted'[r].body
    BY <1>1, <1>2, <1>5, Zenon DEF OpenInv
<1>8. opn'[o].at \in {"streaming", "ended"} => new.state \in {"consumed", "none"}
    BY <1>1, <1>2, Zenon DEF OpenInv, Follows
<1>9. opn'[o].at = "streaming" =>
          /\ new.state = "consumed" /\ new.finalKey = opn[o].key
          /\ now <= new.consumedAt + StreamTimeout
    BY <1>1, Zenon DEF OpenInv
<1> QED BY <1>1, <1>2, <1>3, <1>6, <1>7, <1>8, <1>9 DEF OpenInv

LEMMA ObjectFrame ==
    ASSUME Evolves, NEW q \in Requests, ObjectInv(q), req[q] \in Row, now \in Int,
           req'[q].state = "submitted" => req'[q] = req[q] /\ accepted'[q] = accepted[q],
           LET key == <<q, req[q].finalKey, "final">>
           IN  Guards(req[q], req[q].finalKey, "final", now) => bucket'[key] = bucket[key]
    PROVE  ObjectInv(q)'
<1> SUFFICES ASSUME req'[q] = req[q], accepted'[q] = accepted[q], now' = now,
                    req[q].state = "submitted", req[q].large, now < req[q].expires
             PROVE  bucket'[<<q, req[q].finalKey, "final">>] = accepted[q].body
    BY Zenon DEF ObjectInv, Evolves
<1>1. Guards(req[q], req[q].finalKey, "final", now)
    BY Zenon DEF Guards, Row
<1> QED BY <1>1, Zenon DEF ObjectInv

LEMMA ReaderFrame ==
    ASSUME OneReader,
           \A o \in Openers : Sending(o)' => Sending(o) /\ opn'[o].id = opn[o].id
    PROVE  OneReader'
BY Zenon DEF OneReader

LEMMA InvParts ==
    ASSUME Inv
    PROVE  /\ StateInv /\ KeysInv /\ OneReader
           /\ \A r \in Requests :
                 RowInv(r) /\ ObjectInv(r) /\ req[r] \in Row /\ RowOK(req[r], accepted[r])
           /\ \A f \in Finalizers : FinalizeInv(f) /\ fin[f] \in Call
           /\ \A o \in Openers : OpenInv(o) /\ opn[o] \in Reader
           /\ now \in Nat
BY DEF Inv, StateInv, RowInv

-----------------------------------------------------------------------------
(* Steps that move no row.                                                 *)

LEMMA ObjectsStay ==
    ASSUME Inv, UNCHANGED <<now, req, accepted, bucket, forms, jobs>>
    PROVE  Evolves /\ KeysInv' /\ \A r \in Requests : ObjectInv(r)'
<1>1. Evolves
    BY InvParts, StillEvolves, Zenon
<1>2. KeysInv'
    BY InvParts, Zenon DEF KeysInv
<1>3. \A r \in Requests : ObjectInv(r)'
    BY InvParts, Zenon DEF ObjectInv
<1> QED BY <1>1, <1>2, <1>3, Zenon

LEMMA FinalizesStay ==
    ASSUME Inv, Evolves, UNCHANGED <<fin, bucket>>
    PROVE  \A f \in Finalizers : FinalizeInv(f)'
<1> SUFFICES ASSUME NEW f \in Finalizers
             PROVE  FinalizeInv(f)'
    BY Zenon
<1>1. StateInv /\ FinalizeInv(f)
    BY InvParts, Zenon
<1> QED BY <1>1, FinalizeFrame, Zenon

LEMMA OpensStay ==
    ASSUME Inv, Evolves, opn' = opn,
           \A o \in Openers : opn[o].at = "streaming" => req'[opn[o].id] = req[opn[o].id]
    PROVE  OneReader' /\ \A o \in Openers : OpenInv(o)'
<1>1. ASSUME NEW o \in Openers
      PROVE  OpenInv(o)'
    <2>1. StateInv /\ OpenInv(o)
        BY InvParts, Zenon
    <2> QED BY <2>1, OpenFrame, Zenon
<1>2. OneReader'
    BY InvParts, Zenon DEF OneReader, Sending
<1> QED BY <1>1, <1>2, Zenon

LEMMA ToldStays ==
    ASSUME Inv, Evolves, UNCHANGED <<told, accepted>>
    PROVE  \A r \in Requests : RowInv(r)'
BY InvParts, Zenon DEF Evolves, RowInv

LEMMA AnswerStep ==
    ASSUME Inv, Evolves, accepted' = accepted, NEW r \in Requests,
           NEW g \in 1 .. MaxGeneration, NEW t \in Tokens, Answer(r, g, t),
           Remembers(req[r], accepted[r]), req[r].gen = g, req[r].attempt.token = t
    PROVE  /\ told' \in [Requests -> SUBSET ((1 .. MaxGeneration) \X Tokens)]
           /\ \A q \in Requests : RowInv(q)'
<1>1. told \in [Requests -> SUBSET ((1 .. MaxGeneration) \X Tokens)]
    BY InvParts, Zenon DEF StateInv
<1>2. told' \in [Requests -> SUBSET ((1 .. MaxGeneration) \X Tokens)]
    BY <1>1 DEF Answer
<1>3. accepted[r] # None /\ <<g, t>> = <<accepted[r].gen, accepted[r].token>>
    BY Zenon DEF Remembers
<1>4. \A q \in Requests : told'[q] = IF q = r THEN told[r] \cup {<<g, t>>} ELSE told[q]
    BY <1>1, Zenon DEF Answer
<1>5. ASSUME NEW q \in Requests, NEW x \in told'[q]
      PROVE  accepted[q] # None /\ x = <<accepted[q].gen, accepted[q].token>>
    <2>1. CASE x \in told[q]
        BY <2>1, InvParts, Zenon DEF RowInv
    <2>2. CASE q = r /\ x = <<g, t>>
        BY <1>3, <2>2, Zenon
    <2> QED BY <1>4, <1>5, <2>1, <2>2, Zenon
<1> QED BY <1>2, <1>5, Zenon DEF RowInv, Evolves

(* The row of an attempt that is known and not uploading has a receipt.    *)
LEMMA KnownIsRemembered ==
    ASSUME Inv, NEW r \in Requests, begin(r), req[r].attempt # None,
           req[r].state \notin {"waiting", "uploading"}
    PROVE  Remembers(req[r], accepted[r]) /\ Past(req[r])
<1>1. req[r] \in Row /\ RowOK(req[r], accepted[r])
    BY InvParts, Zenon
<1>2. req[r].state \in {"submitted", "consumed", "cancelled"} /\ req[r].expires # Null
    BY <1>1, Zenon DEF begin, authorized, Row, States, RowOK
<1> QED BY <1>1, <1>2, Zenon DEF RowOK, Past

LEMMA AttemptStatusStep ==
    ASSUME Inv, NEW r \in Requests, NEW g \in 1 .. MaxGeneration, NEW t \in Tokens,
           AttemptStatus(r, g, t)
    PROVE  Inv'
<1>1. UNCHANGED <<now, req, accepted, bucket, forms, puts, jobs, fin, finalizing, opn, reaperNow, released>>
    BY Zenon DEF AttemptStatus, objectVars, handlerVars
<1>2. Evolves /\ KeysInv' /\ \A q \in Requests : ObjectInv(q)'
    BY <1>1, ObjectsStay, Zenon
<1>3. /\ begin(r) /\ req[r].attempt # None /\ req[r].state # "uploading" /\ Answer(r, g, t)
      /\ req[r].gen = g /\ req[r].attempt.token = t
    BY Zenon DEF AttemptStatus, Known
<1>4. req[r].state # "waiting"
    BY <1>3, InvParts, Zenon DEF RowOK
<1>5. Remembers(req[r], accepted[r])
    BY <1>3, <1>4, KnownIsRemembered, Zenon
<1>6. /\ told' \in [Requests -> SUBSET ((1 .. MaxGeneration) \X Tokens)]
      /\ \A q \in Requests : RowInv(q)'
    BY <1>1, <1>2, <1>3, <1>5, AnswerStep, Zenon
<1>7. StateInv'
    BY <1>1, <1>6, InvParts, Zenon DEF StateInv
<1>8. (\A f \in Finalizers : FinalizeInv(f)') /\ OneReader' /\ \A o \in Openers : OpenInv(o)'
    BY <1>1, <1>2, FinalizesStay, OpensStay, Zenon
<1> QED BY <1>2, <1>6, <1>7, <1>8, Zenon DEF Inv

LEMMA PresignedPutStep ==
    ASSUME Inv, NEW r \in Requests, NEW g \in 1 .. MaxGeneration, NEW b \in Bodies,
           PresignedPut(r, g, b)
    PROVE  Inv'
<1> DEFINE key == <<r, g, "upload">>
<1>1. UNCHANGED <<now, req, accepted, forms, jobs, fin, finalizing, opn, reaperNow, told, released>>
    BY Zenon DEF PresignedPut, handlerVars, history
<1>2. Evolves
    BY <1>1, InvParts, StillEvolves, Zenon
<1>3. bucket \in [Keys -> Bodies \cup {None}] /\ key \in Keys
    BY InvParts, Zenon DEF StateInv, Keys
<1>4. bucket' \in [Keys -> Bodies \cup {None}] /\ \A k \in Keys : k # key => bucket'[k] = bucket[k]
    BY <1>3, Zenon DEF PresignedPut
<1>5. puts' \in 0 .. MaxPuts
    BY InvParts, RequestAssumption DEF PresignedPut, StateInv
<1>6. StateInv'
    BY <1>1, <1>4, <1>5, InvParts, Zenon DEF StateInv
<1>7. ~Ahead(req[r], g)
    <2>1. <<r, g>> \in forms
        BY Zenon DEF PresignedPut
    <2> QED BY <2>1, InvParts, Zenon DEF KeysInv
<1>8. KeysInv'
    <2>1. forms' \subseteq Requests \X (1 .. MaxGeneration) /\ jobs' \subseteq Keys
        BY <1>6, Zenon DEF StateInv
    <2>2. \A k \in Keys : bucket'[k] # None => bucket[k] # None \/ ~Ahead(req'[k[1]], k[2])
        BY <1>1, <1>4, <1>7
    <2> QED BY <1>1, <1>2, <2>1, <2>2, InvParts, KeysStep, Zenon
<1>9. \A q \in Requests : ObjectInv(q)'
    <2> SUFFICES ASSUME NEW q \in Requests
                 PROVE  ObjectInv(q)'
        BY Zenon
    <2>1. <<q, req[q].finalKey, "final">> # key
        BY Zenon
    <2>2. bucket'[<<q, req[q].finalKey, "final">>] = bucket[<<q, req[q].finalKey, "final">>]
          \/ <<q, req[q].finalKey, "final">> \notin Keys
        BY <1>4, <2>1, Zenon
    <2>3. req[q].state = "submitted" /\ req[q].large => <<q, req[q].finalKey, "final">> \in Keys
        BY InvParts, Zenon DEF RowOK, Row, Keys
    <2> QED BY <1>1, <2>2, <2>3, InvParts, Zenon DEF ObjectInv
<1>10. \A f \in Finalizers : FinalizeInv(f)'
    <2> SUFFICES ASSUME NEW f \in Finalizers, fin[f].at # "idle"
                 PROVE  FinalizeInv(f)'
        BY <1>1, Zenon DEF FinalizeInv
    <2>1. StateInv /\ FinalizeInv(f)
        BY InvParts, Zenon
    <2>2. <<fin[f].id, fin[f].gen, "final">> \in Keys /\ <<fin[f].id, fin[f].gen, "final">> # key
        BY <2>1, Zenon DEF FinalizeInv, Keys
    <2> QED BY <1>1, <1>2, <1>4, <2>1, <2>2, FinalizeFrame, Zenon
<1>11. OneReader' /\ \A o \in Openers : OpenInv(o)'
    BY <1>1, <1>2, OpensStay, Zenon
<1>12. \A q \in Requests : RowInv(q)'
    BY <1>1, <1>2, ToldStays, Zenon
<1> QED BY <1>6, <1>8, <1>9, <1>10, <1>11, <1>12, Zenon DEF Inv

(* Steps of a finalize between its transactions.                           *)
LEMMA FinalizesOnly ==
    ASSUME Inv,
           UNCHANGED <<now, req, bucket, forms, puts, jobs, opn, reaperNow, told, accepted, released>>,
           fin' \in [Finalizers -> Call], finalizing' \in [Requests -> Finalizers \cup {NoCall}],
           Evolves => \A f \in Finalizers : FinalizeInv(f)'
    PROVE  Inv'
<1>1. Evolves /\ KeysInv' /\ \A q \in Requests : ObjectInv(q)'
    BY ObjectsStay, Zenon
<1>2. StateInv'
    BY InvParts, Zenon DEF StateInv
<1>3. OneReader' /\ \A o \in Openers : OpenInv(o)'
    BY <1>1, OpensStay, Zenon
<1>4. \A q \in Requests : RowInv(q)'
    BY <1>1, ToldStays, Zenon
<1> QED BY <1>1, <1>2, <1>3, <1>4, Zenon DEF Inv

(* A finalize that moves on without a copy to show for it.                 *)
LEMMA FinalizeMoves ==
    ASSUME Inv, Evolves, bucket' = bucket, NEW f \in Finalizers,
           fin'[f].at # "idle" =>
               /\ fin[f].at # "idle"
               /\ fin'[f].id = fin[f].id /\ fin'[f].gen = fin[f].gen
               /\ fin'[f].token = fin[f].token /\ fin'[f].body = fin[f].body
               /\ fin'[f].at = "copied" => fin[f].at = "copied"
    PROVE  FinalizeInv(f)'
BY InvParts, FinalizeFrame, Zenon

LEMMA IdleCallTyped == IdleCall \in Call /\ IdleCall.at = "idle"
<1>1. 0 \in 0 .. MaxGeneration
    BY RequestAssumption
<1> QED BY <1>1, Zenon DEF IdleCall, Call

LEMMA CoalesceStep ==
    ASSUME Inv, NEW f \in Finalizers, Coalesce(f)
    PROVE  Inv'
<1>0. /\ fin \in [Finalizers -> Call] /\ finalizing \in [Requests -> Finalizers \cup {NoCall}]
      /\ fin[f] \in Call
    BY InvParts, Zenon DEF StateInv
<1>1. UNCHANGED <<now, req, bucket, forms, puts, jobs, opn, reaperNow, told, accepted, released>>
    BY Zenon DEF Coalesce, objectVars, history
<1>2. fin[f].at = "checked" /\ fin[f].id \in Requests
    BY InvParts, Zenon DEF Coalesce, FinalizeInv
<1>3. CASE fin' = [fin EXCEPT ![f].at = "queued"]
           /\ finalizing' = [finalizing EXCEPT ![fin[f].id] = f]
    <2>1. fin' \in [Finalizers -> Call]
        BY <1>0, <1>3, Zenon DEF Call
    <2>2. finalizing' \in [Requests -> Finalizers \cup {NoCall}]
        BY <1>0, <1>3, Zenon
    <2>3. /\ fin'[f].at = "queued" /\ fin'[f].id = fin[f].id /\ fin'[f].gen = fin[f].gen
          /\ fin'[f].token = fin[f].token /\ fin'[f].body = fin[f].body
          /\ \A x \in Finalizers : x # f => fin'[x] = fin[x]
        BY <1>0, <1>3, Zenon DEF Call
    <2>4. ASSUME Evolves, NEW x \in Finalizers
          PROVE  FinalizeInv(x)'
        BY <1>1, <1>2, <2>3, <2>4, FinalizeMoves, Zenon
    <2> QED BY <1>1, <2>1, <2>2, <2>4, FinalizesOnly
<1>4. CASE fin' = [fin EXCEPT ![f].at = "waiting", ![f].lead = finalizing[fin[f].id]]
           /\ UNCHANGED finalizing
    <2>0. finalizing[fin[f].id] \in Finalizers \cup {NoCall}
        BY <1>0, <1>2, Zenon
    <2>1. fin' \in [Finalizers -> Call]
        BY <1>0, <1>4, <2>0, Zenon DEF Call
    <2>3. /\ fin'[f].at = "waiting" /\ fin'[f].id = fin[f].id /\ fin'[f].gen = fin[f].gen
          /\ fin'[f].token = fin[f].token /\ fin'[f].body = fin[f].body
          /\ \A x \in Finalizers : x # f => fin'[x] = fin[x]
        BY <1>0, <1>4, Zenon DEF Call
    <2>4. ASSUME Evolves, NEW x \in Finalizers
          PROVE  FinalizeInv(x)'
        BY <1>1, <1>2, <2>3, <2>4, FinalizeMoves, Zenon
    <2> QED BY <1>0, <1>1, <1>4, <2>1, <2>4, FinalizesOnly, Zenon
<1> QED BY <1>3, <1>4, Zenon DEF Coalesce

LEMMA StartCopyStep ==
    ASSUME Inv, NEW f \in Finalizers, StartCopy(f)
    PROVE  Inv'
<1>0. /\ fin \in [Finalizers -> Call] /\ finalizing \in [Requests -> Finalizers \cup {NoCall}]
      /\ fin[f] \in Call /\ bucket \in [Keys -> Bodies \cup {None}]
    BY InvParts, Zenon DEF StateInv
<1> DEFINE key == <<fin[f].id, fin[f].gen, "upload">>
           upload == bucket[key]
<1>1. UNCHANGED <<now, req, bucket, forms, puts, jobs, opn, reaperNow, told, accepted, released, finalizing>>
    BY Zenon DEF StartCopy, objectVars, history
<1>2. fin[f].at = "queued" /\ fin' = [fin EXCEPT ![f].at = "copying", ![f].copy = upload]
    BY Zenon DEF StartCopy
<1>3. key \in Keys
    BY <1>2, InvParts, Zenon DEF FinalizeInv, Keys
<1>4. upload \in Bodies \cup {None}
    BY <1>0, <1>3, Zenon
<1> HIDE DEF upload
<1>5. fin' \in [Finalizers -> Call]
    BY <1>0, <1>2, <1>4, Zenon DEF Call
<1>6. /\ fin'[f].at = "copying" /\ fin'[f].id = fin[f].id /\ fin'[f].gen = fin[f].gen
      /\ fin'[f].token = fin[f].token /\ fin'[f].body = fin[f].body
      /\ \A x \in Finalizers : x # f => fin'[x] = fin[x]
    BY <1>0, <1>2, Zenon DEF Call
<1>7. ASSUME Evolves, NEW x \in Finalizers
      PROVE  FinalizeInv(x)'
    BY <1>1, <1>2, <1>6, <1>7, FinalizeMoves, Zenon
<1> QED BY <1>0, <1>1, <1>5, <1>7, FinalizesOnly, Zenon

LEMMA FinalizeFailsStep ==
    ASSUME Inv, NEW f \in Finalizers, FinalizeFails(f)
    PROVE  Inv'
<1>0. /\ fin \in [Finalizers -> Call] /\ finalizing \in [Requests -> Finalizers \cup {NoCall}]
      /\ fin[f] \in Call
    BY InvParts, Zenon DEF StateInv
<1>1. UNCHANGED <<now, req, bucket, forms, puts, jobs, opn, reaperNow, told, accepted, released, finalizing>>
    BY Zenon DEF FinalizeFails, objectVars, history
<1>2. fin[f].at # "idle" /\ fin' = [fin EXCEPT ![f].at = "failed"]
    BY Zenon DEF FinalizeFails
<1>5. fin' \in [Finalizers -> Call]
    BY <1>0, <1>2, Zenon DEF Call
<1>6. /\ fin'[f].at = "failed" /\ fin'[f].id = fin[f].id /\ fin'[f].gen = fin[f].gen
      /\ fin'[f].token = fin[f].token /\ fin'[f].body = fin[f].body
      /\ \A x \in Finalizers : x # f => fin'[x] = fin[x]
    BY <1>0, <1>2, Zenon DEF Call
<1>7. ASSUME Evolves, NEW x \in Finalizers
      PROVE  FinalizeInv(x)'
    BY <1>1, <1>2, <1>6, <1>7, FinalizeMoves, Zenon
<1> QED BY <1>0, <1>1, <1>5, <1>7, FinalizesOnly, Zenon

LEMMA FinalizeReturnsStep ==
    ASSUME Inv, NEW f \in Finalizers, FinalizeReturns(f)
    PROVE  Inv'
<1>0. /\ fin \in [Finalizers -> Call] /\ finalizing \in [Requests -> Finalizers \cup {NoCall}]
    BY InvParts, Zenon DEF StateInv
<1>1. UNCHANGED <<now, req, bucket, forms, puts, jobs, opn, reaperNow, told, accepted, released>>
    BY Zenon DEF FinalizeReturns, objectVars, history
<1>2. finalizing' \in [Requests -> Finalizers \cup {NoCall}]
    BY <1>0, Zenon DEF FinalizeReturns
<1>3. /\ fin' \in [Finalizers -> Call]
      /\ \A x \in Finalizers : fin'[x] = fin[x] \/ fin'[x] = IdleCall
    BY <1>0, IdleCallTyped, Zenon DEF FinalizeReturns
<1>4. ASSUME Evolves, NEW x \in Finalizers
      PROVE  FinalizeInv(x)'
    BY <1>1, <1>3, <1>4, IdleCallTyped, FinalizeMoves, Zenon
<1> QED BY <1>1, <1>2, <1>3, <1>4, FinalizesOnly, Zenon

LEMMA WaiterLeavesStep ==
    ASSUME Inv, NEW f \in Finalizers, WaiterLeaves(f)
    PROVE  Inv'
<1>0. /\ fin \in [Finalizers -> Call] /\ finalizing \in [Requests -> Finalizers \cup {NoCall}]
    BY InvParts, Zenon DEF StateInv
<1>1. UNCHANGED <<now, req, bucket, forms, puts, jobs, opn, reaperNow, told, accepted, released, finalizing>>
    BY Zenon DEF WaiterLeaves, objectVars, history
<1>3. /\ fin' \in [Finalizers -> Call]
      /\ \A x \in Finalizers : fin'[x] = fin[x] \/ fin'[x] = IdleCall
    BY <1>0, IdleCallTyped, Zenon DEF WaiterLeaves
<1>4. ASSUME Evolves, NEW x \in Finalizers
      PROVE  FinalizeInv(x)'
    BY <1>1, <1>3, <1>4, IdleCallTyped, FinalizeMoves, Zenon
<1> QED BY <1>0, <1>1, <1>3, <1>4, FinalizesOnly, Zenon

LEMMA FinalizeStarts ==
    ASSUME Inv, NEW f \in Finalizers, NEW r \in Requests, NEW g \in 1 .. MaxGeneration,
           NEW t \in Tokens, Finalize(f, r, g, t)
    PROVE  Inv'
<1>0. /\ fin \in [Finalizers -> Call] /\ finalizing \in [Requests -> Finalizers \cup {NoCall}]
      /\ req[r] \in Row /\ RowOK(req[r], accepted[r])
    BY InvParts, Zenon DEF StateInv
<1>1. UNCHANGED <<now, req, bucket, forms, puts, jobs, opn, reaperNow, accepted, released, finalizing>>
    BY Zenon DEF Finalize, objectVars
<1>2. begin(r) /\ req[r].gen = g /\ req[r].attempt # None /\ req[r].attempt.token = t
    BY Zenon DEF Finalize, Known
<1>3. CASE /\ req[r].state = "uploading" /\ UNCHANGED told
           /\ fin' = [fin EXCEPT ![f] = [IdleCall EXCEPT !.at = "checked", !.id = r, !.gen = g,
                                             !.token = t, !.body = req[r].attempt.body]]
    <2> DEFINE b == req[r].attempt.body
               call == [IdleCall EXCEPT !.at = "checked", !.id = r, !.gen = g,
                                        !.token = t, !.body = b]
    <2>1. b \in Bodies
        BY <1>0, <1>2, Zenon DEF Row, Attempt
    <2> HIDE DEF b
    <2>2. call.at = "checked" /\ call.id = r /\ call.gen = g /\ call.token = t /\ call.body = b
        BY Zenon DEF IdleCall
    <2>3. call \in Call
        <3>1. IdleCall \in Call /\ g \in 0 .. MaxGeneration
            BY IdleCallTyped
        <3> QED BY <2>1, <3>1, Zenon DEF Call
    <2>4. fin' = [fin EXCEPT ![f] = call]
        BY <1>3, Zenon DEF b
    <2> HIDE DEF call
    <2>5. /\ fin' \in [Finalizers -> Call] /\ fin'[f] = call
          /\ \A x \in Finalizers : x # f => fin'[x] = fin[x]
        BY <1>0, <2>3, <2>4, Zenon
    <2>6. ASSUME Evolves, NEW x \in Finalizers, x # f
          PROVE  FinalizeInv(x)'
        BY <1>1, <2>5, <2>6, FinalizeMoves, Zenon
    <2>7. FinalizeInv(f)'
        <3>1. ~Ahead(req[r], g) /\ req[r].large
            BY <1>0, <1>2, <1>3 DEF Ahead, RowOK, Row
        <3> QED BY <1>1, <1>2, <2>1, <2>2, <2>5, <3>1, Zenon DEF FinalizeInv, b
    <2> QED BY <1>0, <1>1, <1>3, <2>5, <2>6, <2>7, FinalizesOnly, Zenon
<1>4. CASE /\ req[r].state \in {"submitted", "consumed", "cancelled"}
           /\ Answer(r, g, t) /\ UNCHANGED fin
    <2>1. Evolves /\ KeysInv' /\ \A q \in Requests : ObjectInv(q)'
        BY <1>1, ObjectsStay, Zenon
    <2>2. Remembers(req[r], accepted[r])
        BY <1>2, <1>4, KnownIsRemembered, Zenon
    <2>3. /\ told' \in [Requests -> SUBSET ((1 .. MaxGeneration) \X Tokens)]
          /\ \A q \in Requests : RowInv(q)'
        BY <1>1, <1>2, <1>4, <2>1, <2>2, AnswerStep, Zenon
    <2>4. StateInv'
        BY <1>1, <1>4, <2>3, InvParts, Zenon DEF StateInv
    <2>5. (\A x \in Finalizers : FinalizeInv(x)') /\ OneReader' /\ \A o \in Openers : OpenInv(o)'
        BY <1>1, <1>4, <2>1, FinalizesStay, OpensStay, Zenon
    <2> QED BY <2>1, <2>3, <2>4, <2>5, Zenon DEF Inv
<1> QED BY <1>3, <1>4, Zenon DEF Finalize

(* A copy is written under the final key of its generation: an attempt of  *)
(* that generation that is current, or accepted, has the same body.        *)
LEMMA PutStreamStep ==
    ASSUME Inv, NEW f \in Finalizers, PutStream(f)
    PROVE  Inv'
<1>0. /\ fin \in [Finalizers -> Call] /\ fin[f] \in Call /\ bucket \in [Keys -> Bodies \cup {None}]
      /\ StateInv /\ FinalizeInv(f)
    BY InvParts, Zenon DEF StateInv
<1> DEFINE r == fin[f].id
           g == fin[f].gen
           b == fin[f].body
           key == <<r, g, "final">>
<1>1. UNCHANGED <<now, req, forms, puts, jobs, opn, reaperNow, told, accepted, released, finalizing>>
    BY Zenon DEF PutStream, history
<1>2. /\ fin[f].at # "idle" /\ fin' = [fin EXCEPT ![f].at = "copied"]
      /\ bucket' = [bucket EXCEPT ![key] = b]
    BY Zenon DEF PutStream
<1>3. /\ r \in Requests /\ g \in 1 .. MaxGeneration /\ b \in Bodies /\ ~Ahead(req[r], g)
      /\ req[r].state \in {"uploading", "submitted"} /\ req[r].gen = g =>
            req[r].large /\ req[r].attempt.body = b
    BY <1>0, <1>2, Zenon DEF FinalizeInv
<1>4. /\ fin' \in [Finalizers -> Call]
      /\ fin'[f].at = "copied" /\ fin'[f].id = r /\ fin'[f].gen = g
      /\ fin'[f].token = fin[f].token /\ fin'[f].body = b
      /\ \A x \in Finalizers : x # f => fin'[x] = fin[x]
    BY <1>0, <1>2, Zenon DEF Call
<1> HIDE DEF r, g, b
<1>5. /\ key \in Keys /\ bucket' \in [Keys -> Bodies \cup {None}] /\ bucket'[key] = b
      /\ \A k \in Keys : k # key => bucket'[k] = bucket[k]
    BY <1>0, <1>2, <1>3, Zenon DEF Keys
<1>6. StateInv'
    BY <1>1, <1>4, <1>5, InvParts, Zenon DEF StateInv
<1>7. Evolves
    BY <1>1, InvParts, StillEvolves, Zenon
<1>8. KeysInv'
    <2>1. forms' \subseteq Requests \X (1 .. MaxGeneration) /\ jobs' \subseteq Keys
        BY <1>6, Zenon DEF StateInv
    <2>2. \A k \in Keys : bucket'[k] # None => bucket[k] # None \/ ~Ahead(req'[k[1]], k[2])
        BY <1>1, <1>3, <1>5
    <2> QED BY <1>1, <1>7, <2>1, <2>2, InvParts, KeysStep, Zenon
<1>9. ASSUME NEW q \in Requests
      PROVE  ObjectInv(q)'
    <2> SUFFICES ASSUME req[q].state = "submitted", req[q].large, now < req[q].expires
                 PROVE  bucket'[<<q, req[q].finalKey, "final">>] = accepted[q].body
        BY <1>1, Zenon DEF ObjectInv
    <2>1. /\ req[q].finalKey = req[q].gen /\ req[q].gen \in 1 .. MaxGeneration
          /\ req[q].attempt.body = accepted[q].body
        BY InvParts, Zenon DEF RowOK, Row
    <2>2. CASE q = r /\ req[q].gen = g
        BY <1>3, <1>5, <2>1, <2>2, Zenon
    <2>3. CASE ~(q = r /\ req[q].gen = g)
        <3>1. <<q, req[q].finalKey, "final">> # key /\ <<q, req[q].finalKey, "final">> \in Keys
            BY <2>1, <2>3, Zenon DEF Keys
        <3>2. bucket[<<q, req[q].finalKey, "final">>] = accepted[q].body
            BY InvParts, Zenon DEF ObjectInv
        <3> QED BY <1>5, <3>1, <3>2, Zenon
    <2> QED BY <2>2, <2>3, Zenon
<1>10. ASSUME NEW x \in Finalizers
       PROVE  FinalizeInv(x)'
    <2>0. StateInv /\ FinalizeInv(x)
        BY InvParts, Zenon
    <2>1. CASE x = f
        BY <1>2, <1>4, <1>5, <1>7, <2>0, <2>1, FinalizeFrame, Zenon DEF r, g, b
    <2>2. CASE x # f /\ fin[x].at = "idle"
        BY <1>4, <2>2, Zenon DEF FinalizeInv
    <2>3. CASE x # f /\ fin[x].at # "idle"
        <3> DEFINE kx == <<fin[x].id, fin[x].gen, "final">>
        <3>1. fin[x].id \in Requests /\ fin[x].gen \in 1 .. MaxGeneration
            BY <2>0, <2>3, Zenon DEF FinalizeInv
        <3>2. kx \in Keys
            BY <3>1, Zenon DEF Keys
        <3>3. kx # key => bucket'[kx] = bucket[kx]
            BY <1>5, <3>2, Zenon
        <3>4. ASSUME kx = key, req[fin[x].id].state = "uploading",
                     Guards(req[fin[x].id], fin[x].gen, "final", now), fin[x].at = "copied"
              PROVE  bucket'[kx] = fin[x].body
            <4>1. fin[x].id = r /\ fin[x].gen = g
                BY <3>4, Zenon
            <4>2. req[r].gen = g
                BY <3>1, <3>4, <4>1, InvParts, Zenon DEF Guards, RowOK
            <4>3. req[r].attempt.body = fin[x].body
                BY <2>0, <2>3, <3>4, <4>1, <4>2, Zenon DEF FinalizeInv
            <4> QED BY <1>3, <1>5, <3>4, <4>1, <4>2, <4>3, Zenon
        <3> QED BY <1>4, <1>7, <2>0, <2>3, <3>3, <3>4, FinalizeFrame, Zenon
    <2> QED BY <2>1, <2>2, <2>3, Zenon
<1>11. OneReader' /\ \A o \in Openers : OpenInv(o)'
    BY <1>1, <1>7, OpensStay, Zenon
<1>12. \A q \in Requests : RowInv(q)'
    BY <1>1, <1>7, ToldStays, Zenon
<1> QED BY <1>6, <1>8, <1>9, <1>10, <1>11, <1>12, Zenon DEF Inv

(* Steps of an open between its transactions.                              *)
LEMMA OpensOnly ==
    ASSUME Inv,
           UNCHANGED <<now, req, bucket, forms, puts, jobs, fin, finalizing, reaperNow,
                       told, accepted, released>>,
           opn' \in [Openers -> Reader],
           \A o \in Openers : Sending(o)' => Sending(o) /\ opn'[o].id = opn[o].id,
           Evolves => \A o \in Openers : OpenInv(o)'
    PROVE  Inv'
<1>1. Evolves /\ KeysInv' /\ \A q \in Requests : ObjectInv(q)'
    BY ObjectsStay, Zenon
<1>2. StateInv'
    BY InvParts, Zenon DEF StateInv
<1>3. OneReader'
    BY InvParts, ReaderFrame, Zenon
<1>4. \A q \in Requests : RowInv(q)'
    BY <1>1, ToldStays, Zenon
<1>5. \A f \in Finalizers : FinalizeInv(f)'
    BY <1>1, FinalizesStay, Zenon
<1> QED BY <1>1, <1>2, <1>3, <1>4, <1>5, Zenon DEF Inv

LEMMA OpenMoves ==
    ASSUME Inv, Evolves, req' = req, NEW o \in Openers,
           opn'[o].at # "idle" =>
               /\ opn[o].at # "idle"
               /\ opn'[o].id = opn[o].id /\ opn'[o].key = opn[o].key
               /\ opn'[o].at = "opened" => opn[o].at = "opened" /\ opn'[o].body = opn[o].body
               /\ opn'[o].at \in {"streaming", "ended"} => opn[o].at \in {"streaming", "ended"}
               /\ opn'[o].at = "streaming" => opn[o].at = "streaming"
    PROVE  OpenInv(o)'
BY InvParts, OpenFrame, Zenon

LEMMA IdleOpenTyped == IdleOpen \in Reader /\ IdleOpen.at = "idle"
<1>1. 0 \in 0 .. MaxGeneration
    BY RequestAssumption
<1> QED BY <1>1, Zenon DEF IdleOpen, Reader

LEMMA OpenStarts ==
    ASSUME Inv, NEW o \in Openers, NEW r \in Requests, Open(o, r), req[r].large
    PROVE  Inv'
<1>0. opn \in [Openers -> Reader] /\ req[r] \in Row /\ RowOK(req[r], accepted[r])
    BY InvParts, Zenon DEF StateInv
<1> DEFINE key == req[r].finalKey
           call == [IdleOpen EXCEPT !.at = "checked", !.id = r, !.key = key]
<1>1. UNCHANGED <<now, req, bucket, forms, puts, jobs, fin, finalizing, reaperNow, told, accepted, released>>
    BY Zenon DEF Open, objectVars
<1>2. req[r].state = "submitted" /\ opn' = [opn EXCEPT ![o] = call]
    BY Zenon DEF Open
<1>3. key \in 1 .. MaxGeneration /\ key \in 0 .. MaxGeneration /\ Past(req[r])
    BY <1>0, <1>2, Zenon DEF RowOK, Row, Past
<1> HIDE DEF key
<1>4. call.at = "checked" /\ call.id = r /\ call.key = key
    BY Zenon DEF IdleOpen
<1>5. call \in Reader
    BY <1>3, IdleOpenTyped, Zenon DEF Reader
<1> HIDE DEF call
<1>6. /\ opn' \in [Openers -> Reader] /\ opn'[o] = call
      /\ \A x \in Openers : x # o => opn'[x] = opn[x]
    BY <1>0, <1>2, <1>5, Zenon
<1>7. \A x \in Openers : Sending(x)' => Sending(x) /\ opn'[x].id = opn[x].id
    BY <1>4, <1>6, Zenon DEF Sending
<1>8. ASSUME Evolves, NEW x \in Openers, x # o
      PROVE  OpenInv(x)'
    BY <1>1, <1>6, <1>8, OpenMoves, Zenon
<1>9. OpenInv(o)'
    BY <1>1, <1>2, <1>3, <1>4, <1>6, Zenon DEF OpenInv, key
<1> QED BY <1>1, <1>6, <1>7, <1>8, <1>9, OpensOnly, Zenon

(* The object an open finds while the row is live is the accepted one.     *)
LEMMA OpenObjectStep ==
    ASSUME Inv, NEW o \in Openers, OpenObject(o)
    PROVE  Inv'
<1>0. opn \in [Openers -> Reader] /\ opn[o] \in Reader /\ bucket \in [Keys -> Bodies \cup {None}]
    BY InvParts, Zenon DEF StateInv
<1> DEFINE r == opn[o].id
           object == bucket[<<r, opn[o].key, "final">>]
<1>1. UNCHANGED <<now, req, bucket, forms, puts, jobs, fin, finalizing, reaperNow, told, accepted, released>>
    BY Zenon DEF OpenObject, objectVars, history
<1>2. opn[o].at = "checked" /\ opn' = [opn EXCEPT ![o].at = "opened", ![o].body = object]
    BY Zenon DEF OpenObject
<1>3. /\ r \in Requests /\ opn[o].key \in 1 .. MaxGeneration /\ Past(req[r])
      /\ req[r].state = "submitted" => req[r].large /\ req[r].finalKey = opn[o].key
    BY <1>2, InvParts, Zenon DEF OpenInv
<1>4. object \in Bodies \cup {None}
    BY <1>0, <1>3, Zenon DEF Keys
<1>5. req[r].state = "submitted" /\ now < req[r].expires => object = accepted[r].body
    BY <1>3, InvParts, Zenon DEF ObjectInv
<1> HIDE DEF object
<1>6. /\ opn' \in [Openers -> Reader]
      /\ opn'[o].at = "opened" /\ opn'[o].id = r /\ opn'[o].key = opn[o].key /\ opn'[o].body = object
      /\ \A x \in Openers : x # o => opn'[x] = opn[x]
    BY <1>0, <1>2, <1>4, Zenon DEF Reader
<1>7. \A x \in Openers : Sending(x)' => Sending(x) /\ opn'[x].id = opn[x].id
    BY <1>6, Zenon DEF Sending
<1>8. ASSUME Evolves, NEW x \in Openers, x # o
      PROVE  OpenInv(x)'
    BY <1>1, <1>6, <1>8, OpenMoves, Zenon
<1>9. OpenInv(o)'
    BY <1>1, <1>3, <1>5, <1>6, Zenon DEF OpenInv
<1> QED BY <1>1, <1>6, <1>7, <1>8, <1>9, OpensOnly, Zenon

LEMMA OpenFailsStep ==
    ASSUME Inv, NEW o \in Openers, OpenFails(o)
    PROVE  Inv'
<1>0. opn \in [Openers -> Reader]
    BY InvParts, Zenon DEF StateInv
<1>1. UNCHANGED <<now, req, bucket, forms, puts, jobs, fin, finalizing, reaperNow, told, accepted, released>>
    BY Zenon DEF OpenFails, objectVars, history
<1>2. /\ opn' \in [Openers -> Reader]
      /\ \A x \in Openers : opn'[x] = opn[x] \/ opn'[x] = IdleOpen
    BY <1>0, IdleOpenTyped, Zenon DEF OpenFails
<1>3. \A x \in Openers : Sending(x)' => Sending(x) /\ opn'[x].id = opn[x].id
    BY <1>2, IdleOpenTyped, Zenon DEF Sending
<1>4. ASSUME Evolves, NEW x \in Openers
      PROVE  OpenInv(x)'
    BY <1>1, <1>2, <1>4, IdleOpenTyped, OpenMoves, Zenon
<1> QED BY <1>1, <1>2, <1>3, <1>4, OpensOnly, Zenon

LEMMA StreamEndStep ==
    ASSUME Inv, NEW o \in Openers, StreamEnd(o)
    PROVE  Inv'
<1>0. opn \in [Openers -> Reader] /\ opn[o] \in Reader
    BY InvParts, Zenon DEF StateInv
<1>1. UNCHANGED <<now, req, bucket, forms, puts, jobs, fin, finalizing, reaperNow, told, accepted, released>>
    BY Zenon DEF StreamEnd, objectVars, history
<1>2. opn[o].at = "streaming" /\ opn' = [opn EXCEPT ![o].at = "ended"]
    BY Zenon DEF StreamEnd
<1>3. /\ opn' \in [Openers -> Reader]
      /\ opn'[o].at = "ended" /\ opn'[o].id = opn[o].id /\ opn'[o].key = opn[o].key
      /\ \A x \in Openers : x # o => opn'[x] = opn[x]
    BY <1>0, <1>2, Zenon DEF Reader
<1>4. \A x \in Openers : Sending(x)' => Sending(x) /\ opn'[x].id = opn[x].id
    BY <1>2, <1>3, Zenon DEF Sending
<1>5. ASSUME Evolves, NEW x \in Openers
      PROVE  OpenInv(x)'
    BY <1>1, <1>2, <1>3, <1>5, OpenMoves, Zenon
<1> QED BY <1>1, <1>3, <1>4, <1>5, OpensOnly, Zenon

-----------------------------------------------------------------------------
(* The reaper's clock, the reconciliation scan, the worker, and restarts.  *)

LEMMA SweepBeginStep ==
    ASSUME Inv, SweepBegin
    PROVE  Inv'
<1>1. UNCHANGED <<now, req, bucket, forms, puts, jobs, fin, finalizing, opn, told, accepted, released>>
      /\ reaperNow' = now
    BY Zenon DEF SweepBegin, objectVars, history
<1>2. Evolves /\ KeysInv' /\ \A q \in Requests : ObjectInv(q)'
    BY <1>1, ObjectsStay, Zenon
<1>3. StateInv'
    BY <1>1, InvParts DEF StateInv, Null
<1>4. (\A f \in Finalizers : FinalizeInv(f)') /\ OneReader' /\ \A o \in Openers : OpenInv(o)'
    BY <1>1, <1>2, FinalizesStay, OpensStay, Zenon
<1>5. \A q \in Requests : RowInv(q)'
    BY <1>1, <1>2, ToldStays, Zenon
<1> QED BY <1>2, <1>3, <1>4, <1>5, Zenon DEF Inv

LEMMA ProtectedIsGuarded ==
    ASSUME NEW k \in Keys
    PROVE  Protected(k) <=> Guards(req[k[1]], k[2], k[3], now)
BY Zenon DEF Protected, Guards

LEMMA ReconcileStep ==
    ASSUME Inv, NEW k \in Keys, Reconcile(k)
    PROVE  Inv'
<1>1. UNCHANGED <<now, req, bucket, forms, puts, fin, finalizing, opn, reaperNow, told, accepted, released>>
      /\ jobs' = jobs \cup {k}
    BY Zenon DEF Reconcile, objectVars, handlerVars, history
<1>2. Evolves
    BY <1>1, InvParts, StillEvolves, Zenon
<1>3. StateInv'
    BY <1>1, InvParts, Zenon DEF StateInv
<1>4. ~Ahead(req[k[1]], k[2]) /\ ~Guards(req[k[1]], k[2], k[3], now)
    BY InvParts, ProtectedIsGuarded, Zenon DEF Reconcile, KeysInv
<1>5. KeysInv'
    <2>1. forms' \subseteq Requests \X (1 .. MaxGeneration) /\ jobs' \subseteq Keys
        BY <1>3, Zenon DEF StateInv
    <2> QED BY <1>1, <1>2, <1>4, <2>1, InvParts, KeysStep, Zenon
<1>6. \A q \in Requests : ObjectInv(q)'
    BY <1>1, InvParts, Zenon DEF ObjectInv
<1>7. (\A f \in Finalizers : FinalizeInv(f)') /\ OneReader' /\ \A o \in Openers : OpenInv(o)'
    BY <1>1, <1>2, FinalizesStay, OpensStay, Zenon
<1>8. \A q \in Requests : RowInv(q)'
    BY <1>1, <1>2, ToldStays, Zenon
<1> QED BY <1>3, <1>5, <1>6, <1>7, <1>8, Zenon DEF Inv

LEMMA ObjectDeleteStep ==
    ASSUME Inv, NEW k \in Keys, handleObjectDelete(k)
    PROVE  Inv'
<1>0. StateInv /\ bucket \in [Keys -> Bodies \cup {None}]
    BY InvParts, Zenon DEF StateInv
<1>1. UNCHANGED <<now, req, forms, puts, jobs, fin, finalizing, opn, reaperNow, told, accepted, released>>
    BY Zenon DEF handleObjectDelete, handlerVars, history
<1>2. /\ bucket' \in [Keys -> Bodies \cup {None}] /\ bucket'[k] = None
      /\ \A x \in Keys : x # k => bucket'[x] = bucket[x]
    BY <1>0, Zenon DEF handleObjectDelete
<1>3. ~Guards(req[k[1]], k[2], k[3], now)
    BY InvParts, Zenon DEF handleObjectDelete, KeysInv
<1>4. \A q \in Requests, g \in 1 .. MaxGeneration :
          Guards(req[q], g, "final", now) => bucket'[<<q, g, "final">>] = bucket[<<q, g, "final">>]
    <2> SUFFICES ASSUME NEW q \in Requests, NEW g \in 1 .. MaxGeneration,
                        Guards(req[q], g, "final", now)
                 PROVE  bucket'[<<q, g, "final">>] = bucket[<<q, g, "final">>]
        BY Zenon
    <2>1. <<q, g, "final">> \in Keys
        BY Zenon DEF Keys
    <2>2. k # <<q, g, "final">>
        BY <1>3
    <2> QED BY <1>2, <2>1, <2>2, Zenon
<1>5. Evolves
    BY <1>1, InvParts, StillEvolves, Zenon
<1>6. StateInv'
    BY <1>1, <1>2, InvParts, Zenon DEF StateInv
<1>7. KeysInv'
    <2>1. forms' \subseteq Requests \X (1 .. MaxGeneration) /\ jobs' \subseteq Keys
        BY <1>6, Zenon DEF StateInv
    <2>2. \A x \in Keys : bucket'[x] # None => bucket[x] # None
        BY <1>2, Zenon
    <2> QED BY <1>1, <1>5, <2>1, <2>2, InvParts, KeysStep, Zenon
<1>8. ASSUME NEW q \in Requests
      PROVE  ObjectInv(q)'
    <2> SUFFICES ASSUME req[q].state = "submitted", req[q].large, now < req[q].expires
                 PROVE  bucket'[<<q, req[q].finalKey, "final">>] = accepted[q].body
        BY <1>1, Zenon DEF ObjectInv
    <2>1. req[q].finalKey \in 1 .. MaxGeneration /\ req[q].expires \in Int /\ now \in Int
        BY InvParts DEF RowOK, Row
    <2>2. Guards(req[q], req[q].finalKey, "final", now)
        BY <2>1, Zenon DEF Guards
    <2>3. bucket[<<q, req[q].finalKey, "final">>] = accepted[q].body
        BY InvParts, Zenon DEF ObjectInv
    <2> QED BY <1>4, <2>1, <2>2, <2>3, Zenon
<1>9. ASSUME NEW f \in Finalizers
      PROVE  FinalizeInv(f)'
    <2>1. CASE fin[f].at = "idle"
        BY <1>1, <2>1, Zenon DEF FinalizeInv
    <2>2. CASE fin[f].at # "idle"
        <3>1. FinalizeInv(f) /\ fin[f].id \in Requests /\ fin[f].gen \in 1 .. MaxGeneration
            BY <2>2, InvParts, Zenon DEF FinalizeInv
        <3> QED BY <1>0, <1>1, <1>4, <1>5, <2>2, <3>1, FinalizeFrame, Zenon
    <2> QED BY <2>1, <2>2, Zenon
<1>10. OneReader' /\ \A o \in Openers : OpenInv(o)'
    BY <1>1, <1>5, OpensStay, Zenon
<1>11. \A q \in Requests : RowInv(q)'
    BY <1>1, <1>5, ToldStays, Zenon
<1> QED BY <1>6, <1>7, <1>8, <1>9, <1>10, <1>11, Zenon DEF Inv

LEMMA RestartStep ==
    ASSUME Inv, Restart
    PROVE  Inv'
<1>1. UNCHANGED <<now, req, bucket, forms, puts, jobs, told, accepted, released>>
    BY Zenon DEF Restart, objectVars, history
<1>2. Evolves /\ KeysInv' /\ \A q \in Requests : ObjectInv(q)'
    BY <1>1, ObjectsStay, Zenon
<1>3. /\ fin' \in [Finalizers -> Call] /\ \A f \in Finalizers : fin'[f].at = "idle"
      /\ opn' \in [Openers -> Reader] /\ \A o \in Openers : opn'[o].at = "idle"
    BY IdleCallTyped, IdleOpenTyped, Zenon DEF Restart
<1>4. finalizing' \in [Requests -> Finalizers \cup {NoCall}] /\ reaperNow' = Null
    BY Zenon DEF Restart
<1>5. StateInv'
    BY <1>1, <1>3, <1>4, InvParts DEF StateInv, Null
<1>6. (\A f \in Finalizers : FinalizeInv(f)') /\ OneReader' /\ \A o \in Openers : OpenInv(o)'
    BY <1>3, Zenon DEF FinalizeInv, OpenInv, OneReader, Sending
<1>7. \A q \in Requests : RowInv(q)'
    BY <1>1, <1>2, ToldStays, Zenon
<1> QED BY <1>2, <1>5, <1>6, <1>7, Zenon DEF Inv

LEMMA GuardedEarlier ==
    ASSUME NEW row \in Row, NEW n \in Int, NEW g, NEW s, Guards(row, g, s, n + 1)
    PROVE  Guards(row, g, s, n)
<1>1. row.expires \in Int /\ row.reservation \in Int /\ row.consumedAt \in Int
    BY Zenon DEF Row
<1>2. OpenObjectGrace \in Int
    BY RequestAssumption
<1> QED BY <1>1, <1>2 DEF Guards

LEMMA TickStep ==
    ASSUME Inv, Tick
    PROVE  Inv'
<1>1. /\ UNCHANGED <<req, bucket, forms, puts, jobs, fin, finalizing, opn, reaperNow, told, accepted, released>>
      /\ now' = now + 1 /\ now < MaxTime
    BY Zenon DEF Tick, objectVars, handlerVars, history
<1>2. now \in Int /\ now' \in 0 .. MaxTime
    BY <1>1, InvParts, RequestAssumption DEF StateInv
<1>3. StateInv'
    BY <1>1, <1>2, InvParts DEF StateInv
<1>4. ASSUME NEW q \in Requests, NEW g, NEW s, Guards(req[q], g, s, now')
      PROVE  Guards(req[q], g, s, now)
    <2>1. req[q] \in Row
        BY InvParts, Zenon
    <2>2. Guards(req[q], g, s, now + 1)
        BY <1>1, <1>4, Zenon
    <2> QED BY <1>2, <2>1, <2>2, GuardedEarlier, Zenon
<1>5. KeysInv'
    <2>1. \A k \in jobs : ~Guards(req[k[1]], k[2], k[3], now')
        <3> SUFFICES ASSUME NEW k \in jobs
                     PROVE  ~Guards(req[k[1]], k[2], k[3], now')
            BY Zenon
        <3>1. k[1] \in Requests
            BY InvParts, KeyParts, Zenon DEF StateInv
        <3>2. ~Guards(req[k[1]], k[2], k[3], now)
            BY InvParts, Zenon DEF KeysInv
        <3> QED BY <1>4, <3>1, <3>2, Zenon
    <2> QED BY <1>1, <2>1, InvParts, Zenon DEF KeysInv
<1>6. \A q \in Requests : req[q].expires \in Int /\ (now' < req[q].expires => now < req[q].expires)
    BY <1>1, <1>2, InvParts DEF Row
<1>7. \A q \in Requests : ObjectInv(q)'
    BY <1>1, <1>6, InvParts, Zenon DEF ObjectInv
<1>8. ASSUME NEW f \in Finalizers
      PROVE  FinalizeInv(f)'
    <2>1. FinalizeInv(f)
        BY InvParts, Zenon
    <2>2. fin[f].at # "idle" =>
              (Guards(req[fin[f].id], fin[f].gen, "final", now') =>
               Guards(req[fin[f].id], fin[f].gen, "final", now))
        BY <1>4, <2>1, Zenon DEF FinalizeInv
    <2> QED BY <1>1, <2>1, <2>2, Zenon DEF FinalizeInv
<1>9. ASSUME NEW o \in Openers
      PROVE  OpenInv(o)'
    <2>1. OpenInv(o)
        BY InvParts, Zenon
    <2>2. opn[o].at # "idle" => (now' < req[opn[o].id].expires => now < req[opn[o].id].expires)
        BY <1>6, <2>1, Zenon DEF OpenInv
    <2>3. ASSUME opn[o].at = "streaming"
          PROVE  now' <= req[opn[o].id].consumedAt + StreamTimeout
        <3>1. req[opn[o].id].consumedAt \in Int
            BY <2>1, <2>3, InvParts, Zenon DEF OpenInv, Row
        <3>2. now < req[opn[o].id].consumedAt + StreamTimeout
            BY <2>3, Zenon DEF Tick
        <3> QED BY <1>1, <1>2, <3>1, <3>2, RequestAssumption
    <2> QED BY <1>1, <2>1, <2>2, <2>3, Zenon DEF OpenInv
<1>10. OneReader'
    BY <1>1, InvParts, Zenon DEF OneReader, Sending
<1>11. \A q \in Requests : RowInv(q)'
    BY <1>1, InvParts, Zenon DEF RowInv
<1> QED BY <1>3, <1>5, <1>7, <1>8, <1>9, <1>10, <1>11, Zenon DEF Inv

-----------------------------------------------------------------------------
(* Steps that move one row.                                                *)

LEMMA StreamedRowsStay ==
    ASSUME Inv, NEW r \in Requests, req[r].state # "consumed",
           \A q \in Requests \ {r} : req'[q] = req[q]
    PROVE  \A o \in Openers : opn[o].at = "streaming" => req'[opn[o].id] = req[opn[o].id]
BY InvParts, Zenon DEF OpenInv

(* A row that is not consumed moves, and not to submitted.                 *)
LEMMA RowMoves ==
    ASSUME Inv, NEW r \in Requests, req[r].state # "consumed",
           UNCHANGED <<now, bucket, fin, opn, told, accepted>>,
           \A q \in Requests \ {r} : req'[q] = req[q],
           req'[r] \in Row, req'[r].state # "submitted", RowOK(req'[r], accepted[r]),
           Follows(req[r], req'[r], now), StateInv', Evolves => KeysInv'
    PROVE  Inv'
<1>1. Evolves
    BY InvParts, OneEvolves, Zenon
<1>2. \A q \in Requests : ObjectInv(q)'
    BY InvParts, Zenon DEF ObjectInv
<1>3. \A f \in Finalizers : FinalizeInv(f)'
    BY <1>1, FinalizesStay, Zenon
<1>4. OneReader' /\ \A o \in Openers : OpenInv(o)'
    BY <1>1, StreamedRowsStay, OpensStay, Zenon
<1>5. \A q \in Requests : RowInv(q)'
    BY <1>1, ToldStays, Zenon
<1> QED BY <1>1, <1>2, <1>3, <1>4, <1>5, Zenon DEF Inv

LEMMA CreateStep ==
    ASSUME Inv, NEW r \in Requests, Create(r)
    PROVE  Inv'
<1>0. /\ req \in [Requests -> Row] /\ req[r] \in Row /\ RowOK(req[r], accepted[r])
      /\ now \in Nat /\ now + TTL \in Int /\ now + TTL # Null
    BY InvParts, RequestAssumption DEF StateInv, Null
<1>1. /\ UNCHANGED <<now, bucket, forms, puts, jobs, fin, finalizing, opn, reaperNow, told, accepted, released>>
      /\ req' = [req EXCEPT ![r].state = "waiting", ![r].expires = now + TTL]
      /\ req[r].expires = Null
    BY Zenon DEF Create, objectVars, handlerVars, history
<1>2. /\ req' \in [Requests -> Row]
      /\ \A q \in Requests \ {r} : req'[q] = req[q]
    BY <1>0, <1>1, Zenon DEF Row, States
<1>3. /\ req'[r].state = "waiting" /\ req'[r].expires = now + TTL
      /\ req'[r].gen = req[r].gen /\ req'[r].attempt = req[r].attempt
      /\ req'[r].large = req[r].large /\ SameKeys(req[r], req'[r])
    BY <1>0, <1>1, Zenon DEF Row, SameKeys
<1>4. req'[r] \in Row
    BY <1>2, Zenon
<1>5. RowOK(req'[r], accepted[r]) /\ Follows(req[r], req'[r], now)
    BY <1>0, <1>1, <1>3, <1>4, CreatedRow, Zenon
<1>6. StateInv'
    BY <1>1, <1>2, InvParts, Zenon DEF StateInv
<1>7. ASSUME Evolves
      PROVE  KeysInv'
    <2>1. forms' \subseteq Requests \X (1 .. MaxGeneration) /\ jobs' \subseteq Keys
        BY <1>6, Zenon DEF StateInv
    <2> QED BY <1>1, <1>7, <2>1, InvParts, KeysStep, Zenon
<1>8. req[r].state # "consumed"
    BY <1>0, <1>1, Zenon DEF RowOK
<1> QED BY <1>1, <1>2, <1>3, <1>4, <1>5, <1>6, <1>7, <1>8, RowMoves

LEMMA KeysOfRow ==
    ASSUME NEW r \in Requests, NEW k \in RequestKeys(r)
    PROVE  /\ k \in Keys /\ k[1] = r /\ k[3] \in Sides
           /\ k[2] = IF k[3] = "upload" THEN req[r].uploadKey ELSE req[r].finalKey
BY KeyParts, Zenon DEF RequestKeys

LEMMA EndReservationStep ==
    ASSUME Inv, NEW r \in Requests, req[r].state = "uploading", endReservationTx(r),
           UNCHANGED <<now, objectVars, handlerVars, history>>
    PROVE  Inv'
<1>0. req \in [Requests -> Row] /\ req[r] \in Row /\ RowOK(req[r], accepted[r]) /\ now \in Nat
    BY InvParts, Zenon DEF StateInv
<1>1. /\ UNCHANGED <<now, bucket, forms, puts, fin, finalizing, opn, reaperNow, told, accepted, released>>
      /\ req' = [req EXCEPT ![r] = Reopened(req[r])] /\ jobs' = jobs \cup RequestKeys(r)
    BY Zenon DEF endReservationTx, objectVars, handlerVars, history
<1>2. /\ Reopened(req[r]) \in Row /\ Reopened(req[r]).state \notin {"uploading", "submitted"}
      /\ RowOK(Reopened(req[r]), accepted[r]) /\ Follows(req[r], Reopened(req[r]), now)
      /\ \A s \in Sides :
            ~Ahead(Reopened(req[r]), req[r].gen) /\ ~Guards(Reopened(req[r]), req[r].gen, s, now)
    BY <1>0, EndedRow, Zenon
<1>3. /\ req' \in [Requests -> Row] /\ req'[r] = Reopened(req[r])
      /\ \A q \in Requests \ {r} : req'[q] = req[q]
    BY <1>0, <1>1, <1>2, Zenon
<1>4. StateInv'
    BY <1>1, <1>3, InvParts, KeysOfRow, Zenon DEF StateInv
<1>5. \A k \in RequestKeys(r) :
          ~Ahead(req'[k[1]], k[2]) /\ ~Guards(req'[k[1]], k[2], k[3], now)
    <2> SUFFICES ASSUME NEW k \in RequestKeys(r)
                 PROVE  ~Ahead(req'[k[1]], k[2]) /\ ~Guards(req'[k[1]], k[2], k[3], now)
        BY Zenon
    <2>1. k[1] = r /\ k[2] = req[r].gen /\ k[3] \in Sides
        BY <1>0, KeysOfRow DEF RowOK
    <2> QED BY <1>2, <1>3, <2>1, Zenon
<1>6. ASSUME Evolves
      PROVE  KeysInv'
    <2>1. forms' \subseteq Requests \X (1 .. MaxGeneration) /\ jobs' \subseteq Keys
        BY <1>4, Zenon DEF StateInv
    <2> QED BY <1>1, <1>5, <1>6, <2>1, InvParts, KeysStep, Zenon
<1> QED BY <1>1, <1>2, <1>3, <1>4, <1>6, RowMoves, Zenon

LEMMA RevokeStep ==
    ASSUME Inv, NEW r \in Requests, Revoke(r)
    PROVE  Inv'
<1>0. req \in [Requests -> Row] /\ req[r] \in Row /\ RowOK(req[r], accepted[r]) /\ now \in Nat
    BY InvParts, Zenon DEF StateInv
<1>1. /\ UNCHANGED <<now, bucket, forms, puts, fin, finalizing, opn, reaperNow, told, accepted, released>>
      /\ req' = [req EXCEPT ![r] = Cancelled(req[r])] /\ jobs' = jobs \cup RequestKeys(r)
    BY Zenon DEF Revoke, objectVars, handlerVars, history
<1>2. req[r].state \in {"waiting", "uploading", "submitted", "cancelled"}
    BY <1>0, Zenon DEF Revoke, begin, authorized, Row, States
<1>3. /\ Cancelled(req[r]) \in Row /\ Cancelled(req[r]).state \notin {"uploading", "submitted"}
      /\ RowOK(Cancelled(req[r]), accepted[r]) /\ Follows(req[r], Cancelled(req[r]), now)
      /\ \A g \in 1 .. MaxGeneration, s \in Sides :
            ~Ahead(Cancelled(req[r]), g) /\ ~Guards(Cancelled(req[r]), g, s, now)
    BY <1>0, <1>2, CancelledRow, Zenon
<1>4. /\ req' \in [Requests -> Row] /\ req'[r] = Cancelled(req[r])
      /\ \A q \in Requests \ {r} : req'[q] = req[q]
    BY <1>0, <1>1, <1>3, Zenon
<1>5. StateInv'
    BY <1>1, <1>4, InvParts, KeysOfRow, Zenon DEF StateInv
<1>6. \A k \in RequestKeys(r) :
          ~Ahead(req'[k[1]], k[2]) /\ ~Guards(req'[k[1]], k[2], k[3], now)
    BY <1>3, <1>4, KeysOfRow, KeyParts
<1>7. ASSUME Evolves
      PROVE  KeysInv'
    <2>1. forms' \subseteq Requests \X (1 .. MaxGeneration) /\ jobs' \subseteq Keys
        BY <1>5, Zenon DEF StateInv
    <2> QED BY <1>1, <1>6, <1>7, <2>1, InvParts, KeysStep, Zenon
<1> QED BY <1>1, <1>2, <1>3, <1>4, <1>5, <1>7, RowMoves

LEMMA RecordTyped ==
    ASSUME NEW r \in Requests, NEW g \in 1 .. MaxGeneration, NEW t \in Tokens, NEW b \in Bodies,
           Inv, RecordAcceptance(r, g, t, b), accepted[r] = None
    PROVE  /\ accepted' \in [Requests -> Submission \cup {None}]
           /\ accepted'[r] = [gen |-> g, token |-> t, body |-> b]
           /\ \A q \in Requests \ {r} : accepted'[q] = accepted[q]
           /\ told' \in [Requests -> SUBSET ((1 .. MaxGeneration) \X Tokens)]
           /\ released' = released
           /\ Evolves => \A q \in Requests : RowInv(q)'
<1> DEFINE sub == [gen |-> g, token |-> t, body |-> b]
<1>1. /\ accepted \in [Requests -> Submission \cup {None}]
      /\ told \in [Requests -> SUBSET ((1 .. MaxGeneration) \X Tokens)]
    BY InvParts, Zenon DEF StateInv
<1>2. sub \in Submission /\ sub.gen = g /\ sub.token = t
    BY Zenon DEF Submission
<1>3. accepted' = [accepted EXCEPT ![r] = sub] /\ released' = released
      /\ told' = [told EXCEPT ![r] = told[r] \cup {<<g, t>>}]
    BY Zenon DEF RecordAcceptance, Answer
<1> HIDE DEF sub
<1>4. /\ accepted' \in [Requests -> Submission \cup {None}] /\ accepted'[r] = sub
      /\ \A q \in Requests \ {r} : accepted'[q] = accepted[q]
    BY <1>1, <1>2, <1>3, Zenon
<1>5. /\ told' \in [Requests -> SUBSET ((1 .. MaxGeneration) \X Tokens)]
      /\ \A q \in Requests : told'[q] = IF q = r THEN told[r] \cup {<<g, t>>} ELSE told[q]
    BY <1>1, <1>3
<1>6. told[r] = {}
    BY InvParts, Zenon DEF RowInv
<1>7. sub # None
    BY <1>2, RequestAssumption, Zenon
<1>8. ASSUME Evolves, NEW q \in Requests
      PROVE  RowInv(q)'
    <2>1. RowOK(req'[q], accepted'[q])
        BY <1>8, Zenon DEF Evolves
    <2>2. CASE q = r
        <3>1. \A x \in told'[q] : accepted'[q] # None /\ x = <<accepted'[q].gen, accepted'[q].token>>
            BY <1>2, <1>4, <1>5, <1>6, <1>7, <2>2, Zenon
        <3> QED BY <2>1, <3>1, Zenon DEF RowInv
    <2>3. CASE q # r
        BY <1>4, <1>5, <2>1, <2>3, InvParts, Zenon DEF RowInv
    <2> QED BY <2>2, <2>3, Zenon
<1> QED BY <1>3, <1>4, <1>5, <1>8, Zenon DEF sub

LEMMA SubmitStep ==
    ASSUME Inv, NEW r \in Requests, NEW g \in 1 .. MaxGeneration, NEW t \in Tokens,
           NEW b \in Bodies, Submit(r, g, t, b)
    PROVE  Inv'
<1> DEFINE a == [token |-> t, large |-> FALSE, body |-> b]
           sub == [gen |-> g, token |-> t, body |-> b]
<1>0. /\ req \in [Requests -> Row] /\ req[r] \in Row /\ RowOK(req[r], accepted[r]) /\ now \in Nat
      /\ StateInv
    BY InvParts, Zenon DEF StateInv
<1>1. UNCHANGED <<now, bucket, forms, puts, jobs, fin, finalizing, opn, reaperNow>>
      /\ begin(r) /\ req[r].gen = g
    BY Zenon DEF Submit, objectVars, handlerVars
<1>2. a \in Attempt /\ a.token = t /\ sub \in Submission /\ sub.gen = g /\ sub.token = t /\ sub.body = b
    BY Zenon DEF Attempt, Submission
<1> HIDE DEF a
<1>3. CASE /\ req[r].state = "waiting" /\ RecordAcceptance(r, g, t, b)
           /\ req' = [req EXCEPT ![r].state = "submitted", ![r].payload = b, ![r].attempt = a]
    <2>1. /\ req' \in [Requests -> Row]
          /\ \A q \in Requests \ {r} : req'[q] = req[q]
        BY <1>0, <1>2, <1>3, Zenon DEF Row, States
    <2>2. /\ req'[r].state = "submitted" /\ req'[r].payload = b /\ req'[r].attempt = a
          /\ req'[r].gen = req[r].gen /\ req'[r].expires = req[r].expires
          /\ req'[r].large = req[r].large /\ SameKeys(req[r], req'[r])
        BY <1>0, <1>3, Zenon DEF Row, SameKeys
    <2>3. accepted[r] = None /\ ~req[r].large /\ ~Past(req[r])
        BY <1>0, <1>3, Zenon DEF RowOK, Past
    <2>4. /\ accepted' \in [Requests -> Submission \cup {None}] /\ accepted'[r] = sub
          /\ \A q \in Requests \ {r} : accepted'[q] = accepted[q]
          /\ told' \in [Requests -> SUBSET ((1 .. MaxGeneration) \X Tokens)]
          /\ released' = released
          /\ Evolves => \A q \in Requests : RowInv(q)'
        BY <1>3, <2>3, RecordTyped
    <2> HIDE DEF sub
    <2>5. req'[r] \in Row
        BY <2>1, Zenon
    <2>6. RowOK(req'[r], sub) /\ Follows(req[r], req'[r], now)
        <3>1. /\ req'[r].attempt \in Attempt /\ sub \in Submission
              /\ sub.gen = req'[r].gen /\ sub.token = req'[r].attempt.token
              /\ sub.body = req'[r].payload
            BY <1>1, <1>2, <2>2, Zenon
        <3>2. req[r].state = "waiting"
            BY <1>3, Zenon
        <3> QED BY <1>0, <2>2, <2>5, <3>1, <3>2, SubmittedRow
    <2>7. Evolves
        BY <1>0, <1>1, <2>1, <2>3, <2>4, <2>5, <2>6, InvParts, OneEvolves, SMTT(20)
    <2>8. StateInv'
        BY <1>0, <1>1, <2>1, <2>4 DEF StateInv
    <2>9. KeysInv'
        <3>1. forms' \subseteq Requests \X (1 .. MaxGeneration) /\ jobs' \subseteq Keys
            BY <2>8, Zenon DEF StateInv
        <3> QED BY <1>1, <2>7, <3>1, InvParts, KeysStep
    <2>10. \A q \in Requests : ObjectInv(q)'
        BY <1>1, <2>1, <2>2, <2>3, <2>4, InvParts, SMTT(20) DEF ObjectInv
    <2>11. \A f \in Finalizers : FinalizeInv(f)'
        BY <1>1, <2>7, FinalizesStay
    <2>12. OneReader' /\ \A o \in Openers : OpenInv(o)'
        BY <1>1, <1>3, <2>1, <2>7, StreamedRowsStay, OpensStay, Zenon
    <2> QED BY <2>4, <2>7, <2>8, <2>9, <2>10, <2>11, <2>12, SMTT(20) DEF Inv
<1>4. CASE /\ req[r].state \notin {"waiting", "uploading"} /\ req[r].attempt = a
           /\ Answer(r, g, t) /\ UNCHANGED <<req, accepted, released>>
    <2>1. Evolves /\ KeysInv' /\ \A q \in Requests : ObjectInv(q)'
        BY <1>1, <1>4, ObjectsStay
    <2>2. a # None
        BY <1>2, RequestAssumption
    <2>3. Remembers(req[r], accepted[r])
        BY <1>1, <1>4, <2>2, KnownIsRemembered
    <2>4. /\ told' \in [Requests -> SUBSET ((1 .. MaxGeneration) \X Tokens)]
          /\ \A q \in Requests : RowInv(q)'
        BY <1>1, <1>2, <1>4, <2>1, <2>3, AnswerStep
    <2>5. StateInv'
        BY <1>0, <1>1, <1>4, <2>4 DEF StateInv
    <2>6. (\A f \in Finalizers : FinalizeInv(f)') /\ OneReader' /\ \A o \in Openers : OpenInv(o)'
        BY <1>1, <1>4, <2>1, FinalizesStay, OpensStay
    <2> QED BY <2>1, <2>4, <2>5, <2>6, SMTT(20) DEF Inv
<1> QED BY <1>3, <1>4, Zenon DEF Submit, a

LEMMA ReserveStep ==
    ASSUME Inv, NEW r \in Requests, NEW g \in 1 .. MaxGeneration, NEW t \in Tokens,
           NEW b \in Bodies, Reserve(r, g, t, b)
    PROVE  Inv'
<1> DEFINE a == [token |-> t, large |-> TRUE, body |-> b]
           until == Earlier(now + ReservationTTL, req[r].expires)
<1>0. /\ req \in [Requests -> Row] /\ req[r] \in Row /\ RowOK(req[r], accepted[r]) /\ now \in Nat
      /\ StateInv
    BY InvParts, Zenon DEF StateInv
<1>1. UNCHANGED <<now, bucket, puts, jobs, fin, finalizing, opn, reaperNow, accepted, released>>
      /\ begin(r) /\ req[r].gen = g
    BY Zenon DEF Reserve, handlerVars
<1>2. a \in Attempt /\ a.token = t /\ until \in Int
    BY <1>0, RequestAssumption DEF Attempt, Earlier, Row
<1> HIDE DEF a, until
<1>3. CASE /\ req[r].state = "waiting" /\ forms' = forms \cup {<<r, g>>} /\ UNCHANGED told
           /\ req' = [req EXCEPT ![r].state = "uploading", ![r].large = TRUE, ![r].attempt = a,
                                 ![r].uploadKey = g, ![r].finalKey = g, ![r].reservation = until]
    <2>0. g \in 0 .. MaxGeneration
        OBVIOUS
    <2>1. /\ req' \in [Requests -> Row]
          /\ \A q \in Requests \ {r} : req'[q] = req[q]
        BY <1>0, <1>2, <1>3, <2>0, ZenonT(30) DEF Row, States
    <2>2. /\ req'[r].state = "uploading" /\ req'[r].large /\ req'[r].attempt = a
          /\ req'[r].gen = req[r].gen /\ req'[r].expires = req[r].expires
          /\ req'[r].uploadKey = g /\ req'[r].finalKey = g
        BY <1>0, <1>3, Zenon DEF Row
    <2>5. req'[r] \in Row
        BY <2>1, Zenon
    <2>6. RowOK(req'[r], accepted[r]) /\ Follows(req[r], req'[r], now)
        <3>1. /\ req'[r].attempt \in Attempt
              /\ req'[r].uploadKey = req'[r].gen /\ req'[r].finalKey = req'[r].gen
            BY <1>1, <1>2, <2>2, Zenon
        <3>2. req[r].state = "waiting"
            BY <1>3, Zenon
        <3> QED BY <1>0, <2>2, <2>5, <3>1, <3>2, ReservedRow, Zenon
    <2>7. StateInv'
        BY <1>0, <1>1, <1>3, <2>1 DEF StateInv
    <2>8. ~Ahead(req'[r], g)
        <3>1. req'[r].expires # Null
            BY <1>0, <1>3, <2>2, Zenon DEF RowOK
        <3> QED BY <1>1, <2>2, <3>1 DEF Ahead
    <2>9. ASSUME Evolves
          PROVE  KeysInv'
        <3>1. forms' \subseteq Requests \X (1 .. MaxGeneration) /\ jobs' \subseteq Keys
            BY <2>7, Zenon DEF StateInv
        <3>2. \A x \in forms' : x \in forms \/ ~Ahead(req'[x[1]], x[2])
            <4> SUFFICES ASSUME NEW x \in forms', x \notin forms
                         PROVE  ~Ahead(req'[x[1]], x[2])
                BY Zenon
            <4>1. x = <<r, g>>
                BY <1>3, Zenon
            <4> QED BY <2>8, <4>1, Zenon
        <3> QED BY <1>1, <2>9, <3>1, <3>2, InvParts, KeysStep, Zenon
    <2> QED BY <1>1, <1>3, <2>1, <2>2, <2>5, <2>6, <2>7, <2>9, RowMoves, Zenon
<1>4. CASE /\ req[r].state \notin {"waiting", "uploading"} /\ req[r].attempt = a
           /\ Answer(r, g, t) /\ UNCHANGED <<req, forms>>
    <2>1. Evolves /\ KeysInv' /\ \A q \in Requests : ObjectInv(q)'
        BY <1>1, <1>4, ObjectsStay, Zenon
    <2>2. a # None
        BY <1>2, RequestAssumption, Zenon
    <2>3. Remembers(req[r], accepted[r])
        BY <1>1, <1>4, <2>2, KnownIsRemembered, Zenon
    <2>4. /\ told' \in [Requests -> SUBSET ((1 .. MaxGeneration) \X Tokens)]
          /\ \A q \in Requests : RowInv(q)'
        BY <1>1, <1>2, <1>4, <2>1, <2>3, AnswerStep
    <2>5. StateInv'
        BY <1>0, <1>1, <1>4, <2>4 DEF StateInv
    <2>6. (\A f \in Finalizers : FinalizeInv(f)') /\ OneReader' /\ \A o \in Openers : OpenInv(o)'
        BY <1>1, <1>4, <2>1, FinalizesStay, OpensStay
    <2> QED BY <2>1, <2>4, <2>5, <2>6, Zenon DEF Inv
<1> QED BY <1>3, <1>4, Zenon DEF Reserve, a, until

(* The upload accepted is the one copied: its attempt is still current and *)
(* its reservation and link are live, so nobody deleted the copy.          *)
LEMMA AcceptUploadStep ==
    ASSUME Inv, NEW f \in Finalizers, finalizeAttempt(f), AcceptUpload(f)
    PROVE  Inv'
<1> DEFINE r == fin[f].id
           g == fin[f].gen
           t == fin[f].token
           b == fin[f].body
           sub == [gen |-> g, token |-> t, body |-> b]
<1>0. /\ req \in [Requests -> Row] /\ now \in Nat /\ StateInv /\ fin \in [Finalizers -> Call]
      /\ fin[f] \in Call
    BY InvParts, Zenon DEF StateInv
<1>1. /\ UNCHANGED <<now, bucket, forms, puts, finalizing, opn, reaperNow>>
      /\ fin[f].at = "copied" /\ fin' = [fin EXCEPT ![f].at = "succeeded"]
    BY Zenon DEF finalizeAttempt, objectVars
<1>2. /\ r \in Requests /\ g \in 1 .. MaxGeneration /\ t \in Tokens /\ b \in Bodies
    BY <1>1, InvParts, Zenon DEF FinalizeInv
<1>3. req[r] \in Row /\ RowOK(req[r], accepted[r])
    BY <1>2, InvParts, Zenon
<1>4. /\ req[r].state = "uploading" /\ req[r].gen = g /\ req[r].attempt.token = t
      /\ req[r].finalKey = g /\ begin(r)
      /\ req' = [req EXCEPT ![r].state = "submitted", ![r].uploadKey = 0, ![r].reservation = Null]
      /\ jobs' = jobs \cup {<<r, g, "upload">>}
      /\ RecordAcceptance(r, g, t, b)
    BY Zenon DEF AcceptUpload, Known
<1>5. now < req[r].expires /\ now < req[r].reservation
    BY <1>0, <1>3, <1>4 DEF begin, authorized, ReservationIsOver, Row
<1>6. req[r].attempt.body = b
    BY <1>1, <1>4, InvParts, Zenon DEF FinalizeInv
<1>7. bucket[<<r, g, "final">>] = b
    <2>1. Guards(req[r], g, "final", now)
        BY <1>0, <1>3, <1>4, <1>5, Zenon DEF Guards, Row
    <2> QED BY <1>1, <1>4, <2>1, InvParts, Zenon DEF FinalizeInv
<1> DEFINE moved == /\ fin' \in [Finalizers -> Call]
                    /\ fin'[f].at = "succeeded" /\ fin'[f].id = r /\ fin'[f].gen = g
                    /\ fin'[f].token = t /\ fin'[f].body = b
                    /\ \A x \in Finalizers : x # f => fin'[x] = fin[x]
<1>8. moved
    BY <1>0, <1>1, Zenon DEF Call
<1> HIDE DEF r, g, t, b
<1>9. /\ accepted[r] = None /\ req[r].large /\ ~Past(req[r]) /\ req[r].expires # Null
    BY <1>3, <1>4, Zenon DEF RowOK, Past
<1>10. /\ accepted' \in [Requests -> Submission \cup {None}] /\ accepted'[r] = sub
       /\ \A q \in Requests \ {r} : accepted'[q] = accepted[q]
       /\ told' \in [Requests -> SUBSET ((1 .. MaxGeneration) \X Tokens)]
       /\ released' = released
       /\ Evolves => \A q \in Requests : RowInv(q)'
    BY <1>2, <1>4, <1>9, RecordTyped
<1>11. sub \in Submission /\ sub.gen = g /\ sub.token = t /\ sub.body = b
    BY <1>2, Zenon DEF Submission
<1> HIDE DEF sub
<1>12. /\ req' \in [Requests -> Row]
       /\ \A q \in Requests \ {r} : req'[q] = req[q]
    <2>1. 0 \in 0 .. MaxGeneration /\ Null \in Int
        BY RequestAssumption DEF Null
    <2> DEFINE new == [req[r] EXCEPT !.state = "submitted", !.uploadKey = 0, !.reservation = Null]
    <2>2. req' = [req EXCEPT ![r] = new]
        BY <1>4, Zenon
    <2>3. new \in Row
        BY <1>3, <2>1, Zenon DEF Row, States
    <2> HIDE DEF new
    <2> QED BY <1>0, <2>2, <2>3, Zenon
<1>13. /\ req'[r].state = "submitted" /\ req'[r].uploadKey = 0 /\ req'[r].attempt = req[r].attempt
       /\ req'[r].gen = req[r].gen /\ req'[r].expires = req[r].expires
       /\ req'[r].large = req[r].large /\ req'[r].finalKey = req[r].finalKey
    BY <1>0, <1>2, <1>4 DEF Row
<1>14. req'[r] \in Row
    BY <1>2, <1>12, Zenon
<1>15. RowOK(req'[r], sub) /\ Follows(req[r], req'[r], now)
    <2>1. /\ sub.gen = req'[r].gen /\ sub.token = req'[r].attempt.token
          /\ sub.body = req'[r].attempt.body
        BY <1>4, <1>6, <1>11, <1>13, Zenon
    <2>2. req[r].state = "uploading"
        BY <1>4, Zenon
    <2> QED BY <1>0, <1>3, <1>5, <1>11, <1>13, <1>14, <2>1, <2>2, AcceptedRow, SMTT(20)
<1>16. Evolves
    BY <1>0, <1>1, <1>2, <1>9, <1>10, <1>12, <1>14, <1>15, InvParts, OneEvolves, SMTT(20)
<1>17. StateInv'
    <2>1. jobs' \subseteq Keys
        BY <1>0, <1>2, <1>4 DEF StateInv, Keys
    <2> QED BY <1>0, <1>1, <1>8, <1>10, <1>12, <2>1 DEF StateInv
<1>18. KeysInv'
    <2>1. forms' \subseteq Requests \X (1 .. MaxGeneration) /\ jobs' \subseteq Keys
        BY <1>17, Zenon DEF StateInv
    <2>2. ~Ahead(req'[r], g) /\ ~Guards(req'[r], g, "upload", now)
        BY <1>9, <1>13, Zenon DEF Ahead, Guards
    <2>3. \A k \in jobs' : \/ k \in jobs
                           \/ ~Ahead(req'[k[1]], k[2]) /\ ~Guards(req'[k[1]], k[2], k[3], now)
        <3> SUFFICES ASSUME NEW k \in jobs', k \notin jobs
                     PROVE  ~Ahead(req'[k[1]], k[2]) /\ ~Guards(req'[k[1]], k[2], k[3], now)
            BY Zenon
        <3>1. k = <<r, g, "upload">>
            BY <1>4, Zenon
        <3> QED BY <2>2, <3>1
    <2> QED BY <1>1, <1>16, <2>1, <2>3, InvParts, KeysStep
<1>19. ASSUME NEW q \in Requests
       PROVE  ObjectInv(q)'
    <2>1. CASE q = r
        BY <1>1, <1>4, <1>7, <1>10, <1>11, <1>13, <2>1 DEF ObjectInv
    <2>2. CASE q # r
        BY <1>1, <1>10, <1>12, <2>2, InvParts, Zenon DEF ObjectInv
    <2> QED BY <2>1, <2>2, Zenon
<1>20. ASSUME NEW x \in Finalizers
       PROVE  FinalizeInv(x)'
    <2>1. CASE x = f
        BY <1>1, <1>8, <1>16, <2>1, FinalizeMoves, Zenon DEF r, g, t, b
    <2>2. CASE x # f
        BY <1>1, <1>8, <1>16, <2>2, FinalizeMoves, Zenon
    <2> QED BY <2>1, <2>2, Zenon
<1>21. OneReader' /\ \A o \in Openers : OpenInv(o)'
    BY <1>1, <1>2, <1>4, <1>12, <1>16, StreamedRowsStay, OpensStay, Zenon
<1> QED BY <1>10, <1>16, <1>17, <1>18, <1>19, <1>20, <1>21 DEF Inv

LEMMA FinalizeAttemptStep ==
    ASSUME Inv, NEW f \in Finalizers, finalizeAttempt(f)
    PROVE  Inv'
<1> DEFINE r == fin[f].id
           g == fin[f].gen
           t == fin[f].token
<1>0. StateInv /\ fin \in [Finalizers -> Call] /\ fin[f] \in Call
    BY InvParts, Zenon DEF StateInv
<1>1. /\ UNCHANGED <<now, bucket, forms, puts, finalizing, opn, reaperNow>>
      /\ fin[f].at = "copied" /\ fin' = [fin EXCEPT ![f].at = "succeeded"]
    BY Zenon DEF finalizeAttempt, objectVars
<1>2. r \in Requests /\ g \in 1 .. MaxGeneration /\ t \in Tokens
    BY <1>1, InvParts, Zenon DEF FinalizeInv
<1>3. CASE /\ Known(r, g, t) /\ req[r].state \in {"submitted", "consumed", "cancelled"}
           /\ Answer(r, g, t) /\ UNCHANGED <<req, jobs, accepted, released>>
    <2>1. Evolves /\ KeysInv' /\ \A q \in Requests : ObjectInv(q)'
        BY <1>1, <1>3, ObjectsStay
    <2>2. begin(r) /\ req[r].attempt # None /\ req[r].gen = g /\ req[r].attempt.token = t
        BY <1>3, Zenon DEF Known
    <2>3. Remembers(req[r], accepted[r])
        BY <1>2, <1>3, <2>2, KnownIsRemembered, SMTT(20)
    <2>4. /\ told' \in [Requests -> SUBSET ((1 .. MaxGeneration) \X Tokens)]
          /\ \A q \in Requests : RowInv(q)'
        BY <1>2, <1>3, <2>1, <2>2, <2>3, AnswerStep
    <2>5. /\ fin' \in [Finalizers -> Call]
          /\ fin'[f].at = "succeeded" /\ fin'[f].id = r /\ fin'[f].gen = g
          /\ fin'[f].token = t /\ fin'[f].body = fin[f].body
          /\ \A x \in Finalizers : x # f => fin'[x] = fin[x]
        BY <1>0, <1>1 DEF Call
    <2>6. StateInv'
        BY <1>0, <1>1, <1>3, <2>4, <2>5, Zenon DEF StateInv
    <2>7. ASSUME NEW x \in Finalizers
          PROVE  FinalizeInv(x)'
        BY <1>1, <2>1, <2>5, FinalizeMoves, Zenon
    <2>8. OneReader' /\ \A o \in Openers : OpenInv(o)'
        BY <1>1, <1>3, <2>1, OpensStay
    <2> QED BY <2>1, <2>4, <2>6, <2>7, <2>8 DEF Inv
<1> QED BY <1>3, AcceptUploadStep, Zenon DEF finalizeAttempt

LEMMA OpenInlineStep ==
    ASSUME Inv, NEW o \in Openers, NEW r \in Requests, Open(o, r), ~req[r].large
    PROVE  Inv'
<1>0. /\ req \in [Requests -> Row] /\ req[r] \in Row /\ RowOK(req[r], accepted[r]) /\ now \in Nat
      /\ StateInv
    BY InvParts, Zenon DEF StateInv
<1>1. UNCHANGED <<now, bucket, forms, puts, jobs, fin, finalizing, opn, reaperNow, told, accepted>>
    BY Zenon DEF Open, objectVars
<1>2. /\ req[r].state = "submitted" /\ now < req[r].expires
      /\ req' = [req EXCEPT ![r].state = "consumed", ![r].payload = None, ![r].consumedAt = now]
      /\ released' = [released EXCEPT ![r] = req[r].payload]
    BY Zenon DEF Open, begin, authorized
<1>3. /\ req' \in [Requests -> Row]
      /\ \A q \in Requests \ {r} : req'[q] = req[q]
    <2> DEFINE new == [req[r] EXCEPT !.state = "consumed", !.payload = None, !.consumedAt = now]
    <2>1. req' = [req EXCEPT ![r] = new]
        BY <1>2, Zenon
    <2>2. now \in Int
        BY <1>0
    <2>3. new \in Row
        BY <1>0, <2>2, Zenon DEF Row, States
    <2> HIDE DEF new
    <2> QED BY <1>0, <2>1, <2>3
<1>4. /\ req'[r].state = "consumed" /\ req'[r].attempt = req[r].attempt
      /\ req'[r].gen = req[r].gen /\ req'[r].expires = req[r].expires
      /\ SameKeys(req[r], req'[r])
    BY <1>0, <1>2, Zenon DEF Row, SameKeys
<1>5. req'[r] \in Row
    BY <1>3, Zenon
<1>6. RowOK(req'[r], accepted[r]) /\ Follows(req[r], req'[r], now)
    BY <1>0, <1>2, <1>4, <1>5, ConsumedRow, Zenon
<1>7. StateInv'
    <2>1. req[r].payload \in Bodies \cup {None}
        BY <1>0, Zenon DEF Row
    <2>2. released' \in [Requests -> Bodies \cup {None}]
        BY <1>0, <1>2, <2>1, SMTT(20) DEF StateInv
    <2> QED BY <1>0, <1>1, <1>3, <2>2, Zenon DEF StateInv
<1>8. ASSUME Evolves
      PROVE  KeysInv'
    <2>1. forms' \subseteq Requests \X (1 .. MaxGeneration) /\ jobs' \subseteq Keys
        BY <1>7, Zenon DEF StateInv
    <2> QED BY <1>1, <1>8, <2>1, InvParts, KeysStep
<1> QED BY <1>1, <1>2, <1>3, <1>4, <1>5, <1>6, <1>7, <1>8, RowMoves
=============================================================================
