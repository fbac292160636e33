-------------------------- MODULE PipeRelayProofs ---------------------------
(***************************************************************************)
(* Proofs about PipeRelay, for any number of codes, sessions, handlers and *)
(* chunks and any limits.                                                  *)
(***************************************************************************)
EXTENDS PipeRelay, FiniteSetTheorems, TLAPS

-----------------------------------------------------------------------------
(* The inductive invariant.                                                *)

Session == [code : Codes, expires : Nat, failed : 0 .. BurnLimit,
            receiverReady : BOOLEAN, senderReady : BOOLEAN, done : BOOLEAN,
            writer : {"open", "eof", "error"}, reader : {"open", "closed"}]

Sending == {"waiting", "reading", "writing", "burning"}
Receiving == {"waiting", "copying", "burning", "leaving"}

Handler(places) == [at : places, code : Codes \cup {0}, on : Nat, chunk : 0 .. Chunks]

StateInv ==
    /\ now \in 0 .. MaxTime
    /\ \E n \in 0 .. MaxSessions : session \in [1 .. n -> Session]
    /\ table \in [Codes -> Created \cup {0}]
    /\ snd \in [Senders -> Handler(Sending \cup {"idle"})]
    /\ rcv \in [Receivers -> Handler(Receiving \cup {"idle", "refused"})]
    /\ wtr \in [Waiters -> Created \cup {0}]
    /\ taken \in [Sessions -> SUBSET (Senders \X Receivers \X (1 .. Chunks))]

(* A session against its code and what went through its pipe.              *)
SessionInv(s) ==
    LET x == session[s]
    IN  /\ table[x.code] # s => x.done
        /\ x.done => x.reader = "closed" /\ x.writer # "open"
        /\ ~x.senderReady \/ ~x.receiverReady => taken[s] = {}
        /\ taken[s] = {} \/ \E p \in Senders, q \in Receivers, n \in 1 .. Chunks :
                               taken[s] = Chunked(p, q, n)
        /\ ReadsEOF(s) =>
              \/ Chunks = 0 /\ taken[s] = {}
              \/ \E p \in Senders, q \in Receivers : taken[s] = Chunked(p, q, Chunks)

(* Only its own receiver closes a session that is listed.                  *)
LeavingInv(s) ==
    table[session[s].code] = s /\ session[s].done =>
        \E p \in Receivers : rcv[p].on = s /\ rcv[p].at \in {"burning", "leaving"}

TableInv == \A c \in Codes : table[c] # 0 => session[table[c]].code = c

(* Nothing has gone through the pipe of a session that does not exist.     *)
FreshInv == \A s \in Sessions \ Created : taken[s] = {}

(* What p has written to the pipe so far.                                  *)
Written(p, n) ==
    \/ n = 0 /\ taken[snd[p].on] = {}
    \/ n > 0 /\ \E q \in Receivers : taken[snd[p].on] = Chunked(p, q, n)

SenderInv(p) ==
    LET x == snd[p]
    IN  x.at # "idle" =>
            /\ x.on \in Created
            /\ x.code = session[x.on].code
            /\ session[x.on].senderReady
            /\ x.at = "waiting" => x.chunk = 0 /\ taken[x.on] = {}
            /\ x.at = "reading" => Written(p, x.chunk)
            /\ x.at = "writing" => x.chunk > 0 /\ Written(p, x.chunk - 1)

ReceiverInv(q) ==
    LET x == rcv[q]
    IN  /\ x.at # "idle" => x.code \in Codes
        /\ x.at \in Receiving =>
              /\ x.on \in Created
              /\ x.code = session[x.on].code
              /\ session[x.on].receiverReady
              /\ x.at = "waiting" => taken[x.on] = {}
              /\ x.at = "copying" => \A y \in taken[x.on] : y[2] = q

OneSender ==
    \A p, r \in Senders :
        snd[p].at # "idle" /\ snd[r].at # "idle" /\ snd[p].on = snd[r].on => p = r

OneReceiver ==
    \A p, r \in Receivers :
        rcv[p].at \in Receiving /\ rcv[r].at \in Receiving /\ rcv[p].on = rcv[r].on => p = r

Inv ==
    /\ StateInv /\ TableInv /\ FreshInv
    /\ \A s \in Created : SessionInv(s) /\ LeavingInv(s)
    /\ \A p \in Senders : SenderInv(p)
    /\ \A q \in Receivers : ReceiverInv(q)
    /\ OneSender /\ OneReceiver

-----------------------------------------------------------------------------
(* A stretch of chunks counts as many as it has numbers.                   *)
LEMMA ChunkedCount ==
    ASSUME NEW p, NEW q, NEW n \in Nat
    PROVE  Cardinality(Chunked(p, q, n)) = n
<1> DEFINE f == [i \in 1 .. n |-> <<p, q, i>>]
<1>1. f \in [1 .. n -> Chunked(p, q, n)]
  BY Zenon DEF Chunked
<1>2. \A i, j \in 1 .. n : f[i] = f[j] => i = j
  BY Zenon
<1>3. \A y \in Chunked(p, q, n) : \E i \in 1 .. n : f[i] = y
  BY Zenon DEF Chunked
<1>4. f \in Bijection(1 .. n, Chunked(p, q, n))
  BY <1>1, <1>2, <1>3, Zenon DEF Bijection, Injection, Surjection, IsInjective
<1>5. ExistsBijection(1 .. n, Chunked(p, q, n))
  BY <1>4, Zenon DEF ExistsBijection
<1> QED
  BY <1>5, FS_CountingElements, Zenon

(* One more chunk.                                                         *)
LEMMA ChunkedNext ==
    ASSUME NEW p, NEW q, NEW n \in Nat \ {0}
    PROVE  Chunked(p, q, n - 1) \cup {<<p, q, n>>} = Chunked(p, q, n)
<1>1. (1 .. n - 1) \cup {n} = 1 .. n
  OBVIOUS
<1> QED
  BY <1>1, Zenon DEF Chunked

LEMMA ChunkedEmpty ==
    ASSUME NEW p, NEW q
    PROVE  Chunked(p, q, 0) = {}
BY DEF Chunked

-----------------------------------------------------------------------------
(* What the invariant says of the sessions as a whole.                     *)
LEMMA SessionFacts ==
    ASSUME Inv
    PROVE  /\ \E n \in 0 .. MaxSessions : Created = 1 .. n /\ Cardinality(Created) = n
           /\ session \in [Created -> Session]
           /\ 0 \notin Created /\ Created \subseteq Sessions /\ Created \subseteq Nat
           /\ table \in [Codes -> Created \cup {0}]
           /\ \A s \in Created : session[s] \in Session /\ session[s].code \in Codes
           /\ \A c \in Codes : table[c] # 0 => table[c] \in Created /\ session[table[c]].code = c
<1>1. PICK n \in 0 .. MaxSessions : session \in [1 .. n -> Session]
  BY Zenon DEF Inv, StateInv
<1>2. Created = 1 .. n
  BY <1>1, Zenon DEF Created
<1>3. Cardinality(1 .. n) = n
  BY FS_Interval, RelayAssumption
<1>4. session \in [Created -> Session]
  BY <1>1, <1>2, Zenon
<1>5. 0 \notin Created /\ Created \subseteq Sessions /\ Created \subseteq Nat
  BY <1>2, RelayAssumption DEF Sessions
<1>6. \A s \in Created : session[s] \in Session /\ session[s].code \in Codes
  BY <1>4, Zenon DEF Session
<1>7. table \in [Codes -> Created \cup {0}]
  BY Zenon DEF Inv, StateInv
<1>8. \A c \in Codes : table[c] # 0 => table[c] \in Created /\ session[table[c]].code = c
  BY <1>7, Zenon DEF Inv, TableInv
<1> QED
  BY <1>2, <1>3, <1>4, <1>5, <1>6, <1>7, <1>8, Zenon

LEMMA InitInv == Init => Inv
<1> SUFFICES ASSUME Init PROVE Inv
  BY Zenon
<1>1. Created = {} /\ session \in [1 .. 0 -> Session]
  BY DEF Init, Created
<1>2. Idle \in Handler(Sending \cup {"idle"}) /\ Idle \in Handler(Receiving \cup {"idle", "refused"})
      /\ Idle.at = "idle"
  BY RelayAssumption DEF Idle, Handler
<1>3. StateInv
  <2>1. 0 \in 0 .. MaxTime /\ 0 \in 0 .. MaxSessions
    BY RelayAssumption
  <2>2. \E n \in 0 .. MaxSessions : session \in [1 .. n -> Session]
    BY <1>1, <2>1, Zenon
  <2> QED
    BY <1>2, <2>1, <2>2, Zenon DEF Init, StateInv
<1>4. TableInv /\ FreshInv
  BY Zenon DEF Init, TableInv, FreshInv
<1>5. \A p \in Senders : snd[p].at = "idle"
  BY <1>2, Zenon DEF Init
<1>6. \A p \in Receivers : rcv[p].at = "idle"
  BY <1>2, Zenon DEF Init
<1>7. (\A p \in Senders : SenderInv(p)) /\ OneSender
  BY <1>5, Zenon DEF SenderInv, OneSender
<1>8. (\A p \in Receivers : ReceiverInv(p)) /\ OneReceiver
  BY <1>6, Zenon DEF ReceiverInv, OneReceiver, Receiving
<1> QED
  BY <1>1, <1>3, <1>4, <1>7, <1>8, Zenon DEF Inv

-----------------------------------------------------------------------------
(* A step that creates no session keeps the sessions' codes and what was   *)
(* signalled on them, and takes a code out of the table or leaves it.      *)
Evolves ==
    /\ session' \in [Created -> Session]
    /\ \A s \in Created : /\ session'[s].code = session[s].code
                          /\ session[s].senderReady => session'[s].senderReady
                          /\ session[s].receiverReady => session'[s].receiverReady
    /\ table' \in [Codes -> Created \cup {0}]
    /\ \A c \in Codes : table'[c] \in {table[c], 0}

(* It is then enough to look at the sessions and at the handler that moved.*)
LEMMA RelayStep ==
    ASSUME Inv, Evolves, UNCHANGED <<now, wtr, taken>>,
           snd' \in [Senders -> Handler(Sending \cup {"idle"})],
           rcv' \in [Receivers -> Handler(Receiving \cup {"idle", "refused"})],
           \A s \in Created : SessionInv(s)' /\ LeavingInv(s)',
           \A p \in Senders : snd'[p] = snd[p] \/ SenderInv(p)',
           \A q \in Receivers : rcv'[q] = rcv[q] \/ ReceiverInv(q)',
           OneSender', OneReceiver'
    PROVE  Inv'
<1>1. StateInv
  BY Zenon DEF Inv
<1>2. Created' = Created
  BY Zenon DEF Evolves, Created
<1>3. StateInv'
  <2>1. PICK n \in 0 .. MaxSessions : session \in [1 .. n -> Session]
    BY <1>1, Zenon DEF StateInv
  <2>2. session' \in [1 .. n -> Session]
    BY <2>1, Zenon DEF Evolves, Created
  <2> QED
    BY <1>1, <1>2, <2>2, Zenon DEF StateInv, Evolves
<1>4. TableInv'
  BY SessionFacts DEF Evolves, TableInv
<1>5. FreshInv'
  BY <1>2, Zenon DEF Inv, FreshInv
<1>6. \A p \in Senders : SenderInv(p)'
  <2> SUFFICES ASSUME NEW p \in Senders, snd'[p] = snd[p] PROVE SenderInv(p)'
    BY Zenon
  <2>1. SenderInv(p)
    BY Zenon DEF Inv
  <2> QED
    BY <1>2, <2>1 DEF SenderInv, Written, Evolves
<1>7. \A q \in Receivers : ReceiverInv(q)'
  <2> SUFFICES ASSUME NEW q \in Receivers, rcv'[q] = rcv[q] PROVE ReceiverInv(q)'
    BY Zenon
  <2>1. ReceiverInv(q)
    BY Zenon DEF Inv
  <2> QED
    BY <1>2, <2>1 DEF ReceiverInv, Evolves
<1> QED
  BY <1>2, <1>3, <1>4, <1>5, <1>6, <1>7, Zenon DEF Inv

(* A session that a step leaves alone.                                     *)
LEMMA SessionSame ==
    ASSUME NEW s \in Sessions, SessionInv(s), session'[s] = session[s], taken'[s] = taken[s],
           \/ table'[session[s].code] = table[session[s].code]
           \/ session[s].done
    PROVE  SessionInv(s)'
BY Zenon DEF SessionInv, ReadsEOF

(* Whoever is about to remove a session is still there.                    *)
LEMMA LeavingSame ==
    ASSUME NEW s \in Sessions, LeavingInv(s), session'[s].code = session[s].code,
           table'[session[s].code] = s => table[session[s].code] = s,
           session'[s].done => session[s].done,
           \A q \in Receivers : rcv[q].on = s /\ rcv[q].at \in {"burning", "leaving"} =>
               rcv'[q] = rcv[q]
    PROVE  LeavingInv(s)'
BY Zenon DEF LeavingInv

(* Senders that move on within their session, or leave.                    *)
LEMMA SendersStay ==
    ASSUME OneSender,
           \A p \in Senders : \/ snd'[p].at = "idle"
                              \/ snd[p].at # "idle" /\ snd'[p].on = snd[p].on
    PROVE  OneSender'
BY Zenon DEF OneSender

LEMMA ReceiversStay ==
    ASSUME OneReceiver,
           \A q \in Receivers : \/ rcv'[q].at \notin Receiving
                                \/ rcv[q].at \in Receiving /\ rcv'[q].on = rcv[q].on
    PROVE  OneReceiver'
BY Zenon DEF OneReceiver

(* One sender moves.                                                       *)
LEMMA SenderMoves ==
    ASSUME Inv, NEW p \in Senders, NEW x \in Handler(Sending \cup {"idle"}),
           snd' = [snd EXCEPT ![p] = x]
    PROVE  /\ snd' \in [Senders -> Handler(Sending \cup {"idle"})]
           /\ snd'[p] = x /\ \A r \in Senders \ {p} : snd'[r] = snd[r]
BY Zenon DEF Inv, StateInv

LEMMA ReceiverMoves ==
    ASSUME Inv, NEW q \in Receivers, NEW x \in Handler(Receiving \cup {"idle", "refused"}),
           rcv' = [rcv EXCEPT ![q] = x]
    PROVE  /\ rcv' \in [Receivers -> Handler(Receiving \cup {"idle", "refused"})]
           /\ rcv'[q] = x /\ \A r \in Receivers \ {q} : rcv'[r] = rcv[r]
BY Zenon DEF Inv, StateInv

(* The handlers as the invariant types them.                               *)
LEMMA HandlerFacts ==
    ASSUME Inv
    PROVE  /\ \A p \in Senders : snd[p] \in Handler(Sending \cup {"idle"}) /\ SenderInv(p)
           /\ \A q \in Receivers : rcv[q] \in Handler(Receiving \cup {"idle", "refused"})
                                   /\ ReceiverInv(q)
           /\ snd \in [Senders -> Handler(Sending \cup {"idle"})]
           /\ rcv \in [Receivers -> Handler(Receiving \cup {"idle", "refused"})]
           /\ Idle \in Handler(Sending \cup {"idle"})
           /\ Idle \in Handler(Receiving \cup {"idle", "refused"}) /\ Idle.at = "idle"
<1>1. /\ Idle \in Handler(Sending \cup {"idle"})
      /\ Idle \in Handler(Receiving \cup {"idle", "refused"}) /\ Idle.at = "idle"
  BY RelayAssumption DEF Idle, Handler
<1> QED
  BY <1>1, Zenon DEF Inv, StateInv

(* Nothing of the sessions changes.                                        *)
LEMMA SessionsSame ==
    ASSUME Inv, UNCHANGED <<table, session, taken>>
    PROVE  /\ Evolves
           /\ \A s \in Created : SessionInv(s)'
<1>1. /\ session \in [Created -> Session] /\ table \in [Codes -> Created \cup {0}]
      /\ Created \subseteq Sessions
  BY SessionFacts, Zenon
<1>2. Evolves
  BY <1>1, Zenon DEF Evolves
<1>3. \A s \in Created : SessionInv(s)'
  BY <1>1, SessionSame, Zenon DEF Inv
<1> QED
  BY <1>2, <1>3, Zenon

-----------------------------------------------------------------------------
(* Steps of the receivers that touch no session.                           *)
LEMMA ReceiverOnly ==
    ASSUME Inv, NEW q \in Receivers, NEW x \in Handler(Receiving \cup {"idle", "refused"}),
           rcv' = [rcv EXCEPT ![q] = x], UNCHANGED <<now, table, session, snd, wtr, taken>>,
           rcv[q].at \notin {"burning", "leaving"},
           x.at \notin Receiving \/ (rcv[q].at \in Receiving /\ x.on = rcv[q].on),
           ReceiverInv(q)'
    PROVE  Inv'
<1>1. /\ rcv' \in [Receivers -> Handler(Receiving \cup {"idle", "refused"})]
      /\ rcv'[q] = x /\ \A r \in Receivers \ {q} : rcv'[r] = rcv[r]
  BY ReceiverMoves, Zenon
<1>2. Evolves /\ \A s \in Created : SessionInv(s)'
  BY SessionsSame, Zenon
<1>3. \A s \in Created : LeavingInv(s)'
  <2> SUFFICES ASSUME NEW s \in Created PROVE LeavingInv(s)'
    BY Zenon
  <2>1. s \in Sessions /\ LeavingInv(s)
    BY SessionFacts, Zenon DEF Inv
  <2>2. \A r \in Receivers : rcv[r].on = s /\ rcv[r].at \in {"burning", "leaving"} =>
               rcv'[r] = rcv[r]
    BY <1>1, Zenon
  <2> QED
    BY <2>1, <2>2, LeavingSame, Zenon
<1>4. OneReceiver'
  BY <1>1, ReceiversStay, Zenon DEF Inv
<1>5. OneSender'
  BY Zenon DEF Inv, OneSender
<1>6. snd' \in [Senders -> Handler(Sending \cup {"idle"})]
  BY HandlerFacts, Zenon
<1> QED
  BY <1>1, <1>2, <1>3, <1>4, <1>5, <1>6, RelayStep, Zenon

(* Steps of the senders that touch no session.                             *)
LEMMA SenderOnly ==
    ASSUME Inv, NEW p \in Senders, NEW x \in Handler(Sending \cup {"idle"}),
           snd' = [snd EXCEPT ![p] = x], UNCHANGED <<now, table, session, rcv, wtr, taken>>,
           x.at = "idle" \/ (snd[p].at # "idle" /\ x.on = snd[p].on),
           SenderInv(p)'
    PROVE  Inv'
<1>1. /\ snd' \in [Senders -> Handler(Sending \cup {"idle"})]
      /\ snd'[p] = x /\ \A r \in Senders \ {p} : snd'[r] = snd[r]
  BY SenderMoves, Zenon
<1>2. Evolves /\ \A s \in Created : SessionInv(s)'
  BY SessionsSame, Zenon
<1>3. \A s \in Created : LeavingInv(s)'
  BY Zenon DEF Inv, LeavingInv
<1>4. OneSender'
  BY <1>1, SendersStay, Zenon DEF Inv
<1>5. OneReceiver'
  BY Zenon DEF Inv, OneReceiver
<1>6. rcv' \in [Receivers -> Handler(Receiving \cup {"idle", "refused"})]
  BY HandlerFacts, Zenon
<1> QED
  BY <1>1, <1>2, <1>3, <1>4, <1>5, <1>6, RelayStep, Zenon

(* A handler that only moves.                                              *)
LEMMA MovedHandler ==
    ASSUME NEW places, NEW x \in Handler(places), NEW there \in places
    PROVE  LET y == [x EXCEPT !.at = there]
           IN  /\ y \in Handler(places)
               /\ y.at = there /\ y.code = x.code /\ y.on = x.on /\ y.chunk = x.chunk
BY Zenon DEF Handler

LEMMA IdleFacts ==
    /\ Idle \in Handler(Sending \cup {"idle"})
    /\ Idle \in Handler(Receiving \cup {"idle", "refused"})
    /\ Idle.at = "idle" /\ Idle.chunk = 0
BY RelayAssumption DEF Idle, Handler

LEMMA ReceiveConnectsStep ==
    ASSUME Inv, NEW q \in Receivers, ReceiveConnects(q)
    PROVE  Inv'
<1> DEFINE x == [rcv[q] EXCEPT !.at = "copying"]
<1>1. /\ rcv[q].at = "waiting" /\ rcv' = [rcv EXCEPT ![q] = x]
      /\ UNCHANGED <<now, table, session, snd, wtr, taken>>
  BY Zenon DEF ReceiveConnects
<1>2. rcv[q] \in Handler(Receiving \cup {"idle", "refused"}) /\ ReceiverInv(q)
  BY HandlerFacts, Zenon
<1>3. /\ x \in Handler(Receiving \cup {"idle", "refused"})
      /\ x.at = "copying" /\ x.code = rcv[q].code /\ x.on = rcv[q].on
  BY <1>2, MovedHandler DEF Receiving
<1> HIDE DEF x
<1>4. rcv'[q] = x
  BY <1>1, <1>3, ReceiverMoves, Zenon
<1>5. ReceiverInv(q)'
  BY <1>1, <1>2, <1>3, <1>4, Zenon DEF ReceiverInv, Receiving, Created
<1> QED
  BY <1>1, <1>3, <1>5, ReceiverOnly, Zenon DEF Receiving

LEMMA ReceiveFindsItClosedStep ==
    ASSUME Inv, NEW q \in Receivers, ReceiveFindsItClosed(q)
    PROVE  Inv'
<1> DEFINE x == [rcv[q] EXCEPT !.at = "refused"]
<1>1. /\ rcv[q].at = "waiting" /\ rcv' = [rcv EXCEPT ![q] = x]
      /\ UNCHANGED <<now, table, session, snd, wtr, taken>>
  BY Zenon DEF ReceiveFindsItClosed
<1>2. rcv[q] \in Handler(Receiving \cup {"idle", "refused"}) /\ ReceiverInv(q)
  BY HandlerFacts, Zenon
<1>3. /\ x \in Handler(Receiving \cup {"idle", "refused"})
      /\ x.at = "refused" /\ x.code = rcv[q].code
  BY <1>2, MovedHandler
<1> HIDE DEF x
<1>4. rcv'[q] = x
  BY <1>1, <1>3, ReceiverMoves, Zenon
<1>5. ReceiverInv(q)'
  BY <1>1, <1>2, <1>3, <1>4, Zenon DEF ReceiverInv, Receiving
<1> QED
  BY <1>1, <1>3, <1>5, ReceiverOnly, Zenon DEF Receiving

LEMMA SendConnectsStep ==
    ASSUME Inv, NEW p \in Senders, SendConnects(p)
    PROVE  Inv'
<1> DEFINE x == [snd[p] EXCEPT !.at = "reading"]
<1>1. /\ snd[p].at = "waiting" /\ snd' = [snd EXCEPT ![p] = x]
      /\ UNCHANGED <<now, table, session, rcv, wtr, taken>>
  BY Zenon DEF SendConnects
<1>2. snd[p] \in Handler(Sending \cup {"idle"}) /\ SenderInv(p)
  BY HandlerFacts, Zenon
<1>3. /\ x \in Handler(Sending \cup {"idle"})
      /\ x.at = "reading" /\ x.code = snd[p].code /\ x.on = snd[p].on /\ x.chunk = snd[p].chunk
  BY <1>2, MovedHandler DEF Sending
<1> HIDE DEF x
<1>4. snd'[p] = x
  BY <1>1, <1>3, SenderMoves, Zenon
<1>5. SenderInv(p)'
  BY <1>1, <1>2, <1>3, <1>4, Zenon DEF SenderInv, Written, Created
<1> QED
  BY <1>1, <1>3, <1>5, SenderOnly, Zenon

LEMMA SendFindsItClosedStep ==
    ASSUME Inv, NEW p \in Senders, SendFindsItClosed(p)
    PROVE  Inv'
<1>1. /\ snd' = [snd EXCEPT ![p] = Idle]
      /\ UNCHANGED <<now, table, session, rcv, wtr, taken>>
  BY Zenon DEF SendFindsItClosed
<1>2. Idle \in Handler(Sending \cup {"idle"}) /\ Idle.at = "idle"
  BY HandlerFacts, Zenon
<1>3. SenderInv(p)'
  BY <1>1, <1>2, SenderMoves, Zenon DEF SenderInv
<1> QED
  BY <1>1, <1>2, <1>3, SenderOnly, Zenon

(* The next chunk is read before it is written.                            *)
LEMMA ReadChunkStep ==
    ASSUME Inv, NEW p \in Senders, snd[p].at = "reading", snd[p].chunk < Chunks,
           snd' = [snd EXCEPT ![p].at = "writing", ![p].chunk = @ + 1],
           UNCHANGED <<now, table, session, rcv, wtr, taken>>
    PROVE  Inv'
<1> DEFINE x == [snd[p] EXCEPT !.at = "writing", !.chunk = snd[p].chunk + 1]
<1>1. snd[p] \in Handler(Sending \cup {"idle"}) /\ SenderInv(p)
      /\ snd \in [Senders -> Handler(Sending \cup {"idle"})]
  BY HandlerFacts, Zenon
<1>2. snd[p].chunk \in Nat /\ snd[p].chunk + 1 \in 0 .. Chunks
  BY <1>1, RelayAssumption DEF Handler
<1>3. /\ x \in Handler(Sending \cup {"idle"})
      /\ x.at = "writing" /\ x.code = snd[p].code /\ x.on = snd[p].on
      /\ x.chunk = snd[p].chunk + 1
  BY <1>1, <1>2, Zenon DEF Handler, Sending
<1>4. snd' = [snd EXCEPT ![p] = x]
  BY <1>1, Zenon
<1> HIDE DEF x
<1>5. snd'[p] = x
  BY <1>3, <1>4, SenderMoves, Zenon
<1>6. x.chunk > 0 /\ x.chunk - 1 = snd[p].chunk
  BY <1>2, <1>3
<1>7. SenderInv(p)'
  BY <1>1, <1>3, <1>5, <1>6, Zenon DEF SenderInv, Written, Created
<1> QED
  BY <1>3, <1>4, <1>7, SenderOnly, Zenon

-----------------------------------------------------------------------------
(* What closing does to a session.                                         *)
LEMMA ClosedWriterFacts ==
    ASSUME NEW x \in Session, NEW how \in {"eof", "error"}
    PROVE  LET y == ClosedWriter(x, how)
           IN  /\ y \in Session
               /\ y.code = x.code /\ y.expires = x.expires /\ y.failed = x.failed
               /\ y.receiverReady = x.receiverReady /\ y.senderReady = x.senderReady
               /\ y.done = x.done /\ y.reader = x.reader
               /\ y.writer = IF x.writer = "open" THEN how ELSE x.writer
BY Zenon DEF ClosedWriter, Session

LEMMA ClosedFacts ==
    ASSUME NEW x \in Session, NEW how \in {"eof", "error"},
           x.done => x.reader = "closed" /\ x.writer # "open"
    PROVE  LET y == Closed(x, how)
           IN  /\ y \in Session
               /\ y.code = x.code
               /\ y.receiverReady = x.receiverReady /\ y.senderReady = x.senderReady
               /\ y.done /\ y.reader = "closed" /\ y.writer # "open"
<1>1. CASE x.done
  BY <1>1, Zenon DEF Closed
<1>2. CASE ~x.done
  <2> DEFINE w == ClosedWriter(x, how)
  <2>1. /\ w \in Session /\ w.code = x.code /\ w.receiverReady = x.receiverReady
        /\ w.senderReady = x.senderReady /\ w.writer # "open"
    BY ClosedWriterFacts, Zenon
  <2>2. Closed(x, how) = [w EXCEPT !.done = TRUE, !.reader = "closed"]
    BY <1>2, Zenon DEF Closed
  <2> HIDE DEF w
  <2> QED
    BY <2>1, <2>2, Zenon DEF Session
<1> QED
  BY <1>1, <1>2, Zenon

LEMMA ReceiverReadyFacts ==
    ASSUME NEW x \in Session
    PROVE  LET y == [x EXCEPT !.receiverReady = TRUE]
           IN  /\ y \in Session
               /\ y.code = x.code /\ y.senderReady = x.senderReady /\ y.receiverReady
               /\ y.done = x.done /\ y.reader = x.reader /\ y.writer = x.writer
BY Zenon DEF Session

LEMMA SenderReadyFacts ==
    ASSUME NEW x \in Session
    PROVE  LET y == [x EXCEPT !.senderReady = TRUE]
           IN  /\ y \in Session
               /\ y.code = x.code /\ y.receiverReady = x.receiverReady /\ y.senderReady
               /\ y.done = x.done /\ y.reader = x.reader /\ y.writer = x.writer
BY Zenon DEF Session

(* One session changes, the table does not.                                *)
LEMMA OneSession ==
    ASSUME Inv, NEW s \in Created, NEW y \in Session, session' = [session EXCEPT ![s] = y],
           y.code = session[s].code,
           session[s].senderReady => y.senderReady,
           session[s].receiverReady => y.receiverReady,
           UNCHANGED <<table, taken>>,
           session'[s] = y => SessionInv(s)'
    PROVE  /\ Evolves
           /\ session'[s] = y /\ \A r \in Created \ {s} : session'[r] = session[r]
           /\ \A r \in Created : SessionInv(r)'
<1>1. /\ session \in [Created -> Session] /\ table \in [Codes -> Created \cup {0}]
      /\ Created \subseteq Sessions
  BY SessionFacts, Zenon
<1>2. /\ session' \in [Created -> Session]
      /\ session'[s] = y /\ \A r \in Created \ {s} : session'[r] = session[r]
  BY <1>1, Zenon
<1>3. Evolves
  BY <1>1, <1>2, Zenon DEF Evolves
<1>4. \A r \in Created \ {s} : SessionInv(r)'
  BY <1>1, <1>2, SessionSame, Zenon DEF Inv
<1> QED
  BY <1>2, <1>3, <1>4, Zenon

(* A receiver is let in once.                                              *)
LEMMA ReceiveStep ==
    ASSUME Inv, NEW q \in Receivers, NEW c \in Codes, Receive(q, c)
    PROVE  Inv'
<1>0. PICK s : s = table[c]
  BY Zenon
<1>1. /\ rcv[q].at = "idle" /\ UNCHANGED <<now, table, snd, wtr, taken>>
  BY <1>0, Zenon DEF Receive
<1>4. CASE UNCHANGED session
           /\ rcv' = [rcv EXCEPT ![q] = [Idle EXCEPT !.at = "refused", !.code = c]]
  <2> DEFINE x == [Idle EXCEPT !.at = "refused", !.code = c]
  <2>1. x \in Handler(Receiving \cup {"idle", "refused"}) /\ x.at = "refused" /\ x.code = c
    BY IdleFacts, Zenon DEF Handler, Receiving
  <2>2. rcv' = [rcv EXCEPT ![q] = x]
    BY <1>4, Zenon
  <2> HIDE DEF x
  <2>3. ReceiverInv(q)'
    BY <2>1, <2>2, ReceiverMoves, Zenon DEF ReceiverInv, Receiving
  <2> QED
    BY <1>1, <1>4, <2>1, <2>2, <2>3, ReceiverOnly, Zenon DEF Receiving
<1>5. CASE /\ s # 0 /\ ~session[s].receiverReady
           /\ session' = [session EXCEPT ![s].receiverReady = TRUE]
           /\ rcv' = [rcv EXCEPT ![q] = [Idle EXCEPT !.at = "waiting", !.code = c, !.on = s]]
  <2> DEFINE x == [Idle EXCEPT !.at = "waiting", !.code = c, !.on = s]
             y == [session[s] EXCEPT !.receiverReady = TRUE]
  <2>a. /\ s \in Created /\ session[s].code = c /\ session[s] \in Session /\ s \in Nat
        /\ s \in Sessions
    BY <1>0, <1>5, SessionFacts, Zenon
  <2>b. SessionInv(s) /\ LeavingInv(s)
    BY <2>a, Zenon DEF Inv
  <2>1. /\ x \in Handler(Receiving \cup {"idle", "refused"})
        /\ x.at = "waiting" /\ x.code = c /\ x.on = s
    BY <2>a, IdleFacts, Zenon DEF Handler, Receiving
  <2>2. rcv' = [rcv EXCEPT ![q] = x]
    BY <1>5, Zenon
  <2>3. /\ y \in Session /\ y.code = c /\ y.senderReady = session[s].senderReady
        /\ y.receiverReady /\ y.done = session[s].done /\ y.reader = session[s].reader
        /\ y.writer = session[s].writer
    BY <2>a, ReceiverReadyFacts, Zenon
  <2>4. session' = [session EXCEPT ![s] = y]
    BY <1>5, Zenon
  <2> HIDE DEF x, y
  <2>5. taken[s] = {}
    BY <2>b, <1>5, Zenon DEF SessionInv
  <2>6. session'[s] = y => SessionInv(s)'
    BY <1>1, <2>a, <2>b, <2>3, <2>5, Zenon DEF SessionInv, ReadsEOF
  <2>7. /\ Evolves /\ session'[s] = y /\ \A r \in Created \ {s} : session'[r] = session[r]
        /\ \A r \in Created : SessionInv(r)'
    BY <1>1, <2>a, <2>3, <2>4, <2>6, OneSession, Zenon
  <2>8. /\ rcv' \in [Receivers -> Handler(Receiving \cup {"idle", "refused"})]
        /\ rcv'[q] = x /\ \A r \in Receivers \ {q} : rcv'[r] = rcv[r]
    BY <2>1, <2>2, ReceiverMoves, Zenon
  <2>9. \A r \in Created : LeavingInv(r)'
    <3> SUFFICES ASSUME NEW r \in Created PROVE LeavingInv(r)'
      BY Zenon
    <3>1. r \in Sessions /\ LeavingInv(r)
      BY SessionFacts, Zenon DEF Inv
    <3>2. session'[r].code = session[r].code /\ session'[r].done = session[r].done
      BY <2>a, <2>3, <2>7, Zenon
    <3>3. \A w \in Receivers : rcv[w].on = r /\ rcv[w].at \in {"burning", "leaving"} =>
               rcv'[w] = rcv[w]
      BY <1>1, <2>8, Zenon
    <3> QED
      BY <1>1, <3>1, <3>2, <3>3, LeavingSame, Zenon
  <2>10. ReceiverInv(q)'
    <3>1. session'[s].code = c /\ session'[s].receiverReady /\ s \in Created'
      BY <2>a, <2>3, <2>7, Zenon DEF Evolves, Created
    <3> QED
      BY <1>1, <2>1, <2>5, <2>8, <3>1, Zenon DEF ReceiverInv
  <2>11. OneReceiver'
    <3>1. \A r \in Receivers \ {q} : rcv[r].at \in Receiving => rcv[r].on # s
      BY <1>5, HandlerFacts, Zenon DEF ReceiverInv
    <3> QED
      BY <2>1, <2>8, <3>1 DEF Inv, OneReceiver
  <2>12. OneSender' /\ snd' \in [Senders -> Handler(Sending \cup {"idle"})] /\ snd' = snd
    BY <1>1, HandlerFacts, Zenon DEF Inv, OneSender
  <2> QED
    BY <1>1, <2>7, <2>8, <2>9, <2>10, <2>11, <2>12, RelayStep, Zenon
<1> QED
  BY <1>0, <1>4, <1>5, Zenon DEF Receive

(* The receiver closes its session and is about to remove its code.        *)
LEMMA ReceiverCloses ==
    ASSUME Inv, NEW q \in Receivers, rcv[q].at \in {"waiting", "copying"},
           NEW s, s = rcv[q].on, NEW y \in Session,
           session' = [session EXCEPT ![s] = y],
           y.code = session[s].code, y.senderReady = session[s].senderReady,
           y.receiverReady = session[s].receiverReady,
           y.done, y.reader = "closed", y.writer # "open",
           NEW there \in {"burning", "leaving"}, rcv' = [rcv EXCEPT ![q].at = there],
           UNCHANGED <<now, table, snd, wtr, taken>>
    PROVE  Inv'
<1> DEFINE x == [rcv[q] EXCEPT !.at = there]
<1>1. rcv[q] \in Handler(Receiving \cup {"idle", "refused"}) /\ ReceiverInv(q)
  BY HandlerFacts, Zenon
<1>2. /\ s \in Created /\ rcv[q].code = session[s].code /\ session[s].receiverReady
      /\ rcv[q].code \in Codes /\ rcv[q].at \in Receiving
  BY <1>1, Zenon DEF ReceiverInv, Receiving
<1>3. /\ x \in Handler(Receiving \cup {"idle", "refused"})
      /\ x.at = there /\ x.code = rcv[q].code /\ x.on = s
  BY <1>1, MovedHandler DEF Receiving
<1>4. rcv' = [rcv EXCEPT ![q] = x]
  BY Zenon
<1> HIDE DEF x
<1>5. /\ rcv' \in [Receivers -> Handler(Receiving \cup {"idle", "refused"})]
      /\ rcv'[q] = x /\ \A r \in Receivers \ {q} : rcv'[r] = rcv[r]
  BY <1>3, <1>4, ReceiverMoves, Zenon
<1>6. SessionInv(s)
  BY <1>2, Zenon DEF Inv
<1>7. session'[s] = y => SessionInv(s)'
  BY <1>6, Zenon DEF SessionInv, ReadsEOF
<1>8. /\ Evolves /\ session'[s] = y /\ \A r \in Created \ {s} : session'[r] = session[r]
      /\ \A r \in Created : SessionInv(r)'
  BY <1>2, <1>7, OneSession, Zenon
<1>9. \A r \in Created : LeavingInv(r)'
  <2>1. LeavingInv(s)'
    BY <1>3, <1>5, Zenon DEF LeavingInv
  <2>2. ASSUME NEW r \in Created \ {s} PROVE LeavingInv(r)'
    <3>1. r \in Sessions /\ LeavingInv(r) /\ session'[r] = session[r]
      BY <1>8, SessionFacts, Zenon DEF Inv
    <3>2. \A w \in Receivers : rcv[w].on = r /\ rcv[w].at \in {"burning", "leaving"} =>
               rcv'[w] = rcv[w]
      BY <1>5, Zenon
    <3> QED
      BY <3>1, <3>2, LeavingSame, Zenon
  <2> QED
    BY <2>1, <2>2, Zenon
<1>10. ReceiverInv(q)'
  <2>1. session'[s].code = rcv[q].code /\ session'[s].receiverReady /\ s \in Created'
    BY <1>2, <1>8, Zenon DEF Evolves, Created
  <2> QED
    BY <1>2, <1>3, <1>5, <2>1 DEF ReceiverInv
<1>11. OneReceiver'
  BY <1>2, <1>3, <1>5, ReceiversStay DEF Inv
<1>12. OneSender' /\ snd' \in [Senders -> Handler(Sending \cup {"idle"})]
  BY HandlerFacts, Zenon DEF Inv, OneSender
<1> QED
  BY <1>5, <1>8, <1>9, <1>10, <1>11, <1>12, RelayStep, Zenon

LEMMA ReceiveGivesUpStep ==
    ASSUME Inv, NEW q \in Receivers, ReceiveGivesUp(q)
    PROVE  Inv'
<1>1. /\ rcv[q].at = "waiting" /\ rcv' = [rcv EXCEPT ![q].at = "leaving"]
      /\ UNCHANGED <<now, table, snd, wtr, taken>>
  BY Zenon DEF ReceiveGivesUp
<1>2. PICK s : s = rcv[q].on
  BY Zenon
<1>3. s \in Created /\ session[s] \in Session /\ SessionInv(s)
  BY <1>1, <1>2, HandlerFacts, SessionFacts, Zenon DEF ReceiverInv, Receiving, Inv
<1>4. PICK y : y = Closed(session[s], "eof")
  BY Zenon
<1>5. /\ y \in Session /\ y.code = session[s].code
      /\ y.receiverReady = session[s].receiverReady /\ y.senderReady = session[s].senderReady
      /\ y.done /\ y.reader = "closed" /\ y.writer # "open"
  BY <1>3, <1>4, ClosedFacts, Zenon DEF SessionInv
<1>6. session' = [session EXCEPT ![s] = y]
  BY <1>2, <1>4, Zenon DEF ReceiveGivesUp
<1> QED
  BY <1>1, <1>2, <1>5, <1>6, ReceiverCloses, Zenon

LEMMA CopyEndsStep ==
    ASSUME Inv, NEW q \in Receivers, CopyEnds(q)
    PROVE  Inv'
<1>1. /\ rcv[q].at = "copying" /\ rcv' = [rcv EXCEPT ![q].at = "burning"]
      /\ UNCHANGED <<now, table, snd, wtr, taken>>
  BY Zenon DEF CopyEnds
<1>2. PICK s : s = rcv[q].on
  BY Zenon
<1>3. s \in Created /\ session[s] \in Session /\ SessionInv(s)
  BY <1>1, <1>2, HandlerFacts, SessionFacts, Zenon DEF ReceiverInv, Receiving, Inv
<1>4. PICK x : x = [session[s] EXCEPT !.reader = "closed"]
  BY Zenon
<1>5. /\ x \in Session /\ x.code = session[s].code
      /\ x.receiverReady = session[s].receiverReady /\ x.senderReady = session[s].senderReady
      /\ x.done => x.reader = "closed" /\ x.writer # "open"
  <2>1. ASSUME NEW z \in Session, z.done => z.writer # "open"
        PROVE  LET w == [z EXCEPT !.reader = "closed"]
               IN  /\ w \in Session /\ w.code = z.code
                   /\ w.receiverReady = z.receiverReady /\ w.senderReady = z.senderReady
                   /\ w.done => w.reader = "closed" /\ w.writer # "open"
    BY <2>1, Zenon DEF Session
  <2> QED
    BY <1>3, <1>4, <2>1, Zenon DEF SessionInv
<1>6. PICK y : y = Closed(x, "eof")
  BY Zenon
<1>7. /\ y \in Session /\ y.code = session[s].code
      /\ y.receiverReady = session[s].receiverReady /\ y.senderReady = session[s].senderReady
      /\ y.done /\ y.reader = "closed" /\ y.writer # "open"
  BY <1>5, <1>6, ClosedFacts, Zenon
<1>8. session' = [session EXCEPT ![s] = y]
  BY <1>2, <1>4, <1>6, Zenon DEF CopyEnds
<1> QED
  BY <1>1, <1>2, <1>7, <1>8, ReceiverCloses, Zenon

-----------------------------------------------------------------------------
(* A sender that signals on its session, or closes its end of the pipe:    *)
(* the session is neither closed nor removed by that.                      *)
LEMMA SenderTouches ==
    ASSUME Inv, NEW p \in Senders, NEW s \in Created, NEW y \in Session,
           session' = [session EXCEPT ![s] = y],
           y.code = session[s].code, y.done = session[s].done,
           y.receiverReady = session[s].receiverReady,
           session[s].senderReady => y.senderReady,
           snd' \in [Senders -> Handler(Sending \cup {"idle"})],
           \A r \in Senders \ {p} : snd'[r] = snd[r],
           UNCHANGED <<now, table, rcv, wtr, taken>>,
           session'[s] = y => SessionInv(s)',
           session'[s] = y => SenderInv(p)',
           OneSender'
    PROVE  Inv'
<1>1. /\ Evolves /\ session'[s] = y /\ \A r \in Created \ {s} : session'[r] = session[r]
      /\ \A r \in Created : SessionInv(r)'
  BY OneSession, Zenon
<1>2. \A r \in Created : session'[r].code = session[r].code /\ session'[r].done = session[r].done
  BY <1>1, Zenon
<1>3. \A r \in Created : LeavingInv(r)'
  <2> SUFFICES ASSUME NEW r \in Created PROVE LeavingInv(r)'
    BY Zenon
  <2>1. LeavingInv(r)
    BY Zenon DEF Inv
  <2> QED
    BY <1>2, <2>1, Zenon DEF LeavingInv
<1>4. OneReceiver' /\ rcv' \in [Receivers -> Handler(Receiving \cup {"idle", "refused"})]
  BY HandlerFacts, Zenon DEF Inv, OneReceiver
<1>5. (\A r \in Senders : snd'[r] = snd[r] \/ SenderInv(r)')
      /\ (\A q \in Receivers : rcv'[q] = rcv[q])
  BY <1>1, Zenon
<1> QED
  BY <1>1, <1>3, <1>4, <1>5, RelayStep, Zenon

(* A sender is let in once.                                                *)
LEMMA SendStep ==
    ASSUME Inv, NEW p \in Senders, NEW c \in Codes, Send(p, c)
    PROVE  Inv'
<1>0. PICK s : s = table[c]
  BY Zenon
<1>1. /\ snd[p].at = "idle" /\ s # 0 /\ UNCHANGED <<now, table, rcv, wtr, taken>>
  BY <1>0, Zenon DEF Send
<1>2. s \in Created /\ session[s].code = c /\ session[s] \in Session /\ s \in Nat
  BY <1>0, <1>1, SessionFacts, Zenon
<1>3. SessionInv(s)
  BY <1>2, Zenon DEF Inv
<1>4. PICK y : y = [session[s] EXCEPT !.senderReady = TRUE]
  BY Zenon
<1>5. /\ y \in Session /\ y.code = c /\ y.receiverReady = session[s].receiverReady
      /\ y.senderReady /\ y.done = session[s].done /\ y.reader = session[s].reader
      /\ y.writer = session[s].writer
  BY <1>2, <1>4, SenderReadyFacts, Zenon
<1>6. session' = [session EXCEPT ![s] = y]
  BY <1>0, <1>4, Zenon DEF Send
<1>7. CASE session[s].senderReady
  <2>1. snd' = snd
    BY <1>0, <1>7, Zenon DEF Send
  <2>2. session'[s] = y => SessionInv(s)'
    BY <1>1, <1>2, <1>3, <1>5, <1>7, Zenon DEF SessionInv, ReadsEOF
  <2>3. SenderInv(p)'
    BY <1>1, <2>1, Zenon DEF SenderInv
  <2>4. OneSender' /\ snd' \in [Senders -> Handler(Sending \cup {"idle"})]
    BY <2>1, HandlerFacts, Zenon DEF Inv, OneSender
  <2> QED
    BY <1>1, <1>2, <1>5, <1>6, <2>1, <2>2, <2>3, <2>4, SenderTouches, Zenon
<1>8. CASE ~session[s].senderReady
  <2>1. PICK x : x = [Idle EXCEPT !.at = "waiting", !.code = c, !.on = s]
    BY Zenon
  <2>2. /\ x \in Handler(Sending \cup {"idle"})
        /\ x.at = "waiting" /\ x.code = c /\ x.on = s /\ x.chunk = 0
    BY <1>2, <2>1, IdleFacts, Zenon DEF Handler, Sending
  <2>3. snd' = [snd EXCEPT ![p] = x]
    BY <1>0, <1>8, <2>1, Zenon DEF Send
  <2>4. /\ snd' \in [Senders -> Handler(Sending \cup {"idle"})]
        /\ snd'[p] = x /\ \A r \in Senders \ {p} : snd'[r] = snd[r]
    BY <2>2, <2>3, SenderMoves, Zenon
  <2>5. taken[s] = {}
    BY <1>3, <1>8, Zenon DEF SessionInv
  <2>6. session'[s] = y => SessionInv(s)'
    BY <1>1, <1>2, <1>3, <1>5, <2>5, Zenon DEF SessionInv, ReadsEOF
  <2>7. s \in Created'
    BY <1>2, <1>6, SessionFacts, Zenon DEF Created
  <2>8. session'[s] = y => SenderInv(p)'
    BY <1>1, <1>5, <2>2, <2>4, <2>5, <2>7, Zenon DEF SenderInv
  <2>9. OneSender'
    <3>1. \A r \in Senders : snd[r].at # "idle" => snd[r].on # s
      BY <1>8, HandlerFacts, Zenon DEF SenderInv
    <3> QED
      BY <2>2, <2>4, <3>1, SMTT(20) DEF Inv, OneSender
  <2> QED
    BY <1>1, <1>2, <1>5, <1>6, <2>4, <2>6, <2>8, <2>9, SenderTouches, Zenon
<1> QED
  BY <1>7, <1>8, Zenon

(* The end of the body closes the pipe cleanly: by then every chunk has    *)
(* gone through, unless the pipe was closed before.                        *)
LEMMA ReadEndStep ==
    ASSUME Inv, NEW p \in Senders, ReadBody(p), snd[p].chunk = Chunks
    PROVE  Inv'
<1>0. /\ snd[p].at = "reading" /\ snd' = [snd EXCEPT ![p] = Idle]
      /\ UNCHANGED <<now, table, rcv, wtr, taken>>
  BY RelayAssumption DEF ReadBody
<1>1. PICK s : s = snd[p].on
  BY Zenon
<1>2. SenderInv(p)
  BY HandlerFacts, Zenon
<1>3. s \in Created /\ session[s] \in Session /\ SessionInv(s)
  BY <1>0, <1>1, <1>2, SessionFacts, Zenon DEF SenderInv, Inv
<1>4. PICK y : y = ClosedWriter(session[s], "eof")
  BY Zenon
<1>5. /\ y \in Session /\ y.code = session[s].code
      /\ y.receiverReady = session[s].receiverReady /\ y.senderReady = session[s].senderReady
      /\ y.done = session[s].done /\ y.reader = session[s].reader
      /\ y.writer = IF session[s].writer = "open" THEN "eof" ELSE session[s].writer
  BY <1>3, <1>4, ClosedWriterFacts, Zenon
<1>6. session' = [session EXCEPT ![s] = y]
  BY <1>1, <1>4, RelayAssumption DEF ReadBody
<1>7. /\ snd' \in [Senders -> Handler(Sending \cup {"idle"})]
      /\ snd'[p] = Idle /\ \A r \in Senders \ {p} : snd'[r] = snd[r]
  BY <1>0, IdleFacts, SenderMoves, Zenon
<1>8. \/ Chunks = 0 /\ taken[s] = {}
      \/ \E q \in Receivers : taken[s] = Chunked(p, q, Chunks)
  BY <1>0, <1>1, <1>2, Zenon DEF SenderInv, Written
<1>9. session'[s] = y => SessionInv(s)'
  BY <1>0, <1>3, <1>5, <1>8, Zenon DEF SessionInv, ReadsEOF
<1>10. SenderInv(p)'
  BY <1>7, IdleFacts, Zenon DEF SenderInv
<1>11. OneSender'
  BY <1>7, IdleFacts, SendersStay, Zenon DEF Inv, OneSender
<1>12. /\ y \in Session /\ y.code = session[s].code
       /\ y.receiverReady = session[s].receiverReady /\ y.done = session[s].done
       /\ session[s].senderReady => y.senderReady
  BY <1>5, Zenon
<1> QED
  BY <1>0, <1>3, <1>6, <1>7, <1>9, <1>10, <1>11, <1>12, SenderTouches, Zenon

LEMMA ReadBodyStep ==
    ASSUME Inv, NEW p \in Senders, ReadBody(p)
    PROVE  Inv'
<1>1. CASE snd[p].chunk = Chunks
  BY <1>1, ReadEndStep, Zenon
<1>2. CASE snd[p].chunk # Chunks
  BY <1>2, ReadChunkStep, Zenon DEF ReadBody
<1> QED
  BY <1>1, <1>2, Zenon

LEMMA SendFailsStep ==
    ASSUME Inv, NEW p \in Senders, SendFails(p)
    PROVE  Inv'
<1>0. /\ snd[p].at # "idle" /\ snd' = [snd EXCEPT ![p].at = "burning"]
      /\ UNCHANGED <<now, table, rcv, wtr, taken>>
  BY Zenon DEF SendFails
<1>1. PICK s : s = snd[p].on
  BY Zenon
<1>2. SenderInv(p) /\ snd[p] \in Handler(Sending \cup {"idle"})
  BY HandlerFacts, Zenon
<1>3. /\ s \in Created /\ session[s] \in Session /\ SessionInv(s)
      /\ snd[p].code = session[s].code /\ session[s].senderReady
  BY <1>0, <1>1, <1>2, SessionFacts, Zenon DEF SenderInv, Inv
<1>4. PICK y : y = ClosedWriter(session[s], "error")
  BY Zenon
<1>5. /\ y \in Session /\ y.code = session[s].code
      /\ y.receiverReady = session[s].receiverReady /\ y.senderReady = session[s].senderReady
      /\ y.done = session[s].done /\ y.reader = session[s].reader
      /\ y.writer = IF session[s].writer = "open" THEN "error" ELSE session[s].writer
  BY <1>3, <1>4, ClosedWriterFacts, Zenon
<1>6. session' = [session EXCEPT ![s] = y]
  BY <1>1, <1>4, Zenon DEF SendFails
<1>7. PICK x : x = [snd[p] EXCEPT !.at = "burning"]
  BY Zenon
<1>8. /\ x \in Handler(Sending \cup {"idle"})
      /\ x.at = "burning" /\ x.code = snd[p].code /\ x.on = s
  BY <1>1, <1>2, <1>7, MovedHandler DEF Sending
<1>9. snd' = [snd EXCEPT ![p] = x]
  BY <1>0, <1>7, Zenon
<1>10. /\ snd' \in [Senders -> Handler(Sending \cup {"idle"})]
       /\ snd'[p] = x /\ \A r \in Senders \ {p} : snd'[r] = snd[r]
  BY <1>8, <1>9, SenderMoves, Zenon
<1>11. session'[s] = y => SessionInv(s)'
  BY <1>0, <1>3, <1>5, Zenon DEF SessionInv, ReadsEOF
<1>12. s \in Created'
  BY <1>3, <1>6, SessionFacts, Zenon DEF Created
<1>13. session'[s] = y => SenderInv(p)'
  BY <1>3, <1>5, <1>8, <1>10, <1>12, Zenon DEF SenderInv
<1>14. OneSender'
  BY <1>0, <1>1, <1>8, <1>10, SendersStay, Zenon DEF Inv
<1>15. session[s].senderReady => y.senderReady
  BY <1>5, Zenon
<1> QED
  BY <1>0, <1>3, <1>5, <1>6, <1>10, <1>11, <1>13, <1>14, <1>15, SenderTouches, Zenon

-----------------------------------------------------------------------------
(* What a sender wrote before came through to the receiver that takes the  *)
(* next chunk.                                                             *)
LEMMA TakenSoFar ==
    ASSUME Inv, NEW p \in Senders, NEW q \in Receivers,
           snd[p].at = "writing", rcv[q].at = "copying", rcv[q].on = snd[p].on
    PROVE  /\ snd[p].chunk \in 1 .. Chunks
           /\ taken[snd[p].on] = Chunked(p, q, snd[p].chunk - 1)
<1>1. SenderInv(p) /\ ReceiverInv(q) /\ snd[p] \in Handler(Sending \cup {"idle"})
  BY HandlerFacts, Zenon
<1>2. snd[p].chunk \in 1 .. Chunks
  BY <1>1, RelayAssumption DEF SenderInv, Handler
<1>3. \A y \in taken[snd[p].on] : y[2] = q
  BY <1>1, Zenon DEF ReceiverInv, Receiving
<1>4. PICK k : k = snd[p].chunk - 1
  BY Zenon
<1>5. Written(p, k) /\ k \in Nat
  BY <1>1, <1>2, <1>4 DEF SenderInv
<1>6. CASE k = 0
  BY <1>2, <1>4, <1>5, <1>6, ChunkedEmpty, Zenon DEF Written
<1>7. CASE k > 0
  <2>1. PICK w \in Receivers : taken[snd[p].on] = Chunked(p, w, k)
    BY <1>5, <1>7 DEF Written
  <2>2. <<p, w, 1>> \in Chunked(p, w, k)
    BY <1>5, <1>7 DEF Chunked
  <2>3. w = q
    BY <1>3, <2>1, <2>2
  <2> QED
    BY <1>2, <1>4, <2>1, <2>3, Zenon
<1> QED
  BY <1>2, <1>5, <1>6, <1>7

LEMMA TransferStep ==
    ASSUME Inv, NEW p \in Senders, NEW q \in Receivers, Transfer(p, q)
    PROVE  Inv'
<1>0. PICK s, k : s = snd[p].on /\ k = snd[p].chunk
  BY Zenon
<1>1. /\ snd[p].at = "writing" /\ rcv[q].at = "copying" /\ rcv[q].on = s /\ PipeOpen(s)
      /\ snd' = [snd EXCEPT ![p].at = "reading"]
      /\ taken' = [taken EXCEPT ![s] = @ \cup {<<p, q, k>>}]
      /\ UNCHANGED <<now, table, session, rcv, wtr>>
  BY <1>0, Zenon DEF Transfer
<1>2. SenderInv(p) /\ ReceiverInv(q) /\ snd[p] \in Handler(Sending \cup {"idle"})
  BY HandlerFacts, Zenon
<1>3. /\ s \in Created /\ session[s].senderReady /\ session[s].receiverReady
      /\ SessionInv(s) /\ s \in Sessions /\ Created \subseteq Sessions
  BY <1>0, <1>1, <1>2, SessionFacts DEF SenderInv, ReceiverInv, Receiving, Inv
<1>4. k \in 1 .. Chunks /\ taken[s] = Chunked(p, q, k - 1)
  BY <1>0, <1>1, TakenSoFar, Zenon
<1>5. taken[s] \cup {<<p, q, k>>} = Chunked(p, q, k)
  BY <1>4, ChunkedNext, RelayAssumption
<1>6. taken' = [taken EXCEPT ![s] = Chunked(p, q, k)]
  BY <1>1, <1>5, Zenon
<1>7. /\ taken' \in [Sessions -> SUBSET (Senders \X Receivers \X (1 .. Chunks))]
      /\ taken'[s] = Chunked(p, q, k) /\ \A r \in Sessions \ {s} : taken'[r] = taken[r]
  <2>1. Chunked(p, q, k) \subseteq Senders \X Receivers \X (1 .. Chunks)
    BY <1>4, RelayAssumption DEF Chunked
  <2>2. taken \in [Sessions -> SUBSET (Senders \X Receivers \X (1 .. Chunks))]
    BY Zenon DEF Inv, StateInv
  <2> QED
    BY <1>3, <1>6, <2>1, <2>2, Zenon
<1>8. PICK x : x = [snd[p] EXCEPT !.at = "reading"]
  BY Zenon
<1>9. /\ x \in Handler(Sending \cup {"idle"})
      /\ x.at = "reading" /\ x.code = snd[p].code /\ x.on = s /\ x.chunk = k
  BY <1>0, <1>2, <1>8, MovedHandler DEF Sending
<1>10. snd' = [snd EXCEPT ![p] = x]
  BY <1>1, <1>8, Zenon
<1>11. /\ snd' \in [Senders -> Handler(Sending \cup {"idle"})]
       /\ snd'[p] = x /\ \A r \in Senders \ {p} : snd'[r] = snd[r]
  BY <1>9, <1>10, SenderMoves, Zenon
<1>12. Created' = Created
  BY <1>1, Zenon DEF Created
<1>13. StateInv'
  BY <1>1, <1>7, <1>11, <1>12, Zenon DEF Inv, StateInv
<1>14. TableInv' /\ FreshInv'
  BY <1>1, <1>3, <1>7, <1>12, Zenon DEF Inv, TableInv, FreshInv
<1>15. \A r \in Created : SessionInv(r)'
  <2>1. SessionInv(s)'
    <3>1. ~ReadsEOF(s)'
      BY <1>1, Zenon DEF ReadsEOF, PipeOpen
    <3>2. taken'[s] = {} \/ \E a \in Senders, b \in Receivers, n \in 1 .. Chunks :
                               taken'[s] = Chunked(a, b, n)
      BY <1>4, <1>7, Zenon
    <3> QED
      BY <1>1, <1>3, <3>1, <3>2, Zenon DEF SessionInv
  <2>2. \A r \in Created \ {s} : SessionInv(r)'
    BY <1>1, <1>3, <1>7, SessionSame, Zenon DEF Inv
  <2> QED
    BY <2>1, <2>2, Zenon
<1>16. \A r \in Created : LeavingInv(r)'
  BY <1>1, Zenon DEF Inv, LeavingInv
<1>17. \A r \in Senders : SenderInv(r)'
  <2>1. SenderInv(p)'
    <3>1. Written(p, k)'
      BY <1>4, <1>7, <1>9, <1>11, RelayAssumption, SMTT(20) DEF Written
    <3> QED
      BY <1>0, <1>1, <1>2, <1>9, <1>11, <1>12, <3>1, SMTT(20) DEF SenderInv
  <2>2. ASSUME NEW r \in Senders \ {p} PROVE SenderInv(r)'
    <3>1. SenderInv(r) /\ snd'[r] = snd[r]
      BY <1>11, HandlerFacts, Zenon
    <3>2. snd[r].at # "idle" => snd[r].on \in Sessions \ {s}
      BY <1>0, <1>1, <1>3, <3>1 DEF Inv, OneSender, SenderInv
    <3>3. snd[r].at # "idle" => taken'[snd[r].on] = taken[snd[r].on]
      BY <1>7, <3>2, Zenon
    <3> QED
      BY <1>1, <1>12, <3>1, <3>3, SMTT(20) DEF SenderInv, Written
  <2> QED
    BY <2>1, <2>2, Zenon
<1>18. \A r \in Receivers : ReceiverInv(r)'
  <2>1. ReceiverInv(q)'
    <3>1. \A y \in taken'[s] : y[2] = q
      BY <1>7 DEF Chunked
    <3> QED
      BY <1>1, <1>2, <1>12, <3>1, Zenon DEF ReceiverInv
  <2>2. ASSUME NEW r \in Receivers \ {q} PROVE ReceiverInv(r)'
    <3>1. ReceiverInv(r) /\ rcv'[r] = rcv[r]
      BY <1>1, HandlerFacts, Zenon
    <3>2. rcv[r].at \in Receiving => rcv[r].on \in Sessions \ {s}
      BY <1>1, <1>3, <3>1, Zenon DEF Inv, OneReceiver, ReceiverInv, Receiving
    <3>3. rcv[r].at \in Receiving => taken'[rcv[r].on] = taken[rcv[r].on]
      BY <1>7, <3>2, Zenon
    <3> QED
      BY <1>1, <1>12, <3>1, <3>3, Zenon DEF ReceiverInv
  <2> QED
    BY <2>1, <2>2, Zenon
<1>19. OneSender' /\ OneReceiver'
  <2>1. OneSender'
    BY <1>0, <1>1, <1>9, <1>11, SendersStay, Zenon DEF Inv
  <2> QED
    BY <1>1, <2>1, Zenon DEF Inv, OneReceiver
<1> QED
  BY <1>12, <1>13, <1>14, <1>15, <1>16, <1>17, <1>18, <1>19, Zenon DEF Inv

-----------------------------------------------------------------------------
(* removeLocked closes what it takes out of the table, and nothing else: a *)
(* session that stays listed is not touched.                               *)
LEMMA RemoveFacts ==
    ASSUME Inv, NEW C \in SUBSET Codes, removeLocked(C), taken' = taken
    PROVE  /\ Evolves
           /\ \A s \in Created : SessionInv(s)'
           /\ \A s \in Created : table'[session[s].code] = s =>
                 /\ table[session[s].code] = s /\ session[s].code \notin C
                 /\ session'[s] = session[s]
<1> DEFINE gone == {table[c] : c \in C} \ {0}
<1>1. /\ session \in [Created -> Session] /\ table \in [Codes -> Created \cup {0}]
      /\ Created \subseteq Sessions /\ 0 \notin Created
      /\ \A s \in Created : session[s] \in Session /\ session[s].code \in Codes
      /\ \A c \in Codes : table[c] # 0 => table[c] \in Created /\ session[table[c]].code = c
  BY SessionFacts, Zenon
<1>2. /\ table' = [c \in Codes |-> IF c \in C THEN 0 ELSE table[c]]
      /\ session' = [s \in Created |->
                        IF s \in gone THEN Closed(session[s], "error") ELSE session[s]]
  BY Zenon DEF removeLocked
<1>3. /\ table' \in [Codes -> Created \cup {0}]
      /\ \A c \in Codes : table'[c] = IF c \in C THEN 0 ELSE table[c]
  BY <1>1, <1>2, Zenon
<1>4. \A s \in gone : s \in Created /\ session[s].code \in C
  BY <1>1
<1> HIDE DEF gone
<1>5. \A s \in Created : SessionInv(s)
  BY Zenon DEF Inv
<1>6. \A s \in gone : LET y == Closed(session[s], "error")
                      IN  /\ y \in Session /\ y.code = session[s].code
                          /\ y.receiverReady = session[s].receiverReady
                          /\ y.senderReady = session[s].senderReady
                          /\ y.done /\ y.reader = "closed" /\ y.writer # "open"
  BY <1>1, <1>4, <1>5, ClosedFacts, Zenon DEF SessionInv
<1>7. \A s \in Created : \/ s \notin gone /\ session'[s] = session[s]
                         \/ /\ s \in gone
                            /\ session'[s] \in Session /\ session'[s].code = session[s].code
                            /\ session'[s].receiverReady = session[s].receiverReady
                            /\ session'[s].senderReady = session[s].senderReady
                            /\ session'[s].done /\ session'[s].reader = "closed"
                            /\ session'[s].writer # "open"
  BY <1>2, <1>6, Zenon
<1>8. session' \in [Created -> Session]
  BY <1>1, <1>2, <1>7, Zenon
<1>9. Evolves
  BY <1>3, <1>7, <1>8, Zenon DEF Evolves
<1>10. \A s \in Created : table'[session[s].code] = s =>
                 /\ table[session[s].code] = s /\ session[s].code \notin C
                 /\ session'[s] = session[s]
  <2> SUFFICES ASSUME NEW s \in Created, table'[session[s].code] = s
               PROVE  /\ table[session[s].code] = s /\ session[s].code \notin C
                      /\ session'[s] = session[s]
    BY Zenon
  <2>1. session[s].code \in Codes /\ s # 0
    BY <1>1, Zenon
  <2>2. session[s].code \notin C /\ table[session[s].code] = s
    BY <1>3, <2>1, Zenon
  <2> QED
    BY <1>4, <1>7, <2>2, Zenon
<1>11. \A s \in Created : SessionInv(s)'
  <2> SUFFICES ASSUME NEW s \in Created PROVE SessionInv(s)'
    BY Zenon
  <2>1. CASE s \in gone
    <3>1. /\ session'[s].receiverReady = session[s].receiverReady
          /\ session'[s].senderReady = session[s].senderReady
          /\ session'[s].done /\ session'[s].reader = "closed" /\ session'[s].writer # "open"
      BY <1>7, <2>1, Zenon
    <3> QED
      BY <1>5, <3>1, Zenon DEF SessionInv, ReadsEOF
  <2>2. CASE s \notin gone
    <3>1. session'[s] = session[s] /\ SessionInv(s) /\ s \in Sessions /\ session[s].code \in Codes
      BY <1>1, <1>5, <1>7, <2>2, Zenon
    <3>2. table[session[s].code] = s => session[s].code \notin C
      BY <1>1, <2>2, Zenon DEF gone
    <3>3. table'[session[s].code] = table[session[s].code] \/ session[s].done
      BY <1>3, <3>1, <3>2, Zenon DEF SessionInv
    <3> QED
      BY <3>1, <3>3, SessionSame, Zenon
  <2> QED
    BY <2>1, <2>2, Zenon
<1> QED
  BY <1>9, <1>10, <1>11, Zenon

(* Whoever removes the code, the receiver that was about to is either      *)
(* still there or the one that did.                                        *)
LEMMA RemoveStep ==
    ASSUME Inv, NEW C \in SUBSET Codes, removeLocked(C), UNCHANGED <<now, wtr, taken>>,
           snd' \in [Senders -> Handler(Sending \cup {"idle"})],
           rcv' \in [Receivers -> Handler(Receiving \cup {"idle", "refused"})],
           \A p \in Senders : snd'[p] = snd[p] \/ snd'[p].at = "idle",
           \A q \in Receivers :
              \/ rcv'[q] = rcv[q]
              \/ /\ rcv'[q].at = "idle" \/ (rcv'[q].at = "refused" /\ rcv'[q].code \in Codes)
                 /\ rcv[q].at \in {"burning", "leaving"} => rcv[q].code \in C
    PROVE  Inv'
<1>1. /\ Evolves
      /\ \A s \in Created : SessionInv(s)'
      /\ \A s \in Created : table'[session[s].code] = s =>
            /\ table[session[s].code] = s /\ session[s].code \notin C
            /\ session'[s] = session[s]
  BY RemoveFacts, Zenon
<1>2. \A s \in Created : LeavingInv(s)'
  <2> SUFFICES ASSUME NEW s \in Created, table'[session[s].code] = s, session'[s].done
               PROVE  \E q \in Receivers : rcv'[q].on = s /\ rcv'[q].at \in {"burning", "leaving"}
    BY <1>1 DEF LeavingInv, Evolves
  <2>1. table[session[s].code] = s /\ session[s].code \notin C /\ session[s].done
    BY <1>1, Zenon
  <2>2. PICK q \in Receivers : rcv[q].on = s /\ rcv[q].at \in {"burning", "leaving"}
    BY <2>1, Zenon DEF Inv, LeavingInv
  <2>3. rcv[q].code = session[s].code
    BY <2>2, HandlerFacts, Zenon DEF ReceiverInv, Receiving
  <2> QED
    BY <2>1, <2>2, <2>3, Zenon
<1>3. \A p \in Senders : snd'[p] = snd[p] \/ SenderInv(p)'
  BY Zenon DEF SenderInv
<1>4. \A q \in Receivers : rcv'[q] = rcv[q] \/ ReceiverInv(q)'
  BY Zenon DEF ReceiverInv, Receiving
<1>5. OneSender'
  BY SendersStay, Zenon DEF Inv
<1>6. OneReceiver'
  <2>1. \A q \in Receivers : \/ rcv'[q].at \notin Receiving
                             \/ rcv[q].at \in Receiving /\ rcv'[q].on = rcv[q].on
    BY Zenon DEF Receiving
  <2> QED
    BY <2>1, ReceiversStay, Zenon DEF Inv
<1> QED
  BY <1>1, <1>2, <1>3, <1>4, <1>5, <1>6, RelayStep, Zenon

LEMMA ReceiverBurnsStep ==
    ASSUME Inv, NEW q \in Receivers, ReceiverBurns(q)
    PROVE  Inv'
<1>0. PICK x : x = IF rcv[q].at = "burning" THEN Idle
                   ELSE [Idle EXCEPT !.at = "refused", !.code = rcv[q].code]
  BY Zenon
<1>1. /\ rcv[q].at \in {"burning", "leaving"} /\ removeLocked({rcv[q].code})
      /\ rcv' = [rcv EXCEPT ![q] = x] /\ UNCHANGED <<now, snd, wtr, taken>>
  BY <1>0, Zenon DEF ReceiverBurns
<1>2. rcv[q].code \in Codes /\ snd \in [Senders -> Handler(Sending \cup {"idle"})]
  BY <1>1, HandlerFacts, Zenon DEF ReceiverInv
<1>3. /\ x \in Handler(Receiving \cup {"idle", "refused"})
      /\ x.at = "idle" \/ (x.at = "refused" /\ x.code \in Codes)
  BY <1>0, <1>2, IdleFacts, Zenon DEF Handler
<1>4. /\ rcv' \in [Receivers -> Handler(Receiving \cup {"idle", "refused"})]
      /\ rcv'[q] = x /\ \A r \in Receivers \ {q} : rcv'[r] = rcv[r]
  BY <1>1, <1>3, ReceiverMoves, Zenon
<1>5. PICK C \in SUBSET Codes : C = {rcv[q].code}
  BY <1>2, Zenon
<1>6. \A r \in Receivers :
         \/ rcv'[r] = rcv[r]
         \/ /\ rcv'[r].at = "idle" \/ (rcv'[r].at = "refused" /\ rcv'[r].code \in Codes)
            /\ rcv[r].at \in {"burning", "leaving"} => rcv[r].code \in C
  BY <1>3, <1>4, <1>5, Zenon
<1> QED
  BY <1>1, <1>2, <1>4, <1>5, <1>6, RemoveStep, Zenon

LEMMA SenderBurnsStep ==
    ASSUME Inv, NEW p \in Senders, SenderBurns(p)
    PROVE  Inv'
<1>1. /\ snd[p].at = "burning" /\ removeLocked({snd[p].code})
      /\ snd' = [snd EXCEPT ![p] = Idle] /\ UNCHANGED <<now, rcv, wtr, taken>>
  BY Zenon DEF SenderBurns
<1>2. SenderInv(p) /\ rcv \in [Receivers -> Handler(Receiving \cup {"idle", "refused"})]
  BY HandlerFacts, Zenon
<1>3. snd[p].code \in Codes
  BY <1>1, <1>2, SessionFacts, Zenon DEF SenderInv
<1>4. /\ snd' \in [Senders -> Handler(Sending \cup {"idle"})]
      /\ snd'[p] = Idle /\ \A r \in Senders \ {p} : snd'[r] = snd[r]
  BY <1>1, IdleFacts, SenderMoves, Zenon
<1>5. PICK C \in SUBSET Codes : C = {snd[p].code}
  BY <1>3, Zenon
<1> QED
  BY <1>1, <1>2, <1>4, <1>5, IdleFacts, RemoveStep, Zenon

LEMMA CleanStep ==
    ASSUME Inv, cleanExpired
    PROVE  Inv'
<1>1. removeLocked(Overdue) /\ UNCHANGED <<now, snd, rcv, wtr, taken>>
  BY Zenon DEF cleanExpired
<1>2. PICK C \in SUBSET Codes : C = Overdue
  BY Zenon DEF Overdue
<1> QED
  BY <1>1, <1>2, HandlerFacts, RemoveStep, Zenon

(* A failed attempt counts against whatever session the code names by now, *)
(* or burns it.                                                            *)
LEMMA RefusedStep ==
    ASSUME Inv, NEW q \in Receivers, Refused(q)
    PROVE  Inv'
<1>0. PICK c, s : c = rcv[q].code /\ s = table[c]
  BY Zenon
<1>1. /\ rcv[q].at = "refused" /\ RecordFailedAttempt(c)
      /\ rcv' = [rcv EXCEPT ![q] = Idle] /\ UNCHANGED <<now, snd, wtr, taken>>
  BY <1>0, Zenon DEF Refused
<1>2. c \in Codes /\ snd \in [Senders -> Handler(Sending \cup {"idle"})]
  BY <1>0, <1>1, HandlerFacts, Zenon DEF ReceiverInv
<1>3. /\ rcv' \in [Receivers -> Handler(Receiving \cup {"idle", "refused"})]
      /\ rcv'[q] = Idle /\ \A r \in Receivers \ {q} : rcv'[r] = rcv[r]
  BY <1>1, IdleFacts, ReceiverMoves, Zenon
<1>4. ReceiverInv(q)'
  BY <1>3, IdleFacts, Zenon DEF ReceiverInv, Receiving
<1>5. CASE UNCHANGED <<table, session>>
  BY <1>1, <1>4, <1>5, IdleFacts, ReceiverOnly, Zenon DEF Receiving
<1>6. CASE removeLocked({c})
  <2>1. PICK C \in SUBSET Codes : C = {c}
    BY <1>2, Zenon
  <2>2. \A r \in Receivers :
           \/ rcv'[r] = rcv[r]
           \/ /\ rcv'[r].at = "idle" \/ (rcv'[r].at = "refused" /\ rcv'[r].code \in Codes)
              /\ rcv[r].at \in {"burning", "leaving"} => rcv[r].code \in C
    BY <1>1, <1>3, IdleFacts, Zenon
  <2> QED
    BY <1>1, <1>2, <1>3, <1>6, <2>1, <2>2, RemoveStep, Zenon
<1>7. CASE /\ s # 0 /\ session[s].failed + 1 < BurnLimit
           /\ session' = [session EXCEPT ![s].failed = @ + 1]
           /\ UNCHANGED table
  <2>1. s \in Created /\ session[s] \in Session /\ SessionInv(s)
    BY <1>0, <1>2, <1>7, SessionFacts, Zenon DEF Inv
  <2>2. PICK y : y = [session[s] EXCEPT !.failed = session[s].failed + 1]
    BY Zenon
  <2>3. /\ y \in Session /\ y.code = session[s].code
        /\ y.receiverReady = session[s].receiverReady /\ y.senderReady = session[s].senderReady
        /\ y.done = session[s].done /\ y.reader = session[s].reader
        /\ y.writer = session[s].writer
    <3>1. ASSUME NEW x \in Session, x.failed + 1 < BurnLimit
          PROVE  LET z == [x EXCEPT !.failed = x.failed + 1]
                 IN  /\ z \in Session /\ z.code = x.code
                     /\ z.receiverReady = x.receiverReady /\ z.senderReady = x.senderReady
                     /\ z.done = x.done /\ z.reader = x.reader /\ z.writer = x.writer
      <4>1. x.failed + 1 \in 0 .. BurnLimit
        BY <3>1, RelayAssumption DEF Session
      <4> QED
        BY <4>1, Zenon DEF Session
    <3> QED
      BY <1>7, <2>1, <2>2, <3>1, Zenon
  <2>4. session' = [session EXCEPT ![s] = y]
    BY <1>7, <2>2, Zenon
  <2>5. session'[s] = y => SessionInv(s)'
    BY <1>1, <1>7, <2>1, <2>3, Zenon DEF SessionInv, ReadsEOF
  <2>6. UNCHANGED <<table, taken>> /\ (session[s].senderReady => y.senderReady)
        /\ (session[s].receiverReady => y.receiverReady)
    BY <1>1, <1>7, <2>3, Zenon
  <2>7. /\ Evolves /\ session'[s] = y /\ \A r \in Created \ {s} : session'[r] = session[r]
        /\ \A r \in Created : SessionInv(r)'
    BY <2>1, <2>3, <2>4, <2>5, <2>6, OneSession, Zenon
  <2>8. \A r \in Created : LeavingInv(r)'
    <3> SUFFICES ASSUME NEW r \in Created PROVE LeavingInv(r)'
      BY Zenon
    <3>1. r \in Sessions /\ LeavingInv(r)
      BY SessionFacts, Zenon DEF Inv
    <3>2. session'[r].code = session[r].code /\ session'[r].done = session[r].done
      BY <2>1, <2>3, <2>7, Zenon
    <3>3. \A w \in Receivers : rcv[w].on = r /\ rcv[w].at \in {"burning", "leaving"} =>
               rcv'[w] = rcv[w]
      BY <1>1, <1>3, Zenon
    <3> QED
      BY <1>7, <3>1, <3>2, <3>3, LeavingSame, Zenon
  <2>9. OneReceiver'
    BY <1>3, IdleFacts, ReceiversStay, Zenon DEF Inv, Receiving
  <2>10. OneSender' /\ snd' \in [Senders -> Handler(Sending \cup {"idle"})] /\ snd' = snd
    BY <1>1, <1>2, Zenon DEF Inv, OneSender
  <2> QED
    BY <1>1, <1>3, <1>4, <2>7, <2>8, <2>9, <2>10, RelayStep, Zenon
<1> QED
  BY <1>0, <1>1, <1>5, <1>6, <1>7, Zenon DEF RecordFailedAttempt

-----------------------------------------------------------------------------
(* A new session has a number no handler holds and a code no listed        *)
(* session has.                                                            *)
LEMMA InitSessionStep ==
    ASSUME Inv, NEW c \in Codes, InitSession(c)
    PROVE  Inv'
<1>1. PICK n \in 0 .. MaxSessions : Created = 1 .. n /\ Cardinality(Created) = n
  BY SessionFacts, Zenon
<1>2. PICK new : new = [code |-> c, expires |-> now + TTL, failed |-> 0,
                        receiverReady |-> FALSE, senderReady |-> FALSE, done |-> FALSE,
                        writer |-> "open", reader |-> "open"]
  BY Zenon
<1>3. PICK m : m = n + 1
  BY Zenon
<1>4. /\ table[c] = 0 /\ n < MaxSessions
      /\ session' = [s \in 1 .. m |-> IF s \in Created THEN session[s] ELSE new]
      /\ table' = [table EXCEPT ![c] = m]
      /\ UNCHANGED <<now, snd, rcv, wtr, taken>>
  BY <1>1, <1>2, <1>3, Zenon DEF InitSession
<1>5. /\ session \in [Created -> Session] /\ table \in [Codes -> Created \cup {0}]
      /\ Created \subseteq Sessions /\ 0 \notin Created
      /\ \A s \in Created : session[s] \in Session /\ session[s].code \in Codes
      /\ \A x \in Codes : table[x] # 0 => table[x] \in Created /\ session[table[x]].code = x
  BY SessionFacts, Zenon
<1>6. /\ m \in Sessions \ Created /\ 1 .. m = Created \cup {m} /\ m \in 0 .. MaxSessions
      /\ m # 0
  BY <1>1, <1>3, <1>4, RelayAssumption DEF Sessions
<1>7. /\ new \in Session /\ new.code = c /\ ~new.done /\ ~new.senderReady
      /\ ~new.receiverReady /\ new.writer = "open"
  <2>1. now + TTL \in Nat /\ 0 \in 0 .. BurnLimit
    BY RelayAssumption DEF Inv, StateInv
  <2> QED
    BY <1>2, <2>1, Zenon DEF Session
<1>8. /\ session' \in [1 .. m -> Session] /\ session'[m] = new
      /\ \A s \in Created : session'[s] = session[s]
      /\ Created' = Created \cup {m}
  <2>1. \A s \in 1 .. m : session'[s] = IF s \in Created THEN session[s] ELSE new
    BY <1>4, Zenon
  <2>2. session' \in [1 .. m -> Session]
    BY <1>4, <1>5, <1>6, <1>7, Zenon
  <2>3. Created' = 1 .. m
    BY <1>4, Zenon DEF Created
  <2> QED
    BY <1>6, <2>1, <2>2, <2>3, Zenon
<1>9. /\ table' \in [Codes -> Created' \cup {0}] /\ table'[c] = m
      /\ \A x \in Codes \ {c} : table'[x] = table[x]
  BY <1>4, <1>5, <1>8, SMTT(20)
<1>10. taken[m] = {}
  BY <1>6, Zenon DEF Inv, FreshInv
<1>11. StateInv'
  <2>1. wtr' \in [Waiters -> Created' \cup {0}]
    BY <1>4, <1>8, Zenon DEF Inv, StateInv
  <2>2. \E k \in 0 .. MaxSessions : session' \in [1 .. k -> Session]
    BY <1>6, <1>8, Zenon
  <2> QED
    BY <1>4, <1>9, <2>1, <2>2, Zenon DEF Inv, StateInv
<1>12. TableInv'
  BY <1>5, <1>7, <1>8, <1>9, SMTT(20) DEF TableInv
<1>13. FreshInv'
  BY <1>4, <1>8, Zenon DEF Inv, FreshInv
<1>14. \A s \in Created' : SessionInv(s)' /\ LeavingInv(s)'
  <2>1. SessionInv(m)' /\ LeavingInv(m)'
    BY <1>4, <1>7, <1>8, <1>9, <1>10, Zenon DEF SessionInv, LeavingInv, ReadsEOF
  <2>2. ASSUME NEW s \in Created PROVE SessionInv(s)' /\ LeavingInv(s)'
    <3>1. /\ SessionInv(s) /\ LeavingInv(s) /\ session'[s] = session[s] /\ s \in Sessions
          /\ session[s].code \in Codes /\ s # m /\ s # 0
      BY <1>5, <1>6, <1>8, Zenon DEF Inv
    <3>2. table'[session[s].code] = table[session[s].code] \/ session[s].done
      BY <1>4, <1>9, <3>1, Zenon DEF SessionInv
    <3>3. SessionInv(s)'
      BY <1>4, <3>1, <3>2, SessionSame, Zenon
    <3>4. table'[session[s].code] = s => table[session[s].code] = s
      BY <1>9, <3>1, Zenon
    <3>5. LeavingInv(s)'
      BY <1>4, <3>1, <3>4, LeavingSame, Zenon
    <3> QED
      BY <3>3, <3>5, Zenon
  <2> QED
    BY <1>8, <2>1, <2>2, Zenon
<1>15. \A p \in Senders : SenderInv(p)'
  <2> SUFFICES ASSUME NEW p \in Senders PROVE SenderInv(p)'
    BY Zenon
  <2>1. SenderInv(p)
    BY HandlerFacts, Zenon
  <2> QED
    BY <1>4, <1>8, <2>1, Zenon DEF SenderInv, Written
<1>16. \A q \in Receivers : ReceiverInv(q)'
  <2> SUFFICES ASSUME NEW q \in Receivers PROVE ReceiverInv(q)'
    BY Zenon
  <2>1. ReceiverInv(q)
    BY HandlerFacts, Zenon
  <2> QED
    BY <1>4, <1>8, <2>1, Zenon DEF ReceiverInv
<1>17. OneSender' /\ OneReceiver'
  BY <1>4, Zenon DEF Inv, OneSender, OneReceiver
<1> QED
  BY <1>11, <1>12, <1>13, <1>14, <1>15, <1>16, <1>17, Zenon DEF Inv

(* The waiters and the clock change nothing the others rely on.            *)
LEMMA QuietStep ==
    ASSUME Inv, UNCHANGED <<table, session, snd, rcv, taken>>,
           now' \in 0 .. MaxTime, wtr' \in [Waiters -> Created \cup {0}]
    PROVE  Inv'
<1>1. Created' = Created
  BY Zenon DEF Created
<1>2. StateInv'
  BY <1>1, Zenon DEF Inv, StateInv
<1>3. TableInv' /\ FreshInv'
  BY <1>1, Zenon DEF Inv, TableInv, FreshInv
<1>4. \A s \in Created : SessionInv(s)'
  BY SessionsSame, Zenon
<1>5. \A s \in Created : LeavingInv(s)'
  BY Zenon DEF Inv, LeavingInv
<1>6. \A p \in Senders : SenderInv(p)'
  BY <1>1, Zenon DEF Inv, SenderInv, Written
<1>7. \A q \in Receivers : ReceiverInv(q)'
  BY <1>1, Zenon DEF Inv, ReceiverInv
<1>8. OneSender' /\ OneReceiver'
  BY Zenon DEF Inv, OneSender, OneReceiver
<1> QED
  BY <1>1, <1>2, <1>3, <1>4, <1>5, <1>6, <1>7, <1>8, Zenon DEF Inv

LEMMA StepInv == Inv /\ [Next]_vars => Inv'
<1> SUFFICES ASSUME Inv, [Next]_vars PROVE Inv'
  BY Zenon
<1>0. /\ now \in 0 .. MaxTime /\ wtr \in [Waiters -> Created \cup {0}]
      /\ table \in [Codes -> Created \cup {0}]
  BY Zenon DEF Inv, StateInv
<1>1. CASE UNCHANGED vars
  BY <1>0, <1>1, QuietStep, Zenon DEF vars
<1>2. CASE Tick
  <2>1. now' \in 0 .. MaxTime
    BY <1>0, <1>2, RelayAssumption DEF Tick
  <2> QED
    BY <1>0, <1>2, <2>1, QuietStep, Zenon DEF Tick
<1>3. ASSUME NEW p \in Waiters, NEW c \in Codes, WaitReceiver(p, c) PROVE Inv'
  <2>1. wtr' \in [Waiters -> Created \cup {0}]
    BY <1>0, <1>3, Zenon DEF WaitReceiver
  <2> QED
    BY <1>0, <1>3, <2>1, QuietStep, Zenon DEF WaitReceiver
<1>4. ASSUME NEW p \in Waiters, WaitReturns(p) \/ WaitCancelled(p) PROVE Inv'
  <2>1. wtr' \in [Waiters -> Created \cup {0}]
    BY <1>0, <1>4, Zenon DEF WaitReturns, WaitCancelled
  <2> QED
    BY <1>0, <1>4, <2>1, QuietStep, Zenon DEF WaitReturns, WaitCancelled
<1>5. ASSUME NEW c \in Codes,
             \/ InitSession(c)
             \/ \E p \in Senders : Send(p, c)
             \/ \E p \in Receivers : Receive(p, c)
      PROVE  Inv'
  BY <1>5, InitSessionStep, SendStep, ReceiveStep, Zenon
<1>6. ASSUME NEW p \in Senders,
             \/ SendConnects(p) \/ SendFindsItClosed(p) \/ ReadBody(p) \/ SendFails(p)
             \/ SenderBurns(p)
             \/ \E q \in Receivers : Transfer(p, q)
      PROVE  Inv'
  BY <1>6, SendConnectsStep, SendFindsItClosedStep, ReadBodyStep, SendFailsStep,
     SenderBurnsStep, TransferStep, Zenon
<1>7. ASSUME NEW p \in Receivers,
             \/ ReceiveConnects(p) \/ ReceiveFindsItClosed(p) \/ ReceiveGivesUp(p)
             \/ CopyEnds(p) \/ ReceiverBurns(p) \/ Refused(p)
      PROVE  Inv'
  BY <1>7, ReceiveConnectsStep, ReceiveFindsItClosedStep, ReceiveGivesUpStep, CopyEndsStep,
     ReceiverBurnsStep, RefusedStep, Zenon
<1>8. CASE cleanExpired
  BY <1>8, CleanStep, Zenon
<1> QED
  BY <1>1, <1>2, <1>3, <1>4, <1>5, <1>6, <1>7, <1>8, Zenon DEF Next

-----------------------------------------------------------------------------
(* The theorems.                                                           *)

(* The invariant holds whatever the handlers, the cleaner and the clock do *)
(* (coordinator.go).                                                       *)
THEOREM Invariance == Spec => []Inv
BY InitInv, StepInv, PTL DEF Spec

(* The coordinator's state stays within its types: the failed attempts of  *)
(* a session never pass the limit, and a code names an existing session.   *)
THEOREM Typed == Spec => []TypeOK
<1>1. Inv => TypeOK
  <2> SUFFICES ASSUME Inv PROVE TypeOK
    BY Zenon
  <2>1. StateInv
    BY Zenon DEF Inv
  <2>2. Created \in {1 .. n : n \in 0 .. MaxSessions}
    BY SessionFacts, Zenon
  <2>3. \A s \in Created :
          /\ session[s].failed \in 0 .. BurnLimit
          /\ {session[s].receiverReady, session[s].senderReady, session[s].done} \subseteq BOOLEAN
          /\ session[s].writer \in {"open", "eof", "error"}
          /\ session[s].reader \in {"open", "closed"}
    BY SessionFacts, Zenon DEF Session
  <2>4. \A p \in Senders : snd[p].at \in {"idle", "waiting", "reading", "writing", "burning"}
    BY <2>1, Zenon DEF StateInv, Handler, Sending
  <2>5. \A p \in Receivers : rcv[p].at \in {"idle", "waiting", "copying", "burning", "leaving",
                                            "refused"}
    BY <2>1, Zenon DEF StateInv, Handler, Receiving
  <2> QED
    BY <2>1, <2>2, <2>3, <2>4, <2>5, Zenon DEF TypeOK, StateInv
<1> QED
  BY <1>1, Invariance, PTL

(* The bytes of a session go from one sender to one receiver without a     *)
(* gap, and EOF is read only after all of them (senderOnce, receiverOnce,  *)
(* cleanup, removeLocked).                                                 *)
THEOREM WholeStreams == Spec => []StreamIsWhole
<1>1. Inv => StreamIsWhole
  <2> SUFFICES ASSUME Inv, NEW s \in Created
               PROVE  /\ \/ taken[s] = {}
                         \/ \E p \in Senders, q \in Receivers, n \in 1 .. Chunks :
                               taken[s] = Chunked(p, q, n)
                      /\ ReadsEOF(s) => Cardinality(taken[s]) = Chunks
    BY Zenon DEF StreamIsWhole
  <2>1. SessionInv(s)
    BY Zenon DEF Inv
  <2>2. ReadsEOF(s) => Cardinality(taken[s]) = Chunks
    BY <2>1, FS_EmptySet, ChunkedCount, RelayAssumption, SMTT(20) DEF SessionInv
  <2> QED
    BY <2>1, <2>2, Zenon DEF SessionInv
<1> QED
  BY <1>1, Invariance, PTL

(* A session out of the table is closed, and one that is closed is out of  *)
(* the table or about to be (removeLocked, cleanup, burnSession).          *)
THEOREM ClosedSessions == Spec => []RemovedIsClosed
<1>1. Inv => RemovedIsClosed
  BY Zenon DEF Inv, SessionInv, LeavingInv, RemovedIsClosed
<1> QED
  BY <1>1, Invariance, PTL
=============================================================================
