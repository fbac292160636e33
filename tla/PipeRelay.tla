----------------------------- MODULE PipeRelay ------------------------------
(***************************************************************************)
(* The live relay: the coordinator's table of rendezvous sessions, the     *)
(* handlers that wait, send and receive on one, the pipe between a sender  *)
(* and a receiver, failed attempts, and the cleaner.                       *)
(*                                                                         *)
(* The table is guarded by a lock; a handler holds it for one action at a  *)
(* time.  A handler keeps the session it found, and names the code again   *)
(* when it removes it: by then the code may stand for another session.     *)
(* A select takes any branch that is ready.                                *)
(***************************************************************************)
EXTENDS Integers, FiniteSets, TLC

CONSTANTS
    Codes,         \* rendezvous codes
    MaxSessions,   \* bound: sessions ever created
    MaxConcurrent, \* maxConcurrent
    BurnLimit,     \* failed attempts that burn a session
    Senders,       \* handlers that may be inside Send
    Receivers,     \* handlers that may be inside Receive
    Waiters,       \* handlers that may be inside WaitReceiver
    Chunks,        \* chunks of a body
    TTL,           \* ttl
    LastInit,      \* bound: the last instant a session is created
    MaxTime        \* bound: the last instant of the clock

ASSUME RelayAssumption ==
    /\ IsFiniteSet(Codes)
    /\ MaxSessions \in Nat \ {0} /\ MaxConcurrent \in Nat \ {0} /\ BurnLimit \in Nat \ {0}
    /\ Chunks \in Nat /\ TTL \in Nat \ {0} /\ LastInit \in Nat /\ MaxTime \in Nat

VARIABLES
    now,     \* the clock
    table,   \* Coordinator.sessions: the session of a code, 0 without one
    session, \* every session created so far
    snd,     \* each send handler
    rcv,     \* each receive handler
    wtr,     \* each wait handler: the session it waits on, 0 when idle
    taken    \* history: chunks taken on a session: <<sender, receiver, number>>

vars == <<now, table, session, snd, rcv, wtr, taken>>

Sessions == 1 .. MaxSessions
Created == DOMAIN session

Idle == [at |-> "idle", code |-> 0, on |-> 0, chunk |-> 0]

TypeOK ==
    /\ now \in 0 .. MaxTime
    /\ table \in [Codes -> Created \cup {0}]
    /\ Created \in {1 .. n : n \in 0 .. MaxSessions}
    /\ \A s \in Created :
          /\ session[s].failed \in 0 .. BurnLimit
          /\ {session[s].receiverReady, session[s].senderReady, session[s].done} \subseteq BOOLEAN
          /\ session[s].writer \in {"open", "eof", "error"}
          /\ session[s].reader \in {"open", "closed"}
    /\ \A p \in Senders : snd[p].at \in {"idle", "waiting", "reading", "writing", "burning"}
    /\ \A p \in Receivers : rcv[p].at \in {"idle", "waiting", "copying", "burning", "leaving",
                                           "refused"}
    /\ wtr \in [Waiters -> Created \cup {0}]
    /\ taken \in [Sessions -> SUBSET (Senders \X Receivers \X (1 .. Chunks))]

Init ==
    /\ now = 0
    /\ table = [c \in Codes |-> 0]
    /\ session = << >>
    /\ snd = [p \in Senders |-> Idle]
    /\ rcv = [p \in Receivers |-> Idle]
    /\ wtr = [p \in Waiters |-> 0]
    /\ taken = [s \in Sessions |-> {}]

-----------------------------------------------------------------------------
(* io.Pipe: each end keeps the first error it is closed with, and either   *)
(* end being closed stops both directions.                                 *)
ClosedWriter(x, how) == [x EXCEPT !.writer = IF @ = "open" THEN how ELSE @]

PipeOpen(s) == session[s].writer = "open" /\ session[s].reader = "open"

(* A read ends with EOF only if the writer was closed cleanly and the      *)
(* reader not at all.                                                      *)
ReadsEOF(s) == session[s].writer = "eof" /\ session[s].reader = "open"

(* closeOnce: done and both ends of the pipe, in one step.  Nobody reads   *)
(* while cleanup closes them, since the one reader is the handler that     *)
(* runs it; removeLocked closes the writer with an error before the        *)
(* reader, and until then a write, a read or the sender's own close goes   *)
(* as it would just before.                                                *)
Closed(x, how) ==
    IF x.done THEN x
    ELSE [ClosedWriter(x, how) EXCEPT !.done = TRUE, !.reader = "closed"]

(* Mutant: a removed session leaves its pipe open.                         *)
removeLocked_DoneOnly(C) ==
    LET gone == {table[c] : c \in C} \ {0}
    IN  /\ table' = [c \in Codes |-> IF c \in C THEN 0 ELSE table[c]]
        /\ session' = [s \in Created |->
                          IF s \in gone THEN [session[s] EXCEPT !.done = TRUE] ELSE session[s]]

(* removeLocked for each of the given codes.                               *)
removeLocked(C) ==
    LET gone == {table[c] : c \in C} \ {0}
    IN  /\ table' = [c \in Codes |-> IF c \in C THEN 0 ELSE table[c]]
        /\ session' = [s \in Created |->
                          IF s \in gone THEN Closed(session[s], "error") ELSE session[s]]

-----------------------------------------------------------------------------
(* A code no session has, within capacity.                                 *)
InitSession(c) ==
    LET new == [code |-> c, expires |-> now + TTL, failed |-> 0,
                receiverReady |-> FALSE, senderReady |-> FALSE, done |-> FALSE,
                writer |-> "open", reader |-> "open"]
    IN  /\ Cardinality({x \in Codes : table[x] # 0}) < MaxConcurrent
        /\ table[c] = 0
        /\ now <= LastInit
        /\ Cardinality(Created) < MaxSessions
        /\ session' = [s \in 1 .. Cardinality(Created) + 1 |->
                          IF s \in Created THEN session[s] ELSE new]
        /\ table' = [table EXCEPT ![c] = Cardinality(Created) + 1]
        /\ UNCHANGED <<now, snd, rcv, wtr, taken>>

WaitReceiver(p, c) ==
    /\ wtr[p] = 0
    /\ table[c] # 0
    /\ wtr' = [wtr EXCEPT ![p] = table[c]]
    /\ UNCHANGED <<now, table, session, snd, rcv, taken>>

Expired(s) == now >= session[s].expires

(* A receiver, the end of the session, its expiry, or a caller gone.       *)
WaitReturns(p) ==
    /\ wtr[p] # 0
    /\ session[wtr[p]].receiverReady \/ session[wtr[p]].done \/ Expired(wtr[p])
    /\ wtr' = [wtr EXCEPT ![p] = 0]
    /\ UNCHANGED <<now, table, session, snd, rcv, taken>>

WaitCancelled(p) ==
    /\ wtr[p] # 0
    /\ wtr' = [wtr EXCEPT ![p] = 0]
    /\ UNCHANGED <<now, table, session, snd, rcv, taken>>

-----------------------------------------------------------------------------
(* Receiving.  The burned flag is set only together with the removal from  *)
(* the table, so a session found there is never burned.  A receiver that   *)
(* finds no session, or one that has a receiver, goes on to                *)
(* RecordFailedAttempt.                                                    *)
Receive(p, c) ==
    LET s == table[c]
    IN  /\ rcv[p].at = "idle"
        /\ \/ /\ s # 0
              /\ ~session[s].receiverReady
              /\ session' = [session EXCEPT ![s].receiverReady = TRUE]
              /\ rcv' = [rcv EXCEPT ![p] = [Idle EXCEPT !.at = "waiting", !.code = c, !.on = s]]
           \/ /\ s # 0 => session[s].receiverReady
              /\ rcv' = [rcv EXCEPT ![p] = [Idle EXCEPT !.at = "refused", !.code = c]]
              /\ UNCHANGED session
        /\ UNCHANGED <<now, table, snd, wtr, taken>>

ReceiveConnects(p) ==
    /\ rcv[p].at = "waiting"
    /\ session[rcv[p].on].senderReady
    /\ rcv' = [rcv EXCEPT ![p].at = "copying"]
    /\ UNCHANGED <<now, table, session, snd, wtr, taken>>

ReceiveFindsItClosed(p) ==
    /\ rcv[p].at = "waiting"
    /\ session[rcv[p].on].done
    /\ rcv' = [rcv EXCEPT ![p].at = "refused"]
    /\ UNCHANGED <<now, table, session, snd, wtr, taken>>

(* The caller left or the rendezvous expired: cleanup closes the session,  *)
(* then removes its code.                                                  *)
ReceiveGivesUp(p) ==
    /\ rcv[p].at = "waiting"
    /\ session' = [session EXCEPT ![rcv[p].on] = Closed(@, "eof")]
    /\ rcv' = [rcv EXCEPT ![p].at = "leaving"]
    /\ UNCHANGED <<now, table, snd, wtr, taken>>

(* The copy to the receiver ends: EOF, an error of the pipe, or of the     *)
(* receiver's connection.  The deferred Close and cleanup follow, and      *)
(* cleanup removes the code last.                                          *)
CopyEnds(p) ==
    /\ rcv[p].at = "copying"
    /\ session' = [session EXCEPT ![rcv[p].on] = Closed([@ EXCEPT !.reader = "closed"], "eof")]
    /\ rcv' = [rcv EXCEPT ![p].at = "burning"]
    /\ UNCHANGED <<now, table, snd, wtr, taken>>

(* burnSession removes whatever session the code stands for now.           *)
ReceiverBurns(p) ==
    /\ rcv[p].at \in {"burning", "leaving"}
    /\ removeLocked({rcv[p].code})
    /\ rcv' = [rcv EXCEPT ![p] = IF rcv[p].at = "burning" THEN Idle
                                 ELSE [Idle EXCEPT !.at = "refused", !.code = rcv[p].code]]
    /\ UNCHANGED <<now, snd, wtr, taken>>

(* Mutant: the limit is passed before the session burns.                   *)
RecordFailedAttempt_Late(c) ==
    LET s == table[c]
    IN  \/ s = 0 /\ UNCHANGED <<table, session>>
        \/ /\ s # 0 /\ session[s].failed <= BurnLimit
           /\ session' = [session EXCEPT ![s].failed = @ + 1]
           /\ UNCHANGED table
        \/ s # 0 /\ session[s].failed > BurnLimit /\ removeLocked({c})

(* Every failed Receive counts against whatever session the code names.    *)
RecordFailedAttempt(c) ==
    LET s == table[c]
    IN  \/ s = 0 /\ UNCHANGED <<table, session>>
        \/ /\ s # 0 /\ session[s].failed + 1 < BurnLimit
           /\ session' = [session EXCEPT ![s].failed = @ + 1]
           /\ UNCHANGED table
        \/ s # 0 /\ session[s].failed + 1 >= BurnLimit /\ removeLocked({c})

Refused(p) ==
    /\ rcv[p].at = "refused"
    /\ RecordFailedAttempt(rcv[p].code)
    /\ rcv' = [rcv EXCEPT ![p] = Idle]
    /\ UNCHANGED <<now, snd, wtr, taken>>

-----------------------------------------------------------------------------
(* Mutant: a second sender is let in.                                      *)
Send_NoOnce(p, c) ==
    LET s == table[c]
    IN  /\ snd[p].at = "idle"
        /\ s # 0
        /\ session' = [session EXCEPT ![s].senderReady = TRUE]
        /\ snd' = [snd EXCEPT ![p] = [Idle EXCEPT !.at = "waiting", !.code = c, !.on = s]]
        /\ UNCHANGED <<now, table, rcv, wtr, taken>>

(* Sending.  The metadata a sender brings is left out.                     *)
Send(p, c) ==
    LET s == table[c]
    IN  /\ snd[p].at = "idle"
        /\ s # 0
        /\ session' = [session EXCEPT ![s].senderReady = TRUE]
        /\ snd' = IF session[s].senderReady THEN snd
                  ELSE [snd EXCEPT ![p] = [Idle EXCEPT !.at = "waiting", !.code = c, !.on = s]]
        /\ UNCHANGED <<now, table, rcv, wtr, taken>>

SendConnects(p) ==
    /\ snd[p].at = "waiting"
    /\ session[snd[p].on].receiverReady
    /\ snd' = [snd EXCEPT ![p].at = "reading"]
    /\ UNCHANGED <<now, table, session, rcv, wtr, taken>>

SendFindsItClosed(p) ==
    /\ snd[p].at = "waiting"
    /\ session[snd[p].on].done
    /\ snd' = [snd EXCEPT ![p] = Idle]
    /\ UNCHANGED <<now, table, session, rcv, wtr, taken>>

(* The next chunk of the body, or its end: the pipe is closed cleanly and  *)
(* the sender is told "completed".                                         *)
ReadBody(p) ==
    /\ snd[p].at = "reading"
    /\ \/ /\ snd[p].chunk < Chunks
          /\ snd' = [snd EXCEPT ![p].at = "writing", ![p].chunk = @ + 1]
          /\ UNCHANGED session
       \/ /\ snd[p].chunk = Chunks
          /\ session' = [session EXCEPT ![snd[p].on] = ClosedWriter(@, "eof")]
          /\ snd' = [snd EXCEPT ![p] = Idle]
    /\ UNCHANGED <<now, table, rcv, wtr, taken>>

(* A write returns once a read has taken it.                               *)
Transfer(p, q) ==
    LET s == snd[p].on
    IN  /\ snd[p].at = "writing"
        /\ rcv[q].at = "copying"
        /\ rcv[q].on = s
        /\ PipeOpen(s)
        /\ snd' = [snd EXCEPT ![p].at = "reading"]
        /\ taken' = [taken EXCEPT ![s] = @ \cup {<<p, q, snd[p].chunk>>}]
        /\ UNCHANGED <<now, table, session, rcv, wtr>>

(* The caller left, the rendezvous expired, the body failed or the pipe is *)
(* closed: the writer is closed with that error, then the code removed.    *)
SendFails(p) ==
    /\ \/ snd[p].at \in {"waiting", "reading"}
       \/ snd[p].at = "writing" /\ ~PipeOpen(snd[p].on)
    /\ session' = [session EXCEPT ![snd[p].on] = ClosedWriter(@, "error")]
    /\ snd' = [snd EXCEPT ![p].at = "burning"]
    /\ UNCHANGED <<now, table, rcv, wtr, taken>>

SenderBurns(p) ==
    /\ snd[p].at = "burning"
    /\ removeLocked({snd[p].code})
    /\ snd' = [snd EXCEPT ![p] = Idle]
    /\ UNCHANGED <<now, rcv, wtr, taken>>

-----------------------------------------------------------------------------
Overdue == {c \in Codes : table[c] # 0 /\ now > session[table[c]].expires}

cleanExpired ==
    /\ Overdue # {}
    /\ removeLocked(Overdue)
    /\ UNCHANGED <<now, snd, rcv, wtr, taken>>

Tick ==
    /\ now < MaxTime
    /\ now' = now + 1
    /\ UNCHANGED <<table, session, snd, rcv, wtr, taken>>

(* What a receive handler does on its own once nothing holds it up.        *)
ReceiverStep(p) ==
    \/ ReceiveConnects(p) \/ ReceiveFindsItClosed(p)
    \/ ReceiverBurns(p) \/ Refused(p)
    \/ rcv[p].at = "waiting" /\ Expired(rcv[p].on) /\ ReceiveGivesUp(p)
    \/ rcv[p].at = "copying" /\ ~PipeOpen(rcv[p].on) /\ CopyEnds(p)

SenderStep(p) ==
    \/ SendConnects(p) \/ SendFindsItClosed(p) \/ SenderBurns(p) \/ ReadBody(p)
    \/ snd[p].at = "waiting" /\ Expired(snd[p].on) /\ SendFails(p)
    \/ snd[p].at = "writing" /\ ~PipeOpen(snd[p].on) /\ SendFails(p)

Next ==
    \/ \E c \in Codes :
          \/ InitSession(c)
          \/ \E p \in Waiters : WaitReceiver(p, c)
          \/ \E p \in Senders : Send(p, c)
          \/ \E p \in Receivers : Receive(p, c)
    \/ \E p \in Waiters : WaitReturns(p) \/ WaitCancelled(p)
    \/ \E p \in Senders :
          \/ SendConnects(p) \/ SendFindsItClosed(p) \/ ReadBody(p) \/ SendFails(p)
          \/ SenderBurns(p)
          \/ \E q \in Receivers : Transfer(p, q)
    \/ \E p \in Receivers :
          \/ ReceiveConnects(p) \/ ReceiveFindsItClosed(p) \/ ReceiveGivesUp(p)
          \/ CopyEnds(p) \/ ReceiverBurns(p) \/ Refused(p)
    \/ cleanExpired \/ Tick

Spec == Init /\ [][Next]_vars

(* Runnable goroutines run, timers fire and the cleaner's ticker ticks.    *)
(* Nothing is assumed of the two parties: neither that chunks move nor     *)
(* that anybody disconnects.  A read of a body ends by the connection's    *)
(* own deadline.                                                           *)
Fairness ==
    /\ WF_vars(Tick) /\ WF_vars(cleanExpired)
    /\ \A p \in Waiters : WF_vars(WaitReturns(p))
    /\ \A p \in Senders : WF_vars(SenderStep(p))
    /\ \A p \in Receivers : WF_vars(ReceiverStep(p))

FairSpec == Spec /\ Fairness

-----------------------------------------------------------------------------
(* The first n chunks of a body, as q took them from p.                    *)
Chunked(p, q, n) == {<<p, q, i>> : i \in 1 .. n}

(* The bytes of a session go from one sender to one receiver, from the     *)
(* start and without a gap, whoever else named the same code and however   *)
(* often it was reused; and the receive handler's read of the pipe ends    *)
(* with EOF only when all of them came through (senderOnce, receiverOnce,  *)
(* and the error a sender that fails or a removal closes the writer with). *)
(* What the receiver's own connection sees at the end is not part of it:   *)
(* receivePipe drops the error of its copy.                                *)
StreamIsWhole ==
    \A s \in Created :
        /\ \/ taken[s] = {}
           \/ \E p \in Senders, q \in Receivers, n \in 1 .. Chunks : taken[s] = Chunked(p, q, n)
        /\ ReadsEOF(s) => Cardinality(taken[s]) = Chunks

(* A session that is out of the table is closed, and one that is closed is *)
(* out of the table or about to be: its receiver removes it next           *)
(* (removeLocked against cleanup, burnSession and code reuse).  Nobody is  *)
(* left blocked on a session the coordinator no longer knows.              *)
RemovedIsClosed ==
    \A s \in Created :
        LET listed == table[session[s].code] = s
        IN  /\ ~listed => session[s].done /\ session[s].reader = "closed"
                          /\ session[s].writer # "open"
            /\ listed /\ session[s].done =>
                  \E p \in Receivers : rcv[p].on = s /\ rcv[p].at \in {"burning", "leaving"}

(* Every handler returns, whatever its peer does or fails to do: one that  *)
(* waits for an absent or stalled peer is released by the expiry timers,   *)
(* the cleaner or whoever burns the session, and one that reads its own    *)
(* caller's body by the deadline of that connection.  How long it takes is *)
(* not stated.                                                             *)
EveryCallReturns ==
    /\ \A p \in Senders : snd[p].at # "idle" ~> snd[p].at = "idle"
    /\ \A p \in Receivers : rcv[p].at # "idle" ~> rcv[p].at = "idle"
    /\ \A p \in Waiters : wtr[p] # 0 ~> wtr[p] = 0

(* Handlers are interchangeable.                                           *)
Symmetry == Permutations(Senders) \cup Permutations(Receivers)
=============================================================================
