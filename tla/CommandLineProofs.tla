------------------------- MODULE CommandLineProofs --------------------------
(***************************************************************************)
(* Proofs about CommandLine, for any number of secrets, any number of runs *)
(* of flick open that share a directory and a link, and any number of      *)
(* names placeFile tries.                                                  *)
(***************************************************************************)
EXTENDS CommandLine, TLAPS

-----------------------------------------------------------------------------
(* The inductive invariant.                                                *)

Statuses == {"absent", "pending", "uploaded", "active", "consumed", "gone"}

SecretRow == [kind : {"text", "file"}, model : {"passphrase", "link-key"},
              status : Statuses, by : Openers \cup {Nobody}]

Opening == [at : {"idle"} \cup Underway \cup Ended, link : Secrets, output : BOOLEAN,
            path : Paths]

File == [by : {Nobody}, what : {"none"}]
        \cup [by : Openers \cup {User}, what : {"empty", "partial", "whole"}]

StateInv ==
    /\ secret \in [Secrets -> SecretRow]
    /\ send \in [Secrets -> {"idle", "ready", "sealed", "upload", "finalize", "created",
                             "printed", "failed"}]
    /\ op \in [Openers -> Opening]
    /\ fs \in [Paths -> File]
    /\ staging \in [Openers -> {"none", "partial", "whole"}]
    /\ fault \in SUBSET Openers

(* How far a run of flick send is, against what the server has.            *)
Matches(at, status) ==
    /\ at \in {"idle", "ready", "sealed"} => status = "absent"
    /\ at = "upload" => status \in {"pending", "gone"}
    /\ at = "finalize" => status \in {"uploaded", "gone"}
    /\ at \in {"created", "printed"} => status \in {"active", "consumed", "gone"}

(* A secret has a consumer only once it is consumed, by a run with its     *)
(* link.                                                                   *)
SecretInv(s) ==
    /\ Matches(send[s], secret[s].status)
    /\ secret[s].by # Nobody => secret[s].status = "consumed" /\ op[secret[s].by].link = s

(* Where the secret is not consumed yet, or not by this run.               *)
Before == {"idle", "probe", "unlock", "reserve", "consume", "refused"}

(* Where -output is reserved and still empty.                              *)
Reserving == {"consume", "opened", "write", "decrypt", "place"}

(* What a run of flick open has on disk and on the server at each step.    *)
OpenerInv(p) ==
    LET o == op[p]
        mine == secret[o.link].by = p
    IN  /\ o.at \in Before => ~mine
        /\ o.at \notin Before \cup {"crashed"} => mine
        /\ o.at \in {"lost", "unprinted"} \/ (o.at = "crashed" /\ mine) => p \in fault
        /\ o.at \in Reserving /\ o.output => fs[Output] = [by |-> p, what |-> "empty"]
        /\ o.at = "write" => o.output /\ kind(p) = "text"
        /\ o.at \in {"copy", "unstage"} => ~o.output
        /\ \/ o.at \in Before \cup {"opened", "write", "decrypt"}
           \/ o.at = "place" /\ o.output
           => o.path = Output
        /\ o.at \in Before \cup {"opened", "write", "printed", "saved", "salvaged", "lost",
                                 "unprinted"} => staging[p] = "none"
        /\ o.at \in {"place", "copy", "unstage", "rescued", "savedTwice"} => staging[p] = "whole"
        /\ o.at = "copy" => fs[o.path] = [by |-> p, what |-> "empty"]
        /\ o.at \in {"unstage", "saved", "savedTwice"} =>
               fs[o.path] = [by |-> p, what |-> "whole"]

(* A file of a run is where the run put it, and the run has not given up.  *)
Holds(o, x) ==
    \/ /\ x = Output /\ o.output
       /\ o.at \in Reserving \cup {"saved", "rescued", "salvaged", "unprinted", "crashed"}
    \/ /\ x = o.path /\ ~o.output
       /\ o.at \in {"copy", "unstage", "saved", "savedTwice", "rescued", "crashed"}

FileInv(x) ==
    LET p == fs[x].by
    IN  p \in Openers =>
            /\ Holds(op[p], x)
            /\ fs[x].what = "partial" =>
                  op[p].at = "crashed" \/ (kind(p) = "text" /\ op[p].at \in {"salvaged", "unprinted"})

Inv ==
    /\ StateInv
    /\ \A s \in Secrets : SecretInv(s)
    /\ \A p \in Openers : OpenerInv(p)
    /\ \A x \in Paths : FileInv(x)

-----------------------------------------------------------------------------
(* No run has a file, or anything of a secret, to begin with.              *)
LEMMA InitInv == Init => Inv
<1> SUFFICES ASSUME Init PROVE Inv
  OBVIOUS
<1>0. /\ \A s \in Secrets : secret[s] \in SecretRow /\ secret[s].status = "absent"
                            /\ secret[s].by = Nobody
      /\ secret \in [Secrets -> SecretRow]
  BY DEF Init, SecretRow, Statuses
<1>1. /\ \A p \in Openers : op[p] \in Opening /\ op[p].at = "idle" /\ op[p].path = Output
      /\ op \in [Openers -> Opening]
  BY CommandLineAssumption DEF Init, Opening, Paths, Output
<1>2. \A x \in Paths : fs[x] = Free
  BY DEF Init
<1>3. StateInv
  BY <1>0, <1>1 DEF Init, StateInv, File, Free
<1>4. \A s \in Secrets : SecretInv(s)
  BY <1>0 DEF Init, SecretInv, Matches
<1>5. \A p \in Openers : OpenerInv(p)
  <2> SUFFICES ASSUME NEW p \in Openers PROVE OpenerInv(p)
    OBVIOUS
  <2>1. op[p].link \in Secrets /\ op[p].at = "idle" /\ op[p].path = Output
    BY <1>1 DEF Opening
  <2>2. secret[op[p].link].by = Nobody /\ Nobody # p /\ staging[p] = "none"
    BY <2>1, <1>0, CommandLineAssumption DEF Init
  <2> QED
    BY <2>1, <2>2 DEF OpenerInv, Before, Reserving
<1>6. \A x \in Paths : FileInv(x)
  BY <1>2, CommandLineAssumption DEF FileInv, Free
<1> QED
  BY <1>3, <1>4, <1>5, <1>6 DEF Inv

(* A step of flick send, or the end of a secret: one status changes, and   *)
(* no opener sees a difference in what it owns.                            *)
LEMMA SendStep ==
    ASSUME Inv, NEW s \in Secrets, NEW next, NEW status \in Statuses,
           next \in {"idle", "ready", "sealed", "upload", "finalize", "created", "printed",
                     "failed"},
           send' = [send EXCEPT ![s] = next],
           secret' = [secret EXCEPT ![s].status = status],
           secret[s].status # "consumed" \/ status = "consumed",
           Matches(next, status),
           UNCHANGED <<op, fs, staging, fault>>
    PROVE  Inv'
<1>1. StateInv
  BY DEF Inv
<1>2. \A r \in Secrets : /\ secret[r] \in SecretRow
                         /\ secret'[r] = IF r = s THEN [secret[s] EXCEPT !.status = status]
                                                  ELSE secret[r]
                         /\ send'[r] = IF r = s THEN next ELSE send[r]
  BY <1>1 DEF StateInv
<1>3. \A r \in Secrets : /\ secret'[r].by = secret[r].by
                         /\ secret'[r].kind = secret[r].kind
                         /\ secret'[r].status = IF r = s THEN status ELSE secret[r].status
  BY <1>2 DEF SecretRow
<1>4. StateInv'
  <2>1. secret' \in [Secrets -> SecretRow]
    BY <1>1, <1>2 DEF StateInv, SecretRow
  <2>2. send' \in [Secrets -> {"idle", "ready", "sealed", "upload", "finalize", "created",
                               "printed", "failed"}]
    BY <1>1 DEF StateInv
  <2> QED
    BY <2>1, <2>2, <1>1 DEF StateInv
<1>5. \A r \in Secrets : SecretInv(r)'
  <2> SUFFICES ASSUME NEW r \in Secrets PROVE SecretInv(r)'
    OBVIOUS
  <2>1. SecretInv(r)
    BY DEF Inv
  <2> QED
    BY <2>1, <1>2, <1>3 DEF SecretInv
<1>6. \A p \in Openers : OpenerInv(p)'
  <2> SUFFICES ASSUME NEW p \in Openers PROVE OpenerInv(p)'
    OBVIOUS
  <2>1. OpenerInv(p) /\ op[p].link \in Secrets
    BY <1>1 DEF Inv, StateInv, Opening
  <2>2. secret'[op[p].link].by = secret[op[p].link].by
        /\ secret'[op[p].link].kind = secret[op[p].link].kind
    BY <2>1, <1>3
  <2> QED
    BY <2>1, <2>2, Zenon DEF OpenerInv, kind
<1>7. \A x \in Paths : FileInv(x)'
  <2> SUFFICES ASSUME NEW x \in Paths, fs[x].by \in Openers PROVE FileInv(x)'
    BY DEF FileInv
  <2>1. FileInv(x) /\ op[fs[x].by].link \in Secrets
    BY <1>1 DEF Inv, StateInv, Opening
  <2>2. secret'[op[fs[x].by].link].kind = secret[op[fs[x].by].link].kind
    BY <2>1, <1>3
  <2> QED
    BY <2>1, <2>2, Zenon DEF FileInv, kind
<1> QED
  BY <1>4, <1>5, <1>6, <1>7 DEF Inv

(* What a step of one run of flick open may do to what others rely on: it  *)
(* takes a free name or changes its own file, and consumes a secret only   *)
(* while it is active.  What is left to show is the step's own part.       *)
LEMMA OpenStep ==
    ASSUME Inv, NEW p \in Openers, StateInv',
           send' = send,
           op'[p].link = op[p].link,
           \A q \in Openers \ {p} : /\ op'[q] = op[q] /\ staging'[q] = staging[q]
                                    /\ q \in fault => q \in fault',
           \/ secret' = secret
           \/ /\ secret[op[p].link].status = "active"
              /\ secret' = [secret EXCEPT ![op[p].link].status = "consumed",
                                          ![op[p].link].by = p],
           \A x \in Paths : \/ fs'[x] = fs[x]
                            \/ (fs[x] = Free \/ fs[x].by = p) /\ fs'[x].by \in {p, Nobody},
           OpenerInv(p)',
           \A x \in Paths : fs'[x].by = p => FileInv(x)'
    PROVE  Inv'
<1> DEFINE l == op[p].link
<1>1. StateInv /\ (\A q \in Openers : op[q] \in Opening /\ op[q].link \in Secrets)
  BY DEF Inv, StateInv, Opening
<1>2. l \in Secrets
  BY <1>1
<1>3. \A s \in Secrets : secret[s] \in SecretRow
  BY <1>1 DEF StateInv
<1>4. \A s \in Secrets : SecretInv(s)
  BY DEF Inv
<1>5. secret[l].status = "active" => secret[l].by = Nobody
  BY <1>2, <1>4 DEF SecretInv
<1>6. \A s \in Secrets :
        \/ secret'[s] = secret[s]
        \/ /\ s = l /\ secret[s].by = Nobody /\ secret[s].status = "active"
           /\ secret'[s].kind = secret[s].kind
           /\ secret'[s].by = p /\ secret'[s].status = "consumed"
  BY <1>2, <1>3, <1>5, <1>1 DEF StateInv, SecretRow
<1>7. \A s \in Secrets : SecretInv(s)'
  <2> SUFFICES ASSUME NEW s \in Secrets PROVE SecretInv(s)'
    OBVIOUS
  <2>0. SecretInv(s) /\ secret[s].by \in Openers \cup {Nobody}
    BY <1>3, <1>4 DEF SecretRow
  <2>1. CASE secret'[s] = secret[s]
    <3>1. secret[s].by # Nobody => op'[secret[s].by].link = s
      BY <2>0 DEF SecretInv
    <3> QED
      BY <3>1, <2>0, <2>1 DEF SecretInv
  <2>2. CASE secret'[s] # secret[s]
    <3>1. /\ s = l /\ secret[s].status = "active" /\ secret'[s].by = p
          /\ secret'[s].status = "consumed"
      BY <1>6, <2>2
    <3> QED
      BY <3>1, <2>0 DEF SecretInv, Matches
  <2> QED
    BY <2>1, <2>2
<1>8. \A q \in Openers \ {p} : OpenerInv(q)'
  <2> SUFFICES ASSUME NEW q \in Openers, q # p PROVE OpenerInv(q)'
    OBVIOUS
  <2>1. op'[q] = op[q] /\ staging'[q] = staging[q] /\ (q \in fault => q \in fault')
    OBVIOUS
  <2>2. /\ (secret'[op[q].link].by = q) <=> (secret[op[q].link].by = q)
        /\ secret'[op[q].link].kind = secret[op[q].link].kind
    BY <1>1, <1>6, CommandLineAssumption
  <2>3. \A x \in Paths : \A what : fs[x] = [by |-> q, what |-> what] => fs'[x] = fs[x]
    BY CommandLineAssumption DEF Free
  <2>4. Output \in Paths /\ op[q].path \in Paths
    BY <1>1, CommandLineAssumption DEF Opening, Output, Paths
  <2>5. OpenerInv(q)
    BY DEF Inv
  <2>6. /\ fs[Output] = [by |-> q, what |-> "empty"] => fs'[Output] = fs[Output]
        /\ \A what : fs[op[q].path] = [by |-> q, what |-> what] => fs'[op[q].path] = fs[op[q].path]
    BY <2>3, <2>4, Zenon
  <2> QED
    BY <2>1, <2>2, <2>6, <2>5 DEF OpenerInv, kind
<1>9. \A x \in Paths : FileInv(x)'
  <2> SUFFICES ASSUME NEW x \in Paths, fs'[x].by \in Openers, fs'[x].by # p PROVE FileInv(x)'
    BY DEF FileInv
  <2>1. fs'[x] = fs[x]
    BY CommandLineAssumption
  <2>2. FileInv(x) /\ op'[fs[x].by] = op[fs[x].by] /\ op[fs[x].by].link \in Secrets
    BY <2>1, <1>1 DEF Inv
  <2>3. secret'[op[fs[x].by].link].kind = secret[op[fs[x].by].link].kind
    BY <2>2, <1>6
  <2> QED
    BY <2>1, <2>2, <2>3, Zenon DEF FileInv, kind
<1> QED
  BY <1>7, <1>8, <1>9, Zenon DEF Inv

-----------------------------------------------------------------------------
(* What every step of flick open starts from.                              *)
LEMMA OpenerFacts ==
    ASSUME Inv, NEW p \in Openers
    PROVE  /\ StateInv /\ OpenerInv(p) /\ op[p] \in Opening
           /\ op[p].link \in Secrets /\ op[p].output \in BOOLEAN /\ op[p].path \in Paths
           /\ Output \in Paths /\ p # Nobody /\ p # User
           /\ \A x \in Paths : fs[x] \in File /\ FileInv(x)
BY CommandLineAssumption DEF Inv, StateInv, Opening, Output, Paths

(* Goes moves one run and leaves the rest of it.                           *)
LEMMA GoesMoves ==
    ASSUME Inv, NEW p \in Openers, NEW there \in Underway \cup Ended, Goes(p, there)
    PROVE  /\ op' \in [Openers -> Opening]
           /\ op'[p].at = there /\ op'[p].link = op[p].link /\ op'[p].output = op[p].output
           /\ op'[p].path = op[p].path
           /\ \A q \in Openers \ {p} : op'[q] = op[q]
<1>1. op \in [Openers -> Opening] /\ op[p] \in Opening
  BY DEF Inv, StateInv
<1>2. op'[p] = [op[p] EXCEPT !.at = there] /\ \A q \in Openers \ {p} : op'[q] = op[q]
  BY <1>1 DEF Goes
<1>3. [op[p] EXCEPT !.at = there] \in Opening
  BY <1>1 DEF Opening
<1> QED
  BY <1>1, <1>2, <1>3 DEF Goes, Opening

(* discard removes the only file a run has before it places one.           *)
LEMMA Discarded ==
    ASSUME Inv, NEW p \in Openers, op[p].at \in {"consume", "opened", "decrypt"},
           fs' = discard(p)
    PROVE  /\ fs' \in [Paths -> File]
           /\ \A x \in Paths : /\ fs'[x].by # p
                               /\ fs'[x] = fs[x] \/ (fs[x].by = p /\ fs'[x] = Free)
<1>1. /\ StateInv /\ OpenerInv(p) /\ Output \in Paths /\ p # Nobody
      /\ \A x \in Paths : fs[x] \in File /\ FileInv(x)
  BY OpenerFacts
<1>2. Free \in File /\ Free.by = Nobody
  BY DEF Free, File
<1>3. fs' \in [Paths -> File]
  BY <1>1, <1>2 DEF discard, StateInv
<1>4. \A x \in Paths : fs'[x] = IF x = Output /\ op[p].output THEN Free ELSE fs[x]
  BY <1>1 DEF discard, StateInv
<1>5. \A x \in Paths : fs[x].by = p => x = Output /\ op[p].output
  BY <1>1 DEF FileInv, Holds
<1>6. op[p].output => fs[Output].by = p
  BY <1>1 DEF OpenerInv, Reserving
<1> QED
  BY <1>1, <1>2, <1>3, <1>4, <1>5, <1>6

(* The plaintext is lost: the reserved file goes with it.                  *)
LEMMA LostStep ==
    ASSUME Inv, NEW p \in Openers, op[p].at \in {"consume", "opened", "decrypt"},
           Lost(p), send' = send,
           staging' \in [Openers -> {"none", "partial", "whole"}], staging'[p] = "none",
           \A q \in Openers \ {p} : staging'[q] = staging[q],
           secret' \in [Secrets -> SecretRow], secret'[op[p].link].by = p,
           \/ secret' = secret
           \/ /\ secret[op[p].link].status = "active"
              /\ secret' = [secret EXCEPT ![op[p].link].status = "consumed",
                                          ![op[p].link].by = p]
    PROVE  Inv'
<1>1. StateInv
  BY DEF Inv
<1>2. /\ op' \in [Openers -> Opening]
      /\ op'[p].at = "lost" /\ op'[p].link = op[p].link
      /\ \A q \in Openers \ {p} : op'[q] = op[q]
  BY GoesMoves DEF Lost, Ended, Refusals
<1>3. /\ fs' \in [Paths -> File]
      /\ \A x \in Paths : /\ fs'[x].by # p
                          /\ fs'[x] = fs[x] \/ (fs[x].by = p /\ fs'[x] = Free)
  BY Discarded DEF Lost
<1>4. fault' \in SUBSET Openers /\ p \in fault' /\ fault \subseteq fault'
  BY <1>1 DEF Lost, StateInv
<1>5. StateInv'
  BY <1>1, <1>2, <1>3, <1>4 DEF StateInv
<1>6. OpenerInv(p)'
  BY <1>2, <1>4 DEF OpenerInv, Before, Reserving
<1>7. \A x \in Paths : \/ fs'[x] = fs[x]
                       \/ (fs[x] = Free \/ fs[x].by = p) /\ fs'[x].by \in {p, Nobody}
  BY <1>3 DEF Free
<1> QED
  BY OpenStep, <1>2, <1>3, <1>4, <1>5, <1>6, <1>7

(* A step that moves a run and touches no file.                            *)
LEMMA MoveStep ==
    ASSUME Inv, NEW p \in Openers, NEW there \in Underway \cup Ended, Goes(p, there),
           send' = send, fs' = fs,
           fault' = fault \/ fault' = fault \cup {p},
           staging' \in [Openers -> {"none", "partial", "whole"}],
           \A q \in Openers \ {p} : staging'[q] = staging[q],
           secret' \in [Secrets -> SecretRow],
           \/ secret' = secret
           \/ /\ secret[op[p].link].status = "active"
              /\ secret' = [secret EXCEPT ![op[p].link].status = "consumed",
                                          ![op[p].link].by = p],
           OpenerInv(p)',
           \A x \in Paths : fs[x].by = p => FileInv(x)'
    PROVE  Inv'
<1>1. StateInv
  BY DEF Inv
<1>2. /\ op' \in [Openers -> Opening] /\ op'[p].link = op[p].link
      /\ \A q \in Openers \ {p} : op'[q] = op[q]
  BY GoesMoves
<1>3. fault' \in SUBSET Openers /\ fault \subseteq fault'
  BY <1>1 DEF StateInv
<1>4. StateInv'
  BY <1>1, <1>2, <1>3 DEF StateInv
<1> QED
  BY OpenStep, <1>2, <1>3, <1>4

(* A step that also writes or removes one file of the run, or takes a name *)
(* that is free.                                                           *)
LEMMA WriteStep ==
    ASSUME Inv, NEW p \in Openers, NEW there \in Underway \cup Ended, Goes(p, there),
           NEW x \in Paths, NEW f \in File, fs' = [fs EXCEPT ![x] = f],
           fs[x] = Free \/ fs[x].by = p, f.by \in {p, Nobody},
           send' = send, secret' = secret,
           fault' = fault \/ fault' = fault \cup {p},
           staging' \in [Openers -> {"none", "partial", "whole"}],
           \A q \in Openers \ {p} : staging'[q] = staging[q],
           OpenerInv(p)',
           f.by = p => FileInv(x)',
           \A y \in Paths \ {x} : fs[y].by = p => FileInv(y)'
    PROVE  Inv'
<1>1. StateInv
  BY DEF Inv
<1>2. /\ op' \in [Openers -> Opening] /\ op'[p].link = op[p].link
      /\ \A q \in Openers \ {p} : op'[q] = op[q]
  BY GoesMoves
<1>3. fault' \in SUBSET Openers /\ fault \subseteq fault'
  BY <1>1 DEF StateInv
<1>4. fs' \in [Paths -> File] /\ fs'[x] = f /\ \A y \in Paths \ {x} : fs'[y] = fs[y]
  BY <1>1 DEF StateInv
<1>5. StateInv'
  BY <1>1, <1>2, <1>3, <1>4 DEF StateInv
<1> QED
  BY OpenStep, <1>2, <1>3, <1>4, <1>5

(* While a run is under way none of its files is partial.                  *)
LEMMA FilesStay ==
    ASSUME Inv, NEW p \in Openers, op[p].at \in {"idle"} \cup Underway,
           NEW y \in Paths, fs[y].by = p, fs'[y] = fs[y],
           Holds(op[p], y) => Holds(op'[p], y)
    PROVE  FileInv(y)'
<1>1. FileInv(y) /\ p \in Openers
  BY DEF Inv
<1>2. Holds(op[p], y) /\ fs[y].what # "partial"
  BY <1>1 DEF FileInv, Underway
<1> QED
  BY <1>2 DEF FileInv

-----------------------------------------------------------------------------
(* The steps up to the consuming open.                                     *)
LEMMA FirstSteps ==
    ASSUME Inv, NEW p \in Openers, NEW there \in {"probe", "unlock", "reserve", "consume", "refused"},
           op[p].at \in {"idle", "probe", "unlock", "reserve"}, Goes(p, there),
           there = "consume" => ~op[p].output,
           UNCHANGED <<secret, send, fs, staging, fault>>
    PROVE  Inv'
<1>1. StateInv /\ OpenerInv(p) /\ op[p].output \in BOOLEAN
  BY OpenerFacts
<1>2. there \in Underway \cup Ended
  BY DEF Underway, Ended, Refusals
<1>3. op'[p].at = there /\ op'[p].link = op[p].link /\ op'[p].output = op[p].output
      /\ op'[p].path = op[p].path
  BY <1>2, GoesMoves
<1>4. OpenerInv(p)'
  BY <1>1, <1>3 DEF OpenerInv, Before, Reserving
<1>5. \A x \in Paths : fs[x].by = p => FileInv(x)'
  BY FilesStay DEF Holds, Reserving, Underway
<1> QED
  BY <1>1, <1>2, <1>4, <1>5, MoveStep DEF StateInv

LEMMA ReserveStep ==
    ASSUME Inv, NEW p \in Openers, reserveDestination(p)
    PROVE  Inv'
<1>0. op[p].at = "reserve" /\ UNCHANGED <<secret, send, staging, fault>>
  BY DEF reserveDestination, At
<1>1. /\ StateInv /\ OpenerInv(p) /\ op[p].output \in BOOLEAN /\ Output \in Paths
  BY OpenerFacts
<1>2. CASE op[p].output /\ fs[Output] = Free /\ Goes(p, "consume")
           /\ fs' = [fs EXCEPT ![Output] = [by |-> p, what |-> "empty"]]
  <2> DEFINE f == [by |-> p, what |-> "empty"]
  <2>1. f \in File /\ f.by = p /\ f.what = "empty"
    BY DEF File
  <2>2. "consume" \in Underway
    BY DEF Underway
  <2>3. op'[p].at = "consume" /\ op'[p].link = op[p].link /\ op'[p].output = op[p].output
        /\ op'[p].path = op[p].path
    BY <1>2, <2>2, GoesMoves, Zenon
  <2>4. fs'[Output] = f /\ \A y \in Paths \ {Output} : fs'[y] = fs[y]
    BY <1>1, <1>2 DEF StateInv
  <2> HIDE DEF f
  <2>5. OpenerInv(p)'
    BY <1>0, <1>1, <1>2, <2>3, <2>4 DEF OpenerInv, Before, Reserving, f
  <2>6. FileInv(Output)'
    BY <1>2, <2>1, <2>3, <2>4, Zenon DEF FileInv, Holds, Reserving
  <2>7. \A y \in Paths \ {Output} : fs[y].by = p => FileInv(y)'
    BY <1>0, <2>4, FilesStay DEF Holds, Reserving, Underway
  <2> QED
    BY <1>0, <1>1, <1>2, <2>1, <2>2, <2>5, <2>6, <2>7, WriteStep, Zenon DEF StateInv, f
<1>3. CASE fs' = fs /\ Goes(p, "refused")
  BY <1>0, <1>3, FirstSteps
<1>4. CASE fs' = fs /\ ~op[p].output /\ Goes(p, "consume")
  BY <1>0, <1>4, FirstSteps
<1> QED
  BY <1>2, <1>3, <1>4 DEF reserveDestination

LEMMA OpenRefusedStep ==
    ASSUME Inv, NEW p \in Openers, OpenRefused(p)
    PROVE  Inv'
<1>0. /\ op[p].at = "consume" /\ Goes(p, "refused") /\ fs' = discard(p)
      /\ UNCHANGED <<secret, send, staging, fault>>
  BY DEF OpenRefused, At
<1>1. StateInv /\ OpenerInv(p)
  BY OpenerFacts
<1>2. /\ op' \in [Openers -> Opening]
      /\ op'[p].at = "refused" /\ op'[p].link = op[p].link /\ op'[p].path = op[p].path
      /\ \A q \in Openers \ {p} : op'[q] = op[q]
  BY <1>0, GoesMoves DEF Ended, Refusals
<1>3. /\ fs' \in [Paths -> File]
      /\ \A x \in Paths : /\ fs'[x].by # p
                          /\ fs'[x] = fs[x] \/ (fs[x].by = p /\ fs'[x] = Free)
  BY <1>0, Discarded
<1>4. StateInv'
  BY <1>0, <1>1, <1>2, <1>3 DEF StateInv
<1>5. OpenerInv(p)'
  BY <1>0, <1>1, <1>2 DEF OpenerInv, Before, Reserving
<1>6. \A x \in Paths : \/ fs'[x] = fs[x]
                       \/ (fs[x] = Free \/ fs[x].by = p) /\ fs'[x].by \in {p, Nobody}
  BY <1>3 DEF Free
<1> QED
  BY <1>0, <1>2, <1>3, <1>4, <1>5, <1>6, OpenStep

LEMMA OpenSecretStep ==
    ASSUME Inv, NEW p \in Openers, OpenSecret(p)
    PROVE  Inv'
<1> DEFINE l == op[p].link
<1>0. /\ op[p].at = "consume" /\ secret[l].status = "active"
      /\ secret' = [secret EXCEPT ![l].status = "consumed", ![l].by = p]
      /\ UNCHANGED <<send, staging>>
  BY DEF OpenSecret, At
<1>1. StateInv /\ OpenerInv(p) /\ l \in Secrets
  BY OpenerFacts
<1>2. secret' \in [Secrets -> SecretRow] /\ secret'[l].by = p /\ staging[p] = "none"
  <2>1. secret[l] \in SecretRow
    BY <1>1 DEF StateInv
  <2>2. secret'[l] = [secret[l] EXCEPT !.status = "consumed", !.by = p]
    BY <1>0, <1>1, Zenon DEF StateInv
  <2>3. secret'[l] \in SecretRow /\ secret'[l].by = p
    BY <2>1, <2>2, Zenon DEF SecretRow, Statuses
  <2> QED
    BY <1>0, <1>1, <2>3, Zenon DEF StateInv, OpenerInv, Before
<1>3. CASE Lost(p)
  BY <1>0, <1>1, <1>2, <1>3, LostStep, Zenon DEF StateInv
<1>4. CASE Goes(p, "opened") /\ UNCHANGED <<fs, fault>>
  <2>1. "opened" \in Underway /\ "consume" \in Underway
    BY DEF Underway
  <2>2. op'[p].at = "opened" /\ op'[p].link = l /\ op'[p].output = op[p].output
        /\ op'[p].path = op[p].path
    BY <1>4, <2>1, GoesMoves
  <2>3. OpenerInv(p)'
    BY <1>0, <1>1, <1>2, <1>4, <2>2 DEF OpenerInv, Before, Reserving
  <2>4. \A x \in Paths : fs[x].by = p => FileInv(x)'
    BY <1>0, <1>4, <2>1, <2>2, FilesStay DEF Holds, Reserving
  <2> QED
    BY <1>0, <1>1, <1>2, <1>4, <2>1, <2>3, <2>4, MoveStep, Zenon DEF StateInv
<1> QED
  BY <1>3, <1>4 DEF OpenSecret

-----------------------------------------------------------------------------
(* The steps after the consuming open: a text.                             *)
LEMMA UnwrapStep ==
    ASSUME Inv, NEW p \in Openers, UnwrapIdentityFails(p)
    PROVE  Inv'
<1>1. StateInv /\ OpenerInv(p)
  BY OpenerFacts
<1>2. op[p].at = "opened" /\ Lost(p) /\ UNCHANGED <<secret, send, staging>>
  BY DEF UnwrapIdentityFails, At
<1>3. staging[p] = "none" /\ secret[op[p].link].by = p
  BY <1>1, <1>2 DEF OpenerInv, Before
<1> QED
  BY <1>1, <1>2, <1>3, LostStep DEF StateInv

LEMMA OpenTextStep ==
    ASSUME Inv, NEW p \in Openers, openText(p)
    PROVE  Inv'
<1>1. StateInv /\ OpenerInv(p)
  BY OpenerFacts
<1>2. op[p].at = "opened" /\ kind(p) = "text" /\ UNCHANGED <<secret, send, staging>>
  BY DEF openText, At
<1>3. staging[p] = "none" /\ secret[op[p].link].by = p /\ op[p].path = Output
  BY <1>1, <1>2 DEF OpenerInv, Before
<1>4. CASE Lost(p)
  BY <1>1, <1>2, <1>3, <1>4, LostStep DEF StateInv
<1>5. ASSUME NEW there \in {"write", "printed", "unprinted"}, Goes(p, there), fs' = fs,
             (there = "write") <=> op[p].output,
             fault' = fault \/ fault' = fault \cup {p},
             there = "unprinted" => p \in fault'
      PROVE  Inv'
  <2>1. there \in Underway \cup Ended /\ op[p].at \in Underway
    BY <1>2 DEF Underway, Ended, Kept
  <2>2. op'[p].at = there /\ op'[p].link = op[p].link /\ op'[p].output = op[p].output
        /\ op'[p].path = op[p].path
    BY <1>5, <2>1, GoesMoves
  <2>3. OpenerInv(p)'
    BY <1>1, <1>2, <1>3, <1>5, <2>2 DEF OpenerInv, Before, Reserving, kind
  <2>4. \A x \in Paths : fs[x].by = p => FileInv(x)'
    BY <1>2, <1>5, <2>1, <2>2, FilesStay DEF Holds, Reserving
  <2> QED
    BY <1>1, <1>2, <1>5, <2>1, <2>3, <2>4, MoveStep DEF StateInv
<1>6. CASE op[p].output /\ Goes(p, "write") /\ UNCHANGED <<fs, fault>>
  BY <1>5, <1>6
<1>7. CASE ~op[p].output /\ OnStdout(p, "printed") /\ UNCHANGED fs
  BY <1>5, <1>7 DEF OnStdout
<1> QED
  BY <1>4, <1>6, <1>7, Zenon DEF openText, BodyFails

LEMMA WriteTextStep ==
    ASSUME Inv, NEW p \in Openers, writeText(p)
    PROVE  Inv'
<1>1. StateInv /\ OpenerInv(p) /\ Output \in Paths
  BY OpenerFacts
<1>2. op[p].at = "write" /\ UNCHANGED <<secret, send, staging>>
  BY DEF writeText, At
<1>3. /\ staging[p] = "none" /\ secret[op[p].link].by = p /\ op[p].path = Output
      /\ op[p].output /\ kind(p) = "text" /\ fs[Output] = [by |-> p, what |-> "empty"]
  BY <1>1, <1>2 DEF OpenerInv, Before, Reserving
<1>4. PICK what \in {"empty", "partial", "whole"}, there \in {"saved", "salvaged", "unprinted"} :
        /\ fs' = [fs EXCEPT ![Output].what = what]
        /\ Goes(p, there)
        /\ there = "saved" => what = "whole"
        /\ fault' = fault \/ fault' = fault \cup {p}
        /\ there = "unprinted" => p \in fault'
  BY Zenon DEF writeText, salvage, OnStdout
<1> DEFINE f == [by |-> p, what |-> what]
<1>5. f \in File /\ f.by = p /\ f.what = what
  BY DEF File
<1>6. fs' = [fs EXCEPT ![Output] = f]
  <2>1. [fs[Output] EXCEPT !.what = what] = f
    BY <1>3
  <2> QED
    BY <1>4, <2>1, Zenon
<1>7. fs'[Output] = f /\ \A y \in Paths \ {Output} : fs'[y] = fs[y]
  BY <1>1, <1>6 DEF StateInv
<1>8. there \in Underway \cup Ended /\ op[p].at \in Underway
  BY <1>2 DEF Underway, Ended, Kept
<1>9. op'[p].at = there /\ op'[p].link = op[p].link /\ op'[p].output = op[p].output
      /\ op'[p].path = op[p].path
  BY <1>4, <1>8, GoesMoves
<1>10. OpenerInv(p)'
  <2>1. there = "saved" => fs'[Output] = [by |-> p, what |-> "whole"]
    BY <1>4, <1>7
  <2> HIDE DEF f
  <2> QED
    BY <1>2, <1>3, <1>4, <1>9, <2>1 DEF OpenerInv, Before, Reserving
<1> HIDE DEF f
<1>11. FileInv(Output)'
  <2>1. fs'[Output].by = p /\ fs'[Output].what = what
    BY <1>5, <1>7
  <2>2. Holds(op'[p], Output)
    BY <1>3, <1>9 DEF Holds
  <2>3. what = "partial" => op'[p].at \in {"salvaged", "unprinted"}
    BY <1>4, <1>9
  <2>4. kind(p)' = "text"
    BY <1>2, <1>3, <1>9 DEF kind
  <2> QED
    BY <2>1, <2>2, <2>3, <2>4, Zenon DEF FileInv
<1>12. \A y \in Paths \ {Output} : fs[y].by = p => FileInv(y)'
  BY <1>2, <1>3, <1>7, <1>8, <1>9, FilesStay DEF Holds, Reserving
<1>13. fs[Output].by = p
  BY <1>3
<1> QED
  BY <1>1, <1>2, <1>4, <1>5, <1>6, <1>8, <1>10, <1>11, <1>12, <1>13, WriteStep, Zenon DEF StateInv

-----------------------------------------------------------------------------
(* The steps after the consuming open: a file.                             *)
LEMMA StageStep ==
    ASSUME Inv, NEW p \in Openers, stage(p)
    PROVE  Inv'
<1>1. StateInv /\ OpenerInv(p)
  BY OpenerFacts
<1>2. op[p].at = "opened" /\ UNCHANGED <<secret, send>>
  BY DEF stage, At
<1>3. staging[p] = "none" /\ secret[op[p].link].by = p /\ op[p].path = Output
  BY <1>1, <1>2 DEF OpenerInv, Before
<1>4. CASE Lost(p) /\ UNCHANGED staging
  BY <1>1, <1>2, <1>3, <1>4, LostStep DEF StateInv
<1>5. CASE staging' = [staging EXCEPT ![p] = "partial"] /\ Goes(p, "decrypt")
           /\ UNCHANGED <<fs, fault>>
  <2>1. "decrypt" \in Underway /\ op[p].at \in Underway
    BY <1>2 DEF Underway
  <2>2. op'[p].at = "decrypt" /\ op'[p].link = op[p].link /\ op'[p].output = op[p].output
        /\ op'[p].path = op[p].path
    BY <1>5, <2>1, GoesMoves
  <2>3. OpenerInv(p)'
    BY <1>1, <1>2, <1>3, <1>5, <2>2 DEF OpenerInv, Before, Reserving
  <2>4. \A x \in Paths : fs[x].by = p => FileInv(x)'
    BY <1>2, <1>5, <2>1, <2>2, FilesStay DEF Holds, Reserving
  <2>5. /\ staging' \in [Openers -> {"none", "partial", "whole"}]
        /\ \A q \in Openers \ {p} : staging'[q] = staging[q]
    BY <1>1, <1>5 DEF StateInv
  <2> QED
    BY <1>1, <1>2, <1>5, <2>1, <2>3, <2>4, <2>5, MoveStep DEF StateInv
<1> QED
  BY <1>4, <1>5, Zenon DEF stage

LEMMA DecryptStep ==
    ASSUME Inv, NEW p \in Openers, decryptInto(p)
    PROVE  Inv'
<1>1. StateInv /\ OpenerInv(p) /\ op[p] \in Opening /\ Output \in Paths
  BY OpenerFacts
<1>2. op[p].at = "decrypt" /\ UNCHANGED <<secret, send>>
  BY DEF decryptInto, At
<1>3. secret[op[p].link].by = p
  BY <1>1, <1>2 DEF OpenerInv, Before
<1>4. CASE Lost(p) /\ staging' = [staging EXCEPT ![p] = "none"]
  <2>1. /\ staging' \in [Openers -> {"none", "partial", "whole"}] /\ staging'[p] = "none"
        /\ \A q \in Openers \ {p} : staging'[q] = staging[q]
    BY <1>1, <1>4 DEF StateInv
  <2> QED
    BY <1>1, <1>2, <1>3, <1>4, <2>1, LostStep DEF StateInv
<1>5. CASE /\ staging' = [staging EXCEPT ![p] = "whole"]
           /\ op' = [op EXCEPT ![p].at = "place", ![p].path = IF op[p].output THEN Output ELSE 1]
           /\ UNCHANGED <<fs, fault>>
  <2>1. /\ staging' \in [Openers -> {"none", "partial", "whole"}] /\ staging'[p] = "whole"
        /\ \A q \in Openers \ {p} : staging'[q] = staging[q]
    BY <1>1, <1>5 DEF StateInv
  <2> DEFINE path == IF op[p].output THEN Output ELSE 1
  <2>2. path \in Paths /\ (op[p].output => path = Output)
    BY CommandLineAssumption DEF Paths, Output
  <2> HIDE DEF path
  <2>3. op'[p] = [op[p] EXCEPT !.at = "place", !.path = path]
        /\ \A q \in Openers \ {p} : op'[q] = op[q]
    BY <1>1, <1>5 DEF StateInv, path
  <2>4. op'[p] \in Opening /\ op'[p].at = "place" /\ op'[p].link = op[p].link
        /\ op'[p].output = op[p].output /\ op'[p].path = path
    BY <1>1, <2>2, <2>3, Zenon DEF Opening, Underway
  <2>5. op' \in [Openers -> Opening]
    BY <1>1, <1>5, <2>3, <2>4 DEF StateInv
  <2>6. StateInv'
    BY <1>1, <1>2, <1>5, <2>1, <2>5 DEF StateInv
  <2>7. OpenerInv(p)'
    BY <1>1, <1>2, <1>3, <1>5, <2>1, <2>2, <2>4 DEF OpenerInv, Before, Reserving
  <2>8. \A x \in Paths : fs[x].by = p => FileInv(x)'
    BY <1>2, <1>5, <2>4, FilesStay, Zenon DEF Holds, Reserving, Underway
  <2> QED
    BY <1>2, <1>5, <2>1, <2>3, <2>4, <2>6, <2>7, <2>8, OpenStep, Zenon
<1> QED
  BY <1>4, <1>5, Zenon DEF decryptInto, BodyFails

(* A payload that cannot be placed stays in its staging file.              *)
LEMMA RescueStep ==
    ASSUME Inv, NEW p \in Openers, op[p].at = "place", Rescue(p),
           UNCHANGED <<secret, send, fault>>
    PROVE  Inv'
<1>1. StateInv /\ OpenerInv(p)
  BY OpenerFacts
<1>2. "rescued" \in Ended /\ op[p].at \in Underway /\ Goes(p, "rescued")
      /\ UNCHANGED <<fs, staging>>
  BY DEF Underway, Ended, Kept, Rescue
<1>3. op'[p].at = "rescued" /\ op'[p].link = op[p].link /\ op'[p].output = op[p].output
      /\ op'[p].path = op[p].path
  BY <1>2, GoesMoves
<1>4. OpenerInv(p)'
  BY <1>1, <1>2, <1>3 DEF OpenerInv, Before, Reserving
<1>5. \A x \in Paths : fs[x].by = p => FileInv(x)'
  BY <1>2, <1>3, FilesStay DEF Holds, Reserving
<1> QED
  BY <1>1, <1>2, <1>4, <1>5, MoveStep DEF StateInv

LEMMA PlaceOutputStep ==
    ASSUME Inv, NEW p \in Openers, placeOutput(p)
    PROVE  Inv'
<1>1. StateInv /\ OpenerInv(p) /\ Output \in Paths
  BY OpenerFacts
<1>2. op[p].at = "place" /\ op[p].output /\ UNCHANGED <<secret, send, fault>>
  BY DEF placeOutput, At
<1>3. /\ secret[op[p].link].by = p /\ op[p].path = Output
      /\ fs[Output] = [by |-> p, what |-> "empty"]
  BY <1>1, <1>2 DEF OpenerInv, Before, Reserving
<1>4. CASE Rescue(p)
  BY <1>2, <1>4, RescueStep
<1>5. CASE /\ fs' = [fs EXCEPT ![Output] = [by |-> p, what |-> "whole"]]
           /\ staging' = [staging EXCEPT ![p] = "none"]
           /\ Goes(p, "saved")
  <2> DEFINE f == [by |-> p, what |-> "whole"]
  <2>1. f \in File /\ f.by = p /\ f.what = "whole" /\ fs[Output].by = p
    BY <1>3 DEF File
  <2>2. "saved" \in Ended /\ op[p].at \in Underway
    BY <1>2 DEF Underway, Ended, Kept
  <2>3. op'[p].at = "saved" /\ op'[p].link = op[p].link /\ op'[p].output = op[p].output
        /\ op'[p].path = op[p].path
    BY <1>5, <2>2, GoesMoves
  <2>4. fs'[Output] = f /\ \A y \in Paths \ {Output} : fs'[y] = fs[y]
    BY <1>1, <1>5 DEF StateInv
  <2>5. /\ staging' \in [Openers -> {"none", "partial", "whole"}] /\ staging'[p] = "none"
        /\ \A q \in Openers \ {p} : staging'[q] = staging[q]
    BY <1>1, <1>5 DEF StateInv
  <2>6. OpenerInv(p)'
    BY <1>2, <1>3, <2>3, <2>4, <2>5 DEF OpenerInv, Before, Reserving
  <2> HIDE DEF f
  <2>7. FileInv(Output)'
    BY <1>2, <2>1, <2>3, <2>4, Zenon DEF FileInv, Holds
  <2>8. \A y \in Paths \ {Output} : fs[y].by = p => FileInv(y)'
    BY <1>2, <2>2, <2>3, <2>4, FilesStay DEF Holds
  <2>9. fs' = [fs EXCEPT ![Output] = f]
    BY <1>5 DEF f
  <2> QED
    <3>1. send' = send /\ secret' = secret /\ fault' = fault /\ "saved" \in Underway \cup Ended
      BY <1>2, <2>2
    <3> QED
      BY <1>1, <1>5, <2>1, <2>5, <2>6, <2>7, <2>8, <2>9, <3>1, WriteStep, Zenon
<1> QED
  BY <1>4, <1>5, Zenon DEF placeOutput

LEMMA PlaceFileStep ==
    ASSUME Inv, NEW p \in Openers, placeFile(p)
    PROVE  Inv'
<1>1. StateInv /\ OpenerInv(p) /\ op[p] \in Opening /\ op[p].path \in Paths
  BY OpenerFacts
<1>2. op[p].at = "place" /\ ~op[p].output /\ UNCHANGED <<secret, send, fault>>
  BY DEF placeFile, At
<1>3. secret[op[p].link].by = p /\ staging[p] = "whole"
  BY <1>1, <1>2 DEF OpenerInv, Before
<1>4. CASE Rescue(p)
  BY <1>2, <1>4, RescueStep
<1>5. CASE /\ op[p].path < MaxAttempts
           /\ op' = [op EXCEPT ![p].path = @ + 1]
           /\ UNCHANGED <<fs, staging>>
  <2>1. op[p].path + 1 \in Paths
    BY <1>1, <1>5, CommandLineAssumption DEF Paths
  <2>2. op'[p] = [op[p] EXCEPT !.path = op[p].path + 1]
        /\ \A q \in Openers \ {p} : op'[q] = op[q]
    BY <1>1, <1>5 DEF StateInv
  <2>3. op'[p] \in Opening /\ op'[p].at = "place" /\ op'[p].link = op[p].link
        /\ op'[p].output = op[p].output
    BY <1>1, <1>2, <2>1, <2>2 DEF Opening
  <2>4. op' \in [Openers -> Opening]
    BY <1>1, <1>5, <2>2, <2>3 DEF StateInv
  <2>5. StateInv'
    BY <1>1, <1>2, <1>5, <2>4 DEF StateInv
  <2>6. OpenerInv(p)'
    BY <1>2, <1>3, <1>5, <2>3 DEF OpenerInv, Before, Reserving
  <2>7. \A x \in Paths : fs[x].by = p => FileInv(x)'
    BY <1>2, <1>5, FilesStay, Zenon DEF Holds, Underway
  <2> QED
    BY <1>2, <1>5, <2>2, <2>3, <2>5, <2>6, <2>7, OpenStep, Zenon
<1>6. ASSUME NEW what \in {"whole", "empty"}, NEW there,
             there = IF what = "whole" THEN "unstage" ELSE "copy",
             fs[op[p].path] = Free,
             fs' = [fs EXCEPT ![op[p].path] = [by |-> p, what |-> what]],
             Goes(p, there), UNCHANGED staging
      PROVE  Inv'
  <2> DEFINE f == [by |-> p, what |-> what]
  <2>0. PICK x \in Paths : x = op[p].path
    BY <1>1
  <2>1. f \in File /\ f.by = p /\ f.what = what
    BY DEF File
  <2>2. there \in Underway /\ op[p].at \in Underway
    BY <1>2, <1>6 DEF Underway
  <2>3. op'[p].at = there /\ op'[p].link = op[p].link /\ op'[p].output = op[p].output
        /\ op'[p].path = x
    BY <1>6, <2>0, <2>2, GoesMoves
  <2>4. fs'[x] = f /\ \A y \in Paths \ {x} : fs'[y] = fs[y]
    BY <1>1, <1>6, <2>0 DEF StateInv
  <2>5. OpenerInv(p)'
    BY <1>2, <1>3, <1>6, <2>3, <2>4 DEF OpenerInv, Before, Reserving
  <2>9. fs' = [fs EXCEPT ![x] = f] /\ fs[x] = Free
    BY <1>6, <2>0, SMTT(20)
  <2> HIDE DEF f
  <2>6. FileInv(x)'
    BY <1>2, <1>6, <2>1, <2>3, <2>4 DEF FileInv, Holds
  <2>7. \A y \in Paths \ {x} : fs[y].by = p => FileInv(y)'
    BY <1>2, <2>2, <2>4, FilesStay DEF Holds
  <2> QED
    <3>1. /\ staging' \in [Openers -> {"none", "partial", "whole"}]
          /\ \A q \in Openers \ {p} : staging'[q] = staging[q]
          /\ there \in Underway \cup Ended
          /\ send' = send /\ secret' = secret /\ fault' = fault /\ Goes(p, there)
      BY <1>1, <1>2, <1>6, <2>2 DEF StateInv
    <3> QED
      BY <2>1, <2>5, <2>6, <2>7, <2>9, <3>1, WriteStep, Zenon
<1>7. CASE NameTaken(p)
  BY <1>4, <1>5, <1>7 DEF NameTaken
<1>8. CASE /\ fs[op[p].path] = Free
           /\ \E made \in {<<"whole", "unstage">>, <<"empty", "copy">>} :
                /\ fs' = [fs EXCEPT ![op[p].path] = [by |-> p, what |-> made[1]]]
                /\ Goes(p, made[2])
           /\ UNCHANGED staging
  <2>1. PICK made \in {<<"whole", "unstage">>, <<"empty", "copy">>} :
          /\ fs' = [fs EXCEPT ![op[p].path] = [by |-> p, what |-> made[1]]]
          /\ Goes(p, made[2])
    BY <1>8, Zenon
  <2>2. made[1] \in {"whole", "empty"}
        /\ made[2] = IF made[1] = "whole" THEN "unstage" ELSE "copy"
    OBVIOUS
  <2> QED
    BY <1>6, <1>8, <2>1, <2>2, Zenon
<1> QED
  BY <1>4, <1>7, <1>8, Zenon DEF placeFile

LEMMA CopyStep ==
    ASSUME Inv, NEW p \in Openers, copyExclusive(p)
    PROVE  Inv'
<1>1. StateInv /\ OpenerInv(p) /\ op[p].path \in Paths /\ p # Nobody
  BY OpenerFacts
<1>2. op[p].at = "copy" /\ UNCHANGED <<secret, send, staging, fault>>
  BY DEF copyExclusive, At
<1>0. PICK x \in Paths : x = op[p].path
  BY <1>1
<1>3. /\ secret[op[p].link].by = p /\ staging[p] = "whole" /\ ~op[p].output
      /\ fs[x] = [by |-> p, what |-> "empty"]
  BY <1>0, <1>1, <1>2 DEF OpenerInv, Before
<1>4. PICK there \in {"unstage", "rescued"} :
        /\ \/ fs' = [fs EXCEPT ![op[p].path].what = "whole"]
           \/ there = "rescued" /\ fs' = [fs EXCEPT ![op[p].path] = Free]
        /\ Goes(p, there)
  BY DEF copyExclusive
<1>5. [fs[x] EXCEPT !.what = "whole"] = [by |-> p, what |-> "whole"]
  BY <1>3
<1>6. PICK f \in {[by |-> p, what |-> "whole"], Free} :
        fs' = [fs EXCEPT ![x] = f] /\ (there = "unstage" => f = [by |-> p, what |-> "whole"])
  BY <1>0, <1>4, <1>5
<1>7. f \in File /\ f.by \in {p, Nobody} /\ f.what # "partial" /\ fs[x].by = p
  BY <1>3 DEF File, Free
<1>8. there \in Underway \cup Ended /\ op[p].at \in Underway
  BY <1>2 DEF Underway, Ended, Kept
<1>9. op'[p].at = there /\ op'[p].link = op[p].link /\ op'[p].output = op[p].output
      /\ op'[p].path = x
  BY <1>0, <1>4, <1>8, GoesMoves
<1>10. fs'[x] = f /\ \A y \in Paths \ {x} : fs'[y] = fs[y]
  BY <1>1, <1>6 DEF StateInv
<1>11. OpenerInv(p)'
  BY <1>2, <1>3, <1>6, <1>9, <1>10 DEF OpenerInv, Before, Reserving
<1>12. FileInv(x)'
  <2>1. Holds(op'[p], x)
    BY <1>3, <1>9 DEF Holds
  <2>2. fs'[x].by \in Openers => fs'[x].by = p /\ fs'[x].what # "partial"
    BY <1>7, <1>10, CommandLineAssumption
  <2> QED
    BY <2>1, <2>2 DEF FileInv
<1>13. \A y \in Paths \ {x} : fs[y].by = p => FileInv(y)'
  BY <1>0, <1>2, <1>3, <1>8, <1>9, <1>10, FilesStay DEF Holds
<1>14. /\ send' = send /\ secret' = secret /\ fault' = fault
       /\ staging' \in [Openers -> {"none", "partial", "whole"}] /\ staging' = staging
  BY <1>1, <1>2 DEF StateInv
<1> QED
  BY <1>4, <1>6, <1>7, <1>8, <1>11, <1>12, <1>13, <1>14, WriteStep, Zenon

LEMMA RemoveStagedStep ==
    ASSUME Inv, NEW p \in Openers, removeStaged(p)
    PROVE  Inv'
<1>1. StateInv /\ OpenerInv(p)
  BY OpenerFacts
<1>2. op[p].at = "unstage" /\ UNCHANGED <<secret, send, fs, fault>>
  BY DEF removeStaged, At
<1>3. PICK there \in {"saved", "savedTwice"} :
        /\ Goes(p, there)
        /\ IF there = "saved" THEN staging' = [staging EXCEPT ![p] = "none"]
                              ELSE staging' = staging
  BY DEF removeStaged
<1>4. /\ staging' \in [Openers -> {"none", "partial", "whole"}]
      /\ staging'[p] = IF there = "saved" THEN "none" ELSE staging[p]
      /\ \A q \in Openers \ {p} : staging'[q] = staging[q]
  BY <1>1, <1>3 DEF StateInv
<1>5. there \in Underway \cup Ended /\ op[p].at \in Underway
  BY <1>2 DEF Underway, Ended, Kept
<1>6. op'[p].at = there /\ op'[p].link = op[p].link /\ op'[p].output = op[p].output
      /\ op'[p].path = op[p].path
  BY <1>3, <1>5, GoesMoves
<1>7. OpenerInv(p)'
  BY <1>1, <1>2, <1>4, <1>6 DEF OpenerInv, Before, Reserving
<1>8. \A x \in Paths : fs[x].by = p => FileInv(x)'
  BY <1>2, <1>5, <1>6, FilesStay DEF Holds, Reserving
<1> QED
  BY <1>1, <1>2, <1>3, <1>4, <1>5, <1>7, <1>8, MoveStep DEF StateInv

-----------------------------------------------------------------------------
(* The environment: a run is killed at any step, and other programs create *)
(* files.                                                                  *)
LEMMA KilledStep ==
    ASSUME Inv, NEW p \in Openers, Killed(p)
    PROVE  Inv'
<1>1. /\ StateInv /\ OpenerInv(p) /\ op[p].path \in Paths /\ Output \in Paths
      /\ \A x \in Paths : fs[x] \in File /\ FileInv(x)
  BY OpenerFacts
<1>2. op[p].at \in Underway /\ Goes(p, "crashed") /\ UNCHANGED <<secret, send, staging>>
  BY DEF Killed
<1>3. /\ op' \in [Openers -> Opening]
      /\ op'[p].at = "crashed" /\ op'[p].link = op[p].link /\ op'[p].output = op[p].output
      /\ op'[p].path = op[p].path
      /\ \A q \in Openers \ {p} : op'[q] = op[q]
  BY <1>2, GoesMoves DEF Ended
<1>4. /\ fault' \in SUBSET Openers /\ fault \subseteq fault'
      /\ secret[op[p].link].by = p => p \in fault'
  BY <1>1 DEF Killed, StateInv
<1>5. OpenerInv(p)'
  BY <1>2, <1>3, <1>4 DEF OpenerInv, Before, Reserving
<1>6. /\ fs' \in [Paths -> File]
      /\ \A x \in Paths : fs'[x] = fs[x] \/ (fs[x].by = p /\ fs'[x].by = p)
  <2>1. CASE fs' = fs
    BY <1>1, <2>1 DEF StateInv
  <2>2. ASSUME NEW x \in Paths, NEW what \in {"partial", "whole"},
               fs[x] = [by |-> p, what |-> "empty"], fs' = [fs EXCEPT ![x].what = what]
        PROVE  /\ fs' \in [Paths -> File]
               /\ \A y \in Paths : fs'[y] = fs[y] \/ (fs[y].by = p /\ fs'[y].by = p)
    <3>1. [fs[x] EXCEPT !.what = what] = [by |-> p, what |-> what]
      BY <2>2
    <3>2. [by |-> p, what |-> what] \in File /\ [by |-> p, what |-> what].by = p
          /\ fs[x].by = p
      BY <2>2 DEF File
    <3>3. fs' = [fs EXCEPT ![x] = [by |-> p, what |-> what]]
      BY <2>2, <3>1, Zenon
    <3> QED
      BY <1>1, <3>2, <3>3 DEF StateInv
  <2>3. op[p].at = "write" => fs[Output] = [by |-> p, what |-> "empty"]
    BY <1>1 DEF OpenerInv, Reserving
  <2>4. op[p].at = "copy" => fs[op[p].path] = [by |-> p, what |-> "empty"]
    BY <1>1 DEF OpenerInv
  <2> QED
    BY <1>1, <2>1, <2>2, <2>3, <2>4 DEF Killed, At
<1>7. StateInv'
  BY <1>1, <1>2, <1>3, <1>4, <1>6 DEF StateInv
<1>8. \A x \in Paths : fs'[x].by = p => FileInv(x)'
  <2> SUFFICES ASSUME NEW x \in Paths, fs'[x].by = p PROVE FileInv(x)'
    OBVIOUS
  <2>1. Holds(op[p], x)
    BY <1>1, <1>6 DEF FileInv
  <2>2. Holds(op'[p], x)
    BY <1>2, <1>3, <2>1 DEF Holds, Underway
  <2> QED
    BY <1>3, <2>2 DEF FileInv
<1> QED
  BY <1>2, <1>3, <1>4, <1>5, <1>6, <1>7, <1>8, OpenStep

LEMMA UserStep ==
    ASSUME Inv, NEW x \in Paths, UserCreates(x)
    PROVE  Inv'
<1> DEFINE f == [by |-> User, what |-> "whole"]
<1>1. StateInv /\ f \in File /\ f.by = User /\ User \notin Openers
  BY CommandLineAssumption DEF Inv, File
<1>2. /\ UNCHANGED <<secret, send, op, staging, fault>> /\ fs[x] = Free
      /\ fs' = [fs EXCEPT ![x] = f]
  BY DEF UserCreates
<1> HIDE DEF f
<1>3. fs' \in [Paths -> File] /\ fs'[x] = f /\ \A y \in Paths \ {x} : fs'[y] = fs[y]
  BY <1>1, <1>2 DEF StateInv
<1>4. StateInv'
  BY <1>1, <1>2, <1>3 DEF StateInv
<1>5. \A s \in Secrets : SecretInv(s)'
  BY <1>2, SMTT(20) DEF Inv, SecretInv
<1>6. \A q \in Openers : OpenerInv(q)'
  <2> SUFFICES ASSUME NEW q \in Openers PROVE OpenerInv(q)'
    OBVIOUS
  <2>1. OpenerInv(q) /\ op[q].path \in Paths /\ Output \in Paths /\ q # Nobody
    BY OpenerFacts
  <2>2. \A y \in Paths : \A what : fs[y] = [by |-> q, what |-> what] => fs'[y] = fs[y]
    BY <1>2, <1>3, <2>1 DEF Free
  <2>3. /\ fs[Output] = [by |-> q, what |-> "empty"] => fs'[Output] = fs[Output]
        /\ \A what : fs[op[q].path] = [by |-> q, what |-> what] => fs'[op[q].path] = fs[op[q].path]
    BY <2>1, <2>2, Zenon
  <2> QED
    BY <1>2, <2>1, <2>3 DEF OpenerInv, kind
<1>7. \A y \in Paths : FileInv(y)'
  <2> SUFFICES ASSUME NEW y \in Paths PROVE FileInv(y)'
    OBVIOUS
  <2>1. CASE y = x
    BY <1>1, <1>3, <2>1 DEF FileInv
  <2>2. CASE y # x
    <3>1. FileInv(y) /\ fs'[y] = fs[y]
      BY <1>3, <2>2 DEF Inv
    <3> QED
      BY <1>2, <3>1 DEF FileInv, kind
  <2> QED
    BY <2>1, <2>2
<1> QED
  BY <1>4, <1>5, <1>6, <1>7 DEF Inv

-----------------------------------------------------------------------------
(* Every step of flick send, and the end of a secret.                      *)
LEMMA SendSteps ==
    ASSUME Inv, NEW s \in Secrets,
           \/ runSend(s) \/ Seal(s) \/ Create(s) \/ Upload(s) \/ FinalizeSecret(s)
           \/ PrintLink(s) \/ SecretEnds(s)
    PROVE  Inv'
<1> DEFINE Row == secret[s]
           status == Row.status
<1>1. /\ StateInv /\ SecretInv(s) /\ Row \in SecretRow /\ status \in Statuses
      /\ send[s] \in {"idle", "ready", "sealed", "upload", "finalize", "created", "printed",
                      "failed"}
  BY DEF Inv, StateInv, SecretRow
<1>2. secret = [secret EXCEPT ![s].status = status] /\ send = [send EXCEPT ![s] = send[s]]
  <2>1. [Row EXCEPT !.status = status] = Row
    BY <1>1 DEF SecretRow
  <2> QED
    BY <1>1, <2>1 DEF StateInv
<1>3. UNCHANGED <<op, fs, staging, fault>>
  BY DEF runSend, Seal, Create, Upload, FinalizeSecret, PrintLink, SecretEnds
<1>4. /\ "failed" \in {"idle", "ready", "sealed", "upload", "finalize", "created", "printed",
                       "failed"}
      /\ \A st : Matches("failed", st)
  BY DEF Matches
<1>5. CASE SendFails(s)
  BY <1>1, <1>2, <1>3, <1>4, <1>5, SendStep, Zenon DEF SendFails
<1>6. ASSUME NEW next \in {"ready", "sealed", "printed", "failed"},
             send' = [send EXCEPT ![s] = next], UNCHANGED secret,
             Matches(next, status)
      PROVE  Inv'
  BY <1>1, <1>2, <1>3, <1>6, SendStep, Zenon
<1>7. ASSUME NEW next \in {"upload", "finalize", "created", "failed"},
             NEW st \in {"pending", "uploaded", "active", status},
             send' = [send EXCEPT ![s] = next],
             secret' = [secret EXCEPT ![s].status = st],
             status # "consumed", Matches(next, st)
      PROVE  Inv'
  <2>1. st \in Statuses
    BY <1>1 DEF Statuses
  <2> QED
    BY <1>3, <1>7, <2>1, SendStep, Zenon
<1> HIDE DEF status
<1>8. CASE runSend(s)
  BY <1>1, <1>6, <1>8, Zenon DEF runSend, SecretInv, Matches, status
<1>9. CASE Seal(s)
  BY <1>1, <1>6, <1>9, Zenon DEF Seal, SecretInv, Matches, status
<1>10. CASE Create(s)
  <2>1. status = "absent"
    BY <1>1, <1>10 DEF Create, SecretInv, Matches, status
  <2> QED
    BY <1>5, <1>7, <1>10, <2>1 DEF Create, Matches
<1>11. CASE Upload(s)
  <2>1. status \in {"pending", "gone"}
    BY <1>1, <1>11 DEF Upload, SecretInv, Matches, status
  <2> DEFINE st == IF status = "pending" THEN "uploaded" ELSE status
  <2>2. st \in {"pending", "uploaded", "active", status} /\ Matches("finalize", st)
        /\ Matches("failed", st)
    BY <2>1 DEF Matches
  <2>3. SendFails(s) \/ \E next \in {"finalize", "failed"} :
             /\ secret' = [secret EXCEPT ![s].status = st]
             /\ send' = [send EXCEPT ![s] = next]
    BY <1>11 DEF Upload, status
  <2> HIDE DEF st
  <2> QED
    BY <1>5, <1>7, <2>1, <2>2, <2>3
<1>12. CASE FinalizeSecret(s)
  BY <1>5, <1>7, <1>12 DEF FinalizeSecret, Matches, status
<1>13. CASE PrintLink(s)
  BY <1>1, <1>6, <1>13 DEF PrintLink, SecretInv, Matches, status
<1>14. CASE SecretEnds(s)
  <2>1. status \in {"pending", "uploaded", "active"} /\ send' = send
        /\ secret' = [secret EXCEPT ![s].status = "gone"]
    BY <1>14 DEF SecretEnds, status
  <2>2. Matches(send[s], "gone")
    BY <1>1, <2>1 DEF SecretInv, Matches, status
  <2>3. "gone" \in Statuses
    BY DEF Statuses
  <2> QED
    BY <1>1, <1>2, <1>3, <2>1, <2>2, <2>3, SendStep, Zenon DEF status
<1> QED
  BY <1>8, <1>9, <1>10, <1>11, <1>12, <1>13, <1>14

LEMMA StepInv == Inv /\ [Next]_vars => Inv'
<1> SUFFICES ASSUME Inv, [Next]_vars PROVE Inv'
  BY Zenon
<1>1. CASE UNCHANGED vars
  <2>1. /\ secret' = secret /\ send' = send /\ op' = op
        /\ fs' = fs /\ staging' = staging /\ fault' = fault
    BY <1>1, Zenon DEF vars
  <2>2. StateInv'
    BY <2>1, Zenon DEF Inv, StateInv
  <2>3. \A s \in Secrets : SecretInv(s)'
    BY <2>1, Zenon DEF Inv, SecretInv
  <2>4. \A p \in Openers : OpenerInv(p)'
    BY <2>1, Zenon DEF Inv, OpenerInv, kind
  <2>5. \A x \in Paths : FileInv(x)'
    BY <2>1, Zenon DEF Inv, FileInv, kind
  <2> QED
    BY <2>2, <2>3, <2>4, <2>5, Zenon DEF Inv
<1>2. CASE \E s \in Secrets :
             \/ runSend(s) \/ Seal(s) \/ Create(s) \/ Upload(s) \/ FinalizeSecret(s)
             \/ PrintLink(s) \/ SecretEnds(s)
  BY <1>2, SendSteps, Zenon
<1>3. ASSUME NEW p \in Openers, Start(p) \/ SecretMetadata(p) \/ Unlock(p) PROVE Inv'
  BY <1>3, FirstSteps, Zenon DEF Start, SecretMetadata, Unlock, At
<1>4. ASSUME NEW p \in Openers,
             \/ reserveDestination(p) \/ OpenRefused(p) \/ OpenSecret(p)
             \/ UnwrapIdentityFails(p) \/ openText(p) \/ writeText(p) \/ stage(p)
             \/ decryptInto(p)
      PROVE  Inv'
  BY <1>4, ReserveStep, OpenRefusedStep, OpenSecretStep, UnwrapStep, OpenTextStep,
     WriteTextStep, StageStep, DecryptStep, Zenon
<1>5. ASSUME NEW p \in Openers,
             \/ placeOutput(p) \/ placeFile(p) \/ copyExclusive(p) \/ removeStaged(p)
             \/ Killed(p)
      PROVE  Inv'
  BY <1>5, PlaceOutputStep, PlaceFileStep, CopyStep, RemoveStagedStep, KilledStep, Zenon
<1>6. CASE \E x \in Paths : UserCreates(x)
  BY <1>6, UserStep, Zenon
<1> QED
  BY <1>1, <1>2, <1>3, <1>4, <1>5, <1>6, Zenon DEF Next

-----------------------------------------------------------------------------
(* The theorems.                                                           *)

(* The invariant holds whatever the runs, the network, the disk and other  *)
(* programs do (flickcli Send and Open).                                   *)
THEOREM Invariance == Spec => []Inv
BY InitInv, StepInv, PTL DEF Spec

(* The state of the client and the server stays within its types; the path *)
(* a run holds is one placeFile tries.                                     *)
THEOREM Typed == Spec => []TypeOK
<1>1. Inv => TypeOK
  <2> SUFFICES ASSUME Inv PROVE TypeOK
    OBVIOUS
  <2>1. StateInv
    BY DEF Inv
  <2>2. \A s \in Secrets :
          /\ secret[s].kind \in {"text", "file"}
          /\ secret[s].model \in {"passphrase", "link-key"}
          /\ secret[s].status \in {"absent", "pending", "uploaded", "active", "consumed", "gone"}
          /\ secret[s].by \in Openers \cup {Nobody}
    BY <2>1 DEF StateInv, SecretRow, Statuses
  <2>3. \A p \in Openers :
          /\ op[p].at \in {"idle"} \cup Underway \cup Ended
          /\ op[p].link \in Secrets /\ op[p].output \in BOOLEAN
          /\ op[p].path \in Paths
    BY <2>1 DEF StateInv, Opening
  <2>4. \A x \in Paths :
          /\ fs[x].by \in Openers \cup {User, Nobody}
          /\ fs[x].what \in {"none", "empty", "partial", "whole"}
          /\ (fs[x].by = Nobody) <=> (fs[x].what = "none")
    BY <2>1, CommandLineAssumption DEF StateInv, File
  <2> QED
    BY <2>1, <2>2, <2>3, <2>4, Zenon DEF TypeOK, StateInv
<1> QED
  BY <1>1, Invariance, PTL

(* A consumed secret is lost only to a fault no client survives, and the   *)
(* path that Open names to the user holds a whole copy.                    *)
THEOREM NoPayloadLost == Spec => []PayloadSurvives
<1>1. Inv => PayloadSurvives
  <2> SUFFICES ASSUME Inv, NEW p \in Openers
               PROVE  /\ \A s \in Secrets : secret[s].by = p => p \in fault \/ Survives(p)
                      /\ op[p].at \in {"saved", "savedTwice"} =>
                            fs[op[p].path] = [by |-> p, what |-> "whole"]
                      /\ op[p].at \in {"rescued", "savedTwice"} => staging[p] = "whole"
    BY DEF PayloadSurvives
  <2>1. OpenerInv(p) /\ op[p] \in Opening /\ op[p].path \in Paths /\ p # Nobody
    BY OpenerFacts
  <2>2. ASSUME NEW s \in Secrets, secret[s].by = p, p \notin fault
        PROVE  Survives(p)
    <3>1. op[p].link = s
      BY <2>1, <2>2 DEF Inv, SecretInv
    <3>2. op[p].at \notin Before \cup {"lost", "unprinted", "crashed"}
      BY <2>1, <2>2, <3>1 DEF OpenerInv
    <3>3. op[p].at \in {"opened", "write", "decrypt", "printed", "salvaged", "place", "copy",
                        "unstage", "saved", "savedTwice", "rescued"}
      BY <2>1, <3>2 DEF Opening, Underway, Ended, Refusals, Kept, Before
    <3>4. op[p].at = "saved" => fs[op[p].path] = [by |-> p, what |-> "whole"]
      BY <2>1 DEF OpenerInv
    <3>5. op[p].at \in {"place", "copy", "unstage", "rescued", "savedTwice"} =>
             staging[p] = "whole"
      BY <2>1 DEF OpenerInv
    <3> QED
      BY <2>1, <3>3, <3>4, <3>5 DEF Survives
  <2> QED
    BY <2>1, <2>2 DEF OpenerInv
<1> QED
  BY <1>1, Invariance, PTL

(* A failed open leaves neither a staging file nor an empty or partial     *)
(* file (discard, decryptInto).                                            *)
THEOREM NothingLeftBehind == Spec => []FailedOpenLeavesNothing
<1>1. Inv => FailedOpenLeavesNothing
  <2> SUFFICES ASSUME Inv, NEW p \in Openers
               PROVE  /\ op[p].at \in Refusals =>
                            staging[p] = "none" /\ \A x \in Paths : fs[x].by # p
                      /\ op[p].at \in Kept => staging[p] # "partial"
                      /\ \A x \in Paths : (fs[x] = [by |-> p, what |-> "partial"]) =>
                            \/ op[p].at = "crashed"
                            \/ kind(p) = "text" /\ op[p].at \in {"salvaged", "unprinted"}
    BY DEF FailedOpenLeavesNothing
  <2>1. OpenerInv(p) /\ \A x \in Paths : FileInv(x)
    BY OpenerFacts
  <2>2. op[p].at \in Refusals => staging[p] = "none"
    BY <2>1 DEF OpenerInv, Refusals, Before
  <2>3. op[p].at \in Refusals => \A x \in Paths : fs[x].by # p
    BY <2>1 DEF FileInv, Holds, Refusals, Reserving
  <2>4. op[p].at \in Kept => staging[p] # "partial"
    BY <2>1 DEF OpenerInv, Kept
  <2>5. \A x \in Paths : (fs[x] = [by |-> p, what |-> "partial"]) =>
            \/ op[p].at = "crashed"
            \/ kind(p) = "text" /\ op[p].at \in {"salvaged", "unprinted"}
    BY <2>1 DEF FileInv
  <2> QED
    BY <2>2, <2>3, <2>4, <2>5
<1> QED
  BY <1>1, Invariance, PTL

(* A link that is printed is a link the server can open, or could: Send    *)
(* finalizes an upload first.                                              *)
THEOREM PrintedLinksOpen == Spec => []LinkIsOpenable
<1>1. Inv => LinkIsOpenable
  BY DEF Inv, SecretInv, Matches, LinkIsOpenable
<1> QED
  BY <1>1, Invariance, PTL

-----------------------------------------------------------------------------
(* What a step may do to a file that exists.                               *)
Spares(x) ==
    fs[x] # Free /\ fs'[x] # fs[x] =>
        fs[x].by \in Openers /\ fs[x].what # "whole" /\ op'[fs[x].by] # op[fs[x].by]

(* A run that moves may change a file it has only just created.            *)
LEMMA OwnFile ==
    ASSUME Inv, NEW p \in Openers, NEW there \in Underway \cup Ended, Goes(p, there),
           op[p].at # there, NEW x \in Paths,
           \A y \in Paths \ {x} : fs'[y] = fs[y],
           fs[x] = Free \/ fs[x] = [by |-> p, what |-> "empty"]
    PROVE  \A y \in Paths : Spares(y)
<1>1. op'[p].at = there
  BY GoesMoves
<1> QED
  BY <1>1 DEF Spares

LEMMA DiscardOwn ==
    ASSUME Inv, NEW p \in Openers, op[p].at \in {"consume", "opened", "decrypt"},
           fs' = discard(p), NEW there \in Refusals, Goes(p, there)
    PROVE  \A y \in Paths : Spares(y)
<1>1. OpenerInv(p) /\ StateInv /\ Output \in Paths /\ op[p].output \in BOOLEAN
  BY OpenerFacts
<1>2. there \in Underway \cup Ended /\ op[p].at # there
  BY DEF Ended, Refusals
<1>3. CASE op[p].output
  <2>1. fs[Output] = [by |-> p, what |-> "empty"]
    BY <1>1, <1>3 DEF OpenerInv, Reserving
  <2>2. \A y \in Paths \ {Output} : fs'[y] = fs[y]
    BY <1>1 DEF discard, StateInv
  <2> QED
    BY <1>1, <1>2, <2>1, <2>2, OwnFile
<1>4. CASE ~op[p].output
  <2>1. \A y \in Paths : fs'[y] = fs[y]
    BY <1>1, <1>4 DEF discard, StateInv
  <2> QED
    BY <2>1 DEF Spares
<1> QED
  BY <1>3, <1>4

LEMMA StepSpares ==
    ASSUME Inv, [Next]_vars
    PROVE  \A y \in Paths : Spares(y)
<1>1. CASE fs' = fs
  BY <1>1 DEF Spares
<1>2. ASSUME NEW x \in Paths, UserCreates(x) PROVE \A y \in Paths : Spares(y)
  <2>1. fs[x] = Free /\ \A y \in Paths \ {x} : fs'[y] = fs[y]
    BY <1>2 DEF UserCreates, Inv, StateInv
  <2> QED
    BY <2>1 DEF Spares
<1>3. ASSUME NEW p \in Openers, reserveDestination(p), fs' # fs
      PROVE  \A y \in Paths : Spares(y)
  <2>1. StateInv /\ Output \in Paths
    BY OpenerFacts
  <2>2. op[p].at = "reserve" /\ Goes(p, "consume") /\ fs[Output] = Free
        /\ fs' = [fs EXCEPT ![Output] = [by |-> p, what |-> "empty"]]
    BY <1>3 DEF reserveDestination, At
  <2>3. "consume" \in Underway /\ \A y \in Paths \ {Output} : fs'[y] = fs[y]
    BY <2>1, <2>2 DEF StateInv, Underway
  <2> QED
    BY <2>1, <2>2, <2>3, OwnFile
<1>4. ASSUME NEW p \in Openers, fs' # fs,
             \/ OpenRefused(p) \/ OpenSecret(p) \/ UnwrapIdentityFails(p) \/ openText(p)
             \/ stage(p) \/ decryptInto(p)
      PROVE  \A y \in Paths : Spares(y)
  <2>1. op[p].at \in {"consume", "opened", "decrypt"} /\ fs' = discard(p)
        /\ \E there \in Refusals : Goes(p, there)
    BY <1>4 DEF OpenRefused, OpenSecret, UnwrapIdentityFails, openText, stage, decryptInto,
                BodyFails, Lost, At, Refusals
  <2> QED
    BY <2>1, DiscardOwn
<1>5. ASSUME NEW p \in Openers, writeText(p) PROVE \A y \in Paths : Spares(y)
  <2>1. StateInv /\ OpenerInv(p) /\ Output \in Paths
    BY OpenerFacts
  <2>2. op[p].at = "write"
        /\ \E what : fs' = [fs EXCEPT ![Output].what = what]
        /\ \E there \in {"saved", "salvaged", "unprinted"} : Goes(p, there)
    BY <1>5, Zenon DEF writeText, salvage, OnStdout, At
  <2>3. fs[Output] = [by |-> p, what |-> "empty"] /\ \A y \in Paths \ {Output} : fs'[y] = fs[y]
    BY <2>1, <2>2 DEF OpenerInv, Reserving, StateInv
  <2>4. {"saved", "salvaged", "unprinted"} \subseteq Underway \cup Ended
    BY DEF Ended, Kept
  <2> QED
    BY <2>1, <2>2, <2>3, <2>4, OwnFile
<1>6. ASSUME NEW p \in Openers, placeOutput(p), fs' # fs PROVE \A y \in Paths : Spares(y)
  <2>1. StateInv /\ OpenerInv(p) /\ Output \in Paths
    BY OpenerFacts
  <2>2. op[p].at = "place" /\ op[p].output /\ Goes(p, "saved")
        /\ fs' = [fs EXCEPT ![Output] = [by |-> p, what |-> "whole"]]
    BY <1>6 DEF placeOutput, Rescue, At
  <2>3. fs[Output] = [by |-> p, what |-> "empty"] /\ \A y \in Paths \ {Output} : fs'[y] = fs[y]
    BY <2>1, <2>2 DEF OpenerInv, Reserving, StateInv
  <2>4. "saved" \in Underway \cup Ended
    BY DEF Ended, Kept
  <2> QED
    BY <2>1, <2>2, <2>3, <2>4, OwnFile
<1>7. ASSUME NEW p \in Openers, placeFile(p), fs' # fs PROVE \A y \in Paths : Spares(y)
  <2>1. StateInv /\ op[p].path \in Paths
    BY OpenerFacts
  <2>2. op[p].at = "place" /\ fs[op[p].path] = Free
        /\ \E f : fs' = [fs EXCEPT ![op[p].path] = f]
        /\ \E there \in {"unstage", "copy"} : Goes(p, there)
    BY <1>7 DEF placeFile, NameTaken, Rescue, At
  <2>3. \A y \in Paths \ {op[p].path} : fs'[y] = fs[y]
    BY <2>1, <2>2 DEF StateInv
  <2>4. {"unstage", "copy"} \subseteq Underway \cup Ended
    BY DEF Underway
  <2> QED
    BY <2>1, <2>2, <2>3, <2>4, OwnFile, Zenon
<1>8. ASSUME NEW p \in Openers, copyExclusive(p) PROVE \A y \in Paths : Spares(y)
  <2>1. StateInv /\ OpenerInv(p) /\ op[p].path \in Paths
    BY OpenerFacts
  <2>2. op[p].at = "copy" /\ (\E there \in {"unstage", "rescued"} : Goes(p, there))
        /\ \/ fs' = [fs EXCEPT ![op[p].path].what = "whole"]
           \/ fs' = [fs EXCEPT ![op[p].path] = Free]
    BY <1>8 DEF copyExclusive, At
  <2>3. fs[op[p].path] = [by |-> p, what |-> "empty"]
        /\ \A y \in Paths \ {op[p].path} : fs'[y] = fs[y]
    BY <2>1, <2>2 DEF OpenerInv, StateInv
  <2>4. {"unstage", "rescued"} \subseteq Underway \cup Ended
    BY DEF Underway, Ended, Kept
  <2> QED
    BY <2>1, <2>2, <2>3, <2>4, OwnFile
<1>9. ASSUME NEW p \in Openers, Killed(p), fs' # fs PROVE \A y \in Paths : Spares(y)
  <2>1. StateInv /\ OpenerInv(p) /\ op[p].path \in Paths /\ Output \in Paths
    BY OpenerFacts
  <2>2. Goes(p, "crashed") /\ "crashed" \in Underway \cup Ended /\ "crashed" \notin Underway
        /\ op[p].at \in Underway
    BY <1>9 DEF Killed, Ended, Underway
  <2>3. CASE op[p].at = "write" /\ \E what : fs' = [fs EXCEPT ![Output].what = what]
    <3>1. fs[Output] = [by |-> p, what |-> "empty"] /\ \A y \in Paths \ {Output} : fs'[y] = fs[y]
      BY <2>1, <2>3 DEF OpenerInv, Reserving, StateInv
    <3> QED
      BY <2>1, <2>2, <3>1, OwnFile
  <2>4. CASE op[p].at = "copy" /\ \E what : fs' = [fs EXCEPT ![op[p].path].what = what]
    <3>1. fs[op[p].path] = [by |-> p, what |-> "empty"]
          /\ \A y \in Paths \ {op[p].path} : fs'[y] = fs[y]
      BY <2>1, <2>4 DEF OpenerInv, StateInv
    <3> QED
      BY <2>1, <2>2, <3>1, OwnFile
  <2> QED
    BY <1>9, <2>3, <2>4, Zenon DEF Killed, At
<1>10. \/ fs' = fs
       \/ \E x \in Paths : UserCreates(x)
       \/ \E p \in Openers :
             \/ reserveDestination(p) \/ OpenRefused(p) \/ OpenSecret(p)
             \/ UnwrapIdentityFails(p) \/ openText(p) \/ writeText(p) \/ stage(p)
             \/ decryptInto(p) \/ placeOutput(p) \/ placeFile(p) \/ copyExclusive(p)
             \/ Killed(p)
  BY DEF Next, vars, runSend, Seal, Create, Upload, FinalizeSecret, PrintLink, SecretEnds,
         Start, SecretMetadata, Unlock, removeStaged
<1> QED
  BY <1>1, <1>2, <1>3, <1>4, <1>5, <1>6, <1>7, <1>8, <1>9, <1>10, Zenon

(* No step of Send, Open or a crash changes a file of the user, of another *)
(* run, or one that is whole (O_EXCL, link).                               *)
THEOREM FilesAreSafe == Spec => NothingOverwritten
<1>1. Inv /\ [Next]_vars =>
         [\A x \in Paths : fs[x] # Free /\ fs'[x] # fs[x] =>
             /\ fs[x].by \in Openers
             /\ fs[x].what # "whole"
             /\ op'[fs[x].by] # op[fs[x].by]]_vars
  BY StepSpares DEF Spares
<1> QED
  BY <1>1, Invariance, PTL DEF Spec, NothingOverwritten
=============================================================================
