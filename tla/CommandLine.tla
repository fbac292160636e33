---------------------------- MODULE CommandLine -----------------------------
(***************************************************************************)
(* The command-line client: flick send, which seals a payload, creates the *)
(* secret and prints its link, and flick open, which consumes the secret   *)
(* and puts the plaintext where the user asked for it.                     *)
(*                                                                         *)
(* Several runs share a directory and a link.  The server is reduced to    *)
(* its contract: an open of an active secret consumes it.  Any request may *)
(* fail before the server sees it, and any answer may be lost after the    *)
(* server acted on it.  Any local file operation may fail; a removal that  *)
(* the code does not check succeeds.                                       *)
(***************************************************************************)
EXTENDS Integers, FiniteSets, TLC

CONSTANTS
    Secrets,     \* secrets, each sent by one run of flick send
    Openers,     \* runs of flick open
    User,        \* the owner of the files that are not the client's
    Nobody,      \* the owner of a path where there is no file
    MaxAttempts  \* names placeFile tries: the decrypted name and its numbered forms

ASSUME CommandLineAssumption ==
    /\ MaxAttempts \in Nat \ {0}
    /\ User \notin Openers /\ Nobody \notin Openers \cup {User}

VARIABLES
    secret,  \* each secret as the server has it
    send,    \* where each flick send is
    op,      \* each flick open
    fs,      \* the files at the paths the runs may write
    staging, \* the .flick-partial file of each opener
    fault    \* history: openers hit, after the consuming open, by what no client survives

vars == <<secret, send, op, fs, staging, fault>>

(* Path 0 is the path of -output; path i is the i-th name placeFile tries. *)
Output == 0
Paths == 0 .. MaxAttempts

Free == [by |-> Nobody, what |-> "none"]

Refusals == {"refused", "lost"}
Kept == {"printed", "saved", "savedTwice", "rescued", "salvaged"}
Ended == Refusals \cup Kept \cup {"unprinted", "crashed"}
Underway == {"probe", "unlock", "reserve", "consume", "opened", "write", "decrypt",
             "place", "copy", "unstage"}

TypeOK ==
    /\ \A s \in Secrets :
          /\ secret[s].kind \in {"text", "file"}
          /\ secret[s].model \in {"passphrase", "link-key"}
          /\ secret[s].status \in {"absent", "pending", "uploaded", "active", "consumed", "gone"}
          /\ secret[s].by \in Openers \cup {Nobody}
    /\ send \in [Secrets -> {"idle", "ready", "sealed", "upload", "finalize", "created",
                          "printed", "failed"}]
    /\ \A p \in Openers :
          /\ op[p].at \in {"idle"} \cup Underway \cup Ended
          /\ op[p].link \in Secrets /\ op[p].output \in BOOLEAN
          /\ op[p].path \in Paths
    /\ \A x \in Paths :
          /\ fs[x].by \in Openers \cup {User, Nobody}
          /\ fs[x].what \in {"none", "empty", "partial", "whole"}
          /\ (fs[x].by = Nobody) <=> (fs[x].what = "none")
    /\ staging \in [Openers -> {"none", "partial", "whole"}]
    /\ fault \in SUBSET Openers

Init ==
    /\ secret \in [Secrets -> {[kind |-> k, model |-> m, status |-> "absent", by |-> Nobody] :
                                  k \in {"text", "file"}, m \in {"passphrase", "link-key"}}]
    /\ send = [s \in Secrets |-> "idle"]
    /\ op \in [Openers -> {[at |-> "idle", link |-> s, output |-> o, path |-> Output] :
                              s \in Secrets, o \in BOOLEAN}]
    /\ fs = [x \in Paths |-> Free]
    /\ staging = [p \in Openers |-> "none"]
    /\ fault = {}

-----------------------------------------------------------------------------
(* flick send.                                                             *)

(* A request that fails, or that the server refuses: nothing more is done. *)
SendFails(s) == send' = [send EXCEPT ![s] = "failed"] /\ UNCHANGED secret

(* runSend collects the text or opens the file, and asks for what is       *)
(* missing.                                                                *)
runSend(s) ==
    /\ send[s] = "idle"
    /\ \E next \in {"ready", "failed"} : send' = [send EXCEPT ![s] = next]
    /\ UNCHANGED <<secret, op, fs, staging, fault>>

(* The options are valid and the payload is within the limits of           *)
(* /api/config; a file is sealed into a temporary file.                    *)
Seal(s) ==
    /\ send[s] = "ready"
    /\ \E next \in {"sealed", "failed"} : send' = [send EXCEPT ![s] = next]
    /\ UNCHANGED <<secret, op, fs, staging, fault>>

(* CreateSecret.  A file above the inline limit is created without its     *)
(* body, and waits for the upload.  The answer may carry no upload URL, or *)
(* be lost.                                                                *)
Create(s) ==
    /\ send[s] = "sealed"
    /\ \/ SendFails(s)
       \/ \E next \in {"created", "failed"} :
             /\ secret' = [secret EXCEPT ![s].status = "active"]
             /\ send' = [send EXCEPT ![s] = next]
       \/ \E next \in {"upload", "failed"} :
             /\ secret[s].kind = "file"
             /\ secret' = [secret EXCEPT ![s].status = "pending"]
             /\ send' = [send EXCEPT ![s] = next]
    /\ UNCHANGED <<op, fs, staging, fault>>

(* Mutant: an uploaded body is not finalized.                              *)
Upload_IsEnough(s) ==
    /\ send[s] = "upload"
    /\ \/ SendFails(s)
       \/ \E next \in {"created", "failed"} :
             /\ secret' = [secret EXCEPT ![s].status = IF @ = "pending" THEN "uploaded" ELSE @]
             /\ send' = [send EXCEPT ![s] = next]
    /\ UNCHANGED <<op, fs, staging, fault>>

(* The presigned PUT; the bucket takes it whatever became of the secret.   *)
Upload(s) ==
    /\ send[s] = "upload"
    /\ \/ SendFails(s)
       \/ \E next \in {"finalize", "failed"} :
             /\ secret' = [secret EXCEPT ![s].status = IF @ = "pending" THEN "uploaded" ELSE @]
             /\ send' = [send EXCEPT ![s] = next]
    /\ UNCHANGED <<op, fs, staging, fault>>

(* FinalizeSecret: the server activates a secret whose upload it finds.    *)
FinalizeSecret(s) ==
    /\ send[s] = "finalize"
    /\ \/ SendFails(s)
       \/ \E next \in {"created", "failed"} :
             /\ secret[s].status = "uploaded"
             /\ secret' = [secret EXCEPT ![s].status = "active"]
             /\ send' = [send EXCEPT ![s] = next]
    /\ UNCHANGED <<op, fs, staging, fault>>

(* The link is built and printed.                                          *)
PrintLink(s) ==
    /\ send[s] = "created"
    /\ send' = [send EXCEPT ![s] = "printed"]
    /\ UNCHANGED <<secret, op, fs, staging, fault>>

(* The secret expires, or is revoked, or its pending upload is given up.   *)
SecretEnds(s) ==
    /\ secret[s].status \in {"pending", "uploaded", "active"}
    /\ secret' = [secret EXCEPT ![s].status = "gone"]
    /\ UNCHANGED <<send, op, fs, staging, fault>>

-----------------------------------------------------------------------------
(* flick open, up to the consuming open.                                   *)

At(p, here) == op[p].at = here
Goes(p, there) == op' = [op EXCEPT ![p].at = there]
kind(p) == secret[op[p].link].kind
model(p) == secret[op[p].link].model

(* discard: the file reserved for -output is removed.                      *)
discard(p) == [fs EXCEPT ![Output] = IF op[p].output THEN Free ELSE @]

(* The link reaches a recipient once it is printed.                        *)
Start(p) ==
    /\ At(p, "idle")
    /\ send[op[p].link] = "printed"
    /\ Goes(p, "probe")
    /\ UNCHANGED <<secret, send, fs, staging, fault>>

SecretMetadata(p) ==
    /\ At(p, "probe")
    /\ \/ Goes(p, "refused")
       \/ secret[op[p].link].status = "active" /\ Goes(p, "unlock")
    /\ UNCHANGED <<secret, send, fs, staging, fault>>

(* The passphrase prompt, the identity of the link, and for a text the     *)
(* inline limit: each may refuse.                                          *)
Unlock(p) ==
    /\ At(p, "unlock")
    /\ \E next \in {"refused", "reserve"} : Goes(p, next)
    /\ UNCHANGED <<secret, send, fs, staging, fault>>

(* Mutant: an existing file is truncated.                                  *)
reserveDestination_Truncates(p) ==
    /\ At(p, "reserve")
    /\ \/ Goes(p, "refused") /\ UNCHANGED fs
       \/ /\ op[p].output
          /\ fs' = [fs EXCEPT ![Output] = [by |-> p, what |-> "empty"]]
          /\ Goes(p, "consume")
       \/ ~op[p].output /\ Goes(p, "consume") /\ UNCHANGED fs
    /\ UNCHANGED <<secret, send, staging, fault>>

(* The path of -output is created exclusively.  Without -output a file's   *)
(* directory is probed, and a text needs nothing.  The probe's own file is *)
(* made and removed within the step and is not in fs: if its removal fails *)
(* the run is refused and that empty file stays.                           *)
reserveDestination(p) ==
    /\ At(p, "reserve")
    /\ \/ /\ op[p].output \/ kind(p) = "file"
          /\ Goes(p, "refused")
          /\ UNCHANGED fs
       \/ /\ op[p].output
          /\ fs[Output] = Free
          /\ fs' = [fs EXCEPT ![Output] = [by |-> p, what |-> "empty"]]
          /\ Goes(p, "consume")
       \/ ~op[p].output /\ Goes(p, "consume") /\ UNCHANGED fs
    /\ UNCHANGED <<secret, send, staging, fault>>

(* OpenSecret fails and the server keeps the secret: it was not reached,   *)
(* the secret is no longer active, or the passphrase is wrong.             *)
OpenRefused(p) ==
    /\ At(p, "consume")
    /\ fs' = discard(p)
    /\ Goes(p, "refused")
    /\ UNCHANGED <<secret, send, staging, fault>>

(* The plaintext is gone: the answer or the body did not arrive whole, or  *)
(* could not be stored while it arrived.                                   *)
Lost(p) ==
    /\ fs' = discard(p)
    /\ Goes(p, "lost")
    /\ fault' = fault \cup {p}

(* The server consumes the secret.  The answer, or a header of it, may     *)
(* never arrive.                                                           *)
OpenSecret(p) ==
    /\ At(p, "consume")
    /\ secret[op[p].link].status = "active"
    /\ secret' = [secret EXCEPT ![op[p].link].status = "consumed", ![op[p].link].by = p]
    /\ \/ Goes(p, "opened") /\ UNCHANGED <<fs, fault>>
       \/ Lost(p)
    /\ UNCHANGED <<send, staging>>

-----------------------------------------------------------------------------
(* flick open, after the consuming open.                                   *)

(* A body that is not exactly as long as announced, or that does not       *)
(* decrypt.                                                                *)
BodyFails(p) == Lost(p)

(* The text is written to stdout, where it may be lost for good.           *)
OnStdout(p, end) ==
    \/ Goes(p, end) /\ UNCHANGED fault
    \/ Goes(p, "unprinted") /\ fault' = fault \cup {p}

(* The wrapped identity of a passphrase secret is missing or damaged.      *)
UnwrapIdentityFails(p) ==
    /\ At(p, "opened")
    /\ model(p) = "passphrase"
    /\ Lost(p)
    /\ UNCHANGED <<secret, send, staging>>

(* openText: the body is decrypted in memory.  Without -output it is       *)
(* printed.                                                                *)
openText(p) ==
    /\ At(p, "opened")
    /\ kind(p) = "text"
    /\ \/ BodyFails(p)
       \/ op[p].output /\ Goes(p, "write") /\ UNCHANGED <<fs, fault>>
       \/ ~op[p].output /\ OnStdout(p, "printed") /\ UNCHANGED fs
    /\ UNCHANGED <<secret, send, staging>>

(* What the user gets of a text that could not be written.                 *)
salvage(p) == OnStdout(p, "salvaged")

(* writeText into the reserved file.  When it fails the file keeps what    *)
(* was written.                                                            *)
writeText(p) ==
    /\ At(p, "write")
    /\ \E what \in {"empty", "partial", "whole"} :
          /\ fs' = [fs EXCEPT ![Output].what = what]
          /\ \/ what = "whole" /\ Goes(p, "saved") /\ UNCHANGED fault
             \/ salvage(p)
    /\ UNCHANGED <<secret, send, staging>>

(* stage: the staging file is created beside the destination.              *)
stage(p) ==
    /\ At(p, "opened")
    /\ kind(p) = "file"
    /\ \/ /\ staging' = [staging EXCEPT ![p] = "partial"]
          /\ Goes(p, "decrypt")
          /\ UNCHANGED <<fs, fault>>
       \/ Lost(p) /\ UNCHANGED staging
    /\ UNCHANGED <<secret, send>>

(* Mutant: the staging file of a failed download stays.                    *)
decryptInto_KeepsPartial(p) ==
    /\ At(p, "decrypt")
    /\ \/ /\ staging' = [staging EXCEPT ![p] = "whole"]
          /\ op' = [op EXCEPT ![p].at = "place", ![p].path = IF op[p].output THEN Output ELSE 1]
          /\ UNCHANGED <<fs, fault>>
       \/ BodyFails(p) /\ UNCHANGED staging
    /\ UNCHANGED <<secret, send>>

(* decryptInto: a body cut short or altered, an interrupt, a full disk     *)
(* leave nothing behind.                                                   *)
decryptInto(p) ==
    /\ At(p, "decrypt")
    /\ \/ /\ staging' = [staging EXCEPT ![p] = "whole"]
          /\ op' = [op EXCEPT ![p].at = "place", ![p].path = IF op[p].output THEN Output ELSE 1]
          /\ UNCHANGED <<fs, fault>>
       \/ BodyFails(p) /\ staging' = [staging EXCEPT ![p] = "none"]
    /\ UNCHANGED <<secret, send>>

-----------------------------------------------------------------------------
(* place: the staging file is moved to its destination.                    *)

(* Mutant: a payload that cannot be placed is removed.                     *)
Rescue_Removes(p) ==
    /\ staging' = [staging EXCEPT ![p] = "none"]
    /\ Goes(p, "rescued")
    /\ UNCHANGED fs

(* The staging file is kept and named to the user.                         *)
Rescue(p) ==
    /\ Goes(p, "rescued")
    /\ UNCHANGED <<fs, staging>>

(* The rename replaces the reserved file; the close or the rename may fail *)
(* first.                                                                  *)
placeOutput(p) ==
    /\ At(p, "place")
    /\ op[p].output
    /\ \/ /\ fs' = [fs EXCEPT ![Output] = [by |-> p, what |-> "whole"]]
          /\ staging' = [staging EXCEPT ![p] = "none"]
          /\ Goes(p, "saved")
       \/ Rescue(p)
    /\ UNCHANGED <<secret, send, fault>>

(* Mutant: one name too many is tried.                                     *)
NameTaken_OneMore(p) ==
    /\ fs[op[p].path] # Free
    /\ \/ /\ op[p].path <= MaxAttempts
          /\ op' = [op EXCEPT ![p].path = @ + 1]
          /\ UNCHANGED <<fs, staging>>
       \/ op[p].path > MaxAttempts /\ Rescue(p)

(* Neither the link nor the exclusive copy takes a name in use.            *)
NameTaken(p) ==
    /\ fs[op[p].path] # Free
    /\ \/ /\ op[p].path < MaxAttempts
          /\ op' = [op EXCEPT ![p].path = @ + 1]
          /\ UNCHANGED <<fs, staging>>
       \/ op[p].path = MaxAttempts /\ Rescue(p)

(* One attempt of placeFile: a hard link, or where there are none the      *)
(* start of a copy, into a file that did not exist.                        *)
placeFile(p) ==
    /\ At(p, "place")
    /\ ~op[p].output
    /\ \/ NameTaken(p)
       \/ /\ fs[op[p].path] = Free
          /\ \E made \in {<<"whole", "unstage">>, <<"empty", "copy">>} :
                /\ fs' = [fs EXCEPT ![op[p].path] = [by |-> p, what |-> made[1]]]
                /\ Goes(p, made[2])
          /\ UNCHANGED staging
       \/ Rescue(p)
    /\ UNCHANGED <<secret, send, fault>>

(* The copy ends: complete; failed and removed; or complete, with a failed *)
(* close that keeps both files.                                            *)
copyExclusive(p) ==
    /\ At(p, "copy")
    /\ \E end \in {"unstage", "rescued"} :
          /\ \/ fs' = [fs EXCEPT ![op[p].path].what = "whole"]
             \/ end = "rescued" /\ fs' = [fs EXCEPT ![op[p].path] = Free]
          /\ Goes(p, end)
    /\ UNCHANGED <<secret, send, staging, fault>>

(* The staging name is removed, or reported when it cannot be.             *)
removeStaged(p) ==
    /\ At(p, "unstage")
    /\ \/ staging' = [staging EXCEPT ![p] = "none"] /\ Goes(p, "saved")
       \/ UNCHANGED staging /\ Goes(p, "savedTwice")
    /\ UNCHANGED <<secret, send, fs, fault>>

-----------------------------------------------------------------------------
(* The environment.                                                        *)

(* The process is killed; a file it was writing keeps what was written.    *)
Killed(p) ==
    /\ op[p].at \in Underway
    /\ Goes(p, "crashed")
    /\ fault' = IF secret[op[p].link].by = p THEN fault \cup {p} ELSE fault
    /\ \/ UNCHANGED fs
       \/ \E what \in {"partial", "whole"} :
             \/ At(p, "write") /\ fs' = [fs EXCEPT ![Output].what = what]
             \/ At(p, "copy") /\ fs' = [fs EXCEPT ![op[p].path].what = what]
    /\ UNCHANGED <<secret, send, staging>>

(* Another program creates a file.                                         *)
UserCreates(x) ==
    /\ fs[x] = Free
    /\ fs' = [fs EXCEPT ![x] = [by |-> User, what |-> "whole"]]
    /\ UNCHANGED <<secret, send, op, staging, fault>>

Next ==
    \/ \E s \in Secrets :
          \/ runSend(s) \/ Seal(s) \/ Create(s) \/ Upload(s) \/ FinalizeSecret(s) \/ PrintLink(s)
          \/ SecretEnds(s)
    \/ \E p \in Openers :
          \/ Start(p) \/ SecretMetadata(p) \/ Unlock(p) \/ reserveDestination(p)
          \/ OpenRefused(p) \/ OpenSecret(p) \/ UnwrapIdentityFails(p) \/ openText(p)
          \/ writeText(p) \/ stage(p) \/ decryptInto(p) \/ placeOutput(p) \/ placeFile(p)
          \/ copyExclusive(p) \/ removeStaged(p) \/ Killed(p)
    \/ \E x \in Paths : UserCreates(x)

Spec == Init /\ [][Next]_vars

-----------------------------------------------------------------------------
(* The plaintext of p's secret is somewhere the user can reach, or still   *)
(* on its way there.                                                       *)
Survives(p) ==
    \/ op[p].at \in {"opened", "write", "decrypt", "printed", "salvaged"}
    \/ staging[p] = "whole"
    \/ \E x \in Paths : fs[x] = [by |-> p, what |-> "whole"]

(* A secret this client consumed is not lost by the client: unless the     *)
(* answer or the body is damaged on its way, the disk fails while the body *)
(* is streamed, stdout is closed or the process is killed, a whole copy    *)
(* exists, whatever names are taken, links are refused or renames fail     *)
(* (Open reserves first; salvage and RescuedPath keep the rest).  And the  *)
(* path a run names to the user holds a whole copy.                        *)
PayloadSurvives ==
    \A p \in Openers :
        /\ \A s \in Secrets : secret[s].by = p => p \in fault \/ Survives(p)
        /\ op[p].at \in {"saved", "savedTwice"} => fs[op[p].path] = [by |-> p, what |-> "whole"]
        /\ op[p].at \in {"rescued", "savedTwice"} => staging[p] = "whole"

(* A run that fails before it has the whole plaintext leaves nothing: no   *)
(* staging file, no empty or partial file where the secret was asked for   *)
(* (discard, and the removal of the staging file).  A run that is over     *)
(* leaves a partial file only if it was killed, or was writing a text it   *)
(* then salvaged.  Outside it: the empty file of a probe, and the empty    *)
(* reservation of a run whose plaintext is whole but was kept in staging.  *)
FailedOpenLeavesNothing ==
    \A p \in Openers :
        /\ op[p].at \in Refusals =>
              staging[p] = "none" /\ \A x \in Paths : fs[x].by # p
        /\ op[p].at \in Kept =>
              staging[p] # "partial"
        /\ \A x \in Paths : (fs[x] = [by |-> p, what |-> "partial"]) =>
              op[p].at = "crashed" \/ (kind(p) = "text" /\ op[p].at \in {"salvaged", "unprinted"})

(* No step changes a file of the user, of another run, or one that is      *)
(* whole (O_EXCL, and a link that fails if the name exists).               *)
NothingOverwritten ==
    [][\A x \in Paths : fs[x] # Free /\ fs'[x] # fs[x] =>
          /\ fs[x].by \in Openers
          /\ fs[x].what # "whole"
          /\ op'[fs[x].by] # op[fs[x].by]]_vars

(* A link is printed only for a secret the server can open, or could: the  *)
(* upload of a large file was finalized before (Send).                     *)
LinkIsOpenable ==
    \A s \in Secrets : send[s] = "printed" => secret[s].status \in {"active", "consumed", "gone"}

Symmetry == Permutations(Secrets) \cup Permutations(Openers)
=============================================================================
