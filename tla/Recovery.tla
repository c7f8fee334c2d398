-------------------------------- MODULE Recovery --------------------------------
(***************************************************************************)
(* What outlives the enclave: its disk lives in memory, an encrypted copy  *)
(* of it goes to the parent at an orderly shutdown, and the key of the     *)
(* copy goes to keycrux services while the enclave runs (src/enclave.sh,   *)
(* enclave-recover.sh, enclave-disk-setup.sh, enclave-backup.sh,           *)
(* src/src/cli/index.ts, src/src/modules/keycrux-client.ts,                *)
(* src/src/parent/index.ts).                                               *)
(*                                                                         *)
(* A key is the number of the fresh start that generated it, 0 is no key.  *)
(* What a disk holds is the number of the last write to it, 0 when it was  *)
(* just formatted.  The scripts stop at the first error (set -e), and the  *)
(* virtual machine with them.                                              *)
(***************************************************************************)
EXTENDS Naturals

CONSTANTS
  Services,        \* the keycrux services
  MissingAnswers,  \* what has_backup may report when there is no backup:
                   \* "false", which enclave-recover.sh expects, or "error"
  MaxKeys,         \* bound: fresh starts
  MaxWrites,       \* bound: writes to the disk
  MaxFaults,       \* bound: crashes and failing calls
  MaxLosses        \* bound: keys expired, backups deleted by the operator

ASSUME AnswerAssumption == MissingAnswers \subseteq {"false", "error"}
ASSUME BoundAssumption ==
  /\ MaxKeys \in Nat /\ MaxWrites \in Nat /\ MaxFaults \in Nat
  /\ MaxLosses \in Nat

VARIABLES
  pc,      \* the enclave: "off", "check", "key", "open", "running", "stopping",
           \* "stream"
  age,     \* the key in age.key
  disk,    \* what /run/disk.img holds
  file,    \* the parent's disk.img.age: [key, disk, whole]
  store,   \* store[s]: the key service s keeps
  made, writes, faults, losses,
  saved    \* saved[k]: what the last finished backup under key k held

enclave == <<pc, age, disk>>
bounds  == <<made, writes, faults, losses>>
vars    == <<enclave, file, store, bounds, saved>>

Keys   == 1..MaxKeys
NoFile == [key |-> 0, disk |-> 0, whole |-> FALSE]
Phases == {"off", "check", "key", "open", "running", "stopping", "stream"}

Init ==
  /\ pc = "off" /\ age = 0 /\ disk = 0 /\ file = NoFile
  /\ store = [s \in Services |-> 0] /\ made = 0 /\ writes = 0 /\ faults = 0
  /\ losses = 0 /\ saved = [k \in Keys |-> 0]

Fault   == faults < MaxFaults /\ faults' = faults + 1 /\ UNCHANGED <<made, writes, losses>>
NoFault == UNCHANGED bounds

\* The virtual machine ends and its memory with it.
PowerOff == pc' = "off" /\ age' = 0 /\ disk' = 0
-----------------------------------------------------------------------------
(* Booting                                                                 *)

\* nitro-cli run-enclave; enclave.sh gets to enclave-recover.sh
Launch ==
  /\ pc = "off" /\ pc' = "check"
  /\ UNCHANGED <<age, disk, file, store, saved>> /\ NoFault

\* The parent's hasBackup looks for the file, not into it.
HasBackup == IF file # NoFile THEN {"true"} ELSE MissingAnswers

Found ==
  /\ pc = "check" /\ "true" \in HasBackup /\ pc' = "key"
  /\ UNCHANGED <<age, disk, file, store, saved>> /\ NoFault

\* enclave-disk-setup.sh formats a disk unless there is one, enclave.sh goes on
Mount(d) == pc' = "running" /\ disk' = d

\* Mutation: a check that fails is taken for "false".
StartsFresh_Unchecked == pc = "check"
StartsFresh == pc = "check" /\ "false" \in HasBackup
Fresh ==
  /\ StartsFresh /\ made < MaxKeys /\ made' = made + 1
  /\ age' = made + 1 /\ Mount(0)
  /\ UNCHANGED <<file, store, writes, faults, losses, saved>>

\* The call fails (or its reply does): set -e, pipefail.
CheckFails ==
  /\ pc = "check" /\ PowerOff
  /\ \/ "error" \in HasBackup /\ NoFault
     \/ Fault
  /\ UNCHANGED <<file, store, saved>>

\* Mutation: every service has to answer (Promise.all).
Offers_All(s) == \A t \in Services : store[t] # 0
\* getKey prints the first key it was given: any service may be first.
Offers(s) == store[s] # 0
GetKey(s) ==
  /\ pc = "key" /\ Offers(s) /\ age' = store[s] /\ pc' = "open"
  /\ UNCHANGED <<disk, file, store, saved>> /\ NoFault

\* No service is found, or none gives a key.
NoKey ==
  /\ pc = "key" /\ PowerOff
  /\ \/ (\A s \in Services : store[s] = 0) /\ NoFault
     \/ Fault
  /\ UNCHANGED <<file, store, saved>>

\* Mutation: the status of the pipe is not looked at.
Decrypts_Any == TRUE
\* age needs the key of the file and all of it.
Decrypts == file.whole /\ file.key = age
Open ==
  /\ pc = "open"
  /\ \/ Decrypts /\ Mount(IF file.whole THEN file.disk ELSE 0) /\ UNCHANGED age
        /\ NoFault
     \/ ~Decrypts /\ PowerOff /\ NoFault
     \/ PowerOff /\ Fault
  /\ UNCHANGED <<file, store, saved>>
-----------------------------------------------------------------------------
(* Running                                                                 *)

\* Containers and the database write to the disk.
Write ==
  /\ pc = "running" /\ writes < MaxWrites
  /\ writes' = writes + 1 /\ disk' = writes + 1
  /\ UNCHANGED <<pc, age, file, store, made, faults, losses, saved>>

\* uploadKeycrux: one service stores the key in place of what it had
Upload(s) ==
  /\ pc = "running" /\ store[s] # age /\ store' = [store EXCEPT ![s] = age]
  /\ UNCHANGED <<enclave, file, saved>> /\ NoFault

\* The containers are down and supervisord has ended (ParentLink's Halt).
Shutdown ==
  /\ pc = "running" /\ pc' = "stopping"
  /\ UNCHANGED <<age, disk, file, store, saved>> /\ NoFault

\* rclone rcat writes over the only copy.
Stream ==
  /\ pc = "stopping" /\ pc' = "stream"
  /\ file' = [key |-> age, disk |-> disk, whole |-> FALSE]
  /\ UNCHANGED <<age, disk, store, saved>> /\ NoFault

Streamed == [file EXCEPT !.whole = TRUE]
Finish ==
  /\ pc = "stream" /\ file # NoFile /\ PowerOff
  /\ file' = Streamed /\ saved' = [saved EXCEPT ![age] = disk]
  /\ UNCHANGED store /\ NoFault

\* The connection breaks: rclone leaves a part of the file, or removes it.
Interrupt ==
  /\ pc = "stream" /\ Fault /\ PowerOff
  /\ file' \in {file, NoFile}
  /\ UNCHANGED <<store, saved>>

\* The machine ends at any other time.
Crash ==
  /\ pc \notin {"off", "stream"} /\ Fault /\ PowerOff
  /\ UNCHANGED <<file, store, saved>>
-----------------------------------------------------------------------------
(* The world                                                               *)

Lose == losses < MaxLosses /\ losses' = losses + 1 /\ UNCHANGED <<made, writes, faults>>

\* keycrux forgets a key after a couple of days (README.md:169)
Expire(s) ==
  /\ store[s] # 0 /\ Lose /\ store' = [store EXCEPT ![s] = 0]
  /\ UNCHANGED <<enclave, file, saved>>

\* The operator removes the backup, "if we're debugging and deleted it".
Delete ==
  /\ file # NoFile /\ pc # "stream" /\ Lose /\ file' = NoFile
  /\ UNCHANGED <<enclave, store, saved>>
-----------------------------------------------------------------------------
Boot == \/ Launch \/ Found \/ Fresh \/ CheckFails \/ NoKey \/ Open
        \/ \E s \in Services : GetKey(s)
Backup == Stream \/ Finish
Next == \/ Boot \/ Backup \/ Write \/ Shutdown \/ Interrupt \/ Crash \/ Delete
        \/ \E s \in Services : Upload(s) \/ Expire(s)
Spec == Init /\ [][Next]_vars

\* The operator launches the enclave again, each step of a boot is taken (every
\* one of them has a timeout) and a backup that was begun goes on.
FairSpec == Spec /\ WF_vars(Boot) /\ WF_vars(Backup)
-----------------------------------------------------------------------------
TypeOK ==
  /\ pc \in Phases /\ age \in 0..MaxKeys /\ disk \in Nat
  /\ file \in [key : 0..MaxKeys, disk : Nat, whole : BOOLEAN]
  /\ store \in [Services -> 0..MaxKeys] /\ made \in 0..MaxKeys
  /\ writes \in Nat /\ faults \in Nat /\ losses \in Nat
  /\ saved \in [Keys -> Nat]

\* Phases in which the enclave has a disk.
Active == pc \in {"running", "stopping", "stream"}

\* However boots, backups and their failures follow each other, an enclave that
\* holds a key works on a disk at least as new as the last backup finished
\* under that key: a boot opens the newest disk or none (enclave-recover.sh,
\* 43-57).
NoRollback == Active => age \in Keys /\ disk >= saved[age]

\* A backup that is whole is the newest one finished under its key.
NewestBackup == file.whole => file.key \in Keys /\ saved[file.key] = file.disk

\* While an enclave runs, a backup at the parent is one its own key opens: it
\* may be written over.
OwnBackup == Active /\ file # NoFile => file.key = age

\* What makes them inductive: keys not generated yet have saved nothing, keys in
\* use were generated, and writes are numbered in order.
Generated ==
  /\ age <= made /\ file.key <= made /\ \A s \in Services : store[s] <= made
  /\ \A k \in Keys : saved[k] <= writes /\ (k > made => saved[k] = 0)
  /\ disk <= writes

\* What is being streamed is the disk of the enclave.
Streaming == pc = "stream" => file = [key |-> age, disk |-> disk, whole |-> FALSE]

IInv == TypeOK /\ NoRollback /\ NewestBackup /\ OwnBackup /\ Generated /\ Streaming

\* The comment at enclave-recover.sh:20 tells of a boot that took a failed
\* check for a missing backup and uploaded a new key over the old one.  No step
\* replaces a service's key that opens the backup by another key.
KeysNotOverridden ==
  [][\A s \in Services :
       file.whole /\ store[s] = file.key => store'[s] \in {file.key, 0}]_vars

\* A whole backup whose key some service keeps, and no service another key
\* (0 means none), is opened by some later boot, or loses that.
Recoverable ==
  /\ file.whole /\ \E s \in Services : store[s] = file.key
  /\ \A s \in Services : store[s] \in {0, file.key}
OpensAgain == Recoverable ~> (pc = "running" \/ ~Recoverable)
=============================================================================
