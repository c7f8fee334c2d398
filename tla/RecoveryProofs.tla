----------------------------- MODULE RecoveryProofs -----------------------------
(***************************************************************************)
(* What the scripts keep safe across boots and backups, for any number of  *)
(* services, keys, writes, faults and losses, and whatever has_backup      *)
(* reports when there is no backup.                                        *)
(***************************************************************************)
EXTENDS Recovery, TLAPS

\* A missing file has no key.
LEMMA MissingFile == NoFile.key = 0 /\ NoFile.disk = 0 /\ NoFile.whole = FALSE
  BY DEF NoFile

\* The invariant of a step that ends the enclave and leaves the rest alone.
LEMMA PowerOffKeeps ==
  ASSUME IInv, PowerOff, UNCHANGED <<file, store, saved>>, Fault \/ NoFault
  PROVE  IInv'
<1> USE DEF IInv
<1>1. /\ made' = made /\ writes' = writes /\ losses' = losses /\ faults' \in Nat
  BY DEF Fault, NoFault, bounds, TypeOK
<1>2. TypeOK' BY <1>1, BoundAssumption DEF TypeOK, PowerOff, Phases
<1>3. NoRollback' /\ OwnBackup' /\ Streaming'
  BY DEF NoRollback, OwnBackup, Streaming, Active, PowerOff
<1>4. NewestBackup' BY DEF NewestBackup
<1>5. Generated' BY <1>1 DEF Generated, PowerOff, TypeOK
<1> QED BY <1>2, <1>3, <1>4, <1>5

\* The first machine has nothing to lose.
LEMMA InitIInv == Init => IInv
<1> SUFFICES ASSUME Init PROVE IInv OBVIOUS
<1> USE DEF Init
<1>1. TypeOK BY BoundAssumption DEF TypeOK, Phases, NoFile
<1>2. NoRollback /\ OwnBackup /\ Streaming
  BY DEF NoRollback, OwnBackup, Streaming, Active
<1>3. NewestBackup /\ Generated
  BY DEF NewestBackup, Generated, NoFile
<1> QED BY <1>1, <1>2, <1>3 DEF IInv

\* The steps of a boot before the disk is there change only pc and age.
LEMMA BootKeeps ==
  ASSUME IInv, NoFault, UNCHANGED <<disk, file, store, saved>>,
         pc' \in {"check", "key", "open"}, age' \in 0..MaxKeys, age' <= made
  PROVE  IInv'
<1> USE DEF IInv
<1>1. made' = made /\ writes' = writes /\ losses' = losses /\ faults' = faults
  BY DEF NoFault, bounds
<1>2. TypeOK' BY <1>1 DEF TypeOK, Phases
<1>3. NoRollback' /\ OwnBackup' /\ Streaming'
  BY DEF NoRollback, OwnBackup, Streaming, Active
<1>4. NewestBackup' BY DEF NewestBackup
<1>5. Generated' BY <1>1 DEF Generated
<1> QED BY <1>2, <1>3, <1>4, <1>5

\* A fresh start: no backup is there, and the key is new.
LEMMA FreshKeeps == IInv /\ Fresh => IInv'
<1> SUFFICES ASSUME IInv, Fresh PROVE IInv' OBVIOUS
<1> USE DEF IInv
<1>1. file = NoFile
  BY DEF Fresh, StartsFresh, HasBackup
<1>2. /\ made' = made + 1 /\ age' = made + 1 /\ pc' = "running" /\ disk' = 0
      /\ UNCHANGED <<file, store, writes, faults, losses, saved>>
      /\ made < MaxKeys
  BY DEF Fresh, Mount
<1>3. made + 1 \in Keys /\ made \in Nat /\ made + 1 \in 0..MaxKeys
  BY <1>2, BoundAssumption DEF TypeOK, Keys
<1>4. TypeOK' BY <1>2, <1>3 DEF TypeOK, Phases
<1>5. saved[made + 1] = 0 BY <1>3 DEF Generated
<1>6. NoRollback' BY <1>2, <1>3, <1>5 DEF NoRollback, Active
<1>7. NewestBackup' /\ OwnBackup' /\ Streaming'
  BY <1>1, <1>2, MissingFile DEF NewestBackup, OwnBackup, Streaming
<1>8. Generated'
  <2>1. age' <= made' /\ file'.key <= made' /\ disk' <= writes'
    BY <1>2, <1>3 DEF Generated, TypeOK
  <2>2. \A s \in Services : store'[s] <= made'
    BY <1>2, <1>3 DEF Generated, TypeOK
  <2>3. \A k \in Keys : saved'[k] <= writes' /\ (k > made' => saved'[k] = 0)
    BY <1>2, <1>3 DEF Generated, TypeOK, Keys
  <2> QED BY <2>1, <2>2, <2>3 DEF Generated
<1> QED BY <1>4, <1>6, <1>7, <1>8

\* A boot that opens the backup has all of it.
LEMMA OpenKeeps == IInv /\ Open => IInv'
<1> SUFFICES ASSUME IInv, Open PROVE IInv' OBVIOUS
<1>1. CASE PowerOff /\ (NoFault \/ Fault)
  BY <1>1, PowerOffKeeps DEF Open
<1>2. CASE Decrypts /\ Mount(IF file.whole THEN file.disk ELSE 0)
           /\ UNCHANGED age /\ NoFault
  <2> USE DEF IInv
  <2>1. /\ file.whole /\ file.key = age /\ pc' = "running"
        /\ disk' = file.disk /\ age' = age
        /\ UNCHANGED <<file, store, saved, made, writes, faults, losses>>
    BY <1>2 DEF Open, Decrypts, Mount, NoFault, bounds
  <2>2. age \in Keys /\ saved[age] = file.disk BY <2>1 DEF NewestBackup
  <2>3. TypeOK' BY <2>1 DEF TypeOK, Phases
  <2>4. NoRollback' BY <2>1, <2>2 DEF NoRollback, TypeOK
  <2>5. NewestBackup' /\ OwnBackup' /\ Streaming'
    BY <2>1 DEF NewestBackup, OwnBackup, Streaming
  <2>6. Generated' BY <2>1, <2>2 DEF Generated
  <2> QED BY <2>3, <2>4, <2>5, <2>6
<1> QED BY <1>1, <1>2 DEF Open

\* A backup that is finished becomes the newest of its key.
LEMMA FinishKeeps == IInv /\ Finish => IInv'
<1> SUFFICES ASSUME IInv, Finish PROVE IInv' OBVIOUS
<1> USE DEF IInv
<1>1. /\ pc' = "off" /\ age' = 0 /\ disk' = 0
      /\ saved' = [saved EXCEPT ![age] = disk]
      /\ UNCHANGED <<store, made, writes, faults, losses>>
  BY DEF Finish, PowerOff, NoFault, bounds
<1>2. file = [key |-> age, disk |-> disk, whole |-> FALSE] /\ age \in Keys
  BY DEF Finish, Streaming, NoRollback, Active
<1>3. file' = [key |-> age, disk |-> disk, whole |-> TRUE]
  BY <1>2 DEF Finish, Streamed
<1>4. TypeOK'
  <2>1. saved' \in [Keys -> Nat] BY <1>1, <1>2 DEF TypeOK
  <2>2. file' \in [key : 0..MaxKeys, disk : Nat, whole : BOOLEAN]
    BY <1>3 DEF TypeOK
  <2> QED BY <1>1, <2>1, <2>2, BoundAssumption DEF TypeOK, Phases
<1>5. NoRollback' /\ OwnBackup' /\ Streaming'
  BY <1>1 DEF NoRollback, OwnBackup, Streaming, Active
<1>6. NewestBackup' BY <1>1, <1>2, <1>3 DEF NewestBackup, TypeOK
<1>7. Generated'
  <2>1. \A k \in Keys : saved'[k] <= writes' /\ (k > made' => saved'[k] = 0)
    BY <1>1, <1>2 DEF Generated, TypeOK, Keys
  <2> QED BY <1>1, <1>2, <1>3, <2>1 DEF Generated, TypeOK
<1> QED BY <1>4, <1>5, <1>6, <1>7

\* A running enclave writes, stores its key, stops and begins its backup.
LEMMA RunKeeps ==
  IInv /\ (Write \/ Shutdown \/ Stream \/ \E s \in Services : Upload(s)) => IInv'
<1> SUFFICES ASSUME IInv, Write \/ Shutdown \/ Stream
                          \/ \E s \in Services : Upload(s)
             PROVE IInv'
  OBVIOUS
<1> USE DEF IInv
<1>1. CASE Write
  <2>1. TypeOK' BY <1>1 DEF Write, TypeOK
  <2>2. NoRollback' BY <1>1 DEF Write, NoRollback, Active, Generated, TypeOK
  <2>3. NewestBackup' /\ OwnBackup' /\ Streaming'
    BY <1>1 DEF Write, NewestBackup, OwnBackup, Streaming, Active
  <2>4. Generated' BY <1>1 DEF Write, Generated, TypeOK
  <2> QED BY <2>1, <2>2, <2>3, <2>4
<1>2. CASE Shutdown
  <2>1. TypeOK' BY <1>2 DEF Shutdown, NoFault, bounds, TypeOK, Phases
  <2>2. NoRollback' /\ NewestBackup' /\ OwnBackup' /\ Streaming'
    BY <1>2 DEF Shutdown, NoRollback, NewestBackup, OwnBackup, Streaming, Active
  <2>3. Generated' BY <1>2 DEF Shutdown, NoFault, bounds, Generated
  <2> QED BY <2>1, <2>2, <2>3
<1>3. CASE Stream
  <2>1. TypeOK' BY <1>3 DEF Stream, NoFault, bounds, TypeOK, Phases
  <2>2. NoRollback' /\ NewestBackup' /\ OwnBackup' /\ Streaming'
    BY <1>3 DEF Stream, NoRollback, NewestBackup, OwnBackup, Streaming, Active
  <2>3. Generated' BY <1>3 DEF Stream, NoFault, bounds, Generated
  <2> QED BY <2>1, <2>2, <2>3
<1>4. ASSUME NEW s \in Services, Upload(s) PROVE IInv'
  <2>1. /\ store' = [store EXCEPT ![s] = age] /\ pc = "running"
        /\ UNCHANGED <<enclave, file, saved, made, writes, faults, losses>>
    BY <1>4 DEF Upload, NoFault, bounds
  <2>2. TypeOK' BY <2>1 DEF enclave, TypeOK
  <2>3. NoRollback' /\ NewestBackup' /\ OwnBackup' /\ Streaming'
    BY <2>1 DEF enclave, NoRollback, NewestBackup, OwnBackup, Streaming, Active
  <2>4. Generated' BY <2>1 DEF enclave, Generated, TypeOK
  <2> QED BY <2>2, <2>3, <2>4
<1> QED BY <1>1, <1>2, <1>3, <1>4

\* The world takes keys and the file away, and only whole.
LEMMA WorldKeeps == IInv /\ (Delete \/ \E s \in Services : Expire(s)) => IInv'
<1> SUFFICES ASSUME IInv, Delete \/ \E s \in Services : Expire(s) PROVE IInv'
  OBVIOUS
<1> USE DEF IInv
<1>1. CASE Delete
  <2>1. /\ file' = NoFile /\ losses' \in Nat /\ pc # "stream"
        /\ UNCHANGED <<enclave, store, saved, made, writes, faults>>
    BY <1>1 DEF Delete, Lose, TypeOK
  <2>2. TypeOK' BY <2>1, BoundAssumption DEF enclave, TypeOK, NoFile
  <2>3. NoRollback' /\ NewestBackup' /\ OwnBackup' /\ Streaming'
    BY <2>1, MissingFile
    DEF enclave, NoRollback, NewestBackup, OwnBackup, Streaming, Active
  <2>4. Generated' BY <2>1, MissingFile DEF enclave, Generated, TypeOK
  <2> QED BY <2>2, <2>3, <2>4
<1>2. ASSUME NEW s \in Services, Expire(s) PROVE IInv'
  <2>1. /\ store' = [store EXCEPT ![s] = 0] /\ losses' \in Nat
        /\ UNCHANGED <<enclave, file, saved, made, writes, faults>>
    BY <1>2 DEF Expire, Lose, TypeOK
  <2>2. TypeOK' BY <2>1, BoundAssumption DEF enclave, TypeOK
  <2>3. NoRollback' /\ NewestBackup' /\ OwnBackup' /\ Streaming'
    BY <2>1 DEF enclave, NoRollback, NewestBackup, OwnBackup, Streaming, Active
  <2>4. Generated' BY <2>1 DEF enclave, Generated, TypeOK
  <2> QED BY <2>2, <2>3, <2>4
<1> QED BY <1>1, <1>2

\* An interrupted backup leaves a part of the file, or none.
LEMMA InterruptKeeps == IInv /\ Interrupt => IInv'
<1> SUFFICES ASSUME IInv, Interrupt PROVE IInv' OBVIOUS
<1>1. CASE file' = file BY <1>1, PowerOffKeeps DEF Interrupt
<1>2. CASE file' = NoFile
  <2> USE DEF IInv
  <2>1. /\ pc' = "off" /\ age' = 0 /\ disk' = 0 /\ faults' \in Nat
        /\ UNCHANGED <<store, saved, made, writes, losses>>
    BY DEF Interrupt, PowerOff, Fault, TypeOK
  <2>2. TypeOK' BY <1>2, <2>1, BoundAssumption DEF TypeOK, Phases, NoFile
  <2>3. NoRollback' /\ NewestBackup' /\ OwnBackup' /\ Streaming'
    BY <1>2, <2>1, MissingFile
    DEF NoRollback, NewestBackup, OwnBackup, Streaming, Active
  <2>4. Generated' BY <1>2, <2>1, MissingFile DEF Generated, TypeOK
  <2> QED BY <2>2, <2>3, <2>4
<1> QED BY <1>1, <1>2 DEF Interrupt

\* Every step keeps the invariant.
LEMMA NextIInv == IInv /\ [Next]_vars => IInv'
<1> SUFFICES ASSUME IInv, [Next]_vars PROVE IInv' OBVIOUS
<1>0. CASE UNCHANGED vars
  BY <1>0 DEF vars, enclave, bounds, IInv, TypeOK, NoRollback, NewestBackup,
              OwnBackup, Generated, Streaming, Active
<1>a. age \in 0..MaxKeys /\ age <= made BY DEF IInv, TypeOK, Generated
<1>1. CASE Launch \/ Found BY <1>1, <1>a, BootKeeps DEF Launch, Found
<1>2. CASE Fresh BY <1>2, FreshKeeps
<1>3. CASE CheckFails \/ NoKey BY <1>3, PowerOffKeeps DEF CheckFails, NoKey
<1>4. ASSUME NEW s \in Services, GetKey(s) PROVE IInv'
  <2>1. store[s] \in 0..MaxKeys /\ store[s] <= made
    BY DEF IInv, TypeOK, Generated
  <2> QED BY <1>4, <2>1, BootKeeps DEF GetKey
<1>5. CASE Open BY <1>5, OpenKeeps
<1>6. CASE Write \/ Shutdown \/ Stream \/ \E s \in Services : Upload(s)
  BY <1>6, RunKeeps
<1>7. CASE Finish BY <1>7, FinishKeeps
<1>8. CASE Interrupt BY <1>8, InterruptKeeps
<1>9. CASE Crash BY <1>9, PowerOffKeeps DEF Crash
<1>10. CASE Delete \/ \E s \in Services : Expire(s) BY <1>10, WorldKeeps
<1> QED
  BY <1>0, <1>1, <1>2, <1>3, <1>4, <1>5, <1>6, <1>7, <1>8, <1>9, <1>10
  DEF Next, Boot, Backup

\* Boots, backups and losses keep the invariant of the recovery.
THEOREM RecoveryIsSound == Spec => []IInv
<1>1. Init => IInv BY InitIInv
<1>2. IInv /\ [Next]_vars => IInv' BY NextIInv
<1> QED BY <1>1, <1>2, PTL DEF Spec

\* No boot takes an enclave back behind the last backup it finished.
THEOREM NeverRollsBack == Spec => []NoRollback
<1>1. IInv => NoRollback BY DEF IInv
<1> QED BY <1>1, RecoveryIsSound, PTL

\* The key of a whole backup is never replaced at a service by another one.
THEOREM KeysAreKept == Spec => KeysNotOverridden
<1> DEFINE Kept == \A s \in Services : file.whole /\ store[s] = file.key
                                        => store'[s] \in {file.key, 0}
<1>1. IInv /\ [Next]_vars => [Kept]_vars
  <2> SUFFICES ASSUME IInv, Next, NEW s \in Services, file.whole,
                      store[s] = file.key
               PROVE  store'[s] \in {file.key, 0}
    OBVIOUS
  <2> USE DEF IInv
  <2>1. ASSUME NEW t \in Services, Upload(t) PROVE store'[s] \in {file.key, 0}
    <3>1. file # NoFile BY MissingFile
    <3>2. file.key = age BY <2>1, <3>1 DEF Upload, OwnBackup, Active
    <3> QED BY <2>1, <3>2 DEF Upload, TypeOK
  <2>2. ASSUME NEW t \in Services, Expire(t) PROVE store'[s] \in {file.key, 0}
    BY <2>2 DEF Expire, TypeOK
  <2>3. CASE UNCHANGED store BY <2>3
  <2>4. Boot \/ Backup \/ Write \/ Shutdown \/ Interrupt \/ Crash \/ Delete
          => UNCHANGED store
    BY DEF Boot, Launch, Found, Fresh, CheckFails, NoKey, Open, GetKey, Backup,
           Write, Shutdown, Stream, Finish, Interrupt, Crash, Delete
  <2> QED BY <2>1, <2>2, <2>3, <2>4 DEF Next
<1> QED BY <1>1, RecoveryIsSound, PTL DEF Spec, KeysNotOverridden
=============================================================================
