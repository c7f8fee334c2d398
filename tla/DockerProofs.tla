----------------------------- MODULE DockerProofs -----------------------------
(***************************************************************************)
(* Docker's inductive invariant and what follows from it, for any set of   *)
(* containers, images and paths and any number of faults.  TLC checks the  *)
(* same properties on two containers (MCDocker); that a deployed container *)
(* comes back after a crash (ComesBack) is left to TLC.                    *)
(***************************************************************************)
EXTENDS Docker, TLAPS

\* Two facts about sets, for the removal of the volumes an image has no use for.
LEMMA Emptied == ASSUME NEW A, NEW B, B \subseteq A, A \ B = {} PROVE A = B
  OBVIOUS

LEMMA Removed ==
  ASSUME NEW A, NEW B, B \subseteq A
  PROVE  A \ (A \ B) = B /\ (A \ B) \cap B = {}
  OBVIOUS

\* Every step keeps the types.
LEMMA NextTypeOK == IInv /\ [Next]_vars => TypeOK'
<1> SUFFICES ASSUME IInv, [Next]_vars PROVE TypeOK'
  OBVIOUS
<1> USE ImageAssumption, ContAssumption
    DEF IInv, TypeOK, States, disk, docker, launch, process, bounds
<1>1. CASE Start
  BY <1>1 DEF Start
<1>2. CASE LoadDone
  BY <1>2 DEF LoadDone
<1>3. CASE Save
  BY <1>3 DEF Save, NoTask, Idle
<1>4. CASE Crash
  BY <1>4 DEF Crash, Die, Leave, NoTask, NoHalt, Idle
<1>5. CASE PowerOff
  BY <1>5 DEF PowerOff, Boot, Die, NoTask, NoHalt, Idle
<1>6. ASSUME NEW c \in Conts, Ask(c) PROVE TypeOK'
  BY <1>6 DEF Ask, Look, Launching
<1>7. ASSUME NEW c \in Conts, FetchManifest(c) PROVE TypeOK'
  BY <1>7 DEF FetchManifest, Look, Launching
<1>8. ASSUME NEW c \in Conts, FetchConfig(c) PROVE TypeOK'
  BY <1>8 DEF FetchConfig, Look, Launching
<1>9. ASSUME NEW c \in Conts, Admit(c) PROVE TypeOK'
  BY <1>9 DEF Admit, Look, Launching, Fits
<1>10. ASSUME NEW c \in Conts, Refuse(c) PROVE TypeOK'
  BY <1>10 DEF Refuse, Launching
<1>11. ASSUME NEW c \in Conts, Load(c) PROVE TypeOK'
  BY <1>11 DEF Load, SetState, Command
<1>12. ASSUME NEW c \in Conts, NEW s \in {"deployed", "paused"}, Change(c, s)
      PROVE  TypeOK'
  BY <1>12 DEF Change, SetState, Command
<1>13. ASSUME NEW c \in Conts, Pull(c) PROVE TypeOK'
  BY <1>13 DEF Pull, At, Goto, Outside
<1>14. ASSUME NEW c \in Conts, ListUnused(c) PROVE TypeOK'
  BY <1>14 DEF ListUnused, At, Outside, Unused, Used
<1>15. ASSUME NEW c \in Conts, RemoveVolumes(c) PROVE TypeOK'
  BY <1>15 DEF RemoveVolumes, At, Goto, Outside, InUse, Unused, Used
<1>16. ASSUME NEW c \in Conts, NEW p \in Paths, CreateVolume(c, p) PROVE TypeOK'
  BY <1>16 DEF CreateVolume, At, Outside, Used
<1>17. ASSUME NEW c \in Conts, NEW p \in Paths, RemoveDir(c, p) PROVE TypeOK'
  BY <1>17 DEF RemoveDir, At, Outside, DirsLeft
<1>18. ASSUME NEW c \in Conts, ComposeUp(c) PROVE TypeOK'
  BY <1>18 DEF ComposeUp, At, Goto, Outside
<1>19. ASSUME NEW c \in Conts, ComposeDown(c) PROVE TypeOK'
  BY <1>19 DEF ComposeDown, At, Goto, Outside
<1>20. ASSUME NEW c \in Conts, PullFails(c) PROVE TypeOK'
  BY <1>20 DEF PullFails, Die, At, NoTask, NoHalt
<1>21. ASSUME NEW c \in Conts, RemoveFails(c) PROVE TypeOK'
  BY <1>21 DEF RemoveFails, Die, Leave, At, InUse, NoTask, NoHalt, Unused
<1>22. ASSUME NEW c \in Conts, NEW i \in Images, Push(c, i) PROVE TypeOK'
  BY <1>22 DEF Push
<1>23. ASSUME NEW c \in Conts, NEW p \in Paths, Write(c, p) PROVE TypeOK'
  BY <1>23 DEF Write
<1>24. CASE UNCHANGED vars
  BY <1>24 DEF vars
<1>25. CASE PowerCut
  BY <1>25 DEF PowerCut, Boot, Die, NoTask, NoHalt, Idle
<1>26. CASE HaltFails
  <2>1. halt' = [off |-> halt.off, turned |-> halt.turned, seen |-> Conts,
                 down |-> {}]
    BY <1>26 DEF HaltFails
  <2> QED
    BY <1>26, <2>1 DEF HaltFails, Halting
<1>27. ASSUME NEW R \in SUBSET Conts, Shutdown(R)
      PROVE  TypeOK'
  <2>1. halt' = [off |-> TRUE, turned |-> R, seen |-> {}, down |-> {}]
    BY <1>27 DEF Shutdown, NoHalt
  <2>2. halt' \in [off : BOOLEAN, turned : SUBSET Conts, seen : SUBSET Conts,
                   down : SUBSET Conts]
    BY ONLY <2>1, R \in SUBSET Conts
  <2> QED
    BY <1>27, <2>2 DEF Shutdown
<1>28. ASSUME NEW c \in Conts, Halt(c)
      PROVE  TypeOK'
  BY <1>28 DEF Halt, Halting
<1>29. ASSUME NEW c \in Conts, HaltDown(c)
      PROVE  TypeOK'
  BY <1>29 DEF HaltDown, Halting
<1> HIDE DEF IInv, TypeOK, States
<1> QED
  BY <1>1, <1>2, <1>3, <1>4, <1>5, <1>6, <1>7, <1>8, <1>9, <1>10,
         <1>11, <1>12, <1>13, <1>14, <1>15, <1>16, <1>17, <1>18,
         <1>19, <1>20, <1>21, <1>22, <1>23, <1>24, <1>25, <1>26,
         <1>27, <1>28, <1>29
  DEF Next, Launches, Loop, Step, Dies

\* Every step keeps: only what has a row is loaded, handled or run,
\* and a shutdown takes down what it has gone past.
LEMMA NextRows == IInv /\ [Next]_vars => Rows'
<1> SUFFICES ASSUME IInv, [Next]_vars PROVE Rows'
  OBVIOUS
<1> USE ImageAssumption, ContAssumption
    DEF IInv, TypeOK, States, Rows, Idle, disk, docker, launch,
        process, bounds
<1>1. CASE Start
  BY <1>1 DEF Start
<1>2. CASE LoadDone
  BY <1>2 DEF LoadDone
<1>3. CASE Save
  <2>1. mem[task.cont] # "none"
    BY <1>3 DEF Save, Progress, Working
  <2> QED
    BY <1>3, <2>1 DEF Save, NoTask
<1>4. CASE Crash
  BY <1>4 DEF Crash, Die, Leave, NoTask, NoHalt, Idle
<1>5. CASE PowerOff
  BY <1>5 DEF PowerOff, Boot, Die, NoTask, NoHalt, Idle
<1>6. ASSUME NEW c \in Conts, Ask(c) PROVE Rows'
  BY <1>6 DEF Ask, Look, Launching
<1>7. ASSUME NEW c \in Conts, FetchManifest(c) PROVE Rows'
  BY <1>7 DEF FetchManifest, Look, Launching
<1>8. ASSUME NEW c \in Conts, FetchConfig(c) PROVE Rows'
  BY <1>8 DEF FetchConfig, Look, Launching
<1>9. ASSUME NEW c \in Conts, Admit(c) PROVE Rows'
  BY <1>9 DEF Admit, Look, Launching, Fits
<1>10. ASSUME NEW c \in Conts, Refuse(c) PROVE Rows'
  BY <1>10 DEF Refuse, Launching
<1>11. ASSUME NEW c \in Conts, Load(c) PROVE Rows'
  BY <1>11 DEF Load, SetState, Command
<1>12. ASSUME NEW c \in Conts, NEW s \in {"deployed", "paused"}, Change(c, s)
      PROVE  Rows'
  BY <1>12 DEF Change, SetState, Command
<1>13. ASSUME NEW c \in Conts, Pull(c) PROVE Rows'
  BY <1>13 DEF Pull, At, Goto, Outside
<1>14. ASSUME NEW c \in Conts, ListUnused(c) PROVE Rows'
  BY <1>14 DEF ListUnused, At, Outside, Unused, Used
<1>15. ASSUME NEW c \in Conts, RemoveVolumes(c) PROVE Rows'
  BY <1>15 DEF RemoveVolumes, At, Goto, Outside, InUse, Unused, Used
<1>16. ASSUME NEW c \in Conts, NEW p \in Paths, CreateVolume(c, p) PROVE Rows'
  BY <1>16 DEF CreateVolume, At, Outside, Used
<1>17. ASSUME NEW c \in Conts, NEW p \in Paths, RemoveDir(c, p) PROVE Rows'
  BY <1>17 DEF RemoveDir, At, Outside, DirsLeft
<1>18. ASSUME NEW c \in Conts, ComposeUp(c) PROVE Rows'
  BY <1>18 DEF ComposeUp, At, Goto, Outside
<1>19. ASSUME NEW c \in Conts, ComposeDown(c) PROVE Rows'
  BY <1>19 DEF ComposeDown, At, Goto, Outside
<1>20. ASSUME NEW c \in Conts, PullFails(c) PROVE Rows'
  BY <1>20 DEF PullFails, Die, At, NoTask, NoHalt
<1>21. ASSUME NEW c \in Conts, RemoveFails(c) PROVE Rows'
  BY <1>21 DEF RemoveFails, Die, Leave, At, InUse, NoTask, NoHalt, Unused
<1>22. ASSUME NEW c \in Conts, NEW i \in Images, Push(c, i) PROVE Rows'
  BY <1>22 DEF Push
<1>23. ASSUME NEW c \in Conts, NEW p \in Paths, Write(c, p) PROVE Rows'
  BY <1>23 DEF Write
<1>24. CASE UNCHANGED vars
  BY <1>24 DEF vars
<1>25. CASE PowerCut
  BY <1>25 DEF PowerCut, Boot, Die, NoTask, NoHalt, Idle
<1>26. CASE HaltFails
  BY <1>26 DEF HaltFails, Halting
<1>27. ASSUME NEW R \in SUBSET Conts, Shutdown(R)
      PROVE  Rows'
  BY <1>27 DEF Shutdown, NoHalt
<1>28. ASSUME NEW c \in Conts, Halt(c)
      PROVE  Rows'
  BY <1>28 DEF Halt, Halting
<1>29. ASSUME NEW c \in Conts, HaltDown(c)
      PROVE  Rows'
  BY <1>29 DEF HaltDown, Halting
<1> HIDE DEF IInv, TypeOK, States, Rows, Idle
<1> QED
  BY <1>1, <1>2, <1>3, <1>4, <1>5, <1>6, <1>7, <1>8, <1>9, <1>10,
         <1>11, <1>12, <1>13, <1>14, <1>15, <1>16, <1>17, <1>18,
         <1>19, <1>20, <1>21, <1>22, <1>23, <1>24, <1>25, <1>26,
         <1>27, <1>28, <1>29
  DEF Next, Launches, Loop, Step, Dies

\* Every step keeps: a digest names one image everywhere.
LEMMA NextPins == IInv /\ [Next]_vars => Pins'
<1> SUFFICES ASSUME IInv, [Next]_vars PROVE Pins'
  OBVIOUS
<1> USE ImageAssumption, ContAssumption
    DEF IInv, TypeOK, Rows, Pins, Idle, disk, docker, launch, process,
        bounds
<1>1. CASE Start
  BY <1>1 DEF Start
<1>2. CASE LoadDone
  BY <1>2 DEF LoadDone
<1>3. CASE Save
  BY <1>3 DEF Save, NoTask, Idle
<1>4. CASE Crash
  BY <1>4 DEF Crash, Die, Leave, NoTask, NoHalt, Idle
<1>5. CASE PowerOff
  BY <1>5 DEF PowerOff, Boot, Die, NoTask, NoHalt, Idle
<1>6. ASSUME NEW c \in Conts, Ask(c) PROVE Pins'
  BY <1>6 DEF Ask, Look, Launching
<1>7. ASSUME NEW c \in Conts, FetchManifest(c) PROVE Pins'
  BY <1>7 DEF FetchManifest, Look, Launching
<1>8. ASSUME NEW c \in Conts, FetchConfig(c) PROVE Pins'
  BY <1>8 DEF FetchConfig, Look, Launching
<1>9. ASSUME NEW c \in Conts, Admit(c) PROVE Pins'
  BY <1>9 DEF Admit, Look, Launching, Fits
<1>10. ASSUME NEW c \in Conts, Refuse(c) PROVE Pins'
  BY <1>10 DEF Refuse, Launching
<1>11. ASSUME NEW c \in Conts, Load(c) PROVE Pins'
  BY <1>11 DEF Load, SetState, Command
<1>12. ASSUME NEW c \in Conts, NEW s \in {"deployed", "paused"}, Change(c, s)
      PROVE  Pins'
  BY <1>12 DEF Change, SetState, Command
<1>13. ASSUME NEW c \in Conts, Pull(c) PROVE Pins'
  BY <1>13 DEF Pull, At, Goto, Outside
<1>14. ASSUME NEW c \in Conts, ListUnused(c) PROVE Pins'
  BY <1>14 DEF ListUnused, At, Outside, Unused, Used
<1>15. ASSUME NEW c \in Conts, RemoveVolumes(c) PROVE Pins'
  BY <1>15 DEF RemoveVolumes, At, Goto, Outside, InUse, Unused, Used
<1>16. ASSUME NEW c \in Conts, NEW p \in Paths, CreateVolume(c, p) PROVE Pins'
  BY <1>16 DEF CreateVolume, At, Outside, Used
<1>17. ASSUME NEW c \in Conts, NEW p \in Paths, RemoveDir(c, p) PROVE Pins'
  BY <1>17 DEF RemoveDir, At, Outside, DirsLeft
<1>18. ASSUME NEW c \in Conts, ComposeUp(c) PROVE Pins'
  BY <1>18 DEF ComposeUp, At, Goto, Outside
<1>19. ASSUME NEW c \in Conts, ComposeDown(c) PROVE Pins'
  BY <1>19 DEF ComposeDown, At, Goto, Outside
<1>20. ASSUME NEW c \in Conts, PullFails(c) PROVE Pins'
  BY <1>20 DEF PullFails, Die, At, NoTask, NoHalt
<1>21. ASSUME NEW c \in Conts, RemoveFails(c) PROVE Pins'
  BY <1>21 DEF RemoveFails, Die, Leave, At, InUse, NoTask, NoHalt, Unused
<1>22. ASSUME NEW c \in Conts, NEW i \in Images, Push(c, i) PROVE Pins'
  BY <1>22 DEF Push
<1>23. ASSUME NEW c \in Conts, NEW p \in Paths, Write(c, p) PROVE Pins'
  BY <1>23 DEF Write
<1>24. CASE UNCHANGED vars
  BY <1>24 DEF vars
<1>25. CASE PowerCut
  BY <1>25 DEF PowerCut, Boot, Die, NoTask, NoHalt, Idle
<1>26. CASE HaltFails
  BY <1>26 DEF HaltFails, Halting
<1>27. ASSUME NEW R \in SUBSET Conts, Shutdown(R)
      PROVE  Pins'
  BY <1>27 DEF Shutdown, NoHalt
<1>28. ASSUME NEW c \in Conts, Halt(c)
      PROVE  Pins'
  BY <1>28 DEF Halt, Halting
<1>29. ASSUME NEW c \in Conts, HaltDown(c)
      PROVE  Pins'
  BY <1>29 DEF HaltDown, Halting
<1> HIDE DEF IInv, TypeOK, Rows, Pins, Idle
<1> QED
  BY <1>1, <1>2, <1>3, <1>4, <1>5, <1>6, <1>7, <1>8, <1>9, <1>10,
         <1>11, <1>12, <1>13, <1>14, <1>15, <1>16, <1>17, <1>18,
         <1>19, <1>20, <1>21, <1>22, <1>23, <1>24, <1>25, <1>26,
         <1>27, <1>28, <1>29
  DEF Next, Launches, Loop, Step, Dies

\* Every command of up and down establishes what the next one relies on, for
\* the container at hand, and leaves the others as their state says.
LEMMA NextProgress == IInv /\ [Next]_vars => Progress'
<1> SUFFICES ASSUME IInv, [Next]_vars PROVE Progress'
  OBVIOUS
<1> USE ImageAssumption, ContAssumption
    DEF IInv, TypeOK, States, Rows, Progress, Working, Exact, Halted,
        Idle, Used, Unused, disk, docker, launch, process, bounds
<1>1. CASE Start
  BY <1>1 DEF Start
<1>2. CASE LoadDone
  BY <1>2 DEF LoadDone
<1>3. CASE Save
  BY <1>3 DEF Save, NoTask, Idle
<1>4. CASE Crash
  BY <1>4 DEF Crash, Die, Leave, NoTask, NoHalt, Idle
<1>5. CASE PowerOff
  BY <1>5 DEF PowerOff, Boot, Die, NoTask, NoHalt, Idle
<1>6. ASSUME NEW c \in Conts, Ask(c) PROVE Progress'
  BY <1>6 DEF Ask, Look, Launching
<1>7. ASSUME NEW c \in Conts, FetchManifest(c) PROVE Progress'
  BY <1>7 DEF FetchManifest, Look, Launching
<1>8. ASSUME NEW c \in Conts, FetchConfig(c) PROVE Progress'
  BY <1>8 DEF FetchConfig, Look, Launching
<1>9. ASSUME NEW c \in Conts, Admit(c) PROVE Progress'
  BY <1>9 DEF Admit, Look, Launching, Fits
<1>10. ASSUME NEW c \in Conts, Refuse(c) PROVE Progress'
  BY <1>10 DEF Refuse, Launching
<1>11. ASSUME NEW c \in Conts, Load(c) PROVE Progress'
  BY <1>11 DEF Load, SetState, Command
<1>12. ASSUME NEW c \in Conts, NEW s \in {"deployed", "paused"}, Change(c, s)
      PROVE  Progress'
  BY <1>12 DEF Change, SetState, Command
<1>13. ASSUME NEW c \in Conts, Pull(c) PROVE Progress'
  BY <1>13 DEF Pull, At, Goto, Outside
<1>14. ASSUME NEW c \in Conts, ListUnused(c) PROVE Progress'
  <2> USE <1>14 DEF ListUnused, At, Outside
  <2>1. Unused(c) = {} => vol[c] = Used(c)
    <3>1. Used(c) \subseteq vol[c]
      OBVIOUS
    <3> HIDE DEF Used
    <3> QED
      BY ONLY <3>1, Emptied DEF Unused
  <2>2. ASSUME NEW b \in Conts, b # c PROVE Exact(b)'
    BY <2>2
  <2>3. Working(c)' /\ task'.cont = c /\ task'.pc # "idle"
    BY <2>1
  <2> HIDE DEF Working, Exact
  <2> QED
    BY <2>2, <2>3
<1>15. ASSUME NEW c \in Conts, RemoveVolumes(c) PROVE Progress'
  <2> USE <1>15 DEF RemoveVolumes, At, Goto, Outside
  <2>1. vol[c] \ task.unused = Used(c) /\ task.unused \cap Used(c) = {}
    OBVIOUS
  <2>2. ASSUME NEW b \in Conts, b # c PROVE Exact(b)'
    BY <2>2
  <2>3. Working(c)' /\ task'.cont = c /\ task'.pc # "idle"
    BY <2>1
  <2> HIDE DEF Working, Exact
  <2> QED
    BY <2>2, <2>3
<1>16. ASSUME NEW c \in Conts, NEW p \in Paths, CreateVolume(c, p)
      PROVE  Progress'
  BY <1>16 DEF CreateVolume, At, Outside, Used
<1>17. ASSUME NEW c \in Conts, NEW p \in Paths, RemoveDir(c, p) PROVE Progress'
  BY <1>17 DEF RemoveDir, At, Outside, DirsLeft
<1>18. ASSUME NEW c \in Conts, ComposeUp(c) PROVE Progress'
  BY <1>18 DEF ComposeUp, At, Goto, Outside
<1>19. ASSUME NEW c \in Conts, ComposeDown(c) PROVE Progress'
  BY <1>19 DEF ComposeDown, At, Goto, Outside
<1>20. ASSUME NEW c \in Conts, PullFails(c) PROVE Progress'
  BY <1>20 DEF PullFails, Die, At, NoTask, NoHalt
<1>21. ASSUME NEW c \in Conts, RemoveFails(c) PROVE Progress'
  BY <1>21 DEF RemoveFails, Die, Leave, At, InUse, NoTask, NoHalt, Unused
<1>22. ASSUME NEW c \in Conts, NEW i \in Images, Push(c, i) PROVE Progress'
  BY <1>22 DEF Push
<1>23. ASSUME NEW c \in Conts, NEW p \in Paths, Write(c, p) PROVE Progress'
  BY <1>23 DEF Write
<1>24. CASE UNCHANGED vars
  BY <1>24 DEF vars
<1>25. CASE PowerCut
  BY <1>25 DEF PowerCut, Boot, Die, NoTask, NoHalt, Idle
<1>26. CASE HaltFails
  BY <1>26 DEF HaltFails, Halting
<1>27. ASSUME NEW R \in SUBSET Conts, Shutdown(R)
      PROVE  Progress'
  BY <1>27 DEF Shutdown, NoHalt
<1>28. ASSUME NEW c \in Conts, Halt(c)
      PROVE  Progress'
  BY <1>28 DEF Halt, Halting
<1>29. ASSUME NEW c \in Conts, HaltDown(c)
      PROVE  Progress'
  BY <1>29 DEF HaltDown, Halting
<1> HIDE DEF IInv, TypeOK, States, Rows, Progress, Working, Exact,
             Halted, Idle, Used, Unused
<1> QED
  BY <1>1, <1>2, <1>3, <1>4, <1>5, <1>6, <1>7, <1>8, <1>9, <1>10,
         <1>11, <1>12, <1>13, <1>14, <1>15, <1>16, <1>17, <1>18,
         <1>19, <1>20, <1>21, <1>22, <1>23, <1>24, <1>25, <1>26,
         <1>27, <1>28, <1>29
  DEF Next, Launches, Loop, Step, Dies

\* Every step keeps: a directory without a volume is one whose removal was cut
\* short.
LEMMA NextLeftovers == IInv /\ [Next]_vars => LeftoversWereCut'
<1> SUFFICES ASSUME IInv, [Next]_vars PROVE LeftoversWereCut'
  OBVIOUS
<1> USE ImageAssumption, ContAssumption
    DEF IInv, TypeOK, Progress, Working, Unused, Used,
        LeftoversWereCut, At, Idle, disk, docker, launch, process,
        bounds
<1>1. CASE Start
  BY <1>1 DEF Start
<1>2. CASE LoadDone
  BY <1>2 DEF LoadDone
<1>3. CASE Save
  BY <1>3 DEF Save, NoTask, Idle
<1>4. CASE Crash
  BY <1>4 DEF Crash, Die, Leave, NoTask, NoHalt, Idle
<1>5. CASE PowerOff
  BY <1>5 DEF PowerOff, Boot, Die, NoTask, NoHalt, Idle
<1>6. ASSUME NEW c \in Conts, Ask(c) PROVE LeftoversWereCut'
  BY <1>6 DEF Ask, Look, Launching
<1>7. ASSUME NEW c \in Conts, FetchManifest(c) PROVE LeftoversWereCut'
  BY <1>7 DEF FetchManifest, Look, Launching
<1>8. ASSUME NEW c \in Conts, FetchConfig(c) PROVE LeftoversWereCut'
  BY <1>8 DEF FetchConfig, Look, Launching
<1>9. ASSUME NEW c \in Conts, Admit(c) PROVE LeftoversWereCut'
  BY <1>9 DEF Admit, Look, Launching, Fits
<1>10. ASSUME NEW c \in Conts, Refuse(c) PROVE LeftoversWereCut'
  BY <1>10 DEF Refuse, Launching
<1>11. ASSUME NEW c \in Conts, Load(c) PROVE LeftoversWereCut'
  BY <1>11 DEF Load, SetState, Command
<1>12. ASSUME NEW c \in Conts, NEW s \in {"deployed", "paused"}, Change(c, s)
      PROVE  LeftoversWereCut'
  BY <1>12 DEF Change, SetState, Command
<1>13. ASSUME NEW c \in Conts, Pull(c) PROVE LeftoversWereCut'
  BY <1>13 DEF Pull, At, Goto, Outside
<1>14. ASSUME NEW c \in Conts, ListUnused(c) PROVE LeftoversWereCut'
  BY <1>14 DEF ListUnused, At, Outside, Unused, Used
<1>15. ASSUME NEW c \in Conts, RemoveVolumes(c) PROVE LeftoversWereCut'
  BY <1>15 DEF RemoveVolumes, At, Goto, Outside, InUse, Unused, Used
<1>16. ASSUME NEW c \in Conts, NEW p \in Paths, CreateVolume(c, p)
      PROVE  LeftoversWereCut'
  BY <1>16 DEF CreateVolume, At, Outside, Used
<1>17. ASSUME NEW c \in Conts, NEW p \in Paths, RemoveDir(c, p)
      PROVE  LeftoversWereCut'
  BY <1>17 DEF RemoveDir, At, Outside, DirsLeft
<1>18. ASSUME NEW c \in Conts, ComposeUp(c) PROVE LeftoversWereCut'
  BY <1>18 DEF ComposeUp, At, Goto, Outside
<1>19. ASSUME NEW c \in Conts, ComposeDown(c) PROVE LeftoversWereCut'
  BY <1>19 DEF ComposeDown, At, Goto, Outside
<1>20. ASSUME NEW c \in Conts, PullFails(c) PROVE LeftoversWereCut'
  BY <1>20 DEF PullFails, Die, At, NoTask, NoHalt
<1>21. ASSUME NEW c \in Conts, RemoveFails(c) PROVE LeftoversWereCut'
  BY <1>21 DEF RemoveFails, Die, Leave, At, InUse, NoTask, NoHalt, Unused
<1>22. ASSUME NEW c \in Conts, NEW i \in Images, Push(c, i)
      PROVE  LeftoversWereCut'
  BY <1>22 DEF Push
<1>23. ASSUME NEW c \in Conts, NEW p \in Paths, Write(c, p)
      PROVE  LeftoversWereCut'
  BY <1>23 DEF Write
<1>24. CASE UNCHANGED vars
  BY <1>24 DEF vars
<1>25. CASE PowerCut
  BY <1>25 DEF PowerCut, Boot, Die, NoTask, NoHalt, Idle
<1>26. CASE HaltFails
  BY <1>26 DEF HaltFails, Halting
<1>27. ASSUME NEW R \in SUBSET Conts, Shutdown(R)
      PROVE  LeftoversWereCut'
  BY <1>27 DEF Shutdown, NoHalt
<1>28. ASSUME NEW c \in Conts, Halt(c)
      PROVE  LeftoversWereCut'
  BY <1>28 DEF Halt, Halting
<1>29. ASSUME NEW c \in Conts, HaltDown(c)
      PROVE  LeftoversWereCut'
  BY <1>29 DEF HaltDown, Halting
<1> HIDE DEF IInv, TypeOK, Progress, Working, Unused, Used,
             LeftoversWereCut, At, Idle
<1> QED
  BY <1>1, <1>2, <1>3, <1>4, <1>5, <1>6, <1>7, <1>8, <1>9, <1>10,
         <1>11, <1>12, <1>13, <1>14, <1>15, <1>16, <1>17, <1>18,
         <1>19, <1>20, <1>21, <1>22, <1>23, <1>24, <1>25, <1>26,
         <1>27, <1>28, <1>29
  DEF Next, Launches, Loop, Step, Dies

\* A new enclave, with nothing stored and no container.
LEMMA InitIInv == Init => IInv
<1> SUFFICES ASSUME Init PROVE IInv
  OBVIOUS
<1> USE ImageAssumption, ContAssumption DEF Init
<1>1. task.pc = "idle" /\ task.cont \in Conts /\ task.unused = {}
  BY DEF NoTask
<1>2. TypeOK
  BY DEF TypeOK, States, NoTask, NoHalt
<1>3. Rows /\ Pins
  BY <1>1 DEF Rows, Pins, Idle, NoHalt
<1>4. Progress /\ LeftoversWereCut
  BY <1>1 DEF Progress, Exact, LeftoversWereCut, Idle, At
<1> QED
  BY <1>2, <1>3, <1>4 DEF IInv

\* The inductive invariant holds in every state: every command and every end of
\* the process between two of them keeps it.
THEOREM DockerInductive == Spec => []IInv
<1>1. IInv /\ [Next]_vars => IInv'
  BY NextTypeOK, NextRows, NextPins, NextProgress, NextLeftovers DEF IInv
<1> QED
  BY InitIInv, <1>1, PTL DEF Spec

\* Every variable keeps its type.
THEOREM DockerTypeCorrect == Spec => []TypeOK
<1>1. IInv => TypeOK
  BY DEF IInv
<1> QED
  BY DockerInductive, <1>1, PTL

\* A container named by digest never runs an image that was not checked against
\* the room it pays for, whenever it is pulled (app-server.ts:659-668).
THEOREM PinnedIsChecked == Spec => []PinnedRunsChecked
<1>1. IInv => PinnedRunsChecked
  <2> SUFFICES ASSUME IInv, NEW c \in Pinned, run[c] # NoImage
               PROVE  SizeOf[run[c]] <= RoomOf[c]
    BY DEF PinnedRunsChecked
  <2>1. run[c] = tag[c]
    BY DEF IInv, Pins
  <2>2. row[c] # "none"
    BY ContAssumption DEF IInv, Rows
  <2> QED
    BY <2>1, <2>2 DEF IInv, Pins
<1> QED
  BY DockerInductive, <1>1, PTL

\* Between two commands of startContainers and the charge loop, docker runs what
\* the state of every loaded container says, with the volumes of its image and
\* no other, and only what a shutdown has taken down differs from its state
\* (docker.ts:164-227, 292-294; app-server.ts:730-736).
THEOREM DockerIsExact == Spec => []UpIsExact
<1>1. IInv => UpIsExact
  BY DEF IInv, UpIsExact, Progress
<1> QED
  BY DockerInductive, <1>1, PTL

\* Only a removal that was cut short leaves a directory without a volume
\* (docker.ts:218-226).
THEOREM NothingLeftBehind == Spec => []LeftoversWereCut
<1>1. IInv => LeftoversWereCut
  BY DEF IInv
<1> QED
  BY DockerInductive, <1>1, PTL

\* No step deletes data of a container named by digest: the one that removes
\* directories takes those that its image has no use for.
LEMMA NextKeepsData ==
  IInv /\ [Next]_vars =>
    \A e \in Pinned, q \in Paths : (dir[e][q] = "data" => dir'[e][q] = "data")
<1> SUFFICES ASSUME IInv, [Next]_vars, NEW e \in Pinned, NEW q \in Paths
             PROVE  (dir[e][q] = "data" => dir'[e][q] = "data")
  OBVIOUS
<1> USE ImageAssumption, ContAssumption
    DEF IInv, TypeOK, Rows, Pins, Progress, Working, Idle, Used, disk,
        docker, launch, process, bounds
<1>1. CASE Start
  BY <1>1 DEF Start
<1>2. CASE LoadDone
  BY <1>2 DEF LoadDone
<1>3. CASE Save
  BY <1>3 DEF Save, NoTask, Idle
<1>4. CASE Crash
  BY <1>4 DEF Crash, Die, Leave, NoTask, NoHalt, Idle
<1>5. CASE PowerOff
  BY <1>5 DEF PowerOff, Boot, Die, NoTask, NoHalt, Idle
<1>6. ASSUME NEW c \in Conts, Ask(c)
      PROVE  (dir[e][q] = "data" => dir'[e][q] = "data")
  BY <1>6 DEF Ask, Look, Launching
<1>7. ASSUME NEW c \in Conts, FetchManifest(c)
      PROVE  (dir[e][q] = "data" => dir'[e][q] = "data")
  BY <1>7 DEF FetchManifest, Look, Launching
<1>8. ASSUME NEW c \in Conts, FetchConfig(c)
      PROVE  (dir[e][q] = "data" => dir'[e][q] = "data")
  BY <1>8 DEF FetchConfig, Look, Launching
<1>9. ASSUME NEW c \in Conts, Admit(c)
      PROVE  (dir[e][q] = "data" => dir'[e][q] = "data")
  BY <1>9 DEF Admit, Look, Launching, Fits
<1>10. ASSUME NEW c \in Conts, Refuse(c)
      PROVE  (dir[e][q] = "data" => dir'[e][q] = "data")
  BY <1>10 DEF Refuse, Launching
<1>11. ASSUME NEW c \in Conts, Load(c)
      PROVE  (dir[e][q] = "data" => dir'[e][q] = "data")
  BY <1>11 DEF Load, SetState, Command
<1>12. ASSUME NEW c \in Conts, NEW s \in {"deployed", "paused"}, Change(c, s)
      PROVE  (dir[e][q] = "data" => dir'[e][q] = "data")
  BY <1>12 DEF Change, SetState, Command
<1>13. ASSUME NEW c \in Conts, Pull(c)
      PROVE  (dir[e][q] = "data" => dir'[e][q] = "data")
  BY <1>13 DEF Pull, At, Goto, Outside
<1>14. ASSUME NEW c \in Conts, ListUnused(c)
      PROVE  (dir[e][q] = "data" => dir'[e][q] = "data")
  BY <1>14 DEF ListUnused, At, Outside, Unused, Used
<1>15. ASSUME NEW c \in Conts, RemoveVolumes(c)
      PROVE  (dir[e][q] = "data" => dir'[e][q] = "data")
  BY <1>15 DEF RemoveVolumes, At, Goto, Outside, InUse, Unused, Used
<1>16. ASSUME NEW c \in Conts, NEW p \in Paths, CreateVolume(c, p)
      PROVE  (dir[e][q] = "data" => dir'[e][q] = "data")
  BY <1>16 DEF CreateVolume, At, Outside, Used
<1>17. ASSUME NEW c \in Conts, NEW p \in Paths, RemoveDir(c, p)
      PROVE  (dir[e][q] = "data" => dir'[e][q] = "data")
  <2>1. CASE e = c /\ p = q
    <3>1. p \notin Used(c)
      BY ONLY <1>17, IInv DEF IInv, Progress, Working, Idle, RemoveDir, At
    <3>2. local[c] = tag[c]
      BY ONLY <1>17, <2>1, IInv, e \in Pinned, ImageAssumption
         DEF IInv, Pins, Progress, Working, Idle, RemoveDir, At
    <3> QED
      BY ONLY <2>1, <3>1, <3>2, IInv, e \in Pinned DEF IInv, Pins, Used
  <2>2. CASE ~(e = c /\ p = q)
    BY ONLY <1>17, <2>2, IInv, e \in Pinned, q \in Paths, ContAssumption
       DEF IInv, TypeOK, RemoveDir
  <2> QED
    BY ONLY <2>1, <2>2
<1>18. ASSUME NEW c \in Conts, ComposeUp(c)
      PROVE  (dir[e][q] = "data" => dir'[e][q] = "data")
  BY <1>18 DEF ComposeUp, At, Goto, Outside
<1>19. ASSUME NEW c \in Conts, ComposeDown(c)
      PROVE  (dir[e][q] = "data" => dir'[e][q] = "data")
  BY <1>19 DEF ComposeDown, At, Goto, Outside
<1>20. ASSUME NEW c \in Conts, PullFails(c)
      PROVE  (dir[e][q] = "data" => dir'[e][q] = "data")
  BY <1>20 DEF PullFails, Die, At, NoTask, NoHalt
<1>21. ASSUME NEW c \in Conts, RemoveFails(c)
      PROVE  (dir[e][q] = "data" => dir'[e][q] = "data")
  BY <1>21 DEF RemoveFails, Die, Leave, At, InUse, NoTask, NoHalt, Unused
<1>22. ASSUME NEW c \in Conts, NEW i \in Images, Push(c, i)
      PROVE  (dir[e][q] = "data" => dir'[e][q] = "data")
  BY <1>22 DEF Push
<1>23. ASSUME NEW c \in Conts, NEW p \in Paths, Write(c, p)
      PROVE  (dir[e][q] = "data" => dir'[e][q] = "data")
  BY <1>23 DEF Write
<1>24. CASE UNCHANGED vars
  BY <1>24 DEF vars
<1>25. CASE PowerCut
  BY <1>25 DEF PowerCut, Boot, Die, NoTask, NoHalt, Idle
<1>26. CASE HaltFails
  BY <1>26 DEF HaltFails, Halting
<1>27. ASSUME NEW R \in SUBSET Conts, Shutdown(R)
      PROVE  (dir[e][q] = "data" => dir'[e][q] = "data")
  BY <1>27 DEF Shutdown, NoHalt
<1>28. ASSUME NEW c \in Conts, Halt(c)
      PROVE  (dir[e][q] = "data" => dir'[e][q] = "data")
  BY <1>28 DEF Halt, Halting
<1>29. ASSUME NEW c \in Conts, HaltDown(c)
      PROVE  (dir[e][q] = "data" => dir'[e][q] = "data")
  BY <1>29 DEF HaltDown, Halting
<1> HIDE DEF IInv, TypeOK, Rows, Pins, Progress, Working, Idle,
             Used
<1> QED
  BY <1>1, <1>2, <1>3, <1>4, <1>5, <1>6, <1>7, <1>8, <1>9, <1>10,
         <1>11, <1>12, <1>13, <1>14, <1>15, <1>16, <1>17, <1>18,
         <1>19, <1>20, <1>21, <1>22, <1>23, <1>24, <1>25, <1>26,
         <1>27, <1>28, <1>29
  DEF Next, Launches, Loop, Step, Dies

\* No sequence of deployments, pauses, failures, shutdowns and reboots deletes
\* what a container named by digest has written (docker.ts:209-227).
THEOREM PinnedDataIsKept == Spec => PinnedKeepsData
<1>1. IInv /\ [Next]_vars =>
        [\A c \in Pinned, p \in Paths : dir[c][p] = "data" => dir'[c][p] = "data"]_vars
  BY NextKeepsData
<1> QED
  BY DockerInductive, <1>1, PTL DEF Spec, PinnedKeepsData
===============================================================================
