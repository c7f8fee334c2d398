-------------------------------- MODULE Docker --------------------------------
(***************************************************************************)
(* What the app server does to docker: the image check of a launch         *)
(* (modules/manifest.ts), Container.setState, and up and down of           *)
(* modules/docker.ts command by command, run by startContainers and by the *)
(* charge loop, one container at a time, and down alone by the shutdown,   *)
(* beside them (src/src/enclave/app-server.ts).                            *)
(*                                                                         *)
(* A container names its image by digest (Pinned) or by a tag, which its   *)
(* owner can move in the registry.  Docker, its containers and its volumes *)
(* outlive the process; a reboot of the enclave keeps the directories of   *)
(* the volumes, which are on the disk that is backed up, and nothing else. *)
(* A command of docker is one step, also beside another of the same        *)
(* container.                                                              *)
(* When a container is deployed or paused is module Billing's matter: here *)
(* the loop may do either at any time.                                     *)
(***************************************************************************)
EXTENDS Integers, FiniteSets

CONSTANTS
  Conts,      \* containers that users ask for
  Pinned,     \* those whose params.docker is a digest
  Paths,      \* volume paths that images declare
  Images, NoImage,
  Runnable,   \* images with a manifest for amd64 and linux
  VolsOf,     \* VolsOf[i]: image.Config.Volumes
  SizeOf,     \* SizeOf[i]: the sum of the layers of i
  RoomOf,     \* RoomOf[c]: 80% of the disk of the units asked for
  MaxPushes,  \* bound: tags moved
  MaxFaults   \* bound: crashes and failing commands, shutdowns, power cuts

ASSUME ImageAssumption ==
  /\ NoImage \notin Images /\ Runnable \subseteq Images
  /\ VolsOf \in [Images \cup {NoImage} -> SUBSET Paths] /\ VolsOf[NoImage] = {}
  /\ SizeOf \in [Images -> Nat]
ASSUME ContAssumption ==
  Conts # {} /\ Pinned \subseteq Conts /\ RoomOf \in [Conts -> Nat]
ASSUME BoundAssumption == MaxPushes \in Nat /\ MaxFaults \in Nat

VARIABLES
  tag,     \* registry: the image that the reference of c names now
  local,   \* docker: the image that it names here
  run,     \* docker: the image of the container that compose made for c
  vol,     \* docker: paths of c that have a volume
  dir,     \* disk: dir[c][p] is "none", "empty" or "data"
  row,     \* sqlite: state of c, "none" without a row
  app,     \* process: "down", "loading" (startContainers), "running"
  todo,    \* rows that startContainers has yet to load
  mem,     \* process: Container.state of c, "none" when not loaded
  look,    \* launch of c: what it fetched last, "none" when there is no launch
  asked,   \* launch of c: the image whose manifest was fetched
  task,    \* setState under way: [pc, cont, unused]
  halt,    \* shutdown of the app server: [off, turned, seen, down]
  cut,     \* history: directories whose removal was cut short
  pushes, faults

vars == <<tag, local, run, vol, dir, row, app, todo, mem, look, asked, task,
          halt, cut, pushes, faults>>
disk    == <<vol, dir, cut>>
docker  == <<local, run, disk>>
launch  == <<look, asked>>
process == <<app, todo, mem, launch, task, halt>>
bounds  == <<pushes, faults>>

States == {"none", "waiting", "paused", "deployed"}
Idle == task.pc = "idle"
NoTask == [pc |-> "idle", cont |-> CHOOSE c \in Conts : TRUE, unused |-> {}]
\* turned: containers that the last round of the loop has handled; seen: those
\* that shutdown has gone past; down: the one that it is taking down now
NoHalt == [off |-> FALSE, turned |-> {}, seen |-> {}, down |-> {}]

Init ==
  /\ tag \in [Conts -> Images]
  /\ local = [c \in Conts |-> NoImage] /\ run = [c \in Conts |-> NoImage]
  /\ vol = [c \in Conts |-> {}]
  /\ dir = [c \in Conts |-> [p \in Paths |-> "none"]]
  /\ row = [c \in Conts |-> "none"] /\ app = "down" /\ todo = {}
  /\ mem = [c \in Conts |-> "none"]
  /\ look = [c \in Conts |-> "none"] /\ asked = [c \in Conts |-> NoImage]
  /\ task = NoTask /\ halt = NoHalt /\ cut = [c \in Conts |-> {}] /\ pushes = 0 /\ faults = 0
-----------------------------------------------------------------------------
(* The world: registry and containers                                      *)

\* The owner builds a new image under the same tag.
Push(c, i) ==
  /\ c \notin Pinned /\ tag[c] # i /\ pushes < MaxPushes
  /\ tag' = [tag EXCEPT ![c] = i] /\ pushes' = pushes + 1
  /\ UNCHANGED <<docker, row, process, faults>>

\* A container writes to a volume.
Write(c, p) ==
  /\ p \in VolsOf[run[c]] /\ dir[c][p] = "empty"
  /\ dir' = [dir EXCEPT ![c][p] = "data"]
  /\ UNCHANGED <<tag, local, run, vol, cut, row, process, bounds>>
-----------------------------------------------------------------------------
(* launch, as far as it looks at the image                                 *)

Look(c, from, to) == look[c] = from /\ look' = [look EXCEPT ![c] = to]
\* what a launch leaves alone
Launching == UNCHANGED <<tag, docker, app, todo, task, halt, bounds>>

\* getAuthToken
Ask(c) ==
  /\ app # "down" /\ row[c] = "none" /\ Look(c, "none", "token")
  /\ UNCHANGED <<row, mem, asked>> /\ Launching

\* fetchManifestWithToken: what the reference names at this moment
FetchManifest(c) ==
  /\ Look(c, "token", "manifest") /\ asked' = [asked EXCEPT ![c] = tag[c]]
  /\ UNCHANGED <<row, mem>> /\ Launching

\* getDigest picks the platform; its manifest and config are fetched by digest.
FetchConfig(c) ==
  /\ Look(c, "manifest", "config") /\ asked[c] \in Runnable
  /\ UNCHANGED <<row, mem, asked>> /\ Launching

\* Mutation: any image is let in.
Fits_Any(c, i) == TRUE
\* image > 80% of disk space?
Fits(c, i) == SizeOf[i] <= RoomOf[c]

\* The container is paid for later, and waits until then.
Admit(c) ==
  /\ Look(c, "config", "none") /\ Fits(c, asked[c])
  /\ row' = [row EXCEPT ![c] = "waiting"] /\ mem' = [mem EXCEPT ![c] = "waiting"]
  /\ asked' = [asked EXCEPT ![c] = NoImage]
  /\ Launching

\* A fetch fails, there is no manifest for the platform, or it is too large.
Refuse(c) ==
  /\ look[c] # "none" /\ look' = [look EXCEPT ![c] = "none"]
  /\ asked' = [asked EXCEPT ![c] = NoImage]
  /\ UNCHANGED <<row, mem>> /\ Launching
-----------------------------------------------------------------------------
(* Container.setState, from startContainers and from the charge loop       *)

Command(s) == CASE s = "deployed" -> "pull" [] s = "paused" -> "down"
                [] OTHER -> "idle"

SetState(c, s) ==
  /\ mem' = [mem EXCEPT ![c] = s]
  /\ task' = IF Command(s) = "idle" THEN task
             ELSE [pc |-> Command(s), cont |-> c, unused |-> {}]

\* Mutation: the state of a new Container is that of its row, and changeState
\* returns early.
Load_Same(c) ==
  /\ app = "loading" /\ Idle /\ c \in todo /\ todo' = todo \ {c}
  /\ mem' = [mem EXCEPT ![c] = row[c]]
  /\ UNCHANGED <<tag, docker, row, app, launch, task, halt, bounds>>
\* One turn of startContainers: changeState(info.state) brings docker to the
\* state of the row.
Load(c) ==
  /\ app = "loading" /\ Idle /\ c \in todo /\ todo' = todo \ {c}
  /\ SetState(c, row[c])
  /\ UNCHANGED <<tag, docker, row, app, launch, halt, bounds>>

LoadDone ==
  /\ app = "loading" /\ Idle /\ todo = {} /\ app' = "running"
  /\ UNCHANGED <<tag, docker, row, todo, mem, launch, task, halt, bounds>>

\* chargeMonitor deploys a waiting or paused container, or pauses one; it
\* tests off before a round, so that the round under way goes on to its end.
Change(c, s) ==
  /\ app = "running" /\ Idle /\ mem[c] \notin {"none", s}
  /\ \/ s = "deployed"
     \/ s = "paused" /\ mem[c] = "deployed"
  /\ SetState(c, s)
  /\ c \notin halt.turned
  /\ halt' = IF halt.off THEN [halt EXCEPT !.turned = @ \cup {c}] ELSE halt
  /\ UNCHANGED <<tag, docker, row, app, todo, launch, bounds>>

\* deploy and pause: the row is written after the command.
Save ==
  /\ task.pc = "save" /\ task' = NoTask
  /\ row' = [row EXCEPT ![task.cont] = mem[task.cont]]
  /\ UNCHANGED <<tag, docker, app, todo, mem, launch, halt, bounds>>
-----------------------------------------------------------------------------
(* up                                                                      *)

At(pc, c) == task.pc = pc /\ task.cont = c
Goto(pc) == task' = [task EXCEPT !.pc = pc]
\* what a docker command leaves alone
Outside == UNCHANGED <<tag, row, app, todo, mem, launch, halt, bounds>>

\* pull to ensure it's available
Pull(c) ==
  /\ At("pull", c) /\ tag[c] \in Runnable
  /\ local' = [local EXCEPT ![c] = tag[c]] /\ Goto("volumes")
  /\ UNCHANGED <<run, disk>> /\ Outside

Used(c) == VolsOf[local[c]]

\* docker volume create, which changes nothing for a volume that exists
CreateVolume(c, p) ==
  /\ At("volumes", c) /\ p \in Used(c) \ vol[c]
  /\ vol' = [vol EXCEPT ![c] = @ \cup {p}]
  /\ dir' = [dir EXCEPT ![c][p] = IF @ = "none" THEN "empty" ELSE @]
  /\ cut' = [cut EXCEPT ![c] = @ \ {p}]
  /\ UNCHANGED <<local, run, task>> /\ Outside

\* Mutations: every volume of the container, or none, counts as old.
Unused_All(c) == vol[c]
Unused_None(c) == {}
\* remove old volumes for this pubkey
Unused(c) == vol[c] \ Used(c)

ListUnused(c) ==
  /\ At("volumes", c) /\ Used(c) \subseteq vol[c]
  /\ task' = [task EXCEPT !.pc = IF Unused(c) = {} THEN "compose" ELSE "remove",
                          !.unused = Unused(c)]
  /\ UNCHANGED docker /\ Outside

\* docker volume rm takes the volumes that no container mounts
InUse(c) == VolsOf[run[c]]

RemoveVolumes(c) ==
  /\ At("remove", c) /\ task.unused \cap InUse(c) = {}
  /\ vol' = [vol EXCEPT ![c] = @ \ task.unused] /\ Goto("rmdir")
  /\ UNCHANGED <<local, run, dir, cut>> /\ Outside

\* Mutation: only one directory is removed.
DirsLeft_One(p) == {}
DirsLeft(p) == task.unused \ {p}

\* rm -Rf /mnt/xfs/volumes/<name>, one volume after the other
RemoveDir(c, p) ==
  /\ At("rmdir", c) /\ p \in task.unused
  /\ dir' = [dir EXCEPT ![c][p] = "none"]
  /\ task' = [task EXCEPT !.unused = DirsLeft(p),
                          !.pc = IF DirsLeft(p) = {} THEN "compose" ELSE "rmdir"]
  /\ UNCHANGED <<local, run, vol, cut>> /\ Outside

\* Mutation: a container that exists is left as it is.
ComposeUp_Keep(c) ==
  /\ At("compose", c) /\ Goto("save")
  /\ run' = [run EXCEPT ![c] = IF @ = NoImage THEN local[c] ELSE @]
  /\ UNCHANGED <<local, disk>> /\ Outside

\* compose.yaml, the dry run, then compose up, which replaces a container
\* whose image or mounts differ
ComposeUp(c) ==
  /\ At("compose", c) /\ Goto("save") /\ run' = [run EXCEPT ![c] = local[c]]
  /\ UNCHANGED <<local, disk>> /\ Outside

ComposeDown(c) ==
  /\ At("down", c) /\ Goto("save") /\ run' = [run EXCEPT ![c] = NoImage]
  /\ UNCHANGED <<local, disk>> /\ Outside

Step(c) == \/ Pull(c) \/ ListUnused(c) \/ RemoveVolumes(c)
           \/ \E p \in Paths : CreateVolume(c, p) \/ RemoveDir(c, p)
           \/ ComposeUp(c) \/ ComposeDown(c)
-----------------------------------------------------------------------------
(* AppServer.shutdown, which the parent asks for                           *)

\* off is set; the loop has the containers of its round left that are not in
\* R, or no round at all while startContainers is at work.
Shutdown(R) ==
  /\ app # "down" /\ ~halt.off /\ faults < MaxFaults /\ faults' = faults + 1
  /\ app = "loading" => R = Conts
  /\ halt' = [NoHalt EXCEPT !.off = TRUE, !.turned = R]
  /\ UNCHANGED <<tag, docker, row, app, todo, mem, launch, task, pushes>>

\* info.state: that of the row until changeState
State(c) == IF c \in todo THEN row[c] ELSE mem[c]
\* what the shutdown leaves alone
Halting == UNCHANGED <<tag, local, disk, row, app, todo, mem, launch, task>>

\* One turn of its loop; a container that is deployed is taken down, and its
\* state stays what it is.
Halt(c) ==
  /\ halt.off /\ halt.down = {} /\ State(c) # "none" /\ c \notin halt.seen
  /\ halt' = [halt EXCEPT !.seen = @ \cup {c},
                          !.down = IF State(c) = "deployed" THEN {c} ELSE {}]
  /\ UNCHANGED <<run, bounds>> /\ Halting

\* down of the container, whatever up is doing to it
HaltDown(c) ==
  /\ c \in halt.down /\ halt' = [halt EXCEPT !.down = {}]
  /\ run' = [run EXCEPT ![c] = NoImage]
  /\ UNCHANGED bounds /\ Halting

\* It fails, once in a shutdown: the rest is not taken down, and the shutdown
\* proceeds.
HaltFails ==
  /\ halt.down # {} /\ halt' = [halt EXCEPT !.seen = Conts, !.down = {}]
  /\ UNCHANGED <<run, bounds>> /\ Halting
-----------------------------------------------------------------------------
(* The life of the process and of the enclave                              *)

Start ==
  /\ app = "down" /\ app' = "loading" /\ todo' = {c \in Conts : row[c] # "none"}
  /\ UNCHANGED <<tag, docker, row, mem, launch, task, halt, bounds>>

\* Whatever the process was doing is forgotten, between any two commands.
Die ==
  /\ app' = "down" /\ todo' = {} /\ task' = NoTask /\ halt' = NoHalt
  /\ mem' = [c \in Conts |-> "none"]
  /\ look' = [c \in Conts |-> "none"] /\ asked' = [c \in Conts |-> NoImage]
\* The volumes V of the container it was busy with keep their directories.
Leave(V) == cut' = [cut EXCEPT ![task.cont] = @ \cup V]

\* The process is killed, or a command fails: up throws, nothing between it
\* and the loops catches, and the process ends.
Crash ==
  /\ app # "down" /\ faults < MaxFaults /\ faults' = faults + 1 /\ Die
  /\ Leave(IF task.pc = "rmdir" THEN task.unused ELSE {})
  /\ UNCHANGED <<tag, local, run, vol, dir, row, pushes>>

\* The tag names an image that docker cannot pull for this platform.
PullFails(c) ==
  /\ At("pull", c) /\ tag[c] \notin Runnable /\ Die
  /\ UNCHANGED <<tag, docker, row, bounds>>

\* One of the old volumes is mounted: docker removes the others and fails.
RemoveFails(c) ==
  /\ At("remove", c) /\ task.unused \cap InUse(c) # {} /\ Die
  /\ vol' = [vol EXCEPT ![c] = @ \ (task.unused \ InUse(c))]
  /\ Leave(task.unused \ InUse(c))
  /\ UNCHANGED <<tag, local, run, dir, row, bounds>>

\* The enclave is started and recovers: docker finds the directories on the
\* disk and no images.
Boot ==
  /\ Die
  /\ local' = [c \in Conts |-> NoImage] /\ run' = [c \in Conts |-> NoImage]
  /\ vol' = [c \in Conts |-> {p \in Paths : dir[c][p] # "none"}]
  /\ cut' = [c \in Conts |-> {}]
  /\ UNCHANGED <<tag, dir, row, pushes>>

\* Shutdown is through with its containers and stops supervisord, which backs
\* the disk up and ends the machine: the loop is cut off wherever it is.
PowerOff ==
  /\ halt.off /\ halt.down = {}
  /\ \A c \in Conts : mem[c] # "none" => c \in halt.seen
  /\ Boot /\ UNCHANGED faults

\* The machine ends without the program's shutdown.
PowerCut == faults < MaxFaults /\ faults' = faults + 1 /\ Boot
-----------------------------------------------------------------------------
Launches(c) ==
  Ask(c) \/ FetchManifest(c) \/ FetchConfig(c) \/ Admit(c) \/ Refuse(c)
Loop(c) == Load(c) \/ \E s \in {"deployed", "paused"} : Change(c, s)
Dies(c) == PullFails(c) \/ RemoveFails(c)

Next == \/ Start \/ LoadDone \/ Save \/ Crash \/ PowerOff \/ PowerCut
        \/ HaltFails \/ \E R \in SUBSET Conts : Shutdown(R)
        \/ \E c \in Conts : Halt(c) \/ HaltDown(c)
        \/ \E c \in Conts : Launches(c) \/ Loop(c) \/ Step(c) \/ Dies(c)
        \/ \E c \in Conts, i \in Images : Push(c, i)
        \/ \E c \in Conts, p \in Paths : Write(c, p)

\* supervisord restarts the process; startContainers, the commands of up and
\* down and a shutdown go on, and who ended the machine starts it again.
\* Nothing is promised about users or the charge loop.
Fairness ==
  /\ WF_vars(Start) /\ WF_vars(Save) /\ WF_vars(LoadDone)
  /\ WF_vars(\E c \in Conts : Load(c) \/ Step(c) \/ Dies(c))
  /\ WF_vars(\E c \in Conts : Halt(c) \/ HaltDown(c)) /\ WF_vars(PowerOff)

Spec == Init /\ [][Next]_vars
FairSpec == Spec /\ Fairness
-----------------------------------------------------------------------------
TypeOK ==
  /\ tag \in [Conts -> Images]
  /\ local \in [Conts -> Images \cup {NoImage}]
  /\ run \in [Conts -> Images \cup {NoImage}]
  /\ vol \in [Conts -> SUBSET Paths] /\ cut \in [Conts -> SUBSET Paths]
  /\ dir \in [Conts -> [Paths -> {"none", "empty", "data"}]]
  /\ row \in [Conts -> States] /\ mem \in [Conts -> States]
  /\ app \in {"down", "loading", "running"} /\ todo \subseteq Conts
  /\ look \in [Conts -> {"none", "token", "manifest", "config"}]
  /\ asked \in [Conts -> Images \cup {NoImage}]
  /\ task \in [pc : {"idle", "pull", "volumes", "remove", "rmdir", "compose",
                     "down", "save"},
               cont : Conts, unused : SUBSET Paths]
  /\ halt \in [off : BOOLEAN, turned : SUBSET Conts, seen : SUBSET Conts,
               down : SUBSET Conts]
  /\ pushes \in Nat /\ faults \in Nat

\* No sequence of deployments, pauses, failures, shutdowns and reboots deletes
\* what a container that names its image by digest has written, not even the
\* removal of "old" volumes of one up that another up started on
\* (docker.ts:209-227).
PinnedKeepsData ==
  [][\A c \in Pinned, p \in Paths : dir[c][p] = "data" => dir'[c][p] = "data"]_vars

\* A container that names its image by digest runs the image whose size was
\* checked against the units it pays for (app-server.ts:659-668), whenever and
\* however often it is pulled again.
PinnedRunsChecked ==
  \A c \in Pinned : run[c] # NoImage => SizeOf[run[c]] <= RoomOf[c]

\* A shutdown has gone past c.
Halted(c) == halt.off /\ c \in halt.seen

\* Docker has what the state of c says: a deployed container runs the image
\* that was pulled last, with the volumes of that image and no other, unless a
\* shutdown has taken it down, which keeps the state; a paused one is down.
Exact(c) ==
  /\ mem[c] = "deployed" =>
       /\ local[c] # NoImage /\ vol[c] = VolsOf[local[c]]
       /\ run[c] = local[c] \/ (run[c] = NoImage /\ Halted(c))
  /\ mem[c] = "paused" => run[c] = NoImage

\* Between two commands of startContainers and the charge loop docker agrees
\* with the state of every loaded container (docker.ts:164-227, 292-294); once
\* a shutdown runs beside them, the only ones to differ are those it has taken
\* down (app-server.ts:730-736).  A crash while it is under way and the start
\* after it bring back the same agreement.
UpIsExact == Idle => \A c \in Conts \ todo : Exact(c)

\* A directory that docker has no volume for is being removed, or its removal
\* was cut short by the end of the process: nothing else leaves data behind on
\* the small disk that is backed up (docker.ts:218-226).
LeftoversWereCut ==
  \A c \in Conts, p \in Paths :
    dir[c][p] # "none" =>
      \/ p \in vol[c] \/ p \in cut[c]
      \/ At("rmdir", c) /\ p \in task.unused

\* A tag now names an image that cannot be pulled, or one without a volume
\* that the container docker still runs has mounted.
Hopeless(c) ==
  tag[c] \notin Runnable \/ ~(VolsOf[run[c]] \subseteq VolsOf[tag[c]])

\* A deployed container is brought back after every crash, shutdown and reboot
\* (startContainers, app-server.ts:69-97), whatever the other containers are,
\* unless some container's tag was moved to an image that up cannot bring in
\* place of the old one: then up throws and the process ends on every start.
ComesBack ==
  \A c \in Conts : row[c] = "deployed" ~>
    \/ run[c] # NoImage \/ row[c] # "deployed" \/ \E b \in Conts : Hopeless(b)
-----------------------------------------------------------------------------
(* The inductive invariant of DockerProofs                                 *)

\* Only rows are loaded, handled and run, only what has no row is launched, and
\* a shutdown takes down what it has gone past.
Rows ==
  /\ \A c \in Conts : /\ run[c] # NoImage \/ mem[c] # "none" => row[c] # "none"
                      /\ look[c] # "none" => row[c] = "none"
                      /\ look[c] \in {"manifest", "config"} => asked[c] \in Images
  /\ \A c \in todo : row[c] # "none"
  /\ Idle \/ row[task.cont] # "none"
  /\ halt.down = {} \/ (halt.off /\ halt.down \subseteq halt.seen)

\* A digest names one image wherever it is used, and what is stored was checked.
Pins ==
  \A c \in Pinned :
    /\ {asked[c], local[c], run[c]} \subseteq {NoImage, tag[c]}
    /\ row[c] # "none" => SizeOf[tag[c]] <= RoomOf[c]
    /\ \A p \in Paths : dir[c][p] = "data" => p \in VolsOf[tag[c]]

\* What the commands run so far have established for the container at hand.
Working(c) ==
  /\ task.pc \in {"pull", "volumes", "remove", "rmdir", "compose"} => mem[c] = "deployed"
  /\ task.pc \in {"volumes", "remove", "rmdir", "compose"} => local[c] \in Images
  /\ task.pc = "remove" => Used(c) \subseteq vol[c] /\ task.unused = Unused(c)
  /\ task.pc \in {"rmdir", "compose"} => vol[c] = Used(c) /\ task.unused \cap Used(c) = {}
  /\ task.pc = "down" => mem[c] = "paused"
  /\ task.pc = "save" => mem[c] \in {"deployed", "paused"} /\ Exact(c)

Progress ==
  \A c \in Conts : IF ~Idle /\ task.cont = c THEN Working(c) ELSE Exact(c)

IInv == TypeOK /\ Rows /\ Pins /\ Progress /\ LeftoversWereCut
===============================================================================
