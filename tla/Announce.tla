------------------------------- MODULE Announce -------------------------------
(***************************************************************************)
(* What the server tells the world: the announcements of its containers    *)
(* (Container.announce, src/src/enclave/container.ts) and the hourly round *)
(* of its own (modules/announce.ts), signed and published by the functions *)
(* of modules/nostr.ts.                                                    *)
(*                                                                         *)
(* The content of an announcement is a version of what it tells: the       *)
(* number of changes of the container's state, balance and app so far.     *)
(* Attestations, certificates and the other tags are data, except what the *)
(* parent says of the instance.  publish succeeds if any relay of its list *)
(* accepts the event.  There is no time: an announcement is made again and *)
(* again, and how soon, and until when the last one is valid, is left out. *)
(***************************************************************************)
EXTENDS Integers

CONSTANTS
  Conts,
  MaxChanges,  \* bound: changes of one container
  MaxFaults    \* bound: ends of the process

ASSUME BoundAssumption == MaxChanges \in Nat /\ MaxFaults \in Nat

VARIABLES
  up,      \* the process runs
  stored,  \* sqlite: state of c, "none" without a row
  state,   \* Container.state, "none" before the first changeState
  ver,     \* version of what there is to tell about c
  phase,   \* announce of c: "idle", "wait" (for 1 second), "cert", "info",
           \* "profile"
  event,   \* version that the event being published tells
  shown,   \* newest version that an accepted info event of c tells
  round,   \* announcement of the service: the event it is at, or "pause"
  meta,    \* what getMeta of the parent returned when the process started
  wallet,  \* the wallet of getStats: "unknown", "answers", "silent"
  faults

vars == <<up, stored, state, ver, phase, event, shown, round, meta, wallet,
          faults>>
conts   == <<stored, state, ver, phase, event, shown>>
service == <<round, meta, wallet>>

States == {"waiting", "deployed", "paused"}
\* labels: what the build, the instance and the releases are signed for, those
\* that there are; "test" is any label but "prod"
Metas == [prod : BOOLEAN, labels : SUBSET {"prod", "test"}]
Init ==
  /\ up = FALSE /\ stored = [c \in Conts |-> "none"]
  /\ state = [c \in Conts |-> "none"] /\ ver = [c \in Conts |-> 0]
  /\ phase = [c \in Conts |-> "idle"] /\ event = [c \in Conts |-> 0]
  /\ shown = [c \in Conts |-> 0]
  /\ round = "pause" /\ wallet = "unknown" /\ faults = 0
  /\ meta = [prod |-> FALSE, labels |-> {}]
-----------------------------------------------------------------------------
(* A container                                                             *)

\* Mutation: a change is announced only by a container that is deployed.
Announce_Deployed(c) ==
  phase' = IF phase[c] = "idle" /\ state[c] = "deployed"
             THEN [phase EXCEPT ![c] = "wait"] ELSE phase
\* announce up to its timer: nothing while an earlier call is under way
Announce(c) ==
  phase' = IF phase[c] = "idle" THEN [phase EXCEPT ![c] = "wait"] ELSE phase

\* launch, before the container has a state of its own
Launch(c) ==
  /\ up /\ stored[c] = "none" /\ stored' = [stored EXCEPT ![c] = "waiting"]
  /\ UNCHANGED <<up, state, ver, phase, event, shown, service, faults>>

Changes(c) == ver[c] < MaxChanges /\ ver' = [ver EXCEPT ![c] = @ + 1]

\* changeState of the charge loop, with the row that follows
ChangeState(c, s) ==
  /\ up /\ stored[c] # "none" /\ state[c] # s /\ Changes(c)
  /\ s = "paused" => state[c] = "deployed"
  /\ state' = [state EXCEPT ![c] = s] /\ stored' = [stored EXCEPT ![c] = s]
  /\ Announce(c)
  /\ UNCHANGED <<up, event, shown, service, faults>>

\* changeState of startContainers: a waiting container is not announced
Load(c) ==
  /\ up /\ state[c] = "none" /\ stored[c] # "none"
  /\ state' = [state EXCEPT ![c] = stored[c]]
  /\ IF stored[c] = "waiting" THEN UNCHANGED phase ELSE Announce(c)
  /\ UNCHANGED <<up, stored, ver, event, shown, service, faults>>

\* setBalance and setAppInfo
ChangeInfo(c) ==
  /\ up /\ stored[c] # "none" /\ Changes(c) /\ Announce(c)
  /\ UNCHANGED <<up, stored, state, event, shown, service, faults>>

\* startAnnounceLoop, every 10 minutes
Repeat(c) ==
  /\ up /\ state[c] \in {"deployed", "paused"} /\ phase[c] = "idle" /\ Announce(c)
  /\ UNCHANGED <<up, stored, state, ver, event, shown, service, faults>>

\* After the second: the attestation, signed as a certificate of the service.
PrepareRootCertificate(c) ==
  /\ phase[c] = "wait" /\ phase' = [phase EXCEPT ![c] = "cert"]
  /\ UNCHANGED <<up, stored, state, ver, event, shown, service, faults>>

\* The info event is made of what the container's info says now.
Sign(c) ==
  /\ phase[c] = "cert" /\ phase' = [phase EXCEPT ![c] = "info"]
  /\ event' = [event EXCEPT ![c] = ver[c]]
  /\ UNCHANGED <<up, stored, state, ver, shown, service, faults>>

\* publishContainerInfo: the info event first, then the profile
InfoAccepted(c) ==
  /\ phase[c] = "info" /\ phase' = [phase EXCEPT ![c] = "profile"]
  /\ shown' = [shown EXCEPT ![c] = event[c]]
  /\ UNCHANGED <<up, stored, state, ver, event, service, faults>>

\* Mutation: a failure leaves the flag set.
Done_Stuck(c) == UNCHANGED phase
\* finally: announcing = false
Done(c) == phase' = [phase EXCEPT ![c] = "idle"]

\* no relay accepts the info event; the error is caught
InfoFails(c) ==
  /\ phase[c] = "info" /\ Done(c)
  /\ UNCHANGED <<up, stored, state, ver, event, shown, service, faults>>

\* the profile is accepted or not
ProfileEnds(c) ==
  /\ phase[c] = "profile" /\ Done(c)
  /\ UNCHANGED <<up, stored, state, ver, event, shown, service, faults>>
-----------------------------------------------------------------------------
(* The service                                                             *)

\* Mutation: the stats come before the instance.
Following_StatsFirst(e) ==
  CASE e = "relays" -> "stats" [] e = "stats" -> "instance"
    [] e = "instance" -> "profile" [] OTHER -> "pause"
\* Mutation: after the stats the round starts again, without a pause.
Following_Again(e) == CASE e = "stats" -> "start" [] OTHER -> Following_StatsFirst(e)
\* announce: the order of its events
Following(e) ==
  CASE e = "relays" -> "instance" [] e = "instance" -> "profile"
    [] e = "profile" -> "stats" [] OTHER -> "pause"

\* one of its events is accepted by a relay
Published(e) ==
  /\ up /\ round = e /\ round' = Following(e)
  /\ UNCHANGED <<up, conts, meta, wallet, faults>>

\* A production instance with a build, instance or release that is not for
\* production: publishInstance throws in every round of this process.
Refused == meta.prod /\ "test" \in meta.labels

PublishNip65Relays     == Published("relays")
PublishInstance        == ~Refused /\ Published("instance")
PublishInstanceProfile == Published("profile")
\* the stats are of the containers and of the balance in the wallet
PublishStats           == wallet # "silent" /\ Published("stats")

\* The attestation, publish or getStats throws, or publishInstance refuses: the
\* rest is left out and tried again in 6 minutes.
RoundFails ==
  /\ up /\ round # "pause" /\ round' = "pause"
  /\ UNCHANGED <<up, conts, meta, wallet, faults>>

\* either timer of startAnnouncing
NextRound ==
  /\ up /\ round = "pause" /\ round' = "relays"
  /\ UNCHANGED <<up, conts, meta, wallet, faults>>

\* The wallet container reports its pubkey, and then answers get_balance or
\* does not; without a pubkey getBalance returns at once.
WalletTurns(w) ==
  /\ up /\ w # "unknown" /\ wallet # w /\ wallet' = w
  /\ UNCHANGED <<up, conts, round, meta, faults>>
-----------------------------------------------------------------------------
(* The process                                                             *)

\* getMeta asks the parent, which reads its environment and its files anew.
Start ==
  /\ ~up /\ up' = TRUE /\ meta' \in Metas
  /\ UNCHANGED <<conts, round, wallet, faults>>

\* A crash, or announce throws because there is no attestation: nothing
\* awaits the call, and the rejection ends the process.
Die ==
  /\ up /\ faults < MaxFaults /\ faults' = faults + 1 /\ up' = FALSE
  /\ state' = [c \in Conts |-> "none"] /\ phase' = [c \in Conts |-> "idle"]
  /\ round' = "pause" /\ wallet' = "unknown"
  /\ UNCHANGED <<stored, ver, event, shown, meta>>
-----------------------------------------------------------------------------
Publish(c) == InfoAccepted(c) \/ InfoFails(c) \/ ProfileEnds(c)

Next ==
  \/ Start \/ Die \/ RoundFails \/ NextRound
  \/ \E c \in Conts : \/ Launch(c) \/ Load(c) \/ ChangeInfo(c) \/ Repeat(c)
                      \/ PrepareRootCertificate(c) \/ Sign(c) \/ Publish(c)
                      \/ \E s \in {"deployed", "paused"} : ChangeState(c, s)
  \/ PublishNip65Relays \/ PublishInstance \/ PublishInstanceProfile \/ PublishStats
  \/ \E w \in {"answers", "silent"} : WalletTurns(w)

\* Timers fire, publish ends within 10 seconds, the process is restarted and
\* loads its rows.  Relays that are asked again and again accept an event in
\* the end: for the service the relays of the relay list, which has its own,
\* and of the instance, unless publishInstance refuses before it asks them.
\* Nothing is promised about the wallet.
Fairness ==
  /\ WF_vars(Start) /\ WF_vars(NextRound)
  /\ SF_vars(PublishNip65Relays) /\ SF_vars(PublishInstance)
  /\ WF_vars(PublishInstanceProfile \/ RoundFails)
  /\ \A c \in Conts : /\ WF_vars(Load(c)) /\ WF_vars(Repeat(c))
                      /\ WF_vars(PrepareRootCertificate(c)) /\ WF_vars(Sign(c))
                      /\ WF_vars(Publish(c)) /\ SF_vars(InfoAccepted(c))

Spec == Init /\ [][Next]_vars
FairSpec == Spec /\ Fairness
-----------------------------------------------------------------------------
TypeOK ==
  /\ up \in BOOLEAN
  /\ stored \in [Conts -> States \cup {"none"}]
  /\ state \in [Conts -> States \cup {"none"}]
  /\ phase \in [Conts -> {"idle", "wait", "cert", "info", "profile"}]
  /\ ver \in [Conts -> Nat] /\ event \in [Conts -> Nat] /\ shown \in [Conts -> Nat]
  /\ round \in {"pause", "relays", "instance", "profile", "stats"}
  /\ meta \in Metas
  /\ wallet \in {"unknown", "answers", "silent"} /\ faults \in Nat

\* Whatever there is to tell about a container that was deployed is told in the
\* end, also when it changed while an older announcement was under way, when
\* publishing failed or when the process died before (container.ts:100-147).
ChangesAreTold ==
  \A c \in Conts, v \in 1..MaxChanges :
    (ver[c] = v /\ stored[c] \in {"deployed", "paused"}) ~> (shown[c] >= v)

\* The instance is announced again and again, unless its build, instance or
\* releases do not fit it, which no round of the process gets past: a wallet
\* that stops answering for ever, and with it every round's stats, does not keep
\* it from being announced, and neither does a profile or a relay that fails
\* (announce.ts:35-65, nostr.ts:157-189).
InstanceStaysAnnounced == []<>(round = "profile" \/ Refused)
===============================================================================
