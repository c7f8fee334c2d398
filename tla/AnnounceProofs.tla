---------------------------- MODULE AnnounceProofs ----------------------------
(***************************************************************************)
(* What the server tells the world and what it learns from it.  The types  *)
(* of Announce; and, for versions whose fragments are numbers, that        *)
(* isNewVersion is a strict total order, whatever their lengths: upgrades  *)
(* along the lists of checkUpgrade come to an end, and the first of a list *)
(* is the newest release there is.  At last, that parseImageReference      *)
(* takes every reference that is built of parts apart into them.           *)
(***************************************************************************)
EXTENDS Announce, Releases, FiniteSetTheorems, TLAPS, WellFoundedInduction,
        SequenceTheorems

\* Every variable keeps its type: an announcement tells a version that was
\* there, and a round of the service is at one of its events or in a pause.
THEOREM AnnounceTypes == Spec => []TypeOK
<1>1. Init => TypeOK
  <2> SUFFICES ASSUME Init PROVE TypeOK
    OBVIOUS
  <2>1. /\ stored \in [Conts -> States \cup {"none"}]
        /\ state \in [Conts -> States \cup {"none"}]
        /\ phase \in [Conts -> {"idle", "wait", "cert", "info", "profile"}]
    BY DEF Init
  <2>2. /\ ver \in [Conts -> Nat] /\ event \in [Conts -> Nat]
        /\ shown \in [Conts -> Nat]
    BY DEF Init
  <2>3. meta \in Metas
    BY DEF Init, Metas
  <2> QED
    BY <2>1, <2>2, <2>3 DEF Init, TypeOK
<1>2. ASSUME TypeOK, [Next]_vars PROVE TypeOK'
  <2> USE <1>2 DEF TypeOK, conts, service, States
  <2>1. CASE Start
    BY <2>1 DEF Start
  <2>2. CASE Die
    <3>1. /\ state' \in [Conts -> States \cup {"none"}]
          /\ phase' \in [Conts -> {"idle", "wait", "cert", "info", "profile"}]
      BY <2>2 DEF Die
    <3>2. /\ up' = FALSE /\ round' = "pause" /\ wallet' = "unknown"
          /\ faults' \in Nat /\ UNCHANGED <<stored, ver, event, shown, meta>>
      BY <2>2 DEF Die
    <3> QED
      BY <3>1, <3>2
  <2>3. CASE RoundFails
    BY <2>3 DEF RoundFails
  <2>4. CASE NextRound
    BY <2>4 DEF NextRound
  <2>5. ASSUME NEW c \in Conts, Launch(c) PROVE TypeOK'
    BY <2>5 DEF Launch
  <2>6. ASSUME NEW c \in Conts, Load(c) PROVE TypeOK'
    BY <2>6 DEF Load, Announce
  <2>7. ASSUME NEW c \in Conts, ChangeInfo(c) PROVE TypeOK'
    BY <2>7 DEF ChangeInfo, Changes, Announce
  <2>8. ASSUME NEW c \in Conts, Repeat(c) PROVE TypeOK'
    BY <2>8 DEF Repeat, Announce
  <2>9. ASSUME NEW c \in Conts, PrepareRootCertificate(c) PROVE TypeOK'
    BY <2>9 DEF PrepareRootCertificate
  <2>10. ASSUME NEW c \in Conts, Sign(c) PROVE TypeOK'
    BY <2>10 DEF Sign
  <2>11. ASSUME NEW c \in Conts, Publish(c) PROVE TypeOK'
    BY <2>11 DEF Publish, InfoAccepted, InfoFails, ProfileEnds, Done
  <2>12. ASSUME NEW c \in Conts, NEW s \in {"deployed", "paused"},
                ChangeState(c, s)
         PROVE  TypeOK'
    BY <2>12 DEF ChangeState, Changes, Announce
  <2>13. ASSUME NEW e \in {"relays", "instance", "profile", "stats"},
                Published(e)
         PROVE  TypeOK'
    BY <2>13 DEF Published, Following
  <2>14. ASSUME NEW w \in {"answers", "silent"}, WalletTurns(w) PROVE TypeOK'
    BY <2>14 DEF WalletTurns
  <2>15. CASE UNCHANGED vars
    BY <2>15 DEF vars
  <2>16. PublishNip65Relays \/ PublishInstance \/ PublishInstanceProfile
           \/ PublishStats => TypeOK'
    BY <2>13 DEF PublishNip65Relays, PublishInstance, PublishInstanceProfile,
       PublishStats
  <2> HIDE DEF TypeOK
  <2> QED
    BY <1>2, <2>1, <2>2, <2>3, <2>4, <2>5, <2>6, <2>7, <2>8, <2>9, <2>10,
       <2>11, <2>12, <2>14, <2>15, <2>16 DEF Next
<1> QED
  BY <1>1, <1>2, PTL DEF Spec
-----------------------------------------------------------------------------

Numeric == Seq(Nat)

\* v and w agree before i, and v is ahead of w at i.
Ahead(v, w, i) ==
  /\ i \in 1..Len(v)
  /\ \A j \in 1..(i - 1) : j <= Len(w) /\ v[j] = w[j]
  /\ i > Len(w) \/ v[i] > w[i]

LEMMA NewerIsAhead ==
  ASSUME NEW v \in Numeric, NEW w \in Numeric
  PROVE  /\ IsNewVersion(v, w) <=> \E i \in 1..Len(v) : Ahead(v, w, i)
         /\ Len(v) \in Nat /\ \A i \in 1..Len(v) : v[i] \in Nat
<1> USE DEF Numeric
<1>1. Len(v) \in Nat /\ DOMAIN v = 1..Len(v) /\ \A i \in 1..Len(v) : v[i] \in Nat
  OBVIOUS
<1>2. Len(w) \in Nat /\ \A i \in 1..Len(w) : w[i] \in Nat
  OBVIOUS
<1>3. ASSUME NEW i \in 1..Len(v)
      PROVE  Ahead(v, w, i) <=>
               /\ \A j \in 1..(i - 1) : j <= Len(w) /\ Same(v[j], w[j])
               /\ i > Len(w) \/ Above(v[i], w[i])
  <2>1. \A j \in 1..(i - 1) : j \in 1..Len(v)
    BY <1>1
  <2>2. ASSUME NEW j \in 1..(i - 1), j <= Len(w)
        PROVE  Same(v[j], w[j]) <=> v[j] = w[j]
    BY <2>1, <1>1, ReleasesAssumption DEF Same
  <2>3. ASSUME i <= Len(w) PROVE Above(v[i], w[i]) <=> v[i] > w[i]
    <3>1. i \in 1..Len(w)
      BY <1>1, <1>2, <2>3
    <3>2. v[i] \in Nat /\ w[i] \in Nat
      BY <1>1, <1>2, <3>1
    <3>3. v[i] # NaN /\ w[i] # NaN
      BY <3>2, ReleasesAssumption
    <3> QED BY <3>3 DEF Above
  <2>4. i > Len(w) \/ i <= Len(w)
    BY <1>1, <1>2
  <2> QED BY <2>2, <2>3, <2>4 DEF Ahead
<1> QED BY <1>1, <1>3 DEF IsNewVersion

\* No version is newer than itself.
THEOREM NewerIrreflexive == \A v \in Numeric : ~IsNewVersion(v, v)
<1> TAKE v \in Numeric
<1>1. ASSUME NEW i \in 1..Len(v) PROVE ~Ahead(v, v, i)
  BY NewerIsAhead DEF Ahead
<1> QED BY <1>1, NewerIsAhead

\* What is newer than a newer version is newer.
THEOREM NewerTransitive ==
  \A u, v, w \in Numeric :
    IsNewVersion(u, v) /\ IsNewVersion(v, w) => IsNewVersion(u, w)
<1> SUFFICES ASSUME NEW u \in Numeric, NEW v \in Numeric, NEW w \in Numeric,
                    NEW i \in 1..Len(u), Ahead(u, v, i),
                    NEW k \in 1..Len(v), Ahead(v, w, k)
             PROVE  IsNewVersion(u, w)
  BY NewerIsAhead
<1>0. /\ Len(u) \in Nat /\ Len(v) \in Nat /\ Len(w) \in Nat
      /\ \A j \in 1..Len(u) : u[j] \in Nat
      /\ \A j \in 1..Len(v) : v[j] \in Nat
      /\ \A j \in 1..Len(w) : w[j] \in Nat
  BY NewerIsAhead
<1>1. CASE i <= k
  <2>1. Ahead(u, w, i)
    <3>1. \A j \in 1..(i - 1) : j <= Len(w) /\ u[j] = w[j]
      BY <1>0, <1>1 DEF Ahead
    <3>2. i <= Len(v) /\ u[i] > v[i]
      BY <1>0, <1>1 DEF Ahead
    <3>3. CASE i < k
      BY <1>0, <3>1, <3>2, <3>3 DEF Ahead
    <3>4. CASE i = k
      <4>1. k > Len(w) \/ v[k] > w[k]
        BY DEF Ahead
      <4>2. ASSUME i <= Len(w) PROVE u[i] > w[i]
        BY <1>0, <3>2, <3>4, <4>1, <4>2
      <4> QED BY <1>0, <3>1, <4>2 DEF Ahead
    <3> QED BY <1>0, <1>1, <3>3, <3>4
  <2> QED BY <2>1, NewerIsAhead
<1>2. CASE i > k
  <2>1. Ahead(u, w, k)
    BY <1>0, <1>2 DEF Ahead
  <2> QED BY <1>0, <1>2, <2>1, NewerIsAhead
<1> QED BY <1>0, <1>1, <1>2

\* Of two versions one is newer.
THEOREM NewerTotal ==
  \A v, w \in Numeric : v # w => IsNewVersion(v, w) \/ IsNewVersion(w, v)
<1> SUFFICES ASSUME NEW v \in Numeric, NEW w \in Numeric, v # w
             PROVE  IsNewVersion(v, w) \/ IsNewVersion(w, v)
  OBVIOUS
<1>0. /\ Len(v) \in Nat /\ Len(w) \in Nat
      /\ \A j \in 1..Len(v) : v[j] \in Nat
      /\ \A j \in 1..Len(w) : w[j] \in Nat
  BY NewerIsAhead
<1> DEFINE Differ(i) == i > Len(v) \/ i > Len(w) \/ v[i] # w[i]
<1>1. \E i \in Nat \ {0} : i <= Len(v) + 1 /\ i <= Len(w) + 1 /\ Differ(i)
                            /\ (i <= Len(v) \/ i <= Len(w))
  <2>1. CASE Len(v) # Len(w)
    <3>1. CASE Len(v) < Len(w)
      <4>1. Len(v) + 1 \in Nat \ {0} /\ Differ(Len(v) + 1)
        BY <1>0
      <4> QED BY <1>0, <3>1, <4>1
    <3>2. CASE Len(w) < Len(v)
      <4>1. Len(w) + 1 \in Nat \ {0} /\ Differ(Len(w) + 1)
        BY <1>0
      <4> QED BY <1>0, <3>2, <4>1
    <3> QED BY <1>0, <2>1, <3>1, <3>2
  <2>2. CASE Len(v) = Len(w)
    <3>1. PICK i \in 1..Len(v) : v[i] # w[i]
      <4>1. v = [j \in 1..Len(v) |-> v[j]] /\ w = [j \in 1..Len(w) |-> w[j]]
        BY DEF Numeric
      <4> QED BY <2>2, <4>1
    <3> QED BY <1>0, <2>2, <3>1
  <2> QED BY <2>1, <2>2
<1> DEFINE Candidates == {i \in Nat \ {0} : i <= Len(v) + 1 /\ i <= Len(w) + 1 /\ Differ(i)
                                            /\ (i <= Len(v) \/ i <= Len(w))}
<1>2. PICK i \in Candidates : \A j \in Candidates : i <= j
  <2>1. Candidates # {} /\ Candidates \subseteq Nat
    BY <1>1
  <2> HIDE DEF Candidates
  <2>2. \E i \in Candidates : \A j \in Candidates : ~(<<j, i>> \in OpToRel(<, Nat))
    BY <2>1, WFMin, NatLessThanWellFounded, Zenon
  <2>3. \A i, j \in Nat : <<j, i>> \in OpToRel(<, Nat) <=> j < i
    BY DEF OpToRel
  <2>4. \E i \in Candidates : \A j \in Candidates : i \in Nat /\ j \in Nat /\ ~(j < i)
    BY <2>1, <2>2, <2>3, Zenon
  <2> QED BY <2>4
<1>3. \A j \in 1..(i - 1) : j <= Len(v) /\ j <= Len(w) /\ v[j] = w[j]
  BY <1>0, <1>2
<1>4. CASE i > Len(w)
  <2>1. Ahead(v, w, i)
    BY <1>0, <1>2, <1>3, <1>4 DEF Ahead
  <2> QED BY <1>0, <1>2, <1>4, <2>1, NewerIsAhead
<1>5. CASE i > Len(v)
  <2>1. Ahead(w, v, i)
    BY <1>0, <1>2, <1>3, <1>5 DEF Ahead
  <2> QED BY <1>0, <1>2, <1>5, <2>1, NewerIsAhead
<1>6. CASE i <= Len(v) /\ i <= Len(w)
  <2>1. i \in 1..Len(v) /\ i \in 1..Len(w) /\ v[i] # w[i]
    BY <1>0, <1>2, <1>6
  <2>2. v[i] > w[i] \/ w[i] > v[i]
    BY <1>0, <2>1
  <2>3. v[i] > w[i] => Ahead(v, w, i)
    BY <1>3, <2>1 DEF Ahead
  <2>4. w[i] > v[i] => Ahead(w, v, i)
    BY <1>3, <2>1 DEF Ahead
  <2> QED BY <2>1, <2>2, <2>3, <2>4, NewerIsAhead
<1> QED BY <1>0, <1>2, <1>4, <1>5, <1>6

\* Whoever installs a release that checkUpgrade found valid finds fewer valid
\* releases in the same events, and the version left behind is not an upgrade:
\* upgrades end, and never lead back.
THEOREM UpgradesEnd ==
  ASSUME NEW events, \A e \in events : e.version \in Numeric,
         NEW version \in Numeric, NEW r \in ValidReleases(events, version)
  PROVE  /\ ValidReleases(events, r.version) \subseteq
              ValidReleases(events, version) \ {r}
         /\ ~IsNewVersion(version, r.version)
<1>1. r \in events /\ r.version \in Numeric /\ IsNewVersion(r.version, version)
  BY DEF ValidReleases, NewReleases
<1>2. ASSUME NEW e \in ValidReleases(events, r.version)
      PROVE  e \in ValidReleases(events, version) \ {r}
  <2>1. e \in events /\ e.version \in Numeric /\ IsNewVersion(e.version, r.version)
    BY DEF ValidReleases, NewReleases
  <2>2. IsNewVersion(e.version, version)
    BY <1>1, <2>1, NewerTransitive
  <2>3. e # r
    BY <1>1, <2>1, NewerIrreflexive
  <2> QED BY <2>2, <2>3 DEF ValidReleases, NewReleases
<1>3. ~IsNewVersion(version, r.version)
  BY <1>1, NewerTransitive, NewerIrreflexive
<1> QED BY <1>2, <1>3

\* Of the valid releases none is newer than the first of the list that
\* checkUpgrade returns.
LEMMA FirstIsNewest ==
  ASSUME NEW events, \A e \in events : e.version \in Numeric,
         IsFiniteSet(events), NEW version \in Numeric,
         NEW s \in CheckUpgrade(events, version), s # <<>>
  PROVE  /\ s[1] \in ValidReleases(events, version)
         /\ \A r \in ValidReleases(events, version) :
              ~IsNewVersion(r.version, s[1].version)
<1> DEFINE V == ValidReleases(events, version)
           n == Cardinality(V)
<1>1. n \in Nat /\ \A r \in V : r.version \in Numeric
  <2>1. V \subseteq events
    BY DEF ValidReleases, NewReleases
  <2> QED
    BY <2>1, FS_Subset, FS_CardinalityType
<1>2. /\ s \in [1..n -> V] /\ \A r \in V : \E i \in 1..n : s[i] = r
      /\ \A i \in 1..(n - 1) : ~Swaps(s[i], s[i + 1])
  BY DEF CheckUpgrade
<1> HIDE DEF V, n
<1>3. n # 0
  <2>1. ASSUME n = 0 PROVE s = <<>>
    BY <1>2, <2>1
  <2> QED
    BY <2>1
<1> DEFINE B == {i \in 1..n : IsNewVersion(s[i].version, s[1].version)}
<1>4. 1 \in 1..n /\ s[1] \in V
  BY <1>1, <1>2, <1>3
<1>5. ASSUME NEW i \in B, \A j \in B : ~(j < i) PROVE FALSE
  <2>1. i # 1
    BY <1>1, <1>2, <1>4, NewerIrreflexive
  <2>2. i - 1 \in 1..(n - 1) /\ i - 1 \in 1..n /\ (i - 1) + 1 = i /\ i - 1 < i
    BY <1>1, <2>1
  <2>3. ~Swaps(s[i - 1], s[i])
    BY <1>2, <2>2
  <2>4. ~IsNewVersion(s[i - 1].version, s[1].version)
    BY <1>5, <2>2
  <2>5. /\ s[i].version \in Numeric /\ s[i - 1].version \in Numeric
        /\ s[1].version \in Numeric /\ IsNewVersion(s[i].version, s[1].version)
    BY <1>1, <1>2, <1>4, <2>2
  <2>6. CASE s[i - 1].version = s[1].version
    BY <2>3, <2>5, <2>6, NewerIrreflexive, NewerTransitive DEF Swaps
  <2>7. CASE IsNewVersion(s[1].version, s[i - 1].version)
    BY <2>3, <2>4, <2>5, <2>7, NewerTransitive DEF Swaps
  <2> QED
    BY <2>4, <2>5, <2>6, <2>7, NewerTotal
<1>6. B = {}
  <2>1. B \subseteq Nat
    BY <1>1
  <2> HIDE DEF B
  <2>2. B # {} => \E i \in B : \A j \in B : ~(<<j, i>> \in OpToRel(<, Nat))
    BY <2>1, WFMin, NatLessThanWellFounded, Zenon
  <2>3. \A i, j \in Nat : <<j, i>> \in OpToRel(<, Nat) <=> j < i
    BY DEF OpToRel
  <2>4. B # {} => \E i \in B : \A j \in B : ~(j < i)
    BY <2>1, <2>2, <2>3, Zenon
  <2> QED
    BY <1>5, <2>4
<1> QED
  BY <1>2, <1>4, <1>6 DEF V

\* Whoever installs the first of the list is done: every signer signed it as
\* the version it says, the same events hold no further upgrade, and the
\* version left behind is none either.
THEOREM FirstUpgradeSettles ==
  ASSUME NEW events, \A e \in events : e.version \in Numeric,
         IsFiniteSet(events), NEW version \in Numeric,
         NEW s \in CheckUpgrade(events, version), s # <<>>
  PROVE  /\ \A p \in Signers : SignatureOf(s[1], p) \in s[1].sigs
         /\ CheckUpgrade(events, s[1].version) = {<<>>}
         /\ ~IsNewVersion(version, s[1].version)
<1>1. /\ s[1] \in ValidReleases(events, version)
      /\ \A r \in ValidReleases(events, version) :
           ~IsNewVersion(r.version, s[1].version)
  BY FirstIsNewest
<1>2. \A p \in Signers : SignatureOf(s[1], p) \in s[1].sigs
  BY <1>1 DEF ValidReleases, FullySigned, SigsOf
<1>3. s[1].version \in Numeric
  BY <1>1 DEF ValidReleases, NewReleases
<1>4. /\ ValidReleases(events, s[1].version) = {}
      /\ ~IsNewVersion(version, s[1].version)
  <2>1. /\ ValidReleases(events, s[1].version) \subseteq
             ValidReleases(events, version)
        /\ ~IsNewVersion(version, s[1].version)
    BY <1>1, UpgradesEnd
  <2>2. \A r \in ValidReleases(events, s[1].version) :
          IsNewVersion(r.version, s[1].version)
    BY DEF ValidReleases, NewReleases
  <2> QED
    BY <1>1, <2>1, <2>2
<1>5. CheckUpgrade(events, s[1].version) = {<<>>}
  <2>1. Cardinality({}) = 0
    BY FS_EmptySet
  <2>2. CheckUpgrade(events, s[1].version) =
          {t \in [1..0 -> {}] : /\ \A r \in {} : \E i \in 1..0 : t[i] = r
                               /\ \A i \in 1..(0 - 1) : ~Swaps(t[i], t[i + 1])}
    BY <1>4, <2>1 DEF CheckUpgrade
  <2>3. 1..0 = {} /\ 1..(0 - 1) = {}
    OBVIOUS
  <2>4. [{} -> {}] = {<<>>}
    <3>1. <<>> \in [{} -> {}]
      OBVIOUS
    <3>2. \A t \in [{} -> {}] : t = <<>>
      OBVIOUS
    <3> QED
      BY <3>1, <3>2
  <2> QED
    BY <2>2, <2>3, <2>4
<1> QED
  BY <1>2, <1>4, <1>5

\* So UpgradesSettle, which the runs evaluate over small sets, holds for any
\* versions whose fragments are numbers.
THEOREM UpgradesAlwaysSettle ==
  Versions \subseteq Numeric => UpgradesSettle
<1> SUFFICES ASSUME Versions \subseteq Numeric,
                    NEW a \in SomeReleases, NEW b \in GoodReleases,
                    NEW c \in GoodReleases, NEW v \in Versions,
                    NEW s \in CheckUpgrade({a, b, c}, v)
             PROVE  /\ \A i \in DOMAIN s, p \in Signers :
                         SignatureOf(s[i], p) \in s[i].sigs
                    /\ Len(s) > 0 =>
                         /\ CheckUpgrade({a, b, c}, s[1].version) = {<<>>}
                         /\ ~IsNewVersion(v, s[1].version)
  BY DEF UpgradesSettle
<1>1. PICK events : events = {a, b, c}
  OBVIOUS
<1>2. IsFiniteSet(events)
  <2>1. events = (({} \cup {a}) \cup {b}) \cup {c}
    BY <1>1
  <2> QED
    BY <2>1, FS_EmptySet, FS_AddElement
<1>3. v \in Numeric /\ \A e \in events : e.version \in Numeric
  BY <1>1 DEF SomeReleases, GoodReleases
<1>4. s \in CheckUpgrade(events, v)
  BY <1>1
<1>5. \A i \in DOMAIN s, p \in Signers : SignatureOf(s[i], p) \in s[i].sigs
  <2>1. \A i \in DOMAIN s : s[i] \in ValidReleases(events, v)
    BY <1>4 DEF CheckUpgrade
  <2> QED
    BY <2>1 DEF ValidReleases, FullySigned, SigsOf
<1>6. Len(s) > 0 => s # <<>>
  OBVIOUS
<1> QED
  BY <1>1, <1>2, <1>3, <1>4, <1>5, <1>6, FirstUpgradeSettles

\* lastIndexOf finds the place after which the separator does not come again.
LEMMA LastOfFound ==
  ASSUME NEW W, NEW s \in Seq(W), NEW x, NEW i \in 1..Len(s), s[i] = x,
         \A j \in (i + 1)..Len(s) : s[j] # x
  PROVE  LastOf(s, x) = i
<1>1. DOMAIN s = 1..Len(s) /\ Len(s) \in Nat
  OBVIOUS
<1> DEFINE Last(k) == s[k] = x /\ \A j \in (k + 1)..Len(s) : s[j] # x
<1>2. Last(i) /\ i \in DOMAIN s
  BY <1>1
<1>3. ASSUME NEW k \in DOMAIN s, Last(k) PROVE k = i
  BY <1>1, <1>3
<1>4. (CHOOSE k \in DOMAIN s : Last(k)) = i
  <2> HIDE DEF Last
  <2> QED
    BY <1>2, <1>3
<1> QED
  BY <1>2, <1>4 DEF LastOf

LEMMA LastOfNone ==
  ASSUME NEW s, NEW x, \A i \in DOMAIN s : s[i] # x
  PROVE  LastOf(s, x) = 0
BY DEF LastOf

\* A separator and what follows it are taken off again.
LEMMA SplitAgain ==
  ASSUME NEW W, NEW b \in Seq(W), NEW e \in Seq(W), Len(e) # 0,
         \A j \in 2..Len(e) : e[j] # e[1]
  PROVE  /\ b \o e \in Seq(W)
         /\ LastOf(b \o e, e[1]) = Len(b) + 1
         /\ Before(b \o e, Len(b) + 1) = b
         /\ After(b \o e, Len(b) + 1) = SubSeq(e, 2, Len(e))
<1> DEFINE s == b \o e
<1>1. /\ s \in Seq(W) /\ Len(s) = Len(b) + Len(e) /\ Len(e) >= 1
      /\ Len(b) \in Nat /\ Len(e) \in Nat
  BY Z3
<1>2. /\ \A i \in 1..Len(b) : s[i] = b[i]
      /\ \A i \in 1..Len(e) : s[Len(b) + i] = e[i]
  OBVIOUS
<1> HIDE DEF s
<1>3. LastOf(s, e[1]) = Len(b) + 1
  <2>1. ASSUME NEW j \in (Len(b) + 2)..Len(s) PROVE s[j] # e[1]
    <3>1. j - Len(b) \in 2..Len(e) /\ j = Len(b) + (j - Len(b))
      BY <1>1
    <3>2. PICK k \in 2..Len(e) : k = j - Len(b)
      BY <3>1
    <3>3. k \in 1..Len(e)
      BY <1>1
    <3>4. s[Len(b) + k] = e[k]
      BY <1>2, <3>3
    <3>5. e[k] # e[1]
      OBVIOUS
    <3> QED
      BY <3>1, <3>2, <3>4, <3>5
  <2>2. /\ Len(b) + 1 \in 1..Len(s) /\ s[Len(b) + 1] = e[1]
        /\ (Len(b) + 1) + 1 = Len(b) + 2
    BY <1>1, <1>2
  <2> QED
    BY <1>1, <2>1, <2>2, LastOfFound
<1>4. SubSeq(s, 1, Len(b)) = b
  BY <1>1, <1>2
<1>5. SubSeq(s, Len(b) + 2, Len(s)) = SubSeq(e, 2, Len(e))
  BY <1>1, <1>2
<1> QED
  BY <1>1, <1>3, <1>4, <1>5 DEF s, Before, After

\* What comes in a sequence has a last place there.
LEMMA LastOfIsThere ==
  ASSUME NEW W, NEW s \in Seq(W), NEW x, \E i \in DOMAIN s : s[i] = x
  PROVE  LastOf(s, x) \in 1..Len(s) /\ s[LastOf(s, x)] = x
<1>1. DOMAIN s = 1..Len(s) /\ Len(s) \in Nat
  OBVIOUS
<1> DEFINE B == {k \in Nat : \E i \in 1..Len(s) : s[i] = x /\ k = Len(s) - i}
<1>2. B # {} /\ B \subseteq Nat
  <2>1. PICK i \in 1..Len(s) : s[i] = x
    BY <1>1
  <2>2. Len(s) - i \in Nat
    BY <1>1
  <2> QED
    BY <2>1, <2>2
<1>3. PICK k \in B : \A j \in B : ~(j < k)
  <2> HIDE DEF B
  <2>1. \E k \in B : \A j \in B : ~(<<j, k>> \in OpToRel(<, Nat))
    BY <1>2, WFMin, NatLessThanWellFounded, Zenon
  <2>2. \A k, j \in Nat : <<j, k>> \in OpToRel(<, Nat) <=> j < k
    BY DEF OpToRel
  <2> QED
    BY <1>2, <2>1, <2>2, Zenon
<1>4. PICK i \in 1..Len(s) : s[i] = x /\ k = Len(s) - i
  BY <1>3
<1>5. ASSUME NEW j \in (i + 1)..Len(s) PROVE s[j] # x
  <2>1. Len(s) - j \in Nat /\ Len(s) - j < k /\ j \in 1..Len(s)
    BY <1>1, <1>4
  <2> QED
    BY <1>3, <2>1
<1>6. LastOf(s, x) = i
  BY <1>4, <1>5, LastOfFound
<1> QED
  BY <1>4, <1>6

\* x is a separator or word of the reference s.
Has(s, x) == \E i \in DOMAIN s : s[i] = x

LEMMA LastOfIsZero ==
  ASSUME NEW W, NEW s \in Seq(W), NEW x
  PROVE  /\ LastOf(s, x) \in 0..Len(s)
         /\ LastOf(s, x) = 0 <=> ~Has(s, x)
<1>1. Len(s) \in Nat
  OBVIOUS
<1>2. CASE Has(s, x)
  <2>1. LastOf(s, x) \in 1..Len(s)
    BY <1>2, LastOfIsThere DEF Has
  <2> QED
    BY <1>1, <1>2, <2>1
<1>3. CASE ~Has(s, x)
  <2>1. LastOf(s, x) = 0
    BY <1>3, LastOfNone DEF Has
  <2> QED
    BY <1>1, <1>3, <2>1
<1> QED
  BY <1>2, <1>3

\* One more word: what is there was there or is the word.
Added(s, w) == s \o <<w>>

LEMMA Grown ==
  ASSUME NEW W, NEW s \in Seq(W), NEW w \in W
  PROVE  /\ Added(s, w) \in Seq(W)
         /\ Len(s) \in Nat /\ Len(Added(s, w)) = Len(s) + 1
         /\ \A i \in 1..Len(s) : Added(s, w)[i] = s[i]
         /\ Added(s, w)[Len(s) + 1] = w
         /\ \A x : Has(Added(s, w), x) <=> Has(s, x) \/ w = x
<1>1. <<w>> \in Seq(W) /\ Len(<<w>>) = 1 /\ <<w>>[1] = w
  OBVIOUS
<1>2. PICK e \in Seq(W) : e = <<w>>
  BY <1>1
<1>3. PICK g : g = s \o e
  OBVIOUS
<1>4. /\ g \in Seq(W) /\ Len(g) = Len(s) + 1 /\ Len(s) \in Nat
      /\ \A i \in 1..(Len(s) + 1) :
           g[i] = IF i <= Len(s) THEN s[i] ELSE e[i - Len(s)]
  BY <1>1, <1>2, <1>3, ConcatProperties
<1>5. DOMAIN g = 1..(Len(s) + 1) /\ DOMAIN s = 1..Len(s)
  BY <1>4
<1>6. \A i \in 1..Len(s) : g[i] = s[i]
  BY <1>4
<1>7. g[Len(s) + 1] = w
  <2>1. Len(s) + 1 \in 1..(Len(s) + 1) /\ ~(Len(s) + 1 <= Len(s))
        /\ (Len(s) + 1) - Len(s) = 1
    BY <1>4
  <2> QED
    BY <1>1, <1>2, <1>4, <2>1
<1>8. \A i \in DOMAIN g : i \in DOMAIN s \/ i = Len(s) + 1
  BY <1>4, <1>5
<1>9. DOMAIN s \subseteq DOMAIN g /\ Len(s) + 1 \in DOMAIN g
  BY <1>4, <1>5
<1>10. \A x : Has(g, x) <=> Has(s, x) \/ w = x
  BY <1>5, <1>6, <1>7, <1>8, <1>9 DEF Has
<1>11. g = Added(s, w)
  BY <1>2, <1>3 DEF Added
<1> QED
  BY <1>4, <1>5, <1>6, <1>7, <1>10, <1>11

\* Two words at once are one after the other.  What is built of words has a
\* name, so that the provers take it as a term when they use a lemma about it.
One(v) == <<v>>
Two(v, w) == <<v, w>>
AddedTwo(s, v, w) == s \o <<v, w>>
AddedOne(s, v, w) == AddedTwo(s, v, w) = Added(Added(s, v), w)

LEMMA Glued ==
  ASSUME NEW W, NEW s \in Seq(W), NEW v \in W, NEW w \in W
  PROVE  /\ AddedOne(s, v, w)
         /\ Added(One(v), w) = Two(v, w)
<1>1. /\ <<v>> \in Seq(W) /\ Len(<<v>>) = 1 /\ <<v>>[1] = v
      /\ <<w>> \in Seq(W) /\ Len(<<w>>) = 1 /\ <<w>>[1] = w
  OBVIOUS
<1>2. PICK e \in Seq(W) : e = <<v>>
  BY <1>1
<1>3. PICK f \in Seq(W) : f = <<w>>
  BY <1>1
<1>4. PICK g : g = <<v, w>>
  OBVIOUS
<1>5. g \in Seq(W) /\ Len(g) = 2 /\ g[1] = v /\ g[2] = w
  BY <1>4
<1>6. PICK h : h = e \o f
  OBVIOUS
<1>7. h \in Seq(W) /\ Len(h) = 2 /\ h[1] = v /\ h[2] = w
  BY <1>1, <1>2, <1>3, <1>6
<1>8. h = g
  BY <1>5, <1>7
<1>9. s \o (e \o f) = (s \o e) \o f
  BY ConcatAssociative
<1>10. (s \o e) \o f = Added(Added(s, v), w)
  BY <1>2, <1>3 DEF Added
<1>11. AddedOne(s, v, w)
  BY <1>4, <1>6, <1>8, <1>9, <1>10 DEF AddedTwo, AddedOne
<1>12. Added(One(v), w) = Two(v, w)
  BY <1>2, <1>3, <1>4, <1>6, <1>8 DEF One, Two, Added
<1> QED
  BY <1>11, <1>12

\* What follows the separator of a tag or a digest.
LEMMA Pair ==
  ASSUME NEW W, NEW v \in W, NEW w \in W
  PROVE  /\ <<v, w>> \in Seq(W) /\ Len(<<v, w>>) = 2
         /\ <<v, w>>[1] = v /\ <<v, w>>[2] = w
         /\ SubSeq(<<v, w>>, 2, 2) = <<w>>
<1>1. PICK e : e = <<v, w>>
  OBVIOUS
<1>2. e \in Seq(W) /\ Len(e) = 2 /\ e[1] = v /\ e[2] = w
  BY <1>1
<1>3. PICK f : f = SubSeq(e, 2, 2)
  OBVIOUS
<1>4. f \in Seq(W) /\ Len(f) = 1 /\ f[1] = w
  BY <1>2, <1>3
<1>5. PICK g : g = <<w>>
  OBVIOUS
<1>6. g \in Seq(W) /\ Len(g) = 1 /\ g[1] = w
  BY <1>5
<1>7. f = g
  BY <1>4, <1>6
<1> QED
  BY <1>1, <1>2, <1>3, <1>5, <1>7

LEMMA Quadruple ==
  ASSUME NEW W, NEW a \in W, NEW b \in W, NEW c \in W, NEW d \in W
  PROVE  /\ <<a, b, c, d>> \in Seq(W) /\ Len(<<a, b, c, d>>) = 4
         /\ <<a, b, c, d>>[1] = a /\ <<a, b, c, d>>[2] = b
         /\ <<a, b, c, d>>[3] = c /\ <<a, b, c, d>>[4] = d
         /\ SubSeq(<<a, b, c, d>>, 2, 4) = <<b, c, d>>
<1>1. PICK e : e = <<a, b, c, d>>
  OBVIOUS
<1>2. e \in Seq(W) /\ Len(e) = 4 /\ e[1] = a /\ e[2] = b /\ e[3] = c /\ e[4] = d
  BY <1>1
<1>3. PICK f : f = SubSeq(e, 2, 4)
  OBVIOUS
<1>4. f \in Seq(W) /\ Len(f) = 3 /\ f[1] = b /\ f[2] = c /\ f[3] = d
  BY <1>2, <1>3
<1>5. PICK g : g = <<b, c, d>>
  OBVIOUS
<1>6. g \in Seq(W) /\ Len(g) = 3 /\ g[1] = b /\ g[2] = c /\ g[3] = d
  BY <1>5
<1>7. \A i \in 1..3 : f[i] = g[i]
  BY <1>4, <1>6
<1>8. f = g
  BY <1>4, <1>6, <1>7
<1> QED
  BY <1>1, <1>2, <1>3, <1>5, <1>8

Three(a, b, c) == <<a, b, c>>
Four(a, b, c, d) == <<a, b, c, d>>
OneMore(a, b, c, d) == Added(Three(a, b, c), d) = Four(a, b, c, d)

LEMMA Joined ==
  ASSUME NEW W, NEW a \in W, NEW b \in W, NEW c \in W, NEW d \in W
  PROVE  OneMore(a, b, c, d)
<1>1. PICK t : t = <<a, b, c>>
  OBVIOUS
<1>2. t \in Seq(W) /\ Len(t) = 3 /\ t[1] = a /\ t[2] = b /\ t[3] = c
  BY <1>1
<1>3. PICK s : s = Added(t, d)
  OBVIOUS
<1>4. /\ s \in Seq(W) /\ Len(s) = Len(t) + 1
      /\ \A i \in 1..Len(t) : s[i] = t[i]
      /\ s[Len(t) + 1] = d
  <2>1. t \in Seq(W) /\ d \in W
    BY <1>2
  <2>2. /\ Added(t, d) \in Seq(W) /\ Len(Added(t, d)) = Len(t) + 1
        /\ \A i \in 1..Len(t) : Added(t, d)[i] = t[i]
        /\ Added(t, d)[Len(t) + 1] = d
    BY <2>1, Grown
  <2> QED
    BY <1>3, <2>2
<1>5. Len(s) = 4 /\ s[1] = a /\ s[2] = b /\ s[3] = c /\ s[4] = d
  BY <1>2, <1>4
<1>6. PICK q : q = <<a, b, c, d>>
  OBVIOUS
<1>7. q \in Seq(W) /\ Len(q) = 4 /\ q[1] = a /\ q[2] = b /\ q[3] = c /\ q[4] = d
  BY <1>6
<1>8. \A i \in 1..4 : s[i] = q[i]
  BY <1>5, <1>7
<1>9. s = q
  BY <1>4, <1>5, <1>7, <1>8
<1> QED
  BY <1>1, <1>3, <1>6, <1>9 DEF OneMore, Three, Four

\* A reference without words has no separator.
LEMMA EmptySeqHas ==
  ASSUME NEW x
  PROVE  ~Has(<<>>, x)
<1>1. \A s \in Seq({}) : Len(s) = 0 => DOMAIN s = {}
  OBVIOUS
<1>2. <<>> \in Seq({}) /\ Len(<<>>) = 0
  OBVIOUS
<1> QED
  BY <1>1, <1>2 DEF Has

\* A registry, an owner and a name, and the separators that are among them.
Base(h, o, n) == h \o (IF o = "" THEN <<>> ELSE <<o, "/">>) \o <<n>>

\* What stands before the owner: nothing, or a host that a "/" ends.
IsRegistry(h) == ~Has(h, "@") /\ (h # <<>> => Has(h, "/"))

LEMMA BaseShape ==
  ASSUME NEW W, Names \subseteq W, "/" \in W, NEW h \in Seq(W),
         IsRegistry(h),
         NEW o \in Names \cup {""}, NEW n \in Names
  PROVE  /\ Base(h, o, n) \in Seq(W)
         /\ ~Has(Base(h, o, n), "@")
         /\ ~Has(h, ":") => ~Has(Base(h, o, n), ":")
         /\ Has(Base(h, o, n), "/") <=> ~(h = <<>> /\ o = "")
<1>1. \A w \in Names : w # "/" /\ w # ":" /\ w # "@" /\ w # "" /\ w \in W
  BY ReleasesAssumption
<1>2. CASE o = ""
  <2>1. Base(h, o, n) = Added(h, n)
    <3>1. Base(h, o, n) = (h \o <<>>) \o <<n>>
      BY <1>2 DEF Base
    <3>2. h \o <<>> = h
      BY ConcatEmptySeq
    <3> QED
      BY <3>1, <3>2 DEF Added
  <2>2. /\ Added(h, n) \in Seq(W)
        /\ \A x : Has(Added(h, n), x) <=> Has(h, x) \/ n = x
    BY <1>1, Grown
  <2>3. h = <<>> => ~Has(h, "/")
    BY EmptySeqHas
  <2> QED
    BY <1>1, <1>2, <2>1, <2>2, <2>3 DEF IsRegistry
<1>3. CASE o # ""
  <2>1. o \in W /\ n \in W /\ "/" \in W /\ h \in Seq(W)
    BY <1>1, <1>3
  <2>2. PICK f : f = Added(h, o)
    OBVIOUS
  <2>3. f \in Seq(W) /\ \A x : Has(f, x) <=> Has(h, x) \/ o = x
    BY <2>1, <2>2, Grown
  <2>4. PICK g : g = Added(f, "/")
    OBVIOUS
  <2>5. g \in Seq(W) /\ \A x : Has(g, x) <=> Has(f, x) \/ "/" = x
    <3>1. f \in Seq(W)
      BY <2>3
    <3>2. /\ Added(f, "/") \in Seq(W)
          /\ \A x : Has(Added(f, "/"), x) <=> Has(f, x) \/ "/" = x
      BY <3>1, <2>1, Grown
    <3> QED
      BY <2>4, <3>2
  <2>6. Base(h, o, n) = Added(g, n)
    <3>1. AddedTwo(h, o, "/") = Added(Added(h, o), "/")
      <4>1. AddedOne(h, o, "/")
        BY <2>1, Glued
      <4> QED
        BY <4>1 DEF AddedOne
    <3>2. Base(h, o, n) = AddedTwo(h, o, "/") \o <<n>>
      BY <1>3 DEF Base, AddedTwo
    <3>3. Base(h, o, n) = g \o <<n>>
      BY <2>2, <2>4, <3>1, <3>2
    <3> QED
      BY <3>3 DEF Added
  <2>7. /\ Added(g, n) \in Seq(W)
        /\ \A x : Has(Added(g, n), x) <=> Has(g, x) \/ n = x
    <3>1. g \in Seq(W) /\ n \in W
      BY <2>1, <2>5
    <3> QED
      BY <3>1, Grown
  <2>8. n # "@" /\ o # "@" /\ n # ":" /\ o # ":"
    BY <1>1, <1>3
  <2> QED
    BY <1>3, <2>3, <2>5, <2>6, <2>7, <2>8 DEF IsRegistry
<1> QED
  BY <1>2, <1>3

\* parseImageReference on a repository with a digest.
LEMMA ParsesDigest ==
  ASSUME NEW W, Names \subseteq W, {":", "@", "sha256"} \subseteq W,
         NEW b \in Seq(W), NEW d \in Names
  PROVE  ParseImageReference(b \o <<"@", "sha256", ":", d>>) =
           [repository |-> Repository(b), reference |-> <<"sha256", ":", d>>,
            isDigest |-> TRUE]
<1>1. d # "@" /\ d \in W
  BY ReleasesAssumption
<1>2. PICK e : e = <<"@", "sha256", ":", d>>
  OBVIOUS
<1>3. PICK r : r = <<"sha256", ":", d>>
  OBVIOUS
<1>4. /\ e \in Seq(W) /\ Len(e) = 4
      /\ e[1] = "@" /\ e[2] = "sha256" /\ e[3] = ":" /\ e[4] = d
      /\ SubSeq(e, 2, 4) = r
  <2>1. "@" \in W /\ "sha256" \in W /\ ":" \in W
    OBVIOUS
  <2> QED
    BY <1>1, <1>2, <1>3, <2>1, Quadruple
<1>5. Len(e) # 0 /\ \A j \in 2..Len(e) : e[j] # e[1]
  <2>1. e[2] # e[1] /\ e[3] # e[1] /\ e[4] # e[1]
    BY <1>1, <1>4
  <2>2. \A j \in 2..4 : j = 2 \/ j = 3 \/ j = 4
    OBVIOUS
  <2> QED
    BY <1>4, <2>1, <2>2
<1>6. /\ LastOf(b \o e, "@") = Len(b) + 1
      /\ Before(b \o e, Len(b) + 1) = b
      /\ After(b \o e, Len(b) + 1) = r
  <2>1. /\ LastOf(b \o e, e[1]) = Len(b) + 1
        /\ Before(b \o e, Len(b) + 1) = b
        /\ After(b \o e, Len(b) + 1) = SubSeq(e, 2, Len(e))
    BY <1>4, <1>5, SplitAgain
  <2> QED
    BY <1>4, <2>1
<1>7. Len(b) + 1 # 0
  OBVIOUS
<1>8. ParseImageReference(b \o e) =
        [repository |-> Repository(b), reference |-> r, isDigest |-> TRUE]
  BY <1>6, <1>7 DEF ParseImageReference
<1> QED
  BY <1>2, <1>3, <1>8

\* parseImageReference on a repository with a tag.
LEMMA ParsesTag ==
  ASSUME NEW W, Names \subseteq W, ":" \in W,
         NEW b \in Seq(W), ~Has(b, "@"), NEW t \in Names
  PROVE  ParseImageReference(b \o <<":", t>>) =
           [repository |-> Repository(b), reference |-> <<t>>,
            isDigest |-> FALSE]
<1>1. t # "@" /\ t # "/" /\ t # ":" /\ t \in W
  BY ReleasesAssumption
<1>2. PICK e : e = <<":", t>>
  OBVIOUS
<1>3. PICK r : r = <<t>>
  OBVIOUS
<1>4. /\ e \in Seq(W) /\ Len(e) = 2 /\ e[1] = ":" /\ e[2] = t
      /\ SubSeq(e, 2, 2) = r
  <2>1. ":" \in W
    OBVIOUS
  <2> QED
    BY <1>1, <1>2, <1>3, <2>1, Pair
<1>5. Len(e) # 0 /\ \A j \in 2..Len(e) : e[j] # e[1]
  <2>1. e[2] # e[1] /\ \A j \in 2..2 : j = 2
    BY <1>1, <1>4
  <2> QED
    BY <1>4, <2>1
<1>6. PICK s : s = b \o e
  OBVIOUS
<1>7. /\ s \in Seq(W) /\ LastOf(s, ":") = Len(b) + 1
      /\ Before(s, Len(b) + 1) = b
      /\ After(s, Len(b) + 1) = r
  <2>1. /\ s \in Seq(W) /\ LastOf(s, e[1]) = Len(b) + 1
        /\ Before(s, Len(b) + 1) = b
        /\ After(s, Len(b) + 1) = SubSeq(e, 2, Len(e))
    BY <1>4, <1>5, <1>6, SplitAgain
  <2> QED
    BY <1>4, <2>1
<1>8. PICK g : g = Added(b, ":")
  OBVIOUS
<1>9. /\ g \in Seq(W) /\ Len(g) = Len(b) + 1 /\ Len(b) \in Nat
      /\ g[Len(b) + 1] = ":"
      /\ \A x : Has(g, x) <=> Has(b, x) \/ ":" = x
  <2>1. ":" \in W
    OBVIOUS
  <2> QED
    BY <1>8, <2>1, Grown
<1>10. s = Added(g, t)
  <2>1. ":" \in W
    OBVIOUS
  <2>2. AddedTwo(b, ":", t) = Added(Added(b, ":"), t)
    <3>1. AddedOne(b, ":", t)
      BY <1>1, <2>1, Glued
    <3> QED
      BY <3>1 DEF AddedOne
  <2> QED
    BY <1>2, <1>6, <1>8, <2>2 DEF AddedTwo
<1>11. /\ Len(s) = Len(b) + 2
      /\ s[Len(b) + 1] = ":" /\ s[Len(b) + 2] = t
      /\ \A x : Has(s, x) <=> Has(g, x) \/ t = x
  <2>1. /\ Len(s) = Len(g) + 1 /\ s[Len(g) + 1] = t
        /\ \A i \in 1..Len(g) : s[i] = g[i]
        /\ \A x : Has(s, x) <=> Has(g, x) \/ t = x
    <3>1. g \in Seq(W) /\ t \in W
      BY <1>1, <1>9
    <3>2. /\ Len(Added(g, t)) = Len(g) + 1 /\ Added(g, t)[Len(g) + 1] = t
          /\ \A i \in 1..Len(g) : Added(g, t)[i] = g[i]
      BY <3>1, Grown
    <3>3. \A x : Has(Added(g, t), x) <=> Has(g, x) \/ t = x
      BY <3>1, Grown
    <3> QED
      BY <1>10, <3>2, <3>3
  <2>2. Len(g) + 1 = Len(b) + 2 /\ Len(b) + 1 \in 1..Len(g)
    BY <1>9
  <2> QED
    BY <1>9, <2>1, <2>2
<1>12. LastOf(s, "@") = 0
  BY <1>1, <1>7, <1>9, <1>11, LastOfIsZero
<1>13. Len(b) + 1 # 0 /\ Len(b) + 1 > LastOf(s, "/")
  <2>1. PICK l : l = LastOf(s, "/")
    OBVIOUS
  <2>2. l \in 0..(Len(b) + 2)
    BY <1>7, <1>11, <2>1, LastOfIsZero
  <2>3. CASE Has(s, "/")
    <3>1. s[l] = "/"
      BY <1>7, <2>1, <2>3, LastOfIsThere DEF Has
    <3>2. l # Len(b) + 1 /\ l # Len(b) + 2
      BY <1>1, <1>11, <3>1
    <3> QED
      BY <1>9, <2>1, <2>2, <3>2
  <2>4. CASE ~Has(s, "/")
    BY <1>7, <1>9, <2>4, LastOfIsZero
  <2> QED
    BY <2>3, <2>4
<1>14. ParseImageReference(s) =
         [repository |-> Repository(b), reference |-> r, isDigest |-> FALSE]
  BY <1>7, <1>12, <1>13 DEF ParseImageReference
<1> QED
  BY <1>2, <1>6, <1>3, <1>14

\* A reference that is built of a registry, an owner, a name, and a tag or a
\* digest is taken apart into them, whatever they are: ParsesReferences for
\* any names, and any registries that have a "/" and no digest of their own.
THEOREM ReferencesParse ==
  ASSUME NEW W, Names \subseteq W, {"/", ":", "@", "sha256"} \subseteq W,
         Hosts \subseteq Seq(W),
         \A h \in Hosts : IsRegistry(h)
  PROVE  ParsesReferences
<1> USE DEF ParsesReferences
<1> TAKE h \in Hosts, o \in Names \cup {""}, n \in Names, t \in Names \cup {""},
         d \in Names \cup {""}
<1> HAVE /\ t = "" \/ d = ""
         /\ LastOf(h, ":") = 0 \/ t # "" \/ d # ""
<1> HIDE DEF ParsesReferences
<1>1. PICK b : b = Base(h, o, n)
  OBVIOUS
<1>2. /\ b \in Seq(W) /\ ~Has(b, "@")
      /\ ~Has(h, ":") => ~Has(b, ":")
      /\ Has(b, "/") <=> ~(h = <<>> /\ o = "")
  <2>1. h \in Seq(W) /\ "/" \in W
    OBVIOUS
  <2> QED
    BY <1>1, <2>1, BaseShape
<1>3. b \o <<>> = b /\ <<>> \o b = b
  BY <1>2, ConcatEmptySeq
<1>4. Reference(h, o, n, "", "") = b
  <2>1. Reference(h, o, n, "", "") = (b \o <<>>) \o <<>>
    BY <1>1 DEF Reference, Optional, Base
  <2> QED
    BY <1>3, <2>1
<1>5. Repository(b) =
        (IF h = <<>> /\ o = "" THEN <<"library", "/">> ELSE <<>>) \o b
  <2>1. LastOf(b, "/") = 0 <=> h = <<>> /\ o = ""
    BY <1>2, LastOfIsZero
  <2> QED
    BY <1>3, <2>1 DEF Repository
<1>6. CASE d # ""
  <2>1. t = "" /\ d \in Names
    BY <1>6
  <2>2. Reference(h, o, n, t, d) = b \o <<"@", "sha256", ":", d>>
    <3>1. <<"@", "sha256", ":">> \o <<d>> = <<"@", "sha256", ":", d>>
      <4>1. d \in W /\ "@" \in W /\ "sha256" \in W /\ ":" \in W
        BY <2>1
      <4>2. OneMore("@", "sha256", ":", d)
        BY <4>1, Joined
      <4> QED
        BY <4>2 DEF OneMore, Added, Three, Four
    <3>2. Reference(h, o, n, t, d) =
            (b \o <<>>) \o (<<"@", "sha256", ":">> \o <<d>>)
      BY <1>1, <1>6, <2>1 DEF Reference, Base, Optional
    <3> QED
      BY <1>3, <3>1, <3>2
  <2>3. ParseImageReference(b \o <<"@", "sha256", ":", d>>) =
          [repository |-> Repository(b), reference |-> <<"sha256", ":", d>>,
           isDigest |-> TRUE]
    BY <1>2, <2>1, ParsesDigest
  <2> QED
    BY <1>4, <1>5, <1>6, <2>2, <2>3
<1>7. CASE d = "" /\ t # ""
  <2>1. t \in Names
    BY <1>7
  <2>2. Reference(h, o, n, t, d) = b \o <<":", t>>
    <3>1. <<":">> \o <<t>> = <<":", t>>
      <4>1. t \in W /\ ":" \in W
        BY <2>1
      <4>2. b \in Seq(W)
        BY <1>2
      <4>3. Added(One(":"), t) = Two(":", t)
        BY <4>1, <4>2, Glued
      <4> QED
        BY <4>3 DEF Added, One, Two
    <3>2. Reference(h, o, n, t, d) = (b \o (<<":">> \o <<t>>)) \o <<>>
      BY <1>1, <1>7, <2>1 DEF Reference, Base, Optional
    <3>3. b \o <<":", t>> \in Seq(W)
      BY <1>2, <2>1, Pair, ConcatProperties
    <3> QED
      BY <3>1, <3>2, <3>3, ConcatEmptySeq
  <2>3. ParseImageReference(b \o <<":", t>>) =
          [repository |-> Repository(b), reference |-> <<t>>,
           isDigest |-> FALSE]
    BY <1>2, <2>1, ParsesTag
  <2> QED
    BY <1>4, <1>5, <1>7, <2>2, <2>3
<1>8. CASE d = "" /\ t = ""
  <2>1. ~Has(h, ":")
    <3>1. LastOf(h, ":") = 0 /\ h \in Seq(W)
      BY <1>8
    <3> QED
      BY <3>1, LastOfIsZero
  <2>2. LastOf(b, "@") = 0 /\ LastOf(b, ":") = 0
    BY <1>2, <2>1, LastOfIsZero
  <2>3. ParseImageReference(b) =
          [repository |-> Repository(b), reference |-> <<"latest">>,
           isDigest |-> FALSE]
    BY <2>2 DEF ParseImageReference
  <2> QED
    BY <1>4, <1>5, <1>8, <2>3
<1> QED
  BY <1>6, <1>7, <1>8
===============================================================================
