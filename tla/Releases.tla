------------------------------- MODULE Releases -------------------------------
(***************************************************************************)
(* The pure functions that decide which image is meant and which release   *)
(* replaces it: parseImageReference (src/src/modules/manifest.ts),         *)
(* isNewVersion and checkUpgrade (modules/nostr.ts).  They run behind the  *)
(* commands docker_inspect, is_new_version and check_docker_upgrades of    *)
(* src/src/cli/index.ts and, the first, behind every launch.               *)
(*                                                                         *)
(* An image reference is the sequence of its separators and words, a       *)
(* version the sequence of its fragments as numbers.  A signature that a   *)
(* release event carries is taken to be by the key it names (verifyEvent). *)
(***************************************************************************)
EXTENDS Integers, Sequences, FiniteSets

CONSTANTS
  Names,     \* words of image references
  Hosts,     \* prefixes that name a registry; <<>> for none
  Signers,   \* the pubkeys an installed image names as its signers
  Versions,  \* versions of releases
  NaN        \* Number() of a fragment that is no number

\* The words of a reference are not its separators; NaN is not a number.
ASSUME ReleasesAssumption == Names \cap {"/", ":", "@", ""} = {} /\ NaN \notin Nat
-----------------------------------------------------------------------------
(* parseImageReference                                                     *)

\* lastIndexOf, 0 if there is none
LastOf(s, x) ==
  IF \E i \in DOMAIN s : s[i] = x
    THEN CHOOSE i \in DOMAIN s : s[i] = x /\ \A j \in (i + 1)..Len(s) : s[j] # x ELSE 0

Before(s, i) == SubSeq(s, 1, i - 1)
After(s, i)  == SubSeq(s, i + 1, Len(s))

\* official images are in the "library" namespace
Repository(s) == IF LastOf(s, "/") = 0 THEN <<"library", "/">> \o s ELSE s

\* A colon separates a tag if no "/" is before it, or none after it.
ParseImageReference(s) ==
  LET at == LastOf(s, "@")
      colon == LastOf(s, ":")
      tagged == colon # 0 /\ (LastOf(Before(s, colon), "/") = 0 \/ colon > LastOf(s, "/"))
      cut == IF at # 0 THEN at ELSE IF tagged THEN colon ELSE 0
  IN [repository |-> Repository(IF cut = 0 THEN s ELSE Before(s, cut)),
      reference  |-> IF cut = 0 THEN <<"latest">> ELSE After(s, cut),
      isDigest   |-> at # 0]
-----------------------------------------------------------------------------
(* isNewVersion                                                            *)

Same(m, n) == m = n /\ m # NaN
\* JavaScript's >, which is false when one side is NaN
Above(m, n) == m # NaN /\ n # NaN /\ m > n

\* The loop: equal fragments are passed; at the first other one v is newer if
\* w is over or has the smaller one.
IsNewVersion(v, w) ==
  \E i \in DOMAIN v :
    /\ \A j \in 1..(i - 1) : j <= Len(w) /\ Same(v[j], w[j])
    /\ i > Len(w) \/ Above(v[i], w[i])
-----------------------------------------------------------------------------
(* checkUpgrade, for one repository                                        *)

\* A release event has an author, the image it releases, the version, and the
\* signatures embedded in it; a signature is for an image and a version.
SignatureOf(r, p) == [by |-> p, id |-> r.id, version |-> r.version]

\* releases by a signer and newer than the installed version
NewReleases(events, version) ==
  {e \in events : e.by \in Signers /\ IsNewVersion(e.version, version)}

\* embedded signatures of a signer that are for this release
SigsOf(r) == {s \in r.sigs : s.by \in Signers /\ s = SignatureOf(r, s.by)}
\* every signer is found among them
FullySigned(r) == \A p \in Signers : \E s \in SigsOf(r) : s.by = p

ValidReleases(events, version) == {r \in NewReleases(events, version) : FullySigned(r)}

\* What the sort's comparison asks to be swapped: a pair in which only the
\* second is newer.
Swaps(a, b) == ~IsNewVersion(a.version, b.version) /\ IsNewVersion(b.version, a.version)

\* the lists the sort may return
CheckUpgrade(events, version) ==
  LET V == ValidReleases(events, version)
      n == Cardinality(V)
  IN {s \in [1..n -> V] : /\ \A r \in V : \E i \in 1..n : s[i] = r
                          /\ \A i \in 1..(n - 1) : ~Swaps(s[i], s[i + 1])}
-----------------------------------------------------------------------------
(* What the functions promise, over the bounded inputs given by the        *)
(* constants.                                                              *)

\* A reference is a registry, an owner, a name, and a tag or a digest.
Optional(w, before) == IF w = "" THEN <<>> ELSE before \o <<w>>
Reference(h, o, n, t, d) ==
  h \o (IF o = "" THEN <<>> ELSE <<o, "/">>) \o <<n>>
    \o Optional(t, <<":">>) \o Optional(d, <<"@", "sha256", ":">>)

\* parseImageReference gives the registry, owner and name as the repository,
\* with "library" where there is neither registry nor owner, and the digest,
\* the tag or "latest" as the reference: whatever of these the reference
\* names, unless it has both a tag and a digest, or a port and neither.
ParsesReferences ==
  \A h \in Hosts, o \in Names \cup {""}, n \in Names, t \in Names \cup {""},
     d \in Names \cup {""} :
    (/\ t = "" \/ d = ""
     /\ LastOf(h, ":") = 0 \/ t # "" \/ d # "") =>
    ParseImageReference(Reference(h, o, n, t, d)) =
      [repository |-> (IF h = <<>> /\ o = "" THEN <<"library", "/">> ELSE <<>>)
                        \o Reference(h, o, n, "", ""),
       reference  |-> IF d # "" THEN <<"sha256", ":", d>>
                      ELSE IF t # "" THEN <<t>> ELSE <<"latest">>,
       isDigest   |-> d # ""]

Signatures == [by : Signers, id : {"x"}, version : Versions]
\* Releases with some signatures: for this version, or copied from another's.
SomeReleases ==
  [by : Signers, id : {"x"}, version : Versions,
   sigs : {S \in SUBSET Signatures : Cardinality(S) <= Cardinality(Signers)}]
\* releases as they should be
GoodReleases ==
  {r \in SomeReleases : r.sigs = {SignatureOf(r, p) : p \in Signers}}

\* checkUpgrade lists only releases that every signer signed as this version,
\* and leads to the newest: for whoever installs the first of its list, the
\* same events hold no further upgrade, and the version left behind is none
\* either.
UpgradesSettle ==
  \A a \in SomeReleases, b, c \in GoodReleases, v \in Versions :
    \A s \in CheckUpgrade({a, b, c}, v) :
      /\ \A i \in DOMAIN s, p \in Signers : SignatureOf(s[i], p) \in s[i].sigs
      /\ Len(s) > 0 => /\ CheckUpgrade({a, b, c}, s[1].version) = {<<>>}
                       /\ ~IsNewVersion(v, s[1].version)
===============================================================================
