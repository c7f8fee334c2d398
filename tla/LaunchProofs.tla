----------------------------- MODULE LaunchProofs -----------------------------
(***************************************************************************)
(* Launch: its types, and that an event is handled once; that what the     *)
(* process serves and quotes is on disk (StoreInv), for any names; and, as *)
(* long as nobody chooses a name (NobodyNames), that the launches that are *)
(* alone keep their ports and units apart (LoneInv).  Each invariant is    *)
(* proved with one step per action; StepKinds names the few that touch a   *)
(* container, a row or a quote.                                            *)
(***************************************************************************)
EXTENDS Launch, FiniteSetTheorems, TLAPS

USE DEF history

-----------------------------------------------------------------------------
(* Sums.  SumFunctionOnSet is a recursive function over the subsets of a   *)
(* set; that the order of summing does not matter follows from a smallest  *)
(* set it would matter for, as cardinalities are well-founded.             *)

\* The smallest element of a set of naturals, as the loop finds it.
LEMMA MinProperty ==
  ASSUME NEW S \in SUBSET Nat, S # {}
  PROVE  Min(S) \in S /\ \A y \in S : Min(S) =< y
<1>1. \E x \in S : \A y \in S : ~(<<y, x>> \in OpToRel(<, Nat))
  BY NatLessThanWellFounded, WFMin
<1>2. \A x, y \in Nat : ~(<<y, x>> \in OpToRel(<, Nat)) => x =< y
  BY DEF OpToRel
<1>3. \E x \in S : \A y \in S : x =< y
  BY <1>1, <1>2
<1> QED
  BY <1>3 DEF Min

(* The sum of a function over a finite set.  The library defines it by     *)
(* recursion over the sets; that the recursion has a solution, and that it *)
(* does not depend on the order, is proved by choosing a smallest set for  *)
(* which it fails.                                                         *)

Pick(s) == CHOOSE x \in s : TRUE
Rec(u, f, s) == IF s = {} THEN 0 ELSE u[Pick(s)] + f[s \ {Pick(s)}]
Below(S, n) == {s \in SUBSET S : Cardinality(s) <= n}
IsSum(f, u, S) == f = [s \in SUBSET S |-> Rec(u, f, s)]

\* A set of sets of which none can be smallest is empty.
LEMMA NoSmallest ==
  ASSUME NEW S, IsFiniteSet(S), NEW B \in SUBSET SUBSET S,
         \A s \in B : \E t \in B : Cardinality(t) < Cardinality(s)
  PROVE  B = {}
<1> SUFFICES ASSUME B # {} PROVE FALSE
  OBVIOUS
<1>1. \A s \in B : Cardinality(s) \in Nat
  BY FS_Subset, FS_CardinalityType
<1> DEFINE T == {Cardinality(s) : s \in B}
<1>2. T \in SUBSET Nat /\ T # {}
  BY <1>1
<1>3. Min(T) \in T /\ \A y \in T : Min(T) =< y
  <2> HIDE DEF T
  <2> QED
    BY <1>2, MinProperty
<1>4. PICK s \in B : \A t \in B : Cardinality(s) <= Cardinality(t)
  BY <1>3
<1> QED
  BY <1>1, <1>4

\* Taking an element out of a set makes it smaller.
LEMMA Smaller ==
  ASSUME NEW S, IsFiniteSet(S), NEW s \in SUBSET S, NEW x \in s
  PROVE  /\ s \ {x} \in SUBSET S
         /\ Cardinality(s) \in Nat /\ Cardinality(s \ {x}) \in Nat
         /\ Cardinality(s \ {x}) = Cardinality(s) - 1
         /\ Cardinality(s \ {x}) < Cardinality(s)
<1>1. IsFiniteSet(s) /\ IsFiniteSet(s \ {x})
  BY FS_Subset
<1> QED
  BY <1>1, FS_CardinalityType, FS_RemoveElement

\* The recursion has a solution on the sets of at most n elements ...
LEMMA SumLevel ==
  ASSUME NEW S, IsFiniteSet(S), NEW u \in [S -> Nat], NEW n \in Nat
  PROVE  \E f \in [Below(S, n) -> Nat] :
            \A s \in Below(S, n) : f[s] = Rec(u, f, s)
<1> DEFINE P(m) == \E f \in [Below(S, m) -> Nat] :
                      \A s \in Below(S, m) : f[s] = Rec(u, f, s)
<1>1. P(0)
  <2>1. \A s \in Below(S, 0) : s = {}
    BY FS_Subset, FS_CardinalityType, FS_EmptySet DEF Below
  <2> DEFINE f == [s \in Below(S, 0) |-> 0]
  <2>2. f \in [Below(S, 0) -> Nat]
    OBVIOUS
  <2>3. \A s \in Below(S, 0) : f[s] = Rec(u, f, s)
    BY <2>1 DEF Rec
  <2> QED
    BY <2>2, <2>3
<1>2. ASSUME NEW m \in Nat, P(m) PROVE P(m + 1)
  <2>1. PICK g \in [Below(S, m) -> Nat] :
          \A s \in Below(S, m) : g[s] = Rec(u, g, s)
    BY <1>2
  <2> DEFINE f == [s \in Below(S, m + 1) |-> Rec(u, g, s)]
  <2>2. \A s \in Below(S, m + 1) :
          s # {} => Pick(s) \in s /\ s \ {Pick(s)} \in Below(S, m)
    <3> SUFFICES ASSUME NEW s \in Below(S, m + 1), s # {}
                 PROVE  Pick(s) \in s /\ s \ {Pick(s)} \in Below(S, m)
      OBVIOUS
    <3>1. Pick(s) \in s
      BY DEF Pick
    <3>2. s \in SUBSET S /\ Cardinality(s) <= m + 1
      BY DEF Below
    <3> QED
      BY <3>1, <3>2, Smaller DEF Below
  <2>3. Below(S, m) \subseteq Below(S, m + 1)
    BY FS_Subset, FS_CardinalityType DEF Below
  <2>4. f \in [Below(S, m + 1) -> Nat]
    <3> SUFFICES ASSUME NEW s \in Below(S, m + 1) PROVE Rec(u, g, s) \in Nat
      OBVIOUS
    <3>1. CASE s = {}
      BY <3>1 DEF Rec
    <3>2. CASE s # {}
      <4>1. Pick(s) \in S
        BY <2>2, <3>2 DEF Below
      <4>2. g[s \ {Pick(s)}] \in Nat /\ u[Pick(s)] \in Nat
        BY <2>2, <3>2, <4>1
      <4> QED
        BY <3>2, <4>2 DEF Rec
    <3> QED
      BY <3>1, <3>2
  <2>5. \A s \in Below(S, m) : f[s] = g[s]
    BY <2>1, <2>3
  <2>6. \A s \in Below(S, m + 1) : f[s] = Rec(u, f, s)
    BY <2>2, <2>5 DEF Rec
  <2> QED
    BY <2>4, <2>6
<1>3. ASSUME ~P(n) PROVE FALSE
  <2> DEFINE T == {m \in Nat : ~P(m)}
  <2> HIDE DEF P
  <2>1. T \in SUBSET Nat /\ T # {}
    BY <1>3
  <2>2. PICK m \in T : \A k \in T : m =< k
    <3> HIDE DEF T
    <3> QED
      BY <2>1, MinProperty
  <2>3. m # 0 /\ m - 1 \in Nat /\ m - 1 \notin T
    BY <1>1, <2>2
  <2>4. P(m - 1 + 1) /\ m - 1 + 1 = m
    BY <1>2, <2>3
  <2> QED
    BY <2>4
<1> QED
  BY <1>3

\* ... and so on all of them.
LEMMA SumExists ==
  ASSUME NEW S, IsFiniteSet(S), NEW u \in [S -> Nat]
  PROVE  \E f : IsSum(f, u, S)
<1>1. Cardinality(S) \in Nat /\ SUBSET S = Below(S, Cardinality(S))
  BY FS_Subset, FS_CardinalityType DEF Below
<1>2. PICK f \in [Below(S, Cardinality(S)) -> Nat] :
        \A s \in Below(S, Cardinality(S)) : f[s] = Rec(u, f, s)
  BY <1>1, SumLevel
<1>3. f = [s \in SUBSET S |-> Rec(u, f, s)]
  BY <1>1, <1>2
<1> QED
  BY <1>3 DEF IsSum

\* Two solutions for functions that agree on s have the same value for s.
LEMMA SumSame ==
  ASSUME NEW S, IsFiniteSet(S), NEW T, NEW u, NEW v, NEW f, NEW g,
         IsSum(f, u, S), IsSum(g, v, T), NEW c, c \subseteq S \cap T,
         \A x \in c : u[x] = v[x]
  PROVE  f[c] = g[c]
<1> DEFINE B == {s \in SUBSET c : f[s] # g[s]}
<1>1. ASSUME NEW s \in B
      PROVE  \E t \in B : Cardinality(t) < Cardinality(s)
  <2>1. s \in SUBSET S /\ s \in SUBSET T /\ s \subseteq c
    OBVIOUS
  <2>2. f[s] = Rec(u, f, s) /\ g[s] = Rec(v, g, s)
    BY <2>1 DEF IsSum
  <2>3. s # {}
    BY <2>2 DEF Rec
  <2>4. Pick(s) \in s /\ u[Pick(s)] = v[Pick(s)]
    BY <2>1, <2>3 DEF Pick
  <2>5. f[s \ {Pick(s)}] # g[s \ {Pick(s)}]
    BY <2>2, <2>3, <2>4 DEF Rec
  <2>6. s \ {Pick(s)} \in B
    BY <2>5
  <2> QED
    BY <2>1, <2>4, <2>6, Smaller
<1>2. B = {}
  <2>1. B \in SUBSET SUBSET S
    OBVIOUS
  <2> HIDE DEF B
  <2> QED
    BY <1>1, <2>1, NoSmallest
<1> QED
  BY <1>2

\* A solution is a natural number on every set, and whichever element is taken
\* out, the rest is the sum without it.
LEMMA SumAnyOrder ==
  ASSUME NEW S, IsFiniteSet(S), NEW u \in [S -> Nat], NEW f, IsSum(f, u, S),
         NEW c \in SUBSET S
  PROVE  f[c] \in Nat /\ \A x \in c : f[c] = u[x] + f[c \ {x}]
<1> DEFINE Good(s) == f[s] \in Nat /\ \A x \in s : f[s] = u[x] + f[s \ {x}]
           B == {s \in SUBSET S : ~Good(s)}
<1>1. ASSUME NEW s \in B,
             \A t \in B : ~(Cardinality(t) < Cardinality(s))
      PROVE  FALSE
  <2>1. s \in SUBSET S /\ f[s] = Rec(u, f, s)
    BY DEF IsSum
  <2>2. \A x \in s : Good(s \ {x})
    BY <1>1, <2>1, Smaller
  <2>3. CASE s = {}
    BY <2>1, <2>3 DEF Rec
  <2>4. CASE s # {}
    <3>1. PICK y \in s : y = Pick(s)
      BY <2>4 DEF Pick
    <3>2. f[s] = u[y] + f[s \ {y}] /\ u[y] \in Nat /\ f[s \ {y}] \in Nat
      BY <2>1, <2>2, <2>4, <3>1 DEF Rec
    <3>3. ASSUME NEW x \in s, x # y
          PROVE  f[s] = u[x] + f[s \ {x}]
      <4>1. f[s \ {y}] = u[x] + f[(s \ {y}) \ {x}]
        BY <2>2, <3>3
      <4>2. f[s \ {x}] = u[y] + f[(s \ {x}) \ {y}]
        BY <2>2, <3>3
      <4>3. (s \ {y}) \ {x} = (s \ {x}) \ {y}
        OBVIOUS
      <4>4. Good((s \ {x}) \ {y})
        <5>1. /\ s \ {x} \in SUBSET S
              /\ Cardinality(s) \in Nat /\ Cardinality(s \ {x}) \in Nat
              /\ Cardinality(s \ {x}) < Cardinality(s)
          BY <2>1, <3>3, Smaller
        <5>2. y \in s \ {x}
          BY <3>3
        <5>3. PICK t \in SUBSET S : t = s \ {x}
          BY <5>1
        <5>4. /\ t \ {y} \in SUBSET S
              /\ Cardinality(t \ {y}) \in Nat
              /\ Cardinality(t \ {y}) < Cardinality(t)
          BY <5>2, <5>3, Smaller
        <5>5. Cardinality((s \ {x}) \ {y}) < Cardinality(s)
          BY <5>1, <5>4, <5>3
        <5> QED
          BY <1>1, <5>4, <5>5, <5>3
      <4>5. u[x] \in Nat
        BY <2>1
      <4> HIDE DEF B
      <4>6. f[(s \ {x}) \ {y}] \in Nat
        BY <4>4
      <4> HIDE DEF Good
      <4> QED
        BY <3>2, <4>1, <4>2, <4>3, <4>5, <4>6
    <3>4. f[s] \in Nat
      BY <3>2
    <3>5. \A x \in s : f[s] = u[x] + f[s \ {x}]
      BY <3>2, <3>3
    <3> QED
      BY <3>4, <3>5
  <2> QED
    BY <2>3, <2>4
<1>2. B = {}
  <2>1. B \in SUBSET SUBSET S
    OBVIOUS
  <2> HIDE DEF B
  <2> QED
    BY <1>1, <2>1, NoSmallest
<1> QED
  BY <1>2

\* The sum of u over parts of S, as the proofs use it.
LEMMA SumOfPart ==
  ASSUME NEW S, IsFiniteSet(S), NEW u \in [S -> Nat], NEW f, IsSum(f, u, S),
         NEW c \in SUBSET S
  PROVE  SumFunctionOnSet(u, c) = f[c]
<1>1. IsFiniteSet(c)
  BY FS_Subset
<1> DEFINE w == [x \in c |-> u[x]]
<1>3. PICK g : g = CHOOSE h : h = [s \in SUBSET c |-> Rec(u, h, s)]
  OBVIOUS
<1>4. \E h : h = [s \in SUBSET c |-> Rec(u, h, s)]
  <2>1. PICK h : IsSum(h, w, c)
    BY <1>1, SumExists
  <2>2. \A s \in SUBSET c : Rec(u, h, s) = Rec(w, h, s)
    BY DEF Rec, Pick
  <2>3. h = [s \in SUBSET c |-> Rec(u, h, s)]
    BY <2>1, <2>2 DEF IsSum
  <2> QED
    BY <2>3
<1>5. IsSum(g, u, c)
  BY <1>3, <1>4 DEF IsSum
<1>6. SumFunctionOnSet(u, c) = g[c]
  BY <1>3 DEF SumFunctionOnSet, FoldFunctionOnSet, MapThenFoldSet, Rec, Pick
<1>7. f[c] = g[c]
  BY <1>5, SumSame
<1> QED
  BY <1>6, <1>7

\* What the sums in this module need to know.
LEMMA SumFacts ==
  ASSUME NEW S, IsFiniteSet(S), NEW u \in [S -> Nat], NEW c \in SUBSET S
  PROVE  /\ SumFunctionOnSet(u, c) \in Nat
         /\ SumFunctionOnSet(u, {}) = 0
         /\ \A x \in S \ c :
              SumFunctionOnSet(u, c \cup {x}) = u[x] + SumFunctionOnSet(u, c)
<1>1. PICK f : IsSum(f, u, S)
  BY SumExists
<1>2. \A d \in SUBSET S : SumFunctionOnSet(u, d) = f[d]
  BY <1>1, SumOfPart
<1>3. f[{}] = 0 /\ f[c] \in Nat
  BY <1>1, SumAnyOrder DEF IsSum, Rec
<1>4. ASSUME NEW x \in S \ c PROVE f[c \cup {x}] = u[x] + f[c]
  <2>1. PICK d \in SUBSET S : d = c \cup {x}
    OBVIOUS
  <2>2. d \ {x} = c /\ x \in d
    BY <2>1
  <2>3. \A y \in d : f[d] = u[y] + f[d \ {y}]
    BY <1>1, SumAnyOrder
  <2> QED
    BY <2>1, <2>2, <2>3
<1> QED
  BY <1>2, <1>3, <1>4

\* The sum over a part is at most the sum over the whole, also when the part is
\* summed with another function that is the same there.
LEMMA SumOverPart ==
  ASSUME NEW S, IsFiniteSet(S), NEW u \in [S -> Nat], NEW v \in [S -> Nat],
         NEW c \in SUBSET S, NEW d \in SUBSET c, \A x \in d : u[x] = v[x]
  PROVE  SumFunctionOnSet(v, d) <= SumFunctionOnSet(u, c)
<1>1. PICK f : IsSum(f, u, S)
  BY SumExists
<1>2. PICK g : IsSum(g, v, S)
  BY SumExists
<1>3. f[d] = g[d]
  BY <1>1, <1>2, SumSame
<1> DEFINE B == {s \in SUBSET c : d \subseteq s /\ ~(f[d] <= f[s])}
<1>4. ASSUME NEW s \in B
      PROVE  \E t \in B : Cardinality(t) < Cardinality(s)
  <2>1. s \in SUBSET S /\ d \in SUBSET S /\ f[d] \in Nat
    BY <1>1, SumAnyOrder
  <2>2. PICK x \in s \ d : TRUE
    BY <2>1
  <2>3. f[s] = u[x] + f[s \ {x}] /\ u[x] \in Nat /\ f[s \ {x}] \in Nat
    <3>1. s \ {x} \in SUBSET S
      BY <2>1
    <3> QED
      BY <1>1, <2>1, <3>1, SumAnyOrder
  <2>4. s \ {x} \in B
    BY <2>1, <2>2, <2>3
  <2> QED
    BY <2>1, <2>4, Smaller
<1>5. B = {}
  <2>1. B \in SUBSET SUBSET S
    OBVIOUS
  <2> HIDE DEF B
  <2> QED
    BY <1>4, <2>1, NoSmallest
<1>6. f[d] <= f[c]
  BY <1>5
<1>7. SumFunctionOnSet(u, c) = f[c] /\ SumFunctionOnSet(v, d) = g[d]
  BY <1>1, <1>2, SumOfPart
<1> QED
  BY <1>3, <1>6, <1>7

-----------------------------------------------------------------------------
(* Types and keys.                                                         *)

\* As long as a key is free, so is a range of ports: every container holds one.
LEMMA PortLeft ==
  ASSUME TypeOK, NEW k \in Keys \ conts
  PROVE  Ports \ UsedPorts # {}
<1> DEFINE f == [j \in Ports |-> CHOOSE d \in conts : info[d].port = j]
<1>1. IsFiniteSet(conts) /\ Cardinality(conts) \in Nat
      /\ Cardinality(Keys) \in Nat /\ Cardinality(conts) < Cardinality(Keys)
  <2>1. conts \in SUBSET Keys /\ conts # Keys /\ IsFiniteSet(Keys)
    BY KeyAssumption DEF TypeOK
  <2> QED
    BY <2>1, FS_Subset, FS_CardinalityType
<1>2. IsFiniteSet(Ports) /\ Cardinality(Ports) = Cardinality(Keys)
  <2>1. Cardinality(Keys) - 1 \in Int /\ ~(0 > Cardinality(Keys) - 1)
        /\ Cardinality(Keys) - 1 - 0 + 1 = Cardinality(Keys)
    BY <1>1
  <2> QED
    BY <2>1, FS_Interval DEF Ports
<1>3. SUFFICES ASSUME Ports \subseteq UsedPorts PROVE FALSE
  OBVIOUS
<1>4. \A j \in Ports : f[j] \in conts /\ info[f[j]].port = j
  BY <1>3 DEF UsedPorts
<1>5. f \in [Ports -> conts]
  BY <1>4
<1>6. \E i, j \in Ports : i # j /\ f[i] = f[j]
  <2> HIDE DEF f
  <2> QED
    BY <1>1, <1>2, <1>5, FS_PigeonHole
<1> QED
  BY <1>4, <1>6

\* The range that is chosen exists and no container in memory holds it.
LEMMA FreePortIsFree ==
  ASSUME TypeOK, NEW k \in Keys \ conts
  PROVE  FreePort \in Ports /\ FreePort \notin UsedPorts
<1>1. Ports \ UsedPorts # {} /\ Ports \ UsedPorts \in SUBSET Nat
  <2>1. Cardinality(Keys) \in Nat
    BY KeyAssumption, FS_CardinalityType
  <2> QED
    BY <2>1, PortLeft DEF Ports
<1> QED
  BY <1>1, MinProperty DEF FreePort

\* 0, the first range, exists.
LEMMA PortZero == 0 \in Ports
BY KeyAssumption, FS_EmptySet, FS_CardinalityType DEF Ports

\* Keys and names do not mix, and what a call or a row starts as is well typed.
LEMMA EmptyTypes ==
  NoCall \in Calls /\ NoLook \in Looks /\ NoInfo \in Infos /\ NoRow \in Rows
BY PortZero DEF NoCall, Calls, NoLook, Looks, NoInfo, Infos, NoRow, Rows, States,
                Units

\* What the columns give back is an info again, with nothing left to convert.
LEMMA StoredTypes ==
  ASSUME NEW i \in Infos
  PROVE  /\ AsStored(i) \in Infos /\ AsStored(AsStored(i)) = AsStored(i)
         /\ AsStored(i) = [i EXCEPT !.units = Column(i.units)]
         /\ AsStored(i).name = i.name /\ AsStored(i).port = i.port
         /\ AsStored(i).state = i.state /\ AsStored(i).units = Column(i.units)
<1>1. i.units \in Units /\ Column(i.units) \in Units
      /\ Column(Column(i.units)) = Column(i.units)
  BY UnitAssumption DEF Infos, Units, Column
<1> QED
  BY <1>1 DEF AsStored, Infos

\* Every step keeps the types: the key a call, a row or a container names
\* exists, and there is a free range for it.
LEMMA TypeStep ==
  ASSUME TypeInv, [Next]_vars
  PROVE  TypeOK'
<1> USE EmptyTypes, UnitAssumption DEF TypeInv, TypeOK, Keyed, stored, memory,
        wallet
<1>1. CASE Start
  BY <1>1 DEF Start
<1>2. CASE WalletReady
  BY <1>2 DEF WalletReady
<1>3. CASE LoadDone
  BY <1>3 DEF LoadDone
<1>4. ASSUME NEW x \in todo, LoadRow(x) PROVE TypeOK'
  BY <1>4 DEF LoadRow, Rows
<1>5. CASE Crash
  BY <1>5 DEF Crash, Die
<1>6. ASSUME NEW r \in Requests, Receive(r) PROVE TypeOK'
  <2>1. [pc |-> "image", key |-> NoKey, port |-> 0,
         alone |-> InFlight = {} /\ todo = {}] \in Calls
    BY PortZero DEF Calls
  <2> QED
    BY <1>6, <2>1 DEF Receive, NoLaunch
<1>7. ASSUME NEW r \in Requests, ImageFails(r) PROVE TypeOK'
  BY <1>7 DEF ImageFails, End, NoLaunch
<1>8. ASSUME NEW r \in Requests, InvoiceFails(r) PROVE TypeOK'
  BY <1>8 DEF InvoiceFails, End, NoLaunch
<1>9. ASSUME NEW r \in Requests, NEW k \in Keys, ImageFetched(r, k)
      PROVE  TypeOK'
  <2>1. FreePort \in Ports
    BY <1>9, FreePortIsFree DEF ImageFetched, Fresh
  <2>2. [pc |-> "invoice", key |-> k, port |-> FreePort,
         alone |-> call[r].alone] \in Calls
    BY <2>1 DEF Calls
  <2> QED
    BY <1>9, <2>2 DEF ImageFetched, NoLaunch
<1>10. ASSUME NEW r \in Requests, InvoiceReady(r) PROVE TypeOK'
  <2>1. call[r].key \in Keys /\ call[r].port \in Ports
    BY <1>10 DEF InvoiceReady, Calls
  <2>2. NewInfo(r) \in Infos /\ AsStored(NewInfo(r)) \in Infos
    <3>1. NewInfo(r) \in Infos
      BY <2>1, NameAssumption DEF NewInfo, Infos, States, RowNames, Units
    <3> QED
      BY <3>1, StoredTypes
  <2>3. NewInfo(r).name \in RowNames
    BY <2>1, NameAssumption DEF NewInfo, RowNames
  <2>4. \A q \in Rows : [key |-> q.key, info |-> AsStored(NewInfo(r))] \in Rows
    BY <2>2 DEF Rows
  <2>5. [key |-> call[r].key, info |-> AsStored(NewInfo(r))] \in Rows
    BY <2>1, <2>2 DEF Rows
  <2>6. call[r].alone \in BOOLEAN
    BY DEF Calls
  <2>8. /\ rows' = rows \cup {NewInfo(r).name}
        /\ row' = [row EXCEPT ![NewInfo(r).name] =
             [key |-> IF NewInfo(r).name \in rows THEN row[NewInfo(r).name].key
                                                  ELSE call[r].key,
              info |-> AsStored(NewInfo(r))]]
    BY <1>10 DEF InvoiceReady, Upsert
  <2>7. rows' \subseteq RowNames /\ row' \in [RowNames -> Rows]
    BY <2>8, <2>3, <2>4, <2>5
  <2> QED
    BY <1>10, <2>1, <2>2, <2>6, <2>7 DEF InvoiceReady, End
<1>11. ASSUME NEW k \in Keys, LookUp(k) PROVE TypeOK'
  <2>1. [pc |-> "told", key |-> k, paid |-> invoice[k] = "settled"] \in Looks
    BY DEF Looks
  <2> QED
    BY <1>11, <2>1 DEF LookUp
<1>12. ASSUME NEW k \in Keys, Deploy(k) PROVE TypeOK'
  <2>1. \A i \in Infos : [i EXCEPT !.state = "deployed"] \in Infos
    BY DEF Infos, States
  <2>2. info' \in [Keys -> Infos]
    BY <1>12, <2>1 DEF Deploy
  <2>3. loop' \in Looks
    BY <1>12 DEF Deploy, Looks
  <2> QED
    BY <1>12, <2>2, <2>3 DEF Deploy
<1>13. ASSUME NEW k \in Keys, Deployed(k) PROVE TypeOK'
  <2>1. info[k].state \in States
    BY DEF Infos
  <2>2. \A x \in Rows : [x EXCEPT !.info.state = info[k].state] \in Rows
    BY <2>1 DEF Rows, Infos
  <2>3. row' \in [RowNames -> Rows]
    BY <1>13, <2>2 DEF Deployed, WriteState
  <2> QED
    BY <1>13, <2>3 DEF Deployed
<1>14. ASSUME NEW k \in Keys, DeployDies(k) PROVE TypeOK'
  BY <1>14 DEF DeployDies, Die
<1>15. ASSUME NEW k \in Keys, RemoveExpired(k) PROVE TypeOK'
  BY <1>15 DEF RemoveExpired, RowsOf
<1>17. ASSUME NEW k \in Keys, KeepWaiting(k) PROVE TypeOK'
  BY <1>17 DEF KeepWaiting
<1>18. ASSUME NEW k \in Keys, Pay(k) PROVE TypeOK'
  BY <1>18 DEF Pay
<1>19. ASSUME NEW k \in Keys, Expire(k) PROVE TypeOK'
  BY <1>19 DEF Expire
<1>16. CASE UNCHANGED vars
  BY <1>16 DEF vars
<1> QED
  BY <1>1, <1>2, <1>3, <1>4, <1>5, <1>6, <1>7, <1>8, <1>9, <1>10, <1>11,
     <1>12, <1>13, <1>14, <1>15, <1>16, <1>17, <1>18, <1>19
  DEF Next, Boot, Answer, Settle

\* Keyed stays when calls only lose their keys.
LEMMA KeyedAnyway ==
  ASSUME Keyed, UNCHANGED <<conts, rows, row, todo, invoice, quotes>>,
         \A q \in Requests : call'[q] = call[q] \/ call'[q].pc # "invoice",
         \A q \in Requests : call'[q].key = call[q].key \/ call'[q].key = NoKey
  PROVE  Keyed'
BY KeyAssumption DEF Keyed

\* Every step keeps Keyed: an invoice is made before the row and the container.
LEMMA KeyedStep ==
  ASSUME TypeInv, [Next]_vars
  PROVE  Keyed'
<1> USE KeyAssumption DEF TypeInv, TypeOK, Keyed, stored, memory, wallet, Calls,
        NoCall
<1>1. CASE Start
  BY <1>1 DEF Start
<1>2. CASE WalletReady
  BY <1>2 DEF WalletReady
<1>3. CASE LoadDone
  BY <1>3 DEF LoadDone
<1>4. ASSUME NEW x \in todo, LoadRow(x) PROVE Keyed'
  BY <1>4 DEF LoadRow
<1>5. CASE Crash
  BY <1>5 DEF Crash, Die
<1>6. ASSUME NEW r \in Requests, Receive(r) PROVE Keyed'
  <2>1. \A q \in Requests : \/ call'[q] = call[q]
                            \/ call'[q].pc = "image" /\ call'[q].key = NoKey
    BY <1>6 DEF Receive
  <2>2. UNCHANGED <<conts, rows, row, todo, invoice, quotes>>
    BY <1>6 DEF Receive, NoLaunch
  <2> HIDE DEF TypeInv, TypeOK, Keyed
  <2> QED
    BY <2>1, <2>2, KeyedAnyway DEF TypeInv
<1>7. ASSUME NEW r \in Requests, ImageFails(r) PROVE Keyed'
  <2>1. \A q \in Requests : \/ call'[q] = call[q]
                            \/ call'[q].pc = "idle" /\ call'[q].key = NoKey
    BY <1>7 DEF ImageFails, End
  <2>2. UNCHANGED <<conts, rows, row, todo, invoice, quotes>>
    BY <1>7 DEF ImageFails, NoLaunch
  <2> HIDE DEF TypeInv, TypeOK, Keyed
  <2> QED
    BY <2>1, <2>2, KeyedAnyway DEF TypeInv
<1>8. ASSUME NEW r \in Requests, InvoiceFails(r) PROVE Keyed'
  <2>1. \A q \in Requests : \/ call'[q] = call[q]
                            \/ call'[q].pc = "idle" /\ call'[q].key = NoKey
    BY <1>8 DEF InvoiceFails, End
  <2>2. UNCHANGED <<conts, rows, row, todo, invoice, quotes>>
    BY <1>8 DEF InvoiceFails, NoLaunch
  <2> HIDE DEF TypeInv, TypeOK, Keyed
  <2> QED
    BY <2>1, <2>2, KeyedAnyway DEF TypeInv
<1>9. ASSUME NEW r \in Requests, NEW k \in Keys, ImageFetched(r, k)
      PROVE  Keyed'
  BY <1>9 DEF ImageFetched, Fresh, NoLaunch
<1>10. ASSUME NEW r \in Requests, InvoiceReady(r) PROVE Keyed'
  <2>1. call[r].key \in Keys /\ invoice'[call[r].key] # "none"
    BY <1>10 DEF InvoiceReady
  <2>2. \A k \in Keys : invoice[k] # "none" => invoice'[k] # "none"
    BY <1>10 DEF InvoiceReady
  <2>3. \A n \in rows' : \/ row'[n].key = call[r].key
                         \/ n \in rows /\ row'[n].key = row[n].key
    <3>1. PICK m : m = NewInfo(r).name
      OBVIOUS
    <3>2. m \in RowNames
      BY <2>1, <3>1, NameAssumption DEF NewInfo, RowNames
    <3>3. /\ rows' = rows \cup {m}
          /\ row' = [row EXCEPT ![m] =
               [key |-> IF m \in rows THEN row[m].key ELSE call[r].key,
                info |-> AsStored(NewInfo(r))]]
      BY <1>10, <3>1 DEF InvoiceReady, Upsert
    <3> HIDE DEF TypeInv, TypeOK, Keyed
    <3>4. row \in [RowNames -> Rows] /\ rows \subseteq RowNames
      BY DEF TypeInv, TypeOK
    <3>5. row'[m].key = IF m \in rows THEN row[m].key ELSE call[r].key
      BY <3>2, <3>3, <3>4
    <3>6. \A n \in rows \ {m} : row'[n] = row[n]
      BY <3>2, <3>3, <3>4
    <3> QED
      BY <3>3, <3>5, <3>6
  <2>4. \A q \in Requests :
          call'[q].pc = "invoice" => call'[q] = call[q] /\ q # r
    BY <1>10 DEF InvoiceReady, End
  <2>5. /\ conts' = conts \cup {call[r].key} /\ todo' = todo
        /\ invoice' = [invoice EXCEPT ![call[r].key] = "pending"]
        /\ \A q \in Requests : call'[q] = IF q = r THEN NoCall ELSE call[q]
    BY <1>10 DEF InvoiceReady, End
  <2>6. \A q \in Requests : call'[q].pc = "invoice" =>
          call'[q].key \in Keys /\ invoice'[call'[q].key] = "none"
    BY <1>10, <2>4, <2>5 DEF InvoiceReady
  <2>7. \A p, q \in Requests :
          call'[p].pc = "invoice" /\ call'[p].key = call'[q].key => p = q
    BY <2>4, <2>5
  <2>8. \A x \in {row'[n] : n \in rows'} \cup todo' :
          x.key \in Keys /\ invoice'[x.key] # "none"
    <3>1. \A x \in {row[n] : n \in rows} \cup todo :
            x.key \in Keys /\ invoice[x.key] # "none"
      BY DEF Keyed
    <3> HIDE DEF TypeInv, TypeOK, Keyed
    <3> QED
      BY <2>1, <2>2, <2>3, <2>5, <3>1
  <2>9. \A q \in Requests : \A k \in quotes'[q] : invoice'[k] # "none"
    BY <1>10, <2>1, <2>2 DEF InvoiceReady
  <2> QED
    BY <2>1, <2>2, <2>5, <2>6, <2>7, <2>8, <2>9
<1>11. ASSUME NEW k \in Keys, LookUp(k) PROVE Keyed'
  BY <1>11 DEF LookUp
<1>12. ASSUME NEW k \in Keys, Deploy(k) PROVE Keyed'
  BY <1>12 DEF Deploy
<1>13. ASSUME NEW k \in Keys, Deployed(k) PROVE Keyed'
  <2>1. \A n \in rows : row'[n].key = row[n].key
    BY <1>13 DEF Deployed, WriteState, Rows
  <2>2. UNCHANGED <<conts, rows, todo, invoice, call, quotes>>
    BY <1>13 DEF Deployed
  <2> QED
    BY <2>1, <2>2
<1>14. ASSUME NEW k \in Keys, DeployDies(k) PROVE Keyed'
  BY <1>14 DEF DeployDies, Die
<1>15. ASSUME NEW k \in Keys, RemoveExpired(k) PROVE Keyed'
  <2>1. \A n \in rows' : n \in rows /\ row'[n] = row[n]
    BY <1>15 DEF RemoveExpired
  <2>2. conts' \subseteq conts /\ UNCHANGED <<todo, invoice, call, quotes>>
    BY <1>15 DEF RemoveExpired
  <2> QED
    BY <2>1, <2>2
<1>17. ASSUME NEW k \in Keys, KeepWaiting(k) PROVE Keyed'
  BY <1>17 DEF KeepWaiting
<1>18. ASSUME NEW k \in Keys, Pay(k) PROVE Keyed'
  BY <1>18 DEF Pay
<1>19. ASSUME NEW k \in Keys, Expire(k) PROVE Keyed'
  BY <1>19 DEF Expire
<1>16. CASE UNCHANGED vars
  BY <1>16 DEF vars
<1> QED
  BY <1>1, <1>2, <1>3, <1>4, <1>5, <1>6, <1>7, <1>8, <1>9, <1>10, <1>11,
     <1>12, <1>13, <1>14, <1>15, <1>16, <1>17, <1>18, <1>19
  DEF Next, Boot, Answer, Settle

-----------------------------------------------------------------------------
(* At most one container for an event, and one row for a container.        *)

\* At most one key: none was made yet, or the one that is made now.
LEMMA AtMostOne ==
  /\ Cardinality({}) <= 1
  /\ \A k : Cardinality({} \cup {k}) <= 1
<1>1. \A k : {} \cup {k} = {k}
  OBVIOUS
<1> QED
  BY <1>1, FS_EmptySet, FS_Singleton

\* Every step keeps a request from being answered twice by one process.
LEMMA OnceStep ==
  ASSUME TypeOK, OnceInv, [Next]_vars
  PROVE  OnceInv'
<1> USE AtMostOne DEF TypeOK, OnceInv, Marked, OncePerRequest, stored, memory,
        NoCall
<1>1. CASE Start
  BY <1>1 DEF Start
<1>2. CASE WalletReady
  BY <1>2 DEF WalletReady
<1>3. CASE LoadDone
  BY <1>3 DEF LoadDone
<1>4. ASSUME NEW x \in todo, LoadRow(x) PROVE OnceInv'
  BY <1>4 DEF LoadRow
<1>5. CASE Crash
  BY <1>5 DEF Crash, Die
<1>6. ASSUME NEW r \in Requests, Receive(r) PROVE OnceInv'
  BY <1>6 DEF Receive, New, InFlight, NoLaunch
<1>7. ASSUME NEW r \in Requests, ImageFails(r) PROVE OnceInv'
  BY <1>7 DEF ImageFails, End, NoLaunch
<1>8. ASSUME NEW r \in Requests, InvoiceFails(r) PROVE OnceInv'
  BY <1>8 DEF InvoiceFails, End, NoLaunch
<1>9. ASSUME NEW r \in Requests, NEW k \in Keys, ImageFetched(r, k)
      PROVE  OnceInv'
  BY <1>9 DEF ImageFetched, Fresh, NoLaunch
<1>10. ASSUME NEW r \in Requests, InvoiceReady(r) PROVE OnceInv'
  <2>1. \A q \in Requests \ {r} : call'[q] = call[q] /\ made'[q] = made[q]
    BY <1>10 DEF InvoiceReady, End
  <2>2. r \in done /\ call'[r].pc = "idle" /\ made'[r] = {} \cup {call[r].key}
    BY <1>10 DEF InvoiceReady, End
  <2>3. UNCHANGED done
    BY <1>10 DEF InvoiceReady
  <2> QED
    BY <2>1, <2>2, <2>3
<1>11. ASSUME NEW k \in Keys, LookUp(k) PROVE OnceInv'
  BY <1>11 DEF LookUp
<1>12. ASSUME NEW k \in Keys, Deploy(k) PROVE OnceInv'
  BY <1>12 DEF Deploy
<1>13. ASSUME NEW k \in Keys, Deployed(k) PROVE OnceInv'
  BY <1>13 DEF Deployed
<1>14. ASSUME NEW k \in Keys, DeployDies(k) PROVE OnceInv'
  BY <1>14 DEF DeployDies, Die
<1>15. ASSUME NEW k \in Keys, RemoveExpired(k) PROVE OnceInv'
  BY <1>15 DEF RemoveExpired
<1>17. ASSUME NEW k \in Keys, KeepWaiting(k) PROVE OnceInv'
  BY <1>17 DEF KeepWaiting
<1>18. ASSUME NEW k \in Keys, Pay(k) PROVE OnceInv'
  BY <1>18 DEF Pay
<1>19. ASSUME NEW k \in Keys, Expire(k) PROVE OnceInv'
  BY <1>19 DEF Expire
<1>16. CASE UNCHANGED vars
  BY <1>16 DEF vars
<1> QED
  BY <1>1, <1>2, <1>3, <1>4, <1>5, <1>6, <1>7, <1>8, <1>9, <1>10, <1>11,
     <1>12, <1>13, <1>14, <1>15, <1>16, <1>17, <1>18, <1>19
  DEF Next, Boot, Answer, Settle

-----------------------------------------------------------------------------
(* Names: what a row says, and whose it is.                                *)

\* The steps that touch no container, row, record or quote, and the end of the
\* process.
Quiet ==
  /\ UNCHANGED <<conts, info, rows, row, todo, history>>
  /\ app' \in {"loading", "running"} => app \in {"loading", "running"}
  /\ \A k \in Keys : overdue[k] => overdue'[k]
  /\ \A k \in Keys : Loop("up", k)' <=> Loop("up", k)
Dies == Die /\ UNCHANGED <<rows, row, invoice, overdue, history>>

\* What a step does to containers, rows and quotes.
LEMMA StepKinds ==
  ASSUME TypeOK, [Next]_vars
  PROVE  \/ Quiet \/ Dies \/ WalletReady \/ \E x \in todo : LoadRow(x)
         \/ \E r \in Requests : InvoiceReady(r)
         \/ \E k \in Keys : Deploy(k) \/ Deployed(k) \/ RemoveExpired(k)
<1> USE DEF TypeOK, stored, memory, wallet
<1>1. CASE Start
  BY <1>1 DEF Start, Quiet, Loop
<1>2. CASE LoadDone
  BY <1>2 DEF LoadDone, Quiet, Loop
<1>3. CASE Crash
  BY <1>3 DEF Crash, Dies
<1>4. ASSUME NEW r \in Requests, Receive(r) PROVE Quiet
  BY <1>4 DEF Receive, NoLaunch, Quiet, Loop
<1>5. ASSUME NEW r \in Requests, ImageFails(r) PROVE Quiet
  BY <1>5 DEF ImageFails, NoLaunch, Quiet, Loop
<1>6. ASSUME NEW r \in Requests, InvoiceFails(r) PROVE Quiet
  BY <1>6 DEF InvoiceFails, NoLaunch, Quiet, Loop
<1>7. ASSUME NEW r \in Requests, NEW k \in Keys, ImageFetched(r, k) PROVE Quiet
  BY <1>7 DEF ImageFetched, NoLaunch, Quiet, Loop
<1>8. ASSUME NEW k \in Keys, LookUp(k) PROVE Quiet
  <2>1. loop.pc # "up" /\ loop'.pc # "up"
    BY <1>8 DEF LookUp, NoLook
  <2> QED
    BY <1>8, <2>1 DEF LookUp, Quiet, Loop
<1>9. ASSUME NEW k \in Keys, KeepWaiting(k) PROVE Quiet
  <2>1. loop.pc # "up" /\ loop'.pc # "up"
    BY <1>9 DEF KeepWaiting, Loop, NoLook
  <2> QED
    BY <1>9, <2>1 DEF KeepWaiting, Quiet, Loop
<1>10. ASSUME NEW k \in Keys, DeployDies(k) PROVE Dies
  BY <1>10 DEF DeployDies, Dies
<1>11. ASSUME NEW k \in Keys, Pay(k) PROVE Quiet
  BY <1>11 DEF Pay, Quiet, Loop
<1>12. ASSUME NEW k \in Keys, Expire(k) PROVE Quiet
  BY <1>12 DEF Expire, Quiet, Loop
<1>13. CASE UNCHANGED vars
  BY <1>13 DEF vars, Quiet, Loop
<1> QED
  BY <1>1, <1>2, <1>3, <1>4, <1>5, <1>6, <1>7, <1>8, <1>9, <1>10, <1>11, <1>12,
     <1>13
  DEF Next, Boot, Answer, Settle

\* Every step keeps the phases.
LEMMA PhasesStep ==
  ASSUME TypeInv, Phases, [Next]_vars
  PROVE  Phases'
<1> USE DEF TypeInv, TypeOK, Phases, stored, memory, wallet, NoCall
<1>1. CASE Start
  BY <1>1 DEF Start
<1>2. CASE WalletReady
  BY <1>2 DEF WalletReady
<1>3. CASE LoadDone
  BY <1>3 DEF LoadDone
<1>4. ASSUME NEW x \in todo, LoadRow(x) PROVE Phases'
  BY <1>4 DEF LoadRow
<1>5. CASE Crash
  BY <1>5 DEF Crash, Die
<1>6. ASSUME NEW r \in Requests, Receive(r) PROVE Phases'
  BY <1>6 DEF Receive, NoLaunch
<1>7. ASSUME NEW r \in Requests, ImageFails(r) PROVE Phases'
  BY <1>7 DEF ImageFails, End, NoLaunch
<1>8. ASSUME NEW r \in Requests, InvoiceFails(r) PROVE Phases'
  BY <1>8 DEF InvoiceFails, End, NoLaunch
<1>9. ASSUME NEW r \in Requests, NEW k \in Keys, ImageFetched(r, k)
      PROVE  Phases'
  BY <1>9 DEF ImageFetched, NoLaunch
<1>10. ASSUME NEW r \in Requests, InvoiceReady(r) PROVE Phases'
  <2>1. /\ call[r].pc = "invoice" /\ call[r].key \in Keys
        /\ invoice[call[r].key] = "none"
    BY <1>10 DEF InvoiceReady, Keyed
  <2>2. call[r].key \notin conts
    BY <2>1 DEF Keyed
  <2>3. /\ conts' = conts \cup {call[r].key}
        /\ \A k \in Keys \ {call[r].key} : info'[k] = info[k]
        /\ UNCHANGED <<app, loop, todo>>
    BY <1>10 DEF InvoiceReady
  <2>4. app \in {"loading", "running"}
    BY <2>1
  <2> QED
    BY <2>2, <2>3, <2>4
<1>11. ASSUME NEW k \in Keys, LookUp(k) PROVE Phases'
  BY <1>11 DEF LookUp, Waits
<1>12. ASSUME NEW k \in Keys, Deploy(k) PROVE Phases'
  <2>1. loop # NoLook /\ loop.key = k /\ loop.pc = "told"
    BY <1>12 DEF Deploy, Loop, NoLook
  <2>2. loop'.key = k /\ loop'.pc = "up" /\ info'[k].state = "deployed"
    BY <1>12, <2>1 DEF Deploy, Looks, Infos
  <2>3. UNCHANGED <<app, todo, conts, call>>
    BY <1>12 DEF Deploy
  <2> QED
    BY <2>1, <2>2, <2>3
<1>13. ASSUME NEW k \in Keys, Deployed(k) PROVE Phases'
  BY <1>13 DEF Deployed
<1>14. ASSUME NEW k \in Keys, DeployDies(k) PROVE Phases'
  BY <1>14 DEF DeployDies, Die
<1>15. ASSUME NEW k \in Keys, RemoveExpired(k) PROVE Phases'
  BY <1>15 DEF RemoveExpired
<1>16. CASE UNCHANGED vars
  BY <1>16 DEF vars
<1>17. ASSUME NEW k \in Keys, KeepWaiting(k) PROVE Phases'
  BY <1>17 DEF KeepWaiting
<1>18. ASSUME NEW k \in Keys, Pay(k) PROVE Phases'
  BY <1>18 DEF Pay
<1>19. ASSUME NEW k \in Keys, Expire(k) PROVE Phases'
  BY <1>19 DEF Expire
<1> QED
  BY <1>1, <1>2, <1>3, <1>4, <1>5, <1>6, <1>7, <1>8, <1>9, <1>10, <1>11,
     <1>12, <1>13, <1>14, <1>15, <1>16, <1>17, <1>18, <1>19
  DEF Next, Boot, Answer, Settle

\* What publishing the launch of r does, for any name.
LEMMA Published ==
  ASSUME TypeInv, TypeOK', Phases, NEW r \in Requests, InvoiceReady(r),
         NEW k \in Keys, k = call[r].key, NEW n \in RowNames, n = NameFor(r, k),
         NEW i \in Infos, i = NewInfo(r)
  PROVE  /\ k \notin conts /\ \A m \in rows : row[m].key # k
         /\ \A x \in todo : x.key # k
         /\ i.name = n /\ rows' = rows \cup {n} /\ conts' = conts \cup {k}
         /\ info'[k] = i /\ \A j \in Keys \ {k} : info'[j] = info[j]
         /\ n \in rows => row'[n].key = row[n].key
         /\ n \notin rows => row'[n].key = k
         /\ row'[n].info = AsStored(i)
         /\ \A m \in RowNames \ {n} : row'[m] = row[m]
         /\ ~Loop("up", k) /\ loop' = loop /\ todo' = todo /\ overdue' = overdue
         /\ late'[k] = (n \in rows) /\ \A j \in Keys \ {k} : late'[j] = late[j]
<1>1. /\ call[r].pc = "invoice" /\ invoice[k] = "none"
  BY DEF InvoiceReady, TypeInv, Keyed
<1>2. /\ k \notin conts /\ \A m \in rows : row[m].key # k
      /\ \A x \in todo : x.key # k
  BY <1>1 DEF TypeInv, Keyed
<1>3. i.name = n
  BY DEF NewInfo, NameFor
<1>4. /\ rows' = rows \cup {n}
      /\ row' = [row EXCEPT ![n] =
           [key |-> IF n \in rows THEN row[n].key ELSE k, info |-> AsStored(i)]]
  BY <1>3 DEF InvoiceReady, Upsert
<1>5. /\ n \in rows => row'[n].key = row[n].key
      /\ n \notin rows => row'[n].key = k
      /\ row'[n].info = AsStored(i)
      /\ \A m \in RowNames \ {n} : row'[m] = row[m]
  BY <1>4 DEF TypeInv, TypeOK
<1>6. /\ conts' = conts \cup {k} /\ info'[k] = i
      /\ \A j \in Keys \ {k} : info'[j] = info[j]
      /\ loop' = loop /\ todo' = todo /\ overdue' = overdue
  BY DEF InvoiceReady, TypeInv, TypeOK
<1>7. ~Loop("up", k)
  BY <1>2 DEF Loop, Phases, NoLook
<1>8. late'[k] = (n \in rows) /\ \A j \in Keys \ {k} : late'[j] = late[j]
  BY <1>3 DEF InvoiceReady, TypeInv, TypeOK
<1> QED
  BY <1>2, <1>3, <1>4, <1>5, <1>6, <1>7, <1>8

\* The key of the launch is offered for the first time.
LEMMA QuotedNow ==
  ASSUME TypeInv, NEW r \in Requests, InvoiceReady(r),
         NEW k \in Keys, k = call[r].key
  PROVE  /\ \A q \in Requests : k \notin quotes[q]
         /\ quotes'[r] = quotes[r] \cup {k}
         /\ \A q \in Requests \ {r} : quotes'[q] = quotes[q]
<1>1. call[r].pc = "invoice" /\ invoice[k] = "none"
  BY DEF InvoiceReady, TypeInv, Keyed
<1>2. \A q \in Requests : k \notin quotes[q]
  BY <1>1 DEF TypeInv, Keyed
<1>3. /\ quotes'[r] = quotes[r] \cup {k}
      /\ \A q \in Requests \ {r} : quotes'[q] = quotes[q]
  BY DEF InvoiceReady, TypeInv, TypeOK
<1> QED
  BY <1>2, <1>3

\* What a launch is published with exists.
LEMMA Publishing ==
  ASSUME TypeInv, NEW r \in Requests, InvoiceReady(r)
  PROVE  \E k \in Keys : \E n \in RowNames : \E i \in Infos :
           k = call[r].key /\ n = NameFor(r, k) /\ i = NewInfo(r)
<1>1. call[r].key \in Keys /\ call[r].port \in Ports
  BY DEF InvoiceReady, TypeInv, TypeOK, Keyed, Calls
<1>2. NewInfo(r) \in Infos
  BY <1>1, NameAssumption, UnitAssumption DEF NewInfo, Infos, States, RowNames, Units
<1>3. NameFor(r, call[r].key) \in RowNames
  BY <1>1, NameAssumption DEF NameFor, RowNames
<1> QED
  BY <1>1, <1>2, <1>3

\* Every step keeps Named.
LEMMA NamedStep ==
  ASSUME TypeInv, TypeOK', Phases, Named, [Next]_vars
  PROVE  Named'
<1> USE DEF Named, Offered
<1>1. CASE Quiet
  BY <1>1 DEF Quiet
<1>2. CASE Dies
  BY <1>2 DEF Dies, Die
<1>3. CASE WalletReady
  BY <1>3 DEF WalletReady, stored
<1>4. ASSUME NEW x \in todo, LoadRow(x) PROVE Named'
  <2>1. x.key \in Keys /\ conts \subseteq Keys
    BY DEF TypeInv, TypeOK, Keyed
  <2>2. /\ conts' = conts \cup {x.key} /\ todo' = todo \ {x}
        /\ info'[x.key] = x.info /\ \A j \in Keys \ {x.key} : info'[j] = info[j]
        /\ UNCHANGED <<rows, row, quotes>>
    BY <1>4, <2>1 DEF LoadRow, stored, TypeInv, TypeOK
  <2>3. \A j \in conts' : \E q \in Requests :
          j \in quotes[q] /\ info'[j].name = NameFor(q, j)
    BY <2>1, <2>2
  <2> QED
    BY <2>2, <2>3
<1>5. ASSUME NEW r \in Requests, InvoiceReady(r) PROVE Named'
  <2>1. PICK k \in Keys, n \in RowNames, i \in Infos :
          k = call[r].key /\ n = NameFor(r, k) /\ i = NewInfo(r)
    BY <1>5, Publishing
  <2>2. /\ k \notin conts
        /\ i.name = n /\ rows' = rows \cup {n} /\ conts' = conts \cup {k}
        /\ info'[k] = i /\ \A j \in Keys \ {k} : info'[j] = info[j]
        /\ n \in rows => row'[n].key = row[n].key
        /\ n \notin rows => row'[n].key = k
        /\ row'[n].info = AsStored(i)
        /\ \A m \in RowNames \ {n} : row'[m] = row[m]
        /\ todo' = todo
    BY <1>5, <2>1, Published
  <2>3. /\ \A q \in Requests : k \notin quotes[q]
        /\ quotes'[r] = quotes[r] \cup {k}
        /\ \A q \in Requests \ {r} : quotes'[q] = quotes[q]
    BY <1>5, <2>1, QuotedNow
  <2>4. \A p, q \in Requests : \A j \in Keys :
          j \in quotes'[p] /\ j \in quotes'[q] => p = q
    BY <2>3
  <2>5. \A q \in Requests : quotes[q] \subseteq quotes'[q]
    BY <2>3
  <2>6. \A j \in conts' : \E q \in Requests :
          j \in quotes'[q] /\ info'[j].name = NameFor(q, j)
    <3> SUFFICES ASSUME NEW j \in conts'
                 PROVE  \E q \in Requests :
                          j \in quotes'[q] /\ info'[j].name = NameFor(q, j)
      OBVIOUS
    <3>1. CASE j = k
      BY <2>1, <2>2, <2>3, <3>1
    <3>2. CASE j # k
      <4>1. j \in conts /\ info'[j] = info[j]
        BY <2>2, <3>2 DEF TypeInv, TypeOK
      <4> QED
        BY <2>5, <4>1
    <3> QED
      BY <3>1, <3>2
  <2>7. AsStored(i).name = n /\ AsStored(i).units = Column(i.units)
        /\ Column(Column(i.units)) = Column(i.units)
    <3>1. i.units \in Units
      BY DEF Infos
    <3>2. Column(Column(i.units)) = Column(i.units)
      BY <3>1, UnitAssumption DEF Units, Column
    <3> QED
      BY <2>2, <3>2, StoredTypes
  <2>8. \A m \in rows' : /\ \E q \in Requests : row'[m].key \in quotes'[q]
                              /\ m = NameFor(q, row'[m].key)
                         /\ row'[m].info.name = m
                         /\ Column(row'[m].info.units) = row'[m].info.units
    <3> SUFFICES ASSUME NEW m \in rows'
                 PROVE  /\ \E q \in Requests : row'[m].key \in quotes'[q]
                              /\ m = NameFor(q, row'[m].key)
                        /\ row'[m].info.name = m
                        /\ Column(row'[m].info.units) = row'[m].info.units
      OBVIOUS
    <3>1. CASE m = n
      BY <2>1, <2>2, <2>3, <2>5, <2>7, <3>1
    <3>2. CASE m # n
      <4>1. m \in rows /\ row'[m] = row[m]
        BY <2>2, <3>2 DEF TypeInv, TypeOK
      <4> QED
        BY <2>5, <4>1
    <3> QED
      BY <3>1, <3>2
  <2>9. \A x \in todo' : /\ \E q \in Requests :
                              x.key \in quotes'[q] /\ x.info.name = NameFor(q, x.key)
                         /\ Column(x.info.units) = x.info.units
    BY <2>2, <2>5
  <2> QED
    BY <2>4, <2>6, <2>8, <2>9
<1>6. ASSUME NEW k \in Keys, Deploy(k) PROVE Named'
  <2>1. \A j \in Keys : info'[j].name = info[j].name
    BY <1>6 DEF Deploy, TypeInv, TypeOK, Infos
  <2>2. UNCHANGED <<conts, rows, row, todo, quotes>>
    BY <1>6 DEF Deploy, stored
  <2>3. \A j \in conts : info'[j].name = info[j].name
    BY <2>1 DEF TypeInv, TypeOK
  <2> QED
    BY <2>2, <2>3
<1>7. ASSUME NEW k \in Keys, Deployed(k) PROVE Named'
  <2>1. ASSUME NEW n \in RowNames
        PROVE  /\ row'[n].key = row[n].key
               /\ row'[n].info.name = row[n].info.name
               /\ row'[n].info.units = row[n].info.units
    <3>1. row[n] \in Rows
      BY DEF TypeInv, TypeOK
    <3>2. row'[n] = row[n] \/ row'[n] = [row[n] EXCEPT !.info.state = info[k].state]
      BY <1>7 DEF Deployed, WriteState
    <3> QED
      BY <3>1, <3>2 DEF Rows, Infos
  <2>2. UNCHANGED <<conts, rows, info, todo, quotes>>
    BY <1>7 DEF Deployed
  <2>3. rows \subseteq RowNames
    BY DEF TypeInv, TypeOK
  <2> QED
    BY <2>1, <2>2, <2>3
<1>8. ASSUME NEW k \in Keys, RemoveExpired(k) PROVE Named'
  <2>1. \A n \in rows' : n \in rows /\ row'[n] = row[n]
    BY <1>8 DEF RemoveExpired, TypeInv, TypeOK
  <2>2. /\ \A j \in conts' : j \in conts /\ info'[j] = info[j]
        /\ UNCHANGED <<todo, quotes>>
    BY <1>8 DEF RemoveExpired, TypeInv, TypeOK
  <2> QED
    BY <2>1, <2>2
<1> QED
  BY <1>1, <1>2, <1>3, <1>4, <1>5, <1>6, <1>7, <1>8, StepKinds DEF TypeInv

\* Every step keeps Lates: who finds a row finds the one that had the name.
LEMMA LatesStep ==
  ASSUME TypeInv, TypeOK', Phases, Named, Lates, [Next]_vars
  PROVE  Lates'
<1>1. CASE UNCHANGED <<quotes, late>>
  BY <1>1 DEF Lates, Offered, Contested
<1>2. ASSUME NEW r \in Requests, InvoiceReady(r) PROVE Lates'
  <2>1. PICK k \in Keys, n \in RowNames, i \in Infos :
          k = call[r].key /\ n = NameFor(r, k) /\ i = NewInfo(r)
    BY <1>2, Publishing
  <2>2. /\ \A m \in rows : row[m].key # k
        /\ late'[k] = (n \in rows) /\ \A j \in Keys \ {k} : late'[j] = late[j]
    BY <1>2, <2>1, Published
  <2>3. /\ quotes'[r] = quotes[r] \cup {k}
        /\ \A q \in Requests \ {r} : quotes'[q] = quotes[q]
    BY <1>2, <2>1, QuotedNow
  <2>4. \A j, m : Offered(j, m) => Offered(j, m)'
    BY <2>3 DEF Offered
  <2>5. \A j, m : Contested(j, m) => Contested(j, m)'
    BY <2>4 DEF Contested
  <2>6. Offered(k, n)'
    BY <2>1, <2>3 DEF Offered
  <2>7. ASSUME n \in rows PROVE Contested(k, n)'
    <3>1. row[n].key \in Keys \ {k} /\ Offered(row[n].key, n)
      BY <2>2, <2>7 DEF TypeInv, Keyed, Named
    <3>2. PICK j \in Keys \ {k} : Offered(j, n)
      BY <3>1
    <3> QED
      BY <2>4, <3>2 DEF Contested
  <2>8. ASSUME NEW j \in Keys, late'[j]
        PROVE  \E m \in RowNames : Offered(j, m)' /\ Contested(j, m)'
    <3>1. CASE j = k
      BY <2>1, <2>2, <2>6, <2>7, <2>8, <3>1
    <3>2. CASE j # k
      <4>1. PICK m \in RowNames : Offered(j, m) /\ Contested(j, m)
        BY <2>2, <2>8, <3>2 DEF Lates
      <4> QED
        BY <2>4, <2>5, <4>1
    <3> QED
      BY <3>1, <3>2
  <2> QED
    BY <2>8 DEF Lates
<1>3. Quiet \/ Dies \/ WalletReady \/ (\E x \in todo : LoadRow(x))
        => UNCHANGED <<quotes, late>>
  BY DEF Quiet, Dies, WalletReady, LoadRow
<1>4. (\E k \in Keys : Deploy(k) \/ Deployed(k) \/ RemoveExpired(k))
        => UNCHANGED <<quotes, late>>
  BY DEF Deploy, Deployed, RemoveExpired
<1> QED
  BY <1>1, <1>2, <1>3, <1>4, StepKinds DEF TypeInv

\* A record is what its container would write.
LEMMA RecordIsWritten ==
  ASSUME NEW x \in Rows, Column(x.info.units) = x.info.units
  PROVE  [key |-> x.key, info |-> AsStored(x.info)] = x
<1>1. x.info \in Infos
  BY DEF Rows
<1>2. AsStored(x.info) = [x.info EXCEPT !.units = Column(x.info.units)]
  BY <1>1, StoredTypes
<1>3. AsStored(x.info) = x.info
  BY <1>1, <1>2 DEF Infos
<1> QED
  BY <1>3 DEF Rows

\* Bringing a waiting container up changes what its row is to say only when up
\* has returned.
LEMMA StateWritten ==
  ASSUME NEW i \in Infos, i.state = "waiting"
  PROVE  LET d == [i EXCEPT !.state = "deployed"]
         IN  /\ d \in Infos /\ d.name = i.name
             /\ [AsStored(d) EXCEPT !.state = "waiting"] = AsStored(i)
<1> DEFINE d == [i EXCEPT !.state = "deployed"]
<1>1. d \in Infos /\ d.units = i.units /\ d.name = i.name
  BY DEF Infos, States
<1>2. AsStored(d) = [d EXCEPT !.units = Column(i.units)]
      /\ AsStored(i) = [i EXCEPT !.units = Column(i.units)]
  BY <1>1, StoredTypes
<1>3. [[d EXCEPT !.units = Column(i.units)] EXCEPT !.state = "waiting"]
        = [i EXCEPT !.units = Column(i.units)]
  BY DEF Infos
<1> HIDE DEF d
<1>4. [AsStored(d) EXCEPT !.state = "waiting"] = AsStored(i)
  BY <1>2, <1>3
<1> QED
  BY <1>1, <1>4 DEF d

\* What Kept says of a container, a record and a quote, with the name by itself.
Served(k, n) == late[k] \/ (Has(k, n) /\ (Contested(k, n) \/ row[n] = Written(k)))
Read(x, n) == Has(x.key, n) /\ (Contested(x.key, n) \/ row[n] = x)
Quoted(k, n) == overdue[k] \/ late[k] \/ Has(k, n)

LEMMA KeptByName ==
  /\ Kept => /\ \A k \in conts : \A n : n = info[k].name => Served(k, n)
             /\ \A x \in todo : \A n : n = x.info.name => Read(x, n)
             /\ \A r \in Requests : \A k \in quotes[r] : \A n :
                  n = NameFor(r, k) => Quoted(k, n)
  /\ (/\ \A k \in conts' : \A n : n = info'[k].name => Served(k, n)'
      /\ \A x \in todo' : \A n : n = x.info.name => Read(x, n)'
      /\ \A r \in Requests : \A k \in quotes'[r] : \A n :
           n = NameFor(r, k) => Quoted(k, n)') => Kept'
<1>1. Kept => /\ \A k \in conts : \A n : n = info[k].name => Served(k, n)
              /\ \A x \in todo : \A n : n = x.info.name => Read(x, n)
              /\ \A r \in Requests : \A k \in quotes[r] : \A n :
                   n = NameFor(r, k) => Quoted(k, n)
  BY DEF Kept, Served, Read, Quoted, Has, Contested, Offered
<1>2. ASSUME \A k \in conts' : \A n : n = info'[k].name => Served(k, n)',
             \A x \in todo' : \A n : n = x.info.name => Read(x, n)',
             \A r \in Requests : \A k \in quotes'[r] : \A n :
               n = NameFor(r, k) => Quoted(k, n)'
      PROVE  Kept'
  BY <1>2 DEF Kept, Served, Read, Quoted, Has, Contested, Offered
<1> QED
  BY <1>1, <1>2

\* A name that is contested stays so, and as it was if nothing is quoted.
LEMMA SameQuotes ==
  ASSUME UNCHANGED quotes
  PROVE  \A k, n : Contested(k, n)' <=> Contested(k, n)
BY DEF Contested, Offered

\* The end of the process leaves rows and quotes.
LEMMA KeptDies ==
  ASSUME Kept, Dies
  PROVE  Kept'
BY DEF Kept, Dies, Die, Has

LEMMA KeptQuiet ==
  ASSUME TypeInv, Kept, Quiet
  PROVE  Kept'
<1>1. \A k \in Keys : Written(k)' = Written(k)
  BY DEF Quiet, Written
<1>2. /\ UNCHANGED <<conts, info, rows, row, todo, quotes, late>>
      /\ \A k \in Keys : overdue[k] => overdue'[k]
  BY DEF Quiet
<1>3. conts \subseteq Keys /\ \A r \in Requests : quotes[r] \subseteq Keys
  BY DEF TypeInv, TypeOK
<1>4. \A k, n : /\ Has(k, n)' <=> Has(k, n)
                /\ Contested(k, n)' <=> Contested(k, n)
  BY <1>2, SameQuotes DEF Has
<1>5. \A k \in Keys : \A n : Served(k, n) => Served(k, n)'
  BY <1>1, <1>2, <1>4 DEF Served
<1>6. \A x, n : Read(x, n) => Read(x, n)'
  BY <1>2, <1>4 DEF Read
<1>7. \A k \in Keys : \A n : Quoted(k, n) => Quoted(k, n)'
  BY <1>2, <1>4 DEF Quoted
<1> QED
  BY <1>2, <1>3, <1>5, <1>6, <1>7, KeptByName

\* A record is loaded as it was read; the loop does not run yet.
LEMMA KeptLoaded ==
  ASSUME TypeInv, Phases, Named, Kept, NEW x \in todo, LoadRow(x)
  PROVE  Kept'
<1>1. /\ x.key \in Keys /\ x \in Rows /\ Column(x.info.units) = x.info.units
      /\ conts \subseteq Keys
  BY DEF TypeInv, TypeOK, Keyed, Named
<1>2. loop = NoLook /\ loop' = loop
  BY DEF LoadRow, Phases
<1>3. /\ todo' = todo \ {x} /\ conts' = conts \cup {x.key}
      /\ info' = [info EXCEPT ![x.key] = x.info]
      /\ UNCHANGED <<rows, row, quotes, overdue, late>>
  BY DEF LoadRow, stored, wallet
<1>4. \A k \in Keys : ~Loop("up", k) /\ ~Loop("up", k)'
  BY <1>2 DEF Loop, NoLook
<1>5. \A k \in Keys : /\ Written(k) = [key |-> k, info |-> AsStored(info[k])]
                      /\ Written(k)' = [key |-> k, info |-> AsStored(info'[k])]
  BY <1>4 DEF Written
<1>6. info'[x.key] = x.info /\ \A k \in Keys \ {x.key} : info'[k] = info[k]
  BY <1>1, <1>3 DEF TypeInv, TypeOK
<1>7. Written(x.key)' = x
  BY <1>1, <1>5, <1>6, RecordIsWritten
<1>8. \A k \in Keys \ {x.key} : Written(k)' = Written(k)
  BY <1>5, <1>6
<1>9. \A k, n : /\ Has(k, n)' <=> Has(k, n)
                /\ Contested(k, n)' <=> Contested(k, n)
  BY <1>3, SameQuotes DEF Has
<1>10. ASSUME NEW k \in conts', NEW n, n = info'[k].name
       PROVE  Served(k, n)'
  <2>1. CASE k = x.key
    <3>1. Read(x, n)
      BY <1>6, <1>10, <2>1, KeptByName
    <3> QED
      BY <1>3, <1>7, <1>9, <2>1, <3>1 DEF Read, Served
  <2>2. CASE k # x.key
    <3>1. k \in conts /\ k \in Keys \ {x.key} /\ n = info[k].name
      BY <1>1, <1>3, <1>6, <1>10, <2>2
    <3>2. Served(k, n)
      BY <3>1, KeptByName
    <3> QED
      BY <1>3, <1>8, <1>9, <3>1, <3>2 DEF Served
  <2> QED
    BY <2>1, <2>2
<1>11. \A y, n : Read(y, n) => Read(y, n)'
  BY <1>3, <1>9 DEF Read
<1>12. \A k, n : Quoted(k, n) => Quoted(k, n)'
  BY <1>3, <1>9 DEF Quoted
<1> QED
  BY <1>3, <1>10, <1>11, <1>12, KeptByName

\* Publishing a launch contests the name for every other key, and is late if it
\* finds a row under it; that row keeps its key.
LEMMA KeptPublished ==
  ASSUME TypeInv, TypeOK', Phases, Named, Kept, NEW r \in Requests, InvoiceReady(r)
  PROVE  Kept'
<1>1. PICK k \in Keys, n \in RowNames, i \in Infos :
        k = call[r].key /\ n = NameFor(r, k) /\ i = NewInfo(r)
  BY Publishing
<1>2. /\ k \notin conts /\ \A m \in rows : row[m].key # k
      /\ \A x \in todo : x.key # k
      /\ i.name = n /\ rows' = rows \cup {n} /\ conts' = conts \cup {k}
      /\ info'[k] = i /\ \A j \in Keys \ {k} : info'[j] = info[j]
      /\ n \in rows => row'[n].key = row[n].key
      /\ n \notin rows => row'[n].key = k
      /\ row'[n].info = AsStored(i)
      /\ \A m \in RowNames \ {n} : row'[m] = row[m]
      /\ ~Loop("up", k) /\ loop' = loop /\ todo' = todo /\ overdue' = overdue
      /\ late'[k] = (n \in rows) /\ \A j \in Keys \ {k} : late'[j] = late[j]
  BY <1>1, Published
<1>3. /\ quotes'[r] = quotes[r] \cup {k}
      /\ \A q \in Requests \ {r} : quotes'[q] = quotes[q]
  BY <1>1, QuotedNow
<1>4. \A j, m : Contested(j, m) => Contested(j, m)'
  BY <1>3 DEF Offered, Contested
<1>5. \A j \in Keys \ {k} : Contested(j, n)'
  <2>1. Offered(k, n)'
    BY <1>1, <1>3 DEF Offered
  <2> QED
    BY <2>1 DEF Contested
<1>6. rows \subseteq RowNames /\ conts \subseteq Keys
      /\ \A q \in Requests : quotes[q] \subseteq Keys
  BY DEF TypeInv, TypeOK
<1>7. \A j, m : Has(j, m) => Has(j, m)'
  BY <1>2, <1>6 DEF Has
<1>8. \A m \in rows \ {n} : row'[m] = row[m]
  BY <1>2, <1>6
<1>9. \A j \in Keys \ {k} : Written(j)' = Written(j)
  BY <1>2 DEF Written, Loop
<1>10. ASSUME n \notin rows PROVE Has(k, n)' /\ row'[n] = Written(k)'
  <2>1. Written(k)' = [key |-> k, info |-> AsStored(i)]
    BY <1>2 DEF Written, Loop
  <2>2. row'[n] \in Rows
    BY DEF TypeOK
  <2>3. row'[n].key = k /\ row'[n].info = AsStored(i)
    BY <1>2, <1>10
  <2>4. row'[n] = [key |-> k, info |-> AsStored(i)]
    BY <2>2, <2>3 DEF Rows
  <2> QED
    BY <1>2, <2>1, <2>3, <2>4 DEF Has
<1>11. ASSUME NEW j \in conts', NEW m, m = info'[j].name
       PROVE  Served(j, m)'
  <2>1. CASE j = k
    BY <1>2, <1>10, <1>11, <2>1 DEF Served
  <2>2. CASE j # k
    <3>1. j \in conts /\ j \in Keys \ {k} /\ m = info[j].name
      BY <1>2, <1>6, <1>11, <2>2
    <3>2. Served(j, m)
      BY <3>1, KeptByName
    <3>3. Has(j, m) => m \in rows
      BY DEF Has
    <3> QED
      BY <1>2, <1>4, <1>5, <1>7, <1>8, <1>9, <3>1, <3>2, <3>3 DEF Served
  <2> QED
    BY <2>1, <2>2
<1>12. ASSUME NEW x \in todo', NEW m, m = x.info.name
       PROVE  Read(x, m)'
  <2>1. x \in todo /\ x.key \in Keys \ {k}
    BY <1>2 DEF TypeInv, Keyed
  <2>2. Read(x, m)
    BY <1>12, <2>1, KeptByName
  <2>3. Has(x.key, m) => m \in rows
    BY DEF Has
  <2> QED
    BY <1>4, <1>5, <1>7, <1>8, <2>1, <2>2, <2>3 DEF Read
<1>13. ASSUME NEW q \in Requests, NEW j \in quotes'[q], NEW m, m = NameFor(q, j)
       PROVE  Quoted(j, m)'
  <2>1. CASE j = k
    <3>1. q = r
      BY <1>1, <1>3, <2>1, QuotedNow
    <3> QED
      BY <1>1, <1>2, <1>10, <1>13, <2>1, <3>1 DEF Quoted
  <2>2. CASE j # k
    <3>1. j \in quotes[q] /\ j \in Keys \ {k}
      BY <1>3, <1>6, <2>2
    <3>2. Quoted(j, m)
      BY <1>13, <3>1, KeptByName
    <3> QED
      BY <1>2, <1>7, <3>1, <3>2 DEF Quoted
  <2> QED
    BY <2>1, <2>2
<1> QED
  BY <1>11, <1>12, <1>13, KeptByName

\* The loop turns to a paid container: its state moves ahead of its row.
LEMMA KeptDeploy ==
  ASSUME TypeInv, Phases, Kept, NEW k \in Keys, Deploy(k)
  PROVE  Kept'
<1>1. loop.pc = "told" /\ loop.key = k /\ loop'.pc = "up" /\ loop'.key = k
  BY DEF Deploy, Loop, TypeInv, TypeOK, Looks
<1>2. k \in conts /\ info[k].state = "waiting" /\ info[k] \in Infos
  BY <1>1 DEF Phases, NoLook, TypeInv, TypeOK
<1>3. /\ info'[k] = [info[k] EXCEPT !.state = "deployed"]
      /\ \A j \in Keys \ {k} : info'[j] = info[j]
      /\ UNCHANGED <<conts, rows, row, todo, quotes, overdue, late>>
      /\ conts \subseteq Keys
  BY DEF Deploy, stored, wallet, TypeInv, TypeOK
<1>4. /\ info'[k].name = info[k].name
      /\ [AsStored(info'[k]) EXCEPT !.state = "waiting"] = AsStored(info[k])
  BY <1>2, <1>3, StateWritten
<1>5. Written(k)' = Written(k)
  BY <1>1, <1>4 DEF Written, Loop
<1>6. \A j \in Keys \ {k} : Written(j)' = Written(j)
  BY <1>1, <1>3 DEF Written, Loop
<1>7. \A j \in conts : /\ info'[j].name = info[j].name
                       /\ Written(j)' = Written(j)
  BY <1>3, <1>4, <1>5, <1>6
<1>8. \A j, n : /\ Has(j, n)' <=> Has(j, n)
                /\ Contested(j, n)' <=> Contested(j, n)
  BY <1>3, SameQuotes DEF Has
<1>9. \A j \in conts : \A n : Served(j, n) => Served(j, n)'
  BY <1>3, <1>7, <1>8 DEF Served
<1>10. \A x, n : Read(x, n) => Read(x, n)'
  BY <1>3, <1>8 DEF Read
<1>11. \A j, n : Quoted(j, n) => Quoted(j, n)'
  BY <1>3, <1>8 DEF Quoted
<1> QED
  BY <1>3, <1>7, <1>9, <1>10, <1>11, KeptByName

\* The row catches up.
LEMMA KeptDeployed ==
  ASSUME TypeInv, Phases, Kept, NEW k \in Keys, Deployed(k)
  PROVE  Kept'
<1>1. loop.pc = "up" /\ loop.key = k /\ loop' = NoLook
  BY DEF Deployed, Loop
<1>2. /\ k \in conts /\ info[k].state = "deployed" /\ info[k] \in Infos
      /\ app = "running" /\ todo = {}
  BY <1>1 DEF Phases, NoLook, TypeInv, TypeOK
<1>3. /\ \A n \in rows : row[n].key # k => row'[n] = row[n]
      /\ \A n \in rows : row[n].key = k =>
           row'[n] = [row[n] EXCEPT !.info.state = "deployed"]
      /\ UNCHANGED <<conts, info, rows, todo, quotes, overdue, late>>
      /\ conts \subseteq Keys
  BY <1>2 DEF Deployed, WriteState, RowsOf, wallet, TypeInv, TypeOK
<1>4. \A n \in rows : row'[n].key = row[n].key
  <2> SUFFICES ASSUME NEW n \in rows PROVE row'[n].key = row[n].key
    OBVIOUS
  <2>1. row[n] \in Rows
    BY DEF TypeInv, TypeOK
  <2>2. row'[n] = row[n] \/ row'[n] = [row[n] EXCEPT !.info.state = "deployed"]
    BY <1>3
  <2> QED
    BY <2>1, <2>2 DEF Rows
<1>5. Written(k) = [key |-> k, info |-> [AsStored(info[k]) EXCEPT !.state = "waiting"]]
      /\ Written(k)' = [key |-> k, info |-> AsStored(info[k])]
  BY <1>1, <1>3 DEF Written, Loop, NoLook
<1>6. AsStored(info[k]) \in Infos /\ AsStored(info[k]).state = "deployed"
  BY <1>2, StoredTypes
<1>7. \A n \in rows : row[n] = Written(k) => row'[n] = Written(k)'
  <2> SUFFICES ASSUME NEW n \in rows, row[n] = Written(k)
               PROVE  row'[n] = Written(k)'
    OBVIOUS
  <2>1. PICK i \in Infos : i = AsStored(info[k]) /\ i.state = "deployed"
    BY <1>6
  <2>2. row[n] = [key |-> k, info |-> [i EXCEPT !.state = "waiting"]]
    BY <1>5, <2>1
  <2>3. row'[n] = [row[n] EXCEPT !.info.state = "deployed"]
    <3>1. row[n].key = k
      BY <2>2
    <3> QED
      BY <1>3, <3>1
  <2>4. [[i EXCEPT !.state = "waiting"] EXCEPT !.state = "deployed"] = i
    BY <2>1 DEF Infos
  <2>5. row'[n] = [key |-> k, info |-> i]
    BY <2>2, <2>3, <2>4
  <2> QED
    BY <1>5, <2>1, <2>5
<1>8. \A j \in Keys \ {k} : Written(j)' = Written(j)
  BY <1>1, <1>3 DEF Written, Loop, NoLook
<1>9. \A j, n : /\ Has(j, n)' <=> Has(j, n)
                /\ Contested(j, n)' <=> Contested(j, n)
  BY <1>3, <1>4, SameQuotes DEF Has
<1>10. ASSUME NEW j \in conts, NEW n, Served(j, n) PROVE Served(j, n)'
  <2>1. CASE j = k
    <3>1. Has(k, n) => n \in rows
      BY DEF Has
    <3> QED
      BY <1>3, <1>7, <1>9, <1>10, <2>1, <3>1 DEF Served
  <2>2. CASE j # k
    <3>1. Has(j, n) => row'[n] = row[n]
      BY <1>3, <2>2 DEF Has
    <3>2. Written(j)' = Written(j)
      BY <1>3, <1>8, <2>2
    <3> QED
      BY <1>3, <1>9, <1>10, <3>1, <3>2 DEF Served
  <2> QED
    BY <2>1, <2>2
<1>11. \A j, n : Quoted(j, n) => Quoted(j, n)'
  BY <1>3, <1>9 DEF Quoted
<1> QED
  BY <1>2, <1>3, <1>10, <1>11, KeptByName

\* The loop removes a container whose invoice has expired, and its row.
LEMMA KeptRemoved ==
  ASSUME TypeInv, Phases, Kept, NEW k \in Keys, RemoveExpired(k)
  PROVE  Kept'
<1>1. loop.pc = "told" /\ loop.key = k /\ loop' = NoLook /\ overdue[k]
  BY DEF RemoveExpired, Loop, TooLate
<1>2. app = "running" /\ todo = {}
  BY <1>1 DEF Phases, NoLook
<1>3. /\ conts' = conts \ {k} /\ \A j \in Keys \ {k} : info'[j] = info[j]
      /\ rows' = {n \in rows : row[n].key # k}
      /\ \A n \in rows' : row'[n] = row[n]
      /\ UNCHANGED <<todo, quotes, overdue, late>>
      /\ conts \subseteq Keys
  BY DEF RemoveExpired, RowsOf, wallet, TypeInv, TypeOK
<1>4. \A j \in Keys \ {k} : Written(j)' = Written(j)
  BY <1>1, <1>3 DEF Written, Loop, NoLook
<1>5. \A j, n : j # k /\ Has(j, n) => Has(j, n)' /\ row'[n] = row[n]
  BY <1>3 DEF Has
<1>6. \A j, n : Contested(j, n)' <=> Contested(j, n)
  BY <1>3, SameQuotes
<1>7. ASSUME NEW j \in conts', NEW n, n = info'[j].name PROVE Served(j, n)'
  <2>1. j \in conts /\ j \in Keys \ {k} /\ n = info[j].name
    BY <1>3, <1>7
  <2>2. Served(j, n)
    BY <2>1, KeptByName
  <2> QED
    BY <1>3, <1>4, <1>5, <1>6, <2>1, <2>2 DEF Served
<1>8. \A j, n : Quoted(j, n) => Quoted(j, n)'
  <2> SUFFICES ASSUME NEW j, NEW n, Quoted(j, n) PROVE Quoted(j, n)'
    OBVIOUS
  <2>1. CASE j = k
    BY <1>1, <1>3, <2>1 DEF Quoted
  <2>2. CASE j # k
    BY <1>3, <1>5, <2>2 DEF Quoted
  <2> QED
    BY <2>1, <2>2
<1> QED
  BY <1>2, <1>3, <1>7, <1>8, KeptByName

\* Every step keeps Kept.
LEMMA KeptStep ==
  ASSUME TypeInv, TypeOK', Phases, Named, Kept, [Next]_vars
  PROVE  Kept'
<1>1. CASE WalletReady
  <2>1. /\ todo' = {row[n] : n \in rows} /\ conts = {}
        /\ UNCHANGED <<conts, info, rows, row, quotes, overdue, late>>
    BY <1>1 DEF WalletReady, Phases, stored, wallet
  <2>2. \A n \in rows : row[n].info.name = n
    BY DEF Named
  <2>3. \A x \in todo' : \A n : n = x.info.name => Read(x, n)'
    BY <2>1, <2>2 DEF Read, Has
  <2>4. \A k, n : Quoted(k, n) => Quoted(k, n)'
    BY <2>1 DEF Quoted, Has
  <2> QED
    BY <2>1, <2>3, <2>4, KeptByName
<1> QED
  BY <1>1, StepKinds, KeptQuiet, KeptDies, KeptLoaded, KeptPublished, KeptDeploy,
     KeptDeployed, KeptRemoved
  DEF TypeInv

\* Where Kept holds, so do the properties.
LEMMA KeptShows ==
  ASSUME TypeInv, Kept
  PROVE  LaunchedIsStored /\ QuoteIsDurable
<1>1. LaunchedIsStored
  BY DEF Kept, Has, LaunchedIsStored
<1>2. QuoteIsDurable
  BY DEF Kept, Has, QuoteIsDurable, RowsOf
<1> QED
  BY <1>1, <1>2

-----------------------------------------------------------------------------
(* Where nobody chooses a name, a container and its row share the key.     *)

Stored ==
  /\ \A n \in rows : row[n].key = n
  /\ \A k \in conts : /\ k \in rows /\ row[k].info.port = info[k].port
                      /\ row[k].info.units = Column(info[k].units)
  /\ \A x \in todo : x.key \in rows \ conts /\ row[x.key] = x
  /\ app \in {"loading", "running"} =>
       \A n \in rows : n \in conts \/ row[n] \in todo

LEMMA OwnNames ==
  ASSUME NobodyNames
  PROVE  /\ \A k, n : Offered(k, n) => n = k
         /\ \A k, n : Offered(k, n) => ~Contested(k, n)
BY DEF NobodyNames, NameFor, Offered, Contested

LEMMA OwnRow ==
  ASSUME NobodyNames, StoreInv, Loaded
  PROVE  Stored
<1>1. \A n \in rows : row[n].key = n
  BY OwnNames DEF StoreInv, Named
<1>a. \A k \in Keys : ~late[k]
  BY OwnNames DEF StoreInv, Lates
<1>2. \A k \in conts : info[k].name = k /\ k \in rows /\ row[k] = Written(k)
  <2> SUFFICES ASSUME NEW k \in conts
               PROVE  info[k].name = k /\ k \in rows /\ row[k] = Written(k)
    OBVIOUS
  <2>1. k \in Keys /\ Offered(k, info[k].name)
    BY DEF StoreInv, TypeInv, TypeOK, Named
  <2>2. Served(k, info[k].name)
    BY KeptByName DEF StoreInv
  <2> QED
    BY <1>a, <2>1, <2>2, OwnNames DEF Served, Has
<1>3. \A k \in conts : /\ Written(k).info.port = info[k].port
                      /\ Written(k).info.units = Column(info[k].units)
  <2> SUFFICES ASSUME NEW k \in conts
               PROVE  /\ Written(k).info.port = info[k].port
                      /\ Written(k).info.units = Column(info[k].units)
    OBVIOUS
  <2>1. info[k] \in Infos
    BY DEF StoreInv, TypeInv, TypeOK
  <2>2. PICK i \in Infos : i = AsStored(info[k])
    BY <2>1, StoredTypes
  <2>3. i.port = info[k].port /\ i.units = Column(info[k].units)
    BY <2>1, <2>2, StoredTypes
  <2>4. Written(k).info = i \/ Written(k).info = [i EXCEPT !.state = "waiting"]
    BY <2>2 DEF Written
  <2> QED
    BY <2>3, <2>4 DEF Infos
<1>4. \A x \in todo : x.info.name = x.key /\ x.key \in rows /\ row[x.key] = x
  BY OwnNames DEF StoreInv, Named, Kept, Has
<1> QED
  BY <1>1, <1>2, <1>3, <1>4 DEF Stored, Loaded

\* The launch of r takes a row of its own.
LEMMA OwnLaunch ==
  ASSUME NobodyNames, TypeInv, TypeOK', Phases, Stored,
         NEW r \in Requests, InvoiceReady(r), NEW k \in Keys, k = call[r].key
  PROVE  /\ k \notin rows /\ k \notin conts /\ k \in RowNames
         /\ \A x \in todo : x.key # k
         /\ rows' = rows \cup {k} /\ conts' = conts \cup {k} /\ todo' = todo
         /\ row'[k].key = k /\ row'[k].info.port = call[r].port
         /\ row'[k].info.units = Column(UnitsOf[r])
         /\ info'[k].units = UnitsOf[r]
         /\ \A n \in RowNames \ {k} : row'[n] = row[n]
         /\ \A j \in Keys \ {k} : info'[j] = info[j]
         /\ app' = app
<1>1. PICK i \in Infos : i = NewInfo(r)
  BY Publishing
<1>2. k = NameFor(r, k) /\ k \in RowNames
  BY DEF NobodyNames, NameFor, RowNames
<1>3. /\ k \notin conts /\ \A m \in rows : row[m].key # k
      /\ \A x \in todo : x.key # k
      /\ rows' = rows \cup {k} /\ conts' = conts \cup {k} /\ todo' = todo
      /\ info'[k] = i /\ \A j \in Keys \ {k} : info'[j] = info[j]
      /\ k \notin rows => row'[k].key = k
      /\ row'[k].info = AsStored(i)
      /\ \A m \in RowNames \ {k} : row'[m] = row[m]
  BY <1>1, <1>2, Published
<1>4. k \notin rows
  BY <1>3 DEF Stored
<1>5. AsStored(i).port = i.port /\ AsStored(i).units = Column(i.units)
  BY StoredTypes
<1>6. i.port = call[r].port /\ i.units = UnitsOf[r]
  BY <1>1 DEF NewInfo
<1>7. app' = app
  BY DEF InvoiceReady
<1> QED
  BY <1>2, <1>3, <1>4, <1>5, <1>6, <1>7

\* Every step keeps the rows loaded.
LEMMA LoadedStep ==
  ASSUME NobodyNames, TypeInv, TypeOK', Phases, Stored, Loaded, [Next]_vars
  PROVE  Loaded'
<1> USE DEF Loaded
<1>1. CASE Quiet
  BY <1>1 DEF Quiet
<1>2. CASE Dies
  BY <1>2 DEF Dies, Die
<1>3. CASE WalletReady
  BY <1>3 DEF WalletReady, Phases, stored
<1>4. ASSUME NEW x \in todo, LoadRow(x) PROVE Loaded'
  <2>1. /\ todo' = todo \ {x} /\ conts' = conts \cup {x.key}
        /\ UNCHANGED <<app, rows, row>> /\ app = "loading"
    BY <1>4 DEF LoadRow, stored
  <2>2. \A y \in todo : y.key = x.key => y = x
    BY DEF Stored
  <2>3. \A n \in rows : row[n] = x => n = x.key
    BY DEF Stored
  <2> QED
    BY <2>1, <2>2, <2>3
<1>5. ASSUME NEW r \in Requests, InvoiceReady(r) PROVE Loaded'
  <2>1. PICK k \in Keys : k = call[r].key
    BY <1>5, Publishing
  <2>2. /\ k \notin rows /\ k \notin conts /\ \A x \in todo : x.key # k
        /\ rows' = rows \cup {k} /\ conts' = conts \cup {k} /\ todo' = todo
        /\ \A n \in RowNames \ {k} : row'[n] = row[n]
        /\ app' = app
    BY <1>5, <2>1, OwnLaunch
  <2>3. \A n \in rows : row'[n] = row[n]
    BY <2>2 DEF TypeInv, TypeOK
  <2> QED
    BY <2>2, <2>3
<1>6. ASSUME NEW k \in Keys, Deploy(k) PROVE Loaded'
  BY <1>6 DEF Deploy, stored
<1>7. ASSUME NEW k \in Keys, Deployed(k) PROVE Loaded'
  <2>1. todo = {} /\ app \in {"loading", "running"}
    BY <1>7 DEF Deployed, Loop, Phases, NoLook
  <2> QED
    BY <1>7, <2>1 DEF Deployed
<1>8. ASSUME NEW k \in Keys, RemoveExpired(k) PROVE Loaded'
  <2>1. todo = {} /\ app \in {"loading", "running"}
    BY <1>8 DEF RemoveExpired, Loop, Phases, NoLook
  <2>2. RowsOf(k) = {k} \cap rows
    BY DEF RowsOf, Stored
  <2>3. conts' = conts \ {k} /\ rows' = rows \ {k} /\ todo' = todo
    BY <1>8, <2>2 DEF RemoveExpired
  <2> QED
    BY <2>1, <2>3
<1> QED
  BY <1>1, <1>2, <1>3, <1>4, <1>5, <1>6, <1>7, <1>8, StepKinds DEF TypeInv

-----------------------------------------------------------------------------
(* Launches that are alone: their ports.                                   *)

\* A row that is there and that was launched alone keeps its ports and units.
LoneStays ==
  \A k \in LoneRows' : /\ k \in LoneRows
                       /\ row'[k].info.port = row[k].info.port
                       /\ row'[k].info.units = row[k].info.units

\* Only a launch that is published adds to the rows launched alone.
LEMMA LoneKept ==
  ASSUME TypeInv, Phases, \A r \in Requests : ~InvoiceReady(r), [Next]_vars
  PROVE  LoneStays
<1> USE DEF LoneStays, LoneRows
<1>1. CASE Quiet
  BY <1>1 DEF Quiet
<1>2. CASE Dies
  BY <1>2 DEF Dies
<1>3. CASE WalletReady
  BY <1>3 DEF WalletReady, stored
<1>4. ASSUME NEW x \in todo, LoadRow(x) PROVE LoneStays
  BY <1>4 DEF LoadRow, stored
<1>5. ASSUME NEW k \in Keys, Deploy(k) PROVE LoneStays
  BY <1>5 DEF Deploy, stored
<1>6. ASSUME NEW k \in Keys, Deployed(k) PROVE LoneStays
  <2>1. UNCHANGED <<rows, alone>>
    BY <1>6 DEF Deployed
  <2>2. ASSUME NEW n \in RowNames
        PROVE  /\ row'[n].info.port = row[n].info.port
               /\ row'[n].info.units = row[n].info.units
    <3>1. row[n] \in Rows
      BY DEF TypeInv, TypeOK
    <3>2. row'[n] = row[n] \/ row'[n] = [row[n] EXCEPT !.info.state = info[k].state]
      BY <1>6 DEF Deployed, WriteState
    <3> QED
      BY <3>1, <3>2 DEF Rows, Infos
  <2>3. rows \subseteq RowNames
    BY DEF TypeInv, TypeOK
  <2> QED
    BY <2>1, <2>2, <2>3
<1>7. ASSUME NEW k \in Keys, RemoveExpired(k) PROVE LoneStays
  <2>1. /\ rows' = rows \ RowsOf(k) /\ alone' = alone
        /\ \A n \in RowNames \ RowsOf(k) : row'[n] = row[n]
    BY <1>7 DEF RemoveExpired
  <2>2. rows \subseteq RowNames
    BY DEF TypeInv, TypeOK
  <2> QED
    BY <2>1, <2>2
<1> QED
  BY <1>1, <1>2, <1>3, <1>4, <1>5, <1>6, <1>7, StepKinds DEF TypeInv

\* The row of a launch that is published is lone if the launch was alone; the
\* others stay as they are.
LEMMA LonePublished ==
  ASSUME NobodyNames, TypeInv, TypeOK', Phases, Stored,
         NEW r \in Requests, InvoiceReady(r), NEW k \in Keys, k = call[r].key
  PROVE  /\ k \notin LoneRows
         /\ LoneRows' = IF call[r].alone THEN LoneRows \cup {k} ELSE LoneRows
         /\ row'[k].info.port = call[r].port
         /\ row'[k].info.units = Column(UnitsOf[r])
         /\ \A j \in LoneRows : row'[j] = row[j]
         /\ call' = [call EXCEPT ![r] = NoCall] /\ todo' = todo
<1>1. /\ k \notin rows /\ rows' = rows \cup {k}
      /\ row'[k].info.port = call[r].port
      /\ row'[k].info.units = Column(UnitsOf[r])
      /\ \A n \in RowNames \ {k} : row'[n] = row[n]
  BY OwnLaunch
<1>2. /\ alone'[k] = call[r].alone
      /\ \A j \in Keys \ {k} : alone'[j] = alone[j]
  BY DEF InvoiceReady, TypeInv, TypeOK
<1>3. \A j \in LoneRows : row'[j] = row[j]
  BY <1>1 DEF TypeInv, TypeOK, LoneRows
<1>4. call[r].alone \in BOOLEAN
  BY DEF TypeInv, TypeOK, Calls
<1>5. LoneRows' = IF call[r].alone THEN LoneRows \cup {k} ELSE LoneRows
  BY <1>1, <1>2, <1>4 DEF LoneRows
<1>6. call' = [call EXCEPT ![r] = NoCall] /\ todo' = todo
  BY DEF InvoiceReady, End
<1> QED
  BY <1>1, <1>3, <1>5, <1>6 DEF LoneRows

\* While a launch is alone every row has its container.
LEMMA AloneSeesAll ==
  ASSUME Stored, todo = {}, app \in {"loading", "running"}, NEW k \in LoneRows
  PROVE  /\ k \in conts /\ row[k].info.port = info[k].port
         /\ row[k].info.units = Column(info[k].units)
BY DEF Stored, LoneRows

\* A launch that is alone goes on alone, with its ports, and no row waits to
\* be loaded.
CallsStay ==
  \A r \in Requests : call'[r].alone =>
    /\ call[r].alone /\ call'[r].pc # "idle" /\ todo' = {}
    /\ call'[r].pc = "invoice" =>
         call[r].pc = "invoice" /\ call'[r].port = call[r].port

\* Only Receive begins a launch, and only ImageFetched chooses its ports.
LEMMA CallsKept ==
  ASSUME TypeInv, Phases, Lone, [Next]_vars,
         \A r \in Requests : ~Receive(r),
         \A r \in Requests, k \in Keys : ~ImageFetched(r, k)
  PROVE  CallsStay
<1> USE DEF TypeInv, TypeOK, CallsStay, Lone, memory, NoCall
<1>1. CASE Start
  BY <1>1 DEF Start
<1>2. CASE WalletReady
  BY <1>2 DEF WalletReady, Phases
<1>3. CASE LoadDone
  BY <1>3 DEF LoadDone
<1>4. ASSUME NEW x \in todo, LoadRow(x) PROVE CallsStay
  BY <1>4 DEF LoadRow
<1>5. CASE Crash
  BY <1>5 DEF Crash, Die
<1>6. ASSUME NEW r \in Requests, Receive(r) PROVE CallsStay
  BY <1>6
<1>7. ASSUME NEW r \in Requests, ImageFails(r) PROVE CallsStay
  BY <1>7 DEF ImageFails, End, NoLaunch
<1>8. ASSUME NEW r \in Requests, InvoiceFails(r) PROVE CallsStay
  BY <1>8 DEF InvoiceFails, End, NoLaunch
<1>9. ASSUME NEW r \in Requests, NEW k \in Keys, ImageFetched(r, k)
      PROVE  CallsStay
  BY <1>9
<1>10. ASSUME NEW r \in Requests, InvoiceReady(r) PROVE CallsStay
  BY <1>10 DEF InvoiceReady, End
<1>11. ASSUME NEW k \in Keys, LookUp(k) PROVE CallsStay
  BY <1>11 DEF LookUp
<1>12. ASSUME NEW k \in Keys, Deploy(k) PROVE CallsStay
  BY <1>12 DEF Deploy
<1>13. ASSUME NEW k \in Keys, Deployed(k) PROVE CallsStay
  BY <1>13 DEF Deployed
<1>14. ASSUME NEW k \in Keys, DeployDies(k) PROVE CallsStay
  BY <1>14 DEF DeployDies, Die
<1>15. ASSUME NEW k \in Keys, RemoveExpired(k) PROVE CallsStay
  BY <1>15 DEF RemoveExpired
<1>16. ASSUME NEW k \in Keys, KeepWaiting(k) PROVE CallsStay
  BY <1>16 DEF KeepWaiting
<1>17. ASSUME NEW k \in Keys, Pay(k) PROVE CallsStay
  BY <1>17 DEF Pay
<1>18. ASSUME NEW k \in Keys, Expire(k) PROVE CallsStay
  BY <1>18 DEF Expire
<1>19. CASE UNCHANGED vars
  BY <1>19 DEF vars
<1> QED
  BY <1>1, <1>2, <1>3, <1>4, <1>5, <1>6, <1>7, <1>8, <1>9, <1>10, <1>11,
     <1>12, <1>13, <1>14, <1>15, <1>16, <1>17, <1>18, <1>19
  DEF Next, Boot, Answer, Settle

\* A step that adds no lone row and no lone launch, nor ports to one, keeps
\* Lone.
LEMMA LoneCarried ==
  ASSUME Lone, LoneStays, CallsStay
  PROVE  Lone'
BY DEF Lone, LoneStays, CallsStay

\* Receive keeps Lone: a launch is alone only if no other is under way.
LEMMA LoneReceived ==
  ASSUME TypeInv, Lone, LoneStays, NEW r \in Requests, Receive(r)
  PROVE  Lone'
<1>1. todo' = todo
  BY DEF Receive
<1>2. \/ call' = call
      \/ call' = [call EXCEPT ![r] =
              [pc |-> "image", key |-> NoKey, port |-> 0,
               alone |-> InFlight = {} /\ todo = {}]]
  BY DEF Receive
<1>3. CASE call' = call
  BY <1>1, <1>3 DEF Lone, LoneStays
<1>4. ASSUME call' # call PROVE Lone'
  <2>1. /\ call'[r].pc = "image"
        /\ call'[r].alone = (InFlight = {} /\ todo = {})
        /\ \A q \in Requests \ {r} : call'[q] = call[q]
    BY <1>2, <1>4 DEF TypeInv, TypeOK
  <2>2. \A q \in Requests : call[q].alone => InFlight # {}
    BY DEF Lone, InFlight
  <2>3. \A q \in Requests :
          call'[q].alone => call'[q].pc # "idle" /\ todo' = {}
    BY <1>1, <2>1 DEF Lone
  <2>4. \A p, q \in Requests : call'[p].alone /\ call'[q].alone => p = q
    BY <2>1, <2>2 DEF Lone
  <2>5. \A j, k \in LoneRows' : j # k => row'[j].info.port # row'[k].info.port
    BY DEF Lone, LoneStays
  <2>6. \A q \in Requests : \A k \in LoneRows' :
          call'[q].alone /\ call'[q].pc = "invoice" =>
            row'[k].info.port # call'[q].port
    BY <2>1 DEF Lone, LoneStays
  <2> QED
    BY <2>3, <2>4, <2>5, <2>6 DEF Lone
<1> QED
  BY <1>3, <1>4

\* ImageFetched keeps Lone: the free range is that of no container, and a
\* launch that is alone sees all rows as containers.
LEMMA LoneFetched ==
  ASSUME TypeInv, Phases, Stored, Lone, LoneStays,
         NEW r \in Requests, NEW k \in Keys, ImageFetched(r, k)
  PROVE  Lone'
<1>1. /\ call'[r].pc = "invoice" /\ call'[r].port = FreePort
      /\ call'[r].alone = call[r].alone
      /\ \A q \in Requests \ {r} : call'[q] = call[q]
      /\ call[r].pc = "image" /\ todo' = todo
  BY DEF ImageFetched, TypeInv, TypeOK
<1>2. app \in {"loading", "running"}
  BY <1>1 DEF Phases, NoCall
<1>3. TypeOK /\ k \in Keys \ conts
  BY DEF ImageFetched, Fresh, TypeInv, Keyed
<1>4. \A j \in conts : info[j].port # FreePort
  BY <1>3, FreePortIsFree DEF UsedPorts
<1>5. call[r].alone => \A j \in LoneRows : row[j].info.port # FreePort
  BY <1>2, <1>4, AloneSeesAll DEF Lone
<1> QED
  BY <1>1, <1>5 DEF Lone, LoneStays

\* InvoiceReady keeps Lone: the ports of a launch that is alone are those of
\* no lone row.
LEMMA LoneAdded ==
  ASSUME NobodyNames, TypeInv, TypeOK', Phases, Stored, Lone, CallsStay,
         NEW r \in Requests, InvoiceReady(r)
  PROVE  Lone'
<1>1. PICK k \in Keys : k = call[r].key
  BY Publishing
<1>2. /\ k \notin LoneRows
      /\ LoneRows' = IF call[r].alone THEN LoneRows \cup {k} ELSE LoneRows
      /\ row'[k].info.port = call[r].port
      /\ \A j \in LoneRows : row'[j] = row[j]
      /\ call' = [call EXCEPT ![r] = NoCall] /\ todo' = todo
  BY <1>1, LonePublished
<1>3. call[r].pc = "invoice"
  BY DEF InvoiceReady
<1>4. CASE ~call[r].alone
  BY <1>2, <1>4 DEF Lone, CallsStay
<1>5. CASE call[r].alone
  <2>1. \A q \in Requests : ~call'[q].alone
    BY <1>2, <1>5 DEF Lone, TypeInv, TypeOK, NoCall
  <2>2. \A j \in LoneRows : row[j].info.port # call[r].port
    BY <1>3, <1>5 DEF Lone
  <2>3. \A i, j \in LoneRows' : i # j => row'[i].info.port # row'[j].info.port
    BY <1>2, <1>5, <2>2 DEF Lone
  <2> QED
    BY <2>1, <2>3 DEF Lone
<1> QED
  BY <1>4, <1>5

\* Every step keeps Lone.
LEMMA LoneStep ==
  ASSUME NobodyNames, TypeInv, TypeOK', Phases, Stored, Lone, [Next]_vars
  PROVE  Lone'
<1>1. ASSUME NEW r \in Requests, InvoiceReady(r) PROVE Lone'
  <2>0. quotes' # quotes
    <3>1. PICK k \in Keys : k = call[r].key
      BY <1>1, Publishing
    <3> QED
      BY <1>1, <3>1, QuotedNow
  <2>1. \A q \in Requests : ~Receive(q)
    BY <2>0 DEF Receive, NoLaunch
  <2>2. \A q \in Requests, k \in Keys : ~ImageFetched(q, k)
    BY <2>0 DEF ImageFetched, NoLaunch
  <2> QED
    BY <1>1, <2>1, <2>2, CallsKept, LoneAdded
<1>2. ASSUME \A r \in Requests : ~InvoiceReady(r) PROVE Lone'
  <2>1. LoneStays
    BY <1>2, LoneKept
  <2>2. ASSUME NEW r \in Requests, Receive(r) PROVE Lone'
    BY <2>1, <2>2, LoneReceived
  <2>3. ASSUME NEW r \in Requests, NEW k \in Keys, ImageFetched(r, k)
        PROVE  Lone'
    BY <2>1, <2>3, LoneFetched
  <2> QED
    BY <2>1, <2>2, <2>3, CallsKept, LoneCarried
<1> QED
  BY <1>1, <1>2

-----------------------------------------------------------------------------
(* Launches that are alone: their units, as long as they can be added.     *)

\* The units of each row and of each container, as the sums read them.
RowUnits == [k \in Keys |-> Amount(row[k].info.units)]
MemUnits == [k \in Keys |-> Amount(info[k].units)]

LEMMA UnitTypes ==
  /\ TypeOK => RowUnits \in [Keys -> Nat] /\ MemUnits \in [Keys -> Nat]
  /\ TypeOK' => RowUnits' \in [Keys -> Nat]
<1>1. \A u \in Units : Amount(u) \in Nat
  BY DEF Units, Amount
<1> QED
  BY <1>1 DEF TypeOK, Rows, Infos, RowUnits, MemUnits, RowNames

\* A launch that gave its units as a positive integer is stored with them.
LEMMA PlainUnits ==
  ASSUME NEW r \in Requests, UnitsOf[r] \notin Odd
  PROVE  /\ UnitsOf[r] \in Nat /\ Column(UnitsOf[r]) = UnitsOf[r]
         /\ Amount(UnitsOf[r]) = UnitsOf[r]
BY UnitAssumption DEF Column, Amount

\* An answer is never taken back.
LEMMA PlainBefore ==
  ASSUME TypeInv, [Next]_vars, Plain'
  PROVE  Plain
<1>1. \A r \in Requests : quotes[r] \subseteq quotes'[r]
  <2>1. ASSUME NEW q \in Requests, InvoiceReady(q)
        PROVE  \A r \in Requests : quotes[r] \subseteq quotes'[r]
    <3>1. PICK k \in Keys : k = call[q].key
      BY <2>1, Publishing
    <3> QED
      BY <2>1, <3>1, QuotedNow
  <2>2. CASE UNCHANGED quotes
    BY <2>2
  <2>3. Quiet => UNCHANGED quotes
    BY DEF Quiet
  <2>4. Dies => UNCHANGED quotes
    BY DEF Dies
  <2>5. WalletReady => UNCHANGED quotes
    BY DEF WalletReady
  <2>6. \A x \in todo : LoadRow(x) => UNCHANGED quotes
    BY DEF LoadRow
  <2>7. \A k \in Keys : Deploy(k) \/ Deployed(k) \/ RemoveExpired(k)
                          => UNCHANGED quotes
    BY DEF Deploy, Deployed, RemoveExpired
  <2> QED
    BY <2>1, <2>2, <2>3, <2>4, <2>5, <2>6, <2>7, StepKinds DEF TypeInv
<1> QED
  BY <1>1 DEF Plain

\* As long as every answered launch gave a positive integer, memory and disk
\* hold nothing else.
LEMMA NumbersStep ==
  ASSUME NobodyNames, TypeInv, TypeOK', Phases, Stored, Numbers, Plain',
         [Next]_vars
  PROVE  Numbers'
<1> USE DEF Numbers
<1>1. CASE Quiet
  BY <1>1 DEF Quiet
<1>2. CASE Dies
  BY <1>2 DEF Dies, Die
<1>3. CASE WalletReady
  BY <1>3 DEF WalletReady, stored
<1>4. ASSUME NEW x \in todo, LoadRow(x) PROVE Numbers'
  BY <1>4 DEF LoadRow, stored, TypeInv, TypeOK, Keyed
<1>5. ASSUME NEW r \in Requests, InvoiceReady(r) PROVE Numbers'
  <2>1. PICK k \in Keys : k = call[r].key
    BY <1>5, Publishing
  <2>2. /\ rows' = rows \cup {k} /\ conts' = conts \cup {k} /\ todo' = todo
        /\ row'[k].info.units = Column(UnitsOf[r])
        /\ info'[k].units = UnitsOf[r]
        /\ \A n \in RowNames \ {k} : row'[n] = row[n]
        /\ \A j \in Keys \ {k} : info'[j] = info[j]
    BY <1>5, <2>1, OwnLaunch
  <2>3. quotes'[r] # {}
    BY <1>5, <2>1, QuotedNow
  <2>4. UnitsOf[r] \notin Odd /\ Column(UnitsOf[r]) \notin Odd
    BY <2>3, PlainUnits DEF Plain
  <2>5. rows \subseteq RowNames /\ conts \subseteq Keys
    BY DEF TypeInv, TypeOK
  <2>6. \A n \in rows' : row'[n].info.units \notin Odd
    BY <2>2, <2>4, <2>5
  <2>7. \A j \in conts' : info'[j].units \notin Odd
    BY <2>2, <2>4, <2>5
  <2> QED
    BY <2>2, <2>6, <2>7
<1>6. ASSUME NEW k \in Keys, Deploy(k) PROVE Numbers'
  <2>1. \A j \in Keys : info'[j].units = info[j].units
    BY <1>6 DEF Deploy, TypeInv, TypeOK, Infos
  <2>2. UNCHANGED <<conts, rows, row, todo>> /\ conts \subseteq Keys
    BY <1>6 DEF Deploy, stored, TypeInv, TypeOK
  <2> QED
    BY <2>1, <2>2
<1>7. ASSUME NEW k \in Keys, Deployed(k) PROVE Numbers'
  <2>1. UNCHANGED <<conts, info, rows, todo>> /\ rows \subseteq RowNames
    BY <1>7 DEF Deployed, TypeInv, TypeOK
  <2>2. ASSUME NEW n \in RowNames PROVE row'[n].info.units = row[n].info.units
    <3>1. row[n] \in Rows
      BY DEF TypeInv, TypeOK
    <3>2. row'[n] = row[n] \/ row'[n] = [row[n] EXCEPT !.info.state = info[k].state]
      BY <1>7 DEF Deployed, WriteState
    <3> QED
      BY <3>1, <3>2 DEF Rows, Infos
  <2> QED
    BY <2>1, <2>2
<1>8. ASSUME NEW k \in Keys, RemoveExpired(k) PROVE Numbers'
  <2>1. /\ conts' = conts \ {k} /\ rows' = rows \ RowsOf(k) /\ todo' = todo
        /\ \A n \in RowNames \ RowsOf(k) : row'[n] = row[n]
        /\ \A j \in Keys \ {k} : info'[j] = info[j]
        /\ rows \subseteq RowNames /\ conts \subseteq Keys
    BY <1>8 DEF RemoveExpired, TypeInv, TypeOK
  <2> QED
    BY <2>1
<1> QED
  BY <1>1, <1>2, <1>3, <1>4, <1>5, <1>6, <1>7, <1>8, StepKinds DEF TypeInv

\* Lone rows that stay as they are use no more units than before.
LEMMA FewerUnits ==
  ASSUME TypeOK, TypeOK', LoneStays
  PROVE  /\ StoredUnits(LoneRows) \in Nat /\ StoredUnits(LoneRows)' \in Nat
         /\ StoredUnits(LoneRows)' <= StoredUnits(LoneRows)
<1>1. PICK u \in [Keys -> Nat] : u = RowUnits
  BY UnitTypes
<1>2. PICK v \in [Keys -> Nat] : v = RowUnits'
  BY UnitTypes
<1>3. PICK c \in SUBSET Keys : c = LoneRows
  BY DEF LoneRows
<1>4. PICK d \in SUBSET c : d = LoneRows'
  BY <1>3 DEF LoneStays
<1>5. \A k \in d : u[k] = v[k]
  BY <1>1, <1>2, <1>4 DEF LoneStays, RowUnits, LoneRows
<1>6. /\ SumFunctionOnSet(v, d) <= SumFunctionOnSet(u, c)
      /\ SumFunctionOnSet(u, c) \in Nat
  BY <1>5, KeyAssumption, SumOverPart, SumFacts
<1>7. SumFunctionOnSet(v, d) \in Nat
  <2>1. d \in SUBSET Keys
    BY <1>3
  <2> QED
    BY <2>1, KeyAssumption, SumFacts
<1>8. /\ SumFunctionOnSet(u, c) = StoredUnits(LoneRows)
      /\ SumFunctionOnSet(v, d) = StoredUnits(LoneRows)'
  BY <1>1, <1>2, <1>3, <1>4 DEF StoredUnits, RowUnits
<1> QED
  BY <1>6, <1>7, <1>8

\* A step that adds no lone row and no lone launch keeps LoneFits.
LEMMA FitsCarried ==
  ASSUME TypeOK, TypeOK', LoneStays, LoneFits,
         \A r \in Requests : call'[r].alone => call[r].alone
  PROVE  LoneFits'
<1>1. \A r \in Requests : UnitsOf[r] \notin Odd => UnitsOf[r] \in Nat
  BY PlainUnits
<1> QED
  BY <1>1, FewerUnits, UnitAssumption DEF LoneFits

\* A launch is alone only if what it found free fits beside every lone row:
\* with nothing left to load, each of them has its container.
LEMMA FitsReceived ==
  ASSUME TypeInv, TypeOK', Stored, Lone, Numbers, LoneFits, LoneStays,
         NEW r \in Requests, Receive(r)
  PROVE  LoneFits'
<1>0. /\ TypeOK /\ TotalUnits \in Nat
      /\ \A q \in Requests : UnitsOf[q] \notin Odd => UnitsOf[q] \in Nat
  BY PlainUnits, UnitAssumption DEF TypeInv
<1>1. \/ call' = call
      \/ /\ app # "down" /\ app # "booting" /\ (Adds(r) => EnoughUnits(r))
         /\ call' = [call EXCEPT ![r] =
              [pc |-> "image", key |-> NoKey, port |-> 0,
               alone |-> InFlight = {} /\ todo = {}]]
  BY DEF Receive
<1>2. CASE call' = call
  BY <1>0, <1>2, FitsCarried
<1>3. ASSUME call' # call PROVE LoneFits'
  <2>1. /\ call'[r].alone => todo = {}
        /\ \A q \in Requests \ {r} : call'[q] = call[q]
    <3>1. call'[r].alone = (InFlight = {} /\ todo = {})
      BY <1>1, <1>3 DEF TypeInv, TypeOK
    <3>2. \A q \in Requests \ {r} : call'[q] = call[q]
      BY <1>1, <1>3 DEF TypeInv, TypeOK
    <3> QED
      BY <3>1, <3>2
  <2>2. ASSUME call'[r].alone, UnitsOf[r] \notin Odd
        PROVE  StoredUnits(LoneRows) + UnitsOf[r] <= TotalUnits
    <3>1. app \in {"loading", "running"} /\ todo = {} /\ EnoughUnits(r)
      <4>1. Adds(r)
        BY <2>2 DEF Adds, Numbers
      <4> QED
        BY <1>0, <1>1, <1>3, <2>1, <2>2, <4>1 DEF TypeOK
    <3>2. \A k \in LoneRows : k \in conts /\ row[k].info.units = info[k].units
      <4>1. \A k \in LoneRows : /\ k \in conts
                                /\ row[k].info.units = Column(info[k].units)
        BY <3>1, AloneSeesAll
      <4> QED
        BY <4>1 DEF Numbers, Column
    <3>3. PICK u \in [Keys -> Nat] : u = MemUnits
      BY <1>0, UnitTypes
    <3>4. PICK v \in [Keys -> Nat] : v = RowUnits
      BY <1>0, UnitTypes
    <3>5. PICK c \in SUBSET Keys : c = conts
      BY <1>0 DEF TypeOK
    <3>6. PICK d \in SUBSET c : d = LoneRows
      BY <3>2, <3>5
    <3>7. \A k \in d : u[k] = v[k]
      BY <3>2, <3>3, <3>4, <3>5, <3>6 DEF MemUnits, RowUnits
    <3>8. /\ SumFunctionOnSet(v, d) <= SumFunctionOnSet(u, c)
          /\ SumFunctionOnSet(u, c) \in Nat
      BY <3>7, KeyAssumption, SumOverPart, SumFacts
    <3>9. /\ SumFunctionOnSet(v, d) = StoredUnits(LoneRows)
          /\ SumFunctionOnSet(u, c) = UsedUnits(conts)
      BY <3>3, <3>4, <3>5, <3>6 DEF StoredUnits, UsedUnits, MemUnits, RowUnits
    <3>10. UsedUnits(conts) + UnitsOf[r] <= TotalUnits
      BY <3>1 DEF EnoughUnits
    <3>11. StoredUnits(LoneRows) \in Nat
      BY <1>0, FewerUnits
    <3> QED
      BY <1>0, <2>2, <3>8, <3>9, <3>10, <3>11
  <2> QED
    BY <1>0, <2>1, <2>2, FewerUnits DEF LoneFits
<1> QED
  BY <1>2, <1>3

\* A launch that is alone is published into the units that were kept for it.
LEMMA FitsAdded ==
  ASSUME NobodyNames, TypeInv, TypeOK', Phases, Stored, Lone, LoneFits, Plain',
         NEW r \in Requests, InvoiceReady(r)
  PROVE  LoneFits'
<1>1. PICK k \in Keys : k = call[r].key
  BY Publishing
<1>2. /\ k \notin LoneRows
      /\ LoneRows' = IF call[r].alone THEN LoneRows \cup {k} ELSE LoneRows
      /\ row'[k].info.units = Column(UnitsOf[r])
      /\ \A j \in LoneRows : row'[j] = row[j]
      /\ call' = [call EXCEPT ![r] = NoCall]
  BY <1>1, LonePublished
<1>3. /\ TypeOK /\ TotalUnits \in Nat
      /\ \A q \in Requests : UnitsOf[q] \notin Odd => UnitsOf[q] \in Nat
  BY PlainUnits, UnitAssumption DEF TypeInv
<1>a. UnitsOf[r] \notin Odd
  BY <1>1, QuotedNow DEF Plain
<1>4. PICK u \in [Keys -> Nat] : u = RowUnits
  BY <1>3, UnitTypes
<1>5. PICK v \in [Keys -> Nat] : v = RowUnits'
  BY UnitTypes
<1>6. PICK c \in SUBSET Keys : c = LoneRows
  BY DEF LoneRows
<1>7. PICK d \in SUBSET Keys : d = LoneRows'
  BY DEF LoneRows
<1>8. \A j \in c : u[j] = v[j]
  BY <1>2, <1>4, <1>5, <1>6 DEF RowUnits
<1>9. /\ v[k] = UnitsOf[r] /\ k \in Keys \ c
  BY <1>1, <1>2, <1>5, <1>6, <1>a, PlainUnits DEF RowUnits
<1>10. /\ SumFunctionOnSet(v, c) <= SumFunctionOnSet(u, c)
       /\ SumFunctionOnSet(u, c) \in Nat /\ SumFunctionOnSet(v, c) \in Nat
       /\ SumFunctionOnSet(v, c \cup {k}) = v[k] + SumFunctionOnSet(v, c)
  BY <1>8, <1>9, KeyAssumption, SumOverPart, SumFacts
<1>11. /\ SumFunctionOnSet(u, c) = StoredUnits(LoneRows)
       /\ SumFunctionOnSet(v, d) = StoredUnits(LoneRows)'
  BY <1>4, <1>5, <1>6, <1>7 DEF StoredUnits, RowUnits
<1>12. \A q \in Requests : call'[q].alone => call[q].alone /\ q # r
  BY <1>2, <1>3 DEF TypeOK, NoCall
<1>13. CASE call[r].alone
  <2>1. d = c \cup {k}
    BY <1>2, <1>6, <1>7, <1>13
  <2>2. StoredUnits(LoneRows)' <= TotalUnits
    <3>1. StoredUnits(LoneRows) + UnitsOf[r] <= TotalUnits
      BY <1>13, <1>a DEF LoneFits
    <3> QED
      BY <1>3, <1>a, <1>9, <1>10, <1>11, <2>1, <3>1
  <2>3. \A q \in Requests : ~call'[q].alone
    BY <1>12, <1>13 DEF Lone
  <2> QED
    BY <2>2, <2>3 DEF LoneFits
<1>14. CASE ~call[r].alone
  <2>1. d = c
    BY <1>2, <1>6, <1>7, <1>14
  <2>2. StoredUnits(LoneRows)' <= StoredUnits(LoneRows)
    BY <1>10, <1>11, <2>1
  <2>3. StoredUnits(LoneRows) \in Nat /\ StoredUnits(LoneRows)' \in Nat
    BY <1>10, <1>11, <2>1
  <2> QED
    BY <1>3, <1>12, <2>2, <2>3 DEF LoneFits
<1> QED
  BY <1>13, <1>14

\* Every step keeps LoneFits, as long as the units can be added.
LEMMA FitsStep ==
  ASSUME NobodyNames, TypeInv, TypeOK', Phases, Stored, Lone, Numbers, LoneFits,
         Plain', [Next]_vars
  PROVE  LoneFits'
<1>1. TypeOK
  BY DEF TypeInv
<1>2. ASSUME NEW r \in Requests, InvoiceReady(r) PROVE LoneFits'
  BY <1>2, FitsAdded
<1>3. ASSUME \A r \in Requests : ~InvoiceReady(r) PROVE LoneFits'
  <2>1. LoneStays
    BY <1>3, LoneKept
  <2>2. ASSUME NEW r \in Requests, Receive(r) PROVE LoneFits'
    BY <2>1, <2>2, FitsReceived
  <2>3. ASSUME NEW r \in Requests, NEW k \in Keys, ImageFetched(r, k)
        PROVE  LoneFits'
    <3>1. \A q \in Requests : call'[q].alone => call[q].alone
      BY <2>3, <1>1 DEF ImageFetched, TypeOK
    <3> QED
      BY <1>1, <2>1, <3>1, FitsCarried
  <2>4. CASE CallsStay
    <3>1. \A q \in Requests : call'[q].alone => call[q].alone
      BY <2>4 DEF CallsStay
    <3> QED
      BY <1>1, <2>1, <3>1, FitsCarried
  <2> QED
    BY <2>2, <2>3, <2>4, CallsKept
<1> QED
  BY <1>2, <1>3

-----------------------------------------------------------------------------
(* The theorems.                                                           *)

\* The initial states satisfy every invariant.
LEMMA InitTypes == Init => TypeInv
BY EmptyTypes, UnitAssumption DEF Init, TypeInv, TypeOK, Keyed, NoCall

LEMMA InitOnce == Init => OnceInv
BY AtMostOne DEF Init, OnceInv, Marked, OncePerRequest, NoCall

LEMMA InitStore == Init => Phases /\ Named /\ Lates /\ Kept
<1>1. Init => Phases
  BY DEF Init, Phases
<1>2. Init => Named
  BY DEF Init, Named
<1>3. Init => Lates
  BY DEF Init, Lates
<1>4. Init => Kept
  BY DEF Init, Kept
<1> QED
  BY <1>1, <1>2, <1>3, <1>4

LEMMA InitLone == Init => Loaded /\ Lone /\ Numbers /\ LoneFits
<1> SUFFICES ASSUME Init PROVE Loaded /\ Lone /\ Numbers /\ LoneFits
  OBVIOUS
<1>1. LoneRows = {} /\ \A r \in Requests : ~call[r].alone
  BY DEF Init, LoneRows, NoCall
<1>2. PICK u \in [Keys -> Nat] : u = RowUnits
  BY InitTypes, UnitTypes DEF TypeInv
<1>3. SumFunctionOnSet(u, {}) = 0
  BY KeyAssumption, SumFacts
<1>4. StoredUnits(LoneRows) = 0
  BY <1>1, <1>2, <1>3 DEF StoredUnits, RowUnits
<1>5. Loaded /\ Numbers
  BY DEF Init, Loaded, Numbers
<1>6. Lone
  BY <1>1 DEF Lone
<1>7. LoneFits
  BY <1>1, <1>4, UnitAssumption DEF LoneFits
<1> QED
  BY <1>5, <1>6, <1>7

\* The step of StoreInv and of LoneInv.
LEMMA StoreStep ==
  ASSUME StoreInv, [Next]_vars
  PROVE  StoreInv'
<1>1. TypeInv /\ Phases /\ Named /\ Lates /\ Kept
  BY DEF StoreInv
<1>2. TypeOK' /\ Keyed'
  BY <1>1, TypeStep, KeyedStep
<1>3. Phases'
  BY <1>1, PhasesStep
<1>4. Named'
  BY <1>1, <1>2, NamedStep
<1>5. Lates'
  BY <1>1, <1>2, LatesStep
<1>6. Kept'
  BY <1>1, <1>2, KeptStep
<1> QED
  BY <1>2, <1>3, <1>4, <1>5, <1>6 DEF StoreInv, TypeInv

LEMMA LoneInvStep ==
  ASSUME NobodyNames, LoneInv, [Next]_vars
  PROVE  LoneInv'
<1>1. StoreInv /\ TypeInv /\ Phases /\ Loaded /\ Lone
  BY DEF LoneInv, StoreInv
<1>2. StoreInv' /\ TypeOK'
  BY <1>1, StoreStep DEF StoreInv, TypeInv
<1>3. Stored
  BY <1>1, OwnRow
<1>4. Loaded'
  BY <1>1, <1>2, <1>3, LoadedStep
<1>5. Lone'
  BY <1>1, <1>2, <1>3, LoneStep
<1>6. Plain' => Numbers' /\ LoneFits'
  <2> SUFFICES ASSUME Plain' PROVE Numbers' /\ LoneFits'
    OBVIOUS
  <2>1. Numbers /\ LoneFits
    BY <1>1, PlainBefore DEF LoneInv
  <2>2. Numbers'
    BY <1>1, <1>2, <1>3, <2>1, NumbersStep
  <2>3. LoneFits'
    BY <1>1, <1>2, <1>3, <2>1, FitsStep
  <2> QED
    BY <2>2, <2>3
<1> QED
  BY <1>2, <1>4, <1>5, <1>6 DEF LoneInv

\* What the containers launched alone use is at most what lone rows use.
LEMMA LoneContainersFit ==
  ASSUME NobodyNames, LoneInv
  PROVE  LoneUnitsFit
<1> SUFFICES ASSUME Plain
             PROVE  UsedUnits(Undisturbed) <= TotalUnits
  BY DEF LoneUnitsFit
<1>1. TypeOK /\ Stored /\ Numbers /\ LoneFits
  BY OwnRow DEF LoneInv, StoreInv, TypeInv
<1>2. \A k \in conts : k \in rows /\ row[k].info.units = info[k].units
  BY <1>1 DEF Stored, Numbers, Column
<1>3. PICK u \in [Keys -> Nat] : u = RowUnits
  BY <1>1, UnitTypes
<1>4. PICK v \in [Keys -> Nat] : v = MemUnits
  BY <1>1, UnitTypes
<1>5. PICK c \in SUBSET Keys : c = LoneRows
  BY DEF LoneRows
<1>6. PICK d \in SUBSET c : d = Undisturbed
  BY <1>1, <1>2, <1>5 DEF LoneRows, Undisturbed, TypeOK
<1>7. \A k \in d : u[k] = v[k]
  BY <1>2, <1>3, <1>4, <1>5, <1>6 DEF RowUnits, MemUnits, Undisturbed
<1>8. SumFunctionOnSet(v, d) <= SumFunctionOnSet(u, c)
  BY <1>7, KeyAssumption, SumOverPart
<1>9. SumFunctionOnSet(u, c) \in Nat /\ SumFunctionOnSet(v, d) \in Nat
  <2>1. d \in SUBSET Keys
    BY <1>5
  <2> QED
    BY <2>1, KeyAssumption, SumFacts
<1>10. /\ SumFunctionOnSet(u, c) = StoredUnits(LoneRows)
       /\ SumFunctionOnSet(v, d) = UsedUnits(Undisturbed)
  BY <1>3, <1>4, <1>5, <1>6 DEF StoredUnits, UsedUnits, RowUnits, MemUnits
<1>11. StoredUnits(LoneRows) <= TotalUnits
  BY <1>1 DEF LoneFits
<1> QED
  BY <1>8, <1>9, <1>10, <1>11, UnitAssumption

\* The ports of two containers launched alone are those of two lone rows.
LEMMA LoneContainersApart ==
  ASSUME NobodyNames, LoneInv
  PROVE  LonePortsDisjoint
<1>1. TypeOK /\ Stored /\ Lone
  BY OwnRow DEF LoneInv, StoreInv, TypeInv
<1> QED
  BY <1>1 DEF TypeOK, Stored, Lone, LoneRows, LonePortsDisjoint, Undisturbed

-----------------------------------------------------------------------------
\* Every variable of a launch keeps its type, and a key is given out once, for
\* any names and units.
THEOREM TypeCorrect == Spec => []TypeOK
<1>1. TypeInv /\ [Next]_vars => TypeInv'
  BY TypeStep, KeyedStep DEF TypeInv
<1>2. TypeInv => TypeOK
  BY DEF TypeInv
<1> QED
  BY <1>1, <1>2, InitTypes, PTL DEF Spec

\* process makes at most one container for an event, however often the relay
\* delivers it and whatever it is named.
THEOREM HandledOnce == Spec => []OncePerRequest
<1>1. OnceInv /\ TypeOK /\ [Next]_vars => OnceInv'
  BY OnceStep
<1>2. OnceInv => OncePerRequest
  BY DEF OnceInv
<1> QED
  BY <1>1, <1>2, InitOnce, TypeCorrect, PTL DEF Spec

\* The inductive invariant of containers, rows and quotes, for any names.
LEMMA StoreAlways == Spec => []StoreInv
<1>1. Init => StoreInv
  BY InitTypes, InitStore DEF StoreInv
<1>2. StoreInv /\ [Next]_vars => StoreInv'
  BY StoreStep
<1> QED
  BY <1>1, <1>2, PTL DEF Spec

\* Whatever names the users choose: a container the process serves has the row
\* of its name unless another had it before, and until another launch takes the
\* name the row has its ports and units, and its state but for the time docker
\* brings it up.
THEOREM StoredAsServed == Spec => []LaunchedIsStored
<1>1. StoreInv => LaunchedIsStored
  BY KeptShows DEF StoreInv
<1> QED
  BY <1>1, StoreAlways, PTL

\* Whatever names the users choose: a quoted container stays on disk until its
\* invoice expires, unless another had the row of its name before, however old
\* the wallet's answer is that the loop acts on.
THEOREM QuotesSurvive == Spec => []QuoteIsDurable
<1>1. StoreInv => QuoteIsDurable
  BY KeptShows DEF StoreInv
<1> QED
  BY <1>1, StoreAlways, PTL

\* The inductive invariant of the launches that are alone.
LEMMA LoneAlways == NobodyNames => (Spec => []LoneInv)
<1> SUFFICES ASSUME NobodyNames PROVE Spec => []LoneInv
  OBVIOUS
<1>1. Init => LoneInv
  BY InitTypes, InitStore, InitLone DEF LoneInv, StoreInv
<1>2. LoneInv /\ [Next]_vars => LoneInv'
  BY LoneInvStep
<1> QED
  BY <1>1, <1>2, PTL DEF Spec

\* As long as nobody chooses a name, containers that were launched alone never
\* share ports, across removals, crashes and reloads.
THEOREM LonePortsApart == NobodyNames => (Spec => []LonePortsDisjoint)
<1> SUFFICES ASSUME NobodyNames PROVE Spec => []LonePortsDisjoint
  OBVIOUS
<1>1. LoneInv => LonePortsDisjoint
  BY LoneContainersApart
<1> QED
  BY <1>1, LoneAlways, PTL

\* As long as nobody chooses a name and every answered launch gave its units as
\* a positive integer, the containers that were launched alone fit the machine,
\* whatever else was admitted beside them.  Of a string or a fraction the sum
\* says nothing, and neither does this.
THEOREM LoneUnitsBounded == NobodyNames => (Spec => []LoneUnitsFit)
<1> SUFFICES ASSUME NobodyNames PROVE Spec => []LoneUnitsFit
  OBVIOUS
<1>1. LoneInv => LoneUnitsFit
  BY LoneContainersFit
<1> QED
  BY <1>1, LoneAlways, PTL
=============================================================================
