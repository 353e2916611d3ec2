----------------------- MODULE NetworkDetectionProofs -----------------------
(***************************************************************************)
(* Proofs about the network activity source and the detector it feeds:     *)
(* what a sample reports was received, and lost continuity is forgotten,   *)
(* whatever interfaces there are, come, go and start again from zero.      *)
(*                                                                         *)
(* A sum over the interfaces is defined by recursion over sets.  What is   *)
(* needed of it is proved from the principle that a set of natural numbers *)
(* has a least element: were a fact about sums wrong, it would be wrong of *)
(* a smallest set.                                                         *)
(***************************************************************************)
EXTENDS NetworkDetection, WellFoundedInduction, FiniteSetTheorems, TLAPS

-----------------------------------------------------------------------------
(* Sums over finite sets.                                                  *)

(* What there is of induction: a set of natural numbers has a least one.   *)
LEMMA LeastOfNaturals ==
  ASSUME NEW set \in SUBSET Nat, set # {}
  PROVE  \E least \in set : \A n \in Nat : n < least => n \notin set
<1> DEFINE below == OpToRel(<, Nat)
<1>1. IsWellFoundedOn(below, Nat)
  BY NatLessThanWellFounded
<1>2. \A m, n \in Nat : m < n => <<m, n>> \in below
  BY DEF OpToRel
<1> HIDE DEF below
<1>3. PICK least \in set : \A n \in set : ~(<<n, least>> \in below)
  BY <1>1, WFMin
<1>4. \A n \in Nat : n < least => n \notin set
  BY <1>2, <1>3
<1> QED BY <1>4

Chosen(s) == CHOOSE x \in s : TRUE

LEMMA ChosenIsIn ==
  ASSUME NEW s, s # {}
  PROVE  Chosen(s) \in s
BY DEF Chosen

(* g adds f up over the subsets of S that have at most n elements.         *)
SumsUpTo(n, g, f, S) ==
  /\ g = [s \in SUBSET S |-> g[s]]
  /\ \A s \in SUBSET S :
       Cardinality(s) <= n =>
         g[s] = IF s = {} THEN 0 ELSE f[Chosen(s)] + g[s \ {Chosen(s)}]

LEMMA SmallerSubset ==
  ASSUME NEW S, IsFiniteSet(S), NEW s \in SUBSET S, NEW x \in s
  PROVE  /\ s \ {x} \in SUBSET S
         /\ Cardinality(s) \in Nat \ {0}
         /\ Cardinality(s \ {x}) = Cardinality(s) - 1
<1>1. IsFiniteSet(s)
  BY FS_Subset
<1>2. Cardinality(s) \in Nat /\ Cardinality(s) # 0
  BY <1>1, FS_CardinalityType, FS_EmptySet
<1>3. Cardinality(s \ {x}) = Cardinality(s) - 1
  BY <1>1, FS_RemoveElement
<1> QED BY <1>2, <1>3

LEMMA SumsExist ==
  ASSUME NEW f, NEW S, IsFiniteSet(S)
  PROVE  \A n \in Nat : \E g : SumsUpTo(n, g, f, S)
<1> DEFINE bad == {n \in Nat : ~\E g : SumsUpTo(n, g, f, S)}
<1> SUFFICES ASSUME bad # {} PROVE FALSE
  OBVIOUS
<1>0. bad \in SUBSET Nat
  OBVIOUS
<1>1. PICK n \in bad : \A m \in Nat : m < n => m \notin bad
  <2> HIDE DEF bad
  <2> QED BY <1>0, LeastOfNaturals
<1>2. n \in Nat /\ ~\E g : SumsUpTo(n, g, f, S)
  BY <1>1
<1>3. \A s \in SUBSET S : Cardinality(s) \in Nat /\ (Cardinality(s) = 0 <=> s = {})
  BY FS_Subset, FS_CardinalityType, FS_EmptySet
<1>4. CASE n = 0
  <2> DEFINE g == [s \in SUBSET S |-> 0]
  <2>1. SumsUpTo(0, g, f, S)
    BY <1>3 DEF SumsUpTo
  <2> QED BY <1>2, <1>4, <2>1
<1>5. CASE n # 0
  <2>1. n - 1 \in Nat /\ n - 1 < n
    BY <1>2, <1>5
  <2>2. PICK g : SumsUpTo(n - 1, g, f, S)
    BY <1>1, <2>1
  <2> DEFINE h == [s \in SUBSET S |-> IF Cardinality(s) <= n - 1 THEN g[s]
                                      ELSE f[Chosen(s)] + g[s \ {Chosen(s)}]]
  <2>3. ASSUME NEW s \in SUBSET S, Cardinality(s) <= n
        PROVE  h[s] = IF s = {} THEN 0 ELSE f[Chosen(s)] + h[s \ {Chosen(s)}]
    <3>1. CASE s = {}
      <4>1. Cardinality(s) <= n - 1
        BY <1>3, <2>1, <3>1
      <4>2. g[s] = 0
        BY <2>2, <3>1, <4>1 DEF SumsUpTo
      <4> QED BY <3>1, <4>1, <4>2
    <3>2. CASE s # {}
      <4> DEFINE r == s \ {Chosen(s)}
      <4>1. r \in SUBSET S /\ Cardinality(r) <= n - 1
        BY <1>2, <2>3, <3>2, ChosenIsIn, SmallerSubset
      <4>2. h[r] = g[r]
        BY <4>1
      <4>3. h[s] = f[Chosen(s)] + g[r]
        BY <2>2, <3>2 DEF SumsUpTo
      <4> QED BY <3>2, <4>2, <4>3
    <3> QED BY <3>1, <3>2
  <2>4. SumsUpTo(n, h, f, S)
    <3>1. h = [s \in SUBSET S |-> h[s]]
      OBVIOUS
    <3> HIDE DEF h
    <3> QED BY <2>3, <3>1 DEF SumsUpTo
  <2> QED BY <1>2, <2>4
<1> QED BY <1>4, <1>5

(* g adds f up over all the subsets of S.                                  *)
SumsAll(g, f, S) ==
  g = [s \in SUBSET S |->
         IF s = {} THEN 0 ELSE f[Chosen(s)] + g[s \ {Chosen(s)}]]

LEMMA SumIsDefined ==
  ASSUME NEW f, NEW S, IsFiniteSet(S)
  PROVE  \E g : SumsAll(g, f, S) /\ SumOver(f, S) = g[S]
<1>1. Cardinality(S) \in Nat
  BY FS_CardinalityType
<1>2. PICK g : SumsUpTo(Cardinality(S), g, f, S)
  BY <1>1, SumsExist
<1>3. \A s \in SUBSET S : Cardinality(s) <= Cardinality(S)
  BY FS_Subset
<1>4. SumsAll(g, f, S)
  BY <1>2, <1>3 DEF SumsUpTo, SumsAll
<1> DEFINE iter == CHOOSE h : SumsAll(h, f, S)
<1>5. SumsAll(iter, f, S)
  BY <1>4
<1>6. SumOver(f, S) = iter[S]
  BY DEF SumOver, MapThenSumSet, MapThenFoldSet, SumsAll, Chosen
<1> QED BY <1>5, <1>6

(* Two ways to add f up agree where both do.                               *)
LEMMA SumsAgree ==
  ASSUME NEW f, NEW S, IsFiniteSet(S), NEW T \in SUBSET S,
         NEW g, SumsAll(g, f, S), NEW h, SumsAll(h, f, T)
  PROVE  g[T] = h[T]
<1> DEFINE bad == {n \in Nat : \E s \in SUBSET T : Cardinality(s) = n /\ g[s] # h[s]}
<1>0. bad \in SUBSET Nat
  OBVIOUS
<1>1. CASE bad = {}
  <2>1. IsFiniteSet(T)
    BY FS_Subset
  <2>2. Cardinality(T) \in Nat
    BY <2>1, FS_CardinalityType
  <2> QED BY <1>1, <2>2
<1>2. CASE bad # {}
  <2>1. PICK n \in bad : \A m \in Nat : m < n => m \notin bad
    <3> HIDE DEF bad
    <3> QED BY <1>0, <1>2, LeastOfNaturals
  <2>2. PICK s \in SUBSET T : Cardinality(s) = n /\ g[s] # h[s]
    BY <2>1
  <2>3. /\ g[s] = IF s = {} THEN 0 ELSE f[Chosen(s)] + g[s \ {Chosen(s)}]
        /\ h[s] = IF s = {} THEN 0 ELSE f[Chosen(s)] + h[s \ {Chosen(s)}]
    BY DEF SumsAll
  <2>4. s # {}
    BY <2>2, <2>3
  <2> DEFINE r == s \ {Chosen(s)}
  <2>5. r \in SUBSET T /\ Cardinality(r) \in Nat /\ Cardinality(r) < n
    <3>1. IsFiniteSet(T)
      BY FS_Subset
    <3>2. Chosen(s) \in s
      BY <2>4, ChosenIsIn
    <3>3. /\ r \in SUBSET T
          /\ Cardinality(s) \in Nat \ {0}
          /\ Cardinality(r) = Cardinality(s) - 1
      BY <3>1, <3>2, SmallerSubset, Zenon
    <3> QED BY <2>2, <3>3
  <2>6. g[r] = h[r]
    BY <2>1, <2>5
  <2> QED BY <2>2, <2>3, <2>4, <2>6
<1> QED BY <1>1, <1>2

LEMMA SumOfNone ==
  ASSUME NEW f
  PROVE  SumOver(f, {}) = 0
<1>1. IsFiniteSet({})
  BY FS_EmptySet
<1> QED BY <1>1, SumIsDefined DEF SumsAll

LEMMA SumOfChosen ==
  ASSUME NEW f, NEW S, IsFiniteSet(S), S # {}
  PROVE  SumOver(f, S) = f[Chosen(S)] + SumOver(f, S \ {Chosen(S)})
<1> DEFINE T == S \ {Chosen(S)}
<1>1. IsFiniteSet(T) /\ T \in SUBSET S
  BY FS_Subset
<1>2. PICK g : SumsAll(g, f, S) /\ SumOver(f, S) = g[S]
  BY SumIsDefined
<1>3. PICK h : SumsAll(h, f, T) /\ SumOver(f, T) = h[T]
  BY <1>1, SumIsDefined
<1> HIDE DEF T
<1>4. g[T] = h[T]
  BY <1>1, <1>2, <1>3, SumsAgree
<1>5. g[S] = f[Chosen(S)] + g[T]
  BY <1>2 DEF SumsAll, T
<1> QED BY <1>2, <1>3, <1>4, <1>5 DEF T

LEMMA SumType ==
  ASSUME NEW f, NEW S, IsFiniteSet(S), \A i \in S : f[i] \in Nat
  PROVE  SumOver(f, S) \in Nat
<1> DEFINE bad == {n \in Nat :
                     \E s \in SUBSET S : Cardinality(s) = n /\ SumOver(f, s) \notin Nat}
<1>0. bad \in SUBSET Nat
  OBVIOUS
<1>1. CASE bad = {}
  BY <1>1, FS_CardinalityType
<1>2. CASE bad # {}
  <2>1. PICK n \in bad : \A m \in Nat : m < n => m \notin bad
    <3> HIDE DEF bad
    <3> QED BY <1>0, <1>2, LeastOfNaturals
  <2>2. PICK s \in SUBSET S : Cardinality(s) = n /\ SumOver(f, s) \notin Nat
    BY <2>1
  <2>3. s # {}
    BY <2>2, SumOfNone
  <2>4. IsFiniteSet(s) /\ Chosen(s) \in s
    BY <2>3, FS_Subset, ChosenIsIn
  <2> DEFINE r == s \ {Chosen(s)}
  <2>5. r \in SUBSET S /\ Cardinality(r) \in Nat /\ Cardinality(r) < n
    BY <2>2, <2>4, SmallerSubset
  <2>6. SumOver(f, r) \in Nat
    BY <2>1, <2>5
  <2>7. SumOver(f, s) = f[Chosen(s)] + SumOver(f, r)
    BY <2>3, <2>4, SumOfChosen
  <2> QED BY <2>2, <2>4, <2>6, <2>7
<1> QED BY <1>1, <1>2

(* It does not matter which element is added last.                         *)
LEMMA SumWithout ==
  ASSUME NEW f, NEW S, IsFiniteSet(S), \A i \in S : f[i] \in Nat, NEW x \in S
  PROVE  SumOver(f, S) = f[x] + SumOver(f, S \ {x})
<1> DEFINE wrong(s) == \E y \in s : SumOver(f, s) # f[y] + SumOver(f, s \ {y})
           bad == {n \in Nat : \E s \in SUBSET S : Cardinality(s) = n /\ wrong(s)}
<1>0. bad \in SUBSET Nat
  OBVIOUS
<1>1. CASE bad = {}
  <2>1. Cardinality(S) \in Nat
    BY FS_CardinalityType
  <2>2. ~wrong(S)
    BY <1>1, <2>1
  <2> QED BY <2>2
<1>2. CASE bad # {}
  <2>1. PICK n \in bad : \A m \in Nat : m < n => m \notin bad
    <3> HIDE DEF bad
    <3> QED BY <1>0, <1>2, LeastOfNaturals
  <2>2. PICK s \in SUBSET S : Cardinality(s) = n /\ wrong(s)
    BY <2>1
  <2>3. PICK y \in s : SumOver(f, s) # f[y] + SumOver(f, s \ {y})
    BY <2>2
  <2> DEFINE c == Chosen(s)
             r == s \ {c}
             q == s \ {y}
             p == r \ {y}
  <2>4. IsFiniteSet(s) /\ c \in s
    BY FS_Subset, ChosenIsIn
  <2>5. SumOver(f, s) = f[c] + SumOver(f, r)
    BY <2>4, SumOfChosen
  <2>6. c # y
    BY <2>3, <2>5
  <2>7. /\ r \in SUBSET S /\ Cardinality(r) \in Nat /\ Cardinality(r) < n
        /\ q \in SUBSET S /\ Cardinality(q) \in Nat /\ Cardinality(q) < n
    BY <2>2, <2>4, SmallerSubset
  <2>8. ~wrong(r) /\ ~wrong(q)
    <3>1. Cardinality(r) \notin bad /\ Cardinality(q) \notin bad
      BY <2>1, <2>7
    <3> HIDE DEF wrong
    <3> QED BY <3>1, <2>7
  <2>9. y \in r /\ c \in q /\ q \ {c} = p
    BY <2>4, <2>6
  <2> HIDE DEF c, r, q
  <2>10. SumOver(f, r) = f[y] + SumOver(f, p)
    BY <2>8, <2>9
  <2>11. SumOver(f, q) = f[c] + SumOver(f, p)
    BY <2>8, <2>9
  <2>12. p \in SUBSET S /\ IsFiniteSet(p)
    BY <2>7, FS_Subset
  <2>13. SumOver(f, p) \in Nat
    BY <2>12, SumType
  <2>14. f[c] \in Nat /\ f[y] \in Nat
    BY <2>4, <2>3
  <2> QED BY <2>3, <2>5, <2>10, <2>11, <2>13, <2>14 DEF q
<1> QED BY <1>1, <1>2

(* A sum of less, over less, is less.                                      *)
LEMMA SumMonotone ==
  ASSUME NEW f, NEW g, NEW S, IsFiniteSet(S), \A i \in S : g[i] \in Nat,
         NEW T \in SUBSET S, \A i \in T : f[i] \in Nat /\ f[i] <= g[i]
  PROVE  SumOver(f, T) <= SumOver(g, S)
<1> DEFINE bad == {n \in Nat : \E s \in SUBSET S :
                     Cardinality(s) = n /\ ~(SumOver(f, s \cap T) <= SumOver(g, s))}
<1>0. bad \in SUBSET Nat
  OBVIOUS
<1>1. CASE bad = {}
  <2>1. Cardinality(S) \in Nat
    BY FS_CardinalityType
  <2>2. S \cap T = T
    OBVIOUS
  <2>3. SumOver(f, S \cap T) <= SumOver(g, S)
    BY <1>1, <2>1
  <2> QED BY <2>2, <2>3
<1>2. CASE bad # {}
  <2>1. PICK n \in bad : \A m \in Nat : m < n => m \notin bad
    <3> HIDE DEF bad
    <3> QED BY <1>0, <1>2, LeastOfNaturals
  <2>2. PICK s \in SUBSET S :
          Cardinality(s) = n /\ ~(SumOver(f, s \cap T) <= SumOver(g, s))
    BY <2>1
  <2>3. s # {}
    <3>1. {} \cap T = {}
      OBVIOUS
    <3> QED BY <2>2, <3>1, SumOfNone
  <2> DEFINE c == Chosen(s)
             r == s \ {c}
  <2>4. IsFiniteSet(s) /\ c \in s /\ c \in S
    BY <2>3, FS_Subset, ChosenIsIn
  <2>5. r \in SUBSET S /\ Cardinality(r) \in Nat /\ Cardinality(r) < n
    BY <2>2, <2>4, SmallerSubset
  <2>6. IsFiniteSet(r) /\ IsFiniteSet(r \cap T) /\ IsFiniteSet(s \cap T)
    <3>1. r \cap T \in SUBSET S /\ s \cap T \in SUBSET S
      OBVIOUS
    <3> QED BY <2>5, <3>1, FS_Subset
  <2> HIDE DEF c, r
  <2>7. SumOver(f, r \cap T) <= SumOver(g, r)
    BY <2>1, <2>5
  <2>8. SumOver(g, s) = g[c] + SumOver(g, r)
    BY <2>4, SumWithout DEF r
  <2>9. SumOver(g, r) \in Nat
    BY <2>5, <2>6, SumType
  <2>10. SumOver(f, r \cap T) \in Nat
    BY <2>6, SumType
  <2>11. CASE c \in T
    <3>1. (s \cap T) \ {c} = r \cap T /\ c \in s \cap T
      BY <2>4, <2>11 DEF r
    <3>2. SumOver(f, s \cap T) = f[c] + SumOver(f, r \cap T)
      BY <2>6, <3>1, SumWithout
    <3> QED BY <2>2, <2>4, <2>7, <2>8, <2>9, <2>10, <2>11, <3>2
  <2>12. CASE c \notin T
    <3>1. s \cap T = r \cap T
      BY <2>12 DEF r
    <3>2. SumOver(f, s \cap T) = SumOver(f, r \cap T)
      BY <3>1
    <3>3. g[c] \in Nat
      BY <2>4
    <3>4. SumOver(f, s \cap T) <= SumOver(g, s)
      BY <2>7, <2>8, <2>9, <2>10, <3>2, <3>3
    <3> QED BY <2>2, <3>4
  <2> QED BY <2>11, <2>12
<1> QED BY <1>1, <1>2
-----------------------------------------------------------------------------
(* The normaliser.                                                         *)

(* What is added up for a sample is what each interface has received since *)
(* the reading before, or less.                                            *)
LEMMA AggregateIsReceived ==
  ASSUME NEW got \in [Interfaces -> Nat], NEW up \in SUBSET Interfaces,
         NEW reading, DOMAIN reading = up,
         \A i \in up : reading[i] \in Nat,
         \A i \in DOMAIN previous : previous[i] \in Nat,
         \A i \in up \cap DOMAIN previous : reading[i] <= previous[i] + got[i]
  PROVE  /\ Aggregate(reading) \in Nat
         /\ SumOver(got, up \ Loopbacks) \in Nat
         /\ Aggregate(reading) <= SumOver(got, up \ Loopbacks)
<1> DEFINE f == Delta(reading)
           T == Continuous(reading) \ Loopbacks
           S == up \ Loopbacks
<1>1. IsFiniteSet(S) /\ T \in SUBSET S
  <2>1. S \in SUBSET Interfaces
    OBVIOUS
  <2>2. IsFiniteSet(S)
    BY <2>1, NetworkAssumption, FS_Subset
  <2> QED BY <2>2 DEF Continuous
<1>2. IsFiniteSet(T)
  BY <1>1, FS_Subset
<1>3. \A i \in T : f[i] \in Nat /\ f[i] <= got[i]
  <2> SUFFICES ASSUME NEW i \in T PROVE f[i] \in Nat /\ f[i] <= got[i]
    OBVIOUS
  <2>1. i \in Continuous(reading) /\ f[i] = reading[i] - previous[i]
    BY DEF Delta
  <2>2. /\ i \in up \cap DOMAIN previous /\ i \in Interfaces
        /\ reading[i] >= previous[i]
    BY <2>1 DEF Continuous
  <2>3. /\ reading[i] \in Nat /\ previous[i] \in Nat /\ got[i] \in Nat
        /\ reading[i] <= previous[i] + got[i]
    BY <2>2
  <2> HIDE DEF f
  <2> QED BY <2>1, <2>2, <2>3
<1>4. \A i \in S : got[i] \in Nat
  OBVIOUS
<1> HIDE DEF f, T, S
<1>5. SumOver(f, T) \in Nat
  BY <1>2, <1>3, SumType
<1>6. SumOver(got, S) \in Nat
  BY <1>1, <1>4, SumType
<1>7. SumOver(f, T) <= SumOver(got, S)
  BY <1>1, <1>3, <1>4, SumMonotone
<1> QED BY <1>5, <1>6, <1>7 DEF Aggregate, f, T, S

-----------------------------------------------------------------------------
(* The source and its consumer.                                            *)

Event ==
  {Available, Unavailable, ContinuityLost}
    \union {SampleOf(bytes, span) : bytes \in Nat, span \in Nat}

(* The reading that the next one is compared with says what the counters   *)
(* still are.                                                              *)
BaselineIsCurrent ==
  /\ counters \in [Interfaces -> Nat]
  /\ DOMAIN previous \subseteq Interfaces
  /\ \A i \in DOMAIN previous : previous[i] = counters[i]

(* The worker reads again when everything has been handed over.            *)
WorkerDelivers ==
  /\ events \in Seq(Event)
  /\ worker # "Delivering" => events = <<>>
  /\ availability = "Unavailable" => lastRead.outcome = "Failed"

Lost == lastRead.outcome = "Failed" \/ ~initialized \/ ~lastRead.trusted

(* Until the detector has forgotten, the event that makes it forget is on  *)
(* its way, and no sample is.                                              *)
LossIsOnItsWay ==
  Lost => /\ \A n \in 1 .. Len(events) : events[n].kind # "Sample"
          /\ \/ phase = Quiescent
             \/ \E n \in 1 .. Len(events) : events[n].kind = "ContinuityLost"

NetworkInv ==
  /\ BaselineIsCurrent
  /\ WorkerDelivers
  /\ LossIsOnItsWay
  /\ SamplesAreReceived

LEMMA TwoEvents ==
  ASSUME NEW a \in Event, NEW b \in Event
  PROVE  /\ <<a>> \o <<b>> \in Seq(Event)
         /\ Len(<<a>> \o <<b>>) = 2
         /\ (<<a>> \o <<b>>)[1] = a
         /\ (<<a>> \o <<b>>)[2] = b
<1>1. <<a>> \in Seq(Event) /\ Len(<<a>>) = 1 /\ <<a>>[1] = a
  OBVIOUS
<1>2. <<b>> \in Seq(Event) /\ Len(<<b>>) = 1 /\ <<b>>[1] = b
  OBVIOUS
<1> QED BY <1>1, <1>2

LEMMA Joined ==
  ASSUME NEW first \in {<<>>, <<Available>>},
         NEW second, \/ second = <<>>
                     \/ \E e \in Event : second = <<e>>
  PROVE  /\ first \o second \in Seq(Event)
         /\ \A n \in 1 .. Len(first \o second) :
              \/ (first \o second)[n] = Available
              \/ second # <<>> /\ (first \o second)[n] = second[1]
         /\ second # <<>> =>
              \E n \in 1 .. Len(first \o second) : (first \o second)[n] = second[1]
<1> DEFINE all == first \o second
<1>1. Available \in Event
  BY DEF Event
<1>2. CASE first = <<>> /\ second = <<>>
  <2>1. all = <<>>
    BY <1>2
  <2> QED BY <1>2, <2>1
<1>3. CASE first = <<Available>> /\ second = <<>>
  <2>1. all = <<Available>>
    BY <1>3
  <2> QED BY <1>1, <1>3, <2>1
<1>4. ASSUME NEW e \in Event, first = <<>>, second = <<e>>
      PROVE  /\ all \in Seq(Event) /\ Len(all) = 1 /\ all[1] = e
             /\ second # <<>> /\ second[1] = e
  <2>1. all = <<e>>
    BY <1>4
  <2> QED BY <1>4, <2>1
<1>5. ASSUME NEW e \in Event, first = <<Available>>, second = <<e>>
      PROVE  /\ all \in Seq(Event) /\ Len(all) = 2
             /\ all[1] = Available /\ all[2] = e
             /\ second # <<>> /\ second[1] = e
  <2>1. all = <<Available>> \o <<e>>
    BY <1>5
  <2>2. second # <<>> /\ second[1] = e
    BY <1>5
  <2> HIDE DEF all
  <2> QED BY <1>1, <2>1, <2>2, TwoEvents
<1> HIDE DEF all
<1>6. ASSUME NEW e \in Event, second = <<e>>
      PROVE  /\ all \in Seq(Event)
             /\ second # <<>>
             /\ \A n \in 1 .. Len(all) : all[n] = Available \/ all[n] = second[1]
             /\ \E n \in 1 .. Len(all) : all[n] = second[1]
  <2>1. CASE first = <<>>
    BY <1>4, <1>6, <2>1
  <2>2. CASE first = <<Available>>
    BY <1>5, <1>6, <2>2
  <2> QED BY <2>1, <2>2
<1>7. CASE \E e \in Event : second = <<e>>
  BY <1>6, <1>7 DEF all
<1> QED BY <1>2, <1>3, <1>7 DEF all

LEMMA InitNetworkInv == Init => NetworkInv
<1> SUFFICES ASSUME Init PROVE NetworkInv
  OBVIOUS
<1>1. /\ counters = [i \in Interfaces |-> 0] /\ initialized = FALSE
      /\ previous = NoReading /\ availability = "Unknown"
      /\ worker = "NotStarted" /\ events = <<>>
  BY DEF Init, SourceInit
<1>2. phase = Quiescent
  BY DEF Init, DetectorInit
<1>3. BaselineIsCurrent
  BY <1>1 DEF BaselineIsCurrent, NoReading
<1>4. WorkerDelivers
  BY <1>1 DEF WorkerDelivers
<1>5. LossIsOnItsWay /\ SamplesAreReceived
  BY <1>1, <1>2 DEF LossIsOnItsWay, SamplesAreReceived
<1> QED BY <1>3, <1>4, <1>5 DEF NetworkInv

LEMMA ReadSucceedsNetworkInv ==
  ASSUME NetworkInv, UNCHANGED detectionVars,
         NEW got \in [Interfaces -> 0 .. MaxCounter], NEW resets \in SUBSET Interfaces,
         NEW up \in SUBSET Interfaces, NEW gap \in 0 .. MaxGap,
         ReadSucceeds(up, got, resets, gap)
  PROVE  NetworkInv'
<1> DEFINE reading == Reading(up)
           first == IF availability # "Available" THEN <<Available>> ELSE <<>>
           second == Observe(reading, gap)
           sum == SumOver(got, up \ Loopbacks)
<1>1. /\ worker = "Sampling"
      /\ counters' \in CountersAfter(got, resets)
      /\ events' = first \o second
      /\ previous' = reading
      /\ lastRead' = [outcome |-> "Read", received |-> sum,
                      trusted |-> initialized /\ gap \in 1 .. MaxTrusted,
                      changed |-> TopologyChanged(reading)]
      /\ initialized' = TRUE
      /\ availability' = "Available"
      /\ worker' = "Delivering"
  BY DEF ReadSucceeds
<1>2. phase' = phase
  BY DEF detectionVars, detectorVars
<1>3. /\ counters' \in [Interfaces -> Nat]
      /\ \A i \in Interfaces : counters'[i] <= counters[i] + got[i]
  <2>1. /\ counters' \in [Interfaces -> 0 .. MaxCounter]
        /\ \A i \in Interfaces :
             IF i \in resets THEN counters'[i] <= got[i]
                             ELSE counters'[i] = counters[i] + got[i]
    BY <1>1 DEF CountersAfter
  <2>2. counters \in [Interfaces -> Nat] /\ MaxCounter \in Nat
    BY NetworkAssumption DEF NetworkInv, BaselineIsCurrent
  <2>3. counters' \in [Interfaces -> Nat]
    BY <2>1, <2>2
  <2>4. \A i \in Interfaces : got[i] \in Nat /\ counters[i] \in Nat /\ counters'[i] \in Nat
    BY <2>2, <2>3
  <2> QED BY <2>1, <2>3, <2>4
<1>4. BaselineIsCurrent'
  BY <1>1, <1>3 DEF BaselineIsCurrent, Reading
<1>5. Aggregate(reading) \in Nat /\ Aggregate(reading) <= sum /\ sum \in Nat
  <2>1. DOMAIN reading = up /\ \A i \in up : reading[i] \in Nat
    BY <1>3 DEF Reading
  <2>2. \A i \in DOMAIN previous : previous[i] \in Nat /\ previous[i] = counters[i]
    BY DEF NetworkInv, BaselineIsCurrent
  <2>3. \A i \in up \cap DOMAIN previous : reading[i] <= previous[i] + got[i]
    BY <1>3, <2>2 DEF Reading
  <2>4. got \in [Interfaces -> Nat]
    BY NetworkAssumption
  <2> HIDE DEF reading
  <2> QED BY <2>1, <2>2, <2>3, <2>4, AggregateIsReceived
<1>6. gap \in Nat /\ MaxTrusted \in Nat
  BY NetworkAssumption
<1> HIDE DEF reading
<1>7. /\ ~initialized => second = <<>>
      /\ initialized /\ gap \notin 1 .. MaxTrusted => second = <<ContinuityLost>>
      /\ initialized /\ gap \in 1 .. MaxTrusted =>
           \/ second = <<ContinuityLost>>
           \/ second = <<SampleOf(Aggregate(reading), gap)>>
  BY <1>6 DEF Observe
<1> HIDE DEF second, sum
<1>8. /\ ContinuityLost \in Event
      /\ SampleOf(Aggregate(reading), gap) \in Event
      /\ ContinuityLost.kind = "ContinuityLost"
      /\ Available.kind = "Available"
      /\ SampleOf(Aggregate(reading), gap).bytes = Aggregate(reading)
      /\ SampleOf(Aggregate(reading), gap).kind = "Sample"
  BY <1>5, <1>6 DEF Event, ContinuityLost, Available, SampleOf
<1>9. first \in {<<>>, <<Available>>}
  OBVIOUS
<1>10. \/ second = <<>>
       \/ second = <<ContinuityLost>>
       \/ second = <<SampleOf(Aggregate(reading), gap)>> /\ gap \in 1 .. MaxTrusted /\ initialized
  BY <1>7
<1> HIDE DEF first
<1>11. /\ events' \in Seq(Event)
       /\ \A n \in 1 .. Len(events') :
            events'[n] = Available \/ (second # <<>> /\ events'[n] = second[1])
       /\ second # <<>> => \E n \in 1 .. Len(events') : events'[n] = second[1]
  <2>1. second = <<>> \/ \E e \in Event : second = <<e>>
    BY <1>8, <1>10
  <2> QED BY <1>1, <1>9, <2>1, Joined
<1>12. WorkerDelivers'
  BY <1>1, <1>11 DEF WorkerDelivers
<1>13. LossIsOnItsWay'
  <2> SUFFICES ASSUME Lost' PROVE LossIsOnItsWay'
    BY DEF LossIsOnItsWay
  <2>1. ~(initialized /\ gap \in 1 .. MaxTrusted)
    BY <1>1 DEF Lost
  <2>2. CASE initialized
    <3>1. second = <<ContinuityLost>>
      BY <1>7, <2>1, <2>2
    <3>2. second # <<>> /\ second[1] = ContinuityLost
      BY <3>1
    <3>3. \A n \in 1 .. Len(events') : events'[n].kind # "Sample"
      BY <1>8, <1>11, <3>2
    <3>4. \E n \in 1 .. Len(events') : events'[n].kind = "ContinuityLost"
      BY <1>8, <1>11, <3>2
    <3> QED BY <3>3, <3>4 DEF LossIsOnItsWay
  <2>3. CASE ~initialized
    <3>1. second = <<>>
      BY <1>7, <2>3
    <3>2. \A n \in 1 .. Len(events') : events'[n].kind # "Sample"
      BY <1>8, <1>11, <3>1
    <3>3. events = <<>>
      BY <1>1 DEF NetworkInv, WorkerDelivers
    <3>4. phase = Quiescent
      BY <2>3, <3>3 DEF NetworkInv, LossIsOnItsWay, Lost
    <3> QED BY <1>2, <3>2, <3>4 DEF LossIsOnItsWay, Quiescent, Idle
  <2> QED BY <2>2, <2>3
<1>14. SamplesAreReceived'
  <2> SUFFICES ASSUME NEW n \in 1 .. Len(events'), events'[n].kind = "Sample"
               PROVE  lastRead'.trusted /\ events'[n].bytes <= lastRead'.received
    BY DEF SamplesAreReceived
  <2>1. second # <<>> /\ events'[n] = second[1]
    BY <1>8, <1>11
  <2>2. /\ second = <<SampleOf(Aggregate(reading), gap)>>
        /\ gap \in 1 .. MaxTrusted /\ initialized
    <3>1. second # <<ContinuityLost>>
      BY <1>8, <2>1
    <3> QED BY <1>10, <2>1, <3>1
  <2>3. events'[n].bytes = Aggregate(reading)
    BY <1>8, <2>1, <2>2
  <2>4. lastRead'.trusted /\ lastRead'.received = sum
    BY <1>1, <2>2
  <2> QED BY <1>5, <2>3, <2>4 DEF sum
<1> QED BY <1>4, <1>12, <1>13, <1>14 DEF NetworkInv

LEMMA ReadFailsNetworkInv ==
  ASSUME NetworkInv, UNCHANGED detectionVars,
         NEW got \in [Interfaces -> 0 .. MaxCounter], NEW resets \in SUBSET Interfaces,
         ReadFails(got, resets)
  PROVE  NetworkInv'
<1>1. /\ worker = "Sampling" /\ worker' = "Delivering"
      /\ counters' \in CountersAfter(got, resets)
      /\ previous' = NoReading
      /\ availability' = "Unavailable"
      /\ lastRead' = [outcome |-> "Failed"]
      /\ IF availability = "Unavailable" THEN events' = <<>>
         ELSE events' = <<ContinuityLost, Unavailable>>
  BY DEF ReadFails
<1>2. phase' = phase
  BY DEF detectionVars, detectorVars
<1>3. BaselineIsCurrent'
  <2>1. counters' \in [Interfaces -> 0 .. MaxCounter]
    BY <1>1 DEF CountersAfter
  <2>2. counters' \in [Interfaces -> Nat]
    BY <2>1, NetworkAssumption
  <2> QED BY <1>1, <2>2 DEF BaselineIsCurrent, NoReading
<1>4. /\ ContinuityLost \in Event /\ Unavailable \in Event
      /\ ContinuityLost.kind = "ContinuityLost"
      /\ Unavailable.kind = "Unavailable"
  BY DEF Event, ContinuityLost, Unavailable
<1>5. CASE availability = "Unavailable"
  <2>1. lastRead.outcome = "Failed" /\ events = <<>>
    BY <1>1, <1>5 DEF NetworkInv, WorkerDelivers
  <2>2. phase = Quiescent
    BY <2>1 DEF NetworkInv, LossIsOnItsWay, Lost
  <2>3. events' = <<>>
    BY <1>1, <1>5
  <2>4. WorkerDelivers'
    BY <1>1, <2>3 DEF WorkerDelivers
  <2>5. LossIsOnItsWay' /\ SamplesAreReceived'
    BY <1>2, <2>2, <2>3 DEF LossIsOnItsWay, SamplesAreReceived, Quiescent, Idle
  <2> QED BY <1>3, <2>4, <2>5 DEF NetworkInv
<1>6. CASE availability # "Unavailable"
  <2>1. events' = <<ContinuityLost, Unavailable>>
    BY <1>1, <1>6
  <2>2. /\ events' \in Seq(Event) /\ Len(events') = 2
        /\ events'[1] = ContinuityLost /\ events'[2] = Unavailable
    BY <1>4, <2>1
  <2>3. \A n \in 1 .. Len(events') : events'[n].kind # "Sample"
    BY <1>4, <2>2
  <2>4. WorkerDelivers'
    BY <1>1, <2>2 DEF WorkerDelivers
  <2>5. LossIsOnItsWay' /\ SamplesAreReceived'
    BY <1>4, <2>2, <2>3 DEF LossIsOnItsWay, SamplesAreReceived
  <2> QED BY <1>3, <2>4, <2>5 DEF NetworkInv
<1> QED BY <1>5, <1>6

LEMMA DeliverNetworkInv ==
  ASSUME NetworkInv, Deliver
  PROVE  NetworkInv'
<1> DEFINE event == Head(events)
<1>1. /\ worker = "Delivering" /\ events # <<>> /\ events' = Tail(events)
      /\ UNCHANGED <<counters, initialized, previous, availability, worker, lastRead>>
  BY DEF Deliver, EventDelivered, normalizerVars
<1>2. events \in Seq(Event) /\ Len(events) \in Nat \ {0}
  BY <1>1 DEF NetworkInv, WorkerDelivers
<1>3. /\ events' \in Seq(Event)
      /\ Len(events') = Len(events) - 1
      /\ \A n \in 1 .. Len(events') : n + 1 \in 1 .. Len(events) /\ events'[n] = events[n + 1]
      /\ event = events[1] /\ 1 \in 1 .. Len(events)
  BY <1>1, <1>2
<1>4. BaselineIsCurrent'
  BY <1>1 DEF NetworkInv, BaselineIsCurrent
<1>5. WorkerDelivers'
  BY <1>1, <1>3 DEF NetworkInv, WorkerDelivers
<1>6. SamplesAreReceived'
  BY <1>1, <1>3 DEF NetworkInv, SamplesAreReceived
<1> HIDE DEF event
<1>7. LossIsOnItsWay'
  <2> SUFFICES ASSUME Lost' PROVE LossIsOnItsWay'
    BY DEF LossIsOnItsWay
  <2>1. Lost
    BY <1>1 DEF Lost
  <2>2. /\ \A n \in 1 .. Len(events) : events[n].kind # "Sample"
        /\ \/ phase = Quiescent
           \/ \E n \in 1 .. Len(events) : events[n].kind = "ContinuityLost"
    BY <2>1 DEF NetworkInv, LossIsOnItsWay
  <2>3. \A n \in 1 .. Len(events') : events'[n].kind # "Sample"
    BY <1>3, <2>2
  <2>4. event.kind # "Sample" /\ ConsumeEvent(event)
    BY <1>3, <2>2 DEF Deliver, event
  <2>5. CASE event.kind = "ContinuityLost"
    <3>1. ConsumeContinuityLost(TRUE)
      BY <2>4, <2>5 DEF ConsumeEvent
    <3>2. phase' = Quiescent
      BY <3>1 DEF ConsumeContinuityLost, Publish
    <3> QED BY <2>3, <3>2 DEF LossIsOnItsWay, Quiescent, Idle
  <2>6. CASE event.kind # "ContinuityLost"
    <3>1. ConsumeAvailabilityChanged(TRUE)
      BY <2>4, <2>6 DEF ConsumeEvent
    <3>2. phase' = phase
      BY <3>1 DEF ConsumeAvailabilityChanged, Publish
    <3>3. ASSUME NEW n \in 1 .. Len(events), events[n].kind = "ContinuityLost"
          PROVE  \E m \in 1 .. Len(events') : events'[m].kind = "ContinuityLost"
      <4>1. n # 1
        BY <1>3, <2>6, <3>3
      <4>2. n - 1 \in 1 .. Len(events') /\ (n - 1) + 1 = n
        BY <1>2, <1>3, <4>1
      <4>3. events'[n - 1] = events[n]
        BY <1>3, <4>2
      <4> QED BY <3>3, <4>2, <4>3
    <3> QED BY <2>2, <2>3, <3>2, <3>3 DEF LossIsOnItsWay, Quiescent, Idle
  <2> QED BY <2>5, <2>6
<1> QED BY <1>4, <1>5, <1>6, <1>7 DEF NetworkInv

LEMMA RetuneNetworkInv ==
  ASSUME NetworkInv, Retune
  PROVE  NetworkInv'
<1>1. phase' = Quiescent /\ UNCHANGED sourceVars
  BY DEF Retune, ApplyTuning, Publish
<1> QED BY <1>1 DEF NetworkInv, sourceVars, normalizerVars, BaselineIsCurrent,
             WorkerDelivers, LossIsOnItsWay, Lost, SamplesAreReceived, Quiescent, Idle

(* The worker's other steps leave what it has read and what is to be       *)
(* delivered as they are.                                                  *)
LEMMA IdleNetworkInv ==
  ASSUME NetworkInv,
         \/ UNCHANGED vars
         \/ /\ UNCHANGED detectionVars
            /\ StartWorker \/ FinishSample \/ SampleInterval \/ RequestStop \/ ExitWorker
  PROVE  NetworkInv'
<1>1. /\ UNCHANGED <<counters, initialized, previous, availability, events, lastRead>>
      /\ phase' = phase
      /\ worker' # worker => events = <<>>
  BY DEF vars, sourceVars, normalizerVars, detectionVars, detectorVars, StartWorker,
         FinishSample, SampleInterval, RequestStop, ExitWorker,
         NetworkInv, WorkerDelivers
<1> QED BY <1>1 DEF NetworkInv, BaselineIsCurrent,
             WorkerDelivers, LossIsOnItsWay, Lost, SamplesAreReceived, Quiescent, Idle

LEMMA NextNetworkInv == NetworkInv /\ [Next]_vars => NetworkInv'
<1> SUFFICES ASSUME NetworkInv, [Next]_vars PROVE NetworkInv'
  OBVIOUS
<1>1. CASE Read /\ UNCHANGED detectionVars
  BY <1>1, ReadSucceedsNetworkInv, ReadFailsNetworkInv DEF Read
<1>2. CASE Deliver
  BY <1>2, DeliverNetworkInv
<1>3. CASE Retune
  BY <1>3, RetuneNetworkInv
<1>4. CASE \/ UNCHANGED vars
           \/ /\ UNCHANGED detectionVars
              /\ StartWorker \/ FinishSample \/ SampleInterval \/ RequestStop \/ ExitWorker
  BY <1>4, IdleNetworkInv
<1> QED BY <1>1, <1>2, <1>3, <1>4 DEF Next, WorkerStep

LEMMA NetworkInvariant == Spec => []NetworkInv
<1> QED BY InitNetworkInv, NextNetworkInv, PTL DEF Spec

(* However many interfaces there are, and whichever of them come, go, reset*)
(* their counters or fail to be read: a sample that the detector is handed *)
(* was observed over an interval that can be trusted, and adds up to no    *)
(* more than external interfaces received in it (observe).                 *)
THEOREM NetworkSamplesAreReceived == Spec => []SamplesAreReceived
<1>1. NetworkInv => SamplesAreReceived
  BY DEF NetworkInv
<1> QED BY <1>1, NetworkInvariant, PTL

(* As soon as the events of a reading have been handed over: a reading that*)
(* failed, the first one after it, and one over an interval that cannot be *)
(* trusted have left the detector quiescent, failures that are no event    *)
(* included (report_failure, consume).                                     *)
THEOREM NetworkLostContinuityIsForgotten == Spec => []LostContinuityIsForgotten
<1>1. NetworkInv => LostContinuityIsForgotten
  BY DEF NetworkInv, LossIsOnItsWay, Lost, LostContinuityIsForgotten
<1> QED BY <1>1, NetworkInvariant, PTL
=============================================================================
