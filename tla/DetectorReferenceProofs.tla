----------------------- MODULE DetectorReferenceProofs -----------------------
(***************************************************************************)
(* Proof that the detector is in the phase its samples call for, after any *)
(* number of samples: the one duration it keeps is enough to tell what a   *)
(* definition over all of them says.                                       *)
(***************************************************************************)
EXTENDS DetectorReference, WellFoundedInduction, TLAPS

Count == Len(history)

TypeOK ==
  /\ history \in Seq([rate : Nat, end : Nat])
  /\ \A i, j \in 0 .. Count : i <= j => End(i) <= End(j)
  /\ tuning \in Tuning
  /\ phase \in Phase

ReferenceInv ==
  /\ TypeOK
  /\ PhaseMatchesHistory

-----------------------------------------------------------------------------
(* The latest stretch of each kind has one start.                          *)

LEMMA LeastOfNaturals ==
  ASSUME NEW set \in SUBSET Nat, set # {}
  PROVE  \E least \in set : \A m \in Nat : m < least => m \notin set
<1> DEFINE below == OpToRel(<, Nat)
<1>1. IsWellFoundedOn(below, Nat)
  BY NatLessThanWellFounded
<1>2. \A m, k \in Nat : m < k => <<m, k>> \in below
  BY DEF OpToRel
<1> HIDE DEF below
<1>3. PICK least \in set : \A m \in set : ~(<<m, least>> \in below)
  BY <1>1, WFMin
<1>4. \A m \in Nat : m < least => m \notin set
  BY <1>2, <1>3
<1> QED BY <1>4

LEMMA EndTypes ==
  ASSUME TypeOK
  PROVE  /\ Count \in Nat
         /\ \A i \in 0 .. Count : End(i) \in Nat
         /\ End(0) = 0
         /\ tuning.threshold \in Nat /\ tuning.grace \in Nat
<1> DEFINE Entry == [rate : Nat, end : Nat]
<1>1. history \in Seq(Entry)
  BY DEF TypeOK
<1>2. \A e \in Entry : e.end \in Nat
  OBVIOUS
<1> HIDE DEF Entry
<1>3. Len(history) \in Nat /\ \A i \in 1 .. Len(history) : history[i] \in Entry
  BY <1>1
<1>4. \A i \in 0 .. Count : End(i) \in Nat
  <2> SUFFICES ASSUME NEW i \in 0 .. Count PROVE End(i) \in Nat
    OBVIOUS
  <2>1. i # 0 => i \in 1 .. Len(history)
    BY <1>3 DEF Count
  <2> QED BY <1>2, <1>3, <2>1 DEF End
<1>5. tuning.threshold \in Nat /\ tuning.grace \in Nat
  BY DetectorAssumption DEF TypeOK, Tuning
<1> QED BY <1>3, <1>4, <1>5 DEF End, Count

LEMMA StretchStarts ==
  ASSUME TypeOK, NEW meaningful \in BOOLEAN
  PROVE  \E first \in 1 .. Count + 1 : Starts(first, meaningful)
<1> DEFINE set == {i \in 1 .. Count + 1 : Stretch(i, Count, meaningful)}
<1>1. Count \in Nat
  BY EndTypes
<1>2. Count + 1 \in set
  BY <1>1 DEF Stretch
<1>3. set \in SUBSET Nat
  BY <1>1
<1>4. PICK least \in set : \A m \in Nat : m < least => m \notin set
  <2> HIDE DEF set
  <2> QED BY <1>2, <1>3, LeastOfNaturals
<1>5. ASSUME least > 1
      PROVE  Meaningful(least - 1) <=> ~meaningful
  <2>1. least - 1 \in 1 .. Count + 1 /\ least - 1 \in Nat /\ least - 1 < least
    BY <1>1, <1>5
  <2>2. ~Stretch(least - 1, Count, meaningful)
    BY <1>4, <2>1
  <2>3. PICK i \in (least - 1) .. Count : ~(Meaningful(i) <=> meaningful)
    BY <2>2 DEF Stretch
  <2>4. i \notin least .. Count
    BY <2>3 DEF Stretch
  <2>5. i = least - 1
    BY <1>1, <2>1, <2>3, <2>4
  <2> QED BY <2>3, <2>5
<1>6. Starts(least, meaningful)
  BY <1>5 DEF Starts, Count
<1> QED BY <1>6

(* What Latest is: a stretch that ends with the latest sample starts no    *)
(* earlier than the latest stretch does, so that there is one such stretch.*)
LatestFacts ==
  \A meaningful \in BOOLEAN, first \in 1 .. Count + 1 :
    Starts(first, meaningful) =>
      /\ \A i \in 1 .. Count + 1 : Stretch(i, Count, meaningful) => first <= i
      /\ Latest(meaningful) = End(Count) - End(first - 1)

LEMMA LatestIs == TypeOK => LatestFacts
<1> SUFFICES ASSUME TypeOK, NEW meaningful \in BOOLEAN,
                    NEW first \in 1 .. Count + 1, Starts(first, meaningful)
             PROVE  /\ \A i \in 1 .. Count + 1 :
                         Stretch(i, Count, meaningful) => first <= i
                    /\ Latest(meaningful) = End(Count) - End(first - 1)
  BY DEF LatestFacts
<1>1. Count \in Nat
  BY EndTypes
<1>2. ASSUME NEW start \in 1 .. Count + 1, Starts(start, meaningful),
             NEW i \in 1 .. Count + 1, Stretch(i, Count, meaningful)
      PROVE  start <= i
  <2> SUFFICES ASSUME i < start PROVE FALSE
    BY <1>1
  <2>1. start > 1 /\ start - 1 \in i .. Count
    BY <1>1
  <2> QED BY <1>2, <2>1 DEF Starts, Stretch
<1> DEFINE start == CHOOSE i \in 1 .. Count + 1 : Starts(i, meaningful)
<1>3. start \in 1 .. Count + 1 /\ Starts(start, meaningful)
  BY StretchStarts
<1>4. Latest(meaningful) = Lasted(start, Count)
  BY DEF Latest, Count
<1> HIDE DEF start
<1>5. first <= start /\ start <= first
  BY <1>2, <1>3 DEF Starts, Count
<1>6. start = first
  BY <1>1, <1>3, <1>5
<1> QED BY <1>2, <1>4, <1>6 DEF Lasted

(* The same of the state a step leads to.                                  *)
LEMMA LatestWillBe == TypeOK' => LatestFacts'
BY LatestIs, PTL

-----------------------------------------------------------------------------
(* A sample more: n is the number of samples before it.                    *)

OneMore(sample, n) ==
  /\ sample \in Sample
  /\ tuning' = tuning
  /\ history' = Append(history, [rate |-> sample.rate,
                                 end |-> End(Len(history)) + sample.span])
  /\ n = Count

LEMMA OneSampleMore ==
  ASSUME TypeOK, NEW sample, NEW n, OneMore(sample, n)
  PROVE  /\ history' \in Seq([rate : Nat, end : Nat])
         /\ n \in Nat /\ Count = n /\ Count' = n + 1
         /\ \A i \in 1 .. n : Meaningful(i)' <=> Meaningful(i)
         /\ Meaningful(n + 1)' <=> sample.rate >= tuning.threshold
         /\ \A i \in 0 .. n : End(i)' = End(i) /\ End(i) \in Nat
         /\ End(n + 1)' = End(n) + sample.span
         /\ sample.span \in Nat
<1> DEFINE Entry == [rate : Nat, end : Nat]
           entry == [rate |-> sample.rate, end |-> End(Count) + sample.span]
<1>1. Count \in Nat /\ End(Count) \in Nat /\ \A i \in 0 .. Count : End(i) \in Nat
  BY EndTypes
<1>2. sample.rate \in Nat /\ sample.span \in Nat
  BY DetectorAssumption DEF Sample, OneMore
<1>3. entry \in Entry
  BY <1>1, <1>2
<1>4. entry.rate = sample.rate /\ entry.end = End(Count) + sample.span
  OBVIOUS
<1>5. history \in Seq(Entry)
  BY DEF TypeOK
<1>6. history' = Append(history, entry)
  BY DEF OneMore, Count
<1> HIDE DEF entry, Entry
<1>7. /\ history' \in Seq(Entry)
      /\ Len(history') = Len(history) + 1
      /\ \A i \in 1 .. Len(history) : history'[i] = history[i]
      /\ history'[Len(history) + 1] = entry
  BY <1>3, <1>5, <1>6
<1>8. Count = n /\ Len(history) = n /\ Len(history') = n + 1 /\ Count' = n + 1
  BY <1>7 DEF OneMore, Count
<1>9. \A i \in 1 .. n : Meaningful(i)' <=> Meaningful(i)
  BY <1>7, <1>8 DEF Meaningful, OneMore
<1>10. Meaningful(n + 1)' <=> sample.rate >= tuning.threshold
  BY <1>4, <1>7, <1>8 DEF Meaningful, OneMore
<1>11. \A i \in 0 .. n : End(i)' = End(i)
  <2> SUFFICES ASSUME NEW i \in 0 .. n PROVE End(i)' = End(i)
    OBVIOUS
  <2>1. i # 0 => i \in 1 .. Len(history)
    BY <1>1, <1>8
  <2> QED BY <1>7, <2>1 DEF End
<1>12. End(n + 1)' = End(n) + sample.span
  BY <1>1, <1>4, <1>7, <1>8 DEF End
<1>13. history' \in Seq([rate : Nat, end : Nat])
  BY <1>7 DEF Entry
<1> QED BY <1>1, <1>2, <1>8, <1>9, <1>10, <1>11, <1>12, <1>13

(* The parts of the reference that do not change with it.                  *)
LEMMA OldStretches ==
  ASSUME TypeOK, NEW sample, NEW n, OneMore(sample, n)
  PROVE  \A i \in 1 .. n : /\ QualifiesAt(i)' <=> QualifiesAt(i)
                           /\ LapsesAt(i)' <=> LapsesAt(i)
<1> SUFFICES ASSUME NEW i \in 1 .. n
             PROVE  /\ QualifiesAt(i)' <=> QualifiesAt(i)
                    /\ LapsesAt(i)' <=> LapsesAt(i)
  OBVIOUS
<1>1. /\ n \in Nat
      /\ \A k \in 1 .. n : Meaningful(k)' <=> Meaningful(k)
      /\ \A k \in 0 .. n : End(k)' = End(k)
  BY OneSampleMore
<1>2. ASSUME NEW first \in 1 .. i, NEW m \in BOOLEAN
      PROVE  /\ Stretch(first, i, m)' <=> Stretch(first, i, m)
             /\ Lasted(first, i)' = Lasted(first, i)
  <2>1. first .. i \subseteq 1 .. n /\ i \in 0 .. n /\ first - 1 \in 0 .. n
    BY <1>1
  <2>2. Stretch(first, i, m)' <=> Stretch(first, i, m)
    BY <1>1, <2>1 DEF Stretch
  <2>3. End(i)' = End(i) /\ End(first - 1)' = End(first - 1)
    BY <1>1, <2>1
  <2> QED BY <2>2, <2>3 DEF Lasted
<1>3. tuning' = tuning
  BY DEF OneMore
<1> QED BY <1>2, <1>3 DEF QualifiesAt, LapsesAt

(* It only adds to the time.                                               *)
LEMMA EndsStayOrdered ==
  ASSUME TypeOK, NEW sample, NEW n, OneMore(sample, n)
  PROVE  \A i, j \in 0 .. n + 1 : i <= j => End(i)' <= End(j)'
<1> SUFFICES ASSUME NEW i \in 0 .. n + 1, NEW j \in 0 .. n + 1, i <= j
             PROVE  End(i)' <= End(j)'
  OBVIOUS
<1>1. /\ n \in Nat /\ Count = n
      /\ \A k \in 0 .. n : End(k)' = End(k) /\ End(k) \in Nat
      /\ End(n + 1)' = End(n) + sample.span
      /\ sample.span \in Nat
  BY OneSampleMore
<1>2. \A k \in 0 .. n : End(k) <= End(n)
  BY <1>1 DEF TypeOK
<1>3. CASE j \in 0 .. n
  <2>1. i \in 0 .. n
    BY <1>1, <1>3
  <2>2. End(i) <= End(j)
    BY <1>1, <1>3, <2>1 DEF TypeOK
  <2> QED BY <1>1, <1>3, <2>1, <2>2
<1>4. CASE j = n + 1 /\ i \in 0 .. n
  BY <1>1, <1>2, <1>4
<1>5. CASE j = n + 1 /\ i = n + 1
  BY <1>1, <1>5
<1> QED BY <1>1, <1>3, <1>4, <1>5

(* The stretch that the new sample belongs to is the one that was there, if*)
(* that was of its kind, and else one of its own.                          *)
LEMMA LongerStretch ==
  ASSUME TypeOK, TypeOK', NEW sample, NEW n, OneMore(sample, n),
         NEW m \in BOOLEAN, Meaningful(n + 1)' <=> m
  PROVE  /\ Latest(m)' = Latest(m) + sample.span
         /\ \A first \in 1 .. n + 1 :
              Stretch(first, n + 1, m)' => Lasted(first, n + 1)' <= Latest(m)'
         /\ \E first \in 1 .. n + 1 :
              /\ Stretch(first, n + 1, m)'
              /\ Lasted(first, n + 1)' = Latest(m)'
<1>1. /\ n \in Nat /\ Count = n /\ Count' = n + 1
      /\ \A i \in 1 .. n : Meaningful(i)' <=> Meaningful(i)
      /\ \A i \in 0 .. n : End(i)' = End(i) /\ End(i) \in Nat
      /\ End(n + 1)' = End(n) + sample.span
      /\ sample.span \in Nat
  BY OneSampleMore
<1>2. PICK first \in 1 .. n + 1 : Starts(first, m)
  BY <1>1, StretchStarts
<1>3. Latest(m) = End(n) - End(first - 1)
  BY <1>1, <1>2, LatestIs DEF LatestFacts
<1>4. Stretch(first, n, m) /\ (first > 1 => (Meaningful(first - 1) <=> ~m))
  BY <1>1, <1>2 DEF Starts, Count
<1>5. Stretch(first, n + 1, m)'
  <2> SUFFICES ASSUME NEW i \in first .. n + 1
               PROVE  Meaningful(i)' <=> m
    BY DEF Stretch
  <2>1. CASE i = n + 1
    BY <2>1
  <2>2. CASE i # n + 1
    <3>1. i \in first .. n /\ i \in 1 .. n
      BY <1>1, <2>2
    <3> QED BY <1>1, <1>4, <3>1 DEF Stretch
  <2> QED BY <2>1, <2>2
<1>6. first > 1 => (Meaningful(first - 1)' <=> ~m)
  <2>1. first > 1 => first - 1 \in 1 .. n
    BY <1>1
  <2> QED BY <1>1, <1>4, <2>1
<1>7. Starts(first, m)'
  BY <1>1, <1>5, <1>6 DEF Starts, Count
<1>8. /\ \A i \in 1 .. n + 2 : Stretch(i, n + 1, m)' => first <= i
      /\ Latest(m)' = End(n + 1)' - End(first - 1)'
  <2>1. LatestFacts'
    BY LatestWillBe
  <2>2. first \in 1 .. Count' + 1
    BY <1>1
  <2>3. /\ \A i \in 1 .. Count' + 1 : Stretch(i, n + 1, m)' => first <= i
        /\ Latest(m)' = End(n + 1)' - End(first - 1)'
    BY <1>1, <1>7, <2>1, <2>2 DEF LatestFacts, Stretch, End, Count
  <2> QED BY <1>1, <2>3
<1>9. first - 1 \in 0 .. n
  BY <1>1
<1>10. Latest(m)' = Latest(m) + sample.span
  <2>1. End(first - 1)' = End(first - 1) /\ End(first - 1) \in Nat /\ End(n) \in Nat
    BY <1>1, <1>9
  <2> QED BY <1>1, <1>3, <1>8, <2>1
<1>11. Lasted(first, n + 1)' = Latest(m)'
  BY <1>8 DEF Lasted
<1>12. ASSUME NEW other \in 1 .. n + 1, Stretch(other, n + 1, m)'
       PROVE  Lasted(other, n + 1)' <= Latest(m)'
  <2>1. first <= other
    BY <1>1, <1>8, <1>12
  <2>2. other - 1 \in 0 .. n /\ first - 1 <= other - 1
    BY <1>1, <2>1
  <2>3. End(first - 1) <= End(other - 1)
    BY <1>1, <1>9, <2>2 DEF TypeOK
  <2>4. /\ End(first - 1)' = End(first - 1) /\ End(first - 1) \in Nat
        /\ End(other - 1)' = End(other - 1) /\ End(other - 1) \in Nat
        /\ End(n) \in Nat
    BY <1>1, <1>9, <2>2
  <2> QED BY <1>1, <1>8, <2>3, <2>4 DEF Lasted
<1> QED BY <1>5, <1>10, <1>11, <1>12

LEMMA BrokenStretch ==
  ASSUME TypeOK, TypeOK', NEW sample, NEW n, OneMore(sample, n),
         NEW m \in BOOLEAN, Meaningful(n + 1)' <=> ~m
  PROVE  /\ Latest(m)' = 0
         /\ \A first \in 1 .. n + 1 : ~Stretch(first, n + 1, m)'
<1>1. /\ n \in Nat /\ Count = n /\ Count' = n + 1
      /\ \A i \in 0 .. n : End(i)' = End(i) /\ End(i) \in Nat
      /\ End(n + 1)' = End(n) + sample.span
      /\ sample.span \in Nat
  BY OneSampleMore
<1>2. Starts(n + 2, m)'
  <2>1. Stretch(n + 2, n + 1, m)'
    BY <1>1 DEF Stretch
  <2>2. Meaningful((n + 2) - 1)' <=> ~m
    BY <1>1
  <2> QED BY <1>1, <2>1, <2>2 DEF Starts, Count
<1>3. Latest(m)' = End(n + 1)' - End((n + 2) - 1)'
  <2>1. LatestFacts'
    BY LatestWillBe
  <2>2. n + 2 \in 1 .. Count' + 1
    BY <1>1
  <2> QED BY <1>1, <1>2, <2>1, <2>2 DEF LatestFacts, End, Count
<1>4. Latest(m)' = 0
  BY <1>1, <1>3 DEF End
<1>5. \A other \in 1 .. n + 1 : ~Stretch(other, n + 1, m)'
  BY <1>1 DEF Stretch
<1> QED BY <1>4, <1>5

(* What one more sample does to Qualified.                                 *)
LEMMA LongEnough ==
  ASSUME TypeOK, TypeOK', NEW sample, NEW n, OneMore(sample, n),
         NEW m \in BOOLEAN, NEW enough \in Nat
  PROVE  (\E first \in 1 .. n + 1 :
            /\ Stretch(first, n + 1, m)'
            /\ Lasted(first, n + 1)' >= enough)
         <=> (Meaningful(n + 1)' <=> m) /\ Latest(m)' >= enough
<1>1. /\ n \in Nat
      /\ \A i \in 0 .. n : End(i)' = End(i) /\ End(i) \in Nat
      /\ End(n + 1)' = End(n) + sample.span
      /\ sample.span \in Nat
  BY OneSampleMore
<1>2. ASSUME NEW first \in 1 .. n + 1
      PROVE  Lasted(first, n + 1)' \in Int
  <2>1. first - 1 \in 0 .. n /\ n \in 0 .. n
    BY <1>1
  <2>2. End(first - 1)' \in Nat /\ End(n + 1)' \in Nat
    BY <1>1, <2>1
  <2> QED BY <2>2 DEF Lasted
<1>3. CASE Meaningful(n + 1)' <=> m
  <2>1. /\ \A first \in 1 .. n + 1 :
             Stretch(first, n + 1, m)' => Lasted(first, n + 1)' <= Latest(m)'
        /\ \E first \in 1 .. n + 1 :
             /\ Stretch(first, n + 1, m)'
             /\ Lasted(first, n + 1)' = Latest(m)'
    BY <1>3, LongerStretch
  <2>2. Latest(m)' \in Int
    BY <1>2, <2>1
  <2> QED BY <1>2, <1>3, <2>1, <2>2
<1>4. CASE ~(Meaningful(n + 1)' <=> m)
  <2>1. \A first \in 1 .. n + 1 : ~Stretch(first, n + 1, m)'
    BY <1>4, BrokenStretch DEF Meaningful
  <2> QED BY <1>4, <2>1
<1> QED BY <1>3, <1>4

LEMMA QualifiesNow ==
  ASSUME TypeOK, TypeOK', NEW sample, NEW n, OneMore(sample, n)
  PROVE  /\ QualifiesAt(n + 1)'
              <=> Meaningful(n + 1)' /\ Latest(TRUE)' >= Qualification
         /\ LapsesAt(n + 1)'
              <=> ~Meaningful(n + 1)' /\ Latest(FALSE)' >= tuning.grace
<1>1. tuning' = tuning /\ tuning.grace \in Nat /\ Qualification \in Nat
  BY EndTypes, DetectorAssumption DEF OneMore
<1>2. (\E first \in 1 .. n + 1 :
         /\ Stretch(first, n + 1, TRUE)'
         /\ Lasted(first, n + 1)' >= Qualification)
      <=> (Meaningful(n + 1)' <=> TRUE) /\ Latest(TRUE)' >= Qualification
  BY <1>1, LongEnough, Zenon
<1>3. (\E first \in 1 .. n + 1 :
         /\ Stretch(first, n + 1, FALSE)'
         /\ Lasted(first, n + 1)' >= tuning.grace)
      <=> (Meaningful(n + 1)' <=> FALSE) /\ Latest(FALSE)' >= tuning.grace
  <2>1. PICK grace \in Nat : grace = tuning.grace
    BY <1>1
  <2>2. (\E first \in 1 .. n + 1 :
           /\ Stretch(first, n + 1, FALSE)'
           /\ Lasted(first, n + 1)' >= grace)
        <=> (Meaningful(n + 1)' <=> FALSE) /\ Latest(FALSE)' >= grace
    BY LongEnough, Zenon
  <2> QED BY <2>1, <2>2, Zenon
<1>4. tuning.grace' = tuning.grace
  BY <1>1
<1>5. QualifiesAt(n + 1)'
        <=> Meaningful(n + 1)' /\ Latest(TRUE)' >= Qualification
  BY <1>2, Zenon DEF QualifiesAt
<1>6. LapsesAt(n + 1)'
        <=> ~Meaningful(n + 1)' /\ Latest(FALSE)' >= tuning.grace
  BY <1>3, <1>4, Zenon DEF LapsesAt
<1> QED BY <1>5, <1>6

LEMMA QualifiedNext ==
  ASSUME TypeOK, TypeOK', NEW sample, NEW n, OneMore(sample, n)
  PROVE  Qualified' <=> \/ QualifiesAt(n + 1)'
                        \/ Qualified /\ ~LapsesAt(n + 1)'
<1>1. n \in Nat /\ Len(history) = n /\ Len(history') = n + 1
  BY OneSampleMore DEF Count
<1>2. \A i \in 1 .. n : /\ QualifiesAt(i)' <=> QualifiesAt(i)
                        /\ LapsesAt(i)' <=> LapsesAt(i)
  BY OldStretches
<1>3. Qualified' <=> \E i \in 1 .. n + 1 :
                       /\ QualifiesAt(i)'
                       /\ \A j \in (i + 1) .. (n + 1) : ~LapsesAt(j)'
  BY <1>1 DEF Qualified
<1>4. Qualified <=> \E i \in 1 .. n :
                      /\ QualifiesAt(i)
                      /\ \A j \in (i + 1) .. n : ~LapsesAt(j)
  BY <1>1 DEF Qualified
<1>5. ASSUME QualifiesAt(n + 1)' PROVE Qualified'
  <2>1. n + 1 \in 1 .. n + 1 /\ (n + 1) + 1 .. n + 1 = {}
    BY <1>1
  <2> QED BY <1>3, <1>5, <2>1
<1>6. ASSUME Qualified, ~LapsesAt(n + 1)' PROVE Qualified'
  <2>1. PICK i \in 1 .. n : /\ QualifiesAt(i)
                            /\ \A j \in (i + 1) .. n : ~LapsesAt(j)
    BY <1>4, <1>6
  <2>2. ASSUME NEW j \in (i + 1) .. (n + 1) PROVE ~LapsesAt(j)'
    <3>1. CASE j = n + 1
      BY <1>6, <3>1
    <3>2. CASE j # n + 1
      <4>1. j \in (i + 1) .. n /\ j \in 1 .. n
        BY <1>1, <3>2
      <4> QED BY <1>2, <2>1, <4>1
    <3> QED BY <3>1, <3>2
  <2>3. i \in 1 .. n + 1 /\ QualifiesAt(i)'
    BY <1>1, <1>2, <2>1
  <2> QED BY <1>3, <2>2, <2>3
<1>7. ASSUME Qualified', ~QualifiesAt(n + 1)'
      PROVE  Qualified /\ ~LapsesAt(n + 1)'
  <2>1. PICK i \in 1 .. n + 1 :
               /\ QualifiesAt(i)'
               /\ \A j \in (i + 1) .. (n + 1) : ~LapsesAt(j)'
    BY <1>3, <1>7
  <2>2. i # n + 1
    BY <1>7, <2>1
  <2>3. i \in 1 .. n /\ n + 1 \in (i + 1) .. (n + 1)
    BY <1>1, <2>2
  <2>4. \A j \in (i + 1) .. n : j \in 1 .. n /\ j \in (i + 1) .. (n + 1)
    BY <1>1, <2>3
  <2> QED BY <1>2, <1>4, <2>1, <2>3, <2>4
<1> QED BY <1>5, <1>6, <1>7

(* Before there is a sample, no activity has lasted and nothing qualifies. *)
Fresh == history = <<>> => PhaseCalledFor = Quiescent

LEMMA NoSamples == TypeOK => Fresh
<1> SUFFICES ASSUME history = <<>>, TypeOK PROVE PhaseCalledFor = Quiescent
  BY DEF Fresh
<1>1. Count = 0 /\ 1 \in 1 .. Count + 1 /\ TRUE \in BOOLEAN
  BY DEF Count
<1>2. ~Qualified
  BY <1>1 DEF Qualified, Count
<1>3. Starts(1, TRUE)
  BY <1>1 DEF Starts, Stretch, Count
<1>4. Latest(TRUE) = End(Count) - End(1 - 1)
  <2>1. LatestFacts
    BY LatestIs
  <2> QED BY <1>1, <1>3, <2>1, Zenon DEF LatestFacts
<1>5. End(Count) = 0 /\ End(1 - 1) = 0
  BY <1>1 DEF End
<1>6. Latest(TRUE) = 0
  <2>1. 0 - 0 = 0
    OBVIOUS
  <2> QED BY <1>4, <1>5, <2>1, Zenon
<1> QED BY <1>2, <1>6 DEF PhaseCalledFor, Quiescent

LEMMA FreshNext == TypeOK' => Fresh'
BY NoSamples, PTL

(* A kind the latest sample is not of has lasted for no time.              *)
LEMMA NothingOfTheOtherKind ==
  ASSUME TypeOK, Count > 0, NEW m \in BOOLEAN, Meaningful(Count) <=> ~m
  PROVE  Latest(m) = 0
<1>1. Count \in Nat /\ End(Count) \in Nat
  BY EndTypes
<1> DEFINE first == Count + 1
<1>2. first \in 1 .. Count + 1 /\ first - 1 = Count
  BY <1>1
<1>3. Starts(first, m)
  BY <1>1, <1>2 DEF Starts, Stretch, Count
<1> HIDE DEF first
<1>4. Latest(m) = End(Count) - End(Count)
  BY <1>2, <1>3, LatestIs DEF LatestFacts
<1> QED BY <1>1, <1>4

-----------------------------------------------------------------------------
(* A step of the detector: what the phase it is in becomes.                *)

LEMMA SampleFollowed ==
  ASSUME TypeOK, TypeOK', NEW sample, NEW n, OneMore(sample, n),
         PhaseMatchesHistory, phase' = AfterSample(phase, sample)
  PROVE  PhaseMatchesHistory'
<1>1. /\ n \in Nat /\ Len(history) = n /\ Count = n
      /\ Len(history') = n + 1 /\ Count' = n + 1
      /\ Meaningful(n + 1)' <=> sample.rate >= tuning.threshold
  BY OneSampleMore DEF Count
<1>2. phase = IF ~Qualified THEN Idle(Latest(TRUE))
              ELSE IF Meaningful(n) THEN Active
              ELSE Hold(Latest(FALSE))
  BY <1>1 DEF PhaseMatchesHistory, PhaseCalledFor
<1>3. PhaseCalledFor' = IF ~Qualified' THEN Idle(Latest(TRUE)')
                        ELSE IF Meaningful(n + 1)' THEN Active
                        ELSE Hold(Latest(FALSE)')
  BY <1>1 DEF PhaseCalledFor, Idle, Active, Hold, Meaningful
<1>4. phase' = IF Meaningful(n + 1)' THEN AfterMeaningful(phase, sample.span)
               ELSE AfterQuiet(phase, sample.span, tuning.grace)
  BY <1>1 DEF AfterSample
<1>5. Meaningful(n) \in BOOLEAN /\ Meaningful(n + 1)' \in BOOLEAN
  BY DEF Meaningful
<1>6. CASE Meaningful(n + 1)'
  <2>1. Latest(TRUE)' = Latest(TRUE) + sample.span
    BY <1>6, LongerStretch
  <2>2. Qualified' <=> Latest(TRUE)' >= Qualification \/ Qualified
    BY <1>6, QualifiesNow, QualifiedNext
  <2>3. phase' = IF phase.state # "Idle" \/ phase.elapsed + sample.span >= Qualification
                 THEN Active ELSE Idle(phase.elapsed + sample.span)
    BY <1>4, <1>6 DEF AfterMeaningful
  <2>4. CASE ~Qualified
    <3>1. phase.state = "Idle" /\ phase.elapsed = Latest(TRUE)
      BY <1>2, <2>4 DEF Idle
    <3>2. phase' = IF Latest(TRUE)' >= Qualification THEN Active
                   ELSE Idle(Latest(TRUE)')
      BY <2>1, <2>3, <3>1
    <3> QED BY <1>3, <1>6, <2>2, <2>4, <3>2 DEF PhaseMatchesHistory
  <2>5. CASE Qualified
    <3>1. phase.state # "Idle"
      BY <1>2, <2>5 DEF Active, Hold
    <3> QED BY <1>3, <1>6, <2>2, <2>3, <2>5, <3>1 DEF PhaseMatchesHistory
  <2> QED BY <2>4, <2>5
<1>7. CASE ~Meaningful(n + 1)'
  <2>1. Latest(FALSE)' = Latest(FALSE) + sample.span /\ Latest(TRUE)' = 0
    BY <1>7, LongerStretch, BrokenStretch
  <2>2. Qualified' <=> Qualified /\ ~(Latest(FALSE)' >= tuning.grace)
    BY <1>7, QualifiesNow, QualifiedNext
  <2>3. phase' = IF phase.state = "Idle" \/ phase.elapsed + sample.span >= tuning.grace
                 THEN Quiescent ELSE Hold(phase.elapsed + sample.span)
    BY <1>4, <1>7 DEF AfterQuiet
  <2>4. CASE ~Qualified
    <3>1. phase.state = "Idle"
      BY <1>2, <2>4 DEF Idle
    <3> QED BY <1>3, <1>7, <2>1, <2>2, <2>3, <2>4, <3>1
            DEF PhaseMatchesHistory, Quiescent
  <2>5. CASE Qualified
    <3>1. phase.state # "Idle" /\ phase.elapsed = Latest(FALSE)
      <4>1. CASE Meaningful(n)
        <5>1. n > 0
          BY <1>1, <2>5 DEF Qualified
        <5>2. Latest(FALSE) = 0
          BY <1>1, <4>1, <5>1, NothingOfTheOtherKind
        <5> QED BY <1>2, <2>5, <4>1, <5>2 DEF Active
      <4>2. CASE ~Meaningful(n)
        BY <1>2, <2>5, <4>2 DEF Hold
      <4> QED BY <4>1, <4>2
    <3>2. phase' = IF Latest(FALSE)' >= tuning.grace THEN Idle(Latest(TRUE)')
                   ELSE Hold(Latest(FALSE)')
      BY <2>1, <2>3, <3>1 DEF Quiescent
    <3> QED BY <1>3, <1>7, <2>2, <2>5, <3>2 DEF PhaseMatchesHistory
  <2> QED BY <2>4, <2>5
<1> QED BY <1>6, <1>7

LEMMA PhaseTypes ==
  ASSUME TypeOK, NEW sample \in Sample
  PROVE  AfterSample(phase, sample) \in Phase
<1>1. phase.elapsed \in Nat /\ sample.span \in Nat /\ phase.state \in {"Idle", "Active", "Hold"}
  BY DetectorAssumption DEF TypeOK, Phase, Sample
<1> QED BY <1>1 DEF AfterSample, AfterMeaningful, AfterQuiet, Idle, Active,
                    Hold, Quiescent, Phase

LEMMA FreshTypes ==
  ASSUME history' = <<>>, tuning' \in Tuning, phase' \in Phase
  PROVE  TypeOK'
<1>1. history' \in Seq([rate : Nat, end : Nat]) /\ Len(history') = 0
  OBVIOUS
<1>2. \A i, j \in 0 .. 0 : End(i)' <= End(j)'
  BY DEF End
<1> QED BY <1>1, <1>2 DEF TypeOK, Count

LEMMA QuiescentTypes == Quiescent \in Phase
BY DEF Quiescent, Idle, Phase

-----------------------------------------------------------------------------

LEMMA ReferenceInvariant == Spec => []ReferenceInv
<1>1. Init => ReferenceInv
  <2> SUFFICES ASSUME Init PROVE ReferenceInv
    OBVIOUS
  <2>1. history = <<>> /\ phase = Quiescent /\ tuning \in Tuning
    BY DEF Init, DetectorInit
  <2>2. TypeOK
    <3>1. history \in Seq([rate : Nat, end : Nat]) /\ Len(history) = 0
      BY <2>1
    <3>2. \A i, j \in 0 .. 0 : End(i) <= End(j)
      BY DEF End
    <3> QED BY <2>1, <3>1, <3>2, QuiescentTypes DEF TypeOK, Count
  <2> QED BY <2>1, <2>2, NoSamples DEF ReferenceInv, PhaseMatchesHistory, Fresh
<1>2. ReferenceInv /\ [Next]_referenceVars => ReferenceInv'
  <2> SUFFICES ASSUME ReferenceInv, [Next]_referenceVars PROVE ReferenceInv'
    OBVIOUS
  <2>1. TypeOK /\ PhaseMatchesHistory
    BY DEF ReferenceInv
  <2>2. ASSUME NEW ok \in BOOLEAN, NEW sample \in Sample, ObserveSample(sample, ok)
        PROVE  ReferenceInv'
    <3>1. OneMore(sample, Count)
      BY <2>2 DEF ObserveSample, ConsumeSample, OneMore, Count
    <3>2. phase' = AfterSample(phase, sample) /\ tuning' = tuning
      BY <2>2 DEF ObserveSample, ConsumeSample, Publish
    <3>4. PICK k : k = Count
      OBVIOUS
    <3>5. OneMore(sample, k)
      BY <3>1, <3>4
    <3>6. TypeOK'
      <4>1. history' \in Seq([rate : Nat, end : Nat]) /\ Count' = k + 1
        BY <2>1, <3>5, OneSampleMore
      <4>2. \A i, j \in 0 .. k + 1 : i <= j => End(i)' <= End(j)'
        BY <2>1, <3>5, EndsStayOrdered
      <4>3. phase' \in Phase /\ tuning' \in Tuning
        BY <2>1, <3>2, PhaseTypes DEF TypeOK
      <4> QED BY <4>1, <4>2, <4>3 DEF TypeOK
    <3>7. PhaseMatchesHistory'
      BY <2>1, <3>2, <3>5, <3>6, SampleFollowed
    <3> QED BY <3>6, <3>7 DEF ReferenceInv
  <2>3. ASSUME NEW ok \in BOOLEAN, LoseContinuity(ok)
        PROVE  ReferenceInv'
    <3>1. history' = <<>> /\ phase' = Quiescent /\ tuning' \in Tuning
      BY <2>1, <2>3 DEF LoseContinuity, ConsumeContinuityLost, Publish, TypeOK
    <3>2. TypeOK'
      BY <3>1, FreshTypes, QuiescentTypes
    <3> QED BY <3>1, <3>2, FreshNext DEF ReferenceInv, PhaseMatchesHistory, Fresh
  <2>4. ASSUME NEW ok \in BOOLEAN, NEW new \in Tuning, Retune(new, ok)
        PROVE  ReferenceInv'
    <3>1. history' = <<>> /\ phase' = Quiescent /\ tuning' \in Tuning
      BY <2>4 DEF Retune, ApplyTuning, Publish
    <3>2. TypeOK'
      BY <3>1, FreshTypes, QuiescentTypes
    <3> QED BY <3>1, <3>2, FreshNext DEF ReferenceInv, PhaseMatchesHistory, Fresh
  <2>5. ASSUME history' = history, phase' = phase, tuning' = tuning
        PROVE  ReferenceInv'
    <3>1. TypeOK'
      BY <2>1, <2>5 DEF TypeOK, End, Count
    <3>2. PhaseMatchesHistory'
      BY <2>1, <2>5 DEF PhaseMatchesHistory, PhaseCalledFor, Qualified, QualifiesAt,
           LapsesAt, Latest, Starts, Stretch, Lasted, Meaningful, End
    <3> QED BY <3>1, <3>2 DEF ReferenceInv
  <2>6. CASE UNCHANGED referenceVars
    BY <2>5, <2>6 DEF referenceVars
  <2>7. CASE Next
    BY <2>2, <2>3, <2>4, <2>5, <2>7 DEF Next, ConsumeAvailabilityChanged, Publish
  <2> QED BY <2>6, <2>7
<1> QED BY <1>1, <1>2, PTL DEF Spec

(* Whatever samples it has seen since it last started afresh, the detector *)
(* is in the phase they call for, with the time the latest stretch of them *)
(* has lasted (DownloadDetector::observe in automatic_download.rs).        *)
THEOREM DetectorPhaseMatchesHistory == Spec => []PhaseMatchesHistory
BY ReferenceInvariant, PTL DEF ReferenceInv

==============================================================================
