------------------------------- MODULE Orders -------------------------------
(***************************************************************************)
(* Strict total orders on finite sets, as sets of pairs: rankings, buckets *)
(* and queues are such orders, and each has a first and a last element.    *)
(***************************************************************************)
EXTENDS FiniteSetTheorems, WellFoundedInduction, TLAPS

StrictTotal(R, S) ==
  /\ \A x \in S : <<x, x>> \notin R
  /\ \A x, y, z \in S : <<x, y>> \in R /\ <<y, z>> \in R => <<x, z>> \in R
  /\ \A x, y \in S : x # y => <<x, y>> \in R \/ <<y, x>> \in R

LEMMA TotalOnSubset ==
  ASSUME NEW R, NEW S, StrictTotal(R, S), NEW T \in SUBSET S
  PROVE  StrictTotal(R, T)
BY DEF StrictTotal

LEMMA LastElement ==
  ASSUME NEW R, NEW S, IsFiniteSet(S), S # {}, StrictTotal(R, S)
  PROVE  \E m \in S : \A u \in S \ {m} : <<u, m>> \in R
<1> DEFINE After(x) == {y \in S : <<x, y>> \in R}
           T == {After(x) : x \in S}
<1>1. IsWellFoundedOn(StrictSubsetOrdering(S), SUBSET S)
  BY FS_StrictSubsetOrderingWellFounded, FS_FiniteSubsetsOfFinite
<1>2. T \subseteq SUBSET S /\ T # {}
  OBVIOUS
<1>3. PICK A \in T : \A B \in T : ~(<<B, A>> \in StrictSubsetOrdering(S))
  <2> HIDE DEF T
  <2> QED BY <1>1, <1>2, WFMin
<1>4. PICK m \in S : A = After(m)
  OBVIOUS
<1>5. ASSUME NEW u \in S, <<m, u>> \in R PROVE FALSE
  <2>1. After(u) \subseteq After(m) /\ u \in After(m) /\ u \notin After(u)
    BY <1>5 DEF StrictTotal
  <2>2. <<After(u), A>> \in StrictSubsetOrdering(S)
    BY <2>1, <1>4 DEF StrictSubsetOrdering
  <2> QED BY <2>2, <1>3
<1> QED BY <1>5 DEF StrictTotal

LEMMA FirstElement ==
  ASSUME NEW R, NEW S, IsFiniteSet(S), S # {}, StrictTotal(R, S)
  PROVE  \E m \in S : \A u \in S \ {m} : <<m, u>> \in R
<1> DEFINE Before(x) == {y \in S : <<y, x>> \in R}
           T == {Before(x) : x \in S}
<1>1. IsWellFoundedOn(StrictSubsetOrdering(S), SUBSET S)
  BY FS_StrictSubsetOrderingWellFounded, FS_FiniteSubsetsOfFinite
<1>2. T \subseteq SUBSET S /\ T # {}
  OBVIOUS
<1>3. PICK A \in T : \A B \in T : ~(<<B, A>> \in StrictSubsetOrdering(S))
  <2> HIDE DEF T
  <2> QED BY <1>1, <1>2, WFMin
<1>4. PICK m \in S : A = Before(m)
  OBVIOUS
<1>5. ASSUME NEW u \in S, <<u, m>> \in R PROVE FALSE
  <2>1. Before(u) \subseteq Before(m) /\ u \in Before(m) /\ u \notin Before(u)
    BY <1>5 DEF StrictTotal
  <2>2. <<Before(u), A>> \in StrictSubsetOrdering(S)
    BY <2>1, <1>4 DEF StrictSubsetOrdering
  <2> QED BY <2>2, <1>3
<1> QED BY <1>5 DEF StrictTotal

=============================================================================
