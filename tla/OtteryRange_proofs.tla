------------------------- MODULE OtteryRange_proofs -------------------------
(***************************************************************************)
(* Range reduction is exact and ends soon, for every width of integer and  *)
(* every bound.  Both follow from two inequalities on the divisor D of a   *)
(* bound u, D * (u + 1) <= IntRange <= 2 * D * (u + 1): the draws below    *)
(* D * (u + 1) are accepted, in intervals of D draws for each result.      *)
(***************************************************************************)
EXTENDS OtteryRange, FiniteSetTheorems, TLAPS

(* Division by the divisor, rounding down.                                 *)
LEMMA Division ==
  ASSUME NEW a \in Nat, NEW b \in Nat \ {0}
  PROVE  /\ a \div b \in Nat
         /\ (a \div b) * b <= a
         /\ a < (a \div b) * b + b
OBVIOUS

(* r \div b is q exactly for the b numbers from q * b on.                  *)
LEMMA DivisionInterval ==
  ASSUME NEW r \in Nat, NEW b \in Nat \ {0}, NEW q \in Nat
  PROVE  r \div b = q <=> q * b <= r /\ r < q * b + b
OBVIOUS

(* The divisor of ottery_st_rand_range_nolock fits u + 1 times into the    *)
(* range of the type, also where lim wraps to 0, and uses up half of it.   *)
LEMMA DivisorSpec ==
  ASSUME NEW u \in Numbers
  PROVE  /\ Divisor(u) \in Nat \ {0}
         /\ Divisor(u) * (u + 1) <= IntRange
         /\ IntRange <= 2 * (Divisor(u) * (u + 1))
<1>1. IntRange \in Nat /\ IntRange > 0 /\ u \in Nat /\ u < IntRange
  BY IntRangeParameter DEF Numbers
<1>2. CASE u = IntRange - 1
  <2>1. Lim(u) = 0
    BY <1>1, <1>2 DEF Lim
  <2>2. Divisor(u) = 1
    BY <2>1 DEF Divisor
  <2> QED BY <1>1, <1>2, <2>2
<1>3. CASE u # IntRange - 1
  <2> DEFINE l == u + 1
             d == MaxInt \div l
  <2>1. l \in Nat \ {0} /\ l <= MaxInt /\ MaxInt \in Nat /\ MaxInt = IntRange - 1
    BY <1>1, <1>3 DEF MaxInt
  <2>2. Lim(u) = l
    BY <1>1, <1>3 DEF Lim
  <2>3. Divisor(u) = d
    BY <2>1, <2>2 DEF Divisor
  <2>4. d \in Nat /\ d * l <= MaxInt /\ MaxInt < d * l + l
    BY <2>1, Division
  <2> HIDE DEF l, d
  <2>5. d # 0
    BY <2>1, <2>4
  <2>6. l <= d * l /\ d * l \in Nat
    BY <2>1, <2>4, <2>5
  <2>7. d * l <= IntRange /\ IntRange <= 2 * (d * l)
    BY <1>1, <2>1, <2>4, <2>6
  <2> QED BY <2>3, <2>4, <2>5, <2>7 DEF l
<1> QED BY <1>2, <1>3

(* The draws with which the loop of ottery_st_rand_range_nolock returns v  *)
(* are an interval as long as the divisor.                                 *)
LEMMA HitsInterval ==
  ASSUME NEW u \in Numbers, NEW v \in 0..u
  PROVE  Cardinality(Hits(v, u)) = Divisor(u)
<1> DEFINE d == Divisor(u)
<1>1. IntRange \in Nat /\ u \in Nat /\ v \in Nat /\ v <= u
  BY IntRangeParameter DEF Numbers
<1>2. d \in Nat \ {0} /\ d * (u + 1) <= IntRange
  BY DivisorSpec
<1> HIDE DEF d
<1>3. v * d \in Nat /\ v * d + d <= IntRange
  <2>1. v * d + d = (v + 1) * d /\ (v + 1) * d <= (u + 1) * d
    BY <1>1, <1>2
  <2>2. (u + 1) * d = d * (u + 1)
    BY <1>1, <1>2
  <2>3. v * d \in Nat /\ (v + 1) * d \in Nat /\ (u + 1) * d \in Nat
    BY <1>1, <1>2
  <2> QED BY <1>1, <1>2, <2>1, <2>2, <2>3
<1>4. Hits(v, u) = (v * d)..(v * d + d - 1)
  <2>1. \A r \in Nat : r \div d = v <=> v * d <= r /\ r < v * d + d
    BY <1>1, <1>2, DivisionInterval
  <2>2. \A r \in Numbers : r \in Hits(v, u) <=> r \div d = v
    BY <1>1 DEF Hits, Accepting, Accepted, Quotient, d
  <2>3. Hits(v, u) \subseteq Numbers
    BY DEF Hits, Accepting
  <2>4. \A r \in Numbers : r \in Nat
    BY <1>1 DEF Numbers
  <2>5. \A r \in (v * d)..(v * d + d - 1) : r \in Numbers /\ v * d <= r /\ r < v * d + d
    BY <1>1, <1>2, <1>3 DEF Numbers
  <2>6. \A r \in Numbers : v * d <= r /\ r < v * d + d => r \in (v * d)..(v * d + d - 1)
    BY <1>1, <1>2, <1>3 DEF Numbers
  <2> QED BY <2>1, <2>2, <2>3, <2>4, <2>5, <2>6
<1>5. Cardinality((v * d)..(v * d + d - 1)) = d
  <2>1. v * d \in Int /\ v * d + d - 1 \in Int /\ v * d <= v * d + d - 1
    BY <1>2, <1>3
  <2> QED BY <1>2, <1>3, <2>1, FS_Interval
<1> QED BY <1>4, <1>5 DEF d

(* ottery_st_rand_range and range64 return every value up to their bound   *)
(* with the same number of draws, at least one, whatever the bound.        *)
THEOREM EveryBoundUniform == \A u \in Numbers : EquallyLikely(u)
<1> TAKE u \in Numbers
<1>1. \A v \in 0..u : Cardinality(Hits(v, u)) = Divisor(u)
  BY HitsInterval
<1>2. Divisor(u) \in Nat \ {0} /\ 0 \in 0..u
  BY DivisorSpec DEF Numbers
<1> QED BY <1>1, <1>2 DEF EquallyLikely

(* At least half of the draws end the loop of ottery_st_rand_range and     *)
(* range64, whatever the bound.                                            *)
THEOREM EveryBoundLikely == \A u \in Numbers : LikelyAccepted(u)
<1> TAKE u \in Numbers
<1> DEFINE d == Divisor(u)
           m == d * (u + 1)
<1>1. IntRange \in Nat /\ u \in Nat
  BY IntRangeParameter DEF Numbers
<1>2. d \in Nat \ {0} /\ m <= IntRange /\ IntRange <= 2 * m /\ m \in Nat /\ m > 0
  BY <1>1, DivisorSpec
<1>3. \A r \in Nat : r \div d <= u <=> r < m
  <2> TAKE r \in Nat
  <2>1. r \div d \in Nat /\ (r \div d) * d <= r /\ r < (r \div d) * d + d
    BY <1>2, Division
  <2> DEFINE q == r \div d
  <2> HIDE DEF q
  <2>2. q \in Nat /\ q * d <= r /\ r < q * d + d /\ q * d \in Nat
    BY <1>2, <2>1 DEF q
  <2>3. CASE q <= u
    <3>1. q * d + d = (q + 1) * d /\ (q + 1) * d <= (u + 1) * d
      BY <1>1, <1>2, <2>2, <2>3
    <3>2. (u + 1) * d = m
      BY <1>1, <1>2
    <3> QED BY <1>1, <1>2, <2>2, <2>3, <3>1, <3>2 DEF q
  <2>4. CASE ~(q <= u)
    <3>1. (u + 1) * d <= q * d /\ (u + 1) * d = m
      BY <1>1, <1>2, <2>2, <2>4
    <3> QED BY <1>1, <1>2, <2>2, <2>4, <3>1 DEF q
  <2> QED BY <2>3, <2>4
<1> HIDE DEF m, d
<1>4. Accepting(u) = 0..(m - 1)
  <2>1. Accepting(u) = {r \in Numbers : r \div d <= u}
    BY DEF Accepting, Accepted, Quotient, d
  <2> QED BY <1>1, <1>2, <1>3, <2>1 DEF Numbers
<1>5. Cardinality(0..(m - 1)) = m
  BY <1>2, FS_Interval
<1> QED BY <1>2, <1>4, <1>5 DEF LikelyAccepted
=============================================================================
