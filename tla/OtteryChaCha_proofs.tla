------------------------ MODULE OtteryChaCha_proofs ------------------------
(***************************************************************************)
(* The generate functions of chacha_krovetz.c and chacha_merged.c write    *)
(* the same stream, the blocks of the ChaCha function in order.  The       *)
(* double round on four vectors with their lanes rotated is the double     *)
(* round on words; so are any number of rounds; and both files count       *)
(* blocks alike: for any width of words, and whatever xor and rotation of  *)
(* words do.                                                               *)
(***************************************************************************)
EXTENDS OtteryChaCha, WellFoundedInduction, TLAPS

-----------------------------------------------------------------------------
(* One double round.                                                       *)

(* The four vectors of a state.                                            *)
RowsOf(x) ==
  <<<<x[0], x[1], x[2], x[3]>>, <<x[4], x[5], x[6], x[7]>>,
    <<x[8], x[9], x[10], x[11]>>, <<x[12], x[13], x[14], x[15]>>>>

(* y is x after four quarter rounds on the words numbered a[i], b[i], c[i] *)
(* and d[i], where a[i] is i.                                              *)
Rounded(x, y, b0, b1, b2, b3, c0, c1, c2, c3, d0, d1, d2, d3) ==
  LET p == QuarterRound(x[0], x[b0], x[c0], x[d0])
      q == QuarterRound(x[1], x[b1], x[c1], x[d1])
      r == QuarterRound(x[2], x[b2], x[c2], x[d2])
      s == QuarterRound(x[3], x[b3], x[c3], x[d3])
  IN  /\ y[0] = p[1] /\ y[b0] = p[2] /\ y[c0] = p[3] /\ y[d0] = p[4]
      /\ y[1] = q[1] /\ y[b1] = q[2] /\ y[c1] = q[3] /\ y[d1] = q[4]
      /\ y[2] = r[1] /\ y[b2] = r[2] /\ y[c2] = r[3] /\ y[d2] = r[4]
      /\ y[3] = s[1] /\ y[b3] = s[2] /\ y[c3] = s[3] /\ y[d3] = s[4]
      /\ IsState(y)

(* Quarter rounds on disjoint words do not disturb one another.            *)
LEMMA FourRounds ==
  ASSUME NEW x, IsState(x),
         NEW b0 \in 4..7, NEW b1 \in 4..7, NEW b2 \in 4..7, NEW b3 \in 4..7,
         b0 # b1, b0 # b2, b0 # b3, b1 # b2, b1 # b3, b2 # b3,
         NEW c0 \in 8..11, NEW c1 \in 8..11, NEW c2 \in 8..11, NEW c3 \in 8..11,
         c0 # c1, c0 # c2, c0 # c3, c1 # c2, c1 # c3, c2 # c3,
         NEW d0 \in 12..15, NEW d1 \in 12..15, NEW d2 \in 12..15, NEW d3 \in 12..15,
         d0 # d1, d0 # d2, d0 # d3, d1 # d2, d1 # d3, d2 # d3
  PROVE  Rounded(x, At(At(At(At(x, 0, b0, c0, d0), 1, b1, c1, d1),
                          2, b2, c2, d2), 3, b3, c3, d3),
                 b0, b1, b2, b3, c0, c1, c2, c3, d0, d1, d2, d3)
<1>y. PICK y1, y2, y3, y4 :
        /\ y1 = At(x, 0, b0, c0, d0)  /\ y2 = At(y1, 1, b1, c1, d1)
        /\ y3 = At(y2, 2, b2, c2, d2) /\ y4 = At(y3, 3, b3, c3, d3)
  OBVIOUS
<1>q. PICK p, q, r, s :
        /\ p = QuarterRound(x[0], x[b0], x[c0], x[d0])
        /\ q = QuarterRound(x[1], x[b1], x[c1], x[d1])
        /\ r = QuarterRound(x[2], x[b2], x[c2], x[d2])
        /\ s = QuarterRound(x[3], x[b3], x[c3], x[d3])
  OBVIOUS
<1>0. 0 \in 0..3 /\ 1 \in 0..3 /\ 2 \in 0..3 /\ 3 \in 0..3
  OBVIOUS
<1>1. Changes(x, y1, 0, b0, c0, d0)
  BY <1>y, <1>0, AtChanges
<1>1s. IsState(y1)
  BY <1>1 DEF Changes
<1>2. Changes(y1, y2, 1, b1, c1, d1)
  BY <1>y, <1>0, <1>1s, AtChanges
<1>2s. IsState(y2)
  BY <1>2 DEF Changes
<1>3. Changes(y2, y3, 2, b2, c2, d2)
  BY <1>y, <1>0, <1>2s, AtChanges
<1>3s. IsState(y3)
  BY <1>3 DEF Changes
<1>4. Changes(y3, y4, 3, b3, c3, d3)
  BY <1>y, <1>0, <1>3s, AtChanges
<1>4s. IsState(y4)
  BY <1>4 DEF Changes
<1>5. y4[0] = p[1] /\ y4[b0] = p[2] /\ y4[c0] = p[3] /\ y4[d0] = p[4]
  <2>1. y1[0] = p[1] /\ y1[b0] = p[2] /\ y1[c0] = p[3] /\ y1[d0] = p[4]
    BY <1>q, <1>1 DEF Changes
  <2>2. y2[0] = y1[0] /\ y2[b0] = y1[b0] /\ y2[c0] = y1[c0] /\ y2[d0] = y1[d0]
    BY <1>2 DEF Changes
  <2>3. y3[0] = y2[0] /\ y3[b0] = y2[b0] /\ y3[c0] = y2[c0] /\ y3[d0] = y2[d0]
    BY <1>3 DEF Changes
  <2>4. y4[0] = y3[0] /\ y4[b0] = y3[b0] /\ y4[c0] = y3[c0] /\ y4[d0] = y3[d0]
    BY <1>4 DEF Changes
  <2> QED
    BY <2>1, <2>2, <2>3, <2>4
<1>6. y4[1] = q[1] /\ y4[b1] = q[2] /\ y4[c1] = q[3] /\ y4[d1] = q[4]
  <2>1. y1[1] = x[1] /\ y1[b1] = x[b1] /\ y1[c1] = x[c1] /\ y1[d1] = x[d1]
    BY <1>1 DEF Changes
  <2>2. y2[1] = q[1] /\ y2[b1] = q[2] /\ y2[c1] = q[3] /\ y2[d1] = q[4]
    BY <1>q, <1>2, <2>1 DEF Changes
  <2>3. y3[1] = y2[1] /\ y3[b1] = y2[b1] /\ y3[c1] = y2[c1] /\ y3[d1] = y2[d1]
    BY <1>3 DEF Changes
  <2>4. y4[1] = y3[1] /\ y4[b1] = y3[b1] /\ y4[c1] = y3[c1] /\ y4[d1] = y3[d1]
    BY <1>4 DEF Changes
  <2> QED
    BY <2>2, <2>3, <2>4
<1>7. y4[2] = r[1] /\ y4[b2] = r[2] /\ y4[c2] = r[3] /\ y4[d2] = r[4]
  <2>1. y1[2] = x[2] /\ y1[b2] = x[b2] /\ y1[c2] = x[c2] /\ y1[d2] = x[d2]
    BY <1>1 DEF Changes
  <2>2. y2[2] = y1[2] /\ y2[b2] = y1[b2] /\ y2[c2] = y1[c2] /\ y2[d2] = y1[d2]
    BY <1>2 DEF Changes
  <2>3. y3[2] = r[1] /\ y3[b2] = r[2] /\ y3[c2] = r[3] /\ y3[d2] = r[4]
    BY <1>q, <1>3, <2>1, <2>2 DEF Changes
  <2>4. y4[2] = y3[2] /\ y4[b2] = y3[b2] /\ y4[c2] = y3[c2] /\ y4[d2] = y3[d2]
    BY <1>4 DEF Changes
  <2> QED
    BY <2>3, <2>4
<1>8. y4[3] = s[1] /\ y4[b3] = s[2] /\ y4[c3] = s[3] /\ y4[d3] = s[4]
  <2>1. y1[3] = x[3] /\ y1[b3] = x[b3] /\ y1[c3] = x[c3] /\ y1[d3] = x[d3]
    BY <1>1 DEF Changes
  <2>2. y2[3] = y1[3] /\ y2[b3] = y1[b3] /\ y2[c3] = y1[c3] /\ y2[d3] = y1[d3]
    BY <1>2 DEF Changes
  <2>3. y3[3] = y2[3] /\ y3[b3] = y2[b3] /\ y3[c3] = y2[c3] /\ y3[d3] = y2[d3]
    BY <1>3 DEF Changes
  <2>4. y4[3] = s[1] /\ y4[b3] = s[2] /\ y4[c3] = s[3] /\ y4[d3] = s[4]
    BY <1>q, <1>4, <2>1, <2>2, <2>3 DEF Changes
  <2> QED
    BY <2>4
<1>9. QED
  BY <1>y, <1>q, <1>4s, <1>5, <1>6, <1>7, <1>8 DEF Rounded

(* The additions, xors and rotations of DQROUND_VECTORS, with the lanes    *)
(* moved so that the diagonals of the state stand above one another, do    *)
(* what the eight quarter rounds do: so chacha_krovetz.c and               *)
(* chacha_merged.c compute the same function of the state, one double      *)
(* round at a time.                                                        *)
THEOREM VectorRoundIsWordRound ==
  ASSUME NEW x, IsState(x)
  PROVE  /\ IsState(DoubleRound(x))
         /\ DQRoundVectors(RowsOf(x)) = RowsOf(DoubleRound(x))
<1>1. PICK y : y = At(At(At(At(x, 0, 4, 8, 12), 1, 5, 9, 13), 2, 6, 10, 14), 3, 7, 11, 15)
  OBVIOUS
<1>2. PICK z : z = At(At(At(At(y, 0, 5, 10, 15), 1, 6, 11, 12), 2, 7, 8, 13), 3, 4, 9, 14)
  OBVIOUS
<1>3. DoubleRound(x) = z
  BY <1>1, <1>2 DEF DoubleRound
<1> DEFINE Numbered(S, i, j, k, l) ==
      /\ i \in S /\ j \in S /\ k \in S /\ l \in S
      /\ i # j /\ i # k /\ i # l /\ j # k /\ j # l /\ k # l
<1>n. /\ Numbered(4..7, 4, 5, 6, 7)       /\ Numbered(4..7, 5, 6, 7, 4)
      /\ Numbered(8..11, 8, 9, 10, 11)    /\ Numbered(8..11, 10, 11, 8, 9)
      /\ Numbered(12..15, 12, 13, 14, 15) /\ Numbered(12..15, 15, 12, 13, 14)
  OBVIOUS
<1>4. Rounded(x, y, 4, 5, 6, 7, 8, 9, 10, 11, 12, 13, 14, 15)
  BY <1>1, <1>n, FourRounds, Zenon
<1>5. Rounded(y, z, 5, 6, 7, 4, 10, 11, 8, 9, 15, 12, 13, 14)
  <2>1. IsState(y)
    BY <1>4 DEF Rounded
  <2> QED
    BY <2>1, <1>2, <1>n, FourRounds, Zenon
<1>6. IsState(DoubleRound(x))
  BY <1>3, <1>5 DEF Rounded
<1>7. PICK p, q, r, s :
        /\ p = QuarterRound(x[0], x[4], x[8], x[12])
        /\ q = QuarterRound(x[1], x[5], x[9], x[13])
        /\ r = QuarterRound(x[2], x[6], x[10], x[14])
        /\ s = QuarterRound(x[3], x[7], x[11], x[15])
  OBVIOUS
<1>8. /\ y[0] = p[1] /\ y[4] = p[2] /\ y[8] = p[3]  /\ y[12] = p[4]
      /\ y[1] = q[1] /\ y[5] = q[2] /\ y[9] = q[3]  /\ y[13] = q[4]
      /\ y[2] = r[1] /\ y[6] = r[2] /\ y[10] = r[3] /\ y[14] = r[4]
      /\ y[3] = s[1] /\ y[7] = s[2] /\ y[11] = s[3] /\ y[15] = s[4]
  BY <1>4, <1>7 DEF Rounded
<1>9. PICK p2, q2, r2, s2 :
        /\ p2 = QuarterRound(p[1], q[2], r[3], s[4])
        /\ q2 = QuarterRound(q[1], r[2], s[3], p[4])
        /\ r2 = QuarterRound(r[1], s[2], p[3], q[4])
        /\ s2 = QuarterRound(s[1], p[2], q[3], r[4])
  OBVIOUS
<1>10. /\ z[0] = p2[1] /\ z[5] = p2[2] /\ z[10] = p2[3] /\ z[15] = p2[4]
       /\ z[1] = q2[1] /\ z[6] = q2[2] /\ z[11] = q2[3] /\ z[12] = q2[4]
       /\ z[2] = r2[1] /\ z[7] = r2[2] /\ z[8] = r2[3]  /\ z[13] = r2[4]
       /\ z[3] = s2[1] /\ z[4] = s2[2] /\ z[9] = s2[3]  /\ z[14] = s2[4]
  BY <1>5, <1>8, <1>9 DEF Rounded
<1>11. LaneRounds(<<x[0], x[1], x[2], x[3]>>, <<x[4], x[5], x[6], x[7]>>,
                  <<x[8], x[9], x[10], x[11]>>, <<x[12], x[13], x[14], x[15]>>) =
         <<<<p[1], q[1], r[1], s[1]>>, <<p[2], q[2], r[2], s[2]>>,
           <<p[3], q[3], r[3], s[3]>>, <<p[4], q[4], r[4], s[4]>>>>
  BY <1>7 DEF LaneRounds
<1>12. LaneRounds(<<p[1], q[1], r[1], s[1]>>, <<q[2], r[2], s[2], p[2]>>,
                  <<r[3], s[3], p[3], q[3]>>, <<s[4], p[4], q[4], r[4]>>) =
         <<<<p2[1], q2[1], r2[1], s2[1]>>, <<p2[2], q2[2], r2[2], s2[2]>>,
           <<p2[3], q2[3], r2[3], s2[3]>>, <<p2[4], q2[4], r2[4], s2[4]>>>>
  BY <1>9 DEF LaneRounds
<1>13. ASSUME NEW t, NEW u, NEW v, NEW w
       PROVE  /\ Rotv(<<t, u, v, w>>, 1) = <<u, v, w, t>>
              /\ Rotv(<<t, u, v, w>>, 2) = <<v, w, t, u>>
              /\ Rotv(<<t, u, v, w>>, 3) = <<w, t, u, v>>
  BY DEF Rotv
<1>14. DQRoundVectors(RowsOf(x)) =
         <<<<p2[1], q2[1], r2[1], s2[1]>>, <<s2[2], p2[2], q2[2], r2[2]>>,
           <<r2[3], s2[3], p2[3], q2[3]>>, <<q2[4], r2[4], s2[4], p2[4]>>>>
  <2>1. /\ Rotv(<<p[2], q[2], r[2], s[2]>>, 1) = <<q[2], r[2], s[2], p[2]>>
        /\ Rotv(<<p[3], q[3], r[3], s[3]>>, 2) = <<r[3], s[3], p[3], q[3]>>
        /\ Rotv(<<p[4], q[4], r[4], s[4]>>, 3) = <<s[4], p[4], q[4], r[4]>>
    BY <1>13
  <2>2. /\ Rotv(<<p2[2], q2[2], r2[2], s2[2]>>, 3) = <<s2[2], p2[2], q2[2], r2[2]>>
        /\ Rotv(<<p2[3], q2[3], r2[3], s2[3]>>, 2) = <<r2[3], s2[3], p2[3], q2[3]>>
        /\ Rotv(<<p2[4], q2[4], r2[4], s2[4]>>, 1) = <<q2[4], r2[4], s2[4], p2[4]>>
    BY <1>13
  <2>3. PICK v : v = RowsOf(x)
    OBVIOUS
  <2>4. PICK h : h = LaneRounds(v[1], v[2], v[3], v[4])
    OBVIOUS
  <2>5. PICK d : d = LaneRounds(h[1], Rotv(h[2], 1), Rotv(h[3], 2), Rotv(h[4], 3))
    OBVIOUS
  <2>6. DQRoundVectors(v) = <<d[1], Rotv(d[2], 3), Rotv(d[3], 2), Rotv(d[4], 1)>>
    BY <2>4, <2>5 DEF DQRoundVectors
  <2>7. /\ v[1] = <<x[0], x[1], x[2], x[3]>>   /\ v[2] = <<x[4], x[5], x[6], x[7]>>
        /\ v[3] = <<x[8], x[9], x[10], x[11]>> /\ v[4] = <<x[12], x[13], x[14], x[15]>>
    BY <2>3 DEF RowsOf
  <2>8. /\ h[1] = <<p[1], q[1], r[1], s[1]>> /\ h[2] = <<p[2], q[2], r[2], s[2]>>
        /\ h[3] = <<p[3], q[3], r[3], s[3]>> /\ h[4] = <<p[4], q[4], r[4], s[4]>>
    BY <2>4, <2>7, <1>11
  <2>9. /\ d[1] = <<p2[1], q2[1], r2[1], s2[1]>> /\ d[2] = <<p2[2], q2[2], r2[2], s2[2]>>
        /\ d[3] = <<p2[3], q2[3], r2[3], s2[3]>> /\ d[4] = <<p2[4], q2[4], r2[4], s2[4]>>
    <3>1. d = LaneRounds(<<p[1], q[1], r[1], s[1]>>, <<q[2], r[2], s[2], p[2]>>,
                         <<r[3], s[3], p[3], q[3]>>, <<s[4], p[4], q[4], r[4]>>)
      BY <2>5, <2>8, <2>1, Zenon
    <3> QED
      BY <3>1, <1>12
  <2> QED
    BY <2>2, <2>3, <2>6, <2>9
<1>15. RowsOf(z) =
         <<<<p2[1], q2[1], r2[1], s2[1]>>, <<s2[2], p2[2], q2[2], r2[2]>>,
           <<r2[3], s2[3], p2[3], q2[3]>>, <<q2[4], r2[4], s2[4], p2[4]>>>>
  BY <1>10 DEF RowsOf
<1>16. QED
  BY <1>3, <1>6, <1>14, <1>15

-----------------------------------------------------------------------------
(* Any number of rounds.                                                   *)

(* Induction, in the form the provers can use: a nonempty set of naturals  *)
(* has a least element.                                                    *)
LEMMA LeastNatural ==
  ASSUME NEW T, T \subseteq Nat, T # {}
  PROVE  \E x \in T : \A y \in T : x <= y
<1> DEFINE R == OpToRel(<, Nat)
<1>1. IsWellFoundedOn(R, Nat)
  BY NatLessThanWellFounded
<1>2. R = {ss \in Nat \X Nat : ss[1] < ss[2]}
  BY DEF OpToRel
<1> HIDE DEF R
<1>3. PICK x \in T : \A y \in T : ~(<<y, x>> \in R)
  BY <1>1, WFMin
<1>4. ASSUME NEW y \in T PROVE x <= y
  <2>1. ~(<<y, x>> \in R) /\ y \in Nat /\ x \in Nat
    BY <1>3
  <2> QED BY <1>2, <2>1
<1> QED BY <1>3, <1>4

(* f has the states between the double rounds, m of them, from x on; and   *)
(* so for vectors.                                                         *)
WordRounds(f, x, m) ==
  f = [i \in 0..m |-> IF i = 0 THEN x ELSE DoubleRound(f[i - 1])]

VectorRounds(g, s, m) ==
  g = [i \in 0..m |-> IF i = 0 THEN s ELSE DQRoundVectors(g[i - 1])]

(* There is such an f for every number of rounds.                          *)
LEMMA RoundsExist ==
  ASSUME NEW x, NEW m \in Nat
  PROVE  \E f : WordRounds(f, x, m)
<1> DEFINE T == {k \in Nat : ~\E f : WordRounds(f, x, k)}
<1> SUFFICES ASSUME T # {} PROVE FALSE
  OBVIOUS
<1>1. PICK k \in T : \A y \in T : k <= y
  <2>1. T \subseteq Nat
    OBVIOUS
  <2> HIDE DEF T
  <2> QED BY <2>1, LeastNatural
<1>2. k \in Nat /\ ~\E f : WordRounds(f, x, k)
  OBVIOUS
<1>3. CASE k = 0
  <2> DEFINE f == [i \in 0..0 |-> x]
  <2>1. WordRounds(f, x, 0)
    BY DEF WordRounds
  <2> QED BY <1>2, <1>3, <2>1
<1>4. CASE k # 0
  <2>1. k - 1 \in Nat /\ k - 1 \notin T
    BY <1>1, <1>2, <1>4
  <2>2. PICK f : WordRounds(f, x, k - 1)
    BY <2>1
  <2> DEFINE g == [i \in 0..k |-> IF i = k THEN DoubleRound(f[k - 1]) ELSE f[i]]
  <2>3. ASSUME NEW i \in 0..k
        PROVE  g[i] = IF i = 0 THEN x ELSE DoubleRound(g[i - 1])
    <3>1. CASE i = k
      <4>1. i - 1 \in 0..k /\ i - 1 # k /\ i # 0
        BY <1>2, <1>4, <3>1
      <4>2. g[i - 1] = f[k - 1] /\ g[i] = DoubleRound(f[k - 1])
        BY <3>1, <4>1
      <4> QED BY <4>1, <4>2
    <3>2. CASE i # k
      <4>1. i \in 0..(k - 1) /\ g[i] = f[i]
        BY <1>2, <3>2
      <4>2. f[i] = IF i = 0 THEN x ELSE DoubleRound(f[i - 1])
        BY <2>2, <4>1 DEF WordRounds
      <4>3. i # 0 => i - 1 \in 0..k /\ i - 1 # k
        BY <1>2, <3>2
      <4>4. i # 0 => g[i - 1] = f[i - 1]
        BY <4>3
      <4> HIDE DEF g
      <4> QED BY <4>1, <4>2, <4>4
    <3> QED BY <3>1, <3>2
  <2>4. g = [i \in 0..k |-> g[i]]
    OBVIOUS
  <2> HIDE DEF g
  <2>5. WordRounds(g, x, k)
    BY <2>3, <2>4 DEF WordRounds
  <2> QED BY <1>2, <2>5
<1> QED BY <1>3, <1>4

(* And so the vectors of the double rounds, as they are its rows.           *)
LEMMA VectorRoundsExist ==
  ASSUME NEW x, IsState(x), NEW m \in Nat, NEW f, WordRounds(f, x, m)
  PROVE  \E g : VectorRounds(g, RowsOf(x), m)
<1> DEFINE T == {i \in 0..m : ~IsState(f[i])}
<1>1. ASSUME T # {} PROVE FALSE
  <2>1. PICK k \in T : \A y \in T : k <= y
    <3>1. T \subseteq Nat
      OBVIOUS
    <3> HIDE DEF T
    <3> QED BY <1>1, <3>1, LeastNatural
  <2>2. k \in 0..m /\ ~IsState(f[k])
    OBVIOUS
  <2>3. f[k] = IF k = 0 THEN x ELSE DoubleRound(f[k - 1])
    BY <2>2 DEF WordRounds
  <2>4. k # 0
    BY <2>2, <2>3
  <2>5. k - 1 \in 0..m /\ k - 1 \notin T
    BY <2>1, <2>2, <2>4
  <2> QED BY <2>2, <2>3, <2>4, <2>5, VectorRoundIsWordRound
<1>2. \A i \in 0..m : IsState(f[i])
  BY <1>1
<1> DEFINE g == [i \in 0..m |-> RowsOf(f[i])]
<1>3. ASSUME NEW i \in 0..m
      PROVE  g[i] = IF i = 0 THEN RowsOf(x) ELSE DQRoundVectors(g[i - 1])
  <2>1. f[i] = IF i = 0 THEN x ELSE DoubleRound(f[i - 1])
    BY DEF WordRounds
  <2>2. CASE i = 0
    BY <2>1, <2>2
  <2>3. CASE i # 0
    <3>1. i - 1 \in 0..m
      BY <2>3
    <3>2. g[i - 1] = RowsOf(f[i - 1]) /\ g[i] = RowsOf(f[i])
      BY <3>1
    <3> HIDE DEF g
    <3> QED BY <1>2, <2>1, <2>3, <3>1, <3>2, VectorRoundIsWordRound
  <2> QED BY <2>2, <2>3
<1>4. g = [i \in 0..m |-> g[i]]
  OBVIOUS
<1> HIDE DEF g
<1>5. VectorRounds(g, RowsOf(x), m)
  BY <1>3, <1>4 DEF VectorRounds
<1> QED BY <1>5

(* Word w of a state is in lane w % 4 of row w \div 4.                       *)
LEMMA RowLanes ==
  ASSUME NEW y, NEW w \in 0..15
  PROVE  RowsOf(y)[w \div 4 + 1][(w % 4) + 1] = y[w]
<1>1. /\ \A v \in 0..15 : \/ v \in {0, 1, 2, 3} \/ v \in {4, 5, 6, 7}
                          \/ v \in {8, 9, 10, 11} \/ v \in {12, 13, 14, 15}
  OBVIOUS
<1>2. CASE w \in {0, 1, 2, 3}
  BY <1>2 DEF RowsOf
<1>3. CASE w \in {4, 5, 6, 7}
  BY <1>3 DEF RowsOf
<1>4. CASE w \in {8, 9, 10, 11}
  BY <1>4 DEF RowsOf
<1>5. CASE w \in {12, 13, 14, 15}
  BY <1>5 DEF RowsOf
<1> QED BY <1>1, <1>2, <1>3, <1>4, <1>5

(* Round by round, the vectors are the rows of the state.                  *)
LEMMA RoundsAgree ==
  ASSUME NEW x, IsState(x), NEW m \in Nat, NEW f, WordRounds(f, x, m),
         NEW g, VectorRounds(g, RowsOf(x), m)
  PROVE  \A i \in 0..m : IsState(f[i]) /\ g[i] = RowsOf(f[i])
<1> DEFINE T == {i \in 0..m : ~(IsState(f[i]) /\ g[i] = RowsOf(f[i]))}
<1> SUFFICES ASSUME T # {} PROVE FALSE
  OBVIOUS
<1>1. PICK k \in T : \A y \in T : k <= y
  <2>1. T \subseteq Nat
    OBVIOUS
  <2> HIDE DEF T
  <2> QED BY <2>1, LeastNatural
<1>2. k \in 0..m /\ ~(IsState(f[k]) /\ g[k] = RowsOf(f[k]))
  OBVIOUS
<1>3. /\ f[k] = IF k = 0 THEN x ELSE DoubleRound(f[k - 1])
      /\ g[k] = IF k = 0 THEN RowsOf(x) ELSE DQRoundVectors(g[k - 1])
  BY <1>2 DEF WordRounds, VectorRounds
<1>4. k # 0
  BY <1>2, <1>3
<1>5. k - 1 \in 0..m /\ k - 1 \notin T
  BY <1>1, <1>2, <1>4
<1>6. IsState(f[k - 1]) /\ g[k - 1] = RowsOf(f[k - 1])
  BY <1>5
<1> QED BY <1>2, <1>3, <1>4, <1>6, VectorRoundIsWordRound

-----------------------------------------------------------------------------
(* Counting blocks.                                                        *)

(* Remainders.                                                             *)
LEMMA Remainder ==
  ASSUME NEW a \in Nat, NEW w \in Nat \ {0}
  PROVE  /\ a % w \in 0..(w - 1)
         /\ \E q \in Nat : a = q * w + (a % w)
<1>1. a % w \in 0..(w - 1) /\ a \div w \in Nat
  OBVIOUS
<1>2. a = w * (a \div w) + (a % w)
  OBVIOUS
<1>3. w * (a \div w) = (a \div w) * w
  BY <1>1
<1> QED BY <1>1, <1>2, <1>3

LEMMA RemainderIs ==
  ASSUME NEW w \in Nat \ {0}, NEW q \in Nat, NEW r \in 0..(w - 1)
  PROVE  (q * w + r) % w = r
<1> DEFINE a == q * w + r
<1>1. a \in Nat
  OBVIOUS
<1> HIDE DEF a
<1>2. PICK p \in Nat : a = p * w + (a % w)
  BY <1>1, Remainder
<1>3. a % w \in 0..(w - 1)
  BY <1>1, Remainder
<1>4. PICK s \in 0..(w - 1) : s = a % w
  BY <1>3
<1>5. q * w + r = p * w + s
  BY <1>2, <1>4 DEF a
<1>6. ~(p < q)
  <2>1. ASSUME p < q PROVE FALSE
    <3>1. p + 1 <= q
      BY <2>1
    <3>2. (p + 1) * w <= q * w
      BY <3>1
    <3>3. (p + 1) * w = p * w + w
      OBVIOUS
    <3>4. p * w \in Nat /\ q * w \in Nat
      OBVIOUS
    <3> QED BY <1>5, <3>2, <3>3, <3>4
  <2> QED BY <2>1
<1>7. ~(q < p)
  <2>1. ASSUME q < p PROVE FALSE
    <3>1. q + 1 <= p
      BY <2>1
    <3>2. (q + 1) * w <= p * w
      BY <3>1
    <3>3. (q + 1) * w = q * w + w
      OBVIOUS
    <3>4. p * w \in Nat /\ q * w \in Nat
      OBVIOUS
    <3> QED BY <1>5, <3>2, <3>3, <3>4
  <2> QED BY <2>1
<1>8. p = q
  BY <1>6, <1>7
<1>9. q * w \in Nat
  OBVIOUS
<1>10. s = r
  BY <1>5, <1>8, <1>9
<1> QED BY <1>4, <1>10 DEF a

(* Adding to a remainder.                                                  *)
LEMMA RemainderPlus ==
  ASSUME NEW a \in Nat, NEW b \in Nat
  PROVE  Plus(a % Words, b) = (a + b) % Words
<1>1. Words \in Nat \ {0}
  BY WordsParameter
<1>2. PICK q \in Nat, r \in 0..(Words - 1) : r = a % Words /\ a = q * Words + r
  BY <1>1, Remainder
<1>3. PICK p \in Nat, s \in 0..(Words - 1) : s = (r + b) % Words /\ r + b = p * Words + s
  <2>1. r + b \in Nat
    BY <1>1, <1>2
  <2> QED BY <1>1, <2>1, Remainder
<1>4. a + b = (q + p) * Words + s
  <2>1. (q + p) * Words = q * Words + p * Words
    BY <1>1
  <2>2. PICK m \in Nat, n \in Nat : m = q * Words /\ n = p * Words
    BY <1>1
  <2>3. a = m + r /\ r + b = n + s /\ (q + p) * Words = m + n
    BY <1>2, <1>3, <2>1, <2>2
  <2>4. r \in Nat /\ s \in Nat
    BY <1>1
  <2>5. a + b = m + n + s
    BY <2>3, <2>4
  <2> QED BY <2>3, <2>5
<1>5. (a + b) % Words = s
  <2>1. q + p \in Nat
    OBVIOUS
  <2> QED BY <1>1, <1>4, <2>1, RemainderIs
<1> QED BY <1>2, <1>3, <1>5 DEF Plus

(* The functions that the blocks are computed with.                        *)
WordsAt(x, m) == CHOOSE f : WordRounds(f, x, m)

VectorsAt(s, m) == CHOOSE g : VectorRounds(g, s, m)

LEMMA WordBlockChooses ==
  ASSUME NEW rounds, NEW x
  PROVE  WordBlock(rounds, x) =
           [w \in 0..15 |->
              Plus(WordsAt(x, rounds \div 2)[rounds \div 2][w], x[w])]
BY DEF WordBlock, WordRounds, WordsAt

LEMMA VectorBlockChooses ==
  ASSUME NEW rounds, NEW bytes, NEW s3
  PROVE  VectorBlock(rounds, bytes, s3) =
           [w \in 0..15 |->
              Plus(VectorsAt(Rows(bytes, s3), rounds \div 2)[rounds \div 2]
                     [w \div 4 + 1][(w % 4) + 1],
                   Rows(bytes, s3)[w \div 4 + 1][(w % 4) + 1])]
BY DEF VectorBlock, VectorRounds, VectorsAt

(* From a state and from its rows the same block comes out.                *)
LEMMA BlocksAgree ==
  ASSUME NEW rounds \in Nat, NEW x, IsState(x), NEW bytes, NEW s3,
         Rows(bytes, s3) = RowsOf(x)
  PROVE  VectorBlock(rounds, bytes, s3) = WordBlock(rounds, x)
<1>1. PICK m \in Nat : m = rounds \div 2
  OBVIOUS
<1>2. PICK f : f = WordsAt(x, m)
  OBVIOUS
<1>3. WordRounds(f, x, m)
  <2>1. \E h : WordRounds(h, x, m)
    BY RoundsExist
  <2> QED BY <1>2, <2>1 DEF WordsAt
<1>4. PICK g : g = VectorsAt(RowsOf(x), m)
  OBVIOUS
<1>5. VectorRounds(g, RowsOf(x), m)
  <2>1. \E h : VectorRounds(h, RowsOf(x), m)
    BY <1>3, VectorRoundsExist
  <2> QED BY <1>4, <2>1 DEF VectorsAt
<1>6. WordBlock(rounds, x) = [w \in 0..15 |-> Plus(f[m][w], x[w])]
  BY <1>1, <1>2, WordBlockChooses, Zenon
<1>7. VectorBlock(rounds, bytes, s3) =
        [w \in 0..15 |-> Plus(g[m][w \div 4 + 1][(w % 4) + 1],
                              RowsOf(x)[w \div 4 + 1][(w % 4) + 1])]
  BY <1>1, <1>4, VectorBlockChooses, Zenon
<1>8. g[m] = RowsOf(f[m])
  <2>1. m \in 0..m
    OBVIOUS
  <2> QED BY <1>3, <1>5, <2>1, RoundsAgree
<1>9. \A w \in 0..15 : /\ g[m][w \div 4 + 1][(w % 4) + 1] = f[m][w]
                       /\ RowsOf(x)[w \div 4 + 1][(w % 4) + 1] = x[w]
  BY <1>8, RowLanes
<1> QED BY <1>6, <1>7, <1>9

(* The input with v in the place of the block number.                      *)
InputWith(bytes, v) ==
  [w \in 0..15 |-> CASE w < 4   -> Sigma(w)
                     [] w = 12  -> v
                     [] w = 13  -> 0
                     [] w >= 14 -> bytes[w - 6]
                     [] OTHER   -> bytes[w - 4]]

LEMMA InputNumber ==
  ASSUME NEW bytes
  PROVE  /\ \A n : Input(bytes, n) = InputWith(bytes, n % Words)
         /\ \A u, v : [InputWith(bytes, u) EXCEPT ![12] = v] = InputWith(bytes, v)
<1>1. \A n : Input(bytes, n) = InputWith(bytes, n % Words)
  BY DEF Input, InputWith
<1>2. ASSUME NEW u, NEW v PROVE [InputWith(bytes, u) EXCEPT ![12] = v] = InputWith(bytes, v)
  <2>1. PICK x, y, z : /\ x = InputWith(bytes, u) /\ y = InputWith(bytes, v)
                       /\ z = [x EXCEPT ![12] = v]
    OBVIOUS
  <2>2. x = [w \in 0..15 |-> x[w]] /\ y = [w \in 0..15 |-> y[w]]
    BY <2>1 DEF InputWith
  <2>3. y[12] = v /\ \A w \in 0..15 : w # 12 => x[w] = y[w]
    BY <2>1 DEF InputWith
  <2>4. z = [w \in 0..15 |-> IF w = 12 THEN v ELSE x[w]]
    BY <2>1, <2>2
  <2>5. \A w \in 0..15 : z[w] = y[w]
    BY <2>3, <2>4
  <2> QED BY <2>1, <2>2, <2>4, <2>5
<1> QED BY <1>1, <1>2

(* The input of a block depends on its number modulo 2^32 only, and its    *)
(* rows are those that s0 to s3 hold.                                      *)
LEMMA InputRows ==
  ASSUME NEW bytes, NEW n \in Nat
  PROVE  /\ IsState(Input(bytes, n))
         /\ Rows(bytes, Nonce(bytes, n % Words)) = RowsOf(Input(bytes, n))
         /\ \A m \in Nat : m % Words = n % Words => Input(bytes, m) = Input(bytes, n)
<1>1. IsState(Input(bytes, n))
  BY DEF IsState, Input
<1>2. PICK x : x = Input(bytes, n)
  OBVIOUS
<1>3. /\ x[0] = Sigma(0) /\ x[1] = Sigma(1) /\ x[2] = Sigma(2) /\ x[3] = Sigma(3)
      /\ x[4] = bytes[0] /\ x[5] = bytes[1] /\ x[6] = bytes[2] /\ x[7] = bytes[3]
      /\ x[8] = bytes[4] /\ x[9] = bytes[5] /\ x[10] = bytes[6] /\ x[11] = bytes[7]
      /\ x[12] = n % Words /\ x[13] = 0 /\ x[14] = bytes[8] /\ x[15] = bytes[9]
  BY <1>2 DEF Input
<1>4. Rows(bytes, Nonce(bytes, n % Words)) = RowsOf(x)
  BY <1>3 DEF Rows, Nonce, RowsOf
<1>5. ASSUME NEW m \in Nat, m % Words = n % Words PROVE Input(bytes, m) = Input(bytes, n)
  BY <1>5, InputNumber
<1> QED BY <1>1, <1>2, <1>4, <1>5

(* The block that vectors compute with s3 at n is block n.                 *)
LEMMA VectorBlockIsReference ==
  ASSUME NEW rounds \in Nat, NEW bytes, NEW n \in Nat
  PROVE  VectorBlock(rounds, bytes, Nonce(bytes, n % Words)) = ReferenceBlock(rounds, bytes, n)
BY InputRows, BlocksAgree DEF ReferenceBlock

(* s3 += ONE counts blocks.                                                *)
LEMMA PlusOnesCounts ==
  ASSUME NEW bytes, NEW n \in Nat, NEW k \in Nat
  PROVE  PlusOnes(Nonce(bytes, n % Words), k) = Nonce(bytes, (n + k) % Words)
<1>1. PICK v : v = Nonce(bytes, n % Words)
  OBVIOUS
<1>2. PlusOnes(v, k) = [v EXCEPT ![1] = Plus(n % Words, k)]
  BY <1>1 DEF PlusOnes, Nonce
<1>3. [v EXCEPT ![1] = Plus(n % Words, k)] = Nonce(bytes, Plus(n % Words, k))
  BY <1>1 DEF Nonce
<1> QED BY <1>1, <1>2, <1>3, RemainderPlus

(* A number and its place: the b-th of iteration j.                        *)
LEMMA Place ==
  ASSUME NEW k \in Nat, NEW w \in Nat \ {0}
  PROVE  /\ k \div w \in Nat /\ k % w \in 0..(w - 1)
         /\ w * (k \div w) \in Nat
         /\ k = w * (k \div w) + (k % w)
OBVIOUS

(* The step blocks of the ChaCha function from block idx * step on.        *)
ReferenceBlocks(rounds, bytes, idx, step) ==
  [k \in 0..(step - 1) |-> ReferenceBlock(rounds, bytes, idx * step + k)]

(* generate of chacha_krovetz.c writes the blocks from idx times their     *)
(* number on, whichever of them it computes in vectors and whichever in    *)
(* general registers, and also where the 32-bit block number wraps.        *)
THEOREM KrovetzIsReference ==
  ASSUME NEW rounds \in Nat, NEW bytes, NEW idx \in Nat,
         NEW vbpi \in Nat \ {0}, NEW gpr \in {0, 1}
  PROVE  KrovetzGenerate(rounds, bytes, idx, vbpi, gpr) =
           ReferenceBlocks(rounds, bytes, idx, KROVETZ_IDX_STEP(vbpi, gpr))
<1>1. PICK step \in Nat : step = KROVETZ_IDX_STEP(vbpi, gpr)
  BY DEF KROVETZ_IDX_STEP, Bpi, LOOP_ITERATIONS
<1>2. PICK w \in Nat \ {0} : w = Bpi(vbpi, gpr) /\ w = vbpi + gpr
  BY DEF Bpi
<1>3. PICK n \in Nat : n = idx * step
  OBVIOUS
<1>w. Words \in Nat \ {0}
  BY WordsParameter
<1>4. PICK c \in Nat : c = n % Words
  BY <1>w, Remainder
<1>5. KrovetzGenerate(rounds, bytes, idx, vbpi, gpr) =
        [k \in 0..(step - 1) |->
           IF k % w < vbpi
           THEN VectorBlock(rounds, bytes,
                  PlusOnes(PlusOnes(Nonce(bytes, c), w * (k \div w)), k % w))
           ELSE WordBlock(rounds, Input(bytes, c + w * (k \div w) + (w - 1)))]
  BY <1>1, <1>2, <1>3, <1>4, Zenon DEF KrovetzGenerate, KrovetzBlocks, S3At
<1>6. ASSUME NEW k \in 0..(step - 1)
      PROVE  (IF k % w < vbpi
              THEN VectorBlock(rounds, bytes,
                     PlusOnes(PlusOnes(Nonce(bytes, c), w * (k \div w)), k % w))
              ELSE WordBlock(rounds, Input(bytes, c + w * (k \div w) + (w - 1)))) =
             ReferenceBlock(rounds, bytes, n + k)
  <2>1. k \in Nat
    OBVIOUS
  <2>2. PICK b \in 0..(w - 1), d \in Nat : b = k % w /\ d = w * (k \div w) /\ k = d + b
    BY <2>1, Place
  <2>3. n + d \in Nat /\ n + d + b \in Nat /\ n + d + b = n + k /\ b \in Nat
    BY <2>2
  <2>4. PlusOnes(PlusOnes(Nonce(bytes, c), d), b) = Nonce(bytes, (n + k) % Words)
    <3>1. PlusOnes(Nonce(bytes, c), d) = Nonce(bytes, (n + d) % Words)
      BY <1>4, PlusOnesCounts
    <3>2. PlusOnes(Nonce(bytes, (n + d) % Words), b) = Nonce(bytes, (n + d + b) % Words)
      BY <2>3, PlusOnesCounts
    <3> QED BY <2>3, <3>1, <3>2
  <2>5. CASE b < vbpi
    <3>1. n + k \in Nat
      BY <2>3
    <3>2. VectorBlock(rounds, bytes, PlusOnes(PlusOnes(Nonce(bytes, c), d), b)) =
            ReferenceBlock(rounds, bytes, n + k)
      BY <2>4, <3>1, VectorBlockIsReference
    <3> QED BY <2>2, <2>5, <3>2
  <2>6. CASE ~(b < vbpi)
    <3>1. b = w - 1
      BY <1>2, <2>6
    <3>2. c + d + b = c + k /\ c + k \in Nat
      BY <2>2
    <3>3. (c + k) % Words = (n + k) % Words
      BY <1>4, <2>1, RemainderPlus DEF Plus
    <3>4. Input(bytes, c + k) = Input(bytes, n + k)
      BY <2>3, <3>2, <3>3, InputRows
    <3>5. WordBlock(rounds, Input(bytes, c + d + (w - 1))) = ReferenceBlock(rounds, bytes, n + k)
      BY <3>1, <3>2, <3>4 DEF ReferenceBlock
    <3> QED BY <2>2, <2>6, <3>5
  <2> QED BY <2>5, <2>6
<1>7. [k \in 0..(step - 1) |->
           IF k % w < vbpi
           THEN VectorBlock(rounds, bytes,
                  PlusOnes(PlusOnes(Nonce(bytes, c), w * (k \div w)), k % w))
           ELSE WordBlock(rounds, Input(bytes, c + w * (k \div w) + (w - 1)))] =
      [k \in 0..(step - 1) |-> ReferenceBlock(rounds, bytes, n + k)]
  BY <1>6, Zenon
<1> QED BY <1>1, <1>3, <1>5, <1>7 DEF ReferenceBlocks

(* And so does generate of chacha_merged.c, which counts in j12.           *)
THEOREM MergedIsReference ==
  ASSUME NEW rounds, NEW bytes, NEW idx \in Nat
  PROVE  MergedGenerate(rounds, bytes, idx) =
           ReferenceBlocks(rounds, bytes, idx, MERGED_IDX_STEP)
<1>1. PICK n \in Nat : n = idx * MERGED_IDX_STEP
  BY DEF MERGED_IDX_STEP
<1>2. MergedGenerate(rounds, bytes, idx) =
        [k \in 0..(MERGED_IDX_STEP - 1) |->
           WordBlock(rounds, [Input(bytes, 0) EXCEPT ![12] = Plus(n % Words, k)])]
  BY <1>1, Zenon DEF MergedGenerate
<1>3. ASSUME NEW k \in 0..(MERGED_IDX_STEP - 1)
      PROVE  [Input(bytes, 0) EXCEPT ![12] = Plus(n % Words, k)] = Input(bytes, n + k)
  <2>1. k \in Nat
    BY DEF MERGED_IDX_STEP
  <2>2. Plus(n % Words, k) = (n + k) % Words
    BY <2>1, RemainderPlus
  <2>3. Input(bytes, 0) = InputWith(bytes, 0 % Words)
    BY InputNumber
  <2>4. Input(bytes, n + k) = InputWith(bytes, (n + k) % Words)
    BY InputNumber
  <2>5. [InputWith(bytes, 0 % Words) EXCEPT ![12] = (n + k) % Words]
          = InputWith(bytes, (n + k) % Words)
    BY InputNumber
  <2> QED BY <2>2, <2>3, <2>4, <2>5
<1>4. ASSUME NEW k \in 0..(MERGED_IDX_STEP - 1)
      PROVE  WordBlock(rounds, [Input(bytes, 0) EXCEPT ![12] = Plus(n % Words, k)]) =
             ReferenceBlock(rounds, bytes, n + k)
  BY <1>3, Zenon DEF ReferenceBlock
<1>5. [k \in 0..(MERGED_IDX_STEP - 1) |->
         WordBlock(rounds, [Input(bytes, 0) EXCEPT ![12] = Plus(n % Words, k)])] =
      [k \in 0..(MERGED_IDX_STEP - 1) |-> ReferenceBlock(rounds, bytes, n + k)]
  BY <1>4, Zenon
<1> QED BY <1>1, <1>2, <1>5, Zenon DEF ReferenceBlocks
=============================================================================
