---------------------------- MODULE OtteryChaCha ----------------------------
(***************************************************************************)
(* The two implementations of ChaCha behind struct ottery_prf: the         *)
(* portable one (chacha_merged.c) and the one that computes several blocks *)
(* at once in vector registers (chacha_krovetz.c), as operators.           *)
(*                                                                         *)
(* A ChaCha state is a function from 0..15 to words; key material is ten   *)
(* words, eight of key and two of nonce (both files read them in           *)
(* little-endian order).  The xor and the rotation of words are the        *)
(* machine's, and the width of a word is a parameter.                      *)
(***************************************************************************)
EXTENDS Integers, Sequences

CONSTANTS
  Words,        (* the number of words: 2^32                               *)
  Xor(_, _),    (* ^                                                       *)
  Rotl(_, _)    (* rotation to the left by so many bits                    *)

ASSUME WordsParameter == Words \in Nat \ {0}

Word == 0..(Words - 1)

Plus(v, w) == (v + w) % Words

(* The four words of "expand 32-byte k", cut to the width of a word.       *)
Sigma(i) == <<1634760805, 857760878, 2036477234, 1797285236>>[i + 1] % Words

(* QUARTERROUND and QROUND_WORDS, and one lane of half a DQROUND_VECTORS.  *)
QuarterRound(a, b, c, d) ==
  LET a1 == Plus(a, b)     d1 == Rotl(Xor(d, a1), 16)
      c1 == Plus(c, d1)    b1 == Rotl(Xor(b, c1), 12)
      a2 == Plus(a1, b1)   d2 == Rotl(Xor(d1, a2), 8)
      c2 == Plus(c1, d2)   b2 == Rotl(Xor(b1, c2), 7)
  IN  <<a2, b2, c2, d2>>

-----------------------------------------------------------------------------
(* One word at a time.                                                     *)

(* x is a ChaCha state: a function from 0..15.                             *)
IsState(x) == x = [w \in 0..15 |-> x[w]]

(* A quarter round on words a, b, c and d of x.                            *)
At(x, a, b, c, d) ==
  LET q == QuarterRound(x[a], x[b], x[c], x[d])
  IN  [x EXCEPT ![a] = q[1], ![b] = q[2], ![c] = q[3], ![d] = q[4]]

(* A quarter round changes its four words and no other.                    *)
Changes(x, y, a, b, c, d) ==
  LET q == QuarterRound(x[a], x[b], x[c], x[d])
  IN  /\ IsState(y)
      /\ y[a] = q[1] /\ y[b] = q[2] /\ y[c] = q[3] /\ y[d] = q[4]
      /\ \A w \in (0..15) \ {a, b, c, d} : y[w] = x[w]

(* At does just that to words in different rows (a fact for the proofs     *)
(* about DoubleRound, which need not expand At after this).                *)
LEMMA AtChanges ==
  ASSUME NEW x, IsState(x), NEW a \in 0..3, NEW b \in 4..7,
         NEW c \in 8..11, NEW d \in 12..15
  PROVE  Changes(x, At(x, a, b, c, d), a, b, c, d)
<1>1. a \in 0..15 /\ b \in 0..15 /\ c \in 0..15 /\ d \in 0..15
  OBVIOUS
<1>2. a # b /\ a # c /\ a # d /\ b # c /\ b # d /\ c # d
  OBVIOUS
<1>3. QED
  BY <1>1, <1>2 DEF At, IsState, Changes

DoubleRound(x) ==
  LET x1 == At(x,  0, 4,  8, 12)   x2 == At(x1, 1, 5,  9, 13)
      x3 == At(x2, 2, 6, 10, 14)   x4 == At(x3, 3, 7, 11, 15)
      x5 == At(x4, 0, 5, 10, 15)   x6 == At(x5, 1, 6, 11, 12)
      x7 == At(x6, 2, 7,  8, 13)
  IN  At(x7, 3, 4, 9, 14)

(* The rounds of one block, and the input added to what they give.         *)
WordBlock(rounds, x) ==
  LET after[i \in 0..(rounds \div 2)] ==
        IF i = 0 THEN x ELSE DoubleRound(after[i - 1])
      y == after[rounds \div 2]
  IN  [w \in 0..15 |-> Plus(y[w], x[w])]

(* The input of block n: constants, key, a 32-bit block number with a zero *)
(* above it, nonce.                                                        *)
Input(bytes, n) ==
  [w \in 0..15 |-> CASE w < 4   -> Sigma(w)
                     [] w = 12  -> n % Words
                     [] w = 13  -> 0
                     [] w >= 14 -> bytes[w - 6]
                     [] OTHER   -> bytes[w - 4]]

(* What the layer above expects of every implementation: block n of the    *)
(* stream of a key, the ChaCha function itself.                            *)
ReferenceBlock(rounds, bytes, n) == WordBlock(rounds, Input(bytes, n))

-----------------------------------------------------------------------------
(* chacha_merged.c.                                                        *)

MERGED_IDX_STEP == 16

(* ECRYPT_keysetup and ECRYPT_ivsetup make the input with counter 0;       *)
(* generate sets input[12] and getblocks counts on from there in j12.      *)
MergedGenerate(rounds, bytes, idx) ==
  LET j12 == (idx * MERGED_IDX_STEP) % Words
  IN  [k \in 0..(MERGED_IDX_STEP - 1) |->
         WordBlock(rounds, [Input(bytes, 0) EXCEPT ![12] = Plus(j12, k)])]

-----------------------------------------------------------------------------
(* chacha_krovetz.c.  A vector has four lanes; s0 to s3 are the rows of    *)
(* the input.  A build computes vbpi blocks in vector registers and gpr    *)
(* (0 or 1) blocks in general registers per iteration.                     *)

LOOP_ITERATIONS == 4
Bpi(vbpi, gpr)  == vbpi + gpr
KROVETZ_IDX_STEP(vbpi, gpr) == Bpi(vbpi, gpr) * LOOP_ITERATIONS

(* ROTV1, ROTV2, ROTV3: by n lanes.                                        *)
Rotv(v, n) == [i \in 1..4 |-> v[((i + n - 1) % 4) + 1]]

(* The vector additions, xors and word rotations of half a round work on   *)
(* each lane alone.                                                        *)
LaneRounds(a, b, c, d) ==
  LET p == QuarterRound(a[1], b[1], c[1], d[1])
      q == QuarterRound(a[2], b[2], c[2], d[2])
      r == QuarterRound(a[3], b[3], c[3], d[3])
      s == QuarterRound(a[4], b[4], c[4], d[4])
      row(i) == <<p[i], q[i], r[i], s[i]>>
  IN  <<row(1), row(2), row(3), row(4)>>

DQRoundVectors(v) ==
  LET h == LaneRounds(v[1], v[2], v[3], v[4])
      d == LaneRounds(h[1], Rotv(h[2], 1), Rotv(h[3], 2), Rotv(h[4], 3))
  IN  <<d[1], Rotv(d[2], 3), Rotv(d[3], 2), Rotv(d[4], 1)>>

(* NONCE: the block number in the first lane, the nonce in the last two.   *)
Nonce(bytes, ctr) == <<ctr, 0, bytes[8], bytes[9]>>

(* The rows at the start: s0 to s2 are never changed, s3 counts.           *)
Rows(bytes, s3) ==
  <<<<Sigma(0), Sigma(1), Sigma(2), Sigma(3)>>,
    <<bytes[0], bytes[1], bytes[2], bytes[3]>>,
    <<bytes[4], bytes[5], bytes[6], bytes[7]>>, s3>>

(* s3 after n times s3 += ONE: only the first lane counts, with no carry.  *)
PlusOnes(s3, n) == [s3 EXCEPT ![1] = Plus(@, n)]

(* The rounds on the rows, the rows added at the end, the WRITE.           *)
VectorBlock(rounds, bytes, s3) ==
  LET s == Rows(bytes, s3)
      after[i \in 0..(rounds \div 2)] ==
        IF i = 0 THEN s ELSE DQRoundVectors(after[i - 1])
      v == after[rounds \div 2]
      lane(rows, w) == rows[w \div 4 + 1][(w % 4) + 1]
  IN  [w \in 0..15 |-> Plus(lane(v, w), lane(s, w))]

(* mutant of S3At: no s3 += ONE for the block in general registers         *)
S3AtVectorsOnly(bytes, block_idx, vbpi, gpr, j) ==
  PlusOnes(Nonce(bytes, block_idx), vbpi * j)

(* s3 at the start of iteration j: each earlier one added ONE per block.   *)
S3At(bytes, block_idx, vbpi, gpr, j) ==
  PlusOnes(Nonce(bytes, block_idx), Bpi(vbpi, gpr) * j)

(* ottery_blocks_chacha_krovetz: block k is the b-th of iteration j.  The  *)
(* last one of an iteration may be computed in general registers, with a   *)
(* counter of its own (x_ctr, a sum of 32-bit numbers, so x13 is 0).       *)
KrovetzBlocks(rounds, bytes, block_idx, vbpi, gpr) ==
  [k \in 0..(KROVETZ_IDX_STEP(vbpi, gpr) - 1) |->
     LET j == k \div Bpi(vbpi, gpr)
         b == k % Bpi(vbpi, gpr)
     IN  IF b < vbpi
         THEN VectorBlock(rounds, bytes,
                          PlusOnes(S3At(bytes, block_idx, vbpi, gpr, j), b))
         ELSE WordBlock(rounds,
                        Input(bytes, block_idx + Bpi(vbpi, gpr) * j
                                       + (Bpi(vbpi, gpr) - 1)))]

KrovetzGenerate(rounds, bytes, idx, vbpi, gpr) ==
  KrovetzBlocks(rounds, bytes, (idx * KROVETZ_IDX_STEP(vbpi, gpr)) % Words,
                vbpi, gpr)
=============================================================================
