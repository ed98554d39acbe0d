------------------------- MODULE OtteryState_proofs -------------------------
(***************************************************************************)
(* Proofs about OtteryState, for every shape of PRF, every set of          *)
(* processes and requests, and any number of calls.                        *)
(***************************************************************************)
EXTENDS OtteryState, OtteryRange_proofs, SequenceTheorems

St == States(Pids \cup {NoPid}, Sources)

(* The bound an idle call record holds is a value of the integer type.     *)
LEMMA ZeroIsNumber == 0 \in Numbers
BY IntRangeParameter DEF Numbers

-----------------------------------------------------------------------------
(* Arithmetic of the stream and of the passes of add_seed.                 *)

(* A block that lies inside the stream is not wrapped.                     *)
LEMMA StreamPosInside ==
  ASSUME NEW c \in Nat, NEW i \in Block, c * OutputLen + OutputLen <= StreamLen
  PROVE  StreamPos(c, i) = c * OutputLen + i
<1>1. c * OutputLen \in Nat
  BY PrfShape
<1>2. ASSUME NEW x \in Nat, x + OutputLen <= StreamLen
      PROVE  (x + i) % StreamLen = x + i
  BY <1>2, PrfShape DEF Block
<1> QED BY <1>1, <1>2 DEF StreamPos

(* A position in the stream of a key (the ChaCha block number and the byte *)
(* in it) is a number.                                                     *)
LEMMA StreamPosType ==
  ASSUME NEW c \in Nat, NEW i \in Nat
  PROVE  StreamPos(c, i) \in Nat
<1>1. c * OutputLen \in Nat
  BY PrfShape
<1>2. ASSUME NEW x \in Nat PROVE (x + i) % StreamLen \in Nat
  BY PrfShape
<1> QED BY <1>1, <1>2 DEF StreamPos

(* The passes of the seeding loop of ottery_st_add_seed_impl are a natural *)
(* number.                                                                 *)
LEMMA PassesType ==
  ASSUME NEW n \in Nat
  PROVE  Passes(n) \in Nat
<1> DEFINE h == StateBytes \div 2
<1>1. h \in Nat /\ h >= 1
  BY PrfShape
<1>2. ASSUME NEW k \in Nat, k >= 1 PROVE (n + k - 1) \div k \in Nat
  BY <1>2
<1> HIDE DEF h
<1>3. (n + h - 1) \div h \in Nat
  BY <1>1, <1>2
<1> QED BY <1>3 DEF Passes, h
-----------------------------------------------------------------------------
(* What the operators of OtteryPrng do to a state.                         *)

(* prf.generate fills the buffer with bytes of the key, at the counter's   *)
(* positions.                                                              *)
LEMMA GenerateType ==
  ASSUME NEW k \in Keys, NEW c \in Nat
  PROVE  /\ Generate(k, c) \in Buffer
         /\ \A i \in Block : /\ Generate(k, c)[i].key = k
                             /\ Generate(k, c)[i].at = StreamPos(c, i)
<1>1. ASSUME NEW i \in Block
      PROVE  /\ [key |-> k, at |-> StreamPos(c, i)] \in Bytes
             /\ Generate(k, c)[i].key = k
             /\ Generate(k, c)[i].at = StreamPos(c, i)
  <2>1. i \in Nat
    BY PrfShape DEF Block
  <2>2. StreamPos(c, i) \in Nat
    BY <2>1, StreamPosType
  <2> QED BY <2>2 DEF Generate, Bytes
<1>2. Generate(k, c) \in Buffer
  BY <1>1 DEF Generate, Buffer
<1> QED BY <1>1, <1>2

(* The zero byte that memset and CLEARBUF leave is a byte.                 *)
LEMMA ZeroType == Zero \in Bytes
<1>1. <<>> \in Seq(Steps)
  OBVIOUS
<1> QED BY <1>1 DEF Zero, Bytes, NoKey, Keys

(* Clearing keeps the type and leaves what is outside the range alone.     *)
LEMMA ClearBufSpec ==
  ASSUME NEW b \in Buffer, NEW from \in Nat, NEW n \in Nat
  PROVE  /\ ClearBuf(b, from, n) \in Buffer
         /\ \A i \in Block : i >= from + n => ClearBuf(b, from, n)[i] = b[i]
<1>1. \A i \in Block : b[i] \in Bytes /\ i \in Nat
  BY PrfShape DEF Buffer, Block
<1>2. CASE ClearAfterYield
  BY <1>1, <1>2, ZeroType DEF ClearBuf, Buffer
<1>3. CASE ~ClearAfterYield
  BY <1>3 DEF ClearBuf
<1> QED BY <1>2, <1>3

(* prf.setup makes a key one rekeying longer than the one whose output it  *)
(* reads.                                                                  *)
LEMMA SetupType ==
  ASSUME NEW b \in Buffer, NEW m \in Mixes
  PROVE  /\ Setup(b, m) \in Keys
         /\ Setup(b, m).seed = b[0].key.seed
         /\ Len(Setup(b, m).path) = Len(b[0].key.path) + 1
         /\ Setup(b, m).path[Len(b[0].key.path) + 1] = [at |-> b[0].at, mix |-> m]
<1>1. b[0] \in Bytes
  BY PrfShape DEF Buffer, Block
<1>2. b[0].key.path \in Seq(Steps) /\ b[0].key.seed \in Nat /\ b[0].at \in Nat
  BY <1>1 DEF Bytes, Keys
<1>3. [at |-> b[0].at, mix |-> m] \in Steps
  BY <1>2 DEF Steps
<1> DEFINE pth == Append(b[0].key.path, [at |-> b[0].at, mix |-> m])
<1>4. /\ pth \in Seq(Steps) /\ Len(pth) = Len(b[0].key.path) + 1
      /\ pth[Len(b[0].key.path) + 1] = [at |-> b[0].at, mix |-> m]
  BY <1>2, <1>3
<1>5. Setup(b, m) = [seed |-> b[0].key.seed, path |-> pth]
  BY DEF Setup
<1> HIDE DEF pth
<1> QED BY <1>2, <1>4, <1>5 DEF Keys

(* A fresh block: the key moves on by one rekeying, and the buffer is      *)
(* output of the key before, at the counter's place in its stream.         *)
LEMMA NextBlockSpec ==
  ASSUME NEW s \in St, Offset(s) + OutputLen <= StreamLen
  PROVE  LET t == NextBlock(s) IN
         /\ t \in St /\ Ready(t)
         /\ t.state.seed = s.state.seed
         /\ PathLen(t) = PathLen(s) + 1
         /\ Base(t) = Offset(s)
         /\ t.pos = StateBytes
         /\ t.magic = s.magic /\ t.pid = s.pid
<1> DEFINE t == NextBlock(s)
           b == Generate(s.state, s.block_counter)
           k == Setup(b, NoMix)
           c == ClearBuf(b, 0, StateBytes)
<1>1. /\ s.state \in Keys /\ s.block_counter \in Nat
      /\ Len(s.state.path) \in Nat /\ Offset(s) \in Nat
  <2>1. s.state \in Keys /\ s.block_counter \in Nat
    BY DEF St, States
  <2>2. s.state.path \in Seq(Steps)
    BY <2>1 DEF Keys
  <2> QED BY <2>1, <2>2, PrfShape DEF Offset
<1>2. /\ b \in Buffer
      /\ \A i \in Block : b[i].key = s.state /\ b[i].at = Offset(s) + i
  <2>1. /\ b \in Buffer
        /\ \A i \in Block : b[i].key = s.state /\ b[i].at = StreamPos(s.block_counter, i)
    BY <1>1, GenerateType
  <2>2. \A i \in Block : StreamPos(s.block_counter, i) = Offset(s) + i
    BY <1>1, StreamPosInside DEF Offset
  <2> HIDE DEF b
  <2> QED BY <2>1, <2>2
<1>3. 0 \in Block
  BY PrfShape DEF Block
<1> HIDE DEF b
<1>4. /\ k \in Keys
      /\ k.seed = s.state.seed
      /\ Len(k.path) = Len(s.state.path) + 1
      /\ k.path[Len(k.path)].at = Offset(s)
  <2>1. NoMix \in Mixes
    BY DEF NoMix, Mixes
  <2>2. b[0].key = s.state /\ b[0].at = Offset(s)
    BY <1>1, <1>2, <1>3
  <2>3. /\ k \in Keys /\ k.seed = b[0].key.seed
        /\ Len(k.path) = Len(b[0].key.path) + 1
        /\ k.path[Len(b[0].key.path) + 1] = [at |-> b[0].at, mix |-> NoMix]
    BY <1>2, <2>1, SetupType
  <2> HIDE DEF k
  <2> QED BY <2>2, <2>3
<1>5. /\ c \in Buffer
      /\ \A i \in Block : i >= StateBytes => c[i] = b[i]
  <2>1. 0 \in Nat /\ StateBytes \in Nat /\ 0 + StateBytes = StateBytes
    BY PrfShape
  <2>2. c \in Buffer /\ \A i \in Block : i >= 0 + StateBytes => c[i] = b[i]
    BY <1>2, <2>1, ClearBufSpec, Zenon
  <2> HIDE DEF c
  <2> QED BY <2>1, <2>2
<1>6. t = [s EXCEPT !.state = k, !.buffer = c, !.block_counter = 0, !.pos = StateBytes]
  <2>1. NextBlockNoRekey(s).buffer = b
    BY DEF NextBlockNoRekey, St, States, b
  <2> QED BY <2>1 DEF NextBlock
<1> HIDE DEF k, c, t
<1>7. /\ t \in St
      /\ t.state = k /\ t.buffer = c /\ t.block_counter = 0 /\ t.pos = StateBytes
      /\ t.magic = s.magic /\ t.pid = s.pid
  <2>1. k \in Keys /\ c \in Buffer /\ StateBytes \in Nat
    BY <1>4, <1>5, PrfShape
  <2> DEFINE u == [s EXCEPT !.state = k, !.buffer = c, !.block_counter = 0, !.pos = StateBytes]
  <2>2. /\ u \in St
        /\ u.state = k /\ u.buffer = c /\ u.block_counter = 0 /\ u.pos = StateBytes
        /\ u.magic = s.magic /\ u.pid = s.pid
    BY <2>1 DEF St, States
  <2>3. t = u
    BY <1>6
  <2> HIDE DEF u
  <2> QED BY <2>2, <2>3
<1>8. PathLen(t) = PathLen(s) + 1 /\ Base(t) = Offset(s)
  BY <1>4, <1>7 DEF PathLen, Base
<1>9. ASSUME NEW i \in StateBytes..(OutputLen - 1)
      PROVE  /\ c[i].key.seed = k.seed
             /\ Len(c[i].key.path) = PathLen(s)
             /\ c[i].at = Offset(s) + i
  <2>1. i \in Block /\ i >= StateBytes
    BY PrfShape DEF Block
  <2>2. c[i].key = s.state /\ c[i].at = Offset(s) + i
    BY <2>1, <1>2, <1>5
  <2> QED BY <2>2, <1>4 DEF PathLen
<1>10. Ready(t)
  <2>1. PathLen(s) \in Nat /\ PathLen(t) - 1 = PathLen(s)
    BY <1>1, <1>8 DEF PathLen
  <2> QED BY <2>1, <1>4, <1>7, <1>8, <1>9, PrfShape DEF Ready
<1> QED BY <1>4, <1>7, <1>8, <1>10 DEF t

-----------------------------------------------------------------------------
(* What a yield does.                                                      *)

(* s can produce output: it is ready, and its key came from a draw.        *)
Live(s) == s \in St /\ Ready(s) /\ s.state.seed # 0

(* The numbers the mark of a state is made of are natural numbers.         *)
LEMMA MarkType ==
  ASSUME NEW s \in St, PathLen(s) >= 1
  PROVE  PathLen(s) \in Nat /\ Base(s) \in Nat /\ s.pos \in Nat
         /\ s.block_counter \in Nat /\ Offset(s) \in Nat
<1>1. s.state \in Keys /\ s.pos \in Nat /\ s.block_counter \in Nat
  BY DEF St, States
<1>2. s.state.path \in Seq(Steps)
  BY <1>1 DEF Keys
<1>3. s.state.path[Len(s.state.path)] \in Steps
  BY <1>2 DEF PathLen
<1>4. Offset(s) \in Nat
  BY <1>1, PrfShape DEF Offset
<1>5. PathLen(s) \in Nat
  BY <1>2 DEF PathLen
<1> QED BY <1>1, <1>3, <1>4, <1>5 DEF PathLen, Base, Steps

(* What is left in the buffer is real output.                              *)
LEMMA UnreadReal ==
  ASSUME NEW s, Live(s), NEW i \in s.pos..(OutputLen - 1)
  PROVE  /\ s.buffer[i] \in RealBytes
         /\ s.buffer[i].key.seed = s.state.seed
         /\ Len(s.buffer[i].key.path) = PathLen(s) - 1
         /\ s.buffer[i].at = Base(s) + i
<1>1. /\ s.buffer[i].key.seed = s.state.seed
      /\ Len(s.buffer[i].key.path) = PathLen(s) - 1
      /\ s.buffer[i].at = Base(s) + i
  BY DEF Live, Ready
<1>2. s.buffer \in Buffer /\ s.pos \in Nat
  BY DEF Live, St, States
<1>3. i \in Block
  BY <1>2, PrfShape DEF Block
<1>4. s.buffer[i] \in Bytes
  BY <1>2, <1>3 DEF Buffer
<1>5. s.buffer[i].key.seed # 0
  BY <1>1 DEF Live
<1>6. s.buffer[i] \in RealBytes
  BY <1>4, <1>5 DEF Bytes, Keys, RealBytes
<1> QED BY <1>1, <1>6

(* Reading n bytes that are in the buffer moves pos and nothing else.      *)
LEMMA AdvanceSpec ==
  ASSUME NEW s, Live(s), NEW from \in Nat, NEW n \in Nat,
         from <= s.pos, s.pos + n < OutputLen
  PROVE  LET t == Advance(s, from, n) IN
         /\ Live(t)
         /\ t.state = s.state /\ PathLen(t) = PathLen(s) /\ Base(t) = Base(s)
         /\ t.pos = s.pos + n
         /\ t.magic = s.magic /\ t.pid = s.pid
<1> DEFINE t == Advance(s, from, n)
           c == ClearBuf(s.buffer, from, n)
<1>1. s \in St /\ s.buffer \in Buffer /\ s.pos \in Nat /\ s.block_counter = 0
  BY DEF Live, St, States, Ready
<1>2. c \in Buffer /\ \A i \in Block : i >= from + n => c[i] = s.buffer[i]
  BY <1>1, ClearBufSpec, Zenon
<1>3. t = [s EXCEPT !.buffer = c, !.pos = s.pos + n]
  BY <1>1 DEF Advance, St, States
<1> HIDE DEF c
<1>4. /\ t \in St /\ t.buffer = c /\ t.pos = s.pos + n /\ t.state = s.state
      /\ t.block_counter = 0 /\ t.magic = s.magic /\ t.pid = s.pid
  <2>1. s.pos + n \in Nat
    BY <1>1
  <2> HIDE DEF t
  <2> QED BY <1>1, <1>2, <1>3, <2>1 DEF St, States
<1> HIDE DEF t
<1>5. PathLen(t) = PathLen(s) /\ Base(t) = Base(s)
  BY <1>4 DEF PathLen, Base
<1>6. ASSUME NEW i \in t.pos..(OutputLen - 1)
      PROVE  /\ i \in s.pos..(OutputLen - 1)
             /\ t.buffer[i] = s.buffer[i]
  <2>1. i \in Block /\ i >= from + n /\ i \in s.pos..(OutputLen - 1)
    BY <1>1, <1>4, PrfShape DEF Block
  <2> QED BY <2>1, <1>2, <1>4
<1>7. StateBytes <= t.pos /\ t.pos < OutputLen /\ PathLen(t) >= 1
  BY <1>1, <1>4, <1>5, PrfShape DEF Live, Ready
<1>8. Ready(t)
  BY <1>4, <1>5, <1>6, <1>7 DEF Live, Ready
<1> QED BY <1>4, <1>5, <1>8 DEF Live, t

(* Reading up to the very end, as ottery_st_rand_uint64 may: what matters  *)
(* is that a fresh block can follow.                                       *)
LEMMA AdvanceType ==
  ASSUME NEW s, Live(s), NEW n \in Nat
  PROVE  LET t == Advance(s, s.pos, n) IN
         /\ t \in St /\ t.state = s.state /\ t.pos = s.pos + n
         /\ t.block_counter = 0 /\ t.magic = s.magic /\ t.pid = s.pid
<1> DEFINE t == Advance(s, s.pos, n)
           c == ClearBuf(s.buffer, s.pos, n)
<1>1. s \in St /\ s.buffer \in Buffer /\ s.pos \in Nat /\ s.block_counter = 0
  BY DEF Live, St, States, Ready
<1>2. c \in Buffer
  BY <1>1, ClearBufSpec, Zenon
<1>3. t = [s EXCEPT !.buffer = c, !.pos = s.pos + n]
  BY <1>1 DEF Advance, St, States
<1>4. s.pos + n \in Nat
  BY <1>1
<1> HIDE DEF c, t
<1>5. /\ t \in St /\ t.state = s.state /\ t.pos = s.pos + n
      /\ t.block_counter = 0 /\ t.magic = s.magic /\ t.pid = s.pid
  BY <1>1, <1>2, <1>3, <1>4 DEF St, States
<1> QED BY <1>5 DEF t

(* y hands out n real bytes of s's seed, all different, that lie between   *)
(* the mark of s and the mark of the state that y leaves.                  *)
Moves(s, op, y, op2, n) ==
  /\ y.st \in St
  /\ y.st.state.seed = s.state.seed
  /\ y.st.magic = s.magic /\ y.st.pid = s.pid
  /\ DOMAIN y.out = 0..(n - 1)
  /\ y.out \in [0..(n - 1) -> RealBytes]
  /\ \A i \in 0..(n - 1) :
       /\ y.out[i].key.seed = s.state.seed
       /\ ~Precedes(y.out[i], MarkLen(s, op), MarkAt(s, op))
       /\ Precedes(y.out[i], MarkLen(y.st, op2), MarkAt(y.st, op2))
  /\ \A i, j \in 0..(n - 1) : y.out[i] = y.out[j] => i = j
  /\ \A b \in RealBytes : Precedes(b, MarkLen(s, op), MarkAt(s, op)) =>
                          Precedes(b, MarkLen(y.st, op2), MarkAt(y.st, op2))

(* The block that a live state refills its buffer with.                    *)
LEMMA FreshBlock ==
  ASSUME NEW s, Live(s)
  PROVE  LET t == NextBlock(s) IN
         /\ Live(t)
         /\ t.state.seed = s.state.seed /\ PathLen(t) = PathLen(s) + 1
         /\ Base(t) = 0 /\ t.pos = StateBytes
         /\ t.magic = s.magic /\ t.pid = s.pid
<1>1. s \in St /\ s.block_counter = 0 /\ s.state.seed # 0
  BY DEF Live, Ready
<1>2. Offset(s) = 0 /\ Offset(s) + OutputLen <= StreamLen
  BY <1>1, PrfShape DEF Offset
<1> QED BY <1>1, <1>2, NextBlockSpec DEF Live

(* Mark (l, a) is at or before mark (l2, a2).                              *)
NotAfter(l, a, l2, a2) == l < l2 \/ (l = l2 /\ a <= a2)

(* The next n unread bytes, when the state that is left, v, marks a point  *)
(* after them.                                                             *)
LEMMA SliceMoves ==
  ASSUME NEW s, Live(s), NEW n \in Nat, s.pos + n <= OutputLen,
         NEW v \in St, NEW op,
         v.state.seed = s.state.seed, v.magic = s.magic, v.pid = s.pid,
         MarkLen(v, op) \in Int, MarkAt(v, op) \in Int,
         NotAfter(PathLen(s) - 1, Base(s) + (s.pos + n), MarkLen(v, op), MarkAt(v, op))
  PROVE  Moves(s, "idle", Yield(v, Slice(s.buffer, s.pos, n)), op, n)
<1> DEFINE out == Slice(s.buffer, s.pos, n)
           y == Yield(v, out)
<1>1. s \in St /\ PathLen(s) >= 1 /\ StateBytes <= s.pos /\ s.pos < OutputLen
  BY DEF Live, Ready
<1>2. PathLen(s) \in Nat /\ Base(s) \in Nat /\ s.pos \in Nat
  BY <1>1, MarkType
<1>3. /\ DOMAIN out = 0..(n - 1)
      /\ \A i \in 0..(n - 1) : out[i] = s.buffer[s.pos + i]
      /\ out = [i \in 0..(n - 1) |-> out[i]]
  BY DEF Slice
<1>4. y.st = v /\ y.out = out
  BY DEF Yield
<1> HIDE DEF out, y
<1>5. ASSUME NEW i \in 0..(n - 1)
      PROVE  /\ out[i] \in RealBytes /\ out[i].key.seed = s.state.seed
             /\ Len(out[i].key.path) = PathLen(s) - 1
             /\ out[i].at = Base(s) + (s.pos + i)
  <2>1. s.pos + i \in s.pos..(OutputLen - 1)
    BY <1>2, PrfShape
  <2> QED BY <1>3, <2>1, UnreadReal
<1>6. out \in [0..(n - 1) -> RealBytes]
  BY <1>3, <1>5
<1>7. MarkLen(s, "idle") = PathLen(s) - 1 /\ MarkAt(s, "idle") = Base(s) + s.pos
  BY DEF MarkLen, MarkAt
<1>8. ASSUME NEW i \in 0..(n - 1)
      PROVE  /\ ~Precedes(out[i], MarkLen(s, "idle"), MarkAt(s, "idle"))
             /\ Precedes(out[i], MarkLen(v, op), MarkAt(v, op))
  <2>1. /\ Len(out[i].key.path) = PathLen(s) - 1
        /\ out[i].at = Base(s) + (s.pos + i)
    BY <1>5
  <2>2. i \in Int /\ 0 <= i /\ i < n
    OBVIOUS
  <2> QED BY <1>2, <1>7, <2>1, <2>2 DEF Precedes, NotAfter
<1>9. ASSUME NEW i \in 0..(n - 1), NEW j \in 0..(n - 1), out[i] = out[j] PROVE i = j
  <2>1. out[i].at = Base(s) + (s.pos + i) /\ out[j].at = Base(s) + (s.pos + j)
    BY <1>5
  <2> QED BY <1>2, <1>9, <2>1
<1>10. ASSUME NEW b \in RealBytes, Precedes(b, MarkLen(s, "idle"), MarkAt(s, "idle"))
       PROVE  Precedes(b, MarkLen(v, op), MarkAt(v, op))
  <2>1. b.at \in Nat /\ b.key.path \in Seq(Steps)
    BY DEF RealBytes
  <2>2. Len(b.key.path) \in Nat
    BY <2>1
  <2> QED BY <1>2, <1>7, <1>10, <2>1, <2>2 DEF Precedes, NotAfter
<1> QED BY <1>3, <1>4, <1>5, <1>6, <1>8, <1>9, <1>10 DEF Moves, y, out

(* What lies after t's mark lies after the mark of an s that marks an      *)
(* earlier point.                                                          *)
LEMMA MovesFrom ==
  ASSUME NEW s \in St, NEW op, NEW t \in St, NEW op1, NEW y, NEW op2, NEW n \in Nat,
         Moves(t, op1, y, op2, n),
         t.state.seed = s.state.seed, t.magic = s.magic, t.pid = s.pid,
         MarkLen(s, op) \in Int, MarkAt(s, op) \in Int,
         MarkLen(t, op1) \in Int, MarkAt(t, op1) \in Int,
         NotAfter(MarkLen(s, op), MarkAt(s, op), MarkLen(t, op1), MarkAt(t, op1))
  PROVE  Moves(s, op, y, op2, n)
<1>1. ASSUME NEW b \in RealBytes, Precedes(b, MarkLen(s, op), MarkAt(s, op))
      PROVE  Precedes(b, MarkLen(t, op1), MarkAt(t, op1))
  <2>1. b.at \in Nat /\ b.key.path \in Seq(Steps)
    BY DEF RealBytes
  <2>2. Len(b.key.path) \in Nat
    BY <2>1
  <2> QED BY <1>1, <2>1, <2>2 DEF Precedes, NotAfter
<1>2. \A i \in 0..(n - 1) : y.out[i] \in RealBytes
  BY DEF Moves
<1> QED BY <1>1, <1>2 DEF Moves

(* ottery_st_rand_bytes_from_buf gives n fresh bytes and leaves a live     *)
(* state, on both branches, if the request fits.                           *)
LEMMA FromBufSpec ==
  ASSUME NEW s, Live(s), NEW n \in Nat,
         s.pos + n < OutputLen \/ s.pos + n < 2 * OutputLen - StateBytes
  PROVE  Moves(s, "idle", FromBuf(s, n), "idle", n) /\ Live(FromBuf(s, n).st)
<1> DEFINE y == FromBuf(s, n)
<1>1. s \in St /\ PathLen(s) >= 1 /\ StateBytes <= s.pos /\ s.pos < OutputLen
  BY DEF Live, Ready
<1>2. PathLen(s) \in Nat /\ Base(s) \in Nat /\ s.pos \in Nat
  BY <1>1, MarkType
<1>3. CASE s.pos + n < OutputLen
  <2> DEFINE t == Advance(s, s.pos, n)
  <2>1. y = Yield(t, Slice(s.buffer, s.pos, n))
    BY <1>2, <1>3 DEF FromBuf
  <2>2. /\ Live(t) /\ t \in St /\ t.state = s.state
        /\ PathLen(t) = PathLen(s) /\ Base(t) = Base(s)
        /\ t.pos = s.pos + n /\ t.magic = s.magic /\ t.pid = s.pid
    BY <1>1, <1>2, <1>3, AdvanceSpec DEF Live
  <2> HIDE DEF t
  <2>3. MarkLen(t, "idle") = PathLen(s) - 1 /\ MarkAt(t, "idle") = Base(s) + (s.pos + n)
    BY <2>2 DEF MarkLen, MarkAt
  <2>4. Moves(s, "idle", Yield(t, Slice(s.buffer, s.pos, n)), "idle", n)
    <3>1. s.pos + n <= OutputLen
      BY <1>2, <1>3, PrfShape
    <3>2. /\ MarkLen(t, "idle") \in Int /\ MarkAt(t, "idle") \in Int
          /\ NotAfter(PathLen(s) - 1, Base(s) + (s.pos + n), MarkLen(t, "idle"), MarkAt(t, "idle"))
      BY <1>2, <2>3 DEF NotAfter
    <3> QED BY <2>2, <3>1, <3>2, SliceMoves
  <2> QED BY <2>1, <2>2, <2>4 DEF Yield
<1>4. CASE ~(s.pos + n < OutputLen)
  <2> DEFINE cpy  == OutputLen - s.pos
             rest == n - cpy
             t == NextBlock(s)
             u == Advance(t, 0, rest)
             a == Slice(s.buffer, s.pos, cpy)
             c == Slice(t.buffer, t.pos, rest)
             out == Concat(a, cpy, c, rest)
  <2>1. y = [st |-> u, out |-> out]
    BY <1>2, <1>4, PrfShape DEF FromBuf, Yield
  <2>2. /\ cpy \in Nat /\ rest \in Nat /\ cpy + rest = n
        /\ 0 < cpy /\ s.pos + cpy = OutputLen /\ StateBytes + rest < OutputLen
    BY <1>1, <1>2, <1>4, PrfShape
  <2>3. /\ Live(t) /\ t.state.seed = s.state.seed /\ PathLen(t) = PathLen(s) + 1
        /\ Base(t) = 0 /\ t.pos = StateBytes
        /\ t.magic = s.magic /\ t.pid = s.pid
    BY FreshBlock
  <2>4. /\ Live(u) /\ u \in St /\ u.state = t.state
        /\ PathLen(u) = PathLen(s) + 1 /\ Base(u) = 0
        /\ u.pos = StateBytes + rest /\ u.magic = s.magic /\ u.pid = s.pid
    <3>1. 0 \in Nat /\ 0 <= t.pos /\ t.pos + rest < OutputLen
      BY <2>2, <2>3, PrfShape
    <3> HIDE DEF t, rest
    <3>2. /\ Live(u) /\ u.state = t.state
          /\ PathLen(u) = PathLen(t) /\ Base(u) = Base(t)
          /\ u.pos = t.pos + rest /\ u.magic = t.magic /\ u.pid = t.pid
      BY <2>2, <2>3, <3>1, AdvanceSpec
    <3> QED BY <2>3, <3>2 DEF Live
  <2>5. /\ DOMAIN out = 0..(n - 1)
        /\ \A i \in 0..(n - 1) :
             out[i] = IF i < cpy THEN s.buffer[s.pos + i] ELSE t.buffer[t.pos + (i - cpy)]
    <3> HIDE DEF cpy, rest, t
    <3> QED BY <2>2 DEF Concat, Slice
  <2>6. ASSUME NEW i \in 0..(n - 1), i < cpy
        PROVE  /\ out[i] \in RealBytes /\ out[i].key.seed = s.state.seed
               /\ Len(out[i].key.path) = PathLen(s) - 1
               /\ out[i].at = Base(s) + (s.pos + i)
    <3>1. s.pos + i \in s.pos..(OutputLen - 1)
      BY <1>2, <2>6, PrfShape
    <3>2. out[i] = s.buffer[s.pos + i]
      BY <2>5, <2>6
    <3> HIDE DEF out
    <3> QED BY <3>1, <3>2, UnreadReal
  <2>7. ASSUME NEW i \in 0..(n - 1), ~(i < cpy)
        PROVE  /\ out[i] \in RealBytes /\ out[i].key.seed = s.state.seed
               /\ Len(out[i].key.path) = PathLen(s)
               /\ out[i].at = StateBytes + (i - cpy)
    <3>1. t.pos + (i - cpy) \in t.pos..(OutputLen - 1)
      <4> HIDE DEF cpy, rest, t
      <4> QED BY <2>2, <2>3, <2>7, PrfShape
    <3>2. out[i] = t.buffer[t.pos + (i - cpy)]
      BY <2>5, <2>7
    <3> HIDE DEF out, t, cpy
    <3>3. /\ out[i] \in RealBytes /\ out[i].key.seed = t.state.seed
          /\ Len(out[i].key.path) = PathLen(t) - 1
          /\ out[i].at = Base(t) + (t.pos + (i - cpy))
      BY <3>1, <3>2, <2>3, UnreadReal
    <3>4. Len(out[i].key.path) = PathLen(s)
      BY <1>2, <2>3, <3>3
    <3>5. out[i].at = StateBytes + (i - cpy)
      BY <2>2, <2>3, <3>3, PrfShape
    <3> QED BY <2>3, <3>3, <3>4, <3>5
  <2>8. y.st = u /\ y.out = out
    BY <2>1
  <2>9. out \in [0..(n - 1) -> RealBytes]
    <3>1. out = [i \in 0..(n - 1) |-> out[i]]
      BY <2>2, <2>5 DEF Concat
    <3> HIDE DEF out, cpy
    <3> QED BY <3>1, <2>6, <2>7
  <2> HIDE DEF cpy, rest, t, u, out, y
  <2>10. /\ MarkLen(s, "idle") = PathLen(s) - 1 /\ MarkAt(s, "idle") = Base(s) + s.pos
         /\ MarkLen(u, "idle") = PathLen(s) /\ MarkAt(u, "idle") = StateBytes + rest
    BY <1>2, <2>2, <2>4, PrfShape DEF MarkLen, MarkAt
  <2>11. ASSUME NEW i \in 0..(n - 1)
         PROVE  /\ out[i].key.seed = s.state.seed
                /\ ~Precedes(out[i], MarkLen(s, "idle"), MarkAt(s, "idle"))
                /\ Precedes(out[i], MarkLen(u, "idle"), MarkAt(u, "idle"))
    <3>1. i \in Int /\ 0 <= i /\ i < n
      OBVIOUS
    <3>2. CASE i < cpy
      <4>1. /\ out[i].key.seed = s.state.seed
            /\ Len(out[i].key.path) = PathLen(s) - 1
            /\ out[i].at = Base(s) + (s.pos + i)
        BY <2>6, <3>2
      <4> QED BY <1>2, <2>10, <3>1, <4>1 DEF Precedes
    <3>3. CASE ~(i < cpy)
      <4>1. /\ out[i].key.seed = s.state.seed
            /\ Len(out[i].key.path) = PathLen(s)
            /\ out[i].at = StateBytes + (i - cpy)
        BY <2>7, <3>3
      <4>2. StateBytes \in Nat /\ StateBytes + (i - cpy) < StateBytes + rest
        BY <2>2, <3>1, PrfShape
      <4> QED BY <1>2, <2>10, <4>1, <4>2 DEF Precedes
    <3> QED BY <3>2, <3>3
  <2>12. ASSUME NEW i \in 0..(n - 1), NEW j \in 0..(n - 1), out[i] = out[j] PROVE i = j
    <3>1. i < cpy <=> Len(out[i].key.path) = PathLen(s) - 1
      BY <1>2, <2>6, <2>7
    <3>2. j < cpy <=> Len(out[j].key.path) = PathLen(s) - 1
      BY <1>2, <2>6, <2>7
    <3>3. CASE i < cpy
      <4>1. out[i].at = Base(s) + (s.pos + i) /\ out[j].at = Base(s) + (s.pos + j)
        BY <2>6, <2>12, <3>1, <3>2, <3>3
      <4> QED BY <1>2, <2>12, <4>1
    <3>4. CASE ~(i < cpy)
      <4>1. out[i].at = StateBytes + (i - cpy) /\ out[j].at = StateBytes + (j - cpy)
        BY <2>7, <2>12, <3>1, <3>2, <3>4
      <4> QED BY <2>2, <2>12, <4>1, PrfShape
    <3> QED BY <3>3, <3>4
  <2>13. ASSUME NEW b \in RealBytes, Precedes(b, MarkLen(s, "idle"), MarkAt(s, "idle"))
         PROVE  Precedes(b, MarkLen(u, "idle"), MarkAt(u, "idle"))
    <3>1. b.key.path \in Seq(Steps)
      BY DEF RealBytes
    <3>2. Len(b.key.path) \in Nat
      BY <3>1
    <3> QED BY <1>2, <2>10, <2>13, <3>2 DEF Precedes
  <2>14. u.state.seed = s.state.seed
    BY <2>3, <2>4
  <2> QED BY <2>4, <2>5, <2>8, <2>9, <2>11, <2>12, <2>13, <2>14 DEF Moves, y
<1> QED BY <1>3, <1>4

(* The marks of a live state are numbers.                                  *)
LEMMA LiveMarks ==
  ASSUME NEW s, Live(s)
  PROVE  /\ s \in St /\ PathLen(s) \in Nat /\ PathLen(s) >= 1 /\ Base(s) \in Nat
         /\ s.pos \in Nat /\ StateBytes <= s.pos /\ s.pos < OutputLen
         /\ MarkLen(s, "idle") = PathLen(s) - 1 /\ MarkAt(s, "idle") = Base(s) + s.pos
         /\ MarkLen(s, "idle") \in Int /\ MarkAt(s, "idle") \in Int
<1>1. s \in St /\ PathLen(s) >= 1 /\ StateBytes <= s.pos /\ s.pos < OutputLen
  BY DEF Live, Ready
<1>2. PathLen(s) \in Nat /\ Base(s) \in Nat /\ s.pos \in Nat
  BY <1>1, MarkType
<1> QED BY <1>1, <1>2 DEF MarkLen, MarkAt

(* So does the macro behind the rand integer functions, also when it runs  *)
(* exactly to the end of the buffer.                                       *)
LEMMA RandIntSpec ==
  ASSUME NEW s, Live(s), NEW n \in IntSizes
  PROVE  Moves(s, "idle", RandInt(s, n), "idle", n) /\ Live(RandInt(s, n).st)
<1>1. n \in Nat /\ StateBytes + n < OutputLen
  BY PrfShape
<1>2. /\ PathLen(s) \in Nat /\ Base(s) \in Nat /\ s.pos \in Nat
      /\ s \in St /\ s.pos < OutputLen
  BY LiveMarks
<1> DEFINE u == Advance(s, s.pos, n)
           t == NextBlock(s)
<1>3. /\ u \in St /\ u.state = s.state /\ u.pos = s.pos + n
      /\ u.block_counter = 0 /\ u.magic = s.magic /\ u.pid = s.pid
  BY <1>1, AdvanceType
<1>4. CASE s.pos + n < OutputLen
  <2>1. RandInt(s, n) = FromBuf(s, n)
    BY <1>1, <1>2, <1>3, <1>4, PrfShape DEF RandInt, FromBuf
  <2> QED BY <1>1, <1>4, <2>1, FromBufSpec
<1>5. CASE s.pos + n = OutputLen
  <2> DEFINE v == NextBlock(u)
  <2>1. RandInt(s, n) = Yield(v, Slice(s.buffer, s.pos, n))
    BY <1>1, <1>2, <1>3, <1>5, PrfShape DEF RandInt
  <2> HIDE DEF u
  <2>2. Offset(u) + OutputLen <= StreamLen
    BY <1>3, PrfShape DEF Offset
  <2>3. /\ v \in St /\ Ready(v) /\ v.state.seed = s.state.seed
        /\ PathLen(v) = PathLen(u) + 1
        /\ v.magic = s.magic /\ v.pid = s.pid
    BY <1>3, <2>2, NextBlockSpec
  <2> HIDE DEF v
  <2>4. Live(v)
    BY <2>3 DEF Live
  <2>5. PathLen(u) = PathLen(s)
    BY <1>3 DEF PathLen
  <2>6. /\ MarkLen(v, "idle") \in Int /\ MarkAt(v, "idle") \in Int
        /\ NotAfter(PathLen(s) - 1, Base(s) + (s.pos + n), MarkLen(v, "idle"), MarkAt(v, "idle"))
    BY <1>2, <2>3, <2>4, <2>5, LiveMarks DEF NotAfter
  <2>7. Moves(s, "idle", Yield(v, Slice(s.buffer, s.pos, n)), "idle", n)
    <3>1. s.pos + n <= OutputLen
      BY <1>5, PrfShape
    <3> QED BY <1>1, <2>3, <2>6, <3>1, SliceMoves
  <2> QED BY <2>1, <2>4, <2>7 DEF Yield
<1>6. CASE s.pos + n > OutputLen
  <2> DEFINE v == Advance(t, 0, n)
  <2>1. RandInt(s, n) = Yield(v, Slice(t.buffer, t.pos, n))
    BY <1>1, <1>2, <1>6, PrfShape DEF RandInt
  <2>2. /\ Live(t) /\ t.state.seed = s.state.seed /\ PathLen(t) = PathLen(s) + 1
        /\ Base(t) = 0 /\ t.pos = StateBytes /\ t.magic = s.magic /\ t.pid = s.pid
    BY FreshBlock
  <2> HIDE DEF t
  <2>3. /\ Live(v) /\ v.state = t.state /\ PathLen(v) = PathLen(t) /\ Base(v) = Base(t)
        /\ v.pos = t.pos + n /\ v.magic = t.magic /\ v.pid = t.pid
    <3>1. 0 \in Nat /\ 0 <= t.pos /\ t.pos + n < OutputLen
      BY <1>1, <2>2, PrfShape
    <3> QED BY <1>1, <2>2, <3>1, AdvanceSpec
  <2> HIDE DEF v
  <2>4. /\ PathLen(t) \in Nat /\ Base(t) \in Nat /\ t.pos \in Nat /\ t \in St
        /\ MarkLen(t, "idle") = PathLen(t) - 1 /\ MarkAt(t, "idle") = Base(t) + t.pos
    BY <2>2, LiveMarks
  <2>5. /\ v \in St /\ MarkLen(v, "idle") \in Int /\ MarkAt(v, "idle") \in Int
        /\ MarkLen(v, "idle") = PathLen(v) - 1 /\ MarkAt(v, "idle") = Base(v) + v.pos
    BY <2>3, LiveMarks
  <2>6. NotAfter(PathLen(t) - 1, Base(t) + (t.pos + n), MarkLen(v, "idle"), MarkAt(v, "idle"))
    BY <1>1, <2>3, <2>4, <2>5 DEF NotAfter
  <2>7. Moves(t, "idle", Yield(v, Slice(t.buffer, t.pos, n)), "idle", n)
    <3>1. t.pos + n <= OutputLen
      BY <1>1, <2>2, PrfShape
    <3> QED BY <1>1, <2>2, <2>3, <2>5, <2>6, <3>1, SliceMoves
  <2>8. /\ MarkLen(s, "idle") \in Int /\ MarkAt(s, "idle") \in Int
        /\ MarkLen(t, "idle") \in Int /\ MarkAt(t, "idle") \in Int
        /\ NotAfter(MarkLen(s, "idle"), MarkAt(s, "idle"), MarkLen(t, "idle"), MarkAt(t, "idle"))
    BY <1>2, <2>2, <2>4, LiveMarks DEF NotAfter
  <2>9. Moves(s, "idle", Yield(v, Slice(t.buffer, t.pos, n)), "idle", n)
    BY <1>1, <1>2, <2>2, <2>4, <2>7, <2>8, MovesFrom
  <2> QED BY <2>1, <2>3, <2>9 DEF Yield
<1> QED BY <1>1, <1>2, <1>4, <1>5, <1>6, PrfShape

(* The rest of the buffer, with which ottery_st_rand_bytes_impl starts a   *)
(* bulk request.                                                           *)
LEMMA BulkTailSpec ==
  ASSUME NEW s, Live(s)
  PROVE  Moves(s, "idle", BulkTail(s), "bytes", OutputLen - s.pos)
<1>1. /\ PathLen(s) \in Nat /\ Base(s) \in Nat /\ s.pos \in Nat
      /\ s \in St /\ s.pos < OutputLen
  BY LiveMarks
<1>2. Offset(s) = 0
  BY PrfShape DEF Live, Ready, Offset
<1>3. MarkLen(s, "bytes") = PathLen(s) /\ MarkAt(s, "bytes") = 0
  BY <1>2 DEF MarkLen, MarkAt
<1>4. /\ OutputLen - s.pos \in Nat /\ s.pos + (OutputLen - s.pos) <= OutputLen
      /\ MarkLen(s, "bytes") \in Int /\ MarkAt(s, "bytes") \in Int
      /\ NotAfter(PathLen(s) - 1, Base(s) + (s.pos + (OutputLen - s.pos)),
                  MarkLen(s, "bytes"), MarkAt(s, "bytes"))
  BY <1>1, <1>3, PrfShape DEF NotAfter
<1> QED BY <1>1, <1>4, SliceMoves DEF BulkTail

(* A whole block of the bulk loop.                                         *)
LEMMA BulkBlockSpec ==
  ASSUME NEW s \in St, s.state.seed # 0, PathLen(s) >= 1,
         Offset(s) + OutputLen <= StreamLen
  PROVE  LET y == BulkBlock(s) IN
         /\ Moves(s, "bytes", y, "bytes", OutputLen)
         /\ y.st.state = s.state /\ y.st.pos = s.pos
         /\ Offset(y.st) = Offset(s) + OutputLen
<1> DEFINE t == NextBlockNoRekey(s)
           b == Generate(s.state, s.block_counter)
           out == Slice(t.buffer, 0, OutputLen)
           y == BulkBlock(s)
<1>1. /\ s.state \in Keys /\ s.block_counter \in Nat /\ s.state.seed \in Nat
      /\ PathLen(s) \in Nat /\ Offset(s) \in Nat
  <2>1. s.state \in Keys
    BY DEF St, States
  <2> QED BY <2>1, MarkType DEF Keys
<1>2. /\ b \in Buffer
      /\ \A i \in Block : b[i].key = s.state /\ b[i].at = Offset(s) + i
  <2>1. /\ b \in Buffer
        /\ \A i \in Block : b[i].key = s.state /\ b[i].at = StreamPos(s.block_counter, i)
    BY <1>1, GenerateType
  <2>2. \A i \in Block : StreamPos(s.block_counter, i) = Offset(s) + i
    BY <1>1, StreamPosInside DEF Offset
  <2> HIDE DEF b
  <2> QED BY <2>1, <2>2
<1>3. t = [s EXCEPT !.buffer = b, !.block_counter = s.block_counter + 1]
  BY DEF NextBlockNoRekey, St, States
<1> HIDE DEF b
<1>4. /\ t \in St /\ t.state = s.state /\ t.pos = s.pos /\ t.buffer = b
      /\ t.block_counter = s.block_counter + 1
      /\ t.magic = s.magic /\ t.pid = s.pid
  <2>1. b \in Buffer /\ s.block_counter + 1 \in Nat
    BY <1>1, <1>2
  <2> HIDE DEF t
  <2> QED BY <1>3, <2>1 DEF St, States
<1>5. y.st = t /\ y.out = out
  BY DEF BulkBlock, Yield
<1>6. /\ DOMAIN out = 0..(OutputLen - 1)
      /\ out = [i \in 0..(OutputLen - 1) |-> out[i]]
      /\ \A i \in 0..(OutputLen - 1) : out[i] = t.buffer[0 + i]
  BY DEF Slice
<1> HIDE DEF t, out, y
<1>7. PathLen(t) = PathLen(s) /\ Offset(t) = Offset(s) + OutputLen
  BY <1>1, <1>4, PrfShape DEF PathLen, Offset
<1>8. ASSUME NEW i \in 0..(OutputLen - 1)
      PROVE  /\ out[i] \in RealBytes /\ out[i].key.seed = s.state.seed
             /\ Len(out[i].key.path) = PathLen(s) /\ out[i].at = Offset(s) + i
  <2>1. i \in Block /\ 0 + i = i
    BY DEF Block
  <2>2. b[i] \in Bytes /\ b[i].key = s.state /\ b[i].at = Offset(s) + i
    BY <1>2, <2>1 DEF Buffer
  <2>3. out[i] = b[i]
    BY <1>4, <1>6, <2>1
  <2>4. b[i] \in RealBytes
    BY <2>2 DEF RealBytes, Bytes, Keys
  <2> QED BY <2>2, <2>3, <2>4 DEF PathLen
<1>9. out \in [0..(OutputLen - 1) -> RealBytes]
  BY <1>6, <1>8
<1>10. /\ MarkLen(s, "bytes") = PathLen(s) /\ MarkAt(s, "bytes") = Offset(s)
       /\ MarkLen(t, "bytes") = PathLen(s) /\ MarkAt(t, "bytes") = Offset(s) + OutputLen
  BY <1>7 DEF MarkLen, MarkAt
<1>11. ASSUME NEW i \in 0..(OutputLen - 1)
       PROVE  /\ ~Precedes(out[i], MarkLen(s, "bytes"), MarkAt(s, "bytes"))
              /\ Precedes(out[i], MarkLen(t, "bytes"), MarkAt(t, "bytes"))
  <2>1. Len(out[i].key.path) = PathLen(s) /\ out[i].at = Offset(s) + i
    BY <1>8
  <2>2. i \in Int /\ 0 <= i /\ i < OutputLen
    BY PrfShape
  <2> QED BY <1>1, <1>10, <2>1, <2>2, PrfShape DEF Precedes
<1>12. ASSUME NEW i \in 0..(OutputLen - 1), NEW j \in 0..(OutputLen - 1), out[i] = out[j]
       PROVE  i = j
  <2>1. out[i].at = Offset(s) + i /\ out[j].at = Offset(s) + j
    BY <1>8
  <2> QED BY <1>1, <1>12, <2>1, PrfShape
<1>13. ASSUME NEW c \in RealBytes, Precedes(c, MarkLen(s, "bytes"), MarkAt(s, "bytes"))
       PROVE  Precedes(c, MarkLen(t, "bytes"), MarkAt(t, "bytes"))
  <2>1. c.at \in Nat
    BY DEF RealBytes
  <2> QED BY <1>1, <1>10, <1>13, <2>1, PrfShape DEF Precedes
<1>14. Moves(s, "bytes", y, "bytes", OutputLen)
  BY <1>4, <1>5, <1>6, <1>8, <1>9, <1>11, <1>12, <1>13 DEF Moves
<1> QED BY <1>4, <1>5, <1>7, <1>14 DEF y

(* The end of the bulk loop.                                               *)
LEMMA BulkEndSpec ==
  ASSUME NEW s \in St, s.state.seed # 0, PathLen(s) >= 1,
         NEW n \in Nat, n < OutputLen, Offset(s) + OutputLen <= StreamLen
  PROVE  Moves(s, "bytes", BulkEnd(s, n), "idle", n) /\ Live(BulkEnd(s, n).st)
<1> DEFINE t == NextBlock(s)
<1>1. /\ Live(t) /\ t.state.seed = s.state.seed /\ PathLen(t) = PathLen(s) + 1
      /\ Base(t) = Offset(s) /\ t.pos = StateBytes
      /\ t.magic = s.magic /\ t.pid = s.pid
  BY NextBlockSpec DEF Live
<1>2. BulkEnd(s, n) = FromBuf(t, n)
  BY DEF BulkEnd
<1> HIDE DEF t
<1>3. Moves(t, "idle", FromBuf(t, n), "idle", n) /\ Live(FromBuf(t, n).st)
  <2>1. t.pos + n < 2 * OutputLen - StateBytes
    BY <1>1, PrfShape
  <2> QED BY <1>1, <2>1, FromBufSpec
<1>4. PathLen(s) \in Nat /\ Offset(s) \in Nat
  BY MarkType
<1>5. MarkLen(s, "bytes") = PathLen(s) /\ MarkAt(s, "bytes") = Offset(s)
  BY DEF MarkLen, MarkAt
<1>6. /\ t \in St /\ MarkLen(t, "idle") = PathLen(t) - 1 /\ MarkAt(t, "idle") = Base(t) + t.pos
  BY <1>1, LiveMarks
<1>7. /\ MarkLen(s, "bytes") \in Int /\ MarkAt(s, "bytes") \in Int
      /\ MarkLen(t, "idle") \in Int /\ MarkAt(t, "idle") \in Int
      /\ NotAfter(MarkLen(s, "bytes"), MarkAt(s, "bytes"), MarkLen(t, "idle"), MarkAt(t, "idle"))
  BY <1>1, <1>4, <1>5, <1>6, PrfShape DEF NotAfter
<1>8. Moves(s, "bytes", FromBuf(t, n), "idle", n)
  BY <1>1, <1>3, <1>6, <1>7, MovesFrom
<1> QED BY <1>2, <1>3, <1>8

-----------------------------------------------------------------------------
(* What seeding does.                                                      *)

(* The seeding loop lengthens the key by its passes and keeps the seed,    *)
(* the counter and the flags.                                              *)
LEMMA AbsorbSpec ==
  ASSUME NEW s \in St, s.block_counter = 0, NEW k \in Nat, NEW mix \in Mixes
  PROVE  LET u == Absorb(s, k, mix) IN
         /\ u \in St /\ u.block_counter = 0 /\ u.state.seed = s.state.seed
         /\ PathLen(u) = PathLen(s) + k
         /\ u.magic = s.magic /\ u.pid = s.pid
         /\ u.entropy_src_flags = s.entropy_src_flags
<1> DEFINE u == Absorb(s, k, mix)
           steps == [j \in 1..k |->
                       [at |-> IF j = 1 THEN StreamPos(s.block_counter, 0) ELSE 0,
                        mix |-> mix]]
           path == s.state.path \o steps
<1>1. s.state \in Keys /\ s.state.path \in Seq(Steps) /\ s.state.seed \in Nat
  <2>1. s.state \in Keys
    BY DEF St, States
  <2> QED BY <2>1 DEF Keys
<1>2. steps \in Seq(Steps) /\ Len(steps) = k
  <2>1. StreamPos(s.block_counter, 0) \in Nat
    BY StreamPosType
  <2>2. steps \in [1..k -> Steps]
    BY <2>1 DEF Steps
  <2> HIDE DEF steps
  <2> QED BY <2>2, SeqDef
<1> HIDE DEF steps
<1>3. path \in Seq(Steps) /\ Len(path) = Len(s.state.path) + k
  BY <1>1, <1>2
<1>4. u = [s EXCEPT !.state = [s.state EXCEPT !.path = path], !.block_counter = 0]
  BY DEF Absorb, steps, St, States
<1> HIDE DEF path
<1> DEFINE key == [s.state EXCEPT !.path = path]
<1>5. key \in Keys /\ key.seed = s.state.seed /\ key.path = path
  BY <1>1, <1>3 DEF Keys
<1> HIDE DEF u, key
<1>6. /\ u \in St /\ u.block_counter = 0 /\ u.state = key
      /\ u.magic = s.magic /\ u.pid = s.pid
      /\ u.entropy_src_flags = s.entropy_src_flags
  <2>1. u = [s EXCEPT !.state = key, !.block_counter = 0]
    BY <1>4 DEF key
  <2> QED BY <1>5, <2>1 DEF St, States
<1>7. PathLen(u) = PathLen(s) + k
  BY <1>3, <1>5, <1>6 DEF PathLen
<1> QED BY <1>5, <1>6, <1>7 DEF u

(* A new block of ottery_st_nextblock_nolock leaves the entropy flags      *)
(* alone.                                                                  *)
LEMMA NextBlockFlags ==
  ASSUME NEW s \in St
  PROVE  /\ NextBlock(s).entropy_src_flags = s.entropy_src_flags
         /\ NextBlock(s).last_entropy_flags = s.last_entropy_flags
BY DEF NextBlock, St, States

(* Mixing seed into a state: the seed stays, the key moves on, and the     *)
(* state is ready for output.                                              *)
LEMMA AddSeedImplSpec ==
  ASSUME NEW s \in St, s.block_counter = 0, NEW n \in Nat, NEW mix \in Mixes,
         NEW flags \in SUBSET Sources
  PROVE  LET t == AddSeedImpl(s, n, mix, flags) IN
         /\ t \in St /\ Ready(t)
         /\ t.state.seed = s.state.seed /\ PathLen(t) >= PathLen(s) + 1
         /\ t.magic = s.magic /\ t.pid = s.pid
<1> DEFINE k == Passes(n)
           u == Absorb(s, k, mix)
           v == NextBlock(u)
           t == AddSeedImpl(s, n, mix, flags)
<1>1. k \in Nat
  BY PassesType
<1> HIDE DEF k
<1>2. /\ u \in St /\ u.block_counter = 0 /\ u.state.seed = s.state.seed
      /\ PathLen(u) = PathLen(s) + k /\ u.magic = s.magic /\ u.pid = s.pid
  BY <1>1, AbsorbSpec
<1> HIDE DEF u
<1>3. Offset(u) + OutputLen <= StreamLen
  BY <1>2, PrfShape DEF Offset
<1>4. /\ v \in St /\ Ready(v) /\ v.state.seed = s.state.seed
      /\ PathLen(v) = PathLen(s) + k + 1 /\ v.magic = s.magic /\ v.pid = s.pid
  BY <1>2, <1>3, NextBlockSpec
<1>5. t = [v EXCEPT !.entropy_src_flags = v.entropy_src_flags \cup flags,
                    !.last_entropy_flags = flags]
  BY <1>4 DEF AddSeedImpl, u, k, St, States
<1> HIDE DEF v, t
<1>6. /\ t \in St /\ t.state = v.state /\ t.pos = v.pos /\ t.buffer = v.buffer
      /\ t.block_counter = v.block_counter /\ t.magic = v.magic /\ t.pid = v.pid
  <2>1. v.entropy_src_flags \cup flags \in SUBSET Sources
    BY <1>4 DEF St, States
  <2> QED BY <1>4, <1>5, <2>1 DEF St, States
<1>7. Ready(t)
  BY <1>4, <1>6 DEF Ready, PathLen, Base
<1>8. PathLen(s) \in Nat /\ PathLen(t) = PathLen(s) + k + 1
  <2>1. s.state \in Keys
    BY DEF St, States
  <2>2. s.state.path \in Seq(Steps)
    BY <2>1 DEF Keys
  <2>3. Len(s.state.path) \in Nat
    BY <2>2
  <2> QED BY <1>4, <1>6, <2>3 DEF PathLen
<1> QED BY <1>1, <1>4, <1>6, <1>7, <1>8 DEF t

(* A reseed makes a live state of any state with its counter at zero.      *)
LEMMA ReseedSpec ==
  ASSUME NEW s \in St, s.block_counter = 0, NEW d \in Nat \ {0}, NEW flags \in Draws
  PROVE  LET t == Reseed(s, d, flags) IN
         Live(t) /\ t.state.seed = d /\ t.magic = s.magic /\ t.pid = s.pid
<1> DEFINE extra == DrawLen(flags) - StateBytes
           key   == SeedKey(d)
           keyed == [s EXCEPT !.state = key]
           mixed == IF extra > 0 THEN AddSeedImpl(keyed, extra, d, {}) ELSE keyed
           u == [mixed EXCEPT !.last_entropy_flags = flags,
                              !.entropy_src_flags = flags, !.block_counter = 0]
           t == Reseed(s, d, flags)
<1>1. extra \in Int
  <2>1. Cardinality(flags) \in Nat
    BY Parameters, FS_Subset, FS_CardinalityType DEF Draws
  <2> QED BY <2>1, PrfShape DEF DrawLen
<1>2. key \in Keys /\ key.seed = d
  <2>1. <<>> \in Seq(Steps)
    OBVIOUS
  <2> QED BY <2>1 DEF SeedKey, Keys
<1> HIDE DEF extra, key
<1>3. /\ keyed \in St /\ keyed.state.seed = d /\ keyed.block_counter = 0
      /\ keyed.magic = s.magic /\ keyed.pid = s.pid
  BY <1>2 DEF St, States
<1> HIDE DEF keyed
<1>4. /\ mixed \in St /\ mixed.state.seed = d
      /\ mixed.magic = s.magic /\ mixed.pid = s.pid
  <2>1. CASE extra > 0
    <3>1. extra \in Nat /\ d \in Mixes /\ {} \in SUBSET Sources
      BY <1>1, <2>1 DEF Mixes
    <3> QED BY <1>3, <2>1, <3>1, AddSeedImplSpec
  <2>2. CASE ~(extra > 0)
    BY <1>3, <2>2
  <2> QED BY <2>1, <2>2
<1>5. t = NextBlock(u)
  BY DEF Reseed, extra, key, keyed
<1> HIDE DEF mixed, t
<1>6. /\ u \in St /\ u.state.seed = d /\ u.block_counter = 0
      /\ u.magic = s.magic /\ u.pid = s.pid
  BY <1>4 DEF St, States, Draws
<1> HIDE DEF u
<1>7. Offset(u) + OutputLen <= StreamLen
  BY <1>6, PrfShape DEF Offset
<1>8. Live(t) /\ t.state.seed = d /\ t.magic = s.magic /\ t.pid = s.pid
  BY <1>5, <1>6, <1>7, NextBlockSpec DEF Live
<1> QED BY <1>8 DEF t

(* The zeroed state of ottery_st_init and ottery_st_wipe has its type and  *)
(* no magic.                                                               *)
LEMMA BlankType ==
  /\ Blank(NoPid) \in St
  /\ Blank(NoPid).block_counter = 0 /\ Blank(NoPid).magic = FALSE
<1>1. NoKey \in Keys
  <2>1. <<>> \in Seq(Steps)
    OBVIOUS
  <2> QED BY <2>1 DEF NoKey, Keys
<1>2. [i \in Block |-> Zero] \in Buffer
  BY ZeroType DEF Buffer
<1> QED BY <1>1, <1>2 DEF Blank, St, States

(* ottery_st_prevent_backtracking touches only what has been read.         *)
LEMMA PreventBacktrackingSpec ==
  ASSUME NEW s \in St
  PROVE  LET t == PreventBacktracking(s) IN
         /\ t \in St /\ t.state = s.state /\ t.pos = s.pos
         /\ t.block_counter = s.block_counter /\ t.magic = s.magic /\ t.pid = s.pid
         /\ Ready(s) => Ready(t)
<1>1. CASE ClearAfterYield
  BY <1>1 DEF PreventBacktracking
<1>2. CASE ~ClearAfterYield
  <2> DEFINE t == PreventBacktracking(s)
             c == [i \in Block |-> IF i < s.pos THEN Zero ELSE s.buffer[i]]
  <2>1. s.buffer \in Buffer /\ s.pos \in Nat
    BY DEF St, States
  <2>2. c \in Buffer
    BY <2>1, ZeroType DEF Buffer
  <2>3. t = [s EXCEPT !.buffer = c]
    BY <1>2 DEF PreventBacktracking
  <2>4. \A i \in Block : i >= s.pos => c[i] = s.buffer[i]
    BY <2>1, PrfShape DEF Block
  <2> HIDE DEF c, t
  <2>5. /\ t \in St /\ t.state = s.state /\ t.pos = s.pos /\ t.buffer = c
        /\ t.block_counter = s.block_counter /\ t.magic = s.magic /\ t.pid = s.pid
    BY <2>2, <2>3 DEF St, States
  <2>6. PathLen(t) = PathLen(s) /\ Base(t) = Base(s)
    BY <2>5 DEF PathLen, Base
  <2>7. ASSUME NEW i \in t.pos..(OutputLen - 1)
        PROVE  i \in s.pos..(OutputLen - 1) /\ t.buffer[i] = s.buffer[i]
    <3>1. i \in Block /\ i >= s.pos
      BY <2>1, <2>5, PrfShape DEF Block
    <3> QED BY <2>4, <2>5, <3>1
  <2>8. Ready(s) => Ready(t)
    BY <2>5, <2>6, <2>7 DEF Ready
  <2> QED BY <2>5, <2>8 DEF t
<1> QED BY <1>1, <1>2

-----------------------------------------------------------------------------
(* The induction.                                                          *)

(* A step of process p that leaves it with state t and call c and gives    *)
(* its caller the bytes G: what has to be shown of it, and nothing about   *)
(* the other processes.                                                    *)
Safe(p, t, c, G) ==
  /\ t \in St /\ c \in Calls /\ G \in SUBSET RealBytes
  /\ st' = [st EXCEPT ![p] = t]
  /\ call' = [call EXCEPT ![p] = c]
  /\ given' = [given EXCEPT ![p] = @ \cup G]
  /\ DOMAIN chunk' = Pids /\ \A q \in Pids : IsChunk(chunk'[q])
  /\ alive' \subseteq alive /\ alive \subseteq alive' \cup {p} /\ used' = used
  /\ handler' \in [Pids -> BOOLEAN]
  /\ drawn' \in Seq(SUBSET Sources) /\ Len(drawn') >= Len(drawn)
  /\ ops' \in 0..MaxOps
  /\ t.magic /\ p \in alive' =>
       /\ t.state.seed \in 1..Len(drawn')
       /\ t.pid \in used
       /\ IF c.op = "bytes" THEN Running(t, c) ELSE Ready(t)
  /\ c.op # "idle" => p \in alive' /\ t.magic
  /\ c.op = "bytes" => t.pid = p
  /\ c.op = "range" => c.need \in IntSizes
  /\ \A b \in G : b.key.seed <= Len(drawn')
  /\ \A q \in Pids : q # p /\ Own(q) => \A b \in G : b.key.seed # st[q].state.seed
  /\ t.magic /\ t.pid = p /\ p \in alive' =>
       /\ \A b \in given[p] \cup G :
            b.key.seed = t.state.seed => Precedes(b, MarkLen(t, c.op), MarkAt(t, c.op))
       /\ \A q \in Pids : q # p =>
            /\ \A b \in given[q] : b.key.seed # t.state.seed
            /\ Own(q) => st[q].state.seed # t.state.seed

(* A step of p that meets the conditions of Safe keeps the invariant in    *)
(* all processes.                                                          *)
LEMMA StepSafe ==
  ASSUME IInv, NEW p \in alive, NEW t, NEW c, NEW G, Safe(p, t, c, G)
  PROVE  IInv'
<1>1. p \in Pids /\ TypeOK
  BY DEF IInv, TypeOK
<1>2. /\ st \in [Pids -> St] /\ call \in [Pids -> Calls]
      /\ given \in [Pids -> SUBSET RealBytes]
  BY <1>1 DEF TypeOK, St
<1>3. /\ st'[p] = t /\ call'[p] = c /\ given'[p] = given[p] \cup G
      /\ \A q \in Pids : q # p => st'[q] = st[q] /\ call'[q] = call[q] /\ given'[q] = given[q]
      /\ \A q \in Pids : q # p => (q \in alive' <=> q \in alive)
  BY <1>1, <1>2 DEF Safe
<1>4. Len(drawn') \in Nat /\ Len(drawn) \in Nat /\ Len(drawn) <= Len(drawn')
  BY <1>1 DEF Safe, TypeOK
<1>5. \A q \in Pids : q # p => (Own(q)' <=> Own(q))
  BY <1>3 DEF Own
<1>6. Own(p)' <=> p \in alive' /\ t.magic /\ t.pid = p
  BY <1>3 DEF Own
<1>7. TypeOK'
  <2>1. st' \in [Pids -> St] /\ call' \in [Pids -> Calls]
    BY <1>2 DEF Safe
  <2>2. given' \in [Pids -> SUBSET RealBytes]
    BY <1>2 DEF Safe
  <2>3. alive' \subseteq used' /\ used' \subseteq Pids
    BY <1>1 DEF Safe, TypeOK
  <2> QED BY <2>1, <2>2, <2>3 DEF TypeOK, Safe, St
<1>8. StatesOK'
  <2> SUFFICES ASSUME NEW q \in alive', st'[q].magic
               PROVE  /\ st'[q].state.seed \in 1..Len(drawn')
                      /\ st'[q].pid \in used'
                      /\ IF call'[q].op = "bytes" THEN Running(st'[q], call'[q]) ELSE Ready(st'[q])
    BY DEF StatesOK, Running, Ready, PathLen, Base, Offset
  <2>1. CASE q = p
    BY <1>3, <2>1 DEF Safe
  <2>2. CASE q # p
    <3>1. q \in alive /\ q \in Pids
      BY <1>1 DEF Safe, TypeOK
    <3>2. st'[q] = st[q] /\ call'[q] = call[q] /\ used' = used
      BY <1>3, <2>2, <3>1 DEF Safe
    <3>3. /\ st[q].state.seed \in 1..Len(drawn) /\ st[q].pid \in used
          /\ IF call[q].op = "bytes" THEN Running(st[q], call[q]) ELSE Ready(st[q])
      BY <3>1, <3>2 DEF IInv, StatesOK
    <3>4. st[q].state.seed \in 1..Len(drawn')
      BY <1>4, <3>3
    <3> QED BY <3>2, <3>3, <3>4
  <2> QED BY <2>1, <2>2
<1>9. CallsOK'
  <2> SUFFICES ASSUME NEW q \in Pids
               PROVE  /\ call'[q].op # "idle" => q \in alive' /\ st'[q].magic
                      /\ call'[q].op = "bytes" => st'[q].pid = q
                      /\ call'[q].op = "range" => call'[q].need \in IntSizes
    BY DEF CallsOK
  <2>1. CASE q = p
    BY <1>3, <2>1 DEF Safe
  <2>2. CASE q # p
    BY <1>3, <2>2 DEF IInv, CallsOK
  <2> QED BY <2>1, <2>2
<1>10. GivenOK'
  <2>1. ASSUME NEW q \in Pids, NEW b \in given'[q] PROVE b.key.seed <= Len(drawn')
    <3>1. CASE b \in given[q]
      <4>1. b.key.seed <= Len(drawn)
        BY <3>1 DEF IInv, GivenOK
      <4>2. b \in RealBytes
        BY <1>2, <3>1
      <4>3. b.key.seed \in Nat
        BY <4>2 DEF RealBytes
      <4> QED BY <1>4, <4>1, <4>3
    <3>2. CASE b \notin given[q]
      BY <1>3, <2>1, <3>2 DEF Safe
    <3> QED BY <3>1, <3>2
  <2>2. ASSUME NEW q \in Pids, Own(q)', NEW b \in given'[q], b.key.seed = st'[q].state.seed
        PROVE  Precedes(b, MarkLen(st'[q], call'[q].op), MarkAt(st'[q], call'[q].op))
    <3>1. CASE q = p
      BY <1>3, <1>6, <2>2, <3>1 DEF Safe
    <3>2. CASE q # p
      BY <1>3, <1>5, <2>2, <3>2 DEF IInv, GivenOK
    <3> QED BY <3>1, <3>2
  <2> QED BY <2>1, <2>2 DEF GivenOK, Precedes, MarkLen, MarkAt, PathLen, Base, Offset
<1>11. SeedsApart'
  <2> SUFFICES ASSUME NEW q \in Pids, NEW r \in Pids, Own(q)', q # r
               PROVE  /\ \A b \in given'[r] : b.key.seed # st'[q].state.seed
                      /\ Own(r)' => st'[r].state.seed # st'[q].state.seed
    BY DEF SeedsApart
  <2>1. CASE q = p
    BY <1>3, <1>5, <1>6, <2>1 DEF Safe
  <2>2. CASE q # p /\ r = p
    <3>1. Own(q) /\ st'[q] = st[q]
      BY <1>3, <1>5, <2>2
    <3>2. \A b \in given[p] \cup G : b.key.seed # st[q].state.seed
      BY <1>1, <2>2, <3>1 DEF Safe, IInv, SeedsApart
    <3>3. Own(p)' => t.state.seed # st[q].state.seed
      BY <1>6, <2>2, <3>1 DEF Safe
    <3> QED BY <1>3, <2>2, <3>1, <3>2, <3>3
  <2>3. CASE q # p /\ r # p
    BY <1>3, <1>5, <2>3 DEF IInv, SeedsApart
  <2> QED BY <2>1, <2>2, <2>3
<1> QED BY <1>7, <1>8, <1>9, <1>10, <1>11 DEF IInv

(* p may hand out what s holds from its mark on: s is of its own, nothing  *)
(* it gave is at or after the mark, and nobody else has this seed.         *)
Holder(p, s, d, op) ==
  /\ s \in St /\ s.magic /\ s.pid = p
  /\ d \in Seq(SUBSET Sources) /\ Len(d) >= Len(drawn)
  /\ s.state.seed \in 1..Len(d)
  /\ \A b \in given[p] :
       b.key.seed = s.state.seed => Precedes(b, MarkLen(s, op), MarkAt(s, op))
  /\ \A q \in Pids : q # p =>
       /\ \A b \in given[q] : b.key.seed # s.state.seed
       /\ Own(q) => st[q].state.seed # s.state.seed

(* The mark of a state depends on the call only through being in the bulk  *)
(* loop or not.                                                            *)
LEMMA MarksOfOp ==
  ASSUME NEW s, NEW op1, NEW op2, op1 = "bytes" <=> op2 = "bytes"
  PROVE  MarkLen(s, op1) = MarkLen(s, op2) /\ MarkAt(s, op1) = MarkAt(s, op2)
BY DEF MarkLen, MarkAt

(* A process with a state of its own may hand out what lies after its      *)
(* mark.                                                                   *)
LEMMA OwnHolds ==
  ASSUME IInv, NEW p \in alive, Own(p)
  PROVE  Holder(p, st[p], drawn, call[p].op)
<1>1. p \in Pids /\ st[p] \in St /\ drawn \in Seq(SUBSET Sources)
  BY DEF IInv, TypeOK, St
<1>2. Len(drawn) \in Nat
  BY <1>1
<1>3. st[p].state.seed \in 1..Len(drawn)
  BY DEF IInv, StatesOK, Own
<1> QED BY <1>1, <1>2, <1>3 DEF Holder, Own, IInv, GivenOK, SeedsApart

(* A seed from a new draw is nobody's.                                     *)
LEMMA NewSeedHolds ==
  ASSUME IInv, NEW p \in alive, NEW s \in St, NEW S \in Draws, NEW op,
         s.magic, s.pid = p, s.state.seed = NewDraw
  PROVE  Holder(p, s, Append(drawn, S), op)
<1>1. drawn \in Seq(SUBSET Sources) /\ S \in SUBSET Sources
  BY DEF IInv, TypeOK, Draws
<1>2. /\ Append(drawn, S) \in Seq(SUBSET Sources)
      /\ Len(Append(drawn, S)) = Len(drawn) + 1 /\ Len(drawn) \in Nat
  BY <1>1
<1>3. ASSUME NEW q \in Pids, NEW b \in given[q] PROVE b.key.seed # NewDraw
  <2>1. b \in RealBytes /\ b.key.seed <= Len(drawn)
    BY DEF IInv, TypeOK, GivenOK
  <2>2. b.key.seed \in Nat
    BY <2>1 DEF RealBytes
  <2> QED BY <1>2, <2>1, <2>2 DEF NewDraw
<1>4. ASSUME NEW q \in Pids, Own(q) PROVE st[q].state.seed # NewDraw
  <2>1. st[q].state.seed \in 1..Len(drawn)
    BY <1>4 DEF Own, IInv, StatesOK
  <2> QED BY <1>2, <2>1 DEF NewDraw
<1>5. p \in Pids
  BY DEF IInv, TypeOK
<1>6. s.state.seed \in 1..Len(Append(drawn, S))
  BY <1>2 DEF NewDraw
<1> QED BY <1>1, <1>2, <1>3, <1>4, <1>5, <1>6 DEF Holder

(* What ottery_st_rand_check_pid leaves may be handed out.                 *)
LEMMA CheckPidSpec ==
  ASSUME IInv, NEW p \in alive, st[p].magic, call[p].op # "bytes", NEW c \in CheckPid(p)
  PROVE  Live(c.st) /\ Holder(p, c.st, c.drawn, "idle")
<1>1. p \in Pids /\ st[p] \in St
  BY DEF IInv, TypeOK, St
<1>2. Ready(st[p]) /\ st[p].state.seed \in 1..Len(drawn)
  BY DEF IInv, StatesOK
<1>3. CASE st[p].pid = p
  <2>1. c.st = st[p] /\ c.drawn = drawn
    BY <1>3 DEF CheckPid
  <2>2. Holder(p, st[p], drawn, call[p].op)
    BY <1>3, OwnHolds DEF Own
  <2>3. Holder(p, st[p], drawn, "idle")
    <3>1. /\ MarkLen(st[p], call[p].op) = MarkLen(st[p], "idle")
          /\ MarkAt(st[p], call[p].op) = MarkAt(st[p], "idle")
      BY MarksOfOp
    <3> QED BY <2>2, <3>1 DEF Holder
  <2> QED BY <1>1, <1>2, <2>1, <2>3 DEF Live
<1>4. CASE st[p].pid # p
  <2>1. PICK S \in Draws :
          /\ c.st = [Reseed(st[p], NewDraw, S) EXCEPT !.pid = p]
          /\ c.drawn = Append(drawn, S)
    BY <1>4 DEF CheckPid
  <2> DEFINE r == Reseed(st[p], NewDraw, S)
             t == [r EXCEPT !.pid = p]
  <2>2. NewDraw \in Nat \ {0} /\ st[p].block_counter = 0
    <3>1. drawn \in Seq(SUBSET Sources)
      BY DEF IInv, TypeOK
    <3>2. Len(drawn) \in Nat
      BY <3>1
    <3> QED BY <1>2, <3>2 DEF NewDraw, Ready
  <2>3. Live(r) /\ r.state.seed = NewDraw /\ r.magic = st[p].magic
    BY <1>1, <2>2, ReseedSpec
  <2> HIDE DEF r
  <2>4. /\ t \in St /\ t.state = r.state /\ t.pos = r.pos /\ t.buffer = r.buffer
        /\ t.block_counter = r.block_counter /\ t.magic = r.magic /\ t.pid = p
    BY <1>1, <2>3 DEF Live, St, States
  <2>5. c.st = t
    BY <2>1 DEF r
  <2> HIDE DEF t
  <2>6. Live(t)
    BY <2>3, <2>4 DEF Live, Ready, PathLen, Base
  <2>7. Holder(p, t, Append(drawn, S), "idle")
    BY <2>3, <2>4, NewSeedHolds
  <2> QED BY <2>1, <2>5, <2>6, <2>7
<1> QED BY <1>3, <1>4

(* n bytes are what call c of p takes from what is due to its caller.      *)
Accounts(p, n, c) ==
  /\ n <= c.asked
  /\ call[p].op # "bytes" => IF c.op = "bytes" THEN c.need = c.asked - n
                                               ELSE n = c.asked
  /\ call[p].op = "bytes" => /\ c.asked = call[p].asked
                             /\ IF c.op = "bytes" THEN c.need = call[p].need - n
                                                  ELSE n = call[p].need

(* A step of p that hands out the n bytes of yield y, from a state s that  *)
(* it may hand out from, and leaves call c.                                *)
Gives(p, s, d, op, y, op2, n, c) ==
  /\ Holder(p, s, d, op) /\ Moves(s, op, y, op2, n) /\ n \in 0..(2 * OutputLen)
  /\ c \in Calls /\ (c.op = "bytes" <=> op2 = "bytes")
  /\ Deliver(p, y) /\ call' = [call EXCEPT ![p] = c] /\ drawn' = d
  /\ alive' = alive /\ used' = used /\ handler' = handler /\ ops' \in 0..MaxOps
  /\ IF c.op = "bytes" THEN Running(y.st, c) ELSE Ready(y.st)
  /\ c.op = "range" => c.need \in IntSizes
  /\ Accounts(p, n, c)

(* Handing out keeps the invariant.                                        *)
LEMMA DeliverSafe ==
  ASSUME IInv, NEW p \in alive, NEW s, NEW d, NEW op, NEW y, NEW op2, NEW n, NEW c,
         Gives(p, s, d, op, y, op2, n, c)
  PROVE  IInv'
<1> USE DEF Gives
<1> DEFINE G == {y.out[i] : i \in DOMAIN y.out}
<1>1. p \in Pids /\ TypeOK
  BY DEF IInv, TypeOK
<1>2. G \in SUBSET RealBytes
  BY DEF Moves
<1>3. ASSUME NEW b \in G
      PROVE  /\ b.key.seed = s.state.seed
             /\ Precedes(b, MarkLen(y.st, op2), MarkAt(y.st, op2))
  BY DEF Moves
<1>4. /\ st' = [st EXCEPT ![p] = y.st]
      /\ given' = [given EXCEPT ![p] = @ \cup G]
      /\ chunk' = [chunk EXCEPT ![p] = y.out]
  BY DEF Deliver
<1>5. y.st \in St /\ y.st.state.seed = s.state.seed /\ y.st.magic /\ y.st.pid = p
  BY DEF Moves, Holder
<1>6. y.out \in [0..(n - 1) -> RealBytes]
  BY DEF Moves
<1>7. /\ MarkLen(y.st, c.op) = MarkLen(y.st, op2)
      /\ MarkAt(y.st, c.op) = MarkAt(y.st, op2)
  BY MarksOfOp
<1> HIDE DEF G
<1>8. DOMAIN chunk' = Pids /\ \A q \in Pids : IsChunk(chunk'[q])
  <2>1. IsChunk(y.out)
    BY <1>6 DEF IsChunk
  <2>2. DOMAIN chunk = Pids /\ \A q \in Pids : IsChunk(chunk[q])
    BY <1>1 DEF TypeOK
  <2> QED BY <1>1, <1>4, <2>1, <2>2
<1>9. \A b \in given[p] \cup G :
        b.key.seed = y.st.state.seed => Precedes(b, MarkLen(y.st, c.op), MarkAt(y.st, c.op))
  <2> SUFFICES ASSUME NEW b \in given[p], b.key.seed = s.state.seed
               PROVE  Precedes(b, MarkLen(y.st, op2), MarkAt(y.st, op2))
    BY <1>3, <1>5, <1>7
  <2>1. b \in RealBytes
    BY <1>1 DEF TypeOK
  <2>2. Precedes(b, MarkLen(s, op), MarkAt(s, op))
    BY DEF Holder
  <2> QED BY <2>1, <2>2 DEF Moves
<1>10. Safe(p, y.st, c, G)
  <2>1. alive \subseteq used
    BY <1>1 DEF TypeOK
  <2>2. handler' \in [Pids -> BOOLEAN]
    BY <1>1 DEF TypeOK
  <2>3. s.state.seed \in 1..Len(d) /\ d \in Seq(SUBSET Sources) /\ Len(d) >= Len(drawn)
    BY DEF Holder
  <2>4. \A b \in G : b.key.seed <= Len(d)
    BY <1>3, <2>3
  <2>5. \A q \in Pids : q # p =>
          /\ \A b \in given[q] : b.key.seed # y.st.state.seed
          /\ Own(q) => st[q].state.seed # y.st.state.seed
          /\ Own(q) => \A b \in G : b.key.seed # st[q].state.seed
    BY <1>3, <1>5 DEF Holder
  <2> QED BY <1>2, <1>4, <1>5, <1>8, <1>9, <2>1, <2>2, <2>3, <2>4, <2>5 DEF Safe
<1> QED BY <1>10, StepSafe

(* A step of p that hands out nothing and leaves it with t and c.          *)
Quiet(p, t, c) ==
  /\ t \in St /\ c \in Calls
  /\ st' = [st EXCEPT ![p] = t] /\ call' = [call EXCEPT ![p] = c]
  /\ chunk' = chunk /\ given' = given /\ used' = used
  /\ alive' \subseteq alive /\ alive \subseteq alive' \cup {p}
  /\ handler' \in [Pids -> BOOLEAN] /\ ops' \in 0..MaxOps
  /\ drawn' \in Seq(SUBSET Sources) /\ Len(drawn') >= Len(drawn)
  /\ c.op # "bytes" /\ c.asked = call[p].asked
  /\ t.magic /\ p \in alive' =>
       t.state.seed \in 1..Len(drawn') /\ t.pid \in used /\ Ready(t)
  /\ c.op # "idle" => p \in alive' /\ t.magic
  /\ c.op = "range" => c.need \in IntSizes
  /\ t.magic /\ t.pid = p /\ p \in alive' => Holder(p, t, drawn', c.op)

Rests(p) == p \in alive /\ \E t, c : Quiet(p, t, c)

Hands(p) ==
  /\ p \in alive
  /\ \E s, d, op, y, op2, n, c : Gives(p, s, d, op, y, op2, n, c)

(* A step that hands out nothing keeps the invariant.                      *)
LEMMA QuietSafe ==
  ASSUME IInv, NEW p \in alive, NEW t, NEW c, Quiet(p, t, c)
  PROVE  IInv'
<1>1. TypeOK /\ p \in Pids
  BY DEF IInv, TypeOK
<1>2. given' = [given EXCEPT ![p] = @ \cup {}]
  BY <1>1 DEF TypeOK, Quiet
<1>3. DOMAIN chunk' = Pids /\ \A q \in Pids : IsChunk(chunk'[q])
  BY <1>1 DEF TypeOK, Quiet
<1>4. t.magic /\ t.pid = p /\ p \in alive' =>
        /\ \A b \in given[p] \cup {} :
             b.key.seed = t.state.seed => Precedes(b, MarkLen(t, c.op), MarkAt(t, c.op))
        /\ \A q \in Pids : q # p =>
             /\ \A b \in given[q] : b.key.seed # t.state.seed
             /\ Own(q) => st[q].state.seed # t.state.seed
  BY DEF Holder, Quiet
<1>5. Safe(p, t, c, {})
  BY <1>2, <1>3, <1>4 DEF Safe, Quiet
<1> QED BY <1>5, StepSafe

(* What Enter and the type invariant give every call.                      *)
LEMMA Entered ==
  ASSUME IInv, NEW p \in Pids, Enter(p)
  PROVE  /\ p \in alive /\ st[p] \in St /\ call[p] \in Calls /\ call[p].op = "idle"
         /\ st = [st EXCEPT ![p] = st[p]] /\ call = [call EXCEPT ![p] = call[p]]
         /\ handler \in [Pids -> BOOLEAN] /\ ops' \in 0..MaxOps
         /\ drawn \in Seq(SUBSET Sources) /\ Len(drawn) \in Nat
         /\ st[p].magic => /\ Ready(st[p]) /\ st[p].pid \in used
                           /\ st[p].state.seed \in 1..Len(drawn)
<1>1. TypeOK /\ p \in alive
  BY DEF IInv, Enter
<1>2. /\ st \in [Pids -> St] /\ call \in [Pids -> Calls]
      /\ handler \in [Pids -> BOOLEAN] /\ drawn \in Seq(SUBSET Sources)
  BY <1>1 DEF TypeOK, St
<1>3. ops' \in 0..MaxOps
  BY <1>1, Parameters DEF TypeOK, Enter
<1>4. call[p].op = "idle"
  BY DEF Enter
<1>5. st[p].magic => /\ Ready(st[p]) /\ st[p].pid \in used
                     /\ st[p].state.seed \in 1..Len(drawn)
  BY <1>1, <1>4 DEF IInv, StatesOK
<1>6. Len(drawn) \in Nat
  BY <1>2
<1> QED BY <1>1, <1>2, <1>3, <1>4, <1>5, <1>6

(* A draw of entropy gets a number that no earlier one has.                *)
LEMMA DrawMade ==
  ASSUME IInv, NEW S \in Draws
  PROVE  /\ Append(drawn, S) \in Seq(SUBSET Sources)
         /\ Len(Append(drawn, S)) = Len(drawn) + 1
         /\ NewDraw \in Nat \ {0} /\ NewDraw \in Mixes /\ S \in SUBSET Sources
         /\ DrawLen(S) \in Nat
<1>1. drawn \in Seq(SUBSET Sources) /\ S \in SUBSET Sources
  BY DEF IInv, TypeOK, Draws
<1>2. Cardinality(S) \in Nat
  BY Parameters, FS_Subset, FS_CardinalityType DEF Draws
<1>3. DrawLen(S) \in Nat
  BY <1>2, PrfShape DEF DrawLen
<1> QED BY <1>1, <1>3 DEF NewDraw, Mixes

(* ottery_st_init, with entropy, hands out nothing and makes a live state  *)
(* of a new seed.                                                          *)
LEMMA StInitStep ==
  ASSUME IInv, NEW p \in Pids, StInit(p)
  PROVE  Rests(p)
<1>1. PICK S \in Draws :
        /\ st' = [st EXCEPT ![p] =
                    [Reseed(Blank(NoPid), NewDraw, S) EXCEPT !.magic = TRUE, !.pid = p]]
        /\ drawn' = Append(drawn, S)
  BY DEF StInit
<1> DEFINE r == Reseed(Blank(NoPid), NewDraw, S)
           t == [r EXCEPT !.magic = TRUE, !.pid = p]
<1>2. Live(r) /\ r.state.seed = NewDraw
  BY DrawMade, BlankType, ReseedSpec
<1> HIDE DEF r
<1>3. /\ t \in St /\ t.state = r.state /\ t.pos = r.pos /\ t.buffer = r.buffer
      /\ t.block_counter = r.block_counter /\ t.magic /\ t.pid = p
  BY <1>2 DEF Live, St, States
<1>4. st' = [st EXCEPT ![p] = t]
  BY <1>1 DEF r
<1> HIDE DEF t
<1>5. Ready(t)
  BY <1>2, <1>3 DEF Live, Ready, PathLen, Base
<1>6. Enter(p) /\ UNCHANGED <<call, chunk, given, alive, used, handler>>
  BY DEF StInit
<1>7. /\ p \in alive /\ call[p] \in Calls /\ call[p].op = "idle"
      /\ call = [call EXCEPT ![p] = call[p]]
      /\ handler \in [Pids -> BOOLEAN] /\ ops' \in 0..MaxOps /\ Len(drawn) \in Nat
  BY <1>6, Entered
<1>8. Holder(p, t, drawn', "idle")
  BY <1>1, <1>2, <1>3, <1>7, NewSeedHolds
<1>9. p \in used
  BY <1>7 DEF IInv, TypeOK
<1>10. /\ t.state.seed \in 1..Len(drawn')
       /\ drawn' \in Seq(SUBSET Sources) /\ Len(drawn') >= Len(drawn)
  BY <1>8 DEF Holder
<1>11. Quiet(p, t, call[p])
  BY <1>3, <1>4, <1>5, <1>6, <1>7, <1>8, <1>9, <1>10 DEF Quiet
<1> QED BY <1>7, <1>11 DEF Rests

(* ottery_st_wipe, and ottery_st_init when it fails, hand out nothing.     *)
LEMMA ZeroedStep ==
  ASSUME IInv, NEW p \in Pids, Zeroed(p)
  PROVE  Rests(p)
<1>1. /\ Enter(p) /\ st' = [st EXCEPT ![p] = Blank(NoPid)]
      /\ UNCHANGED <<call, chunk, given, alive, used, handler, drawn>>
  BY DEF Zeroed
<1>2. /\ p \in alive /\ call[p] \in Calls /\ call[p].op = "idle"
      /\ call = [call EXCEPT ![p] = call[p]]
      /\ handler \in [Pids -> BOOLEAN] /\ ops' \in 0..MaxOps
      /\ drawn \in Seq(SUBSET Sources) /\ Len(drawn) \in Nat
  BY <1>1, Entered
<1>3. Quiet(p, Blank(NoPid), call[p])
  BY <1>1, <1>2, BlankType DEF Quiet
<1> QED BY <1>2, <1>3 DEF Rests

(* A fatal error in p: the state is as before, and the call is over.       *)
LEMMA FatalRests ==
  ASSUME IInv, NEW p \in Pids, p \in alive, call[p].op # "bytes", Fatal(p), ops' \in 0..MaxOps,
         UNCHANGED <<st, chunk, given, used, handler, drawn>>
  PROVE  Rests(p)
<1> DEFINE c == Idle(call[p])
<1>1. TypeOK
  BY DEF IInv
<1>2. /\ st \in [Pids -> St] /\ call[p] \in Calls
      /\ handler \in [Pids -> BOOLEAN] /\ drawn \in Seq(SUBSET Sources)
  BY <1>1 DEF TypeOK, St
<1>3. c \in Calls /\ c.op = "idle" /\ c.asked = call[p].asked
  BY <1>2, ZeroIsNumber DEF Idle, Calls
<1>4. call' = [call EXCEPT ![p] = c]
  BY DEF Fatal
<1> HIDE DEF c
<1>5. st[p] \in St /\ st' = [st EXCEPT ![p] = st[p]] /\ Len(drawn) \in Nat
  BY <1>2
<1>6. alive' \subseteq alive /\ alive \subseteq alive' \cup {p}
  BY DEF Fatal
<1>7. st[p].magic => /\ st[p].state.seed \in 1..Len(drawn') /\ st[p].pid \in used
                     /\ Ready(st[p])
  BY DEF IInv, StatesOK
<1>8. st[p].magic /\ st[p].pid = p => Holder(p, st[p], drawn', c.op)
  <2> SUFFICES ASSUME st[p].magic, st[p].pid = p PROVE Holder(p, st[p], drawn, "idle")
    BY <1>3
  <2>1. Holder(p, st[p], drawn, call[p].op)
    BY OwnHolds DEF Own
  <2>2. /\ MarkLen(st[p], call[p].op) = MarkLen(st[p], "idle")
        /\ MarkAt(st[p], call[p].op) = MarkAt(st[p], "idle")
    BY MarksOfOp
  <2> QED BY <2>1, <2>2 DEF Holder
<1>9. /\ drawn' \in Seq(SUBSET Sources) /\ Len(drawn') >= Len(drawn)
      /\ handler' \in [Pids -> BOOLEAN]
  BY <1>2, <1>5
<1>10. Quiet(p, st[p], c)
  BY <1>3, <1>4, <1>5, <1>6, <1>7, <1>8, <1>9 DEF Quiet
<1> QED BY <1>10 DEF Rests

(* The fatal error of a use before initialisation hands out nothing.       *)
LEMMA UseBeforeInitStep ==
  ASSUME IInv, NEW p \in Pids, UseBeforeInit(p)
  PROVE  Rests(p)
<1>1. /\ Enter(p) /\ Fatal(p)
      /\ UNCHANGED <<st, chunk, given, used, handler, drawn>>
  BY DEF UseBeforeInit
<1>2. p \in alive /\ call[p].op = "idle" /\ ops' \in 0..MaxOps
  BY <1>1, Entered
<1> QED BY <1>1, <1>2, FatalRests

(* A failed reseed in ottery_st_rand_check_pid hands out nothing.          *)
LEMMA CheckPidFailsStep ==
  ASSUME IInv, NEW p \in Pids, CheckPidFails(p)
  PROVE  Rests(p)
<1>1. /\ Fatal(p) /\ p \in alive /\ call[p].op # "bytes"
      /\ UNCHANGED <<st, chunk, given, used, handler, drawn>>
  BY DEF CheckPidFails
<1>2. ops' \in 0..MaxOps
  BY Parameters DEF CheckPidFails, IInv, TypeOK
<1> QED BY <1>1, <1>2, FatalRests

(* A call in p that changes neither its state nor its output.              *)
LEMMA SetFatalHandlerStep ==
  ASSUME IInv, NEW p \in Pids, SetFatalHandler(p)
  PROVE  Rests(p)
<1>1. /\ Enter(p) /\ handler' \in [Pids -> BOOLEAN]
      /\ UNCHANGED <<st, call, chunk, given, alive, used, drawn>>
  <2>1. handler \in [Pids -> BOOLEAN]
    BY DEF IInv, TypeOK
  <2> QED BY <2>1 DEF SetFatalHandler
<1>2. /\ p \in alive /\ st[p] \in St /\ call[p] \in Calls /\ call[p].op = "idle"
      /\ st = [st EXCEPT ![p] = st[p]] /\ call = [call EXCEPT ![p] = call[p]]
      /\ ops' \in 0..MaxOps /\ drawn \in Seq(SUBSET Sources) /\ Len(drawn) \in Nat
      /\ st[p].magic => /\ Ready(st[p]) /\ st[p].pid \in used
                        /\ st[p].state.seed \in 1..Len(drawn)
  BY <1>1, Entered
<1>3. st[p].magic /\ st[p].pid = p => Holder(p, st[p], drawn, call[p].op)
  BY <1>2, OwnHolds DEF Own
<1>4. Quiet(p, st[p], call[p])
  BY <1>1, <1>2, <1>3 DEF Quiet
<1> QED BY <1>2, <1>4 DEF Rests

(* Entering ottery_st_rand_range hands out nothing.                        *)
LEMMA RangeStartStep ==
  ASSUME IInv, NEW p \in Pids, RangeStart(p)
  PROVE  Rests(p)
<1>1. PICK n \in IntSizes, u \in Uppers :
        call' = [call EXCEPT ![p].op = "range", ![p].need = n, ![p].upper = u]
  BY DEF RangeStart
<1>2. /\ Enter(p) /\ st[p].magic
      /\ UNCHANGED <<st, chunk, given, alive, used, handler, drawn>>
  BY DEF RangeStart
<1>3. /\ p \in alive /\ st[p] \in St /\ call[p] \in Calls /\ call[p].op = "idle"
      /\ st = [st EXCEPT ![p] = st[p]] /\ handler \in [Pids -> BOOLEAN]
      /\ ops' \in 0..MaxOps /\ drawn \in Seq(SUBSET Sources) /\ Len(drawn) \in Nat
      /\ Ready(st[p]) /\ st[p].pid \in used /\ st[p].state.seed \in 1..Len(drawn)
  BY <1>2, Entered
<1> DEFINE c == [call[p] EXCEPT !.op = "range", !.need = n, !.upper = u]
<1>4. call' = [call EXCEPT ![p] = c]
  <2>1. call \in [Pids -> Calls]
    BY DEF IInv, TypeOK
  <2> QED BY <1>1, <2>1
<1>5. c \in Calls /\ c.op = "range" /\ c.need \in IntSizes /\ c.asked = call[p].asked
  <2>1. n \in Nat /\ u \in Numbers
    BY PrfShape, Parameters
  <2> QED BY <1>3, <2>1 DEF Calls
<1> HIDE DEF c
<1>6. st[p].pid = p => Holder(p, st[p], drawn, c.op)
  <2> SUFFICES ASSUME st[p].pid = p PROVE Holder(p, st[p], drawn, c.op)
    OBVIOUS
  <2>1. Holder(p, st[p], drawn, call[p].op)
    BY <1>2, <1>3, OwnHolds DEF Own
  <2>2. /\ MarkLen(st[p], call[p].op) = MarkLen(st[p], c.op)
        /\ MarkAt(st[p], call[p].op) = MarkAt(st[p], c.op)
    BY <1>3, <1>5, MarksOfOp
  <2> QED BY <2>1, <2>2 DEF Holder
<1>7. Quiet(p, st[p], c)
  BY <1>2, <1>3, <1>4, <1>5, <1>6 DEF Quiet
<1> QED BY <1>3, <1>7 DEF Rests

(* Mixing in a seed, whoever it comes from.                                *)
LEMMA AddSeedRests ==
  ASSUME IInv, NEW p \in Pids, Enter(p), st[p].magic,
         NEW n \in Nat, NEW mix \in Mixes, NEW flags \in SUBSET Sources,
         st' = [st EXCEPT ![p] = AddSeedImpl(@, n, mix, flags)],
         drawn' \in Seq(SUBSET Sources), Len(drawn') >= Len(drawn),
         UNCHANGED <<call, chunk, given, alive, used, handler>>
  PROVE  Rests(p)
<1> DEFINE t == AddSeedImpl(st[p], n, mix, flags)
<1>1. /\ p \in alive /\ st[p] \in St /\ call[p] \in Calls /\ call[p].op = "idle"
      /\ call = [call EXCEPT ![p] = call[p]] /\ handler \in [Pids -> BOOLEAN]
      /\ ops' \in 0..MaxOps /\ Len(drawn) \in Nat
      /\ Ready(st[p]) /\ st[p].pid \in used /\ st[p].state.seed \in 1..Len(drawn)
  BY Entered
<1>2. st[p].block_counter = 0 /\ PathLen(st[p]) >= 1
  BY <1>1 DEF Ready
<1>3. /\ t \in St /\ Ready(t) /\ t.state.seed = st[p].state.seed
      /\ PathLen(t) >= PathLen(st[p]) + 1
      /\ t.magic = st[p].magic /\ t.pid = st[p].pid
  <2>1. st[p] \in St
    BY <1>1
  <2> QED BY ONLY <1>2, <2>1, AddSeedImplSpec, n \in Nat, mix \in Mixes,
                  flags \in SUBSET Sources
<1>4. st' = [st EXCEPT ![p] = t]
  BY DEF IInv, TypeOK
<1> HIDE DEF t
<1>5. t.state.seed \in 1..Len(drawn')
  <2>1. Len(drawn') \in Nat
    OBVIOUS
  <2> QED BY <1>1, <1>3, <2>1
<1>6. t.pid = p => Holder(p, t, drawn', "idle")
  <2> SUFFICES ASSUME t.pid = p PROVE Holder(p, t, drawn', "idle")
    OBVIOUS
  <2>1. Holder(p, st[p], drawn, "idle")
    BY <1>1, <1>3, OwnHolds DEF Own
  <2>2. /\ MarkLen(st[p], "idle") = PathLen(st[p]) - 1
        /\ MarkLen(t, "idle") = PathLen(t) - 1
        /\ PathLen(st[p]) \in Nat /\ PathLen(t) \in Nat
    <3>1. PathLen(st[p]) \in Nat
      BY <1>1, <1>2, MarkType
    <3>2. PathLen(t) \in Nat
      BY <1>2, <1>3, <3>1, MarkType DEF Ready
    <3> QED BY <3>1, <3>2 DEF MarkLen
  <2>3. ASSUME NEW b \in given[p], b.key.seed = t.state.seed
        PROVE  Precedes(b, MarkLen(t, "idle"), MarkAt(t, "idle"))
    <3>1. b \in RealBytes
      BY DEF IInv, TypeOK
    <3>2. b.key.path \in Seq(Steps)
      BY <3>1 DEF RealBytes
    <3>3. Len(b.key.path) \in Nat
      BY <3>2
    <3>4. Precedes(b, MarkLen(st[p], "idle"), MarkAt(st[p], "idle"))
      BY <1>3, <2>1, <2>3 DEF Holder
    <3> QED BY <1>3, <2>2, <3>3, <3>4 DEF Precedes
  <2> QED BY <1>3, <1>5, <2>1, <2>3 DEF Holder
<1>7. Quiet(p, t, call[p])
  BY <1>1, <1>3, <1>4, <1>5, <1>6 DEF Quiet
<1> QED BY <1>1, <1>7 DEF Rests

(* ottery_st_add_seed with the caller's bytes hands out nothing.           *)
LEMMA AddSeedStep ==
  ASSUME IInv, NEW p \in Pids, AddSeed(p)
  PROVE  Rests(p)
<1>1. PICK u \in Seeds, n \in SeedLens : st' = [st EXCEPT ![p] = AddSeedImpl(@, n, -u, {})]
  BY DEF AddSeed, AddSeedOf
<1>2. /\ Enter(p) /\ st[p].magic
      /\ UNCHANGED <<call, chunk, given, alive, used, handler, drawn>>
  BY DEF AddSeed, AddSeedOf
<1>3. n \in Nat /\ -u \in Mixes /\ {} \in SUBSET Sources
  BY Parameters DEF Mixes
<1>4. drawn' \in Seq(SUBSET Sources) /\ Len(drawn') >= Len(drawn)
  BY <1>2, Entered
<1> QED BY <1>1, <1>2, <1>3, <1>4, AddSeedRests

(* ottery_st_add_seed with bytes of the system hands out nothing.          *)
LEMMA AddSeedFromSystemStep ==
  ASSUME IInv, NEW p \in Pids, AddSeedFromSystem(p)
  PROVE  Rests(p)
<1>1. PICK S \in Draws :
        /\ st' = [st EXCEPT ![p] = AddSeedImpl(@, DrawLen(S), NewDraw, S)]
        /\ drawn' = Append(drawn, S)
  BY DEF AddSeedFromSystem
<1>2. /\ Enter(p) /\ st[p].magic
      /\ UNCHANGED <<call, chunk, given, alive, used, handler>>
  BY DEF AddSeedFromSystem
<1>3. Len(drawn) \in Nat
  BY <1>2, Entered
<1>4. drawn' \in Seq(SUBSET Sources) /\ Len(drawn') >= Len(drawn)
  BY <1>1, <1>3, DrawMade
<1>5. DrawLen(S) \in Nat /\ NewDraw \in Mixes /\ S \in SUBSET Sources
  BY DrawMade
<1> QED BY <1>1, <1>2, <1>4, <1>5, AddSeedRests

(* ottery_st_prevent_backtracking hands out nothing and clears no byte     *)
(* that is still to come.                                                  *)
LEMMA StPreventBacktrackingStep ==
  ASSUME IInv, NEW p \in Pids, StPreventBacktracking(p)
  PROVE  Rests(p)
<1> DEFINE t == PreventBacktracking(st[p])
<1>1. /\ Enter(p) /\ st' = [st EXCEPT ![p] = t]
      /\ UNCHANGED <<call, chunk, given, alive, used, handler, drawn>>
  BY DEF StPreventBacktracking
<1>2. /\ p \in alive /\ st[p] \in St /\ call[p] \in Calls /\ call[p].op = "idle"
      /\ call = [call EXCEPT ![p] = call[p]]
      /\ handler \in [Pids -> BOOLEAN] /\ ops' \in 0..MaxOps
      /\ drawn \in Seq(SUBSET Sources) /\ Len(drawn) \in Nat
      /\ st[p].magic => /\ Ready(st[p]) /\ st[p].pid \in used
                        /\ st[p].state.seed \in 1..Len(drawn)
  BY <1>1, Entered
<1>3. /\ t \in St /\ t.state = st[p].state /\ t.pos = st[p].pos
      /\ t.block_counter = st[p].block_counter
      /\ t.magic = st[p].magic /\ t.pid = st[p].pid
      /\ Ready(st[p]) => Ready(t)
  <2>1. st[p] \in St
    BY <1>2
  <2> QED BY ONLY <2>1, PreventBacktrackingSpec
<1> HIDE DEF t
<1>4. t.magic /\ t.pid = p => Holder(p, t, drawn', call[p].op)
  <2> SUFFICES ASSUME t.magic, t.pid = p PROVE Holder(p, t, drawn, call[p].op)
    BY <1>1
  <2>1. Holder(p, st[p], drawn, call[p].op)
    BY <1>2, <1>3, OwnHolds DEF Own
  <2>2. /\ MarkLen(t, call[p].op) = MarkLen(st[p], call[p].op)
        /\ MarkAt(t, call[p].op) = MarkAt(st[p], call[p].op)
    BY <1>3 DEF MarkLen, MarkAt, PathLen, Base, Offset
  <2> QED BY <1>3, <2>1, <2>2 DEF Holder
<1>5. /\ drawn' \in Seq(SUBSET Sources) /\ Len(drawn') >= Len(drawn)
      /\ handler' \in [Pids -> BOOLEAN]
  BY <1>1, <1>2
<1>6. Quiet(p, t, call[p])
  BY <1>1, <1>2, <1>3, <1>4, <1>5 DEF Quiet
<1> QED BY <1>2, <1>6 DEF Rests

(* The end of a process hands out nothing.                                 *)
LEMMA ExitStep ==
  ASSUME IInv, NEW p \in Pids, Exit(p)
  PROVE  Rests(p)
<1> DEFINE c == Idle(call[p])
<1>1. /\ p \in alive /\ alive' = alive \ {p} /\ call' = [call EXCEPT ![p] = c]
      /\ UNCHANGED <<st, chunk, given, used, handler, drawn, ops>>
  BY DEF Exit
<1>2. /\ st \in [Pids -> St] /\ call[p] \in Calls /\ ops \in 0..MaxOps
      /\ handler \in [Pids -> BOOLEAN] /\ drawn \in Seq(SUBSET Sources)
  BY DEF IInv, TypeOK, St
<1>3. c \in Calls /\ c.op = "idle" /\ c.asked = call[p].asked
  BY <1>2, ZeroIsNumber DEF Idle, Calls
<1> HIDE DEF c
<1>4. st[p] \in St /\ st' = [st EXCEPT ![p] = st[p]]
  BY <1>1, <1>2
<1>5. /\ drawn' \in Seq(SUBSET Sources) /\ Len(drawn') >= Len(drawn)
      /\ handler' \in [Pids -> BOOLEAN] /\ ops' \in 0..MaxOps
      /\ alive' \subseteq alive /\ alive \subseteq alive' \cup {p} /\ p \notin alive'
  BY <1>1, <1>2
<1>6. Quiet(p, st[p], c)
  BY <1>1, <1>3, <1>4, <1>5 DEF Quiet
<1> QED BY <1>1, <1>6 DEF Rests

(* The actions that hand out output.                                       *)
LEMMA RandBytesSmallStep ==
  ASSUME IInv, NEW p \in Pids, RandBytesSmall(p)
  PROVE  Hands(p)
<1>1. PICK k \in CheckPid(p), n \in Requests :
        /\ FitsInTwoBlocks(k.st, n)
        /\ Deliver(p, FromBuf(k.st, n))
        /\ call' = [call EXCEPT ![p].asked = n]
        /\ drawn' = k.drawn
  BY DEF RandBytesSmall
<1>2. Enter(p) /\ st[p].magic /\ UNCHANGED <<alive, used, handler>>
  BY DEF RandBytesSmall
<1>3. p \in alive /\ call[p] \in Calls /\ call[p].op = "idle" /\ ops' \in 0..MaxOps
  BY <1>2, Entered
<1>4. Live(k.st) /\ Holder(p, k.st, k.drawn, "idle")
  BY <1>2, <1>3, CheckPidSpec
<1>5. k.st.pos \in Nat /\ n \in Nat /\ StateBytes <= k.st.pos
  BY <1>4, LiveMarks, Parameters
<1>6. k.st.pos + n < 2 * OutputLen - StateBytes /\ n \in 0..(2 * OutputLen)
  BY <1>1, <1>5, PrfShape DEF FitsInTwoBlocks
<1>7. Moves(k.st, "idle", FromBuf(k.st, n), "idle", n) /\ Live(FromBuf(k.st, n).st)
  BY <1>4, <1>5, <1>6, FromBufSpec
<1> DEFINE c == [call[p] EXCEPT !.asked = n]
<1>8. call' = [call EXCEPT ![p] = c] /\ c \in Calls /\ c.op = "idle" /\ c.asked = n
  <2>1. call \in [Pids -> Calls]
    BY DEF IInv, TypeOK
  <2> QED BY <1>1, <1>3, <1>5, <2>1 DEF Calls
<1> HIDE DEF c
<1>9. Ready(FromBuf(k.st, n).st)
  BY <1>7 DEF Live
<1>10. Accounts(p, n, c)
  BY <1>3, <1>5, <1>8 DEF Accounts
<1>11. Gives(p, k.st, k.drawn, "idle", FromBuf(k.st, n), "idle", n, c)
  BY <1>1, <1>2, <1>3, <1>4, <1>6, <1>7, <1>8, <1>9, <1>10 DEF Gives
<1> QED BY <1>3, <1>11 DEF Hands

(* The rand integer functions hand out the bytes of one integer.           *)
LEMMA RandIntegerStep ==
  ASSUME IInv, NEW p \in Pids, RandInteger(p)
  PROVE  Hands(p)
<1>1. PICK k \in CheckPid(p), n \in IntSizes :
        /\ Deliver(p, RandInt(k.st, n))
        /\ call' = [call EXCEPT ![p].asked = n]
        /\ drawn' = k.drawn
  BY DEF RandInteger
<1>2. Enter(p) /\ st[p].magic /\ UNCHANGED <<alive, used, handler>>
  BY DEF RandInteger
<1>3. p \in alive /\ call[p] \in Calls /\ call[p].op = "idle" /\ ops' \in 0..MaxOps
  BY <1>2, Entered
<1>4. Live(k.st) /\ Holder(p, k.st, k.drawn, "idle")
  BY <1>2, <1>3, CheckPidSpec
<1>5. n \in Nat /\ n \in 0..(2 * OutputLen)
  BY PrfShape
<1>6. Moves(k.st, "idle", RandInt(k.st, n), "idle", n) /\ Live(RandInt(k.st, n).st)
  BY <1>4, RandIntSpec
<1> DEFINE c == [call[p] EXCEPT !.asked = n]
<1>7. call' = [call EXCEPT ![p] = c] /\ c \in Calls /\ c.op = "idle" /\ c.asked = n
  <2>1. call \in [Pids -> Calls]
    BY DEF IInv, TypeOK
  <2> QED BY <1>1, <1>3, <1>5, <2>1 DEF Calls
<1> HIDE DEF c
<1>8. Ready(RandInt(k.st, n).st)
  BY <1>6 DEF Live
<1>9. Accounts(p, n, c)
  BY <1>3, <1>5, <1>7 DEF Accounts
<1>10. Gives(p, k.st, k.drawn, "idle", RandInt(k.st, n), "idle", n, c)
  BY <1>1, <1>2, <1>3, <1>4, <1>5, <1>6, <1>7, <1>8, <1>9 DEF Gives
<1> QED BY <1>3, <1>10 DEF Hands

(* A bulk request starts with the rest of the buffer, and its key's stream *)
(* is long enough for the rest of it.                                      *)
LEMMA RandBytesBulkStep ==
  ASSUME IInv, ShortRequests, NEW p \in Pids, RandBytesBulk(p)
  PROVE  Hands(p)
<1>1. PICK k \in CheckPid(p), n \in Requests :
        /\ ~FitsInTwoBlocks(k.st, n)
        /\ Deliver(p, BulkTail(k.st))
        /\ call' = [call EXCEPT ![p] = [op |-> "bytes", asked |-> n,
                                        need |-> n - (OutputLen - k.st.pos),
                                        upper |-> 0]]
        /\ drawn' = k.drawn
  BY DEF RandBytesBulk
<1>2. Enter(p) /\ st[p].magic /\ UNCHANGED <<alive, used, handler>>
  BY DEF RandBytesBulk
<1>3. p \in alive /\ call[p].op = "idle" /\ ops' \in 0..MaxOps
  BY <1>2, Entered
<1>4. Live(k.st) /\ Holder(p, k.st, k.drawn, "idle")
  BY <1>2, <1>3, CheckPidSpec
<1> DEFINE m == OutputLen - k.st.pos
           c == [op |-> "bytes", asked |-> n, need |-> n - m, upper |-> 0]
<1>5. /\ k.st.pos \in Nat /\ n \in Nat /\ StateBytes <= k.st.pos
      /\ k.st.pos < OutputLen /\ PathLen(k.st) >= 1
  BY <1>4, LiveMarks, Parameters
<1>6. m \in 0..(2 * OutputLen) /\ m <= n /\ n - m \in Nat
  BY <1>1, <1>5, PrfShape DEF FitsInTwoBlocks
<1>7. Moves(k.st, "idle", BulkTail(k.st), "bytes", m)
  BY <1>4, BulkTailSpec
<1>8. /\ call' = [call EXCEPT ![p] = c] /\ c \in Calls
      /\ c.op = "bytes" /\ c.asked = n /\ c.need = n - m
  BY <1>1, <1>5, <1>6, ZeroIsNumber DEF Calls
<1> HIDE DEF c
<1>9. Running(BulkTail(k.st).st, c)
  <2>1. BulkTail(k.st).st = k.st
    BY DEF BulkTail, Yield
  <2>2. Offset(k.st) = 0
    BY <1>4, PrfShape DEF Live, Ready, Offset
  <2>3. n + OutputLen <= StreamLen
    BY DEF ShortRequests
  <2>4. 0 + c.need + OutputLen <= StreamLen /\ c.need <= c.asked
    BY <1>5, <1>6, <1>8, <2>3, PrfShape
  <2> QED BY <1>5, <2>1, <2>2, <2>4 DEF Running
<1>10. Accounts(p, m, c)
  BY <1>3, <1>6, <1>8 DEF Accounts
<1> HIDE DEF m
<1>11. Gives(p, k.st, k.drawn, "idle", BulkTail(k.st), "bytes", m, c)
  BY <1>1, <1>2, <1>3, <1>4, <1>6, <1>7, <1>8, <1>9, <1>10 DEF Gives
<1> QED BY <1>3, <1>11 DEF Hands

(* What the invariant says of a process inside the bulk loop.              *)
LEMMA InLoop ==
  ASSUME IInv, NEW p \in Pids, InBytes(p)
  PROVE  /\ p \in alive /\ st[p] \in St /\ call \in [Pids -> Calls]
         /\ call[p].op = "bytes" /\ call[p].need \in Nat /\ call[p].asked \in Nat
         /\ st[p].state.seed # 0 /\ PathLen(st[p]) >= 1
         /\ call[p].need <= call[p].asked /\ Offset(st[p]) \in Nat
         /\ Offset(st[p]) + call[p].need + OutputLen <= StreamLen
         /\ StateBytes <= st[p].pos /\ st[p].pos < OutputLen
         /\ Holder(p, st[p], drawn, "bytes") /\ ops \in 0..MaxOps
<1>1. p \in alive /\ call[p].op = "bytes"
  BY DEF InBytes
<1>2. st[p] \in St /\ call \in [Pids -> Calls] /\ ops \in 0..MaxOps
  BY DEF IInv, TypeOK, St
<1>3. Own(p)
  BY <1>1 DEF IInv, CallsOK, Own
<1>4. Running(st[p], call[p]) /\ st[p].state.seed \in 1..Len(drawn)
  BY <1>1, <1>3 DEF IInv, StatesOK, Own
<1>5. call[p].need \in Nat /\ call[p].asked \in Nat
  BY <1>2 DEF Calls
<1>6. st[p].block_counter \in Nat
  BY <1>2 DEF St, States
<1>7. Offset(st[p]) \in Nat
  BY <1>6, PrfShape DEF Offset
<1>8. Holder(p, st[p], drawn, "bytes")
  BY <1>1, <1>3, OwnHolds
<1> QED BY <1>1, <1>2, <1>4, <1>5, <1>7, <1>8 DEF Running

(* A round of the bulk loop hands out a block of the current key's stream. *)
LEMMA RandBytesBlockStep ==
  ASSUME IInv, NEW p \in Pids, RandBytesBlock(p)
  PROVE  Hands(p)
<1>1. /\ InBytes(p) /\ call[p].need >= OutputLen
      /\ Deliver(p, BulkBlock(st[p]))
      /\ call' = [call EXCEPT ![p].need = @ - OutputLen]
      /\ UNCHANGED <<alive, used, handler, drawn, ops>>
  BY DEF RandBytesBlock
<1>2. /\ p \in alive /\ st[p] \in St /\ call \in [Pids -> Calls]
      /\ call[p].op = "bytes" /\ call[p].need \in Nat /\ call[p].asked \in Nat
      /\ st[p].state.seed # 0 /\ PathLen(st[p]) >= 1
      /\ call[p].need <= call[p].asked /\ Offset(st[p]) \in Nat
      /\ Offset(st[p]) + call[p].need + OutputLen <= StreamLen
      /\ StateBytes <= st[p].pos /\ st[p].pos < OutputLen
      /\ Holder(p, st[p], drawn, "bytes") /\ ops \in 0..MaxOps
  BY <1>1, InLoop
<1> DEFINE y == BulkBlock(st[p])
           c == [call[p] EXCEPT !.need = @ - OutputLen]
<1>3. Offset(st[p]) + OutputLen <= StreamLen /\ OutputLen \in 0..(2 * OutputLen)
  BY <1>2, PrfShape
<1>4. /\ Moves(st[p], "bytes", y, "bytes", OutputLen)
      /\ y.st.state = st[p].state /\ y.st.pos = st[p].pos
      /\ Offset(y.st) = Offset(st[p]) + OutputLen
  BY <1>2, <1>3, BulkBlockSpec
<1>5. /\ call' = [call EXCEPT ![p] = c] /\ c \in Calls /\ c.op = "bytes"
      /\ c.asked = call[p].asked /\ c.need = call[p].need - OutputLen
  <2>1. call[p].need - OutputLen \in Nat
    BY <1>1, <1>2, PrfShape
  <2> QED BY <1>1, <1>2, <2>1 DEF Calls
<1>6. Deliver(p, y) /\ UNCHANGED <<alive, used, handler, drawn, ops>>
  BY <1>1
<1> HIDE DEF y, c
<1>7. Running(y.st, c)
  <2>1. PathLen(y.st) >= 1 /\ StateBytes <= y.st.pos /\ y.st.pos < OutputLen
    BY <1>2, <1>4 DEF PathLen
  <2>2. c.need <= c.asked /\ Offset(y.st) + c.need + OutputLen <= StreamLen
    BY <1>1, <1>2, <1>4, <1>5, PrfShape
  <2> QED BY <2>1, <2>2 DEF Running
<1>8. Accounts(p, OutputLen, c)
  BY <1>1, <1>2, <1>5, PrfShape DEF Accounts
<1>9. Gives(p, st[p], drawn, "bytes", y, "bytes", OutputLen, c)
  BY <1>2, <1>3, <1>4, <1>5, <1>6, <1>7, <1>8 DEF Gives
<1> QED BY <1>2, <1>9 DEF Hands

(* The end of a bulk request hands out what is missing, from a stirred     *)
(* block.                                                                  *)
LEMMA RandBytesEndStep ==
  ASSUME IInv, NEW p \in Pids, RandBytesEnd(p)
  PROVE  Hands(p)
<1> DEFINE n == call[p].need
           y == BulkEnd(st[p], n)
           c == Idle(call[p])
<1>1. /\ InBytes(p) /\ n < OutputLen /\ Deliver(p, y)
      /\ call' = [call EXCEPT ![p] = c]
      /\ UNCHANGED <<alive, used, handler, drawn, ops>>
  BY DEF RandBytesEnd
<1>2. /\ p \in alive /\ st[p] \in St /\ call \in [Pids -> Calls]
      /\ call[p].op = "bytes" /\ n \in Nat /\ call[p].asked \in Nat
      /\ st[p].state.seed # 0 /\ PathLen(st[p]) >= 1
      /\ n <= call[p].asked /\ Offset(st[p]) \in Nat
      /\ Offset(st[p]) + n + OutputLen <= StreamLen
      /\ Holder(p, st[p], drawn, "bytes") /\ ops \in 0..MaxOps
  BY <1>1, InLoop
<1>3. Offset(st[p]) + OutputLen <= StreamLen /\ n \in 0..(2 * OutputLen)
  BY <1>1, <1>2, PrfShape
<1>4. Moves(st[p], "bytes", y, "idle", n) /\ Live(y.st)
  BY <1>1, <1>2, <1>3, BulkEndSpec
<1>5. /\ c \in Calls /\ c.op = "idle" /\ c.asked = call[p].asked
  BY <1>2, ZeroIsNumber DEF Calls, Idle
<1> HIDE DEF y, c
<1>6. Ready(y.st)
  BY <1>4 DEF Live
<1>7. Accounts(p, n, c)
  BY <1>2, <1>5 DEF Accounts
<1> HIDE DEF n
<1>8. Gives(p, st[p], drawn, "bytes", y, "idle", n, c)
  BY <1>1, <1>2, <1>3, <1>4, <1>5, <1>6, <1>7 DEF Gives
<1> QED BY <1>2, <1>8 DEF Hands

(* A draw of the rejection loop, whatever becomes of it.                   *)
LEMMA RangeDrawStep ==
  ASSUME IInv, NEW p \in Pids, RangeDraw(p), ops' \in 0..MaxOps,
         NEW c \in Calls, call' = [call EXCEPT ![p] = c], c.asked = call[p].need,
         c.op \in {"idle", "range"}, c.op = "range" => c.need = call[p].need
  PROVE  Hands(p)
<1> DEFINE n == call[p].need
<1>1. PICK k \in CheckPid(p) : Deliver(p, RandInt(k.st, n)) /\ drawn' = k.drawn
  BY DEF RangeDraw
<1>2. p \in alive /\ call[p].op = "range" /\ UNCHANGED <<alive, used, handler>>
  BY DEF RangeDraw
<1>3. st[p].magic /\ n \in IntSizes
  BY <1>2 DEF IInv, CallsOK
<1>4. Live(k.st) /\ Holder(p, k.st, k.drawn, "idle")
  BY <1>2, <1>3, CheckPidSpec
<1> DEFINE y == RandInt(k.st, n)
<1>5. Moves(k.st, "idle", y, "idle", n) /\ Live(y.st)
  BY <1>3, <1>4, RandIntSpec
<1>6. n \in Nat /\ n \in 0..(2 * OutputLen)
  <2>1. \A m \in IntSizes : m \in Nat /\ m \in 0..(2 * OutputLen)
    BY PrfShape
  <2> QED BY <1>3, <2>1
<1>7. Accounts(p, n, c)
  BY <1>2, <1>6 DEF Accounts
<1> HIDE DEF y
<1>8. Ready(y.st)
  BY <1>5 DEF Live
<1>9. Deliver(p, y) /\ drawn' = k.drawn
  BY <1>1 DEF y
<1>10. /\ c.op = "range" => c.need \in IntSizes
       /\ c.op # "bytes"
  BY <1>3
<1> HIDE DEF n
<1>11. Gives(p, k.st, k.drawn, "idle", y, "idle", n, c)
  BY <1>2, <1>4, <1>5, <1>6, <1>7, <1>8, <1>9, <1>10 DEF Gives
<1> QED BY <1>2, <1>11 DEF Hands

(* A rejected and an accepted draw of ottery_st_rand_range both count as   *)
(* handed out.                                                             *)
LEMMA RangeStep ==
  ASSUME IInv, NEW p \in Pids, RangeReject(p) \/ RangeAccept(p)
  PROVE  Hands(p)
<1>1. /\ RangeDraw(p) /\ p \in Pids /\ call \in [Pids -> Calls] /\ ops \in 0..MaxOps
      /\ call[p].op = "range"
  BY DEF RangeReject, RangeAccept, RangeDraw, IInv, TypeOK
<1>2. call[p] \in Calls /\ call[p].need \in Nat
  BY <1>1 DEF Calls
<1>3. CASE RangeReject(p)
  <2> DEFINE c == [call[p] EXCEPT !.asked = call[p].need]
  <2>1. /\ call' = [call EXCEPT ![p] = c] /\ c \in Calls /\ c.op = "range"
        /\ c.asked = call[p].need /\ c.need = call[p].need
    BY <1>1, <1>2, <1>3 DEF RangeReject, Calls
  <2>2. ops' \in 0..MaxOps
    BY <1>1, <1>3, Parameters DEF RangeReject
  <2> HIDE DEF c
  <2> QED BY <1>1, <2>1, <2>2, RangeDrawStep
<1>4. CASE RangeAccept(p)
  <2> DEFINE c == [op |-> "idle", asked |-> call[p].need, need |-> 0, upper |-> 0]
  <2>1. /\ call' = [call EXCEPT ![p] = c] /\ c \in Calls /\ c.op = "idle"
        /\ c.asked = call[p].need
    BY <1>1, <1>2, <1>4, ZeroIsNumber DEF RangeAccept, Calls
  <2>2. ops' \in 0..MaxOps
    BY <1>1, <1>4 DEF RangeAccept
  <2> HIDE DEF c
  <2> QED BY <1>1, <2>1, <2>2, RangeDrawStep
<1> QED BY <1>3, <1>4

(* fork, when pids are not reused: the child holds a copy of a state that  *)
(* is marked as another process's, and has been given nothing.             *)
LEMMA ForkStep ==
  ASSUME IInv, ~PidReuse, NEW p \in Pids, Fork(p)
  PROVE  IInv'
<1>1. PICK q \in Pids \ alive :
        /\ q \notin used
        /\ alive' = alive \cup {q} /\ used' = used \cup {q}
        /\ st' = [st EXCEPT ![q] = st[p]]
        /\ handler' = [handler EXCEPT ![q] = handler[p]]
  BY DEF Fork
<1>2. Enter(p) /\ UNCHANGED <<call, chunk, given, drawn>>
  BY DEF Fork
<1>3. /\ p \in alive /\ st[p] \in St /\ call[p].op = "idle" /\ ops' \in 0..MaxOps
      /\ st[p].magic => /\ Ready(st[p]) /\ st[p].pid \in used
                        /\ st[p].state.seed \in 1..Len(drawn)
  BY <1>2, Entered
<1>4. TypeOK /\ st \in [Pids -> St] /\ handler \in [Pids -> BOOLEAN]
  BY DEF IInv, TypeOK, St
<1>5. /\ st'[q] = st[p] /\ call' = call /\ given' = given /\ drawn' = drawn
      /\ \A r \in Pids : r # q => st'[r] = st[r] /\ (r \in alive' <=> r \in alive)
  BY <1>1, <1>2, <1>4
<1>6. call[q].op = "idle"
  BY <1>1 DEF IInv, CallsOK
<1>7. ~Own(q)' /\ \A r \in Pids : r # q => (Own(r)' <=> Own(r))
  <2>1. ~Own(q)'
    BY <1>1, <1>3, <1>5 DEF Own
  <2> QED BY <1>5, <2>1 DEF Own
<1>8. TypeOK'
  <2>1. /\ st' \in [Pids -> St] /\ handler' \in [Pids -> BOOLEAN]
        /\ alive' \subseteq used' /\ used' \subseteq Pids
    BY <1>1, <1>3, <1>4 DEF TypeOK
  <2> QED BY <1>2, <1>3, <1>4, <2>1 DEF TypeOK, St
<1>9. StatesOK'
  <2> SUFFICES ASSUME NEW r \in alive', st'[r].magic
               PROVE  /\ st'[r].state.seed \in 1..Len(drawn)
                      /\ st'[r].pid \in used'
                      /\ IF call[r].op = "bytes" THEN Running(st'[r], call[r]) ELSE Ready(st'[r])
    BY <1>5 DEF StatesOK, Running, Ready, PathLen, Base, Offset
  <2>1. CASE r = q
    BY <1>1, <1>3, <1>5, <1>6, <2>1
  <2>2. CASE r # q
    <3>1. r \in alive /\ r \in Pids /\ st'[r] = st[r]
      BY <1>1, <1>4, <1>5, <2>2 DEF TypeOK
    <3> QED BY <1>1, <3>1 DEF IInv, StatesOK
  <2> QED BY <2>1, <2>2
<1>10. CallsOK'
  <2> SUFFICES ASSUME NEW r \in Pids
               PROVE  /\ call[r].op # "idle" => r \in alive' /\ st'[r].magic
                      /\ call[r].op = "bytes" => st'[r].pid = r
                      /\ call[r].op = "range" => call[r].need \in IntSizes
    BY <1>5 DEF CallsOK
  <2>1. CASE r = q
    BY <1>6, <2>1
  <2>2. CASE r # q
    BY <1>5, <2>2 DEF IInv, CallsOK
  <2> QED BY <2>1, <2>2
<1>11. GivenOK'
  <2>1. ASSUME NEW r \in Pids, NEW b \in given[r] PROVE b.key.seed <= Len(drawn)
    BY DEF IInv, GivenOK
  <2>2. ASSUME NEW r \in Pids, Own(r)', NEW b \in given[r], b.key.seed = st'[r].state.seed
        PROVE  Precedes(b, MarkLen(st'[r], call[r].op), MarkAt(st'[r], call[r].op))
    <3>1. r # q /\ Own(r) /\ st'[r] = st[r]
      BY <1>5, <1>7, <2>2
    <3> QED BY <2>2, <3>1 DEF IInv, GivenOK
  <2> QED BY <1>5, <2>1, <2>2 DEF GivenOK, Precedes, MarkLen, MarkAt, PathLen, Base, Offset
<1>12. SeedsApart'
  <2> SUFFICES ASSUME NEW r \in Pids, NEW s \in Pids, Own(r)', r # s
               PROVE  /\ \A b \in given[s] : b.key.seed # st'[r].state.seed
                      /\ Own(s)' => st'[s].state.seed # st'[r].state.seed
    BY <1>5 DEF SeedsApart
  <2>1. r # q /\ Own(r) /\ st'[r] = st[r]
    BY <1>5, <1>7
  <2>2. Own(s)' => Own(s) /\ st'[s] = st[s]
    BY <1>5, <1>7
  <2> QED BY <2>1, <2>2 DEF IInv, SeedsApart
<1> QED BY <1>8, <1>9, <1>10, <1>11, <1>12 DEF IInv

-----------------------------------------------------------------------------
(* Every step of a process is of one of three kinds.                       *)
LEMMA StepKinds ==
  ASSUME IInv, ShortRequests, NEW p \in Pids, Step(p)
  PROVE  Rests(p) \/ Hands(p) \/ Fork(p)
<1>1. CASE StInit(p)
  BY <1>1, StInitStep
<1>2. CASE StInitFails(p) \/ StWipe(p)
  BY <1>2, ZeroedStep DEF StInitFails, StWipe
<1>3. CASE UseBeforeInit(p)
  BY <1>3, UseBeforeInitStep
<1>4. CASE SetFatalHandler(p)
  BY <1>4, SetFatalHandlerStep
<1>5. CASE AddSeed(p)
  BY <1>5, AddSeedStep
<1>6. CASE AddSeedFromSystem(p)
  BY <1>6, AddSeedFromSystemStep
<1>7. CASE StPreventBacktracking(p)
  BY <1>7, StPreventBacktrackingStep
<1>8. CASE CheckPidFails(p)
  BY <1>8, CheckPidFailsStep
<1>9. CASE RandBytesSmall(p)
  BY <1>9, RandBytesSmallStep
<1>10. CASE RandBytesBulk(p)
  BY <1>10, RandBytesBulkStep
<1>11. CASE BulkStep(p)
  BY <1>11, RandBytesBlockStep, RandBytesEndStep DEF BulkStep
<1>12. CASE RandInteger(p)
  BY <1>12, RandIntegerStep
<1>13. CASE RangeStart(p)
  BY <1>13, RangeStartStep
<1>14. CASE RangeReject(p) \/ RangeAccept(p)
  BY <1>14, RangeStep
<1>15. CASE Fork(p)
  BY <1>15
<1>16. CASE Exit(p)
  BY <1>16, ExitStep
<1> QED BY <1>1, <1>2, <1>3, <1>4, <1>5, <1>6, <1>7, <1>8, <1>9, <1>10, <1>11,
           <1>12, <1>13, <1>14, <1>15, <1>16 DEF Step

(* Every step keeps the invariant: one case per kind of step.              *)
LEMMA NextSafe ==
  ASSUME IInv, ~PidReuse, ShortRequests, [Next]_vars
  PROVE  IInv'
<1>1. CASE UNCHANGED vars
  <2>1. /\ st' = st /\ call' = call /\ chunk' = chunk /\ given' = given /\ alive' = alive
        /\ used' = used /\ handler' = handler /\ drawn' = drawn /\ ops' = ops
    BY <1>1 DEF vars
  <2>2. TypeOK'
    BY <2>1 DEF IInv, TypeOK
  <2>3. StatesOK'
    BY <2>1 DEF IInv, StatesOK, Running, Ready, PathLen, Base, Offset
  <2>4. CallsOK'
    BY <2>1 DEF IInv, CallsOK
  <2>5. GivenOK' /\ SeedsApart'
    BY <2>1 DEF IInv, GivenOK, SeedsApart, Own, Precedes, MarkLen, MarkAt, PathLen, Base, Offset
  <2> QED BY <2>2, <2>3, <2>4, <2>5 DEF IInv
<1>2. ASSUME NEW p \in Pids, Step(p) PROVE IInv'
  <2>1. CASE Rests(p)
    BY <2>1, QuietSafe DEF Rests
  <2>2. CASE Hands(p)
    BY <2>2, DeliverSafe DEF Hands
  <2>3. CASE Fork(p)
    BY <2>3, ForkStep
  <2> QED BY <1>2, <2>1, <2>2, <2>3, StepKinds
<1> QED BY <1>1, <1>2 DEF Next

(* The invariant holds before the first call.                              *)
LEMMA InitSafe == Init => IInv
<1> SUFFICES ASSUME Init PROVE IInv
  OBVIOUS
<1>1. \A p \in Pids : st[p] = Blank(NoPid) /\ given[p] = {} /\ call[p].op = "idle"
  BY DEF Init
<1>2. \A p \in Pids : ~st[p].magic
  BY <1>1, BlankType
<1>3. TypeOK
  <2>1. st \in [Pids -> St]
    BY BlankType DEF Init
  <2>2. call \in [Pids -> Calls] /\ given \in [Pids -> SUBSET RealBytes]
    BY ZeroIsNumber DEF Init, Calls
  <2>3. DOMAIN chunk = Pids /\ \A p \in Pids : IsChunk(chunk[p])
    <3>1. 0 \in 0..(2 * OutputLen)
      BY PrfShape
    <3>2. [i \in 0..(-1) |-> 0] \in [0..(0 - 1) -> RealBytes]
      OBVIOUS
    <3>3. IsChunk([i \in 0..(-1) |-> 0])
      BY <3>1, <3>2 DEF IsChunk
    <3> QED BY <3>3 DEF Init
  <2>4. /\ alive \subseteq used /\ used \subseteq Pids /\ handler \in [Pids -> BOOLEAN]
        /\ drawn \in Seq(SUBSET Sources) /\ ops \in 0..MaxOps
    BY Parameters DEF Init
  <2> QED BY <2>1, <2>2, <2>3, <2>4 DEF TypeOK, St
<1>4. alive \subseteq Pids
  BY Parameters DEF Init
<1>5. StatesOK /\ CallsOK
  BY <1>1, <1>2, <1>4 DEF StatesOK, CallsOK
<1>6. GivenOK /\ SeedsApart
  BY <1>1, <1>2 DEF GivenOK, SeedsApart, Own
<1> QED BY <1>3, <1>5, <1>6 DEF IInv

(* The inductive invariant holds for ever when pids are not reused and no  *)
(* request runs through the whole stream of a key.                         *)
THEOREM Invariance ==
  ASSUME ~PidReuse, ShortRequests
  PROVE  Spec => []IInv
<1>1. IInv /\ [Next]_vars => IInv'
  BY NextSafe
<1> QED BY <1>1, InitSafe, PTL DEF Spec

(* Every variable keeps its type: in particular, whatever is written for a *)
(* caller (RandBytes*, RandInteger, RangeDraw) is PRF output under a key   *)
(* drawn from the system, never a cleared byte and never the zeroed key's. *)
THEOREM TypeCorrect ==
  ASSUME ~PidReuse, ShortRequests
  PROVE  Spec => []TypeOK
<1>1. IInv => TypeOK
  BY DEF IInv
<1> QED BY <1>1, Invariance, PTL

(* pos stays between state_bytes and output_len, as its comment in         *)
(* ottery-internal.h says and as the assertion of                          *)
(* ottery_st_rand_bytes_from_buf demands, after any sequence of calls.     *)
THEOREM PosStaysInRange ==
  ASSUME ~PidReuse, ShortRequests
  PROVE  Spec => []PosInRange
<1>1. IInv => PosInRange
  BY DEF IInv, StatesOK, PosInRange, Running, Ready
<1> QED BY <1>1, Invariance, PTL

(* Backtracking resistance: between calls, the key that                    *)
(* ottery_st_nextblock left in a state generates nothing that was given    *)
(* out before, to anyone.                                                  *)
THEOREM BacktrackingResistance ==
  ASSUME ~PidReuse, ShortRequests
  PROVE  Spec => []KeyForgetsGiven
<1>1. IInv => KeyForgetsGiven
  <2> SUFFICES ASSUME IInv, NEW p \in Pids, NEW q \in Pids, Own(p), call[p].op # "bytes",
                      NEW b \in given[q], b.key.seed = st[p].state.seed
               PROVE  ~(Len(b.key.path) >= Len(st[p].state.path))
    BY DEF KeyForgetsGiven, Derives
  <2>1. p = q
    BY DEF IInv, SeedsApart
  <2>2. st[p] \in St /\ b \in RealBytes
    BY DEF IInv, TypeOK, St
  <2>3. st[p].state.path \in Seq(Steps) /\ b.key.path \in Seq(Steps)
    BY <2>2 DEF St, States, Keys, RealBytes
  <2>4. Len(st[p].state.path) \in Nat /\ Len(b.key.path) \in Nat
    BY <2>3
  <2>5. Precedes(b, PathLen(st[p]) - 1, MarkAt(st[p], call[p].op))
    BY <2>1 DEF IInv, GivenOK, MarkLen
  <2> QED BY <2>4, <2>5 DEF Precedes, PathLen
<1> QED BY <1>1, Invariance, PTL

-----------------------------------------------------------------------------
(* The refinement.                                                         *)

(* A step that hands out nothing leaves no request open.                   *)
LEMMA RestsAbandons ==
  ASSUME IInv, NEW p \in Pids, Rests(p)
  PROVE  Promise!Abandon(p)
<1>1. PICK t, c : Quiet(p, t, c)
  BY DEF Rests
<1>2. /\ call' = [call EXCEPT ![p] = c] /\ c.op # "bytes" /\ c.asked = call[p].asked
      /\ given' = given /\ chunk' = chunk
  BY <1>1 DEF Quiet
<1>3. call \in [Pids -> Calls]
  BY DEF IInv, TypeOK
<1>4. \A q \in Pids : call'[q].asked = call[q].asked
  BY <1>2, <1>3
<1>5. /\ call'[p].op # "bytes"
      /\ \A q \in Pids : q # p => call'[q] = call[q]
  BY <1>2, <1>3
<1>6. Asked' = Asked
  BY <1>4 DEF Asked
<1>7. Owed' = [Owed EXCEPT ![p] = -1]
  BY <1>5 DEF Owed
<1> QED BY <1>2, <1>6, <1>7 DEF Promise!Abandon, Promise!Done

(* What a process hands out has not been handed out before: it lies at or  *)
(* after the mark of a state that nobody else has the seed of.             *)
LEMMA HandsFresh ==
  ASSUME IInv, NEW p \in Pids, NEW s, NEW d, NEW op, NEW y, NEW op2, NEW n \in Nat, NEW c,
         Gives(p, s, d, op, y, op2, n, c)
  PROVE  Promise!Fresh(y.out, n)
<1>1. /\ DOMAIN y.out = 0..(n - 1)
      /\ \A i, j \in 0..(n - 1) : y.out[i] = y.out[j] => i = j
      /\ \A i \in 0..(n - 1) : y.out[i] \in RealBytes
  BY DEF Gives, Moves
<1>2. ASSUME NEW i \in 0..(n - 1), NEW q \in Pids, y.out[i] \in given[q] PROVE FALSE
  <2>1. /\ y.out[i].key.seed = s.state.seed
        /\ ~Precedes(y.out[i], MarkLen(s, op), MarkAt(s, op))
    BY DEF Gives, Moves
  <2>2. CASE q = p
    BY <1>2, <2>1, <2>2 DEF Gives, Holder
  <2>3. CASE q # p
    BY <1>2, <2>1, <2>3 DEF Gives, Holder
  <2> QED BY <2>2, <2>3
<1> QED BY <1>1, <1>2 DEF Promise!Fresh, Promise!AllGiven

(* A step that hands out bytes is a Give of FreshBytes.                    *)
LEMMA HandsGives ==
  ASSUME IInv, NEW p \in Pids, Hands(p)
  PROVE  Promise!Give(p)
<1>1. PICK s, d, op, y, op2, n, c : Gives(p, s, d, op, y, op2, n, c)
  BY DEF Hands
<1>2. /\ n \in 0..(2 * OutputLen) /\ c \in Calls /\ Deliver(p, y)
      /\ call' = [call EXCEPT ![p] = c] /\ Accounts(p, n, c)
  BY <1>1 DEF Gives
<1>3. n \in Nat
  BY <1>2, PrfShape
<1>4. Promise!Fresh(y.out, n)
  BY <1>1, <1>3, HandsFresh
<1>5. /\ call \in [Pids -> Calls] /\ DOMAIN chunk = Pids
      /\ given \in [Pids -> SUBSET RealBytes]
  BY DEF IInv, TypeOK
<1>6. /\ call'[p] = c /\ \A q \in Pids : q # p => call'[q] = call[q]
  BY <1>2, <1>5
<1>7. /\ chunk' = [chunk EXCEPT ![p] = y.out] /\ chunk'[p] = y.out
      /\ given' = [given EXCEPT ![p] = @ \cup {y.out[i] : i \in DOMAIN y.out}]
  BY <1>2, <1>5 DEF Deliver
<1>8. /\ call[p].need \in Nat /\ call[p].asked \in Nat
      /\ c.need \in Nat /\ c.asked \in Nat /\ n <= c.asked
  BY <1>2, <1>5 DEF Calls, Accounts
<1>9. /\ Asked' = [Asked EXCEPT ![p] = Asked'[p]] /\ Asked'[p] = c.asked /\ Asked[p] = call[p].asked
  BY <1>6 DEF Asked
<1>10. /\ Owed' = [Owed EXCEPT ![p] = Owed'[p]]
       /\ Owed'[p] = (IF c.op = "bytes" THEN c.need ELSE -1)
       /\ Owed[p] = (IF call[p].op = "bytes" THEN call[p].need ELSE -1)
  BY <1>6 DEF Owed
<1>11. /\ Owed[p] # -1 => Asked'[p] = Asked[p]
       /\ \/ Owed'[p] = Promise!Due(p) - n
          \/ Owed'[p] = -1 /\ Promise!Due(p) = n
  BY <1>2, <1>3, <1>8, <1>9, <1>10 DEF Accounts, Promise!Due, Promise!Done
<1>12. n \in 0..Asked'[p]
  BY <1>3, <1>8, <1>9
<1>13. /\ chunk' = [chunk EXCEPT ![p] = chunk'[p]]
       /\ given' = [given EXCEPT ![p] = @ \cup {chunk'[p][i] : i \in DOMAIN chunk'[p]}]
  BY <1>7
<1>14. Promise!Fresh(chunk'[p], n)
  BY <1>4, <1>7
<1> QED BY <1>9, <1>10, <1>11, <1>12, <1>13, <1>14 DEF Promise!Give, Promise!Done

(* The library implements FreshBytes: whatever the calls, reseeds, errors, *)
(* forks and exits, every request is answered with exactly the bytes asked *)
(* for and no byte of output is handed out twice, in one process or two.   *)
THEOREM Refinement ==
  ASSUME ~PidReuse, ShortRequests
  PROVE  Spec => KeepsPromise
<1>1. Init => Promise!Init
  BY DEF Init, Promise!Init, Promise!NoBytes, Promise!Done, Asked, Owed
<1>2. IInv /\ [Next]_vars => [Promise!Next]_(Promise!vars)
  <2> SUFFICES ASSUME IInv, [Next]_vars PROVE [Promise!Next]_(Promise!vars)
    OBVIOUS
  <2>1. CASE UNCHANGED vars
    BY <2>1 DEF vars, Promise!vars, Asked, Owed
  <2>2. ASSUME NEW p \in Pids, Step(p) PROVE [Promise!Next]_(Promise!vars)
    <3>1. CASE Rests(p)
      BY <3>1, RestsAbandons DEF Promise!Next
    <3>2. CASE Hands(p)
      BY <3>2, HandsGives DEF Promise!Next
    <3>3. CASE Fork(p)
      BY <3>3 DEF Fork, Promise!vars, Asked, Owed
    <3> QED BY <2>2, <3>1, <3>2, <3>3, StepKinds
  <2> QED BY <2>1, <2>2 DEF Next
<1> QED BY <1>1, <1>2, Invariance, PTL DEF Spec, KeepsPromise, Promise!Spec

(* The calls of ottery_st_rand_range and range64 choose uniformly, for     *)
(* integers of any width.                                                  *)
THEOREM RangeIsUniform ==
  ASSUME ~PidReuse, ShortRequests
  PROVE  Spec => []Uniform
<1>1. TypeOK => Uniform
  BY EveryBoundUniform DEF TypeOK, Calls, Uniform
<1> QED BY <1>1, TypeCorrect, PTL

(* In the rejection loop of ottery_st_rand_range and range64 at least half *)
(* of all draws are accepted.                                              *)
THEOREM RangeEndsSoon ==
  ASSUME ~PidReuse, ShortRequests
  PROVE  Spec => []MostlyAccepted
<1>1. TypeOK => MostlyAccepted
  BY EveryBoundLikely DEF TypeOK, Calls, MostlyAccepted
<1> QED BY <1>1, TypeCorrect, PTL
=============================================================================
