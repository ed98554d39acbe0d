------------------------ MODULE OtteryHistory_proofs ------------------------
(***************************************************************************)
(* More about OtteryState: what the history of a key says.  No byte that a *)
(* key was made of is handed out, entropy_src_flags tells the truth,       *)
(* ottery_st_prevent_backtracking removes all that was given, the seeds of *)
(* callers go into the key and stay there, and the closed form of the      *)
(* seeding loop is the loop.                                               *)
(***************************************************************************)
EXTENDS OtteryState_proofs

-----------------------------------------------------------------------------
(* How the key of a state grows.                                           *)

(* t's key is s's, or was derived from it, the first new key being taken   *)
(* from where the counter of s is or later.                                *)
Grows(s, t) ==
  /\ t.state.seed = s.state.seed
  /\ PathLen(s) <= PathLen(t)
  /\ \A k \in 1..PathLen(s) : t.state.path[k] = s.state.path[k]
  /\ PathLen(t) = PathLen(s) => Offset(s) <= Offset(t)
  /\ PathLen(s) < PathLen(t) => Offset(s) <= t.state.path[PathLen(s) + 1].at

(* t's key has the draws of s's, and its flags.                            *)
SameDraws(s, t) ==
  /\ DrawsIn(t.state) = DrawsIn(s.state)
  /\ t.entropy_src_flags = s.entropy_src_flags

(* The numbers of a state of the right type, whatever it holds.            *)
LEMMA StNumbers ==
  ASSUME NEW s \in St
  PROVE  /\ s.state \in Keys /\ s.state.path \in Seq(Steps) /\ s.state.seed \in Nat
         /\ PathLen(s) \in Nat /\ Len(s.state.path) = PathLen(s)
         /\ DOMAIN s.state.path = 1..PathLen(s)
         /\ s.block_counter \in Nat /\ Offset(s) \in Nat
         /\ \A k \in 1..PathLen(s) : /\ s.state.path[k] \in Steps
                                     /\ s.state.path[k].at \in Nat
                                     /\ s.state.path[k].mix \in Int
<1>1. s.state \in Keys /\ s.block_counter \in Nat
  BY DEF St, States
<1>2. s.state.path \in Seq(Steps) /\ s.state.seed \in Nat
  BY <1>1 DEF Keys
<1>3. /\ Len(s.state.path) \in Nat /\ DOMAIN s.state.path = 1..Len(s.state.path)
      /\ \A k \in 1..Len(s.state.path) : s.state.path[k] \in Steps
  BY <1>2
<1>4. Offset(s) \in Nat
  BY <1>1, PrfShape DEF Offset
<1> QED BY <1>1, <1>2, <1>3, <1>4 DEF PathLen, Steps, Mixes

(* Keys that grow go on growing.                                           *)
LEMMA GrowsTransitive ==
  ASSUME NEW s \in St, NEW t \in St, NEW u \in St, Grows(s, t), Grows(t, u)
  PROVE  Grows(s, u)
<1>1. /\ PathLen(s) \in Nat /\ PathLen(t) \in Nat /\ PathLen(u) \in Nat
      /\ Offset(s) \in Nat /\ Offset(t) \in Nat /\ Offset(u) \in Nat
  BY StNumbers
<1>2. ASSUME NEW k \in 1..PathLen(u) PROVE u.state.path[k].at \in Nat
  BY StNumbers
<1>3. PathLen(s) <= PathLen(t) /\ PathLen(t) <= PathLen(u)
  BY DEF Grows
<1>4. \A k \in 1..PathLen(s) : u.state.path[k] = s.state.path[k]
  BY <1>1, <1>3 DEF Grows
<1>5. PathLen(u) = PathLen(s) => Offset(s) <= Offset(u)
  BY <1>1, <1>3 DEF Grows
<1>6. ASSUME PathLen(s) < PathLen(u)
      PROVE  Offset(s) <= u.state.path[PathLen(s) + 1].at
  <2>1. CASE PathLen(s) < PathLen(t)
    <3>1. PathLen(s) + 1 \in 1..PathLen(t)
      BY <1>1, <2>1
    <3>2. u.state.path[PathLen(s) + 1] = t.state.path[PathLen(s) + 1]
      BY <3>1 DEF Grows
    <3> QED BY <2>1, <3>2 DEF Grows
  <2>2. CASE PathLen(s) = PathLen(t)
    <3>1. PathLen(s) + 1 \in 1..PathLen(u)
      BY <1>1, <1>6
    <3>2. u.state.path[PathLen(s) + 1].at \in Nat
      BY <1>2, <3>1
    <3>3. Offset(s) <= Offset(t) /\ Offset(t) <= u.state.path[PathLen(s) + 1].at
      BY <1>6, <2>2 DEF Grows
    <3> QED BY <1>1, <3>2, <3>3
  <2> QED BY <1>1, <1>3, <2>1, <2>2
<1> QED BY <1>1, <1>3, <1>4, <1>5, <1>6 DEF Grows

(* A state with the same key and the same counter.                         *)
LEMMA GrowsSame ==
  ASSUME NEW s \in St, NEW t, t.state = s.state, t.block_counter = s.block_counter
  PROVE  Grows(s, t)
<1>1. PathLen(t) = PathLen(s) /\ Offset(t) = Offset(s) /\ PathLen(s) \in Nat /\ Offset(s) \in Nat
  BY StNumbers DEF PathLen, Offset
<1> QED BY <1>1 DEF Grows

(* The draws in a key with one more rekeying.                              *)
LEMMA DrawsInAppend ==
  ASSUME NEW key \in Keys, NEW e \in Steps
  PROVE  DrawsIn([seed |-> key.seed, path |-> Append(key.path, e)]) =
           DrawsIn(key) \cup {m \in {e.mix} : m > 0}
<1> DEFINE q == Append(key.path, e)
           n == Len(key.path)
<1>1. key.path \in Seq(Steps)
  BY DEF Keys
<1>2. /\ n \in Nat /\ DOMAIN key.path = 1..n /\ DOMAIN q = 1..(n + 1)
      /\ q[n + 1] = e /\ \A k \in 1..n : q[k] = key.path[k]
  BY <1>1
<1> HIDE DEF q, n
<1>3. {q[k].mix : k \in DOMAIN q} = {key.path[k].mix : k \in DOMAIN key.path} \cup {e.mix}
  <2>1. 1..(n + 1) = (1..n) \cup {n + 1}
    BY <1>2
  <2> QED BY <1>2, <2>1
<1> DEFINE r == [seed |-> key.seed, path |-> q]
           A == {key.path[k].mix : k \in DOMAIN key.path}
<1>4. r.seed = key.seed /\ r.path = q
  OBVIOUS
<1> HIDE DEF r
<1>5. DrawsIn(r) = {key.seed} \cup {m \in A \cup {e.mix} : m > 0}
  BY <1>3, <1>4 DEF DrawsIn
<1>6. DrawsIn(key) = {key.seed} \cup {m \in A : m > 0}
  BY DEF DrawsIn
<1> HIDE DEF A
<1>7. {m \in A \cup {e.mix} : m > 0} = {m \in A : m > 0} \cup {m \in {e.mix} : m > 0}
  BY Zenon
<1> QED BY <1>5, <1>6, <1>7 DEF r, q

(* The key of the block that follows: its parent's, and one step more.     *)
LEMMA NextBlockKey ==
  ASSUME NEW s \in St, Offset(s) + OutputLen <= StreamLen
  PROVE  NextBlock(s).state = [seed |-> s.state.seed,
                               path |-> Append(s.state.path, [at |-> Offset(s), mix |-> NoMix])]
<1> DEFINE b == Generate(s.state, s.block_counter)
<1>1. s.state \in Keys /\ s.block_counter \in Nat /\ 0 \in Block
  BY StNumbers, PrfShape DEF Block
<1>2. b[0].key = s.state /\ b[0].at = StreamPos(s.block_counter, 0)
  BY <1>1, GenerateType
<1>3. StreamPos(s.block_counter, 0) = Offset(s)
  <2>1. StreamPos(s.block_counter, 0) = Offset(s) + 0
    BY <1>1, StreamPosInside DEF Offset
  <2> QED BY <2>1, StNumbers
<1>4. NextBlock(s).state = Setup(b, NoMix)
  <2>1. NextBlockNoRekey(s).buffer = b
    BY DEF NextBlockNoRekey, St, States
  <2> HIDE DEF b
  <2> QED BY <2>1 DEF NextBlock, St, States
<1> HIDE DEF b
<1> QED BY <1>2, <1>3, <1>4 DEF Setup

(* ottery_st_nextblock_nolock makes the key grow, and mixes in no draw.    *)
LEMMA NextBlockGrows ==
  ASSUME NEW s \in St, Offset(s) + OutputLen <= StreamLen
  PROVE  Grows(s, NextBlock(s)) /\ SameDraws(s, NextBlock(s))
<1> DEFINE e == [at |-> Offset(s), mix |-> NoMix]
           t == NextBlock(s)
<1>1. t.state = [seed |-> s.state.seed, path |-> Append(s.state.path, e)]
  BY NextBlockKey
<1>2. /\ s.state \in Keys /\ s.state.path \in Seq(Steps) /\ PathLen(s) \in Nat
      /\ Len(s.state.path) = PathLen(s) /\ Offset(s) \in Nat
  BY StNumbers
<1>3. e \in Steps /\ e.at = Offset(s) /\ e.mix = 0
  BY <1>2 DEF Steps, Mixes, NoMix
<1>4. t.entropy_src_flags = s.entropy_src_flags
  BY NextBlockFlags
<1> HIDE DEF e, t
<1>5. /\ Len(Append(s.state.path, e)) = PathLen(s) + 1
      /\ Append(s.state.path, e)[PathLen(s) + 1] = e
      /\ \A k \in 1..PathLen(s) : Append(s.state.path, e)[k] = s.state.path[k]
  BY <1>2, <1>3
<1>6. Grows(s, t)
  BY <1>1, <1>2, <1>3, <1>5 DEF Grows, PathLen
<1>7. DrawsIn(t.state) = DrawsIn(s.state) \cup {m \in {e.mix} : m > 0}
  BY <1>1, <1>2, <1>3, DrawsInAppend
<1>8. {m \in {e.mix} : m > 0} = {}
  BY <1>3
<1> QED BY <1>4, <1>6, <1>7, <1>8 DEF SameDraws, t

-----------------------------------------------------------------------------
(* No output is key material.                                              *)

(* A byte before the counter of s stays clear of all keys that follow.     *)
LEMMA KeyFreeGrows ==
  ASSUME NEW s \in St, NEW t \in St, Grows(s, t), NEW b \in RealBytes,
         KeyFree(s, b), Precedes(b, PathLen(s), Offset(s))
  PROVE  KeyFree(t, b)
<1>1. PathLen(s) \in Nat /\ PathLen(t) \in Nat /\ Offset(s) \in Nat
  BY StNumbers
<1>2. b.at \in Nat /\ Len(b.key.path) \in Nat
  BY DEF RealBytes
<1> SUFFICES ASSUME NEW k \in 1..PathLen(t), Len(b.key.path) = k - 1
             PROVE  b.at \notin t.state.path[k].at..(t.state.path[k].at + StateBytes - 1)
  BY DEF KeyFree
<1>3. t.state.path[k].at \in Nat
  BY StNumbers
<1>4. CASE k \in 1..PathLen(s)
  BY <1>4 DEF KeyFree, Grows
<1>5. CASE k \notin 1..PathLen(s)
  <2>1. k = PathLen(s) + 1 /\ b.at < Offset(s)
    BY <1>1, <1>2, <1>5 DEF Precedes
  <2>2. Offset(s) <= t.state.path[k].at
    BY <1>1, <2>1 DEF Grows
  <2> QED BY <1>1, <1>2, <1>3, <2>1, <2>2, PrfShape
<1> QED BY <1>4, <1>5

(* What is left in the buffer is no key material, then or later.           *)
LEMMA UnreadKeyFree ==
  ASSUME NEW s, Live(s), NEW i \in s.pos..(OutputLen - 1), NEW t \in St, Grows(s, t)
  PROVE  KeyFree(t, s.buffer[i])
<1> DEFINE b == s.buffer[i]
<1>1. /\ PathLen(s) \in Nat /\ PathLen(s) >= 1 /\ Base(s) \in Nat /\ s.pos \in Nat
      /\ StateBytes <= s.pos /\ s \in St
  BY LiveMarks
<1>2. /\ b \in RealBytes /\ Len(b.key.path) = PathLen(s) - 1 /\ b.at = Base(s) + i
  BY UnreadReal
<1> HIDE DEF b
<1>3. KeyFree(s, b)
  <2> SUFFICES ASSUME NEW k \in 1..PathLen(s), Len(b.key.path) = k - 1
               PROVE  b.at \notin s.state.path[k].at..(s.state.path[k].at + StateBytes - 1)
    BY DEF KeyFree
  <2>1. k = PathLen(s)
    BY <1>1, <1>2
  <2>2. s.state.path[k].at = Base(s)
    BY <2>1 DEF Base
  <2> QED BY <1>1, <1>2, <2>2, PrfShape
<1>4. Precedes(b, PathLen(s), Offset(s))
  BY <1>1, <1>2 DEF Precedes
<1> QED BY <1>1, <1>2, <1>3, <1>4, KeyFreeGrows DEF b

(* The state that y leaves has a key grown from that of s, with the same   *)
(* draws, and y hands out none of the bytes its keys were made of.         *)
Clean(s, y) ==
  /\ y.st \in St /\ Grows(s, y.st) /\ SameDraws(s, y.st)
  /\ \A i \in DOMAIN y.out : KeyFree(y.st, y.out[i])

(* Moving pos changes neither key, counter nor flags.                      *)
LEMMA AdvanceKeeps ==
  ASSUME NEW s \in St, NEW from, NEW n
  PROVE  LET t == Advance(s, from, n) IN
         /\ t.state = s.state /\ t.block_counter = s.block_counter
         /\ t.entropy_src_flags = s.entropy_src_flags
         /\ Grows(s, t) /\ SameDraws(s, t)
<1> DEFINE t == Advance(s, from, n)
<1>1. /\ t.state = s.state /\ t.block_counter = s.block_counter
      /\ t.entropy_src_flags = s.entropy_src_flags
  BY DEF Advance, St, States
<1> HIDE DEF t
<1>2. Grows(s, t)
  BY <1>1, GrowsSame
<1> QED BY <1>1, <1>2 DEF SameDraws, t

(* The next n unread bytes of a live state are clean, whatever grows from  *)
(* it.                                                                     *)
LEMMA SliceKeyFree ==
  ASSUME NEW s, Live(s), NEW n \in Nat, s.pos + n <= OutputLen,
         NEW t \in St, Grows(s, t)
  PROVE  /\ DOMAIN Slice(s.buffer, s.pos, n) = 0..(n - 1)
         /\ \A i \in 0..(n - 1) : KeyFree(t, Slice(s.buffer, s.pos, n)[i])
<1>1. s.pos \in Nat
  BY LiveMarks
<1>2. ASSUME NEW i \in 0..(n - 1) PROVE KeyFree(t, s.buffer[s.pos + i])
  <2>1. s.pos + i \in s.pos..(OutputLen - 1)
    BY <1>1, PrfShape
  <2> QED BY <2>1, UnreadKeyFree
<1> QED BY <1>2 DEF Slice

(* A live state and the block after it.                                    *)
LEMMA LiveNextBlock ==
  ASSUME NEW s, Live(s)
  PROVE  LET t == NextBlock(s) IN
         /\ s \in St /\ t \in St /\ Live(t) /\ t.pos = StateBytes
         /\ Grows(s, t) /\ SameDraws(s, t)
<1>1. s \in St /\ s.block_counter = 0
  BY DEF Live, Ready
<1>2. Offset(s) + OutputLen <= StreamLen
  BY <1>1, PrfShape DEF Offset
<1>3. Live(NextBlock(s)) /\ NextBlock(s).pos = StateBytes
  BY FreshBlock
<1>4. NextBlock(s) \in St
  BY <1>3 DEF Live
<1> QED BY <1>1, <1>2, <1>3, <1>4, NextBlockGrows

(* The same with some of that block read.                                  *)
LEMMA LiveTwoBlocks ==
  ASSUME NEW s, Live(s), NEW n \in Nat, StateBytes + n < OutputLen
  PROVE  LET t == NextBlock(s)
             v == Advance(t, 0, n)
         IN  v \in St /\ Grows(t, v) /\ Grows(s, v) /\ SameDraws(s, v)
<1> DEFINE t == NextBlock(s)
           v == Advance(t, 0, n)
<1>1. /\ s \in St /\ t \in St /\ Live(t) /\ t.pos = StateBytes
      /\ Grows(s, t) /\ SameDraws(s, t)
  BY LiveNextBlock
<1> HIDE DEF t
<1>2. Grows(t, v) /\ SameDraws(t, v)
  BY <1>1, AdvanceKeeps
<1>3. v \in St
  <2>1. 0 \in Nat /\ 0 <= t.pos /\ t.pos + n < OutputLen
    BY <1>1, PrfShape
  <2>2. Live(v)
    BY <1>1, <2>1, AdvanceSpec
  <2> QED BY <2>2 DEF Live
<1> HIDE DEF v
<1>4. Grows(s, v)
  BY <1>1, <1>2, <1>3, GrowsTransitive
<1> QED BY <1>1, <1>2, <1>3, <1>4 DEF SameDraws, v, t

(* ottery_st_rand_bytes_from_buf hands out no key material.                *)
LEMMA FromBufClean ==
  ASSUME NEW s, Live(s), NEW n \in Nat,
         s.pos + n < OutputLen \/ s.pos + n < 2 * OutputLen - StateBytes
  PROVE  Clean(s, FromBuf(s, n))
<1> DEFINE y == FromBuf(s, n)
<1>1. s \in St /\ s.pos \in Nat /\ s.pos < OutputLen
  BY LiveMarks
<1>2. CASE s.pos + n < OutputLen
  <2> DEFINE t == Advance(s, s.pos, n)
             out == Slice(s.buffer, s.pos, n)
  <2>1. y = Yield(t, out)
    BY <1>1, <1>2 DEF FromBuf
  <2>2. t \in St
    BY AdvanceType
  <2>3. Grows(s, t) /\ SameDraws(s, t)
    BY <1>1, AdvanceKeeps
  <2> HIDE DEF t
  <2>4. DOMAIN out = 0..(n - 1) /\ \A i \in 0..(n - 1) : KeyFree(t, out[i])
    <3>1. s.pos + n <= OutputLen
      BY <1>1, <1>2, PrfShape
    <3> QED BY <2>2, <2>3, <3>1, SliceKeyFree
  <2>5. y.st = t /\ y.out = out
    BY <2>1 DEF Yield
  <2> HIDE DEF out, y
  <2>6. Clean(s, y)
    BY <2>2, <2>3, <2>4, <2>5 DEF Clean
  <2> QED BY <2>6 DEF y
<1>3. CASE ~(s.pos + n < OutputLen)
  <2> DEFINE cpy == OutputLen - s.pos
             rest == n - cpy
             t == NextBlock(s)
             v == Advance(t, 0, rest)
             a == Slice(s.buffer, s.pos, cpy)
             b == Slice(t.buffer, t.pos, rest)
             out == Concat(a, cpy, b, rest)
  <2>1. y = Yield(v, out)
    BY <1>1, <1>3 DEF FromBuf
  <2>2. /\ cpy \in Nat /\ rest \in Nat /\ s.pos + cpy <= OutputLen
        /\ StateBytes + rest < OutputLen /\ cpy + rest = n
    BY <1>1, <1>3, PrfShape
  <2> HIDE DEF cpy, rest
  <2>3. Live(t) /\ t.pos = StateBytes
    BY LiveNextBlock
  <2>4. v \in St /\ Grows(t, v) /\ Grows(s, v) /\ SameDraws(s, v)
    BY <2>2, LiveTwoBlocks
  <2> HIDE DEF t, v
  <2>5. \A i \in 0..(cpy - 1) : KeyFree(v, a[i])
    BY <2>2, <2>4, SliceKeyFree
  <2>6. t.pos + rest <= OutputLen
    BY <2>2, <2>3, PrfShape
  <2>7. \A i \in 0..(rest - 1) : KeyFree(v, b[i])
    BY <2>2, <2>3, <2>4, <2>6, SliceKeyFree
  <2> HIDE DEF a, b
  <2>8. y.st = v /\ y.out = out
    BY <2>1 DEF Yield
  <2>9. DOMAIN out = 0..(cpy + rest - 1)
    BY DEF Concat
  <2>10. ASSUME NEW i \in 0..(cpy + rest - 1) PROVE KeyFree(v, out[i])
    <3>1. CASE i < cpy
      <4>1. out[i] = a[i] /\ i \in 0..(cpy - 1)
        BY <2>2, <3>1 DEF Concat
      <4> QED BY <2>5, <4>1
    <3>2. CASE ~(i < cpy)
      <4>1. out[i] = b[i - cpy] /\ i - cpy \in 0..(rest - 1)
        BY <2>2, <3>2 DEF Concat
      <4> QED BY <2>7, <4>1
    <3> QED BY <3>1, <3>2
  <2> HIDE DEF out, y
  <2>11. Clean(s, y)
    BY <2>4, <2>8, <2>9, <2>10 DEF Clean
  <2> QED BY <2>11 DEF y
<1> QED BY <1>2, <1>3

(* Nor does the macro behind the integer functions.                        *)
LEMMA RandIntClean ==
  ASSUME NEW s, Live(s), NEW n \in IntSizes
  PROVE  Clean(s, RandInt(s, n))
<1> DEFINE y == RandInt(s, n)
<1>1. s \in St /\ s.pos \in Nat /\ s.pos < OutputLen
  BY LiveMarks
<1>2. n \in Nat /\ StateBytes + n < OutputLen
  BY PrfShape
<1>3. CASE n + s.pos <= OutputLen
  <2> DEFINE u == Advance(s, s.pos, n)
             v == IF u.pos = OutputLen THEN NextBlock(u) ELSE u
             out == Slice(s.buffer, s.pos, n)
  <2>1. y = Yield(v, out)
    BY <1>3 DEF RandInt
  <2>2. u \in St /\ u.block_counter = 0
    BY <1>2, AdvanceType
  <2>3. Grows(s, u) /\ SameDraws(s, u)
    BY <1>1, AdvanceKeeps
  <2> HIDE DEF u
  <2>4. Offset(u) + OutputLen <= StreamLen
    BY <2>2, PrfShape DEF Offset
  <2>5. v \in St /\ Grows(s, v) /\ SameDraws(s, v)
    <3>1. CASE u.pos = OutputLen
      <4> DEFINE w == NextBlock(u)
      <4>1. w \in St
        BY <2>2, <2>4, NextBlockSpec
      <4>2. Grows(u, w) /\ SameDraws(u, w)
        BY <2>2, <2>4, NextBlockGrows
      <4> HIDE DEF w
      <4>3. Grows(s, w)
        BY <1>1, <2>2, <2>3, <4>1, <4>2, GrowsTransitive
      <4>4. SameDraws(s, w)
        BY <2>3, <4>2 DEF SameDraws
      <4>5. v = w
        BY <3>1 DEF w
      <4> QED BY <4>1, <4>3, <4>4, <4>5
    <3>2. CASE u.pos # OutputLen
      BY <2>2, <2>3, <3>2
    <3> QED BY <3>1, <3>2
  <2> HIDE DEF v
  <2>6. s.pos + n <= OutputLen
    BY <1>1, <1>2, <1>3
  <2>7. DOMAIN out = 0..(n - 1) /\ \A i \in 0..(n - 1) : KeyFree(v, out[i])
    BY <1>2, <2>5, <2>6, SliceKeyFree
  <2>8. y.st = v /\ y.out = out
    BY <2>1 DEF Yield
  <2> HIDE DEF out, y
  <2>9. Clean(s, y)
    BY <2>5, <2>7, <2>8 DEF Clean
  <2> QED BY <2>9 DEF y
<1>4. CASE ~(n + s.pos <= OutputLen)
  <2> DEFINE t == NextBlock(s)
             v == Advance(t, 0, n)
             out == Slice(t.buffer, t.pos, n)
  <2>1. y = Yield(v, out)
    BY <1>4 DEF RandInt
  <2>2. Live(t) /\ t.pos = StateBytes
    BY LiveNextBlock
  <2>3. v \in St /\ Grows(t, v) /\ Grows(s, v) /\ SameDraws(s, v)
    BY <1>2, LiveTwoBlocks
  <2> HIDE DEF t, v
  <2>4. t.pos + n <= OutputLen
    BY <1>2, <2>2, PrfShape
  <2>5. DOMAIN out = 0..(n - 1) /\ \A i \in 0..(n - 1) : KeyFree(v, out[i])
    BY <1>2, <2>2, <2>3, <2>4, SliceKeyFree
  <2>6. y.st = v /\ y.out = out
    BY <2>1 DEF Yield
  <2> HIDE DEF out, y
  <2>7. Clean(s, y)
    BY <2>3, <2>5, <2>6 DEF Clean
  <2> QED BY <2>7 DEF y
<1> QED BY <1>3, <1>4

(* Nor does any part of a bulk request: what is left of the buffer, ...    *)
LEMMA BulkTailClean ==
  ASSUME NEW s, Live(s)
  PROVE  Clean(s, BulkTail(s))
<1> DEFINE y == BulkTail(s)
           n == OutputLen - s.pos
           out == Slice(s.buffer, s.pos, n)
<1>1. s \in St /\ s.pos \in Nat /\ s.pos < OutputLen
  BY LiveMarks
<1>2. n \in Nat /\ s.pos + n <= OutputLen
  BY <1>1, PrfShape
<1>3. y.st = s /\ y.out = out
  BY DEF BulkTail, Yield
<1>4. Grows(s, s) /\ SameDraws(s, s)
  BY <1>1, GrowsSame DEF SameDraws
<1> HIDE DEF n
<1>5. DOMAIN out = 0..(n - 1) /\ \A i \in 0..(n - 1) : KeyFree(s, out[i])
  BY <1>1, <1>2, <1>4, SliceKeyFree
<1> HIDE DEF out, y
<1>6. Clean(s, y)
  BY <1>1, <1>3, <1>4, <1>5 DEF Clean
<1> QED BY <1>6 DEF y

(* ... a whole block, under a key that no key was made from yet, ...       *)
LEMMA BulkBlockClean ==
  ASSUME NEW s \in St, s.state.seed # 0, PathLen(s) >= 1,
         Offset(s) + OutputLen <= StreamLen
  PROVE  Clean(s, BulkBlock(s))
<1> DEFINE y == BulkBlock(s)
<1>1. /\ Moves(s, "bytes", y, "bytes", OutputLen) /\ y.st.state = s.state
      /\ Offset(y.st) = Offset(s) + OutputLen
  BY BulkBlockSpec
<1>2. y.st.entropy_src_flags = s.entropy_src_flags
  BY DEF BulkBlock, Yield, NextBlockNoRekey, St, States
<1> HIDE DEF y
<1>3. PathLen(s) \in Nat /\ Offset(s) \in Nat /\ PathLen(y.st) = PathLen(s)
  BY <1>1, StNumbers DEF PathLen
<1>4. Grows(s, y.st) /\ SameDraws(s, y.st)
  BY <1>1, <1>2, <1>3, PrfShape DEF Grows, SameDraws
<1>5. ASSUME NEW i \in DOMAIN y.out PROVE KeyFree(y.st, y.out[i])
  <2>1. i \in 0..(OutputLen - 1) /\ y.out[i] \in RealBytes
    BY <1>1 DEF Moves
  <2>2. ~Precedes(y.out[i], PathLen(s), Offset(s))
    BY <1>1, <2>1 DEF Moves, MarkLen, MarkAt
  <2>3. y.out[i].key.path \in Seq(Steps)
    BY <2>1 DEF RealBytes
  <2>4. Len(y.out[i].key.path) \in Nat
    BY <2>3
  <2>5. Len(y.out[i].key.path) >= PathLen(s)
    BY <1>3, <2>2, <2>4 DEF Precedes
  <2> QED BY <1>3, <2>4, <2>5 DEF KeyFree
<1>6. y.st \in St
  BY <1>1 DEF Moves
<1>7. Clean(s, y)
  BY <1>4, <1>5, <1>6 DEF Clean
<1> QED BY <1>7 DEF y

(* ... and the stirred block at the end.                                   *)
LEMMA BulkEndClean ==
  ASSUME NEW s \in St, s.state.seed # 0, PathLen(s) >= 1,
         NEW n \in Nat, n < OutputLen, Offset(s) + OutputLen <= StreamLen
  PROVE  Clean(s, BulkEnd(s, n))
<1> DEFINE t == NextBlock(s)
           y == BulkEnd(s, n)
<1>1. Live(t) /\ t \in St /\ t.pos = StateBytes
  BY NextBlockSpec DEF Live
<1>2. Grows(s, t) /\ SameDraws(s, t)
  BY NextBlockGrows
<1>3. y = FromBuf(t, n)
  BY DEF BulkEnd
<1> HIDE DEF t, y
<1>4. t.pos + n < 2 * OutputLen - StateBytes
  BY <1>1, PrfShape
<1>5. Clean(t, y)
  BY <1>1, <1>3, <1>4, FromBufClean
<1>6. Grows(s, y.st)
  BY <1>1, <1>2, <1>5, GrowsTransitive DEF Clean
<1>7. Clean(s, y)
  BY <1>2, <1>5, <1>6 DEF Clean, SameDraws
<1> QED BY <1>7 DEF y

-----------------------------------------------------------------------------
(* What seeding does to the draws of a key.                                *)

(* The seeding loop, on a state between calls: the key grows, and the mix  *)
(* is in it if there was a pass.                                           *)
LEMMA AbsorbDraws ==
  ASSUME NEW s \in St, s.block_counter = 0, NEW k \in Nat, NEW mix \in Mixes
  PROVE  LET u == Absorb(s, k, mix) IN
         /\ Grows(s, u)
         /\ DrawsIn(u.state) = DrawsIn(s.state) \cup {m \in {mix} : m > 0 /\ k > 0}
<1> DEFINE u == Absorb(s, k, mix)
           steps == [j \in 1..k |->
                       [at |-> IF j = 1 THEN StreamPos(s.block_counter, 0) ELSE 0,
                        mix |-> mix]]
           path == s.state.path \o steps
           n == PathLen(s)
<1>1. /\ s.state.path \in Seq(Steps) /\ n \in Nat /\ Len(s.state.path) = n
      /\ DOMAIN s.state.path = 1..n /\ Offset(s) = 0
  BY StNumbers, PrfShape DEF Offset
<1>2. /\ steps \in Seq(Steps) /\ Len(steps) = k
      /\ \A j \in 1..k : steps[j].mix = mix /\ steps[j].at \in Nat
  <2>1. StreamPos(s.block_counter, 0) \in Nat
    BY StreamPosType
  <2>2. steps \in [1..k -> Steps] /\ \A j \in 1..k : steps[j].mix = mix /\ steps[j].at \in Nat
    BY <2>1 DEF Steps
  <2> HIDE DEF steps
  <2> QED BY <2>2, SeqDef
<1> HIDE DEF steps
<1>3. /\ path \in Seq(Steps) /\ Len(path) = n + k /\ DOMAIN path = 1..(n + k)
      /\ \A j \in 1..n : path[j] = s.state.path[j]
      /\ \A j \in (n + 1)..(n + k) : path[j] = steps[j - n]
  <2>1. /\ path \in Seq(Steps) /\ Len(path) = n + k
        /\ \A j \in 1..(n + k) :
             path[j] = IF j <= n THEN s.state.path[j] ELSE steps[j - n]
    <3>1. PICK a : a = s.state.path
      OBVIOUS
    <3>2. a \in Seq(Steps) /\ Len(a) = n
      BY <1>1, <3>1
    <3>3. /\ a \o steps \in Seq(Steps) /\ Len(a \o steps) = Len(a) + Len(steps)
          /\ \A j \in 1..(Len(a) + Len(steps)) :
               (a \o steps)[j] = IF j <= Len(a) THEN a[j] ELSE steps[j - Len(a)]
      BY <1>2, <3>2, ConcatProperties, Zenon
    <3>4. path = a \o steps
      BY <3>1
    <3> HIDE DEF path, n
    <3> QED BY <1>2, <3>1, <3>2, <3>3, <3>4, Zenon
  <2> HIDE DEF path, n
  <2>2. DOMAIN path = 1..(n + k)
    BY <2>1
  <2> QED BY <1>1, <2>1, <2>2
<1>4. u.state.path = path /\ u.state.seed = s.state.seed
  BY DEF Absorb, steps, St, States, Keys
<1>5. u.block_counter = 0 /\ PathLen(u) = n + k
  BY <1>3, <1>4, AbsorbSpec DEF PathLen
<1> HIDE DEF path, u
<1>6. \A j \in (n + 1)..(n + k) : path[j].mix = mix /\ path[j].at \in Nat
  <2>1. \A j \in (n + 1)..(n + k) : j - n \in 1..k
    BY <1>1
  <2> QED BY <1>2, <1>3, <2>1
<1>7. Offset(u) = 0
  BY <1>5, PrfShape DEF Offset
<1>8. Grows(s, u)
  <2>1. n < n + k => path[n + 1].at >= 0
    <3>1. n < n + k => n + 1 \in (n + 1)..(n + k)
      BY <1>1
    <3> QED BY <1>6, <3>1
  <2>2. n <= n + k
    BY <1>1
  <2> QED BY <1>1, <1>3, <1>4, <1>5, <1>7, <2>1, <2>2 DEF Grows
<1> DEFINE A == {s.state.path[j].mix : j \in DOMAIN s.state.path}
<1>9. {path[j].mix : j \in DOMAIN path} = A \cup {m \in {mix} : k > 0}
  <2>1. 1..(n + k) = (1..n) \cup ((n + 1)..(n + k))
    BY <1>1
  <2>2. k > 0 => n + k \in (n + 1)..(n + k)
    BY <1>1
  <2>3. ~(k > 0) => (n + 1)..(n + k) = {}
    BY <1>1
  <2> HIDE DEF n
  <2>4. ASSUME NEW j \in 1..(n + k) PROVE path[j].mix \in A \cup {m \in {mix} : k > 0}
    <3>1. CASE j \in 1..n
      BY <1>1, <1>3, <3>1
    <3>2. CASE j \in (n + 1)..(n + k)
      BY <1>6, <2>3, <3>2
    <3> QED BY <2>1, <3>1, <3>2
  <2>5. ASSUME NEW m \in A PROVE \E j \in 1..(n + k) : m = path[j].mix
    <3>1. PICK j \in 1..n : m = s.state.path[j].mix
      BY <1>1
    <3> QED BY <1>3, <2>1, <3>1
  <2>6. ASSUME k > 0 PROVE \E j \in 1..(n + k) : mix = path[j].mix
    BY <1>6, <2>1, <2>2, <2>6
  <2>7. DOMAIN path = 1..(n + k)
    BY <1>3
  <2> HIDE DEF A
  <2>8. {path[j].mix : j \in 1..(n + k)} = A \cup {m \in {mix} : k > 0}
    BY <2>4, <2>5, <2>6
  <2> QED BY <2>7, <2>8
<1>10. DrawsIn(u.state) = {s.state.seed} \cup {m \in A \cup {m \in {mix} : k > 0} : m > 0}
  BY <1>4, <1>9 DEF DrawsIn
<1>11. DrawsIn(s.state) = {s.state.seed} \cup {m \in A : m > 0}
  BY DEF DrawsIn
<1> HIDE DEF A
<1> QED BY <1>8, <1>10, <1>11, Zenon DEF u

(* A seed that is not empty takes a pass.                                  *)
LEMMA PassesPositive ==
  ASSUME NEW n \in Nat, n > 0
  PROVE  Passes(n) > 0
<1> DEFINE h == StateBytes \div 2
<1>1. h \in Nat /\ h >= 1
  BY PrfShape
<1> HIDE DEF h
<1>2. ASSUME NEW k \in Nat, k >= 1, NEW x \in Nat, x >= k PROVE x \div k > 0
  BY <1>2
<1>3. n + h - 1 \in Nat /\ n + h - 1 >= h
  BY <1>1
<1>4. (n + h - 1) \div h > 0
  BY <1>1, <1>2, <1>3
<1> QED BY <1>4 DEF Passes, h

(* ottery_st_add_seed_impl makes the key grow, and adds to the draws of    *)
(* the key what it adds to the flags.                                      *)
LEMMA AddSeedDraws ==
  ASSUME NEW s \in St, s.block_counter = 0, NEW n \in Nat, NEW mix \in Mixes,
         NEW flags \in SUBSET Sources
  PROVE  LET t == AddSeedImpl(s, n, mix, flags) IN
         /\ Grows(s, t)
         /\ DrawsIn(t.state) = DrawsIn(s.state) \cup {m \in {mix} : m > 0 /\ Passes(n) > 0}
         /\ t.entropy_src_flags = s.entropy_src_flags \cup flags
<1> DEFINE k == Passes(n)
           u == Absorb(s, k, mix)
           v == NextBlock(u)
           t == AddSeedImpl(s, n, mix, flags)
<1>1. k \in Nat
  BY PassesType
<1> HIDE DEF k
<1>2. /\ u \in St /\ u.block_counter = 0
      /\ u.entropy_src_flags = s.entropy_src_flags
  BY <1>1, AbsorbSpec
<1>3. /\ Grows(s, u)
      /\ DrawsIn(u.state) = DrawsIn(s.state) \cup {m \in {mix} : m > 0 /\ k > 0}
  BY <1>1, AbsorbDraws
<1> HIDE DEF u
<1>4. Offset(u) + OutputLen <= StreamLen
  BY <1>2, PrfShape DEF Offset
<1>5. v \in St
  BY <1>2, <1>4, NextBlockSpec
<1>6. Grows(u, v) /\ SameDraws(u, v)
  BY <1>2, <1>4, NextBlockGrows
<1>7. t = [v EXCEPT !.entropy_src_flags = v.entropy_src_flags \cup flags,
                    !.last_entropy_flags = flags]
  BY <1>5 DEF AddSeedImpl, u, k, St, States
<1> HIDE DEF v, t
<1>8. /\ t.state = v.state /\ t.block_counter = v.block_counter
      /\ t.entropy_src_flags = v.entropy_src_flags \cup flags
  BY <1>5, <1>7 DEF St, States
<1>9. Grows(s, v)
  BY <1>2, <1>3, <1>5, <1>6, GrowsTransitive
<1>10. Grows(s, t)
  <2>1. PathLen(t) = PathLen(v) /\ Offset(t) = Offset(v)
    BY <1>8 DEF PathLen, Offset
  <2> QED BY <1>8, <1>9, <2>1 DEF Grows
<1>11. /\ DrawsIn(t.state) = DrawsIn(s.state) \cup {m \in {mix} : m > 0 /\ k > 0}
       /\ t.entropy_src_flags = s.entropy_src_flags \cup flags
  BY <1>2, <1>3, <1>6, <1>8 DEF SameDraws
<1> QED BY <1>10, <1>11 DEF t, k

(* After ottery_st_reseed the key has one draw, with its flags.            *)
LEMMA ReseedDraws ==
  ASSUME NEW s \in St, s.block_counter = 0, NEW d \in Nat \ {0}, NEW flags \in Draws
  PROVE  LET t == Reseed(s, d, flags) IN
         DrawsIn(t.state) = {d} /\ t.entropy_src_flags = flags
<1> DEFINE extra == DrawLen(flags) - StateBytes
           key   == SeedKey(d)
           keyed == [s EXCEPT !.state = key]
           mixed == IF extra > 0 THEN AddSeedImpl(keyed, extra, d, {}) ELSE keyed
           u == [mixed EXCEPT !.last_entropy_flags = flags,
                              !.entropy_src_flags = flags, !.block_counter = 0]
           t == Reseed(s, d, flags)
<1>1. extra \in Int
  <2>1. Cardinality(flags) \in Nat
    BY Parameters, FS_Subset, FS_CardinalityType DEF Draws
  <2> QED BY <2>1, PrfShape DEF DrawLen
<1>2. key \in Keys /\ DrawsIn(key) = {d}
  <2>1. <<>> \in Seq(Steps) /\ DOMAIN <<>> = {}
    OBVIOUS
  <2>2. key.seed = d /\ key.path = <<>>
    BY DEF SeedKey
  <2>3. key \in Keys
    BY <2>1 DEF SeedKey, Keys
  <2> HIDE DEF key
  <2> QED BY <2>1, <2>2, <2>3 DEF DrawsIn
<1> HIDE DEF extra, key
<1>3. keyed \in St /\ keyed.state = key /\ keyed.block_counter = 0
  BY <1>2 DEF St, States
<1> HIDE DEF keyed
<1>4. mixed \in St /\ DrawsIn(mixed.state) = {d}
  <2>1. CASE extra > 0
    <3> DEFINE m == AddSeedImpl(keyed, extra, d, {})
    <3>1. extra \in Nat /\ d \in Mixes /\ {} \in SUBSET Sources
      BY <1>1, <2>1 DEF Mixes
    <3>2. m \in St
      BY <1>3, <3>1, AddSeedImplSpec
    <3>3. DrawsIn(m.state) = DrawsIn(keyed.state) \cup {x \in {d} : x > 0 /\ Passes(extra) > 0}
      BY <1>3, <3>1, AddSeedDraws
    <3>4. mixed = m
      BY <2>1
    <3> HIDE DEF m, mixed
    <3> QED BY <1>2, <1>3, <3>2, <3>3, <3>4
  <2>2. CASE ~(extra > 0)
    BY <1>2, <1>3, <2>2
  <2> QED BY <2>1, <2>2
<1>5. t = NextBlock(u)
  BY DEF Reseed, extra, key, keyed
<1> HIDE DEF mixed, t
<1>6. /\ u \in St /\ u.state = mixed.state /\ u.block_counter = 0
      /\ u.entropy_src_flags = flags
  BY <1>4 DEF St, States, Draws
<1> HIDE DEF u
<1>7. Offset(u) + OutputLen <= StreamLen
  BY <1>6, PrfShape DEF Offset
<1>8. SameDraws(u, t)
  BY <1>5, <1>6, <1>7, NextBlockGrows
<1> QED BY <1>4, <1>6, <1>8 DEF SameDraws, t

-----------------------------------------------------------------------------
(* The induction.                                                          *)

(* A draw that is made later changes nothing about a key's draws.          *)
LEMMA HonestLater ==
  ASSUME NEW s, NEW d \in Seq(SUBSET Sources), NEW S \in SUBSET Sources, Honest(s, d)
  PROVE  Honest(s, Append(d, S))
<1>1. /\ Len(d) \in Nat /\ Len(Append(d, S)) = Len(d) + 1
      /\ \A x \in 1..Len(d) : Append(d, S)[x] = d[x]
  OBVIOUS
<1>2. 1..Len(d) \subseteq 1..(Len(d) + 1)
  BY <1>1
<1>3. {Append(d, S)[x] : x \in DrawsIn(s.state)} = {d[x] : x \in DrawsIn(s.state)}
  BY <1>1 DEF Honest
<1> QED BY <1>1, <1>2, <1>3 DEF Honest

(* A key of the newest draw alone.                                         *)
LEMMA HonestNew ==
  ASSUME NEW s, NEW d \in Seq(SUBSET Sources), NEW S \in SUBSET Sources,
         DrawsIn(s.state) = {Len(d) + 1}, s.entropy_src_flags = S
  PROVE  Honest(s, Append(d, S))
<1>1. /\ Len(d) \in Nat /\ Len(Append(d, S)) = Len(d) + 1
      /\ Append(d, S)[Len(d) + 1] = S
  OBVIOUS
<1>2. Len(d) + 1 \in 1..(Len(d) + 1)
  BY <1>1
<1>3. {Append(d, S)[x] : x \in DrawsIn(s.state)} = {S}
  BY <1>1
<1> QED BY <1>1, <1>2, <1>3 DEF Honest

(* One more index to a union.                                              *)
LEMMA UnionOfMore ==
  ASSUME NEW A, NEW y, NEW e
  PROVE  UNION {e[x] : x \in A \cup {y}} = (UNION {e[x] : x \in A}) \cup e[y]
BY Zenon

(* The newest draw mixed into an honest state.                             *)
LEMMA HonestMixed ==
  ASSUME NEW s, NEW t, NEW d \in Seq(SUBSET Sources), NEW S \in SUBSET Sources,
         Honest(s, d), DrawsIn(t.state) = DrawsIn(s.state) \cup {Len(d) + 1},
         t.entropy_src_flags = s.entropy_src_flags \cup S
  PROVE  Honest(t, Append(d, S))
<1>1. /\ Len(d) \in Nat /\ Len(Append(d, S)) = Len(d) + 1
      /\ Append(d, S)[Len(d) + 1] = S
  OBVIOUS
<1>2. Honest(s, Append(d, S))
  BY HonestLater
<1>3. Len(d) + 1 \in 1..(Len(d) + 1)
  BY <1>1
<1> DEFINE e == Append(d, S)
<1> HIDE DEF e
<1>4. UNION {e[x] : x \in DrawsIn(t.state)} =
        (UNION {e[x] : x \in DrawsIn(s.state)}) \cup e[Len(d) + 1]
  BY UnionOfMore
<1>5. t.entropy_src_flags = UNION {e[x] : x \in DrawsIn(t.state)}
  BY <1>1, <1>2, <1>4 DEF Honest, e
<1>6. DrawsIn(t.state) \subseteq 1..Len(e)
  BY <1>1, <1>2, <1>3 DEF Honest, e
<1> QED BY <1>5, <1>6 DEF Honest, e

(* A state with the same draws and flags is as honest.                     *)
LEMMA HonestSame ==
  ASSUME NEW s, NEW t, NEW d, Honest(s, d), SameDraws(s, t)
  PROVE  Honest(t, d)
BY DEF Honest, SameDraws

(* What a step that leaves p with state t, the draws d and G as all that   *)
(* was given to it has to keep.                                            *)
Kept(p, t, d, G) ==
  /\ t.magic => Honest(t, d)
  /\ t.magic /\ t.pid = p => \A b \in G : b.key.seed = t.state.seed => KeyFree(t, b)
  /\ t.magic /\ G # {} => t.pid = p
  /\ ~t.magic => t.buffer = [i \in Block |-> Zero]

(* A step of p that does keeps the invariant.                              *)
LEMMA KeptStep ==
  ASSUME HistoryInv, IInv', NEW p \in alive, NEW t, NEW G,
         st' = [st EXCEPT ![p] = t], given' = [given EXCEPT ![p] = G],
         alive' \subseteq alive, used' = used,
         drawn' = drawn \/ \E S \in Draws : drawn' = Append(drawn, S),
         Kept(p, t, drawn', G)
  PROVE  HistoryInv'
<1>1. IInv /\ KeysUngiven /\ FlagsHonest /\ CopiesSilent /\ WipedClean
  BY DEF HistoryInv
<1>2. /\ p \in Pids /\ alive \subseteq Pids /\ alive \subseteq used
      /\ drawn \in Seq(SUBSET Sources) /\ DOMAIN st = Pids /\ DOMAIN given = Pids
  BY <1>1 DEF IInv, TypeOK
<1>3. /\ st'[p] = t /\ given'[p] = G
      /\ \A q \in Pids : q # p => st'[q] = st[q] /\ given'[q] = given[q]
  BY <1>2
<1>4. KeysUngiven'
  <2> SUFFICES ASSUME NEW q \in Pids, Own(q)', NEW b \in given'[q],
                      b.key.seed = st'[q].state.seed
               PROVE  KeyFree(st'[q], b)
    BY DEF KeysUngiven, KeyFree, PathLen
  <2>1. CASE q = p
    BY <1>3, <2>1 DEF Kept, Own
  <2>2. CASE q # p
    <3>1. Own(q) /\ st'[q] = st[q] /\ given'[q] = given[q]
      BY <1>3, <2>2 DEF Own
    <3> QED BY <1>1, <3>1 DEF KeysUngiven
  <2> QED BY <2>1, <2>2
<1>5. FlagsHonest'
  <2> SUFFICES ASSUME NEW q \in alive', st'[q].magic PROVE Honest(st'[q], drawn')
    BY DEF FlagsHonest, Honest, DrawsIn
  <2>1. CASE q = p
    BY <1>3, <2>1 DEF Kept
  <2>2. CASE q # p
    <3>1. q \in alive /\ q \in Pids /\ st'[q] = st[q]
      BY <1>2, <1>3, <2>2
    <3>2. Honest(st[q], drawn)
      BY <1>1, <3>1 DEF FlagsHonest
    <3>3. \A S \in Draws : Honest(st[q], Append(drawn, S))
      BY <1>2, <3>2, HonestLater DEF Draws
    <3> QED BY <3>1, <3>2, <3>3
  <2> QED BY <2>1, <2>2
<1>6. CopiesSilent'
  <2> SUFFICES ASSUME NEW q \in Pids, given'[q] # {}
               PROVE  q \in used /\ (q \in alive' /\ st'[q].magic => st'[q].pid = q)
    BY DEF CopiesSilent
  <2>1. CASE q = p
    BY <1>2, <1>3, <2>1 DEF Kept
  <2>2. CASE q # p
    BY <1>1, <1>3, <2>2 DEF CopiesSilent
  <2> QED BY <2>1, <2>2
<1>7. WipedClean'
  <2> SUFFICES ASSUME NEW q \in Pids, ~st'[q].magic
               PROVE  st'[q].buffer = [i \in Block |-> Zero]
    BY DEF WipedClean, Block, Zero
  <2>1. CASE q = p
    BY <1>3, <2>1 DEF Kept
  <2>2. CASE q # p
    BY <1>1, <1>3, <2>2 DEF WipedClean
  <2> QED BY <2>1, <2>2
<1> QED BY <1>4, <1>5, <1>6, <1>7 DEF HistoryInv

(* What the invariant says of one process.                                 *)
LEMMA KeptSoFar ==
  ASSUME HistoryInv, NEW p \in alive
  PROVE  /\ Kept(p, st[p], drawn, given[p]) /\ p \in Pids /\ st[p] \in St
         /\ st \in [Pids -> St] /\ given \in [Pids -> SUBSET RealBytes]
         /\ IInv /\ drawn \in Seq(SUBSET Sources)
<1>1. /\ p \in Pids /\ st \in [Pids -> St] /\ given \in [Pids -> SUBSET RealBytes]
      /\ drawn \in Seq(SUBSET Sources)
  BY DEF HistoryInv, IInv, TypeOK, St
<1>2. Own(p) <=> st[p].magic /\ st[p].pid = p
  BY DEF Own
<1>3. st[p].magic => Honest(st[p], drawn)
  BY DEF HistoryInv, FlagsHonest
<1>4. st[p].magic /\ st[p].pid = p =>
        \A b \in given[p] : b.key.seed = st[p].state.seed => KeyFree(st[p], b)
  BY <1>1, <1>2 DEF HistoryInv, KeysUngiven
<1>5. st[p].magic /\ given[p] # {} => st[p].pid = p
  BY <1>1 DEF HistoryInv, CopiesSilent
<1>6. ~st[p].magic => st[p].buffer = [i \in Block |-> Zero]
  BY <1>1 DEF HistoryInv, WipedClean
<1> QED BY <1>1, <1>3, <1>4, <1>5, <1>6 DEF HistoryInv, Kept

(* A step that touches neither state nor output.                           *)
LEMMA StandsStill ==
  ASSUME HistoryInv, IInv', NEW p \in alive, UNCHANGED <<st, given, used, drawn>>,
         alive' \subseteq alive
  PROVE  HistoryInv'
<1>1. /\ Kept(p, st[p], drawn, given[p]) /\ p \in Pids
      /\ st \in [Pids -> St] /\ given \in [Pids -> SUBSET RealBytes]
  BY KeptSoFar
<1>2. st' = [st EXCEPT ![p] = st[p]] /\ given' = [given EXCEPT ![p] = given[p]]
  BY <1>1
<1>3. drawn' = drawn /\ Kept(p, st[p], drawn', given[p]) /\ used' = used
  BY <1>1
<1> QED BY <1>2, <1>3, KeptStep

(* A state of a new draw, for p: nothing given to p is of that seed.       *)
LEMMA NewSeedKept ==
  ASSUME HistoryInv, NEW p \in alive, NEW S \in Draws, NEW t,
         t.magic, t.pid = p, t.state.seed = NewDraw, DrawsIn(t.state) = {NewDraw},
         t.entropy_src_flags = S
  PROVE  /\ Honest(t, Append(drawn, S))
         /\ \A b \in given[p] : b.key.seed # t.state.seed
         /\ Kept(p, t, Append(drawn, S), given[p])
<1>1. /\ p \in Pids /\ IInv /\ drawn \in Seq(SUBSET Sources)
      /\ given \in [Pids -> SUBSET RealBytes]
  BY KeptSoFar
<1>2. Honest(t, Append(drawn, S))
  BY <1>1, HonestNew DEF NewDraw, Draws
<1>3. ASSUME NEW b \in given[p] PROVE b.key.seed # t.state.seed
  <2>1. b \in RealBytes /\ b.key.seed <= Len(drawn)
    BY <1>1 DEF IInv, GivenOK
  <2>2. b.key.seed \in Nat /\ Len(drawn) \in Nat
    BY <1>1, <2>1 DEF RealBytes
  <2> QED BY <2>1, <2>2 DEF NewDraw
<1> QED BY <1>2, <1>3 DEF Kept

(* ottery_st_init with entropy.                                            *)
LEMMA StInitKeeps ==
  ASSUME HistoryInv, IInv', NEW p \in Pids, StInit(p)
  PROVE  HistoryInv'
<1>1. PICK S \in Draws :
        /\ st' = [st EXCEPT ![p] =
                    [Reseed(Blank(NoPid), NewDraw, S) EXCEPT !.magic = TRUE, !.pid = p]]
        /\ drawn' = Append(drawn, S)
  BY DEF StInit
<1>2. p \in alive /\ UNCHANGED <<given, alive, used>>
  BY DEF StInit, Enter
<1>3. IInv /\ given \in [Pids -> SUBSET RealBytes]
  BY <1>2, KeptSoFar
<1> DEFINE r == Reseed(Blank(NoPid), NewDraw, S)
           t == [r EXCEPT !.magic = TRUE, !.pid = p]
<1>4. NewDraw \in Nat \ {0}
  BY <1>3, DrawMade
<1>5. Live(r) /\ r.state.seed = NewDraw
  BY <1>4, BlankType, ReseedSpec
<1>6. DrawsIn(r.state) = {NewDraw} /\ r.entropy_src_flags = S
  BY <1>4, BlankType, ReseedDraws
<1>7. st' = [st EXCEPT ![p] = t]
  BY <1>1
<1> HIDE DEF r
<1>8. t.state = r.state /\ t.entropy_src_flags = r.entropy_src_flags /\ t.magic /\ t.pid = p
  BY <1>5 DEF Live, St, States
<1> HIDE DEF t
<1>9. Kept(p, t, drawn', given[p])
  BY <1>1, <1>2, <1>5, <1>6, <1>8, NewSeedKept
<1>10. given' = [given EXCEPT ![p] = given[p]]
  BY <1>2, <1>3
<1> QED BY <1>1, <1>2, <1>7, <1>9, <1>10, KeptStep

(* ottery_st_wipe, and ottery_st_init without entropy.                     *)
LEMMA ZeroedKeeps ==
  ASSUME HistoryInv, IInv', NEW p \in Pids, Zeroed(p)
  PROVE  HistoryInv'
<1> DEFINE t == Blank(NoPid)
<1>1. /\ p \in alive /\ st' = [st EXCEPT ![p] = t]
      /\ UNCHANGED <<given, alive, used, drawn>>
  BY DEF Zeroed, Enter
<1>2. given' = [given EXCEPT ![p] = given[p]]
  BY <1>1, KeptSoFar
<1>3. Kept(p, t, drawn', given[p])
  BY DEF Kept, Blank
<1> HIDE DEF t
<1> QED BY <1>1, <1>2, <1>3, KeptStep

(* In a state outside the bulk loop, all that was given has the key of the *)
(* block in the buffer or an earlier one.                                  *)
LEMMA GivenBeforeCounter ==
  ASSUME NEW s \in St, PathLen(s) >= 1, NEW op, NEW b \in RealBytes,
         Precedes(b, MarkLen(s, op), MarkAt(s, op))
  PROVE  Precedes(b, PathLen(s), Offset(s))
<1>1. PathLen(s) \in Nat
  BY StNumbers
<1>2. b.key.path \in Seq(Steps)
  BY DEF RealBytes
<1>3. Len(b.key.path) \in Nat
  BY <1>2
<1>4. CASE op = "bytes"
  BY <1>4 DEF MarkLen, MarkAt
<1>5. CASE op # "bytes"
  <2>1. MarkLen(s, op) = PathLen(s) - 1
    BY <1>5 DEF MarkLen
  <2> QED BY <1>1, <1>3, <2>1 DEF Precedes
<1> QED BY <1>4, <1>5

(* Mixing in a seed that keeps the flags honest.                           *)
LEMMA AddSeedKeeps ==
  ASSUME HistoryInv, IInv', NEW p \in Pids, Enter(p), st[p].magic,
         NEW n \in Nat, NEW mix \in Mixes, NEW flags \in SUBSET Sources,
         st' = [st EXCEPT ![p] = AddSeedImpl(@, n, mix, flags)],
         drawn' = drawn \/ \E S \in Draws : drawn' = Append(drawn, S),
         Honest(AddSeedImpl(st[p], n, mix, flags), drawn'),
         UNCHANGED <<given, alive, used>>
  PROVE  HistoryInv'
<1> DEFINE t == AddSeedImpl(st[p], n, mix, flags)
<1>1. p \in alive /\ IInv
  BY DEF Enter, HistoryInv
<1>2. /\ Kept(p, st[p], drawn, given[p]) /\ st[p] \in St
      /\ st \in [Pids -> St] /\ given \in [Pids -> SUBSET RealBytes]
  BY <1>1, KeptSoFar
<1>3. Ready(st[p]) /\ st[p].block_counter = 0 /\ PathLen(st[p]) >= 1
  BY <1>1, Entered DEF Ready
<1>4. t \in St /\ t.magic = st[p].magic /\ t.pid = st[p].pid
  BY <1>2, <1>3, AddSeedImplSpec
<1>5. Grows(st[p], t)
  BY <1>2, <1>3, AddSeedDraws
<1>6. st' = [st EXCEPT ![p] = t] /\ given' = [given EXCEPT ![p] = given[p]]
  BY <1>2
<1>7. Honest(t, drawn')
  OBVIOUS
<1> HIDE DEF t
<1>8. ASSUME t.pid = p, NEW b \in given[p], b.key.seed = t.state.seed
      PROVE  KeyFree(t, b)
  <2>1. Own(p) /\ b.key.seed = st[p].state.seed /\ b \in RealBytes
    BY <1>1, <1>2, <1>4, <1>5, <1>8 DEF Own, Grows
  <2>2. Precedes(b, MarkLen(st[p], call[p].op), MarkAt(st[p], call[p].op))
    BY <1>1, <2>1 DEF IInv, GivenOK
  <2>3. Precedes(b, PathLen(st[p]), Offset(st[p]))
    BY <1>2, <1>3, <2>1, <2>2, GivenBeforeCounter
  <2>4. KeyFree(st[p], b)
    BY <1>2, <1>4, <1>8, <2>1 DEF Kept
  <2> QED BY <1>2, <1>4, <1>5, <2>1, <2>3, <2>4, KeyFreeGrows
<1>9. Kept(p, t, drawn', given[p])
  BY <1>2, <1>4, <1>7, <1>8 DEF Kept
<1> QED BY <1>1, <1>6, <1>9, KeptStep

(* A seed that is no draw, and comes without flags.                        *)
LEMMA AddSeedSame ==
  ASSUME NEW s \in St, s.block_counter = 0, NEW n \in Nat, NEW mix \in Mixes, ~(mix > 0),
         NEW none \in SUBSET Sources, none = {}
  PROVE  SameDraws(s, AddSeedImpl(s, n, mix, none))
<1> DEFINE t == AddSeedImpl(s, n, mix, none)
<1>1. /\ DrawsIn(t.state) = DrawsIn(s.state) \cup {m \in {mix} : m > 0 /\ Passes(n) > 0}
      /\ t.entropy_src_flags = s.entropy_src_flags \cup none
  BY ONLY s \in St, s.block_counter = 0, n \in Nat, mix \in Mixes, none \in SUBSET Sources,
          AddSeedDraws
<1>2. {m \in {mix} : m > 0 /\ Passes(n) > 0} = {}
  OBVIOUS
<1> HIDE DEF t
<1>3. SameDraws(s, t)
  BY <1>1, <1>2 DEF SameDraws
<1> QED BY <1>3 DEF t

(* ottery_st_add_seed with the caller's bytes: no draw, and no flags.      *)
LEMMA AddSeedByCallerKeeps ==
  ASSUME HistoryInv, IInv', NEW p \in Pids, AddSeed(p)
  PROVE  HistoryInv'
<1>1. PICK u \in Seeds, n \in SeedLens : st' = [st EXCEPT ![p] = AddSeedImpl(@, n, -u, {})]
  BY DEF AddSeed, AddSeedOf
<1>2. /\ Enter(p) /\ st[p].magic /\ p \in alive
      /\ UNCHANGED <<given, alive, used, drawn>>
  BY DEF AddSeed, AddSeedOf, Enter
<1>3. n \in Nat /\ -u \in Mixes /\ {} \in SUBSET Sources /\ ~(-u > 0)
  BY Parameters DEF Mixes
<1>4. Honest(st[p], drawn) /\ st[p] \in St /\ IInv
  BY <1>2, KeptSoFar DEF Kept
<1>5. st[p].block_counter = 0
  BY <1>2, <1>4, Entered DEF Ready
<1> DEFINE t == AddSeedImpl(st[p], n, -u, {})
<1>6. SameDraws(st[p], t)
  BY <1>3, <1>4, <1>5, AddSeedSame
<1> HIDE DEF t
<1>7. Honest(t, drawn')
  BY <1>2, <1>4, <1>6, HonestSame
<1> QED BY <1>1, <1>2, <1>3, <1>7, AddSeedKeeps DEF t

(* ottery_st_add_seed with bytes of the system: a draw and its flags.      *)
LEMMA AddSeedFromSystemKeeps ==
  ASSUME HistoryInv, IInv', NEW p \in Pids, AddSeedFromSystem(p)
  PROVE  HistoryInv'
<1>1. PICK S \in Draws :
        /\ st' = [st EXCEPT ![p] = AddSeedImpl(@, DrawLen(S), NewDraw, S)]
        /\ drawn' = Append(drawn, S)
  BY DEF AddSeedFromSystem
<1>2. /\ Enter(p) /\ st[p].magic /\ p \in alive
      /\ UNCHANGED <<given, alive, used>>
  BY DEF AddSeedFromSystem, Enter
<1>3. Honest(st[p], drawn) /\ st[p] \in St /\ IInv /\ drawn \in Seq(SUBSET Sources)
  BY <1>2, KeptSoFar DEF Kept
<1>4. /\ DrawLen(S) \in Nat /\ NewDraw \in Mixes /\ S \in SUBSET Sources
      /\ NewDraw \in Nat \ {0}
  BY <1>3, DrawMade
<1>5. st[p].block_counter = 0
  BY <1>2, <1>3, Entered DEF Ready
<1>6. Passes(DrawLen(S)) > 0
  <2>1. S # {} /\ IsFiniteSet(S)
    BY Parameters, FS_Subset DEF Draws
  <2>2. Cardinality(S) \in Nat /\ Cardinality(S) # 0
    BY <2>1, FS_CardinalityType, FS_EmptySet
  <2>3. ASSUME NEW x \in Nat, x # 0, NEW y \in Nat, y >= 2 PROVE y * x > 0
    BY <2>3
  <2>4. DrawLen(S) > 0
    BY <2>2, <2>3, PrfShape DEF DrawLen
  <2> QED BY <1>4, <2>4, PassesPositive
<1> DEFINE n == DrawLen(S)
           s == st[p]
           t == AddSeedImpl(s, n, NewDraw, S)
<1>7. /\ DrawsIn(t.state) = DrawsIn(s.state) \cup {m \in {NewDraw} : m > 0 /\ Passes(n) > 0}
      /\ t.entropy_src_flags = s.entropy_src_flags \cup S
  <2>1. s \in St /\ s.block_counter = 0
    BY <1>3, <1>5
  <2> HIDE DEF s
  <2> QED BY ONLY <1>4, <2>1, AddSeedDraws
<1> HIDE DEF t
<1>8. {m \in {NewDraw} : m > 0 /\ Passes(n) > 0} = {Len(drawn) + 1}
  BY <1>4, <1>6 DEF NewDraw
<1>9. Honest(t, Append(drawn, S))
  BY <1>3, <1>4, <1>7, <1>8, HonestMixed
<1> QED BY <1>1, <1>2, <1>4, <1>9, AddSeedKeeps DEF t

(* ottery_st_prevent_backtracking changes the buffer only, and nothing in  *)
(* a clean one.                                                            *)
LEMMA PreventBacktrackingKeeps ==
  ASSUME HistoryInv, IInv', NEW p \in Pids, StPreventBacktracking(p)
  PROVE  HistoryInv'
<1> DEFINE s == st[p]
           t == PreventBacktracking(s)
<1>1. /\ p \in alive /\ st' = [st EXCEPT ![p] = t]
      /\ UNCHANGED <<given, alive, used, drawn>>
  BY DEF StPreventBacktracking, Enter
<1>2. /\ Kept(p, s, drawn, given[p]) /\ s \in St
      /\ given' = [given EXCEPT ![p] = given[p]]
  BY <1>1, KeptSoFar
<1> HIDE DEF s
<1>3. t.state = s.state /\ t.magic = s.magic /\ t.pid = s.pid
  BY <1>2, PreventBacktrackingSpec
<1>4. t.entropy_src_flags = s.entropy_src_flags
  BY <1>2 DEF PreventBacktracking, St, States
<1>5. ASSUME s.buffer = [i \in Block |-> Zero] PROVE t.buffer = [i \in Block |-> Zero]
  <2>1. CASE ClearAfterYield
    BY <1>5, <2>1 DEF PreventBacktracking
  <2>2. CASE ~ClearAfterYield
    <3>1. t.buffer = [i \in Block |-> IF i < s.pos THEN Zero ELSE s.buffer[i]]
      BY <1>2, <2>2 DEF PreventBacktracking, St, States
    <3> HIDE DEF t
    <3> QED BY <1>5, <3>1
  <2> QED BY <2>1, <2>2
<1> HIDE DEF t
<1>6. Kept(p, t, drawn', given[p])
  <2>1. SameDraws(s, t)
    BY <1>3, <1>4 DEF SameDraws
  <2>2. t.magic => Honest(t, drawn')
    BY <1>1, <1>2, <1>3, <2>1, HonestSame DEF Kept
  <2>3. \A b : KeyFree(t, b) <=> KeyFree(s, b)
    BY <1>3 DEF KeyFree, PathLen
  <2> QED BY <1>2, <1>3, <1>5, <2>2, <2>3 DEF Kept
<1> QED BY <1>1, <1>2, <1>6, KeptStep

-----------------------------------------------------------------------------
(* Output.                                                                 *)

(* p may hand out from s, with the draws d made, s is honest, and nothing  *)
(* that p was given is material of its keys.                               *)
Ripe(p, s, d, op) ==
  /\ Holder(p, s, d, op) /\ PathLen(s) >= 1 /\ Honest(s, d)
  /\ \A b \in given[p] : b.key.seed = s.state.seed => KeyFree(s, b)
  /\ d = drawn \/ \E S \in Draws : d = Append(drawn, S)

(* Handing out a clean yield keeps the invariant.                          *)
LEMMA DeliverKeeps ==
  ASSUME HistoryInv, IInv', NEW p \in alive, NEW s, NEW d, NEW op, NEW y, NEW op2, NEW n,
         Ripe(p, s, d, op), Moves(s, op, y, op2, n), Clean(s, y),
         Deliver(p, y), drawn' = d, UNCHANGED <<alive, used>>
  PROVE  HistoryInv'
<1> DEFINE out == {y.out[i] : i \in DOMAIN y.out}
           G == given[p] \cup out
<1>1. p \in Pids /\ given \in [Pids -> SUBSET RealBytes]
  BY KeptSoFar
<1>2. st' = [st EXCEPT ![p] = y.st] /\ given' = [given EXCEPT ![p] = G]
  BY <1>1 DEF Deliver
<1>3. /\ s \in St /\ s.magic /\ s.pid = p
      /\ \A b \in given[p] :
           b.key.seed = s.state.seed => Precedes(b, MarkLen(s, op), MarkAt(s, op))
  BY DEF Ripe, Holder
<1>4. y.st.magic /\ y.st.pid = p /\ y.st.state.seed = s.state.seed
  BY <1>3 DEF Moves
<1>5. Honest(y.st, drawn')
  BY HonestSame DEF Ripe, Clean
<1>6. ASSUME NEW b \in given[p], b.key.seed = s.state.seed PROVE KeyFree(y.st, b)
  <2>1. b \in RealBytes /\ KeyFree(s, b)
    BY <1>1, <1>6 DEF Ripe
  <2>2. Precedes(b, PathLen(s), Offset(s))
    BY <1>3, <1>6, <2>1, GivenBeforeCounter DEF Ripe
  <2> QED BY <1>3, <2>1, <2>2, KeyFreeGrows DEF Clean
<1>7. \A b \in out : KeyFree(y.st, b)
  BY DEF Clean
<1>8. Kept(p, y.st, drawn', G)
  <2> HIDE DEF out
  <2> QED BY <1>4, <1>5, <1>6, <1>7 DEF Kept
<1> HIDE DEF G
<1>9. used' = used /\ alive' \subseteq alive
  OBVIOUS
<1>10. drawn' = drawn \/ \E S \in Draws : drawn' = Append(drawn, S)
  BY DEF Ripe
<1> QED BY <1>2, <1>8, <1>9, <1>10, KeptStep

(* What ottery_st_rand_check_pid leaves is ripe.                           *)
LEMMA CheckPidRipe ==
  ASSUME HistoryInv, NEW p \in alive, st[p].magic, call[p].op # "bytes", NEW c \in CheckPid(p)
  PROVE  Live(c.st) /\ Ripe(p, c.st, c.drawn, "idle")
<1>1. /\ Kept(p, st[p], drawn, given[p]) /\ st[p] \in St /\ IInv
  BY KeptSoFar
<1>2. Live(c.st) /\ Holder(p, c.st, c.drawn, "idle")
  BY <1>1, CheckPidSpec
<1>3. PathLen(c.st) >= 1
  BY <1>2 DEF Live, Ready
<1>4. CASE st[p].pid = p
  <2>1. c.st = st[p] /\ c.drawn = drawn
    BY <1>4 DEF CheckPid
  <2> QED BY <1>1, <1>2, <1>3, <1>4, <2>1 DEF Ripe, Kept
<1>5. CASE st[p].pid # p
  <2>1. PICK S \in Draws :
          /\ c.st = [Reseed(st[p], NewDraw, S) EXCEPT !.pid = p]
          /\ c.drawn = Append(drawn, S)
    BY <1>5 DEF CheckPid
  <2> DEFINE r == Reseed(st[p], NewDraw, S)
             t == [r EXCEPT !.pid = p]
  <2>2. NewDraw \in Nat \ {0} /\ st[p].block_counter = 0
    BY <1>1, DrawMade DEF IInv, StatesOK, Ready
  <2>3. Live(r) /\ r.state.seed = NewDraw /\ r.magic = st[p].magic
    BY <1>1, <2>2, ReseedSpec
  <2>4. DrawsIn(r.state) = {NewDraw} /\ r.entropy_src_flags = S
    BY <1>1, <2>2, ReseedDraws
  <2>5. c.st = t
    BY <2>1
  <2> HIDE DEF r
  <2>6. /\ t.state = r.state /\ t.magic = r.magic /\ t.pid = p
        /\ t.entropy_src_flags = r.entropy_src_flags
    BY <2>3 DEF Live, St, States
  <2> HIDE DEF t
  <2>7. /\ Honest(t, Append(drawn, S))
        /\ \A b \in given[p] : b.key.seed # t.state.seed
    BY <2>3, <2>4, <2>6, NewSeedKept
  <2> QED BY <1>2, <1>3, <2>1, <2>5, <2>7 DEF Ripe
<1> QED BY <1>4, <1>5

(* ottery_st_rand_bytes, when the request fits in two blocks.              *)
LEMMA RandBytesSmallKeeps ==
  ASSUME HistoryInv, IInv', NEW p \in Pids, RandBytesSmall(p)
  PROVE  HistoryInv'
<1>1. PICK c \in CheckPid(p), n \in Requests :
        /\ FitsInTwoBlocks(c.st, n)
        /\ Deliver(p, FromBuf(c.st, n))
        /\ drawn' = c.drawn
  BY DEF RandBytesSmall
<1>2. p \in alive /\ st[p].magic /\ call[p].op # "bytes" /\ UNCHANGED <<alive, used>>
  BY DEF RandBytesSmall, Enter
<1>3. Live(c.st) /\ Ripe(p, c.st, c.drawn, "idle")
  BY <1>2, CheckPidRipe
<1>4. c.st.pos \in Nat /\ n \in Nat
  BY <1>3, LiveMarks, Parameters
<1>5. c.st.pos + n < 2 * OutputLen - StateBytes
  BY <1>1, <1>4, PrfShape DEF FitsInTwoBlocks
<1>6. /\ Moves(c.st, "idle", FromBuf(c.st, n), "idle", n)
      /\ Clean(c.st, FromBuf(c.st, n))
  BY <1>3, <1>4, <1>5, FromBufSpec, FromBufClean
<1> QED BY <1>1, <1>2, <1>3, <1>6, DeliverKeeps

(* ottery_st_rand_bytes, when it does not: the rest of the buffer.         *)
LEMMA RandBytesBulkKeeps ==
  ASSUME HistoryInv, IInv', NEW p \in Pids, RandBytesBulk(p)
  PROVE  HistoryInv'
<1>1. PICK c \in CheckPid(p), n \in Requests :
        Deliver(p, BulkTail(c.st)) /\ drawn' = c.drawn
  BY DEF RandBytesBulk
<1>2. p \in alive /\ st[p].magic /\ call[p].op # "bytes" /\ UNCHANGED <<alive, used>>
  BY DEF RandBytesBulk, Enter
<1>3. Live(c.st) /\ Ripe(p, c.st, c.drawn, "idle")
  BY <1>2, CheckPidRipe
<1>4. /\ Moves(c.st, "idle", BulkTail(c.st), "bytes", OutputLen - c.st.pos)
      /\ Clean(c.st, BulkTail(c.st))
  BY <1>3, BulkTailSpec, BulkTailClean
<1> QED BY <1>1, <1>2, <1>3, <1>4, DeliverKeeps

(* Inside the bulk loop the state is ripe, for the stream of its key.      *)
LEMMA LoopRipe ==
  ASSUME HistoryInv, NEW p \in Pids, InBytes(p)
  PROVE  Ripe(p, st[p], drawn, "bytes")
<1>1. p \in alive /\ IInv
  BY DEF InBytes, HistoryInv
<1>2. PathLen(st[p]) >= 1 /\ Holder(p, st[p], drawn, "bytes")
  BY <1>1, InLoop
<1>3. Kept(p, st[p], drawn, given[p])
  BY <1>1, KeptSoFar
<1>4. st[p].magic /\ st[p].pid = p
  BY <1>2 DEF Holder
<1> QED BY <1>2, <1>3, <1>4 DEF Ripe, Kept

(* A whole block of the bulk loop.                                         *)
LEMMA RandBytesBlockKeeps ==
  ASSUME HistoryInv, IInv', NEW p \in Pids, RandBytesBlock(p)
  PROVE  HistoryInv'
<1>1. /\ InBytes(p) /\ p \in alive /\ Deliver(p, BulkBlock(st[p]))
      /\ UNCHANGED <<alive, used, drawn>>
  BY DEF RandBytesBlock, InBytes
<1>2. IInv
  BY DEF HistoryInv
<1>3. /\ st[p] \in St /\ st[p].state.seed # 0 /\ PathLen(st[p]) >= 1
      /\ call[p].need \in Nat /\ Offset(st[p]) \in Nat
      /\ Offset(st[p]) + call[p].need + OutputLen <= StreamLen
  BY <1>1, <1>2, InLoop
<1>4. Offset(st[p]) + OutputLen <= StreamLen
  BY <1>3, PrfShape
<1>5. /\ Moves(st[p], "bytes", BulkBlock(st[p]), "bytes", OutputLen)
      /\ Clean(st[p], BulkBlock(st[p]))
  BY <1>3, <1>4, BulkBlockSpec, BulkBlockClean
<1>6. Ripe(p, st[p], drawn, "bytes") /\ drawn' = drawn
  BY <1>1, LoopRipe
<1> QED BY <1>1, <1>5, <1>6, DeliverKeeps

(* The end of the bulk loop.                                               *)
LEMMA RandBytesEndKeeps ==
  ASSUME HistoryInv, IInv', NEW p \in Pids, RandBytesEnd(p)
  PROVE  HistoryInv'
<1> DEFINE n == call[p].need
<1>1. /\ InBytes(p) /\ p \in alive /\ Deliver(p, BulkEnd(st[p], n)) /\ n < OutputLen
      /\ UNCHANGED <<alive, used, drawn>>
  BY DEF RandBytesEnd, InBytes
<1>2. IInv
  BY DEF HistoryInv
<1>3. /\ st[p] \in St /\ st[p].state.seed # 0 /\ PathLen(st[p]) >= 1
      /\ n \in Nat /\ Offset(st[p]) \in Nat
      /\ Offset(st[p]) + n + OutputLen <= StreamLen
  BY <1>1, <1>2, InLoop
<1> HIDE DEF n
<1>4. Offset(st[p]) + OutputLen <= StreamLen
  BY <1>3, PrfShape
<1>5. /\ Moves(st[p], "bytes", BulkEnd(st[p], n), "idle", n)
      /\ Clean(st[p], BulkEnd(st[p], n))
  BY <1>1, <1>3, <1>4, BulkEndSpec, BulkEndClean
<1>6. Ripe(p, st[p], drawn, "bytes") /\ drawn' = drawn
  BY <1>1, LoopRipe
<1> QED BY <1>1, <1>5, <1>6, DeliverKeeps

(* The rand integer functions.                                             *)
LEMMA RandIntegerKeeps ==
  ASSUME HistoryInv, IInv', NEW p \in Pids, RandInteger(p)
  PROVE  HistoryInv'
<1>1. PICK c \in CheckPid(p), n \in IntSizes :
        Deliver(p, RandInt(c.st, n)) /\ drawn' = c.drawn
  BY DEF RandInteger
<1>2. p \in alive /\ st[p].magic /\ call[p].op # "bytes" /\ UNCHANGED <<alive, used>>
  BY DEF RandInteger, Enter
<1>3. Live(c.st) /\ Ripe(p, c.st, c.drawn, "idle")
  BY <1>2, CheckPidRipe
<1>4. /\ Moves(c.st, "idle", RandInt(c.st, n), "idle", n)
      /\ Clean(c.st, RandInt(c.st, n))
  BY <1>3, RandIntSpec, RandIntClean
<1> QED BY <1>1, <1>2, <1>3, <1>4, DeliverKeeps

(* A draw of the rejection loop, whatever becomes of it.                   *)
LEMMA RangeDrawKeeps ==
  ASSUME HistoryInv, IInv', NEW p \in Pids, RangeDraw(p)
  PROVE  HistoryInv'
<1> DEFINE n == call[p].need
<1>1. PICK c \in CheckPid(p) : Deliver(p, RandInt(c.st, n)) /\ drawn' = c.drawn
  BY DEF RangeDraw
<1>2. p \in alive /\ call[p].op = "range" /\ UNCHANGED <<alive, used>>
  BY DEF RangeDraw
<1>3. st[p].magic /\ n \in IntSizes
  BY <1>2 DEF HistoryInv, IInv, CallsOK
<1> HIDE DEF n
<1>4. Live(c.st) /\ Ripe(p, c.st, c.drawn, "idle")
  BY <1>2, <1>3, CheckPidRipe
<1>5. /\ Moves(c.st, "idle", RandInt(c.st, n), "idle", n)
      /\ Clean(c.st, RandInt(c.st, n))
  BY <1>3, <1>4, RandIntSpec, RandIntClean
<1> QED BY <1>1, <1>2, <1>4, <1>5, DeliverKeeps

-----------------------------------------------------------------------------
(* The rest of the actions.                                                *)

(* Those that leave states and output alone.                               *)
LEMMA QuietKeeps ==
  ASSUME HistoryInv, IInv', NEW p \in Pids,
         \/ UseBeforeInit(p) \/ CheckPidFails(p) \/ SetFatalHandler(p)
         \/ RangeStart(p) \/ Exit(p)
  PROVE  HistoryInv'
<1>1. p \in alive /\ UNCHANGED <<st, given, used, drawn>>
  BY DEF UseBeforeInit, CheckPidFails, SetFatalHandler, RangeStart, Exit, Enter
<1>2. alive' \subseteq alive
  BY DEF UseBeforeInit, CheckPidFails, SetFatalHandler, RangeStart, Exit, Fatal
<1> QED BY <1>1, <1>2, StandsStill

(* fork, when pids are not reused: the child has a copy of the parent's    *)
(* key and flags, and was given nothing.                                   *)
LEMMA ForkKeeps ==
  ASSUME HistoryInv, IInv', ~PidReuse, NEW p \in Pids, Fork(p)
  PROVE  HistoryInv'
<1>1. PICK q \in Pids \ alive :
        /\ q \notin used
        /\ alive' = alive \cup {q} /\ used' = used \cup {q}
        /\ st' = [st EXCEPT ![q] = st[p]]
  BY DEF Fork
<1>2. p \in alive /\ given' = given /\ drawn' = drawn
  BY DEF Fork, Enter
<1>3. /\ IInv /\ KeysUngiven /\ FlagsHonest /\ CopiesSilent /\ WipedClean
      /\ DOMAIN st = Pids /\ alive \subseteq Pids
  BY DEF HistoryInv, IInv, TypeOK
<1>4. st'[q] = st[p] /\ \A r \in Pids : r # q => st'[r] = st[r]
  BY <1>1, <1>3
<1>5. given[q] = {}
  BY <1>1, <1>3 DEF CopiesSilent
<1>6. KeysUngiven'
  <2> SUFFICES ASSUME NEW r \in Pids, Own(r)', NEW b \in given[r],
                      b.key.seed = st'[r].state.seed
               PROVE  KeyFree(st'[r], b)
    BY <1>2 DEF KeysUngiven, KeyFree, PathLen
  <2>1. r # q
    BY <1>5
  <2>2. st'[r] = st[r] /\ Own(r)
    BY <1>1, <1>4, <2>1 DEF Own
  <2> QED BY <1>3, <2>2 DEF KeysUngiven
<1>7. FlagsHonest'
  <2> SUFFICES ASSUME NEW r \in alive', st'[r].magic PROVE Honest(st'[r], drawn)
    BY <1>2 DEF FlagsHonest, Honest, DrawsIn
  <2>1. CASE r = q
    BY <1>2, <1>3, <1>4, <2>1 DEF FlagsHonest
  <2>2. CASE r # q
    BY <1>1, <1>3, <1>4, <2>2 DEF FlagsHonest
  <2> QED BY <2>1, <2>2
<1>8. CopiesSilent'
  <2> SUFFICES ASSUME NEW r \in Pids, given[r] # {}
               PROVE  r \in used' /\ (r \in alive' /\ st'[r].magic => st'[r].pid = r)
    BY <1>2 DEF CopiesSilent
  <2>1. r # q
    BY <1>5
  <2> QED BY <1>1, <1>3, <1>4, <2>1 DEF CopiesSilent
<1>9. WipedClean'
  <2> SUFFICES ASSUME NEW r \in Pids, ~st'[r].magic
               PROVE  st'[r].buffer = [i \in Block |-> Zero]
    BY DEF WipedClean, Block, Zero
  <2>1. CASE r = q
    BY <1>3, <1>4, <2>1 DEF WipedClean
  <2>2. CASE r # q
    BY <1>3, <1>4, <2>2 DEF WipedClean
  <2> QED BY <2>1, <2>2
<1> QED BY <1>6, <1>7, <1>8, <1>9 DEF HistoryInv

(* Every step keeps the invariant: one case per action.                    *)
LEMMA HistoryNext ==
  ASSUME HistoryInv, ~PidReuse, ShortRequests, [Next]_vars
  PROVE  HistoryInv'
<1>1. IInv'
  BY NextSafe DEF HistoryInv
<1>2. CASE UNCHANGED vars
  <2>1. st' = st /\ given' = given /\ alive' = alive /\ used' = used /\ drawn' = drawn
    BY <1>2 DEF vars
  <2>2. KeysUngiven'
    BY <2>1 DEF HistoryInv, KeysUngiven, Own, KeyFree, PathLen
  <2>3. FlagsHonest'
    BY <2>1 DEF HistoryInv, FlagsHonest, Honest, DrawsIn
  <2>4. CopiesSilent' /\ WipedClean'
    BY <2>1 DEF HistoryInv, CopiesSilent, WipedClean, Block, Zero
  <2> QED BY <1>1, <2>2, <2>3, <2>4 DEF HistoryInv
<1>3. ASSUME NEW p \in Pids, Step(p) PROVE HistoryInv'
  <2>1. CASE StInit(p)
    BY <1>1, <2>1, StInitKeeps
  <2>2. CASE StInitFails(p) \/ StWipe(p)
    BY <1>1, <2>2, ZeroedKeeps DEF StInitFails, StWipe
  <2>3. CASE \/ UseBeforeInit(p) \/ CheckPidFails(p) \/ SetFatalHandler(p)
             \/ RangeStart(p) \/ Exit(p)
    BY <1>1, <2>3, QuietKeeps
  <2>4. CASE AddSeed(p)
    BY <1>1, <2>4, AddSeedByCallerKeeps
  <2>5. CASE AddSeedFromSystem(p)
    BY <1>1, <2>5, AddSeedFromSystemKeeps
  <2>6. CASE StPreventBacktracking(p)
    BY <1>1, <2>6, PreventBacktrackingKeeps
  <2>7. CASE RandBytesSmall(p)
    BY <1>1, <2>7, RandBytesSmallKeeps
  <2>8. CASE RandBytesBulk(p)
    BY <1>1, <2>8, RandBytesBulkKeeps
  <2>9. CASE BulkStep(p)
    BY <1>1, <2>9, RandBytesBlockKeeps, RandBytesEndKeeps DEF BulkStep
  <2>10. CASE RandInteger(p)
    BY <1>1, <2>10, RandIntegerKeeps
  <2>11. CASE RangeReject(p) \/ RangeAccept(p)
    BY <1>1, <2>11, RangeDrawKeeps DEF RangeReject, RangeAccept
  <2>12. CASE Fork(p)
    BY <1>1, <2>12, ForkKeeps
  <2> QED BY <1>3, <2>1, <2>2, <2>3, <2>4, <2>5, <2>6, <2>7, <2>8, <2>9, <2>10,
             <2>11, <2>12 DEF Step
<1> QED BY <1>2, <1>3 DEF Next

(* It holds before the first call.                                         *)
LEMMA HistoryInit == Init => HistoryInv
<1> SUFFICES ASSUME Init PROVE HistoryInv
  OBVIOUS
<1>1. \A p \in Pids : st[p] = Blank(NoPid) /\ given[p] = {}
  BY DEF Init
<1>2. \A p \in Pids : ~st[p].magic /\ st[p].buffer = [i \in Block |-> Zero]
  BY <1>1 DEF Blank
<1>3. KeysUngiven /\ CopiesSilent /\ WipedClean
  BY <1>1, <1>2 DEF KeysUngiven, Own, CopiesSilent, WipedClean
<1>4. FlagsHonest
  <2>1. alive \subseteq Pids
    BY Parameters DEF Init
  <2> QED BY <1>2, <2>1 DEF FlagsHonest
<1> QED BY <1>3, <1>4, InitSafe DEF HistoryInv

-----------------------------------------------------------------------------
(* The closed form of the seeding loop.                                    *)

(* Half a key's worth of seed, what one pass takes.                        *)
Half == StateBytes \div 2

(* A pass: a block, the seed XORed into it, and a key made of it.          *)
Pass(t, mix) ==
  LET g == NextBlockNoRekey(t)
  IN  [g EXCEPT !.state = Setup(g.buffer, mix), !.block_counter = 0]

(* What was left of the seed, counting from its end, a pass earlier.       *)
Before(k) == IF k > Half THEN k - Half ELSE 0

(* What the function of the loop has to be, once it is g.                  *)
LoopBody(g, s, n, mix) == [k \in 0..n |-> IF k = 0 THEN s ELSE Pass(g[Before(k)], mix)]

(* AbsorbLoop is the value at n of a function chosen to be so.             *)
LEMMA LoopFunction ==
  ASSUME NEW s, NEW n, NEW mix
  PROVE  AbsorbLoop(s, n, mix) = (CHOOSE g : g = LoopBody(g, s, n, mix))[n]
BY DEF AbsorbLoop, LoopBody, Pass, Before, Half

(* And it is so, if there is any such function.                            *)
LEMMA LoopChosen ==
  ASSUME NEW s, NEW n, NEW mix, NEW f, f = LoopBody(f, s, n, mix)
  PROVE  \E g : g = LoopBody(g, s, n, mix) /\ AbsorbLoop(s, n, mix) = g[n]
<1> DEFINE g == CHOOSE g : g = LoopBody(g, s, n, mix)
<1>1. g = LoopBody(g, s, n, mix)
  OBVIOUS
<1> HIDE DEF g
<1>2. AbsorbLoop(s, n, mix) = g[n]
  BY LoopFunction DEF g
<1> QED BY <1>1, <1>2

(* Division, one divisor further on.                                       *)
LEMMA DivUp ==
  ASSUME NEW a \in Nat, NEW h \in Nat \ {0}
  PROVE (a + h) \div h = (a \div h) + 1
<1> DEFINE q == a \div h
<1>1. q \in Nat /\ q * h <= a /\ a < q * h + h
  BY Division
<1> HIDE DEF q
<1>3. (q + 1) * h = q * h + h
  BY <1>1
<1>2. (q + 1) * h <= a + h /\ a + h < (q + 1) * h + h
  BY <1>1, <1>3
<1>4. a + h \in Nat /\ q + 1 \in Nat
  BY <1>1
<1> QED BY <1>2, <1>4, DivisionInterval DEF q

(* Every pass of the loop counts as one in Passes, a partial one too.      *)
LEMMA PassesBefore ==
  ASSUME NEW k \in Nat
  PROVE  /\ Passes(0) = 0
         /\ k > 0 => /\ Before(k) \in Nat /\ Before(k) < k
                     /\ Passes(k) = Passes(Before(k)) + 1
<1>1. Half \in Nat \ {0}
  BY PrfShape DEF Half
<1>2. Passes(0) = 0
  <2>1. (0 + Half - 1) \div Half = 0
    <3>1. Half - 1 \in Nat /\ 0 * Half <= Half - 1 /\ Half - 1 < 0 * Half + Half
      BY <1>1
    <3>2. (Half - 1) \div Half = 0
      BY <1>1, <3>1, DivisionInterval
    <3>3. 0 + Half - 1 = Half - 1
      BY <1>1
    <3> QED BY <3>2, <3>3
  <2> QED BY <2>1 DEF Passes, Half
<1>3. ASSUME k > 0 PROVE Before(k) \in Nat /\ Before(k) < k
  BY <1>1, <1>3 DEF Before
<1>4. ASSUME k > Half PROVE Passes(k) = Passes(Before(k)) + 1
  <2>1. Before(k) = k - Half /\ k - Half + Half - 1 \in Nat
    BY <1>1, <1>4 DEF Before
  <2>2. ((k - Half + Half - 1) + Half) \div Half = ((k - Half + Half - 1) \div Half) + 1
    BY <1>1, <2>1, DivUp
  <2>3. (k - Half + Half - 1) + Half = k + Half - 1
    BY <1>1
  <2> QED BY <2>1, <2>2, <2>3 DEF Passes, Half
<1>5. ASSUME k > 0, ~(k > Half) PROVE Passes(k) = 1
  <2>1. k + Half - 1 \in Nat /\ 1 * Half <= k + Half - 1 /\ k + Half - 1 < 1 * Half + Half
    BY <1>1, <1>5
  <2>2. (k + Half - 1) \div Half = 1
    BY <1>1, <2>1, DivisionInterval
  <2> QED BY <2>2 DEF Passes, Half
<1>6. ASSUME ~(k > Half) PROVE Before(k) = 0
  BY <1>6 DEF Before
<1> QED BY <1>2, <1>3, <1>4, <1>5, <1>6

(* The steps that k passes add to the key of s.                            *)
PassSteps(s, k, mix) ==
  [j \in 1..k |-> [at  |-> IF j = 1 THEN StreamPos(s.block_counter, 0) ELSE 0,
                   mix |-> mix]]

(* They are steps of a key.                                                *)
LEMMA PassStepsType ==
  ASSUME NEW s \in St, NEW k \in Nat, NEW mix \in Mixes
  PROVE  PassSteps(s, k, mix) \in Seq(Steps) /\ Len(PassSteps(s, k, mix)) = k
<1> DEFINE steps == PassSteps(s, k, mix)
<1>1. StreamPos(s.block_counter, 0) \in Nat
  BY StNumbers, StreamPosType
<1>2. steps \in [1..k -> Steps]
  BY <1>1 DEF PassSteps, Steps
<1> HIDE DEF steps
<1> QED BY <1>2, SeqDef DEF steps

(* What the closed form says of the key and the counter.                   *)
LEMMA AbsorbKey ==
  ASSUME NEW s \in St, NEW k \in Nat, NEW mix \in Mixes
  PROVE  LET u == Absorb(s, k, mix) IN
         /\ u.state = [seed |-> s.state.seed, path |-> s.state.path \o PassSteps(s, k, mix)]
         /\ u.state \in Keys
         /\ u.block_counter = IF k = 0 THEN s.block_counter ELSE 0
         /\ k = 0 => u.state = s.state
<1> DEFINE u == Absorb(s, k, mix)
           a == s.state.path
           b == PassSteps(s, k, mix)
           key == [seed |-> s.state.seed, path |-> a \o b]
<1>1. s.state \in Keys /\ a \in Seq(Steps) /\ s.state.seed \in Nat
  BY StNumbers
<1>2. b \in Seq(Steps) /\ Len(b) = k
  BY PassStepsType
<1>3. /\ u.state = [s.state EXCEPT !.path = a \o b]
      /\ u.block_counter = IF k = 0 THEN s.block_counter ELSE 0
  BY DEF Absorb, PassSteps, St, States
<1> HIDE DEF u, a, b
<1>4. a \o b \in Seq(Steps)
  BY <1>1, <1>2
<1>5. u.state = key /\ key \in Keys
  BY <1>1, <1>3, <1>4 DEF Keys
<1>6. ASSUME k = 0 PROVE u.state = s.state
  <2>1. a \o b = a
    BY <1>1, <1>2, <1>6
  <2> QED BY <1>1, <1>5, <2>1 DEF Keys, a
<1> QED BY <1>3, <1>5, <1>6 DEF u, a, b

(* One pass more.                                                          *)
LEMMA AbsorbOneMore ==
  ASSUME NEW s \in St, NEW k \in Nat, NEW mix \in Mixes
  PROVE  LET u == Absorb(s, k, mix)
             v == Absorb(s, k + 1, mix)
         IN  /\ v.state = Setup(Generate(u.state, u.block_counter), mix)
             /\ v.block_counter = 0
<1> DEFINE u == Absorb(s, k, mix)
           v == Absorb(s, k + 1, mix)
           a == s.state.path
           b == PassSteps(s, k, mix)
           c == PassSteps(s, k + 1, mix)
           e == [at |-> StreamPos(u.block_counter, 0), mix |-> mix]
<1>1. a \in Seq(Steps) /\ b \in Seq(Steps) /\ c \in Seq(Steps) /\ Len(b) = k /\ Len(c) = k + 1
  BY StNumbers, PassStepsType
<1>2. /\ u.state = [seed |-> s.state.seed, path |-> a \o b] /\ u.state \in Keys
      /\ u.block_counter = IF k = 0 THEN s.block_counter ELSE 0
  BY AbsorbKey
<1>3. /\ v.state = [seed |-> s.state.seed, path |-> a \o c] /\ v.block_counter = 0
  <2>1. k + 1 \in Nat /\ k + 1 # 0
    OBVIOUS
  <2> QED BY <2>1, AbsorbKey
<1>4. u.block_counter \in Nat
  BY <1>2, StNumbers
<1> DEFINE g == Generate(u.state, u.block_counter)
<1> HIDE DEF u, v
<1>5. g[0].key = u.state /\ g[0].at = StreamPos(u.block_counter, 0)
  <2>1. 0 \in Block
    BY PrfShape DEF Block
  <2> QED BY <1>2, <1>4, <2>1, GenerateType
<1>6. e \in Steps
  BY <1>4, StreamPosType DEF Steps
<1>7. c = Append(b, e)
  <2>1. \A j \in 1..k : c[j] = b[j]
    BY DEF PassSteps
  <2>2. c[k + 1] = e
    <3>1. CASE k = 0
      BY <1>2, <3>1 DEF PassSteps
    <3>2. CASE k # 0
      <4>1. StreamPos(0, 0) = 0
        BY PrfShape DEF StreamPos
      <4>2. k + 1 \in 1..(k + 1) /\ k + 1 # 1
        BY <3>2
      <4> QED BY <1>2, <3>2, <4>1, <4>2 DEF PassSteps
    <3> QED BY <3>1, <3>2
  <2> HIDE DEF b, c, e
  <2>3. /\ Append(b, e) \in Seq(Steps) /\ Len(Append(b, e)) = k + 1
        /\ \A j \in 1..k : Append(b, e)[j] = b[j]
        /\ Append(b, e)[k + 1] = e
    BY <1>1, <1>6
  <2>4. \A j \in 1..(k + 1) : j \in 1..k \/ j = k + 1
    OBVIOUS
  <2>5. \A j \in 1..(k + 1) : c[j] = Append(b, e)[j]
    BY <2>1, <2>2, <2>3, <2>4
  <2> QED BY <1>1, <2>3, <2>5, SeqEqual
<1> HIDE DEF b, c, e, g, a
<1>8. a \o c = Append(a \o b, e)
  BY <1>1, <1>6, <1>7
<1>9. Setup(g, mix) = [seed |-> u.state.seed, path |-> Append(u.state.path, e)]
  BY <1>5 DEF Setup, e
<1> QED BY <1>2, <1>3, <1>8, <1>9 DEF g, u, v

(* The state after k passes, with the buffer that the last one left.       *)
Passed(s, k, mix) ==
  IF k = 0
  THEN s
  ELSE LET u == Absorb(s, k - 1, mix)
       IN  [s EXCEPT !.state = Absorb(s, k, mix).state, !.block_counter = 0,
                     !.buffer = Generate(u.state, u.block_counter)]

(* A pass turns the state after k passes into that after k + 1.            *)
LEMMA PassedOneMore ==
  ASSUME NEW s \in St, NEW k \in Nat, NEW mix \in Mixes
  PROVE  Pass(Passed(s, k, mix), mix) = Passed(s, k + 1, mix)
<1> DEFINE u == Absorb(s, k, mix)
           v == Absorb(s, k + 1, mix)
           w == Absorb(s, k - 1, mix)
           t == Passed(s, k, mix)
           g == Generate(u.state, u.block_counter)
           h == Generate(w.state, w.block_counter)
           r == [s EXCEPT !.state = v.state, !.block_counter = 0, !.buffer = g]
<1>1. v.state = Setup(g, mix)
  BY AbsorbOneMore
<1>2. /\ u.block_counter = IF k = 0 THEN s.block_counter ELSE 0
      /\ k = 0 => u.state = s.state
  BY AbsorbKey
<1>3. Passed(s, k + 1, mix) = r
  <2>1. (k + 1) - 1 = k /\ k + 1 # 0
    OBVIOUS
  <2> QED BY <2>1 DEF Passed
<1>4. t = IF k = 0 THEN s ELSE [s EXCEPT !.state = u.state, !.block_counter = 0, !.buffer = h]
  BY DEF Passed
<1> HIDE DEF t, u, v, w, h
<1>5. t.state = u.state /\ t.block_counter = u.block_counter
  BY <1>2, <1>4 DEF St, States
<1>6. Pass(t, mix) = [t EXCEPT !.state = Setup(g, mix), !.block_counter = 0, !.buffer = g]
  <2>1. t = [t EXCEPT !.state = u.state]
    BY <1>4, <1>5 DEF St, States
  <2> QED BY <1>4, <1>5, <2>1 DEF Pass, NextBlockNoRekey, St, States
<1> HIDE DEF g
<1>7. [t EXCEPT !.state = v.state, !.block_counter = 0, !.buffer = g] = r
  BY <1>4 DEF St, States
<1> QED BY <1>1, <1>3, <1>6, <1>7 DEF t

(* Induction, in the form the provers can use: a nonempty set of naturals  *)
(* has a least element.                                                    *)
LEMMA LeastNatural ==
  ASSUME NEW T, T \subseteq Nat, T # {}
  PROVE  \E x \in T : \A y \in T : x <= y
<1> DEFINE R == OpToRel(<, Nat)
<1>1. IsWellFoundedOn(R, Nat)
  BY NatLessThanWellFounded
<1>2. R = {ss \in Nat \X Nat : ss[1] < ss[2]}
  BY DEF OpToRel
<1> HIDE DEF R
<1>3. PICK x \in T : \A y \in T : ~(<<y, x>> \in R)
  BY <1>1, WFMin
<1>4. ASSUME NEW y \in T PROVE x <= y
  <2>1. ~(<<y, x>> \in R) /\ y \in Nat /\ x \in Nat
    BY <1>3
  <2> QED BY <1>2, <2>1
<1> QED BY <1>3, <1>4

(* The function of the loop is that of the closed form, for seeds of any   *)
(* length: the shortest seed on which they differ would be a pass longer   *)
(* than another.                                                           *)
LEMMA LoopPasses ==
  ASSUME NEW s \in St, NEW n \in Nat, NEW mix \in Mixes
  PROVE  AbsorbLoop(s, n, mix) = Passed(s, Passes(n), mix)
<1> DEFINE closed(k) == Passed(s, Passes(k), mix)
           f == [k \in 0..n |-> closed(k)]
<1>1. closed(0) = s
  BY PassesBefore DEF Passed
<1>2. ASSUME NEW k \in 0..n, k # 0
      PROVE  Before(k) \in 0..n /\ Before(k) < k /\ closed(k) = Pass(closed(Before(k)), mix)
  <2>1. /\ k \in Nat /\ Before(k) \in Nat /\ Before(k) < k
        /\ Passes(k) = Passes(Before(k)) + 1
    BY <1>2, PassesBefore
  <2>2. Passes(Before(k)) \in Nat
    BY <2>1, PassesType
  <2>3. Pass(closed(Before(k)), mix) = Passed(s, Passes(Before(k)) + 1, mix)
    BY <2>2, PassedOneMore
  <2>4. Before(k) \in 0..n
    BY <2>1
  <2> QED BY <2>1, <2>3, <2>4
<1> HIDE DEF closed
<1>3. f = LoopBody(f, s, n, mix)
  <2>1. ASSUME NEW k \in 0..n
        PROVE  closed(k) = IF k = 0 THEN s ELSE Pass(f[Before(k)], mix)
    <3>1. CASE k = 0
      BY <1>1, <3>1
    <3>2. CASE k # 0
      <4>1. Before(k) \in 0..n /\ closed(k) = Pass(closed(Before(k)), mix)
        BY <1>2, <3>2
      <4>2. f[Before(k)] = closed(Before(k))
        BY <4>1
      <4> QED BY <3>2, <4>1, <4>2
    <3> QED BY <3>1, <3>2
  <2>2. f = [k \in 0..n |-> IF k = 0 THEN s ELSE Pass(f[Before(k)], mix)]
    <3>1. \A k \in 0..n : f[k] = IF k = 0 THEN s ELSE Pass(f[Before(k)], mix)
      BY <2>1
    <3>2. f = [k \in 0..n |-> f[k]]
      OBVIOUS
    <3> HIDE DEF f
    <3> QED BY <3>1, <3>2
  <2> QED BY <2>2 DEF LoopBody
<1>4. PICK g : g = LoopBody(g, s, n, mix) /\ AbsorbLoop(s, n, mix) = g[n]
  <2> HIDE DEF f
  <2> QED BY <1>3, LoopChosen
<1>5. \A k \in 0..n : g[k] = IF k = 0 THEN s ELSE Pass(g[Before(k)], mix)
  BY <1>4 DEF LoopBody
<1> DEFINE T == {k \in 0..n : g[k] # closed(k)}
<1>6. T = {}
  <2> SUFFICES ASSUME T # {} PROVE FALSE
    OBVIOUS
  <2>1. PICK x \in T : \A y \in T : x <= y
    <3>1. T \subseteq Nat
      OBVIOUS
    <3> HIDE DEF T
    <3> QED BY <3>1, LeastNatural
  <2>2. x \in 0..n /\ g[x] # closed(x)
    OBVIOUS
  <2>3. x # 0
    BY <1>1, <1>5, <2>2
  <2>4. Before(x) \in 0..n /\ Before(x) < x /\ closed(x) = Pass(closed(Before(x)), mix)
    BY <1>2, <2>2, <2>3
  <2>5. Before(x) \notin T
    BY <2>1, <2>2, <2>4
  <2>6. g[Before(x)] = closed(Before(x))
    BY <2>4, <2>5
  <2> QED BY <1>5, <2>2, <2>3, <2>4, <2>6
<1>7. g[n] = closed(n)
  <2>1. n \in 0..n
    OBVIOUS
  <2> QED BY <1>6, <2>1
<1> QED BY <1>4, <1>7 DEF closed

-----------------------------------------------------------------------------
(* What becomes of the seeds that callers add.                             *)

(* A key that has grown is derived from what it was.                       *)
LEMMA GrowsDerives ==
  ASSUME NEW s \in St, NEW t \in St, Grows(s, t)
  PROVE  Derives(s.state, t.state)
<1> DEFINE n == PathLen(s)
           sub == SubSeq(t.state.path, 1, n)
<1>1. /\ n \in Nat /\ PathLen(t) \in Nat /\ n <= PathLen(t)
      /\ s.state.path \in Seq(Steps) /\ Len(s.state.path) = n
      /\ Len(t.state.path) = PathLen(t)
      /\ \A k \in 1..n : t.state.path[k] = s.state.path[k]
  BY StNumbers DEF Grows
<1> HIDE DEF n
<1>2. \A k \in 1..n : t.state.path[k] \in Steps
  BY <1>1, StNumbers
<1>3. /\ sub \in Seq(Steps) /\ Len(sub) = n
      /\ \A k \in 1..n : sub[k] = t.state.path[k]
  BY <1>1, <1>2
<1> HIDE DEF sub
<1>4. sub = s.state.path
  BY <1>1, <1>3, SeqEqual
<1> QED BY <1>1, <1>4 DEF Derives, Grows, sub, n

(* A process whose state a step leaves alone keeps its key.                *)
LEMMA StaysOn ==
  ASSUME HistoryInv, NEW p \in alive, st'[p] = st[p]
  PROVE  KeyGoesOn(p, st'[p], drawn')
<1>1. st[p] \in St
  BY KeptSoFar
<1>2. Grows(st[p], st[p])
  BY <1>1, GrowsSame
<1>3. Derives(st[p].state, st[p].state)
  BY <1>1, <1>2, GrowsDerives
<1> QED BY <1>3 DEF KeyGoesOn

(* A step of p leaves the other states alone.                              *)
LEMMA OthersGoOn ==
  ASSUME HistoryInv, NEW p \in alive, NEW t, st' = [st EXCEPT ![p] = t],
         KeyGoesOn(p, t, drawn')
  PROVE  \A q \in alive : KeyGoesOn(q, st'[q], drawn')
<1>1. /\ st \in [Pids -> St] /\ p \in Pids
  BY KeptSoFar
<1>2. st'[p] = t
  BY <1>1
<1> SUFFICES ASSUME NEW q \in alive PROVE KeyGoesOn(q, st'[q], drawn')
  OBVIOUS
<1>3. q \in Pids
  BY KeptSoFar
<1>4. CASE q = p
  BY <1>2, <1>4
<1>5. CASE q # p
  <2>1. st'[q] = st[q]
    BY <1>1, <1>3, <1>5
  <2> QED BY <2>1, StaysOn
<1> QED BY <1>4, <1>5

(* ottery_st_init puts a key of a new draw in place of the old one.        *)
LEMMA StInitGoesOn ==
  ASSUME HistoryInv, NEW p \in Pids, StInit(p)
  PROVE  \A q \in alive : KeyGoesOn(q, st'[q], drawn')
<1>1. PICK S \in Draws :
        /\ st' = [st EXCEPT ![p] =
                    [Reseed(Blank(NoPid), NewDraw, S) EXCEPT !.magic = TRUE, !.pid = p]]
        /\ drawn' = Append(drawn, S)
  BY DEF StInit
<1>2. p \in alive
  BY DEF StInit, Enter
<1>3. IInv /\ drawn \in Seq(SUBSET Sources)
  BY <1>2, KeptSoFar
<1> DEFINE r == Reseed(Blank(NoPid), NewDraw, S)
           t == [r EXCEPT !.magic = TRUE, !.pid = p]
<1>4. NewDraw \in Nat \ {0}
  BY <1>3, DrawMade
<1>5. Live(r) /\ r.state.seed = NewDraw
  BY <1>4, BlankType, ReseedSpec
<1>6. st' = [st EXCEPT ![p] = t]
  BY <1>1
<1> HIDE DEF r
<1>7. t.state = r.state
  BY <1>5 DEF Live, St, States
<1> HIDE DEF t
<1>8. Len(drawn') = NewDraw /\ Len(drawn') > Len(drawn)
  BY <1>1, <1>3 DEF Draws, NewDraw
<1>9. KeyGoesOn(p, t, drawn')
  BY <1>5, <1>7, <1>8 DEF KeyGoesOn
<1> QED BY <1>2, <1>6, <1>9, OthersGoOn

(* A seed is mixed into the key that is there.                             *)
LEMMA AddSeedGoesOn ==
  ASSUME HistoryInv, NEW p \in Pids, Enter(p), st[p].magic,
         NEW n \in Nat, NEW mix \in Mixes, NEW flags \in SUBSET Sources,
         st' = [st EXCEPT ![p] = AddSeedImpl(@, n, mix, flags)]
  PROVE  \A q \in alive : KeyGoesOn(q, st'[q], drawn')
<1> DEFINE t == AddSeedImpl(st[p], n, mix, flags)
<1>1. p \in alive /\ IInv
  BY DEF Enter, HistoryInv
<1>2. st[p] \in St /\ st \in [Pids -> St]
  BY <1>1, KeptSoFar
<1>3. st[p].block_counter = 0
  BY <1>1, Entered DEF Ready
<1>4. t \in St
  BY <1>2, <1>3, AddSeedImplSpec
<1>5. Grows(st[p], t)
  BY <1>2, <1>3, AddSeedDraws
<1>6. st' = [st EXCEPT ![p] = t]
  BY <1>2
<1> HIDE DEF t
<1>7. KeyGoesOn(p, t, drawn')
  BY <1>2, <1>4, <1>5, GrowsDerives DEF KeyGoesOn
<1> QED BY <1>1, <1>6, <1>7, OthersGoOn

(* Handing out from the key that is there, or from one of a new draw in a  *)
(* state that a fork copied.                                               *)
LEMMA DeliverGoesOn ==
  ASSUME HistoryInv, NEW p \in alive, NEW s \in St, NEW d, NEW y, Clean(s, y),
         Deliver(p, y), drawn' = d,
         \/ s = st[p]
         \/ st[p].pid # p /\ Len(d) > Len(drawn) /\ s.state.seed = Len(d)
  PROVE  \A q \in alive : KeyGoesOn(q, st'[q], drawn')
<1>1. st' = [st EXCEPT ![p] = y.st]
  BY DEF Deliver
<1>2. Derives(s.state, y.st.state) /\ y.st.state.seed = s.state.seed
  BY GrowsDerives DEF Clean, Grows
<1>3. KeyGoesOn(p, y.st, drawn')
  BY <1>2 DEF KeyGoesOn
<1> QED BY <1>1, <1>3, OthersGoOn

(* ottery_st_rand_check_pid draws a new key only for such a state.         *)
LEMMA CheckPidKeeps ==
  ASSUME HistoryInv, NEW p \in alive, st[p].magic, call[p].op # "bytes", NEW c \in CheckPid(p)
  PROVE  /\ Live(c.st) /\ c.st \in St
         /\ \/ c.st = st[p]
            \/ /\ st[p].pid # p
               /\ Len(c.drawn) > Len(drawn) /\ c.st.state.seed = Len(c.drawn)
<1>1. Live(c.st) /\ c.st \in St
  BY CheckPidRipe DEF Live
<1>2. CASE st[p].pid = p
  <2>1. c.st = st[p]
    BY <1>2 DEF CheckPid
  <2> QED BY <1>1, <2>1
<1>3. CASE st[p].pid # p
  <2>1. PICK S \in Draws :
          /\ c.st = [Reseed(st[p], NewDraw, S) EXCEPT !.pid = p]
          /\ c.drawn = Append(drawn, S)
    BY <1>3 DEF CheckPid
  <2> DEFINE r == Reseed(st[p], NewDraw, S)
             t == [r EXCEPT !.pid = p]
  <2>2. IInv /\ st[p] \in St /\ drawn \in Seq(SUBSET Sources)
    BY KeptSoFar
  <2>3. NewDraw \in Nat \ {0} /\ st[p].block_counter = 0
    BY <2>2, DrawMade DEF IInv, StatesOK, Ready
  <2>4. Live(r) /\ r.state.seed = NewDraw
    BY <2>2, <2>3, ReseedSpec
  <2>5. c.st = t
    BY <2>1
  <2> HIDE DEF r
  <2>6. t.state = r.state
    BY <2>4 DEF Live, St, States
  <2> HIDE DEF t
  <2>7. Len(c.drawn) = NewDraw /\ Len(c.drawn) > Len(drawn)
    BY <2>1, <2>2 DEF Draws, NewDraw
  <2> QED BY <1>1, <1>3, <2>4, <2>5, <2>6, <2>7
<1> QED BY <1>2, <1>3

(* Every step goes on with the keys there are: one case per action.        *)
LEMMA KeysGoOn ==
  ASSUME HistoryInv, NEW p \in Pids, Step(p)
  PROVE  \A q \in alive : KeyGoesOn(q, st'[q], drawn')
<1>1. CASE StInit(p)
  BY <1>1, StInitGoesOn
<1>2. CASE StInitFails(p) \/ StWipe(p)
  <2>1. p \in alive /\ st' = [st EXCEPT ![p] = Blank(NoPid)]
    BY <1>2 DEF StInitFails, StWipe, Zeroed, Enter
  <2>2. KeyGoesOn(p, Blank(NoPid), drawn')
    BY BlankType DEF KeyGoesOn
  <2> QED BY <2>1, <2>2, OthersGoOn
<1>3. CASE \/ UseBeforeInit(p) \/ CheckPidFails(p) \/ SetFatalHandler(p)
           \/ RangeStart(p) \/ Exit(p)
  <2>1. st' = st
    BY <1>3 DEF UseBeforeInit, CheckPidFails, SetFatalHandler, RangeStart, Exit
  <2> QED BY <2>1, StaysOn
<1>4. CASE AddSeed(p)
  <2>1. PICK u \in Seeds, n \in SeedLens : AddSeedOf(p, u, n)
    BY <1>4 DEF AddSeed
  <2>2. n \in Nat /\ -u \in Mixes /\ {} \in SUBSET Sources
    BY Parameters DEF Mixes
  <2>3. /\ Enter(p) /\ st[p].magic
        /\ st' = [st EXCEPT ![p] = AddSeedImpl(@, n, -u, {})]
    BY <2>1 DEF AddSeedOf
  <2> QED BY <2>2, <2>3, AddSeedGoesOn
<1>5. CASE AddSeedFromSystem(p)
  <2>1. PICK S \in Draws : st' = [st EXCEPT ![p] = AddSeedImpl(@, DrawLen(S), NewDraw, S)]
    BY <1>5 DEF AddSeedFromSystem
  <2>2. Enter(p) /\ st[p].magic /\ IInv
    BY <1>5 DEF AddSeedFromSystem, HistoryInv
  <2>3. DrawLen(S) \in Nat /\ NewDraw \in Mixes /\ S \in SUBSET Sources
    BY <2>2, DrawMade
  <2> QED BY <2>1, <2>2, <2>3, AddSeedGoesOn
<1>6. CASE StPreventBacktracking(p)
  <2> DEFINE t == PreventBacktracking(st[p])
  <2>1. p \in alive /\ st' = [st EXCEPT ![p] = t]
    BY <1>6 DEF StPreventBacktracking, Enter
  <2>2. st[p] \in St
    BY <2>1, KeptSoFar
  <2>3. t.state = st[p].state
    BY <2>2, PreventBacktrackingSpec
  <2> HIDE DEF t
  <2>4. Derives(st[p].state, st[p].state)
    BY <2>2, GrowsSame, GrowsDerives
  <2>5. KeyGoesOn(p, t, drawn')
    BY <2>3, <2>4 DEF KeyGoesOn
  <2> QED BY <2>1, <2>5, OthersGoOn
<1>7. CASE RandBytesSmall(p)
  <2>1. PICK c \in CheckPid(p), n \in Requests :
          FitsInTwoBlocks(c.st, n) /\ Deliver(p, FromBuf(c.st, n)) /\ drawn' = c.drawn
    BY <1>7 DEF RandBytesSmall
  <2>2. p \in alive /\ st[p].magic /\ call[p].op # "bytes"
    BY <1>7 DEF RandBytesSmall, Enter
  <2>3. /\ Live(c.st) /\ c.st \in St
        /\ \/ c.st = st[p]
           \/ /\ st[p].pid # p
              /\ Len(c.drawn) > Len(drawn) /\ c.st.state.seed = Len(c.drawn)
    BY <2>2, CheckPidKeeps
  <2>4. c.st.pos \in Nat /\ n \in Nat
    BY <2>3, LiveMarks, Parameters
  <2>5. c.st.pos + n < 2 * OutputLen - StateBytes
    BY <2>1, <2>4, PrfShape DEF FitsInTwoBlocks
  <2>6. Clean(c.st, FromBuf(c.st, n))
    BY <2>3, <2>4, <2>5, FromBufClean
  <2> QED BY <2>1, <2>2, <2>3, <2>6, DeliverGoesOn
<1>8. CASE RandBytesBulk(p)
  <2>1. PICK c \in CheckPid(p) : Deliver(p, BulkTail(c.st)) /\ drawn' = c.drawn
    BY <1>8 DEF RandBytesBulk
  <2>2. p \in alive /\ st[p].magic /\ call[p].op # "bytes"
    BY <1>8 DEF RandBytesBulk, Enter
  <2>3. /\ Live(c.st) /\ c.st \in St
        /\ \/ c.st = st[p]
           \/ /\ st[p].pid # p
              /\ Len(c.drawn) > Len(drawn) /\ c.st.state.seed = Len(c.drawn)
    BY <2>2, CheckPidKeeps
  <2>4. Clean(c.st, BulkTail(c.st))
    BY <2>3, BulkTailClean
  <2> QED BY <2>1, <2>2, <2>3, <2>4, DeliverGoesOn
<1>9. CASE BulkStep(p)
  <2>1. p \in alive /\ InBytes(p) /\ IInv
    BY <1>9 DEF BulkStep, RandBytesBlock, RandBytesEnd, InBytes, HistoryInv
  <2>2. /\ st[p] \in St /\ st[p].state.seed # 0 /\ PathLen(st[p]) >= 1
        /\ call[p].need \in Nat /\ Offset(st[p]) \in Nat
        /\ Offset(st[p]) + call[p].need + OutputLen <= StreamLen
    BY <2>1, InLoop
  <2>3. Offset(st[p]) + OutputLen <= StreamLen
    BY <2>2, PrfShape
  <2>4. CASE RandBytesBlock(p)
    <3>1. Deliver(p, BulkBlock(st[p]))
      BY <2>4 DEF RandBytesBlock
    <3>2. Clean(st[p], BulkBlock(st[p]))
      BY <2>2, <2>3, BulkBlockClean
    <3> QED BY <2>1, <2>2, <3>1, <3>2, DeliverGoesOn
  <2>5. CASE RandBytesEnd(p)
    <3>1. Deliver(p, BulkEnd(st[p], call[p].need)) /\ call[p].need < OutputLen
      BY <2>5 DEF RandBytesEnd
    <3>2. Clean(st[p], BulkEnd(st[p], call[p].need))
      BY <2>2, <2>3, <3>1, BulkEndClean
    <3> QED BY <2>1, <2>2, <3>1, <3>2, DeliverGoesOn
  <2> QED BY <1>9, <2>4, <2>5 DEF BulkStep
<1>10. CASE RandInteger(p)
  <2>1. PICK c \in CheckPid(p), n \in IntSizes :
          Deliver(p, RandInt(c.st, n)) /\ drawn' = c.drawn
    BY <1>10 DEF RandInteger
  <2>2. p \in alive /\ st[p].magic /\ call[p].op # "bytes"
    BY <1>10 DEF RandInteger, Enter
  <2>3. /\ Live(c.st) /\ c.st \in St
        /\ \/ c.st = st[p]
           \/ /\ st[p].pid # p
              /\ Len(c.drawn) > Len(drawn) /\ c.st.state.seed = Len(c.drawn)
    BY <2>2, CheckPidKeeps
  <2>4. Clean(c.st, RandInt(c.st, n))
    BY <2>3, RandIntClean
  <2> QED BY <2>1, <2>2, <2>3, <2>4, DeliverGoesOn
<1>11. CASE RangeReject(p) \/ RangeAccept(p)
  <2>1. RangeDraw(p)
    BY <1>11 DEF RangeReject, RangeAccept
  <2>2. PICK c \in CheckPid(p) : Deliver(p, RandInt(c.st, call[p].need)) /\ drawn' = c.drawn
    BY <2>1 DEF RangeDraw
  <2>3. p \in alive /\ call[p].op = "range"
    BY <2>1 DEF RangeDraw
  <2>4. st[p].magic /\ call[p].need \in IntSizes
    BY <2>3 DEF HistoryInv, IInv, CallsOK
  <2>5. /\ Live(c.st) /\ c.st \in St
        /\ \/ c.st = st[p]
           \/ /\ st[p].pid # p
              /\ Len(c.drawn) > Len(drawn) /\ c.st.state.seed = Len(c.drawn)
    BY <2>3, <2>4, CheckPidKeeps
  <2>6. Clean(c.st, RandInt(c.st, call[p].need))
    BY <2>4, <2>5, RandIntClean
  <2> QED BY <2>2, <2>3, <2>5, <2>6, DeliverGoesOn
<1>12. CASE Fork(p)
  <2>1. PICK q \in Pids \ alive : st' = [st EXCEPT ![q] = st[p]]
    BY <1>12 DEF Fork
  <2>2. \A r \in alive : st'[r] = st[r]
    <3>1. alive \subseteq Pids /\ DOMAIN st = Pids
      BY DEF HistoryInv, IInv, TypeOK
    <3> QED BY <2>1, <3>1
  <2> QED BY <2>2, StaysOn
<1> QED BY <1>1, <1>2, <1>3, <1>4, <1>5, <1>6, <1>7, <1>8, <1>9, <1>10, <1>11,
           <1>12 DEF Step

(* The passes for n bytes of seed have room for n bytes.                   *)
LEMMA PassesHold ==
  ASSUME NEW n \in Nat
  PROVE  Half * Passes(n) >= n
<1>1. Half \in Nat \ {0} /\ n + Half - 1 \in Nat
  BY PrfShape DEF Half
<1> DEFINE q == (n + Half - 1) \div Half
<1>2. q \in Nat /\ n + Half - 1 < q * Half + Half
  BY <1>1, Division
<1>3. Passes(n) = q
  BY DEF Passes, Half
<1> HIDE DEF q
<1>4. ASSUME NEW h \in Nat, n + h - 1 < q * h + h PROVE h * q >= n
  BY <1>2, <1>4
<1> QED BY <1>1, <1>2, <1>3, <1>4

(* ottery_st_add_seed_impl mixes the seed into that many rekeyings.        *)
LEMMA AddSeedMixes ==
  ASSUME NEW s \in St, s.block_counter = 0, NEW n \in Nat, NEW mix \in Mixes,
         NEW flags \in SUBSET Sources
  PROVE  LET t == AddSeedImpl(s, n, mix, flags) IN
         /\ PathLen(t) \in Nat /\ PathLen(t) >= PathLen(s) + Passes(n)
         /\ \A x \in (PathLen(s) + 1)..(PathLen(s) + Passes(n)) :
              t.state.path[x].mix = mix
<1> DEFINE k == Passes(n)
           u == Absorb(s, k, mix)
           v == NextBlock(u)
           t == AddSeedImpl(s, n, mix, flags)
           m == PathLen(s)
<1>1. k \in Nat /\ m \in Nat
  BY PassesType, StNumbers
<1>2. ASSUME NEW x \in (m + 1)..(m + k) PROVE u.state.path[x].mix = mix
  <2> DEFINE a == s.state.path
             b == PassSteps(s, k, mix)
  <2> HIDE DEF k
  <2>1. a \in Seq(Steps) /\ Len(a) = m /\ b \in Seq(Steps) /\ Len(b) = k
    BY <1>1, StNumbers, PassStepsType
  <2>2. u.state.path = a \o b
    <3>1. u.state = [seed |-> s.state.seed, path |-> a \o b]
      BY <1>1, AbsorbKey
    <3> HIDE DEF a, b, u
    <3> QED BY <3>1
  <2>3. x - m \in 1..k
    BY <1>1
  <2>4. ASSUME NEW j \in 1..k PROVE b[j].mix = mix
    BY DEF PassSteps
  <2> HIDE DEF a, b, m, u
  <2>5. (a \o b)[x] = b[x - m]
    BY <1>1, <2>1
  <2> QED BY <2>2, <2>3, <2>4, <2>5
<1> HIDE DEF k
<1>3. u \in St /\ u.block_counter = 0 /\ PathLen(u) = m + k
  BY <1>1, AbsorbSpec
<1> HIDE DEF u, m
<1>4. Offset(u) + OutputLen <= StreamLen
  BY <1>3, PrfShape DEF Offset
<1>5. v \in St
  BY <1>3, <1>4, NextBlockSpec
<1>6. Grows(u, v)
  BY <1>3, <1>4, NextBlockGrows
<1>7. t = [v EXCEPT !.entropy_src_flags = v.entropy_src_flags \cup flags,
                    !.last_entropy_flags = flags]
  BY <1>5 DEF AddSeedImpl, u, k, St, States
<1> HIDE DEF v, t
<1>8. t.state = v.state
  BY <1>5, <1>7 DEF St, States
<1>9. PathLen(t) \in Nat /\ PathLen(t) >= m + k
  BY <1>3, <1>5, <1>6, <1>8, StNumbers DEF Grows, PathLen
<1>10. \A x \in (m + 1)..(m + k) : t.state.path[x].mix = mix
  <2>1. \A x \in (m + 1)..(m + k) : x \in 1..PathLen(u)
    BY <1>1, <1>3
  <2> QED BY <1>2, <1>6, <1>8, <2>1 DEF Grows
<1> QED BY <1>9, <1>10 DEF t, k, m

(* The numbers above a, as far as b.                                       *)
LEMMA IntervalSize ==
  ASSUME NEW a \in Nat, NEW b \in Nat, a <= b
  PROVE  IsFiniteSet((a + 1)..b) /\ Cardinality((a + 1)..b) = b - a
<1>1. PICK c \in Int : c = a + 1
  OBVIOUS
<1>2. IsFiniteSet(c..b) /\ Cardinality(c..b) = IF c > b THEN 0 ELSE b - c + 1
  BY FS_Interval
<1>3. (IF c > b THEN 0 ELSE b - c + 1) = b - a
  BY <1>1
<1> QED BY <1>1, <1>2, <1>3

(* So a caller's seed of n bytes is all in the key it leaves.              *)
LEMMA SeedMixedIn ==
  ASSUME HistoryInv, NEW p \in alive, NEW u \in Seeds, NEW n \in SeedLens, AddSeedOf(p, u, n)
  PROVE  Half * Cardinality(MixedSince(st[p].state, st'[p].state, -u)) >= n
<1> DEFINE s == st[p]
           t == AddSeedImpl(s, n, -u, {})
           M == MixedSince(s.state, t.state, -u)
           I == (PathLen(s) + 1)..(PathLen(s) + Passes(n))
<1>1. Enter(p) /\ s.magic /\ st' = [st EXCEPT ![p] = AddSeedImpl(@, n, -u, {})]
  BY DEF AddSeedOf
<1>2. p \in Pids /\ s \in St /\ IInv /\ st \in [Pids -> St]
  BY KeptSoFar
<1>3. s.block_counter = 0
  BY <1>1, <1>2, Entered DEF Ready
<1>4. n \in Nat /\ -u \in Mixes /\ {} \in SUBSET Sources
  BY Parameters DEF Mixes
<1>5. /\ PathLen(t) \in Nat /\ PathLen(t) >= PathLen(s) + Passes(n)
      /\ \A x \in I : t.state.path[x].mix = -u
  <2> HIDE DEF s
  <2> QED BY <1>2, <1>3, <1>4, AddSeedMixes
<1>6. st'[p] = t
  BY <1>1, <1>2
<1>7. PathLen(s) \in Nat /\ Passes(n) \in Nat
  BY <1>2, <1>4, StNumbers, PassesType
<1> HIDE DEF s, t
<1>8. IsFiniteSet(M)
  <2> DEFINE J == (PathLen(s) + 1)..PathLen(t)
  <2>1. M \in SUBSET J
    BY DEF MixedSince, PathLen
  <2>2. IsFiniteSet(J)
    BY <1>5, <1>7, IntervalSize
  <2> HIDE DEF M, J
  <2> QED BY <2>1, <2>2, FS_Subset
<1>9. I \in SUBSET M
  BY <1>5, <1>7 DEF MixedSince, PathLen
<1>10. Cardinality(I) = Passes(n)
  <2>1. PICK b \in Nat : b = PathLen(s) + Passes(n)
    BY <1>7
  <2>2. PathLen(s) <= b /\ I = (PathLen(s) + 1)..b
    BY <1>7, <2>1
  <2>3. Cardinality(I) = b - PathLen(s)
    BY <1>7, <2>2, IntervalSize
  <2> HIDE DEF I
  <2> QED BY <1>7, <2>1, <2>3
<1> HIDE DEF I, M
<1>11. Cardinality(M) \in Nat /\ Cardinality(M) >= Passes(n)
  <2>1. Cardinality(I) <= Cardinality(M)
    BY <1>8, <1>9, FS_Subset
  <2> QED BY <1>8, <1>10, <2>1, FS_CardinalityType
<1>12. Half \in Nat /\ Half * Passes(n) >= n
  BY <1>4, PassesHold, PrfShape DEF Half
<1>13. ASSUME NEW h \in Nat, NEW x \in Nat, NEW y \in Nat, x >= y PROVE h * x >= h * y
  BY <1>13
<1>14. Half * Cardinality(M) >= Half * Passes(n)
  BY <1>7, <1>11, <1>12, <1>13
<1>15. Half * Cardinality(M) \in Nat /\ Half * Passes(n) \in Nat
  BY <1>7, <1>11, <1>12
<1>16. Half * Cardinality(M) >= n
  BY <1>4, <1>12, <1>14, <1>15
<1> QED BY <1>6, <1>16 DEF M, s

-----------------------------------------------------------------------------
(* The theorems.                                                           *)

(* The history of every key is as HistoryInv says: chains of rekeyings     *)
(* clear of all output, and flags true of the draws, whatever              *)
(* ottery_st_init, _add_seed, _wipe, rand calls and forks have done.       *)
THEOREM HistoryInvariance ==
  ASSUME ~PidReuse, ShortRequests
  PROVE  Spec => []HistoryInv
<1>1. HistoryInv /\ [Next]_vars => HistoryInv'
  BY HistoryNext
<1> QED BY <1>1, HistoryInit, PTL DEF Spec

(* No byte that the key of a state, or any key before it, was made of is   *)
(* ever handed to a caller, in any process: the StateBytes bytes that      *)
(* ottery_st_nextblock_nolock sets the next key up from, and those that    *)
(* ottery_st_add_seed_impl mixes a seed into, stay inside.                 *)
THEOREM KeyMaterialStaysSecret ==
  ASSUME ~PidReuse, ShortRequests
  PROVE  Spec => []KeyBytesNeverGiven
<1>1. HistoryInv => KeyBytesNeverGiven
  <2> SUFFICES ASSUME HistoryInv, NEW p \in Pids, Own(p),
                      NEW k \in 1..Len(st[p].state.path), NEW i \in 0..(StateBytes - 1),
                      NEW q \in Pids, NEW b \in given[q],
                      b = [key |-> [st[p].state EXCEPT !.path = SubSeq(@, 1, k - 1)],
                           at  |-> st[p].state.path[k].at + i]
               PROVE  FALSE
    BY DEF KeyBytesNeverGiven
  <2>1. IInv /\ KeysUngiven /\ st[p] \in St
    BY DEF HistoryInv, IInv, TypeOK, St
  <2>2. /\ st[p].state \in Keys /\ st[p].state.path \in Seq(Steps)
        /\ PathLen(st[p]) \in Nat /\ Len(st[p].state.path) = PathLen(st[p])
        /\ st[p].state.path[k].at \in Nat
    BY <2>1, StNumbers
  <2>3. /\ b.key.seed = st[p].state.seed /\ b.at = st[p].state.path[k].at + i
        /\ b.key.path = SubSeq(st[p].state.path, 1, k - 1)
    BY <2>2 DEF Keys
  <2>4. Len(b.key.path) = k - 1
    <3>1. k - 1 \in 0..Len(st[p].state.path)
      BY <2>2
    <3> QED BY <2>2, <2>3, <3>1
  <2>5. q = p
    BY <2>1, <2>3 DEF IInv, SeedsApart
  <2>6. KeyFree(st[p], b)
    BY <2>1, <2>3, <2>5 DEF KeysUngiven
  <2>7. b.at \notin st[p].state.path[k].at..(st[p].state.path[k].at + StateBytes - 1)
    BY <2>2, <2>4, <2>6 DEF KeyFree
  <2>8. ASSUME NEW at \in Nat PROVE at + i \in at..(at + StateBytes - 1)
    BY PrfShape
  <2> QED BY ONLY <2>2, <2>3, <2>7, <2>8
<1> QED BY <1>1, HistoryInvariance, PTL

(* entropy_src_flags names the sources of the draws in the current key, no *)
(* more and no fewer, after any sequence of ottery_st_init, reseeds,       *)
(* ottery_st_add_seed calls and forks.                                     *)
THEOREM FlagsTellTheTruth ==
  ASSUME ~PidReuse, ShortRequests
  PROVE  Spec => []SrcFlagsExact
<1>1. HistoryInv => SrcFlagsExact
  BY DEF HistoryInv, FlagsHonest, Honest, SrcFlagsExact
<1> QED BY <1>1, HistoryInvariance, PTL

(* Built with OTTERY_NO_CLEAR_AFTER_YIELD, a call of                       *)
(* ottery_st_prevent_backtracking leaves no byte in the buffer that was    *)
(* given out, on a state of the process's own, on one that a fork copied   *)
(* and on one that was wiped.                                              *)
THEOREM BacktrackingRemoved ==
  ASSUME ~PidReuse, ShortRequests, ~ClearAfterYield
  PROVE  Spec => BacktrackingPrevented
<1>1. ASSUME HistoryInv, NEW p \in Pids, StPreventBacktracking(p), NEW i \in Block
      PROVE  st'[p].buffer[i] \notin given[p]
  <2> DEFINE s == st[p]
  <2>1. p \in alive /\ call[p].op = "idle" /\ st' = [st EXCEPT ![p] = PreventBacktracking(s)]
    BY <1>1 DEF StPreventBacktracking, Enter
  <2>2. /\ IInv /\ s \in St /\ st \in [Pids -> St] /\ given[p] \subseteq RealBytes
        /\ CopiesSilent /\ WipedClean
    BY <1>1, <2>1, KeptSoFar DEF HistoryInv
  <2>3. st'[p].buffer[i] = IF i < s.pos THEN Zero ELSE s.buffer[i]
    BY <2>1, <2>2 DEF PreventBacktracking, St, States
  <2>4. Zero \notin RealBytes
    BY DEF Zero, NoKey, RealBytes
  <2>5. CASE i < s.pos \/ ~s.magic
    BY <2>2, <2>3, <2>4, <2>5 DEF WipedClean
  <2>6. CASE s.magic /\ s.pid # p
    BY <2>1, <2>2, <2>6 DEF CopiesSilent
  <2>7. CASE s.magic /\ s.pid = p /\ ~(i < s.pos)
    <3>1. Own(p) /\ Ready(s)
      BY <2>1, <2>2, <2>7 DEF Own, IInv, StatesOK
    <3>2. /\ s.pos \in Nat /\ PathLen(s) \in Nat /\ Base(s) \in Nat
      <4>1. PathLen(s) \in 1..PathLen(s) /\ PathLen(s) \in Nat
        BY <2>2, <3>1, StNumbers DEF Ready
      <4>2. Base(s) \in Nat
        BY <2>2, <4>1, StNumbers DEF Base
      <4> QED BY <2>2, <4>1, <4>2 DEF St, States
    <3>3. i \in s.pos..(OutputLen - 1)
      BY <2>7, <3>2, PrfShape DEF Block
    <3>4. /\ s.buffer[i].key.seed = s.state.seed
          /\ Len(s.buffer[i].key.path) = PathLen(s) - 1
          /\ s.buffer[i].at = Base(s) + i
      BY <3>1, <3>3 DEF Ready
    <3>5. ASSUME s.buffer[i] \in given[p] PROVE FALSE
      <4>1. Precedes(s.buffer[i], MarkLen(s, "idle"), MarkAt(s, "idle"))
        BY <2>1, <2>2, <3>1, <3>4, <3>5 DEF IInv, GivenOK
      <4>2. MarkLen(s, "idle") = PathLen(s) - 1 /\ MarkAt(s, "idle") = Base(s) + s.pos
        BY DEF MarkLen, MarkAt
      <4> QED BY <2>7, <3>2, <3>3, <3>4, <4>1, <4>2 DEF Precedes
    <3> QED BY <2>3, <2>7, <3>5
  <2> QED BY <2>5, <2>6, <2>7
<1>2. HistoryInv => [\A p \in Pids : StPreventBacktracking(p) =>
                       \A i \in Block : st'[p].buffer[i] \notin given[p]]_vars
  BY <1>1
<1> QED BY <1>2, HistoryInvariance, PTL DEF BacktrackingPrevented

(* Every byte of a seed passed to ottery_st_add_seed goes into the key, in *)
(* a last pass of the loop that it does not fill too, and each key after   *)
(* it, through any calls, is made from that one: only ottery_st_init, and  *)
(* ottery_st_rand_check_pid in the child of a fork, put a key of a new     *)
(* draw in its place.                                                      *)
THEOREM SeedsStayInKey ==
  ASSUME ~PidReuse, ShortRequests
  PROVE  Spec => SeedsReachKey
<1> DEFINE A == \A p \in alive :
                  /\ KeyGoesOn(p, st'[p], drawn')
                  /\ \A u \in Seeds, n \in SeedLens : AddSeedOf(p, u, n) =>
                       (StateBytes \div 2) *
                         Cardinality(MixedSince(st[p].state, st'[p].state, -u)) >= n
<1>1. ASSUME HistoryInv, Next PROVE A
  <2>1. \A p \in alive : KeyGoesOn(p, st'[p], drawn')
    BY <1>1, KeysGoOn DEF Next
  <2>2. \A p \in alive, u \in Seeds, n \in SeedLens : AddSeedOf(p, u, n) =>
          (StateBytes \div 2) *
            Cardinality(MixedSince(st[p].state, st'[p].state, -u)) >= n
    BY <1>1, SeedMixedIn DEF Half
  <2> QED BY <2>1, <2>2
<1>2. HistoryInv /\ [Next]_vars => [A]_vars
  <2> HIDE DEF A
  <2> QED BY <1>1
<1> QED BY <1>2, HistoryInvariance, PTL DEF Spec, SeedsReachKey

(* The closed form Absorb of the seeding loop of ottery_st_add_seed_impl   *)
(* is the loop, for a seed of any length, in any state.                    *)
THEOREM AbsorbMatchesLoop ==
  ASSUME NEW s \in St, NEW n \in Nat, NEW mix \in Mixes
  PROVE  /\ Absorb(s, Passes(n), mix).state = AbsorbLoop(s, n, mix).state
         /\ Absorb(s, Passes(n), mix).block_counter = AbsorbLoop(s, n, mix).block_counter
<1> DEFINE k == Passes(n)
           u == Absorb(s, k, mix)
           t == AbsorbLoop(s, n, mix)
<1>1. k \in Nat /\ t = Passed(s, k, mix)
  BY PassesType, LoopPasses
<1> HIDE DEF k, t
<1>2. /\ u.block_counter = IF k = 0 THEN s.block_counter ELSE 0
      /\ k = 0 => u.state = s.state
  BY <1>1, AbsorbKey
<1> HIDE DEF u
<1>3. t.state = u.state /\ t.block_counter = u.block_counter
  BY <1>1, <1>2 DEF Passed, u, St, States
<1> QED BY <1>3 DEF k, u, t
=============================================================================
