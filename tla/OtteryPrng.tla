----------------------------- MODULE OtteryPrng -----------------------------
(***************************************************************************)
(* struct ottery_state (ottery-internal.h) as a record, and the functions  *)
(* of ottery.c that transform it under the lock, as operators on that      *)
(* record.  There are no variables: OtteryState runs these operators.      *)
(*                                                                         *)
(* The PRF is abstract.  A key is known by where it comes from, not by its *)
(* bits: the number of the entropy draw that started it, and the chain of  *)
(* rekeyings since.  A byte of output is known by its key and its position *)
(* in the stream of that key; different (key, position) pairs are          *)
(* different bytes, which is what "pseudorandom" gives us.                 *)
(***************************************************************************)
EXTENDS Integers, Sequences, FiniteSets

CONSTANTS
  OutputLen,        (* prf.output_len: 1024 (merged) or 768 and up (SIMD)   *)
  StateBytes,       (* prf.state_bytes: 40                                  *)
  StreamLen,        (* bytes a key can produce before its 32-bit ChaCha     *)
                    (* block number repeats: 64 * 2^32                      *)
  IntSizes,         (* sizeof(unsigned), sizeof(uint64_t): {4, 8}           *)
  ClearAfterYield   (* FALSE iff built with OTTERY_NO_CLEAR_AFTER_YIELD     *)

(***************************************************************************)
(* The shapes the code relies on.  initialize only tests StateBytes <=     *)
(* OutputLen (ottery.c:347); the assertion at the end of                   *)
(* ottery_st_rand_bytes_from_buf needs twice that, and the integer macro   *)
(* needs room for an integer after the key and one byte more.              *)
(***************************************************************************)
ASSUME PrfShape ==
  /\ OutputLen \in Nat /\ StateBytes \in Nat /\ StreamLen \in Nat
  /\ StateBytes >= 2
  /\ 2 * StateBytes <= OutputLen
  /\ 2 * OutputLen <= StreamLen
  /\ IntSizes \subseteq Nat
  /\ \A n \in IntSizes : n > 0 /\ StateBytes + n < OutputLen
  /\ ClearAfterYield \in BOOLEAN

-----------------------------------------------------------------------------
(* Keys and bytes.                                                         *)

(* What was XORed into the key material of one rekeying: nothing, the      *)
(* bytes of entropy draw d (as d), or the caller's seed u (as -u).         *)
Mixes  == Int
NoMix  == 0

(* One rekeying: where in the old key's stream the new key was taken from. *)
Steps  == [at : Nat, mix : Mixes]
Keys   == [seed : Nat, path : Seq(Steps)]
Bytes  == [key : Keys, at : Nat]

(* The all-zero key and the zero byte that memset and CLEARBUF leave.      *)
NoKey  == [seed |-> 0, path |-> <<>>]
Zero   == [key |-> NoKey, at |-> 0]

(* A byte that really is PRF output under a key drawn from the system.     *)
RealBytes == [key : [seed : Nat \ {0}, path : Seq(Steps)], at : Nat]

Block  == 0..(OutputLen - 1)
Buffer == [Block -> Bytes]

States(Pids, Flags) ==
  [magic : BOOLEAN, pid : Pids, state : Keys, block_counter : Nat, pos : Nat,
   buffer : Buffer, entropy_src_flags : SUBSET Flags,
   last_entropy_flags : SUBSET Flags]

(* memset(st, 0, sizeof *st).                                              *)
Blank(nopid) ==
  [magic |-> FALSE, pid |-> nopid, state |-> NoKey, block_counter |-> 0,
   pos |-> 0, buffer |-> [i \in Block |-> Zero], entropy_src_flags |-> {},
   last_entropy_flags |-> {}]

-----------------------------------------------------------------------------
(* The PRF: prf.setup and prf.generate.                                    *)

(* The key made of the first StateBytes bytes of a draw of entropy.        *)
SeedKey(d) == [seed |-> d, path |-> <<>>]

(* mutant of Setup: the key is taken from where the output begins          *)
SetupFromOutput(buffer, mix) ==
  [seed |-> buffer[StateBytes].key.seed,
   path |-> Append(buffer[StateBytes].key.path,
                   [at |-> buffer[StateBytes].at, mix |-> mix])]

(* The key made of the first StateBytes bytes of a buffer of output, after *)
(* mix was XORed into them.                                                *)
Setup(buffer, mix) ==
  [seed |-> buffer[0].key.seed,
   path |-> Append(buffer[0].key.path, [at |-> buffer[0].at, mix |-> mix])]

(* generate(state, buffer, idx): the ChaCha block number idx * IDX_STEP is *)
(* a uint32_t, so the position wraps at StreamLen.  (That makes the wrap   *)
(* of the uint32_t idx itself at 2^32 invisible.)                          *)
StreamPos(idx, i) == (idx * OutputLen + i) % StreamLen

Generate(key, idx) ==
  [i \in Block |-> [key |-> key, at |-> StreamPos(idx, i)]]

(* CLEARBUF(buffer + from, n).                                             *)
ClearBuf(buffer, from, n) ==
  IF ClearAfterYield
  THEN [i \in Block |-> IF from <= i /\ i < from + n THEN Zero ELSE buffer[i]]
  ELSE buffer

-----------------------------------------------------------------------------
(* Producing blocks.                                                       *)

NextBlockNoRekey(s) ==
  [s EXCEPT !.buffer = Generate(s.state, s.block_counter),
            !.block_counter = @ + 1]

(* ottery_st_nextblock_nolock.                                             *)
NextBlock(s) ==
  LET b == NextBlockNoRekey(s).buffer
  IN  [s EXCEPT !.state = Setup(b, NoMix),
                !.buffer = ClearBuf(b, 0, StateBytes),
                !.block_counter = 0,
                !.pos = StateBytes]

-----------------------------------------------------------------------------
(* Handing bytes out.  A yield is the state afterwards and what was        *)
(* written to the caller's memory.                                         *)

Yield(s, bytes) == [st |-> s, out |-> bytes]

Slice(buffer, from, n) == [i \in 0..(n - 1) |-> buffer[from + i]]

Concat(a, m, b, n) ==
  [i \in 0..(m + n - 1) |-> IF i < m THEN a[i] ELSE b[i - m]]

(* CLEARBUF(buffer + from, n); pos += n.                                   *)
Advance(s, from, n) ==
  [s EXCEPT !.buffer = ClearBuf(@, from, n), !.pos = @ + n]

(* mutants of FromBuf: the boundary test is <= for <; the bytes are        *)
(* cleared before they are copied out                                      *)
FromBufOffByOne(s, n) ==
  LET cpy  == OutputLen - s.pos
      rest == n - cpy
      t    == NextBlock(s)
  IN  IF n + s.pos <= OutputLen
      THEN Yield(Advance(s, s.pos, n), Slice(s.buffer, s.pos, n))
      ELSE Yield(Advance(t, 0, rest),
                 Concat(Slice(s.buffer, s.pos, cpy), cpy,
                        Slice(t.buffer, t.pos, rest), rest))

FromBufClearsFirst(s, n) ==
  LET cpy  == OutputLen - s.pos
      rest == n - cpy
      t    == NextBlock(s)
      u    == Advance(s, s.pos, n)
  IN  IF n + s.pos < OutputLen
      THEN Yield(u, Slice(u.buffer, s.pos, n))
      ELSE Yield(Advance(t, 0, rest),
                 Concat(Slice(s.buffer, s.pos, cpy), cpy,
                        Slice(t.buffer, t.pos, rest), rest))

(* ottery_st_rand_bytes_from_buf.  When it wraps, the clearing starts at   *)
(* the beginning of the buffer (ottery.c:646) and not at pos, as it does   *)
(* when it does not wrap (ottery.c:637).                                   *)
FromBuf(s, n) ==
  LET cpy  == OutputLen - s.pos
      rest == n - cpy
      t    == NextBlock(s)
  IN  IF n + s.pos < OutputLen
      THEN Yield(Advance(s, s.pos, n), Slice(s.buffer, s.pos, n))
      ELSE Yield(Advance(t, 0, rest),
                 Concat(Slice(s.buffer, s.pos, cpy), cpy,
                        Slice(t.buffer, t.pos, rest), rest))

(* The test that chooses between FromBuf and the bulk path.                *)
FitsInTwoBlocks(s, n) == n + s.pos < OutputLen * 2 - StateBytes - 1

(* The bulk path of ottery_st_rand_bytes_impl: what is left of the buffer, *)
(* then whole blocks, then a stirred one.                                  *)
BulkTail(s) == Yield(s, Slice(s.buffer, s.pos, OutputLen - s.pos))

BulkBlock(s) ==
  LET t == NextBlockNoRekey(s) IN Yield(t, Slice(t.buffer, 0, OutputLen))

(* mutant of BulkEnd: one more block of the bulk key, without a rekeying   *)
BulkEndNoStir(s, n) == FromBuf([NextBlockNoRekey(s) EXCEPT !.pos = StateBytes], n)

BulkEnd(s, n) == FromBuf(NextBlock(s), n)

(* OTTERY_RETURN_RAND_INTTYPE_IMPL, for an integer of n bytes.  Here too   *)
(* the clearing after a fresh block starts at 0 (ottery.c:739).            *)
RandInt(s, n) ==
  LET t == NextBlock(s)
      u == Advance(s, s.pos, n)
  IN  IF n + s.pos <= OutputLen
      THEN Yield(IF u.pos = OutputLen THEN NextBlock(u) ELSE u,
                 Slice(s.buffer, s.pos, n))
      ELSE Yield(Advance(t, 0, n), Slice(t.buffer, t.pos, n))

-----------------------------------------------------------------------------
(* Mixing seeds in.                                                        *)

(* mutant of Passes: a last, partial pass is left out                      *)
WholePasses(n) == n \div (StateBytes \div 2)

(* The passes of the loop of ottery_st_add_seed_impl for n bytes of seed.  *)
Passes(n) == (n + (StateBytes \div 2) - 1) \div (StateBytes \div 2)

(* k passes: each takes a block, XORs seed into it and rekeys from it.     *)
(* Only the first can meet a nonzero counter, for each resets it.  The     *)
(* buffer is left to the block that always follows.                        *)
Absorb(s, k, mix) ==
  [s EXCEPT !.state.path = @ \o [j \in 1..k |->
                [at  |-> IF j = 1 THEN StreamPos(s.block_counter, 0) ELSE 0,
                 mix |-> mix]],
            !.block_counter = IF k = 0 THEN @ ELSE 0]

(* The loop itself: passes while n bytes of seed are left, each taking up  *)
(* to half a key's worth.  Absorb is proved equal to it.                   *)
AbsorbLoop(s, n, mix) ==
  LET half == StateBytes \div 2
      pass(t) == LET g == NextBlockNoRekey(t)
                 IN  [g EXCEPT !.state = Setup(g.buffer, mix), !.block_counter = 0]
      loop[k \in 0..n] ==
        IF k = 0 THEN s
        ELSE pass(loop[IF k > half THEN k - half ELSE 0])
  IN  loop[n]

(* mutant of AddSeedImpl: src flags overwritten rather than accumulated    *)
AddSeedImplOverwrites(s, n, mix, flags) ==
  [NextBlock(Absorb(s, Passes(n), mix)) EXCEPT
     !.entropy_src_flags = flags,
     !.last_entropy_flags = flags]

(* ottery_st_add_seed_impl once it has its seed: n bytes, known as mix,    *)
(* that came with these flags ({} when the caller supplied them).          *)
AddSeedImpl(s, n, mix, flags) ==
  [NextBlock(Absorb(s, Passes(n), mix)) EXCEPT
     !.entropy_src_flags = @ \cup flags,
     !.last_entropy_flags = flags]

(* How many bytes ottery_get_entropy_ delivers: StateBytes per source.     *)
DrawLen(flags) == StateBytes * Cardinality(flags)

(* mutant of Reseed: the sources are added to those of the old key         *)
ReseedAccumulates(s, d, flags) ==
  LET extra == DrawLen(flags) - StateBytes
      keyed == [s EXCEPT !.state = SeedKey(d)]
      mixed == IF extra > 0 THEN AddSeedImpl(keyed, extra, d, {}) ELSE keyed
  IN  NextBlock([mixed EXCEPT !.last_entropy_flags = flags,
                              !.entropy_src_flags = @ \cup flags,
                              !.block_counter = 0])

(* ottery_st_reseed with the bytes of draw d, from these sources.          *)
Reseed(s, d, flags) ==
  LET extra == DrawLen(flags) - StateBytes
      keyed == [s EXCEPT !.state = SeedKey(d)]
      mixed == IF extra > 0 THEN AddSeedImpl(keyed, extra, d, {}) ELSE keyed
  IN  NextBlock([mixed EXCEPT !.last_entropy_flags = flags,
                              !.entropy_src_flags = flags,
                              !.block_counter = 0])

(* mutant of PreventBacktracking: the last byte given out is missed        *)
PreventBacktrackingOffByOne(s) ==
  IF ClearAfterYield
  THEN s
  ELSE [s EXCEPT !.buffer =
          [i \in Block |-> IF i < s.pos - 1 THEN Zero ELSE s.buffer[i]]]

(* ottery_st_prevent_backtracking_nolock.                                  *)
PreventBacktracking(s) ==
  IF ClearAfterYield
  THEN s
  ELSE [s EXCEPT !.buffer =
          [i \in Block |-> IF i < s.pos THEN Zero ELSE s.buffer[i]]]
=============================================================================
