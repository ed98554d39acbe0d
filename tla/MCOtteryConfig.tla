--------------------------- MODULE MCOtteryConfig ---------------------------
(***************************************************************************)
(* OtteryConfig for TLC, with words of five bits: every build with the     *)
(* CPUs it may meet, and block indices whose blocks run over the end of    *)
(* the counter, at the start, in the middle and at the end of a call.      *)
(***************************************************************************)
EXTENDS OtteryConfig

Width == 5

MCXor(v, w) ==
  LET bit(k) == ((v \div 2 ^ k) + (w \div 2 ^ k)) % 2
  IN  bit(0) + 2 * bit(1) + 4 * bit(2) + 8 * bit(3) + 16 * bit(4)
MCRotl(v, n) ==
  LET k == n % Width IN ((v * 2 ^ k) % 2 ^ Width) + (v \div 2 ^ (Width - k))

Old    == {}
Sse2   == {"SIMD", "AES"}
Modern == {"SIMD", "SSSE3", "RAND"}

(* x86 with gcc (three blocks at once) and with clang (four), with one, no *)
(* and both SIMD variants; and ARM with NEON.                              *)
SomeMachines ==
  [x86 : {TRUE}, cpu : {Old, Sse2, Modern}, simd : {{1, 2}}, vbpi : {3}, gpr : {0}]
  \cup [x86 : {TRUE}, cpu : {Modern}, simd : {{}, {1}, {1, 2}}, vbpi : {4}, gpr : {0}]
  \cup [x86 : {FALSE}, cpu : {{"SIMD"}}, simd : {{1}}, vbpi : {2}, gpr : {1}]

(* One of each kind: an algorithm, an implementation, a flavor, and a      *)
(* documented name that no table entry answers to ("CHACHA-SIMD").         *)
SomeNames == {<<8>>, <<12, "SIMD">>, <<20, "NOSIMD">>, <<20, "SIMD", "SSSE3">>,
              <<0, "SIMD">>}

(* The test suite's PRF, its malformed ones, and one that is accepted with *)
(* a key longer than half a block.                                         *)
Lorem == [Merged(0) EXCEPT !.impl = "LoremIpsum", !.flav = "LoremIpsum",
            !.state_len = 16, !.state_bytes = 4, !.output_len = 64]
SomePrfs == {Lorem, [Merged(20) EXCEPT !.state_len = 1024],
             [Merged(20) EXCEPT !.state_bytes = 2000],
             [Merged(20) EXCEPT !.output_len = 8],
             [Merged(20) EXCEPT !.output_len = 64]}

SomeMasks == {{}, {"RANDOMDEV", "FL_STRONG"}, {"RDRAND", "EGD", "DOM_OS"}}
SomeCaps  == {{"SIMD"}, {"SSSE3"}, {"RAND", "AES"}}
SomeFds   == {-1, 5}
SomeKey   == [i \in 0..9 |-> (7 * i + 3) % 32]
=============================================================================
