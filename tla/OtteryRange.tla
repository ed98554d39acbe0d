---------------------------- MODULE OtteryRange ----------------------------
(***************************************************************************)
(* The arithmetic of ottery_st_rand_range and ottery_st_rand_range64: an   *)
(* integer between 0 and upper, from draws of any integer, by division and *)
(* rejection.  OtteryState has the loop.                                   *)
(***************************************************************************)
EXTENDS Integers, FiniteSets

CONSTANT IntRange   (* how many integers the type has: 2^32 or 2^64        *)

ASSUME IntRangeParameter == IntRange \in Nat \ {0}

Numbers == 0..(IntRange - 1)
MaxInt  == IntRange - 1       (* UINT_MAX, UINT64_MAX                      *)

(* unsigned lim = upper + 1, which wraps to 0 for the largest argument.    *)
Lim(u) == (u + 1) % IntRange

(* mutants of Divisor: rounded up; plain rejection without a divisor       *)
DivisorRoundedUp(u) == IF Lim(u) # 0 THEN MaxInt \div Lim(u) + 1 ELSE 1

DivisorOne(u) == 1

Divisor(u) == IF Lim(u) # 0 THEN MaxInt \div Lim(u) ELSE 1

(* The result of one draw r.                                               *)
Quotient(r, u) == r \div Divisor(u)

(* mutant of Accepted: the loop's test is >= for >                         *)
AcceptedBelow(r, u) == Quotient(r, u) < u

(* while (n > upper): draw r ends the loop.                                *)
Accepted(r, u) == Quotient(r, u) <= u

(* The draws that end the loop, and those that end it with result v.       *)
Accepting(u) == {r \in Numbers : Accepted(r, u)}
Hits(v, u)   == {r \in Accepting(u) : Quotient(r, u) = v}

(* Every value in range is the result of equally many draws, and of one at *)
(* least.                                                                  *)
EquallyLikely(u) ==
  LET hits == [v \in 0..u |-> Cardinality(Hits(v, u))]
  IN  \A v \in 0..u : hits[v] > 0 /\ hits[v] = hits[0]

(* At least half of all draws end the loop.                                *)
LikelyAccepted(u) == 2 * Cardinality(Accepting(u)) >= IntRange
=============================================================================
