---------------------------- MODULE OtteryState ----------------------------
(***************************************************************************)
(* Processes that use libottery, each with one ottery_state, and the fork  *)
(* that copies it.  The module shows what the PRNG layer of ottery.c does  *)
(* over a whole history of calls, across initialisations, reseeds, fatal   *)
(* errors, forks and exits.                                                *)
(*                                                                         *)
(* A process is known by its pid.  Every operation runs under the lock of  *)
(* its own state, so it is one action, except the two loops that hand out  *)
(* output (the bulk loop of ottery_st_rand_bytes_impl and the rejection    *)
(* loop of ottery_st_rand_range), which take one action per round.         *)
(***************************************************************************)
EXTENDS OtteryPrng, OtteryRange

CONSTANTS
  Pids,        (* the pids the system gives out                            *)
  NoPid,       (* what a zeroed pid field holds                            *)
  First,       (* the process that is there at the start                   *)
  Sources,     (* the entropy sources of the build                         *)
  Requests,    (* sizes asked of ottery_st_rand_bytes                      *)
  Seeds,       (* the seeds callers pass to ottery_st_add_seed             *)
  SeedLens,    (* and their lengths                                        *)
  Uppers,      (* the bounds asked of ottery_st_rand_range                 *)
  PidReuse,    (* may a new process get the pid of one that is gone?       *)
  MaxOps       (* bound: calls, forks and rejected draws in a behaviour    *)

ASSUME Parameters ==
  /\ NoPid \notin Pids /\ First \in Pids
  /\ IsFiniteSet(Sources)
  /\ Requests \subseteq Nat
  /\ Seeds \subseteq Nat \ {0} /\ SeedLens \subseteq Nat \ {0}
  /\ Uppers \subseteq Numbers
  /\ PidReuse \in BOOLEAN /\ MaxOps \in Nat

VARIABLES
  st,       (* st[p]: p's ottery_state                                      *)
  call,     (* call[p]: the loop p is in, the last size asked, the bytes    *)
            (* still needed (or those of an integer), the bound of a range  *)
  chunk,    (* chunk[p]: the bytes most recently written for p's caller     *)
  given,    (* given[p]: all bytes ever written for callers in p            *)
  alive,    (* the processes that run                                       *)
  used,     (* the pids ever taken                                          *)
  handler,  (* handler[p]: a fatal handler that returns is installed        *)
  drawn,    (* drawn[d]: the sources that contributed to entropy draw d     *)
  ops       (* the count bounded by MaxOps                                  *)

vars == <<st, call, chunk, given, alive, used, handler, drawn, ops>>

Calls   == [op : {"idle", "bytes", "range"}, asked : Nat, need : Nat,
            upper : Numbers]
Idle(c) == [c EXCEPT !.op = "idle", !.need = 0, !.upper = 0]

IsChunk(c) == \E n \in 0..(2 * OutputLen) : c \in [0..(n - 1) -> RealBytes]

TypeOK ==
  /\ st \in [Pids -> States(Pids \cup {NoPid}, Sources)]
  /\ call \in [Pids -> Calls]
  /\ given \in [Pids -> SUBSET RealBytes]
  /\ DOMAIN chunk = Pids /\ \A p \in Pids : IsChunk(chunk[p])
  /\ alive \subseteq used /\ used \subseteq Pids
  /\ handler \in [Pids -> BOOLEAN]
  /\ drawn \in Seq(SUBSET Sources)
  /\ ops \in 0..MaxOps

Init ==
  /\ st = [p \in Pids |-> Blank(NoPid)]
  /\ call = [p \in Pids |-> [op |-> "idle", asked |-> 0, need |-> 0, upper |-> 0]]
  /\ chunk = [p \in Pids |-> [i \in 0..(-1) |-> 0]]
  /\ given = [p \in Pids |-> {}]
  /\ alive = {First} /\ used = {First}
  /\ handler = [p \in Pids |-> FALSE]
  /\ drawn = <<>>
  /\ ops = 0

-----------------------------------------------------------------------------
(* The entropy layer, as ottery.c sees it: a call either fails and changes *)
(* nothing here, or delivers StateBytes bytes from each of a nonempty set  *)
(* of sources.                                                             *)
Draws   == (SUBSET Sources) \ {{}}
NewDraw == Len(drawn) + 1

(* A call of the public interface in p, outside any other.                 *)
Enter(p) ==
  /\ p \in alive /\ call[p].op = "idle"
  /\ ops < MaxOps /\ ops' = ops + 1

(* p's caller gets the bytes of yield y, and the state of y is kept.       *)
Deliver(p, y) ==
  /\ st' = [st EXCEPT ![p] = y.st]
  /\ chunk' = [chunk EXCEPT ![p] = y.out]
  /\ given' = [given EXCEPT ![p] = @ \cup {y.out[i] : i \in DOMAIN y.out}]

(* ottery_fatal_error_: a handler that returns, or abort().                *)
Fatal(p) ==
  /\ alive' = IF handler[p] THEN alive ELSE alive \ {p}
  /\ call' = [call EXCEPT ![p] = Idle(@)]

-----------------------------------------------------------------------------
(* Starting and stopping.                                                  *)

(* ottery_st_init, first or again, with entropy.                           *)
StInit(p) ==
  /\ Enter(p)
  /\ \E S \in Draws :
       /\ st' = [st EXCEPT ![p] =
                   [Reseed(Blank(NoPid), NewDraw, S) EXCEPT !.magic = TRUE,
                                                            !.pid = p]]
       /\ drawn' = Append(drawn, S)
  /\ UNCHANGED <<call, chunk, given, alive, used, handler>>

(* memset(st, 0, sizeof *st), which leaves magic 0.                        *)
Zeroed(p) ==
  /\ Enter(p)
  /\ st' = [st EXCEPT ![p] = Blank(NoPid)]
  /\ UNCHANGED <<call, chunk, given, alive, used, handler, drawn>>

(* ottery_st_init without entropy (or without a lock): the memset is done, *)
(* magic is not set.                                                       *)
StInitFails(p) == Zeroed(p)

StWipe(p) == Zeroed(p)

(* Seeding or asking for output when the state is not initialised.         *)
UseBeforeInit(p) ==
  /\ Enter(p)
  /\ ~st[p].magic
  /\ Fatal(p)
  /\ UNCHANGED <<st, chunk, given, used, handler, drawn>>

SetFatalHandler(p) ==
  /\ Enter(p)
  /\ \E b \in BOOLEAN : handler' = [handler EXCEPT ![p] = b]
  /\ UNCHANGED <<st, call, chunk, given, alive, used, drawn>>

-----------------------------------------------------------------------------
(* Seeding.  None of these looks at st.pid.                                *)

(* ottery_st_add_seed with n bytes u of the caller's.                      *)
AddSeedOf(p, u, n) ==
  /\ Enter(p)
  /\ st[p].magic
  /\ st' = [st EXCEPT ![p] = AddSeedImpl(@, n, -u, {})]
  /\ UNCHANGED <<call, chunk, given, alive, used, handler, drawn>>

AddSeed(p) == \E u \in Seeds, n \in SeedLens : AddSeedOf(p, u, n)

(* ottery_st_add_seed(st, NULL, 0).  Without entropy it returns an error   *)
(* and changes nothing, which is no step here.                             *)
AddSeedFromSystem(p) ==
  /\ Enter(p)
  /\ st[p].magic
  /\ \E S \in Draws :
       /\ st' = [st EXCEPT ![p] = AddSeedImpl(@, DrawLen(S), NewDraw, S)]
       /\ drawn' = Append(drawn, S)
  /\ UNCHANGED <<call, chunk, given, alive, used, handler>>

(* ottery_st_prevent_backtracking, which looks at neither magic nor pid.   *)
StPreventBacktracking(p) ==
  /\ Enter(p)
  /\ st' = [st EXCEPT ![p] = PreventBacktracking(@)]
  /\ UNCHANGED <<call, chunk, given, alive, used, handler, drawn>>

-----------------------------------------------------------------------------
(* Getting output.  Every rand function first runs                         *)
(* ottery_st_rand_check_pid, which reseeds a state that a fork has copied. *)

(* mutant of CheckPid: the pid is updated but the state is kept            *)
CheckPidNoReseed(p) == {[st |-> [st[p] EXCEPT !.pid = p], drawn |-> drawn]}

(* mutant of CheckPid: the pid is not compared                             *)
CheckPidAlwaysReseeds(p) ==
  {[st |-> [Reseed(st[p], NewDraw, S) EXCEPT !.pid = p],
    drawn |-> Append(drawn, S)] : S \in Draws}

(* The outcomes of check_pid that let the call go on: the state to use and *)
(* the draws made so far.                                                  *)
CheckPid(p) ==
  IF st[p].pid = p
  THEN {[st |-> st[p], drawn |-> drawn]}
  ELSE {[st |-> [Reseed(st[p], NewDraw, S) EXCEPT !.pid = p],
         drawn |-> Append(drawn, S)] : S \in Draws}

(* The other outcome: no entropy, a fatal error, and, if the handler       *)
(* returns, a call that gives nothing.  A draw in the rejection loop then  *)
(* counts as 0, which the loop accepts.                                    *)
CheckPidFails(p) ==
  /\ p \in alive /\ call[p].op \in {"idle", "range"}
  /\ ops < MaxOps /\ ops' = ops + 1
  /\ st[p].magic
  /\ st[p].pid # p
  /\ Fatal(p)
  /\ UNCHANGED <<st, chunk, given, used, handler, drawn>>

(* ottery_st_rand_bytes, when the request is small ...                     *)
RandBytesSmall(p) ==
  /\ Enter(p)
  /\ st[p].magic
  /\ \E c \in CheckPid(p), n \in Requests :
       /\ FitsInTwoBlocks(c.st, n)
       /\ Deliver(p, FromBuf(c.st, n))
       /\ call' = [call EXCEPT ![p].asked = n]
       /\ drawn' = c.drawn
  /\ UNCHANGED <<alive, used, handler>>

(* mutant of RandBytesBulk: what the buffer gave is not subtracted         *)
RandBytesBulkMiscounts(p) ==
  /\ Enter(p)
  /\ st[p].magic
  /\ \E c \in CheckPid(p), n \in Requests :
       /\ ~FitsInTwoBlocks(c.st, n)
       /\ Deliver(p, BulkTail(c.st))
       /\ call' = [call EXCEPT ![p] =
                     [op |-> "bytes", asked |-> n, need |-> n, upper |-> 0]]
       /\ drawn' = c.drawn
  /\ UNCHANGED <<alive, used, handler>>

(* ... and when it is not: the rest of the buffer, then the bulk loop.     *)
RandBytesBulk(p) ==
  /\ Enter(p)
  /\ st[p].magic
  /\ \E c \in CheckPid(p), n \in Requests :
       /\ ~FitsInTwoBlocks(c.st, n)
       /\ Deliver(p, BulkTail(c.st))
       /\ call' = [call EXCEPT ![p] =
                     [op |-> "bytes", asked |-> n,
                      need |-> n - (OutputLen - c.st.pos), upper |-> 0]]
       /\ drawn' = c.drawn
  /\ UNCHANGED <<alive, used, handler>>

InBytes(p) == p \in alive /\ call[p].op = "bytes"

RandBytesBlock(p) ==
  /\ InBytes(p)
  /\ call[p].need >= OutputLen
  /\ Deliver(p, BulkBlock(st[p]))
  /\ call' = [call EXCEPT ![p].need = @ - OutputLen]
  /\ UNCHANGED <<alive, used, handler, drawn, ops>>

RandBytesEnd(p) ==
  /\ InBytes(p)
  /\ call[p].need < OutputLen
  /\ Deliver(p, BulkEnd(st[p], call[p].need))
  /\ call' = [call EXCEPT ![p] = Idle(@)]
  /\ UNCHANGED <<alive, used, handler, drawn, ops>>

(* ottery_st_rand_unsigned, ottery_st_rand_uint32, ottery_st_rand_uint64.  *)
RandInteger(p) ==
  /\ Enter(p)
  /\ st[p].magic
  /\ \E c \in CheckPid(p), n \in IntSizes :
       /\ Deliver(p, RandInt(c.st, n))
       /\ call' = [call EXCEPT ![p].asked = n]
       /\ drawn' = c.drawn
  /\ UNCHANGED <<alive, used, handler>>

(* ottery_st_rand_range, ottery_st_rand_range64: the check of magic, then  *)
(* draws of integers of n bytes until one is in range.                     *)
RangeStart(p) ==
  /\ Enter(p)
  /\ st[p].magic
  /\ \E n \in IntSizes, u \in Uppers :
       call' = [call EXCEPT ![p].op = "range", ![p].need = n, ![p].upper = u]
  /\ UNCHANGED <<st, chunk, given, alive, used, handler, drawn>>

RangeDraw(p) ==
  /\ p \in alive /\ call[p].op = "range"
  /\ \E c \in CheckPid(p) :
       /\ Deliver(p, RandInt(c.st, call[p].need))
       /\ drawn' = c.drawn
  /\ UNCHANGED <<alive, used, handler>>

(* A rejected draw, if upper lets one be rejected, and an accepted one.    *)
RangeReject(p) ==
  /\ RangeDraw(p)
  /\ \E r \in Numbers : ~Accepted(r, call[p].upper)
  /\ call' = [call EXCEPT ![p].asked = call[p].need]
  /\ ops < MaxOps /\ ops' = ops + 1

RangeAccept(p) ==
  /\ RangeDraw(p)
  /\ \E r \in Numbers : Accepted(r, call[p].upper)
  /\ call' = [call EXCEPT ![p] =
                [op |-> "idle", asked |-> call[p].need, need |-> 0, upper |-> 0]]
  /\ UNCHANGED ops

-----------------------------------------------------------------------------
(* Processes (external: the operating system).                             *)

(* fork(): q starts with a copy of p's memory.                             *)
Fork(p) ==
  /\ Enter(p)
  /\ \E q \in Pids \ alive :
       /\ PidReuse \/ q \notin used
       /\ alive' = alive \cup {q}
       /\ used' = used \cup {q}
       /\ st' = [st EXCEPT ![q] = st[p]]
       /\ handler' = [handler EXCEPT ![q] = handler[p]]
  /\ UNCHANGED <<call, chunk, given, drawn>>

(* The process ends or is killed, possibly in the middle of a call.        *)
Exit(p) ==
  /\ p \in alive
  /\ alive' = alive \ {p}
  /\ call' = [call EXCEPT ![p] = Idle(@)]
  /\ UNCHANGED <<st, chunk, given, used, handler, drawn, ops>>

-----------------------------------------------------------------------------
BulkStep(p) == RandBytesBlock(p) \/ RandBytesEnd(p)

Step(p) ==
  \/ StInit(p) \/ StInitFails(p) \/ StWipe(p) \/ UseBeforeInit(p)
  \/ SetFatalHandler(p)
  \/ AddSeed(p) \/ AddSeedFromSystem(p) \/ StPreventBacktracking(p)
  \/ CheckPidFails(p)
  \/ RandBytesSmall(p) \/ RandBytesBulk(p) \/ BulkStep(p)
  \/ RandInteger(p) \/ RangeStart(p) \/ RangeReject(p) \/ RangeAccept(p)
  \/ Fork(p) \/ Exit(p)

Next == \E p \in Pids : Step(p)

(* A thread in a loop of the library keeps running, and the rejection loop *)
(* does not lose the same better-than-even bet for ever.                   *)
Fairness ==
  \A p \in Pids : WF_vars(BulkStep(p)) /\ SF_vars(RangeAccept(p))

Spec == Init /\ [][Next]_vars
LiveSpec == Spec /\ Fairness

-----------------------------------------------------------------------------
(* Properties.                                                             *)

(* p holds an initialised state that belongs to it: not one copied by fork *)
(* that no rand call has reseeded yet.                                     *)
Own(p) == p \in alive /\ st[p].magic /\ st[p].pid = p

(* key j is key k or was derived from it by rekeying.                      *)
Derives(k, j) ==
  /\ j.seed = k.seed
  /\ Len(j.path) >= Len(k.path)
  /\ SubSeq(j.path, 1, Len(k.path)) = k.path

(* pos is what the comment on the field in ottery-internal.h says it is    *)
(* (between state_bytes and output_len) and what the assertion in          *)
(* ottery_st_rand_bytes_from_buf needs, after any sequence of calls.       *)
PosInRange ==
  \A p \in alive :
    st[p].magic => StateBytes <= st[p].pos /\ st[p].pos < OutputLen

(* The bytes a key was made of, at this rekeying and at every earlier one, *)
(* are never handed to any caller in any process: fast key erasure is      *)
(* worthless if the next key is also output.                               *)
KeyBytesNeverGiven ==
  \A p \in Pids : Own(p) =>
    LET key == st[p].state IN
    \A k \in 1..Len(key.path), i \in 0..(StateBytes - 1), q \in Pids :
      [key |-> [key EXCEPT !.path = SubSeq(@, 1, k - 1)],
       at  |-> key.path[k].at + i] \notin given[q]

(* Backtracking resistance: between calls, nothing given so far to anyone  *)
(* can be computed again from the key a state holds.                       *)
KeyForgetsGiven ==
  \A p, q \in Pids : Own(p) /\ call[p].op # "bytes" =>
    \A b \in given[q] : ~Derives(st[p].state, b.key)

(* The draws of entropy that went into a key: the one it started from and  *)
(* those mixed in since.                                                   *)
DrawsIn(key) ==
  {key.seed} \cup {m \in {key.path[k].mix : k \in DOMAIN key.path} : m > 0}

(* entropy_src_flags names exactly the sources of the draws that went into *)
(* the current key, through reseeds, added seeds and forks.                *)
SrcFlagsExact ==
  \A p \in Pids : p \in alive /\ st[p].magic =>
    st[p].entropy_src_flags = UNION {drawn[d] : d \in DrawsIn(st[p].state)}

(* The key that p is left with, t's after the draws d, is made from the    *)
(* one it had.  It has nothing of that one only if it is of a new draw, at *)
(* an initialisation or in the child of a fork.                            *)
KeyGoesOn(p, t, d) ==
  st[p].magic /\ t.magic =>
    \/ Derives(st[p].state, t.state)
    \/ /\ StInit(p) \/ st[p].pid # p
       /\ Len(d) > Len(drawn) /\ t.state.seed = Len(d)

(* The passes of the seeding loop that mixed m into key j after key k.     *)
MixedSince(k, j, m) ==
  {x \in (Len(k.path) + 1)..Len(j.path) : j.path[x].mix = m}

(* Every byte of a seed that a caller adds goes into the key, those of a   *)
(* last pass that they do not fill too, and stays in each key that         *)
(* follows, whatever is called next, until the key is drawn anew.          *)
SeedsReachKey ==
  [][\A p \in alive :
       /\ KeyGoesOn(p, st'[p], drawn')
       /\ \A u \in Seeds, n \in SeedLens : AddSeedOf(p, u, n) =>
            (StateBytes \div 2) *
              Cardinality(MixedSince(st[p].state, st'[p].state, -u)) >= n]_vars

(* FreshBytes seen in this state: the last size asked of p, and what its   *)
(* unfinished request still lacks.                                         *)
Asked == [p \in Pids |-> call[p].asked]
Owed  == [p \in Pids |-> IF call[p].op = "bytes" THEN call[p].need ELSE -1]

Promise == INSTANCE FreshBytes WITH
  Users <- Pids, Bytes <- RealBytes, asked <- Asked, owed <- Owed

(* What the library promises (FreshBytes): each call of rand_bytes or of a *)
(* rand integer function hands out exactly the bytes asked for, and none   *)
(* of them has been handed out before, in this process or another.         *)
KeepsPromise == Promise!Spec

(* Every call that entered a loop of the library leaves it, unless its     *)
(* process is gone: the bulk loop comes to its end, and whatever bound a   *)
(* range call was given some draw satisfies the loop's test.               *)
CallsReturn == \A p \in Pids : call[p].op # "idle" ~> call[p].op = "idle"

(* ottery.h on ottery_rand_range: "A random number no larger than top, and *)
(* no less than 0, chosen uniformly", for whatever bound a call has,       *)
(* UINT_MAX (where lim wraps to 0) and its neighbours included.            *)
Uniform == \A p \in Pids : call[p].op = "range" => EquallyLikely(call[p].upper)

(* Whatever the bound of the call, a draw is more likely than not to end   *)
(* it, so a long run of rejections under the lock is as unlikely as it     *)
(* should be; this is the bet that Fairness makes.                         *)
MostlyAccepted ==
  \A p \in Pids : call[p].op = "range" => LikelyAccepted(call[p].upper)

(* With OTTERY_NO_CLEAR_AFTER_YIELD, ottery_st_prevent_backtracking leaves *)
(* no byte in the buffer that has been given out.                          *)
BacktrackingPrevented ==
  [][\A p \in Pids : StPreventBacktracking(p) =>
       \A i \in Block : st'[p].buffer[i] \notin given[p]]_vars

(* README.md: "After it extracts bytes from the RNG, it clears them from   *)
(* its internal buffers": between calls no byte that was given out is      *)
(* still in the buffer.                                                    *)
GivenBytesCleared ==
  \A p \in Pids : Own(p) /\ call[p].op = "idle" =>
    \A i \in Block : st[p].buffer[i] \notin given[p]

-----------------------------------------------------------------------------
(* The inductive invariant behind PosInRange, KeyForgetsGiven and          *)
(* KeepsPromise.  A state marks a point in the output of its seed: the     *)
(* number of rekeyings of the key being read, and a position in that key's *)
(* stream.  All that was given lies before the mark, all that may still be *)
(* given lies at or after it, and no two processes share a seed.           *)

(* No request runs through the whole stream of a key.                      *)
ShortRequests == \A n \in Requests : n + OutputLen <= StreamLen

PathLen(s) == Len(s.state.path)

(* Where in its parent's stream the block in the buffer begins.            *)
Base(s) == s.state.path[PathLen(s)].at

(* How far into its stream the block counter has come.                     *)
Offset(s) == s.block_counter * OutputLen

(* Byte b comes before position at of a key with len rekeyings.            *)
Precedes(b, len, at) ==
  \/ Len(b.key.path) < len
  \/ Len(b.key.path) = len /\ b.at < at

(* Outside the bulk loop the buffer is being read, inside it the counter.  *)
MarkLen(s, op) == IF op = "bytes" THEN PathLen(s) ELSE PathLen(s) - 1
MarkAt(s, op)  == IF op = "bytes" THEN Offset(s) ELSE Base(s) + s.pos

(* A state between calls: the counter is reset, and what is left of the    *)
(* buffer is output of the key before the current one.                     *)
Ready(s) ==
  /\ PathLen(s) >= 1
  /\ StateBytes <= s.pos /\ s.pos < OutputLen
  /\ s.block_counter = 0
  /\ \A i \in s.pos..(OutputLen - 1) :
       /\ s.buffer[i].key.seed = s.state.seed
       /\ Len(s.buffer[i].key.path) = PathLen(s) - 1
       /\ s.buffer[i].at = Base(s) + i

(* A state inside the bulk loop: the stream is long enough for the rest.   *)
Running(s, c) ==
  /\ PathLen(s) >= 1
  /\ StateBytes <= s.pos /\ s.pos < OutputLen
  /\ c.need <= c.asked
  /\ Offset(s) + c.need + OutputLen <= StreamLen

StatesOK ==
  \A p \in alive : st[p].magic =>
    /\ st[p].state.seed \in 1..Len(drawn)
    /\ st[p].pid \in used
    /\ IF call[p].op = "bytes" THEN Running(st[p], call[p]) ELSE Ready(st[p])

CallsOK ==
  \A p \in Pids :
    /\ call[p].op # "idle" => p \in alive /\ st[p].magic
    /\ call[p].op = "bytes" => st[p].pid = p
    /\ call[p].op = "range" => call[p].need \in IntSizes

GivenOK ==
  /\ \A p \in Pids : \A b \in given[p] : b.key.seed <= Len(drawn)
  /\ \A p \in Pids : Own(p) =>
       \A b \in given[p] :
         b.key.seed = st[p].state.seed =>
           Precedes(b, MarkLen(st[p], call[p].op), MarkAt(st[p], call[p].op))

SeedsApart ==
  \A p, q \in Pids : Own(p) /\ p # q =>
    /\ \A b \in given[q] : b.key.seed # st[p].state.seed
    /\ Own(q) => st[q].state.seed # st[p].state.seed

IInv == TypeOK /\ StatesOK /\ CallsOK /\ GivenOK /\ SeedsApart

-----------------------------------------------------------------------------
(* What has to be known besides for KeyBytesNeverGiven, SrcFlagsExact and  *)
(* BacktrackingPrevented: how the key a state holds came about.            *)

(* Byte b is at no place that a key in the chain of s was taken from.      *)
KeyFree(s, b) ==
  \A k \in 1..PathLen(s) :
    Len(b.key.path) = k - 1 =>
      b.at \notin s.state.path[k].at..(s.state.path[k].at + StateBytes - 1)

KeysUngiven ==
  \A p \in Pids : Own(p) =>
    \A b \in given[p] : b.key.seed = st[p].state.seed => KeyFree(st[p], b)

(* The flags of s are true of its key, and all its draws have been made.   *)
Honest(s, d) ==
  /\ DrawsIn(s.state) \subseteq 1..Len(d)
  /\ s.entropy_src_flags = UNION {d[x] : x \in DrawsIn(s.state)}

FlagsHonest == \A p \in alive : st[p].magic => Honest(st[p], drawn)

(* A process that was given anything has its own state, if any, and one    *)
(* without a state has a clean buffer.                                     *)
CopiesSilent ==
  \A p \in Pids : given[p] # {} =>
    p \in used /\ (p \in alive /\ st[p].magic => st[p].pid = p)

WipedClean == \A p \in Pids : ~st[p].magic => st[p].buffer = [i \in Block |-> Zero]

HistoryInv == IInv /\ KeysUngiven /\ FlagsHonest /\ CopiesSilent /\ WipedClean
=============================================================================
