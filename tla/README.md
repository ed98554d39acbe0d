# A verification project for libottery

TLA+ models of libottery, a user-space cryptographic random number generator
in C, with the TLC runs that check them on small instances and TLAPS proofs of
the most important results for every value of the parameters.  Line numbers
refer to the files under `src/`; `PROJECT.json` maps every definition that
models code to the lines it stands for.

1. The system
2. The modules, and how they correspond to the code
3. The runs, their bounds and the fairness they assume
4. What is proved, and how
5. Where the code does not do what it says
6. What is not modelled
7. The plan

## 1. The system

| Component | State | Operations | Files |
|---|---|---|---|
| PRNG core | `struct ottery_state`: `magic`, `pid`, PRF key `state`, `block_counter`, `buffer`, `pos`, entropy flags | `ottery_st_init`, `_wipe`, `_add_seed`, `_prevent_backtracking`, `_rand_bytes`, `_rand_unsigned/uint32/uint64`, `_rand_range/range64` | `ottery.c`, `ottery-internal.h` |
| Fork safety | the `pid` field | `ottery_st_rand_check_pid`, on the way into every rand function | `ottery.c:576-612` |
| Range reduction | none | division and rejection | `ottery.c:790-842` |
| Entropy | configuration, remembered inode of the device | `ottery_get_entropy_` and its sources | `ottery_entropy*.c` |
| Global state | one static `ottery_state` and a flag | `CHECK_INIT`, `ottery_init`, `ottery_wipe`, wrappers | `ottery_global.c` |
| Locks | a mutex in each state | `LOCK`, `UNLOCK` | `ottery-threading.h` |
| Configuration, choice of PRF | `ottery_config`, the disabled CPU capabilities | setters, `ottery_get_impl`, `ottery_disable_cpu_capabilities_` | `ottery.c`, `ottery_cpuinfo.c` |
| ChaCha | none | `setup`, `generate` | `chacha_merged.c`, `chacha_krovetz.c` |

**How they interact.**  The wrappers of the global state test a flag, initialise
when it is clear, and call the `ottery_st_` function on the static state.  That
function tests `magic`, takes the state's lock, and works on buffer and key.
Initialisation, a post-fork reseed and `add_seed(NULL, 0)` call
`ottery_get_entropy_`, the last of them before taking the lock.  The entropy
layer walks a table of sources and makes system calls.  Nothing calls back
except the fatal handler.  `fork()` copies everything, the lock included.

**How the generator works.**  A block of `output_len` bytes is generated under
the current key.  Its first `state_bytes` become the next key, at once, and are
cleared; the rest is handed out from `pos` on.  The exception is a long request,
which takes whole blocks from one key by counting `block_counter` up, and rekeys
at its end.

**What is hard.**

- *Boundaries of the buffer.*  Three functions hand bytes out and each tests in
  its own way whether the request fits (`<` at 635, `<` at 659 against two
  blocks, `<=` at 724); `pos` must stay below `output_len` or an assertion
  fails, and a byte must not be both key and output.
- *The bulk loop* is the only place where the key stands still while output is
  handed out.
- *Forks* copy a generator; what tells the copies apart is a compared pid.
- *Threads* share the global state, whose lock is itself created and cleared
  without protection.
- *Partial failure* of the entropy sources: a read that fails after some bytes,
  only weak sources answering, a device file that is replaced.
- *Failure with a handler that returns*: every error path continues.
- *Several builds, several CPUs.*  Which PRF runs depends on the build, on what
  the CPU has, on what was disabled and forced and when; and one name stands for
  code that counts blocks in one register or in three.

**What makes each part correct.**

- PRNG core: each call delivers exactly what was asked and nothing that anybody
  was given before; key material is never output; the key a state holds does not
  allow past output to be computed; a seed that a caller adds goes into the key
  and stays in the keys after it; `entropy_src_flags` tells the truth.
- Fork safety: the same, across processes.
- Range reduction: uniform, and quick to accept.
- Entropy: success means complete input from a strong source; descriptors
  neither leak nor are closed under the user; device input under one inode number
  for the life of a state.
- Configuration: a state runs what was asked for, never what the CPU lacks.
- ChaCha: every implementation gives the same stream, and fills what it says.
- Global state and lock: mutual exclusion, release on every path, seeded output.

The hazards, each with its line and the properties that cover it, are listed in
`PROJECT.json`.

## 2. The modules

```
FreshBytes                 what the library promises                 (abstract)
   ^ refined by
OtteryState  --EXTENDS-->  OtteryPrng      processes, calls, forks / pure functions
             --EXTENDS-->  OtteryRange     the arithmetic of rand_range
OtteryState_proofs, OtteryHistory_proofs, OtteryRange_proofs     theorems
OtteryEntropy              the entropy layer, call by system call
OtteryEntropy_proofs       theorems
OtteryConfig --EXTENDS-->  OtteryChaCha    choice of the PRF / its implementations
OtteryConfig_proofs, OtteryChaCha_proofs   theorems
OtteryGlobal               threads, lazy initialisation, lock, wipe, fork
OtteryGlobal_proofs        theorems
MCOtteryState, MCOtteryEntropy, MCOtteryConfig, MCOtteryGlobal   instances for TLC
```

Four modules look at one system at different grains, and each states what it
takes from the others.  `OtteryState` takes from `OtteryGlobal` that an
operation on a state is atomic (`LockMatchesHolder`), and from `OtteryEntropy`
that a draw of entropy either fails or gives `state_bytes` bytes from each of a
nonempty set of sources (`Delivered`).  From `OtteryConfig` it takes that the PRF
has the shape its arithmetic needs (`OutputCodeFits`, for the library's PRFs) and that a byte of output is
determined by key and position whichever implementation computes it
(`StreamAsReference`); `OtteryEntropy` takes from it that the masks of sources are
clean and a descriptor is set exactly if it is one (`TypeOK`).  `OtteryGlobal` takes from `OtteryState`
that every operation moves on in the output of a seed and never back.

### OtteryPrng: the state and the functions on it

`struct ottery_state` is a record with the fields of the C structure that matter
and their names.  The functions that run under the lock are operators from
records to records: `NextBlock` (`ottery_st_nextblock_nolock`), `FromBuf`
(`ottery_st_rand_bytes_from_buf`), `BulkTail`, `BulkBlock`, `BulkEnd` (the parts
of `ottery_st_rand_bytes_impl`), `RandInt` (the integer macro), `AddSeedImpl`,
`Reseed`, `PreventBacktracking`.

The PRF is abstract.  A *key* is the number of the entropy draw it comes from and
the chain of rekeyings since, each with the position it was taken from and what
was XORed in.  A *byte* is a key and a position in its stream; a cleared byte is
`Zero`.  So "the same byte" means "the same place of the same stream", which for
a good PRF is the only way bytes can be related, and "can be computed from this
key" is "its key extends this one".  The stream has `StreamLen` bytes because the
ChaCha block number has 32 bits and wraps (`StreamPos`).

`AbsorbLoop` is the seeding loop as the code has it and `Absorb` the closed form
that the rest uses, without a recursive definition in the way of the proofs;
`AbsorbMatchesLoop` proves them equal for seeds of every length.  What the loop is
for, that all of a seed ends up in the key, is a property of `OtteryState`
(`SeedsReachKey`).

### OtteryState: histories of calls

One state per process, known by its pid.  `Step(p)` has one action per operation;
the bulk loop and the rejection loop take a step per round, so that a process can
be killed in the middle and others can run.  `Fork` copies the state and the
installed handler, `Exit` ends a process anywhere.  `Fatal` is both what a
returning handler and what `abort()` leads to.  `given` and `chunk` record what
was written to the caller's memory; `drawn` which sources each draw came from.

`FreshBytes` is the promise without the mechanism: users ask for a number of
bytes and get them, in pieces, none of them ever given before; or the request is
abandoned.  `KeepsPromise` is that specification under the mapping `Asked`,
`Owed` (the rest as they are).

### OtteryEntropy: system call by system call

The loop of `ottery_get_entropy_` (`Skip`, `Ask`, `Return`) and the sources of a
Unix build: the random device (open, `fstat` with the inode check, reads of any
length), the EGD daemon (socket, connect, exchange, reads) and RDRAND (word by
word, the last word cut).  Each of these system calls may fail.  Between any two
steps the path may come to name another file, and the user may redirect or close
the descriptor passed in, also while a call is using it (`touched` remembers
which).  A file is known by device and inode number, of which the code compares
the second only; a device with the inode number of another, and one with number 0,
are among the files.

### OtteryRange

`upper + 1` with its wrap to 0, the divisor, the quotient and the rejection, on
integers of any width (`IntRange`).  `OtteryState` has the loop: `RangeStart`
picks a bound, and a draw can be rejected or accepted if some integer is, for
that bound.

### OtteryConfig and OtteryChaCha: from wishes to a PRF

A `machine` is a build and the CPU it runs on: what CPUID says, which SIMD
variants were compiled (`HAVE_SIMD_CHACHA`, `HAVE_SIMD_CHACHA_2`), how many blocks
they compute per iteration.  The actions are `ottery_config_init`, the setters,
`ottery_config_force_implementation` with a name that may not be found,
`ottery_disable_cpu_capabilities_` at any time, `ottery_st_init` with the
configuration or with NULL (succeeding, failing for entropy, refusing the PRF) and
`ottery_st_wipe`.  `GetImpl` walks the table `AllPrfs` in its order.  `asked`
remembers, for the properties, which PRFs answer to the last request that
succeeded.

`OtteryChaCha` has both implementations as operators.  The portable one works on
a function from 0..15 to words.  The SIMD one works on four rows of four lanes:
`DQRoundVectors` rotates lanes between the two halves of a double round, `S3At`
counts blocks in the first lane of `s3`, and the block that ARM builds compute in
general registers has a counter of its own.  Xor and rotation of words are
parameters, like the number of words.

### OtteryGlobal: threads

One step per access to shared memory: the flag test of `CHECK_INIT`, the memset,
`INIT_LOCK`, the setting of the PRF, the reseed, `magic`, `pid` and the flag, each
on its own;
then the check of `magic`, `LOCK`, the pid check, taking the output and advancing
the state as two steps, `UNLOCK`.  A zeroed mutex behaves as a free one, and
unlocking frees it whoever holds it, as the usual implementations do.  A zeroed
`prf` function pointer is a crash.  `Careful` says whether the program makes sure
that nobody is in a call while somebody initialises or wipes; with it `FALSE`
anything goes.

## 3. The runs

| Run | Shows |
|---|---|
| `calls` | every sequence of five calls in one process, two entropy sources: `TypeOK`, `PosInRange`, `KeyBytesNeverGiven`, `KeyForgetsGiven`, `SrcFlagsExact`, and `KeepsPromise` |
| `forks` | three processes that fork, fail and exit anywhere: `SrcFlagsExact`, the inductive invariants `IInv` and `HistoryInv`, `SeedsReachKey` (a key is replaced only at initialisation or in a child), `KeepsPromise` |
| `noclear` | a build with `OTTERY_NO_CLEAR_AFTER_YIELD`, four-byte keys, range calls with six bounds: `BacktrackingPrevented`, `SeedsReachKey` (every byte of a seed), `Uniform`, `MostlyAccepted`, and `CallsReturn` |
| `entropy` | two draws in a changing world: `TypeOK`, `Delivered`, `StrongInput`, `NoFdLeak`, `OneInode`, `UserFdKept`, `EntropyReturns`, and the inductive invariant `IInv` |
| `config` | seven machines, every sequence of five calls: `TypeOK`, `RunsHere`, `AskedForIsUsed`, `DefaultIsBest`, `OutputCodeFits`, `StreamAsReference`, and the inductive invariant `IInv` |
| `global` | two careful threads and a child: `LockMatchesHolder`, `GoodOutput`, `CallsReturn`, and the inductive invariants `LockInv` and `OutputInv` |
| `globalrace` | two careless threads and a child: `ForkSeparates` still holds, and so does the inductive invariant `SeedInv` |
| `cleared`, `pidreuse`, `wrap`, `lazyinit`, `forklock` | counterexamples, see section 5 |

**Bounds.**

- `OutputLen` 6, `StateBytes` 2, `IntSizes` {1, 3} (1024, 40, {4, 8} in the
  code).  What the code tests are sums of a size and `pos` against one or two
  blocks; `EdgeRequests` has sizes on each side of every such test, and integers
  of 1 and 3 bytes both fill the buffer exactly and straddle its end.  In
  `noclear`, keys of 4 bytes make half a key longer than one byte, so that a last
  pass of the seeding loop is partial for seeds of 1 and of 3 bytes; blocks of 9 shift every boundary.  The
  proofs remove these bounds.
- `StreamLen` 30: five blocks, more than any request of the passing runs takes
  from a key, as 2^38 bytes are to any real request; 12 in `wrap`, where wrapping
  is the point.
- `MaxOps` 5 (calls, forks, rejected draws): enough to fill a buffer by small
  requests, cross it, go through the bulk loop and come back; and to fork, fork
  again and draw in all three processes.
- Two sources in a draw give a reseed its extra pass; one in other runs.
- `N` 3, `Word` 2: RDRAND's last word is cut, reads come in up to three pieces.
  Two calls are the least that can meet a remembered inode, two changes let the
  path or the descriptor go away and come back.  `SomeFiles` has two devices of one
  inode number on two file systems, one of another number, one of number 0 that is
  always at its end, and a plain file; `SomeConfigs` has every source weak or disabled in turn, by
  name and by descriptor.
- `IntRange` 16 in `noclear`, with bounds 0, the largest (where `upper + 1` wraps
  to 0), the one below it, and those on both sides of half; 8 where range calls
  are not the point.  The proofs remove this bound.
- `config`: words of five bits, so that block numbers wrap after 32 blocks, and
  indices 0, 1, 2 and 31 of calls of 12 and 16 blocks: the wrap falls on the border of
  a call or inside one, with 12 in the middle of an iteration.  The seven machines
  are an x86 CPU without SSE2, with it, and with SSSE3, builds with three and four
  vector blocks and with both, one or no SIMD variant, and ARM (two vector blocks
  and one in general registers).  Names are one of each kind and one that nothing
  answers to; the PRFs set by hand are the test suite's, three malformed ones that
  are refused, and one that is accepted with a key longer than half a block.
  Five calls are enough to force, fail to force, disable, initialise and
  initialise again.  The numbers of the PRFs are the real ones.
- Threads: two, which is what a race takes, and a child, with four calls or forks
  between them.  In `globalrace` the calls are `init`, `wipe`, `add_seed` and the
  rand functions: of the others, `range` only repeats the steps of a rand, and
  `prevent_backtracking` and a draw before the seed move nothing that could be
  output.  `global` leaves out `add_seed` with the caller's bytes, whose steps are
  those of `add_seed(NULL, 0)` without the draw.  `globalrace` uses the symmetry of the threads; `global`, which
  checks liveness, does not.

Deadlock is not checked: a program may stop calling the library, and the bounds
stop the models.

**Fairness.**

- `OtteryState`: weak fairness of the bulk loop, since a running thread goes on;
  strong fairness of `RangeAccept`: draws are accepted with probability at least
  one half (`MostlyAccepted`), so rejection does not go on for ever.  For the range
  calls `CallsReturn` therefore says that every bound leaves a draw that satisfies
  the loop's test; how soon it comes is what `MostlyAccepted` says.
- `OtteryEntropy`: weak fairness of the library, which includes that each system
  call returns.  The code has no timeout, so a silent EGD daemon is outside this
  assumption, and `EntropyReturns` says nothing of it (see section 5).
- `OtteryGlobal`: weak fairness of each thread.  The model makes boundedly many
  calls (`MaxOps`), so nobody can be overtaken for ever.  A pthread mutex need not
  be fair: that a thread gets the lock while others call without end is not
  claimed.

Every property has a mutant in `PROJECT.json`: a plausible mistake in the code
under which TLC finds the property violated, so that none holds by the shape of
the model.

## 4. What is proved

Every inductive invariant below is also an invariant of a run, so TLC has seen
that the states it describes are reached.

### The generator (`OtteryState_proofs`, `OtteryHistory_proofs`)

Assumed: `PrfShape` (keys of at least two bytes, blocks of at least two keys with
room for an integer and more, a stream of at least two blocks), `Parameters`
(types), and in each theorem about `Spec` `~PidReuse` and `ShortRequests` (no
request as long as a key's stream).  The last two are necessary: section 5.  `PrfShape` is stronger than what `ottery.c:347` tests at
run time (`state_bytes <= output_len`), and it is true of every PRF of the library
(`OutputCodeFits`, proved below).

| Theorem | For every number of processes, calls, PRF shape, request sizes |
|---|---|
| `Invariance` | `Spec => []IInv` |
| `TypeCorrect` | types; all that is handed out is output under a seeded key, never a cleared byte |
| `PosStaysInRange` | the assertion at `ottery.c:648` and the comment on `pos` hold |
| `BacktrackingResistance` | between calls, nothing given to anyone can be computed from a key held |
| `Refinement` | the specification implements `FreshBytes` |
| `RangeIsUniform`, `RangeEndsSoon` | `Uniform` and `MostlyAccepted`, for integers of any width and any bounds |
| `HistoryInvariance` | `Spec => []HistoryInv` |
| `KeyMaterialStaysSecret` | `KeyBytesNeverGiven`: no byte that a key, or a key before it, was made of is handed out |
| `FlagsTellTheTruth` | `SrcFlagsExact`: the flags name the sources of the key, no more and no fewer |
| `BacktrackingRemoved` | `BacktrackingPrevented`, in builds that do not clear after a yield (`~ClearAfterYield`, where it is the caller's only protection) |
| `AbsorbMatchesLoop` | the closed form of the seeding loop is the loop, for seeds of every length |
| `SeedsStayInKey` | `SeedsReachKey`: all bytes of a caller's seed go into the key and stay in the keys after it |

**`IInv`.**  That no byte is given twice is not inductive: nothing in "fresh so
far" says that what comes next is new.  `IInv` puts a *mark* in the output of the
seed of each state: the number of rekeyings and a position.  Between calls the
mark is at `pos` in the block that is in the buffer; in the bulk loop it is at the
block counter in the stream of the present key.  `GivenOK` says that all that was
given lies before the mark; `StatesOK` (`Ready`, `Running`) that what the state can
still give lies at or after it, in order, and that the stream does not run out;
`SeedsApart` that no two processes own states of one seed, nor was either given
bytes of the other's.  A state that a fork copied is not *owned* until the pid
check has reseeded it, and with pids that are not reused nobody can mistake it for
its own.  Each action either moves the mark forward over what it gives, or starts a
new seed.  `KeyForgetsGiven` and the refinement follow, the former because the key
held is one rekeying beyond whatever was given.

**`HistoryInv`.**  The mark says where a state is, not how its key came about.
`KeysUngiven` adds that no byte given out lies where a key in the chain of the
present one was taken from: a step that rekeys takes the new key at the counter or
beyond, which is at or after the mark, and what it gives afterwards lies behind
those bytes in the same block or in a later one (`Grows`).  `FlagsHonest` adds that the flags
of a state are the union of the sources of the draws in its key, and that these
draws have been made; it holds of copied states too, which matters because a child
may add a seed before it first draws.  `CopiesSilent` and `WipedClean` say that a
process that was given anything has a state of its own, if any, and that a state
without `magic` has a clean buffer: what `prevent_backtracking`, which tests
neither `magic` nor the pid, needs for states that a fork copied or that were wiped.

**The seeding loop** is a recursive function, so this needs an induction.  The
library's induction theorems have an operator as a parameter, but that a nonempty
set of naturals has a least element (`LeastNatural`) can be had from the
well-founded order on them; the set is that of the lengths for which the two
differ.  The function that TLA+ chooses for the recursion is the loop because one
such function exists (`LoopChosen`).

**`SeedsReachKey`.**  The chain of a key has a rekeying per pass of the loop, marked
with the seed that was XORed in.  `SeedMixedIn` counts the marked ones that a seed of
`n` bytes adds: times half a key, which is what a pass takes, they are at least `n`,
which they would not be without the last, perhaps partial, one.  `KeysGoOn` goes through the
actions: whatever rekeys lengthens the chain (`GrowsDerives`), except the draws of an
initialisation and of the pid check, and the latter replaces the key only of a state
that a fork copied (`CheckPidKeeps`).

**Ranges** rest on `OtteryRange_proofs` (`EveryBoundUniform`, `EveryBoundLikely`):
the draws that give `v` are the interval of `Divisor` integers from `v * Divisor`
on (`HitsInterval`), so each value has equally many, and the `Lim * Divisor`
accepted ones are at least half of all because the division leaves fewer than `Lim`
integers over.

### ChaCha and configuration (`OtteryChaCha_proofs`, `OtteryConfig_proofs`)

| Theorem | For words of any width, whatever xor and rotation do |
|---|---|
| `VectorRoundIsWordRound` | `DQRoundVectors` of the rows of a state is the rows of its `DoubleRound` |
| `KrovetzIsReference` | the SIMD `generate` writes the blocks of the ChaCha function in order, for every number of rounds, every index and every number of blocks per iteration |
| `MergedIsReference` | so does the portable one |

A quarter round changes its four words only (`AtChanges`), so four of them on
disjoint words do not disturb one another (`FourRounds`), neither down the columns
nor along the diagonals, which the rotations of lanes put above one another.  Any
number of rounds agrees by the least number for which it would not
(`RoundsAgree`), and so do the blocks (`BlocksAgree`).  Both files keep the block
number modulo the number of words and add to it at different places: adding to a
remainder is adding before taking it (`RemainderPlus`), so all the counters (`j12`,
`s3`, `x_ctr`) agree wherever they wrap.

| Theorem | For every build, CPU and sequence of calls |
|---|---|
| `ConfigInvariance`, `ConfigTypeCorrect` | `IInv` and `TypeOK` of `OtteryConfig` |
| `OnlyWhatRunsHere` | `RunsHere`: on x86 no instruction that the CPU lacks |
| `WhatWasAskedFor` | `AskedForIsUsed` |
| `TheDefaultIsBest` | `DefaultIsBest` |
| `OutputFits` | `OutputCodeFits`: the documented sizes for every PRF a state can have, and what the output code needs for every one of the library |
| `StreamsAgree` | `StreamAsReference`: what a built-in PRF writes is ChaCha, for every key and index |

Assumed: `ConfigParameters` (machines are of the code's shape, with two to four
vector blocks; PRFs passed by hand are not the built-in ones).  A PRF is chosen
when it is forced or at initialisation, from the capabilities of that moment, and
used later.  So `IInv` says of what `cfg` and `st` hold what was true when it was
chosen and stays so (`Sound`): it answers to the request, is in the table of this
build, and needs only what the CPU has; and if nothing was asked for it is the best
there is *now* (`Best`), since capabilities are only taken away.  That the first
usable entry is the best follows from the order of the table (`TableOrdered`):
what an entry needs includes what later ones need, and 20 rounds come first.

### Entropy (`OtteryEntropy_proofs`)

| Theorem | For any table of sources, lengths, and behaviour of files and users |
|---|---|
| `EntropyInvariance`, `EntropyTypeCorrect` | `IInv` and `TypeOK` of `OtteryEntropy`: no source writes beyond its slot |
| `EntropyDelivered` | `Delivered`: success means that every source named filled its slot |
| `EntropyStrong` | `StrongInput`: success means a strong source |
| `NoDescriptorLeaks` | `NoFdLeak`, whichever system call fails |
| `OneInodeForLife` | `OneInode`, also if the path changes at any moment; a descriptor changed during a call is excepted |
| `UserDescriptorKept` | `UserFdKept` |

Assumed: `EntropyParameters` (types; no source twice in the table).  `IInv` ties the
step that is due to the source being asked and the bytes of its slot (`AskOK`),
the descriptor the library holds to the steps between open and close (`FdsOK`),
the sources that answered to filled slots below `next` (`GotOK`, where `next` is
the slot length times their number), and every byte of device input to the inode
that is remembered (`DeviceOK`): also the one the descriptor in hand will give,
which is why a path replaced after the check does no harm.  A user's descriptor
redirected between `fstat` and `read` does: then bytes of any file are taken, which
is why `OneInode` excepts it.  Nor does it say that there is one device: the code
compares `st_ino` and not `st_dev`, and TLC reaches states with input from two
devices of one inode number.

### Threads (`OtteryGlobal_proofs`)

| Theorem | For any number of threads and children | Callers |
|---|---|---|
| `LockInvariance`, `LockProtects` | `LockInv`, `LockMatchesHolder` | careful |
| `OutputInvariance`, `OutputIsGood` | `OutputInv`, `GoodOutput`: never the zeroed state's output, never the same twice | careful |
| `SeedInvariance`, `ForksSeparate` | `SeedInv`, `ForkSeparates`: no two processes give out the same | any |

Assumed: `GlobalParameters` (the first process, the children, the threads and the
value of a free lock are different things; 0 is no process's pid).  The middle row
fails for careless callers (`lazyinit`).

`LockInv` adds to `LockMatchesHolder` that whoever initialises or wipes, or is
about to, is alone (`SetupAlone`), and that a process not yet born is in no call
and holds no lock (`UnbornIdle`).  `SeedInv` follows seeds instead of bytes: those a
process has given output of, and the one it holds if the state bears its pid or is
about to (`SeedsOf`), are disjoint between processes; races within a process cannot
break that, as its threads all draw seeds that nobody else has.  `OutputInv` puts
both together with a mark per seed: all output of the seed lies before the state's
place in it, or at it while the thread that took it is about to advance (`Spent`),
and a state that bears a pid is seeded (`Seeded`).

### Only model-checked

Liveness (`CallsReturn`, `EntropyReturns`): it rests on fairness and `ENABLED`,
which are beyond this prover.  All other properties of the passing runs are proved.

## 5. Where the code does not do what it says

Each has a run that ends in a counterexample.

- `cleared` (`ottery.c:646`, `:739`).  After a request that crosses into a new
  block, the code clears the first `n` bytes of the buffer instead of the `n` at
  `pos`, of which the last `state_bytes` stay behind.  README.md:122: "After it
  extracts bytes from the RNG, it clears them from its internal buffers".
- `pidreuse` (`ottery.c:584`).  A process that gets the pid of the dead process
  its state was seeded in is taken for that process.  README.md: "forksafe by
  default".
- `wrap` (`chacha_merged.c:183`).  A single request of more than 2^32 ChaCha
  blocks repeats its own output; chacha_merged.c:144 says the counter "can never
  need to be incremented".
- `lazyinit` (`ottery_global.c:34`).  Two first calls at once, or a wipe under
  another call, can hand out the zeroed state's output or repeat output.
  README.md: "threadsafe by default".
- `forklock` (`ottery.c:603`).  A child forked while another thread of the parent
  is inside inherits a lock that nobody releases.  README.md: "you don't need to
  explicitly reinitialize it after each fork()".

Observed while modelling, without a run of their own:

- a seed supplied by the caller sets `last_entropy_flags` to 0, which the comment
  at `ottery-internal.h:226` does not suggest;
- `ottery_entropy_urandom.c:98` closes the descriptor on an inode mismatch even
  if it is the user's (`UserFdKept` allows for that: it happens only after the
  user redirected it, which the documentation forbids);
- `read` interrupted by a signal counts as a failure of the source;
- the EGD exchange blocks without a timeout, in a post-fork reseed with the lock
  held;
- the fatal handler runs with the lock held when that reseed fails;
- a device is known by its inode number alone: `ottery_entropy_urandom.c:97` does
  not compare `st_dev`, and a device with inode 0 is not remembered;
- `ottery_common.h:103`, `:107` and `:111` offer the names `CHACHA`, `CHACHA-SIMD`
  and `CHACHA-NOSIMD`, which no entry of the table answers to: forcing them fails;
- builds for CPUs other than x86 claim the SIMD capability without looking
  (`ottery_cpuinfo.c:85`; `RunsHere` is about x86);
- the check of a PRF at `ottery.c:347` lets a key longer than half a block
  through, as `ottery-internal.h:148` allows, but the output code could not handle
  it; no PRF of the library is like that, and only the test suite sets a PRF by
  hand.

## 6. What is not modelled

- Byte order in ChaCha (words are words here), and the AltiVec branch, which is
  switched off by an `#error`.  That the rounds are a good PRF is cryptography.
- Getters of constants: sizes, version, build flags.
- The Windows source and critical sections, the spin locks (the same states as a
  mutex), `OTTERY_NO_LOCKS`, and the `_nolock` interface (the same functions; the
  caller serialises them).
- Wiping of dead stack frames.
- `select_sources`, which every caller in the library passes as 0.
- The data race on `entropy_state` between two threads that call
  `add_seed(NULL, 0)` at once: initialisation has pinned the device before, unless
  it failed then and another source answered.
- A fatal handler that calls the library again on the state it is called for (it
  would wait for the lock that its own thread holds).
- The public headers, which declare; their comments are what section 5 quotes.

## 7. The plan

In the order of importance; the first six are done.

1. `OtteryPrng`, `OtteryState`, `FreshBytes`: the generator over a history of
   calls and forks; refinement; invariance and refinement proved.
2. `OtteryEntropy`: what the generator is fed.
3. `OtteryRange`: uniformity, within the calls of `OtteryState`; proved.
4. `OtteryGlobal`: threads; the lock proved.
5. `OtteryConfig`, `OtteryChaCha`: configuration, choice of the PRF, and the
   implementations of ChaCha.
6. Proofs of every safety property that the runs check (section 4).
7. Proofs of what connects the modules: that `OtteryConfig`'s PRFs satisfy
   `PrfShape` of `OtteryPrng`, and that `OtteryEntropy`'s calls do to the rest
   what `Draws` in `OtteryState` says.
8. A composition of `OtteryEntropy` with the calls that use it, so that the
   remembered inode, a failed post-fork reseed and the order of flags and key are
   seen together.
