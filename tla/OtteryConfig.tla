---------------------------- MODULE OtteryConfig ----------------------------
(***************************************************************************)
(* From a program's wishes to the PRF a state runs: the configuration      *)
(* and its setters, the CPU's capabilities (ottery_cpuinfo.c), the table   *)
(* of implementations with the choice among them (ottery_get_impl), and    *)
(* what ottery_st_initialize makes of a configuration.                     *)
(*                                                                         *)
(* One process, one struct ottery_config and one struct ottery_state,      *)
(* configured and initialised again in any order.  What the state does     *)
(* once it is initialised is OtteryState's subject.                        *)
(***************************************************************************)
EXTENDS OtteryChaCha, FiniteSetsExt, Functions

CONSTANTS
  Machines,     (* the builds and the CPUs they may run on                  *)
  Names,        (* names a program passes to force_implementation           *)
  ManualPrfs,   (* PRFs passed to ottery_config_set_manual_prf_ (tests)     *)
  Masks,        (* masks of entropy sources a program passes                *)
  CapMasks,     (* masks of capabilities a program disables                 *)
  Fds,          (* descriptors a program passes: integers                   *)
  NULL,
  Key,          (* some key material, to compare streams with               *)
  Indices,      (* and block indices                                        *)
  MaxOps        (* bound: calls in a behaviour                              *)

Caps       == {"SIMD", "SSSE3", "AES", "RAND"}
AllSources == {"RANDOMDEV", "CRYPTGENRANDOM", "RDRAND", "EGD"}

(* x86: the build reads CPUID.  simd: the SIMD variants that were built.   *)
(* vbpi and gpr: how chacha_krovetz.c was compiled.                        *)
MachineType == [x86 : BOOLEAN, cpu : SUBSET Caps, simd : SUBSET {1, 2},
                vbpi : 2..4, gpr : {0, 1}]

VARIABLES
  machine,    (* the build and the CPU                                      *)
  disabled,   (* disabled_cpu_capabilities                                  *)
  cfg,        (* struct ottery_config                                       *)
  st,         (* struct ottery_state: magic, PRF, entropy configuration     *)
  asked,      (* the PRFs that answer to the last request cfg accepted, and *)
              (* to the one in force when st was last initialised           *)
  ops         (* the count bounded by MaxOps                                *)

vars == <<machine, disabled, cfg, st, asked, ops>>

-----------------------------------------------------------------------------
(* struct ottery_prf and the instances of it.                              *)

MAX_STATE_LEN   == 256
MAX_STATE_BYTES == 64
MAX_OUTPUT_LEN  == 1024

(* OUTPUT_LEN, in both files.                                              *)
OutputLenOf(idx_step) == idx_step * 64

(* PRF_CHACHA(r) of chacha_merged.c.                                       *)
Merged(r) ==
  [rounds |-> r, impl |-> "NOSIMD", flav |-> "DEFAULT", state_len |-> 64,
   state_bytes |-> 40, output_len |-> OutputLenOf(MERGED_IDX_STEP),
   required_cpucap |-> {}, vbpi |-> 0, gpr |-> 0]

(* PRF_CHACHA(r) of chacha_krovetz.c, compiled as variant n (only the      *)
(* second is compiled for SSSE3).                                          *)
Krovetz(m, n, r) ==
  [rounds |-> r, impl |-> "SIMD",
   flav |-> IF n = 2 THEN "SSSE3" ELSE "DEFAULT", state_len |-> 48,
   state_bytes |-> 40,
   output_len |-> OutputLenOf(KROVETZ_IDX_STEP(m.vbpi, m.gpr)),
   required_cpucap |-> IF n = 2 THEN {"SSSE3", "SIMD"} ELSE {"SIMD"},
   vbpi |-> m.vbpi, gpr |-> m.gpr]

(* The name, impl and flav strings: "CHACHA20", "CHACHA20-SIMD",           *)
(* "CHACHA20-SIMD-SSSE3".                                                  *)
NamesOf(prf) ==
  {<<prf.rounds>>, <<prf.rounds, prf.impl>>, <<prf.rounds, prf.impl, prf.flav>>}

(* ALL_PRFS, in its order.                                                 *)
AllPrfs(m) ==
  LET three(P(_)) == <<P(20), P(12), P(8)>>
      simd(n) == IF n \in m.simd THEN three(LAMBDA r : Krovetz(m, n, r)) ELSE <<>>
  IN  simd(2) \o (simd(1) \o three(Merged))

BuiltIn == UNION {Range(AllPrfs(m)) : m \in Machines}

(* prf->setup and prf->generate of a built-in PRF.                         *)
Generate(prf, bytes, idx) ==
  IF prf.impl = "SIMD"
  THEN KrovetzGenerate(prf.rounds, bytes, idx, prf.vbpi, prf.gpr)
  ELSE MergedGenerate(prf.rounds, bytes, idx)

-----------------------------------------------------------------------------
(* struct ottery_entropy_config.  egd_socklen goes with egd_sockaddr, and  *)
(* only tests set allow_nondev_urandom.                                    *)
NoEntropyConfig ==
  [urandom_fname |-> NULL, urandom_fd |-> -1, urandom_fd_is_set |-> FALSE,
   disabled_sources |-> {}, weak_sources |-> {}, egd_sockaddr |-> NULL]

(* ottery_config_init.                                                     *)
NoConfig == [impl |-> NULL, entropy_config |-> NoEntropyConfig]

Blank == [magic |-> FALSE, prf |-> NULL, entropy_config |-> NoEntropyConfig]

EntropyConfigs ==
  [urandom_fname : {NULL, "device"}, urandom_fd : Fds \cup {-1},
   urandom_fd_is_set : BOOLEAN, disabled_sources : SUBSET AllSources,
   weak_sources : SUBSET AllSources, egd_sockaddr : {NULL, "address"}]

Prfs == BuiltIn \cup ManualPrfs

(* Only tests pass a PRF by hand, and they pass their own.                 *)
ASSUME ConfigParameters ==
  /\ Machines \subseteq MachineType
  /\ ManualPrfs \cap BuiltIn = {} /\ NULL \notin Prfs
  /\ CapMasks \subseteq SUBSET Caps
  /\ Fds \subseteq Int
  /\ Indices \subseteq Nat
  /\ MaxOps \in Nat

(* The configurations that OtteryEntropy starts from: masks that hold      *)
(* nothing but sources, and a descriptor that is set iff it is one.        *)
TypeOK ==
  /\ machine \in Machines
  /\ disabled \subseteq Caps
  /\ cfg \in [impl : Prfs \cup {NULL}, entropy_config : EntropyConfigs]
  /\ cfg.entropy_config.urandom_fd_is_set <=> cfg.entropy_config.urandom_fd >= 0
  /\ st \in [magic : BOOLEAN, prf : Prfs \cup {NULL}, entropy_config : EntropyConfigs]
  /\ st.magic => st.prf # NULL
  /\ asked \in [cfg : SUBSET Prfs, st : SUBSET Prfs]
  /\ ops \in 0..MaxOps

Init ==
  /\ machine \in Machines
  /\ disabled = {}
  /\ cfg = NoConfig
  /\ st = Blank
  /\ asked = [cfg |-> BuiltIn, st |-> BuiltIn]
  /\ ops = 0

Enter == ops < MaxOps /\ ops' = ops + 1 /\ UNCHANGED machine

-----------------------------------------------------------------------------
(* CPU capabilities.                                                       *)

(* ottery_get_cpu_capabilities_: builds for other CPUs claim SIMD.         *)
Capabilities == (IF machine.x86 THEN machine.cpu ELSE {"SIMD"}) \ disabled

(* mutant of DisableCapabilities: the last mask replaces the others        *)
DisableCapabilitiesReplaces ==
  /\ Enter
  /\ \E mask \in CapMasks : disabled' = mask
  /\ UNCHANGED <<cfg, st, asked>>

(* ottery_disable_cpu_capabilities_.                                       *)
DisableCapabilities ==
  /\ Enter
  /\ \E mask \in CapMasks : disabled' = disabled \cup mask
  /\ UNCHANGED <<cfg, st, asked>>

-----------------------------------------------------------------------------
(* Configuration.                                                          *)

(* mutant of Usable: any required capability will do                       *)
UsableInPart(prf) ==
  prf.required_cpucap = {} \/ prf.required_cpucap \cap Capabilities # {}

Usable(prf) == prf.required_cpucap \subseteq Capabilities

(* ottery_get_impl: the first usable entry that answers to the name.       *)
GetImpl(name) ==
  LET all  == AllPrfs(machine)
      fits == {i \in DOMAIN all : /\ Usable(all[i])
                                  /\ name = NULL \/ name \in NamesOf(all[i])}
  IN  IF fits = {} THEN NULL ELSE all[Min(fits)]

(* The PRFs, of any build, that answer to a name.                          *)
Answers(name) == {prf \in BuiltIn : name = NULL \/ name \in NamesOf(prf)}

ConfigInit ==
  /\ Enter
  /\ cfg' = NoConfig
  /\ asked' = [asked EXCEPT !.cfg = BuiltIn]
  /\ UNCHANGED <<disabled, st>>

(* mutant of ForceImplementation: a name that is not found is stored       *)
ForceImplementationAlways ==
  /\ Enter
  /\ \E name \in Names \cup {NULL} :
       /\ cfg' = [cfg EXCEPT !.impl = GetImpl(name)]
       /\ asked' = IF GetImpl(name) # NULL
                   THEN [asked EXCEPT !.cfg = Answers(name)] ELSE asked
  /\ UNCHANGED <<disabled, st>>

(* A name that is not found is an error that leaves the configuration.     *)
ForceImplementation ==
  /\ Enter
  /\ \E name \in Names \cup {NULL} :
       IF GetImpl(name) # NULL
       THEN /\ cfg' = [cfg EXCEPT !.impl = GetImpl(name)]
            /\ asked' = [asked EXCEPT !.cfg = Answers(name)]
       ELSE UNCHANGED <<cfg, asked>>
  /\ UNCHANGED <<disabled, st>>

SetManualPrf ==
  /\ Enter
  /\ \E prf \in ManualPrfs :
       /\ cfg' = [cfg EXCEPT !.impl = prf]
       /\ asked' = [asked EXCEPT !.cfg = {prf}]
  /\ UNCHANGED <<disabled, st>>

(* A setter of the entropy configuration.                                  *)
SetEntropy(c) ==
  /\ Enter
  /\ cfg' = [cfg EXCEPT !.entropy_config = c]
  /\ UNCHANGED <<disabled, st, asked>>

SetUrandomDevice == SetEntropy([cfg.entropy_config EXCEPT !.urandom_fname = "device"])

SetUrandomFd ==
  \E fd \in Fds :
    SetEntropy([cfg.entropy_config EXCEPT !.urandom_fd = fd,
                                          !.urandom_fd_is_set = (fd >= 0)])

SetEgdSocket == SetEntropy([cfg.entropy_config EXCEPT !.egd_sockaddr = "address"])

(* mutant of DisableSources: bits of other flags are let in                *)
DisableSourcesUnmasked ==
  \E mask \in Masks :
    SetEntropy([cfg.entropy_config EXCEPT !.disabled_sources = mask])

DisableSources ==
  \E mask \in Masks :
    SetEntropy([cfg.entropy_config EXCEPT !.disabled_sources = mask \cap AllSources])

MarkSourcesWeak ==
  \E mask \in Masks :
    SetEntropy([cfg.entropy_config EXCEPT !.weak_sources = mask \cap AllSources])

-----------------------------------------------------------------------------
(* Initialisation.                                                         *)

(* mutant of PrfAccepted: state_bytes is not compared with output_len      *)
PrfAcceptedIfStored(prf) ==
  /\ prf.state_len <= MAX_STATE_LEN
  /\ prf.state_bytes <= MAX_STATE_BYTES
  /\ prf.output_len <= MAX_OUTPUT_LEN

(* The checks of ottery_st_initialize on the PRF.                          *)
PrfAccepted(prf) ==
  /\ prf.state_len <= MAX_STATE_LEN
  /\ prf.state_bytes <= MAX_STATE_BYTES
  /\ prf.state_bytes <= prf.output_len
  /\ prf.output_len <= MAX_OUTPUT_LEN

(* The sources that can make a seed strong under entropy configuration e.  *)
StrongSources(e) ==
  ({"RANDOMDEV"} \cup (IF "RAND" \in Capabilities THEN {"RDRAND"} ELSE {})
                 \cup (IF e.egd_sockaddr # NULL THEN {"EGD"} ELSE {}))
    \ (e.disabled_sources \cup e.weak_sources)

(* The calls of ottery_st_init: with cfg or with NULL, and what then has   *)
(* been asked for.                                                         *)
InitArgs == {[config |-> cfg, asked |-> asked.cfg],
             [config |-> NoConfig, asked |-> BuiltIn]}

ChosenPrf(config) == IF config.impl # NULL THEN config.impl ELSE GetImpl(NULL)

(* An initialisation that gets as far as copying PRF and configuration.    *)
Copied(a, magic) ==
  /\ Enter
  /\ PrfAccepted(ChosenPrf(a.config))
  /\ st' = [magic |-> magic, prf |-> ChosenPrf(a.config),
            entropy_config |-> a.config.entropy_config]
  /\ asked' = [asked EXCEPT !.st = a.asked]
  /\ UNCHANGED <<disabled, cfg>>

StInit ==
  \E a \in InitArgs :
    StrongSources(a.config.entropy_config) # {} /\ Copied(a, TRUE)

(* Entropy can always fail, and then magic stays 0.                        *)
StInitNoEntropy == \E a \in InitArgs : Copied(a, FALSE)

Zeroed ==
  /\ Enter
  /\ st' = Blank
  /\ UNCHANGED <<disabled, cfg, asked>>

(* OTTERY_ERR_INTERNAL, after the memset.  (OTTERY_ERR_LOCK_INIT leaves    *)
(* the same; OTTERY_ERR_STATE_ALIGNMENT comes before it and is no step.)   *)
StInitBadPrf ==
  /\ \E a \in InitArgs : ~PrfAccepted(ChosenPrf(a.config))
  /\ Zeroed

StWipe == Zeroed

Next ==
  \/ DisableCapabilities
  \/ ConfigInit \/ ForceImplementation \/ SetManualPrf
  \/ SetUrandomDevice \/ SetUrandomFd \/ SetEgdSocket
  \/ DisableSources \/ MarkSourcesWeak
  \/ StInit \/ StInitNoEntropy \/ StInitBadPrf \/ StWipe

Spec == Init /\ [][Next]_vars

-----------------------------------------------------------------------------
(* Properties.                                                             *)

BuiltInUsed == st.magic /\ st.prf \in BuiltIn

(* An x86 program never runs instructions its CPU lacks, however           *)
(* forcing, disabling and initialising follow one another, although        *)
(* cfg.impl was chosen from capabilities read earlier.                     *)
RunsHere ==
  BuiltInUsed /\ machine.x86 => st.prf.required_cpucap \subseteq machine.cpu

(* A state runs what its program last asked for with success: a later      *)
(* request that fails, or a capability that is disabled in between, does   *)
(* not quietly replace it.                                                 *)
AskedForIsUsed ==
  st.magic => st.prf \in asked.st

(* All 20 rounds, and no implementation usable now needs a capability that *)
(* prf does not use.                                                       *)
Best(prf) ==
  /\ prf.rounds = 20
  /\ \A q \in Range(AllPrfs(machine)) :
       Usable(q) => q.required_cpucap \subseteq prf.required_cpucap

(* Without a request a state has all 20 rounds, in the fastest variant:    *)
(* no implementation that could be chosen now needs a capability it does   *)
(* not use.  (Capabilities are only ever taken away.)                      *)
DefaultIsBest ==
  BuiltInUsed /\ asked.st = BuiltIn => Best(st.prf)

(* However a PRF came into a state, its key fits its place in the state    *)
(* and in a block, and a block fits the buffer, as ottery-internal.h asks  *)
(* of a PRF.  The output code needs more (OtteryPrng's PrfShape, with      *)
(* integers of 4 and 8 bytes: a key is no longer than half a block), and   *)
(* every PRF of the library gives that.  Nothing checks it: a PRF set by   *)
(* hand with a longer key is accepted.                                     *)
OutputCodeFits ==
  st.magic =>
    /\ st.prf.state_len <= MAX_STATE_LEN
    /\ st.prf.state_bytes <= MAX_STATE_BYTES
    /\ st.prf.state_bytes <= st.prf.output_len
    /\ st.prf.output_len <= MAX_OUTPUT_LEN
    /\ st.prf \in BuiltIn => /\ 2 * st.prf.state_bytes <= st.prf.output_len
                             /\ st.prf.state_bytes + 8 < st.prf.output_len

(* What the generate functions write, and what they should.                *)
Written  == [prf \in BuiltIn |-> [idx \in Indices |-> Generate(prf, Key, idx)]]
Expected ==
  [prf \in BuiltIn |-> [idx \in Indices |->
     [k \in 0..(prf.output_len \div 64 - 1) |->
        ReferenceBlock(prf.rounds, Key, idx * (prf.output_len \div 64) + k)]]]

(* Whatever the CPU and the build, a PRF fills exactly output_len bytes    *)
(* with the ChaCha blocks from idx * output_len / 64 on, also where the    *)
(* block number wraps inside a call: so a name stands for one function,    *)
(* and a byte is known by its key and position, as OtteryPrng's Generate   *)
(* has it.                                                                 *)
StreamAsReference ==
  BuiltInUsed => \A idx \in Indices : Written[st.prf][idx] = Expected[st.prf][idx]

-----------------------------------------------------------------------------
(* The inductive invariant.                                                *)

(* What is known of a PRF that was chosen, at whatever time, when those in *)
(* answers were asked for.                                                 *)
Sound(prf, answers) ==
  /\ prf \in answers
  /\ prf \in BuiltIn => /\ prf \in Range(AllPrfs(machine))
                        /\ machine.x86 => prf.required_cpucap \subseteq machine.cpu
  /\ answers = BuiltIn => Best(prf)

IInv ==
  /\ TypeOK
  /\ IF cfg.impl = NULL THEN asked.cfg = BuiltIn ELSE Sound(cfg.impl, asked.cfg)
  /\ st.magic => Sound(st.prf, asked.st) /\ PrfAccepted(st.prf)
=============================================================================
