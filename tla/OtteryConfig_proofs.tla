------------------------ MODULE OtteryConfig_proofs ------------------------
(***************************************************************************)
(* What a state runs is what its program asked for and what its CPU can    *)
(* run, and it writes ChaCha's stream, for any builds, CPUs, names and     *)
(* sequence of calls.                                                      *)
(***************************************************************************)
EXTENDS OtteryConfig, OtteryChaCha_proofs

-----------------------------------------------------------------------------
(* The table.                                                              *)

(* Three implementations that need the same, the slowest cipher first.     *)
Trio(a, b, c, caps) ==
  /\ a.required_cpucap = caps /\ b.required_cpucap = caps /\ c.required_cpucap = caps
  /\ a.rounds = 20 /\ b.rounds = 12 /\ c.rounds = 8

(* What matters of the table: what an entry needs includes what the later  *)
(* ones need, the first of those that need the same has 20 rounds, and the *)
(* last needs nothing.                                                     *)
Ordered(t) ==
  /\ Len(t) \in Nat /\ DOMAIN t = 1..Len(t)
  /\ Len(t) >= 1 /\ t[Len(t)].required_cpucap = {} /\ t[Len(t)].rounds = 8
  /\ \A j, k \in 1..Len(t) : j <= k => t[k].required_cpucap \subseteq t[j].required_cpucap
  /\ \A k \in 1..Len(t) :
       t[k].rounds # 20 => k > 1 /\ t[k - 1].required_cpucap = t[k].required_cpucap

LEMMA OrderedTrio ==
  ASSUME NEW a, NEW b, NEW c, Trio(a, b, c, {})
  PROVE  Ordered(<<a, b, c>>)
<1>1. PICK t : t = <<a, b, c>>
  OBVIOUS
<1>2. Len(t) = 3 /\ DOMAIN t = 1..3 /\ t[1] = a /\ t[2] = b /\ t[3] = c
  BY <1>1
<1>3. \A k \in 1..3 : t[k].required_cpucap = {}
  BY <1>2 DEF Trio
<1>4. t[3].rounds = 8 /\ \A k \in 1..3 : t[k].rounds # 20 => k > 1
  BY <1>2 DEF Trio
<1>5. Ordered(t)
  BY <1>2, <1>3, <1>4 DEF Ordered
<1> QED BY <1>1, <1>5

LEMMA OrderedConcat ==
  ASSUME NEW a, NEW b, NEW c, NEW A, Trio(a, b, c, A), NEW S, NEW t \in Seq(S), Ordered(t),
         a \in S, b \in S, c \in S,
         \A k \in 1..Len(t) : t[k].required_cpucap \subseteq A
  PROVE  /\ Ordered(<<a, b, c>> \o t)
         /\ <<a, b, c>> \o t \in Seq(S)
         /\ \A k \in 1..Len(<<a, b, c>> \o t) : (<<a, b, c>> \o t)[k].required_cpucap \subseteq A
<1>1. PICK s \in Seq(S) : s = <<a, b, c>>
  <2>1. <<a, b, c>> \in Seq(S)
    OBVIOUS
  <2> QED BY <2>1, Zenon
<1>2. Len(s) = 3 /\ s[1] = a /\ s[2] = b /\ s[3] = c
  BY <1>1
<1>3. PICK u \in Seq(S) : u = s \o t
  <2>1. s \o t \in Seq(S)
    BY <1>1
  <2> QED BY <2>1, Zenon
<1>4. Len(t) \in Nat /\ Len(u) = 3 + Len(t) /\ DOMAIN u = 1..Len(u)
  BY <1>1, <1>2, <1>3
<1>5. \A k \in 1..Len(u) : u[k] = IF k <= 3 THEN s[k] ELSE t[k - 3]
  BY <1>1, <1>2, <1>3, <1>4
<1>6. u[1] = a /\ u[2] = b /\ u[3] = c /\ \A k \in 1..Len(t) : u[k + 3] = t[k]
  BY <1>2, <1>4, <1>5
<1>7. \A k \in 1..3 : u[k].required_cpucap = A
  BY <1>6 DEF Trio
<1>8. ASSUME NEW k \in 1..Len(u), k > 3
      PROVE  k - 3 \in 1..Len(t) /\ u[k] = t[k - 3]
  BY <1>4, <1>5, <1>8
<1>9. \A k \in 1..Len(u) : u[k].required_cpucap \subseteq A
  <2>1. ASSUME NEW k \in 1..Len(u) PROVE u[k].required_cpucap \subseteq A
    <3>1. CASE k <= 3
      BY <1>4, <1>7, <3>1
    <3>2. CASE k > 3
      BY <1>8, <3>2
    <3> QED BY <1>4, <3>1, <3>2
  <2> QED BY <2>1
<1>10. u[Len(u)].required_cpucap = {} /\ u[Len(u)].rounds = 8
  <2>1. Len(t) >= 1 /\ t[Len(t)].required_cpucap = {} /\ t[Len(t)].rounds = 8 /\ Len(t) \in 1..Len(t)
    BY <1>4 DEF Ordered
  <2>2. u[Len(t) + 3] = t[Len(t)] /\ Len(u) = Len(t) + 3
    BY <1>4, <1>6, <2>1
  <2> QED BY <2>1, <2>2
<1>11. ASSUME NEW j \in 1..Len(u), NEW k \in 1..Len(u), j <= k
       PROVE  u[k].required_cpucap \subseteq u[j].required_cpucap
  <2>1. CASE j <= 3
    <3>1. j \in 1..3
      BY <1>4, <2>1
    <3> QED BY <1>7, <1>9, <3>1
  <2>2. CASE j > 3
    <3>1. k > 3 /\ j - 3 <= k - 3
      BY <1>4, <1>11, <2>2
    <3>2. /\ j - 3 \in 1..Len(t) /\ u[j] = t[j - 3]
          /\ k - 3 \in 1..Len(t) /\ u[k] = t[k - 3]
      BY <1>8, <2>2, <3>1
    <3> QED BY <3>1, <3>2 DEF Ordered
  <2> QED BY <1>4, <2>1, <2>2
<1>12. ASSUME NEW k \in 1..Len(u), u[k].rounds # 20
       PROVE  k > 1 /\ u[k - 1].required_cpucap = u[k].required_cpucap
  <2>1. CASE k = 1
    BY <1>6, <1>12, <2>1 DEF Trio
  <2>2. CASE k \in {2, 3}
    <3>1. k \in 1..3 /\ k - 1 \in 1..3 /\ k > 1
      BY <2>2
    <3> QED BY <1>7, <3>1
  <2>3. CASE k > 3
    <3>1. k - 3 \in 1..Len(t) /\ u[k] = t[k - 3]
      BY <1>8, <2>3
    <3>2. k - 3 > 1 /\ t[k - 3 - 1].required_cpucap = t[k - 3].required_cpucap
      BY <1>12, <3>1 DEF Ordered
    <3>3. k - 1 > 3 /\ k - 1 \in 1..Len(u) /\ k - 1 - 3 = k - 3 - 1
      BY <1>4, <3>2
    <3>4. u[k - 1] = t[k - 1 - 3]
      BY <1>8, <3>3
    <3> QED BY <1>4, <2>3, <3>1, <3>2, <3>3, <3>4
  <2> QED BY <1>4, <2>1, <2>2, <2>3
<1>13. Ordered(u)
  BY <1>4, <1>10, <1>11, <1>12 DEF Ordered
<1> QED BY <1>1, <1>3, <1>9, <1>13

LEMMA MergedTrio == Trio(Merged(20), Merged(12), Merged(8), {})
BY DEF Trio, Merged

LEMMA KrovetzTrio ==
  ASSUME NEW m, NEW n \in {1, 2}
  PROVE  Trio(Krovetz(m, n, 20), Krovetz(m, n, 12), Krovetz(m, n, 8),
              IF n = 2 THEN {"SSSE3", "SIMD"} ELSE {"SIMD"})
BY DEF Trio, Krovetz

(* The entries of the table of build m.                                    *)
Entries(m) ==
  {Merged(r) : r \in {20, 12, 8}} \cup {Krovetz(m, n, r) : n \in {1, 2}, r \in {20, 12, 8}}

LEMMA TableOrdered ==
  ASSUME NEW m
  PROVE  Ordered(AllPrfs(m)) /\ AllPrfs(m) \in Seq(Entries(m))
<1> DEFINE three == <<Merged(20), Merged(12), Merged(8)>>
           two(n) == <<Krovetz(m, n, 20), Krovetz(m, n, 12), Krovetz(m, n, 8)>>
           simd(n) == IF n \in m.simd THEN two(n) ELSE <<>>
           SIMD == {"SIMD"}
           Both == {"SSSE3", "SIMD"}
           t1 == simd(1) \o three
           t2 == simd(2) \o t1
<1>1. AllPrfs(m) = t2
  BY DEF AllPrfs
<1>2. /\ Merged(20) \in Entries(m) /\ Merged(12) \in Entries(m) /\ Merged(8) \in Entries(m)
      /\ \A n \in {1, 2} : /\ Krovetz(m, n, 20) \in Entries(m)
                            /\ Krovetz(m, n, 12) \in Entries(m)
                            /\ Krovetz(m, n, 8) \in Entries(m)
  BY DEF Entries
<1>3. Ordered(three) /\ three \in Seq(Entries(m)) /\ \A k \in 1..Len(three) : three[k].required_cpucap = {}
  <2>1. Ordered(three)
    BY OrderedTrio, MergedTrio
  <2>2. three \in Seq(Entries(m))
    BY <1>2
  <2>3. \A k \in 1..Len(three) : three[k].required_cpucap = {}
    BY MergedTrio DEF Trio
  <2> QED BY <2>1, <2>2, <2>3
<1>4. Ordered(t1) /\ t1 \in Seq(Entries(m)) /\ \A k \in 1..Len(t1) : t1[k].required_cpucap \subseteq SIMD
  <2>1. CASE 1 \in m.simd
    <3>1. Trio(Krovetz(m, 1, 20), Krovetz(m, 1, 12), Krovetz(m, 1, 8), SIMD)
      BY KrovetzTrio
    <3>2. t1 = two(1) \o three
      BY <2>1
    <3> HIDE DEF SIMD, three
    <3>3. \A k \in 1..Len(three) : three[k].required_cpucap \subseteq SIMD
      BY <1>3
    <3> QED BY <1>2, <1>3, <3>1, <3>2, <3>3, OrderedConcat
  <2>2. CASE 1 \notin m.simd
    <3>1. t1 = three
      BY <2>2
    <3> QED BY <1>3, <3>1
  <2> QED BY <2>1, <2>2
<1>5. Ordered(t2) /\ t2 \in Seq(Entries(m))
  <2> HIDE DEF t1
  <2>1. CASE 2 \in m.simd
    <3>1. Trio(Krovetz(m, 2, 20), Krovetz(m, 2, 12), Krovetz(m, 2, 8), Both)
      BY KrovetzTrio
    <3>2. t2 = two(2) \o t1
      BY <2>1
    <3>3. \A k \in 1..Len(t1) : t1[k].required_cpucap \subseteq Both
      BY <1>4
    <3> HIDE DEF Both
    <3> QED BY <1>2, <1>4, <3>1, <3>2, <3>3, OrderedConcat
  <2>2. CASE 2 \notin m.simd
    <3>1. t2 = t1
      BY <1>4, <2>2
    <3> QED BY <1>4, <3>1
  <2> QED BY <2>1, <2>2
<1> QED BY <1>1, <1>5

LEMMA MinOf ==
  ASSUME NEW S, S \subseteq Nat, S # {}
  PROVE  Min(S) \in S /\ \A y \in S : Min(S) <= y
BY LeastNatural DEF Min

(* A name stands for one number of rounds.                                 *)
LEMMA NameRounds ==
  ASSUME NEW p, NEW q, NEW name \in NamesOf(p), name \in NamesOf(q)
  PROVE  p.rounds = q.rounds
<1>1. name[1] = p.rounds
  BY DEF NamesOf
<1>2. name[1] = q.rounds
  BY DEF NamesOf
<1> QED BY <1>1, <1>2

(* So no name, and no PRF set by hand, stands for all that is built in.    *)
LEMMA NoNameForAll ==
  ASSUME machine \in Machines
  PROVE  /\ \A name : name # NULL => Answers(name) # BuiltIn
         /\ \A prf : {prf} # BuiltIn
<1>1. PICK t : t = AllPrfs(machine)
  OBVIOUS
<1>2. Ordered(t)
  BY <1>1, TableOrdered
<1>3. Len(t) \in Nat /\ DOMAIN t = 1..Len(t) /\ 1 \in 1..Len(t) /\ Len(t) \in 1..Len(t)
  BY <1>2 DEF Ordered
<1>4. t[1].rounds = 20 /\ t[Len(t)].rounds = 8
  BY <1>2, <1>3 DEF Ordered
<1>5. t[1] \in BuiltIn /\ t[Len(t)] \in BuiltIn
  BY <1>1, <1>3 DEF BuiltIn, Range
<1>6. ASSUME NEW name, name # NULL, Answers(name) = BuiltIn PROVE FALSE
  <2>1. name \in NamesOf(t[1]) /\ name \in NamesOf(t[Len(t)])
    BY <1>5, <1>6 DEF Answers
  <2>2. t[1].rounds = t[Len(t)].rounds
    BY <2>1, NameRounds
  <2> QED BY <1>4, <2>2
<1>7. ASSUME NEW prf, {prf} = BuiltIn PROVE FALSE
  <2>1. t[1] = t[Len(t)]
    BY <1>5, <1>7
  <2> QED BY <1>4, <2>1
<1> QED BY <1>6, <1>7

-----------------------------------------------------------------------------
(* The choice.                                                             *)

Fits(name) == {i \in DOMAIN AllPrfs(machine) :
                 /\ Usable(AllPrfs(machine)[i])
                 /\ name = NULL \/ name \in NamesOf(AllPrfs(machine)[i])}

LEMMA GetImplIs ==
  ASSUME NEW name
  PROVE  GetImpl(name) = IF Fits(name) = {} THEN NULL ELSE AllPrfs(machine)[Min(Fits(name))]
BY DEF GetImpl, Fits

(* What ottery_get_impl returns is in the table, usable and of the name.   *)
LEMMA GetImplSound ==
  ASSUME machine \in Machines, NEW name, GetImpl(name) # NULL
  PROVE  LET prf == GetImpl(name)
         IN  /\ prf \in Range(AllPrfs(machine)) /\ prf \in BuiltIn
             /\ Usable(prf) /\ prf \in Answers(name)
<1>1. PICK t : t = AllPrfs(machine) /\ Ordered(t)
  BY TableOrdered
<1>2. PICK F : F = Fits(name)
  OBVIOUS
<1>3. F # {} /\ GetImpl(name) = t[Min(F)]
  BY <1>1, <1>2, GetImplIs
<1>4. F \subseteq DOMAIN t /\ DOMAIN t \subseteq Nat
  BY <1>1, <1>2 DEF Fits, Ordered
<1>5. Min(F) \in F
  BY <1>3, <1>4, MinOf
<1>6. /\ Min(F) \in DOMAIN t /\ Usable(t[Min(F)])
      /\ name = NULL \/ name \in NamesOf(t[Min(F)])
  BY <1>1, <1>2, <1>5 DEF Fits
<1>7. t[Min(F)] \in Range(t)
  BY <1>6 DEF Range
<1>8. t[Min(F)] \in BuiltIn
  BY <1>1, <1>7 DEF BuiltIn
<1> QED BY <1>1, <1>3, <1>6, <1>7, <1>8 DEF Answers

(* Without a name it returns the best there is.                            *)
LEMMA GetImplBest ==
  ASSUME machine \in Machines
  PROVE  GetImpl(NULL) # NULL /\ Best(GetImpl(NULL))
<1>1. PICK t : t = AllPrfs(machine) /\ Ordered(t)
  BY TableOrdered
<1>2. PICK F : F = Fits(NULL)
  OBVIOUS
<1>3. F = {k \in 1..Len(t) : Usable(t[k])} /\ F \subseteq Nat
  BY <1>1, <1>2 DEF Fits, Ordered
<1>4. Len(t) \in F
  BY <1>1, <1>3 DEF Ordered, Usable
<1>5. PICK x \in F : x = Min(F) /\ \A y \in F : x <= y
  BY <1>3, <1>4, MinOf
<1>6. GetImpl(NULL) = t[x]
  BY <1>1, <1>2, <1>4, <1>5, GetImplIs
<1>7. x \in 1..Len(t) /\ Usable(t[x])
  BY <1>3, <1>5
<1>8. t[x] \in Prfs
  BY <1>1, <1>7 DEF Prfs, BuiltIn, Range, Ordered
<1>9. t[x].rounds = 20
  <2>1. ASSUME t[x].rounds # 20 PROVE FALSE
    <3>1. x > 1 /\ t[x - 1].required_cpucap = t[x].required_cpucap
      BY <1>1, <1>7, <2>1 DEF Ordered
    <3>2. x - 1 \in 1..Len(t) /\ Usable(t[x - 1])
      BY <1>1, <1>7, <3>1 DEF Ordered, Usable
    <3>3. x <= x - 1
      BY <1>3, <1>5, <3>2
    <3> QED BY <1>7, <3>3
  <2> QED BY <2>1
<1>10. ASSUME NEW q \in Range(t), Usable(q)
       PROVE  q.required_cpucap \subseteq t[x].required_cpucap
  <2>1. PICK k \in 1..Len(t) : q = t[k]
    BY <1>1 DEF Range, Ordered
  <2>2. x <= k
    BY <1>3, <1>5, <1>10, <2>1
  <2> QED BY <1>1, <1>7, <2>1, <2>2 DEF Ordered
<1> QED BY <1>1, <1>6, <1>8, <1>9, <1>10, ConfigParameters DEF Best

-----------------------------------------------------------------------------
(* A PRF that was sound to choose stays so: capabilities are only ever     *)
(* taken away.                                                             *)
LEMMA SoundKept ==
  ASSUME NEW prf, NEW answers, Sound(prf, answers), machine' = machine, disabled \subseteq disabled'
  PROVE  Sound(prf, answers)'
<1>1. \A q : Usable(q)' => Usable(q)
  BY DEF Usable, Capabilities
<1>2. Best(prf) => Best(prf)'
  BY <1>1 DEF Best
<1> QED BY <1>2 DEF Sound

LEMMA GetImplChosen ==
  ASSUME machine \in Machines, NEW name, GetImpl(name) # NULL
  PROVE  Sound(GetImpl(name), Answers(name)) /\ GetImpl(name) \in BuiltIn
<1>1. PICK prf : prf = GetImpl(name)
  OBVIOUS
<1>2. /\ prf \in Range(AllPrfs(machine)) /\ prf \in BuiltIn
      /\ Usable(prf) /\ prf \in Answers(name)
  BY <1>1, GetImplSound
<1>3. machine.x86 => prf.required_cpucap \subseteq machine.cpu
  BY <1>2 DEF Usable, Capabilities
<1>4. Answers(name) = BuiltIn => Best(prf)
  <2>1. Answers(name) = BuiltIn => name = NULL
    BY NoNameForAll
  <2> QED BY <1>1, <2>1, GetImplBest
<1>5. Sound(prf, Answers(name))
  BY <1>2, <1>3, <1>4 DEF Sound
<1> QED BY <1>1, <1>2, <1>5

(* What ottery_st_initialize chooses is sound for what was asked.          *)
LEMMA ChosenSound ==
  ASSUME IInv, NEW a \in InitArgs
  PROVE  /\ Sound(ChosenPrf(a.config), a.asked) /\ ChosenPrf(a.config) \in Prfs
         /\ a.asked \subseteq Prfs /\ a.config.entropy_config \in EntropyConfigs
<1>1. machine \in Machines
  BY DEF IInv, TypeOK
<1>2. Sound(GetImpl(NULL), BuiltIn) /\ GetImpl(NULL) \in BuiltIn
  <2>1. Answers(NULL) = BuiltIn
    BY DEF Answers
  <2>2. GetImpl(NULL) # NULL
    BY <1>1, GetImplBest
  <2> QED BY <1>1, <2>1, <2>2, GetImplChosen
<1>3. NoEntropyConfig \in EntropyConfigs
  BY DEF NoEntropyConfig, EntropyConfigs
<1>4. CASE a = [config |-> NoConfig, asked |-> BuiltIn]
  <2>1. ChosenPrf(a.config) = GetImpl(NULL) /\ a.asked = BuiltIn /\ a.config.entropy_config = NoEntropyConfig
    BY <1>4 DEF ChosenPrf, NoConfig
  <2> QED BY <1>2, <1>3, <2>1 DEF Prfs
<1>5. CASE a = [config |-> cfg, asked |-> asked.cfg]
  <2>1. a.config = cfg /\ a.asked = asked.cfg
    BY <1>5
  <2>2. asked.cfg \subseteq Prfs /\ cfg.entropy_config \in EntropyConfigs /\ cfg.impl \in Prfs \cup {NULL}
    BY DEF IInv, TypeOK
  <2>3. CASE cfg.impl = NULL
    <3>1. ChosenPrf(a.config) = GetImpl(NULL) /\ asked.cfg = BuiltIn
      BY <2>1, <2>3 DEF ChosenPrf, IInv
    <3> QED BY <1>2, <2>1, <2>2, <3>1 DEF Prfs
  <2>4. CASE cfg.impl # NULL
    <3>1. ChosenPrf(a.config) = cfg.impl /\ Sound(cfg.impl, asked.cfg)
      BY <2>1, <2>4 DEF ChosenPrf, IInv
    <3> QED BY <2>1, <2>2, <2>4, <3>1
  <2> QED BY <2>3, <2>4
<1> QED BY <1>4, <1>5 DEF InitArgs

-----------------------------------------------------------------------------
(* The invariant is kept.                                                  *)

CfgType(c) ==
  /\ c \in [impl : Prfs \cup {NULL}, entropy_config : EntropyConfigs]
  /\ c.entropy_config.urandom_fd_is_set <=> c.entropy_config.urandom_fd >= 0

StType(s) ==
  /\ s \in [magic : BOOLEAN, prf : Prfs \cup {NULL}, entropy_config : EntropyConfigs]
  /\ s.magic => s.prf # NULL

CfgOK(c, answers) == IF c.impl = NULL THEN answers = BuiltIn ELSE Sound(c.impl, answers)
StOK(s, answers)  == s.magic => Sound(s.prf, answers) /\ PrfAccepted(s.prf)

LEMMA InvParts ==
  IInv <=>
    /\ machine \in Machines /\ disabled \subseteq Caps /\ ops \in 0..MaxOps
    /\ asked \in [cfg : SUBSET Prfs, st : SUBSET Prfs]
    /\ CfgType(cfg) /\ CfgOK(cfg, asked.cfg)
    /\ StType(st) /\ StOK(st, asked.st)
BY DEF IInv, TypeOK, CfgType, StType, CfgOK, StOK

LEMMA InvPartsNext ==
  ASSUME machine' \in Machines, disabled' \subseteq Caps, ops' \in 0..MaxOps,
         asked' \in [cfg : SUBSET Prfs, st : SUBSET Prfs],
         CfgType(cfg'), CfgOK(cfg, asked.cfg)', StType(st'), StOK(st, asked.st)'
  PROVE  IInv'
BY DEF IInv, TypeOK, CfgType, StType, CfgOK, StOK

LEMMA Entered ==
  ASSUME IInv, Enter
  PROVE  machine' \in Machines /\ machine' = machine /\ ops' \in 0..MaxOps
BY ConfigParameters DEF IInv, TypeOK, Enter

LEMMA CfgKept ==
  ASSUME IInv, machine' = machine, disabled \subseteq disabled',
         cfg'.impl = cfg.impl, asked'.cfg = asked.cfg
  PROVE  CfgOK(cfg, asked.cfg)'
<1>1. PICK p, A : p = cfg.impl /\ A = asked.cfg
  OBVIOUS
<1>2. p # NULL => Sound(p, A)
  BY <1>1 DEF IInv
<1>3. p # NULL => Sound(p, A)'
  BY <1>2, SoundKept
<1>4. p = NULL => A = BuiltIn
  BY <1>1 DEF IInv
<1> QED BY <1>1, <1>3, <1>4 DEF CfgOK

LEMMA StKept ==
  ASSUME IInv, machine' = machine, disabled \subseteq disabled', st' = st, asked'.st = asked.st
  PROVE  StOK(st, asked.st)'
<1>1. PICK p, A : p = st.prf /\ A = asked.st
  OBVIOUS
<1>2. st.magic => Sound(p, A) /\ PrfAccepted(p)
  BY <1>1 DEF IInv
<1>3. st.magic => Sound(p, A)'
  BY <1>2, SoundKept
<1> QED BY <1>1, <1>2, <1>3 DEF StOK, PrfAccepted

LEMMA NoConfigType == CfgType(NoConfig) /\ StType(Blank) /\ NoEntropyConfig \in EntropyConfigs
<1>1. NoEntropyConfig \in EntropyConfigs
  BY DEF NoEntropyConfig, EntropyConfigs
<1>2. ~NoEntropyConfig.urandom_fd_is_set /\ NoEntropyConfig.urandom_fd = -1
  BY DEF NoEntropyConfig
<1>3. ~NoEntropyConfig.urandom_fd_is_set <=> ~(NoEntropyConfig.urandom_fd >= 0)
  BY <1>2
<1>4. CfgType(NoConfig)
  BY <1>1, <1>3 DEF CfgType, NoConfig
<1>5. StType(Blank)
  BY <1>1 DEF StType, Blank
<1> QED BY <1>1, <1>4, <1>5

(* A setter of the entropy configuration that keeps its type.              *)
LEMMA SetEntropyKeeps ==
  ASSUME IInv, NEW c \in EntropyConfigs, c.urandom_fd_is_set <=> c.urandom_fd >= 0, SetEntropy(c)
  PROVE  IInv'
<1>1. machine' \in Machines /\ machine' = machine /\ ops' \in 0..MaxOps
  BY Entered DEF SetEntropy
<1>2. UNCHANGED <<disabled, st, asked>> /\ cfg' = [cfg EXCEPT !.entropy_config = c]
  BY DEF SetEntropy
<1>3. cfg \in [impl : Prfs \cup {NULL}, entropy_config : EntropyConfigs]
  BY InvParts DEF CfgType
<1>4. /\ cfg' \in [impl : Prfs \cup {NULL}, entropy_config : EntropyConfigs]
      /\ cfg'.impl = cfg.impl /\ cfg'.entropy_config = c
  BY <1>2, <1>3
<1>5. CfgType(cfg')
  BY <1>4 DEF CfgType
<1>6. CfgOK(cfg, asked.cfg)' /\ StOK(st, asked.st)'
  BY <1>1, <1>2, <1>4, CfgKept, StKept
<1> QED BY <1>1, <1>2, <1>5, <1>6, InvParts, InvPartsNext

(* Each setter does.                                                       *)
LEMMA EntropySetters ==
  ASSUME IInv, \/ SetUrandomDevice \/ SetUrandomFd \/ SetEgdSocket
               \/ DisableSources \/ MarkSourcesWeak
  PROVE  IInv'
<1>1. PICK e \in EntropyConfigs :
        e = cfg.entropy_config /\ (e.urandom_fd_is_set <=> e.urandom_fd >= 0)
  BY InvParts DEF CfgType
<1>2. CASE SetUrandomDevice
  <2>1. PICK c : c = [e EXCEPT !.urandom_fname = "device"]
    OBVIOUS
  <2>2. SetEntropy(c)
    BY <1>1, <1>2, <2>1 DEF SetUrandomDevice
  <2>3. c \in EntropyConfigs
    BY <2>1 DEF EntropyConfigs
  <2>4. c.urandom_fd = e.urandom_fd /\ c.urandom_fd_is_set = e.urandom_fd_is_set
    BY <2>1 DEF EntropyConfigs
  <2>5. c.urandom_fd_is_set <=> c.urandom_fd >= 0
    BY <1>1, <2>4
  <2> QED BY <2>2, <2>3, <2>5, SetEntropyKeeps
<1>3. CASE SetUrandomFd
  <2>1. PICK fd \in Fds :
          SetEntropy([cfg.entropy_config EXCEPT !.urandom_fd = fd, !.urandom_fd_is_set = (fd >= 0)])
    BY <1>3 DEF SetUrandomFd
  <2>2. PICK b \in BOOLEAN : b <=> fd >= 0
    OBVIOUS
  <2>3. PICK c : c = [e EXCEPT !.urandom_fd = fd, !.urandom_fd_is_set = b]
    OBVIOUS
  <2>4. SetEntropy(c)
    <3>1. b = (fd >= 0)
      BY <2>2
    <3> QED BY <1>1, <2>1, <2>3, <3>1
  <2>5. c \in EntropyConfigs
    BY <2>2, <2>3 DEF EntropyConfigs
  <2>6. c.urandom_fd = fd /\ c.urandom_fd_is_set = b
    BY <2>3 DEF EntropyConfigs
  <2>7. c.urandom_fd_is_set <=> c.urandom_fd >= 0
    BY <2>2, <2>6
  <2> QED BY <2>4, <2>5, <2>7, SetEntropyKeeps
<1>4. CASE SetEgdSocket
  <2>1. PICK c : c = [e EXCEPT !.egd_sockaddr = "address"]
    OBVIOUS
  <2>2. SetEntropy(c)
    BY <1>1, <1>4, <2>1 DEF SetEgdSocket
  <2>3. c \in EntropyConfigs
    BY <2>1 DEF EntropyConfigs
  <2>4. c.urandom_fd = e.urandom_fd /\ c.urandom_fd_is_set = e.urandom_fd_is_set
    BY <2>1 DEF EntropyConfigs
  <2>5. c.urandom_fd_is_set <=> c.urandom_fd >= 0
    BY <1>1, <2>4
  <2> QED BY <2>2, <2>3, <2>5, SetEntropyKeeps
<1>5. CASE DisableSources
  <2>1. PICK mask \in Masks : SetEntropy([cfg.entropy_config EXCEPT !.disabled_sources = mask \cap AllSources])
    BY <1>5 DEF DisableSources
  <2>2. PICK c : c = [e EXCEPT !.disabled_sources = mask \cap AllSources]
    OBVIOUS
  <2>3. SetEntropy(c)
    BY <1>1, <2>1, <2>2
  <2>4. c \in EntropyConfigs
    BY <2>2 DEF EntropyConfigs
  <2>5. c.urandom_fd = e.urandom_fd /\ c.urandom_fd_is_set = e.urandom_fd_is_set
    BY <2>2 DEF EntropyConfigs
  <2>6. c.urandom_fd_is_set <=> c.urandom_fd >= 0
    BY <1>1, <2>5
  <2> QED BY <2>3, <2>4, <2>6, SetEntropyKeeps
<1>6. CASE MarkSourcesWeak
  <2>1. PICK mask \in Masks : SetEntropy([cfg.entropy_config EXCEPT !.weak_sources = mask \cap AllSources])
    BY <1>6 DEF MarkSourcesWeak
  <2>2. PICK c : c = [e EXCEPT !.weak_sources = mask \cap AllSources]
    OBVIOUS
  <2>3. SetEntropy(c)
    BY <1>1, <2>1, <2>2
  <2>4. c \in EntropyConfigs
    BY <2>2 DEF EntropyConfigs
  <2>5. c.urandom_fd = e.urandom_fd /\ c.urandom_fd_is_set = e.urandom_fd_is_set
    BY <2>2 DEF EntropyConfigs
  <2>6. c.urandom_fd_is_set <=> c.urandom_fd >= 0
    BY <1>1, <2>5
  <2> QED BY <2>3, <2>4, <2>6, SetEntropyKeeps
<1> QED BY <1>2, <1>3, <1>4, <1>5, <1>6

(* So does a call that sets the PRF of the configuration.                  *)
LEMMA SetImplKeeps ==
  ASSUME IInv, Enter, UNCHANGED <<disabled, st>>, NEW p, NEW A, A \subseteq Prfs,
         CfgType(cfg'), cfg'.impl = p,
         IF p = NULL THEN A = BuiltIn ELSE Sound(p, A),
         asked' = [asked EXCEPT !.cfg = A]
  PROVE  IInv'
<1>1. machine' \in Machines /\ machine' = machine /\ ops' \in 0..MaxOps
  BY Entered
<1>2. asked \in [cfg : SUBSET Prfs, st : SUBSET Prfs]
  BY InvParts
<1>3. asked' \in [cfg : SUBSET Prfs, st : SUBSET Prfs] /\ asked'.cfg = A /\ asked'.st = asked.st
  BY <1>2
<1>4. StOK(st, asked.st)'
  BY <1>1, <1>3, StKept
<1>5. p # NULL => Sound(p, A)'
  BY <1>1, SoundKept
<1>6. CfgOK(cfg, asked.cfg)'
  BY <1>3, <1>5 DEF CfgOK
<1> QED BY <1>1, <1>3, <1>4, <1>6, InvParts, InvPartsNext

LEMMA ConfigCalls ==
  ASSUME IInv, ConfigInit \/ ForceImplementation \/ SetManualPrf
  PROVE  IInv'
<1>1. /\ cfg \in [impl : Prfs \cup {NULL}, entropy_config : EntropyConfigs]
      /\ cfg.entropy_config.urandom_fd_is_set <=> cfg.entropy_config.urandom_fd >= 0
      /\ machine \in Machines
  BY InvParts DEF CfgType
<1>2. ASSUME NEW p \in Prfs, cfg' = [cfg EXCEPT !.impl = p] PROVE CfgType(cfg') /\ cfg'.impl = p
  <2>1. /\ cfg' \in [impl : Prfs \cup {NULL}, entropy_config : EntropyConfigs]
        /\ cfg'.impl = p /\ cfg'.entropy_config = cfg.entropy_config
    BY <1>1, <1>2
  <2> QED BY <1>1, <2>1 DEF CfgType
<1>3. CASE ConfigInit
  <2>1. CfgType(cfg') /\ cfg'.impl = NULL
    BY <1>3, NoConfigType DEF ConfigInit, NoConfig
  <2> QED BY <1>3, <2>1, SetImplKeeps DEF ConfigInit, Prfs
<1>4. CASE ForceImplementation
  <2>1. Enter /\ UNCHANGED <<disabled, st>>
    BY <1>4 DEF ForceImplementation
  <2>2. PICK name \in Names \cup {NULL} :
          IF GetImpl(name) # NULL
          THEN /\ cfg' = [cfg EXCEPT !.impl = GetImpl(name)]
               /\ asked' = [asked EXCEPT !.cfg = Answers(name)]
          ELSE UNCHANGED <<cfg, asked>>
    BY <1>4 DEF ForceImplementation
  <2>3. CASE GetImpl(name) # NULL
    <3>1. PICK p, A : p = GetImpl(name) /\ A = Answers(name)
      OBVIOUS
    <3>2. Sound(p, A) /\ p \in Prfs /\ p # NULL
      BY <1>1, <2>3, <3>1, GetImplChosen DEF Prfs
    <3>3. A \subseteq Prfs
      BY <3>1 DEF Answers, Prfs
    <3>4. cfg' = [cfg EXCEPT !.impl = p] /\ asked' = [asked EXCEPT !.cfg = A]
      BY <2>2, <2>3, <3>1
    <3>5. CfgType(cfg') /\ cfg'.impl = p
      BY <1>2, <3>2, <3>4
    <3> QED BY <2>1, <3>2, <3>3, <3>4, <3>5, SetImplKeeps
  <2>4. CASE GetImpl(name) = NULL
    <3>1. UNCHANGED <<cfg, asked, disabled, st>>
      BY <2>1, <2>2, <2>4
    <3>2. machine' \in Machines /\ machine' = machine /\ ops' \in 0..MaxOps
      BY <2>1, Entered
    <3>3. CfgOK(cfg, asked.cfg)' /\ StOK(st, asked.st)'
      BY <3>1, <3>2, CfgKept, StKept
    <3> QED BY <3>1, <3>2, <3>3, InvParts, InvPartsNext
  <2> QED BY <2>3, <2>4
<1>5. CASE SetManualPrf
  <2>1. Enter /\ UNCHANGED <<disabled, st>>
    BY <1>5 DEF SetManualPrf
  <2>2. PICK p \in ManualPrfs : /\ cfg' = [cfg EXCEPT !.impl = p]
                                /\ asked' = [asked EXCEPT !.cfg = {p}]
    BY <1>5 DEF SetManualPrf
  <2>3. p \in Prfs /\ p # NULL /\ p \notin BuiltIn /\ {p} # BuiltIn
    BY <1>1, ConfigParameters, NoNameForAll DEF Prfs
  <2>4. Sound(p, {p})
    BY <2>3 DEF Sound
  <2>5. CfgType(cfg') /\ cfg'.impl = p
    BY <1>2, <2>2, <2>3
  <2> QED BY <2>1, <2>2, <2>3, <2>4, <2>5, SetImplKeeps
<1> QED BY <1>3, <1>4, <1>5

(* So does an initialisation, however far it gets.                         *)
LEMMA CopiedKeeps ==
  ASSUME IInv, NEW a \in InitArgs, NEW magic \in BOOLEAN, Copied(a, magic)
  PROVE  IInv'
<1>1. PICK p, A, e : p = ChosenPrf(a.config) /\ A = a.asked /\ e = a.config.entropy_config
  OBVIOUS
<1>2. Sound(p, A) /\ p \in Prfs /\ A \subseteq Prfs /\ e \in EntropyConfigs
  BY <1>1, ChosenSound
<1>3. /\ Enter /\ PrfAccepted(p) /\ UNCHANGED <<disabled, cfg>>
      /\ st' = [magic |-> magic, prf |-> p, entropy_config |-> e]
      /\ asked' = [asked EXCEPT !.st = A]
  BY <1>1 DEF Copied
<1>4. machine' \in Machines /\ machine' = machine /\ ops' \in 0..MaxOps
  BY <1>3, Entered
<1>5. asked \in [cfg : SUBSET Prfs, st : SUBSET Prfs]
  BY InvParts
<1>6. asked' \in [cfg : SUBSET Prfs, st : SUBSET Prfs] /\ asked'.st = A /\ asked'.cfg = asked.cfg
  BY <1>2, <1>3, <1>5
<1>7. CfgOK(cfg, asked.cfg)'
  BY <1>3, <1>4, <1>6, CfgKept
<1>8. p # NULL
  BY <1>2, ConfigParameters
<1>9. StType(st')
  BY <1>2, <1>3, <1>8 DEF StType
<1>10. Sound(p, A)'
  BY <1>2, <1>3, <1>4, SoundKept
<1>11. StOK(st, asked.st)'
  BY <1>3, <1>6, <1>10 DEF StOK, PrfAccepted
<1> QED BY <1>3, <1>4, <1>6, <1>7, <1>9, <1>11, InvParts, InvPartsNext

LEMMA ZeroedKeeps ==
  ASSUME IInv, Zeroed
  PROVE  IInv'
<1>1. Enter /\ st' = Blank /\ UNCHANGED <<disabled, cfg, asked>>
  BY DEF Zeroed
<1>2. machine' \in Machines /\ machine' = machine /\ ops' \in 0..MaxOps
  BY <1>1, Entered
<1>3. CfgOK(cfg, asked.cfg)'
  BY <1>1, <1>2, CfgKept
<1>4. StOK(st, asked.st)'
  BY <1>1 DEF StOK, Blank
<1> QED BY <1>1, <1>2, <1>3, <1>4, NoConfigType, InvParts, InvPartsNext

LEMMA DisableKeeps ==
  ASSUME IInv, DisableCapabilities
  PROVE  IInv'
<1>1. PICK mask \in CapMasks : disabled' = disabled \cup mask
  BY DEF DisableCapabilities
<1>2. Enter /\ UNCHANGED <<cfg, st, asked>>
  BY DEF DisableCapabilities
<1>3. machine' \in Machines /\ machine' = machine /\ ops' \in 0..MaxOps
  BY <1>2, Entered
<1>4. disabled \subseteq disabled' /\ disabled' \subseteq Caps
  BY <1>1, InvParts, ConfigParameters
<1>5. CfgOK(cfg, asked.cfg)' /\ StOK(st, asked.st)'
  BY <1>2, <1>3, <1>4, CfgKept, StKept
<1> QED BY <1>2, <1>3, <1>4, <1>5, InvParts, InvPartsNext

LEMMA InitInv == Init => IInv
<1> SUFFICES ASSUME Init PROVE IInv
  OBVIOUS
<1>1. machine \in Machines /\ disabled \subseteq Caps /\ ops \in 0..MaxOps
  BY ConfigParameters DEF Init
<1>2. asked \in [cfg : SUBSET Prfs, st : SUBSET Prfs]
  BY DEF Init, Prfs
<1>3. CfgType(cfg) /\ StType(st)
  BY NoConfigType DEF Init
<1>4. CfgOK(cfg, asked.cfg) /\ StOK(st, asked.st)
  BY DEF Init, CfgOK, StOK, NoConfig, Blank
<1> QED BY <1>1, <1>2, <1>3, <1>4, InvParts

LEMMA NextInv == IInv /\ [Next]_vars => IInv'
<1> SUFFICES ASSUME IInv, [Next]_vars PROVE IInv'
  OBVIOUS
<1>1. CASE DisableCapabilities
  BY <1>1, DisableKeeps
<1>2. CASE ConfigInit \/ ForceImplementation \/ SetManualPrf
  BY <1>2, ConfigCalls
<1>3. CASE \/ SetUrandomDevice \/ SetUrandomFd \/ SetEgdSocket
           \/ DisableSources \/ MarkSourcesWeak
  BY <1>3, EntropySetters
<1>4. CASE StInit
  <2>1. PICK a \in InitArgs : Copied(a, TRUE)
    BY <1>4 DEF StInit
  <2>2. TRUE \in BOOLEAN
    OBVIOUS
  <2> QED BY <2>1, <2>2, CopiedKeeps
<1>5. CASE StInitNoEntropy
  <2>1. PICK a \in InitArgs : Copied(a, FALSE)
    BY <1>5 DEF StInitNoEntropy
  <2>2. FALSE \in BOOLEAN
    OBVIOUS
  <2> QED BY <2>1, <2>2, CopiedKeeps
<1>6. CASE StInitBadPrf \/ StWipe
  BY <1>6, ZeroedKeeps DEF StInitBadPrf, StWipe
<1>7. CASE UNCHANGED vars
  <2>1. UNCHANGED <<machine, disabled, cfg, st, asked, ops>>
    BY <1>7 DEF vars
  <2>2. CfgOK(cfg, asked.cfg)' /\ StOK(st, asked.st)'
    BY <2>1, CfgKept, StKept
  <2> QED BY <2>1, <2>2, InvParts, InvPartsNext
<1> QED BY <1>1, <1>2, <1>3, <1>4, <1>5, <1>6, <1>7 DEF Next

-----------------------------------------------------------------------------
(* The theorems.                                                           *)

(* IInv holds however configuring, disabling and initialising follow one   *)
(* another.                                                                *)
THEOREM ConfigInvariance == Spec => []IInv
<1> QED BY InitInv, NextInv, PTL DEF Spec

(* The masks hold nothing but sources, a descriptor is set iff it is one,  *)
(* and a state that is initialised has a PRF.                              *)
THEOREM ConfigTypeCorrect == Spec => []TypeOK
<1>1. IInv => TypeOK
  BY DEF IInv
<1> QED BY <1>1, ConfigInvariance, PTL

(* An x86 program runs no instruction that its CPU lacks.                  *)
THEOREM OnlyWhatRunsHere == Spec => []RunsHere
<1>1. IInv => RunsHere
  BY DEF IInv, RunsHere, BuiltInUsed, Sound
<1> QED BY <1>1, ConfigInvariance, PTL

(* A state runs what its program last asked for with success.              *)
THEOREM WhatWasAskedFor == Spec => []AskedForIsUsed
<1>1. IInv => AskedForIsUsed
  BY DEF IInv, AskedForIsUsed, Sound
<1> QED BY <1>1, ConfigInvariance, PTL

(* Without a request a state has 20 rounds in the fastest variant.         *)
THEOREM TheDefaultIsBest == Spec => []DefaultIsBest
<1>1. IInv => DefaultIsBest
  BY DEF IInv, DefaultIsBest, BuiltInUsed, Sound
<1> QED BY <1>1, ConfigInvariance, PTL

(* What a state runs keeps to the documented sizes, whoever chose it; and  *)
(* a key of the library's own PRFs fits twice into a block, with room for  *)
(* an integer, in every build.                                             *)
THEOREM OutputFits == Spec => []OutputCodeFits
<1>1. ASSUME NEW m \in Machines, NEW q \in Range(AllPrfs(m))
      PROVE  2 * q.state_bytes <= q.output_len /\ q.state_bytes + 8 < q.output_len
  <2>1. AllPrfs(m) \in Seq(Entries(m))
    BY TableOrdered
  <2>2. q \in Entries(m)
    BY <2>1 DEF Range
  <2>3. m.vbpi \in 2..4 /\ m.gpr \in {0, 1}
    BY ConfigParameters DEF MachineType
  <2>4. CASE \E r \in {20, 12, 8} : q = Merged(r)
    BY <2>4 DEF Merged, OutputLenOf, MERGED_IDX_STEP
  <2>5. CASE \E n \in {1, 2}, r \in {20, 12, 8} : q = Krovetz(m, n, r)
    <3>1. q.state_bytes = 40 /\ q.output_len = OutputLenOf(KROVETZ_IDX_STEP(m.vbpi, m.gpr))
      BY <2>5 DEF Krovetz
    <3>2. OutputLenOf(KROVETZ_IDX_STEP(m.vbpi, m.gpr)) = (m.vbpi + m.gpr) * 4 * 64
      BY DEF OutputLenOf, KROVETZ_IDX_STEP, Bpi, LOOP_ITERATIONS
    <3> QED BY <2>3, <3>1, <3>2
  <2> QED BY <2>2, <2>4, <2>5 DEF Entries
<1>2. \A q \in BuiltIn : 2 * q.state_bytes <= q.output_len /\ q.state_bytes + 8 < q.output_len
  BY <1>1 DEF BuiltIn
<1>3. IInv => OutputCodeFits
  BY <1>2 DEF IInv, PrfAccepted, OutputCodeFits
<1> QED BY <1>3, ConfigInvariance, PTL

(* What any built-in PRF writes is the ChaCha function of the number of    *)
(* rounds it is named for, output_len bytes of it, from the block on that  *)
(* the index says: in every build, on every CPU, at every index.           *)
THEOREM StreamsAgree == Spec => []StreamAsReference
<1>1. ASSUME NEW q \in BuiltIn, NEW idx \in Indices
      PROVE  Generate(q, Key, idx) =
               ReferenceBlocks(q.rounds, Key, idx, q.output_len \div 64)
  <2>1. PICK m \in Machines : q \in Range(AllPrfs(m))
    BY DEF BuiltIn
  <2>2. q \in Entries(m)
    BY <2>1, TableOrdered DEF Range
  <2>3. m.vbpi \in 2..4 /\ m.gpr \in {0, 1} /\ idx \in Nat
    BY ConfigParameters DEF MachineType
  <2>4. CASE \E r \in {20, 12, 8} : q = Merged(r)
    <3>1. PICK r \in {20, 12, 8} : q = Merged(r)
      BY <2>4
    <3>2. q.impl = "NOSIMD" /\ q.rounds = r /\ q.output_len = OutputLenOf(MERGED_IDX_STEP)
      BY <3>1 DEF Merged
    <3>3. q.output_len \div 64 = MERGED_IDX_STEP
      BY <3>2 DEF OutputLenOf, MERGED_IDX_STEP
    <3>4. Generate(q, Key, idx) = MergedGenerate(q.rounds, Key, idx)
      BY <3>2 DEF Generate
    <3>5. MergedGenerate(q.rounds, Key, idx) = ReferenceBlocks(q.rounds, Key, idx, MERGED_IDX_STEP)
      BY <2>3, MergedIsReference
    <3> QED BY <3>3, <3>4, <3>5
  <2>5. CASE \E n \in {1, 2}, r \in {20, 12, 8} : q = Krovetz(m, n, r)
    <3>1. PICK n \in {1, 2}, r \in {20, 12, 8} : q = Krovetz(m, n, r)
      BY <2>5
    <3>2. /\ q.impl = "SIMD" /\ q.rounds = r /\ q.vbpi = m.vbpi /\ q.gpr = m.gpr
          /\ q.output_len = OutputLenOf(KROVETZ_IDX_STEP(m.vbpi, m.gpr))
      BY <3>1 DEF Krovetz
    <3>3. q.output_len \div 64 = KROVETZ_IDX_STEP(m.vbpi, m.gpr)
      <4>1. PICK step \in Nat : step = KROVETZ_IDX_STEP(m.vbpi, m.gpr)
        BY <2>3 DEF KROVETZ_IDX_STEP, Bpi, LOOP_ITERATIONS
      <4>2. q.output_len = step * 64
        BY <3>2, <4>1 DEF OutputLenOf
      <4> QED BY <4>1, <4>2
    <3>4. Generate(q, Key, idx) = KrovetzGenerate(q.rounds, Key, idx, m.vbpi, m.gpr)
      BY <3>2 DEF Generate
    <3>5. q.rounds \in Nat /\ m.vbpi \in Nat \ {0}
      BY <2>3, <3>2
    <3>6. KrovetzGenerate(q.rounds, Key, idx, m.vbpi, m.gpr) =
            ReferenceBlocks(q.rounds, Key, idx, KROVETZ_IDX_STEP(m.vbpi, m.gpr))
      BY <2>3, <3>5, KrovetzIsReference
    <3> QED BY <3>3, <3>4, <3>6
  <2> QED BY <2>2, <2>4, <2>5 DEF Entries
<1>2. ASSUME NEW q \in BuiltIn, NEW idx \in Indices
      PROVE  Written[q][idx] = Expected[q][idx]
  BY <1>1 DEF Written, Expected, ReferenceBlocks
<1>3. StreamAsReference
  BY <1>2 DEF StreamAsReference, BuiltInUsed
<1> QED BY <1>3, PTL

=============================================================================
