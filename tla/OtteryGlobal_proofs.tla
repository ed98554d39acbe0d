------------------------ MODULE OtteryGlobal_proofs ------------------------
(***************************************************************************)
(* Proofs about the global state, for any number of threads, processes and *)
(* calls.  For careful callers the lock protects its critical sections,    *)
(* and the output is seeded and never repeated; whatever the callers do,   *)
(* no two processes hand out the same output.                              *)
(***************************************************************************)
EXTENDS OtteryGlobal, TLAPS

Given == [Procs -> SUBSET [seed : Nat, at : Nat]]

(* The step of thread t to label l, with call c, that leaves m in the      *)
(* memory of its process.                                                  *)
Steps(t, l, c, m) ==
  /\ Running(Proc(t)) /\ l \in Labels /\ c \in Calls \cup {"none"} /\ m \in Memory
  /\ mem' = [mem EXCEPT ![Proc(t)] = m]
  /\ pc' = [pc EXCEPT ![t] = l] /\ op' = [op EXCEPT ![t] = c]
  /\ status' = status
  /\ draws' \in Nat /\ ops' \in 0..MaxOps /\ given' \in Given

PeersIdle(t) == \A u \in Peers(t) : pc[u] = "idle"

(* It takes or gives up the lock as it enters and leaves, and takes it     *)
(* from nobody.                                                            *)
KeepsLock(t, l, m) ==
  /\ l \in Critical <=> m.lock = t
  /\ \/ m.lock = M(t).lock
     \/ m.lock \in {Free, t} /\ (M(t).lock \in {Free, t} \/ PeersIdle(t))

(* It works on what it must have alone only if it has it alone.            *)
KeepsAlone(t, l, m) ==
  /\ l \in Setup \cup {"wipe", "clear"} => PeersIdle(t)
  /\ l = "check" /\ ~m.flag => PeersIdle(t)
  /\ M(t).flag /\ ~m.flag => PeersIdle(t)
  /\ \A u \in Peers(t) : ~Exclusive(u)

-----------------------------------------------------------------------------
(* Threads belong to processes, and only a process's first thread bears    *)
(* the name of a child.                                                    *)
LEMMA ProcType ==
  ASSUME NEW t \in Threads
  PROVE  /\ Proc(t) \in Procs
         /\ \A c \in Children : Proc(t) = c <=> t = c
         /\ \A u \in Threads : u \in Peers(t) <=> u # t /\ Proc(u) = Proc(t)
BY GlobalParameters DEF Threads, Procs, Proc, Peers

(* What a step of t leaves of the other threads and processes.             *)
LEMMA StepsFrame ==
  ASSUME TypeOK, NEW t \in Threads, NEW l, NEW c, NEW m, Steps(t, l, c, m)
  PROVE  /\ mem'[Proc(t)] = m /\ pc'[t] = l
         /\ \A p \in Procs : p # Proc(t) => mem'[p] = mem[p]
         /\ \A u \in Threads : u # t => pc'[u] = pc[u]
         /\ TypeOK'
BY ProcType DEF TypeOK, Steps, Given

(* A step that keeps the lock and keeps alone keeps the invariant.         *)
LEMMA StepsSafe ==
  ASSUME LockInv, NEW t \in Threads, NEW l, NEW c, NEW m, Steps(t, l, c, m),
         KeepsLock(t, l, m), KeepsAlone(t, l, m)
  PROVE  LockInv'
<1>0. TypeOK BY DEF LockInv
<1>1. /\ mem'[Proc(t)] = m /\ pc'[t] = l
      /\ \A p \in Procs : p # Proc(t) => mem'[p] = mem[p]
      /\ \A u \in Threads : u # t => pc'[u] = pc[u]
      /\ TypeOK'
  BY <1>0, StepsFrame
<1>2. status' = status /\ Running(Proc(t)) BY DEF Steps
<1>3. SetupAlone'
  <2> SUFFICES ASSUME NEW u \in Threads, Running(Proc(u)), Exclusive(u)', NEW v \in Peers(u)
               PROVE  pc'[v] = "idle"
    BY <1>2 DEF SetupAlone, Running
  <2>1. v \in Threads /\ v # u /\ Proc(v) = Proc(u) /\ Proc(u) \in Procs BY ProcType DEF Peers
  <2>2. CASE u = t
    <3>1. PeersIdle(t) BY <1>1, <2>2 DEF Exclusive, M, KeepsAlone
    <3> QED BY <3>1, <2>1, <2>2, <1>1 DEF PeersIdle
  <2>3. CASE u # t /\ Proc(u) = Proc(t)
    <3>1. u \in Peers(t) BY <2>3, ProcType
    <3>2. ~Exclusive(u) /\ pc'[u] = pc[u] BY <3>1, <1>1, <2>3 DEF KeepsAlone
    <3>3. M(t).flag /\ ~m.flag /\ pc[u] = "check" BY <3>2, <2>3, <1>1 DEF Exclusive, M
    <3>4. pc[u] = "idle" BY <3>3, <3>1 DEF KeepsAlone, PeersIdle
    <3> QED BY <3>3, <3>4
  <2>4. CASE Proc(u) # Proc(t)
    <3>1. Exclusive(u) /\ v # t BY <2>4, <1>1, <2>1 DEF Exclusive, M
    <3> QED BY <3>1, <1>1, <2>1 DEF LockInv, SetupAlone
  <2> QED BY <2>2, <2>3, <2>4
<1>4. UnbornIdle'
  <2> SUFFICES ASSUME NEW k \in Children, status[k] = "unborn", NEW p \in Procs
               PROVE  pc'[k] = "idle" /\ mem'[p].lock # k
    BY <1>2 DEF UnbornIdle, Procs
  <2>1. pc[k] = "idle" /\ mem[p].lock # k /\ M(t).lock # k
    BY ProcType DEF LockInv, UnbornIdle, M
  <2>2. k # t /\ k \in Threads /\ k # Free
    BY <1>2, GlobalParameters, ProcType DEF Running, Threads
  <2>3. m.lock # k BY <2>1, <2>2 DEF KeepsLock
  <2> QED BY <1>1, <2>1, <2>2, <2>3
<1>5. LockMatchesHolder'
  <2> SUFFICES ASSUME NEW u \in Threads, Running(Proc(u))
               PROVE  pc'[u] \in Critical <=> mem'[Proc(u)].lock = u
    BY <1>2 DEF LockMatchesHolder, Running, M
  <2>1. Proc(u) \in Procs /\ (pc[u] \in Critical <=> M(u).lock = u)
    BY ProcType DEF LockInv, LockMatchesHolder
  <2>2. CASE u = t BY <2>2, <1>1 DEF KeepsLock
  <2>3. CASE u # t /\ Proc(u) = Proc(t)
    <3>1. u \in Peers(t) /\ u # Free BY <2>3, ProcType, GlobalParameters DEF Threads
    <3>2. pc[u] = "idle" => M(t).lock # u BY <2>1, <2>3 DEF Critical, M
    <3>3. pc[u] \in Critical <=> M(t).lock = u BY <2>1, <2>3 DEF M
    <3>4. m.lock = u <=> M(t).lock = u BY <3>1, <3>2, <2>3 DEF KeepsLock, PeersIdle
    <3> QED BY <3>3, <3>4, <1>1, <2>3
  <2>4. CASE Proc(u) # Proc(t) BY <2>4, <1>1, <2>1 DEF M
  <2> QED BY <2>2, <2>3, <2>4
<1> QED BY <1>1, <1>3, <1>4, <1>5 DEF LockInv

(* A step that ends the process keeps the invariant: it is about processes *)
(* that run.                                                               *)
LEMMA GoneSafe ==
  ASSUME LockInv, NEW t \in Threads, Running(Proc(t)), Gone(t), UNCHANGED <<mem, pc, op>>,
         draws' \in Nat, ops' \in 0..MaxOps, given' \in Given
  PROVE  LockInv'
<1>1. Proc(t) \in Procs BY ProcType
<1>2. TypeOK' BY <1>1 DEF LockInv, TypeOK, Gone, Given
<1>3. \A p \in Procs : /\ status'[p] = "running" => status[p] = "running"
                       /\ status'[p] = "unborn" => status[p] = "unborn"
  BY <1>1 DEF Gone, LockInv, TypeOK
<1>4. \A u \in Threads : Proc(u) \in Procs BY ProcType
<1>5. SetupAlone' BY <1>3, <1>4 DEF LockInv, SetupAlone, Exclusive, M, Running
<1>6. UnbornIdle' BY <1>3 DEF LockInv, UnbornIdle, Procs
<1>7. LockMatchesHolder' BY <1>3, <1>4 DEF LockInv, LockMatchesHolder, M, Running
<1> QED BY <1>2, <1>5, <1>6, <1>7 DEF LockInv

-----------------------------------------------------------------------------
(* The steps of a thread inside a call: it may go where it likes among the *)
(* steps that need no solitude, and everywhere if it is alone.             *)
LEMMA InCallSafe ==
  ASSUME LockInv, NEW t \in Threads, Running(Proc(t)), pc[t] # "idle",
         NEW l \in Labels, Goto(t, l),
         NEW m \in Memory, mem' = [mem EXCEPT ![Proc(t)] = m],
         status' = status, draws' \in Nat, ops' \in 0..MaxOps, given' \in Given,
         KeepsLock(t, l, m),
         \/ Exclusive(t)
         \/ l \notin Setup \cup {"wipe", "clear", "check"} /\ m.flag = M(t).flag
  PROVE  LockInv'
<1> DEFINE c == IF l = "idle" THEN "none" ELSE op[t]
<1>1. TypeOK /\ SetupAlone BY DEF LockInv
<1>2. Steps(t, l, c, m) BY <1>1 DEF Steps, Goto, TypeOK
<1>3. \A u \in Peers(t) : ~Exclusive(u)
  <2> SUFFICES ASSUME NEW u \in Peers(t), Exclusive(u) PROVE FALSE
    OBVIOUS
  <2>1. u \in Threads /\ Proc(u) = Proc(t) /\ t \in Peers(u) BY ProcType DEF Peers
  <2> QED BY <2>1, <1>1 DEF SetupAlone
<1>4. Exclusive(t) => PeersIdle(t) BY <1>1 DEF SetupAlone, PeersIdle
<1>5. KeepsAlone(t, l, m) BY <1>3, <1>4 DEF KeepsAlone
<1> QED BY <1>2, <1>5, StepsSafe

(* The same when the step leaves the memory alone.                         *)
LEMMA InCallQuiet ==
  ASSUME LockInv, NEW t \in Threads, Running(Proc(t)), pc[t] # "idle",
         NEW l \in Labels, Goto(t, l), UNCHANGED <<mem, status>>,
         draws' \in Nat, ops' \in 0..MaxOps, given' \in Given,
         l \in Critical <=> pc[t] \in Critical,
         Exclusive(t) \/ l \notin Setup \cup {"wipe", "clear", "check"}
  PROVE  LockInv'
<1>1. Proc(t) \in Procs BY ProcType
<1>2. M(t) \in Memory /\ mem' = [mem EXCEPT ![Proc(t)] = M(t)]
  BY <1>1 DEF LockInv, TypeOK, M
<1>3. KeepsLock(t, l, M(t)) BY DEF KeepsLock, LockInv, LockMatchesHolder
<1> QED BY <1>2, <1>3, InCallSafe

(* What the invariant says of the types.                                   *)
LEMMA Typed ==
  ASSUME LockInv, NEW t \in Threads
  PROVE  /\ draws \in Nat /\ ops \in 0..MaxOps /\ given \in Given
         /\ M(t) \in Memory /\ Proc(t) \in Procs /\ op[t] \in Calls \cup {"none"}
         /\ Running(Proc(t)) => (pc[t] \in Critical <=> M(t).lock = t)
BY ProcType DEF LockInv, TypeOK, Given, M, LockMatchesHolder

(* A call of a careful caller.                                             *)
LEMMA StartSafe ==
  ASSUME LockInv, Careful, NEW t \in Threads, Start(t)
  PROVE  LockInv'
<1>1. PICK c \in Calls :
        /\ Alone(t, c) /\ op' = [op EXCEPT ![t] = c]
        /\ pc' = [pc EXCEPT ![t] = CASE c = "init" -> "memset" [] c = "wipe" -> "wipe"
                                     [] OTHER -> "check"]
  BY DEF Start
<1> DEFINE l == CASE c = "init" -> "memset" [] c = "wipe" -> "wipe" [] OTHER -> "check"
<1>2. /\ Running(Proc(t)) /\ pc[t] = "idle" /\ ops < MaxOps /\ ops' = ops + 1
      /\ UNCHANGED <<mem, status, draws, given>>
  BY DEF Start, At
<1>3. /\ draws \in Nat /\ ops \in 0..MaxOps /\ given \in Given
      /\ M(t) \in Memory /\ Proc(t) \in Procs
      /\ (pc[t] \in Critical <=> M(t).lock = t)
  BY <1>2, Typed
<1>4. l \in {"memset", "wipe", "check"} /\ (l = "check" => c \notin {"init", "wipe"})
      /\ (l # "check" => c \in {"init", "wipe"})
  OBVIOUS
<1>5. ops' \in 0..MaxOps BY <1>2, <1>3, GlobalParameters
<1>6. mem' = [mem EXCEPT ![Proc(t)] = M(t)] BY <1>2, <1>3 DEF LockInv, TypeOK, M
<1>7. Steps(t, l, c, M(t)) BY <1>1, <1>2, <1>3, <1>4, <1>5, <1>6 DEF Steps, Labels, Setup
<1>8. KeepsLock(t, l, M(t)) BY <1>2, <1>3, <1>4 DEF KeepsLock, Critical
<1>9. l \in Setup \cup {"wipe", "clear"} => PeersIdle(t)
  BY <1>1, <1>4 DEF Alone, Setup, PeersIdle
<1>10. ~M(t).flag => PeersIdle(t) BY <1>1 DEF Alone, PeersIdle
<1>11. \A u \in Peers(t) : ~Exclusive(u)
  <2> SUFFICES ASSUME NEW u \in Peers(t), Exclusive(u) PROVE FALSE
    OBVIOUS
  <2>1. M(u) = M(t) BY ProcType DEF Peers, M
  <2>2. pc[u] = "check" /\ ~M(t).flag BY <2>1, <1>1 DEF Exclusive, Alone
  <2> QED BY <2>2, <1>10 DEF PeersIdle
<1>12. KeepsAlone(t, l, M(t)) BY <1>9, <1>10, <1>11 DEF KeepsAlone
<1> QED BY <1>7, <1>8, <1>12, StepsSafe

(* fork(): the child holds no lock, and is in no call.                     *)
LEMMA ForkSafe ==
  ASSUME LockInv, NEW t \in Threads, Fork(t)
  PROVE  LockInv'
<1>1. PICK c \in Children : /\ status[c] = "unborn"
                            /\ status' = [status EXCEPT ![c] = "running"]
                            /\ mem' = [mem EXCEPT ![c] = M(t)]
  BY DEF Fork
<1>2. /\ Running(Proc(t)) /\ ops < MaxOps /\ ops' = ops + 1
      /\ UNCHANGED <<pc, op, draws, given>>
  BY DEF Fork, At
<1>3. /\ ops \in 0..MaxOps /\ M(t) \in Memory /\ Proc(t) \in Procs
  BY Typed
<1>4. c \in Procs /\ c \in Threads /\ c # Proc(t) /\ Proc(c) = c
  BY <1>1, <1>2, GlobalParameters DEF Procs, Threads, Proc, Running
<1>5. TypeOK' BY <1>1, <1>2, <1>3, <1>4, GlobalParameters DEF LockInv, TypeOK
<1>6. \A p \in Procs : /\ p # c => mem'[p] = mem[p] /\ status'[p] = status[p]
                       /\ mem'[c] = M(t) /\ status'[c] = "running"
  BY <1>1, <1>4 DEF LockInv, TypeOK
<1>7. pc[c] = "idle" /\ \A p \in Procs : mem[p].lock # c
  BY <1>1 DEF LockInv, UnbornIdle
<1>8. \A u \in Threads : Proc(u) \in Procs /\ (Proc(u) = c <=> u = c) BY ProcType
<1>9. SetupAlone'
  <2> SUFFICES ASSUME NEW u \in Threads, Running(Proc(u))', Exclusive(u)', NEW v \in Peers(u)
               PROVE  pc'[v] = "idle"
    BY DEF SetupAlone
  <2>1. u # c BY <1>2, <1>7 DEF Exclusive, Setup
  <2>2. Running(Proc(u)) /\ Exclusive(u) BY <2>1, <1>2, <1>6, <1>8 DEF Running, Exclusive, M
  <2> QED BY <2>2, <1>2 DEF LockInv, SetupAlone
<1>10. UnbornIdle'
  <2> SUFFICES ASSUME NEW k \in Children, status'[k] = "unborn", NEW p \in Procs
               PROVE  pc'[k] = "idle" /\ mem'[p].lock # k
    BY DEF UnbornIdle, Procs
  <2>1. k # c /\ status[k] = "unborn" BY <1>6 DEF Procs
  <2>2. pc[k] = "idle" /\ mem[p].lock # k /\ M(t).lock # k
    BY <2>1, <1>3 DEF LockInv, UnbornIdle, M
  <2> QED BY <2>2, <1>2, <1>6
<1>11. LockMatchesHolder'
  <2> SUFFICES ASSUME NEW u \in Threads, Running(Proc(u))'
               PROVE  pc'[u] \in Critical <=> mem'[Proc(u)].lock = u
    BY DEF LockMatchesHolder, M
  <2>1. CASE u = c
    <3>1. M(t).lock # c BY <1>7, <1>3 DEF M
    <3> QED BY <2>1, <3>1, <1>2, <1>4, <1>6, <1>7 DEF Critical
  <2>2. CASE u # c
    BY <2>2, <1>2, <1>6, <1>8 DEF LockInv, LockMatchesHolder, Running, M
  <2> QED BY <2>1, <2>2
<1> QED BY <1>5, <1>9, <1>10, <1>11 DEF LockInv

-----------------------------------------------------------------------------
(* Whoever initialises or wipes is alone.                                  *)
LEMMA Solitude ==
  ASSUME LockInv, NEW t \in Threads, Running(Proc(t)), Exclusive(t)
  PROVE  PeersIdle(t)
BY DEF LockInv, SetupAlone, PeersIdle

(* A reseed touches only the generator.                                    *)
LEMMA ReseededType ==
  ASSUME NEW m \in Memory, draws \in Nat
  PROVE  /\ Reseeded(m) \in Memory
         /\ Reseeded(m).lock = m.lock /\ Reseeded(m).flag = m.flag
<1>1. ASSUME NEW n \in Nat, NEW k \in Nat PROVE [m EXCEPT !.seed = n, !.at = k] \in Memory
  BY DEF Memory
<1>2. draws + 1 \in Nat /\ 1 \in Nat OBVIOUS
<1>3. Reseeded(m) \in Memory BY <1>1, <1>2 DEF Reseeded
<1> QED BY <1>3 DEF Reseeded, Memory

(* The steps of ottery_init and ottery_wipe that write to memory.          *)
LEMMA SetupSafe ==
  ASSUME LockInv, NEW t \in Threads,
         \/ InitMemset(t) \/ InitLock(t) \/ InitPrf(t) \/ InitReseed(t) \/ InitMagic(t)
         \/ InitPid(t) \/ InitFlag(t) \/ WipeFlag(t) \/ WipeState(t)
  PROVE  LockInv'
<1>1. /\ draws \in Nat /\ ops \in 0..MaxOps /\ given \in Given
      /\ M(t) \in Memory /\ Proc(t) \in Procs /\ op[t] \in Calls \cup {"none"}
      /\ Running(Proc(t)) => (pc[t] \in Critical <=> M(t).lock = t)
      /\ t # Free
  BY Typed, GlobalParameters DEF Threads
<1>2. /\ Running(Proc(t)) /\ pc[t] # "idle" /\ pc[t] \notin Critical /\ Exclusive(t)
      /\ status' = status /\ draws' \in Nat /\ ops' \in 0..MaxOps /\ given' \in Given
  BY <1>1 DEF InitMemset, InitLock, InitPrf, InitReseed, InitMagic, InitPid, InitFlag, WipeFlag,
              WipeState, At, Exclusive, Setup, Critical
<1>3. PeersIdle(t) BY <1>2, Solitude
<1>4. PICK l \in Labels \ Critical, m \in Memory :
        Goto(t, l) /\ mem' = [mem EXCEPT ![Proc(t)] = m] /\ m.lock \in {Free, M(t).lock}
  <2>1. CASE InitMemset(t) \/ WipeState(t)
    <3>1. Zeroed(M(t).flag) \in Memory /\ Zeroed(M(t).flag).lock = Free
      BY <1>1 DEF Zeroed, Memory
    <3> QED BY <2>1, <3>1 DEF InitMemset, WipeState, Set, Labels, Setup, Critical
  <2>8. CASE InitLock(t)
    <3>1. /\ [M(t) EXCEPT !.lock = Free] \in Memory
          /\ [M(t) EXCEPT !.lock = Free].lock = Free
      BY <1>1 DEF Memory
    <3>2. "prf" \in Labels \ Critical BY DEF Labels, Setup, Critical
    <3> QED BY <2>8, <3>1, <3>2 DEF InitLock, Set
  <2>2. CASE InitPrf(t)
    <3>1. /\ [M(t) EXCEPT !.prf = TRUE] \in Memory
          /\ [M(t) EXCEPT !.prf = TRUE].lock = M(t).lock
      BY <1>1 DEF Memory
    <3>2. "reseed" \in Labels \ Critical BY DEF Labels, Setup, Critical
    <3> QED BY <2>2, <3>1, <3>2 DEF InitPrf, Set
  <2>3. CASE InitReseed(t)
    <3>1. /\ Reseeded(M(t)) \in Memory
          /\ Reseeded(M(t)).lock = M(t).lock
      BY <1>1, ReseededType
    <3>2. "magic" \in Labels \ Critical BY DEF Labels, Setup, Critical
    <3> QED BY <2>3, <3>1, <3>2 DEF InitReseed, Set
  <2>4. CASE InitMagic(t)
    <3>1. /\ [M(t) EXCEPT !.magic = TRUE] \in Memory
          /\ [M(t) EXCEPT !.magic = TRUE].lock = M(t).lock
      BY <1>1 DEF Memory
    <3>2. "pid" \in Labels \ Critical BY DEF Labels, Setup, Critical
    <3> QED BY <2>4, <3>1, <3>2 DEF InitMagic, Set
  <2>5. CASE InitPid(t)
    <3>1. /\ [M(t) EXCEPT !.pid = Proc(t)] \in Memory
          /\ [M(t) EXCEPT !.pid = Proc(t)].lock = M(t).lock
      BY <1>1 DEF Memory
    <3>2. "flag" \in Labels \ Critical BY DEF Labels, Setup, Critical
    <3> QED BY <2>5, <3>1, <3>2 DEF InitPid, Set
  <2>6. CASE InitFlag(t)
    <3> DEFINE l == CASE op[t] = "init" -> "idle" [] op[t] = "prevent" -> "lock"
                      [] OTHER -> "checkinit"
    <3>1. l \in {"idle", "lock", "checkinit"} OBVIOUS
    <3>2. l \in Labels \ Critical BY <3>1 DEF Labels, Setup, Critical
    <3>3. Goto(t, l) BY <2>6 DEF InitFlag
    <3>4. /\ [M(t) EXCEPT !.flag = TRUE] \in Memory
          /\ [M(t) EXCEPT !.flag = TRUE].lock = M(t).lock
      BY <1>1 DEF Memory
    <3> QED BY <2>6, <3>2, <3>3, <3>4 DEF InitFlag, Set
  <2>7. CASE WipeFlag(t)
    <3>1. /\ [M(t) EXCEPT !.flag = FALSE] \in Memory
          /\ [M(t) EXCEPT !.flag = FALSE].lock = M(t).lock
      BY <1>1 DEF Memory
    <3>2. PICK l \in {"clear", "idle"} : Goto(t, l) BY <2>7 DEF WipeFlag
    <3>3. l \in Labels \ Critical BY DEF Labels, Setup, Critical
    <3> QED BY <2>7, <3>1, <3>2, <3>3 DEF WipeFlag, Set
  <2> QED BY <2>1, <2>2, <2>3, <2>4, <2>5, <2>6, <2>7, <2>8
<1>5. KeepsLock(t, l, m) BY <1>1, <1>2, <1>3, <1>4 DEF KeepsLock
<1> QED BY <1>1, <1>2, <1>4, <1>5, InCallSafe

(* The steps before the lock that only read, and the failures there.       *)
LEMMA ChecksSafe ==
  ASSUME LockInv, NEW t \in Threads,
         CheckInit(t) \/ InitFails(t) \/ CheckMagic(t) \/ DrawEntropy(t)
  PROVE  LockInv'
<1>1. /\ draws \in Nat /\ ops \in 0..MaxOps /\ given \in Given
  BY Typed
<1>2. /\ Running(Proc(t)) /\ pc[t] \notin Critical \cup {"idle"}
      /\ mem' = mem /\ draws' \in Nat /\ ops' \in 0..MaxOps /\ given' \in Given
  BY <1>1 DEF CheckInit, InitFails, CheckMagic, DrawEntropy, At, Critical
<1>3. CASE Gone(t) /\ UNCHANGED <<pc, op>> BY <1>2, <1>3, GoneSafe
<1>4. CASE status' = status /\ Goto(t, "idle")
  BY <1>2, <1>4, InCallQuiet DEF Labels, Critical, Setup
<1>5. CASE CheckInit(t)
  <2>1. status' = status /\ pc[t] = "check" BY <1>5 DEF CheckInit, At
  <2>2. CASE ~M(t).flag
    <3>1. Goto(t, "memset") /\ Exclusive(t) BY <1>5, <2>1, <2>2 DEF CheckInit, Exclusive
    <3> QED BY <3>1, <2>1, <1>2, InCallQuiet DEF Labels, Critical, Setup
  <2>3. CASE M(t).flag
    <3>1. PICK l \in {"lock", "checkinit"} : Goto(t, l) BY <1>5, <2>3 DEF CheckInit
    <3>2. l \in Labels \ (Critical \cup Setup \cup {"wipe", "clear", "check"})
      BY DEF Labels, Critical, Setup
    <3> QED BY <3>1, <3>2, <2>1, <1>2, InCallQuiet
  <2> QED BY <2>2, <2>3
<1>6. CASE CheckMagic(t) /\ ~(Gone(t) /\ UNCHANGED <<pc, op>>) /\ ~(status' = status /\ Goto(t, "idle"))
  <2>1. status' = status /\ \E l \in {"draw", "lock"} : Goto(t, l)
    BY <1>6 DEF CheckMagic, Fatal, Prepare
  <2>2. PICK l \in {"draw", "lock"} : Goto(t, l) BY <2>1
  <2>3. l \in Labels \ (Critical \cup Setup \cup {"wipe", "clear", "check"})
    BY DEF Labels, Critical, Setup
  <2> QED BY <2>1, <2>2, <2>3, <1>2, InCallQuiet
<1>7. CASE DrawEntropy(t)
  <2>1. status' = status /\ (Goto(t, "lock") \/ Goto(t, "idle")) BY <1>7 DEF DrawEntropy
  <2>2. CASE Goto(t, "lock")
    BY <2>1, <2>2, <1>2, InCallQuiet DEF Labels, Critical, Setup
  <2> QED BY <2>1, <2>2, <1>4
<1>8. CASE InitFails(t) BY <1>8, <1>3, <1>4 DEF InitFails, Fatal
<1> QED BY <1>3, <1>4, <1>5, <1>6, <1>7, <1>8

(* LOCK takes a free lock.                                                 *)
LEMMA LockSafe ==
  ASSUME LockInv, NEW t \in Threads, Lock(t)
  PROVE  LockInv'
<1> DEFINE l == Inside(op[t])
           m == [M(t) EXCEPT !.lock = t]
<1>1. /\ draws \in Nat /\ ops \in 0..MaxOps /\ given \in Given
      /\ M(t) \in Memory /\ Proc(t) \in Procs
  BY Typed
<1>2. /\ Running(Proc(t)) /\ pc[t] = "lock" /\ M(t).lock = Free
      /\ mem' = [mem EXCEPT ![Proc(t)] = m] /\ Goto(t, l)
      /\ UNCHANGED <<status, draws, given, ops>>
  BY DEF Lock, At, Set
<1>3. l \in {"checkpid", "mix", "unlock"} BY DEF Inside
<1>4. /\ l \in Labels /\ l \in Critical /\ l \notin Setup \cup {"wipe", "clear", "check"}
  BY <1>3 DEF Labels, Critical, Setup
<1>5. m \in Memory /\ m.lock = t /\ m.flag = M(t).flag BY <1>1 DEF Memory
<1>6. KeepsLock(t, l, m) BY <1>2, <1>4, <1>5 DEF KeepsLock
<1> QED BY <1>1, <1>2, <1>4, <1>5, <1>6, InCallSafe

(* The steps inside the critical section, to its end.                      *)
LEMMA InsideSafe ==
  ASSUME LockInv, NEW t \in Threads,
         \/ Unlock(t) \/ CheckPid(t) \/ CheckPidFails(t) \/ Take(t) \/ Advance(t)
         \/ Mix(t) \/ Crash(t)
  PROVE  LockInv'
<1>1. /\ draws \in Nat /\ ops \in 0..MaxOps /\ given \in Given
      /\ M(t) \in Memory /\ Proc(t) \in Procs
      /\ Running(Proc(t)) => (pc[t] \in Critical <=> M(t).lock = t)
      /\ t # Free
  BY Typed, GlobalParameters DEF Threads
<1>2. Running(Proc(t)) /\ pc[t] \in Critical /\ pc[t] # "idle" /\ M(t).lock = t
  BY <1>1 DEF Unlock, CheckPid, CheckPidFails, Take, Advance, Mix, Crash, At, Critical
<1>3. /\ draws' \in Nat /\ ops' \in 0..MaxOps
  BY <1>1, GlobalParameters
     DEF Unlock, CheckPid, CheckPidFails, Take, Advance, Mix, Crash
<1>4. given' \in Given
  <2>1. CASE Take(t)
    <3>1. [seed |-> M(t).seed, at |-> M(t).at] \in [seed : Nat, at : Nat]
      BY <1>1 DEF Memory
    <3> QED BY <2>1, <3>1, <1>1 DEF Take, Given
  <2>2. CASE ~Take(t)
    BY <2>2, <1>1 DEF Unlock, CheckPid, CheckPidFails, Advance, Mix, Crash
  <2> QED BY <2>1, <2>2
<1>5. CASE Gone(t) /\ UNCHANGED <<mem, pc, op>> BY <1>5, <1>2, <1>3, <1>4, GoneSafe
<1>6. ASSUME NEW l \in Critical, Goto(t, l), NEW m \in Memory,
             mem' = [mem EXCEPT ![Proc(t)] = m], status' = status,
             m.lock = M(t).lock, m.flag = M(t).flag
      PROVE  LockInv'
  <2>1. l \in Labels /\ l \notin Setup \cup {"wipe", "clear", "check"}
    BY DEF Labels, Critical, Setup
  <2>2. KeepsLock(t, l, m) BY <1>6, <1>2 DEF KeepsLock
  <2> QED BY <1>6, <2>1, <2>2, <1>2, <1>3, <1>4, InCallSafe
<1>7. mem = [mem EXCEPT ![Proc(t)] = M(t)] BY <1>1 DEF LockInv, TypeOK, M
<1>8. CASE Unlock(t)
  <2> DEFINE m == [M(t) EXCEPT !.lock = Free]
  <2>1. m \in Memory /\ m.lock = Free /\ m.flag = M(t).flag BY <1>1 DEF Memory
  <2>2. /\ Goto(t, "idle") /\ mem' = [mem EXCEPT ![Proc(t)] = m] /\ status' = status
    BY <1>8 DEF Unlock, Set
  <2>3. KeepsLock(t, "idle", m) BY <2>1, <1>1, <1>2 DEF KeepsLock, Critical
  <2> QED BY <2>1, <2>2, <2>3, <1>2, <1>3, <1>4, InCallSafe DEF Labels, Setup
<1>9. CASE CheckPid(t)
  <2>1. Goto(t, "take") /\ status' = status BY <1>9 DEF CheckPid
  <2>2. PICK m \in Memory : /\ mem' = [mem EXCEPT ![Proc(t)] = m]
                            /\ m.lock = M(t).lock /\ m.flag = M(t).flag
    <3> DEFINE m == [Reseeded(M(t)) EXCEPT !.pid = Proc(t)]
    <3>0. /\ Reseeded(M(t)) \in Memory
          /\ Reseeded(M(t)).lock = M(t).lock /\ Reseeded(M(t)).flag = M(t).flag
      BY <1>1, ReseededType
    <3>1. m \in Memory /\ m.lock = M(t).lock /\ m.flag = M(t).flag
      BY <3>0, <1>1 DEF Memory
    <3>2. CASE mem' = mem BY <3>2, <1>1, <1>7
    <3>3. CASE Set(t, m) BY <3>3, <3>1 DEF Set
    <3> QED BY <1>9, <3>2, <3>3 DEF CheckPid
  <2> QED BY <2>1, <2>2, <1>6 DEF Critical
<1>10. CASE CheckPidFails(t)
  <2>1. CASE Goto(t, "unlock") /\ UNCHANGED status
    BY <2>1, <1>10, <1>1, <1>6, <1>7 DEF CheckPidFails, Critical
  <2> QED BY <2>1, <1>5, <1>10 DEF CheckPidFails
<1>11. CASE Take(t) BY <1>11, <1>1, <1>6, <1>7 DEF Take, Critical
<1>12. Moved(M(t)) \in Memory /\ Moved(M(t)).lock = M(t).lock /\ Moved(M(t)).flag = M(t).flag
  BY <1>1 DEF Moved, Memory
<1>13. CASE Advance(t)
  <2>1. mem' = [mem EXCEPT ![Proc(t)] = Moved(M(t))] /\ status' = status
    BY <1>13 DEF Advance, Set
  <2>2. Goto(t, "unlock") \/ Goto(t, "checkpid") BY <1>13 DEF Advance
  <2> QED BY <2>1, <2>2, <1>6, <1>12 DEF Critical
<1>14. CASE Mix(t) BY <1>14, <1>6, <1>12 DEF Mix, Set, Critical
<1>15. CASE Crash(t) BY <1>15, <1>5 DEF Crash
<1> QED BY <1>8, <1>9, <1>10, <1>11, <1>13, <1>14, <1>15

-----------------------------------------------------------------------------
(* The invariant holds at the start, where nobody is in a call ...         *)
LEMMA InitSafe == Init => LockInv
<1> SUFFICES ASSUME Init PROVE LockInv
  OBVIOUS
<1>1. Zeroed(FALSE) \in Memory /\ Zeroed(FALSE).lock = Free BY DEF Zeroed, Memory
<1>2. TypeOK
  <2>1. mem \in [Procs -> Memory] BY <1>1 DEF Init
  <2>2. pc \in [Threads -> Labels] /\ op \in [Threads -> Calls \cup {"none"}]
    BY DEF Init, Labels
  <2>3. status \in [Procs -> {"unborn", "running", "gone"}] BY DEF Init
  <2>4. draws \in Nat /\ ops \in 0..MaxOps BY GlobalParameters DEF Init
  <2>5. given \in [Procs -> SUBSET [seed : Nat, at : Nat]] BY DEF Init
  <2> QED BY <2>1, <2>2, <2>3, <2>4, <2>5 DEF TypeOK
<1>3. \A t \in Threads : pc[t] = "idle" /\ t # Free /\ M(t) = Zeroed(FALSE)
  BY ProcType, GlobalParameters DEF Init, M, Threads
<1>4. SetupAlone BY <1>3 DEF SetupAlone, Exclusive, Setup
<1>5. UnbornIdle BY <1>1, GlobalParameters DEF UnbornIdle, Init, Threads
<1>6. LockMatchesHolder BY <1>1, <1>3 DEF LockMatchesHolder, Critical
<1> QED BY <1>2, <1>4, <1>5, <1>6 DEF LockInv

(* ... and every step of a program with careful callers keeps it.          *)
LEMMA NextSafe ==
  ASSUME LockInv, Careful, [Next]_vars
  PROVE  LockInv'
<1>1. CASE UNCHANGED vars
  BY <1>1 DEF vars, LockInv, TypeOK, SetupAlone, Exclusive, UnbornIdle,
              LockMatchesHolder, M, Running
<1>2. CASE Next
  <2>1. PICK t \in Threads : Start(t) \/ Lib(t) \/ Fork(t) BY <1>2 DEF Next
  <2> QED BY <2>1, StartSafe, ForkSafe, SetupSafe, ChecksSafe, LockSafe, InsideSafe DEF Lib
<1> QED BY <1>1, <1>2

(* The lock of the global state always names the thread inside a critical  *)
(* section, and no lock is left behind by any way out of a call, for any   *)
(* number of threads and forks, if nobody initialises or wipes the state   *)
(* while another thread is in a call.                                      *)
THEOREM LockProtects ==
  ASSUME Careful
  PROVE  Spec => []LockMatchesHolder
<1>1. LockInv /\ [Next]_vars => LockInv' BY NextSafe
<1>2. LockInv => LockMatchesHolder BY DEF LockInv
<1> QED BY <1>1, <1>2, InitSafe, PTL DEF Spec

(* Besides, the inductive invariant of the lock holds as it stands.        *)
THEOREM LockInvariance ==
  ASSUME Careful
  PROVE  Spec => []LockInv
<1>1. LockInv /\ [Next]_vars => LockInv' BY NextSafe
<1> QED BY <1>1, InitSafe, PTL DEF Spec

-----------------------------------------------------------------------------
(* What a step does to the generator, for all callers.                     *)

(* Thread t goes on to l and leaves m in the memory of its process.        *)
StepOf(t, l, m) ==
  /\ Running(Proc(t)) /\ l \in Labels /\ m \in Memory
  /\ mem' = [mem EXCEPT ![Proc(t)] = m] /\ pc' = [pc EXCEPT ![t] = l]
  /\ op' \in [Threads -> Calls \cup {"none"}]
  /\ status' = status /\ draws' \in {draws, draws + 1} /\ ops' \in 0..MaxOps

(* It draws a new seed ...                                                 *)
Draws(t, l, m) ==
  /\ m.seed = draws + 1 /\ draws' = draws + 1 /\ pc[t] \in {"reseed", "checkpid"}
  /\ m.pid \in {M(t).pid, Proc(t)}

(* ... or zeroes the generator ...                                         *)
Zeroes(t, l, m) ==
  /\ m.seed = 0 /\ m.pid = Free /\ pc[t] \in {"memset", "clear"}
  /\ l \notin {"magic", "pid", "take"}

(* ... or keeps the seed, and does not go back in its sequence.            *)
Keeps(t, l, m) ==
  /\ m.seed = M(t).seed /\ m.at \in {M(t).at, M(t).at + 1}
  /\ pc[t] = "advance" => m.at = M(t).at + 1
  /\ l \in {"magic", "pid"} => pc[t] \in {"magic", "pid"}
  /\ m.pid = M(t).pid \/ (m.pid = Proc(t) /\ pc[t] = "pid")

Traced(t, l, m) ==
  /\ Draws(t, l, m) \/ Zeroes(t, l, m) \/ Keeps(t, l, m)
  /\ l = "take" => m.pid = Proc(t)
  /\ l # "advance"

Quietly(t) == \E l, m : StepOf(t, l, m) /\ Traced(t, l, m) /\ given' = given

Leaves(t) ==
  /\ Running(Proc(t)) /\ Gone(t)
  /\ UNCHANGED <<mem, pc, op, draws, ops, given>>

(* What TypeOK says of one thread.                                         *)
LEMMA ThreadType ==
  ASSUME TypeOK, NEW t \in Threads
  PROVE  /\ draws \in Nat /\ draws + 1 \in Nat /\ ops \in 0..MaxOps /\ given \in Given
         /\ M(t) \in Memory /\ M(t).seed \in Nat /\ M(t).at \in Nat
         /\ Proc(t) \in Procs /\ op[t] \in Calls \cup {"none"}
         /\ mem = [mem EXCEPT ![Proc(t)] = M(t)]
<1>1. Proc(t) \in Procs BY ProcType
<1>2. M(t) \in Memory BY <1>1 DEF TypeOK, M
<1>3. M(t).seed \in Nat /\ M(t).at \in Nat BY <1>2 DEF Memory
<1> QED BY <1>1, <1>2, <1>3 DEF TypeOK, M, Given

(* Goto keeps the types.                                                   *)
LEMMA GotoType ==
  ASSUME TypeOK, NEW t \in Threads, NEW l \in Labels, Goto(t, l)
  PROVE  pc' = [pc EXCEPT ![t] = l] /\ op' \in [Threads -> Calls \cup {"none"}]
BY DEF TypeOK, Goto

(* A step within a call that leaves the memory alone.                      *)
LEMMA QuietStep ==
  ASSUME TypeOK, NEW t \in Threads, Running(Proc(t)), NEW l \in Labels, Goto(t, l),
         UNCHANGED <<mem, status, given>>, draws' \in {draws, draws + 1}, ops' \in 0..MaxOps,
         pc[t] # "advance", l \notin {"magic", "pid", "take", "advance"}
  PROVE  Quietly(t)
<1>1. StepOf(t, l, M(t)) BY ThreadType, GotoType DEF StepOf
<1>2. Keeps(t, l, M(t)) BY ThreadType DEF Keeps
<1>3. Traced(t, l, M(t)) BY <1>2 DEF Traced
<1> QED BY <1>1, <1>3 DEF Quietly

(* A step that writes m to the memory.                                     *)
LEMMA WriteStep ==
  ASSUME TypeOK, NEW t \in Threads, Running(Proc(t)), NEW l \in Labels, Goto(t, l),
         NEW m \in Memory, Set(t, m), UNCHANGED <<status, given>>,
         draws' \in {draws, draws + 1}, ops' \in 0..MaxOps, Traced(t, l, m)
  PROVE  Quietly(t)
<1>1. StepOf(t, l, m) BY ThreadType, GotoType DEF StepOf, Set
<1> QED BY <1>1 DEF Quietly

-----------------------------------------------------------------------------
(* The steps of ottery_init and ottery_wipe.                               *)
LEMMA SetupQuiet ==
  ASSUME TypeOK, NEW t \in Threads,
         \/ InitMemset(t) \/ InitLock(t) \/ InitPrf(t) \/ InitReseed(t) \/ InitMagic(t)
         \/ InitPid(t) \/ InitFlag(t) \/ WipeFlag(t) \/ WipeState(t)
  PROVE  Quietly(t)
<1>1. /\ draws \in Nat /\ draws + 1 \in Nat /\ ops \in 0..MaxOps
      /\ M(t) \in Memory /\ M(t).seed \in Nat /\ M(t).at \in Nat /\ Proc(t) \in Procs
  BY ThreadType
<1>2. /\ Running(Proc(t)) /\ UNCHANGED <<status, given>>
      /\ draws' \in {draws, draws + 1} /\ ops' \in 0..MaxOps
  BY <1>1 DEF InitMemset, InitLock, InitPrf, InitReseed, InitMagic, InitPid, InitFlag, WipeFlag,
              WipeState, At
<1>3. M(t).flag \in BOOLEAN BY <1>1 DEF Memory
<1>4. CASE InitMemset(t)
  <2>1. Zeroed(M(t).flag) \in Memory BY <1>3 DEF Zeroed, Memory
  <2>2. Zeroes(t, "initlock", Zeroed(M(t).flag)) BY <1>4 DEF InitMemset, At, Zeroes, Zeroed
  <2>3. Traced(t, "initlock", Zeroed(M(t).flag)) BY <2>2 DEF Traced
  <2> QED BY <1>2, <1>4, <2>1, <2>3, WriteStep DEF InitMemset, Labels, Setup
<1>5. CASE WipeState(t)
  <2>1. Zeroed(M(t).flag) \in Memory BY <1>3 DEF Zeroed, Memory
  <2>2. Zeroes(t, "idle", Zeroed(M(t).flag)) BY <1>5 DEF WipeState, At, Zeroes, Zeroed
  <2>3. Traced(t, "idle", Zeroed(M(t).flag)) BY <2>2 DEF Traced
  <2> QED BY <1>2, <1>5, <2>1, <2>3, WriteStep DEF WipeState, Labels, Setup
<1>6. CASE InitPrf(t)
  <2>1. PICK m : m = [M(t) EXCEPT !.prf = TRUE] OBVIOUS
  <2>2. m \in Memory /\ m.seed = M(t).seed /\ m.at = M(t).at /\ m.pid = M(t).pid
    BY <2>1, <1>1 DEF Memory
  <2>3. Keeps(t, "reseed", m) BY <2>2, <1>6 DEF Keeps, InitPrf, At
  <2>4. Traced(t, "reseed", m) BY <2>3 DEF Traced
  <2>5. Goto(t, "reseed") /\ Set(t, m) BY <1>6, <2>1 DEF InitPrf
  <2> QED BY <1>2, <2>2, <2>4, <2>5, WriteStep DEF Labels, Setup
<1>7. CASE InitReseed(t)
  <2>1. PICK m : m = Reseeded(M(t)) OBVIOUS
  <2>2. m \in Memory BY <2>1, <1>1, ReseededType
  <2>3. m.seed = draws + 1 /\ m.pid = M(t).pid BY <2>1, <1>1 DEF Memory, Reseeded
  <2>4. Draws(t, "magic", m) BY <2>3, <1>7 DEF Draws, InitReseed, At
  <2>5. Traced(t, "magic", m) BY <2>4 DEF Traced
  <2>6. Goto(t, "magic") /\ Set(t, m) BY <1>7, <2>1 DEF InitReseed
  <2> QED BY <1>2, <2>2, <2>5, <2>6, WriteStep DEF Labels, Setup
<1>8. CASE InitMagic(t)
  <2>1. PICK m : m = [M(t) EXCEPT !.magic = TRUE] OBVIOUS
  <2>2. m \in Memory /\ m.seed = M(t).seed /\ m.at = M(t).at /\ m.pid = M(t).pid
    BY <2>1, <1>1 DEF Memory
  <2>3. Keeps(t, "pid", m) BY <2>2, <1>8 DEF Keeps, InitMagic, At
  <2>4. Traced(t, "pid", m) BY <2>3 DEF Traced
  <2>5. Goto(t, "pid") /\ Set(t, m) BY <1>8, <2>1 DEF InitMagic
  <2> QED BY <1>2, <2>2, <2>4, <2>5, WriteStep DEF Labels, Setup
<1>9. CASE InitPid(t)
  <2>1. PICK m : m = [M(t) EXCEPT !.pid = Proc(t)] OBVIOUS
  <2>2. m \in Memory /\ m.seed = M(t).seed /\ m.at = M(t).at /\ m.pid = Proc(t)
    BY <2>1, <1>1 DEF Memory
  <2>3. Keeps(t, "flag", m) BY <2>2, <1>9 DEF Keeps, InitPid, At
  <2>4. Traced(t, "flag", m) BY <2>3 DEF Traced
  <2>5. Goto(t, "flag") /\ Set(t, m) BY <1>9, <2>1 DEF InitPid
  <2> QED BY <1>2, <2>2, <2>4, <2>5, WriteStep DEF Labels, Setup
<1>10. CASE InitFlag(t)
  <2>1. PICK m : m = [M(t) EXCEPT !.flag = TRUE] OBVIOUS
  <2>2. m \in Memory /\ m.seed = M(t).seed /\ m.at = M(t).at /\ m.pid = M(t).pid
    BY <2>1, <1>1 DEF Memory
  <2>3. PICK l \in {"idle", "lock", "checkinit"} : Goto(t, l)
    <3> DEFINE l == CASE op[t] = "init" -> "idle" [] op[t] = "prevent" -> "lock"
                      [] OTHER -> "checkinit"
    <3>1. l \in {"idle", "lock", "checkinit"} OBVIOUS
    <3>2. Goto(t, l) BY <1>10 DEF InitFlag
    <3> QED BY <3>1, <3>2
  <2>4. Keeps(t, l, m) BY <2>2, <2>3, <1>10 DEF Keeps, InitFlag, At
  <2>5. Traced(t, l, m) BY <2>3, <2>4 DEF Traced
  <2>6. Set(t, m) BY <1>10, <2>1 DEF InitFlag
  <2>7. l \in Labels BY <2>3 DEF Labels
  <2> QED BY <1>2, <2>2, <2>3, <2>5, <2>6, <2>7, WriteStep
<1>11. CASE WipeFlag(t)
  <2>1. PICK m : m = [M(t) EXCEPT !.flag = FALSE] OBVIOUS
  <2>2. m \in Memory /\ m.seed = M(t).seed /\ m.at = M(t).at /\ m.pid = M(t).pid
    BY <2>1, <1>1 DEF Memory
  <2>3. PICK l \in {"clear", "idle"} : Goto(t, l) BY <1>11 DEF WipeFlag
  <2>4. Keeps(t, l, m) BY <2>2, <2>3, <1>11 DEF Keeps, WipeFlag, At
  <2>5. Traced(t, l, m) BY <2>3, <2>4 DEF Traced
  <2>6. Set(t, m) BY <1>11, <2>1 DEF WipeFlag
  <2>7. l \in Labels BY <2>3 DEF Labels
  <2> QED BY <1>2, <2>2, <2>3, <2>5, <2>6, <2>7, WriteStep
<1>12. CASE InitLock(t)
  <2>1. PICK m : m = [M(t) EXCEPT !.lock = Free] OBVIOUS
  <2>2. m \in Memory /\ m.seed = M(t).seed /\ m.at = M(t).at /\ m.pid = M(t).pid
    BY <2>1, <1>1 DEF Memory
  <2>3. Keeps(t, "prf", m) BY <2>2, <1>12 DEF Keeps, InitLock, At
  <2>4. Traced(t, "prf", m) BY <2>3 DEF Traced
  <2>5. Goto(t, "prf") /\ Set(t, m) BY <1>12, <2>1 DEF InitLock
  <2> QED BY <1>2, <2>2, <2>4, <2>5, WriteStep DEF Labels, Setup
<1> QED BY <1>4, <1>5, <1>6, <1>7, <1>8, <1>9, <1>10, <1>11, <1>12

(* The calls, the checks before the lock, and the failures there.          *)
LEMMA ChecksQuiet ==
  ASSUME TypeOK, NEW t \in Threads,
         CheckInit(t) \/ InitFails(t) \/ CheckMagic(t) \/ DrawEntropy(t)
  PROVE  Quietly(t) \/ Leaves(t)
<1>1. draws \in Nat /\ ops \in 0..MaxOps BY ThreadType
<1>2. /\ Running(Proc(t)) /\ UNCHANGED <<mem, given>> /\ pc[t] # "advance"
      /\ draws' \in {draws, draws + 1} /\ ops' \in 0..MaxOps
  BY <1>1 DEF CheckInit, InitFails, CheckMagic, DrawEntropy, At
<1>3. ASSUME NEW l \in {"idle", "memset", "lock", "checkinit", "draw"}, Goto(t, l),
             status' = status
      PROVE  Quietly(t)
  <2>1. l \in Labels BY DEF Labels, Setup
  <2> QED BY <1>2, <1>3, <2>1, QuietStep
<1>4. CASE CheckInit(t)
  <2>1. PICK l \in {"memset", "lock", "checkinit"} : Goto(t, l) /\ status' = status
    BY <1>4 DEF CheckInit
  <2> QED BY <2>1, <1>3
<1>5. CASE InitFails(t) BY <1>2, <1>3, <1>5 DEF InitFails, Fatal, Leaves
<1>6. CASE CheckMagic(t)
  <2>1. CASE Fatal(t) BY <1>2, <1>3, <1>6, <2>1 DEF CheckMagic, Fatal, Leaves
  <2>2. CASE Goto(t, Prepare(op[t])) /\ UNCHANGED status
    <3>1. Prepare(op[t]) \in {"draw", "lock"} BY DEF Prepare
    <3> QED BY <3>1, <2>2, <1>3
  <2> QED BY <1>6, <2>1, <2>2 DEF CheckMagic
<1>7. CASE DrawEntropy(t)
  <2>1. PICK l \in {"idle", "lock"} : Goto(t, l) /\ status' = status
    BY <1>7 DEF DrawEntropy
  <2> QED BY <2>1, <1>3
<1> QED BY <1>4, <1>5, <1>6, <1>7

LEMMA StartQuiet ==
  ASSUME TypeOK, NEW t \in Threads, Start(t)
  PROVE  Quietly(t)
<1>1. PICK c \in Calls :
        /\ op' = [op EXCEPT ![t] = c]
        /\ pc' = [pc EXCEPT ![t] = CASE c = "init" -> "memset" [] c = "wipe" -> "wipe"
                                     [] OTHER -> "check"]
  BY DEF Start
<1> DEFINE l == CASE c = "init" -> "memset" [] c = "wipe" -> "wipe" [] OTHER -> "check"
<1>2. /\ Running(Proc(t)) /\ pc[t] = "idle" /\ ops < MaxOps /\ ops' = ops + 1
      /\ UNCHANGED <<mem, status, draws, given>>
  BY DEF Start, At
<1>3. l \in {"memset", "wipe", "check"} OBVIOUS
<1>4. l \in Labels BY <1>3 DEF Labels, Setup
<1>5. ops' \in 0..MaxOps BY <1>2, ThreadType, GlobalParameters
<1>6. op' \in [Threads -> Calls \cup {"none"}] BY <1>1 DEF TypeOK
<1>7. StepOf(t, l, M(t)) BY <1>1, <1>2, <1>4, <1>5, <1>6, ThreadType DEF StepOf
<1>8. Keeps(t, l, M(t)) BY <1>2, <1>3, ThreadType DEF Keeps
<1>9. Traced(t, l, M(t)) BY <1>3, <1>8 DEF Traced
<1> QED BY <1>2, <1>7, <1>9 DEF Quietly

(* The steps from LOCK to UNLOCK that hand out nothing.                    *)
LEMMA InsideQuiet ==
  ASSUME TypeOK, NEW t \in Threads,
         \/ Lock(t) \/ Unlock(t) \/ CheckPid(t) \/ CheckPidFails(t) \/ Advance(t)
         \/ Mix(t) \/ Crash(t)
  PROVE  Quietly(t) \/ Leaves(t)
<1>1. /\ draws \in Nat /\ draws + 1 \in Nat /\ ops \in 0..MaxOps
      /\ M(t) \in Memory /\ M(t).seed \in Nat /\ M(t).at \in Nat /\ Proc(t) \in Procs
  BY ThreadType
<1>2. /\ Running(Proc(t)) /\ given' = given
      /\ draws' \in {draws, draws + 1} /\ ops' \in 0..MaxOps
  BY <1>1, GlobalParameters
     DEF Lock, Unlock, CheckPid, CheckPidFails, Advance, Mix, Crash, At
<1>3. CASE Lock(t)
  <2>1. PICK m : m = [M(t) EXCEPT !.lock = t] OBVIOUS
  <2>2. m \in Memory /\ m.seed = M(t).seed /\ m.at = M(t).at /\ m.pid = M(t).pid
    BY <2>1, <1>1 DEF Memory
  <2>3. PICK l \in {"checkpid", "mix", "unlock"} : l = Inside(op[t]) BY DEF Inside
  <2>4. Keeps(t, l, m) BY <2>2, <2>3, <1>3 DEF Keeps, Lock, At
  <2>5. Traced(t, l, m) BY <2>3, <2>4 DEF Traced
  <2>6. Set(t, m) /\ Goto(t, l) /\ status' = status BY <1>3, <2>1, <2>3 DEF Lock
  <2>7. l \in Labels BY <2>3 DEF Labels, Critical
  <2> QED BY <1>2, <2>2, <2>5, <2>6, <2>7, WriteStep
<1>4. CASE Unlock(t)
  <2>1. PICK m : m = [M(t) EXCEPT !.lock = Free] OBVIOUS
  <2>2. m \in Memory /\ m.seed = M(t).seed /\ m.at = M(t).at /\ m.pid = M(t).pid
    BY <2>1, <1>1 DEF Memory
  <2>3. Keeps(t, "idle", m) BY <2>2, <1>4 DEF Keeps, Unlock, At
  <2>4. Traced(t, "idle", m) BY <2>3 DEF Traced
  <2>5. Set(t, m) /\ Goto(t, "idle") /\ status' = status BY <1>4, <2>1 DEF Unlock
  <2> QED BY <1>2, <2>2, <2>4, <2>5, WriteStep DEF Labels
<1>5. CASE CheckPid(t)
  <2>0. Goto(t, "take") /\ status' = status /\ "take" \in Labels /\ pc[t] = "checkpid"
    BY <1>5 DEF CheckPid, Labels, Critical, At
  <2>1. CASE M(t).pid = Proc(t) /\ UNCHANGED <<mem, draws>>
    <3>1. Keeps(t, "take", M(t)) BY <1>1, <2>0 DEF Keeps
    <3>2. Traced(t, "take", M(t)) BY <3>1, <2>1 DEF Traced
    <3>3. StepOf(t, "take", M(t)) BY <1>2, <2>0, <2>1, ThreadType, GotoType DEF StepOf
    <3> QED BY <1>2, <3>2, <3>3 DEF Quietly
  <2>2. CASE Set(t, [Reseeded(M(t)) EXCEPT !.pid = Proc(t)]) /\ draws' = draws + 1
    <3>1. PICK k : k = Reseeded(M(t)) OBVIOUS
    <3>2. k \in Memory BY <3>1, <1>1, ReseededType
    <3>3. k.seed = draws + 1 BY <3>1, <1>1 DEF Memory, Reseeded
    <3>4. PICK m : m = [k EXCEPT !.pid = Proc(t)] OBVIOUS
    <3>5. m \in Memory /\ m.pid = Proc(t) /\ m.seed = k.seed BY <3>4, <3>2, <1>1 DEF Memory
    <3>6. Draws(t, "take", m) BY <3>3, <3>5, <2>0, <2>2 DEF Draws
    <3>7. Traced(t, "take", m) BY <3>5, <3>6 DEF Traced
    <3>8. Set(t, m) BY <2>2, <3>1, <3>4
    <3> QED BY <1>2, <2>0, <3>5, <3>7, <3>8, WriteStep
  <2> QED BY <1>5, <2>1, <2>2 DEF CheckPid
<1>6. CASE CheckPidFails(t)
  <2>1. CASE Goto(t, "unlock") /\ UNCHANGED status
    <3>1. "unlock" \in Labels /\ pc[t] # "advance" /\ mem' = mem
      BY <1>6 DEF Labels, Critical, CheckPidFails, At
    <3> QED BY <2>1, <3>1, <1>2, QuietStep
  <2> QED BY <1>2, <1>6, <2>1 DEF CheckPidFails, Leaves
<1>7. PICK m : m = Moved(M(t)) OBVIOUS
<1>8. m \in Memory /\ m.seed = M(t).seed /\ m.at = M(t).at + 1 /\ m.pid = M(t).pid
  BY <1>7, <1>1 DEF Memory, Moved
<1>9. CASE Advance(t)
  <2>1. PICK l \in {"unlock", "checkpid"} : Goto(t, l) BY <1>9 DEF Advance
  <2>2. Keeps(t, l, m) BY <1>8, <2>1 DEF Keeps
  <2>3. Traced(t, l, m) BY <2>1, <2>2 DEF Traced
  <2>4. Set(t, m) /\ status' = status BY <1>9, <1>7 DEF Advance
  <2>5. l \in Labels BY <2>1 DEF Labels, Critical
  <2> QED BY <1>2, <1>8, <2>1, <2>3, <2>4, <2>5, WriteStep
<1>10. CASE Mix(t)
  <2>1. Keeps(t, "unlock", m) BY <1>8 DEF Keeps
  <2>2. Traced(t, "unlock", m) BY <2>1 DEF Traced
  <2>3. Set(t, m) /\ Goto(t, "unlock") /\ status' = status BY <1>10, <1>7 DEF Mix
  <2> QED BY <1>2, <1>8, <2>2, <2>3, WriteStep DEF Labels, Critical
<1>11. CASE Crash(t) BY <1>2, <1>11 DEF Crash, Leaves
<1> QED BY <1>3, <1>4, <1>5, <1>6, <1>9, <1>10, <1>11

(* So a step hands out output, forks, ends a process, or does none of      *)
(* these.                                                                  *)
LEMMA NextCases ==
  ASSUME TypeOK, Next
  PROVE  \E t \in Threads : Quietly(t) \/ Leaves(t) \/ Take(t) \/ Fork(t)
<1>1. PICK t \in Threads : Start(t) \/ Lib(t) \/ Fork(t) BY DEF Next
<1> QED BY <1>1, StartQuiet, SetupQuiet, ChecksQuiet, InsideQuiet DEF Lib

-----------------------------------------------------------------------------
(* What such a step leaves of the other threads and processes.             *)
LEMMA StepOfFrame ==
  ASSUME TypeOK, NEW t \in Threads, NEW l, NEW m, StepOf(t, l, m)
  PROVE  /\ Proc(t) \in Procs /\ mem'[Proc(t)] = m /\ pc'[t] = l
         /\ \A p \in Procs : p # Proc(t) => mem'[p] = mem[p]
         /\ \A u \in Threads : u # t => pc'[u] = pc[u]
         /\ given' \in Given => TypeOK'
<1>1. Proc(t) \in Procs BY ProcType
<1>2. /\ mem'[Proc(t)] = m /\ pc'[t] = l
      /\ \A p \in Procs : p # Proc(t) => mem'[p] = mem[p]
      /\ \A u \in Threads : u # t => pc'[u] = pc[u]
  BY <1>1 DEF TypeOK, StepOf
<1>3. mem' \in [Procs -> Memory] /\ pc' \in [Threads -> Labels] BY <1>1 DEF TypeOK, StepOf
<1>4. draws' \in Nat BY DEF TypeOK, StepOf
<1> QED BY <1>1, <1>2, <1>3, <1>4 DEF TypeOK, StepOf, Given

(* Every step keeps the types.                                             *)
LEMMA TypeStep ==
  ASSUME TypeOK, [Next]_vars
  PROVE  TypeOK'
<1>1. CASE UNCHANGED vars BY <1>1 DEF vars, TypeOK
<1>2. CASE Next
  <2>1. PICK t \in Threads : Quietly(t) \/ Leaves(t) \/ Take(t) \/ Fork(t)
    BY <1>2, NextCases
  <2>2. CASE Quietly(t)
    <3>1. PICK l, m : StepOf(t, l, m) /\ given' = given BY <2>2 DEF Quietly
    <3> QED BY <3>1, StepOfFrame, ThreadType
  <2>3. CASE Leaves(t) BY <2>3, ThreadType DEF Leaves, Gone, TypeOK
  <2>4. CASE Take(t)
    <3>1. [seed |-> M(t).seed, at |-> M(t).at] \in [seed : Nat, at : Nat] BY ThreadType
    <3>2. given' \in Given BY <2>4, <3>1, ThreadType DEF Take, Given
    <3>3. "advance" \in Labels BY DEF Labels, Critical
    <3>4. pc' \in [Threads -> Labels] /\ op' \in [Threads -> Calls \cup {"none"}]
      BY <2>4, <3>3, GotoType DEF Take, TypeOK
    <3> QED BY <2>4, <3>2, <3>4 DEF Take, TypeOK, Given
  <2>5. CASE Fork(t)
    <3>1. PICK c \in Children : /\ status' = [status EXCEPT ![c] = "running"]
                                /\ mem' = [mem EXCEPT ![c] = M(t)]
      BY <2>5 DEF Fork
    <3>2. c \in Procs /\ M(t) \in Memory BY ThreadType DEF Procs
    <3>3. mem' \in [Procs -> Memory] BY <3>1, <3>2 DEF TypeOK
    <3>4. status' \in [Procs -> {"unborn", "running", "gone"}] BY <3>1, <3>2 DEF TypeOK
    <3>5. ops' \in 0..MaxOps BY <2>5, ThreadType, GlobalParameters DEF Fork
    <3> QED BY <2>5, <3>3, <3>4, <3>5 DEF Fork, TypeOK
  <2> QED BY <2>1, <2>2, <2>3, <2>4, <2>5
<1> QED BY <1>1, <1>2

-----------------------------------------------------------------------------
(* Seeds.                                                                  *)

(* Processes whose state, thread and output stay the same keep their seeds. *)
LEMMA SeedsSame ==
  ASSUME NEW p \in Procs, mem'[p] = mem[p], given'[p] = given[p], p = Home \/ pc'[p] = pc[p]
  PROVE  SeedsOf(p)' = SeedsOf(p)
<1>1. Owns(p)' <=> Owns(p) BY DEF Owns
<1> QED BY <1>1 DEF SeedsOf

(* A step that adds to the seeds of p at most one that was not drawn       *)
(* before, or for the first process that of the zeroed state, keeps the    *)
(* seeds apart.                                                            *)
LEMMA SeedsStep ==
  ASSUME SeedsApart, draws \in Nat, NEW p \in Procs, NEW s,
         SeedsOf(p)' \subseteq SeedsOf(p) \cup {s},
         \/ s \in SeedsOf(p)
         \/ s = draws + 1 /\ draws' = draws + 1
         \/ s = 0 /\ p = Home,
         draws' \in {draws, draws + 1},
         \A q \in Procs : q # p => SeedsOf(q)' \subseteq SeedsOf(q)
  PROVE  SeedsApart'
<1>1. \A q \in Procs : SeedsOf(q) \subseteq 0..draws BY DEF SeedsApart
<1>2. Home \notin Children /\ Children \subseteq Procs BY GlobalParameters DEF Procs
<1>3. \A q \in Procs : SeedsOf(q)' \subseteq 0..draws' BY <1>1
<1>4. ASSUME NEW q \in Procs, q # p PROVE SeedsOf(q) \cap (SeedsOf(p) \cup {s}) = {}
  <2>1. SeedsOf(q) \cap SeedsOf(p) = {} BY <1>4 DEF SeedsApart
  <2>2. CASE s \in SeedsOf(p) BY <2>1, <2>2
  <2>3. CASE s = draws + 1 BY <2>1, <2>3, <1>1
  <2>4. CASE s = 0 /\ p = Home
    <3>1. q \in Children BY <1>4, <2>4 DEF Procs
    <3> QED BY <3>1, <2>1, <2>4 DEF SeedsApart
  <2> QED BY <2>2, <2>3, <2>4
<1>5. \A c \in Children : 0 \notin SeedsOf(c)'
  <2> SUFFICES ASSUME NEW c \in Children PROVE 0 \notin SeedsOf(c)'
    OBVIOUS
  <2>1. 0 \notin SeedsOf(c) BY DEF SeedsApart
  <2>2. c = p => s # 0 BY <2>1, <1>2
  <2> QED BY <2>1, <2>2, <1>2
<1>6. \A a, b \in Procs : a # b => SeedsOf(a)' \cap SeedsOf(b)' = {}
  <2> SUFFICES ASSUME NEW a \in Procs, NEW b \in Procs, a # b
               PROVE  SeedsOf(a)' \cap SeedsOf(b)' = {}
    OBVIOUS
  <2>1. CASE a = p BY <2>1, <1>4
  <2>2. CASE b = p BY <2>2, <1>4
  <2>3. CASE a # p /\ b # p
    <3>1. SeedsOf(a) \cap SeedsOf(b) = {} BY DEF SeedsApart
    <3> QED BY <3>1, <2>3
  <2> QED BY <2>1, <2>2, <2>3
<1> QED BY <1>3, <1>5, <1>6 DEF SeedsApart

(* A step that hands out nothing keeps the invariant.                      *)
LEMMA QuietSeeds ==
  ASSUME SeedInv, NEW t \in Threads, Quietly(t)
  PROVE  SeedInv'
<1>1. PICK l, m : StepOf(t, l, m) /\ Traced(t, l, m) /\ given' = given BY DEF Quietly
<1>2. TypeOK BY DEF SeedInv
<1>3. /\ Proc(t) \in Procs /\ mem'[Proc(t)] = m /\ pc'[t] = l
      /\ \A p \in Procs : p # Proc(t) => mem'[p] = mem[p]
      /\ \A u \in Threads : u # t => pc'[u] = pc[u]
      /\ TypeOK'
  BY <1>1, <1>2, StepOfFrame, ThreadType
<1>4. /\ Running(Proc(t)) /\ draws' \in {draws, draws + 1} /\ status' = status
  BY <1>1 DEF StepOf
<1>5. /\ draws \in Nat /\ M(t).seed \in Nat BY <1>2, ThreadType
<1>6. /\ \A c \in Children : c \in Threads /\ c \in Procs /\ c # Home
      /\ \A c \in Children : Proc(t) = c <=> t = c
      /\ \A c \in Children : c # Free
  BY ProcType, GlobalParameters DEF Threads, Procs
<1>7. m.pid \in {M(t).pid, Proc(t), Free} BY <1>1 DEF Traced, Draws, Zeroes, Keeps
<1>8. \A q \in Procs : q # Proc(t) => SeedsOf(q)' = SeedsOf(q)
  <2> SUFFICES ASSUME NEW q \in Procs, q # Proc(t) PROVE SeedsOf(q)' = SeedsOf(q)
    OBVIOUS
  <2>1. q = Home \/ pc'[q] = pc[q] BY <1>3, <1>6 DEF Procs
  <2> QED BY <2>1, <1>1, <1>3, SeedsSame
<1>9. SeedsApart'
  <2>0. SeedsApart BY DEF SeedInv
  <2>1. CASE Draws(t, l, m)
    <3>1. m.seed = draws + 1 /\ draws' = draws + 1 BY <2>1 DEF Draws
    <3>2. SeedsOf(Proc(t))' \subseteq SeedsOf(Proc(t)) \cup {draws + 1}
      BY <3>1, <1>1, <1>3 DEF SeedsOf
    <3> QED BY <2>0, <3>1, <3>2, <1>3, <1>5, <1>8, SeedsStep
  <2>2. CASE ~Owns(Proc(t))'
    <3>1. SeedsOf(Proc(t))' \subseteq SeedsOf(Proc(t)) BY <2>2, <1>1 DEF SeedsOf
    <3>2. CASE SeedsOf(Proc(t)) # {}
      <4>1. PICK s : s \in SeedsOf(Proc(t)) BY <3>2
      <4> QED BY <2>0, <3>1, <4>1, <1>3, <1>4, <1>5, <1>8, SeedsStep
    <3>3. CASE SeedsOf(Proc(t)) = {}
      <4>1. SeedsOf(Proc(t))' = SeedsOf(Proc(t)) BY <3>1, <3>3
      <4>2. \A q \in Procs : SeedsOf(q)' = SeedsOf(q) BY <4>1, <1>8
      <4>3. \A q \in Procs : SeedsOf(q) \subseteq 0..draws BY <2>0 DEF SeedsApart
      <4>4. \A q \in Procs : SeedsOf(q)' \subseteq 0..draws' BY <4>2, <4>3, <1>4, <1>5
      <4> QED BY <2>0, <4>2, <4>4, <1>6 DEF SeedsApart
    <3> QED BY <3>2, <3>3
  <2>3. CASE Zeroes(t, l, m) /\ Owns(Proc(t))'
    <3>1. m.seed = 0 /\ m.pid = Free /\ l \notin {"magic", "pid"} BY <2>3 DEF Zeroes
    <3>2. Proc(t) = Home
      <4>1. CASE Proc(t) \in Children
        <5>1. t = Proc(t) /\ Proc(t) # Free /\ Proc(t) # Home BY <4>1, <1>6
        <5> QED BY <5>1, <3>1, <2>3, <1>3 DEF Owns
      <4> QED BY <4>1, <1>3 DEF Procs
    <3>3. SeedsOf(Proc(t))' \subseteq SeedsOf(Proc(t)) \cup {0}
      BY <3>1, <1>1, <1>3 DEF SeedsOf
    <3> QED BY <2>0, <3>2, <3>3, <1>3, <1>4, <1>5, <1>8, SeedsStep
  <2>4. CASE Keeps(t, l, m) /\ Owns(Proc(t))'
    <3>1. Owns(Proc(t))
      <4>1. CASE Proc(t) \in Children
        <5>1. t = Proc(t) BY <4>1, <1>6
        <5> QED BY <5>1, <2>4, <1>3 DEF Owns, Keeps, M
      <4> QED BY <4>1, <1>3 DEF Procs, Owns
    <3>2. m.seed = mem[Proc(t)].seed BY <2>4 DEF Keeps, M
    <3>3. SeedsOf(Proc(t))' \subseteq SeedsOf(Proc(t)) \cup {m.seed}
      BY <1>1, <1>3 DEF SeedsOf
    <3>4. m.seed \in SeedsOf(Proc(t)) BY <3>1, <3>2 DEF SeedsOf
    <3> QED BY <2>0, <3>3, <3>4, <1>3, <1>4, <1>5, <1>8, SeedsStep
  <2> QED BY <2>1, <2>2, <2>3, <2>4, <1>1 DEF Traced
<1>10. OwnBeforeTake'
  <2> SUFFICES ASSUME NEW c \in Children, pc'[c] = "take" PROVE mem'[c].pid = c
    BY DEF OwnBeforeTake
  <2>1. CASE c = t BY <2>1, <1>1, <1>3, <1>6 DEF Traced
  <2>2. CASE c # t BY <2>2, <1>3, <1>6 DEF SeedInv, OwnBeforeTake
  <2> QED BY <2>1, <2>2
<1>11. UnbornSilent'
  <2> SUFFICES ASSUME NEW c \in Children, status[c] = "unborn"
               PROVE  pc'[c] = "idle" /\ given'[c] = {} /\ \A p \in Procs : mem'[p].pid # c
    BY <1>4 DEF UnbornSilent
  <2>1. pc[c] = "idle" /\ given[c] = {} /\ \A p \in Procs : mem[p].pid # c
    BY DEF SeedInv, UnbornSilent
  <2>2. Proc(t) # c /\ t # c BY <1>4, <1>6 DEF Running
  <2>3. m.pid # c BY <1>3, <1>6, <1>7, <2>1, <2>2 DEF M
  <2> QED BY <2>1, <2>2, <2>3, <1>1, <1>3, <1>6
<1> QED BY <1>3, <1>9, <1>10, <1>11 DEF SeedInv

(* Output is of a seed that the process owns.                              *)
LEMMA TakeOwns ==
  ASSUME SeedInv, NEW t \in Threads, pc[t] = "take"
  PROVE  M(t).seed \in SeedsOf(Proc(t))
<1>1. Proc(t) \in Procs /\ \A c \in Children : Proc(t) = c <=> t = c BY ProcType
<1>2. CASE Proc(t) \in Children
  <2>1. t = Proc(t) BY <1>1, <1>2
  <2>2. Owns(Proc(t)) BY <2>1, <1>2 DEF SeedInv, OwnBeforeTake, Owns
  <2> QED BY <2>2 DEF SeedsOf, M
<1>3. CASE Proc(t) = Home BY <1>3 DEF Owns, SeedsOf, M
<1> QED BY <1>1, <1>2, <1>3 DEF Procs

(* What handing out output changes.                                        *)
LEMMA TakeFrame ==
  ASSUME TypeOK, NEW t \in Threads, Take(t)
  PROVE  /\ pc[t] = "take" /\ pc'[t] = "advance" /\ Running(Proc(t))
         /\ \A u \in Threads : u # t => pc'[u] = pc[u]
         /\ given'[Proc(t)] = given[Proc(t)] \cup {[seed |-> M(t).seed, at |-> M(t).at]}
         /\ \A p \in Procs : p # Proc(t) => given'[p] = given[p]
         /\ UNCHANGED <<mem, status, draws>>
<1>1. Proc(t) \in Procs BY ProcType
<1> QED BY <1>1 DEF Take, At, Goto, TypeOK

LEMMA TakeSeeds ==
  ASSUME SeedInv, NEW t \in Threads, Take(t), TypeOK'
  PROVE  SeedInv'
<1>1. TypeOK /\ SeedsApart BY DEF SeedInv
<1>2. /\ pc[t] = "take" /\ pc'[t] = "advance" /\ Running(Proc(t))
      /\ \A u \in Threads : u # t => pc'[u] = pc[u]
      /\ given'[Proc(t)] = given[Proc(t)] \cup {[seed |-> M(t).seed, at |-> M(t).at]}
      /\ \A p \in Procs : p # Proc(t) => given'[p] = given[p]
      /\ mem' = mem /\ status' = status /\ draws' = draws
  BY <1>1, TakeFrame
<1>3. M(t).seed \in SeedsOf(Proc(t)) /\ Proc(t) \in Procs /\ draws \in Nat
  BY <1>1, <1>2, TakeOwns, ThreadType
<1>4. /\ \A c \in Children : c \in Threads /\ c \in Procs
      /\ \A c \in Children : Proc(t) = c <=> t = c
  BY ProcType DEF Threads, Procs
<1>5. \A q \in Procs : q # Proc(t) => SeedsOf(q)' = SeedsOf(q)
  <2> SUFFICES ASSUME NEW q \in Procs, q # Proc(t) PROVE SeedsOf(q)' = SeedsOf(q)
    OBVIOUS
  <2>1. q = Home \/ pc'[q] = pc[q] BY <1>2, <1>4 DEF Procs
  <2> QED BY <2>1, <1>2, SeedsSame
<1>6. SeedsOf(Proc(t))' \subseteq SeedsOf(Proc(t)) \cup {M(t).seed}
  <2>1. mem'[Proc(t)].seed = M(t).seed BY <1>2 DEF M
  <2>2. \A o \in given'[Proc(t)] : o \in given[Proc(t)] \/ o.seed = M(t).seed BY <1>2
  <2> QED BY <2>1, <2>2 DEF SeedsOf
<1>7. SeedsApart' BY <1>1, <1>2, <1>3, <1>5, <1>6, SeedsStep
<1>8. OwnBeforeTake'
  <2> SUFFICES ASSUME NEW c \in Children, pc'[c] = "take" PROVE mem[c].pid = c
    BY <1>2 DEF OwnBeforeTake
  <2>1. c # t /\ pc[c] = "take" BY <1>2, <1>4
  <2> QED BY <2>1 DEF SeedInv, OwnBeforeTake
<1>9. UnbornSilent'
  <2> SUFFICES ASSUME NEW c \in Children, status[c] = "unborn"
               PROVE  pc'[c] = "idle" /\ given'[c] = {} /\ \A p \in Procs : mem[p].pid # c
    BY <1>2 DEF UnbornSilent
  <2>1. pc[c] = "idle" /\ given[c] = {} /\ \A p \in Procs : mem[p].pid # c
    BY DEF SeedInv, UnbornSilent
  <2>2. Proc(t) # c /\ t # c BY <1>2, <1>4 DEF Running
  <2> QED BY <2>1, <2>2, <1>2, <1>4
<1> QED BY <1>7, <1>8, <1>9 DEF SeedInv

(* fork(): the child bears its parent's pid, or none.                      *)
LEMMA ForkFrame ==
  ASSUME SeedInv, NEW t \in Threads, Fork(t)
  PROVE  \E c \in Children :
           /\ status[c] = "unborn" /\ c # Proc(t)
           /\ mem'[c] = M(t) /\ \A p \in Procs : p # c => mem'[p] = mem[p]
           /\ status'[c] = "running" /\ \A p \in Procs : p # c => status'[p] = status[p]
           /\ UNCHANGED <<pc, op, draws, given>>
           /\ pc[c] = "idle" /\ given[c] = {} /\ \A p \in Procs : mem'[p].pid # c
<1>1. PICK c \in Children : /\ status[c] = "unborn"
                            /\ status' = [status EXCEPT ![c] = "running"]
                            /\ mem' = [mem EXCEPT ![c] = M(t)]
  BY DEF Fork
<1>2. Running(Proc(t)) /\ UNCHANGED <<pc, op, draws, given>> BY DEF Fork, At
<1>3. c \in Procs /\ Proc(t) \in Procs BY ProcType DEF Procs
<1>4. c # Proc(t) BY <1>1, <1>2 DEF Running
<1>5. /\ mem'[c] = M(t) /\ \A p \in Procs : p # c => mem'[p] = mem[p]
      /\ status'[c] = "running" /\ \A p \in Procs : p # c => status'[p] = status[p]
  BY <1>1, <1>3 DEF SeedInv, TypeOK
<1>6. pc[c] = "idle" /\ given[c] = {} /\ \A p \in Procs : mem[p].pid # c
  BY <1>1 DEF SeedInv, UnbornSilent
<1>7. \A p \in Procs : mem'[p].pid # c BY <1>3, <1>5, <1>6 DEF M
<1> QED BY <1>1, <1>2, <1>4, <1>5, <1>6, <1>7

LEMMA ForkSeeds ==
  ASSUME SeedInv, NEW t \in Threads, Fork(t), TypeOK'
  PROVE  SeedInv'
<1>1. PICK c \in Children :
        /\ status[c] = "unborn" /\ c # Proc(t)
        /\ mem'[c] = M(t) /\ \A p \in Procs : p # c => mem'[p] = mem[p]
        /\ status'[c] = "running" /\ \A p \in Procs : p # c => status'[p] = status[p]
        /\ UNCHANGED <<pc, op, draws, given>>
        /\ pc[c] = "idle" /\ given[c] = {} /\ \A p \in Procs : mem'[p].pid # c
  BY ForkFrame
<1>2. \A k \in Children : k \in Procs /\ k # Home BY GlobalParameters DEF Procs
<1>3. \A q \in Procs : q # c => SeedsOf(q)' = SeedsOf(q)
  <2> SUFFICES ASSUME NEW q \in Procs, q # c PROVE SeedsOf(q)' = SeedsOf(q)
    OBVIOUS
  <2> QED BY <1>1, SeedsSame
<1>4. SeedsOf(c)' = {}
  <2>1. ~Owns(c)' BY <1>1, <1>2 DEF Owns
  <2> QED BY <2>1, <1>1 DEF SeedsOf
<1>5. SeedsApart'
  <2>1. SeedsApart BY DEF SeedInv
  <2>2. \A q \in Procs : SeedsOf(q)' \subseteq SeedsOf(q) BY <1>3, <1>4
  <2> QED BY <2>1, <2>2, <1>1, <1>2 DEF SeedsApart
<1>6. OwnBeforeTake'
  <2> SUFFICES ASSUME NEW k \in Children, pc[k] = "take" PROVE mem'[k].pid = k
    BY <1>1 DEF OwnBeforeTake
  <2>1. k # c BY <1>1
  <2> QED BY <2>1, <1>1, <1>2 DEF SeedInv, OwnBeforeTake
<1>7. UnbornSilent'
  <2> SUFFICES ASSUME NEW k \in Children, status'[k] = "unborn", NEW p \in Procs
               PROVE  pc[k] = "idle" /\ given[k] = {} /\ mem'[p].pid # k
    BY <1>1 DEF UnbornSilent, Procs
  <2>1. k # c /\ status[k] = "unborn" BY <1>1, <1>2
  <2>2. pc[k] = "idle" /\ given[k] = {} /\ \A q \in Procs : mem[q].pid # k
    BY <2>1 DEF SeedInv, UnbornSilent
  <2>3. Proc(t) \in Procs BY ProcType
  <2> QED BY <2>2, <2>3, <1>1 DEF M
<1> QED BY <1>5, <1>6, <1>7 DEF SeedInv

-----------------------------------------------------------------------------
(* The seeds are apart at the start, and every step keeps them apart.      *)
LEMMA InitSeeds == Init => SeedInv
<1> SUFFICES ASSUME Init PROVE SeedInv
  OBVIOUS
<1>1. TypeOK BY InitSafe DEF LockInv
<1>2. /\ \A c \in Children : c \in Threads /\ c \in Procs /\ c # Home /\ c # Free
      /\ Home \in Procs
  BY GlobalParameters DEF Threads, Procs
<1>3. /\ \A p \in Procs : /\ mem[p].pid = Free /\ mem[p].seed = 0 /\ given[p] = {}
      /\ \A u \in Threads : pc[u] = "idle"
      /\ draws = 0
  BY DEF Init, Zeroed
<1>4. \A c \in Children : SeedsOf(c) = {} BY <1>2, <1>3 DEF SeedsOf, Owns
<1>5. SeedsOf(Home) \subseteq {0} BY <1>2, <1>3 DEF SeedsOf
<1>6. SeedsApart BY <1>3, <1>4, <1>5 DEF SeedsApart, Procs
<1>7. OwnBeforeTake BY <1>2, <1>3 DEF OwnBeforeTake
<1>8. UnbornSilent BY <1>2, <1>3 DEF UnbornSilent
<1> QED BY <1>1, <1>6, <1>7, <1>8 DEF SeedInv

LEMMA NextSeeds ==
  ASSUME SeedInv, [Next]_vars
  PROVE  SeedInv'
<1>1. TypeOK /\ TypeOK' BY TypeStep DEF SeedInv
<1>2. ASSUME UNCHANGED <<mem, pc, given, draws>>,
             \A c \in Children : status'[c] = "unborn" => status[c] = "unborn"
      PROVE  SeedInv'
  <2>1. \A p \in Procs : SeedsOf(p)' = SeedsOf(p) BY <1>2 DEF SeedsOf, Owns
  <2>2. SeedsApart' BY <1>2, <2>1 DEF SeedInv, SeedsApart, Procs
  <2> QED BY <1>1, <1>2, <2>2 DEF SeedInv, OwnBeforeTake, UnbornSilent
<1>3. CASE UNCHANGED vars BY <1>2, <1>3 DEF vars
<1>4. CASE Next
  <2>1. PICK t \in Threads : Quietly(t) \/ Leaves(t) \/ Take(t) \/ Fork(t)
    BY <1>1, <1>4, NextCases
  <2>2. CASE Leaves(t)
    <3>1. \A c \in Children : status'[c] = "unborn" => status[c] = "unborn"
      BY <1>1, <2>2, ProcType DEF Leaves, Gone, TypeOK, Procs
    <3> QED BY <3>1, <2>2, <1>2 DEF Leaves
  <2> QED BY <2>1, <2>2, <1>1, QuietSeeds, TakeSeeds, ForkSeeds
<1> QED BY <1>3, <1>4

(* The invariant of the seeds, whatever the callers do: no two processes   *)
(* ever hold or have used the same seed for output.                        *)
THEOREM SeedInvariance == Spec => []SeedInv
<1>1. SeedInv /\ [Next]_vars => SeedInv' BY NextSeeds
<1> QED BY <1>1, InitSeeds, PTL DEF Spec

(* No two processes hand out the same output, for any number of threads,   *)
(* forks and calls, even if the callers race on ottery_init and            *)
(* ottery_wipe, and wherever the parent's threads were at the fork().      *)
THEOREM ForksSeparate == Spec => []ForkSeparates
<1>1. SeedInv => ForkSeparates
  <2> SUFFICES ASSUME SeedInv, NEW p \in Procs, NEW q \in Procs, p # q,
                      NEW o \in given[p], o \in given[q]
               PROVE  FALSE
    BY DEF ForkSeparates
  <2>1. o.seed \in SeedsOf(p) /\ o.seed \in SeedsOf(q) BY DEF SeedsOf
  <2> QED BY <2>1 DEF SeedInv, SeedsApart
<1> QED BY <1>1, SeedInvariance, PTL

-----------------------------------------------------------------------------
(* Output of careful callers.                                              *)

(* While u works on a seed, or takes output, no other thread writes to the *)
(* generator.                                                              *)
LEMMA Undisturbed ==
  ASSUME OutputInv, NEW t \in Threads, NEW u \in Threads, u # t, Proc(u) = Proc(t),
         Running(Proc(t)), pc[u] \in {"magic", "pid", "take", "advance"}
  PROVE  pc[t] \notin {"reseed", "checkpid", "memset", "clear", "pid"}
<1>1. SetupAlone /\ LockMatchesHolder BY DEF OutputInv, LockInv
<1>2. t \in Peers(u) /\ u \in Peers(t) BY ProcType
<1>3. M(u) = M(t) BY DEF M
<1>4. CASE pc[u] \in {"magic", "pid"}
  <2>1. Exclusive(u) BY <1>4 DEF Exclusive, Setup
  <2>2. pc[t] = "idle" BY <2>1, <1>1, <1>2 DEF SetupAlone
  <2> QED BY <2>2
<1>5. CASE pc[u] \in {"take", "advance"}
  <2>1. M(t).lock = u BY <1>5, <1>1, <1>3 DEF LockMatchesHolder, Critical
  <2>2. pc[t] # "checkpid" BY <2>1, <1>1 DEF LockMatchesHolder, Critical
  <2>3. ~Exclusive(t) BY <1>5, <1>1, <1>2 DEF SetupAlone
  <2> QED BY <2>2, <2>3 DEF Exclusive, Setup
<1> QED BY <1>4, <1>5

LEMMA QuietOutput ==
  ASSUME OutputInv, NEW t \in Threads, Quietly(t)
  PROVE  Seeded' /\ Spent'
<1>1. PICK l, m : StepOf(t, l, m) /\ Traced(t, l, m) /\ given' = given BY DEF Quietly
<1>2. TypeOK BY DEF OutputInv, SeedInv
<1>3. /\ Proc(t) \in Procs /\ mem'[Proc(t)] = m /\ pc'[t] = l
      /\ \A p \in Procs : p # Proc(t) => mem'[p] = mem[p]
      /\ \A u \in Threads : u # t => pc'[u] = pc[u]
  BY <1>1, <1>2, StepOfFrame
<1>4. Running(Proc(t)) /\ status' = status /\ m \in Memory BY <1>1 DEF StepOf
<1>5. draws \in Nat /\ M(t).seed \in Nat /\ M(t).at \in Nat BY <1>2, ThreadType
<1>6. \A u \in Threads : Proc(u) \in Procs BY ProcType
<1>7. /\ M(t).pid = Proc(t) \/ pc[t] \in {"magic", "pid"} => M(t).seed # 0
      /\ pc[t] \in {"take", "advance"} => M(t).pid = Proc(t)
  BY <1>4 DEF OutputInv, Seeded
<1>8. m.pid = Proc(t) \/ l \in {"magic", "pid"} => m.seed # 0
  <2>1. CASE Draws(t, l, m) BY <2>1, <1>5 DEF Draws
  <2>2. CASE Zeroes(t, l, m)
    <3>1. Free # Proc(t) BY <1>3, GlobalParameters DEF Procs
    <3> QED BY <3>1, <2>2 DEF Zeroes
  <2>3. CASE Keeps(t, l, m) BY <2>3, <1>7 DEF Keeps
  <2> QED BY <2>1, <2>2, <2>3, <1>1 DEF Traced
<1>9. Seeded'
  <2> SUFFICES ASSUME NEW u \in Threads, Running(Proc(u))
               PROVE  /\ \/ mem'[Proc(u)].pid = Proc(u)
                         \/ pc'[u] \in {"magic", "pid"}
                         => mem'[Proc(u)].seed # 0
                      /\ pc'[u] \in {"take", "advance"} => mem'[Proc(u)].pid = Proc(u)
    BY <1>4 DEF Seeded, Running, M
  <2>1. CASE u = t BY <2>1, <1>1, <1>3, <1>8 DEF Traced
  <2>2. CASE u # t /\ Proc(u) = Proc(t)
    <3>1. M(u) = M(t) /\ pc'[u] = pc[u] /\ mem'[Proc(u)] = m BY <2>2, <1>3 DEF M
    <3>2. /\ pc[u] \in {"magic", "pid"} => M(t).seed # 0
          /\ pc[u] \in {"take", "advance"} => M(t).pid = Proc(t)
      BY <3>1, <2>2, <1>4 DEF OutputInv, Seeded
    <3>3. CASE pc[u] \in {"magic", "pid", "take", "advance"}
      <4>1. pc[t] \notin {"reseed", "checkpid", "memset", "clear", "pid"}
        BY <2>2, <3>3, <1>4, Undisturbed
      <4>2. m.seed = M(t).seed /\ m.pid = M(t).pid
        BY <4>1, <1>1 DEF Traced, Draws, Zeroes, Keeps
      <4> QED BY <4>2, <3>1, <3>2, <2>2, <1>8
    <3> QED BY <3>1, <3>3, <2>2, <1>8
  <2>3. CASE Proc(u) # Proc(t)
    <3>1. M(u) = mem'[Proc(u)] /\ pc'[u] = pc[u] BY <2>3, <1>3, <1>6 DEF M
    <3> QED BY <3>1 DEF OutputInv, Seeded
  <2> QED BY <2>1, <2>2, <2>3
<1>10. Spent'
  <2> SUFFICES ASSUME NEW p \in Procs, NEW o \in given[p]
               PROVE  /\ o.seed # 0
                      /\ o.seed = mem'[p].seed =>
                           \/ o.at < mem'[p].at
                           \/ /\ o.at = mem'[p].at
                              /\ \E u \in Threads : Proc(u) = p /\ pc'[u] = "advance"
    BY <1>1 DEF Spent
  <2>1. /\ o.seed # 0
        /\ o.seed = mem[p].seed =>
             \/ o.at < mem[p].at
             \/ o.at = mem[p].at /\ \E u \in Threads : Proc(u) = p /\ pc[u] = "advance"
    BY DEF OutputInv, Spent
  <2>2. o.at \in Nat BY <1>2 DEF TypeOK
  <2>3. o.seed \in 0..draws
    <3>1. o.seed \in SeedsOf(p) BY DEF SeedsOf
    <3> QED BY <3>1 DEF OutputInv, SeedInv, SeedsApart
  <2>4. CASE p # Proc(t) BY <2>1, <2>4, <1>3
  <2>5. CASE p = Proc(t)
    <3>1. CASE Draws(t, l, m) BY <3>1, <2>1, <2>3, <2>5, <1>3, <1>5 DEF Draws
    <3>2. CASE Zeroes(t, l, m) BY <3>2, <2>1, <2>5, <1>3 DEF Zeroes
    <3>3. CASE Keeps(t, l, m)
      <4>1. m.seed = M(t).seed /\ m.at \in {M(t).at, M(t).at + 1}
            /\ (pc[t] = "advance" => m.at = M(t).at + 1)
        BY <3>3 DEF Keeps
      <4>2. mem[p] = M(t) /\ mem'[p] = m BY <2>5, <1>3 DEF M
      <4>3. CASE o.at < M(t).at BY <4>1, <4>2, <4>3, <2>1, <2>2, <1>5
      <4>4. CASE o.at = M(t).at /\ \E u \in Threads : Proc(u) = p /\ pc[u] = "advance"
        <5>1. PICK u \in Threads : Proc(u) = p /\ pc[u] = "advance" BY <4>4
        <5>2. CASE u = t BY <5>1, <5>2, <4>1, <4>2, <4>4, <2>1, <2>2, <1>5
        <5>3. CASE u # t
          <6>1. pc'[u] = "advance" BY <5>1, <5>3, <1>3
          <6>2. m.at = o.at \/ o.at < m.at BY <4>1, <4>4, <2>2, <1>5
          <6> QED BY <6>1, <6>2, <5>1, <4>2, <2>1
        <5> QED BY <5>2, <5>3
      <4> QED BY <4>1, <4>2, <4>3, <4>4, <2>1
    <3> QED BY <3>1, <3>2, <3>3, <1>1 DEF Traced
  <2> QED BY <2>4, <2>5
<1> QED BY <1>9, <1>10

(* What is handed out is of a seed, and new.                               *)
LEMMA TakeGood ==
  ASSUME OutputInv, NEW t \in Threads, Take(t)
  PROVE  /\ M(t).pid = Proc(t) /\ M(t).seed # 0
         /\ \A p \in Procs : [seed |-> M(t).seed, at |-> M(t).at] \notin given[p]
<1>1. TypeOK /\ SeedInv /\ LockMatchesHolder BY DEF OutputInv, SeedInv, LockInv
<1>2. pc[t] = "take" /\ Running(Proc(t)) /\ Proc(t) \in Procs BY <1>1, TakeFrame, ProcType
<1>3. M(t).pid = Proc(t) /\ M(t).seed # 0 BY <1>2 DEF OutputInv, Seeded
<1>4. M(t).at \in Nat BY <1>1, ThreadType
<1>5. PICK o : o = [seed |-> M(t).seed, at |-> M(t).at] OBVIOUS
<1>6. o.seed = M(t).seed /\ o.at = M(t).at BY <1>5
<1>7. ASSUME NEW p \in Procs, o \in given[p] PROVE FALSE
  <2>1. CASE p = Proc(t)
    <3>1. PICK u \in Threads : Proc(u) = p /\ pc[u] = "advance"
      BY <1>4, <1>6, <1>7, <2>1 DEF OutputInv, Spent, M
    <3>2. M(u).lock = u BY <3>1, <2>1, <1>1, <1>2 DEF LockMatchesHolder, Critical
    <3>3. M(t).lock = t BY <1>1, <1>2 DEF LockMatchesHolder, Critical
    <3>4. M(u) = M(t) BY <3>1, <2>1 DEF M
    <3> QED BY <3>1, <3>2, <3>3, <3>4, <1>2
  <2>2. CASE p # Proc(t)
    <3>1. M(t).seed \in SeedsOf(Proc(t)) BY <1>1, <1>2, TakeOwns
    <3>2. o.seed \in SeedsOf(p) BY <1>7 DEF SeedsOf
    <3>3. SeedsOf(p) \cap SeedsOf(Proc(t)) = {} BY <2>2, <1>1, <1>2 DEF SeedInv, SeedsApart
    <3> QED BY <3>1, <3>2, <3>3, <1>6
  <2> QED BY <2>1, <2>2
<1> QED BY <1>3, <1>5, <1>7

LEMMA TakeOutput ==
  ASSUME OutputInv, NEW t \in Threads, Take(t)
  PROVE  Seeded' /\ Spent'
<1>1. TypeOK BY DEF OutputInv, SeedInv
<1>2. /\ pc[t] = "take" /\ pc'[t] = "advance" /\ Running(Proc(t))
      /\ \A u \in Threads : u # t => pc'[u] = pc[u]
      /\ given'[Proc(t)] = given[Proc(t)] \cup {[seed |-> M(t).seed, at |-> M(t).at]}
      /\ \A p \in Procs : p # Proc(t) => given'[p] = given[p]
      /\ mem' = mem /\ status' = status
  BY <1>1, TakeFrame
<1>3. M(t).pid = Proc(t) /\ M(t).seed # 0 BY TakeGood
<1>4. Seeded'
  <2> SUFFICES ASSUME NEW u \in Threads, Running(Proc(u))
               PROVE  /\ M(u).pid = Proc(u) \/ pc'[u] \in {"magic", "pid"} => M(u).seed # 0
                      /\ pc'[u] \in {"take", "advance"} => M(u).pid = Proc(u)
    BY <1>2 DEF Seeded, Running, M
  <2>1. CASE u = t BY <2>1, <1>2, <1>3
  <2>2. CASE u # t BY <2>2, <1>2 DEF OutputInv, Seeded
  <2> QED BY <2>1, <2>2
<1>5. Spent'
  <2> SUFFICES ASSUME NEW p \in Procs, NEW o \in given'[p]
               PROVE  /\ o.seed # 0
                      /\ o.seed = mem[p].seed =>
                           \/ o.at < mem[p].at
                           \/ /\ o.at = mem[p].at
                              /\ \E u \in Threads : Proc(u) = p /\ pc'[u] = "advance"
    BY <1>2 DEF Spent
  <2>1. CASE o \in given[p]
    <3>1. /\ o.seed # 0
          /\ o.seed = mem[p].seed =>
               \/ o.at < mem[p].at
               \/ o.at = mem[p].at /\ \E u \in Threads : Proc(u) = p /\ pc[u] = "advance"
      BY <2>1 DEF OutputInv, Spent
    <3>2. \A u \in Threads : pc[u] = "advance" => pc'[u] = "advance" BY <1>2
    <3> QED BY <3>1, <3>2
  <2>2. CASE o \notin given[p]
    <3>1. p = Proc(t) /\ o = [seed |-> M(t).seed, at |-> M(t).at] BY <2>2, <1>2
    <3>2. o.seed = M(t).seed /\ o.at = M(t).at BY <3>1
    <3> QED BY <3>1, <3>2, <1>2, <1>3 DEF M
  <2> QED BY <2>1, <2>2
<1> QED BY <1>4, <1>5

LEMMA ForkOutput ==
  ASSUME OutputInv, NEW t \in Threads, Fork(t)
  PROVE  Seeded' /\ Spent'
<1>1. PICK c \in Children :
        /\ status[c] = "unborn" /\ c # Proc(t)
        /\ mem'[c] = M(t) /\ \A p \in Procs : p # c => mem'[p] = mem[p]
        /\ status'[c] = "running" /\ \A p \in Procs : p # c => status'[p] = status[p]
        /\ UNCHANGED <<pc, op, draws, given>>
        /\ pc[c] = "idle" /\ given[c] = {} /\ \A p \in Procs : mem'[p].pid # c
  BY ForkFrame DEF OutputInv
<1>2. \A u \in Threads : Proc(u) \in Procs /\ (Proc(u) = c <=> u = c) BY ProcType
<1>3. c \in Procs BY DEF Procs
<1>4. Seeded'
  <2> SUFFICES ASSUME NEW u \in Threads, Running(Proc(u))'
               PROVE  /\ \/ mem'[Proc(u)].pid = Proc(u)
                         \/ pc[u] \in {"magic", "pid"}
                         => mem'[Proc(u)].seed # 0
                      /\ pc[u] \in {"take", "advance"} => mem'[Proc(u)].pid = Proc(u)
    BY <1>1 DEF Seeded, M
  <2>1. CASE u = c BY <2>1, <1>1, <1>2, <1>3
  <2>2. CASE u # c
    <3>1. Running(Proc(u)) /\ mem'[Proc(u)] = M(u) BY <2>2, <1>1, <1>2 DEF Running, M
    <3> QED BY <3>1 DEF OutputInv, Seeded
  <2> QED BY <2>1, <2>2
<1>5. Spent' BY <1>1 DEF OutputInv, Spent
<1> QED BY <1>4, <1>5

-----------------------------------------------------------------------------
LEMMA InitOutput == Init => OutputInv
<1> SUFFICES ASSUME Init PROVE OutputInv
  OBVIOUS
<1>1. LockInv /\ SeedInv BY InitSafe, InitSeeds
<1>2. \A u \in Threads : Proc(u) \in Procs /\ Free # Proc(u)
  BY ProcType, GlobalParameters DEF Procs
<1>3. \A u \in Threads : pc[u] = "idle" /\ M(u).pid = Free BY <1>2 DEF Init, Zeroed, M
<1>4. Seeded BY <1>2, <1>3 DEF Seeded
<1>5. Spent BY DEF Init, Spent
<1> QED BY <1>1, <1>4, <1>5 DEF OutputInv

LEMMA NextOutput ==
  ASSUME OutputInv, Careful, [Next]_vars
  PROVE  OutputInv'
<1>1. LockInv /\ SeedInv /\ TypeOK BY DEF OutputInv, SeedInv
<1>2. LockInv' /\ SeedInv' BY <1>1, NextSafe, NextSeeds
<1>3. ASSUME UNCHANGED <<mem, pc, given>>,
             \A p \in Procs : status'[p] = "running" => status[p] = "running"
      PROVE  OutputInv'
  <2>1. \A u \in Threads : Proc(u) \in Procs BY ProcType
  <2>2. Seeded' BY <1>3, <2>1 DEF OutputInv, Seeded, Running, M
  <2>3. Spent' BY <1>3 DEF OutputInv, Spent
  <2> QED BY <1>2, <2>2, <2>3 DEF OutputInv
<1>4. CASE UNCHANGED vars BY <1>3, <1>4 DEF vars
<1>5. CASE Next
  <2>1. PICK t \in Threads : Quietly(t) \/ Leaves(t) \/ Take(t) \/ Fork(t)
    BY <1>1, <1>5, NextCases
  <2>2. CASE Leaves(t)
    <3>1. \A p \in Procs : status'[p] = "running" => status[p] = "running"
      BY <1>1, <2>2, ProcType DEF Leaves, Gone, TypeOK
    <3> QED BY <3>1, <2>2, <1>3 DEF Leaves
  <2>3. CASE Quietly(t) \/ Take(t) \/ Fork(t)
    <3>1. Seeded' /\ Spent' BY <2>3, QuietOutput, TakeOutput, ForkOutput
    <3> QED BY <3>1, <1>2 DEF OutputInv
  <2> QED BY <2>1, <2>2, <2>3
<1> QED BY <1>4, <1>5

(* The invariant of the output of careful callers.                         *)
THEOREM OutputInvariance ==
  ASSUME Careful
  PROVE  Spec => []OutputInv
<1>1. OutputInv /\ [Next]_vars => OutputInv' BY NextOutput
<1> QED BY <1>1, InitOutput, PTL DEF Spec

(* What the global state hands out is never the zeroed generator's and     *)
(* never a repetition, in any process, for any number of threads, forks    *)
(* and calls, if nobody initialises or wipes the state while another       *)
(* thread is in a call.                                                    *)
THEOREM OutputIsGood ==
  ASSUME Careful
  PROVE  Spec => GoodOutput
<1>1. OutputInv /\ [Next]_vars =>
        [\A t \in Threads : Take(t) =>
           M(t).seed # 0 /\ \A p \in Procs : [seed |-> M(t).seed, at |-> M(t).at] \notin given[p]]_vars
  BY TakeGood
<1> QED BY <1>1, OutputInvariance, PTL DEF Spec, GoodOutput
=============================================================================
