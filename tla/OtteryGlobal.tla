---------------------------- MODULE OtteryGlobal ----------------------------
(***************************************************************************)
(* The global state of ottery_global.c, shared by the threads of a         *)
(* process: the flag that says it is initialised, the magic number that    *)
(* says it again, and the lock of ottery-threading.h.  A step is what one  *)
(* thread does between two looks at the memory the others share.           *)
(*                                                                         *)
(* OtteryState takes from here that an operation on a state is atomic, and *)
(* this module takes from there what an operation does: output is known by *)
(* the draw of entropy it comes from and its place in the sequence of that *)
(* draw, and every block, byte or seed moves on in the sequence.           *)
(***************************************************************************)
EXTENDS Integers, FiniteSets

CONSTANTS
  Workers,   (* the threads of the first process                           *)
  Children,  (* the processes fork() may add, of one thread each           *)
  Home,      (* the first process                                          *)
  Free,      (* a lock that nobody holds, initialised or zeroed; the pid   *)
             (* of a zeroed state                                          *)
  Calls,     (* the calls that threads make                                *)
  Careful,   (* do callers initialise and wipe while no other thread is    *)
             (* in a call?                                                 *)
  MaxOps     (* bound: calls, forks and rejected draws in a behaviour      *)

ASSUME GlobalParameters ==
  /\ Home \notin Children /\ Workers \cap Children = {}
  /\ Free \notin Workers \cup Children \cup {Home}
  /\ Calls \subseteq {"init", "wipe", "seed", "system", "rand", "range", "prevent"}
  /\ Careful \in BOOLEAN /\ MaxOps \in Nat

Threads == Workers \cup Children
Procs   == {Home} \cup Children
Proc(t) == IF t \in Workers THEN Home ELSE t
Peers(t) == {u \in Threads \ {t} : Proc(u) = Proc(t)}

VARIABLES
  mem,    (* mem[p]: the static variables of ottery_global.c in process p   *)
  pc,     (* pc[t]: what thread t does next                                 *)
  op,     (* op[t]: the call it is in                                       *)
  status, (* status[p]: is process p unborn, running or gone?               *)
  draws,  (* how many draws of entropy there have been                      *)
  given,  (* given[p]: all output handed to callers in p                    *)
  ops     (* the count bounded by MaxOps                                    *)

vars == <<mem, pc, op, status, draws, given, ops>>

(* flag is ottery_global_state_initialized_; the rest is                   *)
(* ottery_global_state_, of which prf tells whether st->prf is set, and    *)
(* seed and at stand for the generator.  Seed 0 is the zeroed one.         *)
Memory ==
  [flag : BOOLEAN, magic : BOOLEAN, prf : BOOLEAN, lock : Threads \cup {Free},
   pid : Procs \cup {Free}, seed : Nat, at : Nat]

(* What memset leaves: a zeroed mutex works as a free one.                 *)
Zeroed(flag) ==
  [flag |-> flag, magic |-> FALSE, prf |-> FALSE, lock |-> Free,
   pid |-> Free, seed |-> 0, at |-> 0]

Setup    == {"memset", "initlock", "prf", "reseed", "magic", "pid", "flag"}
Critical == {"checkpid", "take", "advance", "mix", "unlock"}
Labels   == {"idle", "check", "wipe", "clear", "checkinit", "draw", "lock"} \cup Setup \cup Critical

Init ==
  /\ mem = [p \in Procs |-> Zeroed(FALSE)]
  /\ pc = [t \in Threads |-> "idle"] /\ op = [t \in Threads |-> "none"]
  /\ status = [p \in Procs |-> IF p = Home THEN "running" ELSE "unborn"]
  /\ draws = 0 /\ given = [p \in Procs |-> {}] /\ ops = 0

-----------------------------------------------------------------------------
Running(p) == status[p] = "running"

(* Thread t, of a process that runs, is at l and goes on to m.             *)
At(t, l) == Running(Proc(t)) /\ pc[t] = l
Goto(t, m) ==
  /\ pc' = [pc EXCEPT ![t] = m]
  /\ op' = IF m = "idle" THEN [op EXCEPT ![t] = "none"] ELSE op
Set(t, m) == mem' = [mem EXCEPT ![Proc(t)] = m]

M(t) == mem[Proc(t)]

(* The state as the code under the lock moves it on.                       *)
Moved(m) == [m EXCEPT !.at = @ + 1]
Reseeded(m) == [m EXCEPT !.seed = draws + 1, !.at = 1]

Gone(t) == status' = [status EXCEPT ![Proc(t)] = "gone"]

(* ottery_fatal_error_: a handler that returns, or abort().                *)
Fatal(t) ==
  \/ Goto(t, "idle") /\ UNCHANGED status
  \/ Gone(t) /\ UNCHANGED <<pc, op>>

(* What a careful program makes sure of before t makes call c.             *)
Alone(t, c) ==
  /\ \A u \in Peers(t) : pc[u] \notin Setup \cup {"wipe", "clear"}
  /\ c \in {"init", "wipe"} \/ ~M(t).flag => \A u \in Peers(t) : pc[u] = "idle"

(* A call of the public interface.                                         *)
Start(t) ==
  /\ At(t, "idle") /\ ops < MaxOps /\ ops' = ops + 1
  /\ \E c \in Calls :
       /\ Careful => Alone(t, c)
       /\ op' = [op EXCEPT ![t] = c]
       /\ pc' = [pc EXCEPT ![t] = CASE c = "init" -> "memset" [] c = "wipe" -> "wipe"
                                    [] OTHER -> "check"]
  /\ UNCHANGED <<mem, status, draws, given>>

-----------------------------------------------------------------------------
(* CHECK_INIT, and ottery_init, whose memory accesses are those of         *)
(* ottery_st_initialize.  There is no lock yet to protect them.            *)

(* mutant of CheckInit: every call initialises                             *)
CheckInitAlways(t) ==
  /\ At(t, "check")
  /\ Goto(t, "memset")
  /\ UNCHANGED <<mem, status, draws, given, ops>>

CheckInit(t) ==
  /\ At(t, "check")
  /\ Goto(t, IF ~M(t).flag THEN "memset"
             ELSE IF op[t] = "prevent" THEN "lock" ELSE "checkinit")
  /\ UNCHANGED <<mem, status, draws, given, ops>>

InitMemset(t) ==
  /\ At(t, "memset")
  /\ Set(t, Zeroed(M(t).flag)) /\ Goto(t, "initlock")
  /\ UNCHANGED <<status, draws, given, ops>>

(* INIT_LOCK makes the lock free, whoever took it since the memset.        *)
InitLock(t) ==
  /\ At(t, "initlock")
  /\ Set(t, [M(t) EXCEPT !.lock = Free]) /\ Goto(t, "prf")
  /\ UNCHANGED <<status, draws, given, ops>>

InitPrf(t) ==
  /\ At(t, "prf")
  /\ Set(t, [M(t) EXCEPT !.prf = TRUE]) /\ Goto(t, "reseed")
  /\ UNCHANGED <<status, draws, given, ops>>

InitReseed(t) ==
  /\ At(t, "reseed")
  /\ Set(t, Reseeded(M(t))) /\ draws' = draws + 1 /\ Goto(t, "magic")
  /\ UNCHANGED <<status, given, ops>>

(* No lock, or no entropy: an error from ottery_init, a fatal one from     *)
(* CHECK_INIT.                                                             *)
InitFails(t) ==
  /\ \/ At(t, "initlock") \/ At(t, "prf") \/ At(t, "reseed")
  /\ IF op[t] = "init" THEN Goto(t, "idle") /\ UNCHANGED status ELSE Fatal(t)
  /\ UNCHANGED <<mem, draws, given, ops>>

InitMagic(t) ==
  /\ At(t, "magic")
  /\ Set(t, [M(t) EXCEPT !.magic = TRUE]) /\ Goto(t, "pid")
  /\ UNCHANGED <<status, draws, given, ops>>

InitPid(t) ==
  /\ At(t, "pid")
  /\ Set(t, [M(t) EXCEPT !.pid = Proc(t)]) /\ Goto(t, "flag")
  /\ UNCHANGED <<status, draws, given, ops>>

InitFlag(t) ==
  /\ At(t, "flag")
  /\ Set(t, [M(t) EXCEPT !.flag = TRUE])
  /\ Goto(t, CASE op[t] = "init" -> "idle" [] op[t] = "prevent" -> "lock"
               [] OTHER -> "checkinit")
  /\ UNCHANGED <<status, draws, given, ops>>

(* ottery_wipe: the flag first, then the state, without taking its lock.   *)
WipeFlag(t) ==
  /\ At(t, "wipe")
  /\ Set(t, [M(t) EXCEPT !.flag = FALSE])
  /\ Goto(t, IF M(t).flag THEN "clear" ELSE "idle")
  /\ UNCHANGED <<status, draws, given, ops>>

WipeState(t) ==
  /\ At(t, "clear")
  /\ Set(t, Zeroed(M(t).flag)) /\ Goto(t, "idle")
  /\ UNCHANGED <<status, draws, given, ops>>

-----------------------------------------------------------------------------
(* The ottery_st functions behind the other calls.                         *)

(* Where a call goes from the check of magic, and from LOCK.               *)
Prepare(c) == IF c = "system" THEN "draw" ELSE "lock"
Inside(c) ==
  CASE c \in {"rand", "range"} -> "checkpid" [] c \in {"seed", "system"} -> "mix"
    [] OTHER -> "unlock"

(* ottery_st_rand_check_init, before the lock is taken.                    *)
CheckMagic(t) ==
  /\ At(t, "checkinit")
  /\ IF M(t).magic THEN Goto(t, Prepare(op[t])) /\ UNCHANGED status ELSE Fatal(t)
  /\ UNCHANGED <<mem, draws, given, ops>>

(* ottery_st_add_seed(st, NULL, 0) asks for entropy before it locks; on an *)
(* error it returns.                                                       *)
DrawEntropy(t) ==
  /\ At(t, "draw")
  /\ \/ draws' = draws + 1 /\ Goto(t, "lock")
     \/ UNCHANGED draws /\ Goto(t, "idle")
  /\ UNCHANGED <<mem, status, given, ops>>

Lock(t) ==
  /\ At(t, "lock") /\ M(t).lock = Free
  /\ Set(t, [M(t) EXCEPT !.lock = t]) /\ Goto(t, Inside(op[t]))
  /\ UNCHANGED <<status, draws, given, ops>>

(* UNLOCK: pthread_mutex_unlock frees it whoever holds it.                 *)
Unlock(t) ==
  /\ At(t, "unlock")
  /\ Set(t, [M(t) EXCEPT !.lock = Free]) /\ Goto(t, "idle")
  /\ UNCHANGED <<status, draws, given, ops>>

(* A draw of ottery_st_rand_range checks magic again, under the lock.      *)
BadMagic(t) == op[t] = "range" /\ ~M(t).magic

(* mutant of CheckPid: the pid is brought up to date, the seed is not      *)
CheckPidNoReseed(t) ==
  /\ At(t, "checkpid")
  /\ Set(t, [M(t) EXCEPT !.pid = Proc(t)])
  /\ Goto(t, "take")
  /\ UNCHANGED <<status, draws, given, ops>>

(* ottery_st_rand_check_pid, under the lock: a copied state is reseeded.   *)
CheckPid(t) ==
  /\ At(t, "checkpid") /\ ~BadMagic(t)
  /\ \/ /\ M(t).pid = Proc(t)
        /\ UNCHANGED <<mem, draws>>
     \/ /\ M(t).pid # Proc(t) /\ M(t).prf
        /\ Set(t, [Reseeded(M(t)) EXCEPT !.pid = Proc(t)])
        /\ draws' = draws + 1
  /\ Goto(t, "take")
  /\ UNCHANGED <<status, given, ops>>

(* mutant of CheckPidFails: it returns without unlocking                   *)
CheckPidFailsLocked(t) ==
  /\ At(t, "checkpid")
  /\ BadMagic(t) \/ M(t).pid # Proc(t)
  /\ \/ Goto(t, "idle") /\ UNCHANGED status
     \/ Gone(t) /\ UNCHANGED <<pc, op>>
  /\ UNCHANGED <<mem, draws, given, ops>>

(* No entropy, or no magic: a fatal error with the lock held, then UNLOCK. *)
CheckPidFails(t) ==
  /\ At(t, "checkpid")
  /\ BadMagic(t) \/ M(t).pid # Proc(t)
  /\ \/ Goto(t, "unlock") /\ UNCHANGED status
     \/ Gone(t) /\ UNCHANGED <<pc, op>>
  /\ UNCHANGED <<mem, draws, given, ops>>

(* Output: the bytes are copied out, then the state moves on.              *)
Take(t) ==
  /\ At(t, "take") /\ M(t).prf
  /\ given' = [given EXCEPT ![Proc(t)] = @ \cup {[seed |-> M(t).seed, at |-> M(t).at]}]
  /\ Goto(t, "advance")
  /\ UNCHANGED <<mem, status, draws, ops>>

(* mutant of Advance: the state does not move on before another round      *)
AdvanceAtEnd(t) ==
  /\ At(t, "advance")
  /\ \/ Set(t, Moved(M(t))) /\ Goto(t, "unlock") /\ UNCHANGED ops
     \/ /\ op[t] = "range" /\ ops < MaxOps /\ ops' = ops + 1
        /\ UNCHANGED mem /\ Goto(t, "checkpid")
  /\ UNCHANGED <<status, draws, given>>

(* mutant of Advance: the call returns without UNLOCK                      *)
AdvanceKeepsLock(t) ==
  /\ At(t, "advance")
  /\ Set(t, Moved(M(t)))
  /\ \/ Goto(t, "idle") /\ UNCHANGED ops
     \/ op[t] = "range" /\ ops < MaxOps /\ ops' = ops + 1 /\ Goto(t, "checkpid")
  /\ UNCHANGED <<status, draws, given>>

(* ... and ottery_st_rand_range may go round again.                        *)
Advance(t) ==
  /\ At(t, "advance")
  /\ Set(t, Moved(M(t)))
  /\ \/ Goto(t, "unlock") /\ UNCHANGED ops
     \/ op[t] = "range" /\ ops < MaxOps /\ ops' = ops + 1 /\ Goto(t, "checkpid")
  /\ UNCHANGED <<status, draws, given>>

(* The seeding loop of ottery_st_add_seed_impl.                            *)
Mix(t) ==
  /\ At(t, "mix") /\ M(t).prf
  /\ Set(t, Moved(M(t))) /\ Goto(t, "unlock")
  /\ UNCHANGED <<status, draws, given, ops>>

(* With st->prf zeroed by another thread there is no function to call.     *)
Crash(t) ==
  /\ \/ At(t, "take") \/ At(t, "mix")
     \/ At(t, "checkpid") /\ ~BadMagic(t) /\ M(t).pid # Proc(t)
  /\ ~M(t).prf
  /\ Gone(t)
  /\ UNCHANGED <<mem, pc, op, draws, given, ops>>

-----------------------------------------------------------------------------
(* fork() (external), by a thread that is in no call: the other threads of *)
(* the parent may be anywhere, and are not there in the child.             *)
Fork(t) ==
  /\ At(t, "idle") /\ ops < MaxOps /\ ops' = ops + 1
  /\ \E c \in Children :
       /\ status[c] = "unborn"
       /\ status' = [status EXCEPT ![c] = "running"]
       /\ mem' = [mem EXCEPT ![c] = M(t)]
  /\ UNCHANGED <<pc, op, draws, given>>

Lib(t) ==
  \/ CheckInit(t) \/ InitMemset(t) \/ InitLock(t) \/ InitPrf(t) \/ InitReseed(t)
  \/ InitFails(t) \/ InitMagic(t) \/ InitPid(t) \/ InitFlag(t) \/ WipeFlag(t) \/ WipeState(t)
  \/ CheckMagic(t) \/ DrawEntropy(t) \/ Lock(t) \/ Unlock(t)
  \/ CheckPid(t) \/ CheckPidFails(t) \/ Take(t) \/ Advance(t) \/ Mix(t) \/ Crash(t)

Next == \E t \in Threads : Start(t) \/ Lib(t) \/ Fork(t)

Spec == Init /\ [][Next]_vars

(* Every thread keeps running, and the sources of entropy answer.          *)
LiveSpec == Spec /\ \A t \in Threads : WF_vars(Lib(t))

-----------------------------------------------------------------------------
(* Properties.                                                             *)

TypeOK ==
  /\ mem \in [Procs -> Memory]
  /\ pc \in [Threads -> Labels] /\ op \in [Threads -> Calls \cup {"none"}]
  /\ status \in [Procs -> {"unborn", "running", "gone"}]
  /\ draws \in Nat /\ ops \in 0..MaxOps
  /\ given \in [Procs -> SUBSET [seed : Nat, at : Nat]]

(* A thread is inside a critical section exactly while the lock of its     *)
(* process names it: so no two are inside, and every way out of a call,    *)
(* error paths too, leaves the lock free.                                  *)
LockMatchesHolder ==
  \A t \in Threads : Running(Proc(t)) =>
    (pc[t] \in Critical <=> M(t).lock = t)

(* README.md: "threadsafe by default [...] you don't need to tell it to    *)
(* lock itself to tolerate concurrent access [...] It also tries to make   *)
(* it impossible to accidentally use it unseeded".  What is handed out is  *)
(* never the zeroed state's and never a repetition, in any process.        *)
GoodOutput ==
  [][\A t \in Threads : Take(t) =>
       M(t).seed # 0 /\ \A p \in Procs : [seed |-> M(t).seed, at |-> M(t).at] \notin given[p]]_vars

(* README.md: "forksafe by default".  No two processes hand out the same   *)
(* output, even if their threads race on the initialisation, and wherever  *)
(* the threads of the parent were when it forked.                          *)
ForkSeparates ==
  \A p, q \in Procs : p # q => given[p] \cap given[q] = {}

(* Every call in the first process returns, or the process is gone: who    *)
(* gets the lock lets go of it on every path, so one that waits gets it.   *)
(* There are at most MaxOps calls: that a mutex which is not fair may be   *)
(* taken by others for ever is outside this claim.                         *)
CallsReturn ==
  \A t \in Workers : pc[t] # "idle" ~> pc[t] = "idle" \/ ~Running(Home)

(* README.md: "you don't need to explicitly reinitialize it after each     *)
(* fork()".  Every call in a child returns, or the child is gone.          *)
ForkedCallsReturn ==
  \A c \in Children : pc[c] # "idle" ~> pc[c] = "idle" \/ ~Running(c)

-----------------------------------------------------------------------------
(* The inductive invariant behind LockMatchesHolder, for careful callers.  *)

(* Whoever initialises or wipes, or is about to, has the process to itself. *)
Exclusive(t) ==
  \/ pc[t] \in Setup \cup {"wipe", "clear"}
  \/ pc[t] = "check" /\ ~M(t).flag

SetupAlone ==
  \A t \in Threads : Running(Proc(t)) /\ Exclusive(t) =>
    \A u \in Peers(t) : pc[u] = "idle"

(* A thread that does not exist yet is in no call and holds no lock.       *)
UnbornIdle ==
  \A c \in Children : status[c] = "unborn" =>
    pc[c] = "idle" /\ \A p \in Procs : mem[p].lock # c

LockInv == TypeOK /\ SetupAlone /\ UnbornIdle /\ LockMatchesHolder

(* The inductive invariant behind ForkSeparates, for all callers.          *)

(* A child draws a seed of its own before it hands out anything: from then *)
(* on its state bears its pid, or it is about to.  The first process never *)
(* had a state from anybody else.                                          *)
Owns(p) == p = Home \/ mem[p].pid = p \/ pc[p] \in {"magic", "pid"}

SeedsOf(p) == {o.seed : o \in given[p]} \cup (IF Owns(p) THEN {mem[p].seed} ELSE {})

(* No two processes have given out, or are going to give out, output of    *)
(* one seed, and none but the first that of the zeroed state.              *)
SeedsApart ==
  /\ \A p \in Procs : SeedsOf(p) \subseteq 0..draws
  /\ \A c \in Children : 0 \notin SeedsOf(c)
  /\ \A p, q \in Procs : p # q => SeedsOf(p) \cap SeedsOf(q) = {}

OwnBeforeTake ==
  \A c \in Children : pc[c] = "take" => mem[c].pid = c

(* A process that does not exist yet has given out nothing, and no state   *)
(* bears its pid.                                                          *)
UnbornSilent ==
  \A c \in Children : status[c] = "unborn" =>
    pc[c] = "idle" /\ given[c] = {} /\ \A p \in Procs : mem[p].pid # c

SeedInv == TypeOK /\ SeedsApart /\ OwnBeforeTake /\ UnbornSilent

(* The rest of what GoodOutput needs, for careful callers.  A state that   *)
(* bears a pid, or is about to, is seeded, and one that hands out output   *)
(* bears the pid of its process ...                                        *)
Seeded ==
  \A t \in Threads : Running(Proc(t)) =>
    /\ M(t).pid = Proc(t) \/ pc[t] \in {"magic", "pid"} => M(t).seed # 0
    /\ pc[t] \in {"take", "advance"} => M(t).pid = Proc(t)

(* ... and it is past all the output of its seed that has been given out,  *)
(* but for a step that a thread is about to make.                          *)
Spent ==
  \A p \in Procs : \A o \in given[p] :
    /\ o.seed # 0
    /\ o.seed = mem[p].seed =>
         \/ o.at < mem[p].at
         \/ o.at = mem[p].at /\ \E t \in Threads : Proc(t) = p /\ pc[t] = "advance"

OutputInv == LockInv /\ SeedInv /\ Seeded /\ Spent
=============================================================================
