--------------------------- MODULE OtteryEntropy ---------------------------
(***************************************************************************)
(* ottery_get_entropy_ and the sources it asks (ottery_entropy.c and the   *)
(* files it includes, in a Unix build): calls made for one ottery_state,   *)
(* one action per system call, so that the world may change between any    *)
(* two of them.  OtteryState takes from here that a call either fails or   *)
(* delivers N bytes from each source of a nonempty set (Delivered).        *)
(*                                                                         *)
(* A byte is known by the source it came from and, for the random device,  *)
(* by the file it was read from.  Every caller in ottery.c passes          *)
(* select_sources = 0 and a buffer of ottery_get_entropy_bufsize_(N).      *)
(***************************************************************************)
EXTENDS Integers, Sequences, FiniteSets

CONSTANTS
  Table,      (* RAND_SOURCES: the sources of the build, in order          *)
  N,          (* bytes asked of each source: prf.state_bytes               *)
  Word,       (* bytes one RDRAND instruction gives: 4                     *)
  Configs,    (* the entropy_config values under study                     *)
  Files,      (* what a path or a descriptor may refer to                  *)
  NoFile,     (* no such file; a descriptor that is not open               *)
  MaxCalls,   (* bound: calls of ottery_get_entropy_                       *)
  MaxChanges  (* bound: changes of the world                               *)

Sources == {"urandom", "egd", "rdrand"}

(* The DOM bits: input from one source of a domain is enough.              *)
Domain == [urandom |-> "OS", egd |-> "EGD", rdrand |-> "CPU"]

(* urandom_fd_is_set, allow_nondev_urandom, egd_sockaddr # NULL, and the   *)
(* two masks, which hold source bits only.                                 *)
ConfigType ==
  [fd : BOOLEAN, nondev : BOOLEAN, egd : BOOLEAN,
   disabled : SUBSET Sources, weak : SUBSET Sources]

(* st_dev and st_ino, which together tell files apart, whether st_mode has *)
(* S_IFCHR, and whether reads hit the end.                                 *)
FileType == [dev : Nat, ino : Nat, chr : BOOLEAN, eof : BOOLEAN]

ASSUME EntropyParameters ==
  /\ Table \in Seq(Sources)
  /\ \A j, k \in DOMAIN Table : Table[j] = Table[k] => j = k
  /\ N \in Nat \ {0} /\ Word \in Nat \ {0}
  /\ Configs \subseteq ConfigType
  /\ Files \subseteq FileType /\ NoFile \notin Files
  /\ MaxCalls \in Nat /\ MaxChanges \in Nat

BufLen == N * Len(Table)
Slots  == 0..(Len(Table) - 1)
Unset  == [src |-> "none", from |-> NoFile]

VARIABLES
  cfg,      (* st->entropy_config                                           *)
  inode,    (* st->entropy_state.urandom_fd_inode, 0 when not yet known     *)
  pc,       (* "idle", "scan" (between sources), or the system call due     *)
  i,        (* index into Table                                             *)
  next,     (* where in buf the source at i writes                          *)
  fill,     (* how much of its N bytes it has written                       *)
  buf,      (* bytes                                                        *)
  got,      (* the source bits of got                                       *)
  strong,   (* its FL_STRONG bit                                            *)
  reply,    (* what the last call returned                                  *)
  own,      (* own_fd: the descriptor in use is one the library opened      *)
  opened,   (* what the descriptor that open() returned refers to           *)
  libfds,   (* descriptors the library has open                             *)
  path,     (* what urandom_fname names now, if it is to be opened          *)
  userfd,   (* what the user's urandom_fd refers to now, if one is set      *)
  touched,  (* whether the user has redirected or closed urandom_fd, and if *)
            (* so only between calls or during one                          *)
  devs,     (* device files whose bytes a successful call delivered         *)
  calls, changes

call  == <<i, next, fill, buf, got, strong>>
fds   == <<own, opened, libfds>>
world == <<path, userfd, touched, changes>>
vars  == <<cfg, inode, pc, call, reply, fds, world, devs, calls>>

Failure == [ok |-> FALSE, srcs |-> {}, len |-> 0]

Init ==
  /\ cfg \in Configs
  /\ path \in Files \cup {NoFile} /\ userfd \in Files \cup {NoFile}
  /\ IF cfg.fd THEN path = NoFile ELSE userfd = NoFile
  /\ inode = 0 /\ pc = "idle"
  /\ i = 1 /\ next = 0 /\ fill = 0 /\ got = {} /\ strong = FALSE
  /\ buf = [k \in 0..(BufLen - 1) |-> Unset]
  /\ reply = Failure
  /\ own = FALSE /\ opened = NoFile /\ libfds = 0
  /\ touched = "no" /\ devs = {} /\ calls = 0 /\ changes = 0

-----------------------------------------------------------------------------
(* ottery_get_entropy_.                                                    *)

Call ==
  /\ pc = "idle" /\ calls < MaxCalls
  /\ calls' = calls + 1
  /\ pc' = "scan" /\ i' = 1 /\ next' = 0 /\ fill' = 0
  /\ buf' = [k \in 0..(BufLen - 1) |-> Unset]
  /\ got' = {} /\ strong' = FALSE
  /\ UNCHANGED <<cfg, inode, reply, fds, world, devs>>

(* The source at i is neither disabled nor of a domain already heard from. *)
Wanted ==
  /\ Table[i] \notin cfg.disabled
  /\ \A s \in got : Domain[s] # Domain[Table[i]]

Room == next + N <= BufLen

Skip ==
  /\ pc = "scan" /\ i <= Len(Table) /\ ~Wanted
  /\ i' = i + 1
  /\ UNCHANGED <<cfg, inode, pc, next, fill, buf, got, strong, reply, fds, world, devs, calls>>

Ask ==
  /\ pc = "scan" /\ i <= Len(Table) /\ Wanted /\ Room
  /\ pc' = Table[i] /\ fill' = 0
  /\ UNCHANGED <<cfg, inode, i, next, buf, got, strong, reply, fds, world, devs, calls>>

(* The end of the loop: success only if some source was strong.            *)
Return ==
  /\ pc = "scan"
  /\ i <= Len(Table) => Wanted /\ ~Room
  /\ pc' = "idle"
  /\ reply' = IF strong THEN [ok |-> TRUE, srcs |-> got, len |-> next] ELSE Failure
  /\ devs' = devs \cup {buf[k].from : k \in {k \in 0..(next - 1) :
                                              strong /\ buf[k].src = "urandom"}}
  /\ UNCHANGED <<cfg, inode, call, fds, world, calls>>

(* mutant of Works: a weak source counts as strong                         *)
WorksThoughWeak ==
  /\ got' = got \cup {Table[i]}
  /\ strong' = TRUE
  /\ next' = next + N /\ i' = i + 1 /\ pc' = "scan"

(* The source at i returned 0.                                             *)
Works ==
  /\ got' = got \cup {Table[i]}
  /\ strong' = (strong \/ Table[i] \notin cfg.weak)
  /\ next' = next + N /\ i' = i + 1 /\ pc' = "scan"

(* mutant of Fails: the place of a failed source is kept                   *)
FailsButKeepsPlace ==
  /\ i' = i + 1 /\ pc' = "scan" /\ next' = next + N
  /\ UNCHANGED <<got, strong>>

(* The source at i returned an error.                                      *)
Fails ==
  /\ i' = i + 1 /\ pc' = "scan"
  /\ UNCHANGED <<next, got, strong>>

(* It wrote r more bytes.                                                  *)
Write(r, b) ==
  /\ fill' = fill + r
  /\ buf' = [k \in DOMAIN buf |->
               IF next + fill <= k /\ k < next + fill + r THEN b ELSE buf[k]]

-----------------------------------------------------------------------------
(* ottery_get_entropy_urandom.                                             *)

Target == IF own THEN opened ELSE userfd

CloseOwn ==
  /\ libfds' = IF own THEN libfds - 1 ELSE libfds
  /\ own' = FALSE /\ opened' = NoFile

(* The descriptor: the user's, or one of our own if open() gives one.      *)
UrandomOpen ==
  /\ pc = "urandom"
  /\ \/ /\ cfg.fd
        /\ own' = FALSE /\ pc' = "fstat"
        /\ UNCHANGED <<i, next, got, strong, opened, libfds>>
     \/ /\ ~cfg.fd /\ path # NoFile
        /\ own' = TRUE /\ opened' = path /\ libfds' = libfds + 1
        /\ pc' = "fstat"
        /\ UNCHANGED <<i, next, got, strong>>
     \/ /\ ~cfg.fd
        /\ Fails
        /\ UNCHANGED fds
  /\ UNCHANGED <<cfg, inode, fill, buf, reply, world, devs, calls>>

FstatFails ==
  /\ pc = "fstat"
  /\ Fails /\ CloseOwn
  /\ UNCHANGED <<cfg, inode, fill, buf, reply, world, devs, calls>>

(* fstat() works, and shows a device if it must be one.                    *)
IsDevice == Target \in {f \in Files : cfg.nondev \/ f.chr}

UrandomReject ==
  /\ pc = "fstat" /\ Target \in Files /\ ~IsDevice
  /\ Fails /\ CloseOwn
  /\ UNCHANGED <<cfg, inode, fill, buf, reply, world, devs, calls>>

(* mutant of SameDevice: the inode is not compared                         *)
AnyDevice == TRUE

(* st_ino is all that is compared, and an inode of 0 is not remembered.    *)
SameDevice == inode = 0 \/ Target.ino = inode

(* mutant of UrandomAccept: the device is not remembered                   *)
UrandomAcceptForgets ==
  /\ pc = "fstat" /\ IsDevice
  /\ cfg.nondev \/ SameDevice
  /\ pc' = "read"
  /\ UNCHANGED <<cfg, inode, call, reply, fds, world, devs, calls>>

(* A device, and the one of the earlier calls; the first is remembered.    *)
UrandomAccept ==
  /\ pc = "fstat" /\ IsDevice
  /\ cfg.nondev \/ SameDevice
  /\ inode' = IF cfg.nondev THEN inode ELSE Target.ino
  /\ pc' = "read"
  /\ UNCHANGED <<cfg, call, reply, fds, world, devs, calls>>

(* A device, but not that one: close(fd), be it ours or the user's.        *)
UrandomMismatch ==
  /\ pc = "fstat" /\ IsDevice
  /\ ~cfg.nondev /\ ~SameDevice
  /\ Fails /\ CloseOwn
  /\ userfd' = IF own THEN userfd ELSE NoFile
  /\ UNCHANGED <<cfg, inode, fill, buf, reply, path, touched, changes, devs, calls>>

-----------------------------------------------------------------------------
(* ottery_read_n_bytes_from_file_, for the device and for the EGD socket.  *)

Origin ==
  [src |-> Table[i], from |-> IF Table[i] = "urandom" THEN Target ELSE NoFile]

CanRead == Table[i] = "urandom" => Target \in {f \in Files : ~f.eof}

Read ==
  /\ pc = "read" /\ CanRead
  /\ \E r \in 1..(N - fill) :
       /\ Write(r, Origin)
       /\ IF fill + r = N THEN Works /\ CloseOwn
                          ELSE UNCHANGED <<i, next, got, strong, pc, fds>>
  /\ UNCHANGED <<cfg, inode, reply, world, devs, calls>>

(* mutant of ReadFails: the end of the file is no error                    *)
ReadFailsNotAtEof ==
  /\ pc = "read" /\ CanRead
  /\ Fails /\ CloseOwn
  /\ UNCHANGED <<cfg, inode, fill, buf, reply, world, devs, calls>>

(* mutant of ReadFails: close() whether or not the descriptor is ours      *)
ReadFailsClosing ==
  /\ pc = "read"
  /\ Fails /\ CloseOwn
  /\ userfd' = IF own THEN userfd ELSE NoFile
  /\ UNCHANGED <<cfg, inode, fill, buf, reply, path, touched, changes, devs, calls>>

(* read() returned 0 or an error (EINTR among them), perhaps after some of *)
(* the bytes had come.                                                     *)
ReadFails ==
  /\ pc = "read"
  /\ Fails /\ CloseOwn
  /\ UNCHANGED <<cfg, inode, fill, buf, reply, world, devs, calls>>

-----------------------------------------------------------------------------
(* ottery_get_entropy_egd and ottery_get_entropy_rdrand.                   *)

EgdSocket ==
  /\ pc = "egd" /\ cfg.egd
  /\ own' = TRUE /\ libfds' = libfds + 1
  /\ pc' = "connect"
  /\ UNCHANGED <<cfg, inode, call, reply, opened, world, devs, calls>>

(* Not configured, more bytes than EGD can give, or no socket to be had.   *)
EgdUnavailable ==
  /\ pc = "egd"
  /\ Fails
  /\ UNCHANGED <<cfg, inode, fill, buf, reply, fds, world, devs, calls>>

EgdConnect ==
  /\ pc = "connect"
  /\ pc' = "exchange"
  /\ UNCHANGED <<cfg, inode, call, reply, fds, world, devs, calls>>

(* mutant of EgdConnectFails: it returns instead of going to out           *)
EgdConnectReturns ==
  /\ pc = "connect"
  /\ Fails
  /\ UNCHANGED <<cfg, inode, fill, buf, reply, fds, world, devs, calls>>

EgdConnectFails ==
  /\ pc = "connect"
  /\ Fails /\ CloseOwn
  /\ UNCHANGED <<cfg, inode, fill, buf, reply, world, devs, calls>>

(* The request is sent and the daemon announces as many bytes ...          *)
EgdAnswers ==
  /\ pc = "exchange"
  /\ pc' = "read"
  /\ UNCHANGED <<cfg, inode, call, reply, fds, world, devs, calls>>

(* ... or it announces another number, or the exchange fails.              *)
EgdRefuses ==
  /\ pc = "exchange"
  /\ Fails /\ CloseOwn
  /\ UNCHANGED <<cfg, inode, fill, buf, reply, world, devs, calls>>

(* mutant of RdrandWord: a whole word even at the end                      *)
RdrandWordOverruns ==
  /\ pc = "rdrand"
  /\ Write(Word, [src |-> "rdrand", from |-> NoFile])
  /\ IF fill + Word = N THEN Works ELSE UNCHANGED <<i, next, got, strong, pc>>
  /\ UNCHANGED <<cfg, inode, reply, fds, world, devs, calls>>

RdrandWord ==
  /\ pc = "rdrand"
  /\ LET r == IF N - fill >= Word THEN Word ELSE N - fill IN
       /\ Write(r, [src |-> "rdrand", from |-> NoFile])
       /\ IF fill + r = N THEN Works ELSE UNCHANGED <<i, next, got, strong, pc>>
  /\ UNCHANGED <<cfg, inode, reply, fds, world, devs, calls>>

(* No such instruction, or it found no number ready.                       *)
RdrandFails ==
  /\ pc = "rdrand"
  /\ Fails
  /\ UNCHANGED <<cfg, inode, fill, buf, reply, fds, world, devs, calls>>

-----------------------------------------------------------------------------
(* The world (external), between any two steps of the library.  The path   *)
(* may come to name another file.  The user may do what ottery_common.h    *)
(* forbids and redirect or close urandom_fd, also while a call uses it.    *)

PathChanges ==
  /\ ~cfg.fd
  /\ changes < MaxChanges /\ changes' = changes + 1
  /\ path' \in (Files \cup {NoFile}) \ {path}
  /\ UNCHANGED <<cfg, inode, pc, call, reply, fds, userfd, touched, devs, calls>>

UserRedirects ==
  /\ cfg.fd
  /\ changes < MaxChanges /\ changes' = changes + 1
  /\ userfd' \in (Files \cup {NoFile}) \ {userfd}
  /\ touched' = IF pc = "idle" /\ touched # "during" THEN "between" ELSE "during"
  /\ UNCHANGED <<cfg, inode, pc, call, reply, fds, path, devs, calls>>

-----------------------------------------------------------------------------
Lib ==
  \/ Skip \/ Ask \/ Return
  \/ UrandomOpen \/ FstatFails \/ UrandomReject \/ UrandomAccept \/ UrandomMismatch
  \/ Read \/ ReadFails
  \/ EgdSocket \/ EgdUnavailable \/ EgdConnect \/ EgdConnectFails
  \/ EgdAnswers \/ EgdRefuses
  \/ RdrandWord \/ RdrandFails

Next == Call \/ Lib \/ PathChanges \/ UserRedirects

Spec == Init /\ [][Next]_vars

(* The library keeps going, and every system call it makes returns.  The   *)
(* code has no timeout: an EGD daemon that never answers would hold it.    *)
LiveSpec == Spec /\ WF_vars(Lib)

-----------------------------------------------------------------------------
(* Properties.                                                             *)

Inodes == {f.ino : f \in Files}

TypeOK ==
  /\ cfg \in Configs /\ inode \in {0} \cup Inodes
  /\ pc \in {"idle", "scan", "fstat", "read", "connect", "exchange"} \cup Sources
  /\ i \in 1..(Len(Table) + 1) /\ fill \in 0..N
  /\ next \in {N * k : k \in 0..Len(Table)}
  /\ buf \in [0..(BufLen - 1) -> [src : Sources \cup {"none"}, from : Files \cup {NoFile}]]
  /\ got \subseteq Sources /\ strong \in BOOLEAN
  /\ reply \in [ok : BOOLEAN, srcs : SUBSET Sources, len : Nat]
  /\ own \in BOOLEAN /\ libfds \in 0..1
  /\ {opened, path, userfd} \subseteq Files \cup {NoFile}
  /\ touched \in {"no", "between", "during"} /\ devs \subseteq Files \cup {NoFile}
  /\ calls \in 0..MaxCalls /\ changes \in 0..MaxChanges

FromSource(k, s) == \A j \in (k * N)..(k * N + N - 1) : buf[j].src = s

(* What OtteryState relies on: a successful ottery_get_entropy_ delivers N *)
(* bytes from each source it names and nothing else, whatever a source     *)
(* that failed half way had already written.                               *)
Delivered ==
  pc = "idle" /\ reply.ok =>
    /\ reply.srcs # {} /\ reply.len = N * Cardinality(reply.srcs)
    /\ \A s \in reply.srcs :
         \E k \in Slots : (k + 1) * N <= reply.len /\ FromSource(k, s)

(* ottery_common.h on weak sources: "we will fail if _only_ weak sources   *)
(* are available".  A success holds bytes of a source that is not weak.    *)
StrongInput ==
  pc = "idle" /\ reply.ok =>
    \E k \in Slots, s \in Sources \ cfg.weak :
      (k + 1) * N <= reply.len /\ FromSource(k, s)

(* On every way out, the descriptors the library opened are closed: after  *)
(* fstat(), connect(), the exchange or a read fails, at whatever byte.     *)
NoFdLeak == pc \in {"idle", "scan"} => libfds = 0 /\ ~own

(* While a state lives, all the device input it gets is read under one     *)
(* inode number, however the path changes, and the user's descriptor too   *)
(* unless that happens during a call.  This is the code's own notion of    *)
(* the same device: one of another file system with that inode number, and *)
(* any whose number is 0, it does not tell apart.                          *)
OneInode ==
  ~cfg.nondev /\ touched # "during" =>
    \A f, g \in devs : f.ino # 0 /\ g.ino # 0 => f.ino = g.ino

(* The library closes the user's urandom_fd only after the user has        *)
(* tampered with it.                                                       *)
UserFdKept == [][userfd' = NoFile /\ userfd # NoFile => touched' # "no"]_vars

-----------------------------------------------------------------------------
(* The inductive invariant behind them.                                    *)

Asking == pc \notin {"idle", "scan"}

(* While the source at i is being asked there is room for its bytes, those *)
(* it has written are its own, and the step due is one of that source.     *)
AskOK ==
  Asking =>
    /\ i <= Len(Table) /\ Room
    /\ pc \in Sources  => Table[i] = pc
    /\ pc = "fstat"    => Table[i] = "urandom"
    /\ pc \in {"connect", "exchange"} => Table[i] = "egd"
    /\ pc = "read"     => Table[i] # "rdrand"
    /\ \A k \in next..(next + fill - 1) : buf[k].src = Table[i]

(* The library has a descriptor only between its open and its close.       *)
FdsOK ==
  /\ libfds = IF own THEN 1 ELSE 0
  /\ own => pc \in {"fstat", "read", "connect", "exchange"}
  /\ pc = "fstat" => own = ~cfg.fd

Placed(s) == \E k \in Slots : (k + 1) * N <= next /\ FromSource(k, s)

(* The sources in got come before the one at i, each has filled a slot     *)
(* below next, and the last reply, until the next call, is about them.     *)
GotOK ==
  /\ next = N * Cardinality(got)
  /\ \A s \in got : Placed(s) /\ \E j \in 1..(i - 1) : Table[j] = s
  /\ strong <=> got \ cfg.weak # {}
  /\ pc = "idle" /\ reply.ok => strong /\ reply.srcs = got /\ reply.len = next

(* A file that passes for the remembered device.                           *)
Known(f) == f.ino \in {0, inode}

(* Every byte of device input passes, be it delivered, in the buffer or    *)
(* about to be read, unless the descriptor was changed during a call; and  *)
(* an untouched descriptor still refers to the inode remembered.           *)
DeviceOK ==
  ~cfg.nondev =>
    /\ touched # "during" =>
         /\ \A f \in devs : Known(f)
         /\ \A k \in DOMAIN buf : buf[k].src = "urandom" => Known(buf[k].from)
         /\ pc = "read" /\ Table[i] = "urandom" => Target \in Files /\ Known(Target)
    /\ cfg.fd /\ touched = "no" /\ inode # 0 => userfd \in Files /\ userfd.ino = inode

IInv == TypeOK /\ AskOK /\ FdsOK /\ GotOK /\ DeviceOK

(* Every call of ottery_get_entropy_ returns.                              *)
EntropyReturns == pc # "idle" ~> pc = "idle"
=============================================================================
