------------------------ MODULE OtteryEntropy_proofs ------------------------
(***************************************************************************)
(* What ottery_get_entropy_ delivers, and which descriptors it uses and    *)
(* closes, for any table of sources, any number of calls and changes of    *)
(* the world, and any files.                                               *)
(***************************************************************************)
EXTENDS OtteryEntropy, FiniteSetTheorems, TLAPS

-----------------------------------------------------------------------------
(* Arithmetic of slots.                                                    *)

LEMMA NextSlot ==
  ASSUME NEW n \in Nat \ {0}, NEW c \in Nat
  PROVE  n * (c + 1) = n * c + n /\ (c + 1) * n = n * c + n /\ c * n = n * c /\ n * c \in Nat
OBVIOUS

(* A slot that ends within the buffer is one of the buffer's slots.        *)
LEMMA SlotFits ==
  ASSUME NEW n \in Nat \ {0}, NEW c \in Nat, NEW l \in Nat, n * c + n <= n * l
  PROVE  c + 1 <= l
<1>1. SUFFICES ASSUME l <= c PROVE FALSE
  OBVIOUS
<1>2. PICK d \in Nat : c = l + d
  <2>1. c - l \in Nat /\ c = l + (c - l)
    BY <1>1
  <2> QED BY <2>1
<1>3. n * c = n * l + n * d /\ n * d \in Nat /\ n * l \in Nat
  BY <1>2
<1> QED BY <1>3

(* Whole slots, as many as there are sources, end within the buffer.       *)
LEMMA SlotsFit ==
  ASSUME NEW n \in Nat, NEW l \in Nat, NEW k \in 0..l
  PROVE  n * k <= n * l
<1>1. PICK d \in Nat : l = k + d
  <2>1. l - k \in Nat /\ l = k + (l - k)
    OBVIOUS
  <2> QED BY <2>1
<1>2. n * l = n * k + n * d /\ n * d \in Nat /\ n * k \in Nat
  BY <1>1
<1> QED BY <1>2

LEMMA SlotBelow ==
  ASSUME NEW n \in Nat \ {0}, NEW k \in Nat, NEW m \in Nat, (k + 1) * n <= m
  PROVE  /\ k * n \in Nat
         /\ \A j \in (k * n)..(k * n + n - 1) : j \in Nat /\ j < m
<1>1. (k + 1) * n = k * n + n /\ k * n \in Nat
  OBVIOUS
<1> QED BY <1>1

(* What is known of the constants.                                         *)
LEMMA Constants ==
  /\ Len(Table) \in Nat /\ DOMAIN Table = 1..Len(Table)
  /\ \A j \in 1..Len(Table) : Table[j] \in Sources
  /\ N \in Nat \ {0} /\ Word \in Nat \ {0}
  /\ BufLen \in Nat
  /\ \A f \in Files : f.ino \in Nat /\ f.ino \in Inodes
<1>1. Table \in Seq(Sources) /\ N \in Nat \ {0} /\ Word \in Nat \ {0} /\ Files \subseteq FileType
  BY EntropyParameters
<1>2. Len(Table) \in Nat /\ DOMAIN Table = 1..Len(Table)
  BY <1>1
<1>3. \A j \in 1..Len(Table) : Table[j] \in Sources
  BY <1>1, <1>2
<1>4. BufLen \in Nat
  BY <1>1, <1>2 DEF BufLen
<1>5. \A f \in Files : f.ino \in Nat /\ f.ino \in Inodes
  BY <1>1 DEF FileType, Inodes
<1> QED BY <1>1, <1>2, <1>3, <1>4, <1>5

-----------------------------------------------------------------------------
(* The sources heard from, and the place of the one being asked.           *)

LEMMA GotFinite ==
  ASSUME TypeOK, GotOK
  PROVE  /\ IsFiniteSet(got) /\ Cardinality(got) \in Nat
         /\ next \in Nat /\ next = N * Cardinality(got)
<1>1. IsFiniteSet(Sources)
  <2>1. IsFiniteSet({"urandom"})
    BY FS_Singleton
  <2>2. IsFiniteSet({"urandom"} \cup {"egd"})
    BY <2>1, FS_AddElement
  <2>3. IsFiniteSet({"urandom"} \cup {"egd"} \cup {"rdrand"})
    BY <2>2, FS_AddElement
  <2>4. Sources = {"urandom"} \cup {"egd"} \cup {"rdrand"}
    BY DEF Sources
  <2> QED BY <2>3, <2>4
<1>2. IsFiniteSet(got)
  BY <1>1, FS_Subset DEF TypeOK
<1>3. Cardinality(got) \in Nat
  BY <1>2, FS_CardinalityType
<1>4. next = N * Cardinality(got)
  BY DEF GotOK
<1> QED BY <1>2, <1>3, <1>4, Constants, NextSlot

(* The slot of the source at i lies in the buffer, and it is a new source. *)
LEMMA AskPlace ==
  ASSUME TypeOK, AskOK, GotOK, Asking
  PROVE  /\ i \in 1..Len(Table) /\ Table[i] \in Sources /\ Table[i] \notin got
         /\ next + N <= BufLen
         /\ Cardinality(got) + 1 <= Len(Table)
         /\ Cardinality(got) \in Slots
<1>1. i \in 1..Len(Table) /\ Room
  BY Constants DEF AskOK, TypeOK
<1>2. Table[i] \in Sources
  BY <1>1, Constants
<1>3. ASSUME Table[i] \in got PROVE FALSE
  <2>1. PICK j \in 1..(i - 1) : Table[j] = Table[i]
    BY <1>3 DEF GotOK
  <2>2. j \in DOMAIN Table /\ i \in DOMAIN Table
    BY <1>1, <2>1, Constants
  <2>3. j = i
    BY <2>1, <2>2, EntropyParameters
  <2> QED BY <1>1, <2>1, <2>3, Constants
<1>4. next + N <= BufLen
  BY <1>1 DEF Room
<1>5. Cardinality(got) + 1 <= Len(Table)
  BY <1>4, GotFinite, SlotFits, Constants DEF BufLen
<1>6. Cardinality(got) \in Slots
  BY <1>5, GotFinite, Constants DEF Slots
<1> QED BY <1>1, <1>2, <1>3, <1>4, <1>5, <1>6

(* A source that works adds one slot.                                      *)
LEMMA WorksPlace ==
  ASSUME TypeOK, AskOK, GotOK, Asking, Works
  PROVE  /\ got' \subseteq Sources
         /\ Cardinality(got') = Cardinality(got) + 1
         /\ next' = N * Cardinality(got')
         /\ next' \in {N * k : k \in 0..Len(Table)}
<1>1. got' = got \cup {Table[i]} /\ next' = next + N
  BY DEF Works
<1>2. got' \subseteq Sources
  BY <1>1, AskPlace DEF TypeOK
<1>3. Cardinality(got') = Cardinality(got) + 1
  BY <1>1, AskPlace, GotFinite, FS_AddElement
<1>4. next' = N * Cardinality(got')
  BY <1>1, <1>3, GotFinite, NextSlot, Constants
<1>5. Cardinality(got') \in 0..Len(Table)
  BY <1>3, AskPlace, GotFinite, Constants
<1> QED BY <1>2, <1>3, <1>4, <1>5

-----------------------------------------------------------------------------
(* Types.                                                                  *)

LoopType ==
  /\ pc \in {"idle", "scan", "fstat", "read", "connect", "exchange"} \cup Sources
  /\ i \in 1..(Len(Table) + 1)
  /\ next \in {N * k : k \in 0..Len(Table)}
  /\ got \subseteq Sources /\ strong \in BOOLEAN

BufType ==
  /\ fill \in 0..N
  /\ buf \in [0..(BufLen - 1) -> [src : Sources \cup {"none"}, from : Files \cup {NoFile}]]

FdsType == own \in BOOLEAN /\ libfds \in 0..1 /\ opened \in Files \cup {NoFile}

RestType ==
  /\ cfg \in Configs /\ inode \in {0} \cup Inodes
  /\ reply \in [ok : BOOLEAN, srcs : SUBSET Sources, len : Nat]
  /\ path \in Files \cup {NoFile} /\ userfd \in Files \cup {NoFile}
  /\ touched \in {"no", "between", "during"} /\ devs \subseteq Files \cup {NoFile}
  /\ calls \in 0..MaxCalls /\ changes \in 0..MaxChanges

LEMMA TypeParts == TypeOK <=> LoopType /\ BufType /\ FdsType /\ RestType
BY DEF TypeOK, LoopType, BufType, FdsType, RestType

LEMMA FailsType ==
  ASSUME TypeOK, AskOK, GotOK, Asking, Fails
  PROVE  LoopType'
BY AskPlace, Constants DEF TypeOK, Fails, LoopType

LEMMA WorksType ==
  ASSUME TypeOK, AskOK, GotOK, Asking, Works
  PROVE  LoopType'
<1>1. i' \in 1..(Len(Table) + 1) /\ pc' = "scan"
  BY AskPlace, Constants DEF Works
<1>2. strong' \in BOOLEAN
  BY DEF Works
<1> QED BY <1>1, <1>2, WorksPlace DEF LoopType

LEMMA WriteType ==
  ASSUME TypeOK, NEW r \in 0..(N - fill),
         NEW b \in [src : Sources \cup {"none"}, from : Files \cup {NoFile}], Write(r, b)
  PROVE  BufType'
<1>1. fill' \in 0..N
  BY Constants DEF TypeOK, Write
<1>2. buf' \in [0..(BufLen - 1) -> [src : Sources \cup {"none"}, from : Files \cup {NoFile}]]
  BY DEF TypeOK, Write
<1> QED BY <1>1, <1>2 DEF BufType

LEMMA CloseType ==
  ASSUME TypeOK, FdsOK, CloseOwn
  PROVE  FdsType' /\ libfds' = 0 /\ ~own'
<1>1. ~own' /\ opened' = NoFile
  BY DEF CloseOwn
<1>2. libfds' = 0
  <2>1. CASE own
    BY <2>1 DEF FdsOK, CloseOwn
  <2>2. CASE ~own
    BY <2>2 DEF FdsOK, CloseOwn
  <2> QED BY <2>1, <2>2
<1>3. own' = FALSE
  BY DEF CloseOwn
<1>4. own' \in BOOLEAN
  BY <1>3
<1>5. libfds' \in 0..1
  BY <1>2
<1> QED BY <1>1, <1>2, <1>4, <1>5 DEF FdsType

LEMMA OriginType ==
  ASSUME TypeOK, Table[i] \in Sources, Table[i] = "urandom" => Target \in Files
  PROVE  Origin \in [src : Sources \cup {"none"}, from : Files \cup {NoFile}]
BY Constants DEF Origin

LEMMA RdrandType ==
  [src |-> "rdrand", from |-> NoFile] \in [src : Sources \cup {"none"}, from : Files \cup {NoFile}]
BY DEF Sources

LEMMA TypeInit == Init => TypeOK
<1> SUFFICES ASSUME Init PROVE TypeOK
  OBVIOUS
<1>1. LoopType
  <2>1. N * 0 = 0 /\ 0 \in 0..Len(Table) /\ 1 \in 1..(Len(Table) + 1)
    BY Constants
  <2>2. next \in {N * k : k \in 0..Len(Table)}
    BY <2>1 DEF Init
  <2> QED BY <2>1, <2>2 DEF Init, LoopType
<1>2. BufType
  BY Constants DEF Init, BufType, Unset
<1>3. FdsType
  <2>1. own \in BOOLEAN
    BY DEF Init
  <2> QED BY <2>1 DEF Init, FdsType
<1>4. RestType
  <2>1. reply \in [ok : BOOLEAN, srcs : SUBSET Sources, len : Nat]
    BY DEF Init, Failure
  <2>2. touched \in {"no", "between", "during"}
    BY DEF Init
  <2> QED BY <2>1, <2>2, EntropyParameters DEF Init, RestType
<1> QED BY <1>1, <1>2, <1>3, <1>4, TypeParts

LEMMA TypeStep ==
  ASSUME IInv, [Next]_vars
  PROVE  TypeOK'
<1>1. TypeOK /\ AskOK /\ FdsOK /\ GotOK
  BY DEF IInv
<1>2. LoopType /\ BufType /\ FdsType /\ RestType
  BY <1>1, TypeParts
<1> SUFFICES LoopType' /\ BufType' /\ FdsType' /\ RestType'
  <2>1. TypeOK' <=> LoopType' /\ BufType' /\ FdsType' /\ RestType'
    BY DEF TypeOK, LoopType, BufType, FdsType, RestType
  <2> QED BY <2>1
<1>3. CASE Call
  <2>1. LoopType'
    <3>1. N * 0 = 0 /\ 0 \in 0..Len(Table) /\ 1 \in 1..(Len(Table) + 1)
      BY Constants
    <3>2. next' \in {N * k : k \in 0..Len(Table)}
      BY <1>3, <3>1 DEF Call
    <3> QED BY <1>3, <3>1, <3>2 DEF Call, LoopType
  <2>2. BufType'
    BY <1>3, Constants DEF Call, BufType, Unset
  <2>3. FdsType'
    BY <1>2, <1>3 DEF Call, FdsType, fds
  <2>4. RestType'
    BY <1>2, <1>3, EntropyParameters DEF Call, RestType, world
  <2> QED BY <2>1, <2>2, <2>3, <2>4
<1>4. CASE Skip
  BY <1>2, <1>4, Constants DEF Skip, LoopType, BufType, FdsType, RestType, fds, world
<1>5. CASE Ask
  <2>1. Table[i] \in Sources
    BY <1>2, <1>5, Constants DEF Ask, LoopType
  <2> QED BY <1>2, <1>5, <2>1, Constants DEF Ask, LoopType, BufType, FdsType, RestType, fds, world
<1>6. CASE Return
  <2>1. LoopType' /\ BufType' /\ FdsType'
    BY <1>2, <1>6 DEF Return, LoopType, BufType, FdsType, call, fds
  <2>2. reply' \in [ok : BOOLEAN, srcs : SUBSET Sources, len : Nat]
    <3>1. next \in Nat /\ got \subseteq Sources
      BY <1>1, GotFinite DEF TypeOK
    <3> QED BY <1>6, <3>1 DEF Return, Failure
  <2>3. devs' \subseteq Files \cup {NoFile}
    <3>1. next <= BufLen /\ next \in Nat
      <4>1. PICK k \in 0..Len(Table) : next = N * k
        BY <1>2 DEF LoopType
      <4> QED BY <1>1, <4>1, SlotsFit, GotFinite, Constants DEF BufLen
    <3>2. ASSUME NEW k \in 0..(next - 1) PROVE buf[k].from \in Files \cup {NoFile}
      <4>1. k \in 0..(BufLen - 1)
        BY <3>1, <3>2, Constants
      <4> QED BY <1>2, <4>1 DEF BufType
    <3>3. devs \subseteq Files \cup {NoFile}
      BY <1>2 DEF RestType
    <3> QED BY <1>6, <3>2, <3>3 DEF Return
  <2> QED BY <1>2, <1>6, <2>1, <2>2, <2>3 DEF Return, RestType, world
<1>7. CASE UrandomOpen
  <2>1. Asking
    BY <1>7 DEF UrandomOpen, Asking
  <2>2. BufType' /\ RestType'
    BY <1>2, <1>7 DEF UrandomOpen, BufType, RestType, world
  <2>3. CASE cfg.fd /\ own' = FALSE /\ pc' = "fstat" /\ UNCHANGED <<i, next, got, strong, opened, libfds>>
    <3>1. own' \in BOOLEAN
      BY <2>3
    <3> QED BY <1>2, <2>2, <2>3, <3>1 DEF LoopType, FdsType
  <2>4. CASE /\ ~cfg.fd /\ path # NoFile /\ own' = TRUE /\ opened' = path /\ libfds' = libfds + 1
             /\ pc' = "fstat" /\ UNCHANGED <<i, next, got, strong>>
    <3>1. own' \in BOOLEAN
      BY <2>4
    <3>2. ~own
      BY <1>1, <1>7 DEF FdsOK, UrandomOpen
    <3>3. libfds' = 1
      BY <1>1, <2>4, <3>2 DEF FdsOK
    <3>4. libfds' \in 0..1
      BY <3>3
    <3> QED BY <1>2, <2>2, <2>4, <3>1, <3>4 DEF LoopType, FdsType, RestType
  <2>5. CASE ~cfg.fd /\ Fails /\ UNCHANGED fds
    <3>1. FdsType'
      BY <1>2, <2>5 DEF FdsType, fds
    <3> QED BY <1>1, <2>1, <2>2, <2>5, <3>1, FailsType
  <2> QED BY <1>7, <2>3, <2>4, <2>5 DEF UrandomOpen
<1>8. CASE FstatFails \/ UrandomReject
  <2>1. Asking /\ Fails /\ CloseOwn
    BY <1>8 DEF FstatFails, UrandomReject, Asking
  <2>2. BufType' /\ RestType'
    BY <1>2, <1>8 DEF FstatFails, UrandomReject, BufType, RestType, world
  <2> QED BY <1>1, <2>1, <2>2, FailsType, CloseType
<1>9. CASE UrandomAccept
  <2>1. LoopType' /\ BufType' /\ FdsType'
    BY <1>2, <1>9 DEF UrandomAccept, LoopType, BufType, FdsType, call, fds
  <2>2. inode' \in {0} \cup Inodes
    BY <1>2, <1>9, Constants DEF UrandomAccept, IsDevice, RestType
  <2> QED BY <1>2, <1>9, <2>1, <2>2 DEF UrandomAccept, RestType, world
<1>10. CASE UrandomMismatch
  <2>1. Asking /\ Fails /\ CloseOwn
    BY <1>10 DEF UrandomMismatch, Asking
  <2>2. BufType' /\ RestType'
    BY <1>2, <1>10 DEF UrandomMismatch, BufType, RestType
  <2> QED BY <1>1, <2>1, <2>2, FailsType, CloseType
<1>11. CASE Read
  <2>1. Asking /\ CanRead
    BY <1>11 DEF Read, Asking
  <2>2. RestType'
    BY <1>2, <1>11 DEF Read, RestType, world
  <2>3. Table[i] \in Sources
    BY <1>1, <2>1, AskPlace
  <2>4. Origin \in [src : Sources \cup {"none"}, from : Files \cup {NoFile}]
    BY <1>1, <2>1, <2>3, OriginType DEF CanRead
  <2>5. PICK r \in 1..(N - fill) :
          /\ Write(r, Origin)
          /\ IF fill + r = N THEN Works /\ CloseOwn ELSE UNCHANGED <<i, next, got, strong, pc, fds>>
    BY <1>11 DEF Read
  <2>6. BufType'
    <3>1. r \in 0..(N - fill)
      BY <1>2, <2>5, Constants DEF BufType
    <3> QED BY <1>1, <2>4, <2>5, <3>1, WriteType
  <2>7. CASE fill + r = N
    BY <1>1, <2>1, <2>2, <2>5, <2>6, <2>7, WorksType, CloseType
  <2>8. CASE fill + r # N
    BY <1>2, <2>2, <2>5, <2>6, <2>8 DEF LoopType, FdsType, fds
  <2> QED BY <2>7, <2>8
<1>12. CASE ReadFails
  <2>1. Asking /\ Fails /\ CloseOwn
    BY <1>12 DEF ReadFails, Asking
  <2>2. BufType' /\ RestType'
    BY <1>2, <1>12 DEF ReadFails, BufType, RestType, world
  <2> QED BY <1>1, <2>1, <2>2, FailsType, CloseType
<1>13. CASE EgdSocket
  <2>1. BufType' /\ RestType' /\ LoopType'
    BY <1>2, <1>13 DEF EgdSocket, BufType, RestType, LoopType, world, call
  <2>2. own' \in BOOLEAN
    BY <1>13 DEF EgdSocket
  <2>3. ~own
    BY <1>1, <1>13 DEF FdsOK, EgdSocket
  <2>4. libfds' = 1
    BY <1>1, <1>13, <2>3 DEF FdsOK, EgdSocket
  <2>5. libfds' \in 0..1
    BY <2>4
  <2> QED BY <1>2, <1>13, <2>1, <2>2, <2>5 DEF EgdSocket, FdsType
<1>14. CASE EgdUnavailable
  <2>1. Asking /\ Fails
    BY <1>14 DEF EgdUnavailable, Asking
  <2>2. BufType' /\ RestType' /\ FdsType'
    BY <1>2, <1>14 DEF EgdUnavailable, BufType, RestType, FdsType, world, fds
  <2> QED BY <1>1, <2>1, <2>2, FailsType
<1>15. CASE EgdAnswers \/ EgdConnect
  BY <1>2, <1>15 DEF EgdAnswers, EgdConnect, LoopType, BufType, FdsType, RestType, call, fds, world
<1>16. CASE EgdRefuses \/ EgdConnectFails
  <2>1. Asking /\ Fails /\ CloseOwn
    BY <1>16 DEF EgdRefuses, EgdConnectFails, Asking
  <2>2. BufType' /\ RestType'
    BY <1>2, <1>16 DEF EgdRefuses, EgdConnectFails, BufType, RestType, world
  <2> QED BY <1>1, <2>1, <2>2, FailsType, CloseType
<1>17. CASE RdrandWord
  <2>1. Asking
    BY <1>17 DEF RdrandWord, Asking
  <2>2. RestType' /\ FdsType'
    BY <1>2, <1>17 DEF RdrandWord, RestType, FdsType, world, fds
  <2>3. PICK r : /\ r = IF N - fill >= Word THEN Word ELSE N - fill
                 /\ Write(r, [src |-> "rdrand", from |-> NoFile])
                 /\ IF fill + r = N THEN Works ELSE UNCHANGED <<i, next, got, strong, pc>>
    BY <1>17 DEF RdrandWord
  <2>4. r \in 0..(N - fill)
    BY <1>2, <2>3, Constants DEF BufType
  <2>5. BufType'
    BY <1>1, <2>3, <2>4, WriteType, RdrandType
  <2>6. CASE fill + r = N
    BY <1>1, <2>1, <2>2, <2>3, <2>5, <2>6, WorksType
  <2>7. CASE fill + r # N
    BY <1>2, <2>2, <2>3, <2>5, <2>7 DEF LoopType
  <2> QED BY <2>6, <2>7
<1>18. CASE RdrandFails
  <2>1. Asking /\ Fails
    BY <1>18 DEF RdrandFails, Asking
  <2>2. BufType' /\ RestType' /\ FdsType'
    BY <1>2, <1>18 DEF RdrandFails, BufType, RestType, FdsType, world, fds
  <2> QED BY <1>1, <2>1, <2>2, FailsType
<1>19. CASE PathChanges
  BY <1>2, <1>19, EntropyParameters DEF PathChanges, LoopType, BufType, FdsType, RestType, call, fds
<1>20. CASE UserRedirects
  BY <1>2, <1>20, EntropyParameters DEF UserRedirects, LoopType, BufType, FdsType, RestType, call, fds
<1>21. CASE UNCHANGED vars
  BY <1>2, <1>21 DEF vars, LoopType, BufType, FdsType, RestType, call, fds, world
<1> QED
  BY <1>3, <1>4, <1>5, <1>6, <1>7, <1>8, <1>9, <1>10, <1>11, <1>12, <1>13, <1>14, <1>15, <1>16,
     <1>17, <1>18, <1>19, <1>20, <1>21 DEF Next, Lib

-----------------------------------------------------------------------------
(* Descriptors.                                                            *)

LEMMA CloseFds ==
  ASSUME TypeOK, FdsOK, CloseOwn, pc' # "fstat"
  PROVE  FdsOK'
<1>1. libfds' = 0 /\ ~own'
  BY CloseType
<1> QED BY <1>1 DEF FdsOK

(* A step that leaves the descriptors alone, and is not in the middle of   *)
(* using one.                                                              *)
LEMMA SameFds ==
  ASSUME FdsOK, UNCHANGED fds, UNCHANGED cfg, pc' # "fstat" \/ pc' = pc,
         ~own \/ pc' \in {"read", "connect", "exchange"} \/ pc' = pc
  PROVE  FdsOK'
<1>1. own' = own /\ libfds' = libfds /\ cfg' = cfg
  BY DEF fds
<1>2. libfds' = IF own' THEN 1 ELSE 0
  BY <1>1 DEF FdsOK
<1>3. own' => pc' \in {"fstat", "read", "connect", "exchange"}
  BY <1>1 DEF FdsOK
<1>4. pc' = "fstat" => own' = ~cfg'.fd
  BY <1>1 DEF FdsOK
<1> QED BY <1>2, <1>3, <1>4 DEF FdsOK

LEMMA FdsStep ==
  ASSUME IInv, [Next]_vars
  PROVE  FdsOK'
<1>1. TypeOK /\ FdsOK
  BY DEF IInv
<1>2. CASE Call
  BY <1>1, <1>2, SameFds DEF Call, FdsOK
<1>3. CASE Skip
  BY <1>1, <1>3, SameFds DEF Skip, FdsOK
<1>4. CASE Ask
  <2>1. Table[i] \in Sources
    BY <1>1, <1>4, Constants DEF Ask, TypeOK
  <2>2. pc' # "fstat"
    BY <1>4, <2>1 DEF Ask, Sources
  <2> QED BY <1>1, <1>4, <2>2, SameFds DEF Ask, FdsOK
<1>5. CASE Return
  BY <1>1, <1>5, SameFds DEF Return, FdsOK
<1>6. CASE UrandomOpen
  <2>1. ~own /\ libfds = 0 /\ cfg' = cfg
    BY <1>1, <1>6 DEF FdsOK, UrandomOpen
  <2>2. CASE cfg.fd /\ own' = FALSE /\ pc' = "fstat" /\ UNCHANGED <<i, next, got, strong, opened, libfds>>
    <3>1. libfds' = IF own' THEN 1 ELSE 0
      BY <2>1, <2>2
    <3>2. own' = ~cfg'.fd
      BY <2>1, <2>2
    <3> QED BY <2>2, <3>1, <3>2 DEF FdsOK
  <2>3. CASE /\ ~cfg.fd /\ path # NoFile /\ own' = TRUE /\ opened' = path /\ libfds' = libfds + 1
             /\ pc' = "fstat" /\ UNCHANGED <<i, next, got, strong>>
    <3>1. libfds' = IF own' THEN 1 ELSE 0
      BY <2>1, <2>3
    <3>2. own' = ~cfg'.fd
      BY <2>1, <2>3
    <3> QED BY <2>3, <3>1, <3>2 DEF FdsOK
  <2>4. CASE ~cfg.fd /\ Fails /\ UNCHANGED fds
    BY <1>1, <2>1, <2>4, SameFds DEF Fails
  <2> QED BY <1>6, <2>2, <2>3, <2>4 DEF UrandomOpen
<1>7. CASE FstatFails \/ UrandomReject
  BY <1>1, <1>7, CloseFds DEF FstatFails, UrandomReject, Fails
<1>8. CASE UrandomAccept
  BY <1>1, <1>8, SameFds DEF UrandomAccept
<1>9. CASE UrandomMismatch
  BY <1>1, <1>9, CloseFds DEF UrandomMismatch, Fails
<1>10. CASE Read
  <2>1. PICK r \in 1..(N - fill) :
          IF fill + r = N THEN Works /\ CloseOwn ELSE UNCHANGED <<i, next, got, strong, pc, fds>>
    BY <1>10 DEF Read
  <2>2. CASE fill + r = N
    BY <1>1, <2>1, <2>2, CloseFds DEF Works
  <2>3. CASE fill + r # N
    BY <1>1, <1>10, <2>1, <2>3, SameFds DEF Read
  <2> QED BY <2>2, <2>3
<1>11. CASE ReadFails
  BY <1>1, <1>11, CloseFds DEF ReadFails, Fails
<1>12. CASE EgdSocket
  <2>1. ~own /\ libfds = 0
    BY <1>1, <1>12 DEF FdsOK, EgdSocket
  <2>2. libfds' = IF own' THEN 1 ELSE 0
    BY <1>12, <2>1 DEF EgdSocket
  <2> QED BY <1>12, <2>2 DEF FdsOK, EgdSocket
<1>13. CASE EgdUnavailable
  BY <1>1, <1>13, SameFds DEF EgdUnavailable, Fails, FdsOK
<1>14. CASE EgdAnswers \/ EgdConnect
  BY <1>1, <1>14, SameFds DEF EgdAnswers, EgdConnect
<1>15. CASE EgdRefuses \/ EgdConnectFails
  BY <1>1, <1>15, CloseFds DEF EgdRefuses, EgdConnectFails, Fails
<1>16. CASE RdrandWord
  <2>1. ~own /\ UNCHANGED <<fds, cfg>>
    BY <1>1, <1>16 DEF FdsOK, RdrandWord
  <2>2. pc' # "fstat"
    BY <1>16 DEF RdrandWord, Works
  <2> QED BY <1>1, <2>1, <2>2, SameFds
<1>17. CASE RdrandFails
  BY <1>1, <1>17, SameFds DEF RdrandFails, Fails, FdsOK
<1>18. CASE PathChanges
  BY <1>1, <1>18, SameFds DEF PathChanges
<1>19. CASE UserRedirects
  BY <1>1, <1>19, SameFds DEF UserRedirects
<1>20. CASE UNCHANGED vars
  BY <1>1, <1>20, SameFds DEF vars
<1> QED
  BY <1>2, <1>3, <1>4, <1>5, <1>6, <1>7, <1>8, <1>9, <1>10, <1>11, <1>12, <1>13, <1>14, <1>15, <1>16,
     <1>17, <1>18, <1>19, <1>20 DEF Next, Lib

-----------------------------------------------------------------------------
(* The source being asked.                                                 *)

(* Its bytes go to its slot, one after the other.                          *)
LEMMA WriteSlot ==
  ASSUME TypeOK, AskOK, GotOK, Asking, NEW r \in 0..(N - fill), NEW b, b.src = Table[i], Write(r, b)
  PROVE  /\ fill' = fill + r
         /\ \A k \in next..(next + fill' - 1) : buf'[k].src = Table[i]
         /\ \A k \in 0..(next - 1) : buf'[k] = buf[k]
         /\ DOMAIN buf' = DOMAIN buf
         /\ \A k \in DOMAIN buf : buf'[k] \in {b, buf[k]}
<1>1. fill \in 0..N /\ next \in Nat /\ N \in Nat /\ BufLen \in Nat /\ next + N <= BufLen
  BY GotFinite, AskPlace, Constants DEF TypeOK
<1>2. DOMAIN buf = 0..(BufLen - 1)
  BY DEF TypeOK
<1>3. /\ fill' = fill + r
      /\ buf' = [k \in DOMAIN buf |->
                   IF next + fill <= k /\ k < next + fill + r THEN b ELSE buf[k]]
  BY DEF Write
<1>4. \A k \in DOMAIN buf :
        buf'[k] = IF next + fill <= k /\ k < next + fill + r THEN b ELSE buf[k]
  BY <1>3
<1>5. ASSUME NEW k \in next..(next + fill' - 1) PROVE buf'[k].src = Table[i]
  <2>1. k \in DOMAIN buf
    BY <1>1, <1>2, <1>3
  <2>2. CASE next + fill <= k
    BY <1>1, <1>3, <1>4, <2>1, <2>2
  <2>3. CASE k < next + fill
    <3>1. k \in next..(next + fill - 1)
      BY <1>1, <2>3
    <3> QED BY <1>1, <1>4, <2>1, <2>3, <3>1 DEF AskOK
  <2> QED BY <1>1, <2>2, <2>3
<1>6. ASSUME NEW k \in 0..(next - 1) PROVE buf'[k] = buf[k]
  <2>1. k \in DOMAIN buf /\ ~(next + fill <= k)
    BY <1>1, <1>2
  <2> QED BY <1>4, <2>1
<1>7. DOMAIN buf' = DOMAIN buf
  BY <1>3
<1> QED BY <1>3, <1>4, <1>5, <1>6, <1>7

(* A step that leaves the loop where it is and writes nothing.             *)
LEMMA AskSame ==
  ASSUME AskOK, Asking, UNCHANGED <<i, next, fill, buf>>,
         pc' \in Sources  => Table[i] = pc',
         pc' = "fstat"    => Table[i] = "urandom",
         pc' \in {"connect", "exchange"} => Table[i] = "egd",
         pc' = "read"     => Table[i] # "rdrand"
  PROVE  AskOK'
BY DEF AskOK, Room

LEMMA AskDone ==
  ASSUME pc' \in {"idle", "scan"}
  PROVE  AskOK'
BY DEF AskOK, Asking

LEMMA AskWrites ==
  ASSUME TypeOK, AskOK, GotOK, Asking, NEW r \in 0..(N - fill), NEW b, b.src = Table[i], Write(r, b),
         UNCHANGED <<i, next, pc>>
  PROVE  AskOK'
<1>1. \A k \in next..(next + fill' - 1) : buf'[k].src = Table[i]
  BY WriteSlot
<1> QED BY <1>1 DEF AskOK, Room, Asking

LEMMA AskStep ==
  ASSUME IInv, [Next]_vars
  PROVE  AskOK'
<1>1. TypeOK /\ AskOK /\ GotOK
  BY DEF IInv
<1>2. CASE pc' \in {"idle", "scan"}
  BY <1>2, AskDone
<1>3. CASE Ask
  <2>1. i \in 1..Len(Table) /\ Table[i] \in Sources /\ fill' = 0 /\ next \in Nat
    BY <1>1, <1>3, Constants, GotFinite DEF Ask, TypeOK
  <2>2. pc' = Table[i] /\ pc' \notin {"fstat", "connect", "exchange", "read"}
    BY <1>3, <2>1 DEF Ask, Sources
  <2>3. \A k \in next'..(next' + fill' - 1) : FALSE
    BY <1>3, <2>1 DEF Ask
  <2> QED BY <1>3, <2>1, <2>2, <2>3 DEF Ask, AskOK, Room
<1>4. CASE UrandomOpen /\ pc' = "fstat"
  <2>1. Asking /\ UNCHANGED <<i, next, fill, buf>>
    BY <1>4 DEF UrandomOpen, Asking, Fails
  <2>2. Table[i] = "urandom"
    BY <1>1, <1>4, <2>1 DEF UrandomOpen, AskOK, Sources
  <2> QED BY <1>1, <1>4, <2>1, <2>2, AskSame DEF Sources
<1>5. CASE UrandomAccept
  <2>1. Asking /\ UNCHANGED <<i, next, fill, buf>> /\ pc = "fstat" /\ pc' = "read"
    BY <1>5 DEF UrandomAccept, Asking, call
  <2>2. Table[i] = "urandom"
    BY <1>1, <2>1 DEF AskOK
  <2> QED BY <1>1, <2>1, <2>2, AskSame DEF Sources
<1>6. CASE Read /\ pc' \notin {"idle", "scan"}
  <2>1. Asking /\ Origin.src = Table[i]
    BY <1>6 DEF Read, Asking, Origin
  <2>2. PICK r \in 1..(N - fill) : Write(r, Origin) /\ UNCHANGED <<i, next, pc>>
    BY <1>6 DEF Read, Works
  <2>3. r \in 0..(N - fill)
    BY <1>1, <2>2, Constants DEF TypeOK
  <2> QED BY <1>1, <2>1, <2>2, <2>3, AskWrites
<1>7. CASE EgdSocket
  <2>1. Asking /\ UNCHANGED <<i, next, fill, buf>> /\ pc = "egd" /\ pc' = "connect"
    BY <1>7 DEF EgdSocket, Asking, call
  <2>2. Table[i] = "egd"
    BY <1>1, <2>1 DEF AskOK, Sources
  <2> QED BY <1>1, <2>1, <2>2, AskSame DEF Sources
<1>8. CASE EgdAnswers \/ EgdConnect
  <2>1. /\ Asking /\ UNCHANGED <<i, next, fill, buf>>
        /\ pc \in {"connect", "exchange"} /\ pc' \in {"exchange", "read"}
    BY <1>8 DEF EgdAnswers, EgdConnect, Asking, call
  <2>2. Table[i] = "egd"
    BY <1>1, <2>1 DEF AskOK
  <2> QED BY <1>1, <2>1, <2>2, AskSame DEF Sources
<1>9. CASE RdrandWord /\ pc' \notin {"idle", "scan"}
  <2>1. Asking /\ Table[i] = "rdrand"
    BY <1>1, <1>9 DEF RdrandWord, Asking, AskOK, Sources
  <2>2. PICK r : /\ r = IF N - fill >= Word THEN Word ELSE N - fill
                 /\ Write(r, [src |-> "rdrand", from |-> NoFile])
                 /\ UNCHANGED <<i, next, pc>>
    BY <1>9 DEF RdrandWord, Works
  <2>3. r \in 0..(N - fill)
    BY <1>1, <2>2, Constants DEF TypeOK
  <2>4. [src |-> "rdrand", from |-> NoFile].src = Table[i]
    BY <2>1
  <2> QED BY <1>1, <2>1, <2>2, <2>3, <2>4, AskWrites
<1>10. CASE UNCHANGED <<pc, call>>
  <2>1. UNCHANGED <<i, next, fill, buf, pc>>
    BY <1>10 DEF call
  <2> QED BY <1>1, <2>1 DEF AskOK, Asking, Room
<1> QED
  BY <1>2, <1>3, <1>4, <1>5, <1>6, <1>7, <1>8, <1>9, <1>10
  DEF Next, Lib, Call, Skip, Return, UrandomOpen, FstatFails, UrandomReject, UrandomMismatch,
      ReadFails, EgdUnavailable, EgdConnectFails, EgdRefuses, RdrandFails, PathChanges, UserRedirects, Fails, vars

-----------------------------------------------------------------------------
(* The sources heard from, and the reply.                                  *)

(* The bytes below next settle who has a slot there.                       *)
LEMMA PlacedKept ==
  ASSUME TypeOK, GotOK, NEW s, Placed(s), next' >= next, next' \in Nat,
         \A k \in 0..(next - 1) : buf'[k] = buf[k]
  PROVE  Placed(s)'
<1>1. PICK k \in Slots : (k + 1) * N <= next /\ \A j \in (k * N)..(k * N + N - 1) : buf[j].src = s
  BY DEF Placed, FromSource
<1>2. k \in Nat /\ N \in Nat \ {0} /\ next \in Nat
  BY <1>1, Constants, GotFinite DEF Slots
<1>3. \A j \in (k * N)..(k * N + N - 1) : j \in 0..(next - 1)
  BY <1>1, <1>2, SlotBelow
<1>4. \A j \in (k * N)..(k * N + N - 1) : buf'[j].src = s
  BY <1>1, <1>3
<1>5. (k + 1) * N \in Nat
  BY <1>2
<1>6. (k + 1) * N <= next'
  BY <1>1, <1>2, <1>5
<1> QED BY <1>1, <1>4, <1>6 DEF Placed, FromSource

(* A step after which the same sources have been heard.                    *)
LEMMA GotKept ==
  ASSUME TypeOK, GotOK, UNCHANGED <<next, got, strong, cfg>>, i' = i \/ i' = i + 1,
         \A k \in 0..(next - 1) : buf'[k] = buf[k],
         pc' = "idle" /\ reply'.ok => strong' /\ reply'.srcs = got' /\ reply'.len = next'
  PROVE  GotOK'
<1>1. next' = N * Cardinality(got')
  BY DEF GotOK
<1>2. ASSUME NEW s \in got' PROVE Placed(s)' /\ \E j \in 1..(i' - 1) : Table[j] = s
  <2>1. s \in got
    BY <1>2
  <2>2. next' >= next /\ next' \in Nat
    BY GotFinite
  <2>3. Placed(s)'
    BY <2>1, <2>2, PlacedKept DEF GotOK
  <2>4. PICK j \in 1..(i - 1) : Table[j] = s
    BY <2>1 DEF GotOK
  <2>5. j \in 1..(i' - 1)
    BY <2>4, Constants DEF TypeOK
  <2> QED BY <2>3, <2>4, <2>5
<1>3. strong' <=> got' \ cfg'.weak # {}
  BY DEF GotOK
<1> QED BY <1>1, <1>2, <1>3 DEF GotOK

(* A step in which the source at i completes its bytes.                    *)
LEMMA GotMore ==
  ASSUME TypeOK, AskOK, GotOK, Asking, NEW r \in 0..(N - fill), NEW b, b.src = Table[i], Write(r, b),
         fill + r = N, Works, UNCHANGED cfg
  PROVE  GotOK'
<1>1. next' = N * Cardinality(got') /\ Cardinality(got') = Cardinality(got) + 1
  BY WorksPlace
<1>2. /\ got' = got \cup {Table[i]} /\ next' = next + N /\ i' = i + 1 /\ pc' = "scan"
      /\ strong' = (strong \/ Table[i] \notin cfg.weak)
  BY DEF Works
<1>3. /\ fill' = N
      /\ \A k \in next..(next + fill' - 1) : buf'[k].src = Table[i]
      /\ \A k \in 0..(next - 1) : buf'[k] = buf[k]
  BY WriteSlot
<1>4. next \in Nat /\ next = N * Cardinality(got) /\ Cardinality(got) \in Slots
  BY GotFinite, AskPlace
<1>5. next' >= next /\ next' \in Nat
  BY <1>2, <1>4, Constants
<1>6. ASSUME NEW s \in got PROVE Placed(s)'
  BY <1>3, <1>5, <1>6, PlacedKept DEF GotOK
<1>7. PICK t : t = Table[i]
  OBVIOUS
<1>8. Placed(t)'
  <2>1. PICK c \in Slots : c = Cardinality(got)
    BY <1>4
  <2>2. c * N = next /\ (c + 1) * N = next'
    <3>1. c \in Nat
      BY <2>1, GotFinite
    <3>2. c * N = N * c /\ (c + 1) * N = N * c + N
      BY <3>1, NextSlot, Constants
    <3> QED BY <1>2, <1>4, <2>1, <3>2
  <2>3. \A j \in (c * N)..(c * N + N - 1) : buf'[j].src = t
    BY <1>3, <1>7, <2>2
  <2>4. (c + 1) * N <= next'
    BY <1>5, <2>2
  <2> QED BY <2>1, <2>3, <2>4 DEF Placed, FromSource
<1>9. ASSUME NEW s \in got' PROVE Placed(s)' /\ \E j \in 1..(i' - 1) : Table[j] = s
  <2>1. i \in 1..Len(Table) /\ 1..(i - 1) \subseteq 1..(i' - 1) /\ i \in 1..(i' - 1)
    BY <1>2, AskPlace, Constants
  <2>2. CASE s \in got
    BY <1>6, <2>1, <2>2 DEF GotOK
  <2>3. CASE s = t
    BY <1>7, <1>8, <2>1, <2>3
  <2> QED BY <1>2, <1>7, <2>2, <2>3
<1>10. strong' <=> got' \ cfg'.weak # {}
  BY <1>2 DEF GotOK
<1> QED BY <1>1, <1>2, <1>9, <1>10 DEF GotOK

LEMMA GotStep ==
  ASSUME IInv, [Next]_vars
  PROVE  GotOK'
<1>1. TypeOK /\ AskOK /\ GotOK
  BY DEF IInv
<1>2. CASE Call
  <2>1. got' = {} /\ next' = 0 /\ pc' = "scan" /\ strong' = FALSE
    BY <1>2 DEF Call
  <2>2. next' = N * Cardinality(got')
    BY <2>1, FS_EmptySet, Constants
  <2> QED BY <2>1, <2>2 DEF GotOK
<1>3. CASE /\ UNCHANGED <<next, got, strong, buf, cfg>> /\ (i' = i \/ i' = i + 1)
           /\ pc' # "idle" \/ UNCHANGED <<pc, reply>>
  <2>1. pc' = "idle" /\ reply'.ok => strong' /\ reply'.srcs = got' /\ reply'.len = next'
    BY <1>1, <1>3 DEF GotOK
  <2> QED BY <1>1, <1>3, <2>1, GotKept
<1>4. CASE Return
  <2>1. UNCHANGED <<next, got, strong, buf, cfg, i>>
    BY <1>4 DEF Return, call
  <2>2. reply'.ok => strong' /\ reply'.srcs = got' /\ reply'.len = next'
    <3>1. CASE strong
      <4>1. reply' = [ok |-> TRUE, srcs |-> got, len |-> next]
        BY <1>4, <3>1 DEF Return
      <4> QED BY <2>1, <3>1, <4>1
    <3>2. CASE ~strong
      BY <1>4, <3>2 DEF Return, Failure
    <3> QED BY <3>1, <3>2
  <2> QED BY <1>1, <2>1, <2>2, GotKept
<1>5. CASE Read
  <2>1. Asking /\ Origin.src = Table[i] /\ pc = "read" /\ UNCHANGED <<cfg, reply>>
    BY <1>5 DEF Read, Asking, Origin
  <2>2. PICK r \in 1..(N - fill) :
          /\ Write(r, Origin)
          /\ IF fill + r = N THEN Works /\ CloseOwn ELSE UNCHANGED <<i, next, got, strong, pc, fds>>
    BY <1>5 DEF Read
  <2>3. r \in 0..(N - fill)
    BY <1>1, <2>2, Constants DEF TypeOK
  <2>4. CASE fill + r = N
    BY <1>1, <2>1, <2>2, <2>3, <2>4, GotMore
  <2>5. CASE fill + r # N
    <3>1. \A k \in 0..(next - 1) : buf'[k] = buf[k]
      BY <1>1, <2>1, <2>2, <2>3, WriteSlot
    <3> QED BY <1>1, <2>1, <2>2, <2>5, <3>1, GotKept
  <2> QED BY <2>4, <2>5
<1>6. CASE RdrandWord
  <2>1. Asking /\ Table[i] = "rdrand" /\ pc = "rdrand" /\ UNCHANGED <<cfg, reply>>
    BY <1>1, <1>6 DEF RdrandWord, Asking, AskOK, Sources
  <2>2. PICK r : /\ r = IF N - fill >= Word THEN Word ELSE N - fill
                 /\ Write(r, [src |-> "rdrand", from |-> NoFile])
                 /\ IF fill + r = N THEN Works ELSE UNCHANGED <<i, next, got, strong, pc>>
    BY <1>6 DEF RdrandWord
  <2>3. r \in 0..(N - fill)
    BY <1>1, <2>2, Constants DEF TypeOK
  <2>4. [src |-> "rdrand", from |-> NoFile].src = Table[i]
    BY <2>1
  <2>5. CASE fill + r = N
    BY <1>1, <2>1, <2>2, <2>3, <2>4, <2>5, GotMore
  <2>6. CASE fill + r # N
    <3>1. \A k \in 0..(next - 1) : buf'[k] = buf[k]
      BY <1>1, <2>1, <2>2, <2>3, <2>4, WriteSlot
    <3> QED BY <1>1, <2>1, <2>2, <2>6, <3>1, GotKept
  <2> QED BY <2>5, <2>6
<1>7. Ask => pc' # "idle"
  <2>1. Ask => Table[i] \in Sources
    BY <1>1, Constants DEF Ask, TypeOK
  <2> QED BY <2>1 DEF Ask, Sources
<1> QED
  BY <1>2, <1>3, <1>4, <1>5, <1>6, <1>7
  DEF Next, Lib, Skip, Ask, UrandomOpen, FstatFails, UrandomReject, UrandomAccept,
      UrandomMismatch, ReadFails, EgdSocket, EgdUnavailable, EgdConnect, EgdConnectFails, EgdAnswers,
      EgdRefuses, RdrandFails, PathChanges, UserRedirects,
      Fails, vars, call

-----------------------------------------------------------------------------
(* The device.                                                             *)

(* A step that leaves the inode, the world and the buffer alone.           *)
LEMMA DeviceSame ==
  ASSUME DeviceOK, UNCHANGED <<cfg, inode, devs, buf, userfd, touched>>, pc' # "read"
  PROVE  DeviceOK'
BY DEF DeviceOK, Known

LEMMA DeviceWrites ==
  ASSUME TypeOK, AskOK, GotOK, DeviceOK, Asking, NEW r \in 0..(N - fill), NEW b, b.src = Table[i],
         Write(r, b), ~cfg.nondev /\ touched # "during" /\ b.src = "urandom" => Known(b.from),
         UNCHANGED <<cfg, inode, devs, userfd, touched>>,
         pc' # "read" \/ UNCHANGED <<pc, i, own, opened>>
  PROVE  DeviceOK'
<1>1. DOMAIN buf' = DOMAIN buf /\ \A k \in DOMAIN buf : buf'[k] \in {b, buf[k]}
  BY WriteSlot
<1> QED BY <1>1 DEF DeviceOK, Known, Target

LEMMA DeviceStep ==
  ASSUME IInv, [Next]_vars
  PROVE  DeviceOK'
<1>1. TypeOK /\ AskOK /\ FdsOK /\ GotOK /\ DeviceOK
  BY DEF IInv
<1>2. CASE Call
  <2>1. UNCHANGED <<cfg, inode, devs, userfd, touched>> /\ pc' = "scan"
    BY <1>2 DEF Call, world
  <2>2. \A k \in DOMAIN buf' : buf'[k].src # "urandom"
    BY <1>2 DEF Call, Unset
  <2> QED BY <1>1, <2>1, <2>2 DEF DeviceOK, Known
<1>3. CASE UNCHANGED <<cfg, inode, devs, buf, userfd, touched>> /\ pc' # "read"
  BY <1>1, <1>3, DeviceSame
<1>4. CASE UNCHANGED <<cfg, inode, devs, buf, userfd, touched, pc, i, fds>>
  BY <1>1, <1>4 DEF DeviceOK, Known, Target, fds
<1>5. CASE Return
  <2>1. UNCHANGED <<cfg, inode, buf, userfd, touched>> /\ pc' = "idle"
    BY <1>5 DEF Return, call, world
  <2>2. ASSUME ~cfg.nondev, touched # "during" PROVE \A f \in devs' : Known(f)
    <3>1. ASSUME NEW k \in 0..(next - 1), buf[k].src = "urandom" PROVE Known(buf[k].from)
      <4>1. next \in Nat /\ next <= BufLen
        <5>1. PICK m \in 0..Len(Table) : next = N * m
          BY <1>1 DEF TypeOK
        <5> QED BY <1>1, <5>1, SlotsFit, GotFinite, Constants DEF BufLen
      <4>2. k \in DOMAIN buf
        BY <1>1, <4>1, Constants DEF TypeOK
      <4> QED BY <1>1, <2>2, <3>1, <4>2 DEF DeviceOK
    <3>2. \A f \in devs : Known(f)
      BY <1>1, <2>2 DEF DeviceOK
    <3> QED BY <1>5, <3>1, <3>2 DEF Return
  <2> QED BY <1>1, <2>1, <2>2 DEF DeviceOK, Known
<1>6. CASE UrandomAccept
  <2>1. UNCHANGED <<cfg, devs, buf, userfd, touched, own, opened, i>> /\ pc = "fstat" /\ pc' = "read"
    BY <1>6 DEF UrandomAccept, call, fds, world
  <2>2. SUFFICES ASSUME ~cfg.nondev PROVE DeviceOK'
    BY <2>1 DEF DeviceOK
  <2>3. Target \in Files /\ inode' = Target.ino /\ (inode = 0 \/ Target.ino = inode) /\ Target' = Target
    BY <1>6, <2>1, <2>2 DEF UrandomAccept, IsDevice, SameDevice, Target
  <2>4. inode # 0 => inode' = inode
    BY <2>3, Constants
  <2>5. \A f : Known(f) => f.ino \in {0, inode'}
    BY <2>4 DEF Known
  <2>6. touched' # "during" => \A f \in devs' : f.ino \in {0, inode'}
    BY <1>1, <2>1, <2>2, <2>5 DEF DeviceOK
  <2>7. touched' # "during" =>
          \A k \in DOMAIN buf' : buf'[k].src = "urandom" => buf'[k].from.ino \in {0, inode'}
    BY <1>1, <2>1, <2>2, <2>5 DEF DeviceOK
  <2>8. cfg.fd => Target = userfd
    BY <1>1, <2>1 DEF FdsOK, Target
  <2>9. Target' \in Files /\ Target'.ino \in {0, inode'}
    BY <2>3
  <2>10. cfg'.fd => userfd' \in Files /\ userfd'.ino = inode'
    BY <2>1, <2>3, <2>8
  <2> QED BY <2>6, <2>7, <2>9, <2>10 DEF DeviceOK, Known
<1>7. CASE UrandomMismatch
  <2>1. UNCHANGED <<cfg, inode, devs, buf, touched>> /\ pc = "fstat" /\ pc' = "scan"
    BY <1>7 DEF UrandomMismatch, Fails
  <2>2. CASE own
    <3>1. UNCHANGED userfd
      BY <1>7, <2>2 DEF UrandomMismatch
    <3> QED BY <1>1, <2>1, <3>1, DeviceSame
  <2>3. CASE ~own
    <3>1. inode # 0 /\ userfd.ino # inode /\ ~cfg.nondev
      BY <1>7, <2>3 DEF UrandomMismatch, SameDevice, Target
    <3>2. cfg.fd
      BY <1>1, <2>1, <2>3, EntropyParameters DEF FdsOK, TypeOK, ConfigType
    <3>3. touched # "no"
      BY <1>1, <3>1, <3>2 DEF DeviceOK
    <3> QED BY <1>1, <2>1, <3>3 DEF DeviceOK, Known
  <2> QED BY <2>2, <2>3
<1>8. CASE Read
  <2>1. /\ Asking /\ Origin.src = Table[i] /\ pc = "read"
        /\ UNCHANGED <<cfg, inode, devs, userfd, touched>>
    BY <1>8 DEF Read, Asking, Origin, world
  <2>2. PICK r \in 1..(N - fill) :
          /\ Write(r, Origin)
          /\ IF fill + r = N THEN Works /\ CloseOwn ELSE UNCHANGED <<i, next, got, strong, pc, fds>>
    BY <1>8 DEF Read
  <2>3. r \in 0..(N - fill)
    BY <1>1, <2>2, Constants DEF TypeOK
  <2>4. ~cfg.nondev /\ touched # "during" /\ Origin.src = "urandom" => Known(Origin.from)
    BY <1>1, <2>1 DEF DeviceOK, Origin
  <2>5. pc' # "read" \/ UNCHANGED <<pc, i, own, opened>>
    BY <2>2 DEF Works, fds
  <2> QED BY <1>1, <2>1, <2>2, <2>3, <2>4, <2>5, DeviceWrites
<1>9. CASE EgdAnswers
  <2>1. UNCHANGED <<cfg, inode, devs, buf, userfd, touched, i>> /\ pc = "exchange"
    BY <1>9 DEF EgdAnswers, call, world
  <2>2. Table[i'] = "egd"
    BY <1>1, <2>1 DEF AskOK, Asking
  <2> QED BY <1>1, <2>1, <2>2 DEF DeviceOK, Known
<1>10. CASE RdrandWord
  <2>1. /\ Asking /\ Table[i] = "rdrand"
        /\ UNCHANGED <<cfg, inode, devs, userfd, touched>>
    BY <1>1, <1>10 DEF RdrandWord, Asking, AskOK, Sources, world
  <2>2. PICK r : /\ r = IF N - fill >= Word THEN Word ELSE N - fill
                 /\ Write(r, [src |-> "rdrand", from |-> NoFile])
                 /\ pc' # "read"
    BY <1>10 DEF RdrandWord, Works
  <2>3. r \in 0..(N - fill)
    BY <1>1, <2>2, Constants DEF TypeOK
  <2>4. [src |-> "rdrand", from |-> NoFile].src = Table[i] /\ Table[i] # "urandom"
    BY <2>1
  <2> QED BY <1>1, <2>1, <2>2, <2>3, <2>4, DeviceWrites
<1>11. CASE UserRedirects
  <2>1. UNCHANGED <<cfg, inode, devs, buf, pc>> /\ touched' # "no"
    BY <1>11 DEF UserRedirects, call
  <2>2. touched' # "during" => touched # "during" /\ pc' = "idle"
    BY <1>11 DEF UserRedirects
  <2> QED BY <1>1, <2>1, <2>2 DEF DeviceOK, Known
<1>12. Ask => pc' # "read"
  <2>1. Ask => Table[i] \in Sources
    BY <1>1, Constants DEF Ask, TypeOK
  <2> QED BY <2>1 DEF Ask, Sources
<1> QED
  BY <1>2, <1>3, <1>4, <1>5, <1>6, <1>7, <1>8, <1>9, <1>10, <1>11, <1>12
  DEF Next, Lib, Skip, Ask, UrandomOpen, FstatFails, UrandomReject, ReadFails, EgdSocket,
      EgdUnavailable, EgdConnect, EgdConnectFails, EgdRefuses, RdrandFails, PathChanges, Fails, vars, call, world

-----------------------------------------------------------------------------
(* The theorems.                                                           *)

LEMMA InitIInv == Init => IInv
<1> SUFFICES ASSUME Init PROVE IInv
  OBVIOUS
<1>1. TypeOK
  BY TypeInit
<1>2. AskOK
  BY DEF Init, AskOK, Asking
<1>3. FdsOK
  BY DEF Init, FdsOK
<1>4. GotOK
  <2>1. Cardinality(got) = 0 /\ next = 0
    BY FS_EmptySet DEF Init
  <2>2. next = N * Cardinality(got)
    BY <2>1, Constants
  <2>3. got = {} /\ ~strong /\ ~reply.ok
    BY DEF Init, Failure
  <2> QED BY <2>2, <2>3 DEF GotOK
<1>5. DeviceOK
  BY DEF Init, DeviceOK, Unset
<1> QED BY <1>1, <1>2, <1>3, <1>4, <1>5 DEF IInv

LEMMA NextIInv == IInv /\ [Next]_vars => IInv'
BY TypeStep, AskStep, FdsStep, GotStep, DeviceStep DEF IInv

(* IInv holds in every state ottery_get_entropy_ can be in.                *)
THEOREM EntropyInvariance == Spec => []IInv
<1> QED BY InitIInv, NextIInv, PTL DEF Spec

(* The buffer is never overrun, whatever lengths the reads return and      *)
(* however the last RDRAND word is cut; every variable has its type.       *)
THEOREM EntropyTypeCorrect == Spec => []TypeOK
<1>1. IInv => TypeOK
  BY DEF IInv
<1> QED BY <1>1, EntropyInvariance, PTL

(* A successful call delivers N bytes from each source it names, and       *)
(* nothing that a failed source left behind.                               *)
THEOREM EntropyDelivered == Spec => []Delivered
<1>1. IInv => Delivered
  <2> SUFFICES ASSUME IInv, pc = "idle", reply.ok
               PROVE  /\ reply.srcs # {} /\ reply.len = N * Cardinality(reply.srcs)
                      /\ \A s \in reply.srcs :
                           \E k \in Slots : (k + 1) * N <= reply.len /\ FromSource(k, s)
    BY DEF Delivered
  <2>1. strong /\ reply.srcs = got /\ reply.len = next
    BY DEF IInv, GotOK
  <2>2. got # {} /\ next = N * Cardinality(got)
    BY <2>1 DEF IInv, GotOK
  <2>3. \A s \in got : \E k \in Slots : (k + 1) * N <= next /\ FromSource(k, s)
    BY DEF IInv, GotOK, Placed
  <2> QED BY <2>1, <2>2, <2>3
<1> QED BY <1>1, EntropyInvariance, PTL

(* A successful call holds the bytes of a source that is not marked weak.  *)
THEOREM EntropyStrong == Spec => []StrongInput
<1>1. IInv => StrongInput
  <2> SUFFICES ASSUME IInv, pc = "idle", reply.ok
               PROVE  \E k \in Slots, s \in Sources \ cfg.weak :
                        (k + 1) * N <= reply.len /\ FromSource(k, s)
    BY DEF StrongInput
  <2>1. strong /\ reply.len = next
    BY DEF IInv, GotOK
  <2>2. PICK s \in got : s \notin cfg.weak
    BY <2>1 DEF IInv, GotOK
  <2>3. s \in Sources
    BY <2>2 DEF IInv, TypeOK
  <2>4. \E k \in Slots : (k + 1) * N <= next /\ FromSource(k, s)
    BY <2>2 DEF IInv, GotOK, Placed
  <2> QED BY <2>1, <2>2, <2>3, <2>4
<1> QED BY <1>1, EntropyInvariance, PTL

(* Between sources and between calls the library has no descriptor open.   *)
THEOREM NoDescriptorLeaks == Spec => []NoFdLeak
<1>1. IInv => NoFdLeak
  BY DEF IInv, FdsOK, NoFdLeak
<1> QED BY <1>1, EntropyInvariance, PTL

(* All the device input a state ever gets is read under one inode number,  *)
(* unless the user changes urandom_fd while a call is using it.            *)
THEOREM OneInodeForLife == Spec => []OneInode
<1>1. IInv => OneInode
  <2> SUFFICES ASSUME IInv, ~cfg.nondev, touched # "during",
                      NEW f \in devs, NEW g \in devs, f.ino # 0, g.ino # 0
               PROVE  f.ino = g.ino
    BY DEF OneInode
  <2>1. Known(f) /\ Known(g)
    BY DEF IInv, DeviceOK
  <2> QED BY <2>1 DEF Known
<1> QED BY <1>1, EntropyInvariance, PTL

(* The user's descriptor is closed only if the user has redirected or      *)
(* closed it: an untouched one still refers to the remembered device.      *)
THEOREM UserDescriptorKept == Spec => UserFdKept
<1>1. IInv /\ [Next]_vars => [userfd' = NoFile /\ userfd # NoFile => touched' # "no"]_vars
  <2> SUFFICES ASSUME IInv, Next, userfd' = NoFile, userfd # NoFile PROVE touched' # "no"
    OBVIOUS
  <2>1. TypeOK /\ FdsOK /\ DeviceOK
    BY DEF IInv
  <2>2. CASE UserRedirects
    BY <2>2 DEF UserRedirects
  <2>3. CASE UrandomMismatch
    <3>1. ~own /\ touched' = touched /\ pc = "fstat"
      BY <2>3 DEF UrandomMismatch
    <3>2. inode # 0 /\ userfd.ino # inode /\ ~cfg.nondev
      BY <2>3, <3>1 DEF UrandomMismatch, SameDevice, Target
    <3>3. cfg.fd
      BY <2>1, <3>1, EntropyParameters DEF FdsOK, TypeOK, ConfigType
    <3>4. touched # "no"
      BY <2>1, <3>2, <3>3 DEF DeviceOK
    <3> QED BY <3>1, <3>4
  <2>4. UserRedirects \/ UrandomMismatch \/ UNCHANGED userfd
    BY DEF Next, Lib, Call, Skip, Ask, Return, UrandomOpen, FstatFails, UrandomReject, UrandomAccept,
           Read, ReadFails, EgdSocket, EgdUnavailable, EgdConnect, EgdConnectFails, EgdAnswers, EgdRefuses, RdrandWord, RdrandFails,
           PathChanges, world
  <2> QED BY <2>2, <2>3, <2>4
<1> QED BY <1>1, EntropyInvariance, PTL DEF Spec, UserFdKept

=============================================================================
