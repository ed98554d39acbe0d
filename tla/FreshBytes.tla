----------------------------- MODULE FreshBytes -----------------------------
(***************************************************************************)
(* What libottery promises its callers, with nothing of how it is done.    *)
(* A user asks for some number of bytes and is given them, in one piece or *)
(* several; no byte of pseudorandom output is ever given out a second      *)
(* time, to this user or to any other.  A call may also be abandoned (a    *)
(* fatal error whose handler returned, or the death of the process).       *)
(***************************************************************************)
EXTENDS Integers

CONSTANTS
  Users,   (* whoever calls the generator: the processes of OtteryState     *)
  Bytes    (* the identities of the bytes that can be given out             *)

VARIABLES
  given,   (* given[u]: every byte handed to u so far                       *)
  chunk,   (* chunk[u]: the piece most recently written for u               *)
  asked,   (* asked[u]: the size of u's current or last request             *)
  owed     (* owed[u]: what its unfinished request still lacks, or Done     *)

vars == <<given, chunk, asked, owed>>

Done == -1

NoBytes == [i \in 0..(-1) |-> 0]

AllGiven == UNION {given[u] : u \in Users}

Init ==
  /\ given = [u \in Users |-> {}]
  /\ chunk = [u \in Users |-> NoBytes]
  /\ asked = [u \in Users |-> 0]
  /\ owed  = [u \in Users |-> Done]

(* c holds m different bytes, none of which anybody has been given.        *)
Fresh(c, m) ==
  /\ DOMAIN c = 0..(m - 1)
  /\ \A i \in DOMAIN c : c[i] \in Bytes /\ c[i] \notin AllGiven
  /\ \A i, j \in DOMAIN c : c[i] = c[j] => i = j

(* What u is owed by the request that this step serves.                    *)
Due(u) == IF owed[u] = Done THEN asked'[u] ELSE owed[u]

(* u is given m more bytes, of a new request when none is open.            *)
Give(u) ==
  \E m \in 0..asked'[u] :
    /\ Fresh(chunk'[u], m)
    /\ chunk' = [chunk EXCEPT ![u] = chunk'[u]]
    /\ given' = [given EXCEPT ![u] = @ \cup {chunk'[u][i] : i \in DOMAIN chunk'[u]}]
    /\ asked' = [asked EXCEPT ![u] = asked'[u]]
    /\ owed[u] # Done => asked'[u] = asked[u]
    /\ owed'  = [owed EXCEPT ![u] = owed'[u]]
    /\ owed'[u] = Due(u) - m \/ (owed'[u] = Done /\ Due(u) = m)

(* u's request ends short of what it asked for.                            *)
Abandon(u) ==
  /\ owed' = [owed EXCEPT ![u] = Done]
  /\ UNCHANGED <<given, chunk, asked>>

Next == \E u \in Users : Give(u) \/ Abandon(u)

Spec == Init /\ [][Next]_vars
=============================================================================
