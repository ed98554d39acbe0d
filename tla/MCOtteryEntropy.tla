-------------------------- MODULE MCOtteryEntropy --------------------------
(***************************************************************************)
(* OtteryEntropy for TLC: the table of a Unix build on x86, 3-byte slots   *)
(* and 2-byte RDRAND words (so that the last word is cut short).           *)
(***************************************************************************)
EXTENDS OtteryEntropy

UnixTable == <<"urandom", "egd", "rdrand">>

(* Two devices of one inode number on two file systems, one of another     *)
(* number, one of number 0 that is at its end (like /dev/null), and a      *)
(* plain file.                                                             *)
SomeFiles ==
  {[dev |-> 1, ino |-> 1, chr |-> TRUE,  eof |-> FALSE],
   [dev |-> 2, ino |-> 1, chr |-> TRUE,  eof |-> FALSE],
   [dev |-> 1, ino |-> 2, chr |-> TRUE,  eof |-> FALSE],
   [dev |-> 2, ino |-> 0, chr |-> TRUE,  eof |-> TRUE],
   [dev |-> 1, ino |-> 3, chr |-> FALSE, eof |-> FALSE]}

Config(fd, nondev, egd, disabled, weak) ==
  [fd |-> fd, nondev |-> nondev, egd |-> egd, disabled |-> disabled, weak |-> weak]

(* By name and by descriptor, with each source weak or disabled in turn.   *)
SomeConfigs ==
  {Config(fd, FALSE, TRUE, {}, weak) :
     fd \in BOOLEAN, weak \in {{}, {"urandom"}, {"egd", "rdrand"}}}
  \cup {Config(FALSE, TRUE, FALSE, {}, {}),
        Config(TRUE, FALSE, FALSE, {"rdrand"}, {}),
        Config(FALSE, FALSE, TRUE, {"urandom"}, {"rdrand"})}
=============================================================================
