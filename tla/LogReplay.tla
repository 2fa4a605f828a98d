------------------------------ MODULE LogReplay ------------------------------
(***************************************************************************)
(* Method logging and replay of the persistent key-value objects.  Before  *)
(* a Put/insert mutates the object its arguments are appended to the      *)
(* object's redo log (Log builds the argument vector, AppendLog writes the *)
(* entry: tag, then the argument bytes, padded to a whole log line); after *)
(* a crash every entry is handed to Play, which decodes the key and value  *)
(* from the raw argument bytes and re-applies the call.  Two codecs exist: *)
(*  - "NulTerminated" (map.hpp, unordered_map.hpp, hash_map.hpp): key and  *)
(*    value are logged with their terminating NUL and Play finds the value *)
(*    at key + strlen(key) + 1;                                            *)
(*  - "Slice" (rocksdb pdb.h): key and value are logged as Slice bytes     *)
(*    without terminator and Play finds the value at key + strlen(key);    *)
(*  - "Single" (vector.hpp push_back, priority_queue.hpp push): the one    *)
(*    value is logged with its NUL and Play reads it at args.              *)
(* A log belongs to one object, so its codec is fixed in Init.            *)
(* Strings are sequences over small non-zero byte values; 0 is NUL.        *)
(***************************************************************************)
EXTENDS Naturals, Sequences, SequencesExt

CONSTANTS
  Codecs,     \* the codecs of the objects checked: "NulTerminated", "Slice", "Single"
  Strings,    \* the keys and values the workload uses
  Tag,        \* the method tag byte (non-zero)
  Line,       \* log line size: entries are padded to a multiple of it
  MaxPuts     \* bound on logged calls

NUL == 0

ASSUME Codecs \subseteq {"NulTerminated", "Slice", "Single"} /\ Tag # NUL /\ Line > 0

\* The C string starting at position i of b: the bytes up to the first NUL.
CStr(b, i) ==
  LET n == SelectInSubSeq(b, i, Len(b), LAMBDA x : x = NUL) IN
  SubSeq(b, i, n - 1)

\* map.hpp Log: vector[1] = key, strlen + 1; vector[2] = value, strlen + 1.
NulLogArgs(k, v) == k \o <<NUL>> \o v \o <<NUL>>

\* pdb.h Log: vector[1] = key->data(), key->size(); likewise the value.
SliceLogArgs(k, v) == k \o v

\* Mutant: the value is looked for right after the key's last byte.
NulPlayNoSkip(b) ==
  LET key == CStr(b, 1)
      value == CStr(b, Len(key) + 1)
  IN [key |-> key, value |-> value, processed |-> Len(key) + Len(value) + 2]

\* map.hpp Play: key at args, value at args + strlen(key) + 1.
NulPlay(b) ==
  LET key == CStr(b, 1)
      value == CStr(b, Len(key) + 2)
  IN [key |-> key, value |-> value, processed |-> Len(key) + Len(value) + 2]

\* pdb.h Play: key at args, value at args + strlen(key).
SlicePlay(b) ==
  LET key == CStr(b, 1)
      value == CStr(b, Len(key) + 1)
  IN [key |-> key, value |-> value, processed |-> Len(key) + Len(value) + 2]

\* vector.hpp Log: vector[1] = value, strlen + 1 (no key).
SingleLogArgs(v) == v \o <<NUL>>

\* vector.hpp Play: value at args, strlen(value) + 1 bytes processed.
SinglePlay(b) ==
  LET value == CStr(b, 1)
  IN [key |-> << >>, value |-> value, processed |-> Len(value) + 1]

VARIABLES
  codec,      \* the codec of the object whose log this is
  log,        \* the log's bytes, up to its tail
  starts,     \* offset of every entry
  logged,     \* the calls made: << key, value, argument bytes >>
  replayed,   \* the calls Play re-applied: << key, value, bytes processed >>
  mode        \* "running" or "recovering"

LogArgs(k, v) ==
  CASE codec = "Slice"  -> SliceLogArgs(k, v)
    [] codec = "Single" -> SingleLogArgs(v)
    [] OTHER            -> NulLogArgs(k, v)

Play(b) ==
  CASE codec = "Slice"  -> SlicePlay(b)
    [] codec = "Single" -> SinglePlay(b)
    [] OTHER            -> NulPlay(b)

\* AppendLog: the tag, the argument bytes, NUL padding to a whole line.
Entry(k, v) ==
  LET body == <<Tag>> \o LogArgs(k, v)
      pad == (Line - (Len(body) % Line)) % Line
  IN body \o [i \in 1 .. pad |-> NUL]

vars == << codec, log, starts, logged, replayed, mode >>

Init ==
  /\ codec \in Codecs
  /\ log = << >> /\ starts = << >>
  /\ logged = << >> /\ replayed = << >>
  /\ mode = "running"

\* Put(key, value) / insert(key, value): Savitar_thread_notify logs the
\* call, then the object is mutated.
Put(k, v) ==
  /\ mode = "running"
  /\ Len(logged) < MaxPuts
  /\ starts' = Append(starts, Len(log) + 1)
  /\ log' = log \o Entry(k, v)
  /\ logged' = Append(logged, << k, v, Len(LogArgs(k, v)) >>)
  /\ UNCHANGED << codec, replayed, mode >>

\* push_back(value) / push(value): the one-argument call, logged likewise.
PushBack(v) == Put(<< >>, v)

\* The process stops; on restart the object is rebuilt by replaying its log.
Crash ==
  /\ mode = "running"
  /\ mode' = "recovering"
  /\ UNCHANGED << codec, log, starts, logged, replayed >>

\* Replay of the next entry: Play gets the bytes after the tag; the log file
\* beyond the tail reads as zeros.
Replay ==
  /\ mode = "recovering"
  /\ Len(replayed) < Len(starts)
  /\ LET s == starts[Len(replayed) + 1]
         r == Play(SubSeq(log, s + 1, Len(log)) \o <<NUL>>)
     IN replayed' = Append(replayed, << r.key, r.value, r.processed >>)
  /\ UNCHANGED << codec, log, starts, logged, mode >>

Recovered == mode = "recovering" /\ Len(replayed) = Len(starts) /\ UNCHANGED vars

Next ==
  \/ codec # "Single" /\ \E k, v \in Strings : Put(k, v)
  \/ codec = "Single" /\ \E v \in Strings : PushBack(v)
  \/ Crash
  \/ Replay
  \/ Recovered

Spec == Init /\ [][Next]_vars

\* Replaying the log re-applies exactly the calls that were made, with the
\* same key and value, and Play reports as processed exactly the argument
\* bytes Log wrote (the object's Log/Play pair round-trips).
ReplayReproducesCalls ==
  \A j \in 1 .. Len(replayed) : replayed[j] = logged[j]

=============================================================================
