--------------------------- MODULE BenchmarkHarness ---------------------------
(***************************************************************************)
(* The benchmark driver of src/benchmark/common/base.cpp.  Benchmark::run  *)
(* spawns threads 0 .. N-2, runs the worker of thread N-1 on the main      *)
(* thread, joins the others and sums the operations they report.  Each    *)
(* worker increments the shared counter sync, busy-waits until it reads    *)
(* sync = N, runs its trace, decrements sync and cleans up; the thread     *)
(* whose increment reaches N stamps t1, the one whose decrement reaches 0  *)
(* stamps t2, and t2 - t1 is the reported latency.                         *)
(***************************************************************************)
EXTENDS Naturals, FiniteSets, FiniteSetsExt, Functions

CONSTANTS
  N,          \* cfg->threads
  TraceLen    \* TraceLen[t]: operations in thread t's trace

Threads == 0 .. N - 1
Main == N - 1
Spawned == 0 .. N - 2

ASSUME N \in Nat \ {0} /\ TraceLen \in [Threads -> Nat]

\* Points of Benchmark::worker a thread can be at.
Stages == {"unborn", "init", "add", "spin", "work", "sub", "cleanup", "done"}

VARIABLES
  sync,       \* Benchmark::sync
  pc,         \* stage of every thread
  ops,        \* operations each thread's worker returned
  t1, t2,     \* whether t1 / t2 have been stamped, and how often
  mainPc,     \* Benchmark::run: "spawn", "worker", "join", "end"
  spawnNext,  \* loop index of the spawning loop
  joined,     \* threads joined so far
  total       \* ops summed in run()

vars == << sync, pc, ops, t1, t2, mainPc, spawnNext, joined, total >>

TypeOK ==
  /\ sync \in 0 .. N
  /\ pc \in [Threads -> Stages]
  /\ ops \in [Threads -> Nat]
  /\ t1 \in Nat /\ t2 \in Nat
  /\ mainPc \in {"spawn", "worker", "join", "end"}
  /\ spawnNext \in 0 .. N - 1
  /\ joined \subseteq Spawned
  /\ total \in Nat

Init ==
  /\ sync = 0
  /\ pc = [t \in Threads |-> "unborn"]
  /\ ops = [t \in Threads |-> 0]
  /\ t1 = 0 /\ t2 = 0
  /\ mainPc = "spawn"
  /\ spawnNext = 0
  /\ joined = {}
  /\ total = 0

Step(t, from, to) ==
  /\ pc[t] = from
  /\ pc' = [pc EXCEPT ![t] = to]

-----------------------------------------------------------------------------
(* Benchmark::run on the main thread.                                      *)

\* Mutant: the spawning loop runs to i < threads.
SpawnAll ==
  /\ mainPc = "spawn"
  /\ spawnNext < N
  /\ Step(spawnNext, "unborn", "init")
  /\ spawnNext' = spawnNext + 1
  /\ UNCHANGED << sync, ops, t1, t2, mainPc, joined, total >>

\* for (i = 0; i < threads - 1; i++) pthread_create(..., worker, ...)
Spawn ==
  /\ mainPc = "spawn"
  /\ spawnNext < N - 1
  /\ Step(spawnNext, "unborn", "init")
  /\ spawnNext' = spawnNext + 1
  /\ UNCHANGED << sync, ops, t1, t2, mainPc, joined, total >>

\* The loop is over: the main thread calls worker() itself.
RunMainWorker ==
  /\ mainPc = "spawn"
  /\ spawnNext = N - 1
  /\ mainPc' = "worker"
  /\ Step(Main, "unborn", "init")
  /\ UNCHANGED << sync, ops, t1, t2, spawnNext, joined, total >>

\* worker() of the main thread returned: ops = its result.
MainWorkerReturned ==
  /\ mainPc = "worker"
  /\ pc[Main] = "done"
  /\ mainPc' = "join"
  /\ total' = ops[Main]
  /\ UNCHANGED << sync, pc, ops, t1, t2, spawnNext, joined >>

\* Mutant: the join loop stops one thread short.
JoinOneShort ==
  /\ mainPc = "join"
  /\ joined # Spawned
  /\ LET i == Min(Spawned \ joined) IN
     /\ pc[i] = "done"
     /\ joined' = IF Cardinality(Spawned \ joined) = 1 THEN Spawned
                                                      ELSE joined \cup {i}
     /\ total' = IF Cardinality(Spawned \ joined) = 1 THEN total
                                                     ELSE total + ops[i]
  /\ UNCHANGED << sync, pc, ops, t1, t2, mainPc, spawnNext >>

\* pthread_join(t[i]) in index order, adding the thread's ops.
Join ==
  /\ mainPc = "join"
  /\ joined # Spawned
  /\ LET i == Min(Spawned \ joined) IN
     /\ pc[i] = "done"
     /\ joined' = joined \cup {i}
     /\ total' = total + ops[i]
  /\ UNCHANGED << sync, pc, ops, t1, t2, mainPc, spawnNext >>

\* assert(ops == cfg->operations) and return.
Finish ==
  /\ mainPc = "join"
  /\ joined = Spawned
  /\ mainPc' = "end"
  /\ UNCHANGED << sync, pc, ops, t1, t2, spawnNext, joined, total >>

-----------------------------------------------------------------------------
(* Benchmark::worker, run by every thread.                                 *)

\* me->init(myID)
InitThread(t) ==
  /\ Step(t, "init", "add")
  /\ UNCHANGED << sync, ops, t1, t2, mainPc, spawnNext, joined, total >>

\* t = __sync_add_and_fetch(&sync, 1); if (t == threads) stamp t1
Arrive(t) ==
  /\ Step(t, "add", "spin")
  /\ sync' = sync + 1
  /\ t1' = IF sync + 1 = N THEN t1 + 1 ELSE t1
  /\ UNCHANGED << ops, t2, mainPc, spawnNext, joined, total >>

\* Mutant: the wait ends one arrival early.
SpinOneEarly(t) ==
  /\ pc[t] = "spin"
  /\ pc' = [pc EXCEPT ![t] = IF sync >= N - 1 THEN "work" ELSE "spin"]
  /\ UNCHANGED << sync, ops, t1, t2, mainPc, spawnNext, joined, total >>

\* while (sync != threads) {}: one read of sync; the loop goes on
\* (a step that changes nothing) unless it reads N.
Spin(t) ==
  /\ pc[t] = "spin"
  /\ pc' = [pc EXCEPT ![t] = IF sync = N THEN "work" ELSE "spin"]
  /\ UNCHANGED << sync, ops, t1, t2, mainPc, spawnNext, joined, total >>

\* ops = me->worker(myID): the trace is run to its end.
Work(t) ==
  /\ Step(t, "work", "sub")
  /\ ops' = [ops EXCEPT ![t] = TraceLen[t]]
  /\ UNCHANGED << sync, t1, t2, mainPc, spawnNext, joined, total >>

\* Mutant: t2 is stamped when the count reaches 1 instead of 0.
DepartStampAtOne(t) ==
  /\ Step(t, "sub", "cleanup")
  /\ sync' = sync - 1
  /\ t2' = IF sync - 1 = 1 THEN t2 + 1 ELSE t2
  /\ UNCHANGED << ops, t1, mainPc, spawnNext, joined, total >>

\* t = __sync_sub_and_fetch(&sync, 1); if (t == 0) stamp t2
Depart(t) ==
  /\ Step(t, "sub", "cleanup")
  /\ sync' = sync - 1
  /\ t2' = IF sync - 1 = 0 THEN t2 + 1 ELSE t2
  /\ UNCHANGED << ops, t1, mainPc, spawnNext, joined, total >>

\* me->cleanup(myID); return ops
Cleanup(t) ==
  /\ Step(t, "cleanup", "done")
  /\ UNCHANGED << sync, ops, t1, t2, mainPc, spawnNext, joined, total >>

ThreadStep(t) ==
  InitThread(t) \/ Arrive(t) \/ Spin(t) \/ Work(t) \/ Depart(t) \/ Cleanup(t)

MainStep == Spawn \/ RunMainWorker \/ MainWorkerReturned \/ Join \/ Finish

\* run() has returned: the process goes on to print its report and exit.
Terminated == mainPc = "end" /\ UNCHANGED vars

Next ==
  \/ MainStep
  \/ \E t \in Threads : ThreadStep(t)
  \/ Terminated

\* Every thread that can run is eventually scheduled; nothing more: a
\* spinning thread may be descheduled while sync = N.
Fairness == WF_vars(MainStep) /\ \A t \in Threads : WF_vars(ThreadStep(t))

Spec == Init /\ [][Next]_vars /\ Fairness

-----------------------------------------------------------------------------
(* Properties.                                                             *)

Arrived(t) == pc[t] \in {"spin", "work", "sub", "cleanup", "done"}
Working(t) == pc[t] \in {"work", "sub", "cleanup", "done"}

\* The spin-wait is a barrier: no thread starts its trace before every
\* thread has incremented sync (the start line of the measured run).
WorkAfterAllArrived ==
  \A t \in Threads : Working(t) => \A u \in Threads : Arrived(u)

\* The latency window is sound: t2 is stamped at most once, and only when
\* every thread has run its whole trace and t1 has been stamped once.
LatencyWindow ==
  t2 # 0 => /\ t2 = 1 /\ t1 = 1
            /\ \A t \in Threads : ops[t] = TraceLen[t]

\* run()'s assert(ops == cfg->operations) holds when run() returns.
OpsAddUp ==
  mainPc = "end" => total = SumFunction(TraceLen)

\* Every started benchmark gets through the barrier and run() returns:
\* no thread spins forever on sync.
RunReturns == <>(mainPc = "end")

=============================================================================
