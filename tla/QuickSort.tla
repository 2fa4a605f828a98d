------------------------------ MODULE QuickSort ------------------------------
(***************************************************************************)
(* The parallel sort of src/benchmark/sort-vector.cpp.  bench() splits the *)
(* persistent vector into one slice of PartSize elements per thread; each  *)
(* thread runs quick_sort on [LB, UB - 1] with an explicit stack of int64  *)
(* bounds and the Lomuto partition over uint64 indices, moving elements    *)
(* only through PersistentVector::swap, which takes no lock.  The main     *)
(* thread later sets stopThreads, which ends a thread's loop at its next   *)
(* pop, and returns, which ends the process.                               *)
(*                                                                         *)
(* Indices keep their width: uint64 arithmetic is modulo 2^Width and the   *)
(* int64 casts reinterpret the top bit as the sign.  An element is a      *)
(* DataElement: DataSize words, compared by operator<= word by word.  One  *)
(* partition iteration, swap included, is one step: the swaps of different *)
(* threads touch disjoint slices, which SlicesKeepTheirElements checks.    *)
(***************************************************************************)
EXTENDS Naturals, Integers, Sequences, FiniteSets

CONSTANTS
  T,          \* concurrencyLevel
  PartSize,   \* partitionSize = size / concurrencyLevel
  DataSize,   \* DATA_SIZE: words of a DataElement
  Vals,       \* the DataElements randomFill may produce
  Width       \* bits of uint64_t / int64_t

Threads == 0 .. T - 1
N == T * PartSize
Idx == 0 .. N - 1
Modulus == 2 ^ Width

\* operator<=(lhs, rhs): no word of lhs is greater than rhs's.
Leq(a, b) == \A w \in 1 .. DataSize : a[w] <= b[w]

ASSUME T >= 1 /\ PartSize >= 1 /\ N < 2 ^ (Width - 1)
ASSUME Vals \subseteq [1 .. DataSize -> Nat]

\* The slice [LB, UB) thread t is given by the spawning loop.
LB(t) == t * PartSize
UB(t) == (t + 1) * PartSize
Slice(t) == LB(t) .. UB(t) - 1

\* uint64_t arithmetic and the casts between uint64_t and int64_t.
U(x) == x % Modulus
ToSigned(u) == IF u >= 2 ^ (Width - 1) THEN u - Modulus ELSE u
ToUnsigned(s) == U(s)

VARIABLES
  arr,     \* the vector's elements
  arr0,    \* the elements as filled before the sort threads start
  stack,   \* callStack of every thread, top first: << [lb, ub] ... >>
  pc,      \* "loop", "part", "done" or "killed"
  lo, hi,  \* LB and UB of the running partition (uint64)
  i, j,    \* its loop variables (uint64)
  pivot,   \* its copy of pv->at(UB)
  stop,    \* stopThreads
  exited   \* bench() has returned and the process has ended

vars == << arr, arr0, stack, pc, lo, hi, i, j, pivot, stop, exited >>

\* Mutant: sort_thread calls quick_sort(LB, UB), past its slice.
InitWholeUB ==
  /\ arr \in [Idx -> Vals]
  /\ arr0 = arr
  /\ stack = [t \in Threads |-> << [lb |-> LB(t), ub |-> UB(t)] >>]
  /\ pc = [t \in Threads |-> "loop"]
  /\ lo = [t \in Threads |-> 0] /\ hi = [t \in Threads |-> 0]
  /\ i = [t \in Threads |-> 0] /\ j = [t \in Threads |-> 0]
  /\ pivot = [t \in Threads |-> CHOOSE v \in Vals : TRUE]
  /\ stop = FALSE /\ exited = FALSE

\* The vector has been filled; every thread starts with quick_sort(LB, UB-1).
Init ==
  /\ arr \in [Idx -> Vals]
  /\ arr0 = arr
  /\ stack = [t \in Threads |-> << [lb |-> LB(t), ub |-> UB(t) - 1] >>]
  /\ pc = [t \in Threads |-> "loop"]
  /\ lo = [t \in Threads |-> 0] /\ hi = [t \in Threads |-> 0]
  /\ i = [t \in Threads |-> 0] /\ j = [t \in Threads |-> 0]
  /\ pivot = [t \in Threads |-> CHOOSE v \in Vals : TRUE]
  /\ stop = FALSE /\ exited = FALSE

Swap(a, x, y) == [a EXCEPT ![x] = a[y], ![y] = a[x]]

-----------------------------------------------------------------------------
(* quick_sort and partition, run by every sort thread.                     *)

\* Mutant: the pivot is read from at(LB).
StartPartitionPivotAtLB(t, l, h) ==
  /\ pc' = [pc EXCEPT ![t] = "part"]
  /\ lo' = [lo EXCEPT ![t] = l] /\ hi' = [hi EXCEPT ![t] = h]
  /\ i' = [i EXCEPT ![t] = U(l + Modulus - 1)] /\ j' = [j EXCEPT ![t] = l]
  /\ pivot' = [pivot EXCEPT ![t] = arr[l]]

\* partition(pv, LB, UB) begins: pivot = at(UB), i = LB - 1, wrapping in
\* uint64_t when LB = 0, and j = LB.
StartPartition(t, l, h) ==
  /\ pc' = [pc EXCEPT ![t] = "part"]
  /\ lo' = [lo EXCEPT ![t] = l] /\ hi' = [hi EXCEPT ![t] = h]
  /\ i' = [i EXCEPT ![t] = U(l + Modulus - 1)] /\ j' = [j EXCEPT ![t] = l]
  /\ pivot' = [pivot EXCEPT ![t] = arr[h]]

\* Pop the top bounds; an empty range (ub <= lb as int64_t) is skipped, else
\* partition starts.  at() past the vector's end throws std::out_of_range,
\* which ends the process.
Pop(t) ==
  /\ pc[t] = "loop" /\ ~exited
  /\ stack[t] # << >> /\ ~stop
  /\ LET top == Head(stack[t])
         l == ToUnsigned(top.lb)
         h == ToUnsigned(top.ub)
         outOfRange == top.lb < top.ub /\ h \notin Idx
     IN /\ stack' = [stack EXCEPT ![t] = Tail(@)]
        /\ exited' = outOfRange
        /\ CASE top.ub <= top.lb ->
                  UNCHANGED << pc, lo, hi, i, j, pivot >>
             [] outOfRange ->
                  /\ pc' = [u \in Threads |-> IF pc[u] = "done" THEN "done" ELSE "killed"]
                  /\ UNCHANGED << lo, hi, i, j, pivot >>
             [] OTHER -> StartPartition(t, l, h)
  /\ UNCHANGED << arr, arr0, stop >>

\* while (!callStack.empty() && stopThreads == false) is left.
LeaveLoop(t) ==
  /\ pc[t] = "loop" /\ ~exited
  /\ stack[t] = << >> \/ stop
  /\ pc' = [pc EXCEPT ![t] = "done"]
  /\ UNCHANGED << arr, arr0, stack, lo, hi, i, j, pivot, stop, exited >>

\* One iteration: if (at(j) <= pivot) { i++; swap(i, j); } j++.
PartStep(t) ==
  /\ pc[t] = "part" /\ ~exited
  /\ j[t] < hi[t]
  /\ IF Leq(arr[j[t]], pivot[t])
       THEN /\ i' = [i EXCEPT ![t] = U(@ + 1)]
            /\ arr' = Swap(arr, U(i[t] + 1), j[t])
       ELSE UNCHANGED << i, arr >>
  /\ j' = [j EXCEPT ![t] = @ + 1]
  /\ UNCHANGED << arr0, stack, pc, lo, hi, pivot, stop, exited >>

\* Mutant: the left part is pushed up to pi instead of pi - 1.
PartEndPushLeftPivot(t) ==
  /\ pc[t] = "part" /\ ~exited
  /\ j[t] = hi[t]
  /\ LET pi == U(i[t] + 1) IN
     /\ arr' = Swap(arr, pi, hi[t])
     /\ stack' = [stack EXCEPT ![t] =
          << [lb |-> ToSigned(U(pi + 1)), ub |-> ToSigned(hi[t])],
             [lb |-> ToSigned(lo[t]), ub |-> ToSigned(pi)] >> \o @]
  /\ pc' = [pc EXCEPT ![t] = "loop"]
  /\ UNCHANGED << arr0, lo, hi, i, j, pivot, stop, exited >>

\* Mutant: the left part's upper bound pi - 1 is pushed as the uint64_t
\* value, without the int64_t cast that turns LB - 1 = 2^64 - 1 into -1.
PartEndUnsignedLeftUB(t) ==
  /\ pc[t] = "part" /\ ~exited
  /\ j[t] = hi[t]
  /\ LET pi == U(i[t] + 1) IN
     /\ arr' = Swap(arr, pi, hi[t])
     /\ stack' = [stack EXCEPT ![t] =
          << [lb |-> ToSigned(U(pi + 1)), ub |-> ToSigned(hi[t])],
             [lb |-> ToSigned(lo[t]), ub |-> U(pi + Modulus - 1)] >> \o @]
  /\ pc' = [pc EXCEPT ![t] = "loop"]
  /\ UNCHANGED << arr0, lo, hi, i, j, pivot, stop, exited >>

\* swap(i + 1, UB); pi = i + 1; push (lb, pi - 1) then (pi + 1, ub), each
\* computed in uint64_t and stored as int64_t.
PartEnd(t) ==
  /\ pc[t] = "part" /\ ~exited
  /\ j[t] = hi[t]
  /\ LET pi == U(i[t] + 1) IN
     /\ arr' = Swap(arr, pi, hi[t])
     /\ stack' = [stack EXCEPT ![t] =
          << [lb |-> ToSigned(U(pi + 1)), ub |-> ToSigned(hi[t])],
             [lb |-> ToSigned(lo[t]), ub |-> ToSigned(U(pi + Modulus - 1))] >> \o @]
  /\ pc' = [pc EXCEPT ![t] = "loop"]
  /\ UNCHANGED << arr0, lo, hi, i, j, pivot, stop, exited >>

-----------------------------------------------------------------------------
(* bench() on the main thread, after sleep(snapshotFrequency).             *)

\* stopThreads = true
Stop ==
  /\ ~stop
  /\ stop' = TRUE
  /\ UNCHANGED << arr, arr0, stack, pc, lo, hi, i, j, pivot, exited >>

\* return 0: the process ends with the sort threads never joined.
Exit ==
  /\ stop /\ ~exited
  /\ exited' = TRUE
  /\ pc' = [t \in Threads |-> IF pc[t] = "done" THEN "done" ELSE "killed"]
  /\ UNCHANGED << arr, arr0, stack, lo, hi, i, j, pivot, stop >>

\* Nothing is left to run.
Halted ==
  /\ exited \/ \A t \in Threads : pc[t] = "done"
  /\ UNCHANGED vars

SortStep(t) == Pop(t) \/ LeaveLoop(t) \/ PartStep(t) \/ PartEnd(t)

Next ==
  \/ \E t \in Threads : SortStep(t)
  \/ Stop
  \/ Exit
  \/ Halted

\* Every sort thread keeps being scheduled.  The main thread's steps are
\* not assumed to happen: the sort must terminate without stopThreads.
Spec == Init /\ [][Next]_vars /\ \A t \in Threads : WF_vars(SortStep(t))

-----------------------------------------------------------------------------
(* Properties.                                                             *)

Count(a, S, v) == Cardinality({k \in S : a[k] = v})

\* The unlocked swaps never cross slices: each slice always holds exactly
\* the elements it was filled with, so no two threads race on an element.
SlicesKeepTheirElements ==
  \A t \in Threads, v \in Vals : Count(arr, Slice(t), v) = Count(arr0, Slice(t), v)

\* A thread that leaves its loop with an empty stack has sorted its slice
\* as far as operator<= can: it compares word by word, so two elements may
\* be incomparable, but no element ends up after one it is strictly below.
SortedWhenDone ==
  \A t \in Threads :
    pc[t] = "done" /\ stack[t] = << >> =>
      \A k, m \in Slice(t) :
        k < m => ~(Leq(arr[m], arr[k]) /\ arr[m] # arr[k])

\* The uint64_t/int64_t conversions cancel: every range a thread still has
\* to sort, pushed or being partitioned, is empty as int64_t or lies inside
\* the thread's own slice.  So quick_sort never calls at() past the vector
\* (std::out_of_range would end the process) nor swaps in another slice.
RangesInSlice ==
  \A t \in Threads :
    /\ \A k \in 1 .. Len(stack[t]) :
         LET r == stack[t][k] IN
           r.lb < r.ub => {ToUnsigned(r.lb), ToUnsigned(r.ub)} \subseteq Slice(t)
    /\ pc[t] = "part" => {lo[t], hi[t]} \subseteq Slice(t)

\* Every sort thread's loop ends, stopped or not: no bounds pushed by the
\* uint64/int64 arithmetic make quick_sort run forever.
SortTerminates ==
  \A t \in Threads : <>(pc[t] \in {"done", "killed"})

=============================================================================
