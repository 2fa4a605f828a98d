----------------------------- MODULE DumpSnapshot -----------------------------
(***************************************************************************)
(* The modified-page count of src/tools/dump_snapshot.cpp: the tool walks  *)
(* the snapshot's bitmap copy word by word, tests the bits of each word    *)
(* and stops after the word at which the number of pages seen equals the   *)
(* allocated pool size in pages.  Words are WordBits wide (64 in the code).*)
(***************************************************************************)
EXTENDS Naturals, Sequences

CONSTANTS
  WordBits,     \* bits per bitmap word
  Words         \* words of the bitmap copy

Word == 0 .. 2^WordBits - 1

\* Reference: the number of set bits of a word.
RECURSIVE PopCount(_)
PopCount(x) == IF x = 0 THEN 0 ELSE (x % 2) + PopCount(x \div 2)

RECURSIVE SumPop(_, _)
SumPop(s, k) == IF k = 0 THEN 0 ELSE PopCount(s[k]) + SumPop(s, k - 1)

VARIABLES
  bitmap,          \* the bitmap copy at header->bitmap_offset
  allocatedPages,  \* pool size from the GlobalAlloc state / granularity
  i,               \* word index
  loaded,          \* a word has been read into bit
  p,               \* bit index in the word
  bit,             \* the word being scanned
  modifiedPages,
  totalPages,
  done

vars == << bitmap, allocatedPages, i, loaded, p, bit, modifiedPages, totalPages, done >>

TypeOK ==
  /\ bitmap \in [1 .. Words -> Word]
  /\ allocatedPages \in Nat
  /\ i \in 1 .. Words + 1
  /\ loaded \in BOOLEAN
  /\ p \in 0 .. WordBits
  /\ bit \in Word
  /\ modifiedPages \in Nat /\ totalPages \in Nat
  /\ done \in BOOLEAN

\* The pool grows in whole blocks, so its page count is a non-zero multiple
\* of a bitmap word and at most the bitmap's extent.
Init ==
  /\ bitmap \in [1 .. Words -> Word]
  /\ allocatedPages \in {k * WordBits : k \in 1 .. Words}
  /\ i = 1 /\ loaded = FALSE /\ p = 0 /\ bit = 0
  /\ modifiedPages = 0 /\ totalPages = 0
  /\ done = FALSE

\* uint64_t bit = bitmap[i];
LoadWord ==
  /\ ~done /\ ~loaded
  /\ bit' = bitmap[i]
  /\ loaded' = TRUE /\ p' = 0
  /\ UNCHANGED << bitmap, allocatedPages, i, modifiedPages, totalPages, done >>

\* if (bit & 1) modifiedPages++; totalPages++; bit >> 1;  -- the shift's
\* result is discarded, so bit keeps its value.
TestBit ==
  /\ ~done /\ loaded /\ p < WordBits
  /\ modifiedPages' = modifiedPages + (bit % 2)
  /\ totalPages' = totalPages + 1
  /\ p' = p + 1
  /\ UNCHANGED << bitmap, allocatedPages, i, loaded, bit, done >>

\* if (totalPages == allocatedPages) break;  then the next word
EndWord ==
  /\ ~done /\ loaded /\ p = WordBits
  /\ IF totalPages = allocatedPages
       THEN done' = TRUE /\ UNCHANGED << i, loaded, p >>
       ELSE /\ i' = i + 1 /\ loaded' = FALSE /\ p' = 0
            /\ done' = (i + 1 > Words)
  /\ UNCHANGED << bitmap, allocatedPages, bit, modifiedPages, totalPages >>

Scanned == done /\ UNCHANGED vars

Next == LoadWord \/ TestBit \/ EndWord \/ Scanned

Spec == Init /\ [][Next]_vars

\* The "Modified pages" line reports the number of set bits of the bitmap
\* over the allocated pages (what the counting loop of main() is for).
ModifiedPagesIsPopCount ==
  done => modifiedPages = SumPop(bitmap, allocatedPages \div WordBits)

=============================================================================
