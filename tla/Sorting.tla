------------------------------- MODULE Sorting -------------------------------
(***************************************************************************)
(* include/sorting.hpp.  An array is a function a with domain 0 .. n - 1,  *)
(* so that indices are the code's.                                         *)
(***************************************************************************)
EXTENDS Integers, Sequences, FiniteSets

LOCAL INSTANCE SequencesExt
LOCAL INSTANCE FiniteSetsExt

Size(a) == Cardinality(DOMAIN a)
swap(a, i, j) == [a EXCEPT ![i] = a[j], ![j] = a[i]]
Part(a, l, r) == [k \in 1 .. r - l + 1 |-> a[l + k - 1]]
UpTo(lo, hi) == [k \in 1 .. Max({0, hi - lo + 1}) |-> lo + k - 1]

-----------------------------------------------------------------------------
(* mergeSort                                                               *)
RECURSIVE Collated(_, _)
Collated(left, right) ==
  IF left = <<>> \/ right = <<>> THEN left \o right
  ELSE IF Head(left) <= Head(right) THEN <<Head(left)>> \o Collated(Tail(left), right)
                                    ELSE <<Head(right)>> \o Collated(left, Tail(right))
merge(a, l, m, r) ==
  LET M == Collated(Part(a, l, m), Part(a, m + 1, r))
  IN  [k \in DOMAIN a |-> IF k \in l .. r THEN M[k - l + 1] ELSE a[k]]

RECURSIVE mergeSort(_, _, _)
mergeSort(a, l, r) ==
  LET m == l + (r - l) \div 2
  IN  IF l >= r THEN a
      ELSE merge(mergeSort(mergeSort(a, l, m), m + 1, r), l, m, r)

(* quickSort: what is not above the pivot a[r] gathers in l .. s.i.        *)
Scanned(l, r) == UpTo(l, r - 1)
Partitioned(a, l, r) ==
  FoldLeft(LAMBDA s, j : IF s.a[j] <= a[r] THEN [a |-> swap(s.a, s.i + 1, j), i |-> s.i + 1]
                                           ELSE s,
           [a |-> a, i |-> l - 1], Scanned(l, r))

RECURSIVE quickSort(_, _, _)
quickSort(a, l, r) ==
  LET s == Partitioned(a, l, r)  i == s.i + 1
  IN  IF l >= r THEN a
      ELSE quickSort(quickSort(swap(s.a, i, r), l, i - 1), i + 1, r)

(* heapSort: heapify sinks a[i] in the heap a[0 .. n - 1].                 *)
Children(i, n) == {c \in {2 * i + 1, 2 * i + 2} : c < n}

RECURSIVE heapify(_, _, _)
heapify(a, n, i) ==
  LET big == {c \in Children(i, n) : a[c] > a[i]}
      largest == CHOOSE c \in big : \A d \in big : a[c] > a[d] \/ (a[c] = a[d] /\ c <= d)
  IN  IF big = {} THEN a ELSE heapify(swap(a, i, largest), n, largest)

heapSort(a) ==
  LET n == Size(a)
      heap == FoldLeft(LAMBDA b, i : heapify(b, n, i), a, Reverse(UpTo(0, n \div 2 - 1)))
  IN  FoldLeft(LAMBDA b, i : heapify(swap(b, 0, i), i, 0), heap, Reverse(UpTo(1, n - 1)))

(* binarySearch                                                            *)
RECURSIVE Search(_, _, _, _)
Search(a, target, l, r) ==
  LET m == l + (r - l) \div 2
  IN  IF l > r THEN -1
      ELSE IF a[m] = target THEN m
      ELSE IF a[m] < target THEN Search(a, target, m + 1, r)
      ELSE Search(a, target, l, m - 1)
binarySearch(a, target) == Search(a, target, 0, Size(a) - 1)

-----------------------------------------------------------------------------
(* What they are compared with.                                            *)
Ascends(a) == \A i, j \in DOMAIN a : i < j => a[i] <= a[j]
Occurrences(a, x) == Cardinality({i \in DOMAIN a : a[i] = x})
IsRearranged(a, b) == DOMAIN a = DOMAIN b /\ \A i \in DOMAIN a : Occurrences(a, a[i])
                                                                = Occurrences(b, a[i])
Sorts(a, b) == Ascends(b) /\ IsRearranged(a, b)
Finds(a, x, i) == IF \E k \in DOMAIN a : a[k] = x THEN i \in DOMAIN a /\ a[i] = x ELSE i = -1
=============================================================================
