------------------------------ MODULE Numbers ------------------------------
(***************************************************************************)
(* The kernel library's arithmetic (lib/arithmetic.c), fixed-point numbers *)
(* (threads/fixed-point.h), sorting and searching (lib/stdlib.c) and the   *)
(* calibration of delay loops (devices/timer.c), as functions of their     *)
(* inputs.  Words have W bits where the code has 32, and double words 2W.  *)
(***************************************************************************)
EXTENDS Integers, Sequences, FiniteSets, FiniteSetsExt

CONSTANTS W,            \* a power of 2
          Items,        \* the elements of arrays
          LoopWidth, FirstLoops, RefineBits     \* 32, 1 << 10 and 10 in timer.c

ASSUME NumbersAssumption == /\ \E k \in 1..6 : W = 2 ^ k
                            /\ Items \subseteq Int
                            /\ \E k \in RefineBits..LoopWidth - 1 : FirstLoops = 2 ^ k

b == 2 ^ W
DWord == 0..b * b - 1
Wrap(x) == x % (b * b)
\* A double word as a signed number, and the other way round.
Signed(x) == IF x >= (b * b) \div 2 THEN x - b * b ELSE x
SDWord == -((b * b) \div 2) .. ((b * b) \div 2) - 1
Abs(x) == IF x < 0 THEN -x ELSE x
\* C's division truncates.
CDiv(x, y) == IF (x < 0) = (y < 0) THEN Abs(x) \div Abs(y) ELSE -(Abs(x) \div Abs(y))

-----------------------------------------------------------------------------
(* arithmetic.c *)

Trap == -1
divl(n, d) == IF d = 0 \/ n \div d >= b THEN Trap ELSE n \div d

\* Halving steps: where the upper half is zero, shift it out.
RECURSIVE nlz_from(_, _)
nlz_from(x, k) == IF k = 0 THEN 0
                  ELSE IF x < 2 ^ (W - k) THEN k + nlz_from((x * 2 ^ k) % b, k \div 2)
                  ELSE nlz_from(x, k \div 2)
nlz(x) == nlz_from(x, W \div 2)

\* The estimate is taken as it is, one too large at times.
udiv64_estimate(n, d) ==
  IF d < b THEN divl(b * ((n \div b) % d) + (n % b), d) + b * ((n \div b) \div d)
  ELSE IF n < d THEN 0
  ELSE LET s == nlz(d \div b)
       IN divl(n \div 2, Wrap(d * 2 ^ s) \div b) \div 2 ^ (W - 1 - s)

udiv64(n, d) ==
  IF d < b THEN divl(b * ((n \div b) % d) + (n % b), d) + b * ((n \div b) \div d)
  ELSE IF n < d THEN 0
  ELSE LET s == nlz(d \div b)
           q == divl(n \div 2, Wrap(d * 2 ^ s) \div b) \div 2 ^ (W - 1 - s)
       IN IF Wrap(n - (q - 1) * d) < d THEN q - 1 ELSE q

\* The remainder is returned as a single word.
umod64(n, d) == (n - d * udiv64(n, d)) % b

sdiv64(n, d) ==
  LET q == udiv64(Abs(n), Abs(d)) IN
  IF (n < 0) = (d < 0) THEN Signed(Wrap(q)) ELSE Signed(Wrap(-q))

smod64(n, d) == LET r == (n - d * sdiv64(n, d)) % b IN IF r < b \div 2 THEN r ELSE r - b

-----------------------------------------------------------------------------
(* fixed-point.h, with words of W bits, half of them a fraction.  A result *)
(* that does not fit its word wraps.                                       *)

FIX_F == 2 ^ (W \div 2)
Fix == -(b \div 2) .. (b \div 2) - 1
mk_fix(f) == ((f + (b \div 2)) % b) - (b \div 2)
fix_int(n) == mk_fix(n * FIX_F)
fix_frac(n, d) == mk_fix(CDiv(n * FIX_F, d))
fix_round(x) == CDiv(mk_fix(x + FIX_F \div 2), FIX_F)
fix_trunc(x) == CDiv(x, FIX_F)
fix_add(x, y) == mk_fix(x + y)
fix_sub(x, y) == mk_fix(x - y)
\* The product is taken in a single word.
fix_mul_narrow(x, y) == mk_fix(CDiv(mk_fix(x * y), FIX_F))
fix_mul(x, y) == mk_fix(CDiv(x * y, FIX_F))
fix_scale(x, n) == mk_fix(x * n)
fix_div(x, y) == mk_fix(CDiv(x * FIX_F, y))
fix_unscale(x, n) == mk_fix(CDiv(x, n))
fix_inv(x) == fix_div(fix_int(1), x)
fix_compare(x, y) == IF x < y THEN -1 ELSE IF x > y THEN 1 ELSE 0

-----------------------------------------------------------------------------
(* stdlib.c *)

do_swap(a, i, j) == [a EXCEPT ![i] = a[j], ![j] = a[i]]

\* Only the left child is compared with the largest so far.
RECURSIVE heapify_parent(_, _, _)
heapify_parent(a, i, cnt) ==
  LET left  == 2 * i
      right == 2 * i + 1
      m1  == IF left <= cnt /\ a[left] > a[i] THEN left ELSE i
      max == IF right <= cnt /\ a[right] > a[i] THEN right ELSE m1
  IN IF max = i THEN a ELSE heapify_parent(do_swap(a, i, max), max, cnt)

RECURSIVE heapify(_, _, _)
heapify(a, i, cnt) ==
  LET left  == 2 * i
      right == 2 * i + 1
      m1  == IF left <= cnt /\ a[left] > a[i] THEN left ELSE i
      max == IF right <= cnt /\ a[right] > a[m1] THEN right ELSE m1
  IN IF max = i THEN a ELSE heapify(do_swap(a, i, max), max, cnt)

RECURSIVE heap_build(_, _)
heap_build(a, i) == IF i = 0 THEN a ELSE heap_build(heapify(a, i, Len(a)), i - 1)
RECURSIVE heap_sort(_, _)
heap_sort(a, i) == IF i <= 1 THEN a ELSE heap_sort(heapify(do_swap(a, 1, i), 1, i - 1), i - 1)
sort(a) == heap_sort(heap_build(a, Len(a) \div 2), Len(a))

\* The array from first to last (exclusive); 0 when the key is not there.
RECURSIVE search_from(_, _, _, _)
search_from(key, a, first, last) ==
  LET middle == first + ((last - first) \div 2) IN
  IF first >= last THEN 0
  ELSE IF key < a[middle] THEN search_from(key, a, first, middle)
  ELSE IF key > a[middle] THEN search_from(key, a, middle + 1, last)
  ELSE middle
binary_search(key, a) == search_from(key, a, 1, Len(a) + 1)

-----------------------------------------------------------------------------
(* timer.c: how many turns of a loop take a tick, on a processor that can  *)
(* do limit of them.                                                       *)

too_many_loops(loops, limit) == loops > limit

\* The largest power of two; Trap when it has been shifted out.
RECURSIVE high_bit(_, _)
high_bit(loops, limit) ==
  LET twice == (2 * loops) % 2 ^ LoopWidth IN
  IF too_many_loops(twice, limit) THEN loops
  ELSE IF twice = 0 THEN Trap ELSE high_bit(twice, limit)

\* Every bit is tried together with the high bit alone.
timer_calibrate(limit) ==
  LET high == high_bit(FirstLoops, limit)
      tested == {high \div 2 ^ k : k \in 1..RefineBits - 1}
  IN IF high = Trap THEN Trap
     ELSE high + FoldSet(LAMBDA x, y : x + y, 0, {t \in tested : ~too_many_loops(high + t, limit)})

=============================================================================
