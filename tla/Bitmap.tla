------------------------------- MODULE Bitmap -------------------------------
(***************************************************************************)
(* Bitmaps (pintos/src/lib/kernel/bitmap.c): a bitmap of n bits is a       *)
(* function from 0 .. n-1 to BOOLEAN.  The packing of the bits into words  *)
(* is left out; bitmap_mark and bitmap_reset change one bit atomically, so *)
(* a bitmap that is shared without a lock changes bit by bit.  Operations  *)
(* that only tests and assertions call are left out.                       *)
(***************************************************************************)
EXTENDS Integers, FiniteSets, FiniteSetsExt

BITMAP_ERROR == -1

bitmap_size(b) == Cardinality(DOMAIN b)
bitmap_create(bit_cnt) == [i \in 0 .. bit_cnt - 1 |-> FALSE]

bitmap_set(b, idx, value) == [b EXCEPT ![idx] = value]
bitmap_mark(b, idx) == bitmap_set(b, idx, TRUE)
bitmap_reset(b, idx) == bitmap_set(b, idx, FALSE)

bitmap_set_multiple(b, start, cnt, value) ==
  [i \in DOMAIN b |-> IF i \in start .. start + cnt - 1 THEN value ELSE b[i]]

bitmap_contains(b, start, cnt, value) ==
  \E i \in start .. start + cnt - 1 : b[i] = value

bitmap_scan(b, start, cnt, value) ==
  LET fits == {i \in start .. bitmap_size(b) - cnt :
                 ~bitmap_contains(b, i, cnt, ~value)}
  IN  IF fits = {} THEN BITMAP_ERROR ELSE Min(fits)

\* The bitmap after bitmap_scan_and_flip returned idx.
bitmap_flipped(b, idx, cnt, value) ==
  IF idx = BITMAP_ERROR THEN b ELSE bitmap_set_multiple(b, idx, cnt, ~value)
=============================================================================
