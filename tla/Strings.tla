------------------------------ MODULE Strings ------------------------------
(***************************************************************************)
(* The kernel library's string functions (lib/string.c) over a memory of   *)
(* characters: addresses 0..MemEnd, where character 0 ends a string and    *)
(* the last cell always holds one.                                         *)
(***************************************************************************)
EXTENDS Integers, Sequences, FiniteSets

CONSTANTS MemEnd, Chars

ASSUME StringsAssumption == MemEnd \in Nat \ {0} /\ Chars \subseteq Nat /\ 0 \in Chars

NullPtr == -1
Min2(x, y) == IF x < y THEN x ELSE y

-----------------------------------------------------------------------------
(* string.c.  Functions that write return the new memory.                  *)

RECURSIVE memcpy(_, _, _, _)
memcpy(m, dst, src, size) ==
  IF size = 0 THEN m ELSE memcpy([m EXCEPT ![dst] = m[src]], dst + 1, src + 1, size - 1)

RECURSIVE copy_down(_, _, _, _)
copy_down(m, dst, src, size) ==
  IF size = 0 THEN m
  ELSE copy_down([m EXCEPT ![dst + size - 1] = m[src + size - 1]], dst, src, size - 1)

\* The direction is the wrong one.
memmove_upwards(m, dst, src, size) == memcpy(m, dst, src, size)

memmove(m, dst, src, size) ==
  IF dst < src THEN memcpy(m, dst, src, size) ELSE copy_down(m, dst, src, size)

RECURSIVE memset(_, _, _, _)
memset(m, dst, value, size) ==
  IF size = 0 THEN m ELSE memset([m EXCEPT ![dst] = value], dst + 1, value, size - 1)

RECURSIVE memcmp(_, _, _, _)
memcmp(m, a, b, size) ==
  IF size = 0 THEN 0
  ELSE IF m[a] # m[b] THEN (IF m[a] > m[b] THEN 1 ELSE -1)
  ELSE memcmp(m, a + 1, b + 1, size - 1)

RECURSIVE strcmp(_, _, _)
strcmp(m, a, b) ==
  IF m[a] # 0 /\ m[a] = m[b] THEN strcmp(m, a + 1, b + 1)
  ELSE IF m[a] < m[b] THEN -1 ELSE IF m[a] > m[b] THEN 1 ELSE 0

RECURSIVE memchr(_, _, _, _)
memchr(m, block, ch, size) ==
  IF size = 0 THEN NullPtr
  ELSE IF m[block] = ch THEN block ELSE memchr(m, block + 1, ch, size - 1)

RECURSIVE strchr(_, _, _)
strchr(m, s, c) ==
  IF m[s] = c THEN s ELSE IF m[s] = 0 THEN NullPtr ELSE strchr(m, s + 1, c)

RECURSIVE strlen(_, _)
strlen(m, s) == IF m[s] = 0 THEN 0 ELSE 1 + strlen(m, s + 1)

RECURSIVE strcspn(_, _, _)
strcspn(m, s, stop) ==
  IF m[s] = 0 \/ strchr(m, stop, m[s]) # NullPtr THEN 0 ELSE 1 + strcspn(m, s + 1, stop)

RECURSIVE strspn(_, _, _)
strspn(m, s, skip) ==
  IF m[s] = 0 \/ strchr(m, skip, m[s]) = NullPtr THEN 0 ELSE 1 + strspn(m, s + 1, skip)

RECURSIVE strpbrk(_, _, _)
strpbrk(m, s, stop) ==
  IF m[s] = 0 THEN NullPtr
  ELSE IF strchr(m, stop, m[s]) # NullPtr THEN s ELSE strpbrk(m, s + 1, stop)

RECURSIVE last_of(_, _, _, _)
last_of(m, s, c, p) == IF m[s] = 0 THEN p ELSE last_of(m, s + 1, c, IF m[s] = c THEN s ELSE p)
strrchr(m, s, c) == last_of(m, s, c, NullPtr)

RECURSIVE match_from(_, _, _, _)
match_from(m, i, end, needle) ==
  IF i > end THEN NullPtr
  ELSE IF memcmp(m, i, needle, strlen(m, needle)) = 0 THEN i
  ELSE match_from(m, i + 1, end, needle)
strstr(m, haystack, needle) ==
  IF strlen(m, haystack) < strlen(m, needle) THEN NullPtr
  ELSE match_from(m, haystack, haystack + strlen(m, haystack) - strlen(m, needle), needle)

strlcpy(m, dst, src, size) ==
  LET dst_len == Min2(strlen(m, src), size - 1)
  IN IF size = 0 THEN m ELSE [memcpy(m, dst, src, dst_len) EXCEPT ![dst + dst_len] = 0]

strlcat(m, dst, src, size) ==
  LET dst_len == strlen(m, dst)
      copy_cnt == Min2(strlen(m, src), size - dst_len - 1)
  IN IF size = 0 \/ dst_len >= size THEN m
     ELSE [memcpy(m, dst + dst_len, src, copy_cnt) EXCEPT ![dst + dst_len + copy_cnt] = 0]

\* strtok_r with the delimiter 1: the token, the memory and the position.
Delimiter(c) == c \in {0, 1}
RECURSIVE skip_delimiters(_, _)
skip_delimiters(m, s) == IF m[s] = 1 THEN skip_delimiters(m, s + 1) ELSE s
RECURSIVE token_end(_, _)
token_end(m, s) == IF Delimiter(m[s]) THEN s ELSE token_end(m, s + 1)
strtok_r(m, s) ==
  LET token == skip_delimiters(m, s)
      end == token_end(m, token)
  IN IF m[token] = 0 THEN [token |-> NullPtr, mem |-> m, save |-> token]
     ELSE IF m[end] # 0 THEN [token |-> token, mem |-> [m EXCEPT ![end] = 0], save |-> end + 1]
     ELSE [token |-> token, mem |-> m, save |-> end]

=============================================================================
