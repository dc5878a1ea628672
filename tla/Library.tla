------------------------------ MODULE Library ------------------------------
(***************************************************************************)
(* The kernel's C library functions against what their comments promise.   *)
(* The functions are operators of Numbers, Format, Strings, Ustar and      *)
(* Screen; a behaviour is one sample of inputs, and the properties compare *)
(* what the code computes from it with a definition that does not follow   *)
(* the code.                                                               *)
(***************************************************************************)
EXTENDS Numbers, Format, Strings, Ustar, Screen

CONSTANTS MaxItems,             \* longest array to sort
          NameChars, FileSizes, \* names and sizes to put in archive headers
          MaxText, MaxKeys      \* longest output, without and with control characters

ASSUME LibraryAssumption ==
  MaxItems \in Nat /\ MaxText \in Nat /\ MaxKeys \in Nat /\ NameChars \subseteq 1..MaxByte /\ FileSizes \subseteq 0..MaxSize

VARIABLE sample

NoSample == [of |-> "none"]
Arrays == UNION {[1..n -> Items] : n \in 0..MaxItems}
Conversions ==
  [spec : {"d", "u", "o", "x", "p", "c", "s"}, flags : FlagSets, width : Widths,
   precision : Precisions, type : DOMAIN TypeBits, arg : Arguments, size : BufSizes]
Texts == [mem : {m \in [0..MemEnd -> Chars] : m[MemEnd] = 0},
          p : 0..MemEnd, q : 0..MemEnd, n : 0..MemEnd]
FileNames == UNION {[1..n -> NameChars] : n \in 0..NameWidth}
HeaderInputs == [name : FileNames, type : {Regular, Directory}, size : FileSizes]
Outputs(chars, most) == UNION {[1..n -> chars] : n \in 0..most}

LibInit ==
  \/ sample \in [of : {"udiv"}, n : DWord, d : DWord \ {0}]
  \/ sample \in [of : {"sdiv"}, n : SDWord, d : SDWord \ {0}]
  \/ sample \in [of : {"fix"}, x : Fix, y : Fix]
  \/ sample \in [of : {"sort"}, a : Arrays]
  \/ sample \in [of : {"format"}, item : Conversions]
  \/ sample \in [of : {"string"}, text : Texts]
  \/ sample \in [of : {"header"}, entry : HeaderInputs]
  \/ sample \in [of : {"loops"}, limit : 0..2 ^ LoopWidth - 1]
  \/ sample \in [of : {"screen"}, text : Outputs({"a", "b", "nl"}, MaxText)]
  \/ sample \in [of : {"keys"}, cp : 0..COL_CNT * ROW_CNT - 1,
                 text : Outputs({"a", "nl", "ff", "bs", "cr", "tab", "bel"}, MaxKeys)]

-----------------------------------------------------------------------------
(* Properties: numbers *)

(* The 64-bit division GCC calls never traps and gives the quotient, also  *)
(* where it estimates by half a divisor; the remainder is right when it    *)
(* fits the word it is returned in.                                        *)
DivisionExact ==
  /\ sample.of = "udiv" =>
       /\ udiv64(sample.n, sample.d) = sample.n \div sample.d
       /\ sample.n % sample.d < b => umod64(sample.n, sample.d) = sample.n % sample.d
  /\ sample.of = "sdiv" =>
       LET rem == sample.n - sample.d * CDiv(sample.n, sample.d) IN
       /\ sdiv64(sample.n, sample.d) = Signed(Wrap(CDiv(sample.n, sample.d)))
       /\ 2 * rem \in -b .. b - 1 => smod64(sample.n, sample.d) = rem

(* Where the exact result fits its word a fixed-point operation is less    *)
(* than one unit away from it, and conversions of integers are exact;      *)
(* numbers that are not negative are rounded to the nearest integer.       *)
FixedPointClose ==
  sample.of = "fix" =>
    LET x == sample.x
        y == sample.y
        near(r, num, den) == CDiv(num, den) \in Fix => Abs(r * den - num) < Abs(den)
    IN /\ near(fix_mul(x, y), x * y, FIX_F)
       /\ y # 0 => /\ near(fix_div(x, y), x * FIX_F, y)
                   /\ near(fix_frac(x, y), x * FIX_F, y)
                   /\ near(fix_inv(y), FIX_F * FIX_F, y)
       /\ y > 0 /\ x * y \in Fix => fix_unscale(fix_scale(x, y), y) = x
       /\ fix_sub(fix_add(x, y), y) = x
       /\ x * FIX_F \in Fix => fix_trunc(fix_int(x)) = x
       /\ x >= 0 /\ x + FIX_F \div 2 \in Fix => 2 * Abs(fix_round(x) * FIX_F - x) <= FIX_F
       /\ (fix_compare(x, y) > 0) = (x > y)

(* sort leaves a sorted permutation of its array, in which binary_search   *)
(* finds exactly the keys that are there.                                  *)
SortedAndFound ==
  sample.of = "sort" =>
    LET a == sample.a
        r == sort(a)
        times(s, x) == Cardinality({i \in DOMAIN s : s[i] = x})
    IN /\ \A i \in 1..Len(r) - 1 : r[i] <= r[i + 1]
       /\ \A x \in Items : times(r, x) = times(a, x)
       /\ \A x \in Items : LET at == binary_search(x, r) IN
            IF times(a, x) = 0 THEN at = 0 ELSE r[at] = x

(* The calibrated number of loops is at least what the processor does in a *)
(* tick, up to the bits that are refined, and less than twice that: delays *)
(* are not cut short.                                                      *)
CalibrationClose ==
  sample.of = "loops" /\ sample.limit >= FirstLoops =>
    LET loops == timer_calibrate(sample.limit)
        high == high_bit(FirstLoops, sample.limit)
        least == high \div 2 ^ (RefineBits - 1)
    IN IF loops = Trap THEN 2 * sample.limit >= 2 ^ LoopWidth
       ELSE /\ sample.limit - (sample.limit % least) <= loops
            /\ loops < 2 * high /\ high <= sample.limit

-----------------------------------------------------------------------------
(* Properties: formatted output *)

RECURSIVE ValueOf(_, _, _)
ValueOf(s, base, acc) == IF s = << >> THEN acc
                         ELSE ValueOf(Tail(s), base, IF s[1] < 16 THEN acc * base + s[1] ELSE acc)

NumbersReadBack(item) ==
  item.spec \in {"d", "u", "o", "x", "p"} =>
    LET out == vprintf_conversion(item)
        body == SelectSeq(out, LAMBDA ch : ch # Space)
        narrow == vprintf_conversion([item EXCEPT !.width = 0])
        value == IF item.spec = "d" THEN SignedArg(item.arg, item.type)
                 ELSE Unsigned(item.arg, IF item.spec = "p" THEN "int" ELSE item.type)
    IN /\ ValueOf(body, base_of(item.spec).base, 0) = AbsOf(value)
       /\ (Minus \in {body[i] : i \in DOMAIN body}) = (value < 0)
       /\ base_of(item.spec).base = 10 /\ "'" \notin item.flags => atoi(out) = value
       /\ ~("0" \in item.flags /\ item.width < 0) =>
            Len(out) = IF AbsOf(item.width) > Len(narrow) THEN AbsOf(item.width) ELSE Len(narrow)
       /\ item.precision >= 0 /\ "'" \notin item.flags =>
            Len(SelectSeq(narrow, LAMBDA ch : ch < 16)) >= item.precision

BufferHoldsPrefix(item) ==
  LET r == vsnprintf(item, item.size)
      out == vprintf(item)
  IN /\ r.length = Len(out) /\ Len(r.buffer) <= item.size
     /\ item.size > 0 => /\ Last(r.buffer) = Nul
                         /\ IsPrefix(Front(r.buffer), out)
                         /\ Len(out) < item.size => Front(r.buffer) = out

(* A formatted number reads back as the argument, in its base and, for a   *)
(* decimal one without grouping, by atoi; it fills its field and no more   *)
(* (the one exception is a zero-padded field whose `*' width is negative). *)
(* vsnprintf returns the length of the whole output, whatever fits, and    *)
(* leaves a null-terminated beginning of it within the buffer.             *)
OutputFaithful ==
  sample.of = "format" => NumbersReadBack(sample.item) /\ BufferHoldsPrefix(sample.item)

-----------------------------------------------------------------------------
(* Properties: strings *)

StringAt(m, s) == [i \in 1..strlen(m, s) |-> m[s + i - 1]]
Cells(m, s, n) == [i \in 0..n - 1 |-> m[s + i]]
Cut(s, n) == SubSeq(s, 1, Min2(Len(s), n))

\* What a copy writes, and that it writes nothing else.
BlocksMove(text) ==
  LET m == text.mem  p == text.p  q == text.q  n == text.n
      same(r, from, size) == \A a \in 0..MemEnd : a < from \/ a >= from + size => r[a] = m[a]
      apart == p + n <= q \/ q + strlen(m, q) < p
  IN /\ p + n <= MemEnd + 1 /\ q + n <= MemEnd + 1 =>
          LET r == memmove(m, p, q, n) IN Cells(r, p, n) = Cells(m, q, n) /\ same(r, p, n)
     /\ p + n <= MemEnd + 1 /\ apart /\ n > 0 =>
          LET r == strlcpy(m, p, q, n)
          IN StringAt(r, p) = Cut(StringAt(m, q), n - 1) /\ same(r, p, n)
     /\ p + n <= MemEnd + 1 /\ apart /\ strlen(m, p) < n =>
          LET r == strlcat(m, p, q, n)
          IN StringAt(r, p) = Cut(StringAt(m, p) \o StringAt(m, q), n - 1) /\ same(r, p, n)
     /\ p + n <= MemEnd + 1 => \A i \in 0..n - 1 : memset(m, p, 1, n)[p + i] = 1

\* The tokens from s on, as addresses and contents.
RECURSIVE TokensFrom(_, _)
TokensFrom(m, s) ==
  LET r == strtok_r(m, s) IN
  IF r.token = NullPtr THEN << >>
  ELSE <<StringAt(r.mem, r.token)>> \o TokensFrom(r.mem, r.save)
Starts(m, s) == {a \in s..s + strlen(m, s) - 1 : m[a] # 1 /\ (a = s \/ m[a - 1] = 1)}
TokensAreFields(text) ==
  LET m == text.mem  s == text.p  found == TokensFrom(m, s) IN
  /\ Len(found) = Cardinality(Starts(m, s))
  /\ \A a \in Starts(m, s) :
       LET k == Cardinality({x \in Starts(m, s) : x <= a})
           end == CHOOSE e \in a..MemEnd : m[e] \in {0, 1} /\ \A x \in a..e - 1 : m[x] \notin {0, 1}
       IN found[k] = [i \in 1..end - a |-> m[a + i - 1]]

SearchesFind(text) ==
  LET m == text.mem  p == text.p  q == text.q
      chars(s) == {StringAt(m, s)[i] : i \in 1..strlen(m, s)}
      occurs(a) == a + strlen(m, q) <= p + strlen(m, p)
                   /\ \A i \in 0..strlen(m, q) - 1 : m[a + i] = m[q + i]
      hits == {a \in p..p + strlen(m, p) : occurs(a)}
      stops == {a \in p..p + strlen(m, p) - 1 : m[a] \in chars(q)}
      first(S) == IF S = {} THEN NullPtr ELSE CHOOSE a \in S : \A x \in S : a <= x
      lastof(S) == IF S = {} THEN NullPtr ELSE CHOOSE a \in S : \A x \in S : a >= x
  IN /\ strstr(m, p, q) = first(hits)
     /\ strpbrk(m, p, q) = first(stops)
     /\ strcspn(m, p, q) = IF stops = {} THEN strlen(m, p) ELSE first(stops) - p
     /\ strspn(m, p, q) = LET out == (p..p + strlen(m, p)) \ stops IN first(out) - p
     /\ strrchr(m, p, 2) = lastof({a \in p..p + strlen(m, p) - 1 : m[a] = 2})
     /\ (strcmp(m, p, q) = 0) = (StringAt(m, p) = StringAt(m, q))
     /\ strcmp(m, p, q) = -strcmp(m, q, p)
     /\ p + text.n <= MemEnd + 1 =>
          memchr(m, p, 2, text.n) = first({a \in p..p + text.n - 1 : m[a] = 2})

(* Blocks that overlap move unharmed, copies and concatenations are cut to *)
(* their size and end in a null byte, the tokens of strtok_r are exactly   *)
(* the fields between delimiters, and the searches find the first (or      *)
(* last) place there is.                                                   *)
StringsAgree ==
  sample.of = "string" => /\ BlocksMove(sample.text) /\ TokensAreFields(sample.text)
                          /\ SearchesFind(sample.text)

-----------------------------------------------------------------------------
(* Properties: archive headers *)

(* A header reads back as what was put into it, a directory's size as 0    *)
(* and the name without a prefix that leads out of the directory; with one *)
(* byte changed it does so too or is refused: the checksum detects it.     *)
HeadersReadBack ==
  sample.of = "header" =>
    LET e == sample.entry
        h == ustar_make_header(e.name, e.type, e.size)
        out == ustar_parse_header(h)
    IN h # TooLong =>
         /\ out.ok /\ out.type = e.type
         /\ out.size = IF e.type = Directory THEN 0 ELSE e.size
         /\ IsSuffix(out.name, e.name) \/ out.name = <<Dot>>
         /\ out.name[1] # Slash /\ ~IsPrefix(<<Dot, Dot, Slash>>, out.name)
         /\ out.name # <<Dot, Dot>>
         /\ \A i \in 1..HeaderSize, byte \in 0..MaxByte :
              ustar_parse_header([h EXCEPT ![i] = byte]) \in {out, BadHeader}

-----------------------------------------------------------------------------
(* Properties: the screen *)

\* The columns and rows of a text on a screen without end.
Col(text, k) == LET breaks == {j \in 1..k - 1 : text[j] = "nl"}
                    from == IF breaks = {} THEN 0 ELSE Max(breaks)
                IN (k - from - 1) % COL_CNT
Breaks(text) == {j \in DOMAIN text : text[j] = "nl" \/ Col(text, j) = COL_CNT - 1}
Row(text, k) == Cardinality({j \in Breaks(text) : j < k})

(* The screen shows the last rows of what was written to it, with rows     *)
(* that are full or end in a newline; under any characters the cursor      *)
(* stays on the screen, and the hardware's is where it is.                 *)
ScreenShowsTail ==
  /\ sample.of = "screen" =>
       LET text == sample.text
           v == putbuf([cx |-> 0, cy |-> 0, cp |-> 0, fb |-> BlankScreen], text)
           top == Max({0, Cardinality(Breaks(text)) + 1 - ROW_CNT})
           shown(y, x) == {text[k] : k \in {k \in DOMAIN text : /\ text[k] # "nl" /\ Col(text, k) = x
                                                             /\ Row(text, k) = top + y}}
       IN \A y \in Rows, x \in Cols :
            v.fb[y][x] \in IF shown(y, x) = {} THEN {SpaceChar} ELSE shown(y, x)
  /\ sample.of = "keys" =>
       LET v == putbuf(find_cursor([cx |-> 0, cy |-> 0, cp |-> sample.cp, fb |-> BlankScreen]),
                     sample.text)
       IN v.cx \in Cols /\ v.cy \in Rows /\ v.cp = v.cx + COL_CNT * v.cy

-----------------------------------------------------------------------------
(* Numbers come out exactly where they fit: 64-bit division and fixed-     *)
(* point arithmetic, sorting and searching of arrays, and the calibrated   *)
(* delay.                                                                  *)
NumbersExact == DivisionExact /\ FixedPointClose /\ SortedAndFound /\ CalibrationClose

(* Text goes through the library unharmed: formatted output, the string    *)
(* functions, the headers of the archives made with both, and the screen.  *)
TextFaithful == OutputFaithful /\ StringsAgree /\ HeadersReadBack /\ ScreenShowsTail
=============================================================================
