------------------------------- MODULE Format -------------------------------
(***************************************************************************)
(* Formatted output (lib/stdio.c) and atoi (lib/stdlib.c).  A format is a  *)
(* sequence of items, each a plain character or one conversion with its    *)
(* argument; parse_conversion's work on an item is to normalise its flags, *)
(* width and precision.  Characters are small numbers: a digit is its      *)
(* value.                                                                  *)
(***************************************************************************)
EXTENDS Integers, Sequences, FiniteSets, SequencesExt

CONSTANTS TypeBits,      \* type name -> bits
          Arguments,     \* the integers passed
          Widths,        \* field widths; a negative one comes from a `*'
          Precisions,    \* -1: none
          FlagSets, BufSizes, BufRoom

ASSUME FormatAssumption == /\ Arguments \cup Widths \cup Precisions \subseteq Int
                           /\ BufSizes \subseteq Nat /\ BufRoom \in Nat

Space == 16
Plus == 17
Minus == 18
Comma == 19
Ex == 20
Literal == 21
Nul == 22

Dup(ch, n) == [i \in 1..n |-> ch]
AbsOf(x) == IF x < 0 THEN -x ELSE x

-----------------------------------------------------------------------------
(* stdio.c *)

\* Left justification does not take the zero padding back.
parse_conversion_padded(c) ==
  LET f2 == IF "+" \in c.flags THEN c.flags \ {" "} ELSE c.flags
      f3 == IF c.width < 0 THEN f2 \cup {"-"} ELSE f2
      f4 == IF c.precision >= 0 THEN f3 \ {"0"} ELSE f3
  IN [c EXCEPT !.flags = f4, !.width = AbsOf(@), !.precision = IF @ < 0 THEN -1 ELSE @]

parse_conversion(c) ==
  LET f1 == IF "-" \in c.flags THEN c.flags \ {"0"} ELSE c.flags
      f2 == IF "+" \in f1 THEN f1 \ {" "} ELSE f1
      f3 == IF c.width < 0 THEN f2 \cup {"-"} ELSE f2
      f4 == IF c.precision >= 0 THEN f3 \ {"0"} ELSE f3
  IN [c EXCEPT !.flags = f4, !.width = AbsOf(@), !.precision = IF @ < 0 THEN -1 ELSE @]

base_of(spec) == CASE spec \in {"d", "u"} -> [base |-> 10, x |-> FALSE, group |-> 3]
                   [] spec = "o" -> [base |-> 8, x |-> FALSE, group |-> 3]
                   [] spec \in {"x", "p"} -> [base |-> 16, x |-> TRUE, group |-> 4]

\* The digits in reverse order, with commas between groups.
RECURSIVE accumulate(_, _, _, _)
accumulate(value, bs, grouped, cnt) ==
  IF value = 0 THEN << >>
  ELSE (IF grouped /\ cnt > 0 /\ cnt % bs.group = 0 THEN <<Comma>> ELSE << >>)
       \o <<value % bs.base>> \o accumulate(value \div bs.base, bs, grouped, cnt + 1)

format_integer(value, is_signed, negative, bs, c) ==
  LET sign == IF ~is_signed THEN << >>
              ELSE IF negative THEN <<Minus>>
              ELSE IF "+" \in c.flags THEN <<Plus>>
              ELSE IF " " \in c.flags THEN <<Space>> ELSE << >>
      x == IF "#" \in c.flags /\ value # 0 /\ bs.x THEN <<0, Ex>> ELSE << >>
      digits == accumulate(value, bs, "'" \in c.flags, 0)
      precision == IF c.precision < 0 THEN 1 ELSE c.precision
      room == IF precision < BufRoom - 1 THEN precision ELSE BufRoom - 1
      zeros == digits \o Dup(0, room - Len(digits))
      buf == IF "#" \in c.flags /\ bs.base = 8 /\ (zeros = << >> \/ Last(zeros) # 0)
             THEN Append(zeros, 0) ELSE zeros
      pad == c.width - Len(buf) - Len(x) - Len(sign)
  IN (IF c.flags \cap {"-", "0"} = {} THEN Dup(Space, pad) ELSE << >>)
     \o sign \o x
     \o (IF "0" \in c.flags THEN Dup(0, pad) ELSE << >>)
     \o Reverse(buf)
     \o (IF "-" \in c.flags THEN Dup(Space, pad) ELSE << >>)

format_string(string, c) ==
  LET pad == Dup(Space, c.width - Len(string)) IN
  IF "-" \in c.flags THEN string \o pad ELSE pad \o string

\* The argument as its type has it.
Unsigned(arg, type) == arg % 2 ^ TypeBits[type]
SignedArg(arg, type) == LET u == Unsigned(arg, type) IN
  IF u >= 2 ^ (TypeBits[type] - 1) THEN u - 2 ^ TypeBits[type] ELSE u
strnlen(string, n) == IF n < 0 \/ n > Len(string) THEN Len(string) ELSE n

vprintf_conversion(item) ==
  LET c == parse_conversion(item)
      v == SignedArg(item.arg, item.type)
  IN CASE item.spec = "d" -> format_integer(AbsOf(v), TRUE, v < 0, base_of("d"), c)
       [] item.spec \in {"u", "o", "x"} ->
            format_integer(Unsigned(item.arg, item.type), FALSE, FALSE, base_of(item.spec), c)
       [] item.spec = "p" -> format_integer(Unsigned(item.arg, "int"), FALSE, FALSE,
                                            base_of("p"), [c EXCEPT !.flags = {"#"}])
       [] item.spec = "c" -> format_string(<<Literal>>, c)
       [] item.spec = "s" -> format_string(Dup(Literal, strnlen(Dup(Literal, 3), c.precision)), c)

\* Here the conversion stands between two plain characters.
vprintf(item) == <<Literal>> \o vprintf_conversion(item) \o <<Literal>>

vsnprintf(item, buf_size) ==
  LET out == vprintf(item)
      max_length == IF buf_size > 0 THEN buf_size - 1 ELSE 0
      kept == SubSeq(out, 1, IF Len(out) < max_length THEN Len(out) ELSE max_length)
  IN [length |-> Len(out), buffer |-> IF buf_size > 0 THEN Append(kept, Nul) ELSE << >>]

-----------------------------------------------------------------------------
(* atoi.  It stops at the first character that is not a digit.             *)

RECURSIVE skip_space(_)
skip_space(s) == IF s # << >> /\ s[1] = Space THEN skip_space(Tail(s)) ELSE s
RECURSIVE gather(_, _)
gather(value, s) ==
  IF s = << >> \/ s[1] > 9 THEN value ELSE gather(value * 10 - s[1], Tail(s))
atoi(text) ==
  LET s == skip_space(text)
      signed == s # << >> /\ s[1] \in {Plus, Minus}
      value == gather(0, IF signed THEN Tail(s) ELSE s)
  IN IF signed /\ s[1] = Minus THEN value ELSE -value

=============================================================================
