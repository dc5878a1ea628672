------------------------------- MODULE Ustar --------------------------------
(***************************************************************************)
(* Archive headers (lib/ustar.c), which fsutil_append writes to the        *)
(* scratch device and fsutil_extract reads back.  A header is a sequence   *)
(* of bytes: name, size, chksum, typeflag, magic, version, prefix, in      *)
(* fields of the widths below.  The fields that no reader looks at (mode,  *)
(* owner, time, link and device) are left out.                             *)
(***************************************************************************)
EXTENDS Integers, Sequences, SequencesExt

CONSTANTS NameWidth, SizeWidth, SumWidth,   \* sizes of the fields
          MaxSize                           \* INT_MAX

\* Bytes: digits are their values plus Digit0.
NUL == 0
Digit0 == 1
Blank_ == 9
Slash == 10
Dot == 11
Magic == 12
Regular == 13
Directory == 14

SizeAt == NameWidth
SumAt == SizeAt + SizeWidth
TypeAt == SumAt + SumWidth + 1
MagicAt == TypeAt + 1
VersionAt == MagicAt + 1
PrefixAt == VersionAt + 1
HeaderSize == PrefixAt
MaxByte == 15

\* Every size and every checksum fits its field.
ASSUME UstarAssumption ==
  /\ {NameWidth, SizeWidth, SumWidth} \subseteq Nat \ {0, 1}
  /\ MaxSize \in Nat /\ MaxSize < 8 ^ (SizeWidth - 1)
  /\ HeaderSize * MaxByte < 8 ^ (SumWidth - 1)

-----------------------------------------------------------------------------
\* The sum of the bytes, as if the chksum field were all spaces.
calculate_chksum_plain(h) == FoldLeft(LAMBDA sum, byte : sum + byte, 0, h)

calculate_chksum(h) ==
  FoldLeft(LAMBDA sum, i : sum + IF i \in SumAt + 1 .. SumAt + SumWidth THEN Blank_ ELSE h[i],
           0, [i \in 1..HeaderSize |-> i])

\* Drops "/", "./" and "../" from the front.
RECURSIVE stripped(_)
stripped(name) ==
  CASE name # << >> /\ name[1] = Slash -> stripped(Tail(name))
    [] IsPrefix(<<Dot, Slash>>, name) -> stripped(SubSeq(name, 3, Len(name)))
    [] IsPrefix(<<Dot, Dot, Slash>>, name) -> stripped(SubSeq(name, 4, Len(name)))
    [] OTHER -> name
strip_antisocial_prefixes(name) ==
  IF stripped(name) \in {<< >>, <<Dot, Dot>>} THEN <<Dot>> ELSE stripped(name)

\* snprintf of "%0<width-1>o", and its null byte.
octal(value, width) ==
  [i \in 1..width |-> IF i = width THEN NUL
                      ELSE Digit0 + ((value \div 8 ^ (width - 1 - i)) % 8)]
padded(name) == [i \in 1..NameWidth |-> IF i <= Len(name) THEN name[i] ELSE NUL]

TooLong == << >>
ustar_make_header(file_name, type, size) ==
  LET name == strip_antisocial_prefixes(file_name)
      with(sum) == padded(name) \o octal(size, SizeWidth) \o sum
                   \o <<type, Magic, Digit0, NUL>>
      blank == with([i \in 1..SumWidth |-> NUL])
  IN IF Len(name) > NameWidth - 1 THEN TooLong
     ELSE with(octal(calculate_chksum(blank), SumWidth))

\* A field's value, or -1: digits up to a space or a null byte, at least one.
\* (A value that overflows exceeds every checksum and MaxSize as well.)
parse_octal_field(s) ==
  LET ends == {i \in DOMAIN s : s[i] \in {NUL, Blank_}}
      end == CHOOSE i \in ends : \A j \in ends : i <= j
      digits == SubSeq(s, 1, end - 1)
  IN IF ends = {} \/ end = 1 THEN -1
     ELSE IF \E i \in DOMAIN digits : digits[i] \notin Digit0 .. Digit0 + 7 THEN -1
     ELSE FoldLeft(LAMBDA v, d : v * 8 + d - Digit0, 0, digits)

is_all_zeros(h) == \A i \in DOMAIN h : h[i] = NUL

BadHeader == [ok |-> FALSE]
EndOfArchive == [ok |-> TRUE, type |-> NUL, size |-> 0]

ustar_parse_header(h) ==
  LET field(at, width) == SubSeq(h, at + 1, at + width)
      size_ul == IF h[TypeAt] = Regular THEN parse_octal_field(field(SizeAt, SizeWidth)) ELSE 0
      nul == CHOOSE i \in 1..NameWidth : h[i] = NUL /\ \A j \in 1..i - 1 : h[j] # NUL
  IN IF is_all_zeros(h) THEN EndOfArchive
     ELSE IF \/ h[MagicAt] # Magic \/ h[VersionAt] # Digit0
             \/ parse_octal_field(field(SumAt, SumWidth)) # calculate_chksum(h)
             \/ h[NameWidth] # NUL \/ h[PrefixAt] # NUL
             \/ h[TypeAt] \notin {Regular, Directory}
             \/ size_ul = -1 \/ size_ul > MaxSize
     THEN BadHeader
     ELSE [ok |-> TRUE, type |-> h[TypeAt], size |-> size_ul,
           name |-> strip_antisocial_prefixes(SubSeq(h, 1, nul - 1))]
=============================================================================
