------------------------------ MODULE Numbers -------------------------------
EXTENDS Integers, SequencesExt, Sequences, FiniteSets

(***************************************************************************)
(* Numbers from text: strtol, strtoul and their kin of the user library    *)
(* (libc/stdlib), and strtod.  A long, a long long and an intmax_t all     *)
(* have Width bits; a double is n times ten to the e, as <<n, e>>.         *)
(*                                                                         *)
(* A character is a digit or letter, given by its value as a digit, or one *)
(* of the others, numbered below 0.                                        *)
(***************************************************************************)

CONSTANTS Width,
          Char,        \* the characters of the text
          Base,        \* the bases asked for
          MaxText,     \* bound on its length
          MaxPower     \* the largest power of ten strtod accepts: 308

VARIABLE text

LONG_MAX == 2^(Width - 1) - 1
LONG_MIN == -(2^(Width - 1))
ULONG_MAX == 2^Width - 1
X == 33                                    \* the letter x as a digit

Space == -1
Minus == -2
Plus == -3
Dot == -4
E == 14                                    \* the letter e as a digit
End == -5

At(i) == IF i <= Len(text) THEN text[i] ELSE End
IsDigit(c) == c >= 0

(***************************************************************************)
(* The start, common to all: white space, a sign, the base's prefix.       *)
(***************************************************************************)

RECURSIVE SkipSpace(_)
SkipSpace(i) == IF At(i) = Space THEN SkipSpace(i + 1) ELSE i

\* Where the digits begin, in which base, and the sign.
Start(base) ==
  LET i   == SkipSpace(1)
      j   == IF At(i) \in {Minus, Plus} THEN i + 1 ELSE i
      hex == base \in {0, 16} /\ At(j) = 0 /\ At(j + 1) = X
  IN [at |-> IF hex THEN j + 2 ELSE j, neg |-> At(i) = Minus,
      base |-> IF hex THEN 16 ELSE IF base # 0 THEN base ELSE IF At(j) = 0 THEN 8 ELSE 10]

(***************************************************************************)
(* The digits.  any is 0 before the first, 1 after it, -1 once the number  *)
(* is too large; then the digits are only skipped.                         *)
(***************************************************************************)

Truncated(n, d) == IF n < 0 THEN -((-n) \div d) ELSE n \div d      \* C's /

\* Faulty variant: a number equal to the cutoff is too large whatever its last digit.
TooLargeAtCutoff(neg, base, acc, c) ==
  IF neg THEN acc <= Truncated(LONG_MIN, base) ELSE acc >= LONG_MAX \div base

\* cutoff and cutlim of strtol, and the test on them.
TooLarge(neg, base, acc, c) ==
  IF neg
  THEN LET cutoff == Truncated(LONG_MIN, base)
           cutlim == (-LONG_MIN) % base
       IN acc < cutoff \/ (acc = cutoff /\ c > cutlim)
  ELSE acc > LONG_MAX \div base \/ (acc = LONG_MAX \div base /\ c > LONG_MAX % base)

RECURSIVE SignedDigits(_, _, _, _)
SignedDigits(s, i, acc, any) ==
  LET c == At(i)
  IN IF ~IsDigit(c) \/ c >= s.base
     THEN [value |-> acc, range |-> any < 0, end |-> IF any = 0 THEN 1 ELSE i]
     ELSE IF any < 0 THEN SignedDigits(s, i + 1, acc, any)
     ELSE IF TooLarge(s.neg, s.base, acc, c)
       THEN SignedDigits(s, i + 1, IF s.neg THEN LONG_MIN ELSE LONG_MAX, -1)
     ELSE SignedDigits(s, i + 1, IF s.neg THEN acc * s.base - c ELSE acc * s.base + c, 1)

strtol(base) == LET s == Start(base) IN SignedDigits(s, s.at, 0, 0)

RECURSIVE UnsignedDigits(_, _, _, _)
UnsignedDigits(s, i, acc, any) ==
  LET c == At(i)
      cutoff == ULONG_MAX \div s.base
  IN IF ~IsDigit(c) \/ c >= s.base
     THEN [value |-> IF s.neg /\ any > 0 THEN (-acc) % 2^Width ELSE acc,
           range |-> any < 0, end |-> IF any = 0 THEN 1 ELSE i]
     ELSE IF any < 0 THEN UnsignedDigits(s, i + 1, acc, any)
     ELSE IF acc > cutoff \/ (acc = cutoff /\ c > ULONG_MAX % s.base)
       THEN UnsignedDigits(s, i + 1, ULONG_MAX, -1)
     ELSE UnsignedDigits(s, i + 1, acc * s.base + c, 1)

strtoul(base) == LET s == Start(base) IN UnsignedDigits(s, s.at, 0, 0)

\* The same code with the cutoffs of the usual bases written out.
strtoll(base) == LET s == Start(base) IN SignedDigits(s, s.at, 0, 0)
strtoimax(base) == LET s == Start(base) IN SignedDigits(s, s.at, 0, 0)
strtoull(base) == LET s == Start(base) IN UnsignedDigits(s, s.at, 0, 0)
strtoumax(base) == LET s == Start(base) IN UnsignedDigits(s, s.at, 0, 0)

IntWidth == Width - 2                      \* an int is narrower than a long
atoi == LET v == strtol(10).value % 2^IntWidth IN IF v >= 2^(IntWidth - 1) THEN v - 2^IntWidth ELSE v
atol == strtol(10).value
atoll == strtoll(10).value

(***************************************************************************)
(* strtod: digits and decimals gathered as one whole number, the exponent  *)
(* applied by squaring ten.  endptr is stored only when a number is read.  *)
(***************************************************************************)

\* The number the decimal digits from i continue n to, and where they stop.
RECURSIVE Decimals(_, _)
Decimals(i, n) == IF At(i) \in 0..9 THEN Decimals(i + 1, n * 10 + At(i)) ELSE <<n, i>>

\* number times ten to the exponent: p10 is ten to the x[2], x[3] what was applied so far.
Scale(number, exponent) ==
  LET loop[x \in Int \X Int \X Int] ==
        IF x[1] = 0 THEN <<number, x[3]>>
        ELSE loop[<<x[1] \div 2, 2 * x[2], IF x[1] % 2 = 1 THEN x[3] + x[2] ELSE x[3]>>]
  IN loop[<<IF exponent < 0 THEN -exponent ELSE exponent, IF exponent < 0 THEN -1 ELSE 1, 0>>]

strtod ==
  LET i == SkipSpace(1)
      start == IF At(i) \in {Minus, Plus} THEN i + 1 ELSE i
      whole == Decimals(start, 0)
      dot == At(whole[2]) = Dot
      all == IF dot THEN Decimals(whole[2] + 1, whole[1]) ELSE whole
      decimals == IF dot THEN all[2] - whole[2] - 1 ELSE 0
      exp == At(all[2]) = E
      j == IF At(all[2] + 1) \in {Minus, Plus} THEN all[2] + 2 ELSE all[2] + 1
      n == IF exp THEN Decimals(j, 0) ELSE <<0, all[2]>>
      exponent == (IF exp /\ At(all[2] + 1) = Minus THEN -n[1] ELSE n[1]) - decimals
      none == all[2] - start = (IF dot THEN 1 ELSE 0)
  IN IF none \/ exponent < 1 - MaxPower \/ exponent > MaxPower THEN [value |-> <<0, 0>>, range |-> TRUE, end |-> 0]
     ELSE [value |-> Scale(IF At(i) = Minus THEN -all[1] ELSE all[1], exponent), range |-> FALSE, end |-> n[2]]
atof == strtod.value

StrInit == text = <<>>

StrNext == Len(text) < MaxText /\ \E c \in Char : text' = Append(text, c)

StrSpec == StrInit /\ [][StrNext]_text

(***************************************************************************)
(* Properties                                                              *)
(***************************************************************************)

\* The last of the digits that begin at i, i - 1 if there is none.
LastDigit(i, base) ==
  CHOOSE k \in (i - 1)..Len(text) :
    /\ \A m \in i..k : IsDigit(text[m]) /\ text[m] < base
    /\ k = Len(text) \/ ~IsDigit(At(k + 1)) \/ At(k + 1) >= base

\* The number text[i..k] stands for in the base, without bound.
Number(i, k, base) ==
  FoldLeft(LAMBDA n, d : n * base + d, 0, SubSeq(text, i, k))

\* strtod's value times ten to the decimals is the digits before the exponent.
DoubleExact ==
  LET i == SkipSpace(1)
      start == IF At(i) \in {Minus, Plus} THEN i + 1 ELSE i
      digits(from) == LastDigit(from, 10)
      w == digits(start)
      f == IF At(w + 1) = Dot THEN digits(w + 2) ELSE w
      mantissa == SelectSeq(SubSeq(text, start, f), LAMBDA c : c # Dot)
      signed == At(f + 1) = E /\ At(f + 2) \in {Minus, Plus}
      x == digits(IF signed THEN f + 3 ELSE f + 2)
      k == IF At(f + 1) # E THEN 0 ELSE Number(IF signed THEN f + 3 ELSE f + 2, x, 10)
      power == (IF signed /\ At(f + 2) = Minus THEN -k ELSE k) - (IF f > w THEN f - w - 1 ELSE 0)
      m == FoldLeft(LAMBDA n, d : n * 10 + d, 0, mantissa)
  IN strtod = IF mantissa = <<>> \/ power \notin (1 - MaxPower)..MaxPower THEN [value |-> <<0, 0>>, range |-> TRUE, end |-> 0]
              ELSE [value |-> <<IF At(i) = Minus THEN -m ELSE m, power>>, range |-> FALSE,
                    end |-> IF At(f + 1) # E THEN f + 1 ELSE x + 1]

\* strtol returns the number the text spells, or the end of the range of long nearest to it
\* with ERANGE; strtoul the number modulo the width, or the largest with ERANGE; and endptr
\* is past the last digit, or the whole text if there is none.  No digit is lost or counted
\* twice at the limit, in any base.  strtod returns the decimal number the text spells and its
\* end, or ERANGE; atoi keeps the number when it fits an int.
NumbersExact ==
  /\ DoubleExact
  /\ atol \in -(2^(IntWidth - 1))..(2^(IntWidth - 1) - 1) => atoi = atol /\ atoi = atoll
  /\ \A base \in Base :
       LET s == Start(base)
           k == LastDigit(s.at, s.base)
           n == Number(s.at, k, s.base)
           v == IF s.neg THEN -n ELSE n
           end == IF k < s.at THEN 1 ELSE k + 1
       IN /\ \A r \in {strtol(base), strtoll(base), strtoimax(base)} : r =
               [value |-> IF v > LONG_MAX THEN LONG_MAX ELSE IF v < LONG_MIN THEN LONG_MIN ELSE v,
                range |-> v > LONG_MAX \/ v < LONG_MIN, end |-> end]
          /\ \A r \in {strtoul(base), strtoull(base), strtoumax(base)} : r =
               [value |-> IF n > ULONG_MAX THEN ULONG_MAX ELSE v % 2^Width,
                range |-> n > ULONG_MAX, end |-> end]

-----------------------------------------------------------------------------
(***************************************************************************)
(* The division of unsigned integers in user-test/lib/libx/div.c.  The     *)
(* 32-bit and the 64-bit functions are the same but for the width, which   *)
(* is a parameter here: a number of bytes.                                 *)
(***************************************************************************)

CONSTANT Operands   \* the <<bytes, dividend, divisor>> that are tried

VARIABLES call, result

byte_reverse_table == <<
  0, 128, 64, 192, 32, 160, 96, 224, 16, 144, 80, 208, 48, 176, 112, 240,
  8, 136, 72, 200, 40, 168, 104, 232, 24, 152, 88, 216, 56, 184, 120, 248,
  4, 132, 68, 196, 36, 164, 100, 228, 20, 148, 84, 212, 52, 180, 116, 244,
  12, 140, 76, 204, 44, 172, 108, 236, 28, 156, 92, 220, 60, 188, 124, 252,
  2, 130, 66, 194, 34, 162, 98, 226, 18, 146, 82, 210, 50, 178, 114, 242,
  10, 138, 74, 202, 42, 170, 106, 234, 26, 154, 90, 218, 58, 186, 122, 250,
  6, 134, 70, 198, 38, 166, 102, 230, 22, 150, 86, 214, 54, 182, 118, 246,
  14, 142, 78, 206, 46, 174, 110, 238, 30, 158, 94, 222, 62, 190, 126, 254,
  1, 129, 65, 193, 33, 161, 97, 225, 17, 145, 81, 209, 49, 177, 113, 241,
  9, 137, 73, 201, 41, 169, 105, 233, 25, 153, 89, 217, 57, 185, 121, 249,
  5, 133, 69, 197, 37, 165, 101, 229, 21, 149, 85, 213, 53, 181, 117, 245,
  13, 141, 77, 205, 45, 173, 109, 237, 29, 157, 93, 221, 61, 189, 125, 253,
  3, 131, 67, 195, 35, 163, 99, 227, 19, 147, 83, 211, 51, 179, 115, 243,
  11, 139, 75, 203, 43, 171, 107, 235, 27, 155, 91, 219, 59, 187, 123, 251,
  7, 135, 71, 199, 39, 167, 103, 231, 23, 151, 87, 215, 55, 183, 119, 247,
  15, 143, 79, 207, 47, 175, 111, 239, 31, 159, 95, 223, 63, 191, 127, 255>>

\* do_fls32 and do_fls64: halving steps that end with two of two bits, so that the answer
\* is the number of bits rounded up to an even one.
Halvings(bytes) == CASE bytes = 1 -> <<4, 2, 2>> [] bytes = 2 -> <<8, 4, 2, 2>>

do_fls(bytes, value) ==
  LET h == Halvings(bytes)
      \* the last step asks for any bit of the lowest two
      f[i \in 0..Len(h)] ==
        IF i = 0 THEN [value |-> value, bits |-> 0]
        ELSE LET x == f[i - 1]
                 set == IF i = Len(h) THEN x.value % 4 # 0 ELSE x.value >= 2^(h[i])
             IN  IF set THEN [value |-> x.value \div 2^(h[i]), bits |-> x.bits + h[i]] ELSE x
  IN  f[Len(h)].bits

\* The bytes of a word in reverse order, each reversed.
Reversed(bytes, value) ==
  LET p(i) == (value \div 256^i) % 256
      f[i \in 0..bytes] == IF i = 0 THEN 0
                           ELSE f[i - 1] + byte_reverse_table[p(i - 1) + 1] * 256^(bytes - i)
  IN  f[bytes]

\* do_udiv32 and do_udiv64 for a divisor that is not 0: bit by bit from the highest,
\* which the reversal has made the lowest.
do_udiv(bytes, dividend, divisor) ==
  LET wide == 256^bytes
      bits == do_fls(bytes, dividend)
      f[k \in 0..bits] ==
        IF k = 0 THEN [dividend |-> Reversed(bytes, (dividend * 2^(8 * bytes - bits)) % wide),
                       remaind |-> 0, quotient |-> 0]
        ELSE LET x == f[k - 1]
                 r == ((2 * x.remaind) % wide) + (x.dividend % 2)
                 one == IF r < divisor THEN 0 ELSE 1
             IN  [dividend |-> x.dividend \div 2, remaind |-> r - one * divisor,
                  quotient |-> ((2 * x.quotient) % wide) + one]
  IN  IF dividend < divisor THEN <<0, dividend>>
      ELSE IF dividend = divisor THEN <<1, 0>>
      ELSE <<f[bits].quotient, f[bits].remaind>>

DivInit == call \in Operands /\ result = <<>>
DivNext == result = <<>> /\ result' = do_udiv(call[1], call[2], call[3]) /\ UNCHANGED call
DivSpec == DivInit /\ [][DivNext]_<<call, result>>

\* The quotient and the remainder are those of the division, for every dividend: the shift
\* in front of the reversal drops no bit and the running remainder never overflows.
QuotientRight == result # <<>> => result = <<call[2] \div call[3], call[2] % call[3]>>

-----------------------------------------------------------------------------
(***************************************************************************)
(* The calendar of the C library: libc/time/__secs_to_tm.c (the 400, 100,  *)
(* 4 and 1 year cycles counted from 1 March 2000), __tm_to_secs.c (a fast  *)
(* path for 1902..2038 and the general one), strftime.c, asctime.c and the *)
(* functions over them.  A time_t is a pair of days since 1970 and seconds *)
(* of the day; a tm is the record of its fields; a character is a pair, so *)
(* that the letters of a name are <<name, 1>>, <<name, 2>> ...             *)
(***************************************************************************)

CONSTANTS Years,       \* the years whose days are converted
          Offsets,     \* months added to a month of the year, before it is normalised
          Seconds,     \* seconds of the day
          Formats,     \* format strings of strftime: sequences of <<char, n>> and <<"%", conversion>>
          Sizes        \* room given to strftime
Quot(a, b) == IF a >= 0 THEN a \div b ELSE -((-a) \div b)     \* division of C: towards zero
Rem(a, b) == a - (b * Quot(a, b))
LEAPOCH == 10957 + 31 + 29
DAYS_PER_400Y == 365 * 400 + 97
DAYS_PER_100Y == 365 * 100 + 24
DAYS_PER_4Y == 365 * 4 + 1
days_in_month == <<31, 30, 31, 30, 31, 31, 30, 31, 30, 31, 31, 29>>

\* The cycles before day d of the cycles and what is left; the last one of a cycle is longer.
Cycles(d, length, most) == LET n == Quot(d, length) IN IF n = most THEN n - 1 ELSE n
\* A year that would not fit an int is refused; the days here are far from it.
__secs_to_tm(t) ==
  LET days == t[1] - LEAPOCH
      wday == Rem(3 + days, 7)
      rem400 == Rem(days, DAYS_PER_400Y)
      qc == Quot(days, DAYS_PER_400Y) - (IF rem400 < 0 THEN 1 ELSE 0)
      left1 == IF rem400 < 0 THEN rem400 + DAYS_PER_400Y ELSE rem400
      c == Cycles(left1, DAYS_PER_100Y, 4)
      left2 == left1 - (c * DAYS_PER_100Y)
      q == Cycles(left2, DAYS_PER_4Y, 25)
      left3 == left2 - (q * DAYS_PER_4Y)
      y == Cycles(left3, 365, 4)
      remdays == left3 - (y * 365)
      leap == IF y = 0 /\ (q # 0 \/ c = 0) THEN 1 ELSE 0
      yday == remdays + 31 + 28 + leap
      month[x \in Int \X Int] == IF days_in_month[x[1] + 1] <= x[2] THEN month[<<x[1] + 1, x[2] - days_in_month[x[1] + 1]>>] ELSE x
      m == month[<<0, remdays>>]
      years == y + (4 * q) + (100 * c) + (400 * qc)
  IN [year |-> years + (IF m[1] >= 10 THEN 1 ELSE 0) + 100,
      mon |-> (IF m[1] >= 10 THEN m[1] - 12 ELSE m[1]) + 2,
      mday |-> m[2] + 1,
      wday |-> IF wday < 0 THEN wday + 7 ELSE wday,
      yday |-> IF yday >= 365 + leap THEN yday - (365 + leap) ELSE yday,
      hour |-> t[2] \div 3600, min |-> (t[2] \div 60) % 60, sec |-> t[2] % 60, isdst |-> 0]
gmtime(t) == __secs_to_tm(t)
localtime(t) == gmtime(t)

\* Days before the year, and whether it has a 29 February.
__year_to_secs(year) ==
  IF year >= 2 /\ year - 2 <= 136
  THEN LET leap == (year - 68) % 4 = 0
       IN <<365 * (year - 70) + ((year - 68) \div 4) - (IF leap THEN 1 ELSE 0), leap>>
  ELSE LET rem0 == Rem(year - 100, 400)
           cycles == Quot(year - 100, 400) - (IF rem0 < 0 THEN 1 ELSE 0)
           rem == IF rem0 < 0 THEN rem0 + 400 ELSE rem0
           centuries == CASE rem = 0 -> 0 [] rem >= 300 -> 3 [] rem >= 200 -> 2 [] rem >= 100 -> 1 [] OTHER -> 0
           left == rem - (100 * centuries)
           leap == rem = 0 \/ (left # 0 /\ left % 4 = 0)
           leaps == (left \div 4) + (97 * cycles) + (24 * centuries) - (IF leap THEN 1 ELSE 0)
       IN <<(year - 100) * 365 + leaps + 10957 + 1, leap>>

secs_through_month == <<0, 31, 59, 90, 120, 151, 181, 212, 243, 273, 304, 334>>
__month_to_secs(month, leap) == secs_through_month[month + 1] + (IF leap /\ month >= 2 THEN 1 ELSE 0)

__tm_to_secs(tm) ==
  LET month0 == IF tm.mon >= 12 \/ tm.mon < 0 THEN Rem(tm.mon, 12) ELSE tm.mon
      adj0 == IF tm.mon >= 12 \/ tm.mon < 0 THEN Quot(tm.mon, 12) ELSE 0
      adj == IF month0 < 0 THEN adj0 - 1 ELSE adj0
      month == IF month0 < 0 THEN month0 + 12 ELSE month0
      y == __year_to_secs(tm.year + adj)
      secs == (3600 * tm.hour) + (60 * tm.min) + tm.sec
  IN <<y[1] + __month_to_secs(month, y[2]) + tm.mday - 1 + (secs \div 86400), secs % 86400>>
mktime(tm) == __tm_to_secs(tm)

-----------------------------------------------------------------------------
Letters(name, n) == [i \in 1..n |-> <<name, i>>]
Sign(c) == << <<c, 0>> >>
day == <<Letters("Sunday", 6), Letters("Monday", 6), Letters("Tuesday", 7), Letters("Wednesday", 9), Letters("Thursday", 8),
         Letters("Friday", 6), Letters("Saturday", 8)>>
month == <<Letters("January", 7), Letters("February", 8), Letters("March", 5), Letters("April", 5), Letters("May", 3), Letters("June", 4),
           Letters("July", 4), Letters("August", 6), Letters("September", 9), Letters("October", 7), Letters("November", 8),
           Letters("December", 8)>>
aday == [i \in 1..7 |-> SubSeq(day[i], 1, 3)]
amonth == [i \in 1..12 |-> SubSeq(month[i], 1, 3)]

powers == <<1, 10, 100, 1000, 10000>>
\* strfmt's %n: the last n decimal digits.
strfmt(ilen, ival) ==
  LET digits[x \in Int \X Int] == IF x[1] = 0 THEN <<>>
                                  ELSE LET v == Rem(x[2], powers[x[1] + 1]) IN << <<"digit", Quot(v, powers[x[1]])>> >> \o digits[<<x[1] - 1, v>>]
  IN digits[<<ilen, ival>>]
Clock(t) == strfmt(2, t.hour) \o Sign(":") \o strfmt(2, t.min) \o Sign(":") \o strfmt(2, t.sec)

WeekOf(yday, wday) == (yday \div 7) + (IF yday % 7 > wday THEN 1 ELSE 0)
Monday(t) == (IF t.wday # 0 THEN t.wday - 1 ELSE 6)
IsoWeek(t) ==
  LET n == t.yday + 7 - Monday(t) IN IF n % 7 >= 4 THEN (n \div 7) + 1 ELSE IF n \div 7 = 0 THEN 53 ELSE n \div 7

Conversion(c, t) ==
  CASE c = "%" -> Sign("%")
    [] c = "a" -> aday[t.wday + 1]
    [] c = "A" -> day[t.wday + 1]
    [] c = "b" -> amonth[t.mon + 1]
    [] c = "B" -> month[t.mon + 1]
    [] c = "c" -> aday[t.wday + 1] \o Sign(" ") \o amonth[t.mon + 1] \o Sign(" ") \o strfmt(2, t.mday) \o Sign(" ") \o Clock(t)
                  \o Sign(" ") \o strfmt(4, t.year + 1900)
    [] c = "d" -> strfmt(2, t.mday)
    [] c = "H" -> strfmt(2, t.hour)
    [] c = "I" -> strfmt(2, IF t.hour % 12 # 0 THEN t.hour % 12 ELSE 12)
    [] c = "j" -> strfmt(3, t.yday + 1)
    [] c = "m" -> strfmt(2, t.mon + 1)
    [] c = "M" -> strfmt(2, t.min)
    [] c = "p" -> IF t.hour > 11 THEN Letters("PM", 2) ELSE Letters("AM", 2)
    [] c = "S" -> strfmt(2, t.sec)
    [] c = "U" -> strfmt(2, WeekOf(t.yday, t.wday))
    [] c = "W" -> strfmt(2, WeekOf(t.yday, (t.wday + 6) % 7))
    [] c = "V" -> strfmt(2, IsoWeek(t))
    [] c = "w" -> strfmt(1, t.wday)
    [] c = "X" -> Clock(t)
    [] c = "y" -> strfmt(2, Rem(t.year, 100))
    [] c = "Y" -> strfmt(4, t.year + 1900)
    [] c = "Z" -> IF t.isdst # 0 THEN Letters("DST", 3) ELSE Letters("GMT", 3)
    [] c = "" -> Sign("%")                       \* a percent sign at the end of the format
    [] OTHER -> Sign("%") \o Sign(c)

\* What the buffer holds, and the value returned: q is the last place of the buffer.
Shown(item, t) == IF item[1] = "%" THEN Conversion(item[2], t) ELSE <<item>>
strftime(max, fmt, t) ==
  LET copy[x \in [i : Int, p : Seq(STRING \X Int)]] ==
        IF x.i > 1 /\ Len(x.p) > max - 1 THEN [ret |-> 0, s |-> SubSeq(x.p, 1, max - 1)]
        ELSE IF x.i > Len(fmt) THEN [ret |-> Len(x.p), s |-> x.p]
        ELSE copy[[i |-> x.i + 1, p |-> x.p \o Shown(fmt[x.i], t)]]
  IN copy[[i |-> 1, p |-> <<>>]]

Spaced(v) == IF v < 10 THEN Sign(" ") \o Sign(" ") \o strfmt(1, v) ELSE Sign(" ") \o strfmt(2, v)
\* ascbuf has 26 bytes, the last of them the NUL.
asctime(t) ==
  SubSeq(aday[t.wday + 1] \o Sign(" ") \o amonth[t.mon + 1] \o Spaced(t.mday) \o Sign(" ") \o Clock(t) \o Sign(" ")
         \o strfmt(4, 1900 + t.year) \o Sign("newline"), 1, 25)
ctime(t) == asctime(localtime(t))

-----------------------------------------------------------------------------
\* The Gregorian calendar: days before a year, days of a month.
Leap(y) == y % 4 = 0 /\ (y % 100 # 0 \/ y % 400 = 0)
Before(y) == (365 * (y - 1)) + ((y - 1) \div 4) - ((y - 1) \div 100) + ((y - 1) \div 400)
DaysIn(y, m) == CASE m = 2 -> IF Leap(y) THEN 29 ELSE 28 [] m \in {4, 6, 9, 11} -> 30 [] OTHER -> 31
BeforeMonth(y, m) == LET sum[k \in 1..12] == IF k = 1 THEN 0 ELSE sum[k - 1] + DaysIn(y, k - 1) IN sum[m]
DayOf(y, m, d) == Before(y) + BeforeMonth(y, m) + (d - 1) - Before(1970)
Civil(y, m, d, sec) ==
  [year |-> y - 1900, mon |-> m - 1, mday |-> d, wday |-> (DayOf(y, m, d) + 4) % 7, yday |-> BeforeMonth(y, m) + d - 1,
   hour |-> sec \div 3600, min |-> (sec % 3600) \div 60, sec |-> sec % 60, isdst |-> 0]
Dates == {<<y, m, d>> \in Years \X (1..12) \X {1, 28, 29, 30, 31} : d \in {1, DaysIn(y, m)}}

CalendarInit ==
  /\ call \in [op : {"convert"}, date : Dates, sec : Seconds]
         \cup [op : {"shift"}, date : Dates, sec : Seconds, by : Offsets]
         \cup [op : {"format"}, date : Dates, sec : Seconds, fmt : Formats, max : Sizes]
  /\ result = <<>>
TimeOf == <<DayOf(call.date[1], call.date[2], call.date[3]), call.sec>>
TmOf == Civil(call.date[1], call.date[2], call.date[3], call.sec)
Converted(tm, line) == [tm |-> tm, secs |-> mktime(tm), text |-> line]
CalendarNext ==
  /\ result = <<>> /\ UNCHANGED call
  /\ result' = CASE call.op = "convert" -> Converted(gmtime(TimeOf), ctime(TimeOf))
                 [] call.op = "shift" -> [secs |-> mktime([TmOf EXCEPT !.mon = @ + call.by, !.hour = @ + 30])]
                 [] OTHER -> strftime(call.max, call.fmt, TmOf)
CalendarSpec == CalendarInit /\ [][CalendarNext]_<<call, result>>

-----------------------------------------------------------------------------
DecimalOf(s) == LET n[i \in 0..Len(s)] == IF i = 0 THEN 0 ELSE (10 * n[i - 1]) + s[i][2] IN n[Len(s)]
\* The days `first' of the week so far this year; a year that begins with one is counted
\* from 0 by the code, not from 1.
Sundays(tm, first) == Cardinality({k \in 0..tm.yday : (tm.wday - tm.yday + k) % 7 = first})
                      - (IF (tm.wday - tm.yday) % 7 = first THEN 1 ELSE 0)
\* The week of the Thursday of the day's week, when it is in the day's year.
IsoRight(tm, w) ==
  LET thursday == tm.yday - Monday(tm) + 3
      days == IF Leap(tm.year + 1900) THEN 366 ELSE 365
  IN thursday \in 0..(days - 1) => w = (thursday \div 7) + 1
FormatRight(tm, full) ==
  LET s == full.s IN
  /\ call.fmt = << <<"%", "U">> >> => DecimalOf(s) = Sundays(tm, 0)
  /\ call.fmt = << <<"%", "W">> >> => DecimalOf(s) = Sundays(tm, 1)
  /\ call.fmt = << <<"%", "V">> >> => IsoRight(tm, DecimalOf(s))
  /\ call.fmt = << <<"%", "j">> >> => DecimalOf(s) = TimeOf[1] - DayOf(call.date[1], 1, 1) + 1
  /\ call.fmt = << <<"%", "I">> >> => DecimalOf(s) \in 1..12 /\ (DecimalOf(s) - tm.hour) % 12 = 0
Fits(full) ==
  /\ Len(result.s) < call.max
  /\ result.ret = IF Len(full.s) < call.max THEN Len(full.s) ELSE 0
  /\ result.s = SubSeq(full.s, 1, Len(result.s))
  /\ Len(result.s) = IF Len(full.s) < call.max THEN Len(full.s) ELSE call.max - 1
  /\ FormatRight(TmOf, full)

\* gmtime names the Gregorian date, week day and day of the year of every second and mktime
\* undoes it; mktime reads a month outside 0..11 as one of the years before or after;
\* asctime's 26 bytes hold the whole line; strftime numbers the weeks by the Sundays and
\* Mondays seen since new year (after new year's day), writes no more than its room with the NUL, and returns 0
\* exactly when the text did not fit.
CalendarRight ==
  result # <<>> =>
    CASE call.op = "convert" ->
           /\ result.tm = TmOf /\ result.secs = TimeOf
           /\ Len(result.text) = 25 /\ result.text[25] = <<"newline", 0>>
      [] call.op = "shift" ->
           LET m == call.date[2] - 1 + call.by
               moved == DayOf(call.date[1] + (m \div 12), (m % 12) + 1, 1) + call.date[3] - 1
           IN result.secs = <<moved + ((call.sec + 108000) \div 86400), (call.sec + 108000) % 86400>>
      [] OTHER ->
           /\ Fits(strftime(1000, call.fmt, TmOf))
           /\ \A i \in DOMAIN call.fmt : call.fmt[i][1] = "%" => Len(Conversion(call.fmt[i][2], TmOf)) < 26
=============================================================================
