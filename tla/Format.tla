------------------------------- MODULE Format -------------------------------
EXTENDS Integers, Sequences, SequencesExt, TLC, FiniteSets

(* Formatting (libc/stdio/vsnprintf.c).  A format is a sequence of characters, an   *)
(* argument an integer, a text or a number of thousandths.  What is written goes to *)
(* `mem', the bytes at and after buf, so that a byte past the n given would show.    *)
(* Integers have few bits; a double is taken as exact, without rounding errors.      *)

CONSTANTS Bits,      \* of the ranks char, short, int, long and long long: -2..2
          Flags,     \* sequences of flag characters
          Widths, Precs,   \* <<characters, arguments they take>>
          Integers1, Reals, Texts,   \* conversions <<characters>> and their arguments
          Sizes      \* values of n

VARIABLES call, result

vars == <<call, result>>

Den == 1000
Word == 2^Bits[2]
Lower == <<"0", "1", "2", "3", "4", "5", "6", "7", "8", "9", "a", "b", "c", "d", "e", "f">>
Upper == <<"0", "1", "2", "3", "4", "5", "6", "7", "8", "9", "A", "B", "C", "D", "E", "F">>
Digit(d) == Lower[d + 1]
Times(k, x) == [i \in 1..k |-> x]

\* EMIT, to a place w: the bytes, the pointer q, the count o and the room n.
EMIT(w, x) == IF w.o < w.n THEN [w EXCEPT !.mem = (w.q :> x) @@ @, !.q = @ + 1, !.o = @ + 1]
              ELSE [w EXCEPT !.o = @ + 1]
Emits(w, text) == FoldLeft(EMIT, w, text)
Pads(w, fill, ch, when) == IF when THEN Emits(w, Times(fill, ch)) ELSE w

RECURSIVE NumDigits(_, _)
NumDigits(v, base) == IF v = 0 THEN 0 ELSE 1 + NumDigits(v \div base, base)

\* The number itself, right to left: a tick after every tickskip digits.
Backwards(w, nd, tickskip, v, base, digits) ==
  LET period == tickskip + 1
      char(j) == IF j % period = tickskip THEN "_"
                 ELSE digits[((v \div base^(j - j \div period)) % base) + 1]
      room == {j \in 0..(nd - 1) : w.o + nd - 1 - j < w.n}
      at == {w.q + nd - 1 - j : j \in room}
  IN [w EXCEPT !.mem = [a \in at |-> char(w.q + nd - 1 - a)] @@ @, !.q = @ + nd, !.o = @ + nd]

format_int(w, val, flags, base, width, prec) ==
  LET minus == "signed" \in flags /\ val >= Word \div 2
      v == IF minus THEN (Word - val) % Word ELSE val
      needed == NumDigits(v, base)
      prec1 == IF "#" \in flags /\ base = 8 /\ prec < needed + 1 THEN needed + 1 ELSE prec
      shown == IF needed < prec1 THEN prec1 ELSE IF v = 0 THEN 1 ELSE needed
      tickskip == IF "'" \in flags THEN IF base = 16 THEN 4 ELSE 3 ELSE shown
      nd == shown + (shown - 1) \div tickskip
      hex == "#" \in flags /\ base = 16
      nchars == nd + (IF minus \/ flags \cap {"+", " "} # {} THEN 1 ELSE 0) + (IF hex THEN 2 ELSE 0)
      fill == IF width > nchars THEN width - nchars ELSE 0
      sign == IF minus THEN <<"-">> ELSE IF "+" \in flags THEN <<"+">>
              ELSE IF " " \in flags THEN <<" ">> ELSE <<>>
      prefix == IF hex THEN <<"0", IF "upper" \in flags THEN "X" ELSE "x">> ELSE <<>>
      front == Emits(Emits(Pads(w, fill, " ", flags \cap {"-", "0"} = {}), sign), prefix)
      digits == IF "upper" \in flags THEN Upper ELSE Lower
  IN Pads(Backwards(Pads(front, fill, "0", flags \cap {"-", "0"} = {"0"}), nd, tickskip, v, base, digits),
          fill, " ", "-" \in flags)

format_string(w, text, flags, width, prec) ==
  LET slen == IF prec # -1 /\ Len(text) > prec THEN prec ELSE Len(text)
      fill == IF width > slen THEN width - slen ELSE 0
      pad  == IF "0" \in flags THEN "0" ELSE " "
  IN Pads(Emits(Pads(w, fill, pad, "-" \notin flags), SubSeq(text, 1, slen)), fill, " ", "-" \in flags)

-----------------------------------------------------------------------------
RECURSIVE Decimal(_)
Decimal(k) == IF k = 0 THEN <<>> ELSE Append(Decimal(k \div 10), k % 10)

\* How often a fraction below a tenth is multiplied by ten.
RECURSIVE Scaled(_, _)
Scaled(arg, r2) == IF arg * 10 < Den THEN Scaled(arg * 10, r2 - 1) ELSE <<arg, r2>>

RECURSIVE Fraction(_, _)
Fraction(arg, k) == IF k <= 0 THEN <<>>
                    ELSE <<(arg * 10) \div Den>> \o Fraction((arg * 10) % Den, k - 1)

\* Carry to the left of place i; a carry out of the first place makes it 1.
RECURSIVE Carry(_, _)
Carry(b, i) == IF b[i] <= 9 THEN [buf |-> b, over |-> FALSE]
               ELSE IF i > 1 THEN Carry([b EXCEPT ![i] = 0, ![i - 1] = @ + 1], i - 1)
               ELSE [buf |-> [b EXCEPT ![i] = 1], over |-> TRUE]

cvt(arg, ndigits, eflag) ==
  LET whole == Decimal(arg \div Den)
      frac  == arg % Den
      start == IF whole # <<>> THEN <<frac, Len(whole)>>
               ELSE IF frac > 0 THEN Scaled(frac, 0) ELSE <<0, 0>>
      r2    == start[2]
      last  == (IF ndigits < 0 THEN 0 ELSE ndigits) + IF eflag THEN 0 ELSE r2
      buf   == whole \o Fraction(start[1], last + 1 - Len(whole))
      round == Carry([buf EXCEPT ![last + 1] = @ + 5], last + 1)
      buf1  == IF round.over /\ ~eflag /\ last > 0 THEN [round.buf EXCEPT ![last + 1] = 0] ELSE round.buf
      end   == IF round.over /\ ~eflag THEN last + 1 ELSE last
  IN IF last < 0 THEN [digits |-> <<>>, decpt |-> r2]
     ELSE [digits |-> [i \in 1..end |-> Digit(buf1[i])],
           decpt |-> IF round.over THEN r2 + 1 ELSE r2]

\* The styles of cfltcvt, of what cvt made of a number that is not negative: format_float
\* has taken the sign.
StyleE(c, value, precision, e) ==
  LET exp == IF c.decpt = 0 THEN IF value = 0 THEN 0 ELSE -1 ELSE c.decpt - 1
      abs == IF exp < 0 THEN -exp ELSE exp
  IN <<c.digits[1]>> \o (IF precision > 0 THEN <<".">> ELSE <<>>) \o SubSeq(c.digits, 2, precision + 1)
     \o <<e, IF exp < 0 THEN "-" ELSE "+", Digit(abs \div 100), Digit((abs \div 10) % 10), Digit(abs % 10)>>

StyleF(c, precision) ==
  IF c.digits = <<>> THEN <<"0">> \o IF precision > 0 THEN <<".">> \o Times(precision, "0") ELSE <<>>
  ELSE IF c.decpt <= 0 THEN <<"0", ".">> \o Times(-c.decpt, "0") \o c.digits
  ELSE SubSeq(c.digits, 1, c.decpt)
       \o IF Len(c.digits) > c.decpt THEN <<".">> \o SubSeq(c.digits, c.decpt + 1, Len(c.digits)) ELSE <<>>

\* The style of g, and its precision, depend on where cvt puts the point.
Styled(value, fmt, precision, decpt) ==
  LET g == fmt \notin {"e", "E", "f"}
      long == fmt \in {"e", "E"} \/ (g /\ (decpt - 1 < -4 \/ decpt - 1 > precision - 1))
      prec == IF ~g THEN precision ELSE IF long THEN precision - 1 ELSE precision - decpt
  IN IF long THEN StyleE(cvt(value, prec + 1, TRUE), value, prec, IF fmt \in {"G", "E"} THEN "E" ELSE "e")
     ELSE StyleF(cvt(value, prec, FALSE), prec)
cfltcvt(value, fmt, precision) == Styled(value, fmt, precision, cvt(value, precision, TRUE).decpt)

cropzeros(text) ==
  LET dot == SelectInSeq(text, LAMBDA c : c = ".")
      ex  == SelectInSeq(text, LAMBDA c : c \in {"e", "E"})
      stop == IF ex = 0 THEN Len(text) + 1 ELSE ex
      keep == SelectLastInSubSeq(text, 1, stop - 1, LAMBDA c : c # "0")
  IN IF dot = 0 THEN text
     ELSE SubSeq(text, 1, IF keep = dot THEN dot - 1 ELSE keep) \o SubSeq(text, stop, Len(text))

\* With an exponent the text moves up from the character after the e, which the point replaces.
forcdecpt(text) ==
  LET ex == SelectInSeq(text, LAMBDA c : c \in {"e", "E"}) IN
  IF "." \in {text[i] : i \in DOMAIN text} THEN text
  ELSE IF ex = 0 THEN Append(text, ".")
  ELSE SubSeq(text, 1, ex - 1) \o <<".">> \o SubSeq(text, ex + 1, ex + 1) \o SubSeq(text, ex + 1, Len(text))

\* What format_float writes: the sign, unless the text has it already, and the text.
PutFloat(w, sign, text, flags, width) ==
  LET room == width - Len(sign) - Len(text)
      fill == IF room > 0 THEN room ELSE 0
      front == Emits(Pads(w, fill, " ", flags \cap {"0", "-"} = {}), sign)
  IN Pads(Emits(Pads(front, fill, "0", flags \cap {"0", "-"} = {"0"}), text), fill, " ", "-" \in flags)

format_float(w, val, flags, fmt, width, prec) ==
  LET sign == IF val < 0 THEN <<"-">> ELSE IF "+" \in flags THEN <<"+">>
              ELSE IF " " \in flags THEN <<" ">> ELSE <<>>
      signed == "signed" \in flags
      prec1 == IF prec < 0 THEN 6 ELSE IF prec = 0 /\ fmt = "g" THEN 1 ELSE prec
      points(t) == IF "#" \in flags /\ prec1 = 0 THEN forcdecpt(t) ELSE t
      crops(t) == IF fmt = "g" /\ "#" \notin flags THEN cropzeros(t) ELSE t
      abs == IF val < 0 THEN -val ELSE val
  IN PutFloat(w, IF signed THEN sign ELSE <<>>,
              crops(points((IF ~signed /\ val < 0 THEN <<"-">> ELSE <<>>) \o cfltcvt(abs, fmt, prec1))),
              flags, width)

-----------------------------------------------------------------------------
\* The argument of an integer conversion, cut to its rank, as a uintmax_t.
Converted(arg, rank, signed) ==
  LET m == 2^Bits[rank]
      low == arg % m
  IN IF signed /\ low >= m \div 2 THEN (low - m) % Word ELSE low

Clamp(rank) == IF rank < -2 THEN -2 ELSE IF rank > 2 THEN 2 ELSE rank

\* The base of an integer conversion and the flags it adds.
BaseOf(ch) == CASE ch \in {"d", "i", "u"} -> 10 [] ch = "o" -> 8 [] OTHER -> 16
Adds(ch) == CASE ch = "p" -> {"#"} [] ch \in {"d", "i"} -> {"signed"} [] ch = "X" -> {"upper"} [] OTHER -> {}

\* One conversion: s holds the directive read so far and what was written.
Convert(s, ch) ==
  LET w == [mem |-> s.mem, q |-> s.q, o |-> 0, n |-> IF s.o < s.n THEN s.n - s.o ELSE 0]
      arg == Head(s.args)
      rank == Clamp(s.rank)
      val == IF ch = "p" THEN arg ELSE Converted(arg, rank, ch \in {"d", "i"})
      prec == IF ch = "p" THEN (Bits[1] + 3) \div 4 ELSE s.prec
      after(w1) == [s EXCEPT !.mem = w1.mem, !.q = @ + w1.o, !.o = @ + w1.o, !.args = Tail(@)]
      emitted(w1) == [s EXCEPT !.mem = w1.mem, !.q = w1.q, !.o = w1.o]
      here == [w EXCEPT !.o = s.o, !.n = s.n]
  IN [(CASE ch = "P" -> [s EXCEPT !.flags = @ \cup {"upper"}]
         [] ch \in {"p", "d", "i", "o", "u", "x", "X"} ->
              after(format_int(w, val, s.flags \cup Adds(ch), BaseOf(ch), s.width, prec))
         [] ch \in {"c", "s"} ->
              [emitted(format_string(here, arg, s.flags, s.width, s.prec)) EXCEPT !.args = Tail(@)]
         [] ch = "n" -> [s EXCEPT !.stored = s.o % 2^Bits[rank], !.args = Tail(@)]
         [] ch \in {"E", "G", "e", "f", "g"} -> after(format_float(w, arg, s.flags, ch, s.width, s.prec))
         [] OTHER -> emitted(EMIT(here, ch))) EXCEPT !.state = "normal"]

IsDigit(ch) == ch \in {Digit(d) : d \in 0..9}
ValueOf(ch) == CHOOSE d \in 0..9 : Digit(d) = ch
Next1(s) == [s EXCEPT !.p = @ + 1]

\* One turn of the loop; a character that ends a state is looked at again in the next.
Turn(s, ch) ==
  CASE s.state = "normal" ->
         IF ch = "%" THEN Next1([s EXCEPT !.state = "flags", !.flags = {}, !.rank = 0,
                                          !.width = 0, !.prec = -1])
         ELSE LET w == EMIT([mem |-> s.mem, q |-> s.q, o |-> s.o, n |-> s.n], ch)
              IN Next1([s EXCEPT !.mem = w.mem, !.q = w.q, !.o = w.o])
    [] s.state = "flags" ->
         IF ch \in {"-", "+", "'", " ", "#", "0"} THEN Next1([s EXCEPT !.flags = @ \cup {ch}])
         ELSE [s EXCEPT !.state = "width"]
    [] s.state = "width" ->
         IF IsDigit(ch) THEN Next1([s EXCEPT !.width = @ * 10 + ValueOf(ch)])
         ELSE IF ch = "*"
         THEN Next1([s EXCEPT !.width = IF Head(s.args) < 0 THEN -Head(s.args) ELSE Head(s.args),
                              !.flags = IF Head(s.args) < 0 THEN @ \cup {"-"} ELSE @,
                              !.args = Tail(@)])
         ELSE IF ch = "." THEN Next1([s EXCEPT !.prec = 0, !.state = "prec"])
         ELSE [s EXCEPT !.state = "modifiers"]
    [] s.state = "prec" ->
         IF IsDigit(ch) THEN Next1([s EXCEPT !.prec = @ * 10 + ValueOf(ch)])
         ELSE IF ch = "*" THEN Next1([s EXCEPT !.prec = IF Head(s.args) < 0 THEN -1 ELSE Head(s.args),
                                               !.args = Tail(@)])
         ELSE [s EXCEPT !.state = "modifiers"]
    [] OTHER ->
         Next1(CASE ch = "h" -> [s EXCEPT !.rank = @ - 1]
                 [] ch = "l" -> [s EXCEPT !.rank = @ + 1]
                 [] ch = "j" -> [s EXCEPT !.rank = 2]
                 [] ch \in {"z", "t"} -> [s EXCEPT !.rank = 1]
                 [] ch \in {"L", "q"} -> [s EXCEPT !.rank = @ + 2]
                 [] OTHER -> Convert(s, ch))

RECURSIVE Loop(_, _)
Loop(s, fmt) == IF s.p > Len(fmt) THEN s ELSE Loop(Turn(s, fmt[s.p]), fmt)

\* The end of the text, where there is room for it.
Terminated(s) ==
  LET mem == IF s.o < s.n THEN (s.q :> "NUL") @@ s.mem
             ELSE IF s.n > 0 THEN (s.n - 1 :> "NUL") @@ s.mem ELSE s.mem
  IN [mem |-> mem, o |-> s.o, stored |-> s.stored]
vsnprintf(n, fmt, args) ==
  Terminated(Loop([state |-> "normal", p |-> 1, mem |-> <<>>, q |-> 0, o |-> 0, n |-> n, args |-> args,
                   flags |-> {}, rank |-> 0, width |-> 0, prec |-> -1, stored |-> -1], fmt))

\* Calls: a directive between two marks.  Left out are %#.0e (see forcdecpt) and %#g of
\* zero, for which cvt counts no digit before the point.
Calls == {c \in [n : Sizes, flags : Flags, width : Widths, prec : Precs,
                 conv : Integers1 \cup Reals \cup Texts] :
            Contains(c.flags, "#") => /\ ~(c.conv[1] = <<"e">> /\ c.prec[1] = <<".">>)
                                      /\ c.conv # << <<"g">>, 0 >>}

FormatOf(c) == <<"<", "%">> \o c.flags \o c.width[1] \o c.prec[1] \o c.conv[1] \o <<">">>
ArgsOf(c) == c.width[2] \o c.prec[2] \o <<c.conv[2]>>

PfInit == call \in Calls /\ result = <<>>
PfNext == /\ result = <<>>
          /\ result' = vsnprintf(call.n, FormatOf(call), ArgsOf(call))
          /\ UNCHANGED call
PfSpec == PfInit /\ [][PfNext]_vars

-----------------------------------------------------------------------------
\* What a call means, written down without the code's pointers and counters.
Max2(a, b) == IF a > b THEN a ELSE b
WidthOf(c) == LET ds == c.width[1] IN
  IF ds = <<>> THEN 0 ELSE IF ds = <<"*">> THEN Max2(c.width[2][1], -c.width[2][1]) ELSE ValueOf(ds[1])
PrecOf(c) == LET ds == c.prec[1] IN
  IF ds = <<>> THEN -1 ELSE IF ds = <<".">> THEN 0
  ELSE IF ds = <<".", "*">> THEN Max2(c.prec[2][1], -1) ELSE ValueOf(ds[2])
FlagsOf(c) == {c.flags[i] : i \in DOMAIN c.flags}
              \cup IF c.width[1] = <<"*">> /\ c.width[2][1] < 0 THEN {"-"} ELSE {}

\* A text of fixed front and body in a field: blanks before or after, or zeros between.
Field(front, body, flags, width) ==
  LET fill == Max2(width - Len(front) - Len(body), 0) IN
  IF "-" \in flags THEN front \o body \o Times(fill, " ")
  ELSE IF "0" \in flags THEN front \o Times(fill, "0") \o body
  ELSE Times(fill, " ") \o front \o body

RECURSIVE Spelled(_, _, _)
Spelled(v, base, digits) ==
  IF v < base THEN <<digits[v + 1]>> ELSE Append(Spelled(v \div base, base, digits), digits[(v % base) + 1])

RECURSIVE Grouped(_, _)
Grouped(t, k) == IF Len(t) <= k THEN t
                 ELSE Grouped(SubSeq(t, 1, Len(t) - k), k) \o <<"_">> \o SubSeq(t, Len(t) - k + 1, Len(t))

IntegerText(c) ==
  LET conv == Last(c.conv[1])
      flags == FlagsOf(c)
      rank == Clamp(Len(SelectSeq(c.conv[1], LAMBDA x : x = "l")) - Len(SelectSeq(c.conv[1], LAMBDA x : x = "h")))
      base == CASE conv \in {"x", "X", "p"} -> 16 [] conv = "o" -> 8 [] OTHER -> 10
      m == 2^Bits[rank]
      low == IF conv = "p" THEN c.conv[2] ELSE c.conv[2] % m
      num == IF conv = "d" /\ low >= m \div 2 THEN low - m ELSE low
      digits == Spelled(IF num < 0 THEN -num ELSE num, base, IF conv = "X" THEN Upper ELSE Lower)
      prec == IF conv = "p" THEN (Bits[1] + 3) \div 4 ELSE PrecOf(c)
      zeros == Max2(prec - Len(digits), IF "#" \in flags /\ base = 8 /\ num # 0 THEN 1 ELSE 0)
      body == Times(zeros, "0") \o digits
      sign == IF num < 0 THEN <<"-">> ELSE IF "+" \in flags THEN <<"+">>
              ELSE IF " " \in flags THEN <<" ">> ELSE <<>>
      front == IF base = 16 /\ (conv = "p" \/ "#" \in flags)
               THEN <<"0", IF conv = "X" THEN "X" ELSE "x">> ELSE <<>>
  IN Field(sign \o front, IF "'" \in flags THEN Grouped(body, IF base = 16 THEN 4 ELSE 3) ELSE body,
           flags, WidthOf(c))

\* The number of units of 10^-k nearest to v thousandths, a half going up.
Nearest(v, k) == IF k >= 3 THEN v * 10^(k - 3)
                 ELSE LET unit == 10^(3 - k) IN (2 * v + unit) \div (2 * unit)

Pointed(units, k) ==
  LET t == Spelled(units, 10, Lower)
      long == Times(Max2(k + 1 - Len(t), 0), "0") \o t
  IN SubSeq(long, 1, Len(long) - k) \o IF k = 0 THEN <<>> ELSE <<".">> \o SubSeq(long, Len(long) - k + 1, Len(long))

\* The exponent of v rounded to k + 1 digits.
Exponent(v, k) ==
  IF v = 0 THEN 0
  ELSE LET down == CHOOSE e \in (-3)..5 : v >= 10^(e + 3) /\ v < 10^(e + 4)
       IN IF Nearest(v, k - down) = 10^(k + 1) THEN down + 1 ELSE down

ExponentText(e) == <<"e", IF e < 0 THEN "-" ELSE "+", "0", "0", Digit(IF e < 0 THEN -e ELSE e)>>

Trimmed(t) ==
  LET keep == SelectLastInSeq(t, LAMBDA c : c # "0") IN
  IF \A i \in DOMAIN t : t[i] # "." THEN t ELSE SubSeq(t, 1, IF t[keep] = "." THEN keep - 1 ELSE keep)

RealText(c) ==
  LET conv == Last(c.conv[1])
      v == IF c.conv[2] < 0 THEN -c.conv[2] ELSE c.conv[2]
      prec == IF PrecOf(c) = -1 THEN 6 ELSE PrecOf(c)
      sig  == IF prec = 0 THEN 1 ELSE prec
      e    == Exponent(v, sig - 1)
      dot  == IF "#" \in FlagsOf(c) /\ prec = 0 THEN <<".">> ELSE <<>>
      short(t) == IF "#" \in FlagsOf(c) THEN t ELSE Trimmed(t)
      text == CASE conv = "f" -> Pointed(Nearest(v, prec), prec) \o dot
                [] conv = "e" -> Pointed(Nearest(v, prec - Exponent(v, prec)), prec)
                                 \o ExponentText(Exponent(v, prec))
                [] e < -4 \/ e >= sig -> short(Pointed(Nearest(v, sig - 1 - e), sig - 1)) \o ExponentText(e)
                [] OTHER -> short(Pointed(Nearest(v, sig - 1 - e), sig - 1 - e))
  IN Field(<<>>, (IF c.conv[2] < 0 THEN <<"-">> ELSE <<>>) \o text, FlagsOf(c), WidthOf(c))

TextText(c) ==
  LET p == PrecOf(c)
      cut == IF p = -1 \/ p > Len(c.conv[2]) THEN c.conv[2] ELSE SubSeq(c.conv[2], 1, p)
  IN Field(<<>>, cut, FlagsOf(c), WidthOf(c))

Meant(c) == <<"<">> \o (IF c.conv \in Integers1 THEN IntegerText(c)
                        ELSE IF c.conv \in Reals THEN RealText(c) ELSE TextText(c)) \o <<">">>

\* What n bytes hold of a text.
Fitting(text, n) ==
  IF n = 0 THEN <<>> ELSE Append(SubSeq(text, 1, IF Len(text) < n THEN Len(text) ELSE n - 1), "NUL")
Holds(mem, seen) == mem = [i \in 0..(Len(seen) - 1) |-> seen[i + 1]]
Writes(r, text, n) == r.o = Len(text) /\ Holds(r.mem, Fitting(text, n))

\* vsnprintf writes what the directive means, whatever the room: with n bytes the first
\* n - 1 characters and a NUL and nothing past them, and its result is always the length
\* of the whole text, so that a caller can ask for the size first.
PrintsWhatIsMeant == result = <<>> \/ Writes(result, Meant(call), call.n)

-----------------------------------------------------------------------------
(* Reading formatted text (libc/stdio/vsscanf.c, libc/stdlib/strntoumax.c), and what *)
(* it makes of text that vsnprintf wrote.  Characters and integers as in Printf.      *)

CONSTANTS Items,     \* <<what is printed, how it is read, argument>>
          Between,   \* what stands between two items
          MaxItems

\* A call has the items printed, the text of each, and how many characters of the whole
\* reach vsscanf.
items == call.items
texts == call.texts
cut == call.cut

isspace(ch) == ch = " "
At(text, i) == IF i <= Len(text) THEN text[i] ELSE "NUL"

RECURSIVE skipspace(_, _)
skipspace(text, q) == IF isspace(At(text, q)) THEN skipspace(text, q + 1) ELSE q

digitval(ch) ==
  IF \E d \in 0..15 : Lower[d + 1] = ch THEN CHOOSE d \in 0..15 : Lower[d + 1] = ch
  ELSE IF \E d \in 0..15 : Upper[d + 1] = ch THEN CHOOSE d \in 0..15 : Upper[d + 1] = ch ELSE -1

RECURSIVE ReadDigits(_, _, _, _, _)
ReadDigits(text, p, end, base, v) ==
  LET d == digitval(At(text, p)) IN
  IF p < end /\ d >= 0 /\ d < base THEN ReadDigits(text, p + 1, end, base, (v * base + d) % Word)
  ELSE <<v, p>>

\* Spaces, a sign and a prefix, all of them before the place end; the value and where it ends.
FromPrefix(text, p, end, base) ==
  LET zero == At(text, p) = "0"
      hex == base \in {0, 16} /\ p + 2 < end /\ zero /\ At(text, p + 1) \in {"x", "X"}
      oct == base = 0 /\ ~hex /\ p + 1 < end /\ zero
  IN IF hex THEN ReadDigits(text, p + 2, end, 16, 0)
     ELSE IF oct THEN ReadDigits(text, p + 1, end, 8, 0)
     ELSE ReadDigits(text, p, end, IF base = 0 THEN 10 ELSE base, 0)
FromSign(text, p, end, base) ==
  LET signed == p < end /\ At(text, p) \in {"-", "+"}
      r == FromPrefix(text, IF signed THEN p + 1 ELSE p, end, base)
  IN [value |-> IF signed /\ At(text, p) = "-" THEN (-r[1]) % Word ELSE r[1], end |-> r[2]]
strntoumax(text, from, base, n) ==
  LET p == skipspace(text, from) IN FromSign(text, IF p < from + n THEN p ELSE from + n, from + n, base)

-----------------------------------------------------------------------------
INT_MAX == 1000

\* A value stored through a pointer of the rank.
Store(s, val, rank) == [s EXCEPT !.got = Append(@, val % 2^Bits[rank])]

ScannedInt(s, text, q, r, rank) ==
  IF At(text, q) = "NUL" THEN [s EXCEPT !.q = q, !.bail = "eof"]
  ELSE IF r.end = q THEN [s EXCEPT !.q = q, !.bail = "err"]
  ELSE IF s.splat THEN [s EXCEPT !.q = r.end]
  ELSE Store([s EXCEPT !.q = r.end, !.converted = @ + 1], r.value, rank)
ScanInt(s, text, base, rank) ==
  LET q == skipspace(text, s.q) IN ScannedInt(s, text, q, strntoumax(text, q, base, s.width), rank)

\* How far a run of characters of a kind goes, and what it is.
RunEnd(text, q, width, In(_)) ==
  CHOOSE e \in q..(Len(text) + 1) :
    /\ e = q + width \/ e = Len(text) + 1 \/ ~In(text[e])
    /\ \A i \in q..(e - 1) : i < q + width /\ In(text[i])

ScanChar(s, text) ==
  LET width == IF s.hasWidth THEN s.width ELSE 1
      end == RunEnd(text, s.q, width, LAMBDA c : TRUE)
      short == end - s.q < width
  IN IF s.splat THEN IF At(text, s.q) = "NUL" /\ width > 0 THEN [s EXCEPT !.bail = "eof"] ELSE s
     ELSE [s EXCEPT !.q = end, !.got = Append(@, SubSeq(text, s.q, end - 1)),
                    !.bail = IF short THEN "eof" ELSE @,
                    !.converted = IF short THEN @ ELSE @ + 1]

\* At the end of the text, unless the width stopped it, the scan is over.
ScanString(s, text) ==
  LET end == RunEnd(text, s.q, s.width, LAMBDA c : ~isspace(c))
      s1 == [s EXCEPT !.q = end,
                      !.bail = IF end - s.q < s.width /\ At(text, end) = "NUL" THEN "eof" ELSE @]
  IN IF s.splat \/ end = s.q THEN s1
     ELSE [s1 EXCEPT !.got = Append(@, SubSeq(text, s.q, end - 1)), !.converted = @ + 1]

\* The end of a set; the width does not limit it.
MatchRun(s, text) ==
  LET In(c) == (c \in s.set) # s.inv
      end == RunEnd(text, s.q, Len(text) + 1, In)
      any == end > s.q /\ ~s.splat
      s1 == IF any THEN [s EXCEPT !.got = Append(@, SubSeq(text, s.q, end - 1)), !.converted = @ + 1]
            ELSE [s EXCEPT !.bail = "err"]
  IN IF s.width = 0 THEN [s EXCEPT !.bail = "err"]
     ELSE [s1 EXCEPT !.q = end, !.bail = IF At(text, end) = "NUL" THEN "eof" ELSE @]

ScanBase(ch) == CASE ch \in {"P", "p", "i"} -> 0 [] ch \in {"d", "u"} -> 10 [] ch = "o" -> 8 [] OTHER -> 16
Scan(s, text, ch) ==
  LET rank == IF ch \in {"P", "p"} THEN 1 ELSE Clamp(s.rank)
  IN [(CASE ch \in {"P", "p", "i", "d", "u", "o", "x", "X"} -> ScanInt(s, text, ScanBase(ch), rank)
         [] ch = "n" -> IF s.splat THEN s ELSE Store(s, s.q - 1, rank)
         [] ch = "c" -> ScanChar(s, text)
         [] ch = "s" -> ScanString(s, text)
         [] ch = "[" -> [s EXCEPT !.inv = FALSE, !.set = {}]
         [] ch = "%" -> IF At(text, s.q) = "%" THEN [s EXCEPT !.q = @ + 1] ELSE [s EXCEPT !.bail = "err"]
         [] OTHER -> [s EXCEPT !.bail = "err"])
      EXCEPT !.state = IF ch = "[" THEN "matchInit" ELSE "normal"]

\* The characters a range adds: those from the - itself up to, without, the one after it.
InOrder == <<"-">> \o Lower
Place(c) == IF c \in {InOrder[i] : i \in DOMAIN InOrder} THEN CHOOSE i \in DOMAIN InOrder : InOrder[i] = c ELSE 1
RangeTo(c) == {InOrder[i] : i \in 1..(Place(c) - 1)}

ScanTurn(s, text, ch) ==
  CASE s.state = "normal" ->
         Next1(IF ch = "%" THEN [s EXCEPT !.state = "flags", !.splat = FALSE, !.hasWidth = FALSE,
                                          !.rank = 0, !.width = INT_MAX]
               ELSE IF isspace(ch) THEN [s EXCEPT !.q = skipspace(text, @)]
               ELSE IF At(text, s.q) = ch THEN [s EXCEPT !.q = @ + 1]
               ELSE [s EXCEPT !.bail = "err"])
    [] s.state = "flags" ->
         IF ch = "*" THEN Next1([s EXCEPT !.splat = TRUE])
         ELSE IF IsDigit(ch) THEN Next1([s EXCEPT !.width = ValueOf(ch), !.state = "width", !.hasWidth = TRUE])
         ELSE [s EXCEPT !.state = "modifiers"]
    [] s.state = "width" ->
         IF IsDigit(ch) THEN Next1([s EXCEPT !.width = @ * 10 + ValueOf(ch)])
         ELSE [s EXCEPT !.state = "modifiers"]
    [] s.state = "modifiers" ->
         Next1(CASE ch = "h" -> [s EXCEPT !.rank = @ - 1]
                 [] ch = "l" -> [s EXCEPT !.rank = @ + 1]
                 [] ch \in {"j", "L", "q"} -> [s EXCEPT !.rank = 2]
                 [] ch \in {"z", "t"} -> [s EXCEPT !.rank = 1]
                 [] OTHER -> Scan(s, text, ch))
    [] s.state = "matchInit" ->
         Next1(IF ch = "^" THEN [s EXCEPT !.inv = TRUE]
               ELSE [s EXCEPT !.set = @ \cup {ch}, !.state = "match"])
    [] s.state = "match" ->
         Next1(IF ch = "]" THEN MatchRun(s, text)
               ELSE IF ch = "-" THEN [s EXCEPT !.state = "range"]
               ELSE [s EXCEPT !.set = @ \cup {ch}])
    [] OTHER ->
         Next1(IF ch = "]" THEN MatchRun([s EXCEPT !.set = @ \cup {"-"}], text)
               ELSE [s EXCEPT !.set = @ \cup RangeTo(ch), !.state = "match"])

RECURSIVE ScanLoop(_, _, _)
ScanLoop(s, text, fmt) ==
  IF s.p > Len(fmt) \/ s.bail # "none" THEN s ELSE ScanLoop(ScanTurn(s, text, fmt[s.p]), text, fmt)

Scanned(s) == [got |-> s.got, converted |-> IF s.bail = "eof" /\ s.converted = 0 THEN -1 ELSE s.converted]
vsscanf(text, fmt) ==
  Scanned(ScanLoop([state |-> "normal", p |-> 1, q |-> 1, bail |-> "none", converted |-> 0, got |-> <<>>,
                    splat |-> FALSE, hasWidth |-> FALSE, rank |-> 0, width |-> INT_MAX,
                    set |-> {}, inv |-> FALSE], text, fmt))

-----------------------------------------------------------------------------
\* Items are printed one after the other; a text of them is read back, whole or cut.
TextIn(r) == [i \in 1..r.o |-> r.mem[i - 1]]
ItemText(it) == TextIn(vsnprintf(INT_MAX, <<"%">> \o it[1], <<it[3]>>))

Joined(seqs) == FoldLeft(LAMBDA a, b : IF a = <<>> THEN b ELSE a \o Between \o b, <<>>, seqs)
ScanFormat(its) == Joined([i \in DOMAIN its |-> <<"%">> \o its[i][2]])

\* A set is the last item: the scan stays in the state of its set after the closing ].
Open(its) == Len(its) < MaxItems /\ (its # <<>> => Last(Last(its)[2]) # "]")

ScInit == call = [items |-> <<>>, texts |-> <<>>, cut |-> 0] /\ result = <<>>
CallOf(its, ts) == [items |-> its, texts |-> ts, cut |-> Len(Joined(ts))]
ScAppend == /\ Open(items) /\ cut = Len(Joined(texts))
            /\ \E it \in Items : call' = CallOf(Append(items, it), Append(texts, ItemText(it)))
ScCut == cut = Len(Joined(texts)) /\ \E c \in 0..(cut - 1) : call' = [call EXCEPT !.cut = c]
ScNext == /\ ScAppend \/ ScCut
          /\ result' = vsscanf(SubSeq(Joined(texts'), 1, cut'), ScanFormat(items'))
ScSpec == ScInit /\ [][ScNext]_vars

\* Where item k begins in the text.
Begins(k) == IF k = 1 THEN 1 ELSE Len(Joined(SubSeq(texts, 1, k - 1))) + Len(Between) + 1
Ends(k) == Begins(k) + Len(texts[k]) - 1
Begun == {k \in DOMAIN items : Begins(k) <= cut}
Kept(k) == Head(items[k][2]) # "*"

\* The value an item is read as: an integer keeps the bits of its rank.
ReadAs(k) == LET it == items[k] IN
  IF Last(it[2]) \in {"s", "c", "]"} THEN texts[k]
  ELSE it[3] % 2^Bits[Clamp(Len(SelectSeq(it[2], LAMBDA x : x = "l")))]

\* vsscanf gives back what vsnprintf wrote: every item that is there in whole has the value
\* that was printed, the count says how many items that are kept have at least one
\* character, and it is -1 when the text ends before the first of them.
ScansBack ==
  LET kept == {k \in Begun : Kept(k)} IN
  items # <<>> =>
    /\ result.converted = IF kept = {} /\ Begun # DOMAIN items THEN -1 ELSE Cardinality(kept)
    /\ \A k \in kept : Ends(k) <= cut => result.got[Cardinality({j \in kept : j <= k})] = ReadAs(k)
=============================================================================
