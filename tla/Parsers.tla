------------------------------ MODULE Parsers -------------------------------
EXTENDS Integers, Sequences, FiniteSets, FiniteSetsExt, SequencesExt

(* The parser of libx/json.c.  json_parse reads the text twice: the first pass makes the *)
(* values and measures strings, names and lengths, the second fills what was measured.   *)
(* A number that is no integer is <<n, k>>, n times ten to the k, without rounding.       *)

CONSTANTS Ord,          \* the byte of every character of the texts
          UintMax,      \* uint_max, the longest string, array and object
          IntegerMax,   \* 9223372036854775807
          Written,      \* [text, value]: texts of known values
          Raw,          \* other texts
          Failing       \* which allocation fails, 0 for none

VARIABLES call, result

End == ""
Blanks == {" ", "\t", "\r", "\n"}
Digits == <<"0", "1", "2", "3", "4", "5", "6", "7", "8", "9">>
isdigit(b) == \E i \in 1..10 : Digits[i] = b
DigitOf(b) == (CHOOSE i \in 1..10 : Digits[i] = b) - 1
hex_value(c) ==
  CASE isdigit(c) -> DigitOf(c)
    [] c \in {"a", "A"} -> 10 [] c \in {"b", "B"} -> 11 [] c \in {"c", "C"} -> 12
    [] c \in {"d", "D"} -> 13 [] c \in {"e", "E"} -> 14 [] c \in {"f", "F"} -> 15
    [] OTHER -> 255

ValueRecord == [type : STRING, parent : Nat, len : Nat, names : Nat, room : Nat, nameroom : Nat, integer : Int,
                dbl : Seq(Int), bool : 0..1, text : Seq(Nat), keys : Seq(Seq(Nat)), kids : Seq(Nat), filled : BOOLEAN]
State == [first : BOOLEAN, ptr : Nat, flags : SUBSET STRING, vals : Seq(ValueRecord), top : Nat, root : Nat, alloc : Nat,
          string : Seq(Nat), slen : Nat, digits : Nat, fraction : Nat, e : Nat, allocs : Nat, out : STRING]

Fail(s) == [s EXCEPT !.out = "failed"]
Onward(s) == [s EXCEPT !.ptr = @ + 1]
With(s, on, off) == [s EXCEPT !.flags = (@ \ off) \cup on]
Top(s) == s.vals[s.top]

\* The first pass makes a value, the second takes the next one and its room.
new_value(s, type, fail) ==
  LET more == [s EXCEPT !.allocs = @ + 1]
      v == s.alloc
      took == [s EXCEPT !.top = v, !.alloc = IF v < Len(s.vals) THEN v + 1 ELSE 0, !.root = IF @ = 0 THEN v ELSE @]
      needs == s.vals[v].type = "string" \/ (s.vals[v].type \in {"array", "object"} /\ s.vals[v].len > 0)
  IN IF s.first
     THEN IF more.allocs = fail THEN Fail(s)
          ELSE [more EXCEPT !.vals = Append(@, [type |-> type, parent |-> s.top, len |-> 0, names |-> 0, room |-> 0,
                                                nameroom |-> 0, integer |-> 0, dbl |-> <<0, 0>>, bool |-> 0, text |-> <<>>,
                                                keys |-> <<>>, kids |-> <<>>, filled |-> FALSE]),
                            !.top = Len(s.vals) + 1, !.alloc = Len(s.vals) + 1, !.root = IF @ = 0 THEN Len(s.vals) + 1 ELSE @]
     ELSE IF ~needs THEN took
     ELSE IF more.allocs = fail THEN [Fail(took) EXCEPT !.allocs = @ + 1]
     ELSE [took EXCEPT !.allocs = @ + 1,
                       !.vals[v] = [@ EXCEPT !.room = s.vals[v].len, !.nameroom = s.vals[v].names, !.len = 0, !.names = 0,
                                              !.filled = TRUE]]

-----------------------------------------------------------------------------
\* Strings.  The first pass only counts.
Put(s, bytes) == [s EXCEPT !.slen = @ + Len(bytes), !.string = IF s.first THEN @ ELSE @ \o bytes]
Utf8Bytes(u) ==
  CASE u <= 127 -> <<u>>
    [] u \in 128..2047 -> <<192 + u \div 64, 128 + (u % 64)>>
    [] u \in 2048..65535 -> <<224 + u \div 4096, 128 + ((u \div 64) % 64), 128 + (u % 64)>>
    [] OTHER -> <<240 + u \div 262144, 128 + ((u \div 4096) % 64), 128 + ((u \div 64) % 64), 128 + (u % 64)>>

\* Four digits after place p; -1 where the text ends or one of them is no digit.
HexAfter(text, p) ==
  IF Len(text) - p < 4 \/ \E k \in 1..4 : hex_value(text[p + k]) = 255 THEN -1
  ELSE ((hex_value(text[p + 1]) * 16 + hex_value(text[p + 2])) * 16 + hex_value(text[p + 3])) * 16 + hex_value(text[p + 4])
\* 0x010000 | ((uchar & 0x3ff) << 10) | (uchar2 & 0x3ff)
PairOf(u, u2) == LET low == (u % 1024) * 1024 + (u2 % 1024) IN IF (low \div 65536) % 2 = 1 THEN low ELSE low + 65536

Unicode(text, s) ==
  LET u == HexAfter(text, s.ptr)
      q == s.ptr + 4
      u2 == HexAfter(text, q + 2)
  IN IF u = -1 THEN Fail(s)
     ELSE IF u \div 2048 # 27 THEN [Put(s, Utf8Bytes(u)) EXCEPT !.ptr = q + 1]
     ELSE IF Len(text) - q < 6 THEN Fail(s)
     ELSE IF text[q + 1] # "\\" \/ text[q + 2] # "u" \/ u2 = -1 THEN Fail(s)
     ELSE [Put(s, Utf8Bytes(PairOf(u, u2))) EXCEPT !.ptr = q + 7]

Escape(text, s, b) ==
  LET plain == With(s, {}, {"escaped"}) IN
  CASE b = "b" -> Onward(Put(plain, <<8>>)) [] b = "f" -> Onward(Put(plain, <<12>>))
    [] b = "n" -> Onward(Put(plain, <<10>>)) [] b = "r" -> Onward(Put(plain, <<13>>))
    [] b = "t" -> Onward(Put(plain, <<9>>)) [] b = "u" -> Unicode(text, plain)
    [] OTHER -> Onward(Put(plain, <<Ord[b]>>))

\* The value at top is complete: it goes to the value that holds it.
Complete(s) ==
  LET p == Top(s).parent
      next == With(s, {"comma"}, {})
      kept == IF s.first THEN next.vals
              ELSE [next.vals EXCEPT ![p].kids = Append(@, s.top)]
  IN IF p = 0 THEN With(next, {"done"}, {})
     ELSE IF s.vals[p].len + 1 > UintMax THEN Fail(s)
     ELSE [With(next, IF s.vals[p].type = "array" THEN {"seek"} ELSE {}, {}) EXCEPT
             !.vals = [kept EXCEPT ![p].len = @ + 1], !.top = p]

Closed(s) ==
  LET t == s.top
      ended == With(s, {}, {"string"})
  IN IF Top(s).type = "string"
     THEN Onward(Complete([ended EXCEPT !.vals[t].len = s.slen, !.vals[t].text = s.string]))
     ELSE Onward(With([ended EXCEPT !.vals[t].names = @ + s.slen + 1,
                                    !.vals[t].keys = IF s.first THEN @ ELSE Append(@, s.string)],
                      {"seek", "colon"}, {}))

InString(text, s, b) ==
  IF b = End \/ s.slen > UintMax THEN Fail(s)
  ELSE IF "escaped" \in s.flags THEN Escape(text, s, b)
  ELSE IF b = "\\" THEN Onward(With(s, {"escaped"}, {}))
  ELSE IF b = "\"" THEN Closed(s)
  ELSE Onward(Put(s, <<Ord[b]>>))

-----------------------------------------------------------------------------
InComment(text, s, b) ==
  IF "line" \in s.flags
  THEN IF b \in {"\r", "\n", End} THEN With(s, {}, {"line"}) ELSE Onward(s)
  ELSE IF b = End THEN Fail(s)
  ELSE IF b = "*" /\ s.ptr < Len(text) /\ text[s.ptr + 1] = "/" THEN Onward(Onward(With(s, {}, {"block"})))
  ELSE Onward(s)

CommentStart(text, s) ==
  IF s.flags \cap {"seek", "done"} = {} /\ Top(s).type # "object" THEN Fail(s)
  ELSE IF s.ptr = Len(text) THEN Fail(s)
  ELSE CASE text[s.ptr + 1] = "/" -> Onward(Onward(With(s, {"line"}, {})))
         [] text[s.ptr + 1] = "*" -> Onward(Onward(With(s, {"block"}, {})))
         [] OTHER -> Fail(s)

AfterRoot(s, b) == IF b = End THEN [s EXCEPT !.out = "ended"] ELSE IF b \in Blanks THEN Onward(s) ELSE Fail(s)

-----------------------------------------------------------------------------
\* A word of the text and the value it stands for.
Keyword(text, s, word, type, bool, fail) ==
  LET n == Len(word)
      v == new_value(s, type, fail)
  IN IF s.ptr + n - 1 > Len(text) \/ SubSeq(text, s.ptr, s.ptr + n - 1) # word THEN Fail(s)
     ELSE IF v.out = "failed" THEN v
     ELSE Onward(Complete([v EXCEPT !.ptr = @ + n - 1, !.vals[v.top].bool = bool]))

NumberFlags == {"negative", "exponent", "sign", "small", "zero"}
NumberChar(b) == isdigit(b) \/ b \in {"+", "-", "e", "E", "."}

StartNumber(text, s, b, fail) ==
  LET v == new_value(s, "integer", fail)
      past == Min({q \in s.ptr..(Len(text) + 1) : q = Len(text) + 1 \/ ~NumberChar(text[q])})
      cleared == [With(v, {}, NumberFlags) EXCEPT !.digits = 0, !.fraction = 0, !.e = 0]
  IN IF v.out = "failed" THEN v
     ELSE IF ~s.first THEN Complete([v EXCEPT !.ptr = past])
     ELSE IF b = "-" THEN Onward(With(cleared, {"negative"}, {}))
     ELSE cleared

StartValue(text, s0, b, fail) ==
  LET s == With(s0, {}, {"seek"}) IN
  CASE b = "{" -> Onward(new_value(s, "object", fail))
    [] b = "[" -> Onward(With(new_value(s, "array", fail), {"seek"}, {}))
    [] b = "\"" -> [Onward(With(new_value(s, "string", fail), {"string"}, {})) EXCEPT !.string = <<>>, !.slen = 0]
    [] b = "t" -> Keyword(text, s, <<"t", "r", "u", "e">>, "boolean", 1, fail)
    [] b = "f" -> Keyword(text, s, <<"f", "a", "l", "s", "e">>, "boolean", 0, fail)
    [] b = "n" -> Keyword(text, s, <<"n", "u", "l", "l">>, "null", 0, fail)
    [] isdigit(b) \/ b = "-" -> StartNumber(text, s, b, fail)
    [] OTHER -> Fail(s)

Seek(text, s, b, fail) ==
  IF b \in Blanks THEN Onward(s)
  ELSE IF b = "]"
  THEN IF s.top # 0 /\ s.vals[s.top].type = "array" THEN Onward(Complete(With(s, {}, {"comma", "seek"}))) ELSE Fail(s)
  ELSE IF "comma" \in s.flags THEN IF b = "," THEN Onward(With(s, {}, {"comma"})) ELSE Fail(s)
  ELSE IF "colon" \in s.flags THEN IF b = ":" THEN Onward(With(s, {}, {"colon"})) ELSE Fail(s)
  ELSE StartValue(text, s, b, fail)

InObject(s, b) ==
  CASE b \in Blanks -> Onward(s)
    [] b = "\"" -> IF "comma" \in s.flags THEN Fail(s)
                   ELSE [Onward(With(s, {"string"}, {})) EXCEPT !.string = <<>>, !.slen = 0]
    [] b = "}" -> Onward(Complete(With(s, {}, {"comma"})))
    [] b = "," -> IF "comma" \in s.flags THEN Onward(With(s, {}, {"comma"})) ELSE Fail(s)
    [] OTHER -> Fail(s)

\* A digit: of the exponent, of the integer while it has room, of the fraction or of what
\* became too large for an integer.
Digit(s, d) ==
  LET t == s.top
      v == Top(s)
      n == [s EXCEPT !.digits = @ + 1]
      zeroed == IF n.digits = 1 /\ d = 0 THEN With(n, {"zero"}, {}) ELSE n
  IN IF "exponent" \in s.flags THEN Onward([With(n, {"sign"}, {}) EXCEPT !.e = @ * 10 + d])
     ELSE IF v.type = "integer"
     THEN IF "zero" \in s.flags THEN Fail(s)
          ELSE IF (IntegerMax - d) \div 10 < v.integer
          THEN [zeroed EXCEPT !.digits = @ - 1, !.vals[t].type = "double", !.vals[t].dbl = <<v.integer, 0>>]
          ELSE Onward([zeroed EXCEPT !.vals[t].integer = @ * 10 + d])
     ELSE IF "decimal" \in s.flags THEN Onward([n EXCEPT !.fraction = @ * 10 + d])
     ELSE Onward([n EXCEPT !.vals[t].dbl = <<@[1] * 10 + d, @[2]>>])

\* What ends a number: its fraction or its exponent is applied, then its sign.
Scaled(s, v) == CASE v.type = "integer" -> v
                  [] "exponent" \in s.flags -> [v EXCEPT !.dbl = <<@[1], @[2] + IF "small" \in s.flags THEN -s.e ELSE s.e>>]
                  [] s.fraction = 0 -> v
                  [] OTHER -> [v EXCEPT !.dbl = <<@[1] * 10^s.digits + s.fraction, -s.digits>>]
WithSign(s, v) == IF "negative" \in s.flags THEN [v EXCEPT !.integer = -@, !.dbl = <<-@[1], @[2]>>] ELSE v

InNumber(s, b) ==
  LET t == s.top
      v == Top(s)
      exponent == "exponent" \in s.flags
      double == v.type = "double"
      scaled == Scaled(s, v)
      real == IF double THEN scaled ELSE [v EXCEPT !.type = "double", !.dbl = <<v.integer, 0>>]
  IN IF isdigit(b) THEN Digit(s, DigitOf(b))
     ELSE IF b \in {"+", "-"} /\ exponent /\ "sign" \notin s.flags
     THEN Onward(With(s, {"sign"} \cup IF b = "-" THEN {"small"} ELSE {}, {}))
     ELSE IF b = "." /\ ~double
     THEN IF s.digits = 0 THEN Fail(s)
          ELSE Onward([With(s, {"decimal"}, {}) EXCEPT !.digits = 0, !.vals[t] = [@ EXCEPT !.type = "double", !.dbl = <<v.integer, 0>>]])
     ELSE IF (exponent \/ double) /\ s.digits = 0 THEN Fail(s)
     ELSE IF ~exponent /\ b \in {"e", "E"}
     THEN Onward([With(s, {"exponent"}, {"zero"}) EXCEPT !.digits = 0, !.vals[t] = real])
     ELSE Complete([s EXCEPT !.vals[t] = WithSign(s, scaled)])

-----------------------------------------------------------------------------
Turn(text, s, fail) ==
  LET b == IF s.ptr > Len(text) THEN End ELSE text[s.ptr] IN
  IF "string" \in s.flags THEN InString(text, s, b)
  ELSE IF s.flags \cap {"line", "block"} # {} THEN InComment(text, s, b)
  ELSE IF b = "/" THEN CommentStart(text, s)
  ELSE IF "done" \in s.flags THEN AfterRoot(s, b)
  ELSE IF "seek" \in s.flags THEN Seek(text, s, b, fail)
  ELSE IF Top(s).type = "object" THEN InObject(s, b)
  ELSE InNumber(s, b)

PassCall == [state : State, text : Seq(STRING), fail : Nat]

PassFrom[s \in PassCall] ==
  IF s.state.out # "" THEN s.state ELSE PassFrom[[s EXCEPT !.state = Turn(s.text, @, s.fail)]]
Pass(text, start, fail) == PassFrom[[state |-> start, text |-> text, fail |-> fail]]

\* What json_free releases, in its order: the children, what held them, the value; "null" is
\* a child looked for where no room was given.
json_free(vals, root) ==
  LET free[v \in 1..Len(vals)] ==
        LET kids == vals[v].kids
            from[k \in 0..Len(kids)] == IF k = 0 THEN <<>> ELSE free[kids[k]] \o from[k - 1]
        IN IF vals[v].type \in {"array", "object"} /\ vals[v].len > Len(kids) THEN << <<"null", v>> >>
           ELSE from[Len(kids)] \o (IF vals[v].filled THEN << <<"room", v>> >> ELSE <<>>) \o << <<"value", v>> >>
  IN IF root = 0 THEN <<>> ELSE free[root]

\* What follows a pass that failed, and the pass that follows one that did not.
Listed(from, vals) == IF from = 0 THEN <<>> ELSE [k \in 1..(Len(vals) - from + 1) |-> <<"value", from + k - 1>>]
Parsed(one, two) ==
  [one |-> one, two |-> two,
   freed |-> IF two.out = "failed" THEN Listed(two.alloc, one.vals) \o json_free(two.vals, two.root) ELSE <<>>]
SecondPass(text, one, fail) ==
  IF one.out = "failed" THEN [one |-> one, two |-> one, freed |-> Listed(one.root, one.vals)]
  ELSE Parsed(one, Pass(text, [one EXCEPT !.first = FALSE, !.ptr = 1, !.flags = {"seek"}, !.top = 0, !.root = 0,
                                          !.alloc = one.root, !.out = ""], fail))
json_parse(text, fail) ==
  SecondPass(text, Pass(text, [first |-> TRUE, ptr |-> 1, flags |-> {"seek"}, vals |-> <<>>, top |-> 0, root |-> 0,
                               alloc |-> 0, string |-> <<>>, slen |-> 0, digits |-> 0, fraction |-> 0, e |-> 0,
                               allocs |-> 0, out |-> ""], fail), fail)

JsonInit == /\ call \in {[text |-> w.text, value |-> w.value, fail |-> n] : w \in Written, n \in Failing}
                        \cup {[text |-> t, value |-> <<"unknown">>, fail |-> 0] : t \in Raw}
            /\ result = <<>>
JsonNext == result = <<>> /\ result' = json_parse(call.text, call.fail) /\ UNCHANGED call
JsonSpec == JsonInit /\ [][JsonNext]_<<call, result>>

-----------------------------------------------------------------------------
\* The value a parsed text stands for; n times ten to the k with the smallest n.
Decimal(d) ==
  LET low[x \in Int \X Int] == IF x[1] # 0 /\ x[1] % 10 = 0 THEN low[<<x[1] \div 10, x[2] + 1>>] ELSE x
  IN IF d[1] = 0 THEN <<0, 0>> ELSE IF d[1] < 0 THEN LET p == low[<<-d[1], d[2]>>] IN <<-p[1], p[2]>> ELSE low[d]
TreeOf(vals, root) ==
  LET tree[v \in 1..Len(vals)] ==
        LET x == vals[v] IN
        CASE x.type = "array" -> <<"array", [k \in DOMAIN x.kids |-> tree[x.kids[k]]]>>
          [] x.type = "object" -> <<"object", [k \in DOMAIN x.kids |-> <<x.keys[k], tree[x.kids[k]]>>]>>
          [] x.type = "string" -> <<"string", x.text>>
          [] x.type = "integer" -> <<"integer", x.integer>>
          [] x.type = "double" -> <<"double", Decimal(x.dbl)>>
          [] x.type = "boolean" -> <<"boolean", x.bool>>
          [] OTHER -> <<"null">>
  IN tree[root]

\* The second pass ends where the first did, over the same values, and writes exactly as many
\* bytes, names and members as the first measured.
PassesAgree(r) ==
  /\ r.two.out = "ended" /\ r.two.ptr = r.one.ptr /\ r.two.alloc = 0 /\ r.two.root = r.one.root
  /\ \A v \in DOMAIN r.two.vals :
       LET x == r.two.vals[v] IN
       /\ x.type = r.one.vals[v].type /\ x.parent = r.one.vals[v].parent
       /\ x.filled => /\ Len(x.text) = (IF x.type = "string" THEN x.room ELSE 0)
                      /\ x.type # "string" => Len(x.kids) = x.room /\ x.names = x.nameroom

Distinct(s) == \A i, j \in DOMAIN s : s[i] = s[j] => i = j
Allocated(r) == {<<"value", v>> : v \in DOMAIN r.two.vals} \cup {<<"room", v>> : v \in {u \in DOMAIN r.two.vals : r.two.vals[u].filled}}

\* What json_parse measures in its first pass is what it writes in its second, for every
\* text; a text written from a value is read as that value; a text that is refused, or that
\* memory runs out for in the first pass, leaves nothing allocated, json_free releases
\* everything once, and nothing is released twice whichever allocation fails.
ParsesAndFrees ==
  result # <<>> =>
    LET r == result IN
    /\ r.one.out = "ended" /\ call.fail = 0 => PassesAgree(r)
    /\ call.value[1] # "unknown" /\ call.fail = 0
         => r.two.out = "ended" /\ TreeOf(r.two.vals, r.two.root) = call.value
    /\ Distinct(r.freed)
    /\ r.one.out = "failed" => {r.freed[i] : i \in DOMAIN r.freed} = Allocated(r)
    /\ r.two.out = "ended" => LET f == json_free(r.two.vals, r.two.root) IN Distinct(f) /\ {f[i] : i \in DOMAIN f} = Allocated(r)

-----------------------------------------------------------------------------
(***************************************************************************)
(* The parser of the device tree: lib/xjil/xjil.c.  The source text is a   *)
(* sequence of lexemes: white space, comments and escapes, which next()    *)
(* drops or replaces, are gone, a word or string is its letters, a number  *)
(* its value.  An int has IntBits bits.                                    *)
(*                                                                         *)
(* Parsing functions take the position of the next lexeme and give the     *)
(* position after what they parsed; position 0 stands for PANIC.           *)
(***************************************************************************)

CONSTANTS IntBits, Word, Number,
          MaxText, MaxExpr \* bounds on the length of the source and of an expression

VARIABLES text,        \* a source text
          meaning,     \* the value its grammar gives it
          rank         \* of its last rule: 1 a factor, 2 a term, 3 an expression, 0 no number

xjilVars == <<text, meaning, rank>>

Bits == 2^IntBits
ToInt(n) == LET m == n % Bits IN IF m >= Bits \div 2 THEN m - Bits ELSE m
ToU64(n) == n % (Bits * Bits)

\* A value: its tag, the flags of type, and the contents each flag stands for.
Nothing == [tag |-> <<>>, type |-> {}, num |-> 0, str |-> <<>>, arr |-> <<>>, obj |-> <<>>]

Lex(t, w, n) == [t |-> t, w |-> w, n |-> n]
Mark(t) == Lex(t, <<>>, 0)

(***************************************************************************)
(* next(): a word that begins "true" or "false", however short, is a       *)
(* Boolean: strncmp compares as many letters as the word has.              *)
(***************************************************************************)

True == <<"t", "r", "u", "e">>
False == <<"f", "a", "l", "s", "e">>

next(l) ==
  IF l.t = "word" THEN IF IsPrefix(l.w, True) \/ IsPrefix(l.w, False) THEN "bool" ELSE "id"
  ELSE l.t

peek(src, p) == IF p > 0 /\ p <= Len(src) THEN next(src[p]) ELSE "end"

expect(src, p, t) == IF p > 0 /\ peek(src, p) = t THEN p + 1 ELSE 0

(***************************************************************************)
(* Expressions: int arithmetic, * and / before + and -, left to right.     *)
(***************************************************************************)

Divide(a, b) == IF b = 0 THEN -1                      \* riscv div
                ELSE LET q == (IF a < 0 THEN -a ELSE a) \div (IF b < 0 THEN -b ELSE b)
                     IN IF (a < 0) = (b < 0) THEN q ELSE -q

Apply(op, a, b) == ToInt(CASE op = "+" -> a + b [] op = "-" -> a - b
                           [] op = "*" -> a * b [] op = "/" -> Divide(a, b))

RECURSIVE parser_factor(_, _), parser_term(_, _), parser_exp(_, _)
parser_factor(src, p) ==
  IF peek(src, p) = "("
  THEN LET e == parser_exp(src, parser_term(src, parser_factor(src, p + 1)))
       IN [e EXCEPT !.pos = expect(src, e.pos, ")")]
  ELSE IF peek(src, p) = "num" THEN [num |-> ToInt(src[p].n), pos |-> p + 1]
  ELSE [num |-> 0, pos |-> 0]

\* The loops of parser_term and parser_exp, with e what is parsed so far.
parser_term(src, e) ==
  LET op == peek(src, e.pos)
      v  == parser_factor(src, e.pos + 1)
  IN IF e.pos = 0 \/ op \notin {"*", "/"} THEN e
     ELSE parser_term(src, [num |-> Apply(op, e.num, v.num), pos |-> v.pos])

parser_exp(src, e) ==
  LET op == peek(src, e.pos)
      v  == parser_term(src, parser_factor(src, e.pos + 1))
  IN IF e.pos = 0 \/ op \notin {"+", "-"} THEN e
     ELSE parser_exp(src, [num |-> Apply(op, e.num, v.num), pos |-> v.pos])

Expression(src, p) == parser_exp(src, parser_term(src, parser_factor(src, p)))

(***************************************************************************)
(* Values                                                                  *)
(***************************************************************************)

\* parser_tag: the position after it, which is p itself when there is none.
AfterTag(src, p) ==
  IF peek(src, p) = "<" THEN expect(src, expect(src, p + 1, "id"), ">") ELSE p

RECURSIVE parser_value(_, _), parser_object(_, _, _), parser_array(_, _, _)

\* The loops, with what was pushed so far.
parser_object(src, p, members) ==
  LET v == parser_value(src, expect(src, p + 1, ":"))
      all == Append(members, [key |-> src[p].w, v |-> v.v])
  IN IF peek(src, p) # "id" THEN [list |-> members, pos |-> expect(src, p, "}")]
     ELSE IF peek(src, v.pos) = "," THEN parser_object(src, v.pos + 1, all)
     ELSE [list |-> all, pos |-> expect(src, v.pos, "}")]

parser_array(src, p, elements) ==
  LET v == parser_value(src, p)
      all == Append(elements, v.v)
  IN IF peek(src, p) = "]" THEN [list |-> elements, pos |-> p + 1]
     ELSE IF peek(src, v.pos) = "," THEN parser_array(src, v.pos + 1, all)
     ELSE [list |-> all, pos |-> expect(src, v.pos, "]")]

parser_value(src, p) ==
  LET q    == AfterTag(src, p)
      type == peek(src, q)
      base == [Nothing EXCEPT !.tag = IF q > p THEN src[p + 1].w ELSE <<>>]
      o    == parser_object(src, q + 1, <<>>)
      both == type = "{" /\ peek(src, o.pos) = "["
      a    == parser_array(src, (IF both THEN o.pos ELSE q) + 1, <<>>)
      e    == Expression(src, q)
      obj  == [base EXCEPT !.type = {"object"}, !.obj = o.list]
  IN IF p = 0 \/ q = 0 THEN [v |-> Nothing, pos |-> 0]
     ELSE CASE both -> [v |-> [obj EXCEPT !.type = {"object", "array"}, !.arr = a.list], pos |-> a.pos]
            [] type = "{" /\ ~both -> [v |-> obj, pos |-> o.pos]
            [] type = "[" -> [v |-> [base EXCEPT !.type = {"array"}, !.arr = a.list], pos |-> a.pos]
            [] type \in {"num", "("} ->
                 [v |-> [base EXCEPT !.type = {"number"}, !.num = ToU64(e.num)], pos |-> e.pos]
            [] type = "str" -> [v |-> [base EXCEPT !.type = {"string"}, !.str = src[q].w], pos |-> q + 1]
            [] type = "bool" ->
                 [v |-> [base EXCEPT !.type = {"bool"}, !.num = IF IsPrefix(src[q].w, True) THEN 1 ELSE 0],
                  pos |-> q + 1]
            [] OTHER -> [v |-> base, pos |-> IF q > p THEN q ELSE 0]

xjil_parse(src) == parser_value(src, 1)

\* xjil_find_object_value: the first member of that name; none for NULL.
xjil_find_object_value(v, key) ==
  LET at == {i \in DOMAIN v.obj : v.obj[i].key = key}
  IN IF at = {} THEN {} ELSE {v.obj[CHOOSE i \in at : \A j \in at : i <= j].v}

\* xjil_read_int and its like.
xjil_read_int(v, key, def) ==
  LET t == {x \in xjil_find_object_value(v, key) : x.type = {"number"}}
  IN IF t = {} THEN def ELSE ToInt((CHOOSE x \in t : TRUE).num)

(***************************************************************************)
(* The grammar: a text and its meaning grow together.                      *)
(***************************************************************************)

Num(n) == [Nothing EXCEPT !.type = {"number"}, !.num = n]
Str(w) == [Nothing EXCEPT !.type = {"string"}, !.str = w]
Bool(b) == [Nothing EXCEPT !.type = {"bool"}, !.num = b]

XjInit ==
  \/ \E n \in Number : text = <<Lex("num", <<>>, n)>> /\ meaning = Num(n) /\ rank = 1
  \/ \E w \in Word : text = <<Lex("str", w, 0)>> /\ meaning = Str(w) /\ rank = 0
  \/ text = <<Lex("word", True, 0)>> /\ meaning = Bool(1) /\ rank = 0
  \/ text = <<Lex("word", False, 0)>> /\ meaning = Bool(0) /\ rank = 0

Fits(n) == -(Bits \div 2) <= n /\ n < Bits \div 2
Signed(n) == IF 2 * n >= Bits * Bits THEN n - Bits * Bits ELSE n

\* Plain arithmetic, for operands whose result an int holds.
Plain(op, a, b) == CASE op = "+" -> a + b [] op = "-" -> a - b [] op = "*" -> a * b
                     [] op = "/" -> (CHOOSE q \in -Bits..Bits :
                          LET r == a - q * b
                          IN r * r < b * b /\ (r = 0 \/ (r < 0) = (a < 0)))

Grow(before, after, v, r) ==
  /\ Len(text) + Len(before) + Len(after) <= IF r > 0 THEN MaxExpr ELSE MaxText
  /\ text' = before \o text \o after /\ meaning' = v /\ rank' = r

Rank(op) == IF op \in {"*", "/"} THEN 2 ELSE 3

Compute(op, a, b, before, after) ==
  /\ ~(op = "/" /\ b = 0) /\ Fits(Plain(op, a, b))
  /\ Grow(before, after, Num(ToU64(Plain(op, a, b))), Rank(op))

Operate(op, n) ==
  \/ /\ rank \in 1..Rank(op)
     /\ Compute(op, Signed(meaning.num), n, <<>>, <<Mark(op), Lex("num", <<>>, n)>>)
  \/ /\ rank \in 1..(Rank(op) - 1)
     /\ Compute(op, n, Signed(meaning.num), <<Lex("num", <<>>, n), Mark(op)>>, <<>>)

Parenthesise == rank > 0 /\ Grow(<<Mark("(")>>, <<Mark(")")>>, meaning, 1)

Tag(w) == /\ meaning.tag = <<>>
          /\ Grow(<<Mark("<"), Lex("word", w, 0), Mark(">")>>, <<>>, [meaning EXCEPT !.tag = w], 0)

Element(comma) ==
  Grow(<<Mark("[")>>, (IF comma THEN <<Mark(",")>> ELSE <<>>) \o <<Mark("]")>>,
       [Nothing EXCEPT !.type = {"array"}, !.arr = <<meaning>>], 0)

Second(w) ==
  Grow(<<Mark("["), Lex("str", w, 0), Mark(",")>>, <<Mark("]")>>,
       [Nothing EXCEPT !.type = {"array"}, !.arr = <<Str(w), meaning>>], 0)

Member(k, l) ==
  Grow(<<Mark("{"), Lex("word", k, 0), Mark(":")>>,
       <<Mark(","), Lex("word", l, 0), Mark(":"), Lex("num", <<>>, 1), Mark("}")>>,
       [Nothing EXCEPT !.type = {"object"},
                       !.obj = <<[key |-> k, v |-> meaning], [key |-> l, v |-> Num(1)]>>], 0)

\* An object with an array behind it is one value.
WithArray ==
  /\ meaning.type = {"object"}
  /\ Grow(<<>>, <<Mark("["), Lex("num", <<>>, 1), Mark("]")>>,
          [meaning EXCEPT !.type = @ \cup {"array"}, !.arr = <<Num(1)>>], 0)

XjNext ==
  \/ \E op \in {"+", "-", "*", "/"}, n \in Number : Operate(op, n)
  \/ Parenthesise
  \/ \E w \in Word : Tag(w) \/ Second(w)
  \/ \E comma \in BOOLEAN : Element(comma)
  \/ \E k, l \in Word : Member(k, l)
  \/ WithArray

XjSpec == XjInit /\ [][XjNext]_xjilVars

(***************************************************************************)
(* Properties                                                              *)
(***************************************************************************)

\* The parser gives every text of the grammar the value it means, to its end and without a
\* panic: * and / before + and -, from left to right, parentheses, tags, members and
\* elements in order; xjil_read_int finds the first member of a name.  Numbers fit an int,
\* and names are not beginnings of true or false.
ParsesWhatIsMeant ==
  LET right(r) ==
        /\ r.pos = Len(text) + 1
        /\ r.v = meaning
        /\ "object" \in meaning.type =>
             \A key \in Word :
               xjil_read_int(r.v, key, -1) =
                 IF meaning.obj[1].key = key
                 THEN IF meaning.obj[1].v.type = {"number"} THEN Signed(meaning.obj[1].v.num) ELSE -1
                 ELSE IF meaning.obj[2].key = key THEN 1 ELSE -1
  IN right(xjil_parse(text))
=============================================================================
