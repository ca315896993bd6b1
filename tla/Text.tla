-------------------------------- MODULE Text --------------------------------
EXTENDS Integers, Sequences, FiniteSets, FiniteSetsExt

(***************************************************************************)
(* The memory and string functions of the programs' C library              *)
(* (user-test/lib/libc/string) and of the kernel (lib/libc/string.c), over *)
(* one small memory: pointers are places in it, so that source and         *)
(* destination may overlap.  Characters: 0 ends a string, Blank is white   *)
(* space, an upper case letter is a lower case one plus Shift.             *)
(***************************************************************************)

CONSTANTS Memories,   \* contents of memory, sequences
          Blank, Shift,
          Counts      \* values of n

VARIABLES call, result

NULL == 0
tolower(c) == IF c > Shift THEN c - Shift ELSE c
isspace(c) == c = Blank

\* The loop `for(; ...; ++p)': the first place from p on where Stop holds.
Scan(Stop(_), p) == LET f[i \in Nat] == IF Stop(i) THEN i ELSE f[i + 1] IN f[p]

(***************************************************************************)
(* Copying.  The loops move one character at a time, m is the memory.      *)
(***************************************************************************)
Up(m, d, s, n) == LET f[k \in 0..n] == IF k = 0 THEN m ELSE [f[k - 1] EXCEPT ![d + k - 1] = f[k - 1][s + k - 1]]
                  IN  f[n]
Down(m, d, s, n) == LET f[k \in 0..n] == IF k = 0 THEN m ELSE [f[k - 1] EXCEPT ![d + n - k] = f[k - 1][s + n - k]]
                    IN  f[n]

memcpy(m, d, s, n) == Up(m, d, s, n)
memmove(m, d, s, n) == IF d <= s THEN Up(m, d, s, n) ELSE Down(m, d, s, n)
KernelMemmove(m, d, s, n) == IF s < d /\ s + n > d THEN Down(m, d, s, n) ELSE Up(m, d, s, n)
memset(m, d, c, n) == [i \in DOMAIN m |-> IF i \in d..(d + n - 1) THEN c ELSE m[i]]

strlen(m, s) == Scan(LAMBDA i : m[i] = 0, s) - s
strnlen(m, s, n) == Scan(LAMBDA i : i = s + n \/ m[i] = 0, s) - s

CopyState == [m : Seq(Int), d : Nat, s : Nat, left : Int]

\* while ((*dest++ = *src++) != 0) ...; at most `left' characters when left is not -1, and
\* what strncat puts behind them.
CopyText[x \in CopyState] ==
  LET y == [x EXCEPT !.m = [x.m EXCEPT ![x.d] = x.m[x.s]], !.d = @ + 1, !.s = @ + 1, !.left = @ - 1]
  IN  IF y.m[x.d] = 0 THEN y.m
      ELSE IF y.left = 0 THEN [y.m EXCEPT ![y.d] = 0]
      ELSE CopyText[y]
Copied(m, d, s, n) == CopyText[[m |-> m, d |-> d, s |-> s, left |-> n]]

strcpy(m, d, s) == Copied(m, d, s, -1)
strcat(m, d, s) == Copied(m, Scan(LAMBDA i : m[i] = 0, d), s, -1)
strncat(m, d, s, n) == IF n = 0 THEN m ELSE Copied(m, Scan(LAMBDA i : m[i] = 0, d), s, n)

strncpy(m, d, s, n) ==
  LET f[k \in 0..n] == IF k = 0 THEN [m |-> m, s |-> s]
                       ELSE LET c == f[k - 1].m[f[k - 1].s]
                            IN  [m |-> [f[k - 1].m EXCEPT ![d + k - 1] = c],
                                 s |-> IF c # 0 THEN f[k - 1].s + 1 ELSE f[k - 1].s]
  IN  f[n].m
KernelStrncpy(m, d, s, n) ==
  LET len == Min({strlen(m, s) + 1, n})
  IN  memset(Up(m, d, s, len), d + len, 0, n - len)
safestrcpy(m, d, s, n) ==
  LET len == Min({strlen(m, s), n - 1})
  IN  IF n <= 0 THEN m ELSE [Up(m, d, s, len) EXCEPT ![d + len] = 0]

strlcpy(m, d, s, n) ==
  LET ret == strlen(m, s)
      len == IF ret >= n THEN n - 1 ELSE ret
  IN  [m |-> IF n = 0 THEN m ELSE [memcpy(m, d, s, len) EXCEPT ![d + len] = 0], ret |-> ret]
\* n -= dsize is unsigned; the calls here have room for a character behind dest's text.
strlcat(m, d, s, n) ==
  LET dsize == strlen(m, d)
      len   == IF strlen(m, s) >= n - dsize THEN n - dsize - 1 ELSE strlen(m, s)
  IN  [m   |-> [memcpy(m, d + dsize, s, len) EXCEPT ![d + dsize + len] = 0],
       ret |-> dsize + strlen(m, s)]

strim(m, s) ==
  LET b == Scan(LAMBDA i : ~isspace(m[i]), s)
      e == b + strlen(m, b) - 1
      f[i \in Nat] == IF i > b /\ isspace(m[i]) THEN f[i - 1] ELSE i
  IN  IF m[b] = 0 THEN [m |-> m, p |-> b] ELSE [m |-> [m EXCEPT ![f[e] + 1] = 0], p |-> b]

(***************************************************************************)
(* Looking                                                                 *)
(***************************************************************************)
memchr(m, s, c, n) == LET i == Scan(LAMBDA j : j = s + n \/ m[j] = c, s) IN IF i = s + n THEN NULL ELSE i
memscan(m, s, c, n) == Scan(LAMBDA j : j = s + n \/ m[j] = c, s)
strchr(m, s, c) == LET i == Scan(LAMBDA j : m[j] \in {c, 0}, s) IN IF m[i] = c THEN i ELSE NULL
strnchr(m, s, n, c) == LET i == Scan(LAMBDA j : j = s + n \/ m[j] \in {c, 0}, s)
                       IN  IF i = s + n \/ m[i] = 0 THEN NULL ELSE i
strrchr(m, s, c) == LET f[i \in Nat] == IF i < s THEN NULL ELSE IF m[i] = c THEN i ELSE f[i - 1]
                    IN  f[s + strlen(m, s)]

In(m, c, set) == \E j \in set..(set + strlen(m, set) - 1) : m[j] = c
strpbrk(m, s, set) == LET i == Scan(LAMBDA j : m[j] = 0 \/ In(m, m[j], set), s)
                      IN  IF m[i] = 0 THEN NULL ELSE i
strcspn(m, s, set) == Scan(LAMBDA j : m[j] = 0 \/ In(m, m[j], set), s) - s
strspn(m, s, set) == Scan(LAMBDA j : m[j] = 0 \/ ~In(m, m[j], set), s) - s
strsep(m, s, set) ==
  LET end == strpbrk(m, s, set)
  IN  IF end = NULL THEN [m |-> m, s |-> NULL] ELSE [m |-> [m EXCEPT ![end] = 0], s |-> end + 1]

memcmp(m, a, b, n) == LET i == Scan(LAMBDA k : k = n \/ m[a + k] # m[b + k], 0)
                      IN  IF i = n THEN 0 ELSE m[a + i] - m[b + i]
strcmp(m, a, b) == LET i == Scan(LAMBDA k : m[a + k] # m[b + k] \/ m[a + k] = 0, 0)
                   IN  m[a + i] - m[b + i]
strncmp(m, a, b, n) == LET i == Scan(LAMBDA k : k = n \/ m[a + k] # m[b + k] \/ m[a + k] = 0, 0)
                       IN  IF i = n THEN 0 ELSE m[a + i] - m[b + i]
strcasecmp(m, a, b) ==
  LET c(k) == tolower(m[a + k])
      d(k) == tolower(m[b + k])
      i == Scan(LAMBDA k : c(k) # d(k) \/ c(k) = 0, 0)
  IN  c(i) - d(i)
\* `--n > 0' is tested behind the first pair: n = 0 compares without a bound.
strncasecmp(m, a, b, n) ==
  LET c(k) == tolower(m[a + k])
      d(k) == tolower(m[b + k])
      i == Scan(LAMBDA k : k + 1 = n \/ c(k) # d(k) \/ c(k) = 0, 0)
  IN  c(i) - d(i)
\* A difference at an end of string is of the characters as they are.
strnicmp(m, a, b, n) ==
  LET c(k) == m[a + k]
      d(k) == m[b + k]
      Ends(k) == c(k) = 0 \/ d(k) = 0
      i == Scan(LAMBDA k : Ends(k) \/ tolower(c(k)) # tolower(d(k)) \/ k = n - 1, 0)
  IN  IF n = 0 THEN 0
      ELSE IF Ends(i) \/ c(i) = d(i) THEN c(i) - d(i) ELSE tolower(c(i)) - tolower(d(i))

strnstr(m, a, b, n) ==
  LET l2 == strlen(m, b)
      i  == Scan(LAMBDA j : n - (j - a) < l2 \/ memcmp(m, j, b, l2) = 0, a)
  IN  IF l2 = 0 THEN a ELSE IF n - (i - a) < l2 THEN NULL ELSE i
strstr(m, a, b) == strnstr(m, a, b, strlen(m, a))

(***************************************************************************)
(* Calls                                                                   *)
(***************************************************************************)
Apart(a, la, b, lb) == a + la <= b \/ b + lb <= a
Ends(m, p) == \E i \in p..Len(m) : m[i] = 0

StringsInit ==
  /\ \E m \in Memories : \E d, s \in DOMAIN m : \E n \in Counts :
       call = [m |-> m, d |-> d, s |-> s, n |-> n]
  /\ Ends(call.m, call.d) /\ Ends(call.m, call.s)
  /\ result = <<>>

\* ghost: whether the call stays inside memory and its operands do not overlap
Fits(op) ==
  LET m == call.m  d == call.d  s == call.s  n == call.n
      ls == strlen(m, s)
      ld == strlen(m, d)
  IN  CASE op \in {"memmove", "kernel memmove"} -> Max({d, s}) + n - 1 <= Len(m)
        [] op = "strcpy" -> d + ls <= Len(m) /\ Apart(d, ls + 1, s, ls + 1)
        [] op \in {"strncpy", "kernel strncpy"} -> d + n - 1 <= Len(m) /\ Apart(d, n, s, ls + 1)
        [] op = "safestrcpy" -> d + n - 1 <= Len(m) /\ Apart(d, n, s, ls + 1)
        [] op = "strlcpy" -> d + n - 1 <= Len(m) /\ Apart(d, n, s, ls + 1)
        [] op = "strlcat" -> d + n - 1 <= Len(m) /\ n > ld /\ Apart(d, n, s, ls + 1)
        [] op = "strcat" -> d + ld + ls <= Len(m) /\ Apart(d, ld + ls + 1, s, ls + 1)
        [] op = "strncat" -> d + ld + n <= Len(m) /\ Apart(d, ld + n + 1, s, ls + 1)

Writers == {"memmove", "kernel memmove", "strcpy", "strncpy", "kernel strncpy", "safestrcpy",
            "strlcpy", "strlcat", "strcat", "strncat"}

Writes(op) ==
  LET m == call.m  d == call.d  s == call.s  n == call.n
  IN  CASE op = "memmove" -> memmove(m, d, s, n)
        [] op = "kernel memmove" -> KernelMemmove(m, d, s, n)
        [] op = "strcpy" -> strcpy(m, d, s)
        [] op = "strncpy" -> strncpy(m, d, s, n)
        [] op = "kernel strncpy" -> KernelStrncpy(m, d, s, n)
        [] op = "safestrcpy" -> safestrcpy(m, d, s, n)
        [] op = "strlcpy" -> strlcpy(m, d, s, n).m
        [] op = "strlcat" -> strlcat(m, d, s, n).m
        [] op = "strcat" -> strcat(m, d, s)
        [] op = "strncat" -> strncat(m, d, s, n)

StringsNext ==
  /\ result = <<>>
  /\ result' = [op \in {o \in Writers : Fits(o)} |-> Writes(op)]
  /\ UNCHANGED call

StringsSpec == StringsInit /\ [][StringsNext]_<<call, result>>

(***************************************************************************)
(* Properties                                                              *)
(***************************************************************************)

\* The text at p as a sequence.
Text(m, p) == SubSeq(m, p, p + strlen(m, p) - 1)
Front(t, n) == SubSeq(t, 1, Min({n, Len(t)}))

\* ghost: what lies at d afterwards, from d on
Expected(op) ==
  LET m == call.m  n == call.n
      src == Text(m, call.s)
      dst == Text(m, call.d)
      Padded == [i \in 1..n |-> IF i <= Len(src) THEN src[i] ELSE 0]
  IN  CASE op \in {"memmove", "kernel memmove"} -> SubSeq(m, call.s, call.s + n - 1)
        [] op = "strcpy" -> Append(src, 0)
        [] op \in {"strncpy", "kernel strncpy"} -> Padded
        [] op \in {"safestrcpy", "strlcpy"} -> IF n = 0 THEN <<>> ELSE Append(Front(src, n - 1), 0)
        [] op = "strlcat" -> Append(Front(dst \o src, n - 1), 0)
        [] op = "strcat" -> Append(dst \o src, 0)
        [] op = "strncat" -> Append(dst \o Front(src, n), 0)

\* Every writer leaves exactly the text it promises at its destination, whatever overlap it
\* allows, and changes nothing else in memory.
WritersExact ==
  \A op \in DOMAIN result :
    LET e == Expected(op)
    IN  result[op] = [i \in DOMAIN call.m |->
                        IF i \in call.d..(call.d + Len(e) - 1) THEN e[i - call.d + 1] ELSE call.m[i]]

Lower(t) == [i \in DOMAIN t |-> tolower(t[i])]
\* ghost: lexicographic comparison of texts with their 0 behind them
Sign(x) == IF x < 0 THEN -1 ELSE IF x > 0 THEN 1 ELSE 0
Order(a, b) ==
  LET x == Append(a, 0)  y == Append(b, 0)
      diff == {i \in DOMAIN x \cap DOMAIN y : x[i] # y[i]}
  IN  IF diff = {} THEN 0 ELSE Sign(x[Min(diff)] - y[Min(diff)])

\* The searching functions find the first (strrchr the last) place there is, and NULL only
\* when there is none; the comparisons order texts as a dictionary does; strsep cuts a text
\* at its first separator.
LookersExact ==
  LET m == call.m  d == call.d  s == call.s  n == call.n
      a == Text(m, d)
      b == Text(m, s)
      Hits == {i \in d..(d + Len(a) - Len(b)) : SubSeq(m, i, i + Len(b) - 1) = b}
      Seps == {i \in d..(d + Len(a) - 1) : \E j \in DOMAIN b : b[j] = m[i]}
      Of(c) == {i \in d..(d + Len(a)) : m[i] = c}
      First1(S) == IF S = {} THEN NULL ELSE Min(S)
  IN  /\ strstr(m, d, s) = IF b = <<>> THEN d ELSE First1(Hits)
      /\ strpbrk(m, d, s) = First1(Seps)
      /\ strcspn(m, d, s) = IF Seps = {} THEN Len(a) ELSE Min(Seps) - d
      /\ \A k \in 1..strspn(m, d, s) : d + k - 1 \in Seps
      /\ d + strspn(m, d, s) \notin Seps
      /\ \A c \in {m[i] : i \in DOMAIN m} :
           /\ strchr(m, d, c) = First1(Of(c))
           /\ strrchr(m, d, c) = IF Of(c) = {} THEN NULL ELSE Max(Of(c))
           /\ strnchr(m, d, n, c) =
                IF c = 0 THEN NULL ELSE First1({i \in Of(c) : i < d + n})
           /\ d + n - 1 <= Len(m) =>
                /\ memchr(m, d, c, n) = First1({i \in d..(d + n - 1) : m[i] = c})
                /\ memscan(m, d, c, n) = Min({i \in d..(d + n - 1) : m[i] = c} \cup {d + n})
      /\ Sign(strcmp(m, d, s)) = Order(a, b)
      /\ Sign(strncmp(m, d, s, n)) = Order(Front(a, n), Front(b, n))
      /\ Sign(strcasecmp(m, d, s)) = Order(Lower(a), Lower(b))
      /\ n > 0 => Sign(strncasecmp(m, d, s, n)) = Order(Lower(Front(a, n)), Lower(Front(b, n)))
      /\ Sign(strnicmp(m, d, s, n)) = Order(Lower(Front(a, n)), Lower(Front(b, n)))
      /\ strnlen(m, d, n) = Min({n, Len(a)})
      /\ LET r == strsep(m, d, s)
         IN  IF Seps = {} THEN r.m = m /\ r.s = NULL
             ELSE Text(r.m, d) = Front(a, Min(Seps) - d) /\ r.s = Min(Seps) + 1

\* strim takes the white space off both ends, and only that.
TrimExact ==
  LET a == Text(call.m, call.d)
      solid == {i \in DOMAIN a : a[i] # Blank}
      r == strim(call.m, call.d)
  IN  Text(r.m, r.p) = IF solid = {} THEN <<>> ELSE SubSeq(a, Min(solid), Max(solid))

StringsRight == WritersExact /\ LookersExact /\ TrimExact

-----------------------------------------------------------------------------
(* The conversions of libc/charset/charset.c between codes, UTF-8 and UTF-16.  A C       *)
(* string is a sequence of bytes that ends with 0; what is written is a sequence without *)
(* the 0.  char is unsigned, as on RISC-V.                                               *)

CONSTANTS Codes,      \* sequences of codes to write
          Rooms,      \* sizes of the buffer they are written to
          Encoded     \* bytes to read, ending with 0

Unbounded == -1
Question == 63

\* How many bytes follow the first one of a character, and the bits it holds.
Lead(c) == CASE c < 128 -> [count |-> 0, code |-> c]
             [] c \in 192..223 -> [count |-> 1, code |-> c % 32]
             [] c \in 224..239 -> [count |-> 2, code |-> c % 16]
             [] c \in 240..247 -> [count |-> 3, code |-> c % 8]
             [] c \in 248..251 -> [count |-> 4, code |-> c % 4]
             [] c \in 252..253 -> [count |-> 5, code |-> c % 2]
             [] OTHER -> [count |-> -1, code |-> Question]
Follows(c) == c \in 128..191

\* i bytes were read, ssz are left, dsz codes have room.
ReadState == [i : Nat, ssz : Int, dsz : Nat, count : 0..5, code : Nat, out : Seq(Nat)]
Eaten(s) == IF s.ssz = Unbounded THEN s ELSE [s EXCEPT !.ssz = @ - 1]
Emit(s, code) == [s EXCEPT !.count = 0, !.code = code, !.out = Append(@, code), !.dsz = @ - 1]

utf8_to_ucs4(dsz, src, at, ssz) ==
  LET from[s \in ReadState] ==
        IF s.ssz = 0 \/ s.dsz = 0 THEN [out |-> s.out, end |-> s.i]
        ELSE LET c == src[s.i + 1]
                 e == [Eaten(s) EXCEPT !.i = @ + 1]
                 code == s.code * 64 + (c % 64)
                 l == Lead(c)
             IN IF s.count > 0
                THEN IF ~Follows(c) THEN from[Emit(s, Question)]
                     ELSE from[IF s.count = 1 THEN Emit(e, code) ELSE [e EXCEPT !.code = code, !.count = @ - 1]]
                ELSE IF c = 0 THEN [out |-> s.out, end |-> e.i]
                ELSE from[IF l.count <= 0 THEN Emit(e, l.code) ELSE [e EXCEPT !.code = l.code, !.count = l.count]]
  IN from[[i |-> at, ssz |-> ssz, dsz |-> dsz, count |-> 0, code |-> 0, out |-> <<>>]]

Surrogate(code) == code \in 55296..57343
\* The bytes of a code, and whether they are written at p where room bytes are before the end.
BytesOfCode(code) ==
  CASE code <= 127 -> <<code>>
    [] code \in 128..2047 -> <<192 + code \div 64, 128 + (code % 64)>>
    [] Surrogate(code) -> <<Question>>
    [] code \in 2048..65535 /\ ~Surrogate(code) ->
         <<224 + code \div 4096, 128 + ((code \div 64) % 64), 128 + (code % 64)>>
    [] OTHER -> <<240 + code \div 262144, 128 + ((code \div 4096) % 64), 128 + ((code \div 64) % 64), 128 + (code % 64)>>

ucs4_to_utf8(src, dsz) ==
  LET destend == dsz - 1
      from[s \in [i : Nat, out : Seq(Nat)]] ==
        IF s.i > Len(src) \/ Len(s.out) >= destend THEN s.out
        ELSE LET b == BytesOfCode(src[s.i]) IN
             IF Len(s.out) + Len(b) - 1 >= destend THEN s.out
             ELSE from[[i |-> s.i + 1, out |-> s.out \o b]]
  IN from[[i |-> 1, out |-> <<>>]]

\* -1: the text is malformed.
utf8_to_utf16(dsz, src) ==
  LET from[s \in ReadState] ==
        IF s.dsz = 0 THEN s.out
        ELSE LET c == src[s.i + 1]
                 l == Lead(c)
                 count == IF s.count > 0 THEN s.count - 1 ELSE l.count
                 code == IF s.count > 0 THEN s.code * 64 + (c % 64) ELSE l.code
                 e == [s EXCEPT !.i = @ + 1, !.count = count, !.code = code]
             IN IF s.count > 0 /\ ~Follows(c) THEN <<-1>>
                ELSE IF s.count = 0 /\ c = 0 THEN s.out
                ELSE IF count < 0 THEN <<-1>>
                ELSE IF count > 0 THEN from[e]
                ELSE IF code < 65536 THEN from[[e EXCEPT !.out = Append(@, code), !.dsz = @ - 1]]
                ELSE IF s.dsz < 2 THEN s.out
                ELSE from[[e EXCEPT !.out = @ \o <<55296 + (((code - 65536) \div 4096) % 4096), 56320 + ((code - 65536) % 4096)>>,
                                    !.dsz = @ - 2]]
  IN from[[i |-> 0, ssz |-> Unbounded, dsz |-> dsz, count |-> 0, code |-> 0, out |-> <<>>]]

utf16_to_utf8(src) ==
  LET from[s \in [i : Nat, high : Nat, out : Seq(Nat)]] ==
        IF s.i > Len(src) THEN s.out
        ELSE LET code == src[s.i]
                 pair == (s.high - 55296) * 4096 + (code - 56320) + 65536
             IN IF s.high # 0
                THEN from[[i |-> s.i + 1, high |-> 0,
                           out |-> s.out \o IF code \in 56320..57343 THEN BytesOfCode(pair) ELSE <<Question>>]]
                ELSE IF code \in 55296..56319 THEN from[[s EXCEPT !.i = @ + 1, !.high = code]]
                ELSE from[[i |-> s.i + 1, high |-> 0, out |-> s.out \o BytesOfCode(code)]]
  IN from[[i |-> 1, high |-> 0, out |-> <<>>]]

\* The bytes counted first, and the text written to a buffer of that size.
ucs4_to_utf8_alloc(src) ==
  LET count[n \in 0..Len(src)] == IF n = 0 THEN 1 ELSE count[n - 1] + Len(BytesOfCode(src[n]))
  IN [cnt |-> count[Len(src)], text |-> ucs4_to_utf8(src, count[Len(src)])]
utf8_to_ucs4_alloc(src) == utf8_to_ucs4(Len(src) - 1, src, 0, Unbounded).out

utf8_to_code(src, p) ==
  LET b(k) == src[p + k + 1]
      n == CASE b(0) >= 240 -> 3 [] b(0) \in 224..239 -> 2 [] b(0) \in 192..223 -> 1 [] OTHER -> 0
      code == CASE n = 3 -> (((b(0) % 8) * 64 + (b(1) % 64)) * 64 + (b(2) % 64)) * 64 + (b(3) % 64)
                [] n = 2 -> ((b(0) % 16) * 64 + (b(1) % 64)) * 64 + (b(2) % 64)
                [] n = 1 -> (b(0) % 32) * 64 + (b(1) % 64)
                [] OTHER -> b(0)
  IN [code |-> code, p |-> p + n + 1]

utf8_is_valid(src, size) ==
  LET from[s \in [i : Nat, size : Int, count : 0..3]] ==
        IF s.size = 0 THEN TRUE
        ELSE LET c == src[s.i + 1]
                 e == [s EXCEPT !.i = @ + 1, !.size = IF @ = Unbounded THEN @ ELSE @ - 1]
                 l == Lead(c)
             IN IF s.count > 0 THEN Follows(c) /\ from[[e EXCEPT !.count = @ - 1]]
                ELSE IF c = 0 THEN TRUE
                ELSE l.count \in 0..3 /\ from[[e EXCEPT !.count = l.count]]
  IN from[[i |-> 0, size |-> size, count |-> 0]]

utf8_strlen(src) == Cardinality({i \in 1..(Len(src) - 1) : ~Follows(src[i])})

-----------------------------------------------------------------------------
\* All codes of a text, one call for each.
OneByOne(src) ==
  LET from[s \in [p : Nat, out : Seq(Nat)]] ==
        LET r == utf8_to_ucs4(1, src, s.p, Unbounded) IN
        IF r.out = <<>> THEN s.out ELSE from[[p |-> r.end, out |-> s.out \o r.out]]
  IN from[[p |-> 0, out |-> <<>>]]
Walked(src) ==
  LET from[s \in [p : Nat, out : Seq(Nat)]] ==
        IF src[s.p + 1] = 0 THEN s.out
        ELSE LET r == utf8_to_code(src, s.p) IN from[[p |-> r.p, out |-> Append(s.out, r.code)]]
  IN from[[p |-> 0, out |-> <<>>]]

CharsetInit == call \in [codes : Codes, room : Rooms] \cup [bytes : Encoded] /\ result = <<>>
CharsetNext ==
  /\ result = <<>>
  /\ result' = IF "codes" \in DOMAIN call
               THEN LET all == ucs4_to_utf8_alloc(call.codes)
                        s == Append(all.text, 0)
                    IN [text |-> ucs4_to_utf8(call.codes, call.room), all |-> all.text, cnt |-> all.cnt,
                        back |-> utf8_to_ucs4_alloc(s), walked |-> Walked(s), len |-> utf8_strlen(s),
                        valid |-> utf8_is_valid(s, Unbounded),
                        over16 |-> utf16_to_utf8(utf8_to_utf16(Len(s), s))]
               ELSE [codes |-> utf8_to_ucs4_alloc(call.bytes), single |-> OneByOne(call.bytes),
                     valid |-> utf8_is_valid(call.bytes, Unbounded), utf16 |-> utf8_to_utf16(Len(call.bytes), call.bytes)]
  /\ UNCHANGED call
CharsetSpec == CharsetInit /\ [][CharsetNext]_<<call, result>>

-----------------------------------------------------------------------------
\* A character's bytes as UTF-8 defines them: the fewest that hold its bits.
Utf8(code) ==
  LET n == Min({k \in 1..4 : code < CASE k = 1 -> 128 [] k = 2 -> 2048 [] k = 3 -> 65536 [] OTHER -> 2097152})
      mark == <<0, 192, 224, 240>>
  IN [k \in 1..n |-> IF k = 1 THEN mark[n] + code \div 64^(n - 1) ELSE 128 + ((code \div 64^(n - k)) % 64)]
Joined(seqs) == LET to[n \in 0..Len(seqs)] == IF n = 0 THEN <<>> ELSE to[n - 1] \o seqs[n] IN to[Len(seqs)]
Shown(codes) == [i \in DOMAIN codes |-> IF Surrogate(codes[i]) THEN Question ELSE codes[i]]
LowFits(code) == code < 65536 \/ (code - 65536) % 4096 < 1024

WrittenRight(codes, room, r) ==
  LET bytes == [i \in DOMAIN codes |-> Utf8(Shown(codes)[i])] IN
  /\ r.all = Joined(bytes) /\ r.cnt = Len(r.all) + 1
  /\ \E k \in 0..Len(codes) : /\ r.text = Joined(SubSeq(bytes, 1, k))
                              /\ Len(r.text) + 1 <= room
                              /\ k = Len(codes) \/ Len(r.text) + Len(bytes[k + 1]) + 1 > room
  /\ r.back = Shown(codes) /\ r.walked = r.back /\ r.len = Len(codes) /\ r.valid
  /\ (\A i \in DOMAIN codes : LowFits(codes[i])) => r.over16 = r.all

\* Codes are written in the fewest bytes, whole characters only and never past the buffer
\* with its final 0, the buffer ucs4_to_utf8_alloc asks for is exactly enough, and what is
\* written is read back, counted and accepted (through UTF-16 too, where the second half has
\* room for the character's bits).  Reading bytes code by code gives what reading them at
\* once gives, and a text that utf8_is_valid accepts has as many codes as utf8_strlen counts
\* and can be turned into UTF-16.
CharsetsKept ==
  result # <<>> =>
    IF "codes" \in DOMAIN call THEN WrittenRight(call.codes, call.room, result)
    ELSE /\ result.codes = result.single
         /\ result.valid => Len(result.codes) = utf8_strlen(call.bytes) /\ result.utf16 # <<-1>>
=============================================================================
