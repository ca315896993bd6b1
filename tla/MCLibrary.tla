----------------------------- MODULE MCLibrary -----------------------------
(***************************************************************************)
(* The containers and algorithms of the kernel's lib/ and of the user      *)
(* library, one in each behaviour; the others do not move.  The parts that *)
(* are one function call share the call and result of Crypto.              *)
(***************************************************************************)
EXTENDS Crypto

VARIABLES which,                                      \* the part that moves
          buffer, in, out, fifo,                      \* of Containers: the ring,
          table, recent, curr_bytes, stored,          \* the cache,
          hash, list, value, count,                   \* the map
          nodes, values,                              \* and the radix tree
          tree, order,                                \* and the tree of timers
          rest, parts, maxlev, input, sorting,        \* of Sorting: lsort
          given, array, calls,                        \* and qsort
          text,                                       \* of Numbers
          source, meaning, rank,                      \* of Parsers
          mem, lists, ready,                          \* of List: lists with two ends
          hmem, chains, fakes,                        \* and with one
          classes, devices, named, booting            \* of Class

fifoVars == <<buffer, in, out, fifo>>
lruVars == <<table, recent, curr_bytes, stored>>
hmapVars == <<hash, list, value, count>>
radixVars == <<nodes, values>>
rbVars == <<tree, order>>
lsortVars == <<rest, parts, maxlev, input, sorting>>
qsortVars == <<given, array, calls>>
xjilVars == <<source, meaning, rank>>
listVars == <<mem, lists, ready>>
hlistVars == <<hmem, chains, fakes>>
classVars == <<classes, devices, named, booting>>
callVars == <<call, result>>
containerVars == <<fifoVars, lruVars, hmapVars, radixVars, rbVars>>
sortVars == <<lsortVars, qsortVars>>
objectVars == <<listVars, hlistVars, classVars>>
readVars == <<text, xjilVars>>
libVars == <<which, callVars, containerVars, sortVars, objectVars, readVars>>

(***************************************************************************)
(* Containers and sorts                                                    *)
(***************************************************************************)

\* A ring of four bytes whose counters wrap at 16, so that they wrap more than once; five
\* names, so that the table of two slots doubles twice and halves again; items of which one
\* never fits the cache, two fill it, or five do; a radix tree of three levels of two slots.
MCHmapKey == {1, 3, 5, 6, 8}
MCHmapHash == [k \in MCHmapKey |-> (5 * k) % 8]
MCLruHash == [k \in 1..4 |-> k % 2]
\* Eight timers, two of which expire together.
Expires == [t \in 1..8 |-> IF t < 7 THEN t ELSE t - 1]
Held == INSTANCE Containers WITH
          Size <- 4, Wrap <- 16, MaxPut <- 4, Byte <- {"x", "y"},
          Key <- MCHmapKey, Hash <- MCHmapHash, MinSize <- 2, Value <- {"u"}, n <- count,
          LruKey <- 1..4, LruHash <- MCLruHash, ItemSize <- {1, 2, 3, 6}, MaxBytes <- 5,
          Bits <- 1, Levels <- 3, RadixPage <- {"p"},
          Node <- 1..8, expires <- Expires

\* Lists of up to nine elements, more than the two parts below the last level hold; all
\* arrays of up to seven elements, and longer ones for the medians of three and nine.
Patterned == {[i \in 1..m |-> (i * k) % 5] : m \in {9, 16, 41, 48}, k \in 1..12}
MCArrays == UNION {[1..m -> 1..3] : m \in 0..7} \cup Patterned
Sorts == INSTANCE Sorting WITH SortKey <- {1, 2}, MaxLen <- 9, MaxLevel <- 1, list <- rest,
                               part <- parts, Input <- MCArrays

(***************************************************************************)
(* Numbers, formats and texts                                              *)
(***************************************************************************)

\* Integers of six bits; space, minus, plus, another character, and digits.  Divisions of
\* one byte by every kind of divisor and of two bytes around the powers of two.  The days
\* around the ends of the leap cycles and of the fast path.
MCOperands == ({1} \X (0..255) \X {1, 2, 3, 7, 10, 16, 100, 127, 128, 129, 254, 255})
         \cup ({2} \X {0, 1, 254, 255, 256, 257, 16383, 16384, 43690} \X {1, 3, 10, 255, 256, 257, 16384})
MCYears == {1600, 1601, 1700, 1899, 1900, 1901, 1904, 1969, 1970, 1972, 1999, 2000, 2001, 2004,
            2038, 2039, 2100, 2101, 2104}
MCFormats == {<< <<"%", c>> >> : c \in {"U", "W", "V", "j", "I"}}
       \cup {<< <<"%", "c">>, <<"-", 0>>, <<"%", "">> >>}
Numeric == INSTANCE Numbers WITH
             Width <- 6, Char <- {-1, -2, -3, -4, 0, 1, 2, 3, 9, 14, 33},
            Base <- {0, 2, 8, 10, 16, 36}, MaxText <- 4, MaxPower <- 30,
            Operands <- MCOperands, Years <- MCYears, Offsets <- {-13, -12, -1, 11, 12, 24},
            Seconds <- {0, 86399}, Formats <- MCFormats, Sizes <- {1, 3, 27, 40}

\* Up to two flags, a width and a precision of each kind, and integers of three to seven
\* bits; what is scanned back is up to three items, cut short anywhere.
MCBits == (-2 :> 3) @@ (-1 :> 4) @@ (0 :> 5) @@ (1 :> 7) @@ (2 :> 7)
MCFlags == {<<>>, <<"-", "0">>, <<"+", " ">>, <<"0", "#">>, <<"'", "+">>} \cup {<<f>> : f \in {"-", "+", "'", " ", "#", "0"}}
MCWidths == {<< <<>>, <<>> >>, << <<"7">>, <<>> >>, << <<"*">>, <<-6>> >>}
MCPrecs == {<< <<>>, <<>> >>, << <<".">>, <<>> >>, << <<".", "4">>, <<>> >>, << <<".", "*">>, <<-3>> >>}
MCIntegers == {<<m \o <<ch>>, v>> : m \in {<<>>, <<"h", "h">>}, ch \in {"d", "x", "X", "o"}, v \in {0, 64, 127}}
         \cup {<< <<"p">>, 90>>, << <<"u">>, 127>>, << <<"l", "d">>, 64>>}
MCReals == {<< <<ch>>, v>> : ch \in {"e", "f", "g"}, v \in {0, 4, 999, 9996, -12345, 999500}}
MCPrinted == {<< <<"s">>, <<"a", "b", "c", "d", "e">> >>, << <<"c">>, <<"z">> >>}
MCItems == {<< <<"d">>, <<"d">>, v>> : v \in {0, 27}} \cup {<< <<"l", "d">>, <<"l", "i">>, v>> : v \in {64, 120}}
      \cup {<< <<"#", "x">>, <<"x">>, v>> : v \in {0, 26}}
      \cup {<< <<"#", "x">>, <<"i">>, 26>>, << <<"#", "o">>, <<"i">>, 26>>, << <<"0", "4", "d">>, <<"4", "d">>, 9>>,
            << <<"s">>, <<"s">>, <<"a", "1">> >>, << <<"s">>, <<"[", "a", "b", "-", "]">>, <<"b", "-", "a">> >>,
            << <<"c">>, <<"c">>, <<"z">> >>, << <<"d">>, <<"*", "d">>, 31>>}
Formatted == INSTANCE Format WITH
               Bits <- MCBits, Flags <- MCFlags, Widths <- MCWidths, Precs <- MCPrecs,
               Integers1 <- MCIntegers, Reals <- MCReals, Texts <- MCPrinted, Sizes <- {0, 5, 40},
               Items <- MCItems, Between <- <<" ">>, MaxItems <- 3

\* Memories of five and six characters; codes at both ends of each length of UTF-8.
MCMemories == {Append(t, 0) : t \in [1..4 -> 0..2]} \cup {<<1, 2, 0>> \o t : t \in [1..3 -> {0, 1}]}
MCCodes == UNION {[1..m -> {65, 127, 128, 2047, 2048, 55296, 57343, 65535, 65536, 66560, 1114111}] : m \in 0..3}
MCEncoded == {Append(s, 0) : s \in UNION {[1..m -> {65, 63, 128, 191, 194, 226, 240, 248, 255}] : m \in 0..4}}
Strings == INSTANCE Text WITH Memories <- MCMemories, Blank <- 1, Shift <- 2, Counts <- 0..3,
                            Codes <- MCCodes, Rooms <- {1, 3, 4, 6, 9, 20}, Encoded <- MCEncoded

\* Numbers of five bits, texts of twelve lexemes with expressions of seven.
MCWord == {<<"a">>, <<"t", "o">>}

\* Texts of values nested twice, with blanks and comments, and every text of three characters.
MCOrd == ("a" :> 97) @@ ("u" :> 117) @@ ("b" :> 98) @@ ("0" :> 48) @@ ("1" :> 49) @@ ("-" :> 45) @@ ("\\" :> 92)
      @@ ("\"" :> 34) @@ ("[" :> 91) @@ ("]" :> 93) @@ ("{" :> 123) @@ ("}" :> 125) @@ (":" :> 58) @@ ("," :> 44)
      @@ ("/" :> 47) @@ ("*" :> 42) @@ (" " :> 32) @@ ("e" :> 101) @@ ("." :> 46) @@ ("n" :> 110) @@ ("\n" :> 10)
      @@ ("5" :> 53) @@ ("d" :> 100) @@ ("8" :> 56) @@ ("3" :> 51) @@ ("c" :> 99)
Shows(t, v) == [text |-> t, value |-> v]
Overlarge == Shows(<<"1", "5", "5">>, <<"double", <<155, 0>> >>)
Atoms == {Shows(<<"0">>, <<"integer", 0>>), Shows(<<"-", "1", "0">>, <<"integer", -10>>), Overlarge,
          Shows(<<"5", ".", "0", "3">>, <<"double", <<503, -2>> >>),
          Shows(<<"-", "1", ".", "5", "e", "-", "1">>, <<"double", <<-15, -2>> >>),
          Shows(<<"t", "r", "u", "e">>, <<"boolean", 1>>), Shows(<<"n", "u", "l", "l">>, <<"null">>),
          Shows(<<"\"", "a", "\\", "n", "\"">>, <<"string", <<97, 10>> >>),
          Shows(<<"\"", "\\", "u", "0", "0", "a", "1", "\"">>, <<"string", <<194, 161>> >>),
          Shows(<<"\"", "\\", "u", "d", "8", "0", "1", "\\", "u", "d", "c", "0", "3", "\"">>,
                  <<"string", <<240, 144, 144, 131>> >>)}
Gap == {<<>>, <<" ">>, <<"/", "*", "*", "*", "/">>, <<"/", "/", "a", "\n">>}
Arrays(D) ==
  {Shows(<<"[">> \o g \o <<"]">>, <<"array", <<>> >>) : g \in Gap}
  \cup {Shows(<<"[">> \o g \o a.text \o <<"]">>, <<"array", <<a.value>> >>) : a \in D, g \in Gap}
  \cup {Shows(<<"[">> \o a.text \o <<",">> \o b.text \o <<"]">>, <<"array", <<a.value, b.value>> >>) :
          a \in D, b \in D \ {Overlarge}}
Names == {Shows(<<"\"", "b", "\"">>, <<98>>), Shows(<<"\"", "\"">>, <<>>)}
Member(k, g, a) == k.text \o g \o <<":">> \o a.text
Objects(D) ==
  {Shows(<<"{">> \o g \o <<"}">>, <<"object", <<>> >>) : g \in Gap}
  \cup {Shows(<<"{">> \o Member(k, g, a) \o <<"}">>, <<"object", << <<k.value, a.value>> >> >>) :
          k \in Names, a \in D, g \in Gap}
  \cup {Shows(<<"{">> \o Member(k, <<>>, a) \o <<",">> \o Member(k, <<>>, b) \o <<"}">>,
                <<"object", << <<k.value, a.value>>, <<k.value, b.value>> >> >>) :
          k \in Names, a \in D, b \in D \ {Overlarge}}
OfLength(S) == {a \in Atoms : Len(a.text) \in S}
MCWritten == Atoms \cup Arrays(OfLength({1, 4})) \cup Objects(Atoms) \cup Arrays(Arrays(OfLength({3, 5})))
             \cup Objects(Arrays(OfLength({5})))
MCRaw == UNION {[1..m -> {"[", "]", "{", "}", "\"", "\\", "u", ",", ":", "1", "0", ".", "e", "-", "/", "*", " "}] : m \in 0..3}
Parsed == INSTANCE Parsers WITH
            Word <- MCWord, IntBits <- 5, Number <- {2, 3}, MaxText <- 12, MaxExpr <- 7, text <- source,
            Ord <- MCOrd, UintMax <- 4, IntegerMax <- 127, Written <- MCWritten, Raw <- MCRaw, Failing <- 0..6

(***************************************************************************)
(* Codes, digests, ciphers and curves                                      *)
(***************************************************************************)

MCData == UNION {[1..m -> {0, 90, 255}] : m \in 0..4} \cup {[i \in 1..m |-> (i * 71) % 256] : m \in {8, 9, 16, 17}}
     \cup {<<b>> : b \in 0..255} \cup {<<80, 108, 97, 105, 110, 116, 101, 120, 116>>}
MCTexts == {<<c>> \o t : c \in 0..255, t \in {<<>>, <<65, 66, 61>>}}
      \cup [1..4 -> {65, 122, 47, 61}] \cup [1..3 -> {48, 58}]
MCKeys128 == {[i \in 0..15 |-> i], [i \in 0..15 |-> (i * 89 + 43) % 256]}
MCKeys256 == {[i \in 0..31 |-> i]}
MCBlocks == {[i \in 0..15 |-> 17 * i], [i \in 0..15 |-> 0]}
MCCodeKeys == {<<75, 101, 121>>}
MCChains == [in : {32}, out : {32, 96}, blks : {0, 1, 3}]
MCStreams == {[offset |-> o, bytes |-> b] : o \in {0, 32, 16 * 255 + 7, 16 * 65535 + 15}, b \in {9, 26, 40}}
        \cup {[offset |-> 0, bytes |-> 0]}
\* Digits of two bits, so that eight bits take four; a curve of 197 points over 199 numbers.
MCLefts == 0..255
MCRights == {0, 1, 3, 64, 127, 128, 197, 198, 199, 255}
MCG == <<1, 2>>

(***************************************************************************)
(* Lists and classes                                                       *)
(***************************************************************************)

Links == INSTANCE List WITH Entry <- {1, 2, 3}, Head1 <- {11, 12}, NULL <- 0
Objs == INSTANCE Class WITH Class <- 0..3, Object_t <- 2, Device_t <- 0, Size <- {0, 2},
          Name <- {"uart", "disk"}, Anonymous <- "none", MaxDevices <- 2, table <- classes

(***************************************************************************)
(* Composition                                                             *)
(***************************************************************************)

Unused == call = <<>> /\ result = <<>>
CallInit ==
  \/ which = "div" /\ Numeric!DivInit
  \/ which = "calendar" /\ Numeric!CalendarInit
  \/ which = "printf" /\ Formatted!PfInit
  \/ which = "scanf" /\ Formatted!ScInit
  \/ which = "strings" /\ Strings!StringsInit
  \/ which = "charset" /\ Strings!CharsetInit
  \/ which = "codes" /\ CodeInit
  \/ which = "sha" /\ ShaInit
  \/ which = "aes" /\ AesInit
  \/ which = "vli" /\ VliInit
  \/ which = "ecdsa" /\ EcInit
  \/ which = "json" /\ Parsed!JsonInit
  \/ which \in {"fifo", "lru", "hmap", "radix", "rbtree", "lsort", "qsort", "strto", "xjil", "list", "hlist", "class"}
     /\ Unused

LibInit ==
  /\ CallInit
  /\ Held!FifoInit /\ Held!LruInit /\ Held!HmapInit /\ Held!RadixInit /\ Held!RbInit /\ Numeric!StrInit
  /\ IF which = "lsort" THEN Sorts!LsortInit
     ELSE rest = <<>> /\ parts = <<>> /\ maxlev = 0 /\ input = <<>> /\ sorting = TRUE
  /\ IF which = "qsort" THEN Sorts!QsInit ELSE given = <<>> /\ array = <<>> /\ calls = 0
  /\ IF which = "xjil" THEN Parsed!XjInit ELSE source = <<>> /\ meaning = <<>> /\ rank = 0
  /\ Links!ListInit /\ Links!HlistInit
  /\ IF which = "class" THEN Objs!Init
     ELSE classes = <<>> /\ devices = <<>> /\ named = <<>> /\ booting = "done"

ContainersNext ==
  \/ which = "fifo" /\ Held!FifoNext /\ UNCHANGED <<lruVars, hmapVars, radixVars, rbVars>>
  \/ which = "lru" /\ Held!LruNext /\ UNCHANGED <<fifoVars, hmapVars, radixVars, rbVars>>
  \/ which = "hmap" /\ Held!HmapNext /\ UNCHANGED <<fifoVars, lruVars, radixVars, rbVars>>
  \/ which = "radix" /\ Held!RadixNext /\ UNCHANGED <<fifoVars, lruVars, hmapVars, rbVars>>
  \/ which = "rbtree" /\ Held!RbNext /\ UNCHANGED <<fifoVars, lruVars, hmapVars, radixVars>>

SortsNext ==
  \/ which = "lsort" /\ Sorts!LsortNext /\ UNCHANGED qsortVars
  \/ which = "qsort" /\ Sorts!qsort /\ UNCHANGED lsortVars

CallNext ==
  \/ which = "div" /\ Numeric!DivNext
  \/ which = "calendar" /\ Numeric!CalendarNext
  \/ which = "printf" /\ Formatted!PfNext
  \/ which = "scanf" /\ Formatted!ScNext
  \/ which = "strings" /\ Strings!StringsNext
  \/ which = "charset" /\ Strings!CharsetNext
  \/ which = "codes" /\ CodeNext
  \/ which = "sha" /\ ShaNext
  \/ which = "aes" /\ AesNext
  \/ which = "vli" /\ VliNext
  \/ which = "ecdsa" /\ EcNext
  \/ which = "json" /\ Parsed!JsonNext

ObjectsNext ==
  \/ which = "list" /\ Links!ListNext /\ UNCHANGED <<hlistVars, classVars>>
  \/ which = "hlist" /\ Links!HlistNext /\ UNCHANGED <<listVars, classVars>>
  \/ which = "class" /\ Objs!Next /\ UNCHANGED <<listVars, hlistVars>>

LibNext ==
  /\ UNCHANGED which
  /\ \/ ContainersNext /\ UNCHANGED <<callVars, sortVars, objectVars, readVars>>
     \/ SortsNext /\ UNCHANGED <<callVars, containerVars, objectVars, readVars>>
     \/ CallNext /\ UNCHANGED <<containerVars, sortVars, objectVars, readVars>>
     \/ ObjectsNext /\ UNCHANGED <<callVars, containerVars, sortVars, readVars>>
     \/ /\ which = "strto" /\ Numeric!StrNext
        /\ UNCHANGED <<callVars, containerVars, sortVars, objectVars, xjilVars>>
     \/ /\ which = "xjil" /\ Parsed!XjNext
        /\ UNCHANGED <<callVars, containerVars, sortVars, objectVars, text>>

LibSpec == LibInit /\ [][LibNext]_libVars

(***************************************************************************)
(* Properties                                                              *)
(***************************************************************************)

\* The hash map and the radix tree are maps: each call changes what a search finds at one
\* key only, through every growth of the table and every call that fails half way.
MapsKeepPromise == Held!MapKeepsPromise /\ Held!PagesKeepPromise

\* The ring is a queue across its end and the wrap of its counters; table, list and count
\* of the hash map describe the same entries; the chains, list and byte count of the cache
\* describe the same items; the timers' tree lists them by expiry, equal ones by arrival,
\* in both directions, and is balanced after every insertion and erasure.  The pointers of
\* every linked list describe the sequence meant, in both directions; an object is cast to
\* its classes only, torn down through all of them, and found by the name it has.
ContainersExact ==
  /\ which = "fifo" => Held!RingIsQueue
  /\ which = "hmap" => Held!ThreeViewsAgree
  /\ which = "lru" => Held!CacheExact
  /\ which = "rbtree" => Held!TreeIsQueue /\ Held!Balanced
  /\ which = "list" => Links!ListsLinked
  /\ which = "hlist" => Links!HlistsLinked
  /\ which = "class" => Objs!ObjectsSound

\* lru_set gives up the oldest items only, and none that would have had room.
EvictsOldestOnlyProp == [][Held!EvictsOldestOnly]_lruVars

\* What the library reads from text and writes to it is what is meant: strtol and its kin
\* return the number spelled or report that it is out of range, vsscanf reads back what
\* vsnprintf wrote as C says and writes no byte past its buffer, json_parse and the device
\* tree's parser give every text of their grammar its value, and the calendar, the string
\* functions, the character codes and the division agree with their definitions.
TextRight ==
  /\ which = "strto" => Numeric!NumbersExact
  /\ which = "div" => Numeric!QuotientRight
  /\ which = "calendar" => Numeric!CalendarRight
  /\ which = "printf" => Formatted!PrintsWhatIsMeant
  /\ which = "scanf" => Formatted!ScansBack
  /\ which = "strings" => Strings!StringsRight
  /\ which = "charset" => Strings!CharsetsKept
  /\ which = "xjil" => Parsed!ParsesWhatIsMeant
  /\ which = "json" => Parsed!ParsesAndFrees

\* Checksums, base64, RC4, SHA-1, SHA-256 and AES give what their definitions give, however
\* the message is cut into pieces and wherever the chain of blocks lies; the long integers
\* are exact, two parties agree on a key, and a signature is accepted for what was signed.
\* lsort sorts stably whatever the length of the list, qsort sorts, and bsearch finds
\* exactly what is there.
AlgorithmsRight ==
  /\ which = "codes" => CodesExact
  /\ which = "sha" => DigestsRight
  /\ which = "aes" => CiphersRight
  /\ which = "vli" => ArithmeticExact
  /\ which = "ecdsa" => KeysAndSignaturesRight
  /\ which = "lsort" => Sorts!SortsStably
  /\ which = "qsort" => Sorts!SortsAndFinds
=============================================================================
