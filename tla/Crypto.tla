------------------------------- MODULE Crypto -------------------------------
EXTENDS Integers, Sequences, FiniteSetsExt, Bitwise, SequencesExt, TLC

(* Unsigned words of 32 bits, as pairs of halves of 16 bits (high, low), and their      *)
(* operators.  Or and exclusive or follow from and: a + b = (a | b) + (a & b).          *)

Half16 == 65536
NibbleAnd == [a \in 0..15 |-> [b \in 0..15 |->
               LET bit(k) == 2^k * ((a \div 2^k) % 2) * ((b \div 2^k) % 2) IN bit(0) + bit(1) + bit(2) + bit(3)]]
And16(a, b) == LET nibble(k) == NibbleAnd[(a \div k) % 16][(b \div k) % 16] * k
               IN nibble(1) + nibble(16) + nibble(256) + nibble(4096)
Xor16(a, b) == a + b - 2 * And16(a, b)

WordAnd(a, b) == <<And16(a[1], b[1]), And16(a[2], b[2])>>
WordXor(a, b) == <<Xor16(a[1], b[1]), Xor16(a[2], b[2])>>
WordXor3(a, b, c) == WordXor(a, WordXor(b, c))
WordOr(a, b) == <<a[1] + b[1] - And16(a[1], b[1]), a[2] + b[2] - And16(a[2], b[2])>>
WordNot(a) == <<Half16 - 1 - a[1], Half16 - 1 - a[2]>>
WordAdd(a, b) == <<(a[1] + b[1] + ((a[2] + b[2]) \div Half16)) % Half16, (a[2] + b[2]) % Half16>>

\* Right by fewer than 16 bits, and around by any number of them.
Shr(a, n) == <<a[1] \div 2^n, (a[2] \div 2^n) + ((a[1] * 2^(16 - n)) % Half16)>>
Ror(a, n) == LET b == IF n >= 16 THEN <<a[2], a[1]>> ELSE a
                 k == n % 16
             IN IF k = 0 THEN b
                ELSE <<(b[1] \div 2^k) + ((b[2] % 2^k) * 2^(16 - k)), (b[2] \div 2^k) + ((b[1] % 2^k) * 2^(16 - k))>>

\* Four bytes, the first the highest, and a word's bytes.
WordOf(a, b, c, d) == <<256 * a + b, 256 * c + d>>
BytesOf(w) == <<w[1] \div 256, w[1] % 256, w[2] \div 256, w[2] % 256>>

-----------------------------------------------------------------------------
(* The tables of crc8.c, crc16.c, crc32.c and base64.c; entry i is element i + 1.  The    *)
(* words of crc32_table are pairs of halves.                                              *)
crc8_table == <<
  0, 7, 14, 9, 28, 27, 18, 21, 56, 63, 54, 49, 36, 35, 42, 45, 112, 119, 126, 121, 108, 107,
  98, 101, 72, 79, 70, 65, 84, 83, 90, 93, 224, 231, 238, 233, 252, 251, 242, 245, 216, 223, 214, 209,
  196, 195, 202, 205, 144, 151, 158, 153, 140, 139, 130, 133, 168, 175, 166, 161, 180, 179, 186, 189, 199, 192,
  201, 206, 219, 220, 213, 210, 255, 248, 241, 246, 227, 228, 237, 234, 183, 176, 185, 190, 171, 172, 165, 162,
  143, 136, 129, 134, 147, 148, 157, 154, 39, 32, 41, 46, 59, 60, 53, 50, 31, 24, 17, 22, 3, 4,
  13, 10, 87, 80, 89, 94, 75, 76, 69, 66, 111, 104, 97, 102, 115, 116, 125, 122, 137, 142, 135, 128,
  149, 146, 155, 156, 177, 182, 191, 184, 173, 170, 163, 164, 249, 254, 247, 240, 229, 226, 235, 236, 193, 198,
  207, 200, 221, 218, 211, 212, 105, 110, 103, 96, 117, 114, 123, 124, 81, 86, 95, 88, 77, 74, 67, 68,
  25, 30, 23, 16, 5, 2, 11, 12, 33, 38, 47, 40, 61, 58, 51, 52, 78, 73, 64, 71, 82, 85,
  92, 91, 118, 113, 120, 127, 106, 109, 100, 99, 62, 57, 48, 55, 34, 37, 44, 43, 6, 1, 8, 15,
  26, 29, 20, 19, 174, 169, 160, 167, 178, 181, 188, 187, 150, 145, 152, 159, 138, 141, 132, 131, 222, 217,
  208, 215, 194, 197, 204, 203, 230, 225, 232, 239, 250, 253, 244, 243>>

crc16_table == <<
  0, 4129, 8258, 12387, 16516, 20645, 24774, 28903, 33032, 37161, 41290, 45419, 49548, 53677, 57806, 61935,
  4657, 528, 12915, 8786, 21173, 17044, 29431, 25302, 37689, 33560, 45947, 41818, 54205, 50076, 62463, 58334,
  9314, 13379, 1056, 5121, 25830, 29895, 17572, 21637, 42346, 46411, 34088, 38153, 58862, 62927, 50604, 54669,
  13907, 9842, 5649, 1584, 30423, 26358, 22165, 18100, 46939, 42874, 38681, 34616, 63455, 59390, 55197, 51132,
  18628, 22757, 26758, 30887, 2112, 6241, 10242, 14371, 51660, 55789, 59790, 63919, 35144, 39273, 43274, 47403,
  23285, 19156, 31415, 27286, 6769, 2640, 14899, 10770, 56317, 52188, 64447, 60318, 39801, 35672, 47931, 43802,
  27814, 31879, 19684, 23749, 11298, 15363, 3168, 7233, 60846, 64911, 52716, 56781, 44330, 48395, 36200, 40265,
  32407, 28342, 24277, 20212, 15891, 11826, 7761, 3696, 65439, 61374, 57309, 53244, 48923, 44858, 40793, 36728,
  37256, 33193, 45514, 41451, 53516, 49453, 61774, 57711, 4224, 161, 12482, 8419, 20484, 16421, 28742, 24679,
  33721, 37784, 41979, 46042, 49981, 54044, 58239, 62302, 689, 4752, 8947, 13010, 16949, 21012, 25207, 29270,
  46570, 42443, 38312, 34185, 62830, 58703, 54572, 50445, 13538, 9411, 5280, 1153, 29798, 25671, 21540, 17413,
  42971, 47098, 34713, 38840, 59231, 63358, 50973, 55100, 9939, 14066, 1681, 5808, 26199, 30326, 17941, 22068,
  55628, 51565, 63758, 59695, 39368, 35305, 47498, 43435, 22596, 18533, 30726, 26663, 6336, 2273, 14466, 10403,
  52093, 56156, 60223, 64286, 35833, 39896, 43963, 48026, 19061, 23124, 27191, 31254, 2801, 6864, 10931, 14994,
  64814, 60687, 56684, 52557, 48554, 44427, 40424, 36297, 31782, 27655, 23652, 19525, 15522, 11395, 7392, 3265,
  61215, 65342, 53085, 57212, 44955, 49082, 36825, 40952, 28183, 32310, 20053, 24180, 11923, 16050, 3793, 7920>>

crc32_table == <<
  <<0, 0>>, <<30471, 12438>>, <<60942, 24876>>, <<39177, 20922>>, <<1901, 50201>>, <<28778, 62607>>,
  <<59747, 42293>>, <<40548, 38307>>, <<3803, 34866>>, <<31196, 47268>>, <<57557, 59678>>, <<38866, 55688>>,
  <<2486, 19499>>, <<32433, 31933>>, <<59320, 11527>>, <<37055, 7569>>, <<7607, 4196>>, <<27312, 8434>>,
  <<62393, 29000>>, <<33982, 16862>>, <<6874, 54397>>, <<28125, 58603>>, <<62676, 46417>>, <<33747, 34247>>,
  <<4972, 38998>>, <<25707, 43200>>, <<64866, 63866>>, <<35429, 51692>>, <<5121, 23631>>, <<25350, 27865>>,
  <<64015, 15715>>, <<36104, 3573>>, <<15214, 8392>>, <<19561, 4190>>, <<54624, 16868>>, <<41575, 29042>>,
  <<15363, 58577>>, <<19204, 54343>>, <<53773, 34301>>, <<42250, 46443>>, <<13749, 43258>>, <<17074, 39020>>,
  <<56251, 51670>>, <<44220, 63808>>, <<13016, 27875>>, <<17887, 23669>>, <<56534, 3535>>, <<43985, 15705>>,
  <<9945, 12460>>, <<20958, 58>>, <<51415, 20864>>, <<49104, 24854>>, <<8628, 62645>>, <<22195, 50211>>,
  <<53178, 38297>>, <<47293, 42255>>, <<10242, 47262>>, <<24325, 34824>>, <<50700, 55730>>, <<45323, 59684>>,
  <<12143, 31879>>, <<22632, 19473>>, <<49505, 7595>>, <<46694, 11581>>, <<30428, 16784>>, <<475, 28934>>,
  <<39122, 8380>>, <<61397, 4138>>, <<29105, 34185>>, <<1718, 46367>>, <<40895, 58533>>, <<59576, 54323>>,
  <<30727, 51618>>, <<3840, 63796>>, <<38409, 43150>>, <<57614, 38936>>, <<32618, 3515>>, <<2157, 15661>>,
  <<37220, 27799>>, <<58979, 23553>>, <<27499, 20980>>, <<7276, 24930>>, <<34149, 12504>>, <<62050, 78>>,
  <<27654, 38381>>, <<6913, 42363>>, <<33288, 62657>>, <<62735, 50263>>, <<26032, 55750>>, <<4791, 59728>>,
  <<35774, 47338>>, <<64697, 34940>>, <<25309, 7647>>, <<5594, 11593>>, <<36051, 31987>>, <<64468, 19557>>,
  <<19890, 24920>>, <<15029, 20942>>, <<41916, 116>>, <<54459, 12514>>, <<19167, 42305>>, <<15832, 38359>>,
  <<42193, 50285>>, <<54230, 62715>>, <<17257, 59754>>, <<13422, 55804>>, <<44391, 34886>>, <<55904, 47312>>,
  <<17412, 11635>>, <<13059, 7653>>, <<43530, 19551>>, <<56589, 31945>>, <<20485, 28988>>, <<9986, 16810>>,
  <<48651, 4112>>, <<51468, 8326>>, <<22376, 46373>>, <<8303, 34227>>, <<47462, 54281>>, <<52833, 58527>>,
  <<24286, 63758>>, <<10713, 51608>>, <<45264, 38946>>, <<51159, 43188>>, <<22963, 15639>>, <<11956, 3457>>,
  <<47037, 23611>>, <<49338, 27821>>, <<60856, 33568>>, <<39615, 46006>>, <<950, 57868>>, <<29873, 53914>>,
  <<60117, 18233>>, <<40402, 30639>>, <<1243, 9749>>, <<29660, 5763>>, <<58211, 2834>>, <<37988, 15236>>,
  <<3437, 27198>>, <<31338, 23208>>, <<58382, 53003>>, <<37641, 65437>>, <<2560, 44583>>, <<32007, 40625>>,
  <<61455, 37700>>, <<34568, 41938>>, <<7681, 62056>>, <<26886, 49918>>, <<63330, 22365>>, <<32869, 26571>>,
  <<6508, 13937>>, <<28267, 1767>>, <<65236, 7030>>, <<35283, 11232>>, <<4314, 31322>>, <<26589, 19148>>,
  <<63929, 57199>>, <<36542, 61433>>, <<6071, 48707>>, <<24752, 36565>>, <<54998, 41960>>, <<41425, 37758>>,
  <<14552, 49860>>, <<20447, 62034>>, <<53691, 26609>>, <<42684, 22375>>, <<16309, 1757>>, <<18610, 13899>>,
  <<55309, 11226>>, <<44810, 6988>>, <<13827, 19190>>, <<16644, 31328>>, <<57184, 61379>>, <<43111, 57173>>,
  <<12654, 36591>>, <<18025, 48761>>, <<52065, 45964>>, <<48230, 33562>>, <<9583, 53920>>, <<21096, 57910>>,
  <<52236, 30613>>, <<47883, 18179>>, <<8706, 5817>>, <<21765, 9775>>, <<50618, 15294>>, <<45757, 2856>>,
  <<11188, 23186>>, <<23731, 27140>>, <<49879, 65447>>, <<46544, 53041>>, <<11481, 40587>>, <<23518, 44573>>,
  <<39780, 49840>>, <<60515, 61990>>, <<30058, 41884>>, <<621, 37642>>, <<39945, 1705>>, <<60174, 13887>>,
  <<29191, 26501>>, <<1280, 22291>>, <<38335, 19074>>, <<58040, 31252>>, <<31665, 11182>>, <<3254, 6968>>,
  <<37586, 36507>>, <<58837, 48653>>, <<31964, 61367>>, <<3035, 57121>>, <<34515, 53972>>, <<61908, 57922>>,
  <<26845, 46072>>, <<8154, 33646>>, <<33214, 5837>>, <<63161, 9819>>, <<28592, 30689>>, <<6327, 18295>>,
  <<34824, 23270>>, <<65295, 27248>>, <<26118, 15306>>, <<4353, 2908>>, <<36709, 40703>>, <<63586, 44649>>,
  <<24939, 65491>>, <<5740, 53061>>, <<40970, 57976>>, <<55053, 53998>>, <<19972, 33620>>, <<14595, 46018>>,
  <<42855, 9825>>, <<53344, 5879>>, <<18793, 18253>>, <<15982, 30683>>, <<44753, 27210>>, <<55766, 23260>>,
  <<16607, 2918>>, <<14296, 15344>>, <<43452, 44627>>, <<57019, 40645>>, <<18354, 53119>>, <<12469, 65513>>,
  <<48573, 61980>>, <<51898, 49802>>, <<21427, 37680>>, <<9396, 41894>>, <<47824, 13829>>, <<52695, 1683>>,
  <<21726, 22313>>, <<9177, 26559>>, <<45926, 31278>>, <<50273, 19128>>, <<23912, 6914>>, <<10863, 11156>>,
  <<46091, 48695>>, <<49932, 36513>>, <<23045, 57115>>, <<11522, 61325>>>>

encode_table == <<
  65, 66, 67, 68, 69, 70, 71, 72, 73, 74, 75, 76, 77, 78, 79, 80, 81, 82, 83, 84, 85, 86,
  87, 88, 89, 90, 97, 98, 99, 100, 101, 102, 103, 104, 105, 106, 107, 108, 109, 110, 111, 112, 113, 114,
  115, 116, 117, 118, 119, 120, 121, 122, 48, 49, 50, 51, 52, 53, 54, 55, 56, 57, 43, 47>>

decode_table == <<
  255, 255, 255, 255, 255, 255, 255, 255, 255, 255, 255, 255, 255, 255, 255, 255, 255, 255, 255, 255, 255, 255,
  255, 255, 255, 255, 255, 255, 255, 255, 255, 255, 255, 255, 255, 255, 255, 255, 255, 255, 255, 255, 255, 62,
  255, 255, 255, 63, 52, 53, 54, 55, 56, 57, 58, 59, 60, 61, 255, 255, 255, 255, 255, 255, 255, 0,
  1, 2, 3, 4, 5, 6, 7, 8, 9, 10, 11, 12, 13, 14, 15, 16, 17, 18, 19, 20, 21, 22,
  23, 24, 25, 255, 255, 255, 255, 255, 255, 26, 27, 28, 29, 30, 31, 32, 33, 34, 35, 36, 37, 38,
  39, 40, 41, 42, 43, 44, 45, 46, 47, 48, 49, 50, 51, 255, 255, 255, 255, 255>>

-----------------------------------------------------------------------------
(* The sums of libc/crypto/crc8.c, crc16.c and crc32.c, the text of base64.c and the     *)
(* stream of rc4.c.  Bytes and characters are numbers, data a sequence of them.          *)

CONSTANTS Data,       \* what is summed, written as text or enciphered
          Texts,      \* texts that base64_decode is given
          CodeKeys    \* keys of the stream

VARIABLES call, result

Lookup(table, i) == table[i + 1]

crc8_sum(crc, buf) ==
  LET from[s \in [crc : Nat, n : Nat]] ==
        IF s.n > Len(buf) THEN s.crc
        ELSE from[[n |-> s.n + 1, crc |-> Lookup(crc8_table, Xor16(s.crc, buf[s.n]))]]
  IN from[[crc |-> crc, n |-> 1]]
crc16_sum(crc, buf) ==
  LET from[s \in [crc : Nat, n : Nat]] ==
        IF s.n > Len(buf) THEN s.crc
        ELSE from[[n |-> s.n + 1,
                   crc |-> Xor16(Lookup(crc16_table, Xor16(s.crc \div 256, buf[s.n])), (s.crc * 256) % 65536)]]
  IN from[[crc |-> crc, n |-> 1]]
\* Eight bytes at a time and then the rest, each byte in the same way.
crc32_sum(crc, buf) ==
  LET from[s \in [crc : Seq(Nat), n : Nat]] ==
        IF s.n > Len(buf) THEN s.crc
        ELSE from[[n |-> s.n + 1, crc |-> WordXor(Lookup(crc32_table, Xor16(s.crc[2] % 256, buf[s.n])), Shr(s.crc, 8))]]
  IN WordNot(from[[crc |-> WordNot(crc), n |-> 1]])

-----------------------------------------------------------------------------
\* s is how many bytes of a group of three were read, l the byte before.
EncodeOne(st, c) ==
  CASE st.s = 0 -> [out |-> Append(st.out, Lookup(encode_table, c \div 4)), s |-> 1, l |-> c]
    [] st.s = 1 -> [out |-> Append(st.out, Lookup(encode_table, (st.l % 4) * 16 + c \div 16)), s |-> 2, l |-> c]
    [] OTHER -> [out |-> st.out \o <<Lookup(encode_table, (st.l % 16) * 4 + c \div 64), Lookup(encode_table, c % 64)>>,
                 s |-> 0, l |-> c]
base64_encode(in) ==
  LET from[a \in [i : Nat, st : [out : Seq(Nat), s : 0..2, l : Nat]]] ==
        IF a.i > Len(in) THEN a.st ELSE from[[i |-> a.i + 1, st |-> EncodeOne(a.st, in[a.i])]]
      st == from[[i |-> 1, st |-> [out |-> <<>>, s |-> 0, l |-> 0]]]
      eq == 61
  IN st.out \o CASE st.s = 1 -> <<Lookup(encode_table, (st.l % 4) * 16), eq, eq>>
                 [] st.s = 2 -> <<Lookup(encode_table, (st.l % 16) * 4), eq>>
                 [] OTHER -> <<>>

\* The bytes written so far and the bits of the byte that is being written; -1: refused.
DecodeOne(st, c, i) ==
  CASE i % 4 = 0 -> [st EXCEPT !.part = (c * 4) % 256]
    [] i % 4 = 1 -> [out |-> Append(st.out, st.part + ((c \div 16) % 4)), part |-> (c % 16) * 16]
    [] i % 4 = 2 -> [out |-> Append(st.out, st.part + ((c \div 4) % 16)), part |-> (c % 4) * 64]
    [] OTHER -> [out |-> Append(st.out, st.part + c), part |-> 0]
Refused == <<>>
base64_decode(in) ==
  LET from[a \in [i : Nat, out : Seq(Nat), part : Nat]] ==
        IF a.i = Len(in) \/ in[a.i + 1] = 61 THEN a.out
        ELSE LET ch == in[a.i + 1]
                 c == Lookup(decode_table, ch)
                 st == DecodeOne([out |-> a.out, part |-> a.part], c, a.i)
             IN IF ch < 43 \/ ch > 122 THEN Refused
                ELSE IF c = 255 THEN Refused
                ELSE from[[i |-> a.i + 1, out |-> st.out, part |-> st.part]]
  IN from[[i |-> 0, out |-> <<>>, part |-> 0]]

-----------------------------------------------------------------------------
Swapped(s, i, j) == [s EXCEPT ![i] = s[j], ![j] = s[i]]
Byte == 0..255
RcState == [i : Nat, j : Byte, s : [Byte -> Byte], out : Seq(Byte)]

\* The 256 swaps, in sixteen runs of sixteen.
Mixed(key) ==
  LET swaps[a \in [st : RcState, to : Nat]] ==
        LET st == a.st
            j == (st.j + st.s[st.i] + key[(st.i % Len(key)) + 1]) % 256
        IN IF st.i = a.to THEN st
           ELSE swaps[[a EXCEPT !.st = [st EXCEPT !.i = @ + 1, !.j = j, !.s = Swapped(@, st.i, j)]]]
      from[st \in RcState] == IF st.i = 256 THEN st.s ELSE from[swaps[[st |-> st, to |-> st.i + 16]]]
  IN from[[i |-> 0, j |-> 0, s |-> [b \in Byte |-> b], out |-> <<>>]]
rc4_crypt(key, dat) ==
  LET from[st \in RcState] ==
        IF Len(st.out) = Len(dat) THEN st.out
        ELSE LET i == (st.i + 1) % 256
                 j == (st.j + st.s[i]) % 256
                 s == Swapped(st.s, i, j)
                 at == (s[i] + s[j]) % 256
             IN from[[i |-> i, j |-> j, s |-> s, out |-> Append(st.out, Xor16(dat[Len(st.out) + 1], s[at]))]]
  IN from[[i |-> 0, j |-> 0, s |-> Mixed(key), out |-> <<>>]]

-----------------------------------------------------------------------------
CodeInit == /\ call \in [kind : {"sum", "encode"}, of : Data]
                        \cup [kind : {"decode"}, of : Texts]
                        \cup [kind : {"cipher"}, of : Data, key : CodeKeys]
            /\ result = <<>>
CodeNext ==
  /\ result = <<>>
  /\ result' = CASE call.kind = "sum" -> [crc8 |-> crc8_sum(0, call.of), crc16 |-> crc16_sum(0, call.of),
                                          crc32 |-> crc32_sum(<<0, 0>>, call.of)]
                 [] call.kind = "encode" -> [text |-> base64_encode(call.of)]
                 [] call.kind = "decode" -> [bytes |-> base64_decode(call.of)]
                 [] OTHER -> [bytes |-> rc4_crypt(call.key, call.of)]
  /\ UNCHANGED call
CodeSpec == CodeInit /\ [][CodeNext]_<<call, result>>

-----------------------------------------------------------------------------
\* The remainder of a division of polynomials, a bit at a time: the highest bit first for
\* crc8 and crc16, the lowest first for crc32, whose polynomial is written backwards.
BitOf(b, k) == (b \div 2^k) % 2
EachBit(data, start, lowest, Step(_, _)) ==
  LET bits[s \in [k : 0..8, byte : Byte, r : Seq(Nat)]] ==
        IF s.k = 8 THEN s.r
        ELSE bits[[s EXCEPT !.k = @ + 1, !.r = Step(@, BitOf(s.byte, IF lowest THEN s.k ELSE 7 - s.k))]]
      from[s \in [n : Nat, r : Seq(Nat)]] ==
        IF s.n > Len(data) THEN s.r ELSE from[[n |-> s.n + 1, r |-> bits[[k |-> 0, byte |-> data[s.n], r |-> s.r]]]]
  IN from[[n |-> 1, r |-> start]]
Divided(data, width, poly) ==
  EachBit(data, <<0>>, FALSE, LAMBDA r, b :
    LET low == (2 * r[1]) % 2^width IN
    IF (r[1] \div 2^(width - 1)) % 2 # b THEN <<Xor16(low, poly)>> ELSE <<low>>)[1]
DividedBackwards(data) ==
  EachBit(data, <<65535, 65535>>, TRUE, LAMBDA r, b :
    IF r[2] % 2 # b THEN WordXor(Shr(r, 1), <<60856, 33568>>) ELSE Shr(r, 1))

SumsRight(data, r) ==
  /\ r.crc8 = Divided(data, 8, 7)
  /\ r.crc16 = Divided(data, 16, 4129)
  /\ r.crc32 = WordNot(DividedBackwards(data))
  /\ \A n \in 0..Len(data) :
       LET a == SubSeq(data, 1, n)  b == SubSeq(data, n + 1, Len(data)) IN
       /\ r.crc8 = crc8_sum(crc8_sum(0, a), b) /\ r.crc16 = crc16_sum(crc16_sum(0, a), b)
       /\ r.crc32 = crc32_sum(crc32_sum(<<0, 0>>, a), b)

\* The alphabet in its order, and the six bits at place k of the text of data.
Alphabet == [i \in 0..63 |-> CASE i < 26 -> 65 + i [] i >= 26 /\ i < 52 -> 71 + i
                               [] i >= 52 /\ i < 62 -> i - 4 [] i = 62 -> 43 [] OTHER -> 47]
Sextet(data, k) ==
  LET bit(n) == LET d == (n \div 8) + 1 IN IF d > Len(data) THEN 0 ELSE BitOf(data[d], 7 - (n % 8))
  IN 32 * bit(6 * k) + 16 * bit(6 * k + 1) + 8 * bit(6 * k + 2) + 4 * bit(6 * k + 3) + 2 * bit(6 * k + 4) + bit(6 * k + 5)
TextOf(data) ==
  LET chars == (8 * Len(data) + 5) \div 6 IN
  [k \in 1..(4 * ((Len(data) + 2) \div 3)) |-> IF k <= chars THEN Alphabet[Sextet(data, k - 1)] ELSE 61]

\* A sum is the remainder of the data as a polynomial and can be taken in pieces; the text
\* of data is its bits in sixes, padded to fours, and is read back; a text with a character
\* outside the alphabet before its padding is refused; enciphering twice gives the data, and enciphering
\* once the published text.
CodesExact ==
  result # <<>> =>
    CASE call.kind = "sum" -> SumsRight(call.of, result)
      [] call.kind = "encode" -> result.text = TextOf(call.of) /\ base64_decode(result.text) = call.of
      [] call.kind = "decode" ->
           LET body == SubSeq(call.of, 1, Min({i \in 1..Len(call.of) : call.of[i] = 61} \cup {Len(call.of) + 1}) - 1) IN
           /\ (\E i \in DOMAIN body : body[i] \notin {Alphabet[k] : k \in 0..63}) => result.bytes = Refused
           /\ (\A i \in DOMAIN body : body[i] \in {Alphabet[k] : k \in 0..63})
                 => /\ Len(result.bytes) = (3 * Len(body)) \div 4
                    /\ SubSeq(TextOf(result.bytes), 1, (4 * Len(result.bytes)) \div 3)
                         = SubSeq(body, 1, (4 * Len(result.bytes)) \div 3)
      [] OTHER -> /\ rc4_crypt(call.key, result.bytes) = call.of
                  /\ call.key = <<75, 101, 121>> /\ call.of = <<80, 108, 97, 105, 110, 116, 101, 120, 116>>
                       => result.bytes = <<187, 243, 22, 232, 217, 64, 175, 10, 211>>

-----------------------------------------------------------------------------
(* The digests of libc/crypto/sha1.c and sha256.c: a context takes the message in pieces *)
(* of any length, and is finished with the padding and the length.  Words are pairs of   *)
(* halves; buf keeps what it held when it starts again at its first byte.                *)

CONSTANTS Pieces,      \* lengths of the pieces a message is given in
          MaxMessage   \* the longest message

rol(bits, w) == Ror(w, 32 - bits)
ror(w, bits) == Ror(w, bits)

\* Words 0 to 15 are the block's bytes, each later one comes from those before it.
Expanded(buf, n, After(_)) ==
  LET grow[W \in Seq(Seq(Nat))] == IF Len(W) = n THEN W ELSE grow[Append(W, After(W))]
  IN grow[[t \in 1..16 |-> WordOf(buf[4 * t - 3], buf[4 * t - 2], buf[4 * t - 1], buf[4 * t])]]

\* The registers after the rounds, added to the state.
ShaRounds(state, n, Round(_, _)) ==
  LET from[s \in [t : Nat, reg : Seq(Seq(Nat))]] ==
        IF s.t = n THEN [k \in 1..Len(state) |-> WordAdd(state[k], s.reg[k])]
        ELSE from[[t |-> s.t + 1, reg |-> Round(s.t, s.reg)]]
  IN from[[t |-> 0, reg |-> state]]

sha1_transform(ctx) ==
  LET W == Expanded(ctx.buf, 80, LAMBDA w :
             LET t == Len(w) + 1 IN rol(1, WordXor(WordXor(w[t - 3], w[t - 8]), WordXor(w[t - 14], w[t - 16]))))
      f(t, B, C, D) ==
        CASE t < 20 -> WordAdd(WordXor(D, WordAnd(B, WordXor(C, D))), <<23170, 31129>>)
          [] t >= 20 /\ t < 40 -> WordAdd(WordXor3(B, C, D), <<28377, 60321>>)
          [] t >= 40 /\ t < 60 -> WordAdd(WordOr(WordAnd(B, C), WordAnd(D, WordOr(B, C))), <<36635, 48348>>)
          [] OTHER -> WordAdd(WordXor3(B, C, D), <<51810, 49622>>)
      rounds[w \in Seq(Seq(Nat))] ==
        ShaRounds(ctx.state, 80, LAMBDA t, r :
          <<WordAdd(WordAdd(rol(5, r[1]), r[5]), WordAdd(w[t + 1], f(t, r[2], r[3], r[4]))),
            r[1], rol(30, r[2]), r[3], r[4]>>)
  IN [ctx EXCEPT !.state = rounds[W]]

K == <<
  <<17034, 12184>>, <<28983, 17553>>, <<46528, 64463>>, <<59829, 56229>>, <<14678, 49755>>, <<23025, 4593>>,
  <<37439, 33444>>, <<43804, 24277>>, <<55303, 43672>>, <<4739, 23297>>, <<9265, 34238>>, <<21772, 32195>>,
  <<29374, 23924>>, <<32990, 45566>>, <<39900, 1703>>, <<49563, 61812>>, <<58523, 27073>>, <<61374, 18310>>,
  <<4033, 40390>>, <<9228, 41420>>, <<11753, 11375>>, <<19060, 33962>>, <<23728, 43484>>, <<30457, 35034>>,
  <<38974, 20818>>, <<43057, 50797>>, <<45059, 10184>>, <<48985, 32711>>, <<50912, 3059>>, <<54695, 37191>>,
  <<1738, 25425>>, <<5161, 10599>>, <<10167, 2693>>, <<11803, 8504>>, <<19756, 28156>>, <<21304, 3347>>,
  <<25866, 29524>>, <<30314, 2747>>, <<33218, 51502>>, <<37490, 11397>>, <<41663, 59553>>, <<43034, 26187>>,
  <<49739, 35696>>, <<51052, 20899>>, <<53650, 59417>>, <<54937, 1572>>, <<62478, 13701>>, <<4202, 41072>>,
  <<6564, 49430>>, <<7735, 27656>>, <<10056, 30540>>, <<13488, 48309>>, <<14620, 3251>>, <<20184, 43594>>,
  <<23452, 51791>>, <<26670, 28659>>, <<29839, 33518>>, <<30885, 25455>>, <<33992, 30740>>, <<36039, 520>>,
  <<37054, 65530>>, <<42064, 27883>>, <<48889, 41975>>, <<50801, 30962>>>>

RoundT1(r, k, w) ==
  LET s1 == WordXor3(ror(r[5], 6), ror(r[5], 11), ror(r[5], 25))
      ch == WordXor(WordAnd(r[5], r[6]), WordAnd(WordNot(r[5]), r[7]))
  IN WordAdd(WordAdd(r[8], s1), WordAdd(ch, WordAdd(k, w)))
RoundT2(r) ==
  LET s0 == WordXor3(ror(r[1], 2), ror(r[1], 13), ror(r[1], 22))
      maj == WordXor3(WordAnd(r[1], r[2]), WordAnd(r[1], r[3]), WordAnd(r[2], r[3]))
  IN WordAdd(s0, maj)
RoundOf(r, t1) == <<WordAdd(t1, RoundT2(r)), r[1], r[2], r[3], WordAdd(r[4], t1), r[5], r[6], r[7]>>

sha256_transform(ctx) ==
  LET W == Expanded(ctx.buf, 64, LAMBDA w :
             LET t == Len(w) + 1
                 s0 == WordXor3(ror(w[t - 15], 7), ror(w[t - 15], 18), Shr(w[t - 15], 3))
                 s1 == WordXor3(ror(w[t - 2], 17), ror(w[t - 2], 19), Shr(w[t - 2], 10))
             IN WordAdd(WordAdd(w[t - 16], s0), WordAdd(w[t - 7], s1)))
      rounds[w \in Seq(Seq(Nat))] == ShaRounds(ctx.state, 64, LAMBDA t, r : RoundOf(r, RoundT1(r, K[t + 1], w[t + 1])))
  IN [ctx EXCEPT !.state = rounds[W]]

Fresh(state) == [state |-> state, buf |-> [i \in 1..64 |-> 0], count |-> 0]
sha1_init == Fresh(<<<<26437, 8961>>, <<61389, 43913>>, <<39098, 56574>>, <<4146, 21622>>, <<50130, 57840>>>>)
sha256_init == Fresh(<<<<27145, 58983>>, <<47975, 44677>>, <<15470, 62322>>, <<42319, 62778>>, <<20750, 21119>>, <<39685, 26764>>, <<8067, 55723>>, <<23520, 52505>>>>)

\* The bytes of data from k on that fit go to their places in buf; a buf that is full is
\* transformed, and filled from its first byte again.
Update(ctx, data, Transform(_)) ==
  LET from[s \in [k : Nat, ctx : [state : Seq(Seq(Nat)), buf : Seq(Nat), count : Nat]]] ==
        LET i == s.ctx.count % 64
            n == Min({64 - i, Len(data) - s.k})
            put == [s.ctx EXCEPT !.buf = SubSeq(@, 1, i) \o SubSeq(data, s.k + 1, s.k + n) \o SubSeq(@, i + n + 1, 64),
                                 !.count = @ + n]
        IN IF n = 0 THEN s.ctx ELSE from[[k |-> s.k + n, ctx |-> IF i + n = 64 THEN Transform(put) ELSE put]]
  IN from[[k |-> 0, ctx |-> ctx]]
sha1_update(ctx, data) == Update(ctx, data, sha1_transform)
sha256_update(ctx, data) == Update(ctx, data, sha256_transform)

\* The bit, zeros up to the place of the length, and the length in bits; the digest is
\* written over the block.
Zeros(count) == [i \in 1..((56 - (count + 1)) % 64) |-> 0]
LengthOf(count) == LET cnt == 8 * count IN
                   [i \in 1..8 |-> IF i < 5 THEN 0 ELSE (cnt \div 256^(8 - i)) % 256]
Digest(ctx) == LET n == 4 * Len(ctx.state) IN
  [ctx EXCEPT !.buf = [i \in 1..64 |-> IF i > n THEN @[i] ELSE BytesOf(ctx.state[((i - 1) \div 4) + 1])[((i - 1) % 4) + 1]]]
sha1_final(ctx) == Digest(sha1_update(ctx, <<128>> \o Zeros(ctx.count) \o LengthOf(ctx.count)))
sha256_final(ctx) == Digest(sha256_update(ctx, <<128>> \o Zeros(ctx.count) \o LengthOf(ctx.count)))
sha1_hash(data) == SubSeq(sha1_final(sha1_update(sha1_init, data)).buf, 1, 20)
sha256_hash(data) == SubSeq(sha256_final(sha256_update(sha256_init, data)).buf, 1, 32)

-----------------------------------------------------------------------------
\* A message is the start of one long text; call.told is how much of it was given.
Text(from, to) == [i \in 1..(to - from) |-> 97 + ((from + i - 1) % 4) + ((from + i - 1) \div 4)]

ShaInit == /\ call \in [hash : {"sha1", "sha256"}, told : {0}, done : {FALSE}]
           /\ result = IF call.hash = "sha1" THEN sha1_init ELSE sha256_init
ShaUpdate(n) ==
  LET data == Text(call.told, call.told + n) IN
  /\ ~call.done /\ call.told + n <= MaxMessage
  /\ result' = IF call.hash = "sha1" THEN sha1_update(result, data) ELSE sha256_update(result, data)
  /\ call' = [call EXCEPT !.told = @ + n]
ShaFinal == /\ ~call.done
            /\ result' = IF call.hash = "sha1" THEN sha1_final(result) ELSE sha256_final(result)
            /\ call' = [call EXCEPT !.done = TRUE]
ShaNext == ShaFinal \/ \E n \in Pieces : ShaUpdate(n)
ShaSpec == ShaInit /\ [][ShaNext]_<<call, result>>

-----------------------------------------------------------------------------
\* The digests the standard publishes for the start of the text, and that of nothing.
Published == [sha1 |-> [n \in {0, 3, 56} |-> CASE n = 0 -> <<218, 57, 163, 238, 94, 107, 75, 13, 50, 85, 191, 239, 149, 96, 24, 144, 175, 216, 7, 9>>
                                               [] n = 3 -> <<169, 153, 62, 54, 71, 6, 129, 106, 186, 62, 37, 113, 120, 80, 194, 108, 156, 208, 216, 157>>
                                               [] OTHER -> <<132, 152, 62, 68, 28, 59, 210, 110, 186, 174, 74, 161, 249, 81, 41, 229, 229, 70, 112, 241>>],
              sha256 |-> [n \in {0, 3, 56} |-> CASE n = 0 -> <<227, 176, 196, 66, 152, 252, 28, 20, 154, 251, 244, 200, 153, 111, 185, 36, 39, 174, 65, 228, 100, 155, 147, 76, 164, 149, 153, 27, 120, 82, 184, 85>>
                                                 [] n = 3 -> <<186, 120, 22, 191, 143, 1, 207, 234, 65, 65, 64, 222, 93, 174, 34, 35, 176, 3, 97, 163, 150, 23, 122, 156, 180, 16, 255, 97, 242, 0, 21, 173>>
                                                 [] OTHER -> <<36, 141, 106, 97, 210, 6, 56, 184, 229, 192, 38, 147, 12, 62, 96, 57, 163, 60, 228, 89, 100, 255, 33, 103, 246, 236, 237, 212, 25, 219, 6, 193>>]]

\* A context that is not finished has transformed the whole blocks of the message and holds
\* the rest, whatever the pieces sha1_update and sha256_update were given; a finished one
\* holds the digest that sha1_hash and sha256_hash make of the message at once, the
\* published one where there is one, and has counted whole blocks.
DigestsRight ==
  LET size == IF call.hash = "sha1" THEN 20 ELSE 32
      whole == call.told \div 64
      hash(n) == IF call.hash = "sha1" THEN sha1_hash(Text(0, n)) ELSE sha256_hash(Text(0, n))
      transformed[s \in [k : Nat, ctx : [state : Seq(Seq(Nat)), buf : Seq(Nat), count : Nat]]] ==
        IF s.k = whole THEN s.ctx.state
        ELSE LET full == [s.ctx EXCEPT !.buf = Text(64 * s.k, 64 * s.k + 64)] IN
             transformed[[k |-> s.k + 1, ctx |-> IF call.hash = "sha1" THEN sha1_transform(full) ELSE sha256_transform(full)]]
  IN IF call.done
     THEN /\ SubSeq(result.buf, 1, size) = hash(call.told)
          /\ call.told \in {0, 3, 56} => hash(call.told) = Published[call.hash][call.told]
          /\ result.count % 64 = 0 /\ result.count - call.told \in 9..72
     ELSE /\ result.count = call.told
          /\ result.state = transformed[[k |-> 0, ctx |-> IF call.hash = "sha1" THEN sha1_init ELSE sha256_init]]
          /\ SubSeq(result.buf, 1, call.told % 64) = Text(64 * whole, call.told)

-----------------------------------------------------------------------------
(* The tables of libc/crypto/aes128.c, which aes256.c repeats; entry i is the table's  *)
(* element i + 1.                                                                      *)

sbox == <<
  99, 124, 119, 123, 242, 107, 111, 197, 48, 1, 103, 43, 254, 215, 171, 118, 202, 130, 201, 125, 250, 89, 71, 240, 173, 212,
  162, 175, 156, 164, 114, 192, 183, 253, 147, 38, 54, 63, 247, 204, 52, 165, 229, 241, 113, 216, 49, 21, 4, 199, 35, 195,
  24, 150, 5, 154, 7, 18, 128, 226, 235, 39, 178, 117, 9, 131, 44, 26, 27, 110, 90, 160, 82, 59, 214, 179, 41, 227,
  47, 132, 83, 209, 0, 237, 32, 252, 177, 91, 106, 203, 190, 57, 74, 76, 88, 207, 208, 239, 170, 251, 67, 77, 51, 133,
  69, 249, 2, 127, 80, 60, 159, 168, 81, 163, 64, 143, 146, 157, 56, 245, 188, 182, 218, 33, 16, 255, 243, 210, 205, 12,
  19, 236, 95, 151, 68, 23, 196, 167, 126, 61, 100, 93, 25, 115, 96, 129, 79, 220, 34, 42, 144, 136, 70, 238, 184, 20,
  222, 94, 11, 219, 224, 50, 58, 10, 73, 6, 36, 92, 194, 211, 172, 98, 145, 149, 228, 121, 231, 200, 55, 109, 141, 213,
  78, 169, 108, 86, 244, 234, 101, 122, 174, 8, 186, 120, 37, 46, 28, 166, 180, 198, 232, 221, 116, 31, 75, 189, 139, 138,
  112, 62, 181, 102, 72, 3, 246, 14, 97, 53, 87, 185, 134, 193, 29, 158, 225, 248, 152, 17, 105, 217, 142, 148, 155, 30,
  135, 233, 206, 85, 40, 223, 140, 161, 137, 13, 191, 230, 66, 104, 65, 153, 45, 15, 176, 84, 187, 22>>

inv_sbox == <<
  82, 9, 106, 213, 48, 54, 165, 56, 191, 64, 163, 158, 129, 243, 215, 251, 124, 227, 57, 130, 155, 47, 255, 135, 52, 142,
  67, 68, 196, 222, 233, 203, 84, 123, 148, 50, 166, 194, 35, 61, 238, 76, 149, 11, 66, 250, 195, 78, 8, 46, 161, 102,
  40, 217, 36, 178, 118, 91, 162, 73, 109, 139, 209, 37, 114, 248, 246, 100, 134, 104, 152, 22, 212, 164, 92, 204, 93, 101,
  182, 146, 108, 112, 72, 80, 253, 237, 185, 218, 94, 21, 70, 87, 167, 141, 157, 132, 144, 216, 171, 0, 140, 188, 211, 10,
  247, 228, 88, 5, 184, 179, 69, 6, 208, 44, 30, 143, 202, 63, 15, 2, 193, 175, 189, 3, 1, 19, 138, 107, 58, 145,
  17, 65, 79, 103, 220, 234, 151, 242, 207, 206, 240, 180, 230, 115, 150, 172, 116, 34, 231, 173, 53, 133, 226, 249, 55, 232,
  28, 117, 223, 110, 71, 241, 26, 113, 29, 41, 197, 137, 111, 183, 98, 14, 170, 24, 190, 27, 252, 86, 62, 75, 198, 210,
  121, 32, 154, 219, 192, 254, 120, 205, 90, 244, 31, 221, 168, 51, 136, 7, 199, 49, 177, 18, 16, 89, 39, 128, 236, 95,
  96, 81, 127, 169, 25, 181, 74, 13, 45, 229, 122, 159, 147, 201, 156, 239, 160, 224, 59, 77, 174, 42, 245, 176, 200, 235,
  187, 60, 131, 83, 153, 97, 23, 43, 4, 126, 186, 119, 214, 38, 225, 105, 20, 99, 85, 33, 12, 125>>

x2_sbox == <<
  198, 248, 238, 246, 255, 214, 222, 145, 96, 2, 206, 86, 231, 181, 77, 236, 143, 31, 137, 250, 239, 178, 142, 251, 65, 179,
  95, 69, 35, 83, 228, 155, 117, 225, 61, 76, 108, 126, 245, 131, 104, 81, 209, 249, 226, 171, 98, 42, 8, 149, 70, 157,
  48, 55, 10, 47, 14, 36, 27, 223, 205, 78, 127, 234, 18, 29, 88, 52, 54, 220, 180, 91, 164, 118, 183, 125, 82, 221,
  94, 19, 166, 185, 0, 193, 64, 227, 121, 182, 212, 141, 103, 114, 148, 152, 176, 133, 187, 197, 79, 237, 134, 154, 102, 17,
  138, 233, 4, 254, 160, 120, 37, 75, 162, 93, 128, 5, 63, 33, 112, 241, 99, 119, 175, 66, 32, 229, 253, 191, 129, 24,
  38, 195, 190, 53, 136, 46, 147, 85, 252, 122, 200, 186, 50, 230, 192, 25, 158, 163, 68, 84, 59, 11, 140, 199, 107, 40,
  167, 188, 22, 173, 219, 100, 116, 20, 146, 12, 72, 184, 159, 189, 67, 196, 57, 49, 211, 242, 213, 139, 110, 218, 1, 177,
  156, 73, 216, 172, 243, 207, 202, 244, 71, 16, 111, 240, 74, 92, 56, 87, 115, 151, 203, 161, 232, 62, 150, 97, 13, 15,
  224, 124, 113, 204, 144, 6, 247, 28, 194, 106, 174, 105, 23, 153, 58, 39, 217, 235, 43, 34, 210, 169, 7, 51, 45, 60,
  21, 201, 135, 170, 80, 165, 3, 89, 9, 26, 101, 215, 132, 208, 130, 41, 90, 30, 123, 168, 109, 44>>

x3_sbox == <<
  165, 132, 153, 141, 13, 189, 177, 84, 80, 3, 169, 125, 25, 98, 230, 154, 69, 157, 64, 135, 21, 235, 201, 11, 236, 103,
  253, 234, 191, 247, 150, 91, 194, 28, 174, 106, 90, 65, 2, 79, 92, 244, 52, 8, 147, 115, 83, 63, 12, 82, 101, 94,
  40, 161, 15, 181, 9, 54, 155, 61, 38, 105, 205, 159, 27, 158, 116, 46, 45, 178, 238, 251, 246, 77, 97, 206, 123, 62,
  113, 151, 245, 104, 0, 44, 96, 31, 200, 237, 190, 70, 217, 75, 222, 212, 232, 74, 107, 42, 229, 22, 197, 215, 85, 148,
  207, 16, 6, 129, 240, 68, 186, 227, 243, 254, 192, 138, 173, 188, 72, 4, 223, 193, 117, 99, 48, 26, 14, 109, 76, 20,
  53, 47, 225, 162, 204, 57, 87, 242, 130, 71, 172, 231, 43, 149, 160, 152, 209, 127, 102, 126, 171, 131, 202, 41, 211, 60,
  121, 226, 29, 118, 59, 86, 78, 30, 219, 10, 108, 228, 93, 110, 239, 166, 168, 164, 55, 139, 50, 67, 89, 183, 140, 100,
  210, 224, 180, 250, 7, 37, 175, 142, 233, 24, 213, 136, 111, 114, 36, 241, 199, 81, 35, 124, 156, 33, 221, 220, 134, 133,
  144, 66, 196, 170, 216, 5, 1, 18, 163, 95, 249, 208, 145, 88, 39, 185, 56, 19, 179, 51, 187, 112, 137, 167, 182, 34,
  146, 32, 73, 255, 120, 122, 143, 248, 128, 23, 218, 49, 198, 184, 195, 176, 119, 17, 203, 252, 214, 58>>

x_time_9 == <<
  0, 9, 18, 27, 36, 45, 54, 63, 72, 65, 90, 83, 108, 101, 126, 119, 144, 153, 130, 139, 180, 189, 166, 175, 216, 209,
  202, 195, 252, 245, 238, 231, 59, 50, 41, 32, 31, 22, 13, 4, 115, 122, 97, 104, 87, 94, 69, 76, 171, 162, 185, 176,
  143, 134, 157, 148, 227, 234, 241, 248, 199, 206, 213, 220, 118, 127, 100, 109, 82, 91, 64, 73, 62, 55, 44, 37, 26, 19,
  8, 1, 230, 239, 244, 253, 194, 203, 208, 217, 174, 167, 188, 181, 138, 131, 152, 145, 77, 68, 95, 86, 105, 96, 123, 114,
  5, 12, 23, 30, 33, 40, 51, 58, 221, 212, 207, 198, 249, 240, 235, 226, 149, 156, 135, 142, 177, 184, 163, 170, 236, 229,
  254, 247, 200, 193, 218, 211, 164, 173, 182, 191, 128, 137, 146, 155, 124, 117, 110, 103, 88, 81, 74, 67, 52, 61, 38, 47,
  16, 25, 2, 11, 215, 222, 197, 204, 243, 250, 225, 232, 159, 150, 141, 132, 187, 178, 169, 160, 71, 78, 85, 92, 99, 106,
  113, 120, 15, 6, 29, 20, 43, 34, 57, 48, 154, 147, 136, 129, 190, 183, 172, 165, 210, 219, 192, 201, 246, 255, 228, 237,
  10, 3, 24, 17, 46, 39, 60, 53, 66, 75, 80, 89, 102, 111, 116, 125, 161, 168, 179, 186, 133, 140, 151, 158, 233, 224,
  251, 242, 205, 196, 223, 214, 49, 56, 35, 42, 21, 28, 7, 14, 121, 112, 107, 98, 93, 84, 79, 70>>

x_time_b == <<
  0, 11, 22, 29, 44, 39, 58, 49, 88, 83, 78, 69, 116, 127, 98, 105, 176, 187, 166, 173, 156, 151, 138, 129, 232, 227,
  254, 245, 196, 207, 210, 217, 123, 112, 109, 102, 87, 92, 65, 74, 35, 40, 53, 62, 15, 4, 25, 18, 203, 192, 221, 214,
  231, 236, 241, 250, 147, 152, 133, 142, 191, 180, 169, 162, 246, 253, 224, 235, 218, 209, 204, 199, 174, 165, 184, 179, 130, 137,
  148, 159, 70, 77, 80, 91, 106, 97, 124, 119, 30, 21, 8, 3, 50, 57, 36, 47, 141, 134, 155, 144, 161, 170, 183, 188,
  213, 222, 195, 200, 249, 242, 239, 228, 61, 54, 43, 32, 17, 26, 7, 12, 101, 110, 115, 120, 73, 66, 95, 84, 247, 252,
  225, 234, 219, 208, 205, 198, 175, 164, 185, 178, 131, 136, 149, 158, 71, 76, 81, 90, 107, 96, 125, 118, 31, 20, 9, 2,
  51, 56, 37, 46, 140, 135, 154, 145, 160, 171, 182, 189, 212, 223, 194, 201, 248, 243, 238, 229, 60, 55, 42, 33, 16, 27,
  6, 13, 100, 111, 114, 121, 72, 67, 94, 85, 1, 10, 23, 28, 45, 38, 59, 48, 89, 82, 79, 68, 117, 126, 99, 104,
  177, 186, 167, 172, 157, 150, 139, 128, 233, 226, 255, 244, 197, 206, 211, 216, 122, 113, 108, 103, 86, 93, 64, 75, 34, 41,
  52, 63, 14, 5, 24, 19, 202, 193, 220, 215, 230, 237, 240, 251, 146, 153, 132, 143, 190, 181, 168, 163>>

x_time_d == <<
  0, 13, 26, 23, 52, 57, 46, 35, 104, 101, 114, 127, 92, 81, 70, 75, 208, 221, 202, 199, 228, 233, 254, 243, 184, 181,
  162, 175, 140, 129, 150, 155, 187, 182, 161, 172, 143, 130, 149, 152, 211, 222, 201, 196, 231, 234, 253, 240, 107, 102, 113, 124,
  95, 82, 69, 72, 3, 14, 25, 20, 55, 58, 45, 32, 109, 96, 119, 122, 89, 84, 67, 78, 5, 8, 31, 18, 49, 60,
  43, 38, 189, 176, 167, 170, 137, 132, 147, 158, 213, 216, 207, 194, 225, 236, 251, 246, 214, 219, 204, 193, 226, 239, 248, 245,
  190, 179, 164, 169, 138, 135, 144, 157, 6, 11, 28, 17, 50, 63, 40, 37, 110, 99, 116, 121, 90, 87, 64, 77, 218, 215,
  192, 205, 238, 227, 244, 249, 178, 191, 168, 165, 134, 139, 156, 145, 10, 7, 16, 29, 62, 51, 36, 41, 98, 111, 120, 117,
  86, 91, 76, 65, 97, 108, 123, 118, 85, 88, 79, 66, 9, 4, 19, 30, 61, 48, 39, 42, 177, 188, 171, 166, 133, 136,
  159, 146, 217, 212, 195, 206, 237, 224, 247, 250, 183, 186, 173, 160, 131, 142, 153, 148, 223, 210, 197, 200, 235, 230, 241, 252,
  103, 106, 125, 112, 83, 94, 73, 68, 15, 2, 21, 24, 59, 54, 33, 44, 12, 1, 22, 27, 56, 53, 34, 47, 100, 105,
  126, 115, 80, 93, 74, 71, 220, 209, 198, 203, 232, 229, 242, 255, 180, 185, 174, 163, 128, 141, 154, 151>>

x_time_e == <<
  0, 14, 28, 18, 56, 54, 36, 42, 112, 126, 108, 98, 72, 70, 84, 90, 224, 238, 252, 242, 216, 214, 196, 202, 144, 158,
  140, 130, 168, 166, 180, 186, 219, 213, 199, 201, 227, 237, 255, 241, 171, 165, 183, 185, 147, 157, 143, 129, 59, 53, 39, 41,
  3, 13, 31, 17, 75, 69, 87, 89, 115, 125, 111, 97, 173, 163, 177, 191, 149, 155, 137, 135, 221, 211, 193, 207, 229, 235,
  249, 247, 77, 67, 81, 95, 117, 123, 105, 103, 61, 51, 33, 47, 5, 11, 25, 23, 118, 120, 106, 100, 78, 64, 82, 92,
  6, 8, 26, 20, 62, 48, 34, 44, 150, 152, 138, 132, 174, 160, 178, 188, 230, 232, 250, 244, 222, 208, 194, 204, 65, 79,
  93, 83, 121, 119, 101, 107, 49, 63, 45, 35, 9, 7, 21, 27, 161, 175, 189, 179, 153, 151, 133, 139, 209, 223, 205, 195,
  233, 231, 245, 251, 154, 148, 134, 136, 162, 172, 190, 176, 234, 228, 246, 248, 210, 220, 206, 192, 122, 116, 102, 104, 66, 76,
  94, 80, 10, 4, 22, 24, 50, 60, 46, 32, 236, 226, 240, 254, 212, 218, 200, 198, 156, 146, 128, 142, 164, 170, 184, 182,
  12, 2, 16, 30, 52, 58, 40, 38, 124, 114, 96, 110, 68, 74, 88, 86, 55, 57, 43, 37, 15, 1, 19, 29, 71, 73,
  91, 85, 127, 113, 99, 109, 215, 217, 203, 197, 239, 225, 243, 253, 167, 169, 187, 181, 159, 145, 131, 141>>

-----------------------------------------------------------------------------
(* The ciphers of libc/crypto/aes128.c and aes256.c and their modes.  A block is a     *)
(* function from 0..15, memory one from addresses, so that in and out may be the same. *)

CONSTANTS Keys128, Keys256,   \* keys, as functions from 0..15 and 0..31
          Blocks,             \* blocks enciphered
          Chains,             \* [in, out, blks]: where a chain of blocks lies in memory
          Streams             \* [offset, bytes] of a stream

Nibbles == [a \in 0..15 |-> [b \in 0..15 |-> a ^^ b]]
Xor8(a, b) == 16 * Nibbles[a \div 16][b \div 16] + Nibbles[a % 16][b % 16]
XorAll(a, b, c, d) == Xor8(Xor8(a, b), Xor8(c, d))
At(table, i) == table[i + 1]

shift_rows(s) == [i \in 0..15 |-> At(sbox, s[(i + 4 * (i % 4)) % 16])]
inv_shift_rows(s) == [i \in 0..15 |-> At(inv_sbox, s[(i - 4 * (i % 4)) % 16])]

\* Byte r of column c takes the four bytes that the shift brings to the column.
mix_sub_columns(s) ==
  LET term(k, r, c) == LET b == s[(4 * c + 5 * k) % 16] IN
        CASE (k - r) % 4 = 0 -> At(x2_sbox, b) [] (k - r) % 4 = 1 -> At(x3_sbox, b) [] OTHER -> At(sbox, b)
  IN [i \in 0..15 |-> LET r == i % 4  c == i \div 4 IN
                      XorAll(term(0, r, c), term(1, r, c), term(2, r, c), term(3, r, c))]

\* The columns are unmixed, and their bytes go where the shift took them from.
inv_mix_sub_columns(s) ==
  LET term(k, r, c) == LET b == s[4 * c + k] IN
        CASE (k - r) % 4 = 0 -> At(x_time_e, b) [] (k - r) % 4 = 1 -> At(x_time_b, b)
          [] (k - r) % 4 = 2 -> At(x_time_d, b) [] OTHER -> At(x_time_9, b)
  IN [i \in 0..15 |-> LET r == i % 4  c == (i \div 4 - r) % 4 IN
                      At(inv_sbox, XorAll(term(0, r, c), term(1, r, c), term(2, r, c), term(3, r, c)))]

add_round_key(s, xkey, round) == [i \in 0..15 |-> Xor8(s[i], xkey[16 * round + i])]

Blocks16 == [0..15 -> 0..255]
Rounds == [i : Int, state : Blocks16]

encrypt(rounds, xkey, in) ==
  LET round[s \in Rounds] ==
        IF s.i > rounds THEN s.state
        ELSE round[[i |-> s.i + 1,
                    state |-> add_round_key(IF s.i < rounds THEN mix_sub_columns(s.state) ELSE shift_rows(s.state),
                                            xkey, s.i)]]
  IN round[[i |-> 1, state |-> add_round_key(in, xkey, 0)]]

decrypt(rounds, xkey, in) ==
  LET round[s \in Rounds] ==
        LET state == add_round_key(s.state, xkey, s.i) IN
        IF s.i = 0 THEN state ELSE round[[i |-> s.i - 1, state |-> inv_mix_sub_columns(state)]]
  IN round[[i |-> rounds - 1, state |-> inv_shift_rows(add_round_key(in, xkey, rounds))]]

rcon == <<0, 1, 2, 4, 8, 16, 32, 64, 128, 27, 54>>

\* The bytes t0 to t3 of the word before, turned and substituted at the start of a key's length.
RotSub(t, i, nk) == <<Xor8(At(sbox, t[2]), At(rcon, i \div nk)), At(sbox, t[3]), At(sbox, t[4]), At(sbox, t[1])>>

set_key(key, nk, rounds, Turned(_, _)) ==
  LET word[s \in [i : Nat, xkey : Seq(0..255)]] ==
        LET x == s.xkey
            n == 4 * s.i
            t == Turned(<<x[n - 3], x[n - 2], x[n - 1], x[n]>>, s.i)
        IN IF s.i = 4 * (rounds + 1) THEN [j \in 0..(16 * (rounds + 1) - 1) |-> x[j + 1]]
           ELSE word[[i |-> s.i + 1,
                      xkey |-> x \o [j \in 1..4 |-> Xor8(x[n - 4 * nk + j], t[j])]]]
  IN word[[i |-> nk, xkey |-> [j \in 1..(4 * nk) |-> key[j - 1]]]]

aes128_encrypt(xkey, in) == encrypt(10, xkey, in)
aes128_decrypt(xkey, in) == decrypt(10, xkey, in)
aes128_set_key(key) == set_key(key, 4, 10, LAMBDA t, i : IF i % 4 = 0 THEN RotSub(t, i, 4) ELSE t)
aes256_encrypt(xkey, in) == encrypt(14, xkey, in)
aes256_decrypt(xkey, in) == decrypt(14, xkey, in)
aes256_set_key(key) ==
  set_key(key, 8, 14, LAMBDA t, i : IF i % 8 = 0 THEN RotSub(t, i, 8)
                                    ELSE IF i % 8 = 4 THEN [j \in 1..4 |-> At(sbox, t[j])] ELSE t)

-----------------------------------------------------------------------------
\* Blocks of memory.
BlockAt(mem, a) == [i \in 0..15 |-> mem[a + i]]
Write(mem, a, b, len) == [x \in DOMAIN mem |-> IF x >= a /\ x < a + len THEN b[x - a] ELSE mem[x]]
xor_block(a, b) == [i \in 0..15 |-> Xor8(a[i], b[i])]

\* The blocks in turn: Turn is the memory and the chain after one of them.
EachBlock(mem, iv, blks, Turn(_)) ==
  LET from[s \in [i : Nat, mem : [DOMAIN mem -> 0..255], chain : Blocks16]] ==
        IF s.i = blks THEN s.mem ELSE from[Turn(s)]
  IN from[[i |-> 0, mem |-> mem, chain |-> iv]]

aes128_ecb_encrypt(xkey, mem, in, out, blks) ==
  EachBlock(mem, [i \in 0..15 |-> 0], blks, LAMBDA s :
    [s EXCEPT !.i = @ + 1, !.mem = Write(@, out + 16 * s.i, aes128_encrypt(xkey, BlockAt(@, in + 16 * s.i)), 16)])
aes128_ecb_decrypt(xkey, mem, in, out, blks) ==
  EachBlock(mem, [i \in 0..15 |-> 0], blks, LAMBDA s :
    [s EXCEPT !.i = @ + 1, !.mem = Write(@, out + 16 * s.i, aes128_decrypt(xkey, BlockAt(@, in + 16 * s.i)), 16)])

CbcEncrypt(Encrypt(_), mem, iv, in, out, blks) ==
  EachBlock(mem, iv, blks, LAMBDA s :
    LET c == Encrypt(xor_block(s.chain, BlockAt(s.mem, in + 16 * s.i))) IN
    [i |-> s.i + 1, mem |-> Write(s.mem, out + 16 * s.i, c, 16), chain |-> c])

\* The block is kept for the chain before out, which may be in, is written.
CbcDecrypt(Decrypt(_), mem, iv, in, out, blks) ==
  EachBlock(mem, iv, blks, LAMBDA s :
    LET block == BlockAt(s.mem, in + 16 * s.i) IN
    [i |-> s.i + 1, mem |-> Write(s.mem, out + 16 * s.i, xor_block(s.chain, Decrypt(block)), 16), chain |-> block])

aes128_cbc_encrypt(xkey, mem, iv, in, out, blks) == CbcEncrypt(LAMBDA b : aes128_encrypt(xkey, b), mem, iv, in, out, blks)
aes128_cbc_decrypt(xkey, mem, iv, in, out, blks) == CbcDecrypt(LAMBDA b : aes128_decrypt(xkey, b), mem, iv, in, out, blks)
aes256_cbc_encrypt(xkey, mem, iv, in, out, blks) == CbcEncrypt(LAMBDA b : aes256_encrypt(xkey, b), mem, iv, in, out, blks)
aes256_cbc_decrypt(xkey, mem, iv, in, out, blks) == CbcDecrypt(LAMBDA b : aes256_decrypt(xkey, b), mem, iv, in, out, blks)

\* The counter's last eight bytes, the highest first, and one more than it.
CounterOf(o) == [i \in 0..15 |-> IF i < 12 THEN 0 ELSE (o \div 256^(15 - i)) % 256]
add_counter(counter) ==
  LET stop == CHOOSE i \in 8..15 : /\ counter[i] # 255 \/ i = 8
                                   /\ \A j \in (i + 1)..15 : counter[j] = 255
  IN [i \in 0..15 |-> IF i >= stop THEN (counter[i] + 1) % 256 ELSE counter[i]]

\* The first block from the middle, then whole blocks, then the rest.  The first takes all
\* that is left of its block, whatever `bytes' is.
CtrEncrypt(Encrypt(_), mem, offset, in, out, bytes) ==
  LET turn(s, pos, len) ==
        LET tmp == Encrypt(s.counter) IN
        [at |-> s.at + len, left |-> s.left - len, counter |-> add_counter(s.counter),
         mem |-> Write(s.mem, out + s.at, [i \in 0..(len - 1) |-> Xor8(s.mem[in + s.at + i], tmp[pos + i])], len)]
      from[s \in [at : Nat, left : Int, counter : Blocks16, mem : [DOMAIN mem -> 0..255]]] ==
        IF s.left = 0 THEN s.mem ELSE from[turn(s, 0, IF s.left > 16 THEN 16 ELSE s.left)]
      start == [at |-> 0, left |-> bytes, counter |-> CounterOf(offset \div 16), mem |-> mem]
  IN from[IF offset % 16 # 0 THEN turn(start, offset % 16, 16 - (offset % 16)) ELSE start]

aes128_ctr_encrypt(xkey, mem, offset, in, out, bytes) == CtrEncrypt(LAMBDA b : aes128_encrypt(xkey, b), mem, offset, in, out, bytes)
aes256_ctr_encrypt(xkey, mem, offset, in, out, bytes) == CtrEncrypt(LAMBDA b : aes256_encrypt(xkey, b), mem, offset, in, out, bytes)
aes128_ctr_decrypt(xkey, mem, offset, in, out, bytes) == aes128_ctr_encrypt(xkey, mem, offset, in, out, bytes)

-----------------------------------------------------------------------------
\* Every table, every block under every key, every chain and every stream.
Memory == [a \in 0..159 |-> (a * 37 + 11) % 256]
Iv == [i \in 0..15 |-> (17 * i) % 256]
KeyOf(c) == IF c.size = 128 THEN aes128_set_key(c.key) ELSE aes256_set_key(c.key)
KeyCalls == [size : {128}, key : Keys128] \cup [size : {256}, key : Keys256]

AesInit == /\ call \in {[kind |-> "block", key |-> k, what |-> b] : k \in KeyCalls, b \in Blocks}
                       \cup {[kind |-> "chain", key |-> k, what |-> c] : k \in KeyCalls, c \in Chains}
                       \cup {[kind |-> "stream", key |-> k, what |-> s] : k \in KeyCalls, s \in Streams}
           /\ result = <<>>

Run(c) ==
  LET xkey == KeyOf(c.key)
      w == c.what
      small == c.key.size = 128
      enc(b) == IF small THEN aes128_encrypt(xkey, b) ELSE aes256_encrypt(xkey, b)
      dec(b) == IF small THEN aes128_decrypt(xkey, b) ELSE aes256_decrypt(xkey, b)
      cbc == IF small THEN aes128_cbc_encrypt(xkey, Memory, Iv, w.in, w.out, w.blks)
             ELSE aes256_cbc_encrypt(xkey, Memory, Iv, w.in, w.out, w.blks)
      ecb == aes128_ecb_encrypt(xkey, Memory, w.in, w.out, w.blks)
  IN CASE c.kind = "block" -> [enc |-> enc(w), dec |-> dec(enc(w))]
       [] c.kind = "chain" ->
            [cbc |-> cbc,
             back |-> IF small THEN aes128_cbc_decrypt(xkey, cbc, Iv, w.out, w.in, w.blks)
                      ELSE aes256_cbc_decrypt(xkey, cbc, Iv, w.out, w.in, w.blks),
             ecb |-> IF small THEN aes128_ecb_decrypt(xkey, ecb, w.out, w.in, w.blks) ELSE Memory]
       [] OTHER -> IF small THEN aes128_ctr_encrypt(xkey, Memory, w.offset, 0, 80, w.bytes)
                   ELSE aes256_ctr_encrypt(xkey, Memory, w.offset, 0, 80, w.bytes)

AesNext == result = <<>> /\ result' = Run(call) /\ UNCHANGED call
AesSpec == AesInit /\ [][AesNext]_<<call, result>>

-----------------------------------------------------------------------------
\* The cipher as its standard has it: bytes are polynomials modulo x^8 + x^4 + x^3 + x + 1.
Xtime(a) == IF a < 128 THEN 2 * a ELSE Xor8((2 * a) % 256, 27)
Gf(a, b) ==
  LET m[i \in 0..8] == IF i = 8 THEN 0
                       ELSE Xor8(Xtime(m[i + 1]), IF (b \div 2^i) % 2 = 1 THEN a ELSE 0)
  IN m[0]
Rotl(a, k) == ((a * 2^k) % 256) + a \div 2^(8 - k)
GfInverse(a) == IF a = 0 THEN 0 ELSE CHOOSE b \in 1..255 : Gf(a, b) = 1
SubByte == [a \in 0..255 |-> LET b == GfInverse(a) IN
              Xor8(99, Xor8(b, XorAll(Rotl(b, 1), Rotl(b, 2), Rotl(b, 3), Rotl(b, 4))))]

SubShift(s) == [i \in 0..15 |-> SubByte[s[(i + 4 * (i % 4)) % 16]]]
Mix(s) == [i \in 0..15 |-> LET at(k) == s[4 * (i \div 4) + ((i + k) % 4)] IN
             XorAll(Xtime(at(0)), Xor8(Xtime(at(1)), at(1)), at(2), at(3))]

\* The words of a key of nk words, each a sequence of four bytes.
Powers == <<1, 2, 4, 8, 16, 32, 64, 128, Xtime(128), Xtime(Xtime(128))>>
WithWord(before, g, c) == <<XorAll(before[1], g[1], c, 0), Xor8(before[2], g[2]), Xor8(before[3], g[3]), Xor8(before[4], g[4])>>
WordAfter(w, i, nk) ==
  LET t == w[i]
      new == i % nk = 0
      from == IF new THEN <<t[2], t[3], t[4], t[1]>> ELSE t
      g == IF new \/ (nk = 8 /\ i % nk = 4) THEN [j \in 1..4 |-> SubByte[from[j]]] ELSE t
  IN WithWord(w[i - nk + 1], g, IF new THEN Powers[i \div nk] ELSE 0)
Schedule(key, nk, rounds) ==
  LET grow[w \in Seq(Seq(0..255))] ==
        IF Len(w) = 4 * (rounds + 1) THEN w ELSE grow[Append(w, WordAfter(w, Len(w), nk))]
  IN grow[[i \in 1..nk |-> LET k == 4 * (i - 1) IN <<key[k], key[k + 1], key[k + 2], key[k + 3]>>]]

\* What a call should give.
RoundKeyed(s, w, r) == [i \in 0..15 |-> Xor8(s[i], w[4 * r + (i \div 4) + 1][(i % 4) + 1])]
CipherFrom[s \in [i : Nat, last : Nat, state : Blocks16, w : Seq(Seq(0..255))]] ==
  IF s.i > s.last THEN s.state
  ELSE LET mixed(t) == IF s.i = s.last THEN t ELSE Mix(t) IN
       CipherFrom[[s EXCEPT !.i = @ + 1, !.state = RoundKeyed(mixed(SubShift(s.state)), s.w, s.i)]]
Enciphered(w, b, last) == CipherFrom[[i |-> 1, last |-> last, state |-> RoundKeyed(b, w, 0), w |-> w]]
Cipher(c, b) ==
  LET nk == IF c.size = 128 THEN 4 ELSE 8 IN Enciphered(Schedule(c.key, nk, nk + 6), b, nk + 6)

TablesRight ==
  \A a \in 0..255 : /\ At(sbox, a) = SubByte[a] /\ At(inv_sbox, SubByte[a]) = a
                    /\ At(x2_sbox, a) = Gf(2, SubByte[a]) /\ At(x3_sbox, a) = Gf(3, SubByte[a])
                    /\ At(x_time_9, a) = Gf(9, a) /\ At(x_time_b, a) = Gf(11, a)
                    /\ At(x_time_d, a) = Gf(13, a) /\ At(x_time_e, a) = Gf(14, a)

ChainRight(c, r) ==
  LET w == c.what
      in(mem, at, i) == BlockAt(mem, at + 16 * i)
  IN /\ \A i \in 0..(w.blks - 1) :
          in(r.cbc, w.out, i) = Cipher(c.key, xor_block(in(Memory, w.in, i), IF i = 0 THEN Iv ELSE in(r.cbc, w.out, i - 1)))
     /\ \A a \in DOMAIN Memory : a < w.out \/ a >= w.out + 16 * w.blks => r.cbc[a] = Memory[a]
     /\ \A a \in w.in..(w.in + 16 * w.blks - 1) : r.back[a] = Memory[a] /\ r.ecb[a] = Memory[a]

Padded(c, r, pad) ==
  \A a \in DOMAIN Memory :
    r[a] = IF a \in 80..(79 + c.bytes)
           THEN LET q == c.offset + a - 80 IN Xor8(Memory[a - 80], pad[q \div 16][q % 16]) ELSE Memory[a]
StreamRight(c, r) ==
  LET first == c.what.offset
  IN Padded(c.what, r, [k \in (first \div 16)..((first + c.what.bytes) \div 16) |-> Cipher(c.key, CounterOf(k))])

\* The tables of aes128.c are the field's, what aes128_encrypt and aes256_encrypt give is the
\* standard's cipher and decrypt undoes it; a chain enciphered in place or elsewhere writes its
\* blocks only and is read back, and byte q of a stream depends on its place q alone, however
\* the stream is cut into calls.
CiphersRight ==
  result # <<>> =>
    CASE call.kind = "block" -> /\ result.enc = Cipher(call.key, call.what) /\ result.dec = call.what
                                /\ TablesRight
      [] call.kind = "chain" -> ChainRight(call, result)
      [] OTHER -> StreamRight(call, result)

-----------------------------------------------------------------------------
(* The long integers of libc/crypto/ecdsa256.c: NumDigits digits, the lowest first,   *)
(* each of two halves of Half bits (of 32 in the code).  The curve's prime            *)
(* p = t^8 - t^7 + t^6 + t^3 - 1, t = 2^Half, keeps its shape at any Half, so that    *)
(* vli_mmod_fast is the code's with its masks and shifts scaled.                      *)

CONSTANTS Half,
          CurveN,          \* the order of the curve's group
          Lefts, Rights    \* the operands tried

T == 2^Half
Base == T * T
NumDigits == 4
Bits == 2 * Half
Top == 2^(Bits - 1)
If(c) == IF c THEN 1 ELSE 0

Native(k) == [i \in 1..NumDigits |-> (k \div Base^(i - 1)) % Base]
Amount(v) == FoldRight(LAMBDA d, acc : acc * Base + d, v, 0)
CurveP == T^8 - T^7 + T^6 + T^3 - 1
curve_p == Native(CurveP)
curve_n == Native(CurveN)
Zero == Native(0)
Low(v) == SubSeq(v, 1, NumDigits)
High(v) == SubSeq(v, NumDigits + 1, 2 * NumDigits)

vli_iszero(v) == \A i \in 1..NumDigits : v[i] = 0
vli_testbit(v, bit) == (v[(bit \div Bits) + 1] \div 2^(bit % Bits)) % 2 = 1

RECURSIVE BitsIn(_)
BitsIn(digit) == IF digit = 0 THEN 0 ELSE 1 + BitsIn(digit \div 2)

vli_numdigits(v) == SelectLastInSubSeq(v, 1, NumDigits, LAMBDA d : d # 0)
vli_numbits(v) == LET n == vli_numdigits(v) IN IF n = 0 THEN 0 ELSE (n - 1) * Bits + BitsIn(v[n])

vli_cmp(l, r) ==
  LET i == IF l[4] # r[4] THEN 4 ELSE IF l[3] # r[3] THEN 3 ELSE IF l[2] # r[2] THEN 2 ELSE IF l[1] # r[1] THEN 1 ELSE 0 IN
  IF i = 0 THEN 0 ELSE IF l[i] > r[i] THEN 1 ELSE -1

\* One pass over the digits, upwards: the digit made at each, and what is carried to the next.
Pass(Step(_, _)) ==
  LET s1 == Step(1, 0)  s2 == Step(2, s1[2])  s3 == Step(3, s2[2])  s4 == Step(4, s3[2])
  IN [v |-> <<s1[1], s2[1], s3[1], s4[1]>>, carry |-> s4[2]]

vli_lshift(v, shift) == Pass(LAMBDA i, c : <<((v[i] * 2^shift) % Base) + c, v[i] \div 2^(Bits - shift)>>)
vli_rshift1(v) ==
  [i \in 1..NumDigits |-> (v[i] \div 2) + IF i < NumDigits THEN (v[i + 1] % 2) * Top ELSE 0]
vli_add(l, r) ==
  Pass(LAMBDA i, c : LET sum == (l[i] + r[i] + c) % Base IN <<sum, IF sum # l[i] THEN If(sum < l[i]) ELSE c>>)
vli_sub(l, r) ==
  Pass(LAMBDA i, b : LET diff == (l[i] - r[i] - b) % Base IN <<diff, IF diff # l[i] THEN If(diff > l[i]) ELSE b>>)

mul_64_64(left, right) ==
  LET a0 == left % T  a1 == left \div T  b0 == right % T  b1 == right \div T
      m1 == a0 * b1
      m2 == (a1 * b0 + (a0 * b0) \div T + m1) % Base
      m3 == a1 * b1 + IF m2 < m1 THEN T ELSE 0
  IN [low |-> ((a0 * b0) % T) + ((m2 * T) % Base), high |-> (m3 + m2 \div T) % Base]

add_128_128(a, b) ==
  LET low == (a.low + b.low) % Base IN
  [low |-> low, high |-> (a.high + b.high + If(low < a.low)) % Base]

\* r01 and r2 with one product added, extra to r2.  The sum has overflowed unseen when its
\* upper digit was full and the lower one carries: it is then no less than the product's.
\* `full' remembers that, and is no state of the code.
Accumulate(r, product, extra) ==
  LET s == add_128_128(r.r01, product) IN
  [r01 |-> s, r2 |-> r.r2 + extra + If(s.high < product.high),
   full |-> r.full \/ (r.r01.high = Base - 1 /\ s.low < product.low)]

\* Where the sum of a product is: column k, its digit i, the digits done.
Sums == [k : Nat, i : Nat, v : Seq(Nat), a : [r01 : [low : Nat, high : Nat], r2 : Nat, full : BOOLEAN]]
Begin == [k |-> 0, i |-> 0, v |-> <<>>,
          a |-> [r01 |-> [low |-> 0, high |-> 0], r2 |-> 0, full |-> FALSE]]

\* The end of a column: its lowest digit is done, the others go on to the next column.
NextColumn(s) ==
  [k |-> s.k + 1, i |-> IF s.k + 1 < NumDigits THEN 0 ELSE s.k + 2 - NumDigits, v |-> Append(s.v, s.a.r01.low),
   a |-> [s.a EXCEPT !.r01 = [low |-> s.a.r01.high, high |-> s.a.r2], !.r2 = 0]]
Finished(s) == s.k = 2 * NumDigits - 1
Product(s) == [v |-> Append(s.v, s.a.r01.low), full |-> s.a.full]
Plus(s, product, extra) == [s EXCEPT !.i = @ + 1, !.a = Accumulate(s.a, product, extra)]

vli_mult(l, r) ==
  LET sum[s \in Sums] ==
        IF Finished(s) THEN Product(s)
        ELSE IF s.i > s.k \/ s.i = NumDigits THEN sum[NextColumn(s)]
        ELSE sum[Plus(s, mul_64_64(l[s.i + 1], r[s.k - s.i + 1]), 0)]
  IN sum[Begin]

\* The products of two different digits are taken once and doubled.
Doubled(m) == [low |-> (m.low * 2) % Base, high |-> ((m.high * 2) % Base) + m.low \div Top]
vli_square(l) ==
  LET sum[s \in Sums] ==
        LET m == mul_64_64(l[s.i + 1], l[s.k - s.i + 1]) IN
        IF Finished(s) THEN Product(s)
        ELSE IF s.i > s.k - s.i THEN sum[NextColumn(s)]
        ELSE sum[IF s.i < s.k - s.i THEN Plus(s, Doubled(m), m.high \div Top) ELSE Plus(s, m, 0)]
  IN sum[Begin]

vli_modadd(l, r, mod) ==
  LET s == vli_add(l, r) IN IF s.carry = 1 \/ vli_cmp(s.v, mod) >= 0 THEN vli_sub(s.v, mod).v ELSE s.v
vli_modsub(l, r, mod) ==
  LET d == vli_sub(l, r) IN IF d.carry = 1 THEN vli_add(d.v, mod).v ELSE d.v

Carried == [v : Seq(Nat), carry : Int]

AddUntil[s \in Carried] ==
  IF s.carry >= 0 THEN s.v
  ELSE LET a == vli_add(s.v, curve_p) IN AddUntil[[v |-> a.v, carry |-> s.carry + a.carry]]
SubUntil[s \in Carried] ==
  IF s.carry = 0 /\ vli_cmp(curve_p, s.v) = 1 THEN s.v
  ELSE LET d == vli_sub(s.v, curve_p) IN SubUntil[[v |-> d.v, carry |-> s.carry - d.carry]]

\* The halves of the product are summed as the prime's shape folds them.
vli_mmod_fast(product) ==
  LET lo(i) == product[i + 1] % T
      hi(i) == product[i + 1] \div T
      join(l, h) == l + h * T
      p(i) == product[i + 1]
      add(s, tmp, more) == LET a == vli_add(s.v, tmp) IN [v |-> a.v, carry |-> s.carry + more + a.carry]
      sub(s, tmp) == LET d == vli_sub(s.v, tmp) IN [v |-> d.v, carry |-> s.carry - d.carry]
      twice(s, tmp) == LET sh == vli_lshift(tmp, 1) IN add(s, sh.v, sh.carry)
      s0 == [v |-> Low(product), carry |-> 0]
      s1 == twice(s0, <<0, join(0, hi(5)), p(6), p(7)>>)
      s2 == twice(s1, <<0, join(0, lo(6)), join(hi(6), lo(7)), hi(7)>>)
      s3 == add(s2, <<p(4), lo(5), 0, p(7)>>, 0)
      s4 == add(s3, <<join(hi(4), lo(5)), join(hi(5), hi(6)), p(7), join(hi(6), lo(4))>>, 0)
      s5 == sub(s4, <<join(hi(5), lo(6)), hi(6), 0, join(lo(4), lo(5))>>)
      s6 == sub(s5, <<p(6), p(7), 0, join(hi(4), hi(5))>>)
      s7 == sub(s6, <<join(hi(6), lo(7)), join(hi(7), lo(4)), join(hi(4), lo(5)), join(0, lo(6))>>)
      s8 == sub(s7, <<p(7), join(0, hi(4)), p(5), join(0, hi(6))>>)
  IN IF s8.carry < 0 THEN AddUntil[s8] ELSE SubUntil[s8]

vli_modMult_fast(l, r) == vli_mmod_fast(vli_mult(l, r).v)
vli_modSquare_fast(l) == vli_mmod_fast(vli_square(l).v)

\* u, made even by adding mod, and halved; the carry becomes its highest bit.
Halved(u, mod) ==
  LET s == IF u[1] % 2 = 1 THEN vli_add(u, mod) ELSE [v |-> u, carry |-> 0]
      h == vli_rshift1(s.v)
  IN IF s.carry = 1 THEN [h EXCEPT ![NumDigits] = (@ % Top) + Top] ELSE h

\* a and u after b was taken from a.
Reduced(u, v, mod) == vli_sub(IF vli_cmp(u, v) < 0 THEN vli_add(u, mod).v ELSE u, v).v

Inverting == [a : Seq(Nat), b : Seq(Nat), u : Seq(Nat), v : Seq(Nat), mod : Seq(Nat)]

InverseLoop[s \in Inverting] ==
  LET c == vli_cmp(s.a, s.b) IN
  IF c = 0 THEN s.u
  ELSE InverseLoop[
         IF s.a[1] % 2 = 0 THEN [s EXCEPT !.a = vli_rshift1(@), !.u = Halved(@, s.mod)]
         ELSE IF s.b[1] % 2 = 0 THEN [s EXCEPT !.b = vli_rshift1(@), !.v = Halved(@, s.mod)]
         ELSE IF c > 0 THEN [s EXCEPT !.a = vli_rshift1(vli_sub(s.a, s.b).v),
                                      !.u = Halved(Reduced(s.u, s.v, s.mod), s.mod)]
         ELSE [s EXCEPT !.b = vli_rshift1(vli_sub(s.b, s.a).v), !.v = Halved(Reduced(s.v, s.u, s.mod), s.mod)]]

vli_modinv(input, mod) == IF vli_iszero(input) THEN Zero
  ELSE InverseLoop[[a |-> input, b |-> mod, u |-> Native(1), v |-> Zero, mod |-> mod]]

\* Twice NumDigits digits moved right; the upper half's lowest bit goes to the lower's top.
HalfOf(wide) ==
  LET low == vli_rshift1(Low(wide)) IN
  [low EXCEPT ![NumDigits] = (@ % Top) + Top * (High(wide)[1] % 2)] \o vli_rshift1(High(wide))

\* The multiple is taken from the product where it fits, and halved.
Taken(product, multiple) ==
  LET low == vli_sub(Low(product), Low(multiple))
      high == IF low.carry = 1 THEN vli_sub(High(product), Native(1)).v ELSE High(product)
  IN low.v \o vli_sub(high, High(multiple)).v

Reducing == [product : Seq(Nat), multiple : Seq(Nat), bits : Nat, mod : Seq(Nat)]

Subtracting[s \in Reducing] ==
  LET c == vli_cmp(High(s.multiple), High(s.product))
      fits == c < 0 \/ (c = 0 /\ vli_cmp(Low(s.multiple), Low(s.product)) <= 0)
  IN IF s.bits <= NumDigits * Bits /\ vli_cmp(Low(s.multiple), s.mod) < 0 THEN Low(s.product)
     ELSE Subtracting[[s EXCEPT !.product = IF fits THEN Taken(@, s.multiple) ELSE @,
                                !.multiple = HalfOf(@), !.bits = @ - 1]]

\* The modulus moved up to the product's highest bit.
MovedUp(mod, up) ==
  LET shifted == vli_lshift(mod, up % Bits)
      wide == [i \in 1..(up \div Bits) |-> 0]
              \o IF up % Bits > 0 THEN Append(shifted.v, shifted.carry) ELSE mod
  IN [i \in 1..(2 * NumDigits) |-> IF i <= Len(wide) THEN wide[i] ELSE 0]
BitsOf(product, upper) == IF upper > 0 THEN upper + NumDigits * Bits ELSE vli_numbits(Low(product))
Remainder(product, bits, up, mod) ==
  IF up < 0 THEN Low(product)
  ELSE Subtracting[[product |-> product, multiple |-> MovedUp(mod, up), bits |-> bits, mod |-> mod]]
ModOf(product, bits, mod) == Remainder(product, bits, bits - vli_numbits(mod), mod)
ModProduct(product, mod) == ModOf(product, BitsOf(product, vli_numbits(High(product))), mod)
vli_modmult(l, r, mod) == ModProduct(vli_mult(l, r).v, mod)

-----------------------------------------------------------------------------
VliInit == call \in [l : Lefts, r : Rights] /\ result = <<>>
VliNext ==
  LET l == Native(call.l)  r == Native(call.r)
      pl == Native(call.l % CurveP)  pr == Native(call.r % CurveP)
      nl == Native(call.l % CurveN)  nr == Native(call.r % CurveN)
  IN /\ result = <<>>
     /\ result' = <<vli_add(l, r), vli_sub(l, r), vli_mult(l, r), vli_square(l), vli_cmp(l, r), vli_numbits(l),
                    vli_modadd(pl, pr, curve_p), vli_modsub(pl, pr, curve_p), vli_modMult_fast(pl, pr),
                    vli_modSquare_fast(pl), vli_modinv(pl, curve_p), vli_modmult(nl, nr, curve_n),
                    vli_modinv(nl, curve_n)>>
     /\ UNCHANGED call
VliSpec == VliInit /\ [][VliNext]_<<call, result>>

Inv(a, m) == IF a = 0 THEN 0 ELSE CHOOSE b \in 1..(m - 1) : (a * b) % m = 1

\* The digits compute what the numbers say: sums and products with every carry, the
\* remainder by the folded halves, the remainder by shifted subtraction, and the inverses.
ArithmeticExact ==
  LET m == Base^NumDigits
      l == call.l  r == call.r
      pl == l % CurveP  pr == r % CurveP  nl == l % CurveN  nr == r % CurveN
  IN result # <<>> =>
     /\ result[1] = [v |-> Native(l + r), carry |-> (l + r) \div m]
     /\ result[2] = [v |-> Native((l - r) % m), carry |-> If(l < r)]
     /\ result[3].full \/ Amount(result[3].v) = l * r
     /\ result[4].full \/ Amount(result[4].v) = l * l
     /\ result[5] = IF l > r THEN 1 ELSE IF l < r THEN -1 ELSE 0
     /\ result[6] = BitsIn(l)
     /\ Amount(result[7]) = (pl + pr) % CurveP /\ Amount(result[8]) = (pl - pr) % CurveP
     /\ vli_mult(Native(pl), Native(pr)).full \/ Amount(result[9]) = (pl * pr) % CurveP
     /\ vli_square(Native(pl)).full \/ Amount(result[10]) = (pl * pl) % CurveP
     /\ vli_mult(Native(nl), Native(nr)).full \/ Amount(result[12]) = (nl * nr) % CurveN
     /\ Amount(result[11]) = Inv(pl, CurveP) /\ Amount(result[13]) = Inv(nl, CurveN)

-----------------------------------------------------------------------------
(* Keys, shared secrets and signatures (libc/crypto/ecdsa256.c) over the numbers that  *)
(* its long integers stand for (Vli).  The curve is y^2 = x^3 - 3x + B mod P, as small *)
(* as its constants make it.                                                           *)

CONSTANTS P, B, N, G,             \* curve_p, curve_b, curve_n and curve_g
          Keys, Draws,            \* the random numbers tried for a key, and elsewhere
          Hashes

Mul(a, b) == (a * b) % P
Sqr(a) == (a * a) % P
Add(a, b) == (a + b) % P
Sub(a, b) == (a - b) % P
Inverses(m) == [a \in 0..(m - 1) |-> IF a = 0 THEN 0 ELSE CHOOSE b \in 1..(m - 1) : (a * b) % m = 1]
InvP == Inverses(P)
InvN == Inverses(N)
Bit(k, i) == (k \div 2^i) % 2
NumBits(k) == IF k = 0 THEN 0 ELSE 1 + CHOOSE i \in 0..16 : 2^i <= k /\ k < 2^(i + 1)
Once(k, m) == IF k >= m THEN k - m ELSE k

eccpoint_double_jacobian(x1, y1, z1) ==
  LET t5 == Mul(x1, Sqr(y1))
      t4 == Sqr(Sqr(y1))
      y2 == Mul(y1, z1)
      zz == Sqr(z1)
      x2 == Mul(Add(x1, zz), Sub(Add(x1, zz), Add(zz, zz)))
      x3 == Add(x2, Add(x2, x2))
      x4 == IF x3 % 2 = 1 THEN (x3 + P) \div 2 ELSE x3 \div 2
      z4 == Sub(Sub(Sqr(x4), t5), t5)
  IN IF z1 = 0 THEN <<x1, y1, z1>> ELSE <<z4, Sub(Mul(x4, Sub(t5, z4)), t4), y2>>

apply_z(x, y, z) == <<Mul(x, Sqr(z)), Mul(y, Mul(Sqr(z), z))>>

\* The point and its double, with the same z.
WithDouble(x1, y1, d) == [two |-> <<d[1], d[2]>>, one |-> apply_z(x1, y1, d[3])]
xycz_initial_double(x1, y1, initialz) ==
  LET q == apply_z(x1, y1, initialz)
  IN WithDouble(x1, y1, eccpoint_double_jacobian(q[1], q[2], initialz))

\* P1 + P2, and P1 with the z of the sum.
xycz_add(p1, p2) ==
  LET t5 == Sqr(Sub(p2[1], p1[1]))
      x1 == Mul(p1[1], t5)
      x2 == Mul(p2[1], t5)
      y2 == Sub(p2[2], p1[2])
      x3 == Sub(Sub(Sqr(y2), x1), x2)
      y1 == Mul(p1[2], Sub(x2, x1))
  IN [first |-> <<x1, y1>>, second |-> <<x3, Sub(Mul(y2, Sub(x1, x3)), y1)>>]

\* P1 - P2 and P1 + P2.
xycz_addc(p1, p2) ==
  LET t5 == Sqr(Sub(p2[1], p1[1]))
      x1 == Mul(p1[1], t5)
      x2 == Mul(p2[1], t5)
      sum == Add(p2[2], p1[2])
      y2 == Sub(p2[2], p1[2])
      y1 == Mul(p1[2], Sub(x2, x1))
      t6 == Add(x1, x2)
      x3 == Sub(Sqr(y2), t6)
      x4 == Sub(Sqr(sum), t6)
  IN [first |-> <<x4, Sub(Mul(Sub(x4, x1), sum), y1)>>, second |-> <<x3, Sub(Mul(y2, Sub(x1, x3)), y1)>>]

\* The ladder's points R[0] and R[1] after bit i: nb tells which is added to which.
AddC(R, nb) == LET s == xycz_addc(R[1 - nb], R[nb]) IN ((1 - nb) :> s.first) @@ (nb :> s.second)
AddTo(R, nb) == LET s == xycz_add(R[nb], R[1 - nb]) IN (nb :> s.first) @@ ((1 - nb) :> s.second)
Ladder(scalar, R0) ==
  LET from[s \in [i : Int, R : [{0, 1} -> Seq(Nat)]]] ==
        IF s.i <= 0 THEN s.R
        ELSE LET nb == 1 - Bit(scalar, s.i) IN from[[i |-> s.i - 1, R |-> AddTo(AddC(s.R, nb), nb)]]
  IN from[[i |-> NumBits(scalar) - 2, R |-> R0]]

Both(start) == (0 :> start.one) @@ (1 :> start.two)
AtZ(p, z) == apply_z(p[1], p[2], z)
LastAdd(point, R, nb) ==
  LET z0 == Mul(Mul(Sub(R[1][1], R[0][1]), R[1 - nb][2]), point[1])
  IN AtZ(AddTo(R, nb)[0], Mul(Mul(InvP[z0], point[2]), R[1 - nb][1]))
eccpoint_mult(point, scalar, initialz) ==
  LET nb == 1 - Bit(scalar, 0)
  IN LastAdd(point, AddC(Ladder(scalar, Both(xycz_initial_double(point[1], point[2], initialz))), nb), nb)

\* The power (P + 1) / 4, from the bits of P + 1 but its last two.
mod_sqrt(a) ==
  LET power[i \in 2..17] ==
        IF i >= NumBits(P + 1) THEN 1
        ELSE Mul(Sqr(power[i + 1]), IF Bit(P + 1, i) = 1 THEN a ELSE 1)
  IN power[2]

\* A public key is the x of its point, and whether the y is odd.
ecc_point_decompress(public) ==
  LET x == public.x
      y == mod_sqrt(Add(Mul(Sub(Sqr(x), 3), x), B))
  IN <<x, IF y % 2 # public.odd THEN P - y ELSE y>>

Shared(product) == [ok |-> product # <<0, 0>>, shared |-> product[1]]
ecdh256_keygen(public, private, random) ==
  Shared(eccpoint_mult(ecc_point_decompress(public), private, random))

\* Draws of random numbers until a point is found; s.t counts them.  A zero is drawn again
\* by a `continue', which goes to the loop's test: the point it looks at is still what the
\* stack held.  The draws are one more than MAX_RETRY.
KeyDrawn(s, k) ==
  IF k = 0 THEN [s EXCEPT !.t = @ + 1, !.private = 0]
  ELSE [s EXCEPT !.t = @ + 1, !.private = Once(k, N), !.point = eccpoint_mult(G, Once(k, N), 1)]

KeyDrawing == [t : Nat, private : Nat, point : Seq(Nat), draws : Seq(Nat)]

KeyTurn[s \in KeyDrawing] ==
  IF s.t = Len(s.draws) THEN [ok |-> FALSE]
  ELSE IF s.t > 0 /\ s.point # <<0, 0>>
       THEN [ok |-> TRUE, private |-> s.private, public |-> [x |-> s.point[1], odd |-> s.point[2] % 2]]
  ELSE KeyTurn[KeyDrawn(s, s.draws[s.t + 1])]
ecdsa256_keygen(draws, stack) == KeyTurn[[t |-> 0, private |-> 0, point |-> stack, draws |-> draws]]

NonceDrawn(s, k) ==
  IF k = 0 THEN [s EXCEPT !.t = @ + 1, !.k = 0]
  ELSE [s EXCEPT !.t = @ + 1, !.k = Once(k, N), !.r = Once(eccpoint_mult(G, Once(k, N), 1)[1], N)]

NonceDrawing == [t : Nat, k : Nat, r : Nat, draws : Seq(Nat)]

NonceTurn[s \in NonceDrawing] ==
  IF s.t = Len(s.draws) THEN [ok |-> FALSE]
  ELSE IF s.t > 0 /\ s.r # 0 THEN [ok |-> TRUE, r |-> s.r, k |-> s.k]
  ELSE NonceTurn[NonceDrawn(s, s.draws[s.t + 1])]
SignedBy(e, private, hash) ==
  IF ~e.ok THEN [ok |-> FALSE]
  ELSE [ok |-> TRUE, r |-> e.r, s |-> (Once(hash + ((e.r * private) % N), N) * InvN[e.k]) % N]
ecdsa256_sign(private, hash, draws, stack) ==
  SignedBy(NonceTurn[[t |-> 0, k |-> 0, r |-> stack, draws |-> draws]], private, hash)

\* u1 * G + u2 * Q, both by one sweep over their bits.  `met' remembers that two points of
\* the same x were added, a case the formulas leave out, and is no state of the code.
SweepStep(a, d, points, index) ==
  LET t == apply_z(points[index][1], points[index][2], d[3])
      tz == Sub(d[1], t[1])
      r == xycz_add(t, <<d[1], d[2]>>).second
  IN IF index = 0 THEN [a EXCEPT !.i = @ - 1, !.x = d[1], !.y = d[2], !.z = d[3]]
     ELSE [i |-> a.i - 1, x |-> r[1], y |-> r[2], z |-> Mul(d[3], tz), met |-> a.met \/ tz = 0]
SweepOver(u1, u2, points) ==
  LET index(i) == Bit(u1, i) + 2 * Bit(u2, i)
      top == (IF NumBits(u1) > NumBits(u2) THEN NumBits(u1) ELSE NumBits(u2)) - 1
      first == points[index(top)]
      from[a \in [i : Int, x : Nat, y : Nat, z : Nat, met : BOOLEAN]] ==
        IF a.i < 0 THEN a
        ELSE from[SweepStep(a, eccpoint_double_jacobian(a.x, a.y, a.z), points, index(a.i))]
  IN from[[i |-> top - 1, x |-> first[1], y |-> first[2], z |-> 1, met |-> points[2][1] = G[1]]]
Sweep(u1, u2, Q) ==
  SweepOver(u1, u2, <<G, Q, AtZ(xycz_add(G, Q).second, InvP[Sub(Q[1], G[1])])>>)

Verdict(e, r) == [ok |-> Once(apply_z(e.x, e.y, InvP[e.z])[1], N) = r, met |-> e.met]
ecdsa256_verify(public, hash, sig) ==
  LET z == InvN[sig.s]
  IN IF sig.r = 0 \/ sig.s = 0 \/ sig.r >= N \/ sig.s >= N THEN [ok |-> FALSE, met |-> FALSE]
     ELSE Verdict(Sweep((hash * z) % N, (sig.r * z) % N, ecc_point_decompress(public)), sig.r)

-----------------------------------------------------------------------------
\* Two keys are drawn, a secret is shared, a hash is signed, and the signature is checked
\* against that hash or another.  The draws leave out the scalars 1 and N - 1, for which
\* the ladder's last sum has no inverse.
EcInit == /\ call \in [draws : {<<d, 1>> : d \in Keys} \cup {<<0, d, 1>> : d \in Draws}, other : Draws,
                       nonce : Draws, random : Draws \cap 1..(P - 1), hash : Hashes, shown : Hashes,
                       stack : {0, 1}]
          /\ result = <<>>

Dialogue(c, a, b, sig) ==
  [a |-> a, b |-> b, ab |-> ecdh256_keygen(b.public, a.private, c.random),
   ba |-> ecdh256_keygen(a.public, b.private, c.random),
   sig |-> sig, verdict |-> ecdsa256_verify(a.public, c.shown, sig)]
Signing(c, a, b) == Dialogue(c, a, b, ecdsa256_sign(a.private, c.hash, <<c.nonce, 1>>, c.stack))
EcNext ==
  /\ result = <<>>
  /\ result' = Signing(call, ecdsa256_keygen(call.draws, <<call.stack, 0>>),
                       ecdsa256_keygen(<<call.other, 1>>, <<call.stack, 0>>))
  /\ UNCHANGED call
EcSpec == EcInit /\ [][EcNext]_<<call, result>>

-----------------------------------------------------------------------------
\* The group itself: a point is a pair of coordinates, or <<>>.
Sum(p, q) ==
  LET slope == IF p = q THEN Mul(Sub(Mul(3, Sqr(p[1])), 3), InvP[Mul(2, p[2])])
               ELSE Mul(Sub(q[2], p[2]), InvP[Sub(q[1], p[1])])
      x == Sub(Sub(Sqr(slope), p[1]), q[1])
  IN IF p = <<>> THEN q ELSE IF q = <<>> THEN p
     ELSE IF p[1] = q[1] /\ Add(p[2], q[2]) = 0 THEN <<>>
     ELSE <<x, Sub(Mul(slope, Sub(p[1], x)), p[2])>>
Multiples ==
  LET m[k \in 0..(N - 1)] ==
        IF k = 0 THEN <<>> ELSE LET h == m[k \div 2] IN Sum(Sum(h, h), IF k % 2 = 1 THEN G ELSE <<>>)
  IN m
Multiple(k) == Multiples[k % N]

\* A private key's public key is its multiple of the base point; two parties share the same
\* secret; and a signature is accepted exactly when the group's equation holds of the hash
\* shown, unless the sweep met the sum of two points of one x.  Left out is a first draw of
\* zero over a stack that looks like a point.
KeysAndSignaturesRight ==
  LET r == result  d == r.a.private  e == r.b.private IN
  result # <<>> /\ ~(call.draws[1] = 0 /\ call.stack # 0) =>
    /\ ecc_point_decompress(r.a.public) = Multiple(d)
    /\ r.ab.ok /\ r.ba.ok /\ r.ab.shared = Multiple(d * e)[1] /\ r.ba.shared = r.ab.shared
    /\ r.sig.ok
    /\ r.sig.s # 0 /\ ~r.verdict.met =>
         LET z == InvN[r.sig.s]
             R == Multiple(call.shown * z + ((r.sig.r * z) % N) * d)
         IN /\ r.verdict.ok = (R # <<>> /\ Once(R[1], N) = r.sig.r)
            /\ call.shown = call.hash => r.verdict.ok
=============================================================================
