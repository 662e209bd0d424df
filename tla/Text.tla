-------------------------------- MODULE Text --------------------------------
(***************************************************************************)
(* The string functions of src/app/utils/strings.c and jsonobj.c, and what *)
(* the page parsers of src/app/controller make of them.                    *)
(*                                                                         *)
(* A string is the sequence of its bytes without the NUL; places count     *)
(* from 0 as in C, and the byte at the end is 0.  Reading further is not   *)
(* modelled: a result that points behind the NUL shows as a place greater  *)
(* than the length.  Each function is compared with what its comment says, *)
(* for every input that is built byte by byte (Grow).                      *)
(***************************************************************************)
EXTENDS Dht11, FiniteSets, Functions, Bitwise

CONSTANTS
  Sources,      \* bytes of the strings that are searched
  Needles,      \* bytes of the strings that are looked for
  MaxSource, MaxNeedle, MaxPacket, MaxDescription,   \* bounds: their lengths
  Numbers,      \* integers to convert
  Points,       \* code points to encode and decode
  Sizes,        \* lengths of utf16.lut, in entries
  Packets,      \* bytes of the packets that are summed
  Descriptions, \* code points of the words for the weather
  Words,        \* keys and values of JSON objects
  MaxPairs,     \* bound: pairs of an object
  Lows, Zeros, Ones,   \* lengths of the parts of the sensor's pulses, us
  MaxBits       \* bound: bits of a reading

ASSUME TextAssumption ==
  /\ Sources \cup Needles \subseteq 1..255
  /\ {MaxSource, MaxNeedle, MaxPacket, MaxDescription, MaxPairs} \subseteq Nat
  /\ Packets \subseteq 0..255 /\ Descriptions \subseteq 1..1114111
  /\ {MaxBits} \cup Lows \cup Zeros \cup Ones \subseteq Nat
  /\ Numbers \subseteq Int /\ Points \subseteq 1..1114111 /\ Sizes \subseteq Nat

VARIABLE input

NUL == 0
TAB == 9
LF == 10
CR == 13
SPACE == 32
QUOTE == 34
MINUS == 45
COLON == 58
COMMA == 44

At(str, i) == IF i < Len(str) THEN str[i + 1] ELSE NUL
From(str, i) == SubSeq(str, i + 1, Len(str))
Part(str, from, to) == SubSeq(str, from + 1, to)
First(places) == IF places = {} THEN -1 ELSE Min(places)

-----------------------------------------------------------------------------
(***************************************************************************)
(* strings.c: searching.                                                   *)
(***************************************************************************)

charAt(str, ch) == First({i \in 0..Len(str) - 1 : At(str, i) = ch})

charAtSkip(str, ch) == IF charAt(str, ch) = -1 THEN -1 ELSE charAt(str, ch) + 1

lastIndexOf(str, ch) == Max({-1} \cup {i \in 0..Len(str) - 1 : At(str, i) = ch})

\* Seeded bug: a line that ends in LF alone is left behind its first character.
nextLineMutant(str) ==
  LET at == First({i \in 0..Len(str) - 1 : At(str, i) \in {CR, LF}})
  IN  IF at = -1 THEN -1 ELSE at + 2

\* nextLine: a CR is taken for two bytes, whatever follows it.
nextLine(str) ==
  LET at == First({i \in 0..Len(str) - 1 : At(str, i) \in {CR, LF}})
  IN  CASE at = -1 -> -1
        [] At(str, at) = CR -> at + 2
        [] OTHER -> at + 1

\* subString: nothing is copied when the string is over at both places.
subString(str, from, to) ==
  IF to < from \/ At(str, from) + At(str, to) = 0 THEN [status |-> "FAIL", dest |-> <<>>]
  ELSE [status |-> "OK", dest |-> Part(str, from, to)]

\* startsWith, startsWithStr and compareWith.
startsWith(src, prefix) == \A i \in 0..Len(prefix) - 1 : At(src, i) = At(prefix, i)

\* c | 0x20
Lower(c) == IF ((c \div 32) % 2) = 0 THEN c + 32 ELSE c
startsWithStrIgnoreCase(src, prefix) ==
  \A i \in 0..Len(prefix) - 1 : Lower(At(src, i)) = Lower(At(prefix, i))

IsBlank(c) == c \in {SPACE, TAB}

\* The first place that holds no blank.
Indent(str) == Min({i \in 0..Len(str) : ~IsBlank(At(str, i))})

startWithEx(src, prefix) ==
  IF startsWith(From(src, Indent(src)), prefix) THEN Indent(src) ELSE -1

compareWithEx(src, target) == startsWith(target, src)

replaceWith(src, ch, new) == [i \in DOMAIN src |-> IF src[i] = ch THEN new ELSE src[i]]

\* trim, of the text between the blanks.  Of a text of one character it fails, and
\* of an empty one "end" wraps and nothing is moved.
trim(src) ==
  LET start == Indent(src)
      end == Max({start} \cup {i \in start..Len(src) - 1 : ~IsBlank(At(src, i))})
  IN  CASE src = <<>> -> [status |-> "OK", str |-> <<>>]
        [] end > start -> [status |-> "OK", str |-> Part(src, start, end + 1)]
        [] OTHER -> [status |-> "FAIL", str |-> src]

strlenEx(str, max) == Min({Len(str), max})

\* getNext and generateNext: the table of the Knuth-Morris-Pratt search, from the
\* entries before.
getNext(match) ==
  LET pNext[i \in 0..Len(match) - 1] ==
        LET fit[j \in 0..i - 1] ==
              CASE At(match, i) = At(match, pNext[j]) -> pNext[j] + 1
                [] pNext[j] = 0 -> 0
                [] OTHER -> fit[pNext[j] - 1]
        IN  IF i = 0 THEN 0 ELSE fit[i - 1]
  IN  pNext

\* The loop of contains and of keyAt, at place i of src and j of sub.
keyAt(src, sub) ==
  LET pNext == getNext(sub)
      walk[i \in 0..Len(src), j \in 0..Len(sub)] ==
        CASE j = Len(sub) -> i - j
          [] i = Len(src) -> -1
          [] At(src, i) = At(sub, j) -> walk[i + 1, j + 1]
          [] j = 0 -> walk[i + 1, 0]
          [] OTHER -> walk[i, pNext[j - 1]]
  IN  walk[0, 0]

KMP_SUB_MAX_LENGTH == 18

contains(src, sub) == IF Len(sub) > KMP_SUB_MAX_LENGTH THEN -1 ELSE keyAt(src, sub)

\* How the recvCallbacks look for a tag: the lines from the cursor on, until one
\* begins with it.
FindTag(page, tag) ==
  LET line[cursor \in 0..Len(page) + 1] ==
        LET rest == From(page, cursor)
        IN  CASE startWithEx(rest, tag) # -1 -> cursor + startWithEx(rest, tag)
              [] nextLine(rest) = -1 -> -1
              [] OTHER -> line[cursor + nextLine(rest)]
  IN  line[0]

-----------------------------------------------------------------------------
(***************************************************************************)
(* strings.c: conversions.                                                 *)
(***************************************************************************)

\* Code points: UTF-8 as its table has it (strings.c:121).
Cont(c, shift) == 128 + ((c \div shift) % 64)
Utf8(c) ==
  CASE c < 128 -> <<c>>
    [] c \in 128..2047 -> <<192 + (c \div 64), Cont(c, 1)>>
    [] c \in 2048..65535 -> <<224 + (c \div 4096), Cont(c, 64), Cont(c, 1)>>
    [] OTHER -> <<240 + (c \div 262144), Cont(c, 4096), Cont(c, 64), Cont(c, 1)>>

PARSE_ERROR == [length |-> 0, unicode |-> 0]

\* mask_lut: the bits of the first byte that belong to the code.
LeadBits(b) == IF b < 224 THEN b % 32 ELSE IF b < 240 THEN b % 16 ELSE b % 8

\* UTF8ToUnicode.
UTF8ToUnicode(str) ==
  LET b == At(str, 0)
      length == IF b < 224 THEN 2 ELSE IF b < 240 THEN 3 ELSE 4
      code[i \in 1..length] ==
        IF i = 1 THEN LeadBits(b) ELSE code[i - 1] * 64 + (At(str, i - 1) % 64)
  IN  CASE b < 128 -> [length |-> 1, unicode |-> b]
        [] b < 192 \/ b >= 248 -> PARSE_ERROR
        [] \E i \in 1..length - 1 : At(str, i) \notin 128..191 -> PARSE_ERROR
        [] OTHER -> [length |-> length, unicode |-> code[length]]

\* UnicodeToUTF16: one unit, two, or none beyond 0xEFFFF.
UnicodeToUTF16(unicode) ==
  CASE unicode <= 65535 -> <<unicode>>
    [] unicode <= 983039 -> <<55296 + (unicode \div 1024) - 64, 56320 + (unicode % 1024)>>
    [] OTHER -> <<>>

\* endianSwap of the lowest bytes of a value, which is a sequence of them here.
endianSwap(bytes) == Reverse(bytes)

Digit(str, i) ==
  LET ch == At(str, i)
  IN  IF ch \in 48..57 THEN ch - 48 ELSE IF ch \in 97..102 THEN ch - 87
      ELSE IF ch \in 65..70 THEN ch - 55 ELSE 0

\* byteStrTohex.
byteStrTohex(str) == Digit(str, 0) * 16 + Digit(str, 1)

\* One round of QueryGB2312ByUnicode in a table of "group" entries; the code that is
\* looked for is that of entry "at".  It stops without a comparison at the first
\* entry and at the last.
Halve(s, group, at) ==
  IF s.middle <= 0 \/ s.middle >= group - 1 \/ s.middle = at THEN s
  ELSE IF at < s.middle
  THEN [s EXCEPT !.end = s.middle, !.middle = s.middle - (s.middle - s.start) \div 2]
  ELSE [s EXCEPT !.start = s.middle, !.middle = s.middle + (s.end - s.middle) \div 2]

\* QueryGB2312ByUnicode for a code of the table, after n rounds: the entry it is at.
QueryGB2312ByUnicode(group, at, n) ==
  LET rounds[k \in 0..n] ==
        IF k = 0 THEN [start |-> -1, middle |-> group \div 2, end |-> group]
        ELSE Halve(rounds[k - 1], group, at)
  IN  rounds[n].middle

Decimal(n) ==
  LET text[k \in Nat] == IF k < 10 THEN <<48 + k>> ELSE text[k \div 10] \o <<48 + (k % 10)>>
  IN  text[n]

\* integer2String into a buffer of that length, the NUL included.
integer2String(value, length) ==
  LET num == IF value < 0 THEN -value ELSE value
      str == (IF value < 0 THEN <<MINUS>> ELSE <<>>) \o Decimal(num)
  IN  IF Len(str) + 1 > length THEN [count |-> -1, str |-> <<>>]
      ELSE [count |-> Len(str), str |-> str]

-----------------------------------------------------------------------------
(***************************************************************************)
(* crc16.c, misc.c, hardware.c and context.c.                              *)
(***************************************************************************)

crc16tab == <<
  \h0000, \h1021, \h2042, \h3063, \h4084, \h50a5, \h60c6, \h70e7, \h8108, \h9129, \ha14a, \hb16b, \hc18c, \hd1ad, \he1ce, \hf1ef,
  \h1231, \h0210, \h3273, \h2252, \h52b5, \h4294, \h72f7, \h62d6, \h9339, \h8318, \hb37b, \ha35a, \hd3bd, \hc39c, \hf3ff, \he3de,
  \h2462, \h3443, \h0420, \h1401, \h64e6, \h74c7, \h44a4, \h5485, \ha56a, \hb54b, \h8528, \h9509, \he5ee, \hf5cf, \hc5ac, \hd58d,
  \h3653, \h2672, \h1611, \h0630, \h76d7, \h66f6, \h5695, \h46b4, \hb75b, \ha77a, \h9719, \h8738, \hf7df, \he7fe, \hd79d, \hc7bc,
  \h48c4, \h58e5, \h6886, \h78a7, \h0840, \h1861, \h2802, \h3823, \hc9cc, \hd9ed, \he98e, \hf9af, \h8948, \h9969, \ha90a, \hb92b,
  \h5af5, \h4ad4, \h7ab7, \h6a96, \h1a71, \h0a50, \h3a33, \h2a12, \hdbfd, \hcbdc, \hfbbf, \heb9e, \h9b79, \h8b58, \hbb3b, \hab1a,
  \h6ca6, \h7c87, \h4ce4, \h5cc5, \h2c22, \h3c03, \h0c60, \h1c41, \hedae, \hfd8f, \hcdec, \hddcd, \had2a, \hbd0b, \h8d68, \h9d49,
  \h7e97, \h6eb6, \h5ed5, \h4ef4, \h3e13, \h2e32, \h1e51, \h0e70, \hff9f, \hefbe, \hdfdd, \hcffc, \hbf1b, \haf3a, \h9f59, \h8f78,
  \h9188, \h81a9, \hb1ca, \ha1eb, \hd10c, \hc12d, \hf14e, \he16f, \h1080, \h00a1, \h30c2, \h20e3, \h5004, \h4025, \h7046, \h6067,
  \h83b9, \h9398, \ha3fb, \hb3da, \hc33d, \hd31c, \he37f, \hf35e, \h02b1, \h1290, \h22f3, \h32d2, \h4235, \h5214, \h6277, \h7256,
  \hb5ea, \ha5cb, \h95a8, \h8589, \hf56e, \he54f, \hd52c, \hc50d, \h34e2, \h24c3, \h14a0, \h0481, \h7466, \h6447, \h5424, \h4405,
  \ha7db, \hb7fa, \h8799, \h97b8, \he75f, \hf77e, \hc71d, \hd73c, \h26d3, \h36f2, \h0691, \h16b0, \h6657, \h7676, \h4615, \h5634,
  \hd94c, \hc96d, \hf90e, \he92f, \h99c8, \h89e9, \hb98a, \ha9ab, \h5844, \h4865, \h7806, \h6827, \h18c0, \h08e1, \h3882, \h28a3,
  \hcb7d, \hdb5c, \heb3f, \hfb1e, \h8bf9, \h9bd8, \habbb, \hbb9a, \h4a75, \h5a54, \h6a37, \h7a16, \h0af1, \h1ad0, \h2ab3, \h3a92,
  \hfd2e, \hed0f, \hdd6c, \hcd4d, \hbdaa, \had8b, \h9de8, \h8dc9, \h7c26, \h6c07, \h5c64, \h4c45, \h3ca2, \h2c83, \h1ce0, \h0cc1,
  \hef1f, \hff3e, \hcf5d, \hdf7c, \haf9b, \hbfba, \h8fd9, \h9ff8, \h6e17, \h7e36, \h4e55, \h5e74, \h2e93, \h3eb2, \h0ed1, \h1ef0
  >>

\* Seeded bug: the high byte of the sum so far is left out.
crc16_ccittMutant(buf) ==
  FoldLeft(LAMBDA crc, b : ((crc * 256) % 65536) ^^ crc16tab[b + 1], 0, buf)

crc16_ccitt(buf) ==
  FoldLeft(LAMBDA crc, b : ((crc * 256) % 65536) ^^ crc16tab[((crc \div 256) ^^ b) + 1], 0, buf)

\* dumpURL: the bytes of an address under those of XorTable, over and over.
dumpURL(bytes, xorTable) == [i \in DOMAIN bytes |-> bytes[i] ^^ xorTable[((i - 1) % 8) + 1]]

\* PATTERN and MATCHS: sunny, thunder, rain, cloud, snow, overcast, fog and wind.
PATTERN == <<26228, 38647, 38632, 20113, 38634, 38452, 38654, 39118>>
MATCHS == <<0, 4, 6, 1, 14, 2, 20, 30>>

\* matchWeatherId of a description in UTF-8.
matchWeatherId(desc) ==
  LET found == {i \in DOMAIN PATTERN : contains(desc, Utf8(PATTERN[i])) # -1}
  IN  IF Len(desc) < 3 \/ found = {} THEN 127 ELSE MATCHS[Min(found)]

MIN_RSSI == -100
MAX_RSSI == -55

calculateSignalLevel(rssi, numLevels) ==
  IF rssi <= MIN_RSSI THEN 0
  ELSE IF rssi >= MAX_RSSI THEN numLevels - 1
  ELSE ((rssi - MIN_RSSI) * (numLevels - 1)) \div (MAX_RSSI - MIN_RSSI)

\* batlut, in units of 10 mV, and hw_get_battery_level of the divided voltage.
batlut == <<368, 374, 377, 379, 382, 387, 392, 398, 406, 410, 450>>
hw_get_battery_level(level) ==
  LET below == {i \in DOMAIN batlut : level * 9765 * 61 < batlut[i] * 1000000}
  IN  10 * (IF below = {} THEN Len(batlut) ELSE Min(below) - 1)

-----------------------------------------------------------------------------
(***************************************************************************)
(* jsonobj.c.                                                              *)
(***************************************************************************)

JSON_KEY_MAX_LENGTH == 32

\* The loop of getString and getInt: the place behind the letters of the key where
\* they stand between quotes, -1 when they never do.
ValueAt(json, key) ==
  LET len == Len(key)
      after[offset \in 0..Len(json) + 2] ==
        LET find == keyAt(From(json, offset), key)
            at == offset + find
        IN  CASE find = -1 -> -1
              [] at > 0 /\ At(json, at - 1) = QUOTE /\ At(json, at + len) = QUOTE -> at + len
              [] OTHER -> after[at + len + 1]
  IN  IF len > JSON_KEY_MAX_LENGTH THEN -1 ELSE after[0]

\* getString: what stands between the place three on and the next quote; <<NUL>> is
\* NULL.  The result buffer is taken to be large enough: its size is not looked at.
getString(json, key) ==
  LET at == ValueAt(json, key)
      text == From(json, at + 3)
      total == charAt(text, QUOTE)
  IN  IF at = -1 \/ total = -1 THEN <<NUL>> ELSE Part(text, 0, total)

\* atoi, of the digits at the beginning.
atoi(str) ==
  LET digits == Min({i \in 0..Len(str) : At(str, i) \notin 48..57})
      value[n \in 0..digits] == IF n = 0 THEN 0 ELSE value[n - 1] * 10 + At(str, n - 1) - 48
  IN  value[digits]

\* getInt: the number may stand between quotes.
getInt(json, key) ==
  LET at == ValueAt(json, key)
      tag == At(json, at + 2)
  IN  IF at = -1 THEN 0
      ELSE atoi(From(json, IF tag \in 48..57 THEN at + 2 ELSE at + 3))

\* The text of an object: {"key":"value","key":"value"}, and with its numbers bare.
Quoted(word) == <<QUOTE>> \o word \o <<QUOTE>>
Bare(word) == IF word[1] \in 48..57 THEN word ELSE Quoted(word)
Json(Value(_), pairs) ==
  LET body[i \in 0..Len(pairs)] ==
        IF i = 0 THEN <<>>
        ELSE body[i - 1] \o (IF i = 1 THEN <<>> ELSE <<COMMA>>)
               \o Quoted(pairs[i][1]) \o <<COLON>> \o Value(pairs[i][2])
  IN  <<123>> \o body[Len(pairs)] \o <<125>>

-----------------------------------------------------------------------------
(***************************************************************************)
(* The inputs.                                                             *)
(***************************************************************************)

Init ==
  \/ input = [kind |-> "search", src |-> <<>>, sub |-> <<>>]
  \/ input = [kind |-> "json", pairs |-> <<>>]
  \/ input = [kind |-> "packet", buf |-> <<>>]
  \/ input = [kind |-> "weather", desc |-> <<>>]
  \/ input = [kind |-> "pulses", pulses |-> <<>>]
  \/ input = [kind |-> "reading", bytes |-> <<>>]
  \/ \E n \in Numbers : input = [kind |-> "number", value |-> n]
  \/ \E c \in Points : input = [kind |-> "point", code |-> c]
  \/ \E g \in Sizes : \E at \in 1..g - 2 : input = [kind |-> "table", group |-> g, at |-> at]

Grow ==
  \/ /\ input.kind = "search"
     /\ Len(input.src) < MaxSource
     /\ \E c \in Sources : input' = [input EXCEPT !.src = Append(@, c)]
  \/ /\ input.kind = "search"
     /\ Len(input.sub) < MaxNeedle
     /\ \E c \in Needles : input' = [input EXCEPT !.sub = Append(@, c)]
  \/ /\ input.kind = "json"
     /\ Len(input.pairs) < MaxPairs
     /\ \E p \in Words \X Words : input' = [input EXCEPT !.pairs = Append(@, p)]
  \/ /\ input.kind = "packet"
     /\ Len(input.buf) < MaxPacket
     /\ \E b \in Packets : input' = [input EXCEPT !.buf = Append(@, b)]
  \/ /\ input.kind = "weather"
     /\ Len(input.desc) < MaxDescription
     /\ \E c \in Descriptions : input' = [input EXCEPT !.desc = Append(@, c)]
  \/ /\ input.kind = "pulses"
     /\ Len(input.pulses) < MaxBits
     /\ \E low \in Lows, high \in Zeros \cup Ones :
          input' = [input EXCEPT !.pulses = Append(@, [low |-> low, high |-> high])]
  \/ /\ input.kind = "reading"
     /\ Len(input.bytes) < 4
     /\ \E b \in Packets : input' = [input EXCEPT !.bytes = Append(@, b)]

Spec == Init /\ [][Grow]_input

-----------------------------------------------------------------------------
(***************************************************************************)
(* Properties.                                                             *)
(***************************************************************************)

Is(kind) == input.kind = kind

Occurs(src, sub, i) == i + Len(sub) <= Len(src) /\ Part(src, i, i + Len(sub)) = sub

\* contains and keyAt find the first place of a sub-string (strings.c:444,
\* jsonobj.c:117), also where a match begins inside one that failed.
SearchIsExact ==
  Is("search") /\ input.sub # <<>> =>
    contains(input.src, input.sub) = First({i \in 0..Len(input.src) : Occurs(input.src, input.sub, i)})

\* The first place and the last are those of the character (strings.c:229, 253), a
\* name is compared whatever the case of its letters, and no blank that is replaced
\* is left.
PlacesAgree ==
  Is("search") =>
    LET src == input.src
        upper == [i \in DOMAIN input.sub |-> input.sub[i] - 32]
        joined == replaceWith(src, SPACE, input.sub[1])
    IN  /\ \A c \in Sources :
             lastIndexOf(src, c) = IF charAt(src, c) = -1 THEN -1
                                   ELSE Len(src) - 1 - charAt(Reverse(src), c)
        /\ startsWithStrIgnoreCase(src, upper) = compareWithEx(input.sub, src)
        /\ compareWithEx(input.sub, src) = Occurs(src, input.sub, 0)
        /\ input.sub # <<>> => charAt(joined, SPACE) = -1 /\ strlenEx(joined, MaxSource) = Len(src)

\* A line begins after a LF or a CR LF.
LineStarts(page) ==
  {0} \cup {i \in 1..Len(page) - 1 : At(page, i - 1) = LF}

\* A CR that does not stand before a LF: nextLine would step over what follows it.
LoneCR(page) == \E i \in 0..Len(page) - 1 : At(page, i) = CR /\ At(page, i + 1) # LF

\* The parsers find a tag in the first line that begins with it, behind blanks
\* (itianqi7_request.c:61), in pages whose lines end in LF or CR LF.
TagIsFound ==
  Is("search") /\ input.sub # <<>> /\ ~LoneCR(input.src) /\ ~IsBlank(input.sub[1])
               /\ (\A k \in DOMAIN input.sub : input.sub[k] \notin {CR, LF}) =>
    LET starts == {i \in LineStarts(input.src) : startWithEx(From(input.src, i), input.sub) # -1}
    IN  FindTag(input.src, input.sub) =
          IF starts = {} THEN -1
          ELSE Min(starts) + Indent(From(input.src, Min(starts)))

\* trim takes the blanks from both ends and nothing else (strings.c:406), of every
\* text with two characters between them.
TrimKeepsText ==
  Is("search") =>
    LET text == {i \in DOMAIN input.src : ~IsBlank(input.src[i])}
    IN  Cardinality(text) > 1 =>
          trim(input.src).str = SubSeq(input.src, Min(text), Max(text))

\* The icon of a description is that of the first word of the table it holds
\* (misc.c:47), whatever characters stand around it: a match never begins inside
\* the bytes of another character.
IconIsOfAWord ==
  Is("weather") =>
    LET bytes == FlattenSeq([i \in DOMAIN input.desc |-> Utf8(input.desc[i])])
        words == {i \in DOMAIN PATTERN : PATTERN[i] \in ToSet(input.desc)}
    IN  matchWeatherId(bytes) = IF words = {} THEN 127 ELSE MATCHS[Min(words)]

\* The remainder of the packet's bits by x16+x12+x5+1 (crc16.c:39), bit by bit.
Remainder(buf) ==
  LET Shift(r) == IF r >= 32768 THEN ((r * 2) % 65536) ^^ 4129 ELSE r * 2
      round[n \in 0..8, r \in 0..65535] == IF n = 0 THEN r ELSE Shift(round[n - 1, r])
  IN  FoldLeft(LAMBDA r, b : round[8, r ^^ (b * 256)], 0, buf)

\* crc16_ccitt is the sum its comment names, and a packet of which one byte, or two
\* beside each other, are not what was sent has another sum.
SumIsCcitt ==
  Is("packet") =>
    LET buf == input.buf
    IN  /\ crc16_ccitt(buf) = Remainder(buf)
        /\ \A i \in 1..Len(buf) - 1 : \A b, c \in Packets :
             LET other == [buf EXCEPT ![i] = b, ![i + 1] = c]
             IN  other # buf => crc16_ccitt(other) # crc16_ccitt(buf)

\* What is written in UTF-8 is read back, of any length, and a code that is cut
\* off is refused (strings.c:134); UTF-16 keeps it, up to 0xEFFFF.
Utf8IsRead ==
  Is("point") =>
    LET c == input.code
        units == UnicodeToUTF16(c)
    IN  /\ UTF8ToUnicode(Utf8(c)) = [length |-> Len(Utf8(c)), unicode |-> c]
        /\ \A n \in 1..Len(Utf8(c)) - 1 : UTF8ToUnicode(Part(Utf8(c), 0, n)) = PARSE_ERROR
        /\ Len(units) = 2 =>
             /\ units[1] \in 55296..56319 /\ units[2] \in 56320..57343
             /\ (units[1] - 55296) * 1024 + units[2] - 56320 + 65536 = c

\* The search in utf16.lut ends, and at the entry that is asked for (strings.c:98), but
\* for the first entry and the last, which are not compared: no table needs more
\* rounds than twice its entries, and a round that finds the entry changes nothing.
TableIsSearched ==
  Is("table") => QueryGB2312ByUnicode(input.group, input.at, 2 * input.group) = input.at

\* integer2String writes what atoi reads, if it fits with its NUL (strings.c:525).  The
\* least integer, whose absolute value no integer of TLC holds, is not among Numbers.
NumberIsWritten ==
  Is("number") =>
    \A length \in 0..12 :
      LET n == input.value
          result == integer2String(n, length)
      IN  IF result.count = -1 THEN Len(integer2String(n, 12).str) >= length
          ELSE /\ result.count = Len(result.str) /\ result.count < length
               /\ atoi(IF n < 0 THEN Tail(result.str) ELSE result.str) = IF n < 0 THEN -n ELSE n

\* getString returns the value of a key (jsonobj.c:41), also when the key is a part
\* of other words, in objects in which no value is the key itself; getInt reads a
\* number with quotes around it (jsonobj.c:95) and without.
JsonIsRead ==
  Is("json") =>
    \A i \in DOMAIN input.pairs :
      LET key == input.pairs[i][1]
      IN  (\A j \in DOMAIN input.pairs : (j # i => input.pairs[j][1] # key) /\ input.pairs[j][2] # key) =>
            /\ getString(Json(Quoted, input.pairs), key) = input.pairs[i][2]
            /\ \A json \in {Json(Quoted, input.pairs), Json(Bare, input.pairs)} :
                 getInt(json, key) = atoi(input.pairs[i][2])

\* A stronger signal and a fuller battery never show a lower level; the levels are
\* those there are pictures for (misc.c:109, hardware.c:12), but for a battery above
\* 4.50 V, whose level is 110.
LevelsRise ==
  Is("number") =>
    LET n == input.value
        bars == calculateSignalLevel(n, 4)
        battery == hw_get_battery_level(n)
    IN  /\ n \in -128..127 => bars \in 0..3 /\ calculateSignalLevel(n + 1, 4) - bars \in {0, 1}
        /\ n \in 0..1023 =>
             /\ battery \in {10 * i : i \in 0..11} /\ hw_get_battery_level(n + 1) >= battery
             /\ n * 9765 * 61 < 450 * 1000000 => battery <= 100

\* An address is hidden by the same bytes that show it (context.c:68), and bytes
\* that are swapped twice are as before.
AddressIsShown ==
  Is("packet") =>
    LET hidden == dumpURL(input.buf, <<1, 18, 52, 128, 170, 255, 0, 90>>)
    IN  /\ dumpURL(hidden, <<1, 18, 52, 128, 170, 255, 0, 90>>) = input.buf
        /\ endianSwap(endianSwap(input.buf)) = input.buf

\* Every bit of the sensor is read whatever came before it, in pulses as long as the
\* comments give them (dht11.c:45-54); a reading in which one bit of the bytes or of
\* their sum is wrong does not replace the one before.
SensorIsRead ==
  /\ Is("pulses") =>
       ReadBits(input.pulses) = [i \in DOMAIN input.pulses |-> IF input.pulses[i].high \in Ones THEN 1 ELSE 0]
  /\ Is("reading") /\ Len(input.bytes) = 4 =>
       LET sum == SumOf(input.bytes)
           Flip(b, bit) == b ^^ (2 ^ bit)
           Kept(bytes, fifth) == DHT11Refresh("before", 0, 1, bytes, fifth)
       IN  /\ Kept(input.bytes, sum) = input.bytes
           /\ DHT11Refresh("before", 1, 1, input.bytes, sum) = "before"
           /\ \A bit \in 0..7 :
                /\ Kept(input.bytes, Flip(sum, bit)) = "before"
                /\ \A i \in 1..4 : Kept([input.bytes EXCEPT ![i] = Flip(@, bit)], sum) = "before"

\* The words of pages, packets and descriptions are found where they stand.
FoundAsWritten == SearchIsExact /\ PlacesAgree /\ TagIsFound /\ TrimKeepsText /\ IconIsOfAWord

\* What one function writes the other reads, and a sum tells when it is not what
\* was sent.
ReadAsWritten ==
  /\ Utf8IsRead /\ TableIsSearched /\ NumberIsWritten /\ LevelsRise
  /\ JsonIsRead /\ SumIsCcitt /\ AddressIsShown /\ SensorIsRead

=============================================================================
