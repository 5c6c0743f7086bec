-------------------------------- MODULE Shox96 --------------------------------
(****************************************************************************)
(* The Shox96 codec (shox96_0_2.cpp) behind the SQL functions shox96_0_2c   *)
(* and shox96_0_2d of esp8266.cpp: a text goes in, the blob it is stored as *)
(* comes out, and that blob is decoded again.                               *)
(*                                                                          *)
(* Both ends keep state from one character to the next (the compressor its  *)
(* state, is_all_upper and c_prev, the decompressor dstate and              *)
(* is_all_upper) and must change it at the same places, so each pass of     *)
(* either loop is one step.  The branches of the compressor's loop are      *)
(* actions: Repeat, MatchWithin, MatchEarlier, Literal; so are those of the *)
(* decompressor: Control, Emit, CopyWithin, CopyEarlier, CopyRepeat.        *)
(*                                                                          *)
(* A character is its ASCII code, the compressed blob a sequence of bits;   *)
(* positions (l, bit_no) count from 0 as in the code.                       *)
(****************************************************************************)
EXTENDS Integers, Sequences, FiniteSetsExt

CONSTANTS
    NICE_LEN_FOR_PRIOR,  \* shortest repetition worth coding, within the text
    NICE_LEN_FOR_OTHER,  \* the same, in an earlier line
    VarintBase,          \* 2^7: a byte of the varint carries 7 bits of the length
    Texts,               \* the texts given to shox96_0_2c
    EarlierLines         \* the prev_lines lists both functions may be called with

ASSUME NiceLenAssumption == /\ NICE_LEN_FOR_PRIOR \in Nat \ {0}
                            /\ NICE_LEN_FOR_OTHER \in Nat \ {0, 1}
ASSUME VarintBaseAssumption == VarintBase \in Nat \ {0, 1}
ASSUME TextsAssumption == Texts \subseteq Seq(0 .. 127)
ASSUME EarlierLinesAssumption == EarlierLines \subseteq Seq(Seq(1 .. 127))

VARIABLES
    pc,            \* "idle", "compress", "compressed", "decompress", "done" or "null"
    text,          \* in of shox96_0_2_compress
    prev_lines,    \* the earlier lines, the nearest first; << >> is NULL
    l,             \* position of the pass in text
    c_prev,        \* the character the compressor takes for the previous one
    state,         \* 1 or 2: SHX_STATE_1 or SHX_STATE_2
    is_all_upper,  \* a run of capitals is being coded, or decoded
    bits,          \* out of the compressor, in of the decompressor
    header,        \* the varint before it in the blob, a sequence of bytes
    bit_no,        \* position of the decompressor in bits
    dstate,        \* the set it takes unprefixed codes from
    out            \* its output

vars == <<pc, text, prev_lines, l, c_prev, state, is_all_upper,
          bits, header, bit_no, dstate, out>>
coder == <<l, c_prev, state>>
decoder == <<bit_no, dstate, out>>
call == <<text, prev_lines, header>>

IsUpper(c) == c \in 65 .. 90
IsLower(c) == c \in 97 .. 122
IsDigit(c) == c \in 48 .. 57
SPACE == 32
CR == 13
LF == 10
TAB == 9
\* Sets of the decompressor's table, by index.
SET1 == 0
SET1B == 2
SET2 == 3

(****************************************************************************)
(* The compressor.                                                          *)
(****************************************************************************)
c_95 == <<16384, 16256, 15744, 16192, 15328, 15344, 15360, 16064, 15264,
    15296, 15712, 15200, 14976, 15040, 14848, 15104, 14528, 14592, 14656,
    14688, 14720, 14752, 14784, 14816, 14832, 14464, 15552, 15488, 15616,
    15168, 15680, 16000, 15872, 10752, 8576, 8192, 8320, 9728, 8672, 8608,
    8384, 11264, 9024, 8992, 12160, 8544, 11520, 11008, 8512, 9008, 12032,
    11776, 10240, 8448, 8960, 8640, 9040, 8688, 9048, 15840, 16288, 15856,
    16128, 16224, 16368, 40960, 6144, 0, 2048, 24576, 7680, 6656, 3072, 49152,
    13312, 12800, 63488, 5632, 53248, 45056, 5120, 13056, 61440, 57344, 32768,
    4096, 12288, 7168, 13568, 7936, 13696, 15776, 16320, 15808, 16352>>
l_95 == <<3, 11, 11, 11, 12, 12, 9, 10, 11, 11, 11, 11, 10, 10, 9, 10, 10, 10,
    11, 11, 11, 11, 11, 12, 12, 10, 10, 10, 10, 11, 11, 10, 9, 8, 11, 9, 10, 7,
    12, 11, 10, 8, 12, 12, 9, 11, 8, 8, 11, 12, 9, 8, 7, 10, 11, 11, 13, 12, 13,
    12, 11, 12, 10, 11, 12, 4, 7, 5, 6, 3, 8, 7, 6, 4, 8, 8, 5, 7, 4, 4, 7, 8,
    5, 4, 3, 6, 7, 7, 9, 8, 9, 11, 11, 11, 12>>

\* The first 42 characters of SET2_STR: the digits and all punctuation but `.
Set2Chars == ((32 .. 64) \cup (91 .. 95) \cup (123 .. 126))

\* The clen leading bits of a 16 bit code.
Bits(code, clen) == [k \in 1 .. clen |-> (code \div 2 ^ (16 - k)) % 2]
\* Mutant: the switch is never left out.
Mutappend_bits(code, clen, st) == Bits(code, clen)
\* What append_bits adds to the blob: in state 2 a code of set 2, 3 or 4 that
\* starts with the switch to set 2 (0x1C in its first 7 bits) loses it.
append_bits(code, clen, st) ==
    IF st = 2 /\ code \div 512 = 28 THEN Bits(code * 128, clen - 7)
                                    ELSE Bits(code, clen)

\* The size classes of a count: encodeCount takes the first that holds it.
CountClass == << [code |-> <<0>>,             bit_len |-> 2,  adder |-> 0],
                 [code |-> <<1, 0>>,          bit_len |-> 5,  adder |-> 4],
                 [code |-> <<1, 1, 0>>,       bit_len |-> 7,  adder |-> 36],
                 [code |-> <<1, 1, 1, 0, 0>>, bit_len |-> 9,  adder |-> 164],
                 [code |-> <<1, 1, 1, 0, 1>>, bit_len |-> 12, adder |-> 676],
                 [code |-> <<1, 1, 1, 1, 0>>, bit_len |-> 16, adder |-> 4772] >>
Holds(class, count) == count < class.adder + 2 ^ class.bit_len
encodeCount(count) ==
    LET fits == {i \in 1 .. Len(CountClass) : Holds(CountClass[i], count)}
        class == CountClass[Min(fits)]
    IN  IF fits = {} THEN << >>
        ELSE class.code \o Bits((count - class.adder) * 2 ^ (16 - class.bit_len), class.bit_len)

In(k) == text[k + 1]
Length == Len(text)
From(k) == SubSeq(text, k + 1, Length)

CommonPrefix(s, t) ==
    LET n == Min({Len(s), Len(t)})
        differ == {k \in 1 .. n : s[k] # t[k]}
    IN  IF differ = {} THEN n ELSE Min(differ) - 1

\* A run of four or more of the character that c_prev says was the last one.
\* Mutant: the previous character is not looked at.
MutRepeats == l < Length - 4 /\ \A k \in 1 .. 3 : In(l + k) = In(l)
Repeats == l < Length - 4 /\ In(l) = c_prev /\ \A k \in 1 .. 3 : In(l + k) = In(l)
\* Mutant: counted from the character after the four.
Mutrpt_count == 1 + CommonPrefix(From(l), [k \in 1 .. Length |-> In(l)])
rpt_count == CommonPrefix(From(l), [k \in 1 .. Length |-> In(l)])

\* matchOccurance: what the text repeats of itself, from j up to l at most.
WithinLen(j) == CommonPrefix(SubSeq(text, j + 1, l), From(l))
Earliest == {j \in 0 .. l - 1 : WithinLen(j) >= NICE_LEN_FOR_PRIOR}
MatchesWithin == l < Length - NICE_LEN_FOR_PRIOR /\ Earliest # {}

\* matchLine: the lowest position any earlier line has a match at; of several
\* lines that have one there, the last in the list.
LineLen(line, j) == CommonPrefix(SubSeq(line, j + 1, Len(line)), From(l))
LineHits(ctx) == {j \in 0 .. Len(prev_lines[ctx]) - 1 :
                     LineLen(prev_lines[ctx], j) >= NICE_LEN_FOR_OTHER}
HitLines == {ctx \in 1 .. Len(prev_lines) : LineHits(ctx) # {}}
MatchesEarlier == l < Length - NICE_LEN_FOR_OTHER /\ HitLines # {}

\* The compressor's loop goes on.
Compressing == pc = "compress" /\ l < Length
UnchangedInCompress == UNCHANGED <<pc, call, decoder>>

Repeat ==
    /\ Compressing
    /\ Repeats
    /\ bits' = bits \o Bits(14208, 10) \o encodeCount(rpt_count - 4)
    /\ l' = l + rpt_count
    /\ UNCHANGED <<c_prev, state, is_all_upper>>
    /\ UnchangedInCompress

\* After a match c_prev is in[l - 1] with l at the last character of the match:
\* the last but one.
AfterMatch(n) ==
    /\ l' = l + n
    /\ c_prev' = In(l + n - 2)
    /\ UNCHANGED <<state, is_all_upper>>
    /\ UnchangedInCompress

MatchWithin ==
    /\ Compressing
    /\ ~Repeats
    /\ MatchesWithin
    /\ LET j == Min(Earliest)
           n == WithinLen(j)
       IN  /\ bits' = bits \o Bits(14144, 10) \o encodeCount(n - NICE_LEN_FOR_PRIOR)
                           \o encodeCount(l - j - NICE_LEN_FOR_PRIOR + 1)
           /\ AfterMatch(n)

MatchEarlier ==
    /\ Compressing
    /\ ~Repeats
    /\ ~MatchesWithin
    /\ MatchesEarlier
    /\ LET first == [c \in HitLines |-> Min(LineHits(c))]
           dist == Min({first[c] : c \in HitLines})
           ctx == Max({c \in HitLines : first[c] = dist})
           n == LineLen(prev_lines[ctx], dist)
       IN  /\ bits' = bits \o Bits(14080, 10) \o encodeCount(n - NICE_LEN_FOR_OTHER)
                           \o encodeCount(dist) \o encodeCount(ctx - 1)
           /\ AfterMatch(n)

(****************************************************************************)
(* A character of its own: the switches it needs, in the order the code     *)
(* appends them, then its code.                                             *)
(****************************************************************************)
c_in == In(l)
c_next == IF l + 1 < Length THEN In(l + 1) ELSE 0

\* State 2 is left when the character, or what follows a space, is not in set 2.
LeavesSet2 == /\ state = 2
              /\ (IF c_in = SPACE /\ Length - 1 > l THEN c_next ELSE c_in) \notin Set2Chars

LeavesUpper == is_all_upper /\ ~IsUpper(c_in)
\* Six characters from here on, the first a capital and none a small letter.
EntersUpper == /\ IsUpper(c_in) /\ ~is_all_upper
               /\ l + 5 < Length
               /\ \A k \in 0 .. 5 : ~IsLower(In(l + k))
StateBefore == IF LeavesSet2 THEN 1 ELSE state
EntersSet2 == StateBefore = 1 /\ IsDigit(c_in)
StateNow == IF EntersSet2 THEN 2 ELSE StateBefore
UpperNow == (is_all_upper /\ IsUpper(c_in)) \/ EntersUpper

Switches == (IF LeavesSet2 THEN Bits(8192, 4) ELSE << >>)
         \o (IF LeavesUpper THEN Bits(8192, 4) ELSE << >>)
         \o (IF EntersUpper THEN Bits(8704, 8) ELSE << >>)
         \o (IF EntersSet2 THEN Bits(14336, 7) ELSE << >>)
\* A capital of a run is coded as the small letter; in state 2 a space has the
\* code of set 3.
CharCode ==
    CASE c_in = SPACE /\ StateNow = 2 -> Bits(15232, 11)
      [] c_in \in 32 .. 126 /\ ~(c_in = SPACE /\ StateNow = 2) ->
            LET k == c_in - 31 + (IF UpperNow THEN 32 ELSE 0)
            IN  append_bits(c_95[k], l_95[k], StateNow)
      [] c_in = CR /\ c_next = LF -> Bits(13824, 9)
      [] c_in = CR /\ c_next # LF -> Bits(9064, 13)
      [] c_in = LF -> Bits(13952, 9)
      [] c_in = TAB -> Bits(9216, 7)
      [] OTHER -> << >>
\* The characters the code stands for: a CR LF is one.
\* Mutant: the LF is not passed over.
MutTaken == 1
Taken == IF c_in = CR /\ c_next = LF THEN 2 ELSE 1

Literal ==
    /\ Compressing
    /\ ~Repeats /\ ~MatchesWithin /\ ~MatchesEarlier
    /\ bits' = bits \o Switches \o CharCode
    /\ state' = StateNow
    /\ is_all_upper' = UpperNow
    /\ l' = l + Taken
    /\ c_prev' = In(l + Taken - 1)
    /\ UnchangedInCompress

(****************************************************************************)
(* The SQL functions.  The length of the text goes before the blob as a     *)
(* varint, its digits in base VarintBase, the lowest first; the top bit of  *)
(* a byte says that another follows.  The last byte of the blob is filled   *)
(* up with the head of a code that stands for nothing.                      *)
(****************************************************************************)
encode_unsigned_varint[v \in Nat] ==
    IF v < VarintBase THEN <<v>>
    ELSE <<(v % VarintBase) + VarintBase>> \o encode_unsigned_varint[v \div VarintBase]
\* Mutant: the bytes after the first are shifted one place too few.
MutWithByte(byte, rest) ==
    IF byte < VarintBase THEN byte ELSE (byte % VarintBase) + (VarintBase \div 2) * rest
\* A byte in front of those that stand for the number rest.
WithByte(byte, rest) ==
    IF byte < VarintBase THEN byte ELSE (byte % VarintBase) + VarintBase * rest
decode_unsigned_varint(data) ==
    LET last[k \in 0 .. Len(data)] ==   \* what the last k bytes stand for
            IF k = 0 THEN 0 ELSE WithByte(data[Len(data) + 1 - k], last[k - 1])
    IN  last[Len(data)]

\* A statement is about to call the functions for a value, then for the next
\* row with the same value, as often as it has rows.
Init ==
    /\ pc = "idle"
    /\ text \in Texts /\ prev_lines \in EarlierLines
    /\ l = 0 /\ c_prev = 0 /\ state = 1 /\ is_all_upper = FALSE
    /\ bits = << >> /\ header = << >>
    /\ bit_no = 0 /\ dstate = SET1 /\ out = << >>

shox96_0_2c ==
    /\ pc = "idle"
    /\ pc' = "compress"
    /\ header' = encode_unsigned_varint[Length]
    /\ UNCHANGED <<text, prev_lines, coder, is_all_upper, bits, decoder>>

CompressEnd ==
    /\ pc = "compress"
    /\ l = Length
    /\ pc' = "compressed"
    /\ bits' = bits \o Bits(14272, (8 - (Len(bits) % 8)) % 8)
    /\ UNCHANGED <<call, coder, is_all_upper, decoder>>

(****************************************************************************)
(* The decompressor.  The codewords of vcode and hcode by index; the code's *)
(* tables hold index and length at the codeword read lowest bit first.      *)
(****************************************************************************)
vcode == << <<0, 0>>, <<0, 1, 0>>, <<0, 1, 1>>, <<1, 0, 0>>, <<1, 0, 1, 0>>, <<1, 0, 1, 1>>,
            <<1, 1, 0, 0>>, <<1, 1, 0, 1>>, <<1, 1, 1, 0>>, <<1, 1, 1, 1, 0>>, <<1, 1, 1, 1, 1>> >>
hcode == << <<1, 0>>, <<0>>, <<1, 1, 0>>, <<1, 1, 1, 0, 0>>, <<1, 1, 1, 0, 1>>,
            <<1, 1, 1, 1, 0>>, <<1, 1, 1, 1, 1>> >>
sets == << <<32, 32, 101, 116, 97, 111, 105, 110, 115, 114, 108>>,
           <<99, 100, 104, 117, 112, 109, 98, 103, 119, 102, 121>>,
           <<118, 107, 113, 106, 120, 122, 32, 32, 32, 32, 32>>,
           <<32, 57, 48, 49, 50, 51, 52, 53, 54, 55, 56>>,
           <<46, 44, 45, 47, 61, 43, 32, 40, 41, 36, 37>>,
           <<38, 59, 58, 60, 62, 42, 34, 123, 125, 91, 93>>,
           <<64, 63, 39, 94, 35, 95, 33, 92, 124, 126, 96>> >>

End == 199
\* The codeword at position at: its index and the position after it; End when
\* the blob ends first.  Both tables are complete, so a code is always found.
getCodeIdx(table, at) ==
    LET here == {i \in 1 .. Len(table) : /\ at + Len(table[i]) <= Len(bits)
                                         /\ \A k \in 1 .. Len(table[i]) : bits[at + k] = table[i][k]}
    IN  IF here = {} THEN [idx |-> End, next |-> at]
        ELSE LET i == Min(here) IN [idx |-> i - 1, next |-> at + Len(table[i])]

getNumFromBits(at, count) ==
    LET num[k \in 0 .. count] ==
            IF k = 0 THEN 0
            ELSE 2 * num[k - 1] + (IF at + k <= Len(bits) THEN bits[at + k] ELSE 0)
    IN  num[count]
\* A count and the position after it.  Class i of the coder has the codeword of
\* index i - 1, the first two swapped.
readCount(at) ==
    LET h == getCodeIdx(hcode, at)
        class == CountClass[CASE h.idx = 0 -> 2 [] h.idx = 1 -> 1 [] OTHER -> h.idx + 1]
    IN  CASE h.idx = End -> [count |-> 0, next |-> at]
          [] h.idx = 6 -> [count |-> getNumFromBits(h.next, 17), next |-> h.next + 17]
          [] OTHER -> [count |-> getNumFromBits(h.next, class.bit_len) + class.adder,
                       next |-> h.next + class.bit_len]

(****************************************************************************)
(* What the bits at bit_no say.  A symbol is element v of set h, upper says *)
(* that a shift to capitals is on.  The others change the state only.       *)
(****************************************************************************)
Symbol(h, v, upper) == [kind |-> IF v.idx = End THEN "end" ELSE "symbol",
                        h |-> h, v |-> v.idx, upper |-> upper, next |-> v.next]
Change(kind, at) == [kind |-> kind, h |-> 0, v |-> 0, upper |-> FALSE, next |-> at]
Shifted(v) ==   \* two switches to set 1 in a row: capitals
    LET h == getCodeIdx(hcode, v.next)
    IN  CASE v.idx # 0 -> Symbol(SET1, v, TRUE)
          [] v.idx = 0 /\ h.idx = End -> Change("end", bit_no)
          [] v.idx = 0 /\ h.idx = SET1 -> Change("upper_on", h.next)
          [] OTHER -> Symbol(h.idx, getCodeIdx(vcode, h.next), TRUE)
Token ==
    LET v == getCodeIdx(vcode, bit_no)
        h == getCodeIdx(hcode, v.next)
        switch == v.idx = 0
    IN  CASE ~switch -> Symbol(dstate, v, is_all_upper)
          [] switch /\ h.idx = End -> Change("end", bit_no)
          [] switch /\ h.idx = SET1 /\ dstate # SET1 -> Change("set1", h.next)
          [] switch /\ h.idx = SET1 /\ dstate = SET1 /\ is_all_upper -> Change("upper_off", h.next)
          [] switch /\ h.idx = SET1 /\ dstate = SET1 /\ ~is_all_upper ->
                 Shifted(getCodeIdx(vcode, h.next))
          [] switch /\ h.idx = SET2 -> Change("set2", h.next)
          [] OTHER -> Symbol(h.idx, getCodeIdx(vcode, h.next), is_all_upper)

\* shox96_0_2d: a blob of one byte, which is what the empty text gives, is NULL.
shox96_0_2d ==
    /\ pc = "compressed"
    /\ pc' = IF Len(header) + Len(bits) \div 8 < 2 THEN "null" ELSE "decompress"
    /\ bit_no' = 0 /\ dstate' = SET1 /\ is_all_upper' = FALSE /\ out' = << >>
    /\ UNCHANGED <<call, coder, bits>>

UnchangedInDecompress == UNCHANGED <<pc, call, coder, bits>>
Decodes(kinds) == pc = "decompress" /\ bit_no < Len(bits) /\ Token.kind \in kinds
IsFunction(v) == Token.h = SET1B /\ Token.v = v

\* Mutant: a switch back to small letters is read again.
MutControl ==
    /\ Decodes({"upper_on", "upper_off", "set1", "set2"})
    /\ is_all_upper' = (Token.kind = "upper_on" \/ (is_all_upper /\ Token.kind # "upper_off"))
    /\ dstate' = CASE Token.kind = "set1" -> SET1 [] Token.kind = "set2" -> SET2 [] OTHER -> dstate
    /\ bit_no' = IF Token.kind = "upper_off" THEN bit_no ELSE Token.next
    /\ UNCHANGED out
    /\ UnchangedInDecompress
Control ==
    /\ Decodes({"upper_on", "upper_off", "set1", "set2"})
    /\ is_all_upper' = CASE Token.kind = "upper_on" -> TRUE
                         [] Token.kind = "upper_off" -> FALSE
                         [] OTHER -> is_all_upper
    /\ dstate' = CASE Token.kind = "set1" -> SET1
                   [] Token.kind = "set2" -> SET2
                   [] OTHER -> dstate
    /\ bit_no' = Token.next
    /\ UNCHANGED out
    /\ UnchangedInDecompress

Emitted ==
    LET c == sets[Token.h + 1][Token.v + 1]
    IN  CASE IsFunction(10) -> << >>
          [] IsLower(c) -> <<IF Token.upper THEN c - 32 ELSE c>>
          [] ~IsLower(c) /\ IsFunction(6) -> <<CR, LF>>
          [] ~IsLower(c) /\ IsFunction(7) -> <<IF Token.upper THEN CR ELSE LF>>
          [] OTHER -> <<IF Token.upper /\ dstate = SET1 /\ Token.v = 1 THEN TAB ELSE c>>
Emit ==
    /\ Decodes({"symbol"})
    /\ ~IsFunction(8) /\ ~IsFunction(9)
    /\ out' = out \o Emitted
    /\ bit_no' = Token.next
    /\ UNCHANGED <<dstate, is_all_upper>>
    /\ UnchangedInDecompress

\* n characters of s from position p on; what lies outside s, which no blob of
\* shox96_0_2c asks for, is an unknown byte, here 0.
Copy(s, p, n) == [k \in 1 .. n |-> IF p + k \in 1 .. Len(s) THEN s[p + k] ELSE 0]

Distance(count) == count + NICE_LEN_FOR_PRIOR - 1
IsWithin == Token.next < Len(bits) /\ bits[Token.next + 1] = 1
CopyWithin ==
    /\ Decodes({"symbol"})
    /\ IsFunction(8) /\ IsWithin
    /\ LET dict_len == readCount(Token.next + 1)
           dist == readCount(dict_len.next)
       IN  /\ out' = out \o Copy(out, Len(out) - Distance(dist.count),
                                 dict_len.count + NICE_LEN_FOR_PRIOR)
           /\ bit_no' = dist.next
    /\ UNCHANGED <<dstate, is_all_upper>>
    /\ UnchangedInDecompress

CopyEarlier ==
    /\ Decodes({"symbol"})
    /\ IsFunction(8) /\ ~IsWithin
    /\ LET dict_len == readCount(Token.next + 1)
           dist == readCount(dict_len.next)
           ctx == readCount(dist.next)
           line == IF ctx.count < Len(prev_lines) THEN prev_lines[ctx.count + 1] ELSE << >>
       IN  /\ out' = out \o Copy(line, dist.count, dict_len.count + NICE_LEN_FOR_OTHER)
           /\ bit_no' = ctx.next
    /\ UNCHANGED <<dstate, is_all_upper>>
    /\ UnchangedInDecompress

CopyRepeat ==
    /\ Decodes({"symbol"})
    /\ IsFunction(9)
    /\ LET count == readCount(Token.next)
           rpt_c == Copy(out, Len(out) - 1, 1)[1]
       IN  /\ out' = out \o [k \in 1 .. count.count + 4 |-> rpt_c]
           /\ bit_no' = count.next
    /\ UNCHANGED <<dstate, is_all_upper>>
    /\ UnchangedInDecompress

DecompressEnd ==
    /\ pc = "decompress"
    /\ bit_no >= Len(bits) \/ Token.kind = "end"
    /\ pc' = "done"
    /\ UNCHANGED <<call, coder, is_all_upper, bits, decoder>>

\* The functions have returned and their variables are gone.
Finish ==
    /\ pc \in {"done", "null"}
    /\ pc' = "idle"
    /\ l' = 0 /\ c_prev' = 0 /\ state' = 1 /\ is_all_upper' = FALSE
    /\ bits' = << >> /\ header' = << >>
    /\ bit_no' = 0 /\ dstate' = SET1 /\ out' = << >>
    /\ UNCHANGED <<text, prev_lines>>

CompressPass == Repeat \/ MatchWithin \/ MatchEarlier \/ Literal \/ CompressEnd
DecompressPass == Control \/ Emit \/ CopyWithin \/ CopyEarlier \/ CopyRepeat \/ DecompressEnd

Next == \/ shox96_0_2c
        \/ CompressPass
        \/ shox96_0_2d
        \/ DecompressPass
        \/ Finish

Spec == Init /\ [][Next]_vars

(****************************************************************************)
(* Properties.                                                              *)
(****************************************************************************)
\* The characters within the limits that README states.
Characters == (32 .. 126) \cup {TAB, LF, CR}
\* A run of four right after another character and one of its own: x y x x x x.
DelayedRun(t) == \E i \in 1 .. Len(t) - 5 : /\ t[i + 1] # t[i]
                                            /\ \A k \in 2 .. 5 : t[i + k] = t[i]

\* Types and ranges of both functions' variables; l stays in the text and
\* bit_no in the blob, whatever the classes of counts that moved them.
TypeOK ==
    /\ pc \in {"idle", "compress", "compressed", "decompress", "done", "null"}
    /\ text \in Seq(0 .. 127) /\ prev_lines \in Seq(Seq(1 .. 127))
    /\ l \in 0 .. Length /\ c_prev \in 0 .. 127 /\ state \in {1, 2}
    /\ is_all_upper \in BOOLEAN
    /\ \A k \in DOMAIN bits : bits[k] \in {0, 1}
    /\ \A k \in DOMAIN header : header[k] \in 0 .. 2 * VarintBase - 1
    /\ bit_no \in 0 .. Len(bits) /\ dstate \in {SET1, SET2}
    /\ \A k \in DOMAIN out : out[k] \in 0 .. 127

\* What shox96_0_2d returns is the text shox96_0_2c was given (README: the pair
\* of functions is for "compressing and decompressing text data").
RoundTrip == (pc = "done" => out = text) /\ (pc = "null" => text = << >>)

\* The decompressor never leaves the text: after every pass its output is a
\* prefix of it, so the state of both ends has stayed in step up to there.
DecodedPrefix == pc = "decompress" => out = SubSeq(text, 1, Len(out))

\* The buffer shox96_0_2d allocates by the varint holds all that is decoded.
OutputFits == pc \in {"decompress", "done"} => Len(out) <= decode_unsigned_varint(header)

\* However long the text is and however its characters and matches follow each
\* other, shox96_0_2_compress writes no more than 18.5 bits a character, all
\* switches and the counts of matches included, and the filling of the last byte.
\* shox96_0_2c does not use such a bound: it allocates 8 bits a character and 13
\* bytes, and nothing here says that this is enough.
CompressedBounded == pc # "idle" => 2 * Len(bits) <= 37 * Length + 14

\* No pass of either loop stays where it is, so that a call comes to its end:
\* a pass moves its position forward, and TypeOK bounds both positions.
PassesAdvance == [][/\ CompressPass /\ pc' = pc => l' > l
                    /\ DecompressPass /\ pc' = pc => bit_no' > bit_no]_vars
==============================================================================
