------------------------------- MODULE QrSymbol -------------------------------
(***************************************************************************)
(* The QR encoder of the approval page (src/src/lib/qr.ts): a text becomes *)
(* codewords, the codewords get their error correction and are interleaved *)
(* and drawn, and of eight masks the one with the least penalty is kept.   *)
(* One action is one call of the constructor, or one turn of its loops.    *)
(*                                                                         *)
(* Bytes and bit fields are the sets of their one bits, arrays of bytes    *)
(* sets of pairs <<index, bit>>, so that exclusive or is SymDiff; the      *)
(* symbol is the set of its dark modules <<x, y>> and that of its function *)
(* modules.  What a scanner does is written down from the symbol alone.    *)
(***************************************************************************)
EXTENDS Integers, Sequences, FiniteSets, SequencesExt

CONSTANTS
  QrTexts,  \* the texts asked for, as their bytes
  Asked     \* the level asked for: 0 LOW, 1 MEDIUM, 2 QUARTILE, 3 HIGH

ASSUME QrAssumption ==
  /\ \A text \in QrTexts : \A n \in DOMAIN text : text[n] \in 0 .. 255
  /\ Asked \in 0 .. 3

VARIABLE qr  \* the symbol being made: the text, and what `this` holds so far

qrVars == <<qr>>

LevelBits == <<1, 0, 3, 2>>
CodewordsPerBlock == <<
    <<7, 10, 15, 20, 26, 18, 20, 24, 30, 18, 20, 24, 26, 30, 22, 24, 28, 30, 28, 28,
      28, 28, 30, 30, 26, 28, 30, 30, 30, 30, 30, 30, 30, 30, 30, 30, 30, 30, 30, 30>>,
    <<10, 16, 26, 18, 24, 16, 18, 22, 22, 26, 30, 22, 22, 24, 24, 28, 28, 26, 26, 26,
      26, 28, 28, 28, 28, 28, 28, 28, 28, 28, 28, 28, 28, 28, 28, 28, 28, 28, 28, 28>>,
    <<13, 22, 18, 26, 18, 24, 18, 22, 20, 24, 28, 26, 24, 20, 30, 24, 28, 28, 26, 30,
      28, 30, 30, 30, 30, 28, 30, 30, 30, 30, 30, 30, 30, 30, 30, 30, 30, 30, 30, 30>>,
    <<17, 28, 22, 16, 22, 28, 26, 26, 24, 28, 24, 28, 22, 24, 24, 30, 28, 28, 26, 28,
      30, 24, 30, 30, 30, 30, 30, 30, 30, 30, 30, 30, 30, 30, 30, 30, 30, 30, 30, 30>>>>
CorrectionBlocks == <<
    <<1, 1, 1, 1, 1, 2, 2, 2, 2, 4, 4, 4, 4, 4, 6, 6, 6, 6, 7, 8,
      8, 9, 9, 10, 12, 12, 12, 13, 14, 15, 16, 17, 18, 19, 19, 20, 21, 22, 24, 25>>,
    <<1, 1, 1, 2, 2, 4, 4, 4, 5, 5, 5, 8, 9, 9, 10, 10, 11, 13, 14, 16,
      17, 17, 18, 20, 21, 23, 25, 26, 28, 29, 31, 33, 35, 37, 38, 40, 43, 45, 47, 49>>,
    <<1, 1, 2, 2, 4, 4, 6, 6, 8, 8, 8, 10, 12, 16, 12, 17, 16, 18, 21, 20,
      23, 23, 25, 27, 29, 34, 34, 35, 38, 40, 43, 45, 48, 51, 53, 56, 59, 62, 65, 68>>,
    <<1, 1, 2, 4, 4, 4, 5, 6, 8, 8, 11, 11, 16, 16, 18, 16, 19, 21, 25, 25,
      25, 34, 30, 32, 35, 37, 40, 42, 45, 48, 51, 54, 57, 60, 63, 66, 70, 74, 77, 81>>>>

MaskAt(mask, x, y) ==
  CASE mask = 0 -> (x + y) % 2
    [] mask = 1 -> y % 2
    [] mask = 2 -> x % 3
    [] mask = 3 -> (x + y) % 3
    [] mask = 4 -> ((x \div 3) + (y \div 2)) % 2
    [] mask = 5 -> ((x * y) % 2) + ((x * y) % 3)
    [] mask = 6 -> (((x * y) % 2) + ((x * y) % 3)) % 2
    [] mask = 7 -> (((x + y) % 2) + ((x * y) % 3)) % 2

\* Bit i of a number, and the number as the set of its one bits.
Bit(n, i) == (n \div 2^i) % 2
OneBits(n) == {i \in 0 .. 17 : Bit(n, i) = 1}

-----------------------------------------------------------------------------
(* What a version holds, and the arithmetic of the correction codewords.    *)

RawModules(v) ==
  LET aligned == (v \div 7) + 2
  IN  (16 * v + 128) * v + 64
      - (IF v < 2 THEN 0 ELSE (25 * aligned - 10) * aligned - 55 + (IF v < 7 THEN 0 ELSE 36))
RawCodewords(v) == RawModules(v) \div 8
DataCodewords(v, level) ==
  RawCodewords(v) - CodewordsPerBlock[level + 1][v] * CorrectionBlocks[level + 1][v]

\* Every byte of w doubled, and every byte of w times y, modulo 0x11d.
Doubled(w) ==
  LET high == {p \in w : p[2] = 7}
  IN  SymDiff({<<p[1], p[2] + 1>> : p \in w \ high},
              {<<p[1], b>> : p \in high, b \in {0, 2, 3, 4}})
Times(w, y) ==
  LET z[i \in 0 .. 8] ==
        IF i = 8 THEN {}
        ELSE LET d == Doubled(z[i + 1]) IN IF i \in y THEN SymDiff(d, w) ELSE d
  IN  IF w = {} \/ y = {} THEN {} ELSE z[0]

ByteAt(w, n) == {p[2] : p \in {q \in w : q[1] = n}}
Shifted(w) == {<<p[1] - 1, p[2]>> : p \in {q \in w : q[1] > 0}}

\* The roots run through the powers of two while the divisor grows by one each.
Divisor(degree) ==
  LET step[i \in 0 .. degree] ==
        IF i = 0 THEN <<{<<0, 0>>}, {<<degree - 1, 0>>}>>
        ELSE LET prior == step[i - 1]
             IN  <<Doubled(prior[1]),
                   SymDiff(Times(prior[2], ByteAt(prior[1], 0)), Shifted(prior[2]))>>
  IN  step[degree][2]

\* The remainder, one byte of the data further.
Divided(rest, byte, divisor) ==
  SymDiff(Shifted(rest), Times(divisor, SymDiff(byte, ByteAt(rest, 0))))

-----------------------------------------------------------------------------
(* encodeText. *)

CountBits(v) == IF v <= 9 THEN 8 ELSE 16
Fits(text, v, level) ==
  /\ Len(text) < 2^CountBits(v)
  /\ 4 + CountBits(v) + 8 * Len(text) <= DataCodewords(v, level) * 8

Versions(text) == {v \in 1 .. 40 : Fits(text, v, Asked)}
Boosted(text, v) ==
  LET fits == {level \in 1 .. 3 : Fits(text, v, level)}
  IN  IF fits = {} THEN Asked ELSE Max(fits)

BitField(val, n) == [i \in 1 .. n |-> Bit(val, n - i)]
Bytes8(bytes) ==
  [i \in 1 .. 8 * Len(bytes) |-> Bit(bytes[(i - 1) \div 8 + 1], 7 - ((i - 1) % 8))]
Pads(n) == [k \in 1 .. n |-> IF k % 2 = 1 THEN 236 ELSE 17]

Codewords(text, v, level) ==
  LET capacity == DataCodewords(v, level) * 8
      said == BitField(4, 4) \o BitField(Len(text), CountBits(v)) \o Bytes8(text)
      ended == said \o BitField(0, Min({4, capacity - Len(said)}))
      whole == ended \o BitField(0, (8 - (Len(ended) % 8)) % 8)
      bits == whole \o Bytes8(Pads((capacity - Len(whole)) \div 8))
  IN  [k \in 1 .. Len(bits) \div 8 |-> {b \in 0 .. 7 : bits[8 * (k - 1) + 8 - b] = 1}]

EncodeText ==
  /\ qr.at = "text"
  /\ LET fits == Versions(qr.text)
         v == Min(fits)
         level == Boosted(qr.text, v)
     IN IF fits = {} THEN qr' = [qr EXCEPT !.at = "too long"]
        ELSE qr' = [qr EXCEPT !.at = "patterns", !.version = v, !.level = level,
                              !.words = Codewords(qr.text, v, level)]

-----------------------------------------------------------------------------
(* The function patterns.  What is drawn later covers what was before.      *)

SizeOf(v) == (4 * v) + 17
Square(n) == {<<x, y>> : x \in 0 .. n - 1, y \in 0 .. n - 1}
Drawn(sym, modules, dark) ==
  [sym EXCEPT !.dark = (@ \ modules) \cup dark, !.fixed = @ \cup modules]

Steps(m, x, y) == Max({m[1] - x, x - m[1], m[2] - y, y - m[2]})
Around(x, y, r) == {<<x + i, y + j>> : i \in -r .. r, j \in -r .. r}

WithTiming(sym, n) ==
  Drawn(sym, {<<6, i>> : i \in 0 .. n - 1} \cup {<<i, 6>> : i \in 0 .. n - 1},
        {m \in Square(n) : (m[1] = 6 /\ m[2] % 2 = 0) \/ (m[2] = 6 /\ m[1] % 2 = 0)})
WithFinder(sym, n, x, y) ==
  LET at == Around(x, y, 4) \cap Square(n)
  IN  Drawn(sym, at, {m \in at : Steps(m, x, y) \notin {2, 4}})

AlignmentPositions(v) ==
  LET aligned == (v \div 7) + 2
      step == ((v * 8 + aligned * 3 + 5) \div (aligned * 4 - 4)) * 2
  IN  IF v = 1 THEN {} ELSE {6} \cup {SizeOf(v) - 7 - k * step : k \in 0 .. aligned - 2}
WithAlignment(sym, v) ==
  LET last == SizeOf(v) - 7
      centres == (AlignmentPositions(v) \X AlignmentPositions(v))
                   \ {<<6, 6>>, <<6, last>>, <<last, 6>>}
  IN  Drawn(sym, UNION {Around(c[1], c[2], 2) : c \in centres},
            UNION {{m \in Around(c[1], c[2], 2) : Steps(m, c[1], c[2]) # 1} : c \in centres})

\* The data bits followed by their n check bits.
Checked(data, n, generator) ==
  LET rem[i \in Nat] ==
        IF i = 0 THEN data
        ELSE LET prior == rem[i - 1]
                 up == {b + 1 : b \in prior}
             IN  IF n - 1 \in prior THEN SymDiff(up, generator) ELSE up
  IN  {b + n : b \in data} \cup rem[n]

FormatWord(level, mask) ==
  SymDiff(Checked(OneBits(8 * LevelBits[level + 1] + mask), 10, OneBits(1335)), OneBits(21522))
FormatPlace(n, i) ==
  CASE i <= 5 -> <<8, i>> [] i \in {6, 7} -> <<8, i + 1>>
    [] i = 8 -> <<7, 8>> [] i >= 9 -> <<14 - i, 8>>
FormatCopy(n, i) == IF i < 8 THEN <<n - 1 - i, 8>> ELSE <<8, n - 15 + i>>
WithFormat(sym, n, level, mask) ==
  LET Places(bits) == {FormatPlace(n, i) : i \in bits} \cup {FormatCopy(n, i) : i \in bits}
                        \cup {<<8, n - 8>>}
  IN  Drawn(sym, Places(0 .. 14), Places(FormatWord(level, mask)))

VersionWord(v) == Checked(OneBits(v), 12, OneBits(7973))
WithVersion(sym, v) ==
  LET Place(i) == <<SizeOf(v) - 11 + (i % 3), i \div 3>>
      Places(bits) == {Place(i) : i \in bits} \cup {<<Place(i)[2], Place(i)[1]>> : i \in bits}
  IN  IF v < 7 THEN sym ELSE Drawn(sym, Places(0 .. 17), Places(VersionWord(v)))

FunctionPatterns(sym, v, level) ==
  LET n == SizeOf(v)
      found == WithFinder(WithFinder(WithFinder(WithTiming(sym, n), n, 3, 3), n, n - 4, 3),
                          n, 3, n - 4)
  IN  WithVersion(WithFormat(WithAlignment(found, v), n, level, 0), v)

DrawFunctionPatterns ==
  /\ qr.at = "patterns"
  /\ qr' = [FunctionPatterns(qr, qr.version, qr.level) EXCEPT !.at = "divisor"]

-----------------------------------------------------------------------------
(* Error correction: blocks of codewords, the short ones first, and their   *)
(* codewords in turn.                                                       *)

BlockCount(v, level) == CorrectionBlocks[level + 1][v]
EcLen(v, level) == CodewordsPerBlock[level + 1][v]
ShortBlocks(v, level) == BlockCount(v, level) - (RawCodewords(v) % BlockCount(v, level))
ShortData(v, level) == (RawCodewords(v) \div BlockCount(v, level)) - EcLen(v, level)

BeginBlocks ==
  /\ qr.at = "divisor"
  /\ qr' = [qr EXCEPT !.at = "blocks", !.divisor = Divisor(EcLen(qr.version, qr.level))]

\* One byte of the block at hand. With the last one the block is complete; a
\* short one is padded before its correction codewords.
AddToBlock ==
  /\ qr.at = "blocks"
  /\ LET v == qr.version
         isShort == Len(qr.blocks) < ShortBlocks(v, qr.level)
         own == Append(qr.own, qr.words[qr.used + 1])
         rest == Divided(qr.rest, qr.words[qr.used + 1], qr.divisor)
         complete == Len(own) = ShortData(v, qr.level) + (IF isShort THEN 0 ELSE 1)
         block == own \o (IF isShort THEN <<{}>> ELSE << >>)
                      \o [i \in 1 .. EcLen(v, qr.level) |-> ByteAt(rest, i - 1)]
     IN  /\ Len(qr.blocks) < BlockCount(v, qr.level)
         /\ qr' = [qr EXCEPT !.used = @ + 1,
                             !.own = IF complete THEN << >> ELSE own,
                             !.rest = IF complete THEN {} ELSE rest,
                             !.blocks = IF complete THEN Append(@, block) ELSE @]

\* The pads of the short blocks are left out.
IsPadOrNext(i, j, v, level) == i = ShortData(v, level) /\ j <= ShortBlocks(v, level)
IsPad(i, j, v, level) == i = ShortData(v, level) /\ j < ShortBlocks(v, level)

InterleaveBlocks ==
  /\ qr.at = "blocks" /\ Len(qr.blocks) = BlockCount(qr.version, qr.level)
  /\ LET count == Len(qr.blocks)
         turns == [k \in 1 .. count * Len(qr.blocks[1]) |-> <<(k - 1) \div count, (k - 1) % count>>]
         kept == SelectSeq(turns, LAMBDA t : ~IsPad(t[1], t[2], qr.version, qr.level))
     IN  qr' = [qr EXCEPT !.at = "columns", !.right = SizeOf(qr.version) - 1,
                  !.words = [k \in DOMAIN kept |-> qr.blocks[kept[k][2] + 1][kept[k][1] + 1]]]

-----------------------------------------------------------------------------
(* The codewords, two columns at a time from the right, and the masks.      *)

PastTiming(right) == IF right = 6 THEN 5 ELSE right
Upward(right) == Bit(right + 1, 1) = 0
Visits(right, n) ==
  [k \in 1 .. 2 * n |->
     <<right - ((k - 1) % 2),
       IF Upward(right) THEN n - 1 - ((k - 1) \div 2) ELSE (k - 1) \div 2>>]

DrawColumns ==
  /\ qr.at = "columns"
  /\ LET right == PastTiming(qr.right)
         free == SelectSeq(Visits(right, SizeOf(qr.version)), LAMBDA m : m \notin qr.fixed)
         taken == Min({Len(free), 8 * Len(qr.words) - qr.placed})
         BitOf(i) == 7 - (i % 8) \in qr.words[i \div 8 + 1]
     IN  qr' = [qr EXCEPT
           !.dark = (@ \ {free[k] : k \in 1 .. taken})
                      \cup {free[k] : k \in {i \in 1 .. taken : BitOf(qr.placed + i - 1)}},
           !.placed = @ + taken,
           !.right = right - 2,
           !.at = IF right - 2 >= 1 THEN @ ELSE "masks"]

Masked(sym, n, mask) ==
  [sym EXCEPT !.dark =
     SymDiff(@, {m \in Square(n) \ sym.fixed : MaskAt(mask, m[1], m[2]) = 0})]

\* The lengths of the runs of a line, which starts and ends with a light one.
Runs(line, n) ==
  LET starts == SelectSeq([k \in 1 .. n |-> k - 1],
                          LAMBDA x : x = 0 \/ line[x] # line[x - 1])
      Until(k) == IF k = Len(starts) THEN n ELSE starts[k + 1]
  IN  (IF line[0] THEN <<0>> ELSE << >>)
        \o [k \in DOMAIN starts |-> Until(k) - starts[k]]
        \o (IF line[n - 1] THEN <<0>> ELSE << >>)

\* Seven runs that look like a finder, told from either end.
FinderLike(h, k) ==
  LET core == h[k - 1]
  IN  IF k < 7 \/ core = 0 \/ <<h[k - 2], h[k - 3], h[k - 4], h[k - 5]>> # <<core, 3 * core, core, core>>
      THEN 0
      ELSE (IF h[k] >= 4 * core /\ h[k - 6] >= core THEN 1 ELSE 0)
           + (IF h[k - 6] >= 4 * core /\ h[k] >= core THEN 1 ELSE 0)

LinePenalty(line, n) ==
  LET runs == Runs(line, n)
      edged == [k \in DOMAIN runs |->
                  runs[k] + (IF k = 1 THEN n ELSE 0) + (IF k = Len(runs) THEN n ELSE 0)] \o << >>
      sum[k \in 0 .. Len(runs)] ==
        IF k = 0 THEN 0
        ELSE sum[k - 1] + (IF runs[k] >= 5 THEN runs[k] - 2 ELSE 0)
                        + (IF k % 2 = 1 THEN 40 * FinderLike(edged, k) ELSE 0)
  IN  sum[Len(runs)]

PenaltyScore(dark, n) ==
  LET Row(y) == [x \in 0 .. n - 1 |-> <<x, y>> \in dark]
      Column(x) == [y \in 0 .. n - 1 |-> <<x, y>> \in dark]
      lines[i \in 0 .. n] ==
        IF i = 0 THEN 0
        ELSE lines[i - 1] + LinePenalty(Row(i - 1), n) + LinePenalty(Column(i - 1), n)
      even == {m \in Square(n - 1) :
                 Cardinality({m, <<m[1] + 1, m[2]>>, <<m[1], m[2] + 1>>,
                              <<m[1] + 1, m[2] + 1>>} \cap dark) \in {0, 4}}
      balance == 20 * Cardinality(dark) - 10 * n * n
      steps == ((Max({balance, -balance}) + n * n - 1) \div (n * n)) - 1
  IN  lines[n] + 3 * Cardinality(even) + 10 * steps

TryMask ==
  /\ qr.at = "masks" /\ qr.mask < 8
  /\ LET n == SizeOf(qr.version)
     IN  qr' = [WithFormat(Masked(qr, n, qr.mask), n, qr.level, qr.mask) EXCEPT !.at = "tried"]

\* The mask is taken off again, whatever its score.
ScoreMask ==
  /\ qr.at = "tried"
  /\ LET n == SizeOf(qr.version)
         penalty == PenaltyScore(qr.dark, n)
         better == qr.mask = 0 \/ penalty < qr.least
     IN  qr' = [Masked(qr, n, qr.mask) EXCEPT
                  !.at = "masks",
                  !.mask = @ + 1,
                  !.best = IF better THEN qr.mask ELSE @,
                  !.least = IF better THEN penalty ELSE @]

KeepBestMask ==
  /\ qr.at = "masks" /\ qr.mask = 8
  /\ LET n == SizeOf(qr.version)
     IN  qr' = [WithFormat(Masked(qr, n, qr.best), n, qr.level, qr.best) EXCEPT !.at = "drawn"]

QrInit ==
  \E text \in QrTexts :
    qr = [at |-> "text", text |-> text, version |-> 0, level |-> Asked, words |-> << >>,
          divisor |-> {}, own |-> << >>, rest |-> {}, used |-> 0, blocks |-> << >>,
          dark |-> {}, fixed |-> {}, right |-> 0, placed |-> 0, mask |-> 0, best |-> 0, least |-> 0]

QrNext ==
  EncodeText \/ DrawFunctionPatterns \/ BeginBlocks \/ AddToBlock \/ InterleaveBlocks
    \/ DrawColumns \/ TryMask \/ ScoreMask \/ KeepBestMask

-----------------------------------------------------------------------------
(* A scanner, for the versions up to 13: it sees the dark modules of a      *)
(* square, and goes by the standard.                                        *)

Centres == <<{}, {6, 18}, {6, 22}, {6, 26}, {6, 30}, {6, 34}, {6, 22, 38}, {6, 24, 42},
             {6, 26, 46}, {6, 28, 50}, {6, 30, 54}, {6, 32, 58}, {6, 34, 62}>>
Reserved(v) ==
  LET n == SizeOf(v)
      corners == {<<6, 6>>, <<6, n - 7>>, <<n - 7, 6>>}
  IN  {m \in Square(n) :
         \/ 6 \in {m[1], m[2]}
         \/ m[1] <= 8 /\ (m[2] <= 8 \/ m[2] >= n - 8)
         \/ m[1] >= n - 8 /\ m[2] <= 8
         \/ \E c \in (Centres[v] \X Centres[v]) \ corners : Steps(m, c[1], c[2]) <= 2
         \/ v >= 7 /\ m[1] <= 5 /\ m[2] \in n - 11 .. n - 9
         \/ v >= 7 /\ m[2] <= 5 /\ m[1] \in n - 11 .. n - 9}

\* The data modules of the two-module columns, from right to left, up and down.
DataModules(v) ==
  LET n == SizeOf(v)
      kept == Reserved(v)
      at == [k \in 1 .. n * (n - 1) |->
               LET pair == (k - 1) \div (2 * n)
                   down == ((k - 1) % (2 * n)) \div 2
                   left == n - 2 - 2 * pair
                   column == (IF left < 6 THEN left - 1 ELSE left) + (k % 2)
               IN  <<column, IF pair % 2 = 0 THEN n - 1 - down ELSE down>>]
  IN  SelectSeq(at, LAMBDA m : m \notin kept)

\* The powers of two, up to the 254th.
Power(e) ==
  LET power[n \in 0 .. 254] ==
        IF n = 0 THEN {<<0, 0>>}
        ELSE LET half == power[n \div 2]
                 square == Times(half, ByteAt(half, 0))
             IN  IF n % 2 = 0 THEN square ELSE Doubled(square)
  IN  ByteAt(power[e], 0)

\* A block is whole if, as a polynomial, it has the first powers of two as roots.
Whole(block, ecLen) ==
  LET powers == [e \in 1 .. 255 |-> Power(e - 1)] \o << >>
      Ones == {<<k, b>> \in (DOMAIN block) \X (0 .. 7) : b \in block[k]}
  IN  \A e \in 0 .. ecLen - 1, bit \in 0 .. 7 :
        Cardinality({o \in Ones :
          bit \in powers[((o[2] + e * (Len(block) - o[1])) % 255) + 1]}) % 2 = 0

\* What a scanner that finds all in order reads is the text that was given.
ScansAs(dark, n, text) ==
  LET v == (n - 17) \div 4
      format == {i \in 0 .. 14 : FormatPlace(n, i) \in dark}
      copy == {i \in 0 .. 14 : FormatCopy(n, i) \in dark}
  IN  \E level \in 0 .. 3, mask \in 0 .. 7 :
        /\ format = FormatWord(level, mask) /\ copy = format
        /\ LET blocks == CorrectionBlocks[level + 1][v]
               ecLen == CodewordsPerBlock[level + 1][v]
               total == RawCodewords(v)
               longer == total % blocks
               dataLen == total \div blocks - ecLen
               modules == DataModules(v)
               stream == [k \in 1 .. total |->
                 {b \in 0 .. 7 :
                    LET m == modules[8 * k - b]
                    IN  (m \in dark) # (MaskAt(mask, m[1], m[2]) = 0)}] \o << >>
               LengthOf(j) == IF j < blocks - longer THEN dataLen ELSE dataLen + 1
               Place(j, i) ==
                 IF i <= dataLen THEN (i - 1) * blocks + j + 1
                 ELSE IF i <= LengthOf(j) THEN dataLen * blocks + (j - (blocks - longer)) + 1
                 ELSE dataLen * blocks + longer + (i - LengthOf(j) - 1) * blocks + j + 1
               Block(j) == [i \in 1 .. LengthOf(j) + ecLen |-> stream[Place(j, i)]] \o << >>
               data == FlattenSeq([j \in 1 .. blocks |-> SubSeq(Block(j - 1), 1, LengthOf(j - 1))])
               Read(from, bits) ==
                 {b \in 0 .. bits - 1 : LET p == from + bits - 1 - b
                                        IN  7 - (p % 8) \in data[p \div 8 + 1]}
           IN  /\ Len(modules) \in 8 * total .. 8 * total + 7
               /\ \A j \in 0 .. blocks - 1 : Whole(Block(j), ecLen)
               /\ Read(0, 4) = {2}
               /\ Read(4, CountBits(v)) = OneBits(Len(text))
               /\ \A i \in DOMAIN text :
                    Read(4 + CountBits(v) + 8 * (i - 1), 8) = OneBits(text[i])

\* "Smallest version that fits", "ECC boosted while the version does not grow",
\* "scanners want contrast" (qr.ts:4-6, 128, 376-380): a scanner that goes by the
\* standard reads the very text out of the symbol, in whatever size and level it
\* was drawn, and finds every block of codewords whole.
SymbolIsReadable ==
  qr.at = "drawn" => ScansAs(qr.dark, SizeOf(qr.version), qr.text)
=============================================================================
