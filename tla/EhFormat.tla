------------------------------ MODULE EhFormat ------------------------------
(***************************************************************************)
(* Formatted output (eh_formatio.c): the text a directive of a format makes *)
(* of its argument, and the streams that take it, with a cache in front of  *)
(* a function, with the function alone, or in memory.                       *)
(*                                                                          *)
(* A text is a sequence of characters.  A directive is a record: conv is    *)
(* its letter in lower case and flag "large" says that it was in upper      *)
(* case; width and prec are -1 where the format has none, and star and      *)
(* pstar say that they were arguments.  Floating-point numbers are exact    *)
(* fractions here, num over den, with den = 0 for infinities and NaN; what  *)
(* the doubles of the code make of a tie, a power of ten and 0/0 is a       *)
(* choice.  The widths of the integers and of the table of powers are       *)
(* constants.                                                               *)
(***************************************************************************)
EXTENDS Integers, FiniteSets, SequencesExt

CONSTANTS
  FmtDirectives,  \* directives with their arguments
  FmtShort,       \* those among them that are printed to streams
  FmtStreams,     \* streams: kind "function", "plain" or "memory", and size
  FmtBits,        \* number of bits of an integer by its qualifier
  FmtBytes,       \* number of bytes of an item of %q by its qualifier
  FmtPointer,     \* sizeof(void *)
  FmtPowers,      \* FORMAT_FLOAT_POWERS_TAB_SIZE
  FmtRange,       \* FORMAT_FLOAT_F_RANGE_MAX
  FmtUndefined    \* what the cast of a NaN to uint64_t may give

ASSUME FmtAssumption ==
  /\ FmtPowers \in Nat \ {0} /\ FmtRange \in Nat
  /\ FmtUndefined \subseteq Nat
  /\ \A s \in FmtStreams : s.kind \in {"function", "plain", "memory"} /\ s.size \in Nat \ {0}

VARIABLES
  fmtStream,  \* the stream: kind, size, held (its cache or buffer), pos, and what the
              \*   last call sent to its function
  fmtCall     \* history: the last call: the directive, what the stream held before, the
              \*   text and its count, and whether it finished the stream

fmtVars == <<fmtStream, fmtCall>>

FmtNul == "NUL"
FmtNewline == "NL"
Fill(ch, n) == [i \in 1 .. n |-> ch]
SmallDigits == <<"0", "1", "2", "3", "4", "5", "6", "7", "8", "9", "a", "b", "c", "d", "e", "f">>
LargeDigits == <<"0", "1", "2", "3", "4", "5", "6", "7", "8", "9", "A", "B", "C", "D", "E", "F">>
DigitsOf(f) == IF "large" \in f.flags THEN LargeDigits ELSE SmallDigits
PadTo(body, f) ==
  IF "left" \in f.flags THEN body \o Fill(" ", f.width - Len(body))
  ELSE Fill(" ", f.width - Len(body)) \o body

-----------------------------------------------------------------------------
(***************************************************************************)
(* The text of a directive.                                                *)
(***************************************************************************)

\* The flags, the width and the precision of a directive, as its arguments change them.
FmtParsed(d) ==
  LET full  == d.conv = "p" /\ d.width = -1 /\ ~d.star
      extra == (IF d.star /\ d.width < 0 THEN {"left"} ELSE {})
               \cup (IF full THEN {"zero", "special"} ELSE {})
      width == IF full THEN 2 * FmtPointer + 2
               ELSE IF d.star /\ d.width < 0 THEN -d.width ELSE d.width
  IN  [d EXCEPT !.flags = d.flags \cup extra, !.width = width,
                !.prec = IF d.pstar /\ d.prec < 0 THEN 0 ELSE d.prec]

\* num_bit_count: how many digits
NumBitCount(n, base) == CHOOSE k \in 1 .. 32 : (k = 1 \/ base ^ (k - 1) <= n) /\ n < base ^ k
Numeral(n, base, digits) ==
  LET k == NumBitCount(n, base)
  IN  [i \in 1 .. k |-> digits[((n \div base ^ (k - i)) % base) + 1]]

\* The integer argument as its qualifier and its signedness read it.
Argument(f) ==
  LET m == 2 ^ FmtBits[f.qual]
      u == f.num % m
  IN  IF f.conv = "d" /\ 2 * u >= m THEN u - m ELSE u

Sign(f, negative) ==
  IF negative THEN <<"-">>
  ELSE IF "plus" \in f.flags THEN <<"+">> ELSE IF "space" \in f.flags THEN <<" ">> ELSE << >>

Base(f) == CASE f.conv \in {"x", "p"} -> 16 [] f.conv = "o" -> 8 [] f.conv = "b" -> 2 [] OTHER -> 10

Special(f) ==
  IF "special" \notin f.flags \/ Base(f) = 10 THEN << >>
  ELSE IF Base(f) = 8 THEN <<"0">>
  ELSE <<"0", IF Base(f) = 2 THEN IF "large" \in f.flags THEN "B" ELSE "b"
              ELSE IF "large" \in f.flags THEN "X" ELSE "x">>

VPrintfNumber(f) ==
  LET num    == Argument(f)
      digits == Numeral(IF num < 0 THEN -num ELSE num, Base(f), DigitsOf(f))
      head   == Sign(f, num < 0) \o Special(f)
      zeros  == IF f.prec >= 0 THEN f.prec - Len(digits)
                ELSE IF "zero" \in f.flags THEN f.width - Len(head) - Len(digits) ELSE 0
  IN  PadTo(head \o Fill("0", zeros) \o digits, f)

VPrintfChar(f) == PadTo(<<f.text[1]>>, f)

VPrintfString(f) == PadTo(SubSeq(f.text, 1, IF f.prec \in 0 .. Len(f.text) THEN f.prec ELSE Len(f.text)), f)

\* vprintf_array on a machine with the low byte first: words of the item's size, the
\* last one filled with question marks.  The width takes the words that are complete
\* for one less when there is a rest.
VPrintfArray(f) ==
  LET size  == FmtBytes[f.qual]
      len   == f.prec \div size
      rest  == f.prec % size
      pair(i) == <<DigitsOf(f)[(f.bytes[i] \div 16) + 1], DigitsOf(f)[(f.bytes[i] % 16) + 1]>>
      word(at, n) == FlattenSeq([j \in 1 .. n |-> pair(at + n + 1 - j)])
      body  == FlattenSeq([i \in 1 .. len |-> Fill(" ", IF i = 1 THEN 0 ELSE 1) \o word((i - 1) * size, size)])
               \o IF rest = 0 THEN << >>
                  ELSE <<" ">> \o Fill("?", 2 * (size - rest)) \o word(len * size, rest)
      whole == len - (IF rest = 0 THEN 0 ELSE 1)
      pad   == Fill(" ", f.width - (whole * 2 * size + whole - 1))
  IN  IF f.prec < 0 THEN << >>
      ELSE IF "left" \in f.flags THEN body \o pad ELSE pad \o body

-----------------------------------------------------------------------------
(***************************************************************************)
(* Floating-point numbers.                                                 *)
(***************************************************************************)

Magnitude(f) == IF f.num < 0 THEN -f.num ELSE f.num
Precision(f) == IF f.prec < 0 THEN 6 ELSE f.prec
Places(f) == IF Precision(f) >= FmtPowers THEN FmtPowers - 1 ELSE Precision(f)

\* At a tie the double may lie below the fraction, on it or above it; on it only when
\* neither the fraction nor its scaling by 10^-e is rounded.
Leans(f, e) == IF e = 0 /\ \E k \in 0 .. 20 : f.den = 2 ^ k THEN {0} ELSE {-1, 0, 1}

\* float_decentralized: the places behind the point are rounded; whether that carries
\* into the integral part is checked above the tie only.  Without places the integral
\* part is rounded to even.
FloatDecentralized(f, lean) ==
  LET abs    == Magnitude(f)
      unit   == 10 ^ Places(f)
      scaled == (abs % f.den) * unit
      frac   == scaled \div f.den
      twice  == 2 * (scaled % f.den)
      above  == twice > f.den \/ (twice = f.den /\ lean = 1)
      tie    == twice = f.den /\ lean = 0
      carry  == above /\ frac + 1 >= unit
      up     == tie /\ (frac = 0 \/ frac % 2 = 1)
      int    == abs \div f.den + IF carry THEN 1 ELSE 0
      even   == Places(f) = 0 /\ tie /\ int % 2 = 1
  IN  [int  |-> int + IF even THEN 1 ELSE 0,
       frac |-> IF carry THEN 0 ELSE frac + IF above \/ up THEN 1 ELSE 0]

\* The exponent by log10_of_positive, bastardized_floor and pow10_of_int: at a power of
\* ten the approximation may be above the number.
Exponents(f) ==
  LET reaches(e) == IF e >= 0 THEN 10 ^ e * f.den <= Magnitude(f) ELSE f.den <= Magnitude(f) * 10 ^ (-e)
      e == CHOOSE x \in -4 .. 4 : reaches(x) /\ ~reaches(x + 1)
      power == IF e >= 0 THEN 10 ^ e * f.den = Magnitude(f) ELSE f.den = Magnitude(f) * 10 ^ (-e)
  IN  {e} \cup IF power THEN {e - 1} ELSE {}

\* float_normalized_decentralized with the factor 10^-e, ties rounded to even: a rounding
\* that carries into the integral part is corrected there, though that may then have two
\* digits.
FloatNormalized(f, e, lean) ==
  LET n      == Magnitude(f) * (IF e < 0 THEN 10 ^ (-e) ELSE 1)
      m      == f.den * (IF e > 0 THEN 10 ^ e ELSE 1)
      unit   == 10 ^ Places(f)
      scaled == (n % m) * unit
      down   == scaled \div m
      twice  == 2 * (scaled % m)
      above  == twice > m \/ (twice = m /\ (lean = 1 \/ (lean = 0 /\ down % 2 = 1)))
      frac   == down + IF above THEN 1 ELSE 0
  IN  [e    |-> e,
       int  |-> n \div m + IF frac >= unit THEN 1 ELSE 0,
       frac |-> IF frac >= unit THEN 0 ELSE frac]

\* vprintf_float_e: the exponents and the parts; zero has no factor and is divided by 0.
FloatE(f) ==
  IF f.num = 0
  THEN {[e |-> 0,
         int |-> i + (IF j >= 10 ^ Places(f) THEN 1 ELSE 0),
         frac |-> IF j >= 10 ^ Places(f) THEN 0 ELSE j] : i, j \in FmtUndefined}
  ELSE UNION {{FloatNormalized(f, e, lean) : lean \in Leans(f, e)} : e \in Exponents(f)}

\* vprintf_float_decimalism_or_normalized
FloatText(f, parts, exponent) ==
  LET places == Places(f)
      frac   == IF places = 0 THEN << >> ELSE Numeral(parts.frac, 10, SmallDigits)
      number == Numeral(parts.int, 10, SmallDigits)
                \o (IF places > 0 \/ "special" \in f.flags THEN <<".">> ELSE << >>)
                \o Fill("0", places - Len(frac)) \o frac
                \o Fill("0", Precision(f) - places)
                \o exponent
      sign   == Sign(f, f.num < 0)
      zeros  == IF "zero" \in f.flags THEN f.width - Len(sign) - Len(number) ELSE 0
  IN  PadTo(sign \o Fill("0", zeros) \o number, f)

ExponentText(f, e) ==
  LET digits == Numeral(IF e < 0 THEN -e ELSE e, 10, SmallDigits)
  IN  <<IF "large" \in f.flags THEN "E" ELSE "e", IF e >= 0 THEN "+" ELSE "-">>
      \o Fill("0", 2 - Len(digits)) \o digits

InfOrNan(f) ==
  LET word == IF f.num # 0
              THEN IF "large" \in f.flags THEN <<"I", "N", "F">> ELSE <<"i", "n", "f">>
              ELSE IF "large" \in f.flags THEN <<"N", "A", "N">> ELSE <<"n", "a", "n">>
  IN  PadTo((IF f.num = 0 THEN << >> ELSE Sign(f, f.num < 0)) \o word, f)

InFRange(f) == -FmtRange * f.den <= f.num /\ f.num <= FmtRange * f.den

\* vprintf_float: %f and %g are the same, and beyond their range become %e.
VPrintfFloat(f) ==
  IF f.den = 0 THEN {InfOrNan(f)}
  ELSE IF f.conv \in {"f", "g"} /\ InFRange(f)
       THEN {FloatText(f, FloatDecentralized(f, lean), << >>) : lean \in Leans(f, 0)}
  ELSE {FloatText(f, p, ExponentText(f, p.e)) : p \in FloatE(f)}

\* streamout_vprintf for one directive: the texts it may print.  A long double is not
\* printed; behind the % of an unknown directive its other characters are printed as
\* they are.
FmtTexts(d) ==
  LET f == FmtParsed(d)
  IN  CASE d.conv \in {"d", "u", "x", "o", "b", "p"} -> {VPrintfNumber(f)}
        [] d.conv = "c" -> {VPrintfChar(f)}
        [] d.conv = "s" -> {VPrintfString(f)}
        [] d.conv = "q" -> {VPrintfArray(f)}
        [] d.conv \in {"f", "e", "g"} -> IF d.qual = "ll" THEN {<< >>} ELSE VPrintfFloat(f)
        [] d.conv = "%" -> {<<"%">>}
        [] OTHER -> {<<"%">> \o d.text}

-----------------------------------------------------------------------------
(***************************************************************************)
(* Streams.                                                                *)
(***************************************************************************)

\* The cache starts from its beginning again only when it was full.
PutByteMutant(s, ch) ==
  LET held == IF s.pos < s.size THEN Append(s.held, ch) ELSE s.held
  IN  IF s.kind = "function"
      THEN [s EXCEPT !.held = IF Len(held) = s.size THEN << >> ELSE held,
                     !.pos  = IF Len(held) = s.size THEN 0 ELSE Len(held),
                     !.sent = IF Len(held) = s.size \/ ch = FmtNewline THEN @ \o held ELSE @]
      ELSE [s EXCEPT !.held = IF s.kind = "memory" THEN held ELSE @,
                     !.pos  = IF s.kind = "memory" THEN Len(held) ELSE @,
                     !.sent = IF s.kind = "plain" THEN Append(@, ch) ELSE @]

\* streamout_in_byte: the stream and what goes to its function
PutByte(s, ch) ==
  CASE s.kind = "plain" -> [s EXCEPT !.sent = Append(@, ch)]
    [] s.kind = "memory" ->
         IF s.pos < s.size THEN [s EXCEPT !.held = SubSeq(@, 1, s.pos) \o <<ch>>, !.pos = @ + 1] ELSE s
    [] OTHER ->
         LET held == IF s.pos < s.size THEN Append(s.held, ch) ELSE s.held
         IN  IF Len(held) = s.size \/ (s.pos < s.size /\ ch = FmtNewline)
             THEN [s EXCEPT !.held = << >>, !.pos = 0, !.sent = @ \o held]
             ELSE [s EXCEPT !.held = held, !.pos = Len(held)]

\* streamout_finish
Finished(s) ==
  CASE s.kind = "plain" -> s
    [] s.kind = "memory" ->
         [s EXCEPT !.held = SubSeq(@, 1, IF s.pos < s.size THEN s.pos ELSE s.size - 1) \o <<FmtNul>>]
    [] OTHER -> [s EXCEPT !.held = << >>, !.pos = 0, !.sent = @ \o s.held]

Put(text) == FoldLeft(PutByte, [fmtStream EXCEPT !.sent = << >>], text)
Called(d, text, finished) ==
  [d |-> d, text |-> text, finished |-> finished,
   before |-> SubSeq(fmtStream.held, 1, fmtStream.pos)]

FmtNone == [conv |-> "none"]
FmtNoCall == [d |-> FmtNone, text |-> << >>, finished |-> FALSE, before |-> << >>]
FmtFresh(kind, size) == [kind |-> kind, size |-> size, held |-> << >>, pos |-> 0, sent |-> << >>]

FmtStart ==
  /\ fmtStream \in {FmtFresh(s.kind, s.size) : s \in FmtStreams}
  /\ fmtCall = FmtNoCall

\* eh_stream_vprintf, eh_stream_puts and eh_stream_putc
FormatPrint(d) ==
  /\ fmtStream.kind # "string"
  /\ \E text \in FmtTexts(d) : fmtStream' = Put(text) /\ fmtCall' = Called(d, text, FALSE)

\* eh_stream_finish
FormatFinish ==
  /\ fmtStream.kind # "string"
  /\ fmtStream' = Finished([fmtStream EXCEPT !.sent = << >>])
  /\ fmtCall' = Called(FmtNone, << >>, TRUE)

\* eh_vsnprintf into a buffer as large as the stream, through a stream of its own
FormatSnprintf(d) ==
  /\ fmtStream.kind = "memory" /\ fmtCall = FmtNoCall
  /\ \E text \in FmtTexts(d) :
       /\ fmtStream' = [Finished(Put(text)) EXCEPT !.kind = "string"]
       /\ fmtCall' = Called(d, text, TRUE)

\* eh_stream_memory_init: the buffer is used for something else.
FormatMemoryInit ==
  /\ fmtStream.kind \in {"memory", "string"} /\ fmtCall # FmtNoCall
  /\ fmtStream' = FmtFresh("memory", fmtStream.size) /\ fmtCall' = FmtNoCall

FmtNext ==
  \/ \E d \in FmtShort : FormatPrint(d)
  \/ FormatFinish
  \/ \E d \in FmtDirectives : FormatSnprintf(d)
  \/ FormatMemoryInit

FmtSpec == FmtStart /\ [][FmtNext]_fmtVars

-----------------------------------------------------------------------------
(***************************************************************************)
(* Properties.                                                             *)
(***************************************************************************)

IsSpace(ch) == ch = " "
Stripped(text) == SelectSeq(text, LAMBDA ch : ~IsSpace(ch))
DigitValue(ch) == CHOOSE v \in 0 .. 15 : ch \in {SmallDigits[v + 1], LargeDigits[v + 1]}
DigitsIn(text, base) ==
  SelectSeq(text, LAMBDA ch : \E v \in 1 .. base : ch \in {SmallDigits[v], LargeDigits[v]})
ReadBack(text, base) == FoldLeft(LAMBDA v, ch : v * base + DigitValue(ch), 0, DigitsIn(text, base))

\* An integer reads back as the value of its argument in the width of its qualifier,
\* with at least the digits of its precision.
NumberRight(f, text) ==
  /\ ReadBack(text, Base(f)) = LET a == Argument(f) IN IF a < 0 THEN -a ELSE a
  /\ (Argument(f) < 0) = (\E i \in DOMAIN text : text[i] = "-")
  /\ Len(DigitsIn(text, Base(f))) >= f.prec
  /\ Len(text) >= f.width

\* The string, or as much of it as the precision allows, and blanks on one side.
StringRight(f, text) ==
  /\ IsPrefix(Stripped(text), f.text)
  /\ Len(Stripped(text)) = IF f.prec \in 0 .. Len(f.text) THEN f.prec ELSE Len(f.text)
  /\ Len(text) = IF f.width > Len(Stripped(text)) THEN f.width ELSE Len(Stripped(text))
  /\ Len(text) > 0 /\ Stripped(text) # << >> => ~(IsSpace(Head(text)) /\ IsSpace(Last(text)))

\* Each byte of the array is printed once, the words with their high byte first.
ArrayRight(f, text) ==
  LET size  == FmtBytes[f.qual]
      hex   == DigitsIn(text, 16)
      inWord(k) == IF (k \div size + 1) * size <= f.prec THEN size ELSE f.prec % size
  IN  /\ Len(hex) = 2 * (IF f.prec < 0 THEN 0 ELSE f.prec)
      /\ \A k \in 0 .. f.prec - 1 :
           LET at == 2 * ((k \div size) * size + inWord(k) - (k % size)) - 1
           IN  16 * DigitValue(hex[at]) + DigitValue(hex[at + 1]) = f.bytes[k + 1]

\* What the code gets wrong: a tie whose places are all nines is rounded up without the
\* carry, and zero is divided by zero for %e.
FloatMisprinted(f) ==
  \/ f.num = 0 /\ f.conv = "e"
  \/ /\ f.conv # "e" /\ Places(f) > 0
     /\ 2 * Magnitude(f) * 10 ^ Places(f) = (2 * ((Magnitude(f) \div f.den + 1) * 10 ^ Places(f)) - 1) * f.den

\* Any other number is printed within half a unit of the last place.
FloatRight(f, text) ==
  LET marks    == {i \in DOMAIN text : text[i] \in {"e", "E"}}
      end      == IF marks = {} THEN Len(text) ELSE Min(marks) - 1
      mantissa == SubSeq(text, 1, end)
      dots     == {i \in 1 .. end : text[i] = "."}
      behind   == IF dots = {} THEN 0 ELSE Len(DigitsIn(SubSeq(mantissa, Min(dots), end), 10))
      x        == ReadBack(SubSeq(text, end + 1, Len(text)), 10)
      exponent == IF marks # {} /\ text[end + 2] = "-" THEN -x ELSE x
      shift    == behind - exponent
      up       == 10 ^ (IF shift > 0 THEN shift ELSE 0)
      down     == 10 ^ (IF shift > 0 THEN 0 ELSE -shift)
      distance == ReadBack(mantissa, 10) * down * f.den - Magnitude(f) * up
  IN  /\ 2 * (IF distance < 0 THEN -distance ELSE distance)
           <= f.den * down * 10 ^ (behind - Places(f))
      /\ (f.num < 0) = (text # << >> /\ Head(Stripped(text)) = "-")

TextRight(f, text) ==
  CASE f.conv \in {"d", "u", "x", "o", "b", "p"} -> NumberRight(f, text)
    [] f.conv \in {"s", "c"} -> StringRight(f, text)
    [] f.conv = "q" -> ArrayRight(f, text)
    [] f.conv \in {"f", "e", "g"} /\ f.qual # "ll" /\ f.den # 0 ->
         FloatMisprinted(f) \/ FloatRight(f, text)
    [] OTHER -> TRUE

\* What eh_stream_printf, eh_stream_finish and eh_vsnprintf promise together: a directive
\* prints the value of its argument whatever its flags, width and precision are; nothing
\* of a text is lost, repeated or reordered between the cache of a stream and its function
\* (streamout_in_byte, streamout_finish), and no finished line stays behind in the cache;
\* a buffer of eh_vsnprintf holds as much of the text as fits and ends with a NUL within
\* its size.
FormatInv ==
  LET s == fmtStream
      c == fmtCall
  IN  /\ c.d.conv # "none" => TextRight(FmtParsed(c.d), c.text)
      /\ s.kind = "function" =>
           /\ c.before \o c.text = s.sent \o s.held
           /\ s.pos = Len(s.held) /\ s.pos < s.size
           /\ FmtNewline \notin {s.held[i] : i \in DOMAIN s.held}
      /\ s.kind = "plain" => s.sent = c.text
      /\ s.kind \in {"memory", "string"} =>
           LET all  == c.before \o c.text
               room == IF c.finished THEN s.size - 1 ELSE s.size
               fits == IF Len(all) < room THEN Len(all) ELSE room
           IN  s.held = SubSeq(all, 1, fits) \o (IF c.finished THEN <<FmtNul>> ELSE << >>)
=============================================================================
