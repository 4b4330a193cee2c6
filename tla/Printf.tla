------------------------------- MODULE Printf -------------------------------
(***************************************************************************)
(* Formatted output (sys/printf): the reading of a format character by      *)
(* character (vprintf.c), what each conversion prints (put.c, putc.c,       *)
(* puts.c, putd.c, putf.c), and where the characters go: the console, a     *)
(* stream that may stall, or a caller's buffer.  The format is chosen as it *)
(* is read.  A floating-point number is a double of few digits, num / 2^two *)
(* or num * 10^ten, for which only a division by ten can be inexact; the     *)
(* case of letters is left out.                                              *)
(***************************************************************************)
EXTENDS Integers, Sequences, SequencesExt

CONSTANTS
  FlagChars,          \* flags a format uses, of {"-", "+", " ", "0", "#"}
  WidthDigits, PrecisionDigits, MaxDigits,  \* digits of widths and precisions, and bound: how many
  Ints, Naturals,     \* integer arguments
  Floats,             \* floating-point arguments: [neg, num, two, ten], or with kind "nan" or "inf"
  Outputs,            \* where output goes: [to, size, custom], of "console", "stream", "buffer", or "none"
  DefaultPrecision, MaxPrecision,  \* SYS_PRINTF_DEFAULT_FLOAT_PRECISION, _MAX_FLOAT_PRECISION: the table's last
  LowestFixed,        \* %g prints exponents from minus this without one: 4
  PointerDigits,      \* 2 * sizeof(void *)
  MaxText,            \* bound: characters of a format outside its directives
  MaxLost             \* bound: characters in a row, and in all, a stalled console or stream loses

VARIABLES
  output,     \* where this call's output goes, and whether it has a format handler
  pc,         \* what the reader of the format expects
  read,       \* characters read outside directives, and directives
  asked,      \* history: the directive's flag characters
  flags, width, precision,  \* of struct sys_printf_state
  long,       \* SYS_PRINTF_FLAG_LONG or _SIZET
  last,       \* history: the conversion last made
  pos,        \* state->pos
  all,        \* history: characters handed to putch
  shown,      \* characters that came out, or the buffer's cells
  ended       \* the call has returned

vars == <<output, pc, read, asked, flags, width, precision, long, last, pos, all, shown, ended>>
directive == <<asked, flags, width, precision, long>>

NoConversion == [spec |-> "none", arg |-> 0, text |-> <<>>]
Init ==
  /\ output \in Outputs /\ pc = (IF output.to = "none" THEN "refused" ELSE "text") /\ read = [text |-> 0, directives |-> 0]
  /\ asked = {} /\ flags = {} /\ width = 0 /\ precision = 0 /\ long = FALSE
  /\ last = NoConversion /\ pos = 0 /\ all = <<>> /\ ended = FALSE
  /\ shown = IF output.to = "buffer" THEN [i \in 1 .. output.size |-> "?"] ELSE <<>>

------------------------------------------------------------------------------
\* putch for each character of a text.  A console or a stream that takes nothing
\* for 250 ms loses the character, which the console counts all the same; a
\* buffer keeps what fits below its terminator.
Taken(text) == {text} \cup {SubSeq(text, 1, i - 1) \o SubSeq(text, i + n, Len(text)) :
                            i \in DOMAIN text, n \in 1 .. MaxLost - (Len(all) - Len(shown))}
Cells(text) == [i \in DOMAIN shown |-> IF i \in pos + 1 .. pos + Len(text) /\ i < output.size THEN text[i - pos] ELSE shown[i]]
ToConsole(text) == \E taken \in Taken(text) : shown' = shown \o taken /\ pos' = pos + Len(text)
ToStream(text)  == \E taken \in Taken(text) : shown' = shown \o taken /\ pos' = pos + Len(taken)
ToBuffer(text)  == shown' = Cells(text) /\ pos' = pos + Len(text)
Put(text) ==
  /\ all' = all \o text
  /\ CASE output.to = "console" -> ToConsole(text)
       [] output.to = "stream"  -> ToStream(text)
       [] output.to = "buffer"  -> ToBuffer(text)
  /\ UNCHANGED output

\* An ordinary character, or %%, which prints one likewise.
Text ==
  /\ pc = "text" /\ ~ended /\ read.text < MaxText /\ read' = [read EXCEPT !.text = @ + 1]
  /\ Put(<<"a">>) /\ UNCHANGED <<pc, directive, last, ended>>
Percent ==
  /\ pc = "text" /\ ~ended /\ read.directives = 0 /\ read' = [read EXCEPT !.directives = 1] /\ pc' = "flags"
  /\ asked' = {} /\ flags' = {} /\ width' = 0 /\ precision' = 0 /\ long' = FALSE
  /\ UNCHANGED <<output, last, pos, all, shown, ended>>
\* A bug the checks must see: a zero after the minus is heeded.
WithZero(f) == IF f = "-" THEN (flags \ {"0"}) \cup {"-"} ELSE flags \cup {f}
\* Left alignment and zero padding exclude each other, the first one prevailing.
With(f) == CASE f = "-" -> (flags \ {"0"}) \cup {"-"}
             [] f = "0" -> IF "-" \in flags THEN flags ELSE flags \cup {"0"}
             [] OTHER   -> flags \cup {f}
Flag(f) ==
  /\ pc = "flags" /\ flags' = With(f) /\ asked' = asked \cup {f}
  /\ UNCHANGED <<output, pc, read, width, precision, long, last, pos, all, shown, ended>>
Bound(n) == n * 10 < 10^MaxDigits
\* A zero among the flags is a flag.
WidthDigit(d) ==
  /\ \/ pc = "flags" /\ d # 0
     \/ pc = "width"
  /\ Bound(width) /\ width' = width * 10 + d /\ pc' = "width"
  /\ UNCHANGED <<output, read, asked, flags, precision, long, last, pos, all, shown, ended>>
Dot ==
  /\ pc \in {"flags", "width"} /\ pc' = "precision" /\ flags' = flags \cup {"."}
  /\ UNCHANGED <<output, read, asked, width, precision, long, last, pos, all, shown, ended>>
PrecisionDigit(d) ==
  /\ pc = "precision" /\ Bound(precision) /\ precision' = precision * 10 + d
  /\ UNCHANGED <<output, pc, read, asked, flags, width, long, last, pos, all, shown, ended>>
\* h is read over, a promoted argument being an int.
Length(l) ==
  /\ pc \in {"flags", "width", "precision", "length"} /\ pc' = "length" /\ long' = (long \/ l # "h")
  /\ UNCHANGED <<output, read, asked, flags, width, precision, last, pos, all, shown, ended>>
\* A directive the format ends in prints its percent sign.
CutShort ==
  /\ pc \in {"flags", "width", "precision", "length"} /\ pc' = "text" /\ ended' = TRUE
  /\ Put(<<"%">>) /\ UNCHANGED <<read, directive, last>>

------------------------------------------------------------------------------
\* The conversions, under the flags fl and the width w.
Digit == <<"0", "1", "2", "3", "4", "5", "6", "7", "8", "9", "a", "b", "c", "d", "e", "f">>
Times(c, n) == [i \in 1 .. n |-> c]
Numerals(n, base) == LET t[k \in Nat] == (IF k < base THEN <<>> ELSE t[k \div base]) \o <<Digit[(k % base) + 1]>> IN t[n]
Sign(fl, neg) == IF neg THEN <<"-">> ELSE IF "+" \in fl THEN <<"+">> ELSE IF " " \in fl THEN <<" ">> ELSE <<>>
Base(spec) == CASE spec \in {"x", "p"} -> 16 [] spec = "o" -> 8 [] spec = "b" -> 2 [] OTHER -> 10
Prefix(fl, spec) == IF "#" \notin fl THEN <<>>
                    ELSE CASE Base(spec) = 16 -> <<"0", "x">> [] Base(spec) = 2 -> <<"0", "b">>
                           [] Base(spec) = 8 -> <<"0">> [] OTHER -> <<>>
Field(text, fl, w, pad) ==
  LET n == IF w > Len(text) THEN w - Len(text) ELSE 0 IN
  IF "-" \in fl THEN text \o Times(" ", n) ELSE Times(pad, n) \o text
Shown(spec, arg, text) == [spec |-> spec, arg |-> arg, text |-> text]

\* An integer's characters are put together from the end of a buffer; the 64-bit
\* conversion bounds its zeros by the room left in 68 characters.
Magnitude(arg) == IF arg < 0 THEN -(arg + 1) + 1 ELSE arg
Before(fl, spec, arg) == Sign(fl, arg < 0) \o Prefix(fl, spec)
ZerosWanted(spec, arg, fl, w) ==
  LET n == Len(Numerals(Magnitude(arg), Base(spec))) + Len(Before(fl, spec, arg)) IN
  IF "0" \in fl /\ w > n THEN w - n ELSE 0
Assembled(spec, arg, fl, w, zeros) ==
  Shown(spec, arg, Field(Before(fl, spec, arg) \o Times("0", zeros) \o Numerals(Magnitude(arg), Base(spec)), fl, w, " "))
Narrow(spec, arg, fl, w) == Assembled(spec, arg, fl, w, ZerosWanted(spec, arg, fl, w))
Wide(spec, arg, fl, w) ==
  LET room == 67 - Len(Numerals(Magnitude(arg), Base(spec)))
      wanted == ZerosWanted(spec, arg, fl, w) IN
  Assembled(spec, arg, fl, w, IF wanted > room THEN room ELSE wanted)
Whole(spec, arg) == IF long THEN Wide(spec, arg, flags, width) ELSE Narrow(spec, arg, flags, width)
\* Pointers have all their digits, whatever the directive says.
Pointer(arg) == Wide("p", arg, flags \cup {"#", "0"}, PointerDigits + 2)

\* A bug the checks must see: halves always go up.
RoundHalfUp(n, d) == (n + d \div 2) \div d
\* Floating point.  The quotient n / d is what a double holds of v * 10^k, if no
\* division by ten was inexact; then the double is off by less than tells any
\* two roundings apart, except on a half.
RoundHalfEven(n, d) == LET q == n \div d  r == n % d IN
  IF 2 * r > d \/ (2 * r = d /\ q % 2 = 1) THEN q + 1 ELSE q
Power(b, k) == IF k > 0 THEN b^k ELSE 1
Over(v, k) == LET e == v.ten + k  t == v.ten + k - v.two IN
  [n |-> v.num * Power(5, e) * Power(2, t), d |-> Power(5, -e) * Power(2, -t)]
DividesExactly(v, times) == v.num % Power(5, times - v.ten) = 0
Roundings(r, exact) ==
  IF ~exact /\ 2 * (r.n % r.d) = r.d THEN {r.n \div r.d, r.n \div r.d + 1} ELSE {RoundHalfEven(r.n, r.d)}
Precision(adaptive) ==
  LET p == IF "." \in flags THEN precision ELSE DefaultPrecision
      q == IF adaptive /\ p = 0 THEN 1 ELSE p IN IF q > MaxPrecision THEN MaxPrecision ELSE q
Decimals(n, p) == [i \in 1 .. p |-> Digit[((n \div 10^(p - i)) % 10) + 1]]
Trimmed(text) ==
  LET cut[k \in 0 .. Len(text)] == IF k > 0 /\ text[k] = "0" THEN cut[k - 1] ELSE k
      k == cut[Len(text)] IN
  SubSeq(text, 1, IF k > 0 /\ text[k] = "." THEN k - 1 ELSE k)
Fraction(text, fraction, p, trim) ==
  IF p = 0 /\ "#" \notin flags THEN text
  ELSE LET full == text \o <<".">> \o Decimals(fraction, p) IN IF trim /\ "#" \notin flags THEN Trimmed(full) ELSE full
\* The zeros of a width go before the sign.
Emitted(spec, v, text) == Shown(spec, v, Field(text, flags, width, IF "0" \in flags THEN "0" ELSE " "))
\* How often a value is divided by ten, or less than 0, multiplied, to lie in [1, 10).
Exponent(v) ==
  CASE v.num = 0 -> 0
    [] v.num >= Power(2, v.two) -> Len(Numerals(v.num \div Power(2, v.two), 10)) - 1 + v.ten
    [] OTHER -> IF v.num = 0 THEN 0 ELSE -(CHOOSE k \in 1 .. 9 : v.num * 10^k >= 2^v.two /\ v.num * 10^(k - 1) < 2^v.two)
\* The text of each rounding the mantissa can have.
Exponential(spec, v, p, trim) ==
  {LET over == rounded >= 10 * 10^p
       mant == IF over THEN rounded \div 10 ELSE rounded
       exp  == Exponent(v) + (IF over THEN 1 ELSE 0)
       size == Numerals(IF exp < 0 THEN -exp ELSE exp, 10) IN
   Emitted(spec, v, Fraction(Sign(flags, v.neg) \o Numerals(mant \div 10^p, 10), mant % 10^p, p, trim)
                    \o <<"e", IF exp < 0 THEN "-" ELSE "+">> \o Times("0", 2 - Len(size)) \o size) :
   rounded \in Roundings(Over(v, p - Exponent(v)), DividesExactly(v, Exponent(v)))}
\* Beyond UINT64_MAX, a number of 20 digits that begins with these, nothing is
\* printed in full; below, a fraction is scaled by the table and a whole part
\* has the digits of num and the zeros of ten.
Huge(v) == LET n == Len(Numerals(v.num, 10)) IN
  Exponent(v) > 19 \/ (Exponent(v) = 19 /\ v.num > 1844674407 \div 10^(10 - n))
Fixed(spec, v, p, trim) ==
  LET one      == Power(2, v.two)
      scaled   == Over([v EXCEPT !.num = @ % one], p)
      fraction == IF v.two = 0 THEN 0 ELSE RoundHalfEven(scaled.n, scaled.d)
      whole    == IF p = 0 THEN RoundHalfEven(v.num, one) ELSE v.num \div one + (IF fraction >= 10^p THEN 1 ELSE 0) IN
  Emitted(spec, v, Fraction(Sign(flags, v.neg) \o Numerals(whole, 10) \o Times("0", v.ten),
                            IF p = 0 THEN 0 ELSE fraction % 10^p, p, trim))
InFull(spec, v, p, trim) == IF Huge(v) THEN Exponential(spec, v, p, trim) ELSE {Fixed(spec, v, p, trim)}
Place(v) == Precision(TRUE) - Exponent(v) - 1
FixedFits(v) == v.num = 0 \/ (Exponent(v) >= -LowestFixed /\ Exponent(v) < Precision(TRUE))
NoNumber(spec, v) == Shown(spec, v, Field(Sign(flags, v.neg /\ v.kind # "nan") \o <<v.kind>>, flags, width, " "))
\* Bounds: the table of scales ends before the places %g may ask for, and so does
\* the 32-bit conversions' buffer of 64 characters before some widths.
InTable(p) == p <= MaxPrecision
InBuffer == ~("0" \in flags /\ width > 60 /\ ~long)
Float(spec, v) ==
  CASE v.kind # "finite" -> {NoNumber(spec, v)}
    [] v.kind = "finite" /\ spec = "f" -> InFull(spec, v, Precision(FALSE), FALSE)
    [] v.kind = "finite" /\ spec = "e" -> Exponential(spec, v, Precision(FALSE), FALSE)
    [] v.kind = "finite" /\ spec = "g" -> IF FixedFits(v)
                                          THEN IF InTable(Place(v)) THEN InFull(spec, v, Place(v), TRUE) ELSE {}
                                          ELSE Exponential(spec, v, Precision(TRUE) - 1, TRUE)

\* A character, and a string or the placeholder of a null one.
Character(c) == Shown("c", 0, Field(<<c>>, flags, width, " "))
NullStr == <<"<", "n", "u", "l", "l", ">">>
String(str, null) == Shown("s", 0, Field(IF null THEN NullStr ELSE str, flags, width, " "))

\* A specifier nobody knows is left to the caller's handler, and prints nothing
\* if there is none or it knows no better.
Custom == {<<>>} \cup (IF output.custom THEN {<<"h", "i">>} ELSE {})
Conversions ==
       {Whole("d", n) : n \in Ints}
  \cup {Whole(spec, n) : spec \in {"u", "x", "o", "b"}, n \in Naturals}
  \cup {Pointer(n) : n \in Naturals}
  \cup {Character("c")} \cup {String(str, FALSE) : str \in {<<>>, <<"a", "b">>}} \cup {String(<<>>, TRUE)}
  \cup UNION {Float(spec, v) : spec \in {"f", "e", "g"}, v \in Floats}
  \cup {Shown("other", 0, text) : text \in Custom}
Convert ==
  /\ pc \in {"flags", "width", "precision", "length"} /\ pc' = "text"
  /\ InBuffer /\ \E c \in Conversions : last' = c /\ Put(c.text)
  /\ UNCHANGED <<read, directive, ended>>
\* The end of the format: a buffer is terminated, and the length returned is
\* what the whole output would have been.  No stream, or no format for one, is
\* refused at once.
Finish ==
  /\ pc \in {"text", "refused"} /\ ~ended /\ ended' = TRUE
  /\ UNCHANGED <<output, pc, read, directive, last, pos, all, shown>>
Terminated == LET end == IF pos < output.size - 1 THEN pos + 1 ELSE output.size IN
  IF output.to = "buffer" /\ output.size > 0 THEN SubSeq(shown, 1, end - 1) \o <<"end">> ELSE shown

Next ==
  \/ Text \/ Percent \/ \E f \in FlagChars : Flag(f)
  \/ \E d \in WidthDigits : WidthDigit(d)
  \/ \E d \in PrecisionDigits : PrecisionDigit(d)
  \/ Dot \/ \E l \in {"l", "h"} : Length(l)
  \/ CutShort \/ Convert \/ Finish

Spec == Init /\ [][Next]_vars

------------------------------------------------------------------------------
\* What a number looks like, said anew: its digits by their places, and the
\* flags as a set, in whatever order they were written.
Numeral(n, base) ==
  LET len == CHOOSE k \in 1 .. 12 : base^k > n /\ (k = 1 \/ base^(k - 1) <= n) IN
  [i \in 1 .. len |-> Digit[((n \div base^(len - i)) % base) + 1]]
Size(arg) == IF arg < 0 THEN -arg ELSE arg
WholeWanted ==
  LET before == Sign(asked, last.arg < 0) \o Prefix(asked, last.spec)
      digits == Numeral(Size(last.arg), Base(last.spec))
      missing == IF width > Len(before \o digits) THEN width - Len(before \o digits) ELSE 0 IN
  CASE "-" \in asked                      -> before \o digits \o Times(" ", missing)
    [] "-" \notin asked /\ "0" \in asked  -> before \o Times("0", missing) \o digits
    [] "-" \notin asked /\ "0" \notin asked -> Times(" ", missing) \o before \o digits
\* A number with its decimal zeros in the exponent, and a text read back as one.
Stripped(n, e) == LET s[k \in 0 .. 10] == IF k < 10 /\ n # 0 /\ n % 10^(k + 1) = 0 THEN s[k + 1] ELSE k IN
  IF n = 0 THEN <<0, 0>> ELSE <<n \div 10^s[0], e + s[0]>>
Numerical(c) == c \in {Digit[i] : i \in 1 .. 10}
ValueOf(text) == FoldLeft(LAMBDA n, c : 10 * n + (CHOOSE i \in 1 .. 10 : Digit[i] = c) - 1, 0, SelectSeq(text, Numerical))
Position(text, c) == LET at == {i \in DOMAIN text : text[i] = c} IN IF at = {} THEN Len(text) + 1 ELSE CHOOSE i \in at : TRUE
Body(text) == SelectSeq(SubSeq(text, 1, Position(text, "e") - 1), LAMBDA c : c \notin {" ", "+", "-"})
DecimalsOf(body) == IF Position(body, ".") > Len(body) THEN 0 ELSE Len(body) - Position(body, ".")
ExponentOf(text) == LET tail == SubSeq(text, Position(text, "e") + 1, Len(text)) IN
  IF tail = <<>> THEN 0 ELSE IF tail[1] = "-" THEN -ValueOf(tail) ELSE ValueOf(tail)
ReadBack(text) ==
  LET digits == SelectSeq(Body(text), Numerical)
      zeros  == CHOOSE k \in 0 .. Len(digits) : /\ \A i \in Len(digits) - k + 1 .. Len(digits) : digits[i] = "0"
                                               /\ k < Len(digits) => digits[Len(digits) - k] # "0"
      n      == ValueOf(SubSeq(digits, 1, Len(digits) - zeros)) IN
  Stripped(n, ExponentOf(text) - DecimalsOf(Body(text)) + zeros)
\* v, as the multiples of 10^-place nearest to it: of two the even one, unless v is
\* an odd multiple of a half that a double does not keep.
Rounded(v, place, kept) ==
  IF v.ten + place >= v.two THEN {Stripped(v.num * Power(5, v.two), v.ten - v.two)}
  ELSE LET r == Over(v, place)  off(q) == IF q * r.d > r.n THEN q * r.d - r.n ELSE r.n - q * r.d IN
       {Stripped(q, -place) : q \in {x \in {r.n \div r.d, r.n \div r.d + 1} :
           2 * off(x) < r.d \/ (2 * off(x) = r.d /\ (kept => x % 2 = 0))}}
FloatWanted ==
  LET v == last.arg  text == last.text  body == Body(text)
      p == Precision(FALSE)
      scaled == last.spec = "e" \/ (last.spec = "f" /\ Huge(v)) \/ (last.spec = "g" /\ ~FixedFits(v))
      place == CASE last.spec = "g" -> Precision(TRUE) - 1 - Exponent(v)
                 [] last.spec # "g" -> IF scaled THEN p - Exponent(v) ELSE p IN
  /\ ReadBack(text) \in Rounded(v, place, scaled => DividesExactly(v, Exponent(v)))
  /\ v.neg <=> \E i \in 1 .. Position(text, "e") - 1 : text[i] = "-"
  /\ Len(text) >= width
  /\ last.spec = "g" /\ "#" \notin asked /\ DecimalsOf(body) > 0 => body[Len(body)] # "0"

(* What is printed for an integer has its sign, prefix and every digit, fills  *)
(* the width with zeros behind the prefix or spaces on the side asked for, and *)
(* depends on the flags' set only; a floating-point number read back is the    *)
(* argument rounded, halves to even, at the place its precision asks for, with *)
(* its sign, and %g leaves no zero at its end.  A caller's buffer holds as     *)
(* much of the output as fits and a terminator inside it, and the length       *)
(* returned is the length of the whole, on a stream the length of what came    *)
(* out.                                                                        *)
PrintfSound ==
  /\ last.spec \in {"d", "u", "x", "o", "b"} => last.text = WholeWanted
  /\ last.spec \in {"f", "e", "g"} /\ last.arg.kind = "finite" => FloatWanted
  /\ last.spec = "p" => Len(last.text) = PointerDigits + 2 + Len(Sign(asked, FALSE))
                        \/ Len(last.text) = PointerDigits + 2
  /\ pos = IF output.to = "stream" THEN Len(shown) ELSE Len(all)
  /\ ended /\ output.to = "buffer" /\ output.size > 0 =>
       LET n == IF Len(all) < output.size THEN Len(all) ELSE output.size - 1 IN
       Terminated = SubSeq(all, 1, n) \o <<"end">>
  /\ output.to = "buffer" => Len(shown) = output.size
=============================================================================
