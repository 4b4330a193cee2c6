------------------------------- MODULE Scanner -------------------------------
(***************************************************************************)
(* The flag-driven scanner (sys/string/scanner.c), the rune tokenizer      *)
(* (tokenize.c) and what reads the text of their tokens (quoted.c,         *)
(* escape.c), over the read-only stream of a string (iostream.c).          *)
(*                                                                         *)
(* A stream is a sequence of bytes and a position.  Every look ahead is    *)
(* undone by a seek unless it is taken, so a step that scans returns where *)
(* it leaves the stream and the runes it counted on the way.               *)
(***************************************************************************)
EXTENDS Integers, Sequences, FiniteSets
LOCAL INSTANCE SequencesExt

CONSTANTS
  Texts,    \* contents of the stream: sequences of bytes, without the NUL that ends a string
  FlagSets, \* Runes, for the tokenizer, or flags of the scanner, each with the flag it includes
  Caps      \* sizes of buffers

Runes == {"runes"}
Flags == {"escapes", "newlines", "keywords", "underscores", "dashes", "single", "double", "hash", "slash",
          "numbers", "octal", "binary", "hex", "float"}
Classes == {"other", "space", "digit", "alpha", "punct", "symbol", "control", "escape", "newline", "keyword",
            "string", "comment", "number"}

VARIABLES text,   \* what the stream holds
          flags,  \* it->flags
          pos,    \* the position of the stream
          tokens, \* what the calls returned, the last one being the current token
          ended,  \* the last call found the end of the stream
          copy,   \* the current token's text, read back into a buffer, or NoText
          parsed  \* what became of parsing that

vars == <<text, flags, pos, tokens, ended, copy, parsed>>

NoText   == <<0>>
Unparsed == [ok |-> FALSE, out |-> <<>>, room |-> 0]

\* The characters the code tells apart.
Newline    == 10
Quote      == 34
Hash       == 35
Apostrophe == 39
Slash      == 47
Zero       == 48
Backslash  == 92
LetterU    == 117
Decimal    == 48..57
Octal      == 48..55
Binary     == 48..49
Hex        == Decimal \cup 65..70 \cup 97..102
Letters    == 65..90 \cup 97..122
Signs      == {43, 45}
RuneError  == 65533
NoRune     == -1

Init ==
  /\ text \in Texts /\ flags \in FlagSets
  /\ pos = 0 /\ tokens = <<>> /\ ended = FALSE /\ copy = NoText /\ parsed = Unparsed

------------------------------------------------------------------------------
(* Runes: rune.c, rune.h and isa.c.                                         *)

\* Bytes past the end are zeros of the buffer a rune is decoded from.
Byte(p) == IF p < Len(text) THEN text[p + 1] ELSE 0

Size(lead) ==
  CASE lead < 128 -> 1 [] lead \in 194..223 -> 2 [] lead \in 224..239 -> 3 [] lead \in 240..244 -> 4
    [] OTHER -> 0

\* The second byte excludes overlong forms, surrogates and what lies beyond Unicode.
Second(lead) ==
  CASE lead = 224 -> 160..191 [] lead = 237 -> 128..159 [] lead = 240 -> 144..191
    [] lead = 244 -> 128..143 [] OTHER -> 128..191

WellFormed(p) ==
  LET size == Size(Byte(p))
  IN  /\ size > 0
      /\ size > 1 => Byte(p + 1) \in Second(Byte(p))
      /\ \A i \in 2..(size - 1) : Byte(p + i) \in 128..191

\* What is malformed is one byte wide.
Width(p) == IF WellFormed(p) THEN Size(Byte(p)) ELSE 1
Rune(p) ==
  LET size == Size(Byte(p))
      six(i) == Byte(p + i) % 64
  IN  IF ~WellFormed(p) THEN RuneError
      ELSE CASE size = 1 -> Byte(p)
             [] size = 2 -> (Byte(p) % 32) * 64 + six(1)
             [] size = 3 -> ((Byte(p) % 16) * 64 + six(1)) * 64 + six(2)
             [] size = 4 -> (((Byte(p) % 8) * 64 + six(1)) * 64 + six(2)) * 64 + six(3)

Space   == 9..13 \cup {32, 133, 160}
Control == 0..31 \cup 127..159
Upper   == 65..90 \cup 192..214 \cup 216..222
Lower   == 97..122 \cup {223} \cup 224..246 \cup 248..255
Punct   == 33..35 \cup 37..42 \cup 44..47 \cup {58, 59, 63, 64, 91, 92, 93, 95, 123, 125}
             \cup {161, 167, 182, 183, 191}
Symbol  == {36, 43, 60, 61, 62, 94, 96, 124, 126}
             \cup 162..166 \cup {168, 169, 172, 174, 175, 176, 177, 180, 184, 215, 247}

RuneClass(r) ==
  CASE r \in Space -> "space"
    [] r \in Control \ Space -> "control"
    [] r \in Decimal -> "digit"
    [] r \in Upper \cup Lower -> "alpha"
    [] r \in Punct -> "punct"
    [] r \in Symbol -> "symbol"
    [] OTHER -> "other"

------------------------------------------------------------------------------
(* Looking ahead: where the stream is left, and the runes counted.          *)

Nothing(p) == [to |-> p, runes |-> 0]
Taken(p, scan) == scan.to > p

\* The longest run of runes from p on that satisfy Holds.
Run(p, Holds(_)) ==
  LET from[q \in p..Len(text)] ==
        IF q = Len(text) \/ ~Holds(Rune(q)) THEN Nothing(q)
        ELSE LET rest == from[q + Width(q)] IN [rest EXCEPT !.runes = @ + 1]
  IN  from[p]

ToEol(p) == Run(p, LAMBDA r : r # Newline)
\* Digits are ASCII: a byte is a rune.
Digits(p, digits) == Run(p, LAMBDA r : r \in digits)

\* After a backslash.
MatchEscape(p) ==
  IF Byte(p) \in {Quote, Backslash, Slash, 98, 102, 110, 114, 116} THEN [to |-> p + 1, runes |-> 2]
  ELSE IF Byte(p) = LetterU /\ \A i \in 1..4 : Byte(p + i) \in Hex THEN [to |-> p + 5, runes |-> 6]
  ELSE Nothing(p)

\* Mutant: any backslash before a quote keeps the string open.
ScanQuotedByLast(p, quote) ==
  LET from[q \in p..Len(text)] ==
        LET next == q + Width(q)
            Then(n, r) == LET rest == from[r] IN [rest EXCEPT !.runes = @ + n]
        IN  IF q = Len(text) THEN Nothing(q)
            ELSE IF Rune(q) = quote /\ Byte(q - 1) # Backslash THEN [to |-> next, runes |-> 1]
            ELSE Then(1, next)
  IN  from[p]

\* After an opening quote: up to the closing one or to the end.
ScanQuoted(p, quote) ==
  LET from[q \in p..Len(text)] ==
        LET next == q + Width(q)
            Then(n, r) == LET rest == from[r] IN [rest EXCEPT !.runes = @ + n]
        IN  IF q = Len(text) THEN Nothing(q)
            ELSE IF Rune(q) = quote THEN [to |-> next, runes |-> 1]
            ELSE IF Rune(q) = Backslash /\ next < Len(text) THEN Then(2, next + Width(next))
            ELSE Then(1, next)
  IN  from[p]

\* A mark and at least one digit: 0x, 0b, 0o, or a fraction.
Prefixed(p, marks, digits) ==
  IF Byte(p) \in marks /\ Byte(p + 1) \in digits
  THEN [Digits(p + 1, digits) EXCEPT !.runes = @ + 1] ELSE Nothing(p)

\* Mutant: an exponent's mark and sign are not given back when no digit follows.
ExponentKept(p) ==
  LET sign == IF Byte(p + 1) \in Signs THEN 1 ELSE 0
  IN  IF Byte(p) \in {69, 101}
      THEN [Digits(p + 1 + sign, Decimal) EXCEPT !.runes = @ + 1 + sign] ELSE Nothing(p)

Fraction(p) == Prefixed(p, {46}, Decimal)
Exponent(p) ==
  LET sign == IF Byte(p + 1) \in Signs THEN 1 ELSE 0
  IN  IF Byte(p) \in {69, 101} /\ Byte(p + 1 + sign) \in Decimal
      THEN [Digits(p + 1 + sign, Decimal) EXCEPT !.runes = @ + 1 + sign] ELSE Nothing(p)

\* At a sign or a digit; the runes are those of the whole number.
ScanNumber(p) ==
  LET sign  == IF Byte(p) \in Signs THEN 1 ELSE 0
      after == p + sign + 1
      forms == SelectSeq(<<IF "hex" \in flags THEN Prefixed(after, {88, 120}, Hex) ELSE Nothing(after),
                           IF "binary" \in flags THEN Prefixed(after, {66, 98}, Binary) ELSE Nothing(after),
                           IF "octal" \in flags THEN Prefixed(after, {79, 111}, Octal) ELSE Nothing(after),
                           IF "octal" \in flags THEN Digits(after, Octal) ELSE Nothing(after)>>,
                         LAMBDA form : Taken(after, form))
      whole == Digits(after, Decimal)
      frac  == IF "float" \in flags THEN Fraction(whole.to) ELSE Nothing(whole.to)
      exp   == IF "float" \in flags THEN Exponent(frac.to) ELSE Nothing(frac.to)
  IN  IF Byte(p + sign) \notin Decimal THEN Nothing(p)
      ELSE IF Byte(p + sign) = Zero /\ forms # <<>> THEN [forms[1] EXCEPT !.runes = @ + 1 + sign]
      ELSE [to |-> exp.to, runes |-> 1 + sign + whole.runes + frac.runes + exp.runes]

------------------------------------------------------------------------------
(* sys_scanner_next, sys_rune_tokenize_next and the reading back.           *)

Class(r) ==
  IF r = Newline /\ "newlines" \in flags THEN "newline"
  ELSE IF r \in Letters /\ "keywords" \in flags THEN "keyword"
  ELSE RuneClass(r)

InKeyword(r) == \/ r \in Letters \cup Decimal
                \/ r = 95 /\ "underscores" \in flags
                \/ r = 45 /\ "dashes" \in flags

Return(to, runes, isa) ==
  /\ tokens' = Append(tokens, [start |-> pos, bytes |-> to - pos, runes |-> runes, isa |-> isa])
  /\ pos' = to /\ ended' = FALSE /\ copy' = NoText /\ parsed' = Unparsed
  /\ UNCHANGED <<text, flags>>

More == pos < Len(text)
Starts(rune) == More /\ flags # Runes /\ Rune(pos) = rune

EscapeTaken == "escapes" \in flags /\ Starts(Backslash) /\ Taken(pos + 1, MatchEscape(pos + 1))
StringTaken == ("single" \in flags /\ Starts(Apostrophe)) \/ ("double" \in flags /\ Starts(Quote))
HashTaken   == "hash" \in flags /\ Starts(Hash)
SlashTaken  == "slash" \in flags /\ Starts(Slash) /\ Byte(pos + 1) = Slash
NumberTaken == /\ "numbers" \in flags /\ \E r \in Decimal \cup Signs : Starts(r)
               /\ Taken(pos, ScanNumber(pos))

NextEscape ==
  LET scan == MatchEscape(pos + 1)
  IN  EscapeTaken /\ Return(scan.to, scan.to - pos, "escape")
NextString ==
  LET scan == ScanQuoted(pos + 1, Byte(pos))
  IN  StringTaken /\ Return(scan.to, 1 + scan.runes, "string")
NextHash ==
  LET scan == ToEol(pos + 1)
  IN  HashTaken /\ Return(scan.to, 1 + scan.runes, "comment")
NextSlash ==
  LET scan == ToEol(pos + 2)
  IN  SlashTaken /\ Return(scan.to, 2 + scan.runes, "comment")
NextNumber ==
  LET scan == ScanNumber(pos)
  IN  NumberTaken /\ Return(scan.to, scan.runes, "number")

\* Whatever has no shape of its own, or was given back by what looked for one.
Plain == More /\ flags # Runes /\ ~(EscapeTaken \/ StringTaken \/ HashTaken \/ SlashTaken \/ NumberTaken)
Single == {"punct", "symbol", "newline", "control"}

NextOne ==
  /\ Plain /\ Class(Rune(pos)) \in Single
  /\ Return(pos + Width(pos), 1, Class(Rune(pos)))

NextRun ==
  LET isa == Class(Rune(pos))
      same(r) == IF isa = "keyword" THEN InKeyword(r) ELSE Class(r) = isa
      scan == Run(pos + Width(pos), same)
  IN  Plain /\ isa \notin Single /\ Return(scan.to, 1 + scan.runes, isa)

\* sys_rune_tokenize_next: no shapes, and runs of every class.
NextRunes ==
  LET isa  == RuneClass(Rune(pos))
      scan == Run(pos + Width(pos), LAMBDA r : RuneClass(r) = isa)
  IN  More /\ flags = Runes /\ Return(scan.to, 1 + scan.runes, isa)

NextFails ==
  /\ ~More /\ ended' = TRUE
  /\ UNCHANGED <<text, flags, pos, tokens, copy, parsed>>

\* sys_scanner_token: the stream is moved to the token and back.
Seek(p, target) == IF target \in 0..Len(text) THEN target ELSE p
Current == tokens[Len(tokens)]
Token(cap) ==
  LET at   == Seek(pos, Current.start)
      want == IF Current.bytes < cap THEN Current.bytes ELSE cap
      left == IF at + want < Len(text) THEN at + want ELSE Len(text)
  IN  /\ tokens # <<>> /\ copy = NoText
      /\ copy' = SubSeq(text, at + 1, left)
      /\ pos' = Seek(left, pos)
      /\ UNCHANGED <<text, flags, tokens, ended, parsed>>

------------------------------------------------------------------------------
(* sys_string_parse_escape and sys_string_parse_quoted, of the text read    *)
(* back with a NUL after it.                                                *)

Char(i) == IF i \in 1..Len(copy) THEN copy[i] ELSE 0
HexValue(c) == IF c \in Decimal THEN c - 48 ELSE ((c - 65) % 32) + 10
Unescaped(c) ==
  CASE c \in {Quote, Backslash, Slash} -> c
    [] c = 98 -> 8 [] c = 102 -> 12 [] c = 110 -> 10 [] c = 114 -> 13 [] c = 116 -> 9 [] OTHER -> 0

\* The rune the escape at i stands for, or NoRune; len is 0 for a string that ends with it.
ParseEscape(i, len) ==
  LET c     == Char(i + 1)
      want  == IF c = LetterU THEN 6 ELSE 2
      digit(k) == HexValue(Char(i + 1 + k))
      value == IF c # LetterU THEN Unescaped(c)
               ELSE ((digit(1) * 16 + digit(2)) * 16 + digit(3)) * 16 + digit(4)
  IN  IF /\ Char(i) = Backslash
         /\ c = LetterU \/ Unescaped(c) # 0
         /\ IF len = 0 THEN TRUE ELSE len = want
         /\ c = LetterU => (\A k \in 1..4 : Char(i + 1 + k) \in Hex) /\ value \notin 55296..57343
         /\ len = 0 => Char(i + want) = 0
      THEN value ELSE NoRune

\* At most three bytes: an escape has four digits.
Encode(r) ==
  IF r < 128 THEN <<r>>
  ELSE IF r < 2048 THEN <<192 + (r \div 64), 128 + (r % 64)>>
  ELSE <<224 + (r \div 4096), 128 + ((r \div 64) % 64), 128 + (r % 64)>>

ParseQuoted(len) ==
  LET Fails == [ok |-> FALSE, end |-> 0, out |-> <<>>]
      from[i \in 1..(Len(copy) + 6)] ==
        LET c == Char(i)
            want == IF Char(i + 1) = LetterU THEN 6 ELSE 2
            Then(bytes, j) == LET rest == from[j] IN [rest EXCEPT !.out = bytes \o @]
        IN  IF c = 0 \/ (c = Backslash /\ Char(i + 1) = 0) THEN Fails
            ELSE IF c = copy[1] THEN [Fails EXCEPT !.ok = TRUE, !.end = i + 1]
            ELSE IF c # Backslash THEN Then(<<c>>, i + 1)
            ELSE IF Char(i + 1) = Apostrophe THEN Then(<<Apostrophe>>, i + 2)
            ELSE IF ParseEscape(i, want) = NoRune THEN Fails
            ELSE Then(Encode(ParseEscape(i, want)), i + want)
      all == from[2]
  IN  IF /\ Char(1) \in {Quote, Apostrophe} /\ all.ok
         /\ IF len = 0 THEN Char(all.end) = 0 ELSE all.end - 1 = len
      THEN all ELSE Fails

\* The caller gives the length or leaves it to the NUL.
Parse(known, room) ==
  LET len == IF known THEN Len(copy) ELSE 0
      all == ParseQuoted(len)
      put == IF Len(all.out) < room THEN Len(all.out) ELSE room
      r   == ParseEscape(1, len)
  IN  /\ copy # NoText /\ parsed = Unparsed
      /\ \/ /\ Current.isa = "string"
            /\ parsed' = [ok |-> all.ok, out |-> SubSeq(all.out, 1, put), room |-> room]
         \/ /\ Current.isa = "escape" /\ room = 1
            /\ parsed' = [ok |-> r # NoRune, out |-> <<r>>, room |-> 1]
      /\ UNCHANGED <<text, flags, pos, tokens, ended, copy>>

Next ==
  \/ NextEscape \/ NextString \/ NextHash \/ NextSlash \/ NextNumber \/ NextOne \/ NextRun \/ NextRunes
  \/ NextFails
  \/ \E cap \in Caps : Token(cap)
  \/ \E known \in BOOLEAN, room \in Caps : Parse(known, room)

Spec == Init /\ [][Next]_vars

------------------------------------------------------------------------------
(* What the tokens are: told from the whole text, not by scanning.          *)

End(t) == t.start + t.bytes
Covered(t) == t.start..(End(t) - 1)

\* Where runes begin.
Begins ==
  LET at[p \in 0..Len(text)] == p = 0 \/ \E q \in 0..(p - 1) : at[q] /\ q + Width(q) = p
  IN  {p \in 0..Len(text) : at[p]}

\* The edges of the encodings, and what a Latin-1 text has.
Scalars == {127, 128, 233, 2047, 2048, 55295, 57344, 65533, 65535, 65536, 1114111}
Utf8(r) == IF r < 65536 THEN Encode(r)
           ELSE <<240 + (r \div 262144), 128 + ((r \div 4096) % 64), 128 + ((r \div 64) % 64), 128 + (r % 64)>>

\* Read backwards from p, an odd number of backslashes, none of them before the token's first byte.
EscapedAt(t, p) ==
  Cardinality({k \in 1..(p - t.start - 1) : \A j \in 1..k : Byte(p - j) = Backslash}) % 2 = 1
Closings(t) == {p \in (t.start + 1)..(Len(text) - 1) : Byte(p) = Byte(t.start) /\ ~EscapedAt(t, p)}
Closed(t) == \E p \in Closings(t) : p = End(t) - 1

\* The escapes of JSON.
Long(p)  == Byte(p + 1) = LetterU /\ \A i \in 2..5 : Byte(p + i) \in Hex
Known(p) == Long(p) \/ Byte(p + 1) \in {34, 47, 92, 98, 102, 110, 114, 116}
Point(p) == ((HexValue(Byte(p + 2)) * 16 + HexValue(Byte(p + 3))) * 16 + HexValue(Byte(p + 4))) * 16
              + HexValue(Byte(p + 5))
Alone(p) == Long(p) /\ Point(p) \in 55296..57343
Meant(p) == IF Long(p) THEN Point(p) ELSE Unescaped(Byte(p + 1))

\* The ends a number may have by its grammar, a marked form before a decimal one.
All(p, q, digits) == p < q /\ \A i \in p..(q - 1) : Byte(i) \in digits
Marked(p, q) ==
  /\ Byte(p) = Zero
  /\ \/ "hex" \in flags /\ Byte(p + 1) \in {88, 120} /\ All(p + 2, q, Hex)
     \/ "binary" \in flags /\ Byte(p + 1) \in {66, 98} /\ All(p + 2, q, Binary)
     \/ "octal" \in flags /\ Byte(p + 1) \in {79, 111} /\ All(p + 2, q, Octal)
     \/ "octal" \in flags /\ All(p + 1, q, Octal)
Decimals(p, q) ==
  \E i \in p..q, j \in p..q :
    /\ All(p, i, Decimal)
    /\ i = j \/ ("float" \in flags /\ Byte(i) = 46 /\ All(i + 1, j, Decimal))
    /\ \/ j = q
       \/ /\ "float" \in flags /\ Byte(j) \in {69, 101}
          /\ All(j + 1, q, Decimal) \/ (Byte(j + 1) \in Signs /\ All(j + 2, q, Decimal))
NumberEnds(p) ==
  LET first == IF Byte(p) \in Signs THEN p + 1 ELSE p
      ends  == first..Len(text)
  IN  IF \E q \in ends : Marked(first, q) THEN {q \in ends : Marked(first, q)}
      ELSE {q \in ends : Decimals(first, q)}

Longest(ends, q) == q \in ends /\ \A e \in ends : e <= q
First(ends, q) == IF ends = {} THEN q = Len(text) ELSE q \in ends /\ \A e \in ends : q <= e
After(ends) == {p + 1 : p \in ends}
Newlines(t) == {p \in t.start..(Len(text) - 1) : Byte(p) = Newline}

\* The token of a shape is there just when its shape is, and is all of it.
ShapeRight(t) ==
  LET p == t.start
  IN  /\ t.isa = "escape" <=> "escapes" \in flags /\ Byte(p) = Backslash /\ Known(p)
      /\ t.isa = "escape" => t.bytes = IF Long(p) THEN 6 ELSE 2
      /\ t.isa = "string" <=> \/ "single" \in flags /\ Byte(p) = Apostrophe
                              \/ "double" \in flags /\ Byte(p) = Quote
      /\ t.isa = "string" => First(After(Closings(t)), End(t))
      /\ t.isa = "comment" <=> \/ "hash" \in flags /\ Byte(p) = Hash
                               \/ "slash" \in flags /\ Byte(p) = Slash /\ Byte(p + 1) = Slash
      /\ t.isa = "comment" => First(Newlines(t), End(t))
      /\ t.isa = "number" <=> "numbers" \in flags /\ NumberEnds(p) # {}
      /\ t.isa = "number" => Longest(NumberEnds(p), End(t))

\* Any other is runes of its class, and as many as there are.
RunRight(t) ==
  LET belongs(p) == IF t.isa = "keyword" /\ p > t.start THEN InKeyword(Rune(p)) ELSE Class(Rune(p)) = t.isa
  IN  t.isa \notin {"escape", "string", "comment", "number"} =>
        /\ \A p \in Covered(t) \cap Begins : belongs(p)
        /\ \/ End(t) = Len(text)
           \/ IF t.isa \in Single /\ flags # Runes THEN Cardinality(Covered(t) \cap Begins) = 1
              ELSE ~belongs(End(t))

\* A string without its quotes: byte by byte, an escape's bytes but the first being none.
Content(t) ==
  LET active(p) == p > t.start /\ Byte(p) = Backslash /\ ~EscapedAt(t, p)
      inside(p) == \E q \in (t.start + 1)..(p - 1) : active(q) /\ (p = q + 1 \/ (Long(q) /\ p <= q + 5))
      unit(p)   == IF inside(p) THEN <<>>
                   ELSE IF ~active(p) THEN <<Byte(p)>>
                   ELSE IF Byte(p + 1) = Apostrophe THEN <<Apostrophe>> ELSE Encode(Meant(p))
  IN  [good  |-> \A p \in Covered(t) : active(p) => Byte(p + 1) = Apostrophe \/ (Known(p) /\ ~Alone(p)),
       bytes |-> [i \in 1..(t.bytes - 2) |-> unit(t.start + i)]]

\* What the scanner takes for a string or an escape, its parser reads, and no part of it.
ParsedRight(t) ==
  LET whole == Len(copy) = t.bytes
      c     == Content(t)
      cut(s) == IF Len(s) > parsed.room THEN SubSeq(s, 1, parsed.room) ELSE s
  IN  IF t.isa = "string"
      THEN /\ parsed.ok <=> whole /\ Closed(t) /\ c.good
           /\ parsed.ok => parsed.out = cut(FlattenSeq(c.bytes))
      ELSE /\ parsed.ok <=> whole /\ ~Alone(t.start)
           /\ parsed.ok => parsed.out = <<Meant(t.start)>>

(* The scanner and the tokenizer (sys_scanner_next, sys_rune_tokenize_next):   *)
(* the tokens are the text, none is empty, overlaps or leaves a gap, whatever  *)
(* was looked at and given back; each has the extent and the count of runes    *)
(* its class promises, runes being those UTF-8 has; reading a token's text     *)
(* back does not move the stream; and sys_string_parse_quoted and _escape      *)
(* accept just the whole tokens that mean something, and give that meaning.    *)
ScannerSound ==
  /\ \A i \in DOMAIN tokens :
       /\ tokens[i].bytes > 0 /\ tokens[i].isa \in Classes
       /\ tokens[i].start = IF i = 1 THEN 0 ELSE End(tokens[i - 1])
       /\ tokens[i].runes = Cardinality(Covered(tokens[i]) \cap Begins)
  /\ pos = IF tokens = <<>> THEN 0 ELSE End(Current)
  /\ ended => pos = Len(text)
  /\ tokens # <<>> => ShapeRight(Current) /\ RunRight(Current)
  /\ \A p \in Begins \ {Len(text)} :
       IF WellFormed(p)
       THEN SubSeq(text, p + 1, p + Width(p)) = Utf8(Rune(p)) /\ Rune(p) \notin 55296..57343
       ELSE \A r \in Scalars : ~IsPrefix(Utf8(r), SubSeq(text, p + 1, Len(text)))
  /\ copy # NoText => IsPrefix(copy, SubSeq(text, Current.start + 1, End(Current)))
  /\ parsed # Unparsed => ParsedRight(Current)

=============================================================================
