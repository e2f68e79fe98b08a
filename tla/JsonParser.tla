------------------------------ MODULE JsonParser ------------------------------
(***************************************************************************)
(* json_parse (json.cpp): the strict recursive-descent parser every        *)
(* policy, snapshot and trace comes in through.  Its call stack is stack,  *)
(* one entry per object or array it is inside of; mode is where the        *)
(* innermost call stands.  The text is made up as the parser gets to it.   *)
(*                                                                         *)
(* A unit of text is a character class or an escape sequence as a whole;   *)
(* lengths count units.  What a number or a string says is left out, and   *)
(* so is the value that is built.                                          *)
(***************************************************************************)
EXTENDS Naturals, Sequences

CONSTANTS MaxDepth, MaxBytes, MaxString   \* JsonParseLimits

ASSUME LimitsAssumption == MaxDepth \in Nat /\ MaxBytes \in Nat /\ MaxString \in Nat

\* "lit" is true, false or null; "1" a digit other than 0; "nl" a tab, newline
\* or return, "ctl" another control character; "x" any character not listed.
\* "esc" is a two-character escape, "uni" a \u escape of a character, "hi" and
\* "lo" of half a surrogate pair, "bad" a backslash that starts none of these.
\* A literal or an escape that the text ends within is not a unit: what there is
\* of it is an "x" or a "bad", refused like one that goes on wrongly.
Space   == {"sp", "nl"}
Digits  == {"0", "1"}
Escapes == {"esc", "uni", "hi", "lo", "bad"}
Units   == {"{", "}", "[", "]", ",", ":", "quote", "lit", "-", "+", ".", "e", "ctl", "x"}
             \cup Space \cup Digits \cup Escapes

\* Where a number stands: it may end in the first ones, not in the others.
NumberEnds  == {"zero", "integer", "fraction", "power"}
NumberModes == NumberEnds \cup {"minus", "point", "exponent", "sign"}
StringModes == {"string", "key string", "low", "key low"}
Modes == {"value", "elements", "members", "key", "colon", "next", "after", "failed"}
           \cup NumberModes \cup StringModes

VARIABLES
  text,     \* what has been read
  parser,   \* mode; stack, the containers entered; depth; size of the string being read
  verdict   \* "reading" until json_parse returns

vars == <<text, parser, verdict>>

Init ==
  /\ text = <<>> /\ verdict = "reading"
  /\ parser = [mode |-> "value", stack |-> <<>>, depth |-> 0, size |-> 0]
-------------------------------------------------------------------------------
(* Each operator gives the parser p after the unit c.                        *)

In(p, mode) == [p EXCEPT !.mode = mode]
Fail(p) == In(p, "failed")

\* A value is complete: back to the container it is in, or to json_parse.
Return(p) == In(p, IF p.stack = <<>> THEN "after" ELSE "next")

\* parse_object, parse_array up to their first element.
Enter(p, mode, container) ==
  IF p.depth >= MaxDepth THEN Fail(p)
  ELSE [mode |-> mode, stack |-> Append(p.stack, container), depth |-> p.depth + 1, size |-> 0]

\* Mistake, for mutation: an empty container is left without --depth.
LeaveDeeper(p) ==
  LET outer == SubSeq(p.stack, 1, Len(p.stack) - 1)
  IN  Return([p EXCEPT !.stack = outer, !.depth = IF p.mode = "next" THEN @ - 1 ELSE @])

\* Their closing bracket.
Leave(p) ==
  LET outer == SubSeq(p.stack, 1, Len(p.stack) - 1)
  IN  Return([p EXCEPT !.stack = outer, !.depth = @ - 1])

\* parse_string up to its first character.  It checks the depth and leaves it.
OpenString(p, mode) ==
  IF p.depth >= MaxDepth THEN Fail(p) ELSE [p EXCEPT !.mode = mode, !.size = 0]

\* One more character of the string; mode says whose string it is.
Grow(p, mode) ==
  IF p.size + 1 > MaxString THEN Fail(p) ELSE [p EXCEPT !.mode = mode, !.size = @ + 1]

\* The loop of parse_string, with parse_unicode_escape.
StringUnit(p, c) ==
  IF p.mode \in {"low", "key low"}
  THEN IF c = "lo" THEN Grow(p, IF p.mode = "low" THEN "string" ELSE "key string") ELSE Fail(p)
  ELSE CASE c = "quote"                        -> IF p.mode = "string" THEN Return(p) ELSE In(p, "colon")
         [] c = "hi"                           -> In(p, IF p.mode = "string" THEN "low" ELSE "key low")
         [] c \in {"nl", "ctl", "lo", "bad"}   -> Fail(p)
         [] OTHER                              -> Grow(p, p.mode)

\* Mistake, for mutation: digits may follow a leading zero.
NumeralLeadingZero(mode, c) ==
  CASE mode = "minus" /\ c \in Digits                             -> "integer"
    [] mode \in {"zero", "integer"} /\ c \in Digits               -> "integer"
    [] mode \in {"zero", "integer"} /\ c = "."                    -> "point"
    [] mode \in {"point", "fraction"} /\ c \in Digits             -> "fraction"
    [] mode \in {"zero", "integer", "fraction"} /\ c = "e"        -> "exponent"
    [] mode = "exponent" /\ c \in {"+", "-"}                      -> "sign"
    [] mode \in {"exponent", "sign", "power"} /\ c \in Digits     -> "power"
    [] OTHER                                                      -> "failed"

\* parse_number: where c takes the number, "failed" if c is not part of it.
Numeral(mode, c) ==
  CASE mode = "minus" /\ c = "0"                                  -> "zero"
    [] mode \in {"minus", "integer"} /\ c = "1"                   -> "integer"
    [] mode = "integer" /\ c = "0"                                -> "integer"
    [] mode \in {"zero", "integer"} /\ c = "."                    -> "point"
    [] mode \in {"point", "fraction"} /\ c \in Digits             -> "fraction"
    [] mode \in {"zero", "integer", "fraction"} /\ c = "e"        -> "exponent"
    [] mode = "exponent" /\ c \in {"+", "-"}                      -> "sign"
    [] mode \in {"exponent", "sign", "power"} /\ c \in Digits     -> "power"
    [] OTHER                                                      -> "failed"

\* parse_value, once past the white space.
ParseValue(p, c) ==
  CASE c = "{"       -> Enter(p, "members", "object")
    [] c = "["       -> Enter(p, "elements", "array")
    [] c = "quote"   -> OpenString(p, "string")
    [] c = "lit"     -> Return(p)
    [] c = "-"       -> In(p, "minus")
    [] c \in Digits  -> In(p, Numeral("minus", c))
    [] OTHER         -> Fail(p)

\* The rest of parse_object and parse_array, and of json_parse.
BetweenValues(p, c) ==
  LET top == p.stack[Len(p.stack)]
  IN  CASE p.mode = "value"                    -> ParseValue(p, c)
        [] p.mode = "elements"                 -> IF c = "]" THEN Leave(p) ELSE ParseValue(p, c)
        [] p.mode = "members" /\ c = "}"       -> Leave(p)
        [] p.mode \in {"members", "key"} /\ c = "quote" -> OpenString(p, "key string")
        [] p.mode = "colon" /\ c = ":"         -> In(p, "value")
        [] p.mode = "next" /\ c = ","          -> In(p, IF top = "object" THEN "key" ELSE "value")
        [] p.mode = "next" /\ c = (IF top = "object" THEN "}" ELSE "]") -> Leave(p)
        [] OTHER                               -> Fail(p)

\* The parser after c.  A number ends before the first unit that is not part
\* of it, and that unit is then read by whoever asked for the number.
Consume(c) ==
  LET ended == parser.mode \in NumberEnds /\ Numeral(parser.mode, c) = "failed"
      p     == IF ended THEN Return(parser) ELSE parser
  IN  CASE p.mode \in StringModes -> StringUnit(p, c)
        [] p.mode \in NumberModes -> In(p, Numeral(p.mode, c))
        [] p.mode \notin StringModes \cup NumberModes /\ c \in Space -> p
        [] OTHER                  -> BetweenValues(p, c)
-------------------------------------------------------------------------------
Read(c) ==
  /\ verdict = "reading" /\ Len(text) < MaxBytes
  /\ text' = Append(text, c)
  /\ parser' = Consume(c)
  /\ verdict' = IF Consume(c).mode = "failed" THEN "malformed" ELSE "reading"

\* A number whose digits leave the range of a double.
OutOfRange ==
  /\ verdict = "reading" /\ parser.mode \in NumberEnds \ {"zero"}
  /\ verdict' = "out of range"
  /\ UNCHANGED <<text, parser>>

\* More than max_bytes: json_parse returns before it reads anything.
TooLong ==
  /\ verdict = "reading" /\ Len(text) = MaxBytes
  /\ verdict' = "too long"
  /\ UNCHANGED <<text, parser>>

\* Nothing but a complete value is left behind at the end of the text.
Complete == parser.mode = "after" \/ (parser.mode \in NumberEnds /\ parser.stack = <<>>)

\* Mistake, for mutation: the end of the text closes what is still open.
EndOfTextCloses ==
  /\ verdict = "reading"
  /\ verdict' = IF Complete \/ parser.mode = "next" THEN "accepted" ELSE "truncated"
  /\ UNCHANGED <<text, parser>>

EndOfText ==
  /\ verdict = "reading"
  /\ verdict' = IF Complete THEN "accepted" ELSE "truncated"
  /\ UNCHANGED <<text, parser>>

Next == (\E c \in Units : Read(c)) \/ OutOfRange \/ TooLong \/ EndOfText

Spec == Init /\ [][Next]_vars
-------------------------------------------------------------------------------
(* Properties *)

TypeOK ==
  /\ text \in Seq(Units)
  /\ parser \in [mode : Modes, stack : Seq({"object", "array"}), depth : Nat, size : Nat]
  /\ verdict \in {"reading", "accepted", "malformed", "truncated", "out of range", "too long"}

\* The depth that is compared with the limit is the depth of the document: on
\* every path out of an object or an array, the empty ones included, the
\* counter comes back to what it was, so that the recursion is as deep as it
\* says and never deeper than max_depth; and a text is accepted only with
\* every object and array closed (parse_object, parse_array, json_parse).
DepthIsNesting ==
  /\ parser.depth = Len(parser.stack) /\ parser.depth <= MaxDepth
  /\ verdict = "accepted" => parser.depth = 0
===============================================================================
