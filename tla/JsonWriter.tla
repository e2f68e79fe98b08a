------------------------------ MODULE JsonWriter ------------------------------
(***************************************************************************)
(* What json_parse is given: any text, or the text that json_dump writes   *)
(* for a value and that an interrupted save may cut off anywhere.  The     *)
(* value is made up while serialize_to walks over it, and each unit that   *)
(* it writes is read at once: writer is its call stack, next to that of    *)
(* the parser.  Keys are not compared, so that an object may have one key  *)
(* twice, which std::map excludes.                                         *)
(***************************************************************************)
EXTENDS JsonParser

CONSTANTS Alphabet,   \* the units of arbitrary texts
          Printed     \* what std::to_chars prints for the finite numbers
-------------------------------------------------------------------------------
(* The numbers of RFC 8259. *)

Part(t, i, j) == SubSeq(t, i, j)

AllDigits(t) == t # <<>> /\ \A i \in DOMAIN t : t[i] \in Digits

IsInteger(t) ==
  LET u == IF t # <<>> /\ t[1] = "-" THEN Tail(t) ELSE t
  IN  AllDigits(u) /\ (Len(u) = 1 \/ u[1] # "0")
IsFraction(t) == t = <<>> \/ (t[1] = "." /\ AllDigits(Tail(t)))
IsExponent(t) ==
  \/ t = <<>>
  \/ /\ t[1] = "e" /\ Len(t) > 1
     /\ AllDigits(IF t[2] \in {"+", "-"} THEN Part(t, 3, Len(t)) ELSE Tail(t))

IsNumber(t) ==
  \E i, j \in 0..Len(t) :
    i <= j /\ IsInteger(Part(t, 1, i)) /\ IsFraction(Part(t, i + 1, j)) /\ IsExponent(Part(t, j + 1, Len(t)))

ASSUME AlphabetAssumption == Alphabet \subseteq Units
ASSUME PrintedAssumption == Printed \subseteq Seq(Units) /\ \A n \in Printed : IsNumber(n)
-------------------------------------------------------------------------------
VARIABLE writer   \* place in serialize_to, or "absent" if the text is arbitrary; stack, the
                  \* containers it is in; rest of a number; size of the string so far

\* json_dump writes null for a value with a number in it that is not finite.
WriterInit ==
  \E place \in {"absent", "value", "null"} :
    writer = [place |-> place, stack |-> <<>>, rest |-> <<>>, size |-> 0]

At(place) == [writer EXCEPT !.place = place]

\* A value is complete: back to the container it is in, or to json_serialize.
Finished(w) == [w EXCEPT !.place = IF w.stack = <<>> THEN "done" ELSE "next", !.rest = <<>>]

Write(c, w) == Read(c) /\ writer' = w

\* Where serialize_to is called for a value, after an opening bracket, a comma
\* or a colon.
AtValue == writer.place \in {"value", "elements"}

WriteNull    == writer.place = "null" /\ Write("lit", Finished(writer))
WriteLiteral == AtValue /\ Write("lit", Finished(writer))

\* A number, unit by unit.
WriteUnits(n) ==
  Write(Head(n), IF Tail(n) = <<>> THEN Finished(writer)
                 ELSE [writer EXCEPT !.place = "number", !.rest = Tail(n)])
WriteNumber == \/ AtValue /\ \E n \in Printed : WriteUnits(n)
               \/ writer.place = "number" /\ WriteUnits(writer.rest)

\* The opening quote of a string and of a key.
WriteQuote ==
  \/ AtValue /\ Write("quote", [At("string") EXCEPT !.size = 0])
  \/ writer.place \in {"members", "key"} /\ Write("quote", [At("key string") EXCEPT !.size = 0])

\* Mistake, for mutation: control characters are not escaped.
EscapedRaw == [plain |-> "x", special |-> "esc", control |-> "ctl"]

\* append_json_escape: quotes, backslashes and the control characters that
\* have a short form; the other control characters.
Escaped == [plain |-> "x", special |-> "esc", control |-> "uni"]

InString == writer.place \in {"string", "key string"}

WriteCharacter ==
  InString /\ \E kind \in DOMAIN Escaped : Write(Escaped[kind], [writer EXCEPT !.size = @ + 1])

WriteClosingQuote ==
  InString /\ Write("quote", IF writer.place = "string" THEN Finished(writer) ELSE At("colon"))

WriteColon == writer.place = "colon" /\ Write(":", At("value"))

Innermost == writer.stack[Len(writer.stack)]

OpenArray  == AtValue /\ Write("[", [At("elements") EXCEPT !.stack = Append(@, "array")])
OpenObject == AtValue /\ Write("{", [At("members") EXCEPT !.stack = Append(@, "object")])

WriteComma ==
  writer.place = "next" /\ Write(",", At(IF Innermost = "object" THEN "key" ELSE "value"))

CloseContainer ==
  /\ writer.place \in {"elements", "members", "next"}
  /\ Write(IF Innermost = "object" THEN "}" ELSE "]",
           Finished([writer EXCEPT !.stack = SubSeq(@, 1, Len(@) - 1)]))

SerializeTo ==
  \/ WriteLiteral \/ WriteNumber
  \/ WriteQuote \/ WriteCharacter \/ WriteClosingQuote
  \/ OpenArray \/ OpenObject \/ WriteColon \/ WriteComma \/ CloseContainer
-------------------------------------------------------------------------------
IsDumped == writer.place # "absent"

\* What to_chars printed for a double, from_chars reads back: it is in range.
TextNext ==
  \/ SerializeTo \/ WriteNull
  \/ /\ UNCHANGED writer
     /\ \/ ~IsDumped /\ (OutOfRange \/ \E c \in Alphabet : Read(c))
        \/ writer.place # "done" /\ TooLong
        \/ EndOfText

TextInit == Init /\ WriterInit

TextSpec == TextInit /\ [][TextNext]_<<vars, writer>>
-------------------------------------------------------------------------------
(* Properties *)

\* The value is beyond the limits, strings counted as a level of nesting.
Exceeds ==
  \/ Len(writer.stack) > MaxDepth
  \/ InString /\ (Len(writer.stack) >= MaxDepth \/ writer.size > MaxString)

\* What json_dump writes, json_parse reads, whatever the strings contain, if
\* the value is within the limits: it refuses the text where the value leaves
\* them and nowhere else, and takes the end of the whole text for one.
WrittenIsReadable ==
  IsDumped =>
    /\ verdict = "malformed" <=> Exceeds
    /\ writer.place = "done" => verdict # "truncated"

\* A document that an interrupted save has cut off between two units is not
\* taken by json_parse for a whole one, unless it is nothing but a number.  (Cut
\* within a literal or an escape it ends with a unit that json_parse refuses at
\* once: parse_literal, parse_unicode_escape.)
TruncationIsNoticed ==
  IsDumped /\ verdict = "accepted" =>
    writer.place = "done" \/ (writer.place = "number" /\ writer.stack = <<>>)
===============================================================================
