------------------------------ MODULE JsonProofs ------------------------------
(***************************************************************************)
(* Proofs about JsonParser and JsonWriter, for every limit, every text and *)
(* every value.                                                            *)
(***************************************************************************)
EXTENDS JsonWriter, SequenceTheorems, TLAPS

\* Where a call of parse_object or parse_array is on the stack.
Inside == {"elements", "members", "key", "colon", "next", "key string", "key low"}

Parsers == [mode : Modes, stack : Seq({"object", "array"}), depth : Nat, size : Nat]

\* What every operator on parsers preserves: the counter is the number of
\* containers entered, whoever will leave one is inside of one, and json_parse
\* is only returned to when none is left.
Sound(p) ==
  /\ p \in Parsers
  /\ p.depth = Len(p.stack) /\ p.depth <= MaxDepth
  /\ p.mode \in Inside => p.stack # <<>>
  /\ p.mode = "after" => p.stack = <<>>

IInv == Sound(parser) /\ TypeOK /\ (verdict = "accepted" => parser.stack = <<>>)

-------------------------------------------------------------------------------
(* The operators of the parser preserve Sound.                               *)

LEMMA FailSound == ASSUME NEW p, Sound(p) PROVE Sound(Fail(p))
  BY DEF Sound, Parsers, Fail, In, Inside, Modes

LEMMA InSound ==
  ASSUME NEW p, Sound(p), NEW m \in Modes \ {"after"}, m \in Inside => p.stack # <<>>
  PROVE  Sound(In(p, m))
  BY DEF Sound, Parsers, In

LEMMA ReturnSound == ASSUME NEW p, Sound(p) PROVE Sound(Return(p))
  BY DEF Sound, Parsers, Return, In, Inside, Modes

LEMMA EnterSound ==
  ASSUME NEW p, Sound(p), NEW m \in {"elements", "members"}, NEW k \in {"object", "array"}
  PROVE  Sound(Enter(p, m, k))
<1>1. CASE p.depth >= MaxDepth
  BY <1>1, FailSound DEF Enter
<1>2. CASE ~(p.depth >= MaxDepth)
  <2> DEFINE q == [mode |-> m, stack |-> Append(p.stack, k), depth |-> p.depth + 1, size |-> 0]
  <2>1. q.stack \in Seq({"object", "array"}) /\ Len(q.stack) = Len(p.stack) + 1
    BY DEF Sound, Parsers
  <2>2. q.depth = Len(q.stack) /\ q.depth <= MaxDepth /\ q.depth \in Nat
    BY <1>2, <2>1, LimitsAssumption DEF Sound, Parsers
  <2>3. q.stack # <<>>
    BY <2>1 DEF Sound, Parsers
  <2>4. q \in Parsers
    BY <2>1, <2>2 DEF Parsers, Modes
  <2>5. Enter(p, m, k) = q
    BY <1>2 DEF Enter
  <2> QED BY <2>2, <2>3, <2>4, <2>5 DEF Sound
<1> QED BY <1>1, <1>2

LEMMA LeaveSound ==
  ASSUME NEW p, Sound(p), p.stack # <<>>
  PROVE  Sound(Leave(p))
<1> DEFINE outer == SubSeq(p.stack, 1, Len(p.stack) - 1)
           q == [p EXCEPT !.stack = outer, !.depth = p.depth - 1]
<1>1. Len(p.stack) \in Nat \ {0}
  BY DEF Sound, Parsers
<1>2. outer \in Seq({"object", "array"}) /\ Len(outer) = Len(p.stack) - 1
  <2>1. \A i \in 1..Len(p.stack) - 1 : p.stack[i] \in {"object", "array"}
    BY <1>1 DEF Sound, Parsers
  <2> HIDE DEF outer
  <2> QED BY <1>1, <2>1, SubSeqProperties DEF outer
<1>3. q \in Parsers /\ q.depth = Len(q.stack) /\ q.depth <= MaxDepth
  <2>1. p.depth - 1 \in Nat /\ p.depth - 1 <= MaxDepth
    BY <1>1, LimitsAssumption DEF Sound, Parsers
  <2>2. q.stack = outer /\ q.depth = p.depth - 1 /\ q.mode = p.mode /\ q.size = p.size
    BY DEF Sound, Parsers
  <2> QED BY <1>2, <2>1, <2>2 DEF Sound, Parsers
<1>4. Leave(p) = Return(q)
  BY DEF Leave, Sound, Parsers
<1>5. Sound(Return(q))
  BY <1>3 DEF Return, In, Sound, Parsers, Inside, Modes
<1> QED BY <1>4, <1>5

LEMMA OpenStringSound ==
  ASSUME NEW p, Sound(p), NEW m \in {"string", "key string"}, m \in Inside => p.stack # <<>>
  PROVE  Sound(OpenString(p, m))
<1>1. CASE p.depth >= MaxDepth
  BY <1>1, FailSound DEF OpenString
<1>2. CASE ~(p.depth >= MaxDepth)
  BY <1>2 DEF OpenString, Sound, Parsers, Modes, StringModes
<1> QED BY <1>1, <1>2

LEMMA GrowSound ==
  ASSUME NEW p, Sound(p), NEW m \in Modes \ {"after"}, m \in Inside => p.stack # <<>>
  PROVE  Sound(Grow(p, m))
<1>1. CASE p.size + 1 > MaxString
  BY <1>1, FailSound DEF Grow
<1>2. CASE ~(p.size + 1 > MaxString)
  <2>1. p.size + 1 \in Nat
    BY DEF Sound, Parsers
  <2>2. Grow(p, m) = [p EXCEPT !.mode = m, !.size = p.size + 1]
    BY <1>2 DEF Grow
  <2> QED BY <2>1, <2>2 DEF Sound, Parsers
<1> QED BY <1>1, <1>2

LEMMA StringUnitSound ==
  ASSUME NEW p, Sound(p), p.mode \in StringModes, NEW c \in Units
  PROVE  Sound(StringUnit(p, c))
<1> USE DEF StringModes
<1>m. /\ {"string", "key string", "low", "key low", "colon"} \subseteq Modes \ {"after"}
      /\ {"string", "low"} \cap Inside = {}
      /\ p.mode \in {"key string", "key low"} => p.stack # <<>>
  BY DEF Modes, Sound, Inside
<1>1. CASE p.mode \in {"low", "key low"}
  BY <1>1, <1>m, GrowSound, FailSound DEF StringUnit
<1>2. CASE p.mode \notin {"low", "key low"} /\ c = "quote"
  BY <1>2, <1>m, ReturnSound, InSound DEF StringUnit
<1>3. CASE p.mode \notin {"low", "key low"} /\ c = "hi"
  BY <1>3, <1>m, InSound DEF StringUnit
<1>4. CASE p.mode \notin {"low", "key low"} /\ c \in {"nl", "ctl", "lo", "bad"}
  BY <1>4, FailSound DEF StringUnit
<1>5. CASE p.mode \notin {"low", "key low"} /\ c \notin {"quote", "hi", "nl", "ctl", "lo", "bad"}
  <2>1. StringUnit(p, c) = Grow(p, p.mode)
    BY <1>5 DEF StringUnit
  <2>2. p.mode \in Modes \ {"after"} /\ (p.mode \in Inside => p.stack # <<>>)
    BY DEF Sound, Parsers
  <2> QED BY <2>1, <2>2, GrowSound
<1> QED BY <1>1, <1>2, <1>3, <1>4, <1>5

LEMMA NumeralModes == ASSUME NEW m, NEW c PROVE Numeral(m, c) \in Modes \ (Inside \cup {"after"})
  BY DEF Numeral, Modes, NumberModes, NumberEnds, Inside

LEMMA ParseValueSound ==
  ASSUME NEW p, Sound(p), NEW c \in Units
  PROVE  Sound(ParseValue(p, c))
<1>1. CASE c = "{" \/ c = "["
  BY <1>1, EnterSound DEF ParseValue, Digits
<1>2. CASE c = "quote"
  BY <1>2, OpenStringSound DEF ParseValue, Digits, Inside
<1>3. CASE c = "lit"
  BY <1>3, ReturnSound DEF ParseValue, Digits
<1>4. CASE c = "-"
  <2>1. "minus" \in Modes \ (Inside \cup {"after"})
    BY DEF Modes, NumberModes, Inside
  <2> QED BY <1>4, <2>1, InSound DEF ParseValue, Digits
<1>5. CASE c \in Digits
  <2>1. ParseValue(p, c) = In(p, Numeral("minus", c))
    BY <1>5 DEF ParseValue, Digits
  <2> QED BY <2>1, NumeralModes, InSound
<1>6. CASE c \notin {"{", "[", "quote", "lit", "-"} \cup Digits
  BY <1>6, FailSound DEF ParseValue
<1> QED BY <1>1, <1>2, <1>3, <1>4, <1>5, <1>6

LEMMA BetweenValuesSound ==
  ASSUME NEW p, Sound(p), NEW c \in Units
  PROVE  Sound(BetweenValues(p, c))
<1> DEFINE top == p.stack[Len(p.stack)]
           close == IF top = "object" THEN "}" ELSE "]"
<1>m. /\ {"value", "key"} \subseteq Modes \ {"after"}
      /\ {"value"} \cap Inside = {}
      /\ p.mode \in {"elements", "members", "key", "colon", "next"} => p.stack # <<>>
  BY DEF Modes, Sound, Inside
<1>1. CASE p.mode = "value" \/ p.mode = "elements"
  BY <1>1, <1>m, ParseValueSound, LeaveSound DEF BetweenValues
<1>2. CASE p.mode = "members" /\ c = "}"
  BY <1>2, <1>m, LeaveSound DEF BetweenValues
<1>3. CASE p.mode \in {"members", "key"} /\ c = "quote"
  <2>1. BetweenValues(p, c) = OpenString(p, "key string")
    BY <1>3 DEF BetweenValues
  <2> QED BY <1>3, <1>m, <2>1, OpenStringSound
<1>4. CASE p.mode = "colon" /\ c = ":"
  BY <1>4, <1>m, InSound DEF BetweenValues
<1>5. CASE p.mode = "next" /\ c = ","
  <2>1. BetweenValues(p, c) = In(p, IF top = "object" THEN "key" ELSE "value")
    BY <1>5 DEF BetweenValues
  <2> QED BY <1>5, <1>m, <2>1, InSound
<1>6. CASE p.mode = "next" /\ c = close
  <2>1. c # ","
    BY <1>6
  <2>2. BetweenValues(p, c) = Leave(p)
    BY <1>6, <2>1 DEF BetweenValues
  <2> QED BY <1>6, <1>m, <2>2, LeaveSound
<1>7. CASE /\ p.mode # "value" /\ p.mode # "elements"
           /\ ~(p.mode = "members" /\ c = "}")
           /\ ~(p.mode \in {"members", "key"} /\ c = "quote")
           /\ ~(p.mode = "colon" /\ c = ":")
           /\ ~(p.mode = "next" /\ c = ",")
           /\ ~(p.mode = "next" /\ c = close)
  <2>1. BetweenValues(p, c) = Fail(p)
    BY <1>7 DEF BetweenValues
  <2> QED BY <2>1, FailSound
<1> QED BY <1>1, <1>2, <1>3, <1>4, <1>5, <1>6, <1>7

LEMMA ConsumeSound ==
  ASSUME Sound(parser), NEW c \in Units
  PROVE  Sound(Consume(c))
<1> DEFINE ended == parser.mode \in NumberEnds /\ Numeral(parser.mode, c) = "failed"
           p == IF ended THEN Return(parser) ELSE parser
<1>1. Sound(p)
  BY ReturnSound
<1>2. CASE p.mode \in StringModes
  <2>1. p.mode \notin NumberModes
    BY <1>2 DEF NumberModes, NumberEnds, StringModes
  <2>2. Consume(c) = StringUnit(p, c)
    BY <1>2, <2>1 DEF Consume
  <2> QED BY <1>1, <1>2, <2>2, StringUnitSound
<1>3. CASE p.mode \in NumberModes
  <2>1. p.mode \notin StringModes
    BY <1>3 DEF NumberModes, NumberEnds, StringModes
  <2>2. Consume(c) = In(p, Numeral(p.mode, c))
    BY <1>3, <2>1 DEF Consume
  <2> QED BY <1>1, <2>2, NumeralModes, InSound
<1>4. CASE p.mode \notin StringModes \cup NumberModes /\ c \in Space
  BY <1>1, <1>4 DEF Consume
<1>5. CASE p.mode \notin StringModes \cup NumberModes /\ c \notin Space
  BY <1>1, <1>5, BetweenValuesSound DEF Consume
<1> QED BY <1>2, <1>3, <1>4, <1>5

-------------------------------------------------------------------------------
LEMMA InitSound == Init => IInv
<1> SUFFICES ASSUME Init PROVE IInv
  OBVIOUS
<1>1. parser \in Parsers /\ parser.depth = Len(parser.stack) /\ parser.depth <= MaxDepth
  BY LimitsAssumption DEF Init, Parsers, Modes
<1>2. parser.mode \notin Inside
  BY DEF Init, Inside
<1>3. text \in Seq(Units)
  BY DEF Init
<1> QED BY <1>1, <1>2, <1>3 DEF IInv, Sound, TypeOK, Parsers, Init

LEMMA StepSound == IInv /\ [Next]_vars => IInv'
<1> SUFFICES ASSUME IInv, [Next]_vars PROVE IInv'
  OBVIOUS
<1>1. ASSUME NEW c \in Units, Read(c) PROVE IInv'
  <2>1. Sound(parser')
    BY <1>1, ConsumeSound DEF Read, IInv
  <2>2. text' \in Seq(Units) /\ verdict' \in {"malformed", "reading"}
    BY <1>1 DEF Read, IInv, TypeOK
  <2> QED BY <2>1, <2>2 DEF IInv, Sound, TypeOK, Parsers
<1>2. CASE OutOfRange \/ TooLong
  BY <1>2 DEF OutOfRange, TooLong, IInv, Sound, TypeOK, Parsers
<1>4. CASE EndOfText
  <2>1. Complete => parser.stack = <<>>
    BY DEF Complete, IInv, Sound
  <2> QED BY <1>4, <2>1 DEF EndOfText, IInv, Sound, TypeOK, Parsers
<1>3. CASE UNCHANGED vars
  BY <1>3 DEF vars, IInv, Sound, TypeOK, Parsers
<1> QED BY <1>1, <1>2, <1>3, <1>4 DEF Next

\* The parser's counter is the depth of the document, within max_depth, on
\* every text, and 0 when the text is accepted: parse_object and parse_array
\* undo what they did to it on every path that goes on (json.cpp).
THEOREM DepthIsTheNesting == Spec => []DepthIsNesting
<1>1. IInv => DepthIsNesting
  BY DEF IInv, Sound, Parsers, DepthIsNesting
<1> QED BY <1>1, InitSound, StepSound, PTL DEF Spec
-------------------------------------------------------------------------------
(* The number scanner takes every number to its end.                         *)

\* The modes r that the parser goes through from mode while it reads the
\* units t, to where a number may end.
Scans(r, mode, t) ==
  /\ r[0] = mode /\ r[Len(t)] \in NumberEnds
  /\ \A k \in 1..Len(t) : r[k] = Numeral(r[k - 1], t[k])
Follows(mode, t) == \E r \in [0..Len(t) -> NumberModes] : Scans(r, mode, t)

\* The mode after the first unit of a number.
FirstMode(c) == IF c = "-" THEN "minus" ELSE Numeral("minus", c)

\* n is a number whose integer, with a sign of s units, ends at i, its
\* fraction at j, and whose exponent has a sign of g units.
Shape(n, s, i, j, g) ==
  /\ i > s /\ (s = 1 => n[1] = "-") /\ (i = s + 1 \/ n[s + 1] # "0")
  /\ \A k \in s + 1..i : n[k] \in Digits
  /\ i = j \/ (j > i + 1 /\ n[i + 1] = "." /\ \A k \in i + 2..j : n[k] \in Digits)
  /\ \/ j = Len(n)
     \/ /\ Len(n) > j + 1 + g /\ n[j + 1] = "e" /\ (g = 1 => n[j + 2] \in {"+", "-"})
        /\ \A k \in j + 2 + g..Len(n) : n[k] \in Digits

\* The mode after the k-th unit of such a number.
ModeAt(n, s, i, j, g, k) ==
  IF k <= i THEN IF k <= s THEN "minus" ELSE IF n[s + 1] = "0" THEN "zero" ELSE "integer"
  ELSE IF k <= j THEN IF k = i + 1 THEN "point" ELSE "fraction"
  ELSE IF k = j + 1 THEN "exponent" ELSE IF k <= j + 1 + g THEN "sign" ELSE "power"

LEMMA PartProperties ==
  ASSUME NEW n \in Seq(Units), NEW a \in 1..Len(n) + 1, NEW b \in a - 1..Len(n)
  PROVE  /\ Part(n, a, b) \in Seq(Units) /\ Len(Part(n, a, b)) = b - a + 1
         /\ \A k \in 1..b - a + 1 : Part(n, a, b)[k] = n[a + k - 1]
<1>1. \A k \in a..b : n[k] \in Units
  BY Z3
<1> QED BY <1>1, SubSeqProperties DEF Part

LEMMA IntegerShape ==
  ASSUME NEW t \in Seq(Units), IsInteger(t)
  PROVE  \E s \in {0, 1} :
           /\ Len(t) > s /\ (s = 1 <=> t[1] = "-") /\ (Len(t) = s + 1 \/ t[s + 1] # "0")
           /\ \A k \in s + 1..Len(t) : t[k] \in Digits
<1>1. CASE t # <<>> /\ t[1] = "-"
  <2>1. Len(Tail(t)) = Len(t) - 1 /\ \A k \in 1..Len(t) - 1 : Tail(t)[k] = t[k + 1]
    BY <1>1
  <2>2. /\ Tail(t) # <<>> /\ (Len(Tail(t)) = 1 \/ Tail(t)[1] # "0")
        /\ \A k \in DOMAIN Tail(t) : Tail(t)[k] \in Digits
    BY <1>1 DEF IsInteger, AllDigits
  <2>3. Tail(t) \in Seq(Units) /\ Len(t) \in Nat /\ Len(t) # 0
    BY <1>1
  <2>4. Len(t) > 1
    BY <2>1, <2>2, <2>3
  <2>5. \A k \in 2..Len(t) : t[k] \in Digits
    <3> SUFFICES ASSUME NEW k \in 2..Len(t) PROVE t[k] \in Digits
      OBVIOUS
    <3>1. k - 1 \in 1..Len(t) - 1 /\ k - 1 \in DOMAIN Tail(t) /\ (k - 1) + 1 = k
      BY <2>1, <2>3
    <3> QED BY <3>1, <2>1, <2>2
  <2>6. Len(t) = 2 \/ t[2] # "0"
    BY <2>1, <2>2, <2>3, <2>4
  <2> QED BY <1>1, <2>4, <2>5, <2>6
<1>2. CASE ~(t # <<>> /\ t[1] = "-")
  <2>1. t # <<>> /\ (Len(t) = 1 \/ t[1] # "0") /\ \A k \in 1..Len(t) : t[k] \in Digits
    BY <1>2 DEF IsInteger, AllDigits
  <2>2. Len(t) > 0
    BY <2>1
  <2> QED BY <1>2, <2>1, <2>2
<1> QED BY <1>1, <1>2

LEMMA FractionShape ==
  ASSUME NEW t \in Seq(Units), IsFraction(t)
  PROVE  Len(t) = 0 \/ (Len(t) > 1 /\ t[1] = "." /\ \A k \in 2..Len(t) : t[k] \in Digits)
<1>1. CASE t = <<>>
  BY <1>1
<1>2. CASE t # <<>>
  <2>1. t[1] = "." /\ Tail(t) # <<>> /\ \A k \in DOMAIN Tail(t) : Tail(t)[k] \in Digits
    BY <1>2 DEF IsFraction, AllDigits
  <2>2. /\ Tail(t) \in Seq(Units) /\ Len(t) \in Nat /\ Len(t) # 0
        /\ Len(Tail(t)) = Len(t) - 1 /\ \A k \in 1..Len(t) - 1 : Tail(t)[k] = t[k + 1]
    BY <1>2
  <2>3. Len(t) > 1
    BY <2>1, <2>2
  <2>4. \A k \in 2..Len(t) : t[k] \in Digits
    <3> SUFFICES ASSUME NEW k \in 2..Len(t) PROVE t[k] \in Digits
      OBVIOUS
    <3>1. k - 1 \in 1..Len(t) - 1 /\ k - 1 \in DOMAIN Tail(t) /\ (k - 1) + 1 = k
      BY <2>2
    <3> QED BY <3>1, <2>1, <2>2
  <2> QED BY <2>1, <2>3, <2>4
<1> QED BY <1>1, <1>2

LEMMA ExponentShape ==
  ASSUME NEW t \in Seq(Units), IsExponent(t)
  PROVE  \/ Len(t) = 0
         \/ \E g \in {0, 1} :
              /\ Len(t) > 1 + g /\ t[1] = "e" /\ (g = 1 <=> t[2] \in {"+", "-"})
              /\ \A k \in 2 + g..Len(t) : t[k] \in Digits
<1>1. CASE t = <<>>
  BY <1>1
<1>2. CASE t # <<>> /\ t[2] \in {"+", "-"}
  <2> DEFINE u == Part(t, 3, Len(t))
  <2>1. t[1] = "e" /\ Len(t) > 1 /\ u # <<>> /\ \A k \in DOMAIN u : u[k] \in Digits
    BY <1>2 DEF IsExponent, AllDigits
  <2>2. Len(t) \in Nat /\ 3 \in 1..Len(t) + 1 /\ Len(t) \in 3 - 1..Len(t)
    BY <2>1
  <2>3. u \in Seq(Units) /\ Len(u) = Len(t) - 3 + 1 /\ \A k \in 1..Len(t) - 3 + 1 : u[k] = t[3 + k - 1]
    BY <2>2, PartProperties
  <2>4. Len(t) > 2
    BY <2>1, <2>2, <2>3
  <2>5. \A k \in 3..Len(t) : t[k] \in Digits
    <3> SUFFICES ASSUME NEW k \in 3..Len(t) PROVE t[k] \in Digits
      OBVIOUS
    <3> HIDE DEF u
    <3>1. k - 2 \in 1..Len(t) - 3 + 1 /\ k - 2 \in 1..Len(u) /\ 3 + (k - 2) - 1 = k
      BY <2>2, <2>3
    <3>2. k - 2 \in DOMAIN u
      BY <3>1, <2>3
    <3> QED BY <3>1, <3>2, <2>1, <2>3
  <2> QED BY <1>2, <2>1, <2>4, <2>5
<1>3. CASE t # <<>> /\ t[2] \notin {"+", "-"}
  <2>1. t[1] = "e" /\ Len(t) > 1 /\ \A k \in DOMAIN Tail(t) : Tail(t)[k] \in Digits
    BY <1>3 DEF IsExponent, AllDigits
  <2>2. Tail(t) \in Seq(Units) /\ Len(Tail(t)) = Len(t) - 1 /\ \A k \in 1..Len(t) - 1 : Tail(t)[k] = t[k + 1]
    BY <1>3
  <2>3. \A k \in 2..Len(t) : t[k] \in Digits
    <3> SUFFICES ASSUME NEW k \in 2..Len(t) PROVE t[k] \in Digits
      OBVIOUS
    <3>1. k - 1 \in 1..Len(t) - 1 /\ k - 1 \in DOMAIN Tail(t) /\ (k - 1) + 1 = k
      BY <2>2
    <3> QED BY <3>1, <2>1, <2>2
  <2> QED BY <1>3, <2>1, <2>3
<1> QED BY <1>1, <1>2, <1>3

LEMMA NumberShape ==
  ASSUME NEW n \in Seq(Units), IsNumber(n)
  PROVE  \E s, g \in {0, 1} : \E i, j \in 0..Len(n) :
           i <= j /\ Shape(n, s, i, j, g) /\ (s = 1 <=> n[1] = "-")
<1>1. PICK i \in 0..Len(n), j \in 0..Len(n) :
        i <= j /\ IsInteger(Part(n, 1, i)) /\ IsFraction(Part(n, i + 1, j)) /\ IsExponent(Part(n, j + 1, Len(n)))
  BY DEF IsNumber
<1> DEFINE A == Part(n, 1, i)
           F == Part(n, i + 1, j)
           E == Part(n, j + 1, Len(n))
<1>0. Len(n) \in Nat /\ i \in Nat /\ j \in Nat /\ i <= j /\ j <= Len(n)
  BY <1>1
<1>2. A \in Seq(Units) /\ Len(A) = i /\ \A k \in 1..i : A[k] = n[k]
  <2>1. 1 \in 1..Len(n) + 1 /\ i \in 1 - 1..Len(n)
    BY <1>0
  <2> HIDE DEF A
  <2>2. A \in Seq(Units) /\ Len(A) = i - 1 + 1 /\ \A k \in 1..i - 1 + 1 : A[k] = n[1 + k - 1]
    BY <2>1, PartProperties DEF A
  <2> QED BY <2>2, <1>0
<1>3. F \in Seq(Units) /\ Len(F) = j - i /\ \A k \in 1..j - i : F[k] = n[i + k]
  <2>1. i + 1 \in 1..Len(n) + 1 /\ j \in (i + 1) - 1..Len(n)
    BY <1>0
  <2> HIDE DEF F
  <2>2. F \in Seq(Units) /\ Len(F) = j - (i + 1) + 1 /\ \A k \in 1..j - (i + 1) + 1 : F[k] = n[(i + 1) + k - 1]
    BY <2>1, PartProperties DEF F
  <2> QED BY <2>2, <1>0
<1>4. E \in Seq(Units) /\ Len(E) = Len(n) - j /\ \A k \in 1..Len(n) - j : E[k] = n[j + k]
  <2>1. j + 1 \in 1..Len(n) + 1 /\ Len(n) \in (j + 1) - 1..Len(n)
    BY <1>0
  <2> HIDE DEF E
  <2>2. E \in Seq(Units) /\ Len(E) = Len(n) - (j + 1) + 1 /\ \A k \in 1..Len(n) - (j + 1) + 1 : E[k] = n[(j + 1) + k - 1]
    BY <2>1, PartProperties DEF E
  <2> QED BY <2>2, <1>0
<1>i. IsInteger(A) /\ IsFraction(F) /\ IsExponent(E)
  BY <1>1
<1> HIDE DEF A, F, E
<1>5. PICK s \in {0, 1} : /\ Len(A) > s /\ (s = 1 <=> A[1] = "-") /\ (Len(A) = s + 1 \/ A[s + 1] # "0")
                          /\ \A k \in s + 1..Len(A) : A[k] \in Digits
  BY <1>2, <1>i, IntegerShape
<1>6. /\ i > s /\ (s = 1 <=> n[1] = "-") /\ (i = s + 1 \/ n[s + 1] # "0")
      /\ \A k \in s + 1..i : n[k] \in Digits
  BY <1>0, <1>2, <1>5
<1>7. i = j \/ (j > i + 1 /\ n[i + 1] = "." /\ \A k \in i + 2..j : n[k] \in Digits)
  <2>1. CASE Len(F) = 0
    BY <2>1, <1>0, <1>3
  <2>2. CASE Len(F) > 1 /\ F[1] = "." /\ \A k \in 2..Len(F) : F[k] \in Digits
    <3>1. j > i + 1 /\ 1 \in 1..j - i
      BY <2>2, <1>0, <1>3
    <3>2. \A k \in i + 2..j : n[k] \in Digits
      <4> SUFFICES ASSUME NEW k \in i + 2..j PROVE n[k] \in Digits
        OBVIOUS
      <4>1. k - i \in 1..j - i /\ k - i \in 2..Len(F) /\ i + (k - i) = k
        BY <1>0, <1>3
      <4> QED BY <4>1, <2>2, <1>3
    <3> QED BY <2>2, <3>1, <3>2, <1>3
  <2> QED BY <2>1, <2>2, <1>3, <1>i, FractionShape
<1>8. \E g \in {0, 1} :
        \/ j = Len(n)
        \/ /\ Len(n) > j + 1 + g /\ n[j + 1] = "e" /\ (g = 1 => n[j + 2] \in {"+", "-"})
           /\ \A k \in j + 2 + g..Len(n) : n[k] \in Digits
  <2>1. CASE Len(E) = 0
    BY <2>1, <1>0, <1>4
  <2>2. ASSUME NEW g \in {0, 1}, Len(E) > 1 + g, E[1] = "e", g = 1 <=> E[2] \in {"+", "-"},
               \A k \in 2 + g..Len(E) : E[k] \in Digits
        PROVE  /\ Len(n) > j + 1 + g /\ n[j + 1] = "e" /\ (g = 1 => n[j + 2] \in {"+", "-"})
               /\ \A k \in j + 2 + g..Len(n) : n[k] \in Digits
    <3>1. Len(n) > j + 1 + g /\ {1, 2} \subseteq 1..Len(n) - j
      BY <2>2, <1>0, <1>4
    <3>2. \A k \in j + 2 + g..Len(n) : n[k] \in Digits
      <4> SUFFICES ASSUME NEW k \in j + 2 + g..Len(n) PROVE n[k] \in Digits
        OBVIOUS
      <4>1. k - j \in 1..Len(n) - j /\ k - j \in 2 + g..Len(E) /\ j + (k - j) = k
        BY <1>0, <1>4
      <4> QED BY <4>1, <2>2, <1>4
    <3> QED BY <2>2, <3>1, <3>2, <1>4
  <2> QED BY <2>1, <2>2, <1>4, <1>i, ExponentShape
<1>9. PICK g \in {0, 1} :
        \/ j = Len(n)
        \/ /\ Len(n) > j + 1 + g /\ n[j + 1] = "e" /\ (g = 1 => n[j + 2] \in {"+", "-"})
           /\ \A k \in j + 2 + g..Len(n) : n[k] \in Digits
  BY <1>8
<1> QED BY <1>0, <1>1, <1>6, <1>7, <1>9 DEF Shape

LEMMA ModeSteps ==
  ASSUME NEW n \in Seq(Units), NEW s \in {0, 1}, NEW g \in {0, 1}, NEW i \in 0..Len(n), NEW j \in 0..Len(n),
         i <= j, Shape(n, s, i, j, g), NEW k \in 2..Len(n)
  PROVE  ModeAt(n, s, i, j, g, k) = Numeral(ModeAt(n, s, i, j, g, k - 1), n[k])
<1>0. Len(n) \in Nat /\ i \in Nat /\ j \in Nat /\ k \in Nat /\ s \in Nat /\ g \in Nat /\ k >= 2 /\ k <= Len(n)
  OBVIOUS
<1> USE DEF Digits
<1>1. CASE k <= i
  <2>1. n[k] \in Digits /\ i > s + 1 - 1 /\ k > s
    BY <1>0, <1>1 DEF Shape
  <2>2. CASE k = s + 1
    <3>1. ModeAt(n, s, i, j, g, k - 1) = "minus"
      BY <1>0, <1>1, <2>2 DEF ModeAt
    <3>2. ModeAt(n, s, i, j, g, k) = IF n[k] = "0" THEN "zero" ELSE "integer"
      BY <1>0, <1>1, <2>2 DEF ModeAt
    <3> QED BY <2>1, <3>1, <3>2 DEF Numeral
  <2>3. CASE k > s + 1
    <3>1. n[s + 1] # "0"
      BY <1>0, <1>1, <2>3 DEF Shape
    <3>2. ModeAt(n, s, i, j, g, k - 1) = "integer" /\ ModeAt(n, s, i, j, g, k) = "integer"
      BY <1>0, <1>1, <2>3, <3>1 DEF ModeAt
    <3> QED BY <2>1, <3>2 DEF Numeral
  <2> QED BY <1>0, <2>1, <2>2, <2>3
<1>2. CASE i < k /\ k <= j
  <2>1. j > i + 1 /\ n[i + 1] = "." /\ \A l \in i + 2..j : n[l] \in Digits
    BY <1>0, <1>2 DEF Shape
  <2>2. CASE k = i + 1
    <3>1. k - 1 = i /\ i > s
      BY <1>0, <2>2 DEF Shape
    <3>2. ModeAt(n, s, i, j, g, k - 1) \in {"zero", "integer"} /\ ModeAt(n, s, i, j, g, k) = "point"
      BY <1>0, <1>2, <2>2, <3>1 DEF ModeAt
    <3> QED BY <2>1, <2>2, <3>2 DEF Numeral
  <2>3. CASE k > i + 1
    <3>1. n[k] \in Digits
      BY <1>0, <1>2, <2>1, <2>3
    <3>2. ModeAt(n, s, i, j, g, k - 1) \in {"point", "fraction"} /\ ModeAt(n, s, i, j, g, k) = "fraction"
      BY <1>0, <1>2, <2>3 DEF ModeAt
    <3> QED BY <3>1, <3>2 DEF Numeral
  <2> QED BY <1>0, <1>2, <2>2, <2>3
<1>3. CASE j < k
  <2>1. /\ Len(n) > j + 1 + g /\ n[j + 1] = "e" /\ (g = 1 => n[j + 2] \in {"+", "-"})
        /\ \A l \in j + 2 + g..Len(n) : n[l] \in Digits
    BY <1>0, <1>3 DEF Shape
  <2>2. CASE k = j + 1
    <3>1. ModeAt(n, s, i, j, g, k) = "exponent"
      BY <1>0, <2>2 DEF ModeAt
    <3>2. ModeAt(n, s, i, j, g, k - 1) \in {"zero", "integer", "fraction"}
      <4>1. k - 1 = j /\ i > s /\ (i = j \/ j > i + 1)
        BY <1>0, <2>2 DEF Shape
      <4> QED BY <1>0, <4>1 DEF ModeAt
    <3> QED BY <2>1, <2>2, <3>1, <3>2 DEF Numeral
  <2>3. CASE k = j + 2 /\ g = 1
    <3>1. ModeAt(n, s, i, j, g, k) = "sign" /\ ModeAt(n, s, i, j, g, k - 1) = "exponent"
      BY <1>0, <2>3 DEF ModeAt
    <3> QED BY <2>1, <2>3, <3>1 DEF Numeral
  <2>4. CASE k >= j + 2 + g
    <3>1. n[k] \in Digits
      BY <1>0, <2>1, <2>4
    <3>2. ModeAt(n, s, i, j, g, k) = "power"
      BY <1>0, <2>4 DEF ModeAt
    <3>3. ModeAt(n, s, i, j, g, k - 1) \in {"exponent", "sign", "power"}
      BY <1>0, <2>4 DEF ModeAt
    <3> QED BY <3>1, <3>2, <3>3 DEF Numeral
  <2> QED BY <1>0, <1>3, <2>2, <2>3, <2>4
<1> QED BY <1>0, <1>1, <1>2, <1>3

LEMMA ModeEnds ==
  ASSUME NEW n \in Seq(Units), NEW s \in {0, 1}, NEW g \in {0, 1}, NEW i \in 0..Len(n), NEW j \in 0..Len(n),
         i <= j, Shape(n, s, i, j, g), s = 1 <=> n[1] = "-"
  PROVE  /\ Len(n) > 0 /\ n[1] \in {"-"} \cup Digits
         /\ ModeAt(n, s, i, j, g, 1) = FirstMode(n[1])
         /\ ModeAt(n, s, i, j, g, Len(n)) \in NumberEnds
<1>0. Len(n) \in Nat /\ i \in Nat /\ j \in Nat /\ s \in Nat /\ g \in Nat /\ i > s /\ i <= Len(n) /\ j <= Len(n)
  BY DEF Shape
<1>1. n[1] \in {"-"} \cup Digits
  <2>1. s = 0 => 1 \in s + 1..i
    BY <1>0
  <2> QED BY <2>1 DEF Shape
<1>2. ModeAt(n, s, i, j, g, 1) = FirstMode(n[1])
  <2>1. CASE s = 1
    BY <1>0, <2>1 DEF ModeAt, FirstMode
  <2>2. CASE s = 0
    <3>1. ModeAt(n, s, i, j, g, 1) = IF n[1] = "0" THEN "zero" ELSE "integer"
      BY <1>0, <2>2 DEF ModeAt
    <3>2. n[1] \in Digits /\ n[1] # "-"
      BY <1>1, <2>2
    <3> QED BY <3>1, <3>2 DEF FirstMode, Numeral, Digits
  <2> QED BY <2>1, <2>2
<1>3. ModeAt(n, s, i, j, g, Len(n)) \in NumberEnds
  <2>1. i = j \/ j > i + 1
    BY <1>0 DEF Shape
  <2>2. j = Len(n) \/ Len(n) > j + 1 + g
    BY <1>0 DEF Shape
  <2> QED BY <1>0, <2>1, <2>2 DEF ModeAt, NumberEnds
<1> QED BY <1>0, <1>1, <1>2, <1>3

\* Every number begins like one, and the scanner goes from its first unit to
\* an end of a number.
LEMMA NumberFollows ==
  ASSUME NEW n \in Seq(Units), IsNumber(n)
  PROVE  n # <<>> /\ n[1] \in {"-"} \cup Digits /\ Follows(FirstMode(n[1]), Tail(n))
<1>1. PICK s \in {0, 1}, g \in {0, 1}, i \in 0..Len(n), j \in 0..Len(n) :
        i <= j /\ Shape(n, s, i, j, g) /\ (s = 1 <=> n[1] = "-")
  BY NumberShape
<1>2. n # <<>> /\ Len(n) \in Nat /\ Len(n) > 0 /\ n[1] \in {"-"} \cup Digits
  BY <1>1, ModeEnds
<1>3. Tail(n) \in Seq(Units) /\ Len(Tail(n)) = Len(n) - 1 /\ \A k \in 1..Len(n) - 1 : Tail(n)[k] = n[k + 1]
  BY <1>2
<1> DEFINE M(k) == ModeAt(n, s, i, j, g, k)
           r == [k \in 0..Len(Tail(n)) |-> M(k + 1)]
<1>4. r \in [0..Len(Tail(n)) -> NumberModes]
  BY DEF ModeAt, NumberModes, NumberEnds
<1>5. M(1) = FirstMode(n[1]) /\ M(Len(n)) \in NumberEnds
  BY <1>1, ModeEnds
<1>6. \A k \in 2..Len(n) : M(k) = Numeral(M(k - 1), n[k])
  BY <1>1, ModeSteps
<1> HIDE DEF M
<1>7. r[0] = FirstMode(n[1]) /\ r[Len(Tail(n))] \in NumberEnds
  <2>1. 0 \in 0..Len(Tail(n)) /\ Len(Tail(n)) \in 0..Len(Tail(n)) /\ Len(Tail(n)) + 1 = Len(n) /\ 0 + 1 = 1
    BY <1>2, <1>3
  <2> QED BY <1>5, <2>1
<1>8. ASSUME NEW k \in 1..Len(Tail(n)) PROVE r[k] = Numeral(r[k - 1], Tail(n)[k])
  <2>1. /\ k \in 0..Len(Tail(n)) /\ k - 1 \in 0..Len(Tail(n)) /\ k + 1 \in 2..Len(n)
        /\ (k - 1) + 1 = k /\ (k + 1) - 1 = k /\ k \in 1..Len(n) - 1
    BY <1>2, <1>3
  <2>2. r[k] = M(k + 1) /\ r[k - 1] = M(k) /\ Tail(n)[k] = n[k + 1]
    BY <1>3, <2>1
  <2>3. M(k + 1) = Numeral(M(k), n[k + 1])
    BY <1>6, <2>1
  <2> QED BY <2>2, <2>3
<1> HIDE DEF r
<1> QED BY <1>2, <1>4, <1>7, <1>8 DEF Follows, Scans

\* The scanner stays on a number: one unit less is left.
LEMMA FollowsStep ==
  ASSUME NEW mode, NEW t \in Seq(Units), t # <<>>, Follows(mode, t)
  PROVE  mode \in NumberModes /\ Numeral(mode, t[1]) \in NumberModes /\ Follows(Numeral(mode, t[1]), Tail(t))
<1>1. PICK r \in [0..Len(t) -> NumberModes] : Scans(r, mode, t)
  BY DEF Follows
<1>2. Len(t) \in Nat /\ Len(t) > 0
  OBVIOUS
<1>3. Tail(t) \in Seq(Units) /\ Len(Tail(t)) = Len(t) - 1 /\ \A k \in 1..Len(t) - 1 : Tail(t)[k] = t[k + 1]
  BY <1>2
<1> DEFINE q == [k \in 0..Len(Tail(t)) |-> r[k + 1]]
<1>4. q \in [0..Len(Tail(t)) -> NumberModes]
  BY <1>2, <1>3
<1>5. r[0] = mode /\ r[1] = Numeral(mode, t[1]) /\ r[0] \in NumberModes /\ r[1] \in NumberModes
  <2>1. 1 \in 1..Len(t) /\ 0 \in 0..Len(t) /\ 1 \in 0..Len(t) /\ 1 - 1 = 0
    BY <1>2
  <2>2. r[0] = mode /\ \A k \in 1..Len(t) : r[k] = Numeral(r[k - 1], t[k])
    BY <1>1 DEF Scans
  <2>3. r[1] = Numeral(r[0], t[1])
    BY <2>1, <2>2
  <2> QED BY <2>1, <2>2, <2>3
<1>6. q[0] = Numeral(mode, t[1]) /\ q[Len(Tail(t))] \in NumberEnds
  <2>1. 0 \in 0..Len(Tail(t)) /\ Len(Tail(t)) \in 0..Len(Tail(t)) /\ Len(Tail(t)) + 1 = Len(t) /\ 0 + 1 = 1
    BY <1>2, <1>3
  <2>2. q[0] = r[1] /\ q[Len(Tail(t))] = r[Len(t)]
    BY <2>1
  <2>3. r[Len(t)] \in NumberEnds
    BY <1>1 DEF Scans
  <2> HIDE DEF q
  <2> QED BY <1>5, <2>2, <2>3
<1>7. ASSUME NEW k \in 1..Len(Tail(t)) PROVE q[k] = Numeral(q[k - 1], Tail(t)[k])
  <2>1. /\ k \in 0..Len(Tail(t)) /\ k - 1 \in 0..Len(Tail(t)) /\ k + 1 \in 1..Len(t)
        /\ (k - 1) + 1 = k /\ (k + 1) - 1 = k /\ k \in 1..Len(t) - 1
    BY <1>2, <1>3
  <2>2. q[k] = r[k + 1] /\ q[k - 1] = r[k] /\ Tail(t)[k] = t[k + 1]
    BY <1>3, <2>1
  <2>3. r[k + 1] = Numeral(r[(k + 1) - 1], t[k + 1])
    BY <1>1, <2>1 DEF Scans
  <2> HIDE DEF q
  <2> QED BY <2>1, <2>2, <2>3
<1> HIDE DEF q
<1> QED BY <1>4, <1>5, <1>6, <1>7 DEF Follows, Scans

LEMMA FollowsEnd ==
  ASSUME NEW mode, Follows(mode, <<>>)
  PROVE  mode \in NumberEnds
<1>1. Len(<<>>) = 0
  OBVIOUS
<1> QED BY <1>1 DEF Follows, Scans

-------------------------------------------------------------------------------
(* The parser follows the writer.                                            *)

StringPlaces == {"string", "key string"}
SamePlaces   == {"elements", "members", "key", "colon"} \cup StringPlaces
Places       == {"absent", "null", "value", "number", "next", "done"} \cup SamePlaces

Writers == [place : Places, stack : Seq({"object", "array"}), rest : Seq(Units), size : Nat]

Last(s) == s[Len(s)]

\* A walk serialize_to can be on.
WellFormed(w) ==
  /\ w \in Writers
  /\ w.place \in {"absent", "null", "done"} => w.stack = <<>>
  /\ w.place = "next" => w.stack # <<>>
  /\ w.place = "elements" => w.stack # <<>> /\ Last(w.stack) = "array"
  /\ w.place = "members" => w.stack # <<>> /\ Last(w.stack) = "object"
  /\ w.place = "number" => w.rest # <<>>

\* Exceeds, of a walk.
Beyond(w) ==
  \/ Len(w.stack) > MaxDepth
  \/ w.place \in StringPlaces /\ (Len(w.stack) >= MaxDepth \/ w.size > MaxString)

\* The parser p stands where the writer w does: in the same containers, and
\* after a number, which has no closing character, still in that number.
Matches(w, p) ==
  /\ p.stack = w.stack
  /\ w.place \in {"null", "value"} => p.mode = "value"
  /\ w.place \in SamePlaces => p.mode = w.place
  /\ w.place \in StringPlaces => p.size = w.size
  /\ w.place = "number" => Follows(p.mode, w.rest)
  /\ w.place = "next" => p.mode \in {"next"} \cup NumberEnds
  /\ w.place = "done" => p.mode \in {"after"} \cup NumberEnds

\* It failed where the value went beyond the limits, and nowhere else.
Tracks(w, p) == IF p.mode = "failed" THEN Beyond(w) ELSE ~Beyond(w) /\ Matches(w, p)

TextInv ==
  /\ IInv
  /\ WellFormed(writer)
  /\ verdict = "malformed" <=> parser.mode = "failed"
  /\ verdict = "accepted" => Complete
  /\ verdict = "truncated" => ~Complete
  /\ IsDumped => Tracks(writer, parser)

\* Before a unit of the value is written.
Ready == IInv /\ WellFormed(writer) /\ IsDumped /\ parser.mode # "failed" /\ Tracks(writer, parser)

\* After the unit c is written, and w is where the writer is.
Keeps(c, w) == c \in Units /\ WellFormed(w) /\ w.place # "absent" /\ Tracks(w, Consume(c))

LEMMA ReadyFacts ==
  ASSUME Ready
  PROVE  /\ parser \in Parsers /\ writer \in Writers /\ Len(writer.stack) \in Nat
         /\ parser.stack = writer.stack /\ parser.depth = Len(writer.stack)
         /\ ~Beyond(writer) /\ Matches(writer, parser)
  BY DEF Ready, IInv, Sound, Tracks, Matches, WellFormed, Writers, Beyond

LEMMA ReadyLimits ==
  ASSUME Ready
  PROVE  /\ Len(writer.stack) <= MaxDepth /\ ~(Len(writer.stack) > MaxDepth) /\ ~(0 > MaxString)
         /\ Len(writer.stack) + 1 > MaxDepth <=> Len(writer.stack) >= MaxDepth
<1>1. Len(writer.stack) \in Nat /\ ~(Len(writer.stack) > MaxDepth)
  BY ReadyFacts DEF Beyond
<1> QED BY <1>1, LimitsAssumption

LEMMA Appended ==
  ASSUME NEW s \in Seq({"object", "array"}), NEW e \in {"object", "array"}
  PROVE  /\ Append(s, e) \in Seq({"object", "array"}) /\ Len(Append(s, e)) = Len(s) + 1
         /\ Append(s, e) # <<>> /\ Last(Append(s, e)) = e
<1>1. Append(s, e) \in Seq({"object", "array"}) /\ Len(Append(s, e)) = Len(s) + 1 /\ Append(s, e)[Len(s) + 1] = e
  OBVIOUS
<1>2. Len(s) \in Nat
  OBVIOUS
<1> QED BY <1>1, <1>2 DEF Last

LEMMA FailFacts ==
  ASSUME NEW p \in Parsers
  PROVE  Fail(p).mode = "failed" /\ \A m : In(p, m) = [p EXCEPT !.mode = m]
  BY DEF Fail, In, Parsers

\* Where the innermost call has ended, the parser matches the writer.
LEMMA FinishedMatches ==
  ASSUME NEW p \in Parsers, NEW w \in Writers, p.stack = w.stack, Len(w.stack) <= MaxDepth,
         NEW q \in Parsers, q.stack = w.stack,
         q.mode \in NumberEnds \cup {IF w.stack = <<>> THEN "after" ELSE "next"}
  PROVE  WellFormed(Finished(w)) /\ Finished(w).place # "absent" /\ Tracks(Finished(w), q)
<1>1. /\ Finished(w) \in Writers /\ Finished(w).stack = w.stack
      /\ Finished(w).place = IF w.stack = <<>> THEN "done" ELSE "next"
  <2>1. <<>> \in Seq(Units) /\ {"done", "next"} \subseteq Places
    BY DEF Places
  <2> QED BY <2>1 DEF Finished, Writers
<1>2. WellFormed(Finished(w)) /\ Finished(w).place # "absent"
  BY <1>1 DEF WellFormed
<1>3. Len(w.stack) \in Nat
  BY DEF Writers
<1>4. ~Beyond(Finished(w))
  BY <1>1, <1>3, LimitsAssumption DEF Beyond, StringPlaces
<1>5. q.mode # "failed" /\ Matches(Finished(w), q)
  BY <1>1 DEF Matches, SamePlaces, StringPlaces, NumberEnds
<1> QED BY <1>2, <1>4, <1>5 DEF Tracks

LEMMA ReturnFacts ==
  ASSUME NEW p \in Parsers
  PROVE  /\ Return(p) \in Parsers /\ Return(p).stack = p.stack /\ Return(p).depth = p.depth
         /\ Return(p).mode = IF p.stack = <<>> THEN "after" ELSE "next"
  BY DEF Return, In, Parsers, Modes

LEMMA EnterFacts ==
  ASSUME NEW p, NEW m, NEW k, ~(p.depth >= MaxDepth)
  PROVE  Enter(p, m, k).mode = m /\ Enter(p, m, k).stack = Append(p.stack, k)
  BY DEF Enter

\* The parser is asked for a value, and c begins one.
LEMMA ConsumeValue ==
  ASSUME Ready, AtValue, NEW c \in Units \ (Space \cup {"]"})
  PROVE  Consume(c) = ParseValue(parser, c)
<1>1. parser.mode \in {"value", "elements"}
  BY ReadyFacts DEF AtValue, Matches, SamePlaces
<1>2. parser.mode \notin StringModes \cup NumberModes \cup NumberEnds
  BY <1>1 DEF StringModes, NumberModes, NumberEnds
<1>3. Consume(c) = BetweenValues(parser, c)
  BY <1>2 DEF Consume
<1> QED BY <1>1, <1>3 DEF BetweenValues

LEMMA KeepsLiteral == ASSUME Ready, AtValue \/ writer.place = "null" PROVE Keeps("lit", Finished(writer))
<1>1. "lit" \in Units \ (Space \cup {"]"} \cup Digits)
  BY DEF Units, Space, Digits, Escapes
<1>2. Consume("lit") = ParseValue(parser, "lit")
  <2>1. CASE AtValue
    BY <2>1, <1>1, ConsumeValue
  <2>2. CASE writer.place = "null"
    <3>1. parser.mode = "value"
      BY <2>2, ReadyFacts DEF Matches
    <3>2. parser.mode \notin StringModes \cup NumberModes \cup NumberEnds
      BY <3>1 DEF StringModes, NumberModes, NumberEnds
    <3> QED BY <1>1, <3>1, <3>2 DEF Consume, BetweenValues
  <2> QED BY <2>1, <2>2
<1>3. Consume("lit") = Return(parser)
  BY <1>2 DEF ParseValue, Digits
<1> QED BY <1>1, <1>3, ReadyFacts, ReadyLimits, ReturnFacts, FinishedMatches DEF Keeps

\* c opens a container, in which the writer is then at place.
Opens(c, place, container) ==
  \/ c = "[" /\ place = "elements" /\ container = "array"
  \/ c = "{" /\ place = "members" /\ container = "object"

LEMMA KeepsBracket ==
  ASSUME Ready, AtValue, NEW c, NEW place, NEW container, Opens(c, place, container)
  PROVE  Keeps(c, [At(place) EXCEPT !.stack = Append(@, container)])
<1>0. /\ c \in Units \ (Space \cup {"]"} \cup Digits) /\ place \in {"elements", "members"}
      /\ container \in {"object", "array"}
  BY DEF Opens, Units, Space, Digits, Escapes
<1> DEFINE w == [At(place) EXCEPT !.stack = Append(@, container)]
<1>1. /\ w \in Writers /\ w.place = place /\ w.stack = Append(writer.stack, container)
      /\ Len(w.stack) = Len(writer.stack) + 1
  <2>1. writer.stack \in Seq({"object", "array"})
    BY ReadyFacts DEF Writers
  <2>2. /\ Append(writer.stack, container) \in Seq({"object", "array"})
        /\ Len(Append(writer.stack, container)) = Len(writer.stack) + 1
    BY <1>0, <2>1, Appended
  <2>3. place \in Places
    BY <1>0 DEF Places, SamePlaces
  <2> QED BY <2>2, <2>3, ReadyFacts DEF At, Writers
<1> HIDE DEF w
<1>2. w.stack # <<>> /\ Last(w.stack) = container
  <2>1. writer.stack \in Seq({"object", "array"})
    BY ReadyFacts DEF Writers
  <2> QED BY <1>0, <1>1, <2>1, Appended
<1>3. WellFormed(w) /\ w.place # "absent"
  BY <1>1, <1>2 DEF WellFormed, Opens
<1>4. Consume(c) = Enter(parser, place, container)
  <2>1. Consume(c) = ParseValue(parser, c)
    BY <1>0, ConsumeValue
  <2> QED BY <2>1 DEF ParseValue, Digits, Opens
<1>5. Beyond(w) <=> Len(writer.stack) >= MaxDepth
  <2>1. w.place \notin StringPlaces
    BY <1>0, <1>1 DEF StringPlaces
  <2> QED BY <1>1, <2>1, ReadyLimits DEF Beyond
<1>6. Tracks(w, Consume(c))
  <2>1. CASE Len(writer.stack) >= MaxDepth
    BY <2>1, <1>4, <1>5, ReadyFacts, FailFacts DEF Enter, Tracks
  <2>2. CASE ~(Len(writer.stack) >= MaxDepth)
    <3>1. ~(parser.depth >= MaxDepth) /\ parser.stack = writer.stack
      BY <2>2, ReadyFacts
    <3>2. Consume(c).mode = w.place /\ Consume(c).stack = w.stack
      BY <1>1, <1>4, <3>1, EnterFacts
    <3>3. Matches(w, Consume(c)) /\ Consume(c).mode # "failed"
      BY <3>2, <1>0, <1>1 DEF Matches, SamePlaces, StringPlaces
    <3> QED BY <3>3, <2>2, <1>5 DEF Tracks
  <2> QED BY <2>1, <2>2
<1> QED BY <1>0, <1>3, <1>6 DEF Keeps, w

LEMMA KeepsQuote ==
  ASSUME Ready, NEW place,
         (AtValue /\ place = "string") \/ (writer.place \in {"members", "key"} /\ place = "key string")
  PROVE  Keeps("quote", [At(place) EXCEPT !.size = 0])
<1>0. "quote" \in Units \ (Space \cup {"]"} \cup Digits)
  BY DEF Units, Space, Digits, Escapes
<1> DEFINE w == [At(place) EXCEPT !.size = 0]
<1>1. w \in Writers /\ w.place = place /\ w.stack = writer.stack /\ w.size = 0
  BY ReadyFacts DEF At, Writers, Places, SamePlaces, StringPlaces
<1>2. WellFormed(w) /\ w.place # "absent"
  BY <1>1 DEF WellFormed
<1>3. Consume("quote") = OpenString(parser, place)
  <2>1. CASE AtValue /\ place = "string"
    BY <2>1, <1>0, ConsumeValue DEF ParseValue
  <2>2. CASE writer.place \in {"members", "key"} /\ place = "key string"
    <3>1. parser.mode \in {"members", "key"}
      BY <2>2, ReadyFacts DEF Matches, SamePlaces
    <3>2. parser.mode \notin StringModes \cup NumberModes \cup NumberEnds
      BY <3>1 DEF StringModes, NumberModes, NumberEnds
    <3> QED BY <1>0, <2>2, <3>1, <3>2 DEF Consume, BetweenValues
  <2> QED BY <2>1, <2>2
<1> HIDE DEF w
<1>4. Beyond(w) <=> Len(writer.stack) >= MaxDepth
  <2>1. w.place \in StringPlaces
    BY <1>1 DEF StringPlaces
  <2> QED BY <1>1, <2>1, ReadyLimits DEF Beyond
<1>5. Tracks(w, Consume("quote"))
  <2>1. CASE Len(writer.stack) >= MaxDepth
    BY <2>1, <1>3, <1>4, ReadyFacts, FailFacts DEF OpenString, Tracks
  <2>2. CASE ~(Len(writer.stack) >= MaxDepth)
    <3>1. Consume("quote") = [parser EXCEPT !.mode = place, !.size = 0]
      BY <2>2, <1>3, ReadyFacts DEF OpenString
    <3>2. Matches(w, Consume("quote")) /\ Consume("quote").mode # "failed"
      BY <3>1, <1>1, ReadyFacts DEF Matches, SamePlaces, StringPlaces, Parsers
    <3> QED BY <3>2, <2>2, <1>4 DEF Tracks
  <2> QED BY <2>1, <2>2
<1> QED BY <1>0, <1>2, <1>5 DEF Keeps, w

LEMMA KeepsCharacter ==
  ASSUME Ready, InString, NEW kind \in DOMAIN Escaped
  PROVE  Keeps(Escaped[kind], [writer EXCEPT !.size = @ + 1])
<1> DEFINE c == Escaped[kind]
           w == [writer EXCEPT !.size = @ + 1]
<1>1. c \in {"x", "esc", "uni"}
  BY DEF Escaped
<1>2. c \in Units
  BY <1>1 DEF Units, Escapes
<1>p. writer.place \in StringPlaces
  BY DEF InString, StringPlaces
<1>3. w \in Writers /\ w.place = writer.place /\ w.stack = writer.stack /\ w.size = writer.size + 1
  BY ReadyFacts DEF Writers
<1> HIDE DEF w, c
<1>4. WellFormed(w) /\ w.place # "absent"
  BY <1>p, <1>3 DEF WellFormed, StringPlaces
<1>5. parser.mode = writer.place /\ parser.size = writer.size
  BY <1>p, ReadyFacts DEF Matches, SamePlaces
<1>6. Consume(c) = Grow(parser, parser.mode)
  <2>1. parser.mode \in StringModes /\ parser.mode \notin NumberModes \cup NumberEnds \cup {"low", "key low"}
    BY <1>p, <1>5 DEF StringModes, StringPlaces, NumberModes, NumberEnds
  <2>2. Consume(c) = StringUnit(parser, c)
    BY <2>1 DEF Consume
  <2> QED BY <2>1, <2>2, <1>1 DEF StringUnit
<1>7. Beyond(w) <=> writer.size + 1 > MaxString
  <2>1. ~(Len(writer.stack) >= MaxDepth) /\ ~(Len(writer.stack) > MaxDepth)
    BY <1>p, ReadyFacts DEF Beyond
  <2> QED BY <2>1, <1>p, <1>3 DEF Beyond
<1>8. Tracks(w, Consume(c))
  <2>1. CASE writer.size + 1 > MaxString
    <3>1. Consume(c).mode = "failed"
      BY <2>1, <1>5, <1>6, ReadyFacts, FailFacts DEF Grow
    <3> QED BY <3>1, <2>1, <1>7 DEF Tracks
  <2>2. CASE ~(writer.size + 1 > MaxString)
    <3>1. Consume(c) = [parser EXCEPT !.mode = parser.mode, !.size = parser.size + 1]
      BY <2>2, <1>5, <1>6 DEF Grow
    <3>2. Consume(c).mode = parser.mode /\ Consume(c).size = parser.size + 1 /\ Consume(c).stack = parser.stack
      BY <3>1, ReadyFacts DEF Parsers
    <3>3. parser.stack = writer.stack
      BY ReadyFacts
    <3>4. /\ Consume(c).mode = w.place /\ Consume(c).size = w.size /\ Consume(c).stack = w.stack
          /\ w.place \in StringPlaces
      BY <3>2, <3>3, <1>3, <1>5, <1>p
    <3>5. Matches(w, Consume(c)) /\ Consume(c).mode # "failed"
      BY <3>4 DEF Matches, SamePlaces, StringPlaces
    <3> QED BY <3>5, <2>2, <1>7 DEF Tracks
  <2> QED BY <2>1, <2>2
<1> QED BY <1>2, <1>4, <1>8 DEF Keeps, w, c

LEMMA KeepsClosingQuote ==
  ASSUME Ready, InString
  PROVE  Keeps("quote", IF writer.place = "string" THEN Finished(writer) ELSE At("colon"))
<1>1. "quote" \in Units
  BY DEF Units
<1>p. writer.place \in StringPlaces
  BY DEF InString, StringPlaces
<1>2. parser.mode = writer.place
  BY <1>p, ReadyFacts DEF Matches, SamePlaces
<1>3. Consume("quote") = IF parser.mode = "string" THEN Return(parser) ELSE In(parser, "colon")
  <2>1. parser.mode \in StringModes /\ parser.mode \notin NumberModes \cup NumberEnds \cup {"low", "key low"}
    BY <1>p, <1>2 DEF StringModes, StringPlaces, NumberModes, NumberEnds
  <2>2. Consume("quote") = StringUnit(parser, "quote")
    BY <2>1 DEF Consume
  <2> QED BY <2>1, <2>2 DEF StringUnit
<1>4. CASE writer.place = "string"
  BY <1>1, <1>2, <1>3, <1>4, ReadyFacts, ReadyLimits, ReturnFacts, FinishedMatches DEF Keeps
<1>5. CASE writer.place # "string"
  <2> DEFINE w == At("colon")
  <2>1. w \in Writers /\ w.place = "colon" /\ w.stack = writer.stack
    BY ReadyFacts DEF At, Writers, Places, SamePlaces
  <2>2. Consume("quote").mode = "colon" /\ Consume("quote").stack = parser.stack
    BY <1>2, <1>3, <1>5, ReadyFacts DEF In, Parsers
  <2>3. parser.stack = writer.stack
    BY ReadyFacts
  <2> HIDE DEF w
  <2>4. WellFormed(w) /\ w.place # "absent"
    BY <2>1 DEF WellFormed
  <2>5. ~Beyond(w)
    BY <2>1, ReadyLimits DEF Beyond, StringPlaces
  <2>6. Matches(w, Consume("quote"))
    BY <2>1, <2>2, <2>3 DEF Matches, SamePlaces, StringPlaces
  <2>7. Keeps("quote", w)
    BY <1>1, <2>2, <2>4, <2>5, <2>6 DEF Keeps, Tracks
  <2> QED BY <1>5, <2>7 DEF w
<1> QED BY <1>4, <1>5

LEMMA KeepsColon == ASSUME Ready, writer.place = "colon" PROVE Keeps(":", At("value"))
<1> DEFINE w == At("value")
<1>1. ":" \in Units \ Space
  BY DEF Units, Space
<1>2. w \in Writers /\ w.place = "value" /\ w.stack = writer.stack
  BY ReadyFacts DEF At, Writers, Places
<1>3. parser.mode = "colon"
  BY ReadyFacts DEF Matches, SamePlaces
<1>4. Consume(":") = In(parser, "value")
  BY <1>1, <1>3 DEF Consume, BetweenValues, StringModes, NumberModes, NumberEnds
<1>5. Consume(":").mode = "value" /\ Consume(":").stack = parser.stack
  BY <1>4, ReadyFacts DEF In, Parsers
<1>6. parser.stack = writer.stack
  BY ReadyFacts
<1> HIDE DEF w
<1>7. WellFormed(w) /\ w.place # "absent"
  BY <1>2 DEF WellFormed
<1>8. ~Beyond(w)
  BY <1>2, ReadyLimits DEF Beyond, StringPlaces
<1>9. Matches(w, Consume(":"))
  BY <1>2, <1>5, <1>6 DEF Matches, SamePlaces, StringPlaces
<1>10. Keeps(":", w)
  BY <1>1, <1>5, <1>7, <1>8, <1>9 DEF Keeps, Tracks
<1> QED BY <1>10 DEF w

\* After a value in a container, a comma or closing bracket is read by the
\* container, also where the value was a number and has not been left yet.
LEMMA ConsumeBetween ==
  ASSUME Ready, writer.place = "next", NEW c \in {",", "]", "}"}
  PROVE  \E p : /\ p \in Parsers /\ p.stack = parser.stack /\ p.depth = parser.depth /\ p.mode = "next"
                /\ Consume(c) = BetweenValues(p, c)
<1>1. parser \in Parsers /\ parser.stack # <<>> /\ parser.mode \in {"next"} \cup NumberEnds
  BY ReadyFacts DEF Ready, WellFormed, Matches
<1>2. c \notin Space
  BY DEF Space
<1>3. Numeral(parser.mode, c) = "failed"
  BY DEF Numeral, Digits
<1>4. CASE parser.mode = "next"
  <2>1. Consume(c) = BetweenValues(parser, c)
    BY <1>2, <1>4 DEF Consume, StringModes, NumberModes, NumberEnds
  <2> QED BY <1>1, <1>4, <2>1
<1>5. CASE parser.mode \in NumberEnds
  <2>1. Return(parser).mode = "next"
    BY <1>1, ReturnFacts
  <2>2. Return(parser).mode \notin StringModes \cup NumberModes
    BY <2>1 DEF StringModes, NumberModes, NumberEnds
  <2>3. Consume(c) = BetweenValues(Return(parser), c)
    BY <1>2, <1>3, <1>5, <2>2 DEF Consume
  <2> QED BY <1>1, <2>1, <2>3, ReturnFacts
<1> QED BY <1>1, <1>4, <1>5

LEMMA KeepsComma ==
  ASSUME Ready, writer.place = "next"
  PROVE  Keeps(",", At(IF Innermost = "object" THEN "key" ELSE "value"))
<1> DEFINE place == IF Innermost = "object" THEN "key" ELSE "value"
           w == At(place)
<1>1. "," \in Units
  BY DEF Units
<1>2. PICK p : /\ p \in Parsers /\ p.stack = parser.stack /\ p.depth = parser.depth /\ p.mode = "next"
               /\ Consume(",") = BetweenValues(p, ",")
  BY ConsumeBetween
<1>3. parser.stack = writer.stack
  BY ReadyFacts
<1>4. Consume(",") = In(p, place)
  BY <1>2, <1>3 DEF BetweenValues, Innermost
<1>5. place \in {"key", "value"}
  OBVIOUS
<1> HIDE DEF place
<1>6. w \in Writers /\ w.place = place /\ w.stack = writer.stack
  BY <1>5, ReadyFacts DEF At, Writers, Places, SamePlaces
<1>7. Consume(",").mode = place /\ Consume(",").stack = writer.stack
  BY <1>2, <1>3, <1>4 DEF In, Parsers
<1> HIDE DEF w
<1>8. WellFormed(w) /\ w.place # "absent"
  BY <1>5, <1>6 DEF WellFormed
<1>9. ~Beyond(w)
  BY <1>5, <1>6, ReadyLimits DEF Beyond, StringPlaces
<1>10. Matches(w, Consume(",")) /\ Consume(",").mode # "failed"
  BY <1>5, <1>6, <1>7 DEF Matches, SamePlaces, StringPlaces
<1>11. Keeps(",", w)
  BY <1>1, <1>8, <1>9, <1>10 DEF Keeps, Tracks
<1> QED BY <1>11 DEF w, place

\* What Leave does to the stack, and that the mode is then that of a complete
\* value in the container around.
LEMMA LeaveFacts ==
  ASSUME NEW p \in Parsers, p.stack # <<>>, p.depth = Len(p.stack), NEW outer,
         outer = SubSeq(p.stack, 1, Len(p.stack) - 1)
  PROVE  /\ outer \in Seq({"object", "array"}) /\ Len(outer) = Len(p.stack) - 1
         /\ Leave(p) \in Parsers /\ Leave(p).stack = outer
         /\ Leave(p).mode = IF outer = <<>> THEN "after" ELSE "next"
<1>0. Len(p.stack) \in Nat \ {0}
  BY DEF Parsers
<1>1. outer \in Seq({"object", "array"}) /\ Len(outer) = Len(p.stack) - 1
  <2>1. \A i \in 1..Len(p.stack) - 1 : p.stack[i] \in {"object", "array"}
    BY <1>0 DEF Parsers
  <2> QED BY <1>0, <2>1, SubSeqProperties
<1> DEFINE q == [p EXCEPT !.stack = outer, !.depth = p.depth - 1]
<1>2. q \in Parsers /\ q.stack = outer
  <2>1. p.depth - 1 \in Nat
    BY <1>0
  <2> QED BY <1>1, <2>1 DEF Parsers
<1>3. Leave(p) = Return(q)
  BY DEF Leave, Parsers
<1> HIDE DEF q
<1> QED BY <1>1, <1>2, <1>3, ReturnFacts

\* The bracket CloseContainer writes.
Closing == IF Innermost = "object" THEN "}" ELSE "]"

LEMMA ConsumeClosing ==
  ASSUME Ready, writer.place \in {"elements", "members", "next"}
  PROVE  \E p : /\ p \in Parsers /\ p.stack = parser.stack /\ p.depth = parser.depth
                /\ Consume(Closing) = Leave(p)
<1>0. Closing \in {"}", "]"} /\ Closing \notin Space
  BY DEF Closing, Space
<1>s. parser.stack = writer.stack
  BY ReadyFacts
<1>1. CASE writer.place = "next"
  <2>1. PICK p : /\ p \in Parsers /\ p.stack = parser.stack /\ p.depth = parser.depth /\ p.mode = "next"
                 /\ Consume(Closing) = BetweenValues(p, Closing)
    BY <1>0, <1>1, ConsumeBetween
  <2>2. BetweenValues(p, Closing) = Leave(p)
    BY <2>1, <1>s DEF BetweenValues, Closing, Innermost
  <2> QED BY <2>1, <2>2
<1>2. CASE writer.place \in {"elements", "members"}
  <2>1. parser.mode = writer.place /\ Closing = IF writer.place = "members" THEN "}" ELSE "]"
    BY <1>2, ReadyFacts DEF Ready, WellFormed, Matches, SamePlaces, Closing, Innermost, Last
  <2>2. parser.mode \notin StringModes \cup NumberModes \cup NumberEnds
    BY <1>2, <2>1 DEF StringModes, NumberModes, NumberEnds
  <2>3. Consume(Closing) = BetweenValues(parser, Closing)
    BY <1>0, <2>2 DEF Consume
  <2>4. BetweenValues(parser, Closing) = Leave(parser)
    BY <1>2, <2>1 DEF BetweenValues
  <2> QED BY <2>3, <2>4, ReadyFacts
<1> QED BY <1>1, <1>2

LEMMA KeepsClosing ==
  ASSUME Ready, writer.place \in {"elements", "members", "next"}
  PROVE  Keeps(Closing, Finished([writer EXCEPT !.stack = SubSeq(@, 1, Len(@) - 1)]))
<1>1. Closing \in Units
  BY DEF Closing, Units
<1>2. PICK p : /\ p \in Parsers /\ p.stack = parser.stack /\ p.depth = parser.depth
               /\ Consume(Closing) = Leave(p)
  BY ConsumeClosing
<1>3. /\ parser.stack = writer.stack /\ writer.stack # <<>> /\ parser.depth = Len(writer.stack)
      /\ Len(writer.stack) \in Nat /\ Len(writer.stack) <= MaxDepth
  BY ReadyFacts, ReadyLimits DEF Ready, WellFormed
<1> DEFINE outer == SubSeq(writer.stack, 1, Len(writer.stack) - 1)
           w == [writer EXCEPT !.stack = outer]
           q == Consume(Closing)
<1>4. /\ outer \in Seq({"object", "array"}) /\ Len(outer) = Len(writer.stack) - 1
      /\ q \in Parsers /\ q.stack = outer
      /\ q.mode = IF outer = <<>> THEN "after" ELSE "next"
  <2>1. p.stack # <<>> /\ p.depth = Len(p.stack) /\ outer = SubSeq(p.stack, 1, Len(p.stack) - 1)
    BY <1>2, <1>3
  <2> HIDE DEF outer
  <2> QED BY <1>2, <1>3, <2>1, LeaveFacts
<1> HIDE DEF outer, q
<1>5. w \in Writers /\ w.stack = outer
  BY <1>4, ReadyFacts DEF Writers
<1>6. Len(outer) <= MaxDepth
  BY <1>3, <1>4, LimitsAssumption
<1> HIDE DEF w
<1>7. q.mode \in NumberEnds \cup {IF w.stack = <<>> THEN "after" ELSE "next"}
  BY <1>4, <1>5
<1>8. WellFormed(Finished(w)) /\ Finished(w).place # "absent" /\ Tracks(Finished(w), q)
  BY <1>4, <1>5, <1>6, <1>7, FinishedMatches
<1> QED BY <1>1, <1>8 DEF Keeps, w, q, outer

\* A unit of a number is written and scanned.
LEMMA KeepsUnit ==
  ASSUME Ready, NEW n \in Seq(Units), n # <<>>, NEW m, Follows(m, Tail(n)), m \in NumberModes,
         Consume(Head(n)) = In(parser, m)
  PROVE  Keeps(Head(n), IF Tail(n) = <<>> THEN Finished(writer)
                        ELSE [writer EXCEPT !.place = "number", !.rest = Tail(n)])
<1>1. Head(n) \in Units /\ Tail(n) \in Seq(Units)
  OBVIOUS
<1>2. parser.stack = writer.stack
  BY ReadyFacts
<1> DEFINE q == In(parser, m)
<1>3. q \in Parsers /\ q.stack = writer.stack /\ q.mode = m
  <2>1. m \in Modes
    BY DEF Modes
  <2> QED BY <1>2, <2>1, ReadyFacts DEF In, Parsers
<1> HIDE DEF q
<1>4. CASE Tail(n) = <<>>
  <2>1. m \in NumberEnds
    BY <1>4, FollowsEnd
  <2>2. WellFormed(Finished(writer)) /\ Finished(writer).place # "absent" /\ Tracks(Finished(writer), q)
    BY <1>3, <2>1, ReadyFacts, ReadyLimits, FinishedMatches
  <2> QED BY <1>1, <1>4, <2>2 DEF Keeps, q
<1>5. CASE Tail(n) # <<>>
  <2> DEFINE w == [writer EXCEPT !.place = "number", !.rest = Tail(n)]
  <2>1. w \in Writers /\ w.place = "number" /\ w.rest = Tail(n) /\ w.stack = writer.stack
    <3>1. "number" \in Places
      BY DEF Places
    <3> QED BY <1>1, <3>1, ReadyFacts DEF Writers
  <2> HIDE DEF w
  <2>2. WellFormed(w) /\ w.place # "absent"
    BY <1>5, <2>1 DEF WellFormed
  <2>3. ~Beyond(w)
    BY <2>1, ReadyLimits DEF Beyond, StringPlaces
  <2>4. Matches(w, q)
    BY <1>3, <2>1 DEF Matches, SamePlaces, StringPlaces
  <2>5. q.mode # "failed"
    BY <1>3 DEF NumberModes, NumberEnds
  <2>6. Keeps(Head(n), w)
    BY <1>1, <2>2, <2>3, <2>4, <2>5 DEF Keeps, Tracks, q
  <2> QED BY <1>5, <2>6 DEF w
<1> QED BY <1>4, <1>5

LEMMA KeepsFirstUnit ==
  ASSUME Ready, AtValue, NEW n \in Printed
  PROVE  Keeps(Head(n), IF Tail(n) = <<>> THEN Finished(writer)
                        ELSE [writer EXCEPT !.place = "number", !.rest = Tail(n)])
<1>1. n \in Seq(Units) /\ IsNumber(n)
  BY PrintedAssumption
<1>2. n # <<>> /\ n[1] \in {"-"} \cup Digits /\ Follows(FirstMode(n[1]), Tail(n))
  BY <1>1, NumberFollows
<1>3. Head(n) = n[1]
  BY <1>1, <1>2
<1>4. n[1] \in Units \ (Space \cup {"]"})
  BY <1>2 DEF Units, Space, Digits
<1>5. Consume(n[1]) = In(parser, FirstMode(n[1]))
  <2>1. Consume(n[1]) = ParseValue(parser, n[1])
    BY <1>4, ConsumeValue
  <2>2. ParseValue(parser, n[1]) = In(parser, FirstMode(n[1]))
    BY <1>2 DEF ParseValue, FirstMode, Digits
  <2> QED BY <2>1, <2>2
<1>6. FirstMode(n[1]) \in NumberModes
  BY <1>2 DEF FirstMode, Numeral, Digits, NumberModes, NumberEnds
<1> QED BY <1>1, <1>2, <1>3, <1>5, <1>6, KeepsUnit

LEMMA KeepsNextUnit ==
  ASSUME Ready, writer.place = "number", NEW n, n = writer.rest
  PROVE  Keeps(Head(n), IF Tail(n) = <<>> THEN Finished(writer)
                        ELSE [writer EXCEPT !.place = "number", !.rest = Tail(n)])
<1>1. n \in Seq(Units) /\ n # <<>> /\ Follows(parser.mode, n)
  BY ReadyFacts DEF Ready, WellFormed, Matches, Writers
<1> DEFINE m == Numeral(parser.mode, n[1])
<1>2. parser.mode \in NumberModes /\ m \in NumberModes /\ Follows(m, Tail(n))
  BY <1>1, FollowsStep
<1>3. Head(n) = n[1]
  BY <1>1
<1>4. Consume(n[1]) = In(parser, m)
  <2>1. m # "failed"
    BY <1>2 DEF NumberModes, NumberEnds
  <2>2. parser.mode \notin StringModes
    BY <1>2 DEF StringModes, NumberModes, NumberEnds
  <2> QED BY <1>2, <2>1, <2>2 DEF Consume
<1> HIDE DEF m
<1> QED BY <1>1, <1>2, <1>3, <1>4, KeepsUnit

-------------------------------------------------------------------------------
LEMMA TextInitInv == TextInit => TextInv
<1> SUFFICES ASSUME TextInit PROVE TextInv
  OBVIOUS
<1>1. IInv
  BY InitSound DEF TextInit
<1>2. verdict = "reading" /\ parser.mode = "value" /\ parser.stack = <<>>
  BY DEF TextInit, Init
<1>3. writer.place \in {"absent", "value", "null"} /\ writer.stack = <<>> /\ writer \in Writers
  <2>1. <<>> \in Seq({"object", "array"}) /\ <<>> \in Seq(Units)
    OBVIOUS
  <2>2. {"absent", "value", "null"} \subseteq Places
    BY DEF Places
  <2> QED BY <2>1, <2>2 DEF TextInit, WriterInit, Writers
<1>4. WellFormed(writer)
  BY <1>3 DEF WellFormed
<1>5. ~Beyond(writer)
  <2>1. Len(writer.stack) = 0 /\ ~(0 > MaxDepth)
    BY <1>3, LimitsAssumption
  <2>2. writer.place \notin StringPlaces
    BY <1>3 DEF StringPlaces
  <2> QED BY <2>1, <2>2 DEF Beyond
<1>6. IsDumped => Matches(writer, parser)
  BY <1>2, <1>3 DEF IsDumped, Matches, SamePlaces, StringPlaces
<1> QED BY <1>1, <1>2, <1>4, <1>5, <1>6 DEF TextInv, Tracks

\* Every unit that serialize_to writes keeps the parser next to it.
LEMMA SerializeToKeeps ==
  ASSUME Ready, SerializeTo \/ WriteNull
  PROVE  \E c, w : Write(c, w) /\ Keeps(c, w)
<1>1. CASE WriteLiteral \/ WriteNull
  BY <1>1, KeepsLiteral DEF WriteLiteral, WriteNull
<1>2. CASE WriteNumber
  BY <1>2, KeepsFirstUnit, KeepsNextUnit DEF WriteNumber, WriteUnits
<1>3. CASE WriteQuote
  <2>1. CASE AtValue /\ Write("quote", [At("string") EXCEPT !.size = 0])
    BY <2>1, KeepsQuote
  <2>2. CASE writer.place \in {"members", "key"} /\ Write("quote", [At("key string") EXCEPT !.size = 0])
    BY <2>2, KeepsQuote
  <2> QED BY <1>3, <2>1, <2>2 DEF WriteQuote
<1>4. CASE WriteCharacter
  BY <1>4, KeepsCharacter DEF WriteCharacter
<1>5. CASE WriteClosingQuote
  BY <1>5, KeepsClosingQuote DEF WriteClosingQuote
<1>6. CASE OpenArray \/ OpenObject
  <2>1. Opens("[", "elements", "array") /\ Opens("{", "members", "object")
    BY DEF Opens
  <2>2. CASE OpenArray
    BY <2>1, <2>2, KeepsBracket DEF OpenArray
  <2>3. CASE OpenObject
    BY <2>1, <2>3, KeepsBracket DEF OpenObject
  <2> QED BY <1>6, <2>2, <2>3
<1>7. CASE WriteColon
  BY <1>7, KeepsColon DEF WriteColon
<1>8. CASE WriteComma
  BY <1>8, KeepsComma DEF WriteComma
<1>9. CASE CloseContainer
  BY <1>9, KeepsClosing DEF CloseContainer, Closing
<1> QED BY <1>1, <1>2, <1>3, <1>4, <1>5, <1>6, <1>7, <1>8, <1>9 DEF SerializeTo

LEMMA TextStepInv == TextInv /\ [TextNext]_<<vars, writer>> => TextInv'
<1> SUFFICES ASSUME TextInv, [TextNext]_<<vars, writer>> PROVE TextInv'
  OBVIOUS
<1>0. IInv
  BY DEF TextInv
<1>1. CASE SerializeTo \/ WriteNull
  <2>1. verdict = "reading" /\ IsDumped
    BY <1>1 DEF SerializeTo, WriteNull, WriteLiteral, WriteNumber, WriteUnits, WriteQuote, WriteCharacter,
                WriteClosingQuote, OpenArray, OpenObject, WriteColon, WriteComma, CloseContainer, Write, Read,
                AtValue, InString, IsDumped
  <2>2. Ready
    BY <2>1 DEF Ready, TextInv
  <2>3. PICK c, w : Write(c, w) /\ Keeps(c, w)
    BY <1>1, <2>2, SerializeToKeeps
  <2>4. c \in Units /\ Read(c) /\ writer' = w /\ parser' = Consume(c)
        /\ verdict' = IF Consume(c).mode = "failed" THEN "malformed" ELSE "reading"
    BY <2>3 DEF Keeps, Write, Read
  <2>5. IInv'
    BY <1>0, <2>4, StepSound DEF Next
  <2>6. WellFormed(writer') /\ Tracks(writer', parser')
    BY <2>3, <2>4 DEF Keeps
  <2>7. WellFormed(writer)' /\ Tracks(writer, parser)' /\ (verdict = "malformed" <=> parser.mode = "failed")'
        /\ verdict' \in {"malformed", "reading"}
    BY <2>4, <2>6
  <2> QED BY <2>5, <2>7 DEF TextInv
<1>2. ASSUME NEW c \in Alphabet, ~IsDumped, Read(c), UNCHANGED writer PROVE TextInv'
  <2>1. IInv'
    BY <1>0, <1>2, AlphabetAssumption, StepSound DEF Next
  <2>2. WellFormed(writer)' /\ ~IsDumped' /\ (verdict = "malformed" <=> parser.mode = "failed")'
        /\ verdict' \in {"malformed", "reading"}
    BY <1>2 DEF TextInv, Read, IsDumped, WellFormed, Last
  <2> QED BY <2>1, <2>2 DEF TextInv
<1>3. CASE (OutOfRange \/ TooLong \/ EndOfText) /\ UNCHANGED writer
  <2>1. IInv'
    BY <1>0, <1>3, StepSound DEF Next
  <2>2. UNCHANGED <<parser, writer>> /\ parser.mode # "failed"
    BY <1>3 DEF OutOfRange, TooLong, EndOfText, TextInv
  <2>3. WellFormed(writer)' /\ (IsDumped => Tracks(writer, parser))' /\ (Complete' <=> Complete) /\ parser'.mode # "failed"
    BY <2>2 DEF TextInv, WellFormed, Last, IsDumped, Tracks, Beyond, Matches, Complete
  <2>4. /\ verdict' \in {"out of range", "too long", "accepted", "truncated"}
        /\ verdict' = "accepted" => Complete
        /\ verdict' = "truncated" => ~Complete
    BY <1>3 DEF OutOfRange, TooLong, EndOfText
  <2> QED BY <2>1, <2>3, <2>4 DEF TextInv
<1>4. CASE UNCHANGED <<vars, writer>>
  <2>1. IInv'
    BY <1>0, <1>4, StepSound DEF vars
  <2>2. UNCHANGED <<parser, writer, verdict>>
    BY <1>4 DEF vars
  <2> QED BY <2>1, <2>2 DEF TextInv, WellFormed, Last, IsDumped, Tracks, Beyond, Matches, Complete
<1> QED BY <1>1, <1>2, <1>3, <1>4 DEF TextNext

\* With what json_dump writes the counter is the depth of the document, too.
THEOREM DepthIsTheNestingOfTexts == TextSpec => []DepthIsNesting
<1>1. TextInv => DepthIsNesting
  BY DEF TextInv, IInv, Sound, Parsers, DepthIsNesting
<1> QED BY <1>1, TextInitInv, TextStepInv, PTL DEF TextSpec

\* json_parse fails on what json_dump writes where the value leaves the limits
\* and nowhere else, and takes the end of it for the end of a document:
\* append_json_escape writes nothing that parse_string refuses, serialize_to
\* no comma, bracket or number that parse_object, parse_array or parse_number
\* refuse.
THEOREM WrittenIsRead == TextSpec => []WrittenIsReadable
<1>1. TextInv => WrittenIsReadable
  <2> SUFFICES ASSUME TextInv, IsDumped PROVE WrittenIsReadable
    BY DEF WrittenIsReadable
  <2>1. Exceeds <=> Beyond(writer)
    BY DEF Exceeds, Beyond, InString, StringPlaces
  <2>2. verdict = "malformed" <=> Exceeds
    BY <2>1 DEF TextInv, Tracks
  <2>3. ASSUME writer.place = "done", verdict = "truncated" PROVE FALSE
    <3>1. parser.mode \in {"after"} \cup NumberEnds /\ parser.stack = <<>>
      BY <2>3 DEF TextInv, Tracks, Matches, WellFormed
    <3> QED BY <2>3, <3>1 DEF TextInv, Complete
  <2> QED BY <2>2, <2>3 DEF WrittenIsReadable
<1> QED BY <1>1, TextInitInv, TextStepInv, PTL DEF TextSpec

\* json_parse accepts what json_dump writes for a value only where it has been
\* written to the end, or within a value that is a number and nothing else:
\* everywhere before that, a container or a string is open and json_parse
\* waits for its end.
THEOREM TruncationIsCaught == TextSpec => []TruncationIsNoticed
<1>1. TextInv => TruncationIsNoticed
  <2> SUFFICES ASSUME TextInv, IsDumped, verdict = "accepted"
               PROVE  writer.place = "done" \/ (writer.place = "number" /\ writer.stack = <<>>)
    BY DEF TruncationIsNoticed
  <2>1. Complete /\ parser.mode # "failed" /\ Matches(writer, parser) /\ WellFormed(writer)
    BY DEF TextInv, Tracks
  <2>2. parser.mode \in {"after"} \cup NumberEnds /\ parser.stack = <<>>
    BY <2>1 DEF Complete, TextInv, IInv, Sound
  <2>3. writer.place \notin {"null", "value", "next"} \cup SamePlaces
    BY <2>1, <2>2 DEF Matches, WellFormed, SamePlaces, StringPlaces, NumberEnds
  <2>4. writer.place \in Places \ {"absent"} /\ writer.stack = <<>>
    BY <2>1, <2>2 DEF WellFormed, Writers, Matches, IsDumped
  <2> QED BY <2>3, <2>4 DEF Places
<1> QED BY <1>1, TextInitInv, TextStepInv, PTL DEF TextSpec
===============================================================================
