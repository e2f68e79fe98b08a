------------------------------- MODULE JsonText -------------------------------
(***************************************************************************)
(* The documents json_parse is to accept, as a grammar that does not refer *)
(* to the parser: RFC 8259, and the limits.                                *)
(***************************************************************************)
EXTENDS JsonWriter, SequencesExt

CONSTANT Endings   \* what may follow a unit that was refused
-------------------------------------------------------------------------------
(* room is how many levels of containers and strings are left.               *)

Blank(t) == \A i \in DOMAIN t : t[i] \in Space

\* t without the white space around it.
Trim(t) ==
  LET ink == {i \in DOMAIN t : t[i] \notin Space}
  IN  IF ink = {} THEN <<>>
      ELSE Part(t, CHOOSE i \in ink : \A k \in ink : i <= k, CHOOSE i \in ink : \A k \in ink : i >= k)

IsString(t) ==
  /\ Len(t) >= 2 /\ t[1] = "quote" /\ t[Len(t)] = "quote"
  /\ Cardinality({i \in 2..Len(t) - 1 : t[i] # "hi"}) <= MaxString
  /\ \A i \in 2..Len(t) - 1 : t[i] \notin {"quote", "nl", "ctl", "bad"}
  /\ \A i \in 1..Len(t) - 1 : t[i] = "hi" <=> t[i + 1] = "lo"

Bracketed(t, open, close) == Len(t) >= 2 /\ t[1] = open /\ t[Len(t)] = close
Inner(t) == Part(t, 2, Len(t) - 1)

RECURSIVE IsValue(_, _), IsElements(_, _), IsMembers(_, _)
IsValue(t, room) ==
  \/ t = <<"lit">> \/ IsNumber(t)
  \/ /\ room > 0
     /\ \/ IsString(t)
        \/ Bracketed(t, "[", "]") /\ (Blank(Inner(t)) \/ IsElements(Inner(t), room - 1))
        \/ Bracketed(t, "{", "}") /\ (Blank(Inner(t)) \/ IsMembers(Inner(t), room - 1))

IsElements(t, room) ==
  \/ IsValue(Trim(t), room)
  \/ \E i \in DOMAIN t : /\ t[i] = "," /\ IsValue(Trim(Part(t, 1, i - 1)), room)
                         /\ IsElements(Part(t, i + 1, Len(t)), room)

IsMembers(t, room) ==
  LET IsMember(u) == \E i \in DOMAIN u : /\ u[i] = ":" /\ room > 0 /\ IsString(Trim(Part(u, 1, i - 1)))
                                         /\ IsValue(Trim(Part(u, i + 1, Len(u))), room)
  IN  \/ IsMember(t)
      \/ \E i \in DOMAIN t : /\ t[i] = "," /\ IsMember(Part(t, 1, i - 1))
                             /\ IsMembers(Part(t, i + 1, Len(t)), room)

IsDocument(t) == Len(t) <= MaxBytes /\ IsValue(Trim(t), MaxDepth)
-------------------------------------------------------------------------------
\* json_parse accepts exactly the documents of the grammar within the limits:
\* the text that was accepted is one, the text that ended too early is not,
\* and no ending makes one of a text that was refused before its end.
AcceptsTheGrammar ==
  /\ verdict = "accepted" => IsDocument(text)
  /\ verdict = "truncated" => ~IsDocument(text)
  /\ verdict = "malformed" => \A e \in Endings : ~IsDocument(text \o e)
===============================================================================
