------------------------------ MODULE MCJsonText ------------------------------
(***************************************************************************)
(* TLC instance of JsonText: two levels, strings of one character, all     *)
(* texts of a few units over the classes the parser tells apart.           *)
(***************************************************************************)
EXTENDS JsonText

SomeAlphabet == {"{", "}", "[", "]", ",", ":", "quote", "lit", "0", "1", "-", ".", "e", "nl", "x", "hi", "lo"}

SomePrinted == {<<"0">>, <<"-", "1", "0">>, <<"1", ".", "1", "e", "+", "1">>}

SomeEndings == BoundedSeq({"]", "}", "quote", "0", ":"}, 1)
                 \cup {<<"quote", "]">>, <<"quote", "}">>, <<"0", "]">>, <<"0", "}">>, <<":", "0", "}">>,
                       <<"quote", ":", "0", "}">>, <<"0", "]", "]">>}
===============================================================================
