---------------------------------- MODULE Text ----------------------------------
(***************************************************************************)
(* Texts as sequences of characters, of which Blank is one that            *)
(* str.strip() removes; Null is None.                                      *)
(***************************************************************************)
EXTENDS Integers, Sequences, FiniteSets

CONSTANTS Blank, Null

\* The positions of a text's characters that are not blank.
Printed(text) == {i \in DOMAIN text : text[i] # Blank}

First(S) == CHOOSE i \in S : \A j \in S : i <= j
Last(S)  == CHOOSE i \in S : \A j \in S : i >= j

rstrip(text) == IF Printed(text) = {} THEN <<>> ELSE SubSeq(text, 1, Last(Printed(text)))

strip(text) ==
  IF Printed(text) = {} THEN <<>>
  ELSE SubSeq(text, First(Printed(text)), Last(Printed(text)))

=============================================================================
