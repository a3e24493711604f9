------------------------------ MODULE PushMessage ------------------------------
(***************************************************************************)
(* The body of a push: ExpoSender cuts the preview text with _truncate.    *)
(***************************************************************************)
EXTENDS Text

Ellipsis == <<".", ".", ".">>

\* Defect: the text is cut first and stripped afterwards.
CutFirst(text, limit) ==
  CASE text \in {Null, <<>>}                      -> Null
    [] text # Null /\ Len(text) \in 1 .. limit    -> strip(text)
    [] text # Null /\ Len(text) > limit           -> strip(SubSeq(text, 1, limit - 1)) \o Ellipsis

\* Three dots stand for the characters from limit on: the body may be two longer
\* than limit.
truncate(text, limit) ==
  LET value == IF text = Null THEN <<>> ELSE strip(text)
  IN  CASE value = <<>>                -> Null
        [] Len(value) \in 1 .. limit   -> value
        [] Len(value) > limit          -> rstrip(SubSeq(value, 1, limit - 1)) \o Ellipsis

=============================================================================
