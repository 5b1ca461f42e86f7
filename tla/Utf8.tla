-------------------------------- MODULE Utf8 --------------------------------
(***************************************************************************)
(* UTF-8 text as bytes, with characters abstracted to their width: a byte  *)
(* is a lead byte (carrying the width of its character) or a continuation  *)
(* byte.  Used by the fixed-buffer Debug rendering model.                 *)
(***************************************************************************)
EXTENDS Naturals, Sequences, SequencesExt

\* The bytes of one character and of a string (str::as_bytes).
CharBytes(w) == [i \in 1..w |-> IF i = 1 THEN [k |-> "lead", w |-> w]
                                          ELSE [k |-> "cont", w |-> 0]]
Encode(chars) == FlattenSeq([i \in DOMAIN chars |-> CharBytes(chars[i])])

\* core::str::from_utf8: every character is a lead byte followed by as
\* many continuation bytes as its width says.
RECURSIVE Utf8Valid(_)
Utf8Valid(b) ==
    \/ b = <<>>
    \/ /\ b[1].k = "lead"
       /\ Len(b) >= b[1].w
       /\ \A i \in 2..b[1].w : b[i].k = "cont"
       /\ Utf8Valid(SubSeq(b, b[1].w + 1, Len(b)))

====
