------------------------- MODULE MC_AdasDeserializer -------------------------
(* Recordings of up to three records with messages of up to two bytes, of *)
(* one known and one unknown type, cut at every byte.                      *)
EXTENDS AdasDeserializer
====
