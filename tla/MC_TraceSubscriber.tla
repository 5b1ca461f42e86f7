------------------------- MODULE MC_TraceSubscriber -------------------------
(* Model-checking instance of TraceSubscriber: two application threads, a  *)
(* channel of two slots and a BufWriter of two packets, so that the        *)
(* channel fills, producers block, and the buffer spills.                  *)
EXTENDS TraceSubscriber, TLC

\* Thread symmetry, for the safety runs.
ThreadSymmetry == Permutations(Threads)
====
