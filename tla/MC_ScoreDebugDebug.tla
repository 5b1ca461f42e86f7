------------------------- MODULE MC_ScoreDebugDebug -------------------------
EXTENDS ScoreDebugDebug
====
