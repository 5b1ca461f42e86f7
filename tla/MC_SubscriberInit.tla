-------------------------- MODULE MC_SubscriberInit --------------------------
(* Two calls of init, as model values, made from two threads.              *)
EXTENDS SubscriberInit, TLC

CallSymmetry == Permutations(Calls)
====
