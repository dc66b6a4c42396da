----------------------------- MODULE MCJsvmCore -----------------------------
(***************************************************************************)
(* A small instance of JsvmCore for TLC. Neither bindings nor addresses    *)
(* are told apart by anything but what happens to them.                    *)
(***************************************************************************)
EXTENDS JsvmCore, TLC

MCSymmetry == Permutations(Bindings) \cup Permutations(Widgets)
=============================================================================
