---------------------------- MODULE MCRebindWizard ----------------------------
(* An instance of RebindWizard: a few keys, none of them bound before, and a   *)
(* gamepad with one button.                                                    *)
EXTENDS RebindWizard, TLC

MCUnbound == [b \in Buttons |-> NoKey]

\* The program compares keys for equality only.
KeySymmetry == Permutations(Keys)
=============================================================================
