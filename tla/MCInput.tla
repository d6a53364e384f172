------------------------------- MODULE MCInput -------------------------------
(* An instance of Input: a key that stands for two buttons, the lower of which *)
(* takes it, a key that stands for none until a script binds the lower button  *)
(* anew, and a gamepad whose two horizontal axes share that button.            *)
EXTENDS Input

MCBinding == [b \in Buttons |-> IF b \in {Left, Right} THEN 2 ELSE 99]
MCRebound == {Left}
MCBehind == {Left}
=============================================================================
