-------------------------- MODULE DatagramServerMC --------------------------
(* A number below 14 and four guesses stand for 1000 and ten: in both, the *)
(* guesses are just as many as a search of the closed interval needs. *)
EXTENDS DatagramServerInv
AllLetters == 0 .. 255
=============================================================================
