------------------------------ MODULE MCTraining ------------------------------
(* Small instances of Training for TLC: three words of two bits, and lines *)
(* of two letters whose vectors agree on some bits and differ on others.   *)
EXTENDS Training

Vec(a, b, c) == [k \in Blocks |-> CASE k = 0 -> a [] k = 1 -> b [] k = 2 -> c]

MCLetters ==
  [r \in {"^", "$", "a", "b"} |->
     CASE r = "^" -> Vec({0}, {1}, {})     [] r = "$" -> Vec({}, {0, 1}, {1})
       [] r = "a" -> Vec({0, 1}, {}, {0})  [] r = "b" -> Vec({1}, {0}, {0, 1})]

MCInputs ==
  {EncodeLine(line, MCLetters) :
     line \in {<<"b">>, <<"b", "b">>, <<"b", "a", "b">>, <<"a", "b", "b", "a">>}}
=============================================================================
