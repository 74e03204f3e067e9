---------------------------- MODULE MCModelStore ----------------------------
(* Two adds of one name.  The first repeats a part; the second has a service *)
(* with an empty name, which its checks find to be the service before it.    *)
EXTENDS ModelStore

CONSTANTS a1, a2, n1, n2, s1, p1

MCNameOf == [a \in Adders |-> n1]
MCWanted == [a \in Adders |->
  IF a = a1 THEN << [name |-> s1, parts |-> <<p1, p1>>] >>
            ELSE << [name |-> s1, parts |-> <<p1>>], [name |-> Empty, parts |-> <<p1>>] >>]
=============================================================================
