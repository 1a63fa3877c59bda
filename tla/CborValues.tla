------------------------------ MODULE CborValues ------------------------------
(***************************************************************************)
(* The decoded CBOR values a Label 309 record is made of.                  *)
(*                                                                         *)
(* A value is tagged with the JavaScript shape the canonical decoder gives *)
(* it.  A byte string is its length and an identity standing for its       *)
(* contents; a map with text keys only is "map", any other map "intmap".   *)
(***************************************************************************)
EXTENDS Integers, TLC, ErrorCodes

CONSTANT UINT32_MAX        \* the largest wire integer, 2^32 - 1 in the code
ASSUME Uint32Assumption == UINT32_MAX \in Nat \ {0}

Missing == [t |-> "undefined"]            \* an absent property
Null    == [t |-> "null"]
Bytes(len, id) == [t |-> "bytes", len |-> len, id |-> id]
Text(s)   == [t |-> "text", s |-> s]
Num(n)    == [t |-> "int", n |-> n]
Arr(a)    == [t |-> "array", a |-> a]
Map(m)    == [t |-> "map", m |-> m]
IntMap    == [t |-> "intmap"]             \* a map with a key that is no text

Keys(v)   == IF v.t = "map" THEN {k \in DOMAIN v.m : v.m[k] # Missing} ELSE {}
Get(v, k) == IF k \in Keys(v) THEN v.m[k] ELSE Missing
Has(v, k) == k \in Keys(v)
Elems(v)  == IF v.t = "array" THEN v.a ELSE << >>
(* A URI is a text too, and none that a registry lists.                    *)
TextIn(v, set) == v.t = "text" /\ "s" \in DOMAIN v /\ v.s \in set
===============================================================================
