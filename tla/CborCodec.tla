------------------------------- MODULE CborCodec -------------------------------
(***************************************************************************)
(* The two constants of CborData: what encodeCanonicalCbor                 *)
(* (poe-standard/src/encoder.ts) makes of a decoded value, and the length  *)
(* of its encoding.                                                        *)
(***************************************************************************)
EXTENDS CborData

RECURSIVE Stripped(_)
Stripped(v) ==
  CASE v.t = "array" -> Arr([i \in DOMAIN v.a |-> Stripped(v.a[i])])
    [] v.t = "map"   -> Map([k \in Keys(v) |-> Stripped(v.m[k])])
    [] OTHER         -> v

RECURSIVE SizeOf(_)
SizeOf(v) ==
  CASE v.t = "bytes" -> Sized(v.len)
    [] v.t = "text"  -> Sized(TextLen(v))
    [] v.t = "int"   -> HeadSize(IF v.n < 0 THEN -1 - v.n ELSE v.n)
    [] v.t = "array" -> HeadSize(Len(v.a)) + SumOver([i \in DOMAIN v.a |-> SizeOf(v.a[i])])
    [] v.t = "map"   -> HeadSize(Cardinality(DOMAIN v.m))
                          + SumOver([k \in DOMAIN v.m |-> Sized(Len(k)) + SizeOf(v.m[k])])
    [] OTHER         -> 1
===============================================================================
