----------------------------- MODULE MCDecompile -----------------------------
(* Model-checking instance of Decompile.                                    *)
EXTENDS Decompile, TLC

CONSTANTS f1, f2, zbar, bar, mangled, method, main

\* f1 calls f2.
CallsOf == f1 :> {f2} @@ f2 :> {}

\* zbar is "_bar"; mangled is the C++ name of method, which is "Foo::bar".
DemangledOf == [n \in Name |-> IF n = mangled THEN method ELSE n]
StrippedOf == [n \in Name |-> IF n = zbar THEN bar ELSE n]
InFrontOf == [n \in Name |-> IF n = method THEN {method, bar} ELSE {n}]
NameOf == f1 :> mangled @@ f2 :> main
=============================================================================
