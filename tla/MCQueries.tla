------------------------------ MODULE MCQueries ------------------------------
(* Model-checking instances of Queries.                                     *)
EXTENDS Queries

Lowers == [c \in {"A"} |-> "a"]
HexValues == [c \in {"0", "1", "3", "a", "b"} |->
                CASE c = "0" -> 0 [] c = "1" -> 1 [] c = "3" -> 3
                  [] c = "a" -> 10 [] c = "b" -> 11]

\* Names as compilers and users make them: a default name, names that begin like
\* one, a mangled name with question marks, repeated parts.
Sub == <<"s", "u", "b", "_">>
Names == <<<<"a">>, <<"A", "b">>, <<"b", "a", "b">>, <<"a", "b", "a", "b">>, <<"?", "a">>,
           Sub \o <<"m">>, Sub \o <<"3", "m">>, Sub \o <<"b", "m">>>>

\* Three different names, the first perhaps the default name of its address.
Naming == {<<p, Names[(i % 8) + 1], Names[((i + 1) % 8) + 1]>> :
              <<i, p>> \in {<<i, Names[i]>> : i \in 1 .. 8}
                           \cup {<<i, Sub \o <<"1">>>> : i \in 1 .. 8}}

\* Functions at 1 and 3, the first with its default name or another, a global at 5;
\* an import by name in two modules and one by ordinal; a struct in a namespace
\* path, a struct, another type; at 5 a struct, at 6 a pointer to one.
Databases ==
    {[funcs |-> <<[at |-> 1, end |-> 3, name |-> p], [at |-> 3, end |-> 5, name |-> q]>>,
      names |-> <<[at |-> 1, name |-> p], [at |-> 3, name |-> q], [at |-> 5, name |-> r]>>,
      imports |-> <<<<[at |-> 7, name |-> q, ordinal |-> 1]>>,
                    <<[at |-> 8, name |-> q, ordinal |-> 1],
                      [at |-> 9, name |-> <<>>, ordinal |-> 3]>>>>,
      entries |-> <<[at |-> 3, name |-> q], [at |-> 1, name |-> <<>>]>>,
      types |-> <<[at |-> 1, name |-> r, udt |-> FALSE],
                  [at |-> 2, name |-> <<"a", "/", "b">>, udt |-> TRUE],
                  [at |-> 3, name |-> q, udt |-> TRUE]>>,
      typed |-> [ea \in {5, 6} |-> [type |-> 3, ptr |-> ea = 6, to |-> 5]]] :
        <<p, q, r>> \in Naming}

\* All patterns of up to three characters, longer ones with two stars, and some
\* between slashes.
Filters ==
    UNION {[1 .. n -> {"a", "b", "*", "?"}] : n \in 0 .. 3}
    \cup {<<"*", "a", "b", "*", "b">>, <<"*", "a", "*", "b">>, <<"A">>, <<"/">>,
          <<"/", "A", "/">>, <<"/", "A", "/", "i">>, <<"/", "A", "/", "m">>,
          <<"/", "*", "/">>, <<"/", "/">>, <<"/", "a">>}

Queried == {<<>>, <<"*">>, <<"0", "x", "1">>, <<"0", "x", "m">>, <<"0", "x", "b">>,
            Sub \o <<"3">>, <<"m">>, <<"3">>, <<"0", "1">>}

\* Numbers at the bounds of a word of two bytes of four values, and one beyond.
Numbers == {[hex |-> h, num |-> n, rest |-> FALSE] : h \in BOOLEAN, n \in -9 .. 16}

ByteCounts == {-1, 0, 1, 2, 3}

Leaf == {[t |-> "num"], [t |-> "str", len |-> 1], [t |-> "str", len |-> 3]}
Arrays(S) == {[t |-> "arr", items |-> s] : s \in UNION {[1 .. n -> S] : n \in 0 .. 3}}
Objects(S) == {[t |-> "obj", members |-> ("k" :> v)] : v \in S}
Results ==
    Leaf \cup Arrays(Leaf) \cup Objects(Leaf \cup Arrays(Leaf))
    \cup Arrays(Objects(Leaf)) \cup Objects(Arrays(Objects(Leaf)))
    \cup {[t |-> "arr", items |-> <<v, v>>] : v \in Arrays(Leaf)}

\* Results, their parts and what they are wrapped in.
Values == Results \cup {Structured(r) : r \in Results}
=============================================================================
