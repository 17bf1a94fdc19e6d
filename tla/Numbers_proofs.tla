--------------------------- MODULE Numbers_proofs ---------------------------
(***************************************************************************)
(* Numbers and their bytes, for bytes of any even number of values: the    *)
(* bytes of a number, put together again, are the number modulo its width. *)
(* First what a recursive function is: it exists and has its values by     *)
(* induction, stated over sets since no prover here takes an operator.     *)
(* At the end what sequences are put together to.                          *)
(***************************************************************************)
EXTENDS Numbers, SequencesExt, SequenceTheorems, WellFoundedInduction, TLAPS

\* A set of naturals that is not empty has a least element.
LEMMA Least ==
    ASSUME NEW T \in SUBSET Nat, T # {}
    PROVE  \E m \in T : \A k \in T : m <= k
<1>1. PICK m \in T : \A k \in T : ~(<<k, m>> \in OpToRel(<, Nat))
  BY NatLessThanWellFounded, WFMin, Zenon
<1>2. \A k \in T : ~(k < m)
  BY <1>1 DEF OpToRel
<1> QED
  BY <1>2

\* Induction, over a set of naturals.
LEMMA Induction ==
    ASSUME NEW T, 0 \in T, \A n \in Nat : n \in T => n + 1 \in T
    PROVE  Nat \subseteq T
<1> DEFINE U == Nat \ T
<1> SUFFICES ASSUME U # {} PROVE FALSE
  OBVIOUS
<1>1. PICK m \in U : \A k \in U : m <= k
  <2>1. U \in SUBSET Nat
    OBVIOUS
  <2> HIDE DEF U
  <2> QED
    BY <2>1, Least
<1>2. m # 0 /\ m \in Nat /\ m \notin T
  OBVIOUS
<1>3. m - 1 \in Nat /\ (m - 1) + 1 = m
  BY <1>2
<1>4. m - 1 \in T
  BY <1>1, <1>3
<1> QED
  BY <1>2, <1>3, <1>4

\* What is one quotient and remainder is the quotient and the remainder.
LEMMA DivModUnique ==
    ASSUME NEW a \in Int, NEW n \in Nat \ {0}, NEW q \in Int, NEW r \in 0 .. n - 1,
           a = q * n + r
    PROVE  a \div n = q /\ a % n = r
OBVIOUS

\* An integer is its quotient times the divisor and its remainder.
LEMMA DivModDef ==
    ASSUME NEW a \in Int, NEW n \in Nat \ {0}
    PROVE  /\ a \div n \in Int /\ a % n \in 0 .. n - 1
           /\ a = (a \div n) * n + (a % n)
OBVIOUS

\* Dividing twice is dividing by the product.
LEMMA DivDiv ==
    ASSUME NEW a \in Int, NEW m \in Nat \ {0}, NEW n \in Nat \ {0}
    PROVE  (a \div m) \div n = a \div (m * n)
<1> DEFINE b == a \div m
           r == a % m
           c == b \div n
           s == b % n
<1>1. b \in Int /\ r \in 0 .. m - 1 /\ a = b * m + r
  BY DivModDef
<1>2. c \in Int /\ s \in 0 .. n - 1 /\ b = c * n + s
  BY <1>1, DivModDef
<1> HIDE DEF b, r, c, s
<1>3. m * n \in Nat \ {0}
  OBVIOUS
<1>4. s * m + r \in 0 .. m * n - 1
  <2>1. s * m \in Int /\ 0 <= s * m /\ s * m <= (n - 1) * m
    BY <1>2
  <2>2. (n - 1) * m + m = m * n
    OBVIOUS
  <2> QED
    BY <1>1, <2>1, <2>2
<1>5. a = c * (m * n) + (s * m + r)
  BY <1>1, <1>2
<1>6. a \div (m * n) = c
  BY <1>2, <1>3, <1>4, <1>5, DivModUnique
<1> QED
  BY <1>6 DEF b, c

\* The remainder by a product, from the remainders by its factors.
LEMMA ModProduct ==
    ASSUME NEW a \in Int, NEW m \in Nat \ {0}, NEW n \in Nat \ {0}
    PROVE  a % (m * n) = ((a \div m) % n) * m + (a % m)
<1> DEFINE b == a \div m
           r == a % m
           c == b \div n
           s == b % n
<1>1. b \in Int /\ r \in 0 .. m - 1 /\ a = b * m + r
  BY DivModDef
<1>2. c \in Int /\ s \in 0 .. n - 1 /\ b = c * n + s
  BY <1>1, DivModDef
<1> HIDE DEF b, r, c, s
<1>3. m * n \in Nat \ {0}
  OBVIOUS
<1>4. s * m + r \in 0 .. m * n - 1
  <2>1. s * m \in Int /\ 0 <= s * m /\ s * m <= (n - 1) * m
    BY <1>2
  <2>2. (n - 1) * m + m = m * n
    OBVIOUS
  <2> QED
    BY <1>1, <2>1, <2>2
<1>5. a = c * (m * n) + (s * m + r)
  BY <1>1, <1>2
<1>6. a % (m * n) = s * m + r
  BY <1>2, <1>3, <1>4, <1>5, DivModUnique
<1> QED
  BY <1>6 DEF b, r, s

\* A remainder by a product, taken again by a factor.
LEMMA ModMod ==
    ASSUME NEW a \in Int, NEW m \in Nat \ {0}, NEW n \in Nat \ {0}
    PROVE  (a % (m * n)) % m = a % m
<1> DEFINE t == (a \div m) % n
           r == a % m
<1>1. a \div m \in Int /\ r \in 0 .. m - 1
  BY DivModDef
<1>2. t \in Int
  BY <1>1
<1>3. a % (m * n) = t * m + r
  BY ModProduct
<1> HIDE DEF t, r
<1>4. t * m + r \in Int
  BY <1>1, <1>2
<1>5. (t * m + r) % m = r
  BY <1>1, <1>2, <1>4, DivModUnique
<1> QED
  BY <1>3, <1>5 DEF r

\* A function begins with v and makes the steps G, up to n or for ever.
Chain(f, G, v, n) == f[0] = v /\ \A i \in 0 .. n - 1 : f[i + 1] = G[i][f[i]]
Iterates(f, G, v) == f[0] = v /\ \A i \in Nat : f[i + 1] = G[i][f[i]]

\* Steps can be made from any value, as many as one likes ...
LEMMA ChainExists ==
    ASSUME NEW V, NEW v \in V, NEW G \in [Nat -> [V -> V]]
    PROVE  \A n \in Nat : \E f \in [Nat -> V] : Chain(f, G, v, n)
<1> DEFINE T == {k \in Nat : ~\E f \in [Nat -> V] : Chain(f, G, v, k)}
<1> SUFFICES ASSUME T # {} PROVE FALSE
  OBVIOUS
<1>1. PICK k \in T : \A i \in T : k <= i
  <2>1. T \in SUBSET Nat
    OBVIOUS
  <2> HIDE DEF T
  <2> QED
    BY <2>1, Least
<1>2. k # 0
  <2>1. [i \in Nat |-> v] \in [Nat -> V] /\ Chain([i \in Nat |-> v], G, v, 0)
    BY DEF Chain
  <2> QED
    BY <2>1
<1>3. k \in Nat /\ k - 1 \in Nat /\ k - 1 \notin T
  BY <1>1, <1>2
<1>4. PICK f \in [Nat -> V] : Chain(f, G, v, k - 1)
  BY <1>3
<1> DEFINE g == [f EXCEPT ![k] = G[k - 1][f[k - 1]]]
<1>5. g \in [Nat -> V]
  BY <1>3
<1>6. Chain(g, G, v, k)
  <2>1. \A i \in Nat : i # k => g[i] = f[i]
    OBVIOUS
  <2>2. g[k] = G[k - 1][f[k - 1]]
    BY <1>3
  <2> HIDE DEF g
  <2>3. g[0] = v
    BY <1>2, <1>3, <1>4, <2>1 DEF Chain
  <2>4. ASSUME NEW i \in 0 .. k - 1 PROVE g[i + 1] = G[i][g[i]]
    <3>1. i \in Nat /\ i # k /\ g[i] = f[i]
      BY <1>3, <2>1
    <3>2. CASE i = k - 1
      BY <1>3, <2>2, <3>1, <3>2
    <3>3. CASE i # k - 1
      <4>1. i \in 0 .. (k - 1) - 1 /\ i + 1 \in Nat /\ i + 1 # k
        BY <1>3, <3>3
      <4> QED
        BY <1>4, <2>1, <3>1, <4>1 DEF Chain
    <3> QED
      BY <3>2, <3>3
  <2> QED
    BY <2>3, <2>4 DEF Chain
<1> QED
  BY <1>3, <1>5, <1>6

\* ... and in one way only.
LEMMA ChainAgree ==
    ASSUME NEW f, NEW g, NEW G, NEW v, NEW n \in Nat, Chain(f, G, v, n), Chain(g, G, v, n)
    PROVE  \A i \in 0 .. n : f[i] = g[i]
<1> DEFINE T == {k \in 0 .. n : f[k] # g[k]}
<1> SUFFICES ASSUME T # {} PROVE FALSE
  OBVIOUS
<1>1. PICK k \in T : \A i \in T : k <= i
  <2>1. T \in SUBSET Nat
    OBVIOUS
  <2> HIDE DEF T
  <2> QED
    BY <2>1, Least
<1>2. k # 0
  BY DEF Chain
<1>3. k - 1 \in 0 .. n - 1 /\ k - 1 \in 0 .. n /\ k - 1 \notin T /\ (k - 1) + 1 = k
  BY <1>1, <1>2
<1>4. f[k - 1] = g[k - 1]
  BY <1>3
<1>5. f[k] = G[k - 1][f[k - 1]] /\ g[k] = G[k - 1][g[k - 1]]
  BY <1>3 DEF Chain
<1> QED
  BY <1>4, <1>5

\* So steps on a set can be made for ever.
LEMMA Iterate ==
    ASSUME NEW V, NEW v \in V, NEW G \in [Nat -> [V -> V]]
    PROVE  \E f \in [Nat -> V] : Iterates(f, G, v)
<1> DEFINE L(n) == CHOOSE f : f \in [Nat -> V] /\ Chain(f, G, v, n)
           F == [n \in Nat |-> L(n)[n]]
<1>1. \A n \in Nat : L(n) \in [Nat -> V] /\ Chain(L(n), G, v, n)
  BY ChainExists
<1> HIDE DEF L
<1>2. F \in [Nat -> V]
  BY <1>1
<1>3. F[0] = v
  BY <1>1 DEF Chain
<1>4. ASSUME NEW i \in Nat PROVE F[i + 1] = G[i][F[i]]
  <2>1. i + 1 \in Nat /\ i \in 0 .. i /\ i \in 0 .. (i + 1) - 1
    OBVIOUS
  <2>2. L(i + 1)[i + 1] = G[i][L(i + 1)[i]] /\ Chain(L(i + 1), G, v, i)
    BY <1>1, <2>1 DEF Chain
  <2>3. L(i + 1)[i] = L(i)[i]
    BY <1>1, <2>1, <2>2, ChainAgree
  <2> QED
    BY <2>1, <2>2, <2>3
<1> QED
  BY <1>2, <1>3, <1>4 DEF Iterates

\* Pow satisfies the equation it is defined by.
LEMMA PowDef ==
    /\ Pow[0] = 1
    /\ \A n \in Nat : Pow[n] \in Nat \ {0} /\ Pow[n + 1] = Base * Pow[n]
<1> DEFINE P == Nat \ {0}
           G == [i \in Nat |-> [x \in P |-> Base * x]]
           Eq(f) == f = [n \in Nat |-> IF n = 0 THEN 1 ELSE Base * f[n - 1]]
<1>1. G \in [Nat -> [P -> P]] /\ 1 \in P
  BY BaseAssumption
<1>2. PICK f \in [Nat -> P] : Iterates(f, G, 1)
  <2> HIDE DEF G, P
  <2> QED
    BY <1>1, Iterate
<1>3. ASSUME NEW n \in Nat \ {0} PROVE f[n] = Base * f[n - 1]
  <2>1. n - 1 \in Nat /\ (n - 1) + 1 = n
    OBVIOUS
  <2>2. f[n] = G[n - 1][f[n - 1]] /\ f[n - 1] \in P
    BY <1>2, <2>1 DEF Iterates
  <2> QED
    BY <2>1, <2>2
<1>4. f[0] = 1
  BY <1>2 DEF Iterates
<1>5. Eq(f)
  BY <1>2, <1>3, <1>4
<1>6. Pow = CHOOSE g : Eq(g)
  BY DEF Pow
<1>6a. Eq(Pow)
  <2> HIDE DEF Eq
  <2> QED
    BY <1>5, <1>6
<1>7. Pow[0] = 1 /\ \A n \in Nat : Pow[n + 1] = Base * Pow[n]
  <2>1. \A n \in Nat : Pow[n] = IF n = 0 THEN 1 ELSE Base * Pow[n - 1]
    BY <1>6a, Zenon
  <2>2. ASSUME NEW n \in Nat PROVE n + 1 \in Nat /\ n + 1 # 0 /\ (n + 1) - 1 = n
    OBVIOUS
  <2> QED
    BY <2>1, <2>2
<1>8. \A n \in Nat : Pow[n] \in P
  <2> DEFINE T == {k \in Nat : Pow[k] \notin P}
  <2> SUFFICES ASSUME T # {} PROVE FALSE
    OBVIOUS
  <2>1. PICK k \in T : \A i \in T : k <= i
    <3>1. T \in SUBSET Nat
      OBVIOUS
    <3> HIDE DEF T
    <3> QED
      BY <3>1, Least
  <2>2. k # 0
    BY <1>7
  <2>3. k - 1 \in Nat /\ k - 1 \notin T
    BY <2>1, <2>2
  <2>4. Pow[k] = Base * Pow[k - 1] /\ Pow[k - 1] \in P
    BY <1>7, <2>3
  <2> QED
    BY <2>4, BaseAssumption
<1> QED
  BY <1>7, <1>8

\* A byte has more than one value.
LEMMA BaseIsTwo == Base \in Nat /\ Base >= 2
BY BaseAssumption

\* The powers grow.
LEMMA PowMonotone ==
    ASSUME NEW m \in Nat, NEW n \in Nat, m <= n
    PROVE  Pow[m] <= Pow[n]
<1> DEFINE T == {k \in Nat : Pow[m] <= Pow[m + k]}
<1>1. 0 \in T
  BY PowDef
<1>2. ASSUME NEW k \in Nat, k \in T PROVE k + 1 \in T
  <2>1. m + k \in Nat /\ m + (k + 1) = (m + k) + 1
    OBVIOUS
  <2>2. Pow[m] \in Nat /\ Pow[m + k] \in Nat /\ Pow[(m + k) + 1] = Base * Pow[m + k]
    BY <2>1, PowDef
  <2>3. Base * Pow[m + k] >= Pow[m + k]
    BY <2>2, BaseIsTwo
  <2>4. Pow[m] <= Pow[m + k]
    BY <1>2
  <2>5. Pow[m + (k + 1)] = Base * Pow[m + k]
    BY <2>1, <2>2
  <2> HIDE DEF T
  <2>6. Pow[m] <= Pow[m + (k + 1)]
    BY <2>2, <2>3, <2>4, <2>5, BaseIsTwo
  <2> QED
    BY <2>6 DEF T
<1>3. Nat \subseteq T
  <2> HIDE DEF T
  <2> QED
    BY <1>1, <1>2, Induction
<1>4. n - m \in Nat /\ m + (n - m) = n
  OBVIOUS
<1>5. n - m \in T
  BY <1>3, <1>4
<1> QED
  BY <1>4, <1>5

\* NumberOf reads a byte after the other.
LEMMA NumberOfDef ==
    ASSUME NEW bytes, NEW n \in Nat, bytes \in [1 .. n -> Int]
    PROVE  \E val \in [0 .. n -> Int] :
              /\ val[0] = 0
              /\ \A k \in 1 .. n : val[k] = val[k - 1] * Base + bytes[k]
              /\ NumberOf(bytes) = val[n]
<1> DEFINE G == [i \in Nat |-> [x \in Int |-> IF i + 1 \in 1 .. n THEN x * Base + bytes[i + 1] ELSE x]]
           Eq(f) == f = [k \in 0 .. Len(bytes) |-> IF k = 0 THEN 0 ELSE f[k - 1] * Base + bytes[k]]
<1>1. Len(bytes) = n
  OBVIOUS
<1>2. G \in [Nat -> [Int -> Int]] /\ 0 \in Int
  BY BaseIsTwo
<1>3. PICK f \in [Nat -> Int] : Iterates(f, G, 0)
  <2> HIDE DEF G
  <2> QED
    BY <1>2, Iterate
<1> DEFINE g == [k \in 0 .. n |-> f[k]]
<1>4. ASSUME NEW k \in 0 .. n, k # 0 PROVE g[k] = g[k - 1] * Base + bytes[k]
  <2>1. k - 1 \in Nat /\ k - 1 \in 0 .. n /\ (k - 1) + 1 = k /\ k \in 1 .. n
    BY <1>4
  <2>2. f[k] = G[k - 1][f[k - 1]] /\ f[k - 1] \in Int
    BY <1>3, <2>1 DEF Iterates
  <2> QED
    BY <2>1, <2>2
<1>5. g[0] = 0
  <2>1. f[0] = 0
    <3> HIDE DEF G, g, Eq
    <3> QED
      BY <1>3 DEF Iterates
  <2>2. 0 \in 0 .. n
    OBVIOUS
  <2> QED
    BY <2>1, <2>2
<1>6. Eq(g)
  <2> HIDE DEF g
  <2>1. g = [k \in 0 .. n |-> g[k]]
    BY DEF g
  <2> QED
    BY <1>1, <1>4, <1>5, <2>1
<1> DEFINE val == CHOOSE h : Eq(h)
<1>7. Eq(val)
  <2> HIDE DEF Eq, g
  <2> QED
    BY <1>6
<1>8. NumberOf(bytes) = val[n]
  BY <1>1 DEF NumberOf
<1> HIDE DEF val
<1>9. val = [k \in 0 .. n |-> val[k]] /\ val[0] = 0 /\ \A k \in 1 .. n : val[k] = val[k - 1] * Base + bytes[k]
  <2>1. val = [k \in 0 .. n |-> IF k = 0 THEN 0 ELSE val[k - 1] * Base + bytes[k]]
    BY <1>1, <1>7
  <2> HIDE DEF Eq
  <2>2. 0 \in 0 .. n /\ \A k \in 1 .. n : k \in 0 .. n /\ k # 0
    OBVIOUS
  <2>3. \A k \in 0 .. n : val[k] = IF k = 0 THEN 0 ELSE val[k - 1] * Base + bytes[k]
    BY <2>1, Zenon
  <2>4. val = [k \in 0 .. n |-> val[k]]
    BY <2>1, <2>3, Zenon
  <2> QED
    BY <2>2, <2>3, <2>4
<1>10. \A k \in 0 .. n : val[k] \in Int
  <2> DEFINE T == {k \in Nat : k \in 0 .. n => val[k] \in Int}
  <2>1. 0 \in T
    BY <1>9
  <2>2. ASSUME NEW k \in Nat, k \in T PROVE k + 1 \in T
    <3> SUFFICES ASSUME k + 1 \in 0 .. n PROVE val[k + 1] \in Int
      OBVIOUS
    <3>1. k + 1 \in 1 .. n /\ (k + 1) - 1 = k /\ k \in 0 .. n
      OBVIOUS
    <3>2. val[k + 1] = val[k] * Base + bytes[k + 1] /\ val[k] \in Int /\ bytes[k + 1] \in Int
      BY <1>9, <2>2, <3>1
    <3> QED
      BY <3>2, BaseIsTwo
  <2>3. Nat \subseteq T
    <3> HIDE DEF T
    <3> QED
      BY <2>1, <2>2, Induction
  <2> QED
    BY <2>3
<1> QED
  BY <1>8, <1>9, <1>10

\* A number is what its bytes are read back as, up to the bytes left out.
LEMMA NumberOfItsBytes ==
    ASSUME NEW v \in Int, NEW n \in Nat, NEW bytes, bytes \in [1 .. n -> Int],
           \A i \in 1 .. n : bytes[i] = ByteOf(v, n - i)
    PROVE  NumberOf(bytes) = v % Pow[n]
<1>1. PICK val \in [0 .. n -> Int] :
              /\ val[0] = 0
              /\ \A k \in 1 .. n : val[k] = val[k - 1] * Base + bytes[k]
              /\ NumberOf(bytes) = val[n]
  BY NumberOfDef
<1> DEFINE T == {k \in Nat : k \in 0 .. n => val[k] = (v \div Pow[n - k]) % Pow[k]}
<1>2. 0 \in T
  <2>1. Pow[n - 0] \in Nat \ {0} /\ Pow[0] = 1
    BY PowDef
  <2>2. v \div Pow[n - 0] \in Int
    BY <2>1, DivModDef
  <2> HIDE DEF T
  <2>3. (v \div Pow[n - 0]) % 1 = 0
    BY <2>2
  <2> QED
    BY <1>1, <2>1, <2>3 DEF T
<1>3. ASSUME NEW k \in Nat, k \in T PROVE k + 1 \in T
  <2> SUFFICES ASSUME k + 1 \in 0 .. n PROVE val[k + 1] = (v \div Pow[n - (k + 1)]) % Pow[k + 1]
    OBVIOUS
  <2> DEFINE m == n - (k + 1)
             u == v \div Pow[m]
  <2>1. m \in Nat /\ n - k = m + 1 /\ k + 1 \in 1 .. n /\ (k + 1) - 1 = k /\ k \in 0 .. n
    OBVIOUS
  <2>2. Pow[m] \in Nat \ {0} /\ Pow[k] \in Nat \ {0} /\ Pow[n - k] = Base * Pow[m] /\ Pow[k + 1] = Base * Pow[k]
    BY <2>1, PowDef
  <2>3. val[k] = (v \div Pow[n - k]) % Pow[k]
    BY <1>3, <2>1
  <2>4. val[k + 1] = val[k] * Base + bytes[k + 1]
    BY <1>1, <2>1
  <2>5. bytes[k + 1] = u % Base
    BY <2>1 DEF ByteOf
  <2> HIDE DEF m
  <2>6. u \in Int
    BY <2>2, DivModDef
  <2>7. Base * Pow[m] = Pow[m] * Base
    <3>1. \A a, b \in Nat : a * b = b * a
      OBVIOUS
    <3>2. Base \in Nat /\ Pow[m] \in Nat
      BY <2>2, BaseIsTwo
    <3> QED
      BY <3>1, <3>2, Zenon
  <2>8. v \div Pow[n - k] = u \div Base
    <3>1. Base \in Nat \ {0}
      BY BaseAssumption
    <3>2. (v \div Pow[m]) \div Base = v \div (Pow[m] * Base)
      BY <2>2, <3>1, DivDiv
    <3> QED
      BY <2>2, <2>7, <3>2
  <2> HIDE DEF u
  <2>9. u % (Base * Pow[k]) = ((u \div Base) % Pow[k]) * Base + (u % Base)
    BY <2>2, <2>6, ModProduct, BaseAssumption
  <2> QED
    BY <2>2, <2>3, <2>4, <2>5, <2>8, <2>9 DEF u, m
<1>4. Nat \subseteq T
  <2> HIDE DEF T
  <2> QED
    BY <1>2, <1>3, Induction
<1>5. val[n] = (v \div Pow[n - n]) % Pow[n]
  BY <1>4
<1>6. n - n = 0 /\ Pow[0] = 1 /\ v \div 1 = v
  BY PowDef
<1> QED
  BY <1>1, <1>5, <1>6

\* The lowest bytes of a number are a number of that many bytes.
LEMMA LowBytes ==
    ASSUME NEW v \in Int, NEW n \in Nat
    PROVE  v % Pow[n] \in 0 .. Pow[n] - 1 /\ v % Pow[n] \in Int
<1> DEFINE p == Pow[n]
<1>1. p \in Nat \ {0}
  BY PowDef
<1> HIDE DEF p
<1>2. v % p \in 0 .. p - 1
  BY <1>1, DivModDef
<1>3. v % p \in Int
  BY <1>1, <1>2
<1> QED
  BY <1>2, <1>3 DEF p

\* A byte is one.
LEMMA ByteOfIsByte ==
    ASSUME NEW v \in Int, NEW k \in Nat
    PROVE  ByteOf(v, k) \in 0 .. Base - 1
<1>1. v \div Pow[k] \in Int
  BY PowDef, DivModDef
<1> QED
  BY <1>1, BaseAssumption, DivModDef DEF ByteOf

\* The bytes above a number that n bytes hold are those of its sign.
LEMMA BytesAbove ==
    ASSUME NEW v \in Int, NEW n \in Nat, NEW k \in Nat, n <= k,
           -Pow[n] <= v, v < Pow[n]
    PROVE  ByteOf(v, k) = IF v < 0 THEN Base - 1 ELSE 0
<1>1. Pow[k] \in Nat \ {0} /\ Pow[n] <= Pow[k] /\ Pow[n] \in Nat
  BY PowDef, PowMonotone
<1>2. CASE v < 0
  <2>1. v = (-1) * Pow[k] + (v + Pow[k]) /\ v + Pow[k] \in 0 .. Pow[k] - 1
    BY <1>1, <1>2
  <2>2. v \div Pow[k] = -1
    BY <1>1, <2>1, DivModUnique
  <2>3. ASSUME NEW a \in Int, a = -1 PROVE a % Base = Base - 1
    <3>1. a = a * Base + (Base - 1) /\ Base - 1 \in 0 .. Base - 1
      BY <2>3, BaseIsTwo
    <3> QED
      BY <3>1, BaseAssumption, DivModUnique
  <2>4. (v \div Pow[k]) % Base = Base - 1
    BY <2>2, <2>3
  <2> QED
    BY <1>2, <2>2, <2>4 DEF ByteOf
<1>3. CASE v >= 0
  <2>1. v = 0 * Pow[k] + v /\ v \in 0 .. Pow[k] - 1
    BY <1>1, <1>3
  <2>2. v \div Pow[k] = 0
    BY <1>1, <2>1, DivModUnique
  <2>3. 0 % Base = 0
    BY BaseIsTwo
  <2> QED
    BY <1>3, <2>2, <2>3 DEF ByteOf
<1> QED
  BY <1>2, <1>3

\* Powers multiply.
LEMMA PowAdd ==
    ASSUME NEW m \in Nat, NEW n \in Nat
    PROVE  Pow[m + n] = Pow[m] * Pow[n]
<1> DEFINE T == {k \in Nat : Pow[m + k] = Pow[m] * Pow[k]}
<1>1. 0 \in T
  <2>1. Pow[m] \in Nat /\ Pow[0] = 1
    BY PowDef
  <2> QED
    BY <2>1
<1>2. ASSUME NEW k \in Nat, k \in T PROVE k + 1 \in T
  <2>1. m + k \in Nat /\ m + (k + 1) = (m + k) + 1
    OBVIOUS
  <2>2. /\ Pow[m] \in Nat /\ Pow[k] \in Nat /\ Pow[k + 1] = Base * Pow[k]
        /\ Pow[(m + k) + 1] = Base * Pow[m + k]
    BY <2>1, PowDef
  <2>3. Pow[m + k] = Pow[m] * Pow[k]
    BY <1>2
  <2>4. \A a, b, c \in Nat : a * (b * c) = b * (a * c)
    OBVIOUS
  <2>5. Base * (Pow[m] * Pow[k]) = Pow[m] * (Base * Pow[k])
    <3>1. Base \in Nat
      BY BaseAssumption
    <3>2. Pow[m] \in Nat /\ Pow[k] \in Nat
      BY <2>2
    <3> QED
      BY <2>4, <3>1, <3>2, Zenon
  <2>6. Pow[m + (k + 1)] = Pow[m] * Pow[k + 1]
    BY <2>1, <2>2, <2>3, <2>5
  <2> QED
    BY <2>6
<1>3. Nat \subseteq T
  <2> HIDE DEF T
  <2> QED
    BY <1>1, <1>2, Induction
<1> QED
  BY <1>3

\* What is left of a number in its lowest bytes is left in the lowest of them.
LEMMA ModPow ==
    ASSUME NEW v \in Int, NEW m \in Nat, NEW n \in Nat, m <= n
    PROVE  (v % Pow[n]) % Pow[m] = v % Pow[m]
<1>1. n - m \in Nat /\ m + (n - m) = n
  OBVIOUS
<1>2. Pow[m] \in Nat \ {0} /\ Pow[n - m] \in Nat \ {0}
  BY <1>1, PowDef
<1>3. Pow[m + (n - m)] = Pow[m] * Pow[n - m]
  BY <1>1, PowAdd
<1>4. Pow[n] = Pow[m] * Pow[n - m]
  BY <1>1, <1>3, Zenon
<1> QED
  BY <1>2, <1>4, ModMod

\* A byte and more have an even number of values.
LEMMA PowEven ==
    ASSUME NEW n \in Nat \ {0}
    PROVE  Pow[n] \in Nat \ {0} /\ Pow[n] \div 2 \in Nat \ {0} /\ 2 * (Pow[n] \div 2) = Pow[n]
<1>1. n - 1 \in Nat /\ (n - 1) + 1 = n
  OBVIOUS
<1> DEFINE half == Base \div 2
           p == Pow[n - 1]
<1>2. half \in Nat \ {0} /\ Base = 2 * half
  BY BaseAssumption
<1>3. p \in Nat \ {0} /\ Pow[n] = Base * p
  BY <1>1, PowDef
<1> HIDE DEF half, p
<1>4. half * p \in Nat \ {0} /\ Pow[n] = (half * p) * 2 + 0
  BY <1>2, <1>3
<1>5. Pow[n] \div 2 = half * p
  BY <1>4, DivModUnique
<1> QED
  BY <1>4, <1>5

\* Of a range no longer than the modulus, one number at most has a remainder.
LEMMA OneOfItsClass ==
    ASSUME NEW p \in Nat \ {0}, NEW x \in Int, NEW y \in Int, NEW v \in Int,
           (x - v) % p = 0, (y - v) % p = 0, x - y < p, y - x < p
    PROVE  x = y
<1> DEFINE a == (x - v) \div p
           b == (y - v) \div p
<1>1. a \in Int /\ x - v = a * p + 0
  BY DivModDef
<1>2. b \in Int /\ y - v = b * p + 0
  BY DivModDef
<1> HIDE DEF a, b
<1>3. x - y = (a - b) * p /\ a - b \in Int
  BY <1>1, <1>2
<1> DEFINE c == a - b
<1>4. c \in Int /\ x - y = c * p
  BY <1>3
<1> HIDE DEF c
<1>5. c >= 1 => c * p >= p
  BY <1>4
<1>6. c <= -1 => c * p <= -p
  BY <1>4
<1>7. c = 0
  BY <1>4, <1>5, <1>6
<1> QED
  BY <1>4, <1>7

-----------------------------------------------------------------------------
\* Putting sequences together gives a sequence of their elements.
LEMMA FlattenType ==
    ASSUME NEW S, NEW seqs \in Seq(Seq(S))
    PROVE  FlattenSeq(seqs) \in Seq(S)
<1> DEFINE L == Len(seqs)
           Step(g, i) == IF i = 1 THEN seqs[i] ELSE g[i - 1] \o seqs[i]
           Prefix(n, g) == g \in [1 .. n -> Seq(S)] /\ \A i \in 1 .. n : g[i] = Step(g, i)
           NoPrefix == {n \in 0 .. L : \A g : ~Prefix(n, g)}
<1>1. L \in Nat /\ \A i \in 1 .. L : seqs[i] \in Seq(S)
  OBVIOUS
<1>2. NoPrefix = {}
  <2>1. SUFFICES ASSUME NoPrefix # {}
                 PROVE  FALSE
    OBVIOUS
  <2>2. NoPrefix \in SUBSET Nat
    BY <1>1
  <2>3. PICK m \in NoPrefix : \A k \in NoPrefix : m <= k
    <3> HIDE DEF NoPrefix
    <3> QED
      BY <2>1, <2>2, Least
  <2>4. m \in Nat /\ m <= L
    BY <1>1
  <2>5. m # 0
    <3>1. Prefix(0, <<>>)
      OBVIOUS
    <3> QED
      BY <3>1
  <2>6. m - 1 \notin NoPrefix /\ m - 1 \in 0 .. L
    <3> HIDE DEF NoPrefix
    <3> QED
      BY <2>3, <2>4, <2>5, <1>1
  <2>7. PICK g : Prefix(m - 1, g)
    BY <2>6
  <2> DEFINE h == [i \in 1 .. m |-> IF i = m THEN Step(g, m) ELSE g[i]]
  <2>8. Step(g, m) \in Seq(S)
    <3>1. m # 1 => g[m - 1] \in Seq(S)
      BY <2>4, <2>5, <2>7
    <3>2. seqs[m] \in Seq(S)
      BY <1>1, <2>4, <2>5
    <3> QED
      BY <3>1, <3>2, ConcatProperties
  <2>9. h \in [1 .. m -> Seq(S)]
    BY <2>4, <2>7, <2>8
  <2>10. ASSUME NEW i \in 1 .. m
         PROVE  h[i] = Step(h, i)
    <3>1. i # 1 => i - 1 \in 1 .. m /\ i - 1 # m
      BY <2>4
    <3>2. i # 1 => h[i - 1] = g[i - 1]
      BY <3>1
    <3>3. i # m => i \in 1 .. m - 1
      BY <2>4
    <3>4. i # m => g[i] = Step(g, i)
      BY <3>3, <2>7
    <3>5. h[i] = IF i = m THEN Step(g, m) ELSE g[i]
      OBVIOUS
    <3>6. h[i] = Step(g, i)
      BY <3>4, <3>5
    <3>7. Step(h, i) = Step(g, i)
      BY <3>2
    <3> HIDE DEF h, Step
    <3> QED
      BY <3>6, <3>7
  <2>11. Prefix(m, h)
    BY <2>9, <2>10
  <2> QED
    BY <2>11
<1>3. PICK g : Prefix(L, g)
  <2>1. L \in 0 .. L
    BY <1>1
  <2> HIDE DEF Prefix, L
  <2> QED
    BY <2>1, <1>2
<1> DEFINE Eq(f) == f = [i \in 1 .. L |-> IF i = 1 THEN seqs[i] ELSE f[i - 1] \o seqs[i]]
           flatten == CHOOSE f : Eq(f)
<1>4. Eq(g)
  BY <1>3
<1>5. Eq(flatten)
  <2> HIDE DEF Eq
  <2> QED
    BY <1>4
<1> HIDE DEF flatten
<1>6. \A i \in 1 .. L : flatten[i] = Step(flatten, i)
  BY <1>5
<1> DEFINE Bad == {n \in 1 .. L : flatten[n] \notin Seq(S)}
<1>7. Bad = {}
  <2>1. SUFFICES ASSUME Bad # {}
                 PROVE  FALSE
    OBVIOUS
  <2>2. Bad \in SUBSET Nat
    BY <1>1
  <2>3. PICK m \in Bad : \A k \in Bad : m <= k
    <3> HIDE DEF Bad
    <3> QED
      BY <2>1, <2>2, Least
  <2>4. m \in 1 .. L /\ flatten[m] = Step(flatten, m) /\ flatten[m] \notin Seq(S)
    BY <1>6
  <2>5. m # 1
    BY <2>4, <1>1
  <2>6. m - 1 \in 1 .. L /\ m - 1 \notin Bad
    <3>1. m - 1 \in 1 .. L /\ ~(m <= m - 1)
      BY <2>4, <2>5, <1>1
    <3> HIDE DEF Bad
    <3> QED
      BY <3>1, <2>3
  <2>7. flatten[m - 1] \in Seq(S) /\ seqs[m] \in Seq(S)
    BY <2>4, <2>6, <1>1
  <2> QED
    BY <2>4, <2>5, <2>7, ConcatProperties
<1>8. L # 0 => flatten[L] \in Seq(S)
  <2>1. L # 0 => L \in 1 .. L
    BY <1>1
  <2> QED
    BY <1>7, <2>1
<1>9. L = 0 => seqs \in Seq(S)
  BY <1>1
<1> QED
  BY <1>8, <1>9 DEF FlattenSeq, flatten
=============================================================================
