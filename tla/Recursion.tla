----------------------------- MODULE Recursion -----------------------------
(***************************************************************************)
(* Functions defined by recursion: when the value at a only uses the       *)
(* values at what ranks lower, there is such a function, and functions on  *)
(* two domains agree where both are defined.  What is defined, Body, and   *)
(* the rank are constants: INSTANCE gives them values, where a lemma with  *)
(* an operator as parameter could not be used.                             *)
(***************************************************************************)
EXTENDS Integers, WellFoundedInduction, TLAPS

CONSTANTS
    Body(_, _, _),  \* the value, for a parameter p, at a, from the function f
    Rank(_)         \* a number for every a

\* f[a \in D] == Body(p, a, f)
Defines(p, D, f) == f = [a \in D |-> Body(p, a, f)]
Fixed(p, D) == CHOOSE f : f = [a \in D |-> Body(p, a, f)]

\* Body looks at f below a only.
LooksBelow(p, D) ==
    \A a \in D : /\ Rank(a) \in Nat
                 /\ \A g, h : (\A b \in D : Rank(b) < Rank(a) => g[b] = h[b])
                                 => Body(p, a, g) = Body(p, a, h)

----------------------------------------------------------------------------
\* A set of numbers that is not empty has a least one.
LEMMA LeastNumber ==
  ASSUME NEW S, S \subseteq Nat, S # {}
  PROVE  \E least \in S : \A k \in S : least <= k
  <1>1. PICK m \in S : \A k \in S : ~(<<k, m>> \in OpToRel(<, Nat))
    BY NatLessThanWellFounded, WFMin
  <1>2. \A k \in S : ~(k < m)
    BY <1>1 DEF OpToRel
  <1> QED BY <1>2

LEMMA SetInduction ==
  ASSUME NEW T, 0 \in T, \A k \in Nat : k \in T => k + 1 \in T
  PROVE  \A k \in Nat : k \in T
  <1> DEFINE U == {k \in Nat : k \notin T}
  <1> SUFFICES ASSUME U # {} PROVE FALSE
    OBVIOUS
  <1>1. PICK m \in U : \A k \in U : m <= k
    BY LeastNumber
  <1>2. m \in Nat /\ m \notin T /\ m # 0
    OBVIOUS
  <1>3. m - 1 \in Nat /\ (m - 1) + 1 = m /\ ~(m <= m - 1)
    BY <1>2
  <1>4. m - 1 \in T
    BY <1>1, <1>3
  <1> HIDE DEF U
  <1> QED BY <1>2, <1>3, <1>4

\* Two functions with the same definition, on a domain and on a part of it.
LEMMA Agree ==
  ASSUME NEW p, NEW D, NEW E, D \subseteq E, LooksBelow(p, D),
         NEW g, Defines(p, D, g), NEW h, Defines(p, E, h)
  PROVE  \A a \in D : g[a] = h[a]
  <1> DEFINE Wrong == {a \in D : g[a] # h[a]}
             ranks == {Rank(a) : a \in Wrong}
  <1> SUFFICES ASSUME Wrong # {} PROVE FALSE
    OBVIOUS
  <1>1. ranks \subseteq Nat /\ ranks # {}
    BY DEF LooksBelow
  <1>2. PICK least \in ranks : \A k \in ranks : least <= k
    BY <1>1, LeastNumber
  <1>3. PICK a \in Wrong : least = Rank(a)
    OBVIOUS
  <1>4. \A b \in D : Rank(b) < Rank(a) => g[b] = h[b]
    <2> SUFFICES ASSUME NEW b \in D, Rank(b) < Rank(a), b \in Wrong PROVE FALSE
      OBVIOUS
    <2>1. Rank(b) \in ranks /\ Rank(a) \in Nat /\ Rank(b) \in Nat
      BY DEF LooksBelow
    <2>2. Rank(a) <= Rank(b)
      BY <1>2, <1>3, <2>1
    <2> QED BY <2>1, <2>2
  <1>5. Body(p, a, g) = Body(p, a, h)
    BY <1>4 DEF LooksBelow
  <1>6. g[a] = Body(p, a, g)
    BY DEF Defines
  <1>7. h[a] = Body(p, a, h)
    BY DEF Defines
  <1> QED BY <1>5, <1>6, <1>7

\* The part of the domain that ranks below n.
Part(D, n) == {a \in D : Rank(a) < n}

LEMMA Exists ==
  ASSUME NEW p, NEW D, LooksBelow(p, D)
  PROVE  \E f : Defines(p, D, f)
  <1> DEFINE T == {n \in Nat : \E f : Defines(p, Part(D, n), f)}
  <1>1. \A n \in Nat : LooksBelow(p, Part(D, n))
    <2> SUFFICES ASSUME NEW n \in Nat, NEW a \in Part(D, n), NEW g, NEW h,
                        \A b \in Part(D, n) : Rank(b) < Rank(a) => g[b] = h[b]
                 PROVE  Rank(a) \in Nat /\ Body(p, a, g) = Body(p, a, h)
      BY DEF LooksBelow
    <2>1. a \in D /\ Rank(a) \in Nat /\ Rank(a) < n
      BY DEF Part, LooksBelow
    <2>2. \A b \in D : Rank(b) < Rank(a) => g[b] = h[b]
      BY <2>1 DEF Part, LooksBelow
    <2> QED BY <2>1, <2>2 DEF LooksBelow
  <1>2. 0 \in T
    <2> DEFINE f == [a \in {} |-> 0]
    <2>1. Part(D, 0) = {}
      BY DEF Part, LooksBelow
    <2>2. f = [a \in Part(D, 0) |-> Body(p, a, f)]
      BY <2>1
    <2> QED BY <2>2 DEF Defines
  <1>3. ASSUME NEW n \in Nat, n \in T PROVE n + 1 \in T
    <2>1. PICK f : Defines(p, Part(D, n), f)
      BY <1>3
    <2> DEFINE g == [a \in Part(D, n + 1) |-> Body(p, a, f)]
    <2>2. ASSUME NEW a \in Part(D, n + 1) PROVE Body(p, a, f) = Body(p, a, g)
      <3>1. a \in D /\ Rank(a) \in Nat /\ Rank(a) < n + 1
        BY DEF Part, LooksBelow
      <3>2. ASSUME NEW b \in D, Rank(b) < Rank(a) PROVE f[b] = g[b]
        <4>1. Rank(b) \in Nat /\ Rank(b) < n
          BY <3>1, <3>2 DEF LooksBelow
        <4>2. b \in Part(D, n) /\ b \in Part(D, n + 1)
          BY <4>1 DEF Part
        <4> QED BY <2>1, <4>2 DEF Defines
      <3> HIDE DEF g
      <3> QED BY <3>1, <3>2 DEF LooksBelow
    <2>3. g = [a \in Part(D, n + 1) |-> Body(p, a, g)]
      <3> DEFINE h == [a \in Part(D, n + 1) |-> Body(p, a, g)]
      <3>1. \A a \in Part(D, n + 1) : g[a] = h[a]
        BY <2>2
      <3>2. DOMAIN g = Part(D, n + 1) /\ DOMAIN h = Part(D, n + 1)
        OBVIOUS
      <3> QED BY <3>1, <3>2
    <2> HIDE DEF g
    <2> QED BY <2>3 DEF Defines
  <1> HIDE DEF T
  <1>4. \A n \in Nat : n \in T
    BY <1>2, <1>3, SetInduction
  <1>5. \A n \in Nat : \E f : Defines(p, Part(D, n), f)
    BY <1>4 DEF T
  <1> DEFINE F(n) == CHOOSE f : Defines(p, Part(D, n), f)
             whole == [a \in D |-> F(Rank(a) + 1)[a]]
  <1>6. \A n \in Nat : Defines(p, Part(D, n), F(n))
    BY <1>5
  <1> HIDE DEF F
  <1>7. ASSUME NEW a \in D PROVE whole[a] = Body(p, a, whole)
    <2> DEFINE n == Rank(a) + 1
    <2>1. Rank(a) \in Nat /\ n \in Nat /\ a \in Part(D, n)
      BY DEF Part, LooksBelow
    <2>2. ASSUME NEW b \in D, Rank(b) < Rank(a) PROVE F(n)[b] = whole[b]
      <3> DEFINE m == Rank(b) + 1
      <3>1. Rank(b) \in Nat /\ m \in Nat /\ b \in Part(D, m) /\ Part(D, m) \subseteq Part(D, n)
        BY <2>1, <2>2 DEF Part, LooksBelow
      <3>2. F(m)[b] = F(n)[b]
        BY <1>1, <1>6, <2>1, <3>1, Agree
      <3> QED BY <3>2
    <2>3. Body(p, a, F(n)) = Body(p, a, whole)
      BY <2>2 DEF LooksBelow
    <2>4. F(n)[a] = Body(p, a, F(n))
      BY <1>6, <2>1 DEF Defines
    <2> QED BY <2>3, <2>4
  <1>8. whole = [a \in D |-> Body(p, a, whole)]
    <2> DEFINE h == [a \in D |-> Body(p, a, whole)]
    <2>1. \A a \in D : whole[a] = h[a]
      BY <1>7
    <2>2. DOMAIN whole = D /\ DOMAIN h = D
      OBVIOUS
    <2> QED BY <2>1, <2>2
  <1> HIDE DEF whole
  <1> QED BY <1>8 DEF Defines

\* The recursive definition means what it says.
LEMMA Unfolds ==
  ASSUME NEW p, NEW D, LooksBelow(p, D)
  PROVE  /\ Defines(p, D, Fixed(p, D))
         /\ \A a \in D : Fixed(p, D)[a] = Body(p, a, Fixed(p, D))
  <1>1. \E f : f = [a \in D |-> Body(p, a, f)]
    BY Exists DEF Defines
  <1>2. Fixed(p, D) = [a \in D |-> Body(p, a, Fixed(p, D))]
    BY <1>1, Zenon DEF Fixed
  <1> HIDE DEF Fixed
  <1> QED BY <1>2 DEF Defines

\* On a larger domain it is the same function.
LEMMA Extends ==
  ASSUME NEW p, NEW D, NEW E, D \subseteq E, LooksBelow(p, D), LooksBelow(p, E)
  PROVE  \A a \in D : Fixed(p, D)[a] = Fixed(p, E)[a]
  <1>1. Defines(p, D, Fixed(p, D)) /\ Defines(p, E, Fixed(p, E))
    BY Unfolds
  <1> QED BY <1>1, Agree

\* A function on a part of E with all that ranks lower is that on E.
LEMMA Everywhere ==
  ASSUME NEW p, NEW E, LooksBelow(p, E)
  PROVE  /\ \A a \in E : Fixed(p, E)[a] = Body(p, a, Fixed(p, E))
         /\ \A D \in SUBSET E : (\A a \in D, b \in E : Rank(b) < Rank(a) => b \in D)
                                   => \A a \in D : Fixed(p, D)[a] = Fixed(p, E)[a]
  <1>1. ASSUME NEW D \in SUBSET E, \A a \in D, b \in E : Rank(b) < Rank(a) => b \in D
        PROVE  LooksBelow(p, D)
    <2> SUFFICES ASSUME NEW a \in D, NEW g, NEW h, \A b \in D : Rank(b) < Rank(a) => g[b] = h[b]
                 PROVE  Rank(a) \in Nat /\ Body(p, a, g) = Body(p, a, h)
      BY DEF LooksBelow
    <2>1. \A b \in E : Rank(b) < Rank(a) => g[b] = h[b]
      BY <1>1
    <2> QED BY <2>1 DEF LooksBelow
  <1> QED BY <1>1, Unfolds, Extends

\* When the value at a number uses the value at the one before only.
LEMMA StepByStep ==
  ASSUME NEW p, NEW n \in Nat, \A a \in 0..n : Rank(a) = a,
         \A a \in 0..n : \A g, h : (a > 0 => g[a - 1] = h[a - 1]) => Body(p, a, g) = Body(p, a, h)
  PROVE  \A a \in 0..n : Fixed(p, 0..n)[a] = Body(p, a, Fixed(p, 0..n))
  <1> SUFFICES ASSUME NEW a \in 0..n, NEW g, NEW h, \A b \in 0..n : Rank(b) < Rank(a) => g[b] = h[b]
               PROVE  Rank(a) \in Nat /\ Body(p, a, g) = Body(p, a, h)
    BY Unfolds DEF LooksBelow
  <1>1. a > 0 => a - 1 \in 0..n /\ Rank(a - 1) < Rank(a)
    OBVIOUS
  <1> QED BY <1>1
============================================================================
