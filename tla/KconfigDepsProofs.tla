-------------------------- MODULE KconfigDepsProofs --------------------------
(***************************************************************************)
(* No rewriting of dependency expressions changes what they mean: for any  *)
(* symbols, any conditions and any depth of menus.                         *)
(*                                                                         *)
(* First the recursive functions: every one is a Recursion, on the size of *)
(* a tree, the length of a path or the depth of the calls, so it meets its *)
(* defining equations.  Then values, leaf by leaf and node by node; what   *)
(* each rewrite keeps, by induction on the tree; what the two pairs of     *)
(* mutually recursive functions keep, by induction on the depth of the     *)
(* calls; and the invariant of the steps of menu_finalize().               *)
(*                                                                         *)
(* Last, the printed form: how deep the parentheses are in a text put      *)
(* together of others, where its last operator is, what the grammar reads  *)
(* of it, and by induction on the tree that it is the tree's value.        *)
(***************************************************************************)
EXTENDS KconfigPrint, SequenceTheorems, TLAPS

-----------------------------------------------------------------------------
\* Trees.
Size(f) == f.size
ExprsBody(p, n, below) == IF n = 0 THEN {} ELSE Atoms \union Larger(below[n - 1], n)
Number(n) == n
Trees == INSTANCE Recursion WITH Body <- ExprsBody, Rank <- Number

\* The recursive definition of Exprs means what it says.
LEMMA ExprsAre ==
  ASSUME NEW n \in Nat
  PROVE  Exprs[n] = IF n = 0 THEN {} ELSE Atoms \union Larger(Exprs[n - 1], n)
  <1>1. Trees!LooksBelow(0, Nat)
    <2>1. ASSUME NEW a \in Nat, NEW g, NEW h, \A b \in Nat : b < a => g[b] = h[b]
          PROVE  ExprsBody(0, a, g) = ExprsBody(0, a, h)
      <3>1. a # 0 => a - 1 \in Nat /\ a - 1 < a
        OBVIOUS
      <3>2. a # 0 => g[a - 1] = h[a - 1]
        BY <2>1, <3>1
      <3> QED BY <3>2 DEF ExprsBody
    <2> QED BY <2>1 DEF Trees!LooksBelow, Number
  <1>2. Exprs = Trees!Fixed(0, Nat)
    BY DEF Exprs, Trees!Fixed, ExprsBody
  <1>3. Trees!Fixed(0, Nat)[n] = ExprsBody(0, n, Trees!Fixed(0, Nat))
    BY <1>1, Trees!Unfolds
  <1> QED BY <1>2, <1>3 DEF ExprsBody

Atom(e) == e \in Atoms
IsNot(e) == e.t = "NOT" /\ e = Not(e.l)
IsTwo(e) == e.t \in Binary /\ e = Two(e.t, e.l, e.r)

\* The trees of at most n nodes, by their root.
LEMMA ExprsSplit ==
  ASSUME NEW n \in Nat \ {0}, NEW e \in Exprs[n], \A f \in Exprs[n - 1] : f.size \in Nat
  PROVE  /\ e.size \in 1..n
         /\ \/ Atom(e) /\ e.t \notin Binary \union {"NOT"} /\ e.size = 1
            \/ IsNot(e) /\ e.l \in Exprs[n - 1] /\ e.size = e.l.size + 1
            \/ IsTwo(e) /\ e.l \in Exprs[n - 1] /\ e.r \in Exprs[n - 1] /\ e.size = e.l.size + e.r.size + 1
  <1>1. e \in Atoms \union Larger(Exprs[n - 1], n)
    BY ExprsAre
  <1>2. CASE e \in Atoms
    BY <1>2 DEF Atom, Atoms, AtomsOf, NoExpr, Comparisons, Binary
  <1>3. CASE e \in [t : {"NOT"}, l : Exprs[n - 1], size : 1..n] /\ e.size = e.l.size + 1
    BY <1>3 DEF IsNot, Not
  <1>4. CASE e \in [t : Binary, l : Exprs[n - 1], r : Exprs[n - 1], size : 1..n] /\ e.size = e.l.size + e.r.size + 1
    BY <1>4 DEF IsTwo, Two
  <1> QED BY <1>1, <1>2, <1>3, <1>4 DEF Larger

\* What is put together from trees of at most n - 1 nodes.
LEMMA ExprsJoin ==
  ASSUME NEW n \in Nat \ {0}, NEW e
  PROVE  /\ Atom(e) => e \in Exprs[n]
         /\ IsNot(e) /\ e.l \in Exprs[n - 1] /\ e.size \in 1..n => e \in Exprs[n]
         /\ IsTwo(e) /\ e.l \in Exprs[n - 1] /\ e.r \in Exprs[n - 1] /\ e.size \in 1..n => e \in Exprs[n]
  <1>1. Exprs[n] = Atoms \union Larger(Exprs[n - 1], n)
    BY ExprsAre
  <1>2. ASSUME IsNot(e), e.l \in Exprs[n - 1], e.size \in 1..n PROVE e \in Exprs[n]
    <2>1. e = [t |-> "NOT", l |-> e.l, size |-> e.size] /\ e.size = e.l.size + 1
      BY <1>2 DEF IsNot, Not
    <2>2. e \in [t : {"NOT"}, l : Exprs[n - 1], size : 1..n]
      BY <1>2, <2>1
    <2> QED BY <1>1, <2>1, <2>2 DEF Larger
  <1>3. ASSUME IsTwo(e), e.l \in Exprs[n - 1], e.r \in Exprs[n - 1], e.size \in 1..n PROVE e \in Exprs[n]
    <2>1. e = [t |-> e.t, l |-> e.l, r |-> e.r, size |-> e.size] /\ e.size = e.l.size + e.r.size + 1
          /\ e.t \in Binary
      BY <1>3 DEF IsTwo, Two
    <2>2. e \in [t : Binary, l : Exprs[n - 1], r : Exprs[n - 1], size : 1..n]
      BY <1>3, <2>1
    <2> QED BY <1>1, <2>1, <2>2 DEF Larger
  <1> QED BY <1>1, <1>2, <1>3 DEF Atom

\* No tree of at most n nodes has more.
LEMMA SizesAre ==
  \A n \in Nat : \A e \in Exprs[n] : e.size \in 1..n
  <1> DEFINE T == {n \in Nat : \A e \in Exprs[n] : e.size \in 1..n}
  <1>1. 0 \in T
    BY ExprsAre
  <1>2. ASSUME NEW n \in Nat, n \in T PROVE n + 1 \in T
    <2>1. \A e \in Exprs[(n + 1) - 1] : e.size \in Nat
      BY <1>2
    <2>2. \A e \in Exprs[n + 1] : e.size \in 1..(n + 1)
      BY <2>1, ExprsSplit
    <2> QED BY <2>2
  <1> HIDE DEF T
  <1>3. \A n \in Nat : n \in T
    BY <1>1, <1>2, Trees!SetInduction
  <1> QED BY <1>3 DEF T

\* A tree is in Exprs[n] for every n from its size on.
LEMMA SizesSuffice ==
  \A n \in Nat : \A e \in Exprs[n] : \A k \in Nat : e.size <= k => e \in Exprs[k]
  <1> DEFINE T == {n \in Nat : \A e \in Exprs[n] : \A k \in Nat : e.size <= k => e \in Exprs[k]}
  <1>1. 0 \in T
    BY ExprsAre
  <1>2. ASSUME NEW n \in Nat, n \in T PROVE n + 1 \in T
    <2> SUFFICES ASSUME NEW e \in Exprs[n + 1], NEW k \in Nat, e.size <= k PROVE e \in Exprs[k]
      OBVIOUS
    <2>1. (n + 1) - 1 = n /\ \A f \in Exprs[n] : f.size \in 1..n
      BY SizesAre
    <2>2. /\ e.size \in 1..(n + 1)
          /\ \/ Atom(e)
             \/ IsNot(e) /\ e.l \in Exprs[n] /\ e.size = e.l.size + 1
             \/ IsTwo(e) /\ e.l \in Exprs[n] /\ e.r \in Exprs[n] /\ e.size = e.l.size + e.r.size + 1
      BY <2>1, ExprsSplit
    <2>3. k \in Nat \ {0} /\ k - 1 \in Nat /\ e.size \in 1..k
      BY <2>2
    <2>4. CASE IsNot(e) /\ e.l \in Exprs[n] /\ e.size = e.l.size + 1
      <3>1. e.l.size <= k - 1
        BY <2>1, <2>3, <2>4
      <3>2. e.l \in Exprs[k - 1]
        BY <1>2, <2>3, <2>4, <3>1
      <3> QED BY <2>3, <2>4, <3>2, ExprsJoin
    <2>5. CASE IsTwo(e) /\ e.l \in Exprs[n] /\ e.r \in Exprs[n] /\ e.size = e.l.size + e.r.size + 1
      <3>1. e.l.size <= k - 1 /\ e.r.size <= k - 1
        BY <2>1, <2>3, <2>5
      <3>2. e.l \in Exprs[k - 1] /\ e.r \in Exprs[k - 1]
        BY <1>2, <2>3, <2>5, <3>1
      <3> QED BY <2>3, <2>5, <3>2, ExprsJoin
    <2> QED BY <2>2, <2>3, <2>4, <2>5, ExprsJoin
  <1> HIDE DEF T
  <1>3. \A n \in Nat : n \in T
    BY <1>1, <1>2, Trees!SetInduction
  <1> QED BY <1>3 DEF T

Expr == UNION {Exprs[n] : n \in Nat}

\* A tree is in the set of those of its size, and of every larger size.
LEMMA ExprIs ==
  ASSUME NEW e
  PROVE  /\ IsExpr(e) <=> e \in Expr
         /\ e \in Expr => e.size \in Nat \ {0} /\ e \in Exprs[e.size]
         /\ \A n \in Nat : e \in Exprs[n] <=> e \in Expr /\ e.size <= n
  <1>1. ASSUME NEW n \in Nat, e \in Exprs[n] PROVE e.size \in Nat \ {0} /\ e \in Exprs[e.size] /\ e.size <= n
    BY <1>1, SizesAre, SizesSuffice
  <1>2. ASSUME NEW n \in Nat, e \in Expr, e.size <= n PROVE e \in Exprs[n]
    BY <1>2, SizesSuffice DEF Expr
  <1> QED BY <1>1, <1>2 DEF Expr, IsExpr

\* The cases of a tree, and how trees are made.
LEMMA ExprSplit ==
  ASSUME NEW e \in Expr
  PROVE  \/ Atom(e) /\ e.t \notin Binary \union {"NOT"} /\ e.size = 1
         \/ IsNot(e) /\ e.l \in Expr /\ e.l.size < e.size /\ e.size = e.l.size + 1
         \/ IsTwo(e) /\ e.l \in Expr /\ e.r \in Expr /\ e.l.size < e.size /\ e.r.size < e.size
            /\ e.size = e.l.size + e.r.size + 1
  <1> DEFINE n == e.size
  <1>1. n \in Nat \ {0} /\ e \in Exprs[n] /\ n - 1 \in Nat
    BY ExprIs
  <1>2. \A f \in Exprs[n - 1] : f.size \in 1..(n - 1) /\ f \in Expr
    BY <1>1, SizesAre DEF Expr
  <1> HIDE DEF n
  <1>3. \/ Atom(e) /\ e.t \notin Binary \union {"NOT"} /\ e.size = 1
        \/ IsNot(e) /\ e.l \in Exprs[n - 1] /\ e.size = e.l.size + 1
        \/ IsTwo(e) /\ e.l \in Exprs[n - 1] /\ e.r \in Exprs[n - 1] /\ e.size = e.l.size + e.r.size + 1
    BY <1>1, <1>2, ExprsSplit
  <1>4. n = e.size
    BY DEF n
  <1> QED BY <1>1, <1>2, <1>3, <1>4

\* Nodes on trees are trees.
LEMMA ExprMake ==
  /\ \A e : Atom(e) => e \in Expr
  /\ NoExpr \in Expr
  /\ \A s \in DOMAIN SymType : Sym(s) \in Expr
  /\ \A t \in Comparisons, a, b \in DOMAIN SymType : Comp(t, a, b) \in Expr
  /\ \A e \in Expr : Not(e) \in Expr
  /\ \A t \in Binary, l, r \in Expr : Two(t, l, r) \in Expr
  <1>1. ASSUME NEW e, Atom(e) PROVE e \in Expr
    BY <1>1, ExprsJoin, 1 \in Nat \ {0} DEF Expr
  <1>2. Atom(NoExpr)
    BY DEF Atom, Atoms, AtomsOf
  <1>3. ASSUME NEW s \in DOMAIN SymType PROVE Atom(Sym(s))
    BY DEF Atom, Atoms, AtomsOf, Sym
  <1>4. ASSUME NEW t \in Comparisons, NEW a \in DOMAIN SymType, NEW b \in DOMAIN SymType PROVE Atom(Comp(t, a, b))
    BY DEF Atom, Atoms, AtomsOf, Comp
  <1>5. ASSUME NEW e \in Expr PROVE Not(e) \in Expr
    <2> DEFINE n == e.size + 1
    <2>1. n \in Nat \ {0} /\ e \in Exprs[n - 1] /\ n - 1 = e.size
      BY ExprIs
    <2>2. IsNot(Not(e)) /\ Not(e).l = e /\ Not(e).size = n
      BY DEF IsNot, Not
    <2> HIDE DEF n
    <2> QED BY <2>1, <2>2, ExprsJoin DEF Expr
  <1>6. ASSUME NEW t \in Binary, NEW l \in Expr, NEW r \in Expr PROVE Two(t, l, r) \in Expr
    <2> DEFINE n == l.size + r.size + 1
    <2>1. l.size \in Nat /\ r.size \in Nat
      BY ExprIs
    <2>2. n \in Nat \ {0} /\ n - 1 \in Nat /\ l.size <= n - 1 /\ r.size <= n - 1
      BY <2>1
    <2> HIDE DEF n
    <2>3. l \in Exprs[n - 1] /\ r \in Exprs[n - 1]
      BY <2>2, ExprIs
    <2>4. IsTwo(Two(t, l, r)) /\ Two(t, l, r).l = l /\ Two(t, l, r).r = r /\ Two(t, l, r).size = n
      BY DEF IsTwo, Two, n
    <2> QED BY <2>2, <2>3, <2>4, ExprsJoin DEF Expr
  <1> QED BY <1>1, <1>2, <1>3, <1>4, <1>5, <1>6

\* What holds of the leaves and is kept by the operators holds of every tree.
LEMMA ExprInduction ==
  ASSUME NEW G,
         \A e \in Expr : Atom(e) /\ e.t \notin Binary \union {"NOT"} => e \in G,
         \A e \in Expr : IsNot(e) /\ e.l \in Expr /\ e.l \in G => e \in G,
         \A e \in Expr : IsTwo(e) /\ e.l \in Expr /\ e.r \in Expr /\ e.l \in G /\ e.r \in G => e \in G
  PROVE  \A e \in Expr : e \in G
  <1> DEFINE T == {n \in Nat : \A e \in Expr : e.size <= n => e \in G}
  <1>1. 0 \in T
    BY ExprIs
  <1>2. ASSUME NEW n \in Nat, n \in T PROVE n + 1 \in T
    <2> SUFFICES ASSUME NEW e \in Expr, e.size <= n + 1 PROVE e \in G
      OBVIOUS
    <2>1. e.size \in Nat /\ \A f \in Expr : f.size \in Nat /\ (f.size < e.size => f.size <= n)
      BY ExprIs
    <2>2. \A f \in Expr : f.size < e.size => f \in G
      BY <1>2, <2>1
    <2> QED BY <2>2, ExprSplit
  <1> HIDE DEF T
  <1>3. \A n \in Nat : n \in T
    BY <1>1, <1>2, Trees!SetInduction
  <1> QED BY <1>3, ExprIs DEF T

\* The operands of a tree are smaller trees.
Operand(f, b) == (f.t = "NOT" /\ b = f.l) \/ (f.t \in Binary /\ b \in {f.l, f.r})

\* The operands of a tree are smaller trees.
LEMMA OperandsAre ==
  ASSUME NEW n \in Nat, NEW f \in Exprs[n]
  PROVE  /\ Size(f) \in Nat /\ f \in Expr
         /\ \A b : Operand(f, b) => b \in Exprs[n] /\ Size(b) < Size(f) /\ b \in Exprs[Size(b)] /\ b \in Expr
                                    /\ Exprs[Size(b)] \subseteq Exprs[n] /\ Size(b) \in Nat
  <1>1. f \in Expr /\ f.size \in Nat /\ f.size <= n
    BY ExprIs
  <1>2. ASSUME NEW b, Operand(f, b) PROVE b \in Expr /\ b.size < f.size
    BY <1>1, <1>2, ExprSplit DEF Operand, IsNot, IsTwo, Binary
  <1>3. ASSUME NEW b \in Expr, b.size < f.size
        PROVE  b \in Exprs[n] /\ b \in Exprs[b.size] /\ Exprs[b.size] \subseteq Exprs[n] /\ b.size \in Nat
    <2>1. b.size \in Nat /\ b.size <= n
      BY <1>1, <1>3, ExprIs
    <2>2. ASSUME NEW c \in Exprs[b.size] PROVE c \in Exprs[n]
      <3>1. c \in Expr /\ c.size <= b.size /\ c.size \in Nat
        BY <2>1, ExprIs
      <3> QED BY <1>1, <2>1, <3>1, ExprIs
    <2> QED BY <2>1, <2>2, ExprIs
  <1> QED BY <1>1, <1>2, <1>3 DEF Size

(* Both forms TransCompareNo() chooses from. *)
BothForms(e) == Fold(TransCompareLeaf, LAMBDA f, l : [EQ |-> l.NE, NE |-> l.EQ], TransCompareBoth, e)

\* The operands of a tree are smaller trees, and with a tree there are all
\* smaller ones in the domain of a fold.
LEMMA Smaller ==
  \A a \in Expr : /\ Size(a) \in Nat
                  /\ a.t = "NOT" => a.l \in Expr /\ Size(a.l) < Size(a)
                  /\ a.t \in Binary => /\ a.l \in Expr /\ Size(a.l) < Size(a)
                                       /\ a.r \in Expr /\ Size(a.r) < Size(a)
  BY ExprIs, ExprSplit DEF Size, IsNot, IsTwo, Binary

\* The domain of a fold has the tree and every smaller one.
LEMMA Downward ==
  \A e \in Expr : /\ e \in Exprs[e.size] /\ Exprs[e.size] \in SUBSET Expr
                  /\ \A a \in Exprs[e.size], b \in Expr : Size(b) < Size(a) => b \in Exprs[e.size]
  <1> SUFFICES ASSUME NEW e \in Expr
               PROVE  /\ e \in Exprs[e.size] /\ Exprs[e.size] \subseteq Expr
                      /\ \A a \in Exprs[e.size], b \in Expr : Size(b) < Size(a) => b \in Exprs[e.size]
    OBVIOUS
  <1>1. e.size \in Nat /\ e \in Exprs[e.size] /\ \A a : a \in Exprs[e.size] <=> a \in Expr /\ a.size <= e.size
    BY ExprIs
  <1>2. \A a \in Expr : a.size \in Nat
    BY ExprIs
  <1> QED BY <1>1, <1>2 DEF Size

ValueBody(w, f, of) ==
  CASE f.t = "NOT" -> EXPR_NOT(of[f.l])
    [] f.t \in Binary -> IF f.t = "AND" THEN EXPR_AND(of[f.l], of[f.r]) ELSE EXPR_OR(of[f.l], of[f.r])
    [] OTHER -> LeafValue(f, w.tri, w.txt)
ValueFold == INSTANCE Recursion WITH Body <- ValueBody, Rank <- Size

\* expr_calc_value(), by the operands of a tree; the next lemmas say the same
\* of the other functions that go through a tree.
LEMMA ValueIs ==
  ASSUME NEW w, NEW e \in Expr
  PROVE  /\ e.t = "NOT" => Value(e, w) = EXPR_NOT(Value(e.l, w))
         /\ e.t \in Binary => Value(e, w) = IF e.t = "AND" THEN EXPR_AND(Value(e.l, w), Value(e.r, w)) ELSE EXPR_OR(Value(e.l, w), Value(e.r, w))
         /\ e.t \notin Binary \union {"NOT"} => Value(e, w) = LeafValue(e, w.tri, w.txt)
  <1> DEFINE F == ValueFold!Fixed(w, Expr)
  <1>0. (e.t = "NOT" => e.l \in Expr) /\ (e.t \in Binary => e.l \in Expr /\ e.r \in Expr)
    BY Smaller
  <1>1. ValueFold!LooksBelow(w, Expr)
    <2> SUFFICES ASSUME NEW a \in Expr, NEW g, NEW h, \A b \in Expr : Size(b) < Size(a) => g[b] = h[b]
                 PROVE  ValueBody(w, a, g) = ValueBody(w, a, h)
      BY Smaller DEF ValueFold!LooksBelow
    <2>1. (a.t = "NOT" => g[a.l] = h[a.l]) /\ (a.t \in Binary => g[a.l] = h[a.l] /\ g[a.r] = h[a.r])
      BY Smaller
    <2> QED BY <2>1 DEF ValueBody
  <1>2. ASSUME NEW f \in Expr PROVE Value(f, w) = F[f]
    <2>1. Value(f, w) = ValueFold!Fixed(w, Exprs[f.size])[f]
      BY DEF Value, expr_calc_value, Fold, ValueFold!Fixed, ValueBody
    <2> QED BY <1>1, <2>1, ValueFold!Everywhere, Downward
  <1>3. F[e] = ValueBody(w, e, F)
    BY <1>1, ValueFold!Everywhere
  <1> HIDE DEF F
  <1> QED BY <1>0, <1>2, <1>3 DEF ValueBody, Binary

OperandsBody(p, f, of) ==
  CASE f.t = "NOT" -> of[f.l]
    [] f.t \in Binary -> of[f.l] \union of[f.r]
    [] OTHER -> IF f.t = "SYM" THEN {f.s} ELSE {}
OperandsFold == INSTANCE Recursion WITH Body <- OperandsBody, Rank <- Size

\* The symbols that stand for themselves.
LEMMA OperandsIs ==
  ASSUME NEW e \in Expr
  PROVE  /\ e.t = "NOT" => SymOperands(e) = SymOperands(e.l)
         /\ e.t \in Binary => SymOperands(e) = SymOperands(e.l) \union SymOperands(e.r)
         /\ e.t \notin Binary \union {"NOT"} => SymOperands(e) = IF e.t = "SYM" THEN {e.s} ELSE {}
  <1> DEFINE F == OperandsFold!Fixed(0, Expr)
  <1>0. (e.t = "NOT" => e.l \in Expr) /\ (e.t \in Binary => e.l \in Expr /\ e.r \in Expr)
    BY Smaller
  <1>1. OperandsFold!LooksBelow(0, Expr)
    <2> SUFFICES ASSUME NEW a \in Expr, NEW g, NEW h, \A b \in Expr : Size(b) < Size(a) => g[b] = h[b]
                 PROVE  OperandsBody(0, a, g) = OperandsBody(0, a, h)
      BY Smaller DEF OperandsFold!LooksBelow
    <2>1. (a.t = "NOT" => g[a.l] = h[a.l]) /\ (a.t \in Binary => g[a.l] = h[a.l] /\ g[a.r] = h[a.r])
      BY Smaller
    <2> QED BY <2>1 DEF OperandsBody
  <1>2. ASSUME NEW f \in Expr PROVE SymOperands(f) = F[f]
    <2>1. SymOperands(f) = OperandsFold!Fixed(0, Exprs[f.size])[f]
      BY DEF SymOperands, Fold, OperandsFold!Fixed, OperandsBody
    <2> QED BY <1>1, <2>1, OperandsFold!Everywhere, Downward
  <1>3. F[e] = OperandsBody(0, e, F)
    BY <1>1, OperandsFold!Everywhere
  <1> HIDE DEF F
  <1> QED BY <1>0, <1>2, <1>3 DEF OperandsBody, Binary

NegatedBody(p, f, of) ==
  CASE f.t = "NOT" -> {f.l}
    [] f.t \in Binary -> of[f.l] \union of[f.r]
    [] OTHER -> {}
NegatedFold == INSTANCE Recursion WITH Body <- NegatedBody, Rank <- Size

\* The operands of negations.
LEMMA NegatedIs ==
  ASSUME NEW e \in Expr
  PROVE  /\ e.t = "NOT" => Negated(e) = {e.l}
         /\ e.t \in Binary => Negated(e) = Negated(e.l) \union Negated(e.r)
         /\ e.t \notin Binary \union {"NOT"} => Negated(e) = {}
  <1> DEFINE F == NegatedFold!Fixed(0, Expr)
  <1>0. (e.t = "NOT" => e.l \in Expr) /\ (e.t \in Binary => e.l \in Expr /\ e.r \in Expr)
    BY Smaller
  <1>1. NegatedFold!LooksBelow(0, Expr)
    <2> SUFFICES ASSUME NEW a \in Expr, NEW g, NEW h, \A b \in Expr : Size(b) < Size(a) => g[b] = h[b]
                 PROVE  NegatedBody(0, a, g) = NegatedBody(0, a, h)
      BY Smaller DEF NegatedFold!LooksBelow
    <2>1. (a.t = "NOT" => g[a.l] = h[a.l]) /\ (a.t \in Binary => g[a.l] = h[a.l] /\ g[a.r] = h[a.r])
      BY Smaller
    <2> QED BY <2>1 DEF NegatedBody
  <1>2. ASSUME NEW f \in Expr PROVE Negated(f) = F[f]
    <2>1. Negated(f) = NegatedFold!Fixed(0, Exprs[f.size])[f]
      BY DEF Negated, Fold, NegatedFold!Fixed, NegatedBody
    <2> QED BY <1>1, <2>1, NegatedFold!Everywhere, Downward
  <1>3. F[e] = NegatedBody(0, e, F)
    BY <1>1, NegatedFold!Everywhere
  <1> HIDE DEF F
  <1> QED BY <1>0, <1>2, <1>3 DEF NegatedBody, Binary

SymsBody(p, f, of) ==
  CASE f.t = "NOT" -> of[f.l]
    [] f.t \in Binary -> of[f.l] \o of[f.r]
    [] OTHER -> SymsOfLeaf(f)
SymsFold == INSTANCE Recursion WITH Body <- SymsBody, Rank <- Size

\* The symbols mentioned.
LEMMA SymsIs ==
  ASSUME NEW e \in Expr
  PROVE  /\ e.t = "NOT" => SymsOf(e) = SymsOf(e.l)
         /\ e.t \in Binary => SymsOf(e) = SymsOf(e.l) \o SymsOf(e.r)
         /\ e.t \notin Binary \union {"NOT"} => SymsOf(e) = SymsOfLeaf(e)
  <1> DEFINE F == SymsFold!Fixed(0, Expr)
  <1>0. (e.t = "NOT" => e.l \in Expr) /\ (e.t \in Binary => e.l \in Expr /\ e.r \in Expr)
    BY Smaller
  <1>1. SymsFold!LooksBelow(0, Expr)
    <2> SUFFICES ASSUME NEW a \in Expr, NEW g, NEW h, \A b \in Expr : Size(b) < Size(a) => g[b] = h[b]
                 PROVE  SymsBody(0, a, g) = SymsBody(0, a, h)
      BY Smaller DEF SymsFold!LooksBelow
    <2>1. (a.t = "NOT" => g[a.l] = h[a.l]) /\ (a.t \in Binary => g[a.l] = h[a.l] /\ g[a.r] = h[a.r])
      BY Smaller
    <2> QED BY <2>1 DEF SymsBody
  <1>2. ASSUME NEW f \in Expr PROVE SymsOf(f) = F[f]
    <2>1. SymsOf(f) = SymsFold!Fixed(0, Exprs[f.size])[f]
      BY DEF SymsOf, Fold, SymsFold!Fixed, SymsBody
    <2> QED BY <1>1, <2>1, SymsFold!Everywhere, Downward
  <1>3. F[e] = SymsBody(0, e, F)
    BY <1>1, SymsFold!Everywhere
  <1> HIDE DEF F
  <1> QED BY <1>0, <1>2, <1>3 DEF SymsBody, Binary

ConstantsBody(p, f, of) ==
  CASE f.t = "NOT" -> f
    [] f.t \in Binary -> WithoutConstants(f.t, of[f.l], of[f.r])
    [] OTHER -> f
ConstantsFold == INSTANCE Recursion WITH Body <- ConstantsBody, Rank <- Size

\* expr_eliminate_yn().
LEMMA ConstantsIs ==
  ASSUME NEW e \in Expr
  PROVE  /\ e.t = "NOT" => expr_eliminate_yn(e) = e
         /\ e.t \in Binary => expr_eliminate_yn(e) = WithoutConstants(e.t, expr_eliminate_yn(e.l), expr_eliminate_yn(e.r))
         /\ e.t \notin Binary \union {"NOT"} => expr_eliminate_yn(e) = e
  <1> DEFINE F == ConstantsFold!Fixed(0, Expr)
  <1>0. (e.t = "NOT" => e.l \in Expr) /\ (e.t \in Binary => e.l \in Expr /\ e.r \in Expr)
    BY Smaller
  <1>1. ConstantsFold!LooksBelow(0, Expr)
    <2> SUFFICES ASSUME NEW a \in Expr, NEW g, NEW h, \A b \in Expr : Size(b) < Size(a) => g[b] = h[b]
                 PROVE  ConstantsBody(0, a, g) = ConstantsBody(0, a, h)
      BY Smaller DEF ConstantsFold!LooksBelow
    <2>1. (a.t = "NOT" => g[a.l] = h[a.l]) /\ (a.t \in Binary => g[a.l] = h[a.l] /\ g[a.r] = h[a.r])
      BY Smaller
    <2> QED BY <2>1 DEF ConstantsBody
  <1>2. ASSUME NEW f \in Expr PROVE expr_eliminate_yn(f) = F[f]
    <2>1. expr_eliminate_yn(f) = ConstantsFold!Fixed(0, Exprs[f.size])[f]
      BY DEF expr_eliminate_yn, Fold, ConstantsFold!Fixed, ConstantsBody
    <2> QED BY <1>1, <2>1, ConstantsFold!Everywhere, Downward
  <1>3. F[e] = ConstantsBody(0, e, F)
    BY <1>1, ConstantsFold!Everywhere
  <1> HIDE DEF F
  <1> QED BY <1>0, <1>2, <1>3 DEF ConstantsBody, Binary

TransBoolBody(p, f, of) ==
  CASE f.t = "NOT" -> Not(of[f.l])
    [] f.t \in Binary -> Two(f.t, of[f.l], of[f.r])
    [] OTHER -> TransBoolLeaf(f)
TransBoolFold == INSTANCE Recursion WITH Body <- TransBoolBody, Rank <- Size

\* expr_trans_bool().
LEMMA TransBoolIs ==
  ASSUME NEW e \in Expr
  PROVE  /\ e.t = "NOT" => expr_trans_bool(e) = Not(expr_trans_bool(e.l))
         /\ e.t \in Binary => expr_trans_bool(e) = Two(e.t, expr_trans_bool(e.l), expr_trans_bool(e.r))
         /\ e.t \notin Binary \union {"NOT"} => expr_trans_bool(e) = TransBoolLeaf(e)
  <1> DEFINE F == TransBoolFold!Fixed(0, Expr)
  <1>0. (e.t = "NOT" => e.l \in Expr) /\ (e.t \in Binary => e.l \in Expr /\ e.r \in Expr)
    BY Smaller
  <1>1. TransBoolFold!LooksBelow(0, Expr)
    <2> SUFFICES ASSUME NEW a \in Expr, NEW g, NEW h, \A b \in Expr : Size(b) < Size(a) => g[b] = h[b]
                 PROVE  TransBoolBody(0, a, g) = TransBoolBody(0, a, h)
      BY Smaller DEF TransBoolFold!LooksBelow
    <2>1. (a.t = "NOT" => g[a.l] = h[a.l]) /\ (a.t \in Binary => g[a.l] = h[a.l] /\ g[a.r] = h[a.r])
      BY Smaller
    <2> QED BY <2>1 DEF TransBoolBody
  <1>2. ASSUME NEW f \in Expr PROVE expr_trans_bool(f) = F[f]
    <2>1. expr_trans_bool(f) = TransBoolFold!Fixed(0, Exprs[f.size])[f]
      BY DEF expr_trans_bool, Fold, TransBoolFold!Fixed, TransBoolBody
    <2> QED BY <1>1, <2>1, TransBoolFold!Everywhere, Downward
  <1>3. F[e] = TransBoolBody(0, e, F)
    BY <1>1, TransBoolFold!Everywhere
  <1> HIDE DEF F
  <1> QED BY <1>0, <1>2, <1>3 DEF TransBoolBody, Binary

RewriteBody(p, f, of) ==
  CASE f.t = "NOT" -> Not(of[f.l])
    [] f.t \in Binary -> Two(f.t, of[f.l], of[f.r])
    [] OTHER -> RewriteLeaf(f)
RewriteFold == INSTANCE Recursion WITH Body <- RewriteBody, Rank <- Size

\* rewrite_m().
LEMMA RewriteIs ==
  ASSUME NEW e \in Expr
  PROVE  /\ e.t = "NOT" => rewrite_m(e) = Not(rewrite_m(e.l))
         /\ e.t \in Binary => rewrite_m(e) = Two(e.t, rewrite_m(e.l), rewrite_m(e.r))
         /\ e.t \notin Binary \union {"NOT"} => rewrite_m(e) = RewriteLeaf(e)
  <1> DEFINE F == RewriteFold!Fixed(0, Expr)
  <1>0. (e.t = "NOT" => e.l \in Expr) /\ (e.t \in Binary => e.l \in Expr /\ e.r \in Expr)
    BY Smaller
  <1>1. RewriteFold!LooksBelow(0, Expr)
    <2> SUFFICES ASSUME NEW a \in Expr, NEW g, NEW h, \A b \in Expr : Size(b) < Size(a) => g[b] = h[b]
                 PROVE  RewriteBody(0, a, g) = RewriteBody(0, a, h)
      BY Smaller DEF RewriteFold!LooksBelow
    <2>1. (a.t = "NOT" => g[a.l] = h[a.l]) /\ (a.t \in Binary => g[a.l] = h[a.l] /\ g[a.r] = h[a.r])
      BY Smaller
    <2> QED BY <2>1 DEF RewriteBody
  <1>2. ASSUME NEW f \in Expr PROVE rewrite_m(f) = F[f]
    <2>1. rewrite_m(f) = RewriteFold!Fixed(0, Exprs[f.size])[f]
      BY DEF rewrite_m, Fold, RewriteFold!Fixed, RewriteBody
    <2> QED BY <1>1, <2>1, RewriteFold!Everywhere, Downward
  <1>3. F[e] = RewriteBody(0, e, F)
    BY <1>1, RewriteFold!Everywhere
  <1> HIDE DEF F
  <1> QED BY <1>0, <1>2, <1>3 DEF RewriteBody, Binary

NegateBody(p, f, of) ==
  CASE f.t = "NOT" -> f.l
    [] f.t \in Binary -> Two(Dual(f.t), of[f.l], of[f.r])
    [] OTHER -> NegateLeaf(f)
NegateFold == INSTANCE Recursion WITH Body <- NegateBody, Rank <- Size

\* ! in front of a transformed tree.
LEMMA NegateIs ==
  ASSUME NEW e \in Expr
  PROVE  /\ e.t = "NOT" => Negate(e) = e.l
         /\ e.t \in Binary => Negate(e) = Two(Dual(e.t), Negate(e.l), Negate(e.r))
         /\ e.t \notin Binary \union {"NOT"} => Negate(e) = NegateLeaf(e)
  <1> DEFINE F == NegateFold!Fixed(0, Expr)
  <1>0. (e.t = "NOT" => e.l \in Expr) /\ (e.t \in Binary => e.l \in Expr /\ e.r \in Expr)
    BY Smaller
  <1>1. NegateFold!LooksBelow(0, Expr)
    <2> SUFFICES ASSUME NEW a \in Expr, NEW g, NEW h, \A b \in Expr : Size(b) < Size(a) => g[b] = h[b]
                 PROVE  NegateBody(0, a, g) = NegateBody(0, a, h)
      BY Smaller DEF NegateFold!LooksBelow
    <2>1. (a.t = "NOT" => g[a.l] = h[a.l]) /\ (a.t \in Binary => g[a.l] = h[a.l] /\ g[a.r] = h[a.r])
      BY Smaller
    <2> QED BY <2>1 DEF NegateBody
  <1>2. ASSUME NEW f \in Expr PROVE Negate(f) = F[f]
    <2>1. Negate(f) = NegateFold!Fixed(0, Exprs[f.size])[f]
      BY DEF Negate, Fold, NegateFold!Fixed, NegateBody
    <2> QED BY <1>1, <2>1, NegateFold!Everywhere, Downward
  <1>3. F[e] = NegateBody(0, e, F)
    BY <1>1, NegateFold!Everywhere
  <1> HIDE DEF F
  <1> QED BY <1>0, <1>2, <1>3 DEF NegateBody, Binary

TransformBody(p, f, of) ==
  CASE f.t = "NOT" -> Negate(of[f.l])
    [] f.t \in Binary -> Two(f.t, of[f.l], of[f.r])
    [] OTHER -> TransformLeaf(f)
TransformFold == INSTANCE Recursion WITH Body <- TransformBody, Rank <- Size

\* expr_transform().
LEMMA TransformIs ==
  ASSUME NEW e \in Expr
  PROVE  /\ e.t = "NOT" => expr_transform(e) = Negate(expr_transform(e.l))
         /\ e.t \in Binary => expr_transform(e) = Two(e.t, expr_transform(e.l), expr_transform(e.r))
         /\ e.t \notin Binary \union {"NOT"} => expr_transform(e) = TransformLeaf(e)
  <1> DEFINE F == TransformFold!Fixed(0, Expr)
  <1>0. (e.t = "NOT" => e.l \in Expr) /\ (e.t \in Binary => e.l \in Expr /\ e.r \in Expr)
    BY Smaller
  <1>1. TransformFold!LooksBelow(0, Expr)
    <2> SUFFICES ASSUME NEW a \in Expr, NEW g, NEW h, \A b \in Expr : Size(b) < Size(a) => g[b] = h[b]
                 PROVE  TransformBody(0, a, g) = TransformBody(0, a, h)
      BY Smaller DEF TransformFold!LooksBelow
    <2>1. (a.t = "NOT" => g[a.l] = h[a.l]) /\ (a.t \in Binary => g[a.l] = h[a.l] /\ g[a.r] = h[a.r])
      BY Smaller
    <2> QED BY <2>1 DEF TransformBody
  <1>2. ASSUME NEW f \in Expr PROVE expr_transform(f) = F[f]
    <2>1. expr_transform(f) = TransformFold!Fixed(0, Exprs[f.size])[f]
      BY DEF expr_transform, Fold, TransformFold!Fixed, TransformBody
    <2> QED BY <1>1, <2>1, TransformFold!Everywhere, Downward
  <1>3. F[e] = TransformBody(0, e, F)
    BY <1>1, TransformFold!Everywhere
  <1> HIDE DEF F
  <1> QED BY <1>0, <1>2, <1>3 DEF TransformBody, Binary

DependsBody(s, f, of) ==
  CASE f.t = "NOT" -> FALSE
    [] f.t \in Binary -> (f.t = "AND" /\ (of[f.l] \/ of[f.r]))
    [] OTHER -> DependsLeaf(f, s)
DependsFold == INSTANCE Recursion WITH Body <- DependsBody, Rank <- Size

\* expr_depends_symbol().
LEMMA DependsIs ==
  ASSUME NEW s, NEW e \in Expr
  PROVE  /\ e.t = "NOT" => expr_depends_symbol(e, s) = FALSE
         /\ e.t \in Binary => expr_depends_symbol(e, s) = (e.t = "AND" /\ (expr_depends_symbol(e.l, s) \/ expr_depends_symbol(e.r, s)))
         /\ e.t \notin Binary \union {"NOT"} => expr_depends_symbol(e, s) = DependsLeaf(e, s)
  <1> DEFINE F == DependsFold!Fixed(s, Expr)
  <1>0. (e.t = "NOT" => e.l \in Expr) /\ (e.t \in Binary => e.l \in Expr /\ e.r \in Expr)
    BY Smaller
  <1>1. DependsFold!LooksBelow(s, Expr)
    <2> SUFFICES ASSUME NEW a \in Expr, NEW g, NEW h, \A b \in Expr : Size(b) < Size(a) => g[b] = h[b]
                 PROVE  DependsBody(s, a, g) = DependsBody(s, a, h)
      BY Smaller DEF DependsFold!LooksBelow
    <2>1. (a.t = "NOT" => g[a.l] = h[a.l]) /\ (a.t \in Binary => g[a.l] = h[a.l] /\ g[a.r] = h[a.r])
      BY Smaller
    <2> QED BY <2>1 DEF DependsBody
  <1>2. ASSUME NEW f \in Expr PROVE expr_depends_symbol(f, s) = F[f]
    <2>1. expr_depends_symbol(f, s) = DependsFold!Fixed(s, Exprs[f.size])[f]
      BY DEF expr_depends_symbol, Fold, DependsFold!Fixed, DependsBody
    <2> QED BY <1>1, <2>1, DependsFold!Everywhere, Downward
  <1>3. F[e] = DependsBody(s, e, F)
    BY <1>1, DependsFold!Everywhere
  <1> HIDE DEF F
  <1>4. /\ e.t = "NOT" \/ e.t \in Binary \/ (e.t # "NOT" /\ e.t \notin Binary)
        /\ e.t \in Binary => e.t # "NOT"
    BY DEF Binary
  <1>5. e.t = "NOT" => DependsBody(s, e, F) = FALSE
    BY <1>4, Zenon DEF DependsBody
  <1>6. e.t \in Binary => DependsBody(s, e, F) = (e.t = "AND" /\ (F[e.l] \/ F[e.r]))
    BY <1>4, Zenon DEF DependsBody
  <1>7. e.t # "NOT" /\ e.t \notin Binary => DependsBody(s, e, F) = DependsLeaf(e, s)
    BY <1>4, Zenon DEF DependsBody
  <1>8. e.t \in Binary => (e.t = "AND" /\ (F[e.l] \/ F[e.r]))
                           = (e.t = "AND" /\ (expr_depends_symbol(e.l, s) \/ expr_depends_symbol(e.r, s)))
    BY <1>0, <1>2, Zenon
  <1>9. e.t = "NOT" => expr_depends_symbol(e, s) = FALSE
    BY <1>2, <1>3, <1>5, Zenon
  <1>10. e.t \in Binary => expr_depends_symbol(e, s)
                            = (e.t = "AND" /\ (expr_depends_symbol(e.l, s) \/ expr_depends_symbol(e.r, s)))
    BY <1>2, <1>3, <1>6, <1>8, Zenon
  <1>11. e.t \notin Binary \union {"NOT"} => expr_depends_symbol(e, s) = DependsLeaf(e, s)
    BY <1>2, <1>3, <1>7, Zenon
  <1> QED BY <1>9, <1>10, <1>11

CompareBody(p, f, of) ==
  CASE f.t = "NOT" -> [EQ |-> of[f.l].NE, NE |-> of[f.l].EQ]
    [] f.t \in Binary -> TransCompareBoth(f, of[f.l], of[f.r])
    [] OTHER -> TransCompareLeaf(f)
CompareFold == INSTANCE Recursion WITH Body <- CompareBody, Rank <- Size

\* expr_trans_compare(), both forms.
LEMMA CompareIs ==
  ASSUME NEW e \in Expr
  PROVE  /\ e.t = "NOT" => BothForms(e) = [EQ |-> BothForms(e.l).NE, NE |-> BothForms(e.l).EQ]
         /\ e.t \in Binary => BothForms(e) = TransCompareBoth(e, BothForms(e.l), BothForms(e.r))
         /\ e.t \notin Binary \union {"NOT"} => BothForms(e) = TransCompareLeaf(e)
  <1> DEFINE F == CompareFold!Fixed(0, Expr)
  <1>0. (e.t = "NOT" => e.l \in Expr) /\ (e.t \in Binary => e.l \in Expr /\ e.r \in Expr)
    BY Smaller
  <1>1. CompareFold!LooksBelow(0, Expr)
    <2> SUFFICES ASSUME NEW a \in Expr, NEW g, NEW h, \A b \in Expr : Size(b) < Size(a) => g[b] = h[b]
                 PROVE  CompareBody(0, a, g) = CompareBody(0, a, h)
      BY Smaller DEF CompareFold!LooksBelow
    <2>1. (a.t = "NOT" => g[a.l] = h[a.l]) /\ (a.t \in Binary => g[a.l] = h[a.l] /\ g[a.r] = h[a.r])
      BY Smaller
    <2> QED BY <2>1 DEF CompareBody
  <1>2. ASSUME NEW f \in Expr PROVE BothForms(f) = F[f]
    <2>1. BothForms(f) = CompareFold!Fixed(0, Exprs[f.size])[f]
      BY DEF BothForms, Fold, CompareFold!Fixed, CompareBody
    <2> QED BY <1>1, <2>1, CompareFold!Everywhere, Downward
  <1>3. F[e] = CompareBody(0, e, F)
    BY <1>1, CompareFold!Everywhere
  <1> HIDE DEF F
  <1> QED BY <1>0, <1>2, <1>3 DEF CompareBody, Binary

-----------------------------------------------------------------------------
\* Texts and their order.
Types == BooleanTypes \union {"int", "hex", "string", "unknown"}

\* strcmp() tells the texts apart.
LEMMA Ranks ==
  \A u, v \in Texts : /\ Rank(u) \in 1..11
                      /\ Rank(u) = Rank(v) <=> u = v
  <1>1. DOMAIN TextOrder = 1..11
    BY DEF TextOrder
  <1>2. ASSUME NEW v \in Texts PROVE Rank(v) \in 1..11 /\ TextOrder[Rank(v)] = v
    <2>1. \E i \in DOMAIN TextOrder : TextOrder[i] = v
      BY <1>1 DEF Texts
    <2>2. Rank(v) \in DOMAIN TextOrder /\ TextOrder[Rank(v)] = v
      BY <2>1 DEF Rank
    <2> QED BY <1>1, <2>2
  <1> QED BY <1>2

\* The three-way result is 0 for equal numbers only.
LEMMA SignIs ==
  \A a, b \in Int : Sign(a, b) \in {-1, 0, 1} /\ (Sign(a, b) = 0 <=> a = b)
  BY DEF Sign

\* y, m and n are texts.
LEMMA ConstantTexts == Constant \subseteq Texts
  <1>1. TextOrder[9] = "m" /\ TextOrder[10] = "n" /\ TextOrder[11] = "y" /\ DOMAIN TextOrder = 1..11
    BY DEF TextOrder
  <1>2. 9 \in 1..11 /\ 10 \in 1..11 /\ 11 \in 1..11
    OBVIOUS
  <1> QED BY <1>1, <1>2 DEF Texts, Constant

\* Two numbers are compared as numbers.
LEMMA ComparedSigned ==
  ASSUME NEW p1, NEW p2, NEW v1, NEW v2, p1.kind = "signed", p2.kind = "signed"
  PROVE  CompareParsed(p1, p2, v1, v2, TRUE) = Sign(p1.num, p2.num)
  <1>1. /\ {p1.kind, p2.kind} = {"signed"}
        /\ {p1.kind, p2.kind} \notin {{"unsigned"}, {"signed", "unsigned"}}
        /\ "invalid" \notin {p1.kind, p2.kind}
    OBVIOUS
  <1> QED BY <1>1, Zenon DEF CompareParsed

\* What a text of a symbol parses as.
LEMMA ParsedIs ==
  ASSUME NEW v \in Texts, NEW ty \in Types
  PROVE  /\ expr_parse_string(v, ty).kind \in {"signed", "unsigned", "string"}
         /\ expr_parse_string(v, ty).num \in Int
         /\ ty \in BooleanTypes =>
              /\ expr_parse_string(v, ty).kind = "signed"
              /\ v \in Constant => expr_parse_string(v, ty).num \in 0..2
         /\ ty = "unknown" /\ v \in Constant => expr_parse_string(v, ty).kind = "string"
         /\ ty = "unknown" /\ expr_parse_string(v, ty).kind # "string" =>
              /\ expr_parse_string(v, ty).kind = "signed"
              /\ expr_parse_string(v, ty).num \in {-1, 10, 16, 9}
  <1>1. CASE ty \in BooleanTypes
    <2>1. expr_parse_string(v, ty) =
            [kind |-> "signed", num |-> CASE v = "n" -> 0 [] v = "m" -> 1 [] v = "y" -> 2 [] OTHER -> -1]
      BY <1>1 DEF expr_parse_string, BooleanTypes
    <2> QED BY <1>1, <2>1 DEF BooleanTypes, Constant
  <1>2. CASE ty = "int"
    <2>1. expr_parse_string(v, ty) = Parsed("signed", Base10, v)
      BY <1>2 DEF expr_parse_string, BooleanTypes
    <2> QED BY <1>2, <2>1 DEF Parsed, Base10, BooleanTypes
  <1>3. CASE ty = "hex"
    <2>1. expr_parse_string(v, ty) = Parsed("unsigned", Base16, v)
      BY <1>3 DEF expr_parse_string, BooleanTypes
    <2> QED BY <1>3, <2>1 DEF Parsed, Base16, BooleanTypes
  <1>4. CASE ty \in {"string", "unknown"}
    <2>1. expr_parse_string(v, ty) = Parsed("signed", Base0, v)
      BY <1>4 DEF expr_parse_string, BooleanTypes
    <2>2. \A u \in DOMAIN Base0 : Base0[u] \in {-1, 10, 16, 9}
      BY DEF Base0
    <2>3. Constant \cap DOMAIN Base0 = {}
      BY DEF Base0, Constant
    <2> QED BY <1>4, <2>1, <2>2, <2>3 DEF Parsed, BooleanTypes
  <1> QED BY <1>1, <1>2, <1>3, <1>4 DEF Types

\* Two values are always ordered: a relation between them has a value.
LEMMA ComparedIs ==
  ASSUME NEW v1 \in Texts, NEW v2 \in Texts, NEW ty1 \in Types, NEW ty2 \in Types, NEW eq
  PROVE  CompareTexts(v1, ty1, v2, ty2, eq) \in {-1, 0, 1}
  <1> DEFINE p1 == expr_parse_string(v1, ty1)
             p2 == expr_parse_string(v2, ty2)
  <1>1. /\ p1.kind \in {"signed", "unsigned", "string"} /\ p1.num \in Int
        /\ p2.kind \in {"signed", "unsigned", "string"} /\ p2.num \in Int
    BY ParsedIs
  <1>2. Rank(v1) \in Int /\ Rank(v2) \in Int
    BY Ranks
  <1> HIDE DEF p1, p2
  <1>3. Unsigned(p1.num) \in Int /\ Unsigned(p2.num) \in Int
    BY <1>1 DEF Unsigned, WordSize
  <1>4. \/ CompareParsed(p1, p2, v1, v2, eq) = Sign(p1.num, p2.num)
        \/ CompareParsed(p1, p2, v1, v2, eq) = Sign(Unsigned(p1.num), Unsigned(p2.num))
        \/ CompareParsed(p1, p2, v1, v2, eq) = Sign(Rank(v1), Rank(v2))
    BY <1>1 DEF CompareParsed
  <1>5. CompareParsed(p1, p2, v1, v2, eq) \in {-1, 0, 1}
    BY <1>1, <1>2, <1>3, <1>4, SignIs
  <1>6. Sign(Rank(v1), Rank(v2)) \in {-1, 0, 1}
    BY <1>2, SignIs
  <1> QED BY <1>5, <1>6 DEF CompareTexts, p1, p2

\* The comparison for = and !=.
Equated(v1, ty1, v2, ty2) == CompareTexts(v1, ty1, v2, ty2, TRUE)

\* A boolean, or a constant y, m, n, is compared with a constant by its text.
LEMMA ComparedByText ==
  ASSUME NEW v1 \in Constant, NEW ty1 \in BooleanTypes \union {"unknown"}, NEW v2 \in Constant, NEW ty2, ty2 = "unknown"
  PROVE  Equated(v1, ty1, v2, ty2) = 0 <=> v1 = v2
  <1> DEFINE p1 == expr_parse_string(v1, ty1)
             p2 == expr_parse_string(v2, ty2)
  <1>0. Constant \subseteq Texts
    BY ConstantTexts
  <1>1. p1.kind \in {"signed", "string"} /\ p2.kind = "string"
    BY <1>0, ParsedIs DEF Types
  <1> HIDE DEF p1, p2
  <1>2. CompareParsed(p1, p2, v1, v2, TRUE) = Sign(Rank(v1), Rank(v2))
    BY <1>1 DEF CompareParsed
  <1>3. Sign(Rank(v1), Rank(v2)) = 0 <=> v1 = v2
    BY <1>0, Ranks, SignIs
  <1>4. Equated(v1, ty1, v2, ty2) = CompareParsed(p1, p2, v1, v2, TRUE)
    BY DEF Equated, CompareTexts, p1, p2
  <1> QED BY <1>2, <1>3, <1>4

\* A boolean does not equal two constants.
LEMMA ComparedWithTwo ==
  ASSUME NEW v \in Constant, NEW ty \in BooleanTypes, NEW c \in Texts, NEW d \in Texts, c # d, NEW ty2, ty2 = "unknown",
         Equated(v, ty, c, ty2) = 0
  PROVE  Equated(v, ty, d, ty2) # 0
  <1>0. v \in Texts
    BY ConstantTexts
  <1> DEFINE p == expr_parse_string(v, ty)
  <1>1. p.kind = "signed" /\ p.num \in 0..2
    BY <1>0, ParsedIs DEF Types
  <1>2. ASSUME NEW u \in Texts, Equated(v, ty, u, ty2) = 0 PROVE u = v
    <2> DEFINE q == expr_parse_string(u, ty2)
    <2>1. q.kind = "string" \/ (q.kind = "signed" /\ q.num \in {-1, 10, 16, 9})
      BY ParsedIs DEF Types
    <2>2. CompareParsed(p, q, v, u, TRUE) = 0
      BY <1>2 DEF Equated, CompareTexts, BooleanTypes
    <2> HIDE DEF p, q
    <2>3. q.kind = "signed" => CompareParsed(p, q, v, u, TRUE) = Sign(p.num, q.num)
      BY <1>1, ComparedSigned, Zenon
    <2>4. q.kind = "string" => CompareParsed(p, q, v, u, TRUE) = Sign(Rank(v), Rank(u))
      <3>1. ASSUME q.kind = "string" PROVE CompareParsed(p, q, v, u, TRUE) = Sign(Rank(v), Rank(u))
        <4>1. /\ {p.kind, q.kind} # {"signed"}
              /\ {p.kind, q.kind} \notin {{"unsigned"}, {"signed", "unsigned"}}
              /\ "invalid" \notin {p.kind, q.kind}
          BY <1>1, <3>1
        <4> QED BY <4>1, Zenon DEF CompareParsed
      <3> QED BY <3>1
    <2>5. q.kind = "signed" => p.num = q.num
      <3>1. q.kind = "signed" => Sign(p.num, q.num) = 0
        BY <2>2, <2>3, Zenon
      <3> QED BY <1>1, <2>1, <3>1, SignIs
    <2>6. q.kind = "string" => u = v
      <3>1. q.kind = "string" => Sign(Rank(v), Rank(u)) = 0
        BY <2>2, <2>4, Zenon
      <3> QED BY <1>0, <3>1, Ranks, SignIs
    <2> QED BY <1>1, <2>1, <2>5, <2>6
  <1> QED BY <1>2

-----------------------------------------------------------------------------
\* Values.
LEMMA WorldIs ==
  ASSUME NEW w, IsWorld(w), NEW s \in DOMAIN SymType
  PROVE  /\ w.tri[s] \in {0, 1, 2} /\ w.txt[s] \in Texts /\ SymType[s] \in Types
         /\ IsBoolean(s) => /\ w.txt[s] \in Constant
                            /\ w.txt[s] = "n" <=> w.tri[s] = 0
                            /\ w.txt[s] = "m" <=> w.tri[s] = 1
                            /\ w.txt[s] = "y" <=> w.tri[s] = 2
         /\ SymType[s] = "bool" => w.tri[s] # 1
         /\ s \in ConstSyms => w.txt[s] = s /\ SymType[s] = "unknown" /\ ~IsBoolean(s)
         /\ s \in Constant => s \in ConstSyms /\ w.tri[s] = (IF s = "y" THEN 2 ELSE IF s = "m" THEN 1 ELSE 0)
  <1>1. w.tri \in [DOMAIN SymType -> {no, mod, yes}] /\ w.txt \in [DOMAIN SymType -> Texts]
    BY DEF IsWorld
  <1>2. w.tri[s] \in {0, 1, 2} /\ w.txt[s] \in Texts
    BY <1>1 DEF no, mod, yes
  <1>3. ASSUME IsBoolean(s)
        PROVE  /\ w.txt[s] \in Constant
               /\ w.txt[s] = "n" <=> w.tri[s] = 0
               /\ w.txt[s] = "m" <=> w.tri[s] = 1
               /\ w.txt[s] = "y" <=> w.tri[s] = 2
    <2>1. w.txt[s] = TriText(w.tri[s])
      BY <1>3 DEF IsWorld
    <2>2. TriText(0) = "n" /\ TriText(1) = "m" /\ TriText(2) = "y"
      BY DEF TriText
    <2> QED BY <1>2, <2>1, <2>2 DEF Constant
  <1>4. SymType[s] \in Types
    BY SymbolsAssumption DEF Types
  <1>5. ASSUME s \in ConstSyms PROVE w.txt[s] = s /\ SymType[s] = "unknown" /\ ~IsBoolean(s)
    BY <1>5, SymbolsAssumption DEF IsWorld, IsBoolean, BooleanTypes
  <1>6. ASSUME s \in Constant
        PROVE  s \in ConstSyms /\ w.tri[s] = (IF s = "y" THEN 2 ELSE IF s = "m" THEN 1 ELSE 0)
    <2>1. s \in ConstSyms
      BY <1>6, SymbolsAssumption
    <2>2. ~IsBoolean(s)
      BY <1>5, <2>1
    <2>3. w.tri[s] = (CASE s = "y" -> yes [] s = "m" -> mod [] OTHER -> no)
      BY <2>2 DEF IsWorld
    <2> QED BY <1>6, <2>1, <2>3 DEF Constant, yes, mod, no
  <1>7. SymType[s] = "bool" => w.tri[s] # 1
    BY DEF IsWorld, mod
  <1> QED BY <1>2, <1>3, <1>4, <1>5, <1>6, <1>7

Compared(t, a, b, w) ==
  CompareTexts(w.txt[a], SymType[a], w.txt[b], SymType[b], t \in {"EQ", "NE"})

\* The three kinds of leaves.
LEMMA AtomSplit ==
  ASSUME NEW e, Atom(e)
  PROVE  \/ e = NoExpr
         \/ e.s \in DOMAIN SymType /\ e = Sym(e.s)
         \/ e.t \in Comparisons /\ e.a \in DOMAIN SymType /\ e.b \in DOMAIN SymType /\ e = Comp(e.t, e.a, e.b)
  BY DEF Atom, Atoms, AtomsOf, Sym, Comp

\* The same, of two symbols in a world.
LEMMA ComparedType ==
  ASSUME NEW w, IsWorld(w), NEW t \in Comparisons, NEW a \in DOMAIN SymType, NEW b \in DOMAIN SymType
  PROVE  Compared(t, a, b, w) \in {-1, 0, 1}
  <1>1. CASE t \in {"EQ", "NE"}
    <2>1. (t \in {"EQ", "NE"}) = TRUE
      BY <1>1
    <2> QED BY WorldIs, ComparedIs DEF Compared
  <1>2. CASE t \notin {"EQ", "NE"}
    <2>1. (t \in {"EQ", "NE"}) = FALSE
      BY <1>2
    <2> QED BY WorldIs, ComparedIs DEF Compared
  <1> QED BY <1>1, <1>2

\* The values of leaves.
LEMMA AtomValue ==
  ASSUME NEW w
  PROVE  /\ Value(NoExpr, w) = 2
         /\ \A s \in DOMAIN SymType : Value(Sym(s), w) = w.tri[s]
         /\ \A t \in Comparisons, a, b \in DOMAIN SymType :
              Value(Comp(t, a, b), w) = IF Relation(t, Compared(t, a, b, w)) THEN 2 ELSE 0
  <1>1. Value(NoExpr, w) = 2
    <2>1. NoExpr \in Expr /\ NoExpr.t = "NULL"
      BY ExprMake DEF NoExpr
    <2>2. Value(NoExpr, w) = LeafValue(NoExpr, w.tri, w.txt)
      BY <2>1, ValueIs DEF Binary
    <2> QED BY <2>1, <2>2 DEF LeafValue, yes
  <1>2. ASSUME NEW s \in DOMAIN SymType PROVE Value(Sym(s), w) = w.tri[s]
    <2>1. Sym(s) \in Expr /\ Sym(s).t = "SYM" /\ Sym(s).s = s
      BY ExprMake DEF Sym
    <2>2. Value(Sym(s), w) = LeafValue(Sym(s), w.tri, w.txt)
      BY <2>1, ValueIs DEF Binary
    <2> QED BY <2>1, <2>2 DEF LeafValue
  <1>3. ASSUME NEW t \in Comparisons, NEW a \in DOMAIN SymType, NEW b \in DOMAIN SymType
        PROVE  Value(Comp(t, a, b), w) = IF Relation(t, Compared(t, a, b, w)) THEN 2 ELSE 0
    <2> DEFINE e == Comp(t, a, b)
    <2>1. e \in Expr /\ e.t = t /\ e.a = a /\ e.b = b
      BY ExprMake DEF Comp
    <2>2. t \notin Binary \union {"NOT", "NULL", "SYM"}
      BY DEF Comparisons, Binary
    <2>3. Value(e, w) = LeafValue(e, w.tri, w.txt)
      BY <2>1, <2>2, ValueIs
    <2> HIDE DEF e
    <2>4. LeafValue(e, w.tri, w.txt)
            = IF Relation(e.t, CompareTexts(w.txt[e.a], SymType[e.a], w.txt[e.b], SymType[e.b], e.t \in {"EQ", "NE"}))
              THEN yes ELSE no
      BY <2>1, <2>2 DEF LeafValue
    <2> QED BY <2>1, <2>3, <2>4 DEF yes, no, Compared, e
  <1> QED BY <1>1, <1>2, <1>3

\* A comparison is y or n, and its opposite the other of the two.
LEMMA FlipIs ==
  ASSUME NEW w, IsWorld(w), NEW t \in Comparisons, NEW a \in DOMAIN SymType, NEW b \in DOMAIN SymType
  PROVE  /\ Value(Comp(t, a, b), w) \in {0, 2}
         /\ Flip[t] \in Comparisons
         /\ Value(Comp(Flip[t], a, b), w) = 2 - Value(Comp(t, a, b), w)
  <1>1. Flip[t] \in Comparisons /\ (Flip[t] \in {"EQ", "NE"} <=> t \in {"EQ", "NE"})
    BY DEF Flip, Comparisons
  <1>2. Compared(Flip[t], a, b, w) = Compared(t, a, b, w)
    <2>1. (Flip[t] \in {"EQ", "NE"}) = (t \in {"EQ", "NE"})
      BY <1>1
    <2> QED BY <2>1, Zenon DEF Compared
  <1> DEFINE r == Compared(t, a, b, w)
  <1>3. r \in {-1, 0, 1}
    BY ComparedType
  <1> HIDE DEF r
  <1>4. Relation(Flip[t], r) <=> ~Relation(t, r)
    <2>1. \/ t = "EQ" /\ Flip[t] = "NE"
          \/ t = "NE" /\ Flip[t] = "EQ"
          \/ t = "LT" /\ Flip[t] = "GE"
          \/ t = "GE" /\ Flip[t] = "LT"
          \/ t = "LE" /\ Flip[t] = "GT"
          \/ t = "GT" /\ Flip[t] = "LE"
      <3>1. /\ Flip["EQ"] = "NE" /\ Flip["NE"] = "EQ" /\ Flip["LT"] = "GE"
            /\ Flip["GE"] = "LT" /\ Flip["LE"] = "GT" /\ Flip["GT"] = "LE"
        BY DEF Flip
      <3>2. t = "EQ" \/ t = "NE" \/ t = "LT" \/ t = "LE" \/ t = "GT" \/ t = "GE"
        BY DEF Comparisons
      <3> QED BY <3>1, <3>2, Zenon
    <2>2. /\ Relation("EQ", r) <=> r = 0
          /\ Relation("NE", r) <=> r # 0
          /\ Relation("LT", r) <=> r < 0
          /\ Relation("LE", r) <=> r <= 0
          /\ Relation("GT", r) <=> r > 0
          /\ Relation("GE", r) <=> r >= 0
      BY <1>3 DEF Relation
    <2> QED BY <1>3, <2>1, <2>2
  <1>5. Value(Comp(t, a, b), w) = IF Relation(t, r) THEN 2 ELSE 0
    BY AtomValue DEF r
  <1>6. Value(Comp(Flip[t], a, b), w) = IF Relation(Flip[t], r) THEN 2 ELSE 0
    BY <1>1, <1>2, AtomValue DEF r
  <1> QED BY <1>1, <1>4, <1>5, <1>6

\* A value is n, m or y.
LEMMA ValueType ==
  ASSUME NEW w, IsWorld(w)
  PROVE  \A e \in Expr : Value(e, w) \in {0, 1, 2}
  <1> DEFINE G == {e \in Expr : Value(e, w) \in {0, 1, 2}}
  <1>1. ASSUME NEW e \in Expr, Atom(e) PROVE e \in G
    BY <1>1, AtomSplit, AtomValue, WorldIs
  <1>2. ASSUME NEW e \in Expr, IsNot(e), e.l \in G PROVE e \in G
    BY <1>2, ValueIs DEF IsNot, EXPR_NOT
  <1>3. ASSUME NEW e \in Expr, IsTwo(e), e.l \in G, e.r \in G PROVE e \in G
    BY <1>3, ValueIs DEF IsTwo, EXPR_AND, EXPR_OR
  <1> HIDE DEF G
  <1>4. \A e \in Expr : e \in G
    BY <1>1, <1>2, <1>3, ExprInduction
  <1> QED BY <1>4 DEF G

\* The value of what the operators make.
Op(t, a, b) == IF t = "AND" THEN EXPR_AND(a, b) ELSE EXPR_OR(a, b)

\* The value of a node put on trees.
LEMMA MakeValue ==
  ASSUME NEW w, NEW l \in Expr
  PROVE  /\ Value(Not(l), w) = 2 - Value(l, w)
         /\ \A t \in Binary, r \in Expr : Value(Two(t, l, r), w) = Op(t, Value(l, w), Value(r, w))
  <1>1. Not(l) \in Expr /\ Not(l).t = "NOT" /\ Not(l).l = l
    BY ExprMake DEF Not
  <1>2. ASSUME NEW t \in Binary, NEW r \in Expr PROVE Value(Two(t, l, r), w) = Op(t, Value(l, w), Value(r, w))
    <2>1. Two(t, l, r) \in Expr /\ Two(t, l, r).t = t /\ Two(t, l, r).l = l /\ Two(t, l, r).r = r
      BY ExprMake DEF Two
    <2> QED BY <2>1, ValueIs DEF Op
  <1> QED BY <1>1, <1>2, ValueIs DEF EXPR_NOT

\* The values of y, m and n.
LEMMA ConstantValue ==
  ASSUME NEW w, IsWorld(w)
  PROVE  /\ Sym("y") \in Expr /\ Sym("m") \in Expr /\ Sym("n") \in Expr
         /\ Value(Sym("y"), w) = 2 /\ Value(Sym("m"), w) = 1 /\ Value(Sym("n"), w) = 0
  <1>1. Constant \subseteq DOMAIN SymType
    BY SymbolsAssumption
  <1> QED BY <1>1, AtomValue, WorldIs, ExprMake DEF Constant

\* A boolean, a tristate or y, m, n compared with y, m or n.
LEMMA EqValue ==
  ASSUME NEW w, IsWorld(w), NEW s \in DOMAIN SymType, IsBoolean(s) \/ s \in Constant, NEW c \in Constant
  PROVE  /\ Comp("EQ", s, c) \in Expr /\ Comp("NE", s, c) \in Expr
         /\ Value(Comp("EQ", s, c), w) = IF w.txt[s] = c THEN 2 ELSE 0
         /\ Value(Comp("NE", s, c), w) = IF w.txt[s] = c THEN 0 ELSE 2
  <1>1. c \in DOMAIN SymType /\ SymType[c] = "unknown" /\ w.txt[c] = c /\ w.txt[s] \in Constant
        /\ SymType[s] \in BooleanTypes \union {"unknown"}
    BY SymbolsAssumption, WorldIs DEF IsBoolean
  <1>2. "EQ" \in Comparisons /\ "NE" \in Comparisons
    BY DEF Comparisons
  <1>3. ASSUME NEW t \in {"EQ", "NE"} PROVE Compared(t, s, c, w) = 0 <=> w.txt[s] = c
    <2>1. (t \in {"EQ", "NE"}) = TRUE
      OBVIOUS
    <2>2. Compared(t, s, c, w) = Equated(w.txt[s], SymType[s], w.txt[c], SymType[c])
      BY <2>1, Zenon DEF Compared, Equated
    <2>3. Equated(w.txt[s], SymType[s], w.txt[c], SymType[c]) = 0 <=> w.txt[s] = w.txt[c]
      BY <1>1, ComparedByText
    <2> QED BY <1>1, <2>2, <2>3
  <1>4. \A t \in {"EQ", "NE"} : Compared(t, s, c, w) \in {-1, 0, 1}
    BY <1>1, <1>2, ComparedType
  <1>5. /\ Value(Comp("EQ", s, c), w) = IF Relation("EQ", Compared("EQ", s, c, w)) THEN 2 ELSE 0
        /\ Value(Comp("NE", s, c), w) = IF Relation("NE", Compared("NE", s, c, w)) THEN 2 ELSE 0
    BY <1>1, <1>2, AtomValue
  <1>6. \A r \in {-1, 0, 1} : (Relation("EQ", r) <=> r = 0) /\ (Relation("NE", r) <=> r # 0)
    BY DEF Relation
  <1> QED BY <1>1, <1>2, <1>3, <1>4, <1>5, <1>6, ExprMake

-----------------------------------------------------------------------------
\* What the rewrites make of a condition: a tree whose negations are only in
\* front of symbols, or of nothing.
Plain(f) == f = NoExpr \/ (f.t = "SYM" /\ f = Sym(f.s) /\ f.s \in DOMAIN SymType \ Constant)
Tidy(e) == e \in Expr /\ \A f \in Negated(e) : Plain(f)

\* The same, of a tree by its parts.
LEMMA TidySplit ==
  ASSUME NEW e \in Expr
  PROVE  /\ Atom(e) => Tidy(e)
         /\ IsNot(e) => (Tidy(e) <=> (e.l \in Expr /\ Plain(e.l)))
         /\ IsTwo(e) => (Tidy(e) <=> (Tidy(e.l) /\ Tidy(e.r)))
  <1>1. CASE Atom(e) /\ e.t \notin Binary \union {"NOT"}
    <2>1. Negated(e) = {}
      BY <1>1, NegatedIs
    <2>2. ~IsNot(e) /\ ~IsTwo(e)
      BY <1>1 DEF IsNot, IsTwo
    <2> QED BY <2>1, <2>2 DEF Tidy
  <1>2. CASE IsNot(e) /\ e.l \in Expr
    <2>1. Negated(e) = {e.l}
      BY <1>2, NegatedIs DEF IsNot
    <2>2. ~Atom(e) /\ ~IsTwo(e)
      BY <1>2 DEF Atom, Atoms, AtomsOf, IsNot, IsTwo, NoExpr, Comparisons, Binary
    <2> QED BY <1>2, <2>1, <2>2 DEF Tidy
  <1>3. CASE IsTwo(e) /\ e.l \in Expr /\ e.r \in Expr
    <2>1. Negated(e) = Negated(e.l) \union Negated(e.r)
      BY <1>3, NegatedIs DEF IsTwo
    <2>2. ~Atom(e) /\ ~IsNot(e)
      BY <1>3 DEF Atom, Atoms, AtomsOf, IsNot, IsTwo, NoExpr, Comparisons, Binary
    <2> QED BY <1>3, <2>1, <2>2 DEF Tidy
  <1> QED BY <1>1, <1>2, <1>3, ExprSplit

\* Tidy trees put together.
LEMMA TidyMake ==
  /\ Tidy(NoExpr)
  /\ \A s \in DOMAIN SymType : Tidy(Sym(s))
  /\ \A s \in DOMAIN SymType \ Constant : Tidy(Not(Sym(s)))
  /\ Tidy(Not(NoExpr))
  /\ \A t \in Comparisons, a, b \in DOMAIN SymType : Tidy(Comp(t, a, b))
  /\ \A t \in Binary : \A l, r : Tidy(l) /\ Tidy(r) => Tidy(Two(t, l, r))
  /\ \A t \in Binary : \A l, r : l \in Expr /\ r \in Expr => Two(t, l, r) \in Expr
  /\ \A l : l \in Expr => Not(l) \in Expr
  <1>1. NoExpr \in Expr /\ Atom(NoExpr) /\ NoExpr.t # "SYM"
    BY ExprMake DEF Atom, Atoms, AtomsOf, NoExpr
  <1>2. ASSUME NEW s \in DOMAIN SymType PROVE Sym(s) \in Expr /\ Atom(Sym(s)) /\ Sym(s).t = "SYM" /\ Sym(s).s = s
    BY ExprMake, SymbolsAssumption DEF Atom, Atoms, AtomsOf, Sym
  <1>3. ASSUME NEW t \in Comparisons, NEW a \in DOMAIN SymType, NEW b \in DOMAIN SymType
        PROVE  Comp(t, a, b) \in Expr /\ Atom(Comp(t, a, b)) /\ Comp(t, a, b).t # "SYM"
    BY ExprMake DEF Atom, Atoms, AtomsOf, Comp, Comparisons
  <1>4. ASSUME NEW l \in Expr PROVE Not(l) \in Expr /\ IsNot(Not(l)) /\ Not(l).l = l
    BY ExprMake DEF Not, IsNot
  <1>5. ASSUME NEW t \in Binary, NEW l \in Expr, NEW r \in Expr
        PROVE  Two(t, l, r) \in Expr /\ IsTwo(Two(t, l, r)) /\ Two(t, l, r).l = l /\ Two(t, l, r).r = r
    <2>1. Two(t, l, r).t = t /\ Two(t, l, r).l = l /\ Two(t, l, r).r = r
      BY DEF Two
    <2> QED BY <2>1, ExprMake DEF IsTwo
  <1>6. Tidy(NoExpr) /\ NoExpr \in Expr
    BY <1>1, TidySplit
  <1>7. \A s \in DOMAIN SymType : Tidy(Sym(s)) /\ Sym(s) \in Expr
    BY <1>2, TidySplit
  <1>8. \A s \in DOMAIN SymType \ Constant : Plain(Sym(s))
    BY <1>2 DEF Plain
  <1>9. Tidy(Not(NoExpr))
    <2>1. Plain(NoExpr)
      BY DEF Plain
    <2> QED BY <1>1, <1>4, <1>6, <2>1, TidySplit
  <1>10. \A s \in DOMAIN SymType \ Constant : Tidy(Not(Sym(s)))
    BY <1>2, <1>4, <1>7, <1>8, TidySplit
  <1>11. \A t \in Comparisons, a, b \in DOMAIN SymType : Tidy(Comp(t, a, b))
    BY <1>3, TidySplit
  <1>12. \A t \in Binary : \A l, r : Tidy(l) /\ Tidy(r) => Tidy(Two(t, l, r))
    BY <1>5, TidySplit DEF Tidy
  <1>13. \A t \in Binary : \A l, r : l \in Expr /\ r \in Expr => Two(t, l, r) \in Expr
    BY <1>5, TidySplit
  <1>14. \A l : l \in Expr => Not(l) \in Expr
    BY <1>4, TidySplit
  <1> QED BY <1>6, <1>7, <1>9, <1>10, <1>11, <1>12, <1>13, <1>14

-----------------------------------------------------------------------------
\* m becomes m && MODULES.
LEMMA RewriteKeeps ==
  \A e \in Expr : rewrite_m(e) \in Expr
  <1> DEFINE G == {e \in Expr : rewrite_m(e) \in Expr}
  <1>0. ModulesSym \in DOMAIN SymType
    BY SymbolsAssumption
  <1>1. ASSUME NEW e \in Expr, Atom(e), e.t \notin Binary \union {"NOT"} PROVE e \in G
    <2>1. rewrite_m(e) = RewriteLeaf(e)
      BY <1>1, RewriteIs
    <2>2. Sym(ModulesSym) \in Expr
      BY <1>0, TidyMake DEF Tidy
    <2>3. "AND" \in Binary
      BY DEF Binary
    <2> QED BY <2>1, <2>2, <2>3, TidyMake DEF RewriteLeaf
  <1>2. ASSUME NEW e \in Expr, IsNot(e), e.l \in Expr, e.l \in G PROVE e \in G
    <2>1. rewrite_m(e) = Not(rewrite_m(e.l))
      BY <1>2, RewriteIs DEF IsNot
    <2> QED BY <1>2, <2>1, TidyMake, TidySplit
  <1>3. ASSUME NEW e \in Expr, IsTwo(e), e.l \in Expr, e.r \in Expr, e.l \in G, e.r \in G PROVE e \in G
    <2>1. rewrite_m(e) = Two(e.t, rewrite_m(e.l), rewrite_m(e.r)) /\ e.t \in Binary
      BY <1>3, RewriteIs DEF IsTwo
    <2> QED BY <1>3, <2>1, TidyMake, TidySplit
  <1> HIDE DEF G
  <1>4. \A e \in Expr : e \in G
    BY <1>1, <1>2, <1>3, ExprInduction
  <1> QED BY <1>4 DEF G

\* && with nothing on one side.
LEMMA AllocIs ==
  ASSUME NEW l, NEW r
  PROVE  /\ Tidy(l) /\ Tidy(r) => Tidy(expr_alloc_and(l, r))
         /\ l \in Expr /\ r \in Expr => expr_alloc_and(l, r) \in Expr
         /\ \A w : IsWorld(w) /\ l \in Expr /\ r \in Expr =>
              Value(expr_alloc_and(l, r), w) = EXPR_AND(Value(l, w), Value(r, w))
  <1>1. "AND" \in Binary
    BY DEF Binary
  <1>2. ASSUME NEW w, IsWorld(w), l \in Expr, r \in Expr
        PROVE  Value(expr_alloc_and(l, r), w) = EXPR_AND(Value(l, w), Value(r, w))
    BY <1>1, <1>2, AtomValue, ValueType, MakeValue DEF expr_alloc_and, EXPR_AND, Op
  <1> QED BY <1>1, <1>2, TidyMake DEF expr_alloc_and

\* Constants disappear.
LEMMA ConstantsGo ==
  \A e \in Expr : /\ expr_eliminate_yn(e) \in Expr
                  /\ expr_eliminate_yn(e).size <= e.size
                  /\ Tidy(e) => Tidy(expr_eliminate_yn(e))
                  /\ \A w : IsWorld(w) => Value(expr_eliminate_yn(e), w) = Value(e, w)
  <1> DEFINE Good(e) == /\ expr_eliminate_yn(e) \in Expr
                        /\ expr_eliminate_yn(e).size <= e.size
                        /\ Tidy(e) => Tidy(expr_eliminate_yn(e))
                        /\ \A w : IsWorld(w) => Value(expr_eliminate_yn(e), w) = Value(e, w)
             G == {e \in Expr : Good(e)}
  <1>1. ASSUME NEW e \in Expr, e.t \notin Binary PROVE e \in G
    <2>1. expr_eliminate_yn(e) = e
      BY <1>1, ConstantsIs
    <2>2. e.size \in Nat
      BY ExprIs
    <2> QED BY <2>1, <2>2
  <1>2. ASSUME NEW e \in Expr, IsTwo(e), e.l \in Expr, e.r \in Expr, e.l \in G, e.r \in G PROVE e \in G
    <2> DEFINE l == expr_eliminate_yn(e.l)
               r == expr_eliminate_yn(e.r)
    <2>1. expr_eliminate_yn(e) = WithoutConstants(e.t, l, r) /\ e.t \in Binary
      BY <1>2, ConstantsIs DEF IsTwo
    <2>2. l \in Expr /\ r \in Expr /\ l.size <= e.l.size /\ r.size <= e.r.size
      BY <1>2
    <2>3. /\ l.size \in Nat \ {0} /\ r.size \in Nat \ {0} /\ e.l.size \in Nat \ {0} /\ e.r.size \in Nat \ {0}
          /\ e.size = e.l.size + e.r.size + 1
      BY <1>2, <2>2, ExprIs DEF IsTwo, Two
    <2>4. Tidy(e) => Tidy(l) /\ Tidy(r)
      BY <1>2, TidySplit
    <2>5. \A w : IsWorld(w) => Value(l, w) = Value(e.l, w) /\ Value(r, w) = Value(e.r, w)
      BY <1>2
    <2>6. \A w : IsWorld(w) => Value(e, w) = Op(e.t, Value(l, w), Value(r, w))
      BY <1>2, <2>1, <2>5, ValueIs DEF Op
    <2> HIDE DEF l, r, G
    <2>7. /\ Sym(Zero(e.t)) \in Expr /\ Sym(Zero(e.t)).size = 1 /\ Tidy(Sym(Zero(e.t)))
          /\ \A w : IsWorld(w) => /\ Value(Sym(Zero(e.t)), w) = IF e.t = "AND" THEN 0 ELSE 2
                                  /\ Value(Sym(Unit(e.t)), w) = IF e.t = "AND" THEN 2 ELSE 0
      <3>1. Zero(e.t) \in Constant /\ Constant \subseteq DOMAIN SymType
        BY SymbolsAssumption DEF Zero, Constant
      <3>2. Sym(Zero(e.t)).size = 1
        BY DEF Sym
      <3>3. Tidy(Sym(Zero(e.t)))
        BY <3>1, TidyMake
      <3> QED BY <3>2, <3>3, ConstantValue DEF Tidy, Zero, Unit
    <2>8. CASE Sym(Zero(e.t)) \in {l, r}
      <3>1. expr_eliminate_yn(e) = Sym(Zero(e.t))
        BY <2>1, <2>8 DEF WithoutConstants
      <3>2. \A w : IsWorld(w) => Value(e, w) = Value(Sym(Zero(e.t)), w)
        BY <2>1, <2>2, <2>6, <2>7, <2>8, ValueType DEF Op, EXPR_AND, EXPR_OR, Binary
      <3> QED BY <2>3, <2>7, <3>1, <3>2 DEF G
    <2>9. CASE Sym(Zero(e.t)) \notin {l, r} /\ l = Sym(Unit(e.t))
      <3>1. expr_eliminate_yn(e) = r
        BY <2>1, <2>9 DEF WithoutConstants
      <3>2. \A w : IsWorld(w) => Value(e, w) = Value(r, w)
        BY <2>1, <2>2, <2>6, <2>7, <2>9, ValueType DEF Op, EXPR_AND, EXPR_OR, Binary
      <3> QED BY <2>2, <2>3, <2>4, <3>1, <3>2 DEF G
    <2>10. CASE Sym(Zero(e.t)) \notin {l, r} /\ l # Sym(Unit(e.t)) /\ r = Sym(Unit(e.t))
      <3>1. expr_eliminate_yn(e) = l
        BY <2>1, <2>10 DEF WithoutConstants
      <3>2. \A w : IsWorld(w) => Value(e, w) = Value(l, w)
        BY <2>1, <2>2, <2>6, <2>7, <2>10, ValueType DEF Op, EXPR_AND, EXPR_OR, Binary
      <3> QED BY <2>2, <2>3, <2>4, <3>1, <3>2 DEF G
    <2>11. CASE Sym(Zero(e.t)) \notin {l, r} /\ l # Sym(Unit(e.t)) /\ r # Sym(Unit(e.t))
      <3>1. expr_eliminate_yn(e) = Two(e.t, l, r)
        BY <2>1, <2>11 DEF WithoutConstants
      <3>2. Two(e.t, l, r).size = l.size + r.size + 1
        BY DEF Two
      <3>3. Two(e.t, l, r) \in Expr /\ Two(e.t, l, r).size <= e.size
        BY <2>1, <2>2, <2>3, <3>2, ExprMake
      <3>4. \A w : IsWorld(w) => Value(e, w) = Value(Two(e.t, l, r), w)
        BY <2>1, <2>2, <2>6, MakeValue
      <3> QED BY <2>1, <2>4, <3>1, <3>3, <3>4, TidyMake DEF G
    <2> QED BY <2>8, <2>9, <2>10, <2>11
  <1> HIDE DEF G
  <1>3. \A e \in Expr : e \in G
    BY <1>1, <1>2, ExprInduction DEF IsNot, Binary
  <1> QED BY <1>3 DEF G

-----------------------------------------------------------------------------
\* Negations move to the leaves.
LEMMA NegateKeeps ==
  \A e \in Expr : Tidy(e) => /\ Tidy(Negate(e))
                             /\ \A w : IsWorld(w) => Value(Negate(e), w) = 2 - Value(e, w)
  <1> DEFINE G == {e \in Expr : Tidy(e) => /\ Tidy(Negate(e))
                                           /\ \A w : IsWorld(w) => Value(Negate(e), w) = 2 - Value(e, w)}
  <1>1. ASSUME NEW e \in Expr, Atom(e), e.t \notin Binary \union {"NOT"} PROVE e \in G
    <2>1. Negate(e) = NegateLeaf(e)
      BY <1>1, NegateIs
    <2> SUFFICES ASSUME Tidy(e)
                 PROVE  /\ Tidy(NegateLeaf(e))
                        /\ \A w : IsWorld(w) => Value(NegateLeaf(e), w) = 2 - Value(e, w)
      BY <2>1
    <2>2. CASE e = NoExpr
      <3>1. NegateLeaf(e) = Not(NoExpr)
        BY <2>2 DEF NegateLeaf, NoExpr, Comparisons
      <3>2. Tidy(Not(NoExpr)) /\ NoExpr \in Expr
        BY TidyMake, ExprMake
      <3> QED BY <2>2, <3>1, <3>2, MakeValue
    <2>3. CASE e.s \in DOMAIN SymType /\ e = Sym(e.s)
      <3>1. e.t = "SYM" /\ e.t \notin Comparisons /\ e.s \in DOMAIN SymType
        <4>1. e.t = "SYM"
          BY <2>3 DEF Sym
        <4> QED BY <2>3, <4>1 DEF Comparisons
      <3>2. CASE e.s \in Constant
        <4>1. /\ e.s = "y" => NegateLeaf(e) = Sym("n")
              /\ e.s = "m" => NegateLeaf(e) = Sym("m")
              /\ e.s = "n" => NegateLeaf(e) = Sym("y")
          BY <3>1, <3>2 DEF NegateLeaf, Constant
        <4>2. e.s = "y" \/ e.s = "m" \/ e.s = "n"
          BY <3>2 DEF Constant
        <4>3. Tidy(Sym("y")) /\ Tidy(Sym("m")) /\ Tidy(Sym("n"))
          BY TidyMake, SymbolsAssumption DEF Constant
        <4>4. \A w : IsWorld(w) => Value(Sym("y"), w) = 2 /\ Value(Sym("m"), w) = 1 /\ Value(Sym("n"), w) = 0
          BY ConstantValue
        <4> QED BY <2>3, <4>1, <4>2, <4>3, <4>4
      <3>3. CASE e.s \notin Constant
        <4>1. NegateLeaf(e) = Not(e)
          BY <3>1, <3>3 DEF NegateLeaf
        <4>2. Tidy(Not(e))
          BY <2>3, <3>1, <3>3, TidyMake
        <4> QED BY <4>1, <4>2, MakeValue
      <3> QED BY <3>2, <3>3
    <2>4. CASE e.t \in Comparisons /\ e.a \in DOMAIN SymType /\ e.b \in DOMAIN SymType /\ e = Comp(e.t, e.a, e.b)
      <3>1. NegateLeaf(e) = [e EXCEPT !.t = Flip[e.t]]
        <4>1. e.t # "SYM"
          BY <2>4 DEF Comparisons
        <4> QED BY <2>4, <4>1, Zenon DEF NegateLeaf
      <3>2. [e EXCEPT !.t = Flip[e.t]] = Comp(Flip[e.t], e.a, e.b)
        <4>1. \A t, a, b, u : [Comp(t, a, b) EXCEPT !.t = u] = Comp(u, a, b)
          BY DEF Comp
        <4> QED BY <2>4, <4>1
      <3>3. \A w : IsWorld(w) => Value(Comp(Flip[e.t], e.a, e.b), w) = 2 - Value(e, w)
        BY <2>4, FlipIs
      <3>4. Flip[e.t] \in Comparisons
        BY <2>4 DEF Flip, Comparisons
      <3>5. Tidy(Comp(Flip[e.t], e.a, e.b))
        BY <2>4, <3>4, TidyMake
      <3> QED BY <3>1, <3>2, <3>3, <3>5
    <2> QED BY <1>1, <2>2, <2>3, <2>4, AtomSplit
  <1>2. ASSUME NEW e \in Expr, IsNot(e), e.l \in Expr PROVE e \in G
    <2>1. Negate(e) = e.l /\ e = Not(e.l)
      BY <1>2, NegateIs DEF IsNot
    <2>2. ASSUME Tidy(e) PROVE Tidy(e.l)
      <3>1. Plain(e.l)
        BY <1>2, <2>2, TidySplit
      <3> QED BY <3>1, TidyMake DEF Plain
    <2>3. ASSUME NEW w, IsWorld(w) PROVE Value(e.l, w) = 2 - Value(e, w)
      <3>1. Value(e, w) = 2 - Value(e.l, w)
        BY <1>2, <2>1, MakeValue
      <3>2. Value(e.l, w) \in {0, 1, 2}
        BY <1>2, <2>3, ValueType
      <3> QED BY <3>1, <3>2
    <2> QED BY <2>1, <2>2, <2>3
  <1>3. ASSUME NEW e \in Expr, IsTwo(e), e.l \in Expr, e.r \in Expr, e.l \in G, e.r \in G PROVE e \in G
    <2> DEFINE l == Negate(e.l)
               r == Negate(e.r)
    <2>1. Negate(e) = Two(Dual(e.t), l, r) /\ e.t \in Binary /\ Dual(e.t) \in Binary
      BY <1>3, NegateIs DEF IsTwo, Dual, Binary
    <2> SUFFICES ASSUME Tidy(e)
                 PROVE  /\ Tidy(Two(Dual(e.t), l, r))
                        /\ \A w : IsWorld(w) => Value(Two(Dual(e.t), l, r), w) = 2 - Value(e, w)
      BY <2>1
    <2>2. /\ Tidy(l) /\ Tidy(r)
          /\ \A w : IsWorld(w) => Value(l, w) = 2 - Value(e.l, w) /\ Value(r, w) = 2 - Value(e.r, w)
      BY <1>3, TidySplit
    <2> HIDE DEF l, r, G
    <2>3. ASSUME NEW w, IsWorld(w) PROVE Value(Two(Dual(e.t), l, r), w) = 2 - Value(e, w)
      <3>1. Value(Two(Dual(e.t), l, r), w) = Op(Dual(e.t), Value(l, w), Value(r, w))
        BY <2>1, <2>2, MakeValue DEF Tidy
      <3>2. Value(e, w) = Op(e.t, Value(e.l, w), Value(e.r, w))
        BY <1>3, <2>1, ValueIs DEF Op
      <3>3. Value(e.l, w) \in {0, 1, 2} /\ Value(e.r, w) \in {0, 1, 2}
        BY <1>3, <2>3, ValueType
      <3>4. Value(l, w) = 2 - Value(e.l, w) /\ Value(r, w) = 2 - Value(e.r, w)
        BY <2>2, <2>3
      <3>5. CASE e.t = "AND"
        <4>1. Dual(e.t) = "OR"
          BY <3>5 DEF Dual
        <4> QED BY <3>1, <3>2, <3>3, <3>4, <3>5, <4>1 DEF Op, EXPR_AND, EXPR_OR
      <3>6. CASE e.t = "OR"
        <4>1. Dual(e.t) = "AND"
          BY <3>6 DEF Dual
        <4> QED BY <3>1, <3>2, <3>3, <3>4, <3>6, <4>1 DEF Op, EXPR_AND, EXPR_OR
      <3> QED BY <2>1, <3>5, <3>6 DEF Binary
    <2> QED BY <2>1, <2>2, <2>3, TidyMake
  <1> HIDE DEF G
  <1>4. \A e \in Expr : e \in G
    BY <1>1, <1>2, <1>3, ExprInduction
  <1> QED BY <1>4 DEF G

\* expr_transform() keeps the value.
THEOREM TransformKeeps ==
  \A e \in Expr : /\ Tidy(expr_transform(e))
                  /\ \A w : IsWorld(w) => Value(expr_transform(e), w) = Value(e, w)
  <1> DEFINE G == {e \in Expr : /\ Tidy(expr_transform(e))
                                /\ \A w : IsWorld(w) => Value(expr_transform(e), w) = Value(e, w)}
  <1>1. ASSUME NEW e \in Expr, Atom(e), e.t \notin Binary \union {"NOT"} PROVE e \in G
    <2>1. expr_transform(e) = TransformLeaf(e)
      BY <1>1, TransformIs
    <2> SUFFICES ASSUME e \in Expr
                 PROVE  /\ Tidy(TransformLeaf(e))
                        /\ \A w : IsWorld(w) => Value(TransformLeaf(e), w) = Value(e, w)
      BY <2>1
    <2>2. Tidy(e)
      BY <1>1, TidySplit
    <2> DEFINE onBool == e.t \in {"EQ", "NE"} /\ SymType[e.a] = "bool" /\ e.b \in Constant
    <2>3. CASE onBool
      <3>1. /\ e.a \in DOMAIN SymType /\ e = Comp(e.t, e.a, e.b) /\ e.t \in {"EQ", "NE"}
            /\ SymType[e.a] = "bool" /\ e.b \in Constant
        BY <1>1, <2>3, AtomSplit DEF NoExpr, Sym
      <3>2. IsBoolean(e.a) /\ e.a \in DOMAIN SymType \ Constant
        <4>1. IsBoolean(e.a)
          BY <3>1 DEF IsBoolean, BooleanTypes
        <4>2. e.a \notin Constant
          BY <3>1, SymbolsAssumption
        <4> QED BY <3>1, <4>1, <4>2
      <3>3. /\ Tidy(Sym("y")) /\ Tidy(Sym("n")) /\ Tidy(Sym(e.a)) /\ Tidy(Not(Sym(e.a)))
        BY <3>2, TidyMake, SymbolsAssumption DEF Constant
      <3>4. ASSUME NEW w, IsWorld(w)
            PROVE  /\ Value(Sym("y"), w) = 2 /\ Value(Sym("n"), w) = 0
                   /\ Value(Sym(e.a), w) = w.tri[e.a] /\ Value(Not(Sym(e.a)), w) = 2 - w.tri[e.a]
                   /\ e.t = "EQ" => Value(e, w) = IF w.txt[e.a] = e.b THEN 2 ELSE 0
                   /\ e.t = "NE" => Value(e, w) = IF w.txt[e.a] = e.b THEN 0 ELSE 2
                   /\ w.tri[e.a] = 0 \/ w.tri[e.a] = 2
                   /\ w.txt[e.a] = "n" <=> w.tri[e.a] = 0
                   /\ w.txt[e.a] = "y" <=> w.tri[e.a] = 2
                   /\ w.txt[e.a] # "m"
        <4>1. Sym(e.a) \in Expr
          BY <3>3 DEF Tidy
        <4>2. Value(Sym(e.a), w) = w.tri[e.a] /\ Value(Not(Sym(e.a)), w) = 2 - w.tri[e.a]
          BY <3>1, <4>1, AtomValue, MakeValue
        <4>3. /\ e.t = "EQ" => Value(e, w) = IF w.txt[e.a] = e.b THEN 2 ELSE 0
              /\ e.t = "NE" => Value(e, w) = IF w.txt[e.a] = e.b THEN 0 ELSE 2
          BY <3>1, <3>2, <3>4, EqValue
        <4>4. /\ w.tri[e.a] \in {0, 1, 2} /\ w.tri[e.a] # 1
              /\ w.txt[e.a] = "n" <=> w.tri[e.a] = 0
              /\ w.txt[e.a] = "m" <=> w.tri[e.a] = 1
              /\ w.txt[e.a] = "y" <=> w.tri[e.a] = 2
          BY <3>1, <3>2, <3>4, WorldIs
        <4> QED BY <3>4, <4>2, <4>3, <4>4, ConstantValue
      <3>5. CASE e.b = "m"
        <4>1. TransformLeaf(e) = Sym(IF e.t = "EQ" THEN "n" ELSE "y")
          BY <2>3, <3>5 DEF TransformLeaf
        <4>2. CASE e.t = "EQ"
          <5>1. TransformLeaf(e) = Sym("n")
            BY <4>1, <4>2
          <5> QED BY <3>3, <3>4, <3>5, <4>2, <5>1
        <4>3. CASE e.t = "NE"
          <5>1. TransformLeaf(e) = Sym("y")
            BY <4>1, <4>3
          <5> QED BY <3>3, <3>4, <3>5, <4>3, <5>1
        <4> QED BY <3>1, <4>2, <4>3
      <3>6. CASE e.b \in {"y", "n"}
        <4>1. TransformLeaf(e) = IF (e.t = "EQ") = (e.b = "y") THEN Sym(e.a) ELSE Not(Sym(e.a))
          <5>1. e.b # "m"
            BY <3>6
          <5> QED BY <2>3, <5>1, Zenon DEF TransformLeaf
        <4>2. CASE (e.t = "EQ" /\ e.b = "y") \/ (e.t = "NE" /\ e.b = "n")
          <5>1. (e.t = "EQ") = (e.b = "y")
            BY <4>2
          <5>2. TransformLeaf(e) = Sym(e.a)
            BY <4>1, <5>1
          <5> QED BY <3>3, <3>4, <4>2, <5>2
        <4>3. CASE (e.t = "EQ" /\ e.b = "n") \/ (e.t = "NE" /\ e.b = "y")
          <5>1. ~((e.t = "EQ") = (e.b = "y"))
            BY <4>3
          <5>2. TransformLeaf(e) = Not(Sym(e.a))
            BY <4>1, <5>1
          <5> QED BY <3>3, <3>4, <4>3, <5>2
        <4> QED BY <3>1, <3>6, <4>2, <4>3
      <3> QED BY <3>1, <3>5, <3>6 DEF Constant
    <2>4. CASE ~onBool
      <3>1. TransformLeaf(e) = e
        BY <2>4 DEF TransformLeaf
      <3> QED BY <2>2, <3>1
    <2> QED BY <2>3, <2>4
  <1>2. ASSUME NEW e \in Expr, IsNot(e), e.l \in Expr, e.l \in G PROVE e \in G
    <2>1. expr_transform(e) = Negate(expr_transform(e.l)) /\ e = Not(e.l)
      BY <1>2, TransformIs DEF IsNot
    <2> SUFFICES ASSUME e \in Expr
                 PROVE  /\ Tidy(Negate(expr_transform(e.l)))
                        /\ \A w : IsWorld(w) => Value(Negate(expr_transform(e.l)), w) = Value(e, w)
      BY <2>1
    <2>2. /\ Tidy(expr_transform(e.l)) /\ expr_transform(e.l) \in Expr
          /\ \A w : IsWorld(w) => Value(expr_transform(e.l), w) = Value(e.l, w)
      BY <1>2, TidySplit DEF Tidy
    <2>3. \A w : IsWorld(w) => Value(e, w) = 2 - Value(e.l, w)
      BY <1>2, <2>1, MakeValue
    <2> QED BY <2>2, <2>3, NegateKeeps
  <1>3. ASSUME NEW e \in Expr, IsTwo(e), e.l \in Expr, e.r \in Expr, e.l \in G, e.r \in G PROVE e \in G
    <2> DEFINE l == expr_transform(e.l)
               r == expr_transform(e.r)
    <2>1. expr_transform(e) = Two(e.t, l, r) /\ e.t \in Binary
      BY <1>3, TransformIs DEF IsTwo
    <2> SUFFICES ASSUME e \in Expr
                 PROVE  /\ Tidy(Two(e.t, l, r))
                        /\ \A w : IsWorld(w) => Value(Two(e.t, l, r), w) = Value(e, w)
      BY <2>1
    <2>2. /\ Tidy(l) /\ Tidy(r)
          /\ \A w : IsWorld(w) => Value(l, w) = Value(e.l, w) /\ Value(r, w) = Value(e.r, w)
      BY <1>3, TidySplit
    <2>3. \A w : Value(e, w) = Op(e.t, Value(e.l, w), Value(e.r, w))
      BY <1>3, <2>1, ValueIs DEF Op
    <2> HIDE DEF l, r, G
    <2>4. \A w : Value(Two(e.t, l, r), w) = Op(e.t, Value(l, w), Value(r, w))
      BY <2>1, <2>2, MakeValue DEF Tidy
    <2> QED BY <2>1, <2>2, <2>3, <2>4, TidyMake
  <1> HIDE DEF G
  <1>4. \A e \in Expr : e \in G
    BY <1>1, <1>2, <1>3, ExprInduction
  <1> QED BY <1>4 DEF G

\* In a boolean's condition a tristate counts unless it is n.
LEMMA TransBoolKeeps ==
  \A e \in Expr : Tidy(e) => /\ Tidy(expr_trans_bool(e))
                             /\ \A w : IsWorld(w) => (Value(expr_trans_bool(e), w) = 0 <=> Value(e, w) = 0)
  <1> DEFINE G == {e \in Expr : Tidy(e) => /\ Tidy(expr_trans_bool(e))
                                           /\ \A w : IsWorld(w) => (Value(expr_trans_bool(e), w) = 0 <=> Value(e, w) = 0)}
  <1>0. ASSUME NEW f, Plain(f) PROVE f \in Expr /\ Tidy(f) /\ expr_trans_bool(f) = f
    <2>1. f \in Expr /\ Tidy(f)
      BY <1>0, TidyMake DEF Plain, Tidy
    <2>2. f.t \in {"NULL", "SYM"}
      BY <1>0 DEF Plain, NoExpr
    <2>3. expr_trans_bool(f) = TransBoolLeaf(f)
      BY <2>1, <2>2, TransBoolIs DEF Binary
    <2> QED BY <2>1, <2>2, <2>3 DEF TransBoolLeaf
  <1>1. ASSUME NEW e \in Expr, Atom(e), e.t \notin Binary \union {"NOT"} PROVE e \in G
    <2>1. expr_trans_bool(e) = TransBoolLeaf(e)
      BY <1>1, TransBoolIs
    <2>2. CASE e.t = "NE" /\ SymType[e.a] = "tristate" /\ e.b = "n"
      <3>1. e.a \in DOMAIN SymType /\ e = Comp("NE", e.a, "n")
        BY <1>1, <2>2, AtomSplit DEF NoExpr, Sym
      <3>2. IsBoolean(e.a) /\ e.a \in DOMAIN SymType
        BY <2>2, <3>1 DEF IsBoolean, BooleanTypes
      <3>3. TransBoolLeaf(e) = Sym(e.a)
        BY <2>2 DEF TransBoolLeaf
      <3>4. ASSUME NEW w, IsWorld(w) PROVE Value(Sym(e.a), w) = 0 <=> Value(e, w) = 0
        <4>1. Value(Sym(e.a), w) = w.tri[e.a]
          BY <3>1, AtomValue
        <4>2. Value(e, w) = IF w.txt[e.a] = "n" THEN 0 ELSE 2
          BY <3>1, <3>2, <3>4, EqValue DEF Constant
        <4>3. w.txt[e.a] = "n" <=> w.tri[e.a] = 0
          BY <3>1, <3>2, <3>4, WorldIs
        <4> QED BY <4>1, <4>2, <4>3
      <3> QED BY <2>1, <3>2, <3>3, <3>4, TidyMake
    <2>3. CASE ~(e.t = "NE" /\ SymType[e.a] = "tristate" /\ e.b = "n")
      BY <2>1, <2>3 DEF TransBoolLeaf
    <2> QED BY <2>2, <2>3
  <1>2. ASSUME NEW e \in Expr, IsNot(e), e.l \in Expr PROVE e \in G
    <2>1. expr_trans_bool(e) = Not(expr_trans_bool(e.l)) /\ e = Not(e.l)
      BY <1>2, TransBoolIs DEF IsNot
    <2>2. Tidy(e) => Plain(e.l)
      BY <1>2, TidySplit
    <2>3. Tidy(e) => expr_trans_bool(e) = e
      BY <1>0, <2>1, <2>2
    <2> QED BY <2>3
  <1>3. ASSUME NEW e \in Expr, IsTwo(e), e.l \in Expr, e.r \in Expr, e.l \in G, e.r \in G PROVE e \in G
    <2> DEFINE l == expr_trans_bool(e.l)
               r == expr_trans_bool(e.r)
    <2>1. expr_trans_bool(e) = Two(e.t, l, r) /\ e.t \in Binary
      BY <1>3, TransBoolIs DEF IsTwo
    <2> SUFFICES ASSUME Tidy(e)
                 PROVE  /\ Tidy(Two(e.t, l, r))
                        /\ \A w : IsWorld(w) => (Value(Two(e.t, l, r), w) = 0 <=> Value(e, w) = 0)
      BY <2>1
    <2>2. /\ Tidy(l) /\ Tidy(r)
          /\ \A w : IsWorld(w) => (Value(l, w) = 0 <=> Value(e.l, w) = 0) /\ (Value(r, w) = 0 <=> Value(e.r, w) = 0)
      BY <1>3, TidySplit
    <2>3. \A w : Value(e, w) = Op(e.t, Value(e.l, w), Value(e.r, w))
      BY <1>3, <2>1, ValueIs DEF Op
    <2> HIDE DEF l, r, G
    <2>4. \A w : Value(Two(e.t, l, r), w) = Op(e.t, Value(l, w), Value(r, w))
      BY <2>1, <2>2, MakeValue DEF Tidy
    <2>5. ASSUME NEW w, IsWorld(w) PROVE Value(Two(e.t, l, r), w) = 0 <=> Value(e, w) = 0
      <3>1. /\ Value(l, w) \in {0, 1, 2} /\ Value(r, w) \in {0, 1, 2}
            /\ Value(e.l, w) \in {0, 1, 2} /\ Value(e.r, w) \in {0, 1, 2}
        BY <1>3, <2>2, <2>5, ValueType DEF Tidy
      <3>2. (Value(l, w) = 0 <=> Value(e.l, w) = 0) /\ (Value(r, w) = 0 <=> Value(e.r, w) = 0)
        BY <2>2, <2>5
      <3>3. \A t, a, b, c, d : /\ a \in {0, 1, 2} /\ b \in {0, 1, 2} /\ c \in {0, 1, 2} /\ d \in {0, 1, 2}
                               /\ (a = 0 <=> c = 0) /\ (b = 0 <=> d = 0)
                               => (Op(t, a, b) = 0 <=> Op(t, c, d) = 0)
        BY DEF Op, EXPR_AND, EXPR_OR
      <3>4. Op(e.t, Value(l, w), Value(r, w)) = 0 <=> Op(e.t, Value(e.l, w), Value(e.r, w)) = 0
        BY <3>1, <3>2, <3>3
      <3> QED BY <2>3, <2>4, <3>4
    <2> QED BY <2>1, <2>2, <2>5, TidyMake
  <1> HIDE DEF G
  <1>4. \A e \in Expr : e \in G
    BY <1>1, <1>2, <1>3, ExprInduction
  <1> QED BY <1>4 DEF G

-----------------------------------------------------------------------------
\* What two trees have left when their equal operands are gone.
LEMMA OpIs ==
  ASSUME NEW t \in Binary, NEW a \in {0, 1, 2}, NEW b \in {0, 1, 2}
  PROVE  /\ Op(t, a, b) \in {0, 1, 2} /\ Op(t, a, b) = Op(t, b, a)
         /\ \A c \in {0, 1, 2} : /\ Op(t, Op(t, a, b), c) = Op(t, a, Op(t, b, c))
                                 /\ a <= b => Op(t, a, c) <= Op(t, b, c)
         /\ Op(t, a, a) = a
  BY DEF Op, EXPR_AND, EXPR_OR, Binary

\* The unit of a level changes nothing in it.
LEMMA UnitIs ==
  ASSUME NEW t \in Binary
  PROVE  /\ Sym(Unit(t)) \in Expr /\ Sym(Unit(t)).size = 1 /\ Tidy(Sym(Unit(t)))
         /\ \A w : IsWorld(w) => /\ Value(Sym(Unit(t)), w) \in {0, 1, 2}
                                 /\ \A a \in {0, 1, 2} : /\ Op(t, Value(Sym(Unit(t)), w), a) = a
                                                         /\ Op(t, a, Value(Sym(Unit(t)), w)) = a
  <1>1. Unit(t) \in Constant /\ Constant \subseteq DOMAIN SymType
    BY SymbolsAssumption DEF Unit, Constant
  <1>2. Tidy(Sym(Unit(t)))
    BY <1>1, TidyMake
  <1>3. Sym(Unit(t)).size = 1
    BY DEF Sym
  <1>4. ASSUME NEW w, IsWorld(w)
        PROVE  Value(Sym(Unit(t)), w) = (IF t = "AND" THEN 2 ELSE 0)
    BY <1>4, ConstantValue DEF Unit
  <1>5. \A a \in {0, 1, 2} : LET u == (IF t = "AND" THEN 2 ELSE 0) IN Op(t, u, a) = a /\ Op(t, a, u) = a
    BY DEF Op, EXPR_AND, EXPR_OR, Binary
  <1> QED BY <1>2, <1>3, <1>4, <1>5 DEF Tidy

Same(a, b) == \A w : IsWorld(w) => Value(a, w) = Value(b, w)
\* a is x with something more at level t, and b is y with the same.
Shares(t, a, b, x, y, w) ==
  \E c \in {0, 1, 2} : Value(a, w) = Op(t, Value(x, w), c) /\ Value(b, w) = Op(t, Value(y, w), c)
Tied(t, a, b, x, y) ==
  /\ x \in Expr /\ y \in Expr /\ x.size <= a.size /\ y.size <= b.size
  /\ \A w : IsWorld(w) => Shares(t, a, b, x, y, w)
\* a and b compare as x and y do.
Follows(a, b, x, y) ==
  /\ x \in Expr /\ y \in Expr /\ x.size <= a.size /\ y.size <= b.size
  /\ \A w : IsWorld(w) => /\ Value(x, w) <= Value(y, w) => Value(a, w) <= Value(b, w)
                          /\ Value(y, w) <= Value(x, w) => Value(b, w) <= Value(a, w)
SoundCall(call, n1, n2) ==
  \A a \in Exprs[n1], b \in Exprs[n2] :
    /\ call[<<"eq", a, b>>] => Same(a, b)
    /\ \A t \in Binary : LET p == call[<<t, a, b>>] IN p = <<p[1], p[2]>> /\ Tied(t, a, b, p[1], p[2])

\* Trees with something in common compare as what is left of them.
LEMMA TiedFollows ==
  ASSUME NEW t \in Binary, NEW a \in Expr, NEW b \in Expr, NEW x, NEW y, Tied(t, a, b, x, y)
  PROVE  Follows(a, b, x, y)
  <1>1. ASSUME NEW w, IsWorld(w)
        PROVE  /\ Value(x, w) <= Value(y, w) => Value(a, w) <= Value(b, w)
               /\ Value(y, w) <= Value(x, w) => Value(b, w) <= Value(a, w)
    <2>1. PICK c \in {0, 1, 2} : Value(a, w) = Op(t, Value(x, w), c) /\ Value(b, w) = Op(t, Value(y, w), c)
      BY <1>1 DEF Tied, Shares
    <2>2. Value(x, w) \in {0, 1, 2} /\ Value(y, w) \in {0, 1, 2}
      BY <1>1, ValueType DEF Tied
    <2> QED BY <2>1, <2>2, OpIs
  <1> QED BY <1>1 DEF Follows, Tied

\* One elimination after another.
LEMMA FollowsOn ==
  ASSUME NEW a \in Expr, NEW b \in Expr, NEW x, NEW y, Follows(a, b, x, y), NEW u, NEW v, Follows(x, y, u, v)
  PROVE  Follows(a, b, u, v)
  <1>1. /\ a.size \in Nat /\ b.size \in Nat /\ x.size \in Nat /\ y.size \in Nat /\ u.size \in Nat /\ v.size \in Nat
    BY ExprIs DEF Follows
  <1> QED BY <1>1 DEF Follows

\* Shared operands, one after the other.
LEMMA TiedLeft ==
  ASSUME NEW t \in Binary, NEW e1 \in Expr, IsTwo(e1), e1.t = t, e1.l \in Expr, e1.r \in Expr, NEW e2 \in Expr,
         NEW x1, NEW x2, Tied(t, e1.l, e2, x1, x2), NEW y1, NEW y2, Tied(t, e1.r, x2, y1, y2)
  PROVE  Tied(t, e1, e2, Two(t, x1, y1), y2) /\ Tied(t, e2, e1, y2, Two(t, x1, y1))
  <1>1. x1 \in Expr /\ x2 \in Expr /\ y1 \in Expr /\ y2 \in Expr /\ Two(t, x1, y1) \in Expr
    BY ExprMake DEF Tied
  <1>2. Two(t, x1, y1).size = x1.size + y1.size + 1 /\ e1.size = e1.l.size + e1.r.size + 1
    BY DEF Two, IsTwo
  <1>3. /\ e1.l.size \in Nat /\ e1.r.size \in Nat /\ e2.size \in Nat /\ x1.size \in Nat /\ x2.size \in Nat
        /\ y1.size \in Nat /\ y2.size \in Nat
    BY <1>1, ExprIs
  <1>4. Two(t, x1, y1).size <= e1.size /\ y2.size <= e2.size
    BY <1>2, <1>3 DEF Tied
  <1>5. ASSUME NEW w, IsWorld(w)
        PROVE  \E c \in {0, 1, 2} : /\ Value(e1, w) = Op(t, Value(Two(t, x1, y1), w), c)
                                    /\ Value(e2, w) = Op(t, Value(y2, w), c)
    <2>1. PICK c \in {0, 1, 2} : Value(e1.l, w) = Op(t, Value(x1, w), c) /\ Value(e2, w) = Op(t, Value(x2, w), c)
      BY <1>5 DEF Tied, Shares
    <2>2. PICK d \in {0, 1, 2} : Value(e1.r, w) = Op(t, Value(y1, w), d) /\ Value(x2, w) = Op(t, Value(y2, w), d)
      BY <1>5 DEF Tied, Shares
    <2>3. Value(e1, w) = Op(t, Value(e1.l, w), Value(e1.r, w))
      BY ValueIs DEF Op
    <2>4. Value(Two(t, x1, y1), w) = Op(t, Value(x1, w), Value(y1, w))
      BY <1>1, MakeValue
    <2>5. Value(x1, w) \in {0, 1, 2} /\ Value(y1, w) \in {0, 1, 2} /\ Value(y2, w) \in {0, 1, 2}
      BY <1>1, <1>5, ValueType
    <2>6. \A i, j, k \in {0, 1, 2} : /\ Op(t, Op(t, i, c), Op(t, j, d)) = Op(t, Op(t, i, j), Op(t, c, d))
                                     /\ Op(t, Op(t, k, d), c) = Op(t, k, Op(t, c, d))
                                     /\ Op(t, c, d) \in {0, 1, 2}
      BY DEF Op, EXPR_AND, EXPR_OR
    <2> QED BY <2>1, <2>2, <2>3, <2>4, <2>5, <2>6
  <1> QED BY <1>1, <1>4, <1>5 DEF Tied, Shares

\* The two trees change places.
LEMMA TiedTurned ==
  ASSUME NEW t, NEW a, NEW b, NEW x, NEW y, Tied(t, a, b, x, y)
  PROVE  Tied(t, b, a, y, x)
  <1>1. ASSUME NEW w, IsWorld(w) PROVE Shares(t, b, a, y, x, w)
    BY <1>1 DEF Tied, Shares
  <1> QED BY <1>1 DEF Tied

\* Nothing eliminated, and equal trees eliminated.
LEMMA TiedSelf ==
  ASSUME NEW t \in Binary, NEW a \in Expr, NEW b \in Expr
  PROVE  /\ Tied(t, a, b, a, b)
         /\ Same(a, b) => Tied(t, a, b, Sym(Unit(t)), Sym(Unit(t)))
  <1>1. a.size \in Nat \ {0} /\ b.size \in Nat \ {0}
    BY ExprIs
  <1>2. ASSUME NEW w, IsWorld(w) PROVE Shares(t, a, b, a, b, w)
    BY <1>2, UnitIs, ValueType DEF Shares
  <1>3. ASSUME Same(a, b), NEW w, IsWorld(w) PROVE Shares(t, a, b, Sym(Unit(t)), Sym(Unit(t)), w)
    <2>1. Value(a, w) \in {0, 1, 2} /\ Value(b, w) = Value(a, w)
      BY <1>3, ValueType DEF Same
    <2>2. Op(t, Value(Sym(Unit(t)), w), Value(a, w)) = Value(a, w)
      BY <1>3, <2>1, UnitIs
    <2> QED BY <2>1, <2>2 DEF Shares
  <1> QED BY <1>1, <1>2, <1>3, UnitIs DEF Tied

\* One call of __expr_eliminate_eq().
LEMMA EliminateSound ==
  ASSUME NEW n1 \in Nat, NEW n2 \in Nat, NEW call, SoundCall(call, n1, n2),
         NEW t \in Binary, NEW e1 \in Exprs[n1], NEW e2 \in Exprs[n2]
  PROVE  LET p == EliminateEq(call, t, e1, e2) IN p = <<p[1], p[2]>> /\ Tied(t, e1, e2, p[1], p[2])
  <1>0. /\ e1 \in Expr /\ e2 \in Expr /\ e1.size <= n1 /\ e2.size <= n2
        /\ e1.size \in Nat /\ e2.size \in Nat
    BY ExprIs
  <1>1. ASSUME NEW f \in Expr, f.t = t
        PROVE  /\ IsTwo(f) /\ f.l \in Expr /\ f.r \in Expr
               /\ \A n \in Nat : f.size <= n => f.l \in Exprs[n] /\ f.r \in Exprs[n]
    <2>1. IsTwo(f) /\ f.l \in Expr /\ f.r \in Expr /\ f.l.size < f.size /\ f.r.size < f.size
      BY <1>1, ExprSplit DEF IsNot, Binary
    <2>2. f.size \in Nat /\ f.l.size \in Nat /\ f.r.size \in Nat
      BY <1>1, <2>1, ExprIs
    <2> QED BY <2>1, <2>2, ExprIs
  <1>2. ASSUME e1.t = t
        PROVE  LET p == EliminateEq(call, t, e1, e2) IN p = <<p[1], p[2]>> /\ Tied(t, e1, e2, p[1], p[2])
    <2> DEFINE x == call[<<t, e1.l, e2>>]
               y == call[<<t, e1.r, x[2]>>]
    <2>1. IsTwo(e1) /\ e1.l \in Exprs[n1] /\ e1.r \in Exprs[n1] /\ e1.l \in Expr /\ e1.r \in Expr
      BY <1>0, <1>1, <1>2
    <2>2. Tied(t, e1.l, e2, x[1], x[2])
      BY <2>1 DEF SoundCall
    <2>3. x[2] \in Exprs[n2]
      <3>1. x[2] \in Expr /\ x[2].size <= e2.size /\ x[2].size \in Nat
        BY <2>2, ExprIs DEF Tied
      <3> QED BY <1>0, <3>1, ExprIs
    <2>4. Tied(t, e1.r, x[2], y[1], y[2])
      BY <2>1, <2>3 DEF SoundCall
    <2>5. EliminateEq(call, t, e1, e2) = <<Two(t, x[1], y[1]), y[2]>>
      BY <1>2 DEF EliminateEq
    <2> HIDE DEF x, y
    <2>6. Tied(t, e1, e2, Two(t, x[1], y[1]), y[2])
      BY <1>0, <1>2, <2>1, <2>2, <2>4, TiedLeft
    <2> QED BY <2>5, <2>6
  <1>3. ASSUME e1.t # t, e2.t = t
        PROVE  LET p == EliminateEq(call, t, e1, e2) IN p = <<p[1], p[2]>> /\ Tied(t, e1, e2, p[1], p[2])
    <2> DEFINE x == call[<<t, e1, e2.l>>]
               y == call[<<t, x[1], e2.r>>]
    <2>1. IsTwo(e2) /\ e2.l \in Exprs[n2] /\ e2.r \in Exprs[n2] /\ e2.l \in Expr /\ e2.r \in Expr
      BY <1>0, <1>1, <1>3
    <2>2. Tied(t, e1, e2.l, x[1], x[2])
      BY <2>1 DEF SoundCall
    <2>3. x[1] \in Exprs[n1]
      <3>1. x[1] \in Expr /\ x[1].size <= e1.size /\ x[1].size \in Nat
        BY <2>2, ExprIs DEF Tied
      <3> QED BY <1>0, <3>1, ExprIs
    <2>4. Tied(t, x[1], e2.r, y[1], y[2])
      BY <2>1, <2>3 DEF SoundCall
    <2>5. EliminateEq(call, t, e1, e2) = <<y[1], Two(t, x[2], y[2])>>
      BY <1>3 DEF EliminateEq
    <2> HIDE DEF x, y
    <2>6. Tied(t, e2.l, e1, x[2], x[1]) /\ Tied(t, e2.r, x[1], y[2], y[1])
      BY <2>2, <2>4, TiedTurned
    <2>7. Tied(t, e1, e2, y[1], Two(t, x[2], y[2]))
      BY <1>0, <1>3, <2>1, <2>6, TiedLeft
    <2> QED BY <2>5, <2>7
  <1>4. ASSUME e1.t # t, e2.t # t
        PROVE  LET p == EliminateEq(call, t, e1, e2) IN p = <<p[1], p[2]>> /\ Tied(t, e1, e2, p[1], p[2])
    <2>1. \/ EliminateEq(call, t, e1, e2) = <<e1, e2>>
          \/ call[<<"eq", e1, e2>>] /\ EliminateEq(call, t, e1, e2) = <<Sym(Unit(t)), Sym(Unit(t))>>
      BY <1>4, Zenon DEF EliminateEq
    <2>2. call[<<"eq", e1, e2>>] => Same(e1, e2)
      BY DEF SoundCall
    <2> QED BY <1>0, <2>1, <2>2, TiedSelf
  <1> QED BY <1>2, <1>3, <1>4

\* One call of expr_eliminate_eq().
LEMMA LeftSound ==
  ASSUME NEW n1 \in Nat, NEW n2 \in Nat, NEW call, SoundCall(call, n1, n2),
         NEW e1 \in Exprs[n1], NEW e2 \in Exprs[n2]
  PROVE  LET p == LeftOf(call, e1, e2) IN p = <<p[1], p[2]>> /\ Follows(e1, e2, p[1], p[2])
  <1>0. /\ e1 \in Expr /\ e2 \in Expr /\ e1.size <= n1 /\ e2.size <= n2
        /\ e1.size \in Nat /\ e2.size \in Nat
    BY ExprIs
  <1>1. \A a, b \in Expr : Follows(a, b, a, b)
    BY ExprIs DEF Follows
  <1>2. CASE NoExpr \in {e1, e2}
    <2>1. LeftOf(call, e1, e2) = <<e1, e2>>
      BY <1>2 DEF LeftOf
    <2> QED BY <1>0, <1>1, <2>1
  <1>3. CASE NoExpr \notin {e1, e2}
    <2>1. ASSUME NEW a \in Exprs[n1], NEW b \in Exprs[n2], NEW t
          PROVE  LET p == AtLevel(call, <<a, b>>, t)
                 IN  p = <<p[1], p[2]>> /\ p[1] \in Exprs[n1] /\ p[2] \in Exprs[n2] /\ Follows(a, b, p[1], p[2])
      <3>0. /\ a \in Expr /\ b \in Expr /\ a.size <= n1 /\ b.size <= n2 /\ a.size \in Nat /\ b.size \in Nat
        BY ExprIs
      <3>1. CASE t \notin Binary
        <4>1. AtLevel(call, <<a, b>>, t) = <<a, b>>
          BY <3>1 DEF AtLevel
        <4> QED BY <1>1, <3>0, <4>1
      <3>2. CASE t \in Binary
        <4> DEFINE p == call[<<t, a, b>>]
        <4>1. AtLevel(call, <<a, b>>, t) = p
          BY <3>2 DEF AtLevel
        <4>2. p = <<p[1], p[2]>> /\ Tied(t, a, b, p[1], p[2])
          BY <3>2 DEF SoundCall
        <4> HIDE DEF p
        <4>3. Follows(a, b, p[1], p[2])
          BY <3>0, <3>2, <4>2, TiedFollows
        <4>4. p[1] \in Exprs[n1] /\ p[2] \in Exprs[n2]
          <5>1. p[1] \in Expr /\ p[1].size <= a.size /\ p[1].size \in Nat
            BY <4>3, ExprIs DEF Follows
          <5>2. p[2] \in Expr /\ p[2].size <= b.size /\ p[2].size \in Nat
            BY <4>3, ExprIs DEF Follows
          <5> QED BY <3>0, <5>1, <5>2, ExprIs
        <4> QED BY <4>1, <4>2, <4>3, <4>4
      <3> QED BY <3>1, <3>2
    <2> DEFINE p == AtLevel(call, <<e1, e2>>, e1.t)
               q == AtOtherLevel(call, p)
    <2>2. p = <<p[1], p[2]>> /\ p[1] \in Exprs[n1] /\ p[2] \in Exprs[n2] /\ Follows(e1, e2, p[1], p[2])
      BY <2>1
    <2>3. q = p \/ q = AtLevel(call, <<p[1], p[2]>>, p[2].t)
      BY <2>2 DEF AtOtherLevel
    <2>4. LeftOf(call, e1, e2) = <<expr_eliminate_yn(q[1]), expr_eliminate_yn(q[2])>>
      BY <1>3 DEF LeftOf, NoUnits
    <2> HIDE DEF p, q
    <2>5. Follows(e1, e2, q[1], q[2])
      <3>1. CASE q = p
        BY <2>2, <3>1
      <3>2. CASE q = AtLevel(call, <<p[1], p[2]>>, p[2].t)
        <4>1. Follows(p[1], p[2], q[1], q[2])
          BY <2>1, <2>2, <3>2
        <4> QED BY <1>0, <2>2, <4>1, FollowsOn
      <3> QED BY <2>3, <3>1, <3>2
    <2>6. Follows(q[1], q[2], expr_eliminate_yn(q[1]), expr_eliminate_yn(q[2]))
      BY <2>5, ConstantsGo DEF Follows
    <2>7. Follows(e1, e2, expr_eliminate_yn(q[1]), expr_eliminate_yn(q[2]))
      BY <1>0, <2>5, <2>6, FollowsOn
    <2> QED BY <2>4, <2>7
  <1> QED BY <1>2, <1>3

\* One call of expr_eq().
LEMMA EqualSound ==
  ASSUME NEW n1 \in Nat, NEW n2 \in Nat, NEW call, SoundCall(call, n1, n2),
         NEW e1 \in Exprs[n1], NEW e2 \in Exprs[n2], Equal(call, e1, e2)
  PROVE  Same(e1, e2)
  <1>0. /\ e1 \in Expr /\ e2 \in Expr /\ e1.size <= n1 /\ e2.size <= n2
        /\ e1.size \in Nat /\ e2.size \in Nat /\ e1.t = e2.t
    BY ExprIs DEF Equal
  <1>1. CASE e1.t = "NOT"
    <2>0. e1.t \notin Binary
      BY <1>1 DEF Binary
    <2>1. call[<<"eq", e1.l, e2.l>>]
      BY <1>1, <2>0, Zenon DEF Equal
    <2>2. ASSUME NEW f \in Expr, f.t = "NOT"
          PROVE  f = Not(f.l) /\ f.l \in Expr /\ \A n \in Nat : f.size <= n => f.l \in Exprs[n]
      <3>1. IsNot(f) /\ f.l \in Expr /\ f.l.size < f.size
        BY <2>2, ExprSplit DEF IsTwo, Binary
      <3>2. f.size \in Nat /\ f.l.size \in Nat
        BY <2>2, <3>1, ExprIs
      <3> QED BY <3>1, <3>2, ExprIs DEF IsNot
    <2>3. e1.l \in Exprs[n1] /\ e2.l \in Exprs[n2] /\ e1.l \in Expr /\ e2.l \in Expr
      BY <1>0, <1>1, <2>2
    <2>4. Same(e1.l, e2.l)
      BY <2>1, <2>3 DEF SoundCall
    <2>5. \A w : Value(e1, w) = 2 - Value(e1.l, w) /\ Value(e2, w) = 2 - Value(e2.l, w)
      BY <1>0, <1>1, ValueIs DEF EXPR_NOT
    <2> QED BY <2>4, <2>5 DEF Same
  <1>2. CASE e1.t \in Binary
    <2> DEFINE p == LeftOf(call, e1, e2)
    <2>1. OneSymbol(p)
      BY <1>0, <1>2 DEF Equal, Binary
    <2>2. Follows(e1, e2, p[1], p[2])
      BY LeftSound
    <2> HIDE DEF p
    <2>3. p[1] = p[2]
      BY <2>1 DEF OneSymbol
    <2>4. ASSUME NEW w, IsWorld(w) PROVE Value(e1, w) = Value(e2, w)
      <3>1. Value(p[1], w) \in {0, 1, 2} /\ Value(e1, w) \in {0, 1, 2} /\ Value(e2, w) \in {0, 1, 2}
        BY <1>0, <2>2, <2>4, ValueType DEF Follows
      <3>2. Value(e1, w) <= Value(e2, w) /\ Value(e2, w) <= Value(e1, w)
        BY <2>2, <2>3, <2>4, <3>1 DEF Follows
      <3> QED BY <3>1, <3>2
    <2> QED BY <2>4 DEF Same
  <1>3. CASE e1.t \notin Binary /\ e1.t # "NOT"
    <2>1. e1 = e2
      BY <1>0, <1>3 DEF Equal
    <2> QED BY <2>1 DEF Same
  <1> QED BY <1>1, <1>2, <1>3

-----------------------------------------------------------------------------
CallsFrom(p, n, below) ==
  [q \in ({"eq"} \union Binary) \X Exprs[p[1].size] \X Exprs[p[2].size] |->
     IF q[1] = "eq" THEN n > 0 /\ Equal(below, q[2], q[3])
     ELSE IF n > 0 THEN EliminateEq(below, q[1], q[2], q[3]) ELSE <<q[2], q[3]>>]
CallsBody(p, n, calls) == CallsFrom(p, n, calls[n - 1])
CallsRec == INSTANCE Recursion WITH Body <- CallsBody, Rank <- Number

\* All the calls, however deep.
LEMMA CallsSound ==
  ASSUME NEW e1 \in Expr, NEW e2 \in Expr
  PROVE  SoundCall(Calls(e1, e2), e1.size, e2.size)
  <1> DEFINE p == <<e1, e2>>
             top == 3 * (e1.size + e2.size)
             D == 0..top
             C == CallsRec!Fixed(p, D)
             T == {n \in Nat : n \in D => SoundCall(C[n], e1.size, e2.size)}
  <1>0. e1.size \in Nat /\ e2.size \in Nat /\ top \in Nat /\ top \in D
    BY ExprIs
  <1>2. Calls(e1, e2) = C[top]
    BY DEF Calls, CallsRec!Fixed, CallsBody, CallsFrom
  <1>3. \A n \in D : C[n] = CallsBody(p, n, C)
    <2>1. ASSUME NEW a \in D, NEW g, NEW h, a > 0 => g[a - 1] = h[a - 1]
          PROVE  CallsBody(p, a, g) = CallsBody(p, a, h)
      <3>1. CASE a > 0
        BY <2>1, <3>1 DEF CallsBody
      <3>2. CASE ~(a > 0)
        BY <3>2 DEF CallsBody, CallsFrom
      <3> QED BY <3>1, <3>2
    <2> QED BY <1>0, <2>1, CallsRec!StepByStep DEF Number
  <1> HIDE DEF C
  <1>4. ASSUME NEW n \in D, NEW a \in Exprs[e1.size], NEW b \in Exprs[e2.size]
        PROVE  /\ n > 0 => (C[n][<<"eq", a, b>>] <=> Equal(C[n - 1], a, b))
               /\ n > 0 => \A t \in Binary : C[n][<<t, a, b>>] = EliminateEq(C[n - 1], t, a, b)
               /\ ~(n > 0) => ~C[n][<<"eq", a, b>>]
               /\ ~(n > 0) => \A t \in Binary : C[n][<<t, a, b>>] = <<a, b>>
    <2>1. "eq" \notin Binary
      BY DEF Binary
    <2>2. C[n] = CallsFrom(p, n, C[n - 1])
      BY <1>3 DEF CallsBody
    <2>3. p[1] = e1 /\ p[2] = e2
      OBVIOUS
    <2> HIDE DEF p
    <2>4. /\ CallsFrom(p, n, C[n - 1])[<<"eq", a, b>>] = (n > 0 /\ Equal(C[n - 1], a, b))
          /\ \A t \in Binary : CallsFrom(p, n, C[n - 1])[<<t, a, b>>] = IF n > 0 THEN EliminateEq(C[n - 1], t, a, b) ELSE <<a, b>>
      BY <2>1, <2>3 DEF CallsFrom
    <2> QED BY <2>2, <2>4
  <1>5. 0 \in T
    <2>1. 0 \in D /\ ~(0 > 0)
      BY <1>0
    <2> HIDE DEF D, p, top
    <2>2. ASSUME NEW a \in Exprs[e1.size], NEW b \in Exprs[e2.size]
          PROVE  /\ ~C[0][<<"eq", a, b>>]
                 /\ \A t \in Binary : LET x == C[0][<<t, a, b>>] IN x = <<x[1], x[2]>> /\ Tied(t, a, b, x[1], x[2])
      <3>1. a \in Expr /\ b \in Expr
        BY <1>0, ExprIs
      <3>2. ~C[0][<<"eq", a, b>>] /\ \A t \in Binary : C[0][<<t, a, b>>] = <<a, b>>
        BY <1>4, <2>1
      <3>3. \A t \in Binary : Tied(t, a, b, a, b)
        BY <3>1, TiedSelf
      <3> QED BY <3>2, <3>3
    <2>3. SoundCall(C[0], e1.size, e2.size)
      BY <2>2 DEF SoundCall
    <2> QED BY <2>3
  <1>6. ASSUME NEW n \in Nat, n \in T PROVE n + 1 \in T
    <2> SUFFICES ASSUME n + 1 \in D PROVE SoundCall(C[n + 1], e1.size, e2.size)
      OBVIOUS
    <2>1. n \in D /\ (n + 1) - 1 = n /\ n + 1 > 0
      BY <1>0
    <2>2. SoundCall(C[n], e1.size, e2.size)
      BY <1>6, <2>1
    <2>3. ASSUME NEW a \in Exprs[e1.size], NEW b \in Exprs[e2.size]
          PROVE  /\ C[n + 1][<<"eq", a, b>>] => Same(a, b)
                 /\ \A t \in Binary : LET x == C[n + 1][<<t, a, b>>] IN x = <<x[1], x[2]>> /\ Tied(t, a, b, x[1], x[2])
      <3>1. C[n + 1][<<"eq", a, b>>] <=> Equal(C[n], a, b)
        BY <1>4, <2>1
      <3>2. \A t \in Binary : C[n + 1][<<t, a, b>>] = EliminateEq(C[n], t, a, b)
        BY <1>4, <2>1
      <3>3. Equal(C[n], a, b) => Same(a, b)
        BY <1>0, <2>2, EqualSound
      <3>4. \A t \in Binary : LET x == EliminateEq(C[n], t, a, b) IN x = <<x[1], x[2]>> /\ Tied(t, a, b, x[1], x[2])
        BY <1>0, <2>2, EliminateSound
      <3> QED BY <3>1, <3>2, <3>3, <3>4
    <2> QED BY <2>3 DEF SoundCall
  <1> HIDE DEF T
  <1>7. \A n \in Nat : n \in T
    BY <1>5, <1>6, Trees!SetInduction
  <1>8. SoundCall(C[top], e1.size, e2.size)
    BY <1>0, <1>7 DEF T
  <1> QED BY <1>2, <1>8

\* Trees that expr_eq() takes for equal have the same value, and what
\* expr_eliminate_eq() leaves of two trees compares as they do.
THEOREM EqSound ==
  ASSUME NEW e1 \in Expr, NEW e2 \in Expr
  PROVE  /\ expr_eq(e1, e2) => Same(e1, e2)
         /\ LET p == expr_eliminate_eq(e1, e2) IN p = <<p[1], p[2]>> /\ Follows(e1, e2, p[1], p[2])
  <1>1. SoundCall(Calls(e1, e2), e1.size, e2.size)
    BY CallsSound
  <1>2. e1.size \in Nat /\ e2.size \in Nat /\ e1 \in Exprs[e1.size] /\ e2 \in Exprs[e2.size]
    BY ExprIs
  <1> QED BY <1>1, <1>2, EqualSound, LeftSound DEF expr_eq, expr_eliminate_eq

-----------------------------------------------------------------------------
\* Paths.
LEMMA PathIs ==
  /\ <<>> \in Paths
  /\ \A p \in Paths : /\ Len(p) \in Nat /\ (p # <<>> => Len(p) > 0)
                      /\ p # <<>> => Head(p) \in {1, 2} /\ Tail(p) \in Paths /\ Len(Tail(p)) < Len(p)
                      /\ p \o <<>> = p
  /\ \A p, q \in Paths : /\ p \o q \in Paths
                         /\ p = <<>> => p \o q = q
                         /\ p # <<>> => p \o q # <<>> /\ Head(p \o q) = Head(p) /\ Tail(p \o q) = Tail(p) \o q
                         /\ p # <<>> /\ q # <<>> /\ Head(p) = Head(q) /\ Tail(p) = Tail(q) => p = q
                         /\ \A d \in {1, 2} : p \o Append(q, d) = Append(p \o q, d)
  /\ \A p \in Paths, d \in {1, 2} :
       /\ Append(p, d) \in Paths /\ Append(p, d) # <<>>
       /\ Head(Append(p, d)) = IF p = <<>> THEN d ELSE Head(p)
       /\ Tail(Append(p, d)) = IF p = <<>> THEN <<>> ELSE Append(Tail(p), d)
  /\ \A p \in Paths : p # <<>> => \E q \in Paths, d \in {1, 2} : p = Append(q, d)
  <1>1. <<>> \in Paths
    BY EmptySeq DEF Paths
  <1>2. ASSUME NEW p \in Paths
        PROVE  /\ Len(p) \in Nat /\ (p # <<>> => Len(p) > 0)
               /\ p # <<>> => Head(p) \in {1, 2} /\ Tail(p) \in Paths /\ Len(Tail(p)) < Len(p)
               /\ p \o <<>> = p
    <2>1. Len(p) \in Nat
      BY LenProperties DEF Paths
    <2>2. p # <<>> => Len(p) \in Nat \ {0}
      BY EmptySeq DEF Paths
    <2>3. p # <<>> => Head(p) \in {1, 2} /\ Tail(p) \in Paths /\ Len(Tail(p)) = Len(p) - 1
      BY HeadTailProperties DEF Paths
    <2>4. p \o <<>> = p
      BY ConcatEmptySeq DEF Paths
    <2> QED BY <2>1, <2>2, <2>3, <2>4
  <1>3. ASSUME NEW p \in Paths, p # <<>>
        PROVE  Len(p) \in Nat \ {0} /\ Head(p) = p[1] /\ p[1] \in {1, 2} /\ Len(Tail(p)) = Len(p) - 1 /\ Tail(p) \in Paths
               /\ \A i \in 1..Len(Tail(p)) : Tail(p)[i] = p[i + 1]
    <2>1. /\ Len(p) \in Nat \ {0} /\ Head(p) \in {1, 2} /\ Len(Tail(p)) = Len(p) - 1 /\ Tail(p) \in Paths
          /\ \A i \in 1..Len(Tail(p)) : Tail(p)[i] = p[i + 1]
      BY <1>3, EmptySeq, HeadTailProperties DEF Paths
    <2>2. Head(p) = p[1]
      BY <2>1 DEF Paths
    <2> QED BY <2>1, <2>2
  <1>4. ASSUME NEW p \in Paths, NEW q \in Paths
        PROVE  p \o q \in Paths /\ (p = <<>> => p \o q = q)
    BY ConcatProperties, ConcatEmptySeq DEF Paths
  <1>5. ASSUME NEW p \in Paths, NEW q \in Paths, p # <<>>
        PROVE  p \o q # <<>> /\ Head(p \o q) = Head(p) /\ Tail(p \o q) = Tail(p) \o q
    <2> DEFINE r == p \o q
    <2>1. r \in Paths /\ Len(r) = Len(p) + Len(q) /\ \A i \in 1..Len(p) + Len(q) : r[i] = IF i <= Len(p) THEN p[i] ELSE q[i - Len(p)]
      BY ConcatProperties DEF Paths
    <2>2. Len(p) \in Nat \ {0} /\ Len(q) \in Nat
      BY <1>2, <1>5, <1>3
    <2>3. r # <<>>
      BY <2>1, <2>2, EmptySeq DEF Paths
    <2> HIDE DEF r
    <2>4. Head(r) = Head(p)
      BY <1>3, <1>5, <2>1, <2>2, <2>3
    <2>5. Tail(r) = Tail(p) \o q
      <3> DEFINE a == Tail(r)
                 b == Tail(p) \o q
      <3>1. a \in Paths /\ Len(a) = Len(p) + Len(q) - 1 /\ \A i \in 1..Len(a) : a[i] = r[i + 1]
        BY <1>3, <2>1, <2>2, <2>3
      <3>2. Tail(p) \in Paths /\ Len(Tail(p)) = Len(p) - 1 /\ \A i \in 1..Len(p) - 1 : Tail(p)[i] = p[i + 1]
        BY <1>3, <1>5
      <3>3. /\ b \in Paths /\ Len(b) = Len(p) - 1 + Len(q)
            /\ \A i \in 1..Len(p) - 1 + Len(q) : b[i] = IF i <= Len(p) - 1 THEN Tail(p)[i] ELSE q[i - (Len(p) - 1)]
        BY <3>2, ConcatProperties DEF Paths
      <3> HIDE DEF a, b
      <3>4. ASSUME NEW i \in 1..Len(a) PROVE a[i] = b[i]
        <4>1. a[i] = r[i + 1] /\ i + 1 \in 1..Len(p) + Len(q) /\ i \in 1..Len(p) - 1 + Len(q)
          BY <2>2, <3>1
        <4>2. r[i + 1] = IF i + 1 <= Len(p) THEN p[i + 1] ELSE q[(i + 1) - Len(p)]
          BY <2>1, <4>1
        <4>3. b[i] = IF i <= Len(p) - 1 THEN p[i + 1] ELSE q[i - (Len(p) - 1)]
          BY <2>2, <3>2, <3>3, <4>1
        <4>4. (i + 1) - Len(p) = i - (Len(p) - 1) /\ (i + 1 <= Len(p) <=> i <= Len(p) - 1)
          BY <2>2
        <4> QED BY <4>1, <4>2, <4>3, <4>4
      <3>5. a = b
        BY <2>2, <3>1, <3>3, <3>4, SeqEqual DEF Paths
      <3> QED BY <3>5 DEF a, b
    <2> QED BY <2>3, <2>4, <2>5 DEF r
  <1>6. ASSUME NEW p \in Paths, NEW q \in Paths, p # <<>>, q # <<>>, Head(p) = Head(q), Tail(p) = Tail(q)
        PROVE  p = q
    <2>1. Len(p) = Len(q) /\ Len(p) \in Nat \ {0}
      BY <1>6, <1>3
    <2>2. ASSUME NEW i \in 1..Len(p) PROVE p[i] = q[i]
      <3>1. CASE i = 1
        BY <1>3, <1>6, <3>1
      <3>2. CASE i # 1
        <4>1. i - 1 \in 1..Len(Tail(p)) /\ (i - 1) + 1 = i
          BY <1>3, <1>6, <2>1, <3>2
        <4>2. p[i] = Tail(p)[i - 1] /\ q[i] = Tail(q)[i - 1]
          BY <1>3, <1>6, <4>1
        <4> QED BY <1>6, <4>2
      <3> QED BY <3>1, <3>2
    <2> QED BY <2>1, <2>2, SeqEqual DEF Paths
  <1>7. ASSUME NEW p \in Paths, NEW q \in Paths, NEW d \in {1, 2} PROVE p \o Append(q, d) = Append(p \o q, d)
    <2>1. Append(q, d) = q \o <<d>> /\ Append(p \o q, d) = (p \o q) \o <<d>>
      BY <1>4, AppendIsConcat DEF Paths
    <2>2. <<d>> \in Seq({1, 2})
      OBVIOUS
    <2>3. (p \o q) \o <<d>> = p \o (q \o <<d>>)
      BY <2>2, ConcatAssociative DEF Paths
    <2> QED BY <2>1, <2>3
  <1>8. ASSUME NEW p \in Paths, NEW d \in {1, 2}
        PROVE  /\ Append(p, d) \in Paths /\ Append(p, d) # <<>>
               /\ Head(Append(p, d)) = IF p = <<>> THEN d ELSE Head(p)
               /\ Tail(Append(p, d)) = IF p = <<>> THEN <<>> ELSE Append(Tail(p), d)
    BY AppendProperties, HeadTailAppend DEF Paths
  <1>9. ASSUME NEW p \in Paths, p # <<>> PROVE \E q \in Paths, d \in {1, 2} : p = Append(q, d)
    BY <1>9, SequenceEmptyOrAppend DEF Paths
  <1>10. \A p, q \in Paths : /\ p \o q \in Paths
                             /\ p = <<>> => p \o q = q
                             /\ p # <<>> => p \o q # <<>> /\ Head(p \o q) = Head(p) /\ Tail(p \o q) = Tail(p) \o q
                             /\ p # <<>> /\ q # <<>> /\ Head(p) = Head(q) /\ Tail(p) = Tail(q) => p = q
                             /\ \A d \in {1, 2} : p \o Append(q, d) = Append(p \o q, d)
    <2> SUFFICES ASSUME NEW p \in Paths, NEW q \in Paths
                 PROVE  /\ p \o q \in Paths
                        /\ p = <<>> => p \o q = q
                        /\ p # <<>> => p \o q # <<>> /\ Head(p \o q) = Head(p) /\ Tail(p \o q) = Tail(p) \o q
                        /\ p # <<>> /\ q # <<>> /\ Head(p) = Head(q) /\ Tail(p) = Tail(q) => p = q
                        /\ \A d \in {1, 2} : p \o Append(q, d) = Append(p \o q, d)
      OBVIOUS
    <2>1. p \o q \in Paths /\ (p = <<>> => p \o q = q)
      BY <1>4
    <2>2. p # <<>> => p \o q # <<>> /\ Head(p \o q) = Head(p) /\ Tail(p \o q) = Tail(p) \o q
      BY <1>5
    <2>3. p # <<>> /\ q # <<>> /\ Head(p) = Head(q) /\ Tail(p) = Tail(q) => p = q
      BY <1>6
    <2>4. \A d \in {1, 2} : p \o Append(q, d) = Append(p \o q, d)
      BY <1>7
    <2> QED BY <2>1, <2>2, <2>3, <2>4, Zenon
  <1> QED BY <1>1, <1>2, <1>8, <1>9, <1>10, Zenon

-----------------------------------------------------------------------------
\* Nodes.
Child(e, d) == IF d = 1 THEN e.l ELSE e.r
PathLength(a) == Len(a[2])
Step(a) == <<IF Head(a[2]) = 1 THEN a[1].l ELSE a[1].r, Tail(a[2])>>
Below(a, b) == a[2] # <<>> /\ a[1].t \in Binary /\ b = Step(a)

\* One step down a path, for the recursion on its length.
LEMMA StepsAre ==
  ASSUME NEW n \in Nat, NEW a \in Exprs[n] \X Paths
  PROVE  /\ PathLength(a) \in Nat
         /\ \A b : Below(a, b) => /\ b \in Exprs[n] \X Paths /\ PathLength(b) < PathLength(a)
                                  /\ b[1] \in Expr /\ b \in Exprs[b[1].size] \X Paths /\ b[1].size \in Nat
                                  /\ Exprs[b[1].size] \X Paths \subseteq Exprs[n] \X Paths
  <1>1. a[1] \in Exprs[n] /\ a[2] \in Paths /\ a = <<a[1], a[2]>>
    OBVIOUS
  <1>2. PathLength(a) \in Nat
    BY <1>1, PathIs DEF PathLength
  <1>3. ASSUME NEW b, Below(a, b)
        PROVE  /\ b \in Exprs[n] \X Paths /\ PathLength(b) < PathLength(a)
               /\ b[1] \in Expr /\ b \in Exprs[b[1].size] \X Paths /\ b[1].size \in Nat
               /\ Exprs[b[1].size] \X Paths \subseteq Exprs[n] \X Paths
    <2>1. b = <<b[1], b[2]>> /\ b[1] \in {a[1].l, a[1].r} /\ b[2] = Tail(a[2]) /\ a[2] # <<>> /\ a[1].t \in Binary
      BY <1>3 DEF Below, Step
    <2>2. Operand(a[1], b[1])
      BY <2>1 DEF Operand
    <2>3. b[1] \in Exprs[n] /\ b[1] \in Exprs[Size(b[1])] /\ b[1] \in Expr /\ Exprs[Size(b[1])] \subseteq Exprs[n] /\ Size(b[1]) \in Nat
      BY <1>1, <2>2, OperandsAre
    <2>4. Tail(a[2]) \in Paths /\ Len(Tail(a[2])) < Len(a[2])
      BY <1>1, <2>1, PathIs
    <2> QED BY <2>1, <2>3, <2>4 DEF PathLength, Size
  <1> QED BY <1>2, <1>3

AtBody(p, a, of) ==
  IF a[2] = <<>> \/ a[1].t \notin Binary THEN a[1]
  ELSE of[<<IF Head(a[2]) = 1 THEN a[1].l ELSE a[1].r, Tail(a[2])>>]
AtRec == INSTANCE Recursion WITH Body <- AtBody, Rank <- PathLength

\* The node at a path, step by step.
LEMMA AtIs ==
  ASSUME NEW e \in Expr, NEW p \in Paths
  PROVE  At(e, p) = IF p = <<>> \/ e.t \notin Binary THEN e ELSE At(Child(e, Head(p)), Tail(p))
  <1>1. ASSUME NEW n \in Nat PROVE AtRec!LooksBelow(0, Exprs[n] \X Paths)
    <2>1. ASSUME NEW a \in Exprs[n] \X Paths, NEW g, NEW h,
                 \A b \in Exprs[n] \X Paths : PathLength(b) < PathLength(a) => g[b] = h[b]
          PROVE  AtBody(0, a, g) = AtBody(0, a, h)
      <3>1. \A b : Below(a, b) => g[b] = h[b]
        BY <2>1, StepsAre
      <3>2. a[2] # <<>> /\ a[1].t \in Binary => g[Step(a)] = h[Step(a)]
        BY <3>1 DEF Below
      <3> QED BY <3>2 DEF AtBody, Step
    <2> QED BY <2>1, StepsAre DEF AtRec!LooksBelow
  <1>2. \A f, q : At(f, q) = AtRec!Fixed(0, Exprs[f.size] \X Paths)[<<f, q>>]
    BY DEF At, AtRec!Fixed, AtBody
  <1> DEFINE a == <<e, p>>
             F == AtRec!Fixed(0, Exprs[e.size] \X Paths)
  <1>3. e \in Exprs[e.size] /\ e.size \in Nat /\ a \in Exprs[e.size] \X Paths
    BY ExprIs
  <1>4. ASSUME NEW b, Below(a, b) PROVE F[b] = At(b[1], b[2])
    <2>1. b \in Exprs[b[1].size] \X Paths /\ b[1].size \in Nat /\ Exprs[b[1].size] \X Paths \subseteq Exprs[e.size] \X Paths
      BY <1>3, <1>4, StepsAre
    <2>2. F[b] = AtRec!Fixed(0, Exprs[b[1].size] \X Paths)[b]
      BY <1>1, <1>3, <2>1, AtRec!Extends
    <2>3. b = <<b[1], b[2]>>
      BY <2>1
    <2> HIDE DEF F
    <2> QED BY <1>2, <2>2, <2>3
  <1>5. At(e, p) = AtBody(0, a, F)
    BY <1>1, <1>2, <1>3, AtRec!Unfolds
  <1> HIDE DEF F
  <1>6. p # <<>> /\ e.t \in Binary => F[Step(a)] = At(Child(e, Head(p)), Tail(p))
    <2>1. p # <<>> /\ e.t \in Binary => F[Step(a)] = At(Step(a)[1], Step(a)[2])
      BY <1>4 DEF Below
    <2> QED BY <2>1 DEF Step, Child
  <1> QED BY <1>5, <1>6 DEF AtBody, Step

PutBody(new, a, of) ==
  IF a[2] = <<>> \/ a[1].t \notin Binary THEN new
  ELSE IF Head(a[2]) = 1 THEN Two(a[1].t, of[<<a[1].l, Tail(a[2])>>], a[1].r)
  ELSE Two(a[1].t, a[1].l, of[<<a[1].r, Tail(a[2])>>])
PutRec == INSTANCE Recursion WITH Body <- PutBody, Rank <- PathLength

\* Another node at a path, step by step.
LEMMA PutIs ==
  ASSUME NEW e \in Expr, NEW p \in Paths, NEW new
  PROVE  Put(e, p, new) = IF p = <<>> \/ e.t \notin Binary THEN new
                          ELSE IF Head(p) = 1 THEN Two(e.t, Put(e.l, Tail(p), new), e.r)
                          ELSE Two(e.t, e.l, Put(e.r, Tail(p), new))
  <1>1. ASSUME NEW n \in Nat PROVE PutRec!LooksBelow(new, Exprs[n] \X Paths)
    <2>1. ASSUME NEW a \in Exprs[n] \X Paths, NEW g, NEW h,
                 \A b \in Exprs[n] \X Paths : PathLength(b) < PathLength(a) => g[b] = h[b]
          PROVE  PutBody(new, a, g) = PutBody(new, a, h)
      <3>1. \A b : Below(a, b) => g[b] = h[b]
        BY <2>1, StepsAre
      <3>2. a[2] # <<>> /\ a[1].t \in Binary => g[Step(a)] = h[Step(a)]
        BY <3>1 DEF Below
      <3> QED BY <3>2 DEF PutBody, Step
    <2> QED BY <2>1, StepsAre DEF PutRec!LooksBelow
  <1>2. \A f, q : Put(f, q, new) = PutRec!Fixed(new, Exprs[f.size] \X Paths)[<<f, q>>]
    BY DEF Put, PutRec!Fixed, PutBody
  <1> DEFINE a == <<e, p>>
             F == PutRec!Fixed(new, Exprs[e.size] \X Paths)
  <1>3. e \in Exprs[e.size] /\ e.size \in Nat /\ a \in Exprs[e.size] \X Paths
    BY ExprIs
  <1>4. ASSUME NEW b, Below(a, b) PROVE F[b] = Put(b[1], b[2], new)
    <2>1. b \in Exprs[b[1].size] \X Paths /\ b[1].size \in Nat /\ Exprs[b[1].size] \X Paths \subseteq Exprs[e.size] \X Paths
      BY <1>3, <1>4, StepsAre
    <2>2. F[b] = PutRec!Fixed(new, Exprs[b[1].size] \X Paths)[b]
      BY <1>1, <1>3, <2>1, PutRec!Extends
    <2>3. b = <<b[1], b[2]>>
      BY <2>1
    <2> HIDE DEF F
    <2> QED BY <1>2, <2>2, <2>3
  <1>5. Put(e, p, new) = PutBody(new, a, F)
    BY <1>1, <1>2, <1>3, PutRec!Unfolds
  <1> HIDE DEF F
  <1>6. p # <<>> /\ e.t \in Binary => F[Step(a)] = Put(Step(a)[1], Step(a)[2], new)
    BY <1>4 DEF Below
  <1>7. CASE p = <<>> \/ e.t \notin Binary
    BY <1>5, <1>7 DEF PutBody
  <1>8. CASE p # <<>> /\ e.t \in Binary /\ Head(p) = 1
    <2>1. F[<<e.l, Tail(p)>>] = Put(e.l, Tail(p), new)
      BY <1>6, <1>8 DEF Step
    <2> QED BY <1>5, <1>8, <2>1 DEF PutBody
  <1>9. CASE p # <<>> /\ e.t \in Binary /\ Head(p) # 1
    <2>1. F[<<e.r, Tail(p)>>] = Put(e.r, Tail(p), new)
      BY <1>6, <1>9 DEF Step
    <2> QED BY <1>5, <1>9, <2>1 DEF PutBody
  <1> QED BY <1>7, <1>8, <1>9

(* Whether the path from the root of e only goes through nodes of the types T. *)
ReachBody(T, a, of) == a[2] = <<>> \/ (a[1].t \in T \intersect Binary /\ of[Step(a)])
Reach(e, T, p) ==
  LET reach[a \in Exprs[e.size] \X Paths] == a[2] = <<>> \/ (a[1].t \in T \intersect Binary /\ reach[Step(a)])
  IN  reach[<<e, p>>]
ReachRec == INSTANCE Recursion WITH Body <- ReachBody, Rank <- PathLength

\* A path through nodes of the types in T, step by step.
LEMMA ReachIs ==
  ASSUME NEW e \in Expr, NEW p \in Paths, NEW T
  PROVE  Reach(e, T, p) <=> (p = <<>> \/ (e.t \in T \intersect Binary /\ Reach(Child(e, Head(p)), T, Tail(p))))
  <1>1. ASSUME NEW n \in Nat PROVE ReachRec!LooksBelow(T, Exprs[n] \X Paths)
    <2>1. ASSUME NEW a \in Exprs[n] \X Paths, NEW g, NEW h,
                 \A b \in Exprs[n] \X Paths : PathLength(b) < PathLength(a) => g[b] = h[b]
          PROVE  ReachBody(T, a, g) = ReachBody(T, a, h)
      <3>1. \A b : Below(a, b) => g[b] = h[b]
        BY <2>1, StepsAre
      <3>2. a[2] # <<>> /\ a[1].t \in Binary => g[Step(a)] = h[Step(a)]
        BY <3>1 DEF Below
      <3> QED BY <3>2 DEF ReachBody
    <2> QED BY <2>1, StepsAre DEF ReachRec!LooksBelow
  <1>2. \A f, q : Reach(f, T, q) = ReachRec!Fixed(T, Exprs[f.size] \X Paths)[<<f, q>>]
    BY DEF Reach, ReachRec!Fixed, ReachBody
  <1> DEFINE a == <<e, p>>
             F == ReachRec!Fixed(T, Exprs[e.size] \X Paths)
  <1>3. e \in Exprs[e.size] /\ e.size \in Nat /\ a \in Exprs[e.size] \X Paths
    BY ExprIs
  <1>4. ASSUME NEW b, Below(a, b) PROVE F[b] = Reach(b[1], T, b[2])
    <2>1. b \in Exprs[b[1].size] \X Paths /\ b[1].size \in Nat /\ Exprs[b[1].size] \X Paths \subseteq Exprs[e.size] \X Paths
      BY <1>3, <1>4, StepsAre
    <2>2. F[b] = ReachRec!Fixed(T, Exprs[b[1].size] \X Paths)[b]
      BY <1>1, <1>3, <2>1, ReachRec!Extends
    <2>3. b = <<b[1], b[2]>>
      BY <2>1
    <2> HIDE DEF F
    <2> QED BY <1>2, <2>2, <2>3
  <1>5. Reach(e, T, p) = ReachBody(T, a, F)
    BY <1>1, <1>2, <1>3, ReachRec!Unfolds
  <1> HIDE DEF F
  <1>6. p # <<>> /\ e.t \in Binary => F[Step(a)] = Reach(Step(a)[1], T, Step(a)[2])
    BY <1>4 DEF Below
  <1>7. Step(a)[1] = Child(e, Head(p)) /\ Step(a)[2] = Tail(p)
    BY DEF Step, Child
  <1>8. ReachBody(T, a, F) <=> (p = <<>> \/ (e.t \in T \intersect Binary /\ F[Step(a)]))
    BY DEF ReachBody
  <1> QED BY <1>5, <1>6, <1>7, <1>8

-----------------------------------------------------------------------------
\* A node with another operand.
Rebuilt(e, d, c) == IF d = 1 THEN Two(e.t, c, e.r) ELSE Two(e.t, e.l, c)
Other(e, d) == IF d = 1 THEN e.r ELSE e.l

\* A binary node by the side a path goes to, and the other.
LEMMA ChildIs ==
  ASSUME NEW e \in Expr, e.t \in Binary, NEW d \in {1, 2}
  PROVE  /\ IsTwo(e) /\ Child(e, d) \in Expr /\ Other(e, d) \in Expr
         /\ e.size = Child(e, d).size + Other(e, d).size + 1
         /\ Tidy(e) <=> (Tidy(Child(e, d)) /\ Tidy(Other(e, d)))
         /\ \A w : IsWorld(w) => Value(e, w) = Op(e.t, Value(Child(e, d), w), Value(Other(e, d), w))
  <1>1. IsTwo(e) /\ e.l \in Expr /\ e.r \in Expr /\ e.size = e.l.size + e.r.size + 1
    BY ExprSplit DEF IsNot, Binary
  <1>2. Tidy(e) <=> (Tidy(e.l) /\ Tidy(e.r))
    BY <1>1, TidySplit
  <1>3. e.l.size \in Nat /\ e.r.size \in Nat
    BY <1>1, ExprIs
  <1>4. ASSUME NEW w, IsWorld(w) PROVE Value(e, w) = Op(e.t, Value(e.l, w), Value(e.r, w))
                                       /\ Value(e, w) = Op(e.t, Value(e.r, w), Value(e.l, w))
    <2>1. Value(e, w) = Op(e.t, Value(e.l, w), Value(e.r, w))
      BY ValueIs DEF Op
    <2>2. Value(e.l, w) \in {0, 1, 2} /\ Value(e.r, w) \in {0, 1, 2}
      BY <1>1, <1>4, ValueType
    <2> QED BY <2>1, <2>2, OpIs
  <1>5. CASE d = 1
    BY <1>1, <1>2, <1>4, <1>5 DEF Child, Other
  <1>6. CASE d = 2
    BY <1>1, <1>2, <1>3, <1>4, <1>6 DEF Child, Other
  <1> QED BY <1>5, <1>6

\* A node with another operand on one side.
LEMMA RebuiltIs ==
  ASSUME NEW e \in Expr, e.t \in Binary, NEW d \in {1, 2}, NEW c \in Expr
  PROVE  /\ Rebuilt(e, d, c) \in Expr /\ Rebuilt(e, d, c).t = e.t
         /\ Child(Rebuilt(e, d, c), d) = c /\ Other(Rebuilt(e, d, c), d) = Other(e, d)
         /\ Child(Rebuilt(e, d, c), 3 - d) = Child(e, 3 - d)
         /\ \A b : Rebuilt(Rebuilt(e, d, c), d, b) = Rebuilt(e, d, b)
         /\ Rebuilt(e, d, Child(e, d)) = e
         /\ Rebuilt(e, d, c).size = Other(e, d).size + c.size + 1
  <1>1. IsTwo(e) /\ e.l \in Expr /\ e.r \in Expr /\ e = Two(e.t, e.l, e.r)
    BY ExprSplit DEF IsNot, IsTwo, Binary
  <1>2. \A x, y : /\ Two(e.t, x, y).t = e.t /\ Two(e.t, x, y).l = x /\ Two(e.t, x, y).r = y
                  /\ Two(e.t, x, y).size = x.size + y.size + 1
    BY DEF Two
  <1>3. Rebuilt(e, d, c) \in Expr
    BY <1>1, ExprMake DEF Rebuilt
  <1>4. e.l.size \in Nat /\ e.r.size \in Nat /\ c.size \in Nat
    BY <1>1, ExprIs
  <1>5. CASE d = 1
    BY <1>1, <1>2, <1>3, <1>4, <1>5 DEF Rebuilt, Child, Other
  <1>6. CASE d = 2
    BY <1>1, <1>2, <1>3, <1>4, <1>6 DEF Rebuilt, Child, Other
  <1> QED BY <1>5, <1>6

\* Put() rebuilds the nodes on the way.
LEMMA PutRebuilds ==
  ASSUME NEW e \in Expr, NEW p \in Paths, NEW new
  PROVE  Put(e, p, new) = IF p = <<>> \/ e.t \notin Binary THEN new
                          ELSE Rebuilt(e, Head(p), Put(Child(e, Head(p)), Tail(p), new))
  BY PutIs DEF Rebuilt, Child

-----------------------------------------------------------------------------
\* What Put() keeps, where the path goes through && and || only.
PutFacts(e, p, new) ==
  /\ Put(e, p, new) \in Expr /\ Reach(Put(e, p, new), Binary, p)
  /\ Put(e, p, new).size = (e.size - At(e, p).size) + new.size
  /\ Tidy(e) /\ Tidy(new) => Tidy(Put(e, p, new))
  /\ At(Put(e, p, new), p) = new
  /\ \A b : Put(Put(e, p, new), p, b) = Put(e, p, b)
  /\ \A w : IsWorld(w) /\ Value(new, w) = Value(At(e, p), w) => Value(Put(e, p, new), w) = Value(e, w)
AtFacts(e, p) ==
  /\ At(e, p) \in Expr /\ At(e, p).size <= e.size
  /\ Tidy(e) => Tidy(At(e, p))
  /\ Put(e, p, At(e, p)) = e
  /\ \A q \in Paths : /\ At(e, p \o q) = At(At(e, p), q)
                      /\ Reach(At(e, p), Binary, q) => Reach(e, Binary, p \o q)
                      /\ \A new : Put(e, p \o q, new) = Put(e, p, Put(At(e, p), q, new))

\* What Put() keeps, by induction on the tree.
LEMMA PutKeeps ==
  \A e \in Expr : \A p \in Paths : Reach(e, Binary, p) => AtFacts(e, p) /\ \A new \in Expr : PutFacts(e, p, new)
  <1> DEFINE Good(e) == \A p \in Paths : Reach(e, Binary, p) => AtFacts(e, p) /\ \A new \in Expr : PutFacts(e, p, new)
             G == {e \in Expr : Good(e)}
  <1>0. Binary \intersect Binary = Binary
    OBVIOUS
  <1>1. ASSUME NEW e \in Expr PROVE AtFacts(e, <<>>) /\ \A new \in Expr : PutFacts(e, <<>>, new)
    <2>1. <<>> \in Paths /\ e.size \in Nat
      BY PathIs, ExprIs
    <2>2. At(e, <<>>) = e /\ \A new : Put(e, <<>>, new) = new
      BY <2>1, AtIs, PutIs
    <2>3. \A q \in Paths : <<>> \o q = q
      BY PathIs
    <2>4. AtFacts(e, <<>>)
      BY <2>1, <2>2, <2>3 DEF AtFacts
    <2>5. ASSUME NEW new \in Expr PROVE PutFacts(e, <<>>, new)
      <3>1. new.size \in Nat /\ At(new, <<>>) = new /\ \A b : Put(new, <<>>, b) = b
        BY <2>1, AtIs, PutIs, ExprIs
      <3>2. Reach(new, Binary, <<>>)
        BY <2>1, ReachIs
      <3> QED BY <2>1, <2>2, <3>1, <3>2 DEF PutFacts
    <2> QED BY <2>4, <2>5
  <1>2. ASSUME NEW e \in Expr, e.t \notin Binary PROVE e \in G
    <2>1. \A p \in Paths : Reach(e, Binary, p) => p = <<>>
      BY <1>2, ReachIs
    <2> QED BY <1>1, <2>1
  <1>3. ASSUME NEW e \in Expr, IsTwo(e), e.l \in Expr, e.r \in Expr, e.l \in G, e.r \in G PROVE e \in G
    <2> SUFFICES ASSUME NEW p \in Paths, p # <<>>, Reach(e, Binary, p)
                 PROVE  AtFacts(e, p) /\ \A new \in Expr : PutFacts(e, p, new)
      BY <1>1
    <2> DEFINE d == Head(p)
               c == Child(e, d)
               u == Tail(p)
    <2>1. e.t \in Binary /\ d \in {1, 2} /\ u \in Paths /\ c \in Expr
      BY <1>3, PathIs, ChildIs DEF IsTwo
    <2>2. Reach(c, Binary, u)
      BY <1>0, ReachIs
    <2>3. AtFacts(c, u) /\ \A new \in Expr : PutFacts(c, u, new)
      BY <1>3, <2>1, <2>2 DEF Child
    <2>4. At(e, p) = At(c, u) /\ \A new : Put(e, p, new) = Rebuilt(e, d, Put(c, u, new))
      BY <2>1, AtIs, PutRebuilds
    <2>5. /\ \A q \in Paths : /\ p \o q \in Paths /\ p \o q # <<>> /\ Head(p \o q) = d /\ Tail(p \o q) = u \o q
                              /\ u \o q \in Paths
      BY <2>1, PathIs
    <2>6. /\ e.size = c.size + Other(e, d).size + 1 /\ Other(e, d) \in Expr
          /\ Tidy(e) <=> (Tidy(c) /\ Tidy(Other(e, d)))
          /\ \A w : IsWorld(w) => Value(e, w) = Op(e.t, Value(c, w), Value(Other(e, d), w))
      BY <2>1, ChildIs
    <2>7. e.size \in Nat /\ c.size \in Nat /\ Other(e, d).size \in Nat
      BY <2>1, <2>6, ExprIs
    <2> HIDE DEF d, c, u, G
    <2>8. AtFacts(e, p)
      <3>1. At(e, p) \in Expr /\ At(e, p).size <= e.size
        <4>1. At(c, u) \in Expr /\ At(c, u).size <= c.size
          BY <2>3 DEF AtFacts
        <4>2. At(c, u).size \in Nat
          BY <4>1, ExprIs
        <4> QED BY <2>4, <2>6, <2>7, <4>1, <4>2
      <3>2. Tidy(e) => Tidy(At(e, p))
        BY <2>3, <2>4, <2>6 DEF AtFacts
      <3>3. Put(e, p, At(e, p)) = e
        <4>1. Put(c, u, At(c, u)) = c
          BY <2>3 DEF AtFacts
        <4>2. Rebuilt(e, d, c) = e
          BY <2>1, RebuiltIs DEF c
        <4> QED BY <2>4, <4>1, <4>2
      <3>4. ASSUME NEW q \in Paths
            PROVE  /\ At(e, p \o q) = At(At(e, p), q)
                   /\ Reach(At(e, p), Binary, q) => Reach(e, Binary, p \o q)
                   /\ \A new : Put(e, p \o q, new) = Put(e, p, Put(At(e, p), q, new))
        <4> DEFINE pq == p \o q
                   uq == u \o q
        <4>0. pq \in Paths /\ pq # <<>> /\ Head(pq) = d /\ Tail(pq) = uq /\ uq \in Paths
          BY <2>5
        <4> HIDE DEF pq, uq
        <4>1. At(e, pq) = At(c, uq)
          BY <2>1, <4>0, AtIs DEF c
        <4>2. \A new : Put(e, pq, new) = Rebuilt(e, d, Put(c, uq, new))
          BY <2>1, <4>0, PutRebuilds DEF c
        <4>3. Reach(c, Binary, uq) => Reach(e, Binary, pq)
          BY <1>0, <2>1, <4>0, ReachIs DEF c
        <4>4. /\ At(c, uq) = At(At(c, u), q)
              /\ Reach(At(c, u), Binary, q) => Reach(c, Binary, uq)
              /\ \A new : Put(c, uq, new) = Put(c, u, Put(At(c, u), q, new))
          BY <2>3 DEF AtFacts, uq
        <4>5. /\ At(e, pq) = At(At(e, p), q)
              /\ Reach(At(e, p), Binary, q) => Reach(e, Binary, pq)
              /\ \A new : Put(e, pq, new) = Put(e, p, Put(At(e, p), q, new))
          BY <2>4, <4>1, <4>2, <4>3, <4>4
        <4> QED BY <4>5 DEF pq
      <3> QED BY <3>1, <3>2, <3>3, <3>4 DEF AtFacts
    <2>9. ASSUME NEW new \in Expr PROVE PutFacts(e, p, new)
      <3> DEFINE n == Put(c, u, new)
                 r == Put(e, p, new)
      <3>1. PutFacts(c, u, new)
        BY <2>3
      <3>2. n \in Expr /\ r = Rebuilt(e, d, n)
        BY <2>4, <3>1 DEF PutFacts
      <3>3. /\ r \in Expr /\ r.t = e.t /\ Child(r, d) = n /\ Other(r, d) = Other(e, d)
            /\ \A b : Rebuilt(r, d, b) = Rebuilt(e, d, b)
            /\ r.size = Other(e, d).size + n.size + 1
        BY <2>1, <3>2, RebuiltIs
      <3>4. /\ Reach(n, Binary, u) /\ n.size = (c.size - At(c, u).size) + new.size
            /\ Tidy(c) /\ Tidy(new) => Tidy(n)
            /\ At(n, u) = new
            /\ \A b : Put(n, u, b) = Put(c, u, b)
            /\ \A w : IsWorld(w) /\ Value(new, w) = Value(At(c, u), w) => Value(n, w) = Value(c, w)
        BY <3>1 DEF PutFacts
      <3> HIDE DEF n, r
      <3>5. Reach(r, Binary, p)
        <4>1. Reach(Child(r, Head(p)), Binary, Tail(p))
          BY <3>3, <3>4 DEF d, u
        <4> QED BY <1>0, <2>1, <3>3, <4>1, ReachIs
      <3>6. r.size = (e.size - At(e, p).size) + new.size
        <4>1. At(c, u).size \in Nat /\ new.size \in Nat /\ n.size \in Nat
          BY <2>3, <3>2, ExprIs DEF AtFacts
        <4> QED BY <2>4, <2>6, <2>7, <3>3, <3>4, <4>1
      <3>7. Tidy(e) /\ Tidy(new) => Tidy(r)
        <4>1. Tidy(r) <=> (Tidy(Child(r, d)) /\ Tidy(Other(r, d)))
          BY <2>1, <3>3, ChildIs
        <4> QED BY <2>6, <3>3, <3>4, <4>1
      <3>8. At(r, p) = new
        BY <2>1, <3>3, <3>4, AtIs DEF d, u
      <3>9. \A b : Put(r, p, b) = Put(e, p, b)
        <4>1. \A b : Put(r, p, b) = Rebuilt(r, d, Put(n, u, b))
          BY <2>1, <3>3, PutRebuilds DEF d, u
        <4> QED BY <2>4, <3>3, <3>4, <4>1
      <3>10. ASSUME NEW w, IsWorld(w), Value(new, w) = Value(At(e, p), w) PROVE Value(r, w) = Value(e, w)
        <4>1. Value(r, w) = Op(r.t, Value(Child(r, d), w), Value(Other(r, d), w))
          BY <2>1, <3>3, <3>10, ChildIs
        <4>2. Value(n, w) = Value(c, w)
          BY <2>4, <3>4, <3>10
        <4> QED BY <2>6, <3>3, <3>10, <4>1, <4>2
      <3> QED BY <3>3, <3>5, <3>6, <3>7, <3>8, <3>9, <3>10 DEF PutFacts, r
    <2> QED BY <2>8, <2>9
  <1> HIDE DEF G
  <1>4. \A e \in Expr : e \in G
    BY <1>2, <1>3, ExprInduction DEF IsNot, Binary
  <1> QED BY <1>4 DEF G

-----------------------------------------------------------------------------
\* Levels: the operands that are reached through nodes of type t.
Inner(e, t, p) == Reach(e, {t}, p) /\ At(e, p).t = t
Outer(e, t, p) == Reach(e, {t}, p) /\ At(e, p).t # t

\* The nodes and the operands of a level, step by step.
LEMMA LevelIs ==
  ASSUME NEW t \in Binary, NEW e \in Expr, NEW p \in Paths
  PROVE  /\ p = <<>> => /\ Reach(e, {t}, p)
                        /\ Inner(e, t, p) <=> e.t = t
                        /\ Outer(e, t, p) <=> e.t # t
         /\ p # <<>> => /\ Reach(e, {t}, p) <=> (e.t = t /\ Reach(Child(e, Head(p)), {t}, Tail(p)))
                        /\ Inner(e, t, p) <=> (e.t = t /\ Inner(Child(e, Head(p)), t, Tail(p)))
                        /\ Outer(e, t, p) <=> (e.t = t /\ Outer(Child(e, Head(p)), t, Tail(p)))
  <1>1. {t} \intersect Binary = {t}
    OBVIOUS
  <1>2. CASE p = <<>>
    BY <1>2, ReachIs, AtIs DEF Inner, Outer
  <1>3. CASE p # <<>>
    <2>1. Reach(e, {t}, p) <=> (e.t = t /\ Reach(Child(e, Head(p)), {t}, Tail(p)))
      BY <1>1, <1>3, ReachIs
    <2>2. e.t = t => At(e, p) = At(Child(e, Head(p)), Tail(p))
      BY <1>3, AtIs
    <2> QED BY <1>3, <2>1, <2>2 DEF Inner, Outer
  <1> QED BY <1>2, <1>3

\* What is at a level is reached through && and ||, and below the nodes of
\* the level are its operands.
LEMMA LevelReaches ==
  ASSUME NEW t \in Binary
  PROVE  \A e \in Expr : \A p \in Paths :
           /\ Reach(e, {t}, p) => Reach(e, Binary, p)
           /\ \A d \in {1, 2} : Reach(e, {t}, Append(p, d)) <=> Inner(e, t, p)
  <1> DEFINE Good(e) == \A p \in Paths : /\ Reach(e, {t}, p) => Reach(e, Binary, p)
                                         /\ \A d \in {1, 2} : Reach(e, {t}, Append(p, d)) <=> Inner(e, t, p)
             G == {e \in Expr : Good(e)}
  <1>1. ASSUME NEW e \in Expr, \A d \in {1, 2} : e.t \in Binary => Child(e, d) \in Expr /\ Child(e, d) \in G PROVE e \in G
    <2> SUFFICES ASSUME NEW p \in Paths
                 PROVE  /\ Reach(e, {t}, p) => Reach(e, Binary, p)
                        /\ \A d \in {1, 2} : Reach(e, {t}, Append(p, d)) <=> Inner(e, t, p)
      OBVIOUS
    <2>1. CASE p = <<>>
      <3>1. Reach(e, Binary, p)
        BY <2>1, ReachIs
      <3>2. ASSUME NEW d \in {1, 2} PROVE Reach(e, {t}, Append(p, d)) <=> Inner(e, t, p)
        <4> DEFINE pd == Append(p, d)
        <4>1. pd \in Paths /\ pd # <<>> /\ Head(pd) = d /\ Tail(pd) = <<>> /\ <<>> \in Paths
          BY <2>1, PathIs
        <4> HIDE DEF pd
        <4>2. Reach(e, {t}, pd) <=> (e.t = t /\ Reach(Child(e, d), {t}, <<>>))
          <5>1. Reach(e, {t}, pd) <=> (e.t = t /\ Reach(Child(e, Head(pd)), {t}, Tail(pd)))
            BY <4>1, LevelIs
          <5> QED BY <4>1, <5>1, Zenon
        <4>3. e.t = t => Reach(Child(e, d), {t}, <<>>)
          BY <1>1, <4>1, LevelIs
        <4>4. Reach(e, {t}, pd) <=> Inner(e, t, p)
          BY <2>1, <4>2, <4>3, LevelIs
        <4> QED BY <4>4 DEF pd
      <3> QED BY <3>1, <3>2
    <2>2. CASE p # <<>>
      <3> DEFINE d1 == Head(p)
                 u == Tail(p)
                 c == Child(e, d1)
      <3>1. d1 \in {1, 2} /\ u \in Paths
        BY <2>2, PathIs
      <3>2. e.t \in Binary => c \in G
        BY <1>1, <3>1
      <3>3. Reach(e, {t}, p) => Reach(e, Binary, p)
        <4>1. Reach(e, {t}, p) => e.t = t /\ Reach(c, {t}, u)
          BY <2>2, LevelIs
        <4>2. e.t = t /\ Reach(c, Binary, u) => Reach(e, Binary, p)
          BY ReachIs
        <4> QED BY <3>1, <3>2, <4>1, <4>2
      <3>4. ASSUME NEW d \in {1, 2} PROVE Reach(e, {t}, Append(p, d)) <=> Inner(e, t, p)
        <4> DEFINE pd == Append(p, d)
                   ud == Append(u, d)
        <4>1. pd \in Paths /\ pd # <<>> /\ Head(pd) = d1 /\ Tail(pd) = ud
          BY <2>2, PathIs
        <4>2. e.t = t => (Reach(c, {t}, ud) <=> Inner(c, t, u))
          BY <3>1, <3>2
        <4> HIDE DEF pd, ud
        <4>3. Reach(e, {t}, pd) <=> (e.t = t /\ Reach(c, {t}, ud))
          BY <4>1, LevelIs
        <4>4. Inner(e, t, p) <=> (e.t = t /\ Inner(c, t, u))
          BY <2>2, LevelIs
        <4>5. Reach(e, {t}, pd) <=> Inner(e, t, p)
          BY <4>2, <4>3, <4>4
        <4> QED BY <4>5 DEF pd
      <3> QED BY <3>3, <3>4
    <2> QED BY <2>1, <2>2
  <1> HIDE DEF G
  <1>2. ASSUME NEW e \in Expr, e.t \notin Binary PROVE e \in G
    BY <1>1, <1>2
  <1>3. ASSUME NEW e \in Expr, IsTwo(e), e.l \in Expr, e.r \in Expr, e.l \in G, e.r \in G PROVE e \in G
    BY <1>1, <1>3 DEF Child
  <1>4. \A e \in Expr : e \in G
    BY <1>2, <1>3, ExprInduction DEF IsNot, Binary
  <1> QED BY <1>4 DEF G

\* An operand of a level: the rest of the level takes part with one value,
\* whatever is put in its place, and no other node of the level changes.
SingleFacts(t, e, p, new) ==
  /\ \A w : IsWorld(w) => \E c \in {0, 1, 2} : /\ Value(e, w) = Op(t, Value(At(e, p), w), c)
                                               /\ Value(Put(e, p, new), w) = Op(t, Value(new, w), c)
  /\ \A q \in Paths : /\ Inner(e, t, q) => Inner(Put(e, p, new), t, q)
                      /\ Outer(e, t, q) /\ q # p => Outer(Put(e, p, new), t, q) /\ At(Put(e, p, new), q) = At(e, q)

\* One operand of a level replaced, by induction on the tree.
LEMMA Single ==
  ASSUME NEW t \in Binary, NEW new \in Expr
  PROVE  \A e \in Expr : \A p \in Paths : Outer(e, t, p) => SingleFacts(t, e, p, new)
  <1> DEFINE Good(e) == \A p \in Paths : Outer(e, t, p) => SingleFacts(t, e, p, new)
             G == {e \in Expr : Good(e)}
  <1>1. ASSUME NEW e \in Expr, e.t # t PROVE e \in G
    <2> SUFFICES ASSUME NEW p \in Paths, Outer(e, t, p) PROVE SingleFacts(t, e, p, new)
      OBVIOUS
    <2>1. p = <<>>
      BY <1>1, LevelIs
    <2>2. At(e, p) = e /\ Put(e, p, new) = new
      BY <2>1, AtIs, PutIs
    <2>3. ASSUME NEW w, IsWorld(w)
          PROVE  \E c \in {0, 1, 2} : Value(e, w) = Op(t, Value(e, w), c) /\ Value(new, w) = Op(t, Value(new, w), c)
      <3>1. Value(e, w) \in {0, 1, 2} /\ Value(new, w) \in {0, 1, 2}
        BY <2>3, ValueType
      <3> QED BY <2>3, <3>1, UnitIs
    <2>4. ASSUME NEW q \in Paths PROVE ~Inner(e, t, q) /\ ~(Outer(e, t, q) /\ q # p)
      BY <1>1, <2>1, LevelIs
    <2> QED BY <2>2, <2>3, <2>4 DEF SingleFacts
  <1>2. ASSUME NEW e \in Expr, IsTwo(e), e.t = t, e.l \in Expr, e.r \in Expr, e.l \in G, e.r \in G PROVE e \in G
    <2> SUFFICES ASSUME NEW p \in Paths, Outer(e, t, p) PROVE SingleFacts(t, e, p, new)
      OBVIOUS
    <2> DEFINE d == Head(p)
               u == Tail(p)
               c == Child(e, d)
               n == Put(c, u, new)
               r == Put(e, p, new)
    <2>1. p # <<>> /\ d \in {1, 2} /\ u \in Paths /\ c \in Expr /\ c \in G /\ Outer(c, t, u) /\ e.t \in Binary
      <3>1. p # <<>>
        BY <1>2, LevelIs
      <3> QED BY <1>2, <3>1, PathIs, LevelIs DEF Child
    <2>2. SingleFacts(t, c, u, new) /\ Reach(c, Binary, u)
      <3>1. Reach(c, {t}, u)
        BY <2>1 DEF Outer
      <3> QED BY <2>1, <3>1, LevelReaches
    <2>3. n \in Expr /\ At(e, p) = At(c, u) /\ At(c, u) \in Expr /\ r = Rebuilt(e, d, n)
      <3>1. PutFacts(c, u, new) /\ AtFacts(c, u)
        BY <2>1, <2>2, PutKeeps
      <3> QED BY <2>1, <3>1, AtIs, PutRebuilds DEF PutFacts, AtFacts
    <2>4. /\ r \in Expr /\ r.t = t /\ Child(r, d) = n /\ Other(r, d) = Other(e, d) /\ Child(r, 3 - d) = Child(e, 3 - d)
      BY <1>2, <2>1, <2>3, RebuiltIs
    <2>5. Other(e, d) \in Expr
      BY <2>1, ChildIs
    <2> HIDE DEF d, u, c, n, r, G
    <2>6. ASSUME NEW w, IsWorld(w)
          PROVE  \E x \in {0, 1, 2} : Value(e, w) = Op(t, Value(At(e, p), w), x) /\ Value(r, w) = Op(t, Value(new, w), x)
      <3>1. PICK x \in {0, 1, 2} : Value(c, w) = Op(t, Value(At(c, u), w), x) /\ Value(n, w) = Op(t, Value(new, w), x)
        BY <2>2, <2>6 DEF SingleFacts, n
      <3>2. Value(e, w) = Op(t, Value(c, w), Value(Other(e, d), w))
        BY <1>2, <2>1, <2>6, ChildIs DEF c
      <3>3. Value(r, w) = Op(t, Value(n, w), Value(Other(e, d), w))
        BY <2>1, <2>4, <2>6, ChildIs
      <3>4. Value(At(c, u), w) \in {0, 1, 2} /\ Value(new, w) \in {0, 1, 2} /\ Value(Other(e, d), w) \in {0, 1, 2}
        BY <2>3, <2>5, <2>6, ValueType
      <3>5. Op(t, x, Value(Other(e, d), w)) \in {0, 1, 2}
        BY <3>4, OpIs
      <3>6. /\ Value(e, w) = Op(t, Value(At(c, u), w), Op(t, x, Value(Other(e, d), w)))
            /\ Value(r, w) = Op(t, Value(new, w), Op(t, x, Value(Other(e, d), w)))
        BY <3>1, <3>2, <3>3, <3>4, OpIs
      <3> QED BY <2>3, <3>5, <3>6
    <2>7. ASSUME NEW q \in Paths
          PROVE  /\ Inner(e, t, q) => Inner(r, t, q)
                 /\ Outer(e, t, q) /\ q # p => Outer(r, t, q) /\ At(r, q) = At(e, q)
      <3>1. CASE q = <<>>
        BY <1>2, <2>4, <3>1, LevelIs
      <3>2. CASE q # <<>>
        <4> DEFINE f == Head(q)
                   v == Tail(q)
        <4>1. f \in {1, 2} /\ v \in Paths
          BY <3>2, PathIs
        <4>2. /\ Inner(e, t, q) <=> Inner(Child(e, f), t, v)
              /\ Outer(e, t, q) <=> Outer(Child(e, f), t, v)
              /\ Inner(r, t, q) <=> Inner(Child(r, f), t, v)
              /\ Outer(r, t, q) <=> Outer(Child(r, f), t, v)
          BY <1>2, <2>4, <3>2, LevelIs
        <4>3. At(e, q) = At(Child(e, f), v) /\ At(r, q) = At(Child(r, f), v)
          BY <1>2, <2>1, <2>4, <3>2, AtIs
        <4>4. CASE f = d
          <5>1. /\ Inner(c, t, v) => Inner(n, t, v)
                /\ Outer(c, t, v) /\ v # u => Outer(n, t, v) /\ At(n, v) = At(c, v)
            BY <2>2, <4>1 DEF SingleFacts, n
          <5>2. v = u => q = p
            BY <2>1, <3>2, <4>4, PathIs DEF d, u
          <5> QED BY <2>4, <4>2, <4>3, <4>4, <5>1, <5>2 DEF c
        <4>5. CASE f # d
          <5>1. f = 3 - d
            BY <2>1, <4>1, <4>5
          <5> QED BY <2>4, <4>2, <4>3, <5>1
        <4> QED BY <4>4, <4>5
      <3> QED BY <3>1, <3>2
    <2> QED BY <2>6, <2>7 DEF SingleFacts, r
  <1> HIDE DEF G
  <1>3. \A e \in Expr : e \in G
    <2>1. ASSUME NEW e \in Expr, IsTwo(e), e.l \in Expr, e.r \in Expr, e.l \in G, e.r \in G PROVE e \in G
      BY <1>1, <1>2, <2>1
    <2> QED BY <1>1, <2>1, ExprInduction DEF IsNot, Binary
  <1> QED BY <1>3 DEF G

-----------------------------------------------------------------------------
\* Two leaves joined into one.
Shape(e, s) ==
  \/ e = Sym(s)
  \/ e = Not(Sym(s))
  \/ e.t \in {"EQ", "NE"} /\ e = Comp(e.t, s, e.b) /\ e.b \in DOMAIN SymType
Joins(t, j, e1, e2) ==
  j # NoExpr => /\ Tidy(j) /\ (j = e1 \/ j.size = 1)
                /\ \A w : IsWorld(w) => Value(j, w) = Op(t, Value(e1, w), Value(e2, w))

\* The forms a joinable leaf has.
LEMMA ShapeIs ==
  ASSUME NEW e, Tidy(e), Joinable(e), e.t = "NOT" => e.l.t \in {"EQ", "NE", "SYM"}
  PROVE  Shape(e, SubjectOf(e)) /\ SubjectOf(e) \in DOMAIN SymType
  <1>1. e \in Expr
    BY DEF Tidy
  <1>2. CASE e.t = "NOT"
    <2>1. IsNot(e) /\ e.l \in Expr
      BY <1>1, <1>2, ExprSplit DEF IsTwo, Binary
    <2>2. e.l = Sym(e.l.s) /\ e.l.s \in DOMAIN SymType /\ e.l.t = "SYM"
      <3>1. Plain(e.l)
        BY <1>1, <2>1, TidySplit
      <3>2. e.l # NoExpr
        BY <1>2 DEF NoExpr
      <3> QED BY <3>1, <3>2 DEF Plain
    <2>3. SubjectOf(e) = e.l.s
      BY <1>2, <2>2 DEF SubjectOf, Subject
    <2> QED BY <2>1, <2>2, <2>3, SymbolsAssumption DEF Shape, IsNot
  <1>3. CASE e.t # "NOT"
    <2>1. Atom(e)
      BY <1>1, <1>3, ExprSplit DEF IsTwo, IsNot, Binary, Joinable
    <2>2. CASE e.s \in DOMAIN SymType /\ e = Sym(e.s)
      <3>1. e.t = "SYM"
        BY <2>2 DEF Sym
      <3>2. SubjectOf(e) = e.s
        BY <3>1 DEF SubjectOf, Subject
      <3> QED BY <2>2, <3>2 DEF Shape
    <2>3. CASE e.t \in Comparisons /\ e.a \in DOMAIN SymType /\ e.b \in DOMAIN SymType /\ e = Comp(e.t, e.a, e.b)
      <3>1. e.t \in {"EQ", "NE"}
        BY <2>3 DEF Joinable, Comparisons
      <3>2. SubjectOf(e) = e.a
        BY <3>1 DEF SubjectOf, Subject
      <3> QED BY <2>3, <3>1, <3>2 DEF Shape
    <2>4. e # NoExpr
      BY DEF Joinable, NoExpr
    <2> QED BY <2>1, <2>2, <2>3, <2>4, AtomSplit
  <1> QED BY <1>2, <1>3

\* Two leaves about the same symbol.
LEMMA SubjectIs ==
  ASSUME NEW e1, NEW e2, Tidy(e1), Tidy(e2), SameSubject(e1, e2)
  PROVE  LET s == SubjectOf(e1)
         IN  /\ Shape(e1, s) /\ Shape(e2, s) /\ s \in DOMAIN SymType \ Constant /\ IsBoolean(s)
  <1>1. Joinable(e1) /\ Joinable(e2) /\ (e1.t = "NOT" => e1.l.t \in {"EQ", "NE", "SYM"}) /\ (e2.t = "NOT" => e2.l.t \in {"EQ", "NE", "SYM"})
    BY DEF SameSubject
  <1>2. SubjectOf(e1) = SubjectOf(e2) /\ SymType[SubjectOf(e1)] \in BooleanTypes
    BY DEF SameSubject, SubjectOf
  <1>3. Shape(e1, SubjectOf(e1)) /\ Shape(e2, SubjectOf(e1)) /\ SubjectOf(e1) \in DOMAIN SymType
    BY <1>1, <1>2, ShapeIs
  <1>4. SubjectOf(e1) \notin Constant
    BY <1>2, <1>3, SymbolsAssumption DEF BooleanTypes
  <1> QED BY <1>2, <1>3, <1>4 DEF IsBoolean

\* The values a boolean's leaves take.
LEMMA ShapeValue ==
  ASSUME NEW s \in DOMAIN SymType, IsBoolean(s), NEW w, IsWorld(w)
  PROVE  /\ w.tri[s] \in {0, 1, 2} /\ w.txt[s] \in Constant
         /\ SymType[s] = "bool" => w.tri[s] # 1
         /\ w.txt[s] = "n" <=> w.tri[s] = 0
         /\ w.txt[s] = "m" <=> w.tri[s] = 1
         /\ w.txt[s] = "y" <=> w.tri[s] = 2
         /\ Value(Sym(s), w) = w.tri[s] /\ Value(Not(Sym(s)), w) = 2 - w.tri[s]
         /\ \A c \in Constant : /\ Value(Comp("EQ", s, c), w) = IF w.txt[s] = c THEN 2 ELSE 0
                                /\ Value(Comp("NE", s, c), w) = IF w.txt[s] = c THEN 0 ELSE 2
  <1>1. s \in DOMAIN SymType /\ IsBoolean(s)
    OBVIOUS
  <1>2. Sym(s) \in Expr
    BY ExprMake
  <1>3. \A c \in Constant : /\ Value(Comp("EQ", s, c), w) = IF w.txt[s] = c THEN 2 ELSE 0
                            /\ Value(Comp("NE", s, c), w) = IF w.txt[s] = c THEN 0 ELSE 2
    BY <1>1, EqValue
  <1>4. Value(Sym(s), w) = w.tri[s] /\ Value(Not(Sym(s)), w) = 2 - w.tri[s]
    BY <1>1, <1>2, AtomValue, MakeValue
  <1>5. /\ w.tri[s] \in {0, 1, 2} /\ w.txt[s] \in Constant
        /\ SymType[s] = "bool" => w.tri[s] # 1
        /\ w.txt[s] = "n" <=> w.tri[s] = 0
        /\ w.txt[s] = "m" <=> w.tri[s] = 1
        /\ w.txt[s] = "y" <=> w.tri[s] = 2
    BY <1>1, WorldIs
  <1> QED BY <1>3, <1>4, <1>5

\* The leaves the joins make.
LEMMA MadeTidy ==
  /\ \A s \in DOMAIN SymType : Tidy(Sym(s)) /\ Sym(s).size = 1
  /\ Tidy(Sym("y")) /\ Sym("y").size = 1 /\ Tidy(Sym("n")) /\ Sym("n").size = 1
  /\ \A t \in {"EQ", "NE"}, a \in DOMAIN SymType, c \in Constant : Tidy(Comp(t, a, c)) /\ Comp(t, a, c).size = 1
  <1>1. Constant \subseteq DOMAIN SymType /\ "y" \in Constant /\ "n" \in Constant
    BY SymbolsAssumption DEF Constant
  <1>2. \A s : Sym(s).size = 1
    BY DEF Sym
  <1>3. \A t, a, c : Comp(t, a, c).size = 1
    BY DEF Comp
  <1> QED BY <1>1, <1>2, <1>3, TidyMake DEF Comparisons

\* The constant that two different constants leave over.
LEMMA RemainingIs ==
  ASSUME NEW t \in {"EQ", "NE"}, NEW e1, NEW e2, NEW s, Shape(e1, s), Shape(e2, s),
         NEW pairs, pairs = {q \in TriPairs : Against(e1, t, q[1], e2, t, q[2])}, pairs # {}
  PROVE  /\ e1 = Comp(t, s, e1.b) /\ e2 = Comp(t, s, e2.b)
         /\ Remaining(pairs) \in Constant
         /\ \A v \in Constant : v # Remaining(pairs) <=> v \in {e1.b, e2.b}
         /\ e1.b \in Constant /\ e2.b \in Constant
  <1>1. PICK q \in TriPairs : Against(e1, t, q[1], e2, t, q[2])
    OBVIOUS
  <1>2. \A r \in pairs : r \in TriPairs /\ {r[1], r[2]} = {e1.b, e2.b}
    BY DEF Against
  <1>3. \A r \in TriPairs : /\ r[1] \in Constant /\ r[2] \in Constant
                            /\ \E v \in Constant : v \notin {r[1], r[2]}
                            /\ \A v, u \in Constant : v \notin {r[1], r[2]} => (u # v <=> u \in {r[1], r[2]})
    BY DEF TriPairs, Constant
  <1>4. q \in pairs
    BY <1>1
  <1>5. \E v \in Constant : \E r \in pairs : v \notin {r[1], r[2]}
    BY <1>3, <1>4
  <1>6. Remaining(pairs) \in Constant /\ \E r \in pairs : Remaining(pairs) \notin {r[1], r[2]}
    BY <1>5 DEF Remaining, Constant
  <1>7. \A v \in Constant : v # Remaining(pairs) <=> v \in {e1.b, e2.b}
    <2>1. PICK r \in pairs : Remaining(pairs) \notin {r[1], r[2]}
      BY <1>6
    <2>2. r \in TriPairs /\ {r[1], r[2]} = {e1.b, e2.b}
      BY <1>2
    <2>3. \A u \in Constant : u # Remaining(pairs) <=> u \in {r[1], r[2]}
      BY <1>3, <1>6, <2>1, <2>2
    <2> QED BY <2>2, <2>3
  <1>8. e1.t = t /\ e2.t = t /\ e1.b \in Constant /\ e2.b \in Constant
    BY <1>1, <1>3 DEF Against
  <1>9. e1 = Comp(t, s, e1.b) /\ e2 = Comp(t, s, e2.b)
    BY <1>8 DEF Shape, Sym, Not
  <1> QED BY <1>6, <1>7, <1>8, <1>9

\* Equal operands are joined into one of them.
LEMMA EqualJoins ==
  ASSUME NEW t \in Binary, NEW e1, NEW e2, Tidy(e1), Tidy(e2), expr_eq(e1, e2)
  PROVE  Joins(t, e1, e1, e2)
  <1>1. e1 \in Expr /\ e2 \in Expr
    BY DEF Tidy
  <1>2. Same(e1, e2)
    BY <1>1, EqSound
  <1> QED BY <1>1, <1>2, OpIs, ValueType DEF Joins, Same

\* expr_join_or() returns a leaf with the value of its operands, or nothing.
LEMMA JoinOr ==
  ASSUME NEW e1, NEW e2, Tidy(e1), Tidy(e2)
  PROVE  Joins("OR", expr_join_or(e1, e2), e1, e2)
  <1> DEFINE s == SubjectOf(e1)
             pairs == {q \in TriPairs : Against(e1, "EQ", q[1], e2, "EQ", q[2])}
             j == expr_join_or(e1, e2)
  <1>1. CASE expr_eq(e1, e2)
    <2>1. j = e1
      BY <1>1 DEF expr_join_or
    <2> QED BY <1>1, <2>1, EqualJoins DEF Binary
  <1>2. CASE ~expr_eq(e1, e2) /\ ~SameSubject(e1, e2)
    <2>1. j = NoExpr
      BY <1>2 DEF expr_join_or
    <2> QED BY <2>1 DEF Joins
  <1>3. CASE ~expr_eq(e1, e2) /\ SameSubject(e1, e2)
    <2>0. IsBoolean(s)
      BY <1>3, SubjectIs
    <2>1. /\ Shape(e1, s) /\ Shape(e2, s) /\ s \in DOMAIN SymType \ Constant
      BY <1>3, SubjectIs
    <2>2. j = IF SymType[s] = "tristate" /\ pairs # {} THEN Comp("NE", s, Remaining(pairs))
              ELSE IF SymType[s] = "bool" /\ {e1, e2} = {Sym(s), Not(Sym(s))} THEN Sym("y")
              ELSE NoExpr
      BY <1>3 DEF expr_join_or
    <2>3. CASE SymType[s] = "tristate" /\ pairs # {}
      <3> DEFINE v == Remaining(pairs)
      <3>1. /\ e1 = Comp("EQ", s, e1.b) /\ e2 = Comp("EQ", s, e2.b) /\ v \in Constant
            /\ \A u \in Constant : u # v <=> u \in {e1.b, e2.b}
            /\ e1.b \in Constant /\ e2.b \in Constant
        BY <2>1, <2>3, RemainingIs
      <3>2. j = Comp("NE", s, v)
        BY <2>2, <2>3
      <3> HIDE DEF s, pairs, j, v
      <3>3. ASSUME NEW w, IsWorld(w) PROVE Value(j, w) = Op("OR", Value(e1, w), Value(e2, w))
        <4>1. /\ w.txt[s] \in Constant
              /\ Value(e1, w) = IF w.txt[s] = e1.b THEN 2 ELSE 0
              /\ Value(e2, w) = IF w.txt[s] = e2.b THEN 2 ELSE 0
              /\ Value(j, w) = IF w.txt[s] = v THEN 0 ELSE 2
          BY <2>0, <2>1, <3>1, <3>2, <3>3, ShapeValue
        <4> QED BY <3>1, <4>1 DEF Op, EXPR_OR
      <3>4. Tidy(j) /\ j.size = 1
        BY <2>1, <3>1, <3>2, MadeTidy
      <3> QED BY <3>3, <3>4 DEF Joins, j
    <2>4. CASE ~(SymType[s] = "tristate" /\ pairs # {}) /\ SymType[s] = "bool" /\ {e1, e2} = {Sym(s), Not(Sym(s))}
      <3>1. j = Sym("y")
        BY <2>2, <2>4
      <3> HIDE DEF s, pairs, j
      <3>2. ASSUME NEW w, IsWorld(w) PROVE Value(j, w) = Op("OR", Value(e1, w), Value(e2, w))
        <4>1. w.tri[s] \in {0, 2} /\ Value(Sym(s), w) = w.tri[s] /\ Value(Not(Sym(s)), w) = 2 - w.tri[s]
          BY <2>0, <2>1, <2>4, <3>2, ShapeValue
        <4>2. Value(j, w) = 2
          BY <3>1, <3>2, ConstantValue
        <4>3. \/ e1 = Sym(s) /\ e2 = Not(Sym(s))
              \/ e2 = Sym(s) /\ e1 = Not(Sym(s))
          BY <2>4 DEF Sym, Not
        <4>4. CASE e1 = Sym(s) /\ e2 = Not(Sym(s))
          BY <4>1, <4>2, <4>4 DEF Op, EXPR_OR
        <4>5. CASE e2 = Sym(s) /\ e1 = Not(Sym(s))
          BY <4>1, <4>2, <4>5 DEF Op, EXPR_OR
        <4> QED BY <4>3, <4>4, <4>5
      <3>3. Tidy(j) /\ j.size = 1
        BY <3>1, MadeTidy
      <3> QED BY <3>2, <3>3 DEF Joins, j
    <2>5. CASE j = NoExpr
      BY <2>5 DEF Joins
    <2> QED BY <2>2, <2>3, <2>4, <2>5
  <1> QED BY <1>1, <1>2, <1>3

\* expr_join_and() returns a leaf with the value of its operands, or nothing.
LEMMA JoinAnd ==
  ASSUME NEW e1, NEW e2, Tidy(e1), Tidy(e2)
  PROVE  Joins("AND", expr_join_and(e1, e2), e1, e2)
  <1> DEFINE s == SubjectOf(e1)
             pairs == {q \in TriPairs : Against(e1, "NE", q[1], e2, "NE", q[2])}
             eqne == {e1.t, e2.t} = {"EQ", "NE"} /\ e1.b \in ConstSyms /\ e2.b \in ConstSyms
             eq == IF e1.t = "EQ" THEN e1 ELSE e2
             j == expr_join_and(e1, e2)
  <1>1. CASE expr_eq(e1, e2)
    <2>1. j = e1
      BY <1>1 DEF expr_join_and
    <2> QED BY <1>1, <2>1, EqualJoins DEF Binary
  <1>2. CASE ~expr_eq(e1, e2) /\ ~SameSubject(e1, e2)
    <2>1. j = NoExpr
      BY <1>2 DEF expr_join_and
    <2> QED BY <2>1 DEF Joins
  <1>3. CASE ~expr_eq(e1, e2) /\ SameSubject(e1, e2)
    <2>1. /\ Shape(e1, s) /\ Shape(e2, s) /\ s \in DOMAIN SymType \ Constant /\ IsBoolean(s)
      BY <1>3, SubjectIs
    <2>2. j = IF Beside(e1, e2, "EQ", "y") \/ Beside(e1, e2, "NE", "m") THEN Comp("EQ", s, "y")
              ELSE IF Beside(e1, e2, "NE", "n") THEN Sym(s)
              ELSE IF SymType[s] = "tristate" /\ eqne THEN IF e1.b # e2.b THEN eq ELSE Sym("n")
              ELSE IF SymType[s] = "tristate" /\ pairs # {} THEN Comp("EQ", s, Remaining(pairs))
              ELSE NoExpr
      BY <1>3 DEF expr_join_and
    <2>3. ASSUME NEW t \in {"EQ", "NE"}, NEW c \in Constant, Beside(e1, e2, t, c)
          PROVE  (e1 = Sym(s) /\ e2 = Comp(t, s, c)) \/ (e2 = Sym(s) /\ e1 = Comp(t, s, c))
      <3>1. \A f : f.t = "SYM" /\ Shape(f, s) => f = Sym(s)
        BY DEF Shape, Not
      <3>2. \A f : f.t = t /\ f.b = c /\ Shape(f, s) => f = Comp(t, s, c)
        BY DEF Shape, Sym, Not
      <3> QED BY <2>1, <2>3, <3>1, <3>2 DEF Beside
    <2>4. CASE Beside(e1, e2, "EQ", "y") \/ Beside(e1, e2, "NE", "m")
      <3>1. j = Comp("EQ", s, "y")
        BY <2>2, <2>4
      <3>3. PICK t \in {"EQ", "NE"}, c \in Constant :
               /\ (t = "EQ" /\ c = "y") \/ (t = "NE" /\ c = "m")
               /\ (e1 = Sym(s) /\ e2 = Comp(t, s, c)) \/ (e2 = Sym(s) /\ e1 = Comp(t, s, c))
        BY <2>3, <2>4 DEF Constant
      <3> HIDE DEF s, pairs, j, eqne, eq
      <3>4. ASSUME NEW w, IsWorld(w) PROVE Value(j, w) = Op("AND", Value(e1, w), Value(e2, w))
        <4>1. /\ w.tri[s] \in {0, 1, 2} /\ w.txt[s] \in Constant
              /\ w.txt[s] = "m" <=> w.tri[s] = 1
              /\ w.txt[s] = "y" <=> w.tri[s] = 2
              /\ Value(Sym(s), w) = w.tri[s]
              /\ Value(Comp("EQ", s, "y"), w) = IF w.txt[s] = "y" THEN 2 ELSE 0
              /\ Value(Comp("NE", s, "m"), w) = IF w.txt[s] = "m" THEN 0 ELSE 2
          BY <2>1, <3>4, ShapeValue DEF Constant
        <4>2. Value(j, w) = IF w.txt[s] = "y" THEN 2 ELSE 0
          BY <3>1, <4>1
        <4>3. Value(Comp(t, s, c), w) = IF t = "EQ" THEN IF w.txt[s] = "y" THEN 2 ELSE 0
                                        ELSE IF w.txt[s] = "m" THEN 0 ELSE 2
          <5>1. CASE t = "EQ" /\ c = "y"
            BY <4>1, <5>1
          <5>2. CASE t = "NE" /\ c = "m"
            BY <4>1, <5>2
          <5> QED BY <3>3, <5>1, <5>2
        <4>4. \/ Value(e1, w) = w.tri[s] /\ Value(e2, w) = Value(Comp(t, s, c), w)
              \/ Value(e2, w) = w.tri[s] /\ Value(e1, w) = Value(Comp(t, s, c), w)
          BY <3>3, <4>1
        <4> QED BY <4>1, <4>2, <4>3, <4>4 DEF Op, EXPR_AND
      <3>5. Tidy(j) /\ j.size = 1
        BY <2>1, <3>1, MadeTidy DEF Constant
      <3> QED BY <3>4, <3>5 DEF Joins, j
    <2>5. CASE ~(Beside(e1, e2, "EQ", "y") \/ Beside(e1, e2, "NE", "m")) /\ Beside(e1, e2, "NE", "n")
      <3>1. j = Sym(s)
        BY <2>2, <2>5
      <3>2. (e1 = Sym(s) /\ e2 = Comp("NE", s, "n")) \/ (e2 = Sym(s) /\ e1 = Comp("NE", s, "n"))
        BY <2>3, <2>5 DEF Constant
      <3> HIDE DEF s, pairs, j, eqne, eq
      <3>3. ASSUME NEW w, IsWorld(w) PROVE Value(j, w) = Op("AND", Value(e1, w), Value(e2, w))
        <4>1. /\ w.tri[s] \in {0, 1, 2} /\ w.txt[s] \in Constant
              /\ w.txt[s] = "n" <=> w.tri[s] = 0
              /\ Value(Sym(s), w) = w.tri[s]
              /\ Value(Comp("NE", s, "n"), w) = IF w.txt[s] = "n" THEN 0 ELSE 2
          BY <2>1, <3>3, ShapeValue DEF Constant
        <4> QED BY <3>1, <3>2, <4>1 DEF Op, EXPR_AND
      <3>4. Tidy(j) /\ j.size = 1
        BY <2>1, <3>1, MadeTidy
      <3> QED BY <3>3, <3>4 DEF Joins, j
    <2>6. CASE /\ ~(Beside(e1, e2, "EQ", "y") \/ Beside(e1, e2, "NE", "m")) /\ ~Beside(e1, e2, "NE", "n")
               /\ SymType[s] = "tristate" /\ eqne
      <3>1. j = IF e1.b # e2.b THEN eq ELSE Sym("n")
        BY <2>2, <2>6
      <3>2. \E a, b \in ConstSyms \intersect DOMAIN SymType :
               /\ eq = Comp("EQ", s, a)
               /\ (e1.b # e2.b <=> a # b)
               /\ (e1 = Comp("EQ", s, a) /\ e2 = Comp("NE", s, b)) \/ (e2 = Comp("EQ", s, a) /\ e1 = Comp("NE", s, b))
        <4>1. \/ e1.t = "EQ" /\ e2.t = "NE"
              \/ e2.t = "EQ" /\ e1.t = "NE"
          BY <2>6
        <4>2. \A f : f.t \in {"EQ", "NE"} /\ Shape(f, s) => f = Comp(f.t, s, f.b) /\ f.b \in DOMAIN SymType
          BY DEF Shape, Sym, Not
        <4>3. e1.b \in ConstSyms /\ e2.b \in ConstSyms
          BY <2>6
        <4>4. CASE e1.t = "EQ" /\ e2.t = "NE"
          BY <2>1, <4>2, <4>3, <4>4
        <4>5. CASE e2.t = "EQ" /\ e1.t = "NE"
          BY <2>1, <4>2, <4>3, <4>5
        <4> QED BY <4>1, <4>4, <4>5
      <3>3. PICK a, b \in ConstSyms \intersect DOMAIN SymType :
               /\ eq = Comp("EQ", s, a)
               /\ (e1.b # e2.b <=> a # b)
               /\ (e1 = Comp("EQ", s, a) /\ e2 = Comp("NE", s, b)) \/ (e2 = Comp("EQ", s, a) /\ e1 = Comp("NE", s, b))
        BY <3>2
      <3>4. j = IF a # b THEN Comp("EQ", s, a) ELSE Sym("n")
        BY <3>1, <3>3
      <3> HIDE DEF s, pairs, j, eqne, eq
      <3>5. ASSUME NEW w, IsWorld(w) PROVE Value(j, w) = Op("AND", Value(e1, w), Value(e2, w))
        <4> DEFINE x == Value(Comp("EQ", s, a), w)
                   y == Value(Comp("NE", s, b), w)
        <4>1. "EQ" \in Comparisons /\ "NE" \in Comparisons /\ Flip["EQ"] = "NE"
          BY DEF Comparisons, Flip
        <4>2. x \in {0, 2} /\ y \in {0, 2} /\ (a = b => y = 2 - x)
          BY <2>1, <3>5, <4>1, FlipIs
        <4>3. a # b /\ x = 2 => y = 2
          <5>1. /\ x = IF Relation("EQ", Compared("EQ", s, a, w)) THEN 2 ELSE 0
                /\ y = IF Relation("NE", Compared("NE", s, b, w)) THEN 2 ELSE 0
            BY <2>1, <4>1, AtomValue
          <5>2. Compared("EQ", s, a, w) \in {-1, 0, 1} /\ Compared("NE", s, b, w) \in {-1, 0, 1}
            BY <2>1, <3>5, <4>1, ComparedType
          <5>3. \A r \in {-1, 0, 1} : (Relation("EQ", r) <=> r = 0) /\ (Relation("NE", r) <=> r # 0)
            BY DEF Relation
          <5>4. /\ Compared("EQ", s, a, w) = Equated(w.txt[s], SymType[s], a, SymType[a])
                /\ Compared("NE", s, b, w) = Equated(w.txt[s], SymType[s], b, SymType[b])
            <6>1. w.txt[a] = a /\ w.txt[b] = b
              BY <3>5, WorldIs
            <6>2. ("EQ" \in {"EQ", "NE"}) = TRUE /\ ("NE" \in {"EQ", "NE"}) = TRUE
              OBVIOUS
            <6> QED BY <6>1, <6>2, Zenon DEF Compared, Equated
          <5>5. /\ w.txt[s] \in Constant /\ SymType[s] \in BooleanTypes
                /\ a \in Texts /\ b \in Texts /\ SymType[a] = "unknown" /\ SymType[b] = "unknown"
            BY <2>1, <2>6, <3>5, WorldIs DEF BooleanTypes
          <5>6. ASSUME a # b, Equated(w.txt[s], SymType[s], a, SymType[a]) = 0
                PROVE  Equated(w.txt[s], SymType[s], b, SymType[b]) # 0
            BY <5>5, <5>6, ComparedWithTwo
          <5> QED BY <5>1, <5>2, <5>3, <5>4, <5>6
        <4>4. a = b => Value(j, w) = 0
          BY <3>4, <3>5, ConstantValue
        <4>5. a # b => Value(j, w) = x
          BY <3>4
        <4>6. \/ Value(e1, w) = x /\ Value(e2, w) = y
              \/ Value(e2, w) = x /\ Value(e1, w) = y
          BY <3>3
        <4> HIDE DEF x, y
        <4> QED BY <4>2, <4>3, <4>4, <4>5, <4>6 DEF Op, EXPR_AND
      <3>6. Tidy(j) /\ j.size = 1
        <4>1. Tidy(Comp("EQ", s, a))
          BY <2>1, TidyMake DEF Comparisons
        <4>2. Comp("EQ", s, a).size = 1
          BY DEF Comp
        <4> QED BY <3>4, <4>1, <4>2, MadeTidy
      <3> QED BY <3>5, <3>6 DEF Joins, j
    <2>7. CASE /\ ~(Beside(e1, e2, "EQ", "y") \/ Beside(e1, e2, "NE", "m")) /\ ~Beside(e1, e2, "NE", "n")
               /\ SymType[s] = "tristate" /\ ~eqne /\ pairs # {}
      <3> DEFINE v == Remaining(pairs)
      <3>1. /\ e1 = Comp("NE", s, e1.b) /\ e2 = Comp("NE", s, e2.b) /\ v \in Constant
            /\ \A u \in Constant : u # v <=> u \in {e1.b, e2.b}
            /\ e1.b \in Constant /\ e2.b \in Constant
        <4>1. pairs # {} /\ pairs = {q \in TriPairs : Against(e1, "NE", q[1], e2, "NE", q[2])}
          BY <2>7
        <4> HIDE DEF pairs, s, eqne, eq, j
        <4> QED BY <2>1, <4>1, RemainingIs
      <3>2. j = Comp("EQ", s, v)
        BY <2>2, <2>7
      <3> HIDE DEF s, pairs, j, v, eqne, eq
      <3>3. ASSUME NEW w, IsWorld(w) PROVE Value(j, w) = Op("AND", Value(e1, w), Value(e2, w))
        <4>1. /\ w.txt[s] \in Constant
              /\ Value(e1, w) = IF w.txt[s] = e1.b THEN 0 ELSE 2
              /\ Value(e2, w) = IF w.txt[s] = e2.b THEN 0 ELSE 2
              /\ Value(j, w) = IF w.txt[s] = v THEN 2 ELSE 0
          BY <2>1, <3>1, <3>2, <3>3, ShapeValue
        <4> QED BY <3>1, <4>1 DEF Op, EXPR_AND
      <3>4. Tidy(j) /\ j.size = 1
        BY <2>1, <3>1, <3>2, MadeTidy
      <3> QED BY <3>3, <3>4 DEF Joins, j
    <2>8. CASE j = NoExpr
      BY <2>8 DEF Joins
    <2> QED BY <2>2, <2>4, <2>5, <2>6, <2>7, <2>8
  <1> QED BY <1>1, <1>2, <1>3

-----------------------------------------------------------------------------
\* Joining equal operands keeps the value.  s2 stands for s, at whose level t
\* operands have been joined: all the nodes of the level are still there.
Better(t, s, s2) ==
  /\ Tidy(s2) /\ s2.size <= s.size /\ Same(s, s2)
  /\ \A q \in Paths : Inner(s, t, q) => Inner(s2, t, q)
Counted(n) == [e : Exprs[n], count : Nat]
\* y is x with something better at p0.
Result(t, n, x, p0, y) == y \in Counted(n) /\ \E s2 : y.e = Put(x.e, p0, s2) /\ Better(t, At(x.e, p0), s2)
SoundJoin(call, n) ==
  \A t \in Binary, x \in Counted(n), p0, q1, q2 \in Paths :
    /\ Tidy(x.e) /\ Reach(x.e, Binary, p0)
    /\ Reach(At(x.e, p0), {t}, q1) /\ Reach(At(x.e, p0), {t}, q2)
    => Result(t, n, x, p0, call[<<t, x, p0 \o q1, p0 \o q2>>])

\* What is better is still a level with those nodes; better twice is better.
LEMMA BetterKeeps ==
  ASSUME NEW t \in Binary, NEW s \in Expr, NEW s2, Better(t, s, s2)
  PROVE  /\ s2 \in Expr
         /\ \A q \in Paths : Reach(s, {t}, q) => Reach(s2, {t}, q)
         /\ \A s3 : Better(t, s2, s3) => Better(t, s, s3)
  <1>1. s2 \in Expr
    BY DEF Better, Tidy
  <1>2. ASSUME NEW q \in Paths, Reach(s, {t}, q) PROVE Reach(s2, {t}, q)
    <2>1. CASE q = <<>>
      BY <1>1, <2>1, LevelIs
    <2>2. CASE q # <<>>
      <3>1. PICK r \in Paths, d \in {1, 2} : q = Append(r, d)
        BY <2>2, PathIs
      <3>2. Inner(s, t, r)
        BY <1>2, <3>1, LevelReaches
      <3>3. Inner(s2, t, r)
        BY <3>2 DEF Better
      <3>4. Reach(s2, {t}, Append(r, d))
        BY <1>1, <3>3, LevelReaches
      <3> QED BY <3>1, <3>4
    <2> QED BY <2>1, <2>2
  <1>3. ASSUME NEW s3, Better(t, s2, s3) PROVE Better(t, s, s3)
    <2>1. s3 \in Expr
      BY <1>3 DEF Better, Tidy
    <2>2. s.size \in Nat /\ s2.size \in Nat /\ s3.size \in Nat
      BY <1>1, <2>1, ExprIs
    <2> QED BY <1>3, <2>2 DEF Better, Same
  <1> QED BY <1>1, <1>2, <1>3

\* Nothing changed.
LEMMA BetterSelf ==
  ASSUME NEW t, NEW s, Tidy(s)
  PROVE  Better(t, s, s)
  <1>1. s.size \in Nat
    BY ExprIs DEF Tidy
  <1> QED BY <1>1 DEF Better, Same

\* What Result says of the tree with it.
LEMMA ResultIs ==
  ASSUME NEW t \in Binary, NEW n \in Nat, NEW x \in Counted(n), NEW p0 \in Paths, Tidy(x.e), Reach(x.e, Binary, p0)
  PROVE  /\ At(x.e, p0) \in Expr /\ Tidy(At(x.e, p0))
         /\ \A s2, k : k \in Nat /\ Better(t, At(x.e, p0), s2) => Result(t, n, x, p0, [e |-> Put(x.e, p0, s2), count |-> k])
         /\ Result(t, n, x, p0, x)
         /\ \A y : Result(t, n, x, p0, y) => /\ y \in Counted(n) /\ Tidy(y.e) /\ Reach(y.e, Binary, p0)
                                             /\ Better(t, At(x.e, p0), At(y.e, p0))
                                             /\ y.e = Put(x.e, p0, At(y.e, p0))
                                             /\ Same(x.e, y.e)
                                             /\ \A z : Result(t, n, y, p0, z) => Result(t, n, x, p0, z)
  <1> DEFINE s == At(x.e, p0)
  <1>1. x.e \in Expr /\ x.e.size <= n /\ x.e.size \in Nat /\ x.count \in Nat /\ x.e \in Exprs[n]
        /\ x = [e |-> x.e, count |-> x.count]
    BY ExprIs DEF Counted
  <1>2. AtFacts(x.e, p0) /\ \A new \in Expr : PutFacts(x.e, p0, new)
    BY <1>1, PutKeeps
  <1>3. s \in Expr /\ Tidy(s) /\ s.size \in Nat /\ s.size <= x.e.size /\ Put(x.e, p0, s) = x.e
    BY <1>2, ExprIs DEF AtFacts
  <1> HIDE DEF s
  <1>4. ASSUME NEW s2, Better(t, s, s2)
        PROVE  /\ s2 \in Expr /\ Put(x.e, p0, s2) \in Exprs[n] /\ Tidy(Put(x.e, p0, s2))
               /\ Reach(Put(x.e, p0, s2), Binary, p0) /\ At(Put(x.e, p0, s2), p0) = s2
               /\ \A b : Put(Put(x.e, p0, s2), p0, b) = Put(x.e, p0, b)
               /\ Same(x.e, Put(x.e, p0, s2))
    <2> DEFINE r == Put(x.e, p0, s2)
    <2>1. Tidy(s2) /\ s2 \in Expr /\ s2.size <= s.size /\ s2.size \in Nat
      BY <1>4, ExprIs DEF Better, Tidy
    <2>2. PutFacts(x.e, p0, s2)
      BY <1>2, <2>1
    <2>3. r \in Expr /\ r.size = (x.e.size - s.size) + s2.size /\ Tidy(r) /\ Reach(r, Binary, p0) /\ At(r, p0) = s2
          /\ \A b : Put(r, p0, b) = Put(x.e, p0, b)
      BY <2>1, <2>2 DEF PutFacts, s
    <2>4. r \in Exprs[n]
      <3>1. r.size <= n
        BY <1>1, <1>3, <2>1, <2>3
      <3> QED BY <2>3, <3>1, ExprIs
    <2>5. \A w : IsWorld(w) => Value(s2, w) = Value(s, w)
      BY <1>4 DEF Better, Same
    <2>6. \A w : IsWorld(w) => Value(r, w) = Value(x.e, w)
      BY <2>2, <2>5 DEF PutFacts, s
    <2> QED BY <2>1, <2>3, <2>4, <2>6 DEF Same
  <1>5. ASSUME NEW s2, NEW k \in Nat, Better(t, s, s2) PROVE Result(t, n, x, p0, [e |-> Put(x.e, p0, s2), count |-> k])
    BY <1>4, <1>5 DEF Result, Counted, s
  <1>6. Result(t, n, x, p0, x)
    <2>1. Better(t, s, s)
      BY <1>3, BetterSelf
    <2> QED BY <1>1, <1>3, <1>5, <2>1
  <1>7. ASSUME NEW y, Result(t, n, x, p0, y)
        PROVE  /\ y \in Counted(n) /\ Tidy(y.e) /\ Reach(y.e, Binary, p0)
               /\ Better(t, s, At(y.e, p0))
               /\ y.e = Put(x.e, p0, At(y.e, p0))
               /\ Same(x.e, y.e)
               /\ \A z : Result(t, n, y, p0, z) => Result(t, n, x, p0, z)
    <2>1. PICK s2 : y.e = Put(x.e, p0, s2) /\ Better(t, s, s2)
      BY <1>7 DEF Result, s
    <2>2. At(y.e, p0) = s2 /\ Tidy(y.e) /\ Reach(y.e, Binary, p0) /\ Same(x.e, y.e)
          /\ \A b : Put(y.e, p0, b) = Put(x.e, p0, b)
      BY <1>4, <2>1
    <2>3. ASSUME NEW z, Result(t, n, y, p0, z) PROVE Result(t, n, x, p0, z)
      <3>1. PICK s3 : z.e = Put(y.e, p0, s3) /\ Better(t, s2, s3) /\ z \in Counted(n)
        BY <2>2, <2>3 DEF Result
      <3>2. Better(t, s, s3)
        BY <1>3, <2>1, <3>1, BetterKeeps
      <3> QED BY <2>2, <3>1, <3>2 DEF Result, s
    <2>4. y \in Counted(n)
      BY <1>7 DEF Result
    <2> QED BY <2>1, <2>2, <2>3, <2>4
  <1> QED BY <1>3, <1>5, <1>6, <1>7 DEF s

\* Two operands of a level joined: the first becomes the unit, the second what
\* both are.
LEMMA JoinSound ==
  ASSUME NEW t \in Binary, NEW n \in Nat, NEW x \in Counted(n), NEW p0 \in Paths, NEW q1 \in Paths, NEW q2 \in Paths,
         Tidy(x.e), Reach(x.e, Binary, p0), Outer(At(x.e, p0), t, q1), Outer(At(x.e, p0), t, q2), q1 # q2
  PROVE  Result(t, n, x, p0, JoinDup(t, x, p0 \o q1, p0 \o q2))
  <1> DEFINE s == At(x.e, p0)
             u == Sym(Unit(t))
             e1 == At(s, q1)
             e2 == At(s, q2)
             j == IF t = "OR" THEN expr_join_or(e1, e2) ELSE expr_join_and(e1, e2)
             s1 == Put(s, q1, u)
             s2 == Put(s1, q2, j)
  <1>1. x.e \in Expr /\ x.count \in Nat
    BY ExprIs DEF Counted
  <1>2. s \in Expr /\ Tidy(s) /\ Result(t, n, x, p0, x)
    BY ResultIs
  <1>3. AtFacts(x.e, p0) /\ \A new \in Expr : PutFacts(x.e, p0, new)
    BY <1>1, PutKeeps
  <1>4. At(x.e, p0 \o q1) = e1 /\ At(x.e, p0 \o q2) = e2
    BY <1>3 DEF AtFacts
  <1>5. JoinDup(t, x, p0 \o q1, p0 \o q2) = ReplaceDup(t, x, p0 \o q1, p0 \o q2, j)
    <2> HIDE DEF s
    <2> QED BY <1>4 DEF JoinDup
  <1>6. CASE j = NoExpr
    <2>1. ReplaceDup(t, x, p0 \o q1, p0 \o q2, j) = x
      BY <1>6 DEF ReplaceDup
    <2> QED BY <1>2, <1>5, <2>1
  <1>7. CASE j # NoExpr
    <2>0. Outer(s, t, q1) /\ Outer(s, t, q2) /\ Reach(s, Binary, q1) /\ Reach(s, Binary, q2)
      BY <1>2, LevelReaches DEF Outer
    <2> HIDE DEF s
    <2>1. AtFacts(s, q1) /\ AtFacts(s, q2) /\ \A new \in Expr : PutFacts(s, q1, new)
      BY <1>2, <2>0, PutKeeps
    <2>2. e1 \in Expr /\ e2 \in Expr /\ Tidy(e1) /\ Tidy(e2) /\ e1.size \in Nat \ {0} /\ e2.size \in Nat \ {0}
      BY <1>2, <2>1, ExprIs DEF AtFacts
    <2>3. Joins(t, j, e1, e2)
      <3> HIDE DEF e1, e2
      <3> QED BY <2>2, JoinOr, JoinAnd DEF Binary
    <2>4. /\ Tidy(j) /\ (j = e1 \/ j.size = 1) /\ j \in Expr /\ j.size \in Nat
          /\ \A w : IsWorld(w) => Value(j, w) = Op(t, Value(e1, w), Value(e2, w))
      BY <1>7, <2>3, ExprIs DEF Joins, Tidy
    <2>5. u \in Expr /\ Tidy(u) /\ u.size = 1
      BY UnitIs
    <2> HIDE DEF u, e1, e2, j
    <2>6. SingleFacts(t, s, q1, u) /\ PutFacts(s, q1, u)
      BY <1>2, <2>0, <2>1, <2>5, Single
    <2>7. s1 \in Expr /\ s1.size = (s.size - e1.size) + 1 /\ Tidy(s1) /\ Outer(s1, t, q2) /\ At(s1, q2) = e2
          /\ s1.size \in Nat /\ s.size \in Nat
      <3>1. Outer(s1, t, q2) /\ At(s1, q2) = e2
        BY <2>0, <2>6 DEF SingleFacts, e2
      <3>2. s1 \in Expr /\ s1.size = (s.size - e1.size) + 1 /\ Tidy(s1)
        BY <1>2, <2>5, <2>6 DEF PutFacts, e1
      <3> QED BY <1>2, <3>1, <3>2, ExprIs
    <2> HIDE DEF s1
    <2>8. Reach(s1, Binary, q2)
      BY <2>7, LevelReaches DEF Outer
    <2>9. SingleFacts(t, s1, q2, j) /\ PutFacts(s1, q2, j)
      BY <2>4, <2>7, <2>8, Single, PutKeeps
    <2>10. s2 \in Expr /\ s2.size = (s1.size - e2.size) + j.size /\ Tidy(s2)
      BY <2>4, <2>7, <2>9 DEF PutFacts
    <2>11. s2.size <= s.size
      <3>1. e1.size \in Nat \ {0} /\ e2.size \in Nat \ {0} /\ s.size \in Nat
        BY <2>2, <2>7
      <3>2. j.size = e1.size \/ j.size = 1
        BY <2>4
      <3>3. s2.size = (((s.size - e1.size) + 1) - e2.size) + j.size
        BY <2>7, <2>10
      <3> QED BY <3>1, <3>2, <3>3, SMT
    <2>12. ASSUME NEW w, IsWorld(w) PROVE Value(s, w) = Value(s2, w)
      <3>1. PICK c \in {0, 1, 2} : Value(s, w) = Op(t, Value(e1, w), c) /\ Value(s1, w) = Op(t, Value(u, w), c)
        BY <2>6, <2>12 DEF SingleFacts, e1, s1
      <3>2. PICK d \in {0, 1, 2} : Value(s1, w) = Op(t, Value(e2, w), d) /\ Value(s2, w) = Op(t, Value(j, w), d)
        BY <2>7, <2>9, <2>12 DEF SingleFacts
      <3>3. Op(t, Value(u, w), c) = c
        BY <2>12, UnitIs DEF u
      <3>4. Value(e1, w) \in {0, 1, 2} /\ Value(e2, w) \in {0, 1, 2}
        BY <2>2, <2>12, ValueType
      <3>5. Value(j, w) = Op(t, Value(e1, w), Value(e2, w))
        BY <2>4, <2>12
      <3>6. Value(s, w) = Op(t, Value(e1, w), Op(t, Value(e2, w), d))
        BY <3>1, <3>2, <3>3
      <3>7. Value(s2, w) = Op(t, Op(t, Value(e1, w), Value(e2, w)), d)
        BY <3>2, <3>5
      <3> QED BY <3>4, <3>6, <3>7, OpIs
    <2>13. \A q \in Paths : Inner(s, t, q) => Inner(s2, t, q)
      BY <2>6, <2>9 DEF SingleFacts, s1
    <2> HIDE DEF s2
    <2>14. Better(t, s, s2)
      BY <2>10, <2>11, <2>12, <2>13 DEF Better, Same
    <2>15. Put(Put(x.e, p0 \o q1, u), p0 \o q2, j) = Put(x.e, p0, s2)
      <3> DEFINE x1 == Put(x.e, p0, s1)
      <3>1. Put(x.e, p0 \o q1, u) = x1
        BY <1>3 DEF AtFacts, s, s1
      <3>2. x1 \in Expr /\ Reach(x1, Binary, p0) /\ At(x1, p0) = s1 /\ \A b : Put(x1, p0, b) = Put(x.e, p0, b)
        BY <1>3, <2>7 DEF PutFacts
      <3> HIDE DEF x1
      <3>3. AtFacts(x1, p0)
        BY <3>2, PutKeeps
      <3>4. Put(x1, p0 \o q2, j) = Put(x1, p0, s2)
        BY <3>2, <3>3 DEF AtFacts, s2
      <3> QED BY <3>1, <3>2, <3>4
    <2>16. ReplaceDup(t, x, p0 \o q1, p0 \o q2, j) = [e |-> Put(x.e, p0, s2), count |-> x.count + 1]
      BY <1>7, <2>15 DEF ReplaceDup, u
    <2>17. Result(t, n, x, p0, [e |-> Put(x.e, p0, s2), count |-> x.count + 1])
      BY <1>1, <2>14, ResultIs DEF s
    <2> QED BY <1>5, <2>16, <2>17
  <1> QED BY <1>6, <1>7

\* One call of expr_eliminate_dups1().
LEMMA DupsSound ==
  ASSUME NEW n \in Nat, NEW call, SoundJoin(call, n),
         NEW t \in Binary, NEW x \in Counted(n), NEW p0 \in Paths, NEW q1 \in Paths, NEW q2 \in Paths,
         Tidy(x.e), Reach(x.e, Binary, p0), Reach(At(x.e, p0), {t}, q1), Reach(At(x.e, p0), {t}, q2)
  PROVE  Result(t, n, x, p0, Dups1(call, t, x, p0 \o q1, p0 \o q2))
  <1> DEFINE s == At(x.e, p0)
             p1 == p0 \o q1
             p2 == p0 \o q2
             e1 == At(s, q1)
             e2 == At(s, q2)
             D == Dups1(call, t, x, p1, p2)
  <1>0. /\ \A q \in Paths, d \in {1, 2} : Append(q, d) \in Paths /\ p0 \o Append(q, d) = Append(p0 \o q, d)
        /\ 1 \in {1, 2} /\ 2 \in {1, 2}
    <2>1. 1 \in {1, 2} /\ 2 \in {1, 2}
      OBVIOUS
    <2>2. \A q \in Paths, d \in {1, 2} : Append(q, d) \in Paths
      BY PathIs, Zenon
    <2>3. \A q \in Paths, d \in {1, 2} : p0 \o Append(q, d) = Append(p0 \o q, d)
      <3>1. \A p, q \in Paths : \A d \in {1, 2} : p \o Append(q, d) = Append(p \o q, d)
        BY PathIs
      <3> QED BY <3>1, Zenon
    <2> QED BY <2>1, <2>2, <2>3, Zenon
  <1>1. x.e \in Expr
    BY ExprIs DEF Counted
  <1>2. s \in Expr /\ Tidy(s) /\ Result(t, n, x, p0, x)
    BY ResultIs
  <1>3. AtFacts(x.e, p0)
    BY <1>1, PutKeeps
  <1>4. At(x.e, p1) = e1 /\ At(x.e, p2) = e2
    BY <1>3 DEF AtFacts
  <1>5. p1 \in Paths /\ p2 \in Paths
    BY PathIs
  \* One operand after the other.
  <1>6. ASSUME NEW a1 \in Paths, NEW b1 \in Paths, NEW a2 \in Paths, NEW b2 \in Paths,
               Reach(s, {t}, a1), Reach(s, {t}, b1), Reach(s, {t}, a2), Reach(s, {t}, b2)
        PROVE  Result(t, n, x, p0, call[<<t, call[<<t, x, p0 \o a1, p0 \o b1>>], p0 \o a2, p0 \o b2>>])
    <2> DEFINE y == call[<<t, x, p0 \o a1, p0 \o b1>>]
               z == call[<<t, y, p0 \o a2, p0 \o b2>>]
    <2>1. Result(t, n, x, p0, y)
      BY <1>6 DEF SoundJoin
    <2> HIDE DEF y
    <2>2. /\ y \in Counted(n) /\ Tidy(y.e) /\ Reach(y.e, Binary, p0) /\ Better(t, s, At(y.e, p0))
          /\ \A v : Result(t, n, y, p0, v) => Result(t, n, x, p0, v)
      BY <2>1, ResultIs
    <2>3. Reach(At(y.e, p0), {t}, a2) /\ Reach(At(y.e, p0), {t}, b2)
      BY <1>2, <1>6, <2>2, BetterKeeps
    <2>4. Result(t, n, y, p0, z)
      BY <2>2, <2>3 DEF SoundJoin
    <2> QED BY <2>2, <2>4 DEF y
  <1> HIDE DEF s
  <1>7. CASE e1.t = t
    <2>1. D = call[<<t, call[<<t, x, Append(p1, 1), p2>>], Append(p1, 2), p2>>]
      BY <1>4, <1>7 DEF Dups1
    <2>2. /\ Append(q1, 1) \in Paths /\ Append(q1, 2) \in Paths
          /\ p0 \o Append(q1, 1) = Append(p1, 1) /\ p0 \o Append(q1, 2) = Append(p1, 2)
      BY <1>0, Zenon
    <2>3. Reach(s, {t}, Append(q1, 1)) /\ Reach(s, {t}, Append(q1, 2)) /\ Reach(s, {t}, q2)
      <3>1. Inner(s, t, q1) /\ Reach(s, {t}, q2)
        BY <1>7 DEF Inner, s
      <3> QED BY <1>2, <3>1, LevelReaches
    <2>4. Result(t, n, x, p0, call[<<t, call[<<t, x, p0 \o Append(q1, 1), p0 \o q2>>], p0 \o Append(q1, 2), p0 \o q2>>])
      BY <1>6, <2>2, <2>3
    <2> QED BY <2>1, <2>2, <2>4
  <1>8. CASE e1.t # t /\ e2.t = t
    <2>1. D = call[<<t, call[<<t, x, p1, Append(p2, 1)>>], p1, Append(p2, 2)>>]
      BY <1>4, <1>8 DEF Dups1
    <2>2. /\ Append(q2, 1) \in Paths /\ Append(q2, 2) \in Paths
          /\ p0 \o Append(q2, 1) = Append(p2, 1) /\ p0 \o Append(q2, 2) = Append(p2, 2)
      BY <1>0, Zenon
    <2>3. Reach(s, {t}, Append(q2, 1)) /\ Reach(s, {t}, Append(q2, 2)) /\ Reach(s, {t}, q1)
      <3>1. Inner(s, t, q2) /\ Reach(s, {t}, q1)
        BY <1>8 DEF Inner, s
      <3> QED BY <1>2, <3>1, LevelReaches
    <2>4. Result(t, n, x, p0, call[<<t, call[<<t, x, p0 \o q1, p0 \o Append(q2, 1)>>], p0 \o q1, p0 \o Append(q2, 2)>>])
      BY <1>6, <2>2, <2>3
    <2> QED BY <2>1, <2>2, <2>4
  <1>9. CASE e1.t # t /\ e2.t # t /\ p1 = p2
    <2>1. D = x
      BY <1>4, <1>9 DEF Dups1
    <2> QED BY <1>2, <2>1
  <1>10. CASE e1.t # t /\ e2.t # t /\ p1 # p2
    <2>1. D = JoinDup(t, IF e1.t \in Binary THEN call[<<e1.t, x, p1, p1>>] ELSE x, p1, p2)
      BY <1>4, <1>10 DEF Dups1
    <2>2. Outer(s, t, q1) /\ Outer(s, t, q2) /\ q1 # q2
      BY <1>10 DEF Outer, s
    <2>3. CASE e1.t \notin Binary
      <3>1. D = JoinDup(t, x, p0 \o q1, p0 \o q2)
        BY <2>1, <2>3
      <3>2. Result(t, n, x, p0, JoinDup(t, x, p0 \o q1, p0 \o q2))
        BY <2>2, JoinSound DEF s
      <3> QED BY <3>1, <3>2
    <2>4. CASE e1.t \in Binary
      <3> DEFINE y == call[<<e1.t, x, p1, p1>>]
      <3>1. Reach(x.e, Binary, p1)
        <4>1. Reach(s, Binary, q1)
          BY <1>2, <2>2, LevelReaches DEF Outer
        <4> QED BY <1>3, <4>1 DEF AtFacts, s
      <3>2. Result(e1.t, n, x, p1, y)
        <4>1. <<>> \in Paths /\ p1 \o <<>> = p1
          BY <1>5, PathIs
        <4>2. At(x.e, p1) \in Expr /\ Reach(At(x.e, p1), {e1.t}, <<>>)
          <5>1. AtFacts(x.e, p1)
            BY <1>1, <1>5, <3>1, PutKeeps
          <5>2. At(x.e, p1) \in Expr
            BY <5>1 DEF AtFacts
          <5> QED BY <2>4, <4>1, <5>2, LevelIs
        <4> HIDE DEF p1, e1
        <4>3. Result(e1.t, n, x, p1, call[<<e1.t, x, p1 \o <<>>, p1 \o <<>> >>])
          BY <1>5, <2>4, <3>1, <4>1, <4>2 DEF SoundJoin
        <4> QED BY <4>1, <4>3
      <3> HIDE DEF y
      <3>3. /\ y \in Counted(n) /\ Tidy(y.e) /\ Better(e1.t, At(x.e, p1), At(y.e, p1))
            /\ y.e = Put(x.e, p1, At(y.e, p1))
        BY <1>5, <2>4, <3>1, <3>2, ResultIs
      <3> DEFINE v == At(y.e, p1)
                 s2 == Put(s, q1, v)
      <3>4. Better(e1.t, e1, v) /\ v \in Expr /\ Tidy(v) /\ v.size <= e1.size /\ e1 \in Expr /\ Tidy(e1)
        <4>1. Tidy(v)
          BY <3>3 DEF Better
        <4>2. AtFacts(x.e, p1)
          BY <1>1, <1>5, <3>1, PutKeeps
        <4> HIDE DEF v
        <4>3. Better(e1.t, e1, v)
          BY <1>4, <3>3 DEF v
        <4>4. e1 \in Expr /\ Tidy(e1)
          BY <1>4, <4>2 DEF AtFacts
        <4> HIDE DEF e1
        <4> QED BY <4>1, <4>3, <4>4 DEF Better, Tidy
      <3>5. v.t = e1.t
        <4>1. <<>> \in Paths
          BY PathIs
        <4> HIDE DEF v, e1
        <4>2. Inner(e1, e1.t, <<>>)
          BY <2>4, <3>4, <4>1, LevelIs
        <4>3. Inner(v, e1.t, <<>>)
          BY <3>4, <4>1, <4>2 DEF Better
        <4> QED BY <2>4, <3>4, <4>1, <4>3, LevelIs
      <3>6. y.e = Put(x.e, p0, s2)
        BY <1>3, <3>3 DEF AtFacts, s
      <3>7. SingleFacts(t, s, q1, v) /\ AtFacts(s, q1) /\ PutFacts(s, q1, v)
        <4>1. Reach(s, Binary, q1)
          BY <1>2, <2>2, LevelReaches DEF Outer
        <4> HIDE DEF v, e1
        <4> QED BY <1>2, <2>2, <3>4, <4>1, Single, PutKeeps
      <3> HIDE DEF v
      <3>8. Better(t, s, s2) /\ At(s2, q1) = v
        <4>1. s.size \in Nat /\ e1.size \in Nat /\ v.size \in Nat /\ e1.size <= s.size
          BY <1>2, <3>4, <3>7, ExprIs DEF AtFacts
        <4>2. s2 \in Expr /\ s2.size = (s.size - e1.size) + v.size /\ Tidy(s2) /\ At(s2, q1) = v
          BY <1>2, <3>4, <3>7 DEF PutFacts
        <4>3. s2.size <= s.size
          BY <3>4, <4>1, <4>2
        <4>4. \A w : IsWorld(w) => Value(v, w) = Value(e1, w)
          BY <3>4 DEF Better, Same
        <4>5. \A w : IsWorld(w) => Value(s2, w) = Value(s, w)
          BY <3>7, <4>4 DEF PutFacts
        <4>6. \A q \in Paths : Inner(s, t, q) => Inner(s2, t, q)
          BY <3>7 DEF SingleFacts
        <4> QED BY <4>2, <4>3, <4>5, <4>6 DEF Better, Same
      <3>9. Outer(s2, t, q1) /\ Outer(s2, t, q2)
        <4>1. Reach(s2, {t}, q1)
          BY <1>2, <2>2, <3>8, BetterKeeps DEF Outer
        <4>2. At(s2, q1).t # t
          BY <1>10, <3>5, <3>8
        <4>3. Outer(s2, t, q2)
          BY <2>2, <3>7 DEF SingleFacts
        <4> QED BY <4>1, <4>2, <4>3 DEF Outer
      <3>10. Result(t, n, x, p0, y)
        BY <3>3, <3>6, <3>8 DEF Result, s
      <3>11. /\ At(y.e, p0) = s2 /\ Reach(y.e, Binary, p0)
             /\ \A z : Result(t, n, y, p0, z) => Result(t, n, x, p0, z)
        <4>1. /\ Reach(y.e, Binary, p0)
              /\ \A z : Result(t, n, y, p0, z) => Result(t, n, x, p0, z)
          BY <3>10, ResultIs
        <4>2. PutFacts(x.e, p0, s2)
          <5>1. s2 \in Expr
            BY <3>8 DEF Better, Tidy
          <5> QED BY <1>1, <5>1, PutKeeps
        <4> QED BY <3>6, <4>1, <4>2 DEF PutFacts
      <3> HIDE DEF s2
      <3>12. Result(t, n, y, p0, JoinDup(t, y, p0 \o q1, p0 \o q2))
        BY <2>2, <3>3, <3>9, <3>11, JoinSound
      <3>13. D = JoinDup(t, y, p0 \o q1, p0 \o q2)
        BY <2>1, <2>4 DEF y
      <3> QED BY <3>11, <3>12, <3>13
    <2> QED BY <2>3, <2>4
  <1> QED BY <1>7, <1>8, <1>9, <1>10

-----------------------------------------------------------------------------
\* The calls of expr_eliminate_dups1(), one deeper than those below.
JoinedFrom(p, n, below) ==
  [q \in Binary \X [e : Exprs[p.size], count : Nat] \X Paths \X Paths |->
     IF n = 0 THEN q[2] ELSE Dups1(below, q[1], q[2], q[3], q[4])]
JoinedBody(p, n, calls) == JoinedFrom(p, n, calls[n - 1])
JoinedRec == INSTANCE Recursion WITH Body <- JoinedBody, Rank <- Number

\* All the calls of expr_eliminate_dups1(), however deep.
LEMMA JoinedSound ==
  ASSUME NEW e \in Expr
  PROVE  \E call : SoundJoin(call, e.size) /\ Joined(e) = call[<<e.t, [e |-> e, count |-> 0], <<>>, <<>>>>]
  <1> DEFINE top == 3 * e.size
             D == 0..top
             C == JoinedRec!Fixed(e, D)
             T == {n \in Nat : n \in D => SoundJoin(C[n], e.size)}
  <1>0. e.size \in Nat /\ top \in Nat /\ top \in D
    BY ExprIs
  <1>2. Joined(e) = C[top][<<e.t, [e |-> e, count |-> 0], <<>>, <<>>>>]
    BY DEF Joined, JoinedRec!Fixed, JoinedBody, JoinedFrom
  <1>3. \A n \in D : C[n] = JoinedBody(e, n, C)
    <2>1. ASSUME NEW a \in D, NEW g, NEW h, a > 0 => g[a - 1] = h[a - 1]
          PROVE  JoinedBody(e, a, g) = JoinedBody(e, a, h)
      <3>1. CASE a > 0
        BY <2>1, <3>1 DEF JoinedBody
      <3>2. CASE ~(a > 0)
        BY <3>2 DEF JoinedBody, JoinedFrom
      <3> QED BY <3>1, <3>2
    <2> QED BY <1>0, <2>1, JoinedRec!StepByStep DEF Number
  <1> HIDE DEF C
  <1>4. ASSUME NEW n \in D, NEW t \in Binary, NEW x \in Counted(e.size), NEW a \in Paths, NEW b \in Paths
        PROVE  C[n][<<t, x, a, b>>] = IF n = 0 THEN x ELSE Dups1(C[n - 1], t, x, a, b)
    <2>1. C[n] = JoinedFrom(e, n, C[n - 1])
      BY <1>3 DEF JoinedBody
    <2>2. x \in [e : Exprs[e.size], count : Nat]
      BY DEF Counted
    <2>3. JoinedFrom(e, n, C[n - 1])[<<t, x, a, b>>] = IF n = 0 THEN x ELSE Dups1(C[n - 1], t, x, a, b)
      BY <2>2 DEF JoinedFrom
    <2> QED BY <2>1, <2>3
  <1> HIDE DEF D, top
  <1>5. 0 \in T
    <2> SUFFICES ASSUME 0 \in D PROVE SoundJoin(C[0], e.size)
      OBVIOUS
    <2> SUFFICES ASSUME NEW t \in Binary, NEW x \in Counted(e.size), NEW p0 \in Paths, NEW q1 \in Paths, NEW q2 \in Paths,
                        Tidy(x.e), Reach(x.e, Binary, p0), Reach(At(x.e, p0), {t}, q1), Reach(At(x.e, p0), {t}, q2)
                 PROVE  Result(t, e.size, x, p0, C[0][<<t, x, p0 \o q1, p0 \o q2>>])
      BY DEF SoundJoin
    <2>1. p0 \o q1 \in Paths /\ p0 \o q2 \in Paths
      BY PathIs
    <2> DEFINE a == p0 \o q1
               b == p0 \o q2
    <2> HIDE DEF a, b
    <2>2. C[0][<<t, x, a, b>>] = x
      <3>1. a \in Paths /\ b \in Paths
        BY <2>1 DEF a, b
      <3> QED BY <1>4, <3>1
    <2>3. Result(t, e.size, x, p0, x)
      BY <1>0, ResultIs
    <2> QED BY <2>2, <2>3 DEF a, b
  <1>6. ASSUME NEW n \in Nat, n \in T PROVE n + 1 \in T
    <2> SUFFICES ASSUME n + 1 \in D PROVE SoundJoin(C[n + 1], e.size)
      OBVIOUS
    <2>1. n \in D /\ (n + 1) - 1 = n /\ n + 1 # 0
      BY <1>0 DEF D
    <2>2. SoundJoin(C[n], e.size)
      BY <1>6, <2>1
    <2> SUFFICES ASSUME NEW t \in Binary, NEW x \in Counted(e.size), NEW p0 \in Paths, NEW q1 \in Paths, NEW q2 \in Paths,
                        Tidy(x.e), Reach(x.e, Binary, p0), Reach(At(x.e, p0), {t}, q1), Reach(At(x.e, p0), {t}, q2)
                 PROVE  Result(t, e.size, x, p0, C[n + 1][<<t, x, p0 \o q1, p0 \o q2>>])
      BY DEF SoundJoin
    <2>3. p0 \o q1 \in Paths /\ p0 \o q2 \in Paths
      BY PathIs
    <2> DEFINE a == p0 \o q1
               b == p0 \o q2
    <2> HIDE DEF a, b
    <2>4. C[n + 1][<<t, x, a, b>>] = Dups1(C[n], t, x, a, b)
      <3>1. a \in Paths /\ b \in Paths
        BY <2>3 DEF a, b
      <3> QED BY <1>4, <2>1, <3>1
    <2>5. Result(t, e.size, x, p0, Dups1(C[n], t, x, p0 \o q1, p0 \o q2))
      BY <1>0, <2>2, DupsSound
    <2> QED BY <2>4, <2>5 DEF a, b
  <1> HIDE DEF T
  <1>7. \A n \in Nat : n \in T
    BY <1>5, <1>6, Trees!SetInduction
  <1>8. SoundJoin(C[top], e.size)
    BY <1>0, <1>7 DEF T
  <1> QED BY <1>2, <1>8

\* One turn of joining.
LEMMA JoinedKeeps ==
  ASSUME NEW e \in Expr, Tidy(e), e.t \in Binary
  PROVE  Tidy(Joined(e).e) /\ Joined(e).e.size <= e.size /\ Same(e, Joined(e).e)
  <1> DEFINE x == [e |-> e, count |-> 0]
  <1>1. PICK call : SoundJoin(call, e.size) /\ Joined(e) = call[<<e.t, x, <<>>, <<>>>>]
    BY JoinedSound
  <1>2. e.size \in Nat /\ x \in Counted(e.size) /\ x.e = e
    BY ExprIs DEF Counted
  <1>3. <<>> \in Paths /\ <<>> \o <<>> = <<>>
    BY PathIs
  <1>4. Reach(e, Binary, <<>>) /\ Reach(e, {e.t}, <<>>) /\ At(e, <<>>) = e
    <2>1. Reach(e, {e.t}, <<>>)
      BY <1>3, LevelIs
    <2>2. Reach(e, Binary, <<>>)
      BY <1>3, <2>1, LevelReaches
    <2> QED BY <1>3, <2>1, <2>2, AtIs
  <1> HIDE DEF x
  <1>5. Result(e.t, e.size, x, <<>>, Joined(e))
    <2>1. Result(e.t, e.size, x, <<>>, call[<<e.t, x, <<>> \o <<>>, <<>> \o <<>> >>])
      BY <1>1, <1>2, <1>3, <1>4 DEF SoundJoin
    <2> QED BY <1>1, <1>3, <2>1
  <1>6. Tidy(Joined(e).e) /\ Same(x.e, Joined(e).e) /\ Joined(e) \in Counted(e.size)
    BY <1>2, <1>3, <1>4, <1>5, ResultIs
  <1>7. Joined(e).e.size <= e.size
    BY <1>2, <1>6, ExprIs DEF Counted
  <1> QED BY <1>2, <1>6, <1>7

-----------------------------------------------------------------------------
\* The turns.
DupsFrom(p, n, below) ==
  [f \in Exprs[p.size] |->
     IF n = 0 \/ f.t \notin Binary THEN f ELSE Turn(below, Joined(f))]
DupsBody(p, n, turns) == DupsFrom(p, n, turns[n - 1])
DupsRec == INSTANCE Recursion WITH Body <- DupsBody, Rank <- Number

SoundTurn(turn, n) ==
  \A f \in Exprs[n] : Tidy(f) => Tidy(turn[f]) /\ Same(f, turn[f])

\* expr_eliminate_dups() changes no value.
THEOREM DupsKeeps ==
  ASSUME NEW e, Tidy(e)
  PROVE  Tidy(expr_eliminate_dups(e)) /\ Same(e, expr_eliminate_dups(e))
  <1> DEFINE D == 0..e.size
             C == DupsRec!Fixed(e, D)
             T == {n \in Nat : n \in D => SoundTurn(C[n], e.size)}
  <1>0. e \in Expr /\ e.size \in Nat /\ e.size \in D /\ e \in Exprs[e.size]
    BY ExprIs DEF Tidy
  <1>2. expr_eliminate_dups(e) = C[e.size][e]
    BY DEF expr_eliminate_dups, DupsRec!Fixed, DupsBody, DupsFrom
  <1>3. \A n \in D : C[n] = DupsBody(e, n, C)
    <2>1. ASSUME NEW a \in D, NEW g, NEW h, a > 0 => g[a - 1] = h[a - 1]
          PROVE  DupsBody(e, a, g) = DupsBody(e, a, h)
      <3>1. CASE a > 0
        BY <2>1, <3>1 DEF DupsBody
      <3>2. CASE ~(a > 0)
        BY <3>2 DEF DupsBody, DupsFrom
      <3> QED BY <3>1, <3>2
    <2> QED BY <1>0, <2>1, DupsRec!StepByStep DEF Number
  <1> HIDE DEF C
  <1>4. ASSUME NEW n \in D, NEW f \in Exprs[e.size]
        PROVE  /\ n = 0 \/ f.t \notin Binary => C[n][f] = f
               /\ ~(n = 0 \/ f.t \notin Binary) =>
                    C[n][f] = IF Joined(f).count = 0 THEN Joined(f).e ELSE C[n - 1][expr_eliminate_yn(Joined(f).e)]
    <2>1. C[n] = DupsFrom(e, n, C[n - 1])
      BY <1>3 DEF DupsBody
    <2>2. DupsFrom(e, n, C[n - 1])[f]
          = IF n = 0 \/ f.t \notin Binary THEN f
            ELSE IF Joined(f).count = 0 THEN Joined(f).e ELSE C[n - 1][expr_eliminate_yn(Joined(f).e)]
      BY DEF DupsFrom, Turn
    <2> QED BY <2>1, <2>2
  <1>5. 0 \in T
    <2>1. ASSUME 0 \in D PROVE SoundTurn(C[0], e.size)
      BY <1>4, <2>1 DEF SoundTurn, Same
    <2> QED BY <2>1
  <1>6. ASSUME NEW n \in Nat, n \in T PROVE n + 1 \in T
    <2> SUFFICES ASSUME n + 1 \in D PROVE SoundTurn(C[n + 1], e.size)
      OBVIOUS
    <2>1. n \in D /\ (n + 1) - 1 = n /\ n + 1 # 0
      BY <1>0
    <2>2. SoundTurn(C[n], e.size)
      BY <1>6, <2>1
    <2> SUFFICES ASSUME NEW f \in Exprs[e.size], Tidy(f)
                 PROVE  Tidy(C[n + 1][f]) /\ Same(f, C[n + 1][f])
      BY DEF SoundTurn
    <2> HIDE DEF T, D
    <2>3. CASE f.t \notin Binary
      <3>1. C[n + 1][f] = f
        BY <1>4, <2>3
      <3> QED BY <3>1 DEF Same
    <2>4. CASE f.t \in Binary
      <3> DEFINE j == Joined(f).e
                 g == expr_eliminate_yn(j)
      <3>1. f \in Expr /\ f.size \in Nat /\ f.size <= e.size
        BY <1>0, ExprIs
      <3>2. Tidy(j) /\ j.size <= f.size /\ Same(f, j)
        BY <2>4, <3>1, JoinedKeeps
      <3> HIDE DEF j
      <3>3. j \in Expr /\ j.size \in Nat
        BY <3>2, ExprIs DEF Tidy
      <3>4. Tidy(g) /\ g \in Expr /\ g.size <= j.size /\ Same(j, g)
        BY <3>2, <3>3, ConstantsGo DEF Same
      <3> HIDE DEF g
      <3>5. g \in Exprs[e.size]
        <4>1. g.size \in Nat
          BY <3>4, ExprIs
        <4>2. g.size <= e.size
          BY <1>0, <3>1, <3>2, <3>3, <3>4, <4>1
        <4> QED BY <1>0, <3>4, <4>2, ExprIs
      <3>6. Tidy(C[n][g]) /\ Same(g, C[n][g])
        BY <2>2, <3>4, <3>5 DEF SoundTurn
      <3>7. C[n + 1][f] = IF Joined(f).count = 0 THEN j ELSE C[n][g]
        BY <1>4, <2>1, <2>4 DEF j, g
      <3> QED BY <3>2, <3>4, <3>6, <3>7 DEF Same
    <2> QED BY <2>3, <2>4
  <1> HIDE DEF T
  <1>7. \A n \in Nat : n \in T
    BY <1>5, <1>6, Trees!SetInduction
  <1>8. SoundTurn(C[e.size], e.size)
    BY <1>0, <1>7 DEF T
  <1> QED BY <1>0, <1>2, <1>8 DEF SoundTurn

-----------------------------------------------------------------------------
\* A condition, combined with that of its parent.
\* The finished condition of a parent and that of a child.
LEMMA CombineKeeps ==
  ASSUME NEW parent, Tidy(parent), NEW c \in Expr
  PROVE  /\ Tidy(Combine(parent, c))
         /\ \A w : IsWorld(w) => Value(Combine(parent, c), w) = EXPR_AND(Value(parent, w), Value(rewrite_m(c), w))
  <1> DEFINE m == rewrite_m(c)
             f == expr_transform(m)
             e == expr_alloc_and(parent, f)
  <1>1. m \in Expr
    BY RewriteKeeps
  <1> HIDE DEF m
  <1>2. Tidy(f) /\ f \in Expr /\ \A w : IsWorld(w) => Value(f, w) = Value(m, w)
    BY <1>1, TransformKeeps DEF Tidy
  <1>3. parent \in Expr
    BY DEF Tidy
  <1> HIDE DEF f
  <1>4. Tidy(e) /\ \A w : IsWorld(w) => Value(e, w) = EXPR_AND(Value(parent, w), Value(f, w))
    BY <1>2, <1>3, AllocIs
  <1> HIDE DEF e
  <1>5. Tidy(expr_eliminate_dups(e)) /\ Same(e, expr_eliminate_dups(e))
    BY <1>4, DupsKeeps
  <1>6. Combine(parent, c) = expr_eliminate_dups(e)
    BY DEF Combine, e, f, m
  <1> QED BY <1>2, <1>4, <1>5, <1>6 DEF Same, m

-----------------------------------------------------------------------------
\* In every reachable state the finished conditions are tidy, and they mean what
\* the conditions they were made of mean.
DepsInv ==
  /\ type \in {"none", "bool", "tristate"}
  /\ Tidy(base) /\ Tidy(dep) /\ baseWas \in Expr /\ depWas \in Expr
  /\ SimplifiedMeansTheSame

\* No condition at first.
LEMMA DepsInit == Init => DepsInv
  <1> SUFFICES ASSUME Init PROVE DepsInv
    OBVIOUS
  <1>1. Tidy(NoExpr) /\ NoExpr \in Expr
    BY TidyMake DEF Tidy
  <1> QED BY <1>1 DEF Init, DepsInv, SimplifiedMeansTheSame

\* The conditions below one condition more.
LEMMA OneMore ==
  ASSUME DepsInv, NEW c \in Conditions \union PropConds
  PROVE  /\ Tidy(Combine(base, c)) /\ expr_alloc_and(baseWas, rewrite_m(c)) \in Expr
         /\ \A w \in Worlds : Value(Combine(base, c), w) = Value(expr_alloc_and(baseWas, rewrite_m(c)), w)
  <1>1. c \in Expr
    BY ConditionsAssumption, ExprIs
  <1>2. rewrite_m(c) \in Expr
    BY <1>1, RewriteKeeps
  <1>3. Tidy(base) /\ baseWas \in Expr
    BY DEF DepsInv
  <1>4. expr_alloc_and(baseWas, rewrite_m(c)) \in Expr
    BY <1>2, <1>3, AllocIs
  <1>5. ASSUME NEW w \in Worlds PROVE Value(Combine(base, c), w) = Value(expr_alloc_and(baseWas, rewrite_m(c)), w)
    <2>1. IsWorld(w)
      BY WorldsAssumption
    <2>2. Value(base, w) = Value(baseWas, w)
      BY DEF DepsInv, SimplifiedMeansTheSame
    <2>3. Value(Combine(base, c), w) = EXPR_AND(Value(base, w), Value(rewrite_m(c), w))
      BY <1>1, <1>3, <2>1, CombineKeeps
    <2>4. Value(expr_alloc_and(baseWas, rewrite_m(c)), w) = EXPR_AND(Value(baseWas, w), Value(rewrite_m(c), w))
      BY <1>2, <1>3, <2>1, AllocIs
    <2> QED BY <2>2, <2>3, <2>4
  <1>6. Tidy(Combine(base, c))
    BY <1>1, <1>3, CombineKeeps
  <1> QED BY <1>4, <1>5, <1>6

\* A menu entry.
LEMMA DescendKeeps ==
  ASSUME DepsInv, NEW c \in Conditions, Descend(c)
  PROVE  DepsInv'
  <1>1. /\ base' = Combine(base, c) /\ baseWas' = expr_alloc_and(baseWas, rewrite_m(c))
        /\ dep' = base' /\ depWas' = baseWas' /\ type' = type /\ type = "none"
    BY DEF Descend
  <1>2. /\ Tidy(base') /\ baseWas' \in Expr
        /\ \A w \in Worlds : Value(base', w) = Value(baseWas', w)
    BY <1>1, OneMore
  <1> QED BY <1>1, <1>2 DEF DepsInv, SimplifiedMeansTheSame

\* A property of a symbol in it.
LEMMA PropertyKeeps ==
  ASSUME DepsInv, NEW c \in PropConds, NEW ty \in {"bool", "tristate"}, Property(c, ty)
  PROVE  DepsInv'
  <1> DEFINE d == Combine(base, c)
             dWas == expr_alloc_and(baseWas, rewrite_m(c))
  <1>1. /\ dep' = (IF ty = "tristate" THEN d ELSE expr_trans_bool(d))
        /\ depWas' = dWas /\ type' = ty /\ base' = base /\ baseWas' = baseWas
    BY DEF Property
  <1>2. /\ Tidy(d) /\ dWas \in Expr /\ d \in Expr
        /\ \A w \in Worlds : IsWorld(w) /\ Value(d, w) = Value(dWas, w)
    BY OneMore, WorldsAssumption DEF Tidy
  <1> HIDE DEF d, dWas
  <1>3. Tidy(expr_trans_bool(d)) /\ \A w \in Worlds : Value(expr_trans_bool(d), w) = 0 <=> Value(d, w) = 0
    BY <1>2, TransBoolKeeps
  <1>4. Tidy(base') /\ baseWas' \in Expr /\ Tidy(dep') /\ depWas' \in Expr
    BY <1>1, <1>2, <1>3 DEF DepsInv
  <1>5. \A w \in Worlds : Value(base', w) = Value(baseWas', w)
    BY <1>1 DEF DepsInv, SimplifiedMeansTheSame
  <1>6. CASE ty = "tristate"
    BY <1>1, <1>2, <1>4, <1>5, <1>6 DEF DepsInv, SimplifiedMeansTheSame
  <1>7. CASE ty = "bool"
    <2>1. dep' = expr_trans_bool(d) /\ type' = "bool" /\ depWas' = dWas
      BY <1>1, <1>7
    <2>2. \A w \in Worlds : (Value(dep', w) = no) = (Value(depWas', w) = no)
      BY <1>2, <1>3, <2>1 DEF no
    <2> QED BY <1>4, <1>5, <2>1, <2>2 DEF DepsInv, SimplifiedMeansTheSame
  <1> QED BY <1>6, <1>7

\* In every reachable state DepsInv holds.
THEOREM DepsInvariant == Spec => []DepsInv
  <1>1. Init => DepsInv
    BY DepsInit
  <1>2. DepsInv /\ [Next]_vars => DepsInv'
    <2> SUFFICES ASSUME DepsInv, [Next]_vars PROVE DepsInv'
      OBVIOUS
    <2>1. ASSUME NEW c \in Conditions, Descend(c) PROVE DepsInv'
      BY <2>1, DescendKeeps
    <2>2. ASSUME NEW c \in PropConds, NEW ty \in {"bool", "tristate"}, Property(c, ty) PROVE DepsInv'
      BY <2>2, PropertyKeeps
    <2>3. CASE UNCHANGED vars
      BY <2>3 DEF vars, DepsInv, SimplifiedMeansTheSame
    <2> QED BY <2>1, <2>2, <2>3 DEF Next
  <1> QED BY <1>1, <1>2, PTL DEF Spec

\* Whatever the conditions and however deep the menus, no rewriting changes what
\* a condition means.
THEOREM SimplifiedHolds == Spec => []SimplifiedMeansTheSame
  <1>1. DepsInv => SimplifiedMeansTheSame
    BY DEF DepsInv
  <1> QED BY <1>1, DepsInvariant, PTL

-----------------------------------------------------------------------------
\* What an expression mentions.
LEMMA MentionsIs ==
  \A e \in Expr :
    /\ SymsOf(e) \in Seq(DOMAIN SymType)
    /\ Atom(e) => \A s \in DOMAIN SymType : /\ e = Sym(s) => s \in Mentions(e)
                                            /\ \A t \in Comparisons, b \in DOMAIN SymType :
                                                 e = Comp(t, s, b) => s \in Mentions(e) /\ b \in Mentions(e)
    /\ IsNot(e) => Mentions(e) = Mentions(e.l)
    /\ IsTwo(e) => Mentions(e.l) \subseteq Mentions(e) /\ Mentions(e.r) \subseteq Mentions(e)
  <1> DEFINE G == {e \in Expr : SymsOf(e) \in Seq(DOMAIN SymType)}
  <1>0. ASSUME NEW e \in Expr, Atom(e), e.t \notin Binary \union {"NOT"}
        PROVE  /\ SymsOf(e) \in Seq(DOMAIN SymType)
               /\ \A s \in DOMAIN SymType : /\ e = Sym(s) => s \in Mentions(e)
                                            /\ \A t \in Comparisons, b \in DOMAIN SymType :
                                                 e = Comp(t, s, b) => s \in Mentions(e) /\ b \in Mentions(e)
    <2>1. SymsOf(e) = SymsOfLeaf(e)
      BY <1>0, SymsIs
    <2>2. CASE e = NoExpr
      <3>1. SymsOf(e) = <<>>
        BY <2>1, <2>2 DEF SymsOfLeaf, NoExpr
      <3>2. \A s \in DOMAIN SymType : /\ e # Sym(s)
                                      /\ \A t \in Comparisons, b \in DOMAIN SymType : e # Comp(t, s, b)
        BY <2>2 DEF NoExpr, Sym, Comp, Comparisons
      <3> QED BY <3>1, <3>2
    <2>3. ASSUME NEW s \in DOMAIN SymType, e = Sym(s)
          PROVE  /\ SymsOf(e) \in Seq(DOMAIN SymType)
                 /\ \A u \in DOMAIN SymType : /\ e = Sym(u) => u \in Mentions(e)
                                              /\ \A t \in Comparisons, b \in DOMAIN SymType : e # Comp(t, u, b)
      <3>1. e.t = "SYM" /\ e.s = s
        BY <2>3 DEF Sym
      <3>2. SymsOf(e) = <<s>>
        BY <2>1, <3>1 DEF SymsOfLeaf
      <3>3. s \in Mentions(e)
        BY <3>2 DEF Mentions
      <3>4. \A u \in DOMAIN SymType : /\ e = Sym(u) => u = s
                                      /\ \A t \in Comparisons, b \in DOMAIN SymType : e # Comp(t, u, b)
        BY <3>1 DEF Sym, Comp, Comparisons
      <3> QED BY <3>2, <3>3, <3>4
    <2>4. ASSUME NEW t \in Comparisons, NEW a \in DOMAIN SymType, NEW b \in DOMAIN SymType, e = Comp(t, a, b)
          PROVE  /\ SymsOf(e) \in Seq(DOMAIN SymType)
                 /\ a \in Mentions(e) /\ b \in Mentions(e) /\ e.a = a /\ e.b = b /\ e.t # "SYM"
      <3>1. e.t \in Comparisons /\ e.a = a /\ e.b = b
        BY <2>4 DEF Comp
      <3>2. e.t \notin {"NULL", "SYM"}
        BY <3>1 DEF Comparisons
      <3>3. SymsOf(e) = <<a, b>>
        BY <2>1, <3>1, <3>2 DEF SymsOfLeaf
      <3>4. a \in Mentions(e) /\ b \in Mentions(e)
        BY <3>3 DEF Mentions
      <3> QED BY <3>1, <3>2, <3>3, <3>4
    <2>5. CASE e.s \in DOMAIN SymType /\ e = Sym(e.s)
      BY <2>3, <2>5
    <2>6. CASE e.t \in Comparisons /\ e.a \in DOMAIN SymType /\ e.b \in DOMAIN SymType /\ e = Comp(e.t, e.a, e.b)
      <3>1. SymsOf(e) \in Seq(DOMAIN SymType) /\ e.a \in Mentions(e) /\ e.b \in Mentions(e) /\ e.t # "SYM"
        BY <2>4, <2>6
      <3>2. \A s : e # Sym(s)
        BY <3>1 DEF Sym
      <3>3. \A t, s, b : e = Comp(t, s, b) => s = e.a /\ b = e.b
        BY DEF Comp
      <3> QED BY <3>1, <3>2, <3>3
    <2> QED BY <1>0, <2>2, <2>5, <2>6, AtomSplit
  <1>1. ASSUME NEW e \in Expr, Atom(e), e.t \notin Binary \union {"NOT"} PROVE e \in G
    BY <1>0, <1>1
  <1>2. ASSUME NEW e \in Expr, IsNot(e), e.l \in G PROVE e \in G
    BY <1>2, SymsIs DEF IsNot
  <1>3. ASSUME NEW e \in Expr, IsTwo(e), e.l \in G, e.r \in G PROVE e \in G
    <2>1. SymsOf(e) = SymsOf(e.l) \o SymsOf(e.r)
      BY <1>3, SymsIs DEF IsTwo
    <2> QED BY <1>3, <2>1, ConcatProperties
  <1> HIDE DEF G
  <1>4. \A e \in Expr : e \in G
    BY <1>1, <1>2, <1>3, ExprInduction
  <1>5. \A e \in Expr : SymsOf(e) \in Seq(DOMAIN SymType)
    BY <1>4 DEF G
  <1>6. ASSUME NEW e \in Expr, IsNot(e) PROVE Mentions(e) = Mentions(e.l)
    BY <1>6, SymsIs DEF IsNot, Mentions
  <1>7. ASSUME NEW e \in Expr, IsTwo(e) PROVE Mentions(e.l) \subseteq Mentions(e) /\ Mentions(e.r) \subseteq Mentions(e)
    <2> DEFINE p == SymsOf(e.l)
               q == SymsOf(e.r)
               r == p \o q
    <2>0. e.l \in Expr /\ e.r \in Expr
      BY <1>7, ExprSplit DEF IsTwo, IsNot, Binary
    <2>1. SymsOf(e) = r
      BY <1>7, SymsIs DEF IsTwo
    <2>2. p \in Seq(DOMAIN SymType) /\ q \in Seq(DOMAIN SymType)
      BY <1>5, <2>0
    <2> HIDE DEF p, q
    <2>3. /\ r \in Seq(DOMAIN SymType) /\ Len(p) \in Nat /\ Len(q) \in Nat /\ Len(r) = Len(p) + Len(q)
          /\ \A i \in 1..Len(p) + Len(q) : r[i] = IF i <= Len(p) THEN p[i] ELSE q[i - Len(p)]
          /\ DOMAIN p = 1..Len(p) /\ DOMAIN q = 1..Len(q)
      BY <2>2, ConcatProperties, LenProperties
    <2> HIDE DEF r
    <2>4. DOMAIN r = 1..(Len(p) + Len(q))
      BY <2>3, LenProperties
    <2>5. ASSUME NEW i \in DOMAIN p PROVE p[i] = r[i] /\ i \in DOMAIN r
      BY <2>3, <2>4, <2>5
    <2>6. ASSUME NEW i \in DOMAIN q PROVE q[i] = r[Len(p) + i] /\ Len(p) + i \in DOMAIN r
      <3>1. Len(p) + i \in 1..(Len(p) + Len(q)) /\ ~(Len(p) + i <= Len(p)) /\ (Len(p) + i) - Len(p) = i
        BY <2>3
      <3> QED BY <2>3, <2>4, <3>1
    <2>7. Mentions(e) = {r[i] : i \in DOMAIN r} /\ Mentions(e.l) = {p[i] : i \in DOMAIN p} /\ Mentions(e.r) = {q[i] : i \in DOMAIN q}
      BY <2>1 DEF Mentions, p, q
    <2> QED BY <2>5, <2>6, <2>7
  <1>8. ASSUME NEW e \in Expr, Atom(e) PROVE e.t \notin Binary \union {"NOT"}
    BY <1>8 DEF Atom, Atoms, AtomsOf, NoExpr, Comparisons, Binary
  <1> QED BY <1>0, <1>5, <1>6, <1>7, <1>8

\* A value depends on the symbols mentioned only.
LEMMA OnlyMentioned ==
  ASSUME NEW w, NEW x, IsWorld(w), IsWorld(x)
  PROVE  \A e \in Expr : (\A s \in Mentions(e) \intersect DOMAIN SymType : w.txt[s] = x.txt[s]) => Value(e, w) = Value(e, x)
  <1> DEFINE G == {e \in Expr : (\A s \in Mentions(e) \intersect DOMAIN SymType : w.txt[s] = x.txt[s]) => Value(e, w) = Value(e, x)}
  <1>1. ASSUME NEW s \in DOMAIN SymType, w.txt[s] = x.txt[s] PROVE w.tri[s] = x.tri[s]
    <2>1. CASE IsBoolean(s)
      <3>1. w.tri[s] \in {0, 1, 2} /\ x.tri[s] \in {0, 1, 2}
        BY WorldIs
      <3>2. /\ w.txt[s] = "n" <=> w.tri[s] = 0
            /\ w.txt[s] = "m" <=> w.tri[s] = 1
            /\ w.txt[s] = "y" <=> w.tri[s] = 2
        BY <2>1, WorldIs
      <3>3. /\ x.txt[s] = "n" <=> x.tri[s] = 0
            /\ x.txt[s] = "m" <=> x.tri[s] = 1
            /\ x.txt[s] = "y" <=> x.tri[s] = 2
        BY <2>1, WorldIs
      <3> QED BY <1>1, <3>1, <3>2, <3>3
    <2>2. CASE ~IsBoolean(s)
      BY <2>2 DEF IsWorld
    <2> QED BY <2>1, <2>2
  <1>2. ASSUME NEW e \in Expr, Atom(e), \A s \in Mentions(e) \intersect DOMAIN SymType : w.txt[s] = x.txt[s]
        PROVE  Value(e, w) = Value(e, x)
    <2>1. CASE e = NoExpr
      BY <2>1, AtomValue
    <2>2. CASE e.s \in DOMAIN SymType /\ e = Sym(e.s)
      <3>1. e.s \in Mentions(e)
        BY <1>2, <2>2, MentionsIs
      <3>2. w.tri[e.s] = x.tri[e.s]
        BY <1>1, <1>2, <2>2, <3>1
      <3> QED BY <2>2, <3>2, AtomValue
    <2>3. CASE e.t \in Comparisons /\ e.a \in DOMAIN SymType /\ e.b \in DOMAIN SymType /\ e = Comp(e.t, e.a, e.b)
      <3>1. e.a \in Mentions(e) /\ e.b \in Mentions(e)
        BY <1>2, <2>3, MentionsIs
      <3>2. w.txt[e.a] = x.txt[e.a] /\ w.txt[e.b] = x.txt[e.b]
        BY <1>2, <2>3, <3>1
      <3>3. Compared(e.t, e.a, e.b, w) = Compared(e.t, e.a, e.b, x)
        BY <3>2, Zenon DEF Compared
      <3>4. /\ Value(e, w) = IF Relation(e.t, Compared(e.t, e.a, e.b, w)) THEN 2 ELSE 0
            /\ Value(e, x) = IF Relation(e.t, Compared(e.t, e.a, e.b, x)) THEN 2 ELSE 0
        BY <2>3, AtomValue
      <3> QED BY <3>3, <3>4
    <2> QED BY <1>2, <2>1, <2>2, <2>3, AtomSplit
  <1>3. ASSUME NEW e \in Expr, Atom(e), e.t \notin Binary \union {"NOT"} PROVE e \in G
    BY <1>2, <1>3
  <1>4. ASSUME NEW e \in Expr, IsNot(e), e.l \in G PROVE e \in G
    <2>1. Mentions(e) = Mentions(e.l)
      BY <1>4, MentionsIs
    <2>2. Value(e, w) = EXPR_NOT(Value(e.l, w)) /\ Value(e, x) = EXPR_NOT(Value(e.l, x))
      BY <1>4, ValueIs DEF IsNot
    <2> QED BY <1>4, <2>1, <2>2
  <1>5. ASSUME NEW e \in Expr, IsTwo(e), e.l \in G, e.r \in G PROVE e \in G
    <2>1. Mentions(e.l) \subseteq Mentions(e) /\ Mentions(e.r) \subseteq Mentions(e)
      BY <1>5, MentionsIs
    <2>2. /\ Value(e, w) = Op(e.t, Value(e.l, w), Value(e.r, w))
          /\ Value(e, x) = Op(e.t, Value(e.l, x), Value(e.r, x))
      BY <1>5, ValueIs DEF IsTwo, Op
    <2> QED BY <1>5, <2>1, <2>2
  <1> HIDE DEF G
  <1>6. \A e \in Expr : e \in G
    BY <1>3, <1>4, <1>5, ExprInduction
  <1> QED BY <1>6 DEF G

\* What expr_depends_symbol() says yes to is n while the symbol is n.
LEMMA DependsSound ==
  ASSUME NEW s \in DOMAIN SymType, IsBoolean(s), NEW w, IsWorld(w), w.tri[s] = 0
  PROVE  \A e \in Expr : expr_depends_symbol(e, s) => Value(e, w) = 0
  <1> DEFINE G == {e \in Expr : expr_depends_symbol(e, s) => Value(e, w) = 0}
  <1>1. ASSUME NEW e \in Expr, Atom(e), e.t \notin Binary \union {"NOT"}, expr_depends_symbol(e, s) PROVE Value(e, w) = 0
    <2>1. DependsLeaf(e, s)
      BY <1>1, DependsIs
    <2>2. w.txt[s] = "n"
      BY WorldIs
    <2>3. CASE e = NoExpr
      BY <2>1, <2>3 DEF DependsLeaf, NoExpr
    <2>4. CASE e.s \in DOMAIN SymType /\ e = Sym(e.s)
      <3>1. e.t = "SYM"
        BY <2>4 DEF Sym
      <3>2. e.s = s
        BY <2>1, <3>1 DEF DependsLeaf
      <3> QED BY <2>4, <3>2, AtomValue
    <2>5. CASE e.t \in Comparisons /\ e.a \in DOMAIN SymType /\ e.b \in DOMAIN SymType /\ e = Comp(e.t, e.a, e.b)
      <3>1. \/ e.t = "EQ" /\ e.a = s /\ e.b \in {"y", "m"}
            \/ e.t = "NE" /\ e.a = s /\ e.b = "n"
        BY <2>1, <2>5 DEF DependsLeaf, Comparisons
      <3> QED BY <2>2, <2>5, <3>1, EqValue DEF Constant
    <2> QED BY <1>1, <2>3, <2>4, <2>5, AtomSplit
  <1>2. ASSUME NEW e \in Expr, Atom(e), e.t \notin Binary \union {"NOT"} PROVE e \in G
    BY <1>1, <1>2
  <1>3. ASSUME NEW e \in Expr, IsNot(e), e.l \in G PROVE e \in G
    BY <1>3, DependsIs DEF IsNot
  <1>4. ASSUME NEW e \in Expr, IsTwo(e), e.l \in Expr, e.r \in Expr, e.l \in G, e.r \in G PROVE e \in G
    <2>1. expr_depends_symbol(e, s) => e.t = "AND" /\ (expr_depends_symbol(e.l, s) \/ expr_depends_symbol(e.r, s))
      BY <1>4, DependsIs DEF IsTwo
    <2>2. e.t = "AND" => Value(e, w) = EXPR_AND(Value(e.l, w), Value(e.r, w))
      BY <1>4, ValueIs DEF IsTwo
    <2>3. Value(e.l, w) \in {0, 1, 2} /\ Value(e.r, w) \in {0, 1, 2}
      BY <1>4, ValueType
    <2> QED BY <1>4, <2>1, <2>2, <2>3 DEF EXPR_AND
  <1> HIDE DEF G
  <1>5. \A e \in Expr : e \in G
    BY <1>2, <1>3, <1>4, ExprInduction
  <1> QED BY <1>5 DEF G

\* expr_depends_symbol() and expr_contains_symbol() are right about the finished
\* conditions.
LEMMA DepsDepend == DepsInv => DependenceIsReal
  <1> SUFFICES ASSUME DepsInv, NEW s \in Mentions(dep), SymType[s] \in BooleanTypes, NEW w \in Worlds
               PROVE  /\ expr_depends_symbol(dep, s) /\ w.tri[s] = no => Value(dep, w) = no
                      /\ ~expr_contains_symbol(base, s) =>
                           \A x \in Worlds : w.txt = [x.txt EXCEPT ![s] = w.txt[s]] => Value(base, w) = Value(base, x)
    BY Zenon DEF DependenceIsReal
  <1>1. dep \in Expr /\ base \in Expr
    BY DEF DepsInv, Tidy
  <1>2. s \in DOMAIN SymType
    <2>1. SymsOf(dep) \in Seq(DOMAIN SymType)
      BY <1>1, MentionsIs
    <2>2. PICK i \in DOMAIN SymsOf(dep) : s = SymsOf(dep)[i]
      BY DEF Mentions
    <2> HIDE DEF SymsOf
    <2> QED BY <2>1, <2>2, LenProperties
  <1>3. expr_depends_symbol(dep, s) /\ w.tri[s] = no => Value(dep, w) = no
    BY <1>1, <1>2, DependsSound, WorldsAssumption DEF IsBoolean, no
  <1>4. ASSUME ~expr_contains_symbol(base, s), NEW x \in Worlds, w.txt = [x.txt EXCEPT ![s] = w.txt[s]]
        PROVE  Value(base, w) = Value(base, x)
    <2>1. IsWorld(w) /\ IsWorld(x)
      BY WorldsAssumption
    <2>2. s \notin Mentions(base)
      BY <1>4 DEF expr_contains_symbol
    <2>3. ASSUME NEW v \in Mentions(base) \intersect DOMAIN SymType PROVE w.txt[v] = x.txt[v]
      <3>1. x.txt \in [DOMAIN SymType -> Texts]
        BY <2>1 DEF IsWorld
      <3> QED BY <1>4, <2>2, <3>1
    <2> QED BY <1>1, <2>1, <2>3, OnlyMentioned
  <1> QED BY <1>3, <1>4

\* A submenu made by expr_depends_symbol() is never visible while its symbol is n,
\* whatever the conditions.
THEOREM DependenceHolds == Spec => []DependenceIsReal
  <1> QED BY DepsDepend, DepsInvariant, PTL

-----------------------------------------------------------------------------
IfNo(e, w) == IF Value(e, w) = 0 THEN 2 ELSE 0
IfNotNo(e, w) == IF Value(e, w) = 0 THEN 0 ELSE 2
FormsFacts(e) ==
  /\ BothForms(e).EQ \in Expr /\ BothForms(e).NE \in Expr
  /\ \A w : IsWorld(w) /\ SaysSo(e, w) => /\ Value(BothForms(e).EQ, w) = IfNo(e, w)
                                         /\ Value(BothForms(e).NE, w) = IfNotNo(e, w)

\* The operands of the parts are booleans too.
LEMMA OnBooleansSplit ==
  ASSUME NEW e \in Expr, OnBooleans(e)
  PROVE  /\ IsNot(e) => OnBooleans(e.l)
         /\ IsTwo(e) => OnBooleans(e.l) /\ OnBooleans(e.r)
         /\ Atom(e) /\ e.t = "SYM" => IsBoolean(e.s) \/ e.s \in Constant
  BY OperandsIs DEF OnBooleans, IsNot, IsTwo, Binary

\* And what is written out of the parts says so too.
LEMMA SaysSoSplit ==
  ASSUME NEW e \in Expr, NEW w, SaysSo(e, w), Tidy(e)
  PROVE  /\ IsNot(e) => SaysSo(e.l, w) /\ (e.l.t = "SYM" => w.tri[e.l.s] # 1)
         /\ IsTwo(e) => SaysSo(e.l, w) /\ SaysSo(e.r, w)
  <1>1. CASE IsNot(e)
    <2>1. e.l \in Expr /\ Plain(e.l)
      BY <1>1, TidySplit
    <2>2. Negated(e) = {e.l}
      BY <1>1, NegatedIs DEF IsNot
    <2>3. e.l.t \in {"NULL", "SYM"}
      BY <2>1 DEF Plain, NoExpr
    <2>4. Negated(e.l) = {}
      BY <2>1, <2>3, NegatedIs DEF Binary
    <2>5. OnBooleans(e.l)
      BY <1>1, OnBooleansSplit DEF SaysSo
    <2>6. ~IsTwo(e)
      BY <1>1 DEF IsNot, IsTwo, Binary
    <2> QED BY <2>2, <2>4, <2>5, <2>6 DEF SaysSo, mod
  <1>2. CASE IsTwo(e)
    <2>1. Negated(e) = Negated(e.l) \union Negated(e.r)
      BY <1>2, NegatedIs DEF IsTwo
    <2>2. OnBooleans(e.l) /\ OnBooleans(e.r)
      BY <1>2, OnBooleansSplit DEF SaysSo
    <2>3. ~IsNot(e)
      BY <1>2 DEF IsNot, IsTwo, Binary
    <2> QED BY <2>1, <2>2, <2>3 DEF SaysSo
  <1> QED BY <1>1, <1>2

\* A leaf, written out.
LEMMA FormsOfAtom ==
  ASSUME NEW e \in Expr, Atom(e), e.t \notin Binary \union {"NOT"}
  PROVE  FormsFacts(e)
  <1>1. BothForms(e) = TransCompareLeaf(e)
    BY CompareIs
  <1>2. "n" \in DOMAIN SymType /\ "n" \in Constant
    BY SymbolsAssumption DEF Constant
  <1>3. CASE e = NoExpr
    <2>1. BothForms(e).EQ = Sym("n") /\ BothForms(e).NE = Not(Sym("n"))
      BY <1>1, <1>3 DEF TransCompareLeaf, NoExpr, Forms
    <2>2. Sym("n") \in Expr
      BY <1>2, TidyMake DEF Tidy
    <2>3. Not(Sym("n")) \in Expr
      BY <2>2, TidyMake
    <2>4. ASSUME NEW w, IsWorld(w)
          PROVE  Value(Sym("n"), w) = IfNo(e, w) /\ Value(Not(Sym("n")), w) = IfNotNo(e, w)
      <3>1. Value(Sym("n"), w) = 0 /\ Value(e, w) = 2
        BY <1>3, <2>4, ConstantValue, AtomValue
      <3>2. Value(Not(Sym("n")), w) = 2 - 0
        BY <2>2, <3>1, MakeValue
      <3> QED BY <3>1, <3>2 DEF IfNo, IfNotNo
    <2> QED BY <2>1, <2>2, <2>3, <2>4 DEF FormsFacts
  <1>4. CASE e.s \in DOMAIN SymType /\ e = Sym(e.s)
    <2> DEFINE s == e.s
    <2>1. e.t = "SYM"
      BY <1>4 DEF Sym
    <2>2. s \in DOMAIN SymType
      BY <1>4
    <2>3. BothForms(e).EQ = Comp("EQ", s, "n") /\ BothForms(e).NE = Comp("NE", s, "n")
      BY <1>1, <2>1 DEF TransCompareLeaf
    <2> HIDE DEF s
    <2>4. Comp("EQ", s, "n") \in Expr /\ Comp("NE", s, "n") \in Expr
      <3>1. "EQ" \in Comparisons /\ "NE" \in Comparisons
        BY DEF Comparisons
      <3>2. Tidy(Comp("EQ", s, "n")) /\ Tidy(Comp("NE", s, "n"))
        BY <1>2, <2>2, <3>1, TidyMake
      <3> QED BY <3>2 DEF Tidy
    <2>5. ASSUME NEW w, IsWorld(w), SaysSo(e, w)
          PROVE  Value(Comp("EQ", s, "n"), w) = IfNo(e, w) /\ Value(Comp("NE", s, "n"), w) = IfNotNo(e, w)
      <3>0. IsBoolean(s) \/ s \in Constant
        BY <2>1, <2>5, OnBooleansSplit DEF s, SaysSo
      <3>1. /\ Value(Comp("EQ", s, "n"), w) = IF w.txt[s] = "n" THEN 2 ELSE 0
            /\ Value(Comp("NE", s, "n"), w) = IF w.txt[s] = "n" THEN 0 ELSE 2
        BY <1>2, <2>2, <2>5, <3>0, EqValue
      <3>2. Value(e, w) = w.tri[s]
        BY <1>4, <2>2, AtomValue DEF s
      <3>3. w.txt[s] = "n" <=> w.tri[s] = 0
        <4>1. CASE IsBoolean(s)
          BY <2>2, <2>5, <4>1, WorldIs
        <4>2. CASE s \in Constant
          <5>1. w.txt[s] = s /\ w.tri[s] = IF s = "y" THEN 2 ELSE IF s = "m" THEN 1 ELSE 0
            BY <2>2, <2>5, <4>2, WorldIs
          <5> QED BY <4>2, <5>1 DEF Constant
        <4> QED BY <3>0, <4>1, <4>2
      <3> QED BY <3>1, <3>2, <3>3 DEF IfNo, IfNotNo
    <2> QED BY <2>3, <2>4, <2>5 DEF FormsFacts
  <1>5. CASE e.t \in Comparisons /\ e.a \in DOMAIN SymType /\ e.b \in DOMAIN SymType /\ e = Comp(e.t, e.a, e.b)
    <2>1. e.t \notin {"NULL", "SYM"}
      BY <1>5 DEF Comparisons
    <2>2. BothForms(e).EQ = Not(e) /\ BothForms(e).NE = e
      BY <1>1, <2>1 DEF TransCompareLeaf
    <2>3. e \in Expr /\ Not(e) \in Expr
      BY TidyMake DEF Tidy
    <2>4. ASSUME NEW w, IsWorld(w)
          PROVE  Value(Not(e), w) = IfNo(e, w) /\ Value(e, w) = IfNotNo(e, w)
      <3>1. Value(e, w) \in {0, 2}
        BY <1>5, <2>4, FlipIs
      <3>2. Value(Not(e), w) = 2 - Value(e, w)
        BY MakeValue
      <3> QED BY <3>1, <3>2 DEF IfNo, IfNotNo
    <2> QED BY <2>2, <2>3, <2>4 DEF FormsFacts
  <1> QED BY <1>3, <1>4, <1>5, AtomSplit

\* A negation, written out.
LEMMA FormsOfNot ==
  ASSUME NEW e \in Expr, IsNot(e), e.l \in Expr, Tidy(e), FormsFacts(e.l)
  PROVE  FormsFacts(e)
  <1>1. BothForms(e).EQ = BothForms(e.l).NE /\ BothForms(e).NE = BothForms(e.l).EQ
    BY CompareIs DEF IsNot
  <1>2. Plain(e.l)
    BY TidySplit
  <1>3. ASSUME NEW w, IsWorld(w), SaysSo(e, w)
        PROVE  IfNotNo(e.l, w) = IfNo(e, w) /\ IfNo(e.l, w) = IfNotNo(e, w)
    <2>1. Value(e.l, w) \in {0, 2}
      <3>1. CASE e.l = NoExpr
        BY <3>1, AtomValue
      <3>2. CASE e.l = Sym(e.l.s) /\ e.l.s \in DOMAIN SymType \ Constant
        <4> DEFINE s == e.l.s
        <4>1. s \in DOMAIN SymType /\ s \notin Constant /\ e.l.t = "SYM" /\ Atom(e.l)
          BY <3>2, ExprSplit DEF Sym, IsNot, IsTwo, Binary
        <4>2. OnBooleans(e.l)
          BY <1>3, SaysSoSplit DEF SaysSo
        <4>3. IsBoolean(s)
          BY <4>1, <4>2, OnBooleansSplit
        <4>5. w.tri[s] \in {0, 1, 2} /\ (SymType[s] = "bool" => w.tri[s] # 1)
          BY <1>3, <4>1, WorldIs
        <4>6. w.tri[s] # 1
          BY <1>3, <4>1, SaysSoSplit
        <4>4. Value(e.l, w) = w.tri[s]
          BY <3>2, <4>1, AtomValue
        <4> HIDE DEF s
        <4> QED BY <4>3, <4>4, <4>5, <4>6 DEF IsBoolean, BooleanTypes
      <3> QED BY <1>2, <3>1, <3>2 DEF Plain
    <2>2. Value(e, w) = EXPR_NOT(Value(e.l, w))
      BY ValueIs DEF IsNot
    <2> QED BY <2>1, <2>2 DEF IfNo, IfNotNo, EXPR_NOT
  <1>4. \A w : SaysSo(e, w) => SaysSo(e.l, w)
    BY SaysSoSplit
  <1> QED BY <1>1, <1>3, <1>4 DEF FormsFacts

\* && and ||, written out.
LEMMA FormsOfTwo ==
  ASSUME NEW e \in Expr, IsTwo(e), e.l \in Expr, e.r \in Expr, Tidy(e), FormsFacts(e.l), FormsFacts(e.r)
  PROVE  FormsFacts(e)
  <1> DEFINE l == BothForms(e.l).EQ
             r == BothForms(e.r).EQ
             f == Two(Dual(e.t), l, r)
  <1>1. BothForms(e) = TransCompareBoth(e, BothForms(e.l), BothForms(e.r)) /\ e.t \in Binary
    BY CompareIs DEF IsTwo
  <1>2. BothForms(e).EQ = f /\ BothForms(e).NE = Not(f)
    BY <1>1 DEF TransCompareBoth, Forms
  <1>3. Dual(e.t) \in Binary
    BY DEF Dual, Binary
  <1>4. l \in Expr /\ r \in Expr
    BY DEF FormsFacts
  <1>5. f \in Expr /\ Not(f) \in Expr
    <2> HIDE DEF l, r
    <2>1. f \in Expr
      BY <1>3, <1>4, TidyMake
    <2> QED BY <2>1, TidyMake
  <1>6. ASSUME NEW w, IsWorld(w), SaysSo(e, w)
        PROVE  Value(f, w) = IfNo(e, w) /\ Value(Not(f), w) = IfNotNo(e, w)
    <2>1. Value(l, w) = IfNo(e.l, w) /\ Value(r, w) = IfNo(e.r, w)
      BY <1>6, SaysSoSplit DEF FormsFacts
    <2> HIDE DEF l, r
    <2>2. Value(f, w) = Op(Dual(e.t), Value(l, w), Value(r, w))
      BY <1>3, <1>4, MakeValue
    <2> HIDE DEF f
    <2>3. Value(Not(f), w) = 2 - Value(f, w)
      BY <1>5, MakeValue
    <2>4. Value(e, w) = Op(e.t, Value(e.l, w), Value(e.r, w))
      BY <1>1, ValueIs DEF Op
    <2>5. Value(e.l, w) \in {0, 1, 2} /\ Value(e.r, w) \in {0, 1, 2}
      BY <1>6, ValueType
    <2>6. Value(f, w) = IfNo(e, w)
      BY <1>1, <2>1, <2>2, <2>4, <2>5 DEF IfNo, Op, Dual, Binary, EXPR_AND, EXPR_OR
    <2> QED BY <2>3, <2>6 DEF IfNo, IfNotNo
  <1> HIDE DEF f
  <1> QED BY <1>2, <1>5, <1>6 DEF FormsFacts

\* What "e is n" and "e is not n" are written out as.
LEMMA FormsAre ==
  \A e \in Expr : Tidy(e) => FormsFacts(e)
  <1> DEFINE G == {e \in Expr : Tidy(e) => FormsFacts(e)}
  <1>1. ASSUME NEW e \in Expr, Atom(e), e.t \notin Binary \union {"NOT"} PROVE e \in G
    BY <1>1, FormsOfAtom
  <1>2. ASSUME NEW e \in Expr, IsNot(e), e.l \in Expr, e.l \in G PROVE e \in G
    <2>1. Tidy(e) => Tidy(e.l)
      <3>1. Plain(e.l) => Tidy(e.l)
        BY TidyMake DEF Plain
      <3> QED BY <1>2, <3>1, TidySplit
    <2> QED BY <1>2, <2>1, FormsOfNot
  <1>3. ASSUME NEW e \in Expr, IsTwo(e), e.l \in Expr, e.r \in Expr, e.l \in G, e.r \in G PROVE e \in G
    BY <1>3, TidySplit, FormsOfTwo
  <1> HIDE DEF G
  <1>4. \A e \in Expr : e \in G
    BY <1>1, <1>2, <1>3, ExprInduction
  <1> QED BY <1>4 DEF G

\* "e is not n", written out and simplified.
LEMMA NotNoKeeps ==
  ASSUME NEW e, Tidy(e)
  PROVE  /\ Tidy(NotNo(e))
         /\ \A w : IsWorld(w) /\ SaysSo(e, w) => Value(NotNo(e), w) = IfNotNo(e, w)
  <1> DEFINE f == BothForms(e).NE
             g == expr_transform(f)
  <1>1. e \in Expr
    BY DEF Tidy
  <1>2. f \in Expr /\ \A w : IsWorld(w) /\ SaysSo(e, w) => Value(f, w) = IfNotNo(e, w)
    BY <1>1, FormsAre DEF FormsFacts
  <1>3. TransCompareNo(e, "NE") = f
    BY DEF TransCompareNo, BothForms
  <1> HIDE DEF f
  <1>4. Tidy(g) /\ \A w : IsWorld(w) => Value(g, w) = Value(f, w)
    BY <1>2, TransformKeeps
  <1> HIDE DEF g
  <1>5. Tidy(expr_eliminate_dups(g)) /\ Same(g, expr_eliminate_dups(g))
    BY <1>4, DupsKeeps
  <1>6. NotNo(e) = expr_eliminate_dups(g)
    BY <1>3 DEF NotNo, g
  <1> QED BY <1>2, <1>4, <1>5, <1>6 DEF Same

\* Where nothing of the second condition is left, the first implies it.
LEMMA NothingLeft ==
  ASSUME NEW e, NEW f, Tidy(e), Tidy(f), expr_is_yes(expr_eliminate_eq(e, f)[2])
  PROVE  Implies(e, f)
  <1> DEFINE rest == expr_eliminate_eq(e, f)
  <1>1. e \in Expr /\ f \in Expr
    BY DEF Tidy
  <1>2. Follows(e, f, rest[1], rest[2])
    BY <1>1, EqSound
  <1>3. rest[2] = NoExpr \/ rest[2] = Sym("y")
    BY DEF expr_is_yes
  <1> HIDE DEF rest
  <1>4. ASSUME NEW w \in Worlds, Value(e, w) # no
        PROVE  Value(f, w) # no
    <2>1. IsWorld(w)
      BY WorldsAssumption
    <2>2. Value(rest[2], w) = 2
      BY <1>3, <2>1, ConstantValue, AtomValue
    <2>3. Value(rest[1], w) \in {0, 1, 2}
      BY <1>2, <2>1, ValueType DEF Follows
    <2>4. Value(e, w) <= Value(f, w)
      BY <1>2, <2>1, <2>2, <2>3 DEF Follows
    <2>5. Value(e, w) \in {0, 1, 2} /\ Value(f, w) \in {0, 1, 2}
      BY <1>1, <2>1, ValueType
    <2> QED BY <1>4, <2>4, <2>5 DEF no
  <1> QED BY <1>4 DEF Implies

\* Comparing the written-out forms tells what depends on what.
LEMMA DepsSuperset == DepsInv => SupersetIsReal
  <1> SUFFICES ASSUME DepsInv PROVE SupersetIsReal
    OBVIOUS
  <1> DEFINE written == NotNo(dep)
  <1>1. Tidy(dep) /\ Tidy(base)
    BY DEF DepsInv
  <1>2. Tidy(written) /\ \A w : IsWorld(w) /\ SaysSo(dep, w) => Value(written, w) = IfNotNo(dep, w)
    BY <1>1, NotNoKeeps
  <1> HIDE DEF written
  <1>3. ASSUME NEW w \in Worlds, SaysSo(dep, w)
        PROVE  Value(written, w) = (IF Value(dep, w) = no THEN no ELSE yes)
    BY <1>2, <1>3, WorldsAssumption DEF IfNotNo, no, yes
  <1>4. ASSUME NEW c \in Conditions, expr_is_yes(expr_eliminate_eq(written, NotNo(Combine(base, c)))[2])
        PROVE  Implies(written, NotNo(Combine(base, c)))
    <2>1. Tidy(Combine(base, c))
      BY OneMore
    <2>2. Tidy(NotNo(Combine(base, c)))
      BY <2>1, NotNoKeeps
    <2> QED BY <1>2, <1>4, <2>2, NothingLeft
  <1> QED BY <1>3, <1>4 DEF SupersetIsReal, written

\* What is written out has the meaning of the condition, and where nothing of the
\* condition of a symbol's prompt is left, the entry compared with it is visible
\* only where that prompt is, whatever the conditions.
THEOREM SupersetHolds == Spec => []SupersetIsReal
  <1> QED BY DepsSuperset, DepsInvariant, PTL

-----------------------------------------------------------------------------
\* What is printed.
PrintFrom(p, f, of) ==
  CASE f.t = "NOT" -> <<"!">> \o Enclosed("NOT", f.l.t, of[f.l])
    [] f.t \in Binary -> Enclosed(f.t, f.l.t, of[f.l]) \o <<Infix[f.t]>> \o Enclosed(f.t, f.r.t, of[f.r])
    [] OTHER -> PrintLeaf(f)
PrintFold == INSTANCE Recursion WITH Body <- PrintFrom, Rank <- Size

\* By the operands.
LEMMA PrintIs ==
  ASSUME NEW e \in Expr
  PROVE  /\ e.t = "NOT" => PrintBody(e) = <<"!">> \o expr_print(e.l, "NOT")
         /\ e.t \in Binary => PrintBody(e) = expr_print(e.l, e.t) \o <<Infix[e.t]>> \o expr_print(e.r, e.t)
         /\ e.t \notin Binary \union {"NOT"} => PrintBody(e) = PrintLeaf(e)
  <1> DEFINE F == PrintFold!Fixed(0, Expr)
  <1>0. (e.t = "NOT" => e.l \in Expr) /\ (e.t \in Binary => e.l \in Expr /\ e.r \in Expr)
    BY Smaller
  <1>1. PrintFold!LooksBelow(0, Expr)
    <2> SUFFICES ASSUME NEW a \in Expr, NEW g, NEW h, \A b \in Expr : Size(b) < Size(a) => g[b] = h[b]
                 PROVE  PrintFrom(0, a, g) = PrintFrom(0, a, h)
      BY Smaller DEF PrintFold!LooksBelow
    <2>1. (a.t = "NOT" => g[a.l] = h[a.l]) /\ (a.t \in Binary => g[a.l] = h[a.l] /\ g[a.r] = h[a.r])
      BY Smaller
    <2> QED BY <2>1 DEF PrintFrom
  <1>2. ASSUME NEW f \in Expr PROVE PrintBody(f) = F[f]
    <2>1. PrintBody(f) = PrintFold!Fixed(0, Exprs[f.size])[f]
      BY DEF PrintBody, Fold, PrintFold!Fixed, PrintFrom
    <2> QED BY <1>1, <2>1, PrintFold!Everywhere, Downward
  <1>3. F[e] = PrintFrom(0, e, F)
    BY <1>1, PrintFold!Everywhere
  <1> HIDE DEF F
  <1> QED BY <1>0, <1>2, <1>3 DEF PrintFrom, Binary, expr_print

\* What is listed.
ListFrom(p, f, of) ==
  CASE f.t = "NOT" -> Listed(f, p[1], p[2])
    [] f.t \in Binary -> IF f.t = "OR" THEN of[f.l] \o of[f.r] ELSE Listed(f, p[1], p[2])
    [] OTHER -> Listed(f, p[1], p[2])
ListFold == INSTANCE Recursion WITH Body <- ListFrom, Rank <- Size

\* By the operands.
LEMMA ListIs ==
  ASSUME NEW w, NEW want, NEW e \in Expr
  PROVE  /\ e.t = "OR" => expr_print_revdep(e, w, want)
                            = expr_print_revdep(e.l, w, want) \o expr_print_revdep(e.r, w, want)
         /\ e.t # "OR" => expr_print_revdep(e, w, want) = Listed(e, w, want)
  <1> DEFINE p == <<w, want>>
             F == ListFold!Fixed(p, Expr)
  <1>0. (e.t = "NOT" => e.l \in Expr) /\ (e.t \in Binary => e.l \in Expr /\ e.r \in Expr)
    BY Smaller
  <1>1. ListFold!LooksBelow(p, Expr)
    <2> SUFFICES ASSUME NEW a \in Expr, NEW g, NEW h, \A b \in Expr : Size(b) < Size(a) => g[b] = h[b]
                 PROVE  ListFrom(p, a, g) = ListFrom(p, a, h)
      BY Smaller DEF ListFold!LooksBelow
    <2>1. a.t \in Binary => g[a.l] = h[a.l] /\ g[a.r] = h[a.r]
      BY Smaller
    <2> QED BY <2>1 DEF ListFrom
  <1>2. ASSUME NEW f \in Expr PROVE expr_print_revdep(f, w, want) = F[f]
    <2>1. expr_print_revdep(f, w, want) = ListFold!Fixed(p, Exprs[f.size])[f]
      BY DEF expr_print_revdep, Fold, ListFold!Fixed, ListFrom
    <2> QED BY <1>1, <2>1, ListFold!Everywhere, Downward
  <1>3. F[e] = ListFrom(p, e, F)
    BY <1>1, ListFold!Everywhere
  <1> HIDE DEF F
  <1> QED BY <1>0, <1>2, <1>3 DEF ListFrom, Binary

-----------------------------------------------------------------------------
\* How deep the parentheses are.
DepthFrom(q, k, open) == IF k = 0 THEN 0 ELSE open[k - 1] + Opened(q[k])
DepthRec == INSTANCE Recursion WITH Body <- DepthFrom, Rank <- Number

\* One token opens or closes at most one.
LEMMA DepthIs ==
  ASSUME NEW q, NEW k \in Nat
  PROVE  Depth(q, 0) = 0 /\ Depth(q, k + 1) = Depth(q, k) + Opened(q[k + 1])
  <1> DEFINE F == DepthRec!Fixed(q, Nat)
  <1>1. DepthRec!LooksBelow(q, Nat)
    <2> SUFFICES ASSUME NEW a \in Nat, NEW g, NEW h, \A b \in Nat : b < a => g[b] = h[b]
                 PROVE  DepthFrom(q, a, g) = DepthFrom(q, a, h)
      BY DEF DepthRec!LooksBelow, Number
    <2>1. a # 0 => a - 1 \in Nat /\ a - 1 < a
      OBVIOUS
    <2> QED BY <2>1 DEF DepthFrom
  <1>2. ASSUME NEW i \in Nat PROVE Depth(q, i) = F[i]
    <2>1. Depth(q, i) = DepthRec!Fixed(q, 0..i)[i]
      BY DEF Depth, DepthRec!Fixed, DepthFrom
    <2>2. 0..i \in SUBSET Nat /\ i \in 0..i /\ \A a \in 0..i, b \in Nat : Number(b) < Number(a) => b \in 0..i
      BY DEF Number
    <2> QED BY <1>1, <2>1, <2>2, DepthRec!Everywhere
  <1>3. \A a \in Nat : F[a] = DepthFrom(q, a, F)
    BY <1>1, DepthRec!Everywhere
  <1> HIDE DEF F
  <1>4. k + 1 \in Nat /\ k + 1 # 0 /\ (k + 1) - 1 = k
    OBVIOUS
  <1> QED BY <1>2, <1>3, <1>4 DEF DepthFrom

\* Of two texts, one after the other.
LEMMA DepthJoin ==
  ASSUME NEW x \in Text, NEW y \in Text
  PROVE  /\ \A i \in 0..Len(x) : Depth(x \o y, i) = Depth(x, i)
         /\ \A i \in 0..Len(y) : Depth(x \o y, Len(x) + i) = Depth(x, Len(x)) + Depth(y, i)
         /\ \A i \in 0..Len(x) : Depth(x, i) \in Int
  <1> DEFINE z == x \o y
             T == {i \in Nat : i <= Len(x) => Depth(z, i) = Depth(x, i) /\ Depth(x, i) \in Int}
             U == {i \in Nat : i <= Len(y) => Depth(z, Len(x) + i) = Depth(x, Len(x)) + Depth(y, i) /\ Depth(y, i) \in Int}
  <1>1. /\ Len(x) \in Nat /\ Len(y) \in Nat
        /\ \A i \in 1..Len(x) : z[i] = x[i]
        /\ \A i \in 1..Len(y) : z[Len(x) + i] = y[i]
    BY DEF Text
  <1>2. \A token : Opened(token) \in Int
    BY DEF Opened
  <1> HIDE DEF z
  <1>3. 0 \in T
    BY DepthIs
  <1>4. ASSUME NEW i \in Nat, i \in T PROVE i + 1 \in T
    <2> SUFFICES ASSUME i + 1 <= Len(x)
                 PROVE  Depth(z, i + 1) = Depth(x, i + 1) /\ Depth(x, i + 1) \in Int
      OBVIOUS
    <2>1. i <= Len(x) /\ i + 1 \in 1..Len(x)
      BY <1>1
    <2>2. z[i + 1] = x[i + 1]
      BY <1>1, <2>1
    <2>3. Depth(z, i + 1) = Depth(z, i) + Opened(z[i + 1]) /\ Depth(x, i + 1) = Depth(x, i) + Opened(x[i + 1])
      BY DepthIs
    <2> QED BY <1>2, <1>4, <2>1, <2>2, <2>3
  <1> HIDE DEF T
  <1>5. \A i \in Nat : i \in T
    BY <1>3, <1>4, Trees!SetInduction
  <1>6. \A i \in 0..Len(x) : Depth(z, i) = Depth(x, i) /\ Depth(x, i) \in Int
    BY <1>1, <1>5 DEF T
  <1>7. Depth(z, Len(x)) = Depth(x, Len(x)) /\ Depth(x, Len(x)) \in Int
    BY <1>1, <1>6
  <1>8. 0 \in U
    <2>1. Depth(y, 0) = 0 /\ Len(x) + 0 = Len(x)
      BY <1>1, DepthIs
    <2> QED BY <1>7, <2>1
  <1>9. ASSUME NEW i \in Nat, i \in U PROVE i + 1 \in U
    <2> SUFFICES ASSUME i + 1 <= Len(y)
                 PROVE  Depth(z, Len(x) + (i + 1)) = Depth(x, Len(x)) + Depth(y, i + 1) /\ Depth(y, i + 1) \in Int
      OBVIOUS
    <2>1. i <= Len(y) /\ i + 1 \in 1..Len(y) /\ Len(x) + i \in Nat /\ Len(x) + (i + 1) = (Len(x) + i) + 1
      BY <1>1
    <2>2. z[Len(x) + (i + 1)] = y[i + 1]
      BY <1>1, <2>1
    <2>3. Depth(y, i + 1) = Depth(y, i) + Opened(y[i + 1])
      BY DepthIs
    <2>4. Depth(z, (Len(x) + i) + 1) = Depth(z, Len(x) + i) + Opened(z[(Len(x) + i) + 1])
      BY <2>1, DepthIs
    <2> QED BY <1>2, <1>7, <1>9, <2>1, <2>2, <2>3, <2>4
  <1> HIDE DEF U
  <1>10. \A i \in Nat : i \in U
    BY <1>8, <1>9, Trees!SetInduction
  <1> QED BY <1>1, <1>6, <1>10 DEF U, z

-----------------------------------------------------------------------------
\* The operators, none of which is the name of a symbol.
LEMMA OperatorsAre ==
  /\ {"(", ")", "!", "||", "&&"} \subseteq Operators
  /\ \A t \in Comparisons : Infix[t] \in Operators \ {"(", ")", "!", "||", "&&"}
  /\ \A t, u \in Comparisons : Infix[t] = Infix[u] => t = u
  /\ \A s \in DOMAIN SymType : s \notin Operators
  BY NamesAssumption DEF Operators, Infix, Comparisons

\* How a text is read.
ParseFrom(p, q, of) ==
    LET ors == LastAtTop(q, "||")
        ands == LastAtTop(q, "&&")
    IN  IF q = <<>> THEN NoExpr
        ELSE IF ors # {} THEN Two("OR", of[Before(q, ors)], of[After(q, ors)])
        ELSE IF ands # {} THEN Two("AND", of[Before(q, ands)], of[After(q, ands)])
        ELSE IF q[1] = "!" THEN Not(of[Tail(q)])
        ELSE IF q[1] = "(" THEN of[SubSeq(q, 2, Len(q) - 1)]
        ELSE IF Len(q) = 1 THEN Sym(q[1])
        ELSE Comp(CHOOSE t \in Comparisons : Infix[t] = q[2], q[1], q[3])
TextLength(q) == Len(q)
ParseRec == INSTANCE Recursion WITH Body <- ParseFrom, Rank <- TextLength

\* Parts of a text.
LEMMA PartIs ==
  ASSUME NEW q \in Text, NEW i \in Nat, NEW j \in Nat, i >= 1, j <= Len(q), i > 1 \/ j < Len(q), q # <<>>
  PROVE  SubSeq(q, i, j) \in Text /\ Len(SubSeq(q, i, j)) < Len(q)
  <1>1. Len(q) \in Nat /\ Len(q) > 0 /\ \A k \in 1..Len(q) : q[k] \in Operators \union DOMAIN SymType
    BY DEF Text
  <1>2. SubSeq(q, i, j) \in Text
    BY <1>1 DEF Text
  <1>3. Len(SubSeq(q, i, j)) = IF i <= j THEN j - i + 1 ELSE 0
    BY <1>1 DEF Text
  <1> QED BY <1>1, <1>2, <1>3

\* The operands of an operator are shorter texts.
LEMMA PartsAre ==
  ASSUME NEW q \in Text, q # <<>>, NEW last, last \in SUBSET DOMAIN q, last # {}
  PROVE  /\ Before(q, last) \in Text /\ Len(Before(q, last)) < Len(q)
         /\ After(q, last) \in Text /\ Len(After(q, last)) < Len(q)
  <1> DEFINE i == CHOOSE i \in last : TRUE
  <1>1. i \in DOMAIN q
    OBVIOUS
  <1>2. Len(q) \in Nat /\ DOMAIN q = 1..Len(q)
    BY DEF Text
  <1>3. i \in 1..Len(q) /\ i - 1 \in Nat /\ i + 1 \in Nat /\ i + 1 > 1 /\ i - 1 < Len(q)
    BY <1>1, <1>2
  <1> HIDE DEF i
  <1>4. SubSeq(q, 1, i - 1) \in Text /\ Len(SubSeq(q, 1, i - 1)) < Len(q)
    BY <1>2, <1>3, PartIs
  <1>5. SubSeq(q, i + 1, Len(q)) \in Text /\ Len(SubSeq(q, i + 1, Len(q))) < Len(q)
    BY <1>2, <1>3, PartIs
  <1> QED BY <1>4, <1>5 DEF Before, After, i

\* The rules of the grammar.
LEMMA ParseIs ==
  ASSUME NEW q \in Text
  PROVE  Parse[q] = ParseFrom(0, q, Parse)
  <1>3. ParseRec!LooksBelow(0, Text)
    <2> SUFFICES ASSUME NEW a \in Text, NEW g, NEW h, \A b \in Text : Len(b) < Len(a) => g[b] = h[b]
                 PROVE  ParseFrom(0, a, g) = ParseFrom(0, a, h)
      <3>1. \A a \in Text : Len(a) \in Nat
        BY DEF Text
      <3> QED BY <3>1 DEF ParseRec!LooksBelow, TextLength
    <2>1. CASE a = <<>>
      BY <2>1 DEF ParseFrom
    <2>2. CASE a # <<>>
      <3>1. ASSUME NEW token, LastAtTop(a, token) # {}
            PROVE  /\ g[Before(a, LastAtTop(a, token))] = h[Before(a, LastAtTop(a, token))]
                   /\ g[After(a, LastAtTop(a, token))] = h[After(a, LastAtTop(a, token))]
        <4>1. LastAtTop(a, token) \in SUBSET DOMAIN a
          BY DEF LastAtTop
        <4> QED BY <2>2, <3>1, <4>1, PartsAre
      <3>2. g[Tail(a)] = h[Tail(a)]
        <4>1. Tail(a) \in Text /\ Len(Tail(a)) < Len(a)
          BY <2>2 DEF Text
        <4> QED BY <4>1
      <3>3. g[SubSeq(a, 2, Len(a) - 1)] = h[SubSeq(a, 2, Len(a) - 1)]
        <4>1. Len(a) \in Nat /\ Len(a) - 1 \in Nat /\ Len(a) - 1 < Len(a)
          BY <2>2 DEF Text
        <4>2. SubSeq(a, 2, Len(a) - 1) \in Text /\ Len(SubSeq(a, 2, Len(a) - 1)) < Len(a)
          BY <2>2, <4>1, PartIs
        <4> QED BY <4>2
      <3> QED BY <2>2, <3>1, <3>2, <3>3 DEF ParseFrom
    <2> QED BY <2>1, <2>2
  <1>4. Parse = ParseRec!Fixed(0, Text)
    BY DEF Parse, ParseRec!Fixed, ParseFrom
  <1> QED BY <1>3, <1>4, ParseRec!Unfolds

\* A text that leaves no parenthesis open and closes none but its own.
Balanced(q) ==
  /\ q \in Text /\ q # <<>> /\ Depth(q, Len(q)) = 0
  /\ \A i \in 0..Len(q) : Depth(q, i) >= 0 /\ Depth(q, i) \in Int
\* No operator of that kind outside of parentheses.
Closed(q, token) == \A i \in 1..Len(q) : q[i] = token => Depth(q, i) # 0

\* Then none of them is the last.
LEMMA NoneLast ==
  ASSUME NEW q \in Text, NEW token, Closed(q, token)
  PROVE  LastAtTop(q, token) = {}
  <1>1. DOMAIN q = 1..Len(q)
    BY DEF Text
  <1> QED BY <1>1 DEF Closed, LastAtTop

\* A piece of a text is the text it has the tokens of.
LEMMA PieceIs ==
  ASSUME NEW z \in Text, NEW y \in Text, NEW m \in Nat \ {0}, NEW n \in Nat, n <= Len(z),
         n + 1 = m + Len(y), \A i \in 1..Len(y) : z[(m - 1) + i] = y[i]
  PROVE  SubSeq(z, m, n) = y
  <1> DEFINE p == SubSeq(z, m, n)
  <1>1. Len(y) \in Nat /\ Len(z) \in Nat /\ DOMAIN y = 1..Len(y)
    BY DEF Text
  <1>2. p = [i \in 1..((1 + n) - m) |-> z[(i + m) - 1]]
    BY DEF Text
  <1>3. (1 + n) - m = Len(y)
    BY <1>1
  <1>4. ASSUME NEW i \in 1..Len(y) PROVE z[(i + m) - 1] = y[i]
    <2>1. (i + m) - 1 = (m - 1) + i
      BY <1>1
    <2> QED BY <2>1
  <1>5. y = [i \in 1..Len(y) |-> y[i]]
    BY <1>1 DEF Text
  <1> HIDE DEF p
  <1> QED BY <1>2, <1>3, <1>4, <1>5 DEF p

\* Two texts and an operator between them.
Joint(x, token, y) == (x \o <<token>>) \o y
JointFacts(x, token, y, z) ==
  /\ Len(x) \in Nat \ {0} /\ Len(y) \in Nat \ {0} /\ Len(z) = Len(x) + 1 + Len(y)
  /\ \A i \in 1..Len(x) : z[i] = x[i] /\ Depth(z, i) = Depth(x, i)
  /\ z[Len(x) + 1] = token /\ Depth(z, Len(x) + 1) = 0
  /\ \A i \in 1..Len(y) : z[Len(x) + 1 + i] = y[i] /\ Depth(z, Len(x) + 1 + i) = Depth(y, i)
  /\ Balanced(z) /\ SubSeq(z, 1, Len(x)) = x /\ SubSeq(z, Len(x) + 2, Len(z)) = y

\* It has the tokens and the depths of its parts.
LEMMA JointIs ==
  ASSUME NEW x, Balanced(x), NEW y, Balanced(y), NEW token \in Operators \ {"(", ")"}
  PROVE  JointFacts(x, token, y, Joint(x, token, y))
  <1> DEFINE one == <<token>>
             xo == x \o one
             z == Joint(x, token, y)
  <1>1. x \in Text /\ y \in Text /\ one \in Text /\ xo \in Text /\ z \in Text
    BY DEF Balanced, Text, Joint
  <1>2. /\ Len(x) \in Nat \ {0} /\ Len(y) \in Nat \ {0} /\ Len(one) = 1 /\ Len(xo) = Len(x) + 1
        /\ Len(z) = Len(x) + 1 + Len(y)
    BY <1>1 DEF Balanced, Text, Joint
  <1>3. \A i \in 1..Len(x) : z[i] = x[i]
    BY <1>1, <1>2 DEF Text, Joint
  <1>4. z[Len(x) + 1] = token
    BY <1>1, <1>2 DEF Text, Joint
  <1>5. \A i \in 1..Len(y) : z[Len(x) + 1 + i] = y[i]
    BY <1>1, <1>2 DEF Text, Joint
  <1>6. Depth(x, Len(x)) = 0 /\ Depth(y, Len(y)) = 0
    BY DEF Balanced
  <1>7. Depth(one, 1) = 0
    <2>1. Depth(one, 0) = 0 /\ Depth(one, 0 + 1) = Depth(one, 0) + Opened(one[0 + 1])
      BY DepthIs
    <2>2. one[1] = token /\ 0 + 1 = 1
      OBVIOUS
    <2> QED BY <2>1, <2>2 DEF Opened
  <1>8. z = xo \o y
    BY DEF Joint
  <1> HIDE DEF one, z
  <1>9. /\ \A i \in 0..Len(x) : Depth(xo, i) = Depth(x, i)
        /\ Depth(xo, Len(x) + 1) = 0
    <2>1. \A i \in 0..Len(x) : Depth(xo, i) = Depth(x, i)
      BY <1>1, DepthJoin
    <2>2. \A i \in 0..Len(one) : Depth(xo, Len(x) + i) = Depth(x, Len(x)) + Depth(one, i)
      BY <1>1, DepthJoin
    <2>3. 1 \in 0..Len(one)
      BY <1>2
    <2> QED BY <1>6, <1>7, <2>1, <2>2, <2>3
  <1> HIDE DEF xo
  <1>10. /\ \A i \in 0..Len(x) + 1 : Depth(z, i) = Depth(xo, i)
         /\ \A i \in 0..Len(y) : Depth(z, Len(x) + 1 + i) = 0 + Depth(y, i)
    <2>1. \A i \in 0..Len(xo) : Depth(xo \o y, i) = Depth(xo, i)
      BY <1>1, DepthJoin
    <2>2. \A i \in 0..Len(y) : Depth(xo \o y, Len(xo) + i) = Depth(xo, Len(xo)) + Depth(y, i)
      BY <1>1, DepthJoin
    <2> QED BY <1>2, <1>8, <1>9, <2>1, <2>2
  <1>11. \A i \in 0..Len(y) : Depth(y, i) \in Int /\ Depth(y, i) >= 0
    BY DEF Balanced
  <1>12. \A i \in 0..Len(x) : Depth(x, i) \in Int /\ Depth(x, i) >= 0
    BY DEF Balanced
  <1>13. \A i \in 0..Len(x) : Depth(z, i) = Depth(x, i)
    BY <1>2, <1>9, <1>10
  <1>14. \A i \in 0..Len(y) : Depth(z, Len(x) + 1 + i) = Depth(y, i)
    BY <1>10, <1>11
  <1>15. Depth(z, Len(x) + 1) = 0
    BY <1>2, <1>9, <1>10
  <1>16. Balanced(z)
    <2>1. ASSUME NEW i \in 0..Len(z) PROVE Depth(z, i) >= 0 /\ Depth(z, i) \in Int
      <3>1. CASE i <= Len(x)
        BY <1>2, <1>12, <1>13, <3>1
      <3>2. CASE i > Len(x)
        <4>1. i - (Len(x) + 1) \in 0..Len(y) /\ Len(x) + 1 + (i - (Len(x) + 1)) = i
          BY <1>2, <3>2
        <4> QED BY <1>11, <1>14, <4>1
      <3> QED BY <1>2, <3>1, <3>2
    <2>2. Depth(z, Len(z)) = 0
      BY <1>2, <1>6, <1>14
    <2>3. z # <<>>
      BY <1>2
    <2> QED BY <1>1, <2>1, <2>2, <2>3 DEF Balanced
  <1>17. SubSeq(z, 1, Len(x)) = x
    <2>1. 1 \in Nat /\ Len(x) + 1 = 1 + Len(x) /\ Len(x) <= Len(z) /\ \A i \in 1..Len(x) : z[(1 - 1) + i] = x[i]
      BY <1>2, <1>3
    <2> QED BY <1>1, <1>2, <2>1, PieceIs
  <1>18. SubSeq(z, Len(x) + 2, Len(z)) = y
    <2>1. PICK m \in Nat \ {0} : m = Len(x) + 2
      BY <1>2
    <2>2. Len(z) + 1 = m + Len(y) /\ m - 1 = Len(x) + 1 /\ Len(z) \in Nat
      BY <1>2, <2>1
    <2>3. \A i \in 1..Len(y) : z[(m - 1) + i] = y[i]
      BY <1>5, <2>2
    <2>4. Len(z) <= Len(z)
      BY <2>2
    <2>5. SubSeq(z, m, Len(z)) = y
      BY <1>1, <2>2, <2>3, <2>4, PieceIs
    <2> QED BY <2>1, <2>5
  <1> QED BY <1>2, <1>3, <1>4, <1>5, <1>13, <1>14, <1>15, <1>16, <1>17, <1>18 DEF JointFacts, z

\* What is closed on both sides is closed.
LEMMA JointClosed ==
  ASSUME NEW x, Balanced(x), NEW y, Balanced(y), NEW token \in Operators \ {"(", ")"},
         NEW other, other # token, Closed(x, other), Closed(y, other)
  PROVE  Closed(Joint(x, token, y), other)
  <1> DEFINE z == Joint(x, token, y)
  <1>0. JointFacts(x, token, y, z)
    BY JointIs
  <1> HIDE DEF z
  <1>1. /\ Len(x) \in Nat /\ Len(y) \in Nat /\ Len(z) = Len(x) + 1 + Len(y)
        /\ \A i \in 1..Len(x) : z[i] = x[i] /\ Depth(z, i) = Depth(x, i)
        /\ z[Len(x) + 1] = token
        /\ \A i \in 1..Len(y) : z[Len(x) + 1 + i] = y[i] /\ Depth(z, Len(x) + 1 + i) = Depth(y, i)
    BY <1>0 DEF JointFacts
  <1>2. ASSUME NEW i \in 1..Len(z), z[i] = other PROVE Depth(z, i) # 0
    <2>1. CASE i <= Len(x)
      BY <1>1, <1>2, <2>1 DEF Closed
    <2>2. CASE i = Len(x) + 1
      BY <1>1, <1>2, <2>2
    <2>3. CASE i > Len(x) + 1
      <3>1. i - (Len(x) + 1) \in 1..Len(y) /\ Len(x) + 1 + (i - (Len(x) + 1)) = i
        BY <1>1, <2>3
      <3> QED BY <1>1, <1>2, <3>1 DEF Closed
    <2> QED BY <1>1, <2>1, <2>2, <2>3
  <1> QED BY <1>2 DEF Closed, z

\* The last operator is the one before the text that has none.
LEMMA JointLast ==
  ASSUME NEW x, Balanced(x), NEW y, Balanced(y), NEW token \in Operators \ {"(", ")"}, Closed(y, token)
  PROVE  LastAtTop(Joint(x, token, y), token) = {Len(x) + 1}
  <1> DEFINE z == Joint(x, token, y)
             n == Len(x) + 1
  <1>0. JointFacts(x, token, y, z)
    BY JointIs
  <1> HIDE DEF z
  <1>1. /\ Len(x) \in Nat /\ Len(y) \in Nat /\ Len(z) = n + Len(y) /\ Balanced(z)
        /\ z[n] = token /\ Depth(z, n) = 0
        /\ \A i \in 1..Len(y) : z[n + i] = y[i] /\ Depth(z, n + i) = Depth(y, i)
    BY <1>0 DEF JointFacts
  <1>2. DOMAIN z = 1..Len(z)
    BY <1>1 DEF Balanced, Text
  <1>3. ASSUME NEW j \in (n + 1)..Len(z), Depth(z, j) = 0 PROVE z[j] # token
    <2>1. j - n \in 1..Len(y) /\ n + (j - n) = j
      BY <1>1
    <2> QED BY <1>1, <1>3, <2>1 DEF Closed
  <1>4. n \in DOMAIN z
    BY <1>1, <1>2
  <1>5. n \in LastAtTop(z, token)
    BY <1>1, <1>3, <1>4 DEF LastAtTop
  <1>6. ASSUME NEW i \in LastAtTop(z, token) PROVE i = n
    <2>1. /\ i \in 1..Len(z) /\ z[i] = token /\ Depth(z, i) = 0
          /\ \A j \in (i + 1)..Len(z) : Depth(z, j) = 0 => z[j] # token
      BY <1>2 DEF LastAtTop
    <2>2. ~(i < n)
      <3>1. i < n => n \in (i + 1)..Len(z)
        BY <1>1, <2>1
      <3> QED BY <1>1, <2>1, <3>1
    <2>3. ~(i > n)
      <3>1. i > n => i \in (n + 1)..Len(z)
        BY <1>1, <2>1
      <3> QED BY <1>3, <2>1, <3>1
    <2> QED BY <1>1, <2>1, <2>2, <2>3
  <1> QED BY <1>5, <1>6 DEF z, n

\* It is read there.
LEMMA JointParse ==
  ASSUME NEW x, Balanced(x), NEW y, Balanced(y)
  PROVE  /\ Closed(y, "||") => Parse[Joint(x, "||", y)] = Two("OR", Parse[x], Parse[y])
         /\ Closed(x, "||") /\ Closed(y, "||") /\ Closed(y, "&&")
              => Parse[Joint(x, "&&", y)] = Two("AND", Parse[x], Parse[y])
  <1>1. "||" \in Operators \ {"(", ")"} /\ "&&" \in Operators \ {"(", ")"}
    BY OperatorsAre
  <1>2. ASSUME NEW token \in {"||", "&&"}, Closed(y, token)
        PROVE  LET z == Joint(x, token, y)
                   last == LastAtTop(z, token)
               IN  last # {} /\ Before(z, last) = x /\ After(z, last) = y /\ z \in Text /\ z # <<>>
    <2> DEFINE z == Joint(x, token, y)
               last == LastAtTop(z, token)
    <2>1. JointFacts(x, token, y, z)
      BY <1>1, JointIs
    <2>2. last = {Len(x) + 1}
      BY <1>1, <1>2, JointLast
    <2> HIDE DEF z, last
    <2>3. (CHOOSE i \in last : TRUE) = Len(x) + 1
      BY <2>2
    <2>4. Len(x) \in Nat /\ (Len(x) + 1) - 1 = Len(x) /\ (Len(x) + 1) + 1 = Len(x) + 2
      BY <2>1 DEF JointFacts
    <2>5. Before(z, last) = x /\ After(z, last) = y
      BY <2>1, <2>3, <2>4 DEF Before, After, JointFacts
    <2> QED BY <2>1, <2>2, <2>5 DEF JointFacts, Balanced, z, last
  <1>3. ASSUME Closed(y, "||") PROVE Parse[Joint(x, "||", y)] = Two("OR", Parse[x], Parse[y])
    <2> DEFINE z == Joint(x, "||", y)
    <2>1. /\ LastAtTop(z, "||") # {} /\ z \in Text /\ z # <<>>
          /\ Before(z, LastAtTop(z, "||")) = x /\ After(z, LastAtTop(z, "||")) = y
      BY <1>2, <1>3
    <2> HIDE DEF z
    <2>2. Parse[z] = ParseFrom(0, z, Parse)
      BY <2>1, ParseIs
    <2> QED BY <2>1, <2>2 DEF ParseFrom, z
  <1>4. ASSUME Closed(x, "||"), Closed(y, "||"), Closed(y, "&&")
        PROVE  Parse[Joint(x, "&&", y)] = Two("AND", Parse[x], Parse[y])
    <2> DEFINE z == Joint(x, "&&", y)
    <2>1. /\ LastAtTop(z, "&&") # {} /\ z \in Text /\ z # <<>>
          /\ Before(z, LastAtTop(z, "&&")) = x /\ After(z, LastAtTop(z, "&&")) = y
      BY <1>2, <1>4
    <2>2. Closed(z, "||")
      BY <1>1, <1>4, JointClosed
    <2> HIDE DEF z
    <2>3. LastAtTop(z, "||") = {}
      BY <2>1, <2>2, NoneLast
    <2>4. Parse[z] = ParseFrom(0, z, Parse)
      BY <2>1, ParseIs
    <2> QED BY <2>1, <2>3, <2>4 DEF ParseFrom, z
  <1> QED BY <1>3, <1>4

\* Nothing in parentheses is outside of them.
Shut(q) == Closed(q, "||") /\ Closed(q, "&&")
\* Parentheses change nothing of what is read.
LEMMA ParenParse ==
  ASSUME NEW b, Balanced(b)
  PROVE  LET z == <<"(">> \o b \o <<")">>
         IN  Balanced(z) /\ Shut(z) /\ Parse[z] = Parse[b]
  <1> DEFINE left == <<"(">>
             right == <<")">>
             lb == left \o b
             z == lb \o right
  <1>1. b \in Text /\ left \in Text /\ right \in Text /\ lb \in Text /\ z \in Text
    BY OperatorsAre DEF Balanced, Text
  <1>2. /\ Len(b) \in Nat \ {0} /\ Len(left) = 1 /\ Len(right) = 1 /\ Len(lb) = 1 + Len(b)
        /\ Len(z) = Len(b) + 2
    BY <1>1 DEF Balanced, Text
  <1>3. /\ z[1] = "(" /\ z[Len(b) + 2] = ")"
        /\ \A i \in 1..Len(b) : z[1 + i] = b[i]
    BY <1>1, <1>2 DEF Text
  <1>4. Depth(left, 0) = 0 /\ Depth(left, 1) = 1 /\ Depth(right, 1) = 0 - 1
    <2>1. \A q : Depth(q, 0) = 0 /\ Depth(q, 0 + 1) = Depth(q, 0) + Opened(q[0 + 1])
      BY DepthIs
    <2>2. left[1] = "(" /\ right[1] = ")" /\ 0 + 1 = 1
      OBVIOUS
    <2> QED BY <2>1, <2>2 DEF Opened
  <1> HIDE DEF left, right
  <1>5. \A i \in 0..Len(b) : Depth(b, i) \in Int /\ Depth(b, i) >= 0
    BY DEF Balanced
  <1>6. Depth(b, Len(b)) = 0
    BY DEF Balanced
  <1>7. /\ \A i \in 0..1 : Depth(lb, i) = Depth(left, i)
        /\ \A i \in 0..Len(b) : Depth(lb, 1 + i) = 1 + Depth(b, i)
    <2>1. \A i \in 0..Len(left) : Depth(left \o b, i) = Depth(left, i)
      BY <1>1, DepthJoin
    <2>2. \A i \in 0..Len(b) : Depth(left \o b, Len(left) + i) = Depth(left, Len(left)) + Depth(b, i)
      BY <1>1, DepthJoin
    <2> QED BY <1>2, <1>4, <2>1, <2>2
  <1> HIDE DEF lb
  <1>8. /\ \A i \in 0..Len(b) + 1 : Depth(z, i) = Depth(lb, i)
        /\ Depth(z, Len(b) + 2) = 0
    <2>1. \A i \in 0..Len(lb) : Depth(lb \o right, i) = Depth(lb, i)
      BY <1>1, DepthJoin
    <2>2. \A i \in 0..Len(right) : Depth(lb \o right, Len(lb) + i) = Depth(lb, Len(lb)) + Depth(right, i)
      BY <1>1, DepthJoin
    <2>3. Depth(lb, Len(lb)) = 1
      BY <1>2, <1>6, <1>7
    <2>4. 1 \in 0..Len(right) /\ Len(lb) + 1 = Len(b) + 2
      BY <1>2
    <2>5. Depth(lb \o right, Len(b) + 2) = 0
      BY <1>4, <2>2, <2>3, <2>4
    <2> QED BY <1>2, <2>1, <2>5
  <1> HIDE DEF z
  <1>9. /\ Depth(z, 0) = 0
        /\ \A i \in 0..Len(b) : Depth(z, 1 + i) = 1 + Depth(b, i)
    BY <1>2, <1>4, <1>7, <1>8
  <1>10. ASSUME NEW i \in 1..Len(b) + 1 PROVE Depth(z, i) >= 1 /\ Depth(z, i) \in Int
    <2>1. i - 1 \in 0..Len(b) /\ i = 1 + (i - 1)
      BY <1>2
    <2>2. PICK k \in 0..Len(b) : i = 1 + k
      BY <2>1
    <2>3. Depth(b, k) \in Int /\ Depth(b, k) >= 0
      BY <1>5
    <2>4. Depth(z, i) = 1 + Depth(b, k)
      BY <1>9, <2>2
    <2> QED BY <2>3, <2>4
  <1>11. Balanced(z)
    <2>1. \A i \in 0..Len(z) : i = 0 \/ i \in 1..Len(b) + 1 \/ i = Len(b) + 2
      BY <1>2
    <2>2. \A i \in 0..Len(z) : Depth(z, i) >= 0 /\ Depth(z, i) \in Int
      BY <1>8, <1>9, <1>10, <2>1
    <2>3. z # <<>>
      BY <1>2
    <2> QED BY <1>1, <1>2, <1>8, <2>2, <2>3 DEF Balanced
  <1>12. ASSUME NEW token, token # ")" PROVE Closed(z, token)
    <2>1. \A i \in 1..Len(z) : i \in 1..Len(b) + 1 \/ i = Len(b) + 2
      BY <1>2
    <2> QED BY <1>3, <1>10, <1>12, <2>1 DEF Closed
  <1>13. Closed(z, "||") /\ Closed(z, "&&")
    BY <1>12
  <1>14. SubSeq(z, 2, Len(z) - 1) = b
    <2>1. PICK m \in Nat \ {0} : m = 2
      OBVIOUS
    <2>2. PICK n \in Nat : n = Len(z) - 1
      BY <1>2
    <2>3. n <= Len(z) /\ n + 1 = m + Len(b) /\ m - 1 = 1
      BY <1>2, <2>1, <2>2
    <2>4. \A i \in 1..Len(b) : z[(m - 1) + i] = b[i]
      BY <1>3, <2>3
    <2>5. SubSeq(z, m, n) = b
      BY <1>1, <2>3, <2>4, PieceIs
    <2> QED BY <2>1, <2>2, <2>5
  <1>15. Parse[z] = Parse[b]
    <2>1. LastAtTop(z, "||") = {} /\ LastAtTop(z, "&&") = {}
      BY <1>1, <1>13, NoneLast
    <2>2. Parse[z] = ParseFrom(0, z, Parse)
      BY <1>1, ParseIs
    <2>3. z # <<>>
      BY <1>2
    <2> QED BY <1>3, <1>14, <2>1, <2>2, <2>3 DEF ParseFrom
  <1> QED BY <1>11, <1>13, <1>15 DEF Shut, z, lb, left, right

\* A negation.
LEMMA NotParse ==
  ASSUME NEW b, Balanced(b), Shut(b)
  PROVE  LET z == <<"!">> \o b
         IN  Balanced(z) /\ Shut(z) /\ Parse[z] = Not(Parse[b])
  <1> DEFINE left == <<"!">>
             z == left \o b
  <1>1. b \in Text /\ left \in Text /\ z \in Text
    BY OperatorsAre DEF Balanced, Text
  <1>2. Len(b) \in Nat \ {0} /\ Len(left) = 1 /\ Len(z) = 1 + Len(b)
    BY <1>1 DEF Balanced, Text
  <1>3. z[1] = "!" /\ \A i \in 1..Len(b) : z[1 + i] = b[i]
    BY <1>1, <1>2 DEF Text
  <1>4. Depth(left, 0) = 0 /\ Depth(left, 1) = 0
    <2>1. Depth(left, 0) = 0 /\ Depth(left, 0 + 1) = Depth(left, 0) + Opened(left[0 + 1])
      BY DepthIs
    <2>2. left[1] = "!" /\ 0 + 1 = 1
      OBVIOUS
    <2> QED BY <2>1, <2>2 DEF Opened
  <1>16. Tail(z) = b
    BY <1>1 DEF Text
  <1> HIDE DEF left
  <1>5. \A i \in 0..Len(b) : Depth(b, i) \in Int /\ Depth(b, i) >= 0
    BY DEF Balanced
  <1>6. Depth(b, Len(b)) = 0
    BY DEF Balanced
  <1>7. /\ \A i \in 0..1 : Depth(z, i) = 0
        /\ \A i \in 0..Len(b) : Depth(z, 1 + i) = Depth(b, i)
    <2>1. \A i \in 0..Len(left) : Depth(left \o b, i) = Depth(left, i)
      BY <1>1, DepthJoin
    <2>2. \A i \in 0..Len(b) : Depth(left \o b, Len(left) + i) = Depth(left, Len(left)) + Depth(b, i)
      BY <1>1, DepthJoin
    <2>3. \A i \in 0..1 : i = 0 \/ i = 1
      OBVIOUS
    <2> QED BY <1>2, <1>4, <1>5, <2>1, <2>2, <2>3
  <1> HIDE DEF z
  <1>8. ASSUME NEW i \in 1..Len(z)
        PROVE  \E k \in 0..Len(b) : i = 1 + k /\ (k = 0 \/ k \in 1..Len(b))
    <2>1. i - 1 \in 0..Len(b) /\ i = 1 + (i - 1) /\ (i - 1 = 0 \/ i - 1 \in 1..Len(b))
      BY <1>2
    <2> QED BY <2>1
  <1>9. Balanced(z)
    <2>1. ASSUME NEW i \in 0..Len(z) PROVE Depth(z, i) >= 0 /\ Depth(z, i) \in Int
      <3>1. CASE i = 0
        BY <1>7, <3>1
      <3>2. CASE i # 0
        <4>1. i \in 1..Len(z)
          BY <1>2, <3>2
        <4>2. PICK k \in 0..Len(b) : i = 1 + k
          BY <1>8, <4>1
        <4>3. Depth(z, i) = Depth(b, k)
          BY <1>7, <4>2
        <4> QED BY <1>5, <4>3
      <3> QED BY <3>1, <3>2
    <2>2. z # <<>>
      BY <1>2
    <2>3. Depth(z, Len(z)) = 0
      <3>1. Len(b) \in 0..Len(b)
        BY <1>2
      <3> QED BY <1>2, <1>6, <1>7, <3>1
    <2> QED BY <1>1, <2>1, <2>2, <2>3 DEF Balanced
  <1>10. ASSUME NEW token, token # "!", Closed(b, token) PROVE Closed(z, token)
    <2> SUFFICES ASSUME NEW i \in 1..Len(z), z[i] = token PROVE Depth(z, i) # 0
      BY DEF Closed
    <2>1. PICK k \in 0..Len(b) : i = 1 + k /\ (k = 0 \/ k \in 1..Len(b))
      BY <1>8
    <2>2. k # 0
      BY <1>3, <1>10, <2>1
    <2>3. k \in 1..Len(b)
      BY <2>1, <2>2
    <2>4. b[k] = token
      BY <1>3, <2>1, <2>3
    <2>5. Depth(z, i) = Depth(b, k)
      BY <1>7, <2>1
    <2> QED BY <1>10, <2>3, <2>4, <2>5 DEF Closed
  <1>11. Closed(z, "||") /\ Closed(z, "&&")
    BY <1>10 DEF Shut
  <1>12. Parse[z] = Not(Parse[b])
    <2>1. LastAtTop(z, "||") = {} /\ LastAtTop(z, "&&") = {}
      BY <1>1, <1>11, NoneLast
    <2>2. Parse[z] = ParseFrom(0, z, Parse)
      BY <1>1, ParseIs
    <2>3. z # <<>>
      BY <1>2
    <2> QED BY <1>3, <1>16, <2>1, <2>2, <2>3 DEF ParseFrom
  <1> QED BY <1>9, <1>11, <1>12 DEF Shut, z, left

\* A text without parentheses.
LEMMA FlatIs ==
  ASSUME NEW q \in Text, q # <<>>, \A i \in 1..Len(q) : q[i] \notin {"(", ")"}
  PROVE  Balanced(q)
  <1> DEFINE T == {i \in Nat : i <= Len(q) => Depth(q, i) = 0}
  <1>1. Len(q) \in Nat
    BY DEF Text
  <1>2. 0 \in T
    BY DepthIs
  <1>3. ASSUME NEW i \in Nat, i \in T PROVE i + 1 \in T
    <2> SUFFICES ASSUME i + 1 <= Len(q) PROVE Depth(q, i + 1) = 0
      OBVIOUS
    <2>1. i <= Len(q) /\ i + 1 \in 1..Len(q)
      BY <1>1
    <2>2. Opened(q[i + 1]) = 0
      BY <2>1 DEF Opened
    <2>3. Depth(q, i + 1) = Depth(q, i) + Opened(q[i + 1])
      BY DepthIs
    <2> QED BY <1>3, <2>1, <2>2, <2>3
  <1> HIDE DEF T
  <1>4. \A i \in Nat : i \in T
    BY <1>2, <1>3, Trees!SetInduction
  <1>5. \A i \in 0..Len(q) : Depth(q, i) = 0
    BY <1>1, <1>4 DEF T
  <1>6. Len(q) \in 0..Len(q)
    BY <1>1
  <1> QED BY <1>5, <1>6 DEF Balanced

\* A leaf; that there is no condition is written as y.
Read(e) == IF e = NoExpr THEN Sym("y") ELSE e
\* A symbol or a comparison reads back as itself.
LEMMA LeafParse ==
  ASSUME NEW e, Atom(e)
  PROVE  /\ Balanced(PrintLeaf(e)) /\ Shut(PrintLeaf(e)) /\ Parse[PrintLeaf(e)] = Read(e)
         /\ Read(e) \in Expr /\ \A w : IsWorld(w) => Value(Read(e), w) = Value(e, w)
  <1>1. "y" \in DOMAIN SymType
    BY SymbolsAssumption DEF Constant
  <1>2. ASSUME NEW s \in DOMAIN SymType
        PROVE  Balanced(<<s>>) /\ Shut(<<s>>) /\ Parse[<<s>>] = Sym(s)
    <2> DEFINE q == <<s>>
    <2>1. q \in Text /\ q # <<>> /\ Len(q) = 1 /\ q[1] = s /\ \A i \in 1..Len(q) : q[i] = s
      BY DEF Text
    <2>2. s \notin {"(", ")", "!", "||", "&&"}
      BY OperatorsAre
    <2> HIDE DEF q
    <2>3. Balanced(q)
      BY <2>1, <2>2, FlatIs
    <2>4. Closed(q, "||") /\ Closed(q, "&&")
      BY <2>1, <2>2 DEF Closed
    <2>5. LastAtTop(q, "||") = {} /\ LastAtTop(q, "&&") = {}
      BY <2>1, <2>4, NoneLast
    <2>6. Parse[q] = ParseFrom(0, q, Parse)
      BY <2>1, ParseIs
    <2>7. Parse[q] = Sym(s)
      BY <2>1, <2>2, <2>5, <2>6 DEF ParseFrom
    <2> QED BY <2>3, <2>4, <2>7 DEF Shut, q
  <1>3. ASSUME NEW t \in Comparisons, NEW a \in DOMAIN SymType, NEW b \in DOMAIN SymType
        PROVE  Balanced(<<a, Infix[t], b>>) /\ Shut(<<a, Infix[t], b>>) /\ Parse[<<a, Infix[t], b>>] = Comp(t, a, b)
    <2> DEFINE q == <<a, Infix[t], b>>
    <2>1. /\ q \in Text /\ q # <<>> /\ Len(q) = 3 /\ q[1] = a /\ q[2] = Infix[t] /\ q[3] = b
          /\ \A i \in 1..Len(q) : q[i] \in {a, Infix[t], b}
      <3>1. Infix[t] \in Operators
        BY OperatorsAre
      <3> HIDE DEF Infix
      <3> QED BY <3>1 DEF Text
    <2>2. {a, Infix[t], b} \intersect {"(", ")", "!", "||", "&&"} = {}
      BY OperatorsAre
    <2> HIDE DEF q
    <2>3. Balanced(q)
      BY <2>1, <2>2, FlatIs
    <2>4. Closed(q, "||") /\ Closed(q, "&&")
      BY <2>1, <2>2 DEF Closed
    <2>5. LastAtTop(q, "||") = {} /\ LastAtTop(q, "&&") = {}
      BY <2>1, <2>4, NoneLast
    <2>6. Parse[q] = ParseFrom(0, q, Parse)
      BY <2>1, ParseIs
    <2>7. (CHOOSE u \in Comparisons : Infix[u] = q[2]) = t
      BY <2>1, OperatorsAre
    <2>8. Parse[q] = Comp(t, a, b)
      <3>1. q # <<>> /\ q[1] # "!" /\ q[1] # "(" /\ Len(q) # 1
        <4>1. q # <<>> /\ Len(q) = 3 /\ q[1] = a
          BY <2>1
        <4>2. a # "!" /\ a # "("
          BY <2>2
        <4>3. Len(q) # 1
          BY <4>1
        <4> QED BY <4>1, <4>2, <4>3, Zenon
      <3>2. ParseFrom(0, q, Parse) = Comp(CHOOSE u \in Comparisons : Infix[u] = q[2], q[1], q[3])
        BY <2>5, <3>1 DEF ParseFrom
      <3>3. q[1] = a /\ q[3] = b
        BY <2>1
      <3> QED BY <2>6, <2>7, <3>2, <3>3, Zenon
    <2> QED BY <2>3, <2>4, <2>8 DEF Shut, q
  <1>4. CASE e = NoExpr
    <2>1. PrintLeaf(e) = <<"y">> /\ Read(e) = Sym("y")
      BY <1>4 DEF PrintLeaf, NoExpr, Read
    <2>2. \A w : IsWorld(w) => Value(Sym("y"), w) = 2 /\ Value(NoExpr, w) = 2
      BY ConstantValue, AtomValue DEF NoExpr
    <2> QED BY <1>1, <1>2, <1>4, <2>1, <2>2, ExprMake
  <1>5. CASE e.s \in DOMAIN SymType /\ e = Sym(e.s)
    <2>1. PrintLeaf(e) = <<e.s>> /\ Read(e) = e
      BY <1>5 DEF PrintLeaf, NoExpr, Sym, Read
    <2> QED BY <1>2, <1>5, <2>1, ExprMake
  <1>6. CASE e.t \in Comparisons /\ e.a \in DOMAIN SymType /\ e.b \in DOMAIN SymType /\ e = Comp(e.t, e.a, e.b)
    <2>1. e.t \notin {"NULL", "SYM"}
      BY <1>6 DEF Comparisons
    <2>2. PrintLeaf(e) = <<e.a, Infix[e.t], e.b>> /\ Read(e) = e
      BY <2>1 DEF PrintLeaf, NoExpr, Read
    <2> QED BY <1>3, <1>6, <2>2, ExprMake
  <1> QED BY <1>4, <1>5, <1>6, AtomSplit

-----------------------------------------------------------------------------
\* A text that reads as what has the value of e.
Means(q, e) == Parse[q] \in Expr /\ \A w : IsWorld(w) => Value(Parse[q], w) = Value(e, w)
Printing == {"NULL", "NOT", "AND", "OR"}

\* What is true of the printed form of an expression, without parentheses
\* around it, and with them where they are needed.
BodyFacts(e) ==
  /\ Balanced(PrintBody(e)) /\ Means(PrintBody(e), e)
  /\ e.t = "AND" => Closed(PrintBody(e), "||")
  /\ e.t \notin Binary => Shut(PrintBody(e))
OwnFacts(e) ==
  /\ \A prev \in Printing : Balanced(expr_print(e, prev)) /\ Means(expr_print(e, prev), e)
  /\ Shut(expr_print(e, "NOT"))
  /\ Closed(expr_print(e, "AND"), "||")
  /\ e.t # "AND" => Closed(expr_print(e, "AND"), "&&")
  /\ e.t # "OR" => Closed(expr_print(e, "OR"), "||")

\* When a child gets parentheses.
LEMMA TighterIs ==
  ASSUME NEW t
  PROVE  /\ ~Tighter("NULL", t) /\ ~Tighter("OR", t)
         /\ Tighter("AND", t) <=> t = "OR"
         /\ Tighter("NOT", t) <=> t \in {"AND", "OR"}
  <1>1. DOMAIN Level = {"LT", "LE", "GT", "GE", "EQ", "NE", "NOT", "AND", "OR"}
    BY DEF Level
  <1>2. /\ Level["LT"] = 5 /\ Level["LE"] = 5 /\ Level["GT"] = 5 /\ Level["GE"] = 5 /\ Level["EQ"] = 4
        /\ Level["NE"] = 4 /\ Level["NOT"] = 3 /\ Level["AND"] = 2 /\ Level["OR"] = 1
    BY DEF Level
  <1> QED BY <1>1, <1>2 DEF Tighter

\* With its parentheses or without, a node reads back.
LEMMA Encloses ==
  ASSUME NEW e \in Expr, BodyFacts(e)
  PROVE  OwnFacts(e)
  <1> DEFINE body == PrintBody(e)
             z == <<"(">> \o body \o <<")">>
  <1>1. \A prev : expr_print(e, prev) = IF Tighter(prev, e.t) THEN z ELSE body
    BY DEF expr_print, Enclosed
  <1>2. Balanced(body) /\ Means(body, e) /\ (e.t = "AND" => Closed(body, "||")) /\ (e.t \notin Binary => Shut(body))
    BY DEF BodyFacts
  <1> HIDE DEF body
  <1>3. Balanced(z) /\ Shut(z) /\ Parse[z] = Parse[body]
    BY <1>2, ParenParse
  <1> HIDE DEF z
  <1>4. Means(z, e)
    BY <1>2, <1>3 DEF Means
  <1>5. \A prev \in Printing : Balanced(expr_print(e, prev)) /\ Means(expr_print(e, prev), e)
    BY <1>1, <1>2, <1>3, <1>4
  <1>6. Shut(expr_print(e, "NOT"))
    BY <1>1, <1>2, <1>3, TighterIs DEF Binary
  <1>7. Closed(expr_print(e, "AND"), "||") /\ (e.t # "AND" => Closed(expr_print(e, "AND"), "&&"))
    BY <1>1, <1>2, <1>3, TighterIs DEF Binary, Shut
  <1>8. e.t # "OR" => Closed(expr_print(e, "OR"), "||")
    BY <1>1, <1>2, TighterIs DEF Binary, Shut
  <1> QED BY <1>5, <1>6, <1>7, <1>8 DEF OwnFacts

\* And after another operand.
AfterOr(e) ==
  \A x : Balanced(x) /\ Parse[x] \in Expr =>
    LET z == Joint(x, "||", expr_print(e, "OR"))
    IN  Parse[z] \in Expr /\ \A w : IsWorld(w) => Value(Parse[z], w) = EXPR_OR(Value(Parse[x], w), Value(e, w))
AfterAnd(e) ==
  \A x : Balanced(x) /\ Closed(x, "||") /\ Parse[x] \in Expr =>
    LET z == Joint(x, "&&", expr_print(e, "AND"))
    IN  Parse[z] \in Expr /\ \A w : IsWorld(w) => Value(Parse[z], w) = EXPR_AND(Value(Parse[x], w), Value(e, w))
PrintFacts(e) == BodyFacts(e) /\ OwnFacts(e) /\ AfterOr(e) /\ AfterAnd(e)

\* After an operand, what is not of the same kind is an operand of its own.
LEMMA AfterOther ==
  ASSUME NEW e \in Expr, OwnFacts(e)
  PROVE  /\ e.t # "OR" => AfterOr(e)
         /\ e.t # "AND" => AfterAnd(e)
  <1>1. ASSUME e.t # "OR" PROVE AfterOr(e)
    <2> DEFINE y == expr_print(e, "OR")
    <2>1. Balanced(y) /\ Closed(y, "||") /\ Parse[y] \in Expr /\ \A w : IsWorld(w) => Value(Parse[y], w) = Value(e, w)
      BY <1>1 DEF OwnFacts, Means, Printing
    <2> SUFFICES ASSUME NEW x, Balanced(x), Parse[x] \in Expr
                 PROVE  /\ Parse[Joint(x, "||", y)] \in Expr
                        /\ \A w : IsWorld(w) => Value(Parse[Joint(x, "||", y)], w) = EXPR_OR(Value(Parse[x], w), Value(e, w))
      BY DEF AfterOr
    <2> HIDE DEF y
    <2>2. Parse[Joint(x, "||", y)] = Two("OR", Parse[x], Parse[y])
      BY <2>1, JointParse
    <2>3. \A w : Value(Two("OR", Parse[x], Parse[y]), w) = EXPR_OR(Value(Parse[x], w), Value(Parse[y], w))
      BY <2>1, MakeValue DEF Op, Binary
    <2>4. Two("OR", Parse[x], Parse[y]) \in Expr
      BY <2>1, ExprMake DEF Binary
    <2> QED BY <2>1, <2>2, <2>3, <2>4
  <1>2. ASSUME e.t # "AND" PROVE AfterAnd(e)
    <2> DEFINE y == expr_print(e, "AND")
    <2>1. /\ Balanced(y) /\ Closed(y, "||") /\ Closed(y, "&&")
          /\ Parse[y] \in Expr /\ \A w : IsWorld(w) => Value(Parse[y], w) = Value(e, w)
      BY <1>2 DEF OwnFacts, Means, Printing
    <2> SUFFICES ASSUME NEW x, Balanced(x), Closed(x, "||"), Parse[x] \in Expr
                 PROVE  /\ Parse[Joint(x, "&&", y)] \in Expr
                        /\ \A w : IsWorld(w) => Value(Parse[Joint(x, "&&", y)], w) = EXPR_AND(Value(Parse[x], w), Value(e, w))
      BY DEF AfterAnd
    <2> HIDE DEF y
    <2>2. Parse[Joint(x, "&&", y)] = Two("AND", Parse[x], Parse[y])
      BY <2>1, JointParse
    <2>3. \A w : Value(Two("AND", Parse[x], Parse[y]), w) = EXPR_AND(Value(Parse[x], w), Value(Parse[y], w))
      BY <2>1, MakeValue DEF Op, Binary
    <2>4. Two("AND", Parse[x], Parse[y]) \in Expr
      BY <2>1, ExprMake DEF Binary
    <2> QED BY <2>1, <2>2, <2>3, <2>4
  <1> QED BY <1>1, <1>2

\* The operators associate.
LEMMA JointAssociates ==
  ASSUME NEW x, Balanced(x), NEW y, Balanced(y), NEW z, Balanced(z), NEW token \in Operators
  PROVE  Joint(x, token, Joint(y, token, z)) = Joint(Joint(x, token, y), token, z)
  <1> DEFINE S == Operators \union DOMAIN SymType
             o == <<token>>
  <1>1. x \in Seq(S) /\ y \in Seq(S) /\ z \in Seq(S) /\ o \in Seq(S)
    BY DEF Balanced, Text
  <1> HIDE DEF S, o
  <1>2. \A p, q, s \in Seq(S) : (p \o q) \o s = p \o (q \o s) /\ p \o q \in Seq(S)
    BY ConcatAssociative, ConcatProperties
  <1>3. (x \o o) \o ((y \o o) \o z) = (((x \o o) \o y) \o o) \o z
    BY <1>1, <1>2
  <1> QED BY <1>3 DEF Joint, o

\* The four kinds of nodes.
LEMMA PrintAtom ==
  ASSUME NEW e \in Expr, Atom(e), e.t \notin Binary \union {"NOT"}
  PROVE  BodyFacts(e)
  <1>1. PrintBody(e) = PrintLeaf(e)
    BY PrintIs
  <1>2. Balanced(PrintLeaf(e)) /\ Shut(PrintLeaf(e)) /\ Means(PrintLeaf(e), e)
    BY LeafParse DEF Means
  <1> QED BY <1>1, <1>2 DEF BodyFacts, Binary

\* The operand of a ! is a symbol or a comparison, another !, or enclosed.
LEMMA PrintNot ==
  ASSUME NEW e \in Expr, IsNot(e), e.l \in Expr, OwnFacts(e.l)
  PROVE  BodyFacts(e)
  <1> DEFINE b == expr_print(e.l, "NOT")
  <1>1. e.t = "NOT" /\ PrintBody(e) = <<"!">> \o b
    BY PrintIs DEF IsNot
  <1>2. /\ Balanced(b) /\ Shut(b) /\ Parse[b] \in Expr
        /\ \A w : IsWorld(w) => Value(Parse[b], w) = Value(e.l, w)
    BY DEF OwnFacts, Means, Printing
  <1> HIDE DEF b
  <1>3. Balanced(PrintBody(e)) /\ Shut(PrintBody(e)) /\ Parse[PrintBody(e)] = Not(Parse[b])
    BY <1>1, <1>2, NotParse
  <1>4. \A w : Value(Not(Parse[b]), w) = 2 - Value(Parse[b], w)
    BY <1>2, MakeValue
  <1>5. \A w : Value(e, w) = 2 - Value(e.l, w)
    BY <1>1, ValueIs DEF EXPR_NOT
  <1>6. Not(Parse[b]) \in Expr
    BY <1>2, ExprMake
  <1> QED BY <1>1, <1>2, <1>3, <1>4, <1>5, <1>6 DEF BodyFacts, Means, Binary

\* Of a node below another ||, the left operand joins what comes before.
LEMMA PrintOr ==
  ASSUME NEW e \in Expr, IsTwo(e), e.t = "OR", e.l \in Expr, e.r \in Expr, PrintFacts(e.l), PrintFacts(e.r)
  PROVE  BodyFacts(e) /\ AfterOr(e)
  <1> DEFINE L == expr_print(e.l, "OR")
             R == expr_print(e.r, "OR")
  <1>0. "||" \in Operators \ {"(", ")"}
    BY OperatorsAre
  <1>1. PrintBody(e) = Joint(L, "||", R)
    <2>1. Infix["OR"] = "||" /\ e.t \in Binary
      BY DEF Infix, Binary
    <2> QED BY <2>1, PrintIs DEF Joint
  <1>2. /\ Balanced(L) /\ Balanced(R) /\ Parse[L] \in Expr
        /\ \A w : IsWorld(w) => Value(Parse[L], w) = Value(e.l, w)
    BY DEF PrintFacts, OwnFacts, Means, Printing
  <1>3. \A w : Value(e, w) = EXPR_OR(Value(e.l, w), Value(e.r, w))
    BY ValueIs DEF Binary
  <1>4. \A x : Balanced(x) /\ Parse[x] \in Expr =>
          /\ Parse[Joint(x, "||", L)] \in Expr
          /\ \A w : IsWorld(w) => Value(Parse[Joint(x, "||", L)], w) = EXPR_OR(Value(Parse[x], w), Value(e.l, w))
    BY DEF PrintFacts, AfterOr
  <1>5. \A x : Balanced(x) /\ Parse[x] \in Expr =>
          /\ Parse[Joint(x, "||", R)] \in Expr
          /\ \A w : IsWorld(w) => Value(Parse[Joint(x, "||", R)], w) = EXPR_OR(Value(Parse[x], w), Value(e.r, w))
    BY DEF PrintFacts, AfterOr
  <1>6. expr_print(e, "OR") = PrintBody(e)
    BY TighterIs DEF expr_print, Enclosed
  <1> HIDE DEF L, R
  <1>7. BodyFacts(e)
    <2>1. Balanced(PrintBody(e))
      BY <1>0, <1>1, <1>2, JointIs DEF JointFacts
    <2>2. Means(PrintBody(e), e)
      BY <1>1, <1>2, <1>3, <1>5 DEF Means
    <2> QED BY <2>1, <2>2 DEF BodyFacts, Binary
  <1>8. ASSUME NEW x, Balanced(x), Parse[x] \in Expr
        PROVE  /\ Parse[Joint(x, "||", Joint(L, "||", R))] \in Expr
               /\ \A w : IsWorld(w) => Value(Parse[Joint(x, "||", Joint(L, "||", R))], w) = EXPR_OR(Value(Parse[x], w), Value(e, w))
    <2> DEFINE xL == Joint(x, "||", L)
    <2>1. Joint(x, "||", Joint(L, "||", R)) = Joint(xL, "||", R)
      BY <1>0, <1>2, <1>8, JointAssociates
    <2>2. Balanced(xL)
      BY <1>0, <1>2, <1>8, JointIs DEF JointFacts
    <2>3. Parse[xL] \in Expr /\ \A w : IsWorld(w) => Value(Parse[xL], w) = EXPR_OR(Value(Parse[x], w), Value(e.l, w))
      BY <1>4, <1>8
    <2> HIDE DEF xL
    <2>4. /\ Parse[Joint(xL, "||", R)] \in Expr
          /\ \A w : IsWorld(w) => Value(Parse[Joint(xL, "||", R)], w) = EXPR_OR(Value(Parse[xL], w), Value(e.r, w))
      BY <1>5, <2>2, <2>3
    <2>5. ASSUME NEW w, IsWorld(w)
          PROVE  EXPR_OR(Value(Parse[xL], w), Value(e.r, w)) = EXPR_OR(Value(Parse[x], w), Value(e, w))
      <3>1. Value(Parse[x], w) \in {0, 1, 2} /\ Value(e.l, w) \in {0, 1, 2} /\ Value(e.r, w) \in {0, 1, 2}
        BY <1>8, <2>5, ValueType
      <3> QED BY <1>3, <2>3, <2>5, <3>1 DEF EXPR_OR
    <2> QED BY <2>1, <2>4, <2>5
  <1> QED BY <1>1, <1>6, <1>7, <1>8 DEF AfterOr

\* So it does of && below another &&.
LEMMA PrintAnd ==
  ASSUME NEW e \in Expr, IsTwo(e), e.t = "AND", e.l \in Expr, e.r \in Expr, PrintFacts(e.l), PrintFacts(e.r)
  PROVE  BodyFacts(e) /\ AfterAnd(e)
  <1> DEFINE L == expr_print(e.l, "AND")
             R == expr_print(e.r, "AND")
  <1>0. "&&" \in Operators \ {"(", ")"}
    BY OperatorsAre
  <1>1. PrintBody(e) = Joint(L, "&&", R)
    <2>1. Infix["AND"] = "&&" /\ e.t \in Binary
      BY DEF Infix, Binary
    <2> QED BY <2>1, PrintIs DEF Joint
  <1>2. /\ Balanced(L) /\ Balanced(R) /\ Closed(L, "||") /\ Closed(R, "||") /\ Parse[L] \in Expr
        /\ \A w : IsWorld(w) => Value(Parse[L], w) = Value(e.l, w)
    BY DEF PrintFacts, OwnFacts, Means, Printing
  <1>3. \A w : Value(e, w) = EXPR_AND(Value(e.l, w), Value(e.r, w))
    BY ValueIs DEF Binary
  <1>4. \A x : Balanced(x) /\ Closed(x, "||") /\ Parse[x] \in Expr =>
          /\ Parse[Joint(x, "&&", L)] \in Expr
          /\ \A w : IsWorld(w) => Value(Parse[Joint(x, "&&", L)], w) = EXPR_AND(Value(Parse[x], w), Value(e.l, w))
    BY DEF PrintFacts, AfterAnd
  <1>5. \A x : Balanced(x) /\ Closed(x, "||") /\ Parse[x] \in Expr =>
          /\ Parse[Joint(x, "&&", R)] \in Expr
          /\ \A w : IsWorld(w) => Value(Parse[Joint(x, "&&", R)], w) = EXPR_AND(Value(Parse[x], w), Value(e.r, w))
    BY DEF PrintFacts, AfterAnd
  <1>6. expr_print(e, "AND") = PrintBody(e)
    BY TighterIs DEF expr_print, Enclosed
  <1> HIDE DEF L, R
  <1>7. BodyFacts(e)
    <2>1. Balanced(PrintBody(e))
      BY <1>0, <1>1, <1>2, JointIs DEF JointFacts
    <2>2. Means(PrintBody(e), e)
      BY <1>1, <1>2, <1>3, <1>5 DEF Means
    <2>3. Closed(PrintBody(e), "||")
      BY <1>0, <1>1, <1>2, JointClosed
    <2> QED BY <2>1, <2>2, <2>3 DEF BodyFacts, Binary
  <1>8. ASSUME NEW x, Balanced(x), Closed(x, "||"), Parse[x] \in Expr
        PROVE  /\ Parse[Joint(x, "&&", Joint(L, "&&", R))] \in Expr
               /\ \A w : IsWorld(w) => Value(Parse[Joint(x, "&&", Joint(L, "&&", R))], w) = EXPR_AND(Value(Parse[x], w), Value(e, w))
    <2> DEFINE xL == Joint(x, "&&", L)
    <2>1. Joint(x, "&&", Joint(L, "&&", R)) = Joint(xL, "&&", R)
      BY <1>0, <1>2, <1>8, JointAssociates
    <2>2. Balanced(xL)
      BY <1>0, <1>2, <1>8, JointIs DEF JointFacts
    <2>3. Parse[xL] \in Expr /\ \A w : IsWorld(w) => Value(Parse[xL], w) = EXPR_AND(Value(Parse[x], w), Value(e.l, w))
      BY <1>4, <1>8
    <2>6. Closed(xL, "||")
      BY <1>0, <1>2, <1>8, JointClosed
    <2> HIDE DEF xL
    <2>4. /\ Parse[Joint(xL, "&&", R)] \in Expr
          /\ \A w : IsWorld(w) => Value(Parse[Joint(xL, "&&", R)], w) = EXPR_AND(Value(Parse[xL], w), Value(e.r, w))
      BY <1>5, <2>2, <2>3, <2>6
    <2>5. ASSUME NEW w, IsWorld(w)
          PROVE  EXPR_AND(Value(Parse[xL], w), Value(e.r, w)) = EXPR_AND(Value(Parse[x], w), Value(e, w))
      <3>1. Value(Parse[x], w) \in {0, 1, 2} /\ Value(e.l, w) \in {0, 1, 2} /\ Value(e.r, w) \in {0, 1, 2}
        BY <1>8, <2>5, ValueType
      <3> QED BY <1>3, <2>3, <2>5, <3>1 DEF EXPR_AND
    <2> QED BY <2>1, <2>4, <2>5
  <1> QED BY <1>1, <1>6, <1>7, <1>8 DEF AfterAnd

\* Every expression.
LEMMA PrintHolds ==
  \A e \in Expr : PrintFacts(e)
  <1> DEFINE G == {e \in Expr : PrintFacts(e)}
  <1>1. ASSUME NEW e \in Expr, Atom(e), e.t \notin Binary \union {"NOT"} PROVE e \in G
    <2>1. OwnFacts(e) /\ BodyFacts(e) /\ e.t \notin {"OR", "AND"}
      BY <1>1, PrintAtom, Encloses DEF Binary
    <2> QED BY <2>1, AfterOther DEF PrintFacts
  <1>2. ASSUME NEW e \in Expr, IsNot(e), e.l \in Expr, e.l \in G PROVE e \in G
    <2>1. OwnFacts(e.l)
      BY <1>2 DEF PrintFacts
    <2>2. OwnFacts(e) /\ BodyFacts(e) /\ e.t \notin {"OR", "AND"}
      BY <1>2, <2>1, PrintNot, Encloses DEF IsNot
    <2> QED BY <2>2, AfterOther DEF PrintFacts
  <1>3. ASSUME NEW e \in Expr, IsTwo(e), e.l \in Expr, e.r \in Expr, e.l \in G, e.r \in G PROVE e \in G
    <2>1. PrintFacts(e.l) /\ PrintFacts(e.r) /\ e.t \in {"AND", "OR"}
      BY <1>3 DEF IsTwo, Binary
    <2>2. CASE e.t = "OR"
      <3>1. BodyFacts(e) /\ AfterOr(e)
        BY <1>3, <2>1, <2>2, PrintOr
      <3>2. OwnFacts(e)
        BY <3>1, Encloses
      <3>3. AfterAnd(e)
        BY <2>2, <3>2, AfterOther
      <3> QED BY <3>1, <3>2, <3>3 DEF PrintFacts
    <2>3. CASE e.t = "AND"
      <3>1. BodyFacts(e) /\ AfterAnd(e)
        BY <1>3, <2>1, <2>3, PrintAnd
      <3>2. OwnFacts(e)
        BY <3>1, Encloses
      <3>3. AfterOr(e)
        BY <2>3, <3>2, AfterOther
      <3> QED BY <3>1, <3>2, <3>3 DEF PrintFacts
    <2> QED BY <2>1, <2>2, <2>3
  <1> HIDE DEF G
  <1>4. \A e \in Expr : e \in G
    BY <1>1, <1>2, <1>3, ExprInduction
  <1> QED BY <1>4 DEF G

\* The lists have a member for the value of the whole, and none for a higher one.
ListFacts(e, w) ==
  /\ Value(e, w) = 2 <=> expr_print_revdep(e, w, 2) # <<>>
  /\ Value(e, w) = 1 => expr_print_revdep(e, w, 1) # <<>>
  /\ expr_print_revdep(e, w, 1) # <<>> => Value(e, w) >= 1
\* By induction on the operands of ||.
LEMMA ListHolds ==
  ASSUME NEW w, IsWorld(w)
  PROVE  \A e \in Expr : ListFacts(e, w)
  <1> DEFINE list(e, want) == expr_print_revdep(e, w, want)
             Printed == {expr_print(e, "NULL") : e \in Expr}
             G == {e \in Expr : ListFacts(e, w) /\ \A want \in {1, 2} : list(e, want) \in Seq(Printed)}
  <1>1. ASSUME NEW e \in Expr, e.t # "OR" PROVE e \in G
    <2>1. \A want \in {1, 2} : list(e, want) = IF Value(e, w) = want THEN <<expr_print(e, "NULL")>> ELSE <<>>
      BY <1>1, ListIs DEF Listed
    <2>2. expr_print(e, "NULL") \in Printed
      OBVIOUS
    <2>3. \A want \in {1, 2} : list(e, want) \in Seq(Printed)
      <3>1. ASSUME NEW p \in Printed PROVE <<p>> \in Seq(Printed)
        <4> HIDE DEF Printed
        <4> QED BY <3>1
      <3>2. <<expr_print(e, "NULL")>> \in Seq(Printed)
        BY <2>2, <3>1
      <3>3. <<>> \in Seq(Printed)
        OBVIOUS
      <3> HIDE DEF list, Printed
      <3> QED BY <2>1, <3>2, <3>3
    <2>4. ListFacts(e, w)
      BY <2>1 DEF ListFacts
    <2> QED BY <2>3, <2>4
  <1>2. ASSUME NEW e \in Expr, IsTwo(e), e.t = "OR", e.l \in G, e.r \in G PROVE e \in G
    <2>1. \A want \in {1, 2} : list(e, want) = list(e.l, want) \o list(e.r, want)
      BY <1>2, ListIs
    <2>2. Value(e, w) = EXPR_OR(Value(e.l, w), Value(e.r, w))
      BY <1>2, ValueIs DEF Binary
    <2>3. Value(e.l, w) \in {0, 1, 2} /\ Value(e.r, w) \in {0, 1, 2}
      BY <1>2, ValueType
    <2>4. /\ ListFacts(e.l, w) /\ ListFacts(e.r, w)
          /\ \A want \in {1, 2} : list(e.l, want) \in Seq(Printed) /\ list(e.r, want) \in Seq(Printed)
      BY <1>2
    <2>5. \A want \in {1, 2} : /\ list(e, want) \in Seq(Printed)
                               /\ list(e, want) # <<>> <=> list(e.l, want) # <<>> \/ list(e.r, want) # <<>>
      <3>1. ASSUME NEW p \in Seq(Printed), NEW q \in Seq(Printed)
            PROVE  p \o q \in Seq(Printed) /\ (p \o q # <<>> <=> p # <<>> \/ q # <<>>)
        <4> HIDE DEF Printed
        <4> QED BY <3>1
      <3> SUFFICES ASSUME NEW want \in {1, 2}
                   PROVE  /\ list(e, want) \in Seq(Printed)
                          /\ list(e, want) # <<>> <=> list(e.l, want) # <<>> \/ list(e.r, want) # <<>>
        OBVIOUS
      <3>2. list(e.l, want) \in Seq(Printed) /\ list(e.r, want) \in Seq(Printed)
        BY <2>4
      <3>3. list(e, want) = list(e.l, want) \o list(e.r, want)
        BY <2>1
      <3>4. /\ list(e.l, want) \o list(e.r, want) \in Seq(Printed)
            /\ list(e.l, want) \o list(e.r, want) # <<>> <=> list(e.l, want) # <<>> \/ list(e.r, want) # <<>>
        BY <3>1, <3>2
      <3> QED BY <3>3, <3>4
    <2>6. ListFacts(e, w)
      BY <2>2, <2>3, <2>4, <2>5 DEF ListFacts, EXPR_OR
    <2> QED BY <2>5, <2>6
  <1> HIDE DEF G
  <1>3. \A e \in Expr : e \in G
    <2>1. ASSUME NEW e \in Expr, Atom(e), e.t \notin Binary \union {"NOT"} PROVE e \in G
      BY <1>1, <2>1 DEF Binary
    <2>2. ASSUME NEW e \in Expr, IsNot(e) PROVE e \in G
      BY <1>1, <2>2 DEF IsNot
    <2>3. ASSUME NEW e \in Expr, IsTwo(e), e.l \in G, e.r \in G PROVE e \in G
      BY <1>1, <1>2, <2>3
    <2> QED BY <2>1, <2>2, <2>3, ExprInduction
  <1> QED BY <1>3 DEF G

\* What is printed of a condition reads back as what it means, and the listed
\* operands are those its value comes from.
LEMMA DepsPrinted == DepsInv => PrintedMeansTheSame
  <1> SUFFICES ASSUME DepsInv PROVE PrintedMeansTheSame
    OBVIOUS
  <1>1. dep \in Expr
    BY DEF DepsInv, Tidy
  <1>2. Means(expr_print(dep, "NULL"), dep)
    BY <1>1, PrintHolds DEF PrintFacts, OwnFacts, Printing
  <1>3. ASSUME NEW w \in Worlds
        PROVE  /\ Value(Parse[expr_print(dep, "NULL")], w) = Value(dep, w)
               /\ Value(dep, w) = yes <=> expr_print_revdep(dep, w, yes) # <<>>
               /\ Value(dep, w) = mod <=> /\ expr_print_revdep(dep, w, yes) = <<>>
                                          /\ expr_print_revdep(dep, w, mod) # <<>>
    <2>1. IsWorld(w)
      BY WorldsAssumption
    <2>2. Value(dep, w) \in {0, 1, 2} /\ ListFacts(dep, w)
      BY <1>1, <2>1, ValueType, ListHolds
    <2> QED BY <1>2, <2>1, <2>2 DEF Means, ListFacts, yes, mod
  <1> QED BY <1>3 DEF PrintedMeansTheSame

\* The parentheses that expr_print() leaves out are those the precedences of
\* zconf.y put back, for any symbols and conditions.
THEOREM PrintedHolds == Spec => []PrintedMeansTheSame
  <1> QED BY DepsPrinted, DepsInvariant, PTL
==============================================================================
