---- MODULE KconfigExpr ----
(* support/kconfig/expr.c: the dependency expressions of Kconfig, the rewrites
   menu.c applies to them, their tristate value, and their printed form.

   An expression is a record [t, ...]: a symbol [t |-> "SYM", s], a comparison
   of two symbols [t |-> "EQ" ..., a, b], [t |-> "NOT", l], or a binary node
   [t |-> "AND" or "OR", l, r].  NoExpr stands for the NULL pointer, which means
   "yes".  size is the number of nodes.  C rewrites trees in place; here every
   rewrite returns the new tree, and where two pointers walk ONE tree
   (expr_eliminate_dups1) a pointer is a path from the root. *)
EXTENDS Integers, Sequences, FiniteSets, KconfigTypes

CONSTANT ConstSyms   \* the symbols with SYMBOL_CONST: y, m, n and quoted words

no == 0
mod == 1
yes == 2
EXPR_OR(a, b) == IF a > b THEN a ELSE b
EXPR_AND(a, b) == IF a < b THEN a ELSE b
EXPR_NOT(a) == 2 - a

Comparisons == {"EQ", "NE", "LT", "LE", "GT", "GE"}
Binary == {"AND", "OR"}
NoExpr == [t |-> "NULL", size |-> 1]
Sym(s) == [t |-> "SYM", s |-> s, size |-> 1]
Comp(t, a, b) == [t |-> t, a |-> a, b |-> b, size |-> 1]
Not(e) == [t |-> "NOT", l |-> e, size |-> e.size + 1]
Two(t, l, r) == [t |-> t, l |-> l, r |-> r, size |-> l.size + r.size + 1]

(* The expressions of at most n nodes. *)
AtomsOf(names) == {NoExpr} \union [t : {"SYM"}, s : names, size : {1}]
                  \union [t : Comparisons, a : names, b : names, size : {1}]
Atoms == AtomsOf(DOMAIN SymType)
Larger(below, n) ==
    {e \in [t : {"NOT"}, l : below, size : 1..n] : e.size = e.l.size + 1}
    \union {e \in [t : Binary, l : below, r : below, size : 1..n] :
              e.size = e.l.size + e.r.size + 1}
Exprs[n \in Nat] == IF n = 0 THEN {} ELSE Atoms \union Larger(Exprs[n - 1], n)

(* What a function makes of e when it makes leaf(f) of a leaf f, neg(f, l) of a
   negation and both(f, l, r) of a binary node, where l and r are what it has
   made of the operands. *)
Fold(leaf(_), neg(_, _), both(_, _, _), e) ==
    LET of[f \in Exprs[e.size]] ==
          CASE f.t = "NOT" -> neg(f, of[f.l])
            [] f.t \in Binary -> both(f, of[f.l], of[f.r])
            [] OTHER -> leaf(f)
    IN  of[e]

expr_alloc_and(l, r) == IF l = NoExpr THEN r ELSE IF r = NoExpr THEN l ELSE Two("AND", l, r)
expr_alloc_or(l, r) == IF l = NoExpr THEN r ELSE IF r = NoExpr THEN l ELSE Two("OR", l, r)
expr_is_yes(e) == e \in {NoExpr, Sym("y")}
expr_is_no(e) == e = Sym("n")

(* The symbols an expression reads, from left to right. *)
SymsOfLeaf(f) == CASE f.t = "NULL" -> <<>> [] f.t = "SYM" -> <<f.s>> [] OTHER -> <<f.a, f.b>>
SymsOf(e) == Fold(SymsOfLeaf, LAMBDA f, l : l, LAMBDA f, l, r : l \o r, e)
Mentions(e) == LET q == SymsOf(e) IN {q[i] : i \in DOMAIN q}

-----------------------------------------------------------------------------
(* Comparisons.  Texts are the string values symbols take, in strcmp() order;
   the three tables are what strtoll()/strtoull() make of them in base 10, 16
   and 0, and a text that is missing does not parse. *)
TextOrder == <<"", "-1", "0x10", "0x9", "10", "16", "9", "abc", "m", "n", "y">>
Texts == {TextOrder[i] : i \in DOMAIN TextOrder}
Rank(v) == CHOOSE i \in DOMAIN TextOrder : TextOrder[i] = v
Base10 == [v \in {"-1", "10", "16", "9"} |->
             CASE v = "-1" -> -1 [] v = "10" -> 10 [] v = "16" -> 16 [] v = "9" -> 9]
Base0 == [v \in {"-1", "10", "16", "9", "0x10", "0x9"} |->
             CASE v = "-1" -> -1 [] v = "10" -> 10 [] v \in {"16", "0x10"} -> 16
               [] v \in {"9", "0x9"} -> 9]
Base16 == [v \in {"-1", "10", "16", "9", "0x10", "0x9", "abc"} |->
             CASE v = "-1" -> -1 [] v \in {"0x10", "10"} -> 16 [] v \in {"9", "0x9"} -> 9
               [] v = "16" -> 22 [] v = "abc" -> 2748]

(* A word of the machine: only that it is larger than every number above. *)
WordSize == 65536
Unsigned(n) == n % WordSize

TriText(v) == <<"n", "m", "y">>[v + 1]

Parsed(kind, table, v) ==
    IF v \in DOMAIN table THEN [kind |-> kind, num |-> table[v]] ELSE [kind |-> "string", num |-> 0]
expr_parse_string(v, type) ==
    CASE type \in BooleanTypes ->
             [kind |-> "signed",
              num |-> CASE v = "n" -> 0 [] v = "m" -> 1 [] v = "y" -> 2 [] OTHER -> -1]
      [] type = "int" -> Parsed("signed", Base10, v)
      [] type = "hex" -> Parsed("unsigned", Base16, v)
      [] type \in {"string", "unknown"} -> Parsed("signed", Base0, v)
      [] OTHER -> [kind |-> "invalid", num |-> 0]

Sign(a, b) == IF a < b THEN -1 ELSE IF a > b THEN 1 ELSE 0

(* The three-way result, or 2 when the two cannot be ordered: of the numbers p1
   and p2, or of the texts in their places. *)
CompareParsed(p1, p2, v1, v2, equality) ==
    LET kinds == {p1.kind, p2.kind}
    IN  CASE kinds = {"signed"} -> Sign(p1.num, p2.num)
          [] kinds \in {{"unsigned"}, {"signed", "unsigned"}} -> Sign(Unsigned(p1.num), Unsigned(p2.num))
          [] "invalid" \in kinds /\ "string" \notin kinds /\ ~equality -> 2
          [] OTHER -> Sign(Rank(v1), Rank(v2))
CompareTexts(v1, type1, v2, type2, equality) ==
    IF type1 = "string" /\ type2 = "string" THEN Sign(Rank(v1), Rank(v2))
    ELSE CompareParsed(expr_parse_string(v1, type1), expr_parse_string(v2, type2), v1, v2, equality)

Relation(t, res) ==
    /\ res # 2
    /\ CASE t = "EQ" -> res = 0
         [] t = "NE" -> res # 0
         [] t = "LT" -> res < 0
         [] t = "LE" -> res <= 0
         [] t = "GT" -> res > 0
         [] t = "GE" -> res >= 0

(* tri and txt give every symbol's tristate and string value. *)
LeafValue(f, tri, txt) ==
    CASE f.t = "NULL" -> yes
      [] f.t = "SYM" -> tri[f.s]
      [] OTHER -> IF Relation(f.t, CompareTexts(txt[f.a], SymType[f.a], txt[f.b], SymType[f.b],
                                                f.t \in {"EQ", "NE"}))
                  THEN yes ELSE no
expr_calc_value(e, tri, txt) ==
    Fold(LAMBDA f : LeafValue(f, tri, txt),
         LAMBDA f, l : EXPR_NOT(l),
         LAMBDA f, l, r : IF f.t = "AND" THEN EXPR_AND(l, r) ELSE EXPR_OR(l, r), e)

-----------------------------------------------------------------------------
(* expr && n -> n, expr && y -> expr, expr || n -> expr, expr || y -> y. *)
Unit(t) == IF t = "AND" THEN "y" ELSE "n"
Zero(t) == IF t = "AND" THEN "n" ELSE "y"

WithoutConstants(t, l, r) ==
    IF Sym(Zero(t)) \in {l, r} THEN Sym(Zero(t))
    ELSE IF l = Sym(Unit(t)) THEN r
    ELSE IF r = Sym(Unit(t)) THEN l
    ELSE Two(t, l, r)
expr_eliminate_yn(e) ==
    Fold(LAMBDA f : f, LAMBDA f, l : f, LAMBDA f, l, r : WithoutConstants(f.t, l, r), e)

(* Equal operands of two trees, at one level of && or ||, are replaced by the
   unit of that level; expr_eq decides what is equal.  The two functions call
   each other: call[<<t, e1, e2>>] is what is left of e1 and e2 at level t, and
   call[<<"eq", e1, e2>>] whether they are equal. *)
EliminateEq(call, t, e1, e2) ==
    IF e1.t = t
    THEN LET x == call[<<t, e1.l, e2>>]
             y == call[<<t, e1.r, x[2]>>]
         IN  <<Two(t, x[1], y[1]), y[2]>>
    ELSE IF e2.t = t
    THEN LET x == call[<<t, e1, e2.l>>]
             y == call[<<t, x[1], e2.r>>]
         IN  <<y[1], Two(t, x[2], y[2])>>
    ELSE IF e1 = e2 /\ e1 \in {Sym("y"), Sym("n")} THEN <<e1, e2>>
    ELSE IF call[<<"eq", e1, e2>>] THEN <<Sym(Unit(t)), Sym(Unit(t))>>
    ELSE <<e1, e2>>
AtLevel(call, x, t) == IF t \in Binary THEN call[<<t, x[1], x[2]>>] ELSE x
AtOtherLevel(call, x) == IF x[1].t # x[2].t THEN AtLevel(call, x, x[2].t) ELSE x
NoUnits(x) == <<expr_eliminate_yn(x[1]), expr_eliminate_yn(x[2])>>
LeftOf(call, e1, e2) ==
    IF NoExpr \in {e1, e2} THEN <<e1, e2>>
    ELSE NoUnits(AtOtherLevel(call, AtLevel(call, <<e1, e2>>, e1.t)))
OneSymbol(x) == x[1].t = "SYM" /\ x[1] = x[2]
Equal(call, e1, e2) ==
    /\ e1.t = e2.t
    /\ CASE e1.t = "NOT" -> call[<<"eq", e1.l, e2.l>>]
         [] e1.t \in Binary -> OneSymbol(LeftOf(call, e1, e2))
         [] OTHER -> e1 = e2

(* Calls n deep.  At least every third is on smaller operands, so the last
   case, where no more calls are allowed, is never met. *)
Calls(e1, e2) ==
    LET calls[n \in 0..3 * (e1.size + e2.size)] ==
          [q \in ({"eq"} \union Binary) \X Exprs[e1.size] \X Exprs[e2.size] |->
             IF q[1] = "eq" THEN n > 0 /\ Equal(calls[n - 1], q[2], q[3])
             ELSE IF n > 0 THEN EliminateEq(calls[n - 1], q[1], q[2], q[3]) ELSE <<q[2], q[3]>>]
    IN  calls[3 * (e1.size + e2.size)]
expr_eliminate_eq(e1, e2) == LeftOf(Calls(e1, e2), e1, e2)
expr_eq(e1, e2) == Equal(Calls(e1, e2), e1, e2)

-----------------------------------------------------------------------------
(* FOO != n -> FOO, in the dependencies of what is not a tristate. *)
TransBoolLeaf(f) ==
    IF f.t = "NE" /\ SymType[f.a] = "tristate" /\ f.b = "n" THEN Sym(f.a) ELSE f
expr_trans_bool(e) == Fold(TransBoolLeaf, LAMBDA f, l : Not(l), LAMBDA f, l, r : Two(f.t, l, r), e)

(* What the two leaves e1, e2 of a level have in common: the symbol they both
   are about, when they are of the forms the joins understand. *)
Joinable(e) == e.t \in {"EQ", "NE", "SYM", "NOT"}
Subject(e) == IF e.t = "SYM" THEN e.s ELSE e.a
SameSubject(e1, e2) ==
    /\ Joinable(e1) /\ Joinable(e2)
    /\ e1.t = "NOT" => e1.l.t \in {"EQ", "NE", "SYM"}
    /\ e2.t = "NOT" => e2.l.t = "SYM"
    /\ LET s1 == Subject(IF e1.t = "NOT" THEN e1.l ELSE e1)
           s2 == Subject(IF e2.t = "NOT" THEN e2.l ELSE e2)
       IN  s1 = s2 /\ SymType[s1] \in BooleanTypes
SubjectOf(e) == Subject(IF e.t = "NOT" THEN e.l ELSE e)
Against(e1, t1, c1, e2, t2, c2) ==   \* the pair (t1 c1, t2 c2), in either order
    \/ e1.t = t1 /\ e2.t = t2 /\ e1.b = c1 /\ e2.b = c2
    \/ e1.t = t2 /\ e2.t = t1 /\ e1.b = c2 /\ e2.b = c1
Beside(e1, e2, t, c) ==              \* the symbol itself next to (t c)
    \/ e1.t = "SYM" /\ e2.t = t /\ e2.b = c
    \/ e2.t = "SYM" /\ e1.t = t /\ e1.b = c
TriPairs == {<<"y", "m">>, <<"y", "n">>, <<"m", "n">>}
Remaining(pairs) ==                  \* the constant a pair leaves over
    CHOOSE v \in {"y", "m", "n"} : \E q \in pairs : v \notin {q[1], q[2]}

(* e1 || e2 as one leaf, or NoExpr. *)
expr_join_or(e1, e2) ==
    LET s == SubjectOf(e1)
        pairs == {q \in TriPairs : Against(e1, "EQ", q[1], e2, "EQ", q[2])}
    IN  IF expr_eq(e1, e2) THEN e1
        ELSE IF ~SameSubject(e1, e2) THEN NoExpr
        ELSE IF SymType[s] = "tristate" /\ pairs # {}
             THEN Comp("NE", s, Remaining(pairs))
        ELSE IF SymType[s] = "bool" /\ {e1, e2} = {Sym(s), Not(Sym(s))} THEN Sym("y")
        ELSE NoExpr

(* e1 && e2 as one leaf, or NoExpr. *)
expr_join_and(e1, e2) ==
    LET s == SubjectOf(e1)
        pairs == {q \in TriPairs : Against(e1, "NE", q[1], e2, "NE", q[2])}
        eqne == /\ {e1.t, e2.t} = {"EQ", "NE"}
                /\ e1.b \in ConstSyms /\ e2.b \in ConstSyms
        eq == IF e1.t = "EQ" THEN e1 ELSE e2
    IN  IF expr_eq(e1, e2) THEN e1
        ELSE IF ~SameSubject(e1, e2) THEN NoExpr
        ELSE IF Beside(e1, e2, "EQ", "y") \/ Beside(e1, e2, "NE", "m") THEN Comp("EQ", s, "y")
        ELSE IF Beside(e1, e2, "NE", "n") THEN Sym(s)
        ELSE IF SymType[s] = "tristate" /\ eqne
             THEN IF e1.b # e2.b THEN eq ELSE Sym("n")
        ELSE IF SymType[s] = "tristate" /\ pairs # {}
             THEN Comp("EQ", s, Remaining(pairs))
        ELSE NoExpr

(* Paths into a tree: 1 is the left operand, 2 the right one. *)
Paths == Seq({1, 2})
At(e, p) ==
    LET at[q \in Exprs[e.size] \X Paths] ==
          IF q[2] = <<>> \/ q[1].t \notin Binary THEN q[1]
          ELSE at[<<IF Head(q[2]) = 1 THEN q[1].l ELSE q[1].r, Tail(q[2])>>]
    IN  at[<<e, p>>]
Put(e, p, new) ==
    LET put[q \in Exprs[e.size] \X Paths] ==
          IF q[2] = <<>> \/ q[1].t \notin Binary THEN new
          ELSE IF Head(q[2]) = 1 THEN Two(q[1].t, put[<<q[1].l, Tail(q[2])>>], q[1].r)
          ELSE Two(q[1].t, q[1].l, put[<<q[1].r, Tail(q[2])>>])
    IN  put[<<e, p>>]

(* x = [e, count]: the tree with both pointers in it, and trans_count. *)
ReplaceDup(t, x, p1, p2, joined) ==
    IF joined = NoExpr THEN x
    ELSE [e |-> Put(Put(x.e, p1, Sym(Unit(t))), p2, joined), count |-> x.count + 1]
JoinDup(t, x, p1, p2) ==
    LET e1 == At(x.e, p1)
        e2 == At(x.e, p2)
    IN  ReplaceDup(t, x, p1, p2, IF t = "OR" THEN expr_join_or(e1, e2) ELSE expr_join_and(e1, e2))
(* expr_eliminate_dups1() on the tree x, at level t, from two of its nodes:
   call[<<t, x, p1, p2>>]. *)
Dups1(call, t, x, p1, p2) ==
    LET e1 == At(x.e, p1)
        e2 == At(x.e, p2)
    IN  IF e1.t = t THEN call[<<t, call[<<t, x, Append(p1, 1), p2>>], Append(p1, 2), p2>>]
        ELSE IF e2.t = t THEN call[<<t, call[<<t, x, p1, Append(p2, 1)>>], p1, Append(p2, 2)>>]
        ELSE IF p1 = p2 THEN x
        ELSE JoinDup(t, IF e1.t \in Binary THEN call[<<e1.t, x, p1, p1>>] ELSE x, p1, p2)

(* Every second call at least goes down in the tree, which never grows. *)
Joined(e) ==
    LET calls[n \in 0..3 * e.size] ==
          [q \in Binary \X [e : Exprs[e.size], count : Nat] \X Paths \X Paths |->
             IF n = 0 THEN q[2] ELSE Dups1(calls[n - 1], q[1], q[2], q[3], q[4])]
    IN  calls[3 * e.size][<<e.t, [e |-> e, count |-> 0], <<>>, <<>>>>]

(* Until nothing is joined any more; every turn leaves a smaller tree. *)
Turn(turn, x) == IF x.count = 0 THEN x.e ELSE turn[expr_eliminate_yn(x.e)]
expr_eliminate_dups(e) ==
    LET turns[n \in 0..e.size] ==
          [f \in Exprs[e.size] |->
             IF n = 0 \/ f.t \notin Binary THEN f ELSE Turn(turns[n - 1], Joined(f))]
    IN  turns[e.size][e]

(* Comparisons with a boolean become the symbol itself; negations move to the
   leaves and disappear into comparisons and constants. *)
\* Slip: <= and < are taken for each other's opposites.
FlipStrict == [EQ |-> "NE", NE |-> "EQ", LE |-> "GE", GE |-> "LE", LT |-> "GT", GT |-> "LT"]
Flip == [EQ |-> "NE", NE |-> "EQ", LE |-> "GT", GE |-> "LT", LT |-> "GE", GT |-> "LE"]
Constant == {"y", "m", "n"}
TransformLeaf(f) ==
    LET onBool == f.t \in {"EQ", "NE"} /\ SymType[f.a] = "bool" /\ f.b \in Constant
    IN  CASE onBool /\ f.b = "m" -> Sym(IF f.t = "EQ" THEN "n" ELSE "y")
          [] onBool /\ f.b # "m" ->
               IF (f.t = "EQ") = (f.b = "y") THEN Sym(f.a) ELSE Not(Sym(f.a))
          [] OTHER -> f
(* ! in front of a transformed expression.  Transforming its operands once more
   changes nothing. *)
Dual(t) == IF t = "OR" THEN "AND" ELSE "OR"
NegateLeaf(f) ==
    CASE f.t \in Comparisons -> [f EXCEPT !.t = Flip[f.t]]
      [] f.t = "SYM" /\ f.s \in Constant ->
           Sym(CASE f.s = "y" -> "n" [] f.s = "m" -> "m" [] f.s = "n" -> "y")
      [] OTHER -> Not(f)
Negate(e) == Fold(NegateLeaf, LAMBDA f, l : f.l, LAMBDA f, l, r : Two(Dual(f.t), l, r), e)
expr_transform(e) ==
    Fold(TransformLeaf, LAMBDA f, l : Negate(l), LAMBDA f, l, r : Two(f.t, l, r), e)

expr_contains_symbol(e, s) == s \in Mentions(e)
DependsLeaf(f, s) ==
    CASE f.t = "SYM" -> f.s = s
      [] f.t = "EQ" -> f.a = s /\ f.b \in {"y", "m"}
      [] f.t = "NE" -> f.a = s /\ f.b = "n"
      [] OTHER -> FALSE
\* Slip: one operand of || is enough, as for &&.
DependsByOr(e, s) ==
    Fold(LAMBDA f : DependsLeaf(f, s), LAMBDA f, l : FALSE, LAMBDA f, l, r : l \/ r, e)

expr_depends_symbol(e, s) ==
    Fold(LAMBDA f : DependsLeaf(f, s), LAMBDA f, l : FALSE,
         LAMBDA f, l, r : f.t = "AND" /\ (l \/ r), e)

(* "e is (type) s" with explicit comparisons, for s = n as menu.c asks for it:
   A -> A!=n, !A -> A=n, A && B -> !(A=n || B=n).  Both forms of an expression,
   the one that is y when it is n and the one that is y when it is not. *)
Forms(eq) == [EQ |-> eq, NE |-> Not(eq)]
TransCompareLeaf(f) ==
    CASE f.t = "NULL" -> Forms(Sym("n"))
      [] f.t = "SYM" -> [EQ |-> Comp("EQ", f.s, "n"), NE |-> Comp("NE", f.s, "n")]
      [] OTHER -> [EQ |-> Not(f), NE |-> f]
\* Slip: the operands of && and || are compared, but the operator stays.
TransCompareKept(f, l, r) == Forms(Two(f.t, l.EQ, r.EQ))

TransCompareBoth(f, l, r) == Forms(Two(Dual(f.t), l.EQ, r.EQ))
TransCompareNo(e, t) ==
    Fold(TransCompareLeaf, LAMBDA f, l : [EQ |-> l.NE, NE |-> l.EQ], TransCompareBoth, e)[t]
====
