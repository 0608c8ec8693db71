---- MODULE KconfigPrint ----
(* support/kconfig/expr.c: the printed form of the conditions KconfigDeps has
   made, and the grammar of zconf.y that reads it back. *)
EXTENDS KconfigDeps

(* The printed form, as tokens.  Parentheses go around a child that binds less
   tightly than the node above it; prev is that node's type. *)
Level == [LT |-> 5, LE |-> 5, GT |-> 5, GE |-> 5, EQ |-> 4, NE |-> 4, NOT |-> 3, AND |-> 2, OR |-> 1]
\* Slip: an && inside a ! gets no parentheses.
TighterByOne(prev, t) ==
    /\ prev \in DOMAIN Level /\ t \in DOMAIN Level
    /\ Level[prev] > Level[t] + 1

Tighter(prev, t) ==      \* expr_compare_type(prev, t) > 0, for the nodes that have a level
    /\ prev \in DOMAIN Level /\ t \in DOMAIN Level
    /\ Level[prev] > Level[t]
Infix == [EQ |-> "=", NE |-> "!=", LT |-> "<", LE |-> "<=", GT |-> ">", GE |-> ">=",
          AND |-> "&&", OR |-> "||"]
Enclosed(prev, t, body) == IF Tighter(prev, t) THEN <<"(">> \o body \o <<")">> ELSE body
PrintLeaf(f) ==
    CASE f.t = "NULL" -> <<"y">> [] f.t = "SYM" -> <<f.s>> [] OTHER -> <<f.a, Infix[f.t], f.b>>
PrintBody(e) ==
    Fold(PrintLeaf, LAMBDA f, l : <<"!">> \o Enclosed("NOT", f.l.t, l),
         LAMBDA f, l, r : Enclosed(f.t, f.l.t, l) \o <<Infix[f.t]>> \o Enclosed(f.t, f.r.t, r), e)
expr_print(e, prev) == Enclosed(prev, e.t, PrintBody(e))

(* The operands of the top-level || with one value, as the help text lists the
   symbols that select this one. *)
Listed(f, w, want) == IF Value(f, w) = want THEN <<expr_print(f, "NULL")>> ELSE <<>>
expr_print_revdep(e, w, want) ==
    Fold(LAMBDA f : Listed(f, w, want), LAMBDA f, l : Listed(f, w, want),
         LAMBDA f, l, r : IF f.t = "OR" THEN l \o r ELSE Listed(f, w, want), e)

(* The grammar of zconf.y: || and && associate to the left and bind in that
   order, ! binds tighter, a comparison is between two symbols.  The lexer tells
   the names of symbols from what else there is. *)
Operators == {"(", ")", "!"} \union {Infix[t] : t \in DOMAIN Infix}
ASSUME NamesAssumption == Operators \intersect DOMAIN SymType = {}
Text == Seq(Operators \union DOMAIN SymType)

Opened(token) == CASE token = "(" -> 1 [] token = ")" -> -1 [] OTHER -> 0
Depth(q, i) ==
    LET open[k \in 0..i] == IF k = 0 THEN 0 ELSE open[k - 1] + Opened(q[k])
    IN  open[i]
LastAtTop(q, token) == {i \in DOMAIN q : /\ q[i] = token /\ Depth(q, i) = 0
                                         /\ \A j \in (i + 1)..Len(q) : Depth(q, j) = 0 => q[j] # token}
Before(q, last) == SubSeq(q, 1, (CHOOSE i \in last : TRUE) - 1)
After(q, last) == SubSeq(q, (CHOOSE i \in last : TRUE) + 1, Len(q))
Parse[q \in Text] ==
    LET ors == LastAtTop(q, "||")
        ands == LastAtTop(q, "&&")
    IN  IF q = <<>> THEN NoExpr
        ELSE IF ors # {} THEN Two("OR", Parse[Before(q, ors)], Parse[After(q, ors)])
        ELSE IF ands # {} THEN Two("AND", Parse[Before(q, ands)], Parse[After(q, ands)])
        ELSE IF q[1] = "!" THEN Not(Parse[Tail(q)])
        ELSE IF q[1] = "(" THEN Parse[SubSeq(q, 2, Len(q) - 1)]
        ELSE IF Len(q) = 1 THEN Sym(q[1])
        ELSE Comp(CHOOSE t \in Comparisons : Infix[t] = q[2], q[1], q[3])

-----------------------------------------------------------------------------
(* What the front ends print is what the grammar reads back: the parentheses
   expr_print() leaves out are those the precedences of zconf.y put back.  And
   the operands it lists as selecting by y, by m and not at all are what the
   value of the whole comes from. *)
PrintedMeansTheSame ==
    LET read == Parse[expr_print(dep, "NULL")]
    IN  \A w \in Worlds :
          /\ Value(read, w) = Value(dep, w)
          /\ Value(dep, w) = yes <=> expr_print_revdep(dep, w, yes) # <<>>
          /\ Value(dep, w) = mod <=> /\ expr_print_revdep(dep, w, yes) = <<>>
                                     /\ expr_print_revdep(dep, w, mod) # <<>>
====
