---- MODULE KconfigConds ----
(* support/kconfig/menu.c: the steps menu_finalize() puts a condition through. *)
EXTENDS KconfigExpr

CONSTANT ModulesSym   \* the symbol with "option modules"; "n" when there is none

(* 'm' in a condition means "m, if modules are enabled at all". *)
RewriteLeaf(f) == IF f = Sym("m") THEN Two("AND", f, Sym(ModulesSym)) ELSE f
rewrite_m(e) == Fold(RewriteLeaf, LAMBDA f, l : Not(l), LAMBDA f, l, r : Two(f.t, l, r), e)

(* One condition under the finished condition of its parent. *)
Combine(parentdep, cond) ==
    expr_eliminate_dups(expr_alloc_and(parentdep, expr_transform(rewrite_m(cond))))

(* "e is not n", in the form two dependencies are compared in. *)
NotNo(e) == expr_eliminate_dups(expr_transform(TransCompareNo(e, "NE")))
====
