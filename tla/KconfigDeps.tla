---- MODULE KconfigDeps ----
(* What menu_finalize() (support/kconfig/menu.c) does to dependency expressions
   on the way down the menus: the condition of every menu entry, and of every
   prompt, default and select in it, is rewritten, simplified and combined with
   that of the menu around it.  The module follows one path of nested menus and
   one property in the innermost of them.
   A path ends at the property.

   baseWas and depWas are what base and dep would be without any rewriting. *)
EXTENDS KconfigConds

CONSTANTS Conditions,   \* the "depends on" conditions of menus
          PropConds,    \* the "if" conditions of properties
          Worlds,       \* assignments: [tri, txt], every symbol's two values
          MaxNesting    \* bound on nested menus

(* A well-formed tree over the symbols there are.  zconf.y takes the name of any
   symbol as an operand; that of an int, a hex or a string is never anything but n. *)
IsExpr(e) == e.size \in Nat /\ e \in Exprs[e.size]

(* The values sym_calc_value() and sym_get_string_value() give: only booleans
   and tristates are ever m or y, a bool is never m, and the text of both is
   that of the value; a constant is its own text. *)
IsWorld(w) ==
    /\ w \in [tri : [DOMAIN SymType -> {no, mod, yes}], txt : [DOMAIN SymType -> Texts]]
    /\ \A s \in DOMAIN SymType :
          /\ IsBoolean(s) => w.txt[s] = TriText(w.tri[s])
          /\ SymType[s] = "bool" => w.tri[s] # mod
          /\ ~IsBoolean(s) => w.tri[s] = (CASE s = "y" -> yes [] s = "m" -> mod [] OTHER -> no)
          /\ s \in ConstSyms => w.txt[s] = s

ASSUME SymbolsAssumption ==
    /\ Constant \subseteq ConstSyms /\ Constant \subseteq DOMAIN SymType
    /\ \A s \in ConstSyms \intersect DOMAIN SymType : SymType[s] = "unknown"
    /\ \A s \in DOMAIN SymType : SymType[s] \in BooleanTypes \union {"int", "hex", "string", "unknown"}
    /\ ModulesSym \in DOMAIN SymType
    /\ ModulesSym = "n" \/ SymType[ModulesSym] = "bool"
ASSUME ConditionsAssumption == \A c \in Conditions \union PropConds : IsExpr(c)
ASSUME WorldsAssumption == \A w \in Worlds : IsWorld(w)

VARIABLES depth, base, baseWas, dep, depWas,
          type   \* of the symbol whose property was handled last, or "none"
vars == <<depth, base, baseWas, dep, depWas, type>>

Init ==
    /\ depth = 0
    /\ base = NoExpr /\ baseWas = NoExpr
    /\ dep = NoExpr /\ depWas = NoExpr
    /\ type = "none"

(* A menu entry (a menu, an if, a config) with condition c: what is in it gets
   basedep. *)
Descend(c) ==
    /\ depth < MaxNesting /\ type = "none"
    /\ depth' = depth + 1
    /\ base' = Combine(base, c)
    /\ baseWas' = expr_alloc_and(baseWas, rewrite_m(c))
    /\ dep' = base' /\ depWas' = baseWas'
    /\ UNCHANGED type

(* A property with condition c of a symbol of type ty in that menu. *)
Property(c, ty) ==
    /\ depth > 0 /\ type = "none"
    /\ LET d == Combine(base, c)
       IN  dep' = IF ty = "tristate" THEN d ELSE expr_trans_bool(d)
    /\ depWas' = expr_alloc_and(baseWas, rewrite_m(c))
    /\ type' = ty
    /\ UNCHANGED <<depth, base, baseWas>>

Next ==
    \/ \E c \in Conditions : Descend(c)
    \/ \E c \in PropConds, ty \in {"bool", "tristate"} : Property(c, ty)
Spec == Init /\ [][Next]_vars

-----------------------------------------------------------------------------
Value(e, w) == expr_calc_value(e, w.tri, w.txt)
Implies(e, f) == \A w \in Worlds : Value(e, w) # no => Value(f, w) # no

(* No rewriting of expr.c changes what a condition means: at every step down
   the menus, and in the property, the simplified expression has the value of
   the original under every assignment of the symbols.  A condition of a
   boolean symbol may turn m into y, as its visibility is rounded up. *)
SimplifiedMeansTheSame ==
    \A w \in Worlds :
        /\ Value(base, w) = Value(baseWas, w)
        /\ IF type = "bool" THEN (Value(dep, w) = no) = (Value(depWas, w) = no)
           ELSE Value(dep, w) = Value(depWas, w)

(* expr_depends_symbol(), by which menu.c makes submenus: an entry for which
   it says yes is never visible while the symbol is n, and one that does not
   mention the symbol does not change with it. *)
DependenceIsReal ==
    \A s \in {v \in Mentions(dep) : SymType[v] \in BooleanTypes} : \A w \in Worlds :
        /\ expr_depends_symbol(dep, s) /\ w.tri[s] = no => Value(dep, w) = no
        /\ ~expr_contains_symbol(base, s) =>
             \A x \in Worlds : w.txt = [x.txt EXCEPT ![s] = w.txt[s]] => Value(base, w) = Value(base, x)

(* The symbols that are operands of a dependency themselves. *)
SymOperands(e) ==
    Fold(LAMBDA f : IF f.t = "SYM" THEN {f.s} ELSE {}, LAMBDA f, l : l, LAMBDA f, l, r : l \union r, e)
OnBooleans(e) == \A s \in SymOperands(e) : IsBoolean(s) \/ s \in Constant

(* What the comparison with n, written out, keeps the meaning of: no operand is
   the name of an int or a string (its text is compared with n), and no tristate
   under a negation is m (!T is m then, and T = n is n).  The operands of
   negations, in a finished condition, are symbols. *)
Negated(e) ==
    Fold(LAMBDA f : {}, LAMBDA f, l : {f.l}, LAMBDA f, l, r : l \union r, e)
SaysSo(e, w) == OnBooleans(e) /\ \A f \in Negated(e) : f.t = "SYM" => w.tri[f.s] # mod

(* The submenus menu_finalize() makes of entries whose condition is a "superset"
   of that of the symbol's prompt.  Both are compared written out, and what is
   written out is y where the condition is y or m, and n where it is n.  Where
   eliminating the operands the two have in common leaves nothing of the
   symbol's (any other condition c in the same menu), the entry is visible only
   where the symbol is asked for. *)
SupersetIsReal ==
    LET written == NotNo(dep)
    IN  /\ \A w \in Worlds :
             SaysSo(dep, w) => Value(written, w) = (IF Value(dep, w) = no THEN no ELSE yes)
        /\ \A c \in Conditions :
             LET asked == NotNo(Combine(base, c))
             IN  expr_is_yes(expr_eliminate_eq(written, asked)[2]) => Implies(written, asked)
====
