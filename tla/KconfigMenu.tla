---- MODULE KconfigMenu ----
(* support/kconfig/menu.c: from the entries the parser has read to the menu
   tree and the dependencies of every symbol.

   A Kconfig K is a record:
     order    the symbols, as the hash table lists them
     sym      entry -> its symbol, or NoSym for menus, ifs and comments
     kids     entry -> the entries below it, in order ("root" is an entry)
     dep      entry -> its "depends on"
     visible  entry -> its "visible if"
     props    owner -> its properties, in order; the owner is the symbol, or
              the entry itself when it has none
     choices, optional, auto, allnoy   sets of symbols
     members  choice -> its values, in order
     rev, imp, dir   symbol -> select, imply and direct dependencies
   A property is [type, menu, cond, expr]. *)
EXTENDS KconfigConds, SequencesExt

NoSym == "none"
Root == "root"
Prompts == {"PROMPT", "MENU", "COMMENT"}

-----------------------------------------------------------------------------
Owner(K, m) == IF K.sym[m] = NoSym THEN m ELSE K.sym[m]
PropsAt(K, m) == {i \in DOMAIN K.props[Owner(K, m)] : K.props[Owner(K, m)][i].menu = m}
PromptsAt(K, m) == {i \in PropsAt(K, m) : K.props[Owner(K, m)][i].type \in Prompts}
HasPrompt(K, m) == PromptsAt(K, m) # {}
Prompt(K, m) == K.props[Owner(K, m)][CHOOSE i \in PromptsAt(K, m) : \A j \in PromptsAt(K, m) : j <= i]
Parents(K, m) == {p \in DOMAIN K.kids : Contains(K.kids[p], m)}
Parent(K, m) == CHOOSE p \in Parents(K, m) : TRUE
RECURSIVE Above(_, _)
Above(K, m) == IF m = Root THEN <<>> ELSE <<Parent(K, m)>> \o Above(K, Parent(K, m))

(* A prompt is added under the "visible if" of every menu around it. *)
menu_add_prop(K, m, prop) ==
    LET around == SelectSeq(Above(K, m), LAMBDA p : K.visible[p] # NoExpr)
        cond == IF prop.type = "PROMPT"
                THEN FoldLeft(LAMBDA e, p : expr_alloc_and(e, K.visible[p]), prop.cond, around)
                ELSE prop.cond
    IN  [K EXCEPT !.props[Owner(K, m)] = Append(@, [prop EXCEPT !.menu = m, !.cond = cond])]

(* The dependencies of parent go to one entry below it and to the properties
   the entry gives its symbol; a select or an imply adds itself to its target. *)
SetCond(K, m, i, d) ==
    LET p == K.props[Owner(K, m)][i]
        L == [K EXCEPT !.props[Owner(K, m)][i].cond = d]
        because == expr_alloc_and(Sym(K.sym[m]), d)
    IN  CASE p.type = "SELECT" -> [L EXCEPT !.rev[p.expr.s] = expr_alloc_or(@, because)]
          [] p.type = "IMPLY" -> [L EXCEPT !.imp[p.expr.s] = expr_alloc_or(@, because)]
          [] OTHER -> L
Rounded(s, d) == IF s # NoSym /\ SymType[s] # "tristate" THEN expr_trans_bool(d) ELSE d
PropagateProp(K, m, i) ==
    SetCond(K, m, i, Rounded(K.sym[m], Combine(K.dep[m], K.props[Owner(K, m)][i].cond)))
Propagate(K, parentdep, m) ==
    FoldLeft(LAMBDA L, i : PropagateProp(L, m, i), [K EXCEPT !.dep[m] = Combine(parentdep, @)],
             SelectSeq([i \in DOMAIN K.props[Owner(K, m)] |-> i], LAMBDA i : i \in PropsAt(K, m)))

PropagateAll(K, m) ==
    LET s == K.sym[m]
        parentdep == CASE s \in K.choices -> Sym(s)
                       [] s \notin K.choices /\ HasPrompt(K, m) -> Prompt(K, m).cond
                       [] OTHER -> K.dep[m]
    IN  FoldLeft(LAMBDA L, c : Propagate(L, parentdep, c), K, K.kids[m])

(* What an entry depends on, as automatic submenus look at it. *)
Shown(K, m) == IF HasPrompt(K, m) THEN Prompt(K, m).cond ELSE K.dep[m]
\* Slip: mentioning the symbol is enough.
GoesBelowMention(dep, s, basedep) == expr_contains_symbol(dep, s)

GoesBelow(dep, s, basedep) ==
    /\ expr_contains_symbol(dep, s)
    /\ \/ expr_depends_symbol(dep, s)
       \/ expr_is_yes(expr_eliminate_eq(NotNo(dep), basedep)[2])

(* A value of a choice learns of its choice; a boolean value of a tristate
   choice can only be set when the choice is y. *)
AddValue(K, choice, m) ==
    LET v == K.sym[m]
        onlyIfY == Comp("EQ", choice, "y")
        strict == SymType[choice] = "tristate" /\ SymType[v] # "tristate"
        L == IF ~strict THEN K
             ELSE [K EXCEPT !.dep[m] = expr_alloc_and(onlyIfY, @),
                            !.props[v] = [i \in DOMAIN @ |->
                                IF @[i].menu = m
                                THEN [@[i] EXCEPT !.cond = expr_alloc_and(onlyIfY, @)] ELSE @[i]]]
    IN  [L EXCEPT !.members[choice] = Append(@, v),
                  !.props[v] = Append(@, [type |-> "CHOICE", menu |-> m, cond |-> NoExpr,
                                          expr |-> Sym(choice)])]
IsValue(K, s) == \E c \in K.choices : Contains(K.members[c], s)

(* Entries below one without a prompt (an if, or a symbol the user never sees)
   are lifted to its level, right behind it. *)
MakeValue(K, m, c) ==
    IF K.sym[m] \in K.choices /\ K.sym[c] # NoSym /\ ~IsValue(K, K.sym[c])
    THEN AddValue(K, K.sym[m], c) ELSE K
Lift(K, m, i) ==
    LET c == K.kids[m][i]
    IN  IF K.kids[c] = <<>> \/ HasPrompt(K, c) THEN K
        ELSE [K EXCEPT !.kids[m] = SubSeq(@, 1, i) \o K.kids[c] \o SubSeq(@, i + 1, Len(@)),
                       !.kids[c] = <<>>]
RECURSIVE Settle(_, _, _)
Settle(K, m, i) ==
    IF i > Len(K.kids[m]) THEN K
    ELSE Settle(Lift(MakeValue(K, m, K.kids[m][i]), m, i), m, i + 1)

RECURSIVE menu_finalize(_, _), FinalizeKids(_, _, _), Absorb(_, _, _)
FinalizeKids(K, m, i) ==
    IF i > Len(K.kids[m]) THEN K ELSE FinalizeKids(menu_finalize(K, K.kids[m][i]), m, i + 1)
(* The entries right behind symbol m that depend on it become its submenu. *)
Absorb(K, m, basedep) ==
    LET g == Parent(K, m)
        at == CHOOSE i \in DOMAIN K.kids[g] : K.kids[g][i] = m
        next == K.kids[g][at + 1]
    IN  IF at = Len(K.kids[g]) THEN K
        ELSE IF ~GoesBelow(Shown(K, next), K.sym[m], basedep) THEN K
        ELSE Absorb([menu_finalize(K, next) EXCEPT !.kids[g] = Remove(@, next), !.kids[m] = Append(@, next)],
                    m, basedep)
AddDirect(K, m) == [K EXCEPT !.dir[K.sym[m]] = expr_alloc_or(@, K.dep[m])]
(* A choice that is not optional is at least m where it can be seen. *)
ForceChoice(K, m) ==
    LET s == K.sym[m]
    IN  IF s = NoSym \/ s \in K.optional \/ ~HasPrompt(K, m) THEN K
        ELSE [K EXCEPT !.rev[s] = expr_alloc_or(@, expr_alloc_and(Prompt(K, m).cond, Sym("m")))]
(* A menu hands its condition down; a symbol gathers what depends on it. *)
Filled(K, m) ==
    IF K.kids[m] # <<>> THEN FinalizeKids(PropagateAll(K, m), m, 1)
    ELSE IF K.sym[m] = NoSym THEN K
    ELSE AddDirect(Absorb(K, m, NotNo(IF HasPrompt(K, m) THEN Prompt(K, m).cond ELSE NoExpr)), m)
menu_finalize(K, m) == ForceChoice(Settle(Filled(K, m), m, 1), m)

(* What the parser makes of a Kconfig file k: the entries, then the properties
   in the order they are declared in, k.decl = <<[at, prop], ...>>, then the
   finished tree. *)
conf_parse(k) ==
    LET owners == ToSet(k.order) \cup {m \in DOMAIN k.sym : k.sym[m] = NoSym}
        none(v) == [s \in ToSet(k.order) |-> v]
        entries == [order |-> k.order, sym |-> k.sym, kids |-> k.kids, dep |-> k.dep,
                    visible |-> k.visible, props |-> [o \in owners |-> <<>>],
                    choices |-> k.choices, optional |-> k.optional, auto |-> k.auto,
                    allnoy |-> k.allnoy, members |-> [c \in k.choices |-> <<>>],
                    rev |-> none(NoExpr), imp |-> none(NoExpr), dir |-> none(NoExpr)]
    IN  menu_finalize(FoldLeft(LAMBDA K, d : menu_add_prop(K, d.at, d.prop), entries, k.decl), Root)

(* The entries as a reader of the menus meets them. *)
RECURSIVE Preorder(_, _)
Preorder(K, m) == <<m>> \o FlattenSeq([i \in DOMAIN K.kids[m] |-> Preorder(K, K.kids[m][i])])
====
