---- MODULE KconfigSym ----
(* support/kconfig/symbol.c: the values of the symbols of one Kconfig.

   Every operator takes the state st of the symbols and returns the new one, as
   the C functions change it in place and call each other recursively:
     cur, user   symbol -> [tri, val]: the calculated value, the value asked for
     has         symbols with SYMBOL_DEF_USER: the value asked for counts
     valid       symbols with SYMBOL_VALID: cur is up to date
     write       symbols with SYMBOL_WRITE: they go to .config
     need        symbols with SYMBOL_NEED_SET_CHOICE_VALUES
     vis, dir, rev, imp   symbol -> tristate, as last calculated
     mods        modules_val
     unsaved     sym_change_count is not zero
   val is a text, or for a choice the value it has chosen. *)
EXTENDS KconfigMenu, KconfigText

ChoiceOf(s) == IF \E c \in kc.choices : Contains(kc.members[c], s)
               THEN CHOOSE c \in kc.choices : Contains(kc.members[c], s) ELSE NoSym
IsMember(s) == ChoiceOf(s) # NoSym
PropsOf(s, type) == SelectSeq(kc.props[s], LAMBDA p : p.type = type)
PromptsOf(s) == SelectSeq(kc.props[s], LAMBDA p : p.type \in Prompts)

Blank(s) == [tri |-> no, val |-> IF SymType[s] \in BooleanTypes THEN NoSym ELSE ""]
Unset == [tri |-> no, val |-> NoSym]   \* no value asked for, not even the empty one
Fresh == [cur |-> [s \in Syms |-> Blank(s)], user |-> [s \in Syms |-> Unset],
          has |-> {}, valid |-> {}, write |-> {}, need |-> {},
          vis |-> [s \in Syms |-> no], dir |-> [s \in Syms |-> no],
          rev |-> [s \in Syms |-> no], imp |-> [s \in Syms |-> no],
          mods |-> no, unsaved |-> TRUE]

(* Constants are symbols that never change. *)
Tri(st, s) == CASE s \in Syms -> st.cur[s].tri
                [] s = "y" -> yes [] s = "m" -> mod
                [] OTHER -> no
sym_get_string_value(st, s) ==
    IF s \notin Syms THEN s
    ELSE IF SymType[s] \in BooleanTypes
    THEN TriText(IF st.cur[s].tri = mod /\ Tri(st, ModulesSym) = no THEN no ELSE st.cur[s].tri)
    ELSE st.cur[s].val
Worth(st, e) == expr_calc_value(e, [s \in Mentions(e) |-> Tri(st, s)],
                                   [s \in Mentions(e) |-> sym_get_string_value(st, s)])

sym_get_type(st, s) ==
    IF /\ SymType[s] = "tristate"
       /\ st.mods = no \/ (IsMember(s) /\ st.vis[s] = yes)
    THEN "bool" ELSE SymType[s]
RoundUp(st, s, tri) == IF tri = mod /\ sym_get_type(st, s) = "bool" THEN yes ELSE tri

RECURSIVE sym_calc_value(_, _), Eval(_, _)
(* The value of an expression: its symbols are calculated first. *)
Valued(t, e) == [st |-> t, tri |-> Worth(t, e)]
Eval(st, e) == Valued(FoldLeft(sym_calc_value, st, SymsOf(e)), e)

(* The first property of a type whose condition is not n. *)
Found(v, p) == [st |-> v.st, tri |-> v.tri, expr |-> p.expr]
FirstProp(st, s, type) ==
    FoldLeft(LAMBDA x, p : IF x.tri # no THEN x ELSE Found(Eval(x.st, p.cond), p),
             [st |-> st, tri |-> no, expr |-> NoExpr], PropsOf(s, type))
sym_get_default_prop(st, s) == FirstProp(st, s, "DEFAULT")
sym_get_range_prop(st, s) == FirstProp(st, s, "RANGE")

(* A prompt seen with value v adds to what was seen before; a tristate value of
   a choice that is y is not seen as m. *)
SeePrompt(s, seen, v) ==
    LET hidden == /\ IsMember(s) /\ SymType[s] = "tristate" /\ v.tri = mod
                  /\ v.st.cur[ChoiceOf(s)].tri = yes
    IN  [v EXCEPT !.tri = IF hidden THEN seen ELSE EXPR_OR(seen, @)]
SetVis(x, s) ==
    [x.st EXCEPT !.vis[s] = IF x.tri = mod /\ (SymType[s] # "tristate" \/ x.st.mods = no) THEN yes ELSE x.tri]
SetDir(x, s) == [x.st EXCEPT !.dir[s] = RoundUp(x.st, s, x.tri)]
SetRev(x, s) == [x.st EXCEPT !.rev[s] = RoundUp(x.st, s, x.tri)]
SetImp(x, s) == [x.st EXCEPT !.imp[s] = RoundUp(x.st, s, x.tri)]
Never(st) == [st |-> st, tri |-> no]
CalcRev(st, s) == SetRev(IF kc.rev[s] = NoExpr THEN Never(st) ELSE Eval(st, kc.rev[s]), s)
CalcImp(st, s) ==
    SetImp(IF kc.imp[s] = NoExpr \/ st.dir[s] = no THEN Never(st) ELSE Eval(st, kc.imp[s]), s)
CalcVis(st, s) ==       \* of a value of a choice nothing else is calculated
    SetVis(FoldLeft(LAMBDA x, p : SeePrompt(s, x.tri, Eval(x.st, p.cond)), Never(st), PromptsOf(s)), s)
CalcLimits(st, s) ==
    IF IsMember(s) THEN st ELSE CalcImp(CalcRev(SetDir(Eval(st, kc.dir[s]), s), s), s)
sym_calc_visibility(st, s) == CalcLimits(CalcVis(st, s), s)

FirstVisible(st, q) == LET v == SelectSeq(q, LAMBDA s : st.vis[s] # no)
                       IN  IF v = <<>> THEN NoSym ELSE v[1]
(* The default of a choice: the first default that applies and is visible, or
   else the first visible value. *)
TryDefault(v, s) == [st |-> v.st, sym |-> IF v.tri # no /\ v.st.vis[s] # no THEN s ELSE NoSym]
OrFirst(d, c) == IF d.sym # NoSym THEN d ELSE [d EXCEPT !.sym = FirstVisible(d.st, kc.members[c])]
sym_choice_default(st, c) ==
    OrFirst(FoldLeft(LAMBDA x, p : IF x.sym # NoSym THEN x ELSE TryDefault(Eval(x.st, p.cond), p.expr.s),
                     [st |-> st, sym |-> NoSym], PropsOf(c, "DEFAULT")), c)

AskedIfAll(st, c) ==     \* a choice is answered when all its visible values are
    IF \A v \in ToSet(kc.members[c]) : st.vis[v] # no => v \in st.has THEN st
    ELSE [st EXCEPT !.has = @ \ {c}]
ChooseDefault(d, c) ==
    [d.st EXCEPT !.cur[c] = [tri |-> IF d.sym = NoSym THEN no ELSE @.tri, val |-> d.sym]]
Choose(st, c) ==
    LET u == st.user[c].val
    IN  IF u # NoSym /\ st.vis[u] # no THEN [st EXCEPT !.cur[c].val = u]
        ELSE ChooseDefault(sym_choice_default(st, c), c)
sym_calc_choice(st, c) ==
    Choose(AskedIfAll(FoldLeft(CalcVis, st, kc.members[c]), c), c)

(* The numbers texts stand for, and the texts sprintf() makes of numbers. *)
Base(type, base) == CASE type = "int" -> 10 [] type = "hex" -> 16 [] OTHER -> base
Number(v, base) == LET table == IF base = 10 THEN Base10 ELSE Base16
                   IN  IF v \in DOMAIN table THEN table[v] ELSE 0
NumberText(type, n) == CHOOSE v \in (IF type = "int" THEN DOMAIN Base10 ELSE {"0x9", "0x10"}) :
                           Number(v, Base(type, 0)) = n
NumberOf(st, s, base) == [st |-> st, num |-> Number(sym_get_string_value(st, s), Base(SymType[s], base))]
sym_get_range_val(st, s, base) ==
    NumberOf(sym_calc_value(st, s), s, base)
SetNumber(x, s) == [x.st EXCEPT !.cur[s].val = NumberText(SymType[s], x.num)]
OwnNumber(st, s) == Number(st.cur[s].val, Base(SymType[s], 0))
AtMost(hi, s) == IF OwnNumber(hi.st, s) > hi.num THEN SetNumber(hi, s) ELSE hi.st
AtLeast(lo, s, range) ==
    IF OwnNumber(lo.st, s) < lo.num THEN SetNumber(lo, s)
    ELSE AtMost(sym_get_range_val(lo.st, range.b, Base(SymType[s], 0)), s)
InRange(p, s) ==
    IF p.tri = no THEN p.st
    ELSE AtLeast(sym_get_range_val(p.st, p.expr.a, Base(SymType[s], 0)), s, p.expr)
sym_validate_range(st, s) ==
    IF SymType[s] \notin {"int", "hex"} THEN st ELSE InRange(sym_get_range_prop(st, s), s)

(* All values of the choice that nobody asked for are n (confdata.c). *)
set_all_choice_values(st, c) ==
    [st EXCEPT !.user = [s \in Syms |-> IF s \in ToSet(kc.members[c]) \ st.has
                                        THEN [@[s] EXCEPT !.tri = no] ELSE @[s]],
               !.has = @ \cup {c}, !.valid = @ \ {c}, !.need = @ \ {c}]

Written(st, s, cond) == IF cond THEN [st EXCEPT !.write = @ \cup {s}] ELSE st
Asked(st, s) == st.vis[s] # no /\ s \in st.has
(* The value of a boolean or tristate: what was asked for, or its default, and
   what selects and implies it. *)
AtMostTri(v, tri) == [v EXCEPT !.tri = EXPR_AND(@, tri)]
DefaultTri(p) == IF p.tri = no THEN Never(p.st) ELSE AtMostTri(Eval(p.st, p.expr), p.tri)
SetTri(st, s, tri) ==
    LET n == EXPR_OR(tri, st.rev[s])
    IN  [st EXCEPT !.cur[s].tri = IF n = mod /\ (sym_get_type(st, s) = "bool" \/ st.imp[s] = yes)
                                  THEN yes ELSE n]
SetDefault(x, s) ==
    LET tri == EXPR_OR(x.tri, x.st.imp[s]) IN SetTri(Written(x.st, s, tri # no), s, tri)
SetAsked(st, s) == SetTri(st, s, EXPR_AND(st.user[s].tri, st.vis[s]))
SetChosen(st, s) == [st EXCEPT !.cur[s].tri = IF st.cur[ChoiceOf(s)].val = s THEN yes ELSE no]
(* The value of a text: what was asked for, or the value of the default. *)
CopyText(st, s, from) == [st EXCEPT !.cur[s].val = sym_get_string_value(st, from)]
DefaultText(p, s) ==
    IF p.tri = no THEN p.st
    ELSE CopyText(sym_calc_value(Written(p.st, s, TRUE), p.expr.s), s, p.expr.s)
FromDefault(p, s) == IF SymType[s] \in BooleanTypes THEN SetDefault(DefaultTri(p), s) ELSE DefaultText(p, s)
Selected(st, s) == Written(st, s, SymType[s] \in BooleanTypes /\ st.rev[s] # no)
CalcOwn(st, s) ==
    CASE IsMember(s) /\ st.vis[s] = yes -> SetChosen(st, s)
      [] ~(IsMember(s) /\ st.vis[s] = yes) /\ Asked(st, s) ->
           IF SymType[s] \in BooleanTypes THEN SetAsked(st, s) ELSE [st EXCEPT !.cur[s].val = st.user[s].val]
      [] s \in kc.choices /\ ~Asked(st, s) -> SetTri(Selected(st, s), s, no)
      [] OTHER -> FromDefault(sym_get_default_prop(Selected(st, s), s), s)

(* The steps of sym_calc_value(). *)
CalcChoiceFirst(st, s) ==
    IF IsMember(s) /\ s \in st.need
    THEN sym_calc_value([st EXCEPT !.need = @ \ {s}], ChoiceOf(s)) ELSE st
Seen(st, s) == sym_calc_visibility([st EXCEPT !.valid = @ \cup {s}, !.write = @ \ {s}], s)
Empty(st, s) == [Written(st, s, st.vis[s] # no) EXCEPT !.cur[s] = Blank(s)]
CalcChosen(st, s) == IF s \in kc.choices /\ st.cur[s].tri = yes THEN sym_calc_choice(st, s) ELSE st
SetFlags(st, s) ==
    LET values == IF s \in kc.choices /\ s \in st.write
                  THEN {v \in ToSet(kc.members[s]) : st.vis[v] # no} ELSE {}
        a == [st EXCEPT !.mods = IF s = ModulesSym THEN st.cur[s].tri ELSE @,
                        !.write = (@ \cup values) \ (kc.auto \cap {s})]
    IN  IF s \in st.need THEN set_all_choice_values(a, s) ELSE a

sym_calc_value(st, s) ==
    IF s \notin Syms \/ s \in st.valid THEN st
    ELSE SetFlags(sym_validate_range(CalcChosen(CalcOwn(Empty(Seen(CalcChoiceFirst(st, s), s), s), s), s), s), s)

\* Slip: what depends on the symbol that was set is not calculated again.
ClearNothing(st) == [st EXCEPT !.unsaved = TRUE]

sym_clear_all_valid(st) == sym_calc_value([st EXCEPT !.valid = {}, !.unsaved = TRUE], ModulesSym)
CalcAll(st) == FoldLeft(sym_calc_value, st, kc.order)

-----------------------------------------------------------------------------
(* What a front end asks of one symbol. *)
sym_is_changable(st, s) == st.vis[s] > st.rev[s]
\* Slip: m is accepted where only n and y make sense.
WithinBounds(st, s, val) ==
    /\ st.vis[s] # no
    /\ SymType[s] \in BooleanTypes
    /\ sym_is_changable(st, s)
    /\ val >= st.rev[s] /\ val <= st.vis[s]

sym_tristate_within_range(st, s, val) ==
    LET type == sym_get_type(st, s)
    IN  /\ st.vis[s] # no
        /\ type \in BooleanTypes
        /\ ~(type = "bool" /\ val = mod)
        /\ sym_is_changable(st, s)
        /\ ~(st.imp[s] = yes /\ val = mod)
        /\ IF IsMember(s) /\ st.vis[s] = yes THEN val = yes
           ELSE val >= st.rev[s] /\ val <= st.vis[s]

(* Answers [ok, st].  A value of a choice set to y is the choice's value, and
   makes old all values that can be seen. *)
sym_set_tristate_value(st, s, val) ==
    LET oldval == st.cur[s].tri
        c == ChoiceOf(s)
        chosen == c # NoSym /\ val = yes
        seen == {v \in ToSet(kc.members[c]) : st.vis[v] # no}
        a == [st EXCEPT !.has = @ \cup {s}]
        b == IF chosen THEN [a EXCEPT !.user[c].val = s, !.has = @ \cup {c} \cup seen] ELSE a
        d == [b EXCEPT !.user[s].tri = val]
    IN  IF oldval # val /\ ~sym_tristate_within_range(st, s, val) THEN [ok |-> FALSE, st |-> st]
        ELSE [ok |-> TRUE, st |-> IF oldval # val THEN sym_clear_all_valid(d) ELSE d]

(* n, m, y, n, ... until a value is accepted or it is the old one again. *)
RECURSIVE Toggle(_, _, _, _)
UnlessTaken(r, s, oldval, val) ==
    IF r.ok \/ val = oldval THEN r.st ELSE Toggle(r.st, s, oldval, val)
Toggle(st, s, oldval, val) ==
    UnlessTaken(sym_set_tristate_value(st, s, (val + 1) % 3), s, oldval, (val + 1) % 3)
sym_toggle_tristate_value(st, s) == Toggle(st, s, st.cur[s].tri, st.cur[s].tri)

sym_string_valid(type, v) ==
    CASE type = "string" -> TRUE
      [] type = "int" -> v \in DOMAIN Base10
      [] type = "hex" -> v \in DOMAIN Base16 \ {"-1"}
      [] type \in BooleanTypes -> v \in {"y", "m", "n"}
      [] OTHER -> FALSE
(* Answers [ok, st]: looking at the range calculates symbols. *)
BelowHigh(hi, num) == [ok |-> num <= hi.num, st |-> hi.st]
AboveLow(lo, range, s, num) ==
    IF num < lo.num THEN [ok |-> FALSE, st |-> lo.st]
    ELSE BelowHigh(sym_get_range_val(lo.st, range.b, Base(SymType[s], 0)), num)
WithinProp(p, s, num) ==
    IF p.tri = no THEN [ok |-> TRUE, st |-> p.st]
    ELSE AboveLow(sym_get_range_val(p.st, p.expr.a, Base(SymType[s], 0)), p.expr, s, num)
sym_string_within_range(st, s, v) ==
    IF SymType[s] \notin {"int", "hex"} \/ ~sym_string_valid(SymType[s], v)
    THEN [ok |-> sym_string_valid(SymType[s], v), st |-> st]
    ELSE WithinProp(sym_get_range_prop(st, s), s, Number(v, Base(SymType[s], 0)))

TakeText(r, s, v) ==     \* r: is it in range?
    LET new == IF SymType[s] = "hex" THEN HexPrefix(v) ELSE v
        a == [r.st EXCEPT !.has = @ \cup {s}, !.user[s].val = new]
        same == r.st.user[s].val = v /\ new = v
    IN  IF r.ok THEN [ok |-> TRUE, st |-> IF same THEN a ELSE sym_clear_all_valid(a)] ELSE r
sym_set_string_value(st, s, v) ==
    CASE SymType[s] \notin BooleanTypes -> TakeText(sym_string_within_range(st, s, v), s, v)
      [] SymType[s] \in BooleanTypes /\ v = "" -> [ok |-> FALSE, st |-> st]
      [] OTHER -> sym_set_tristate_value(st, s, CASE v = "y" -> yes [] v = "m" -> mod [] v = "n" -> no)

(* The value a symbol would have if nobody asked for one, [st, val]: what a
   minimal configuration may leave out. *)
DefaultAsTri(x, s) ==
    LET tri == EXPR_OR(x.tri, x.st.rev[s])
        rounded == IF tri = mod /\ \/ ~IsMember(s) /\ Tri(x.st, ModulesSym) = no
                                   \/ SymType[s] = "bool"
                   THEN yes ELSE tri
    IN  [st |-> x.st, val |-> TriText(EXPR_OR(rounded, x.st.imp[s]))]
TextOf(st, s) == [st |-> st, val |-> sym_get_string_value(st, s)]
DefaultAsText(p) ==
    IF p.tri = no THEN [st |-> p.st, val |-> ""] ELSE TextOf(sym_calc_value(p.st, p.expr.s), p.expr.s)
DefaultOf(p, s) == IF SymType[s] \in BooleanTypes THEN DefaultAsTri(DefaultTri(p), s) ELSE DefaultAsText(p)
sym_get_string_default(st, s) ==
    DefaultOf(sym_get_default_prop(sym_calc_value(sym_calc_visibility(st, s), ModulesSym), s), s)

-----------------------------------------------------------------------------
(* The search for dependency loops.  x = [check, checked, stack, said, lost]:
   the symbols with SYMBOL_CHECK and SYMBOL_CHECKED, the chain of symbols being
   looked at, whether a loop was reported, and whether the report could not find
   the loop on the chain.  Answers [x, found]. *)
Nothing(x) == [x |-> x, found |-> NoSym]
sym_check_print_recursive(x, last) ==
    LET stack == IF IsMember(last) THEN Append(x.stack, last) ELSE x.stack
        start == IF IsMember(last) THEN ChoiceOf(last) ELSE last
    IN  IF Contains(stack, start) THEN [x EXCEPT !.said = TRUE] ELSE [x EXCEPT !.lost = TRUE]

RECURSIVE sym_check_deps(_, _)
(* The first loop met in a sequence of symbols. *)
CheckSeq(x, q) == FoldLeft(LAMBDA r, s : IF r.found # NoSym THEN r ELSE sym_check_deps(r.x, s), Nothing(x), q)
sym_check_expr_deps(x, e) == CheckSeq(x, SymsOf(e))
CheckedExprs(s) ==
    LET looked == SelectSeq(kc.props[s], LAMBDA p : p.type \notin {"CHOICE", "SELECT"})
        of(p) == IF p.type = "DEFAULT" /\ s \notin kc.choices THEN SymsOf(p.cond) \o SymsOf(p.expr)
                 ELSE SymsOf(p.cond)
    IN  SymsOf(kc.rev[s]) \o FlattenSeq([i \in DOMAIN looked |-> of(looked[i])])
Pop(r) == [r EXCEPT !.x.stack = Front(@)]
Push(x, s) == [x EXCEPT !.stack = Append(@, s)]
sym_check_sym_deps(x, s) == Pop(CheckSeq(Push(x, s), CheckedExprs(s)))
Mark(x, S) == [x EXCEPT !.check = @ \cup S, !.checked = @ \cup S]
Unmark(r, S) == [r EXCEPT !.x.check = @ \ S]
CheckValues(r, c) ==
    FoldLeft(LAMBDA q, v : IF q.found # NoSym THEN q ELSE sym_check_sym_deps(q.x, v), r, kc.members[c])
LoopOfChoice(r, c) == [r EXCEPT !.found = IF @ \in ToSet(kc.members[c]) THEN c ELSE @]
sym_check_choice_deps(x, c) ==
    LET values == ToSet(kc.members[c])
    IN  Pop(LoopOfChoice(Unmark(CheckValues(Unmark(sym_check_sym_deps(Mark(Push(x, c), values \cup {c}), c),
                                                   {c}), c), values), c))
\* Slip: a symbol that was met before is not looked at, even on the chain itself.
CheckOnce(x, s) ==
    IF s \notin Syms \/ s \in x.checked THEN Nothing(x)
    ELSE sym_check_sym_deps([x EXCEPT !.checked = @ \cup {s}], s)

CheckBehind(x, s) ==
    IF IsMember(s) THEN Pop(sym_check_deps(Push(x, s), ChoiceOf(s)))
    ELSE IF s \in kc.choices THEN sym_check_choice_deps(x, s)
    ELSE Unmark(sym_check_sym_deps(Mark(x, {s}), s), {s})
UnlessItself(r, s) == IF r.found = s THEN Nothing(r.x) ELSE r
sym_check_deps(x, s) ==
    IF s \notin Syms THEN Nothing(x)
    ELSE IF s \in x.check THEN [x |-> sym_check_print_recursive(x, s), found |-> s]
    ELSE IF s \in x.checked THEN Nothing(x)
    ELSE UnlessItself(CheckBehind(x, s), s)
NotChecked == [check |-> {}, checked |-> {}, stack |-> <<>>, said |-> FALSE, lost |-> FALSE]
(* conf_parse() asks it of every symbol, and counts the answers. *)
CheckAll == FoldLeft(LAMBDA r, s : LET q == sym_check_deps(r.x, s)
                                   IN  [x |-> q.x, errors |-> r.errors + IF q.found = NoSym THEN 0 ELSE 1],
                     [x |-> NotChecked, errors |-> 0], kc.order)
====
