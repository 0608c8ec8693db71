---- MODULE KconfigAsk ----
(* support/kconfig/conf.c: asking the user about the symbols without an answer,
   and menu_is_visible() of menu.c, which all front ends share.

   Asking goes through a = [st, root, mode, ans, cnt]: the symbols, rootEntry,
   input_mode, what the user answers when asked about a symbol, and conf_cnt.
   An answer the symbol refuses is followed by an empty one, which takes what is
   shown. *)
EXTENDS KconfigConf

(* What there is in the prompt of an entry when its symbol, or what its condition
   mentions, has been calculated. *)
PromptTri(st, m) ==
    LET s == kc.sym[m]
        v == Worth(st, Prompt(kc, m).cond)
        c == ChoiceOf(s)
    IN  IF c # NoSym /\ SymType[s] = "tristate" /\ v = mod /\ Tri(st, c) = yes THEN no ELSE v

(* Answers [st, yes]: an entry that cannot be seen itself is shown for the sake
   of what is below it, and then its symbol counts as answered. *)
RECURSIVE menu_is_visible(_, _)
AnsweredIf(x, s) == [x EXCEPT !.st.has = IF x.yes THEN @ \cup {s} ELSE @]
ShownAt(st, m) ==
    LET s == kc.sym[m]
    IN  IF PromptTri(st, m) # no THEN [st |-> st, yes |-> TRUE]
        ELSE IF s = NoSym \/ Tri(st, s) = no THEN [st |-> st, yes |-> FALSE]
        ELSE AnsweredIf(FoldLeft(LAMBDA x, c : IF x.yes THEN x ELSE menu_is_visible(x.st, c),
                                 [st |-> st, yes |-> FALSE], kc.kids[m]), s)
\* What is calculated: the symbol, or what the condition of a text mentions.
Calculated(m) == IF kc.sym[m] = NoSym THEN SymsOf(Prompt(kc, m).cond) ELSE <<kc.sym[m]>>
ShownIf(v, m) ==
    IF v.tri = no THEN [st |-> v.st, yes |-> FALSE]
    ELSE ShownAt(FoldLeft(sym_calc_value, v.st, Calculated(m)), m)
menu_is_visible(st, m) ==
    IF HasPrompt(kc, m) THEN ShownIf(Eval(st, kc.visible[m]), m) ELSE [st |-> st, yes |-> FALSE]

RECURSIVE menu_get_parent_menu(_)
menu_get_parent_menu(m) ==
    IF m = Root \/ (HasPrompt(kc, m) /\ Prompt(kc, m).type = "MENU") THEN m
    ELSE menu_get_parent_menu(Parent(kc, m))

(* conf_askvalue(): is the user asked at all? *)
conf_askvalue(a, s) ==
    /\ sym_is_changable(a.st, s)
    /\ a.mode = "oldaskconfig" \/ s \notin a.st.has

(* An empty answer takes what is shown. *)
RECURSIVE AnswerText(_, _, _)
OrShownText(r, s, v) == IF r.ok \/ v = "" THEN r.st ELSE AnswerText(r.st, s, "")
AnswerText(st, s, v) ==
    OrShownText(sym_set_string_value(st, s, IF v = "" THEN sym_get_string_value(st, s) ELSE v), s, v)
conf_string(a, s) == IF conf_askvalue(a, s) THEN [a EXCEPT !.st = AnswerText(@, s, a.ans[s])] ELSE a

RECURSIVE AnswerTri(_, _, _)
OrShownTri(r, s, v) == IF r.ok \/ v \notin {"n", "m", "y"} THEN r.st ELSE AnswerTri(r.st, s, "")
AnswerTri(st, s, v) ==
    OrShownTri(sym_set_tristate_value(st, s, IF v \in {"n", "m", "y"} THEN TriOfText(v) ELSE Tri(st, s)), s, v)
\* Slip: an empty answer leaves the symbol without one.
SymUnanswered(a, s) ==
    IF conf_askvalue(a, s) /\ a.ans[s] # "" THEN [a EXCEPT !.st = AnswerTri(@, s, a.ans[s])] ELSE a

conf_sym(a, s) == IF conf_askvalue(a, s) THEN [a EXCEPT !.st = AnswerTri(@, s, a.ans[s])] ELSE a

RECURSIVE conf(_, _)
ConfBelow(a, m) == FoldLeft(conf, a, kc.kids[m])

(* The entries below that can be seen, x = [st, seq]. *)
Offer(x, v, c) == [st |-> v.st, seq |-> IF v.yes /\ kc.sym[c] # NoSym THEN Append(x.seq, c) ELSE x.seq]
Offered(st, m) ==
    FoldLeft(LAMBDA x, c : Offer(x, menu_is_visible(x.st, c), c), [st |-> st, seq |-> <<>>], kc.kids[m])
(* A choice: whether it is on, if that can be changed, and then its value. *)
ChoiceAnswer(a, o, c, asked) ==
    LET at(s) == SelectSeq(o.seq, LAMBDA e : kc.sym[e] = s)
    IN  IF Len(o.seq) = 1 THEN o.seq[1]
        ELSE IF asked /\ at(a.ans[c]) # <<>> THEN at(a.ans[c])[1]
        ELSE at(o.st.cur[c].val)[1]
TakeValue(a, st, v) == ConfBelow([a EXCEPT !.st = sym_set_tristate_value(st, kc.sym[v], yes).st], v)
AskValue(a, o, c, asked) == TakeValue(a, o.st, ChoiceAnswer(a, o, c, asked))
ConfOn(a, m, asked) ==
    IF Tri(a.st, kc.sym[m]) = yes THEN AskValue(a, Offered(a.st, m), kc.sym[m], asked) ELSE a
conf_choice(a, m) ==
    LET c == kc.sym[m] IN
    ConfOn(IF sym_is_changable(a.st, c) THEN [conf_sym(a, c) EXCEPT !.st = sym_calc_value(@, c)] ELSE a,
           m, c \notin a.st.has \/ a.mode = "oldaskconfig")

RECURSIVE check_conf(_, _)
CheckBelow(a, m) == FoldLeft(check_conf, a, kc.kids[m])
(* Asks about an entry and what is below; of a menu other than the one the round
   started from only what is new, unless everything is asked. *)
UnlessChoice(a, m) ==
    IF kc.sym[m] \in kc.choices /\ Tri(a.st, kc.sym[m]) # mod THEN a ELSE ConfBelow(a, m)
AskOne(a, m) ==
    LET s == kc.sym[m]
    IN  CASE s = NoSym -> a
          [] s \in kc.choices -> conf_choice(a, m)
          [] s \notin kc.choices \cup {NoSym} -> IF IsBoolean(s) THEN conf_sym(a, s) ELSE conf_string(a, s)
IsOtherMenu(a, m) == Prompt(kc, m).type = "MENU" /\ a.mode # "oldaskconfig" /\ a.root # m
With(a, st) == [a EXCEPT !.st = st]
ConfShown(a, v, m) ==
    CASE ~v.yes -> With(a, v.st)
      [] v.yes /\ IsOtherMenu(a, m) -> check_conf(With(a, v.st), m)
      [] OTHER -> UnlessChoice(AskOne(With(a, v.st), m), m)
conf(a, m) == ConfShown(a, menu_is_visible(a.st, m), m)

(* Looks for what has no answer, and asks about the menu it is in. *)
IsNew(st, s) == /\ s # NoSym /\ s \notin st.has
                /\ sym_is_changable(st, s) \/ (s \in kc.choices /\ Tri(st, s) = yes)
AskIfNew(a, m) ==
    LET top == menu_get_parent_menu(m)
    IN  IF IsNew(a.st, kc.sym[m]) /\ a.mode # "listnewconfig"
        THEN conf([a EXCEPT !.root = top, !.cnt = @ + 1], top) ELSE a
CheckShown(a, v, m) ==
    IF v.yes THEN CheckBelow(AskIfNew(With(a, v.st), m), m) ELSE With(a, v.st)
check_conf(a, m) == CheckShown(a, menu_is_visible(a.st, m), m)

Asking(st, mode, ans) == [st |-> st, root |-> Root, mode |-> mode, ans |-> ans, cnt |-> 0]
====
