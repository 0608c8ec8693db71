---- MODULE KconfigConf ----
(* support/kconfig/confdata.c: configuration files and the state of the symbols. *)
EXTENDS KconfigSym

(* conf_set_sym_val(): does the symbol take this text? *)
Takes(s, v) == IF IsBoolean(s) THEN v \in {"n", "y"} \/ (v = "m" /\ SymType[s] = "tristate")
               ELSE sym_string_valid(SymType[s], v)
TriOfText(v) == CASE v = "y" -> yes [] v = "m" -> mod [] OTHER -> no

(* A line about a value of a choice is also about the choice.  x = [st, warned]. *)
\* Slip: the choice hears of its value, but not which one it is.
SetChoiceUnnamed(x, s) ==
    LET c == ChoiceOf(s)
    IN  IF c = NoSym THEN x ELSE [x EXCEPT !.st.user[c].tri = EXPR_OR(@, x.st.user[s].tri)]

SetChoice(x, s) ==
    LET c == ChoiceOf(s)
        tri == x.st.user[s].tri
        before == x.st.user[c].tri
        after == [x.st EXCEPT !.user[c].tri = EXPR_OR(@, tri)]
    IN  IF c = NoSym THEN x
        ELSE IF tri = mod /\ before = yes
             THEN [st |-> [after EXCEPT !.has = @ \ {c}], warned |-> TRUE]
        ELSE IF tri = yes
             THEN [st |-> [after EXCEPT !.user[c].val = s], warned |-> x.warned \/ before # no]
        ELSE [x EXCEPT !.st = after]

ReadLine(x, l) ==
    LET s == l.sym
        notSet == l.val = "n"
        twice == x.warned \/ s \in x.st.has
        set == [x.st EXCEPT !.has = @ \cup {s},
                            !.user[s] = IF IsBoolean(s) THEN [@ EXCEPT !.tri = TriOfText(l.val)]
                                        ELSE [@ EXCEPT !.val = l.val]]
    IN  IF s \notin Syms THEN [x EXCEPT !.st.unsaved = TRUE]
        ELSE IF Takes(s, l.val) THEN SetChoice([st |-> set, warned |-> twice], s)
        ELSE [x EXCEPT !.warned = twice \/ ~notSet]

(* The answers of a file replace all there were. *)
conf_read_simple(st, file) ==
    LET clean == [st EXCEPT !.has = kc.choices, !.valid = {}, !.user = [s \in Syms |-> Unset]]
    IN  FoldLeft(ReadLine, [st |-> clean, warned |-> FALSE], file.lines)

(* First pass of conf_read(): does any calculated value differ from what the
   file says, or is any missing from it?  Second pass: forget the answers
   that cannot be seen (unless the file was out of date, when they may become
   visible), and those out of range. *)
Differs(st, s) ==
    /\ s \notin kc.choices \cup kc.auto
    /\ IF s \in st.has /\ s \in st.write
       THEN IF IsBoolean(s) THEN st.user[s].tri # st.cur[s].tri ELSE st.user[s].val # st.cur[s].val
       ELSE s \in st.has \/ s \in st.write
Compare(x, t, s) == [st |-> t, unsaved |-> x.unsaved \/ Differs(t, s)]
FirstPass(x, s) == Compare(x, sym_calc_value(x.st, s), s)
KeepInRange(x, r, s) ==
    IF r.ok THEN [x EXCEPT !.st = r.st]
    ELSE [st |-> [r.st EXCEPT !.has = @ \ {s}, !.valid = @ \ {s}], unsaved |-> TRUE]
SecondPass(x, s) ==
    LET a == IF x.st.vis[s] = no /\ ~x.unsaved THEN [x.st EXCEPT !.has = @ \ {s}] ELSE x.st
    IN  IF s \notin x.st.has \/ IsMember(s) THEN x
        ELSE IF IsBoolean(s) THEN [x EXCEPT !.st = a]
        ELSE KeepInRange(x, sym_string_within_range(a, s, a.user[s].val), s)
BothPasses(r) ==
    FoldLeft(SecondPass,
             FoldLeft(FirstPass, [st |-> sym_calc_value(r.st, ModulesSym), unsaved |-> FALSE], kc.order),
             kc.order)
ReadDone(x, r) == [x.st EXCEPT !.unsaved = @ \/ r.warned \/ x.unsaved]
ReadFrom(r) == ReadDone(BothPasses(r), r)
conf_read(st, file) ==
    IF file.state = "absent" THEN sym_calc_value([st EXCEPT !.unsaved = TRUE], ModulesSym)
    ELSE ReadFrom(conf_read_simple([st EXCEPT !.unsaved = FALSE], file))

-----------------------------------------------------------------------------
(* The entries that write a symbol: a symbol with two entries is written at the
   first.  x = [st, lines]. *)
Entries == SelectSeq(Tail(Preorder(kc, Root)), LAMBDA m : kc.sym[m] \notin kc.choices \cup {NoSym})
conf_write_symbol(x, t, s) == [st |-> t, lines |-> Append(x.lines, Line(s, sym_get_string_value(t, s)))]
WriteOnce(x, t, s) ==
    IF s \in t.write THEN conf_write_symbol(x, [t EXCEPT !.write = @ \ {s}], s) ELSE [x EXCEPT !.st = t]
WriteEntry(x, m) == WriteOnce(x, sym_calc_value(x.st, kc.sym[m]), kc.sym[m])
(* conf_write() up to the point where the file is closed. *)
ConfigLines(st) ==
    FoldLeft(WriteEntry, [st |-> IF st.unsaved THEN st ELSE sym_clear_all_valid(st), lines |-> <<>>], Entries)

(* What the minimal configuration leaves out: what the user cannot change, what
   has its default, and the default value of a choice. *)
\* Slip: any y of a choice is left out, the default or not.
AnyChosen(d, s) == SymType[s] = "bool" /\ d.st.cur[s].tri = yes

(* s is what the choice has by default; d is the answer of sym_choice_default(). *)
DefaultChosen(d, s) ==
    /\ ChoiceOf(s) \notin kc.optional /\ d.sym = s
    /\ SymType[s] = "bool" /\ d.st.cur[s].tri = yes
UnlessChosen(x, d, s) == IF DefaultChosen(d, s) THEN [x EXCEPT !.st = d.st] ELSE conf_write_symbol(x, d.st, s)
UnlessDefault(x, d, s) ==
    IF sym_get_string_value(d.st, s) = d.val THEN [x EXCEPT !.st = d.st]
    ELSE IF IsMember(s) THEN UnlessChosen(x, sym_choice_default(d.st, ChoiceOf(s)), s)
    ELSE conf_write_symbol(x, d.st, s)
WriteChanged(x, t, s) ==
    IF s \in t.write /\ sym_is_changable(t, s)
    THEN UnlessDefault(x, sym_get_string_default([t EXCEPT !.write = @ \ {s}], s), s)
    ELSE [x EXCEPT !.st = [t EXCEPT !.write = @ \ {s}]]
DefconfigEntry(x, m) == WriteChanged(x, sym_calc_value(x.st, kc.sym[m]), kc.sym[m])
conf_write_defconfig(st) == FoldLeft(DefconfigEntry, [st |-> sym_clear_all_valid(st), lines |-> <<>>], Entries)

(* auto.conf has what is not n; the files include/config/... that a symbol's
   users depend on are touched when its value is not the one in auto.conf; a
   symbol that is gone from Kconfig comes back by its line there, unless that is
   a quoted text. *)
AutoEntry(lines, s) == \E i \in DOMAIN lines : lines[i].sym = s
AutoValue(lines, s) == lines[CHOOSE i \in DOMAIN lines : lines[i].sym = s].val
\* Slip: what is no longer set is not compared.
TouchesWritten(st, auto, s) ==
    /\ s \in st.write
    /\ IF AutoEntry(auto.lines, s) THEN sym_get_string_value(st, s) # AutoValue(auto.lines, s)
       ELSE ~(IsBoolean(s) /\ st.cur[s].tri = no)

Touches(st, auto, s) ==
    /\ s \notin kc.auto
    /\ IF s \in st.write
       THEN IF AutoEntry(auto.lines, s) THEN sym_get_string_value(st, s) # AutoValue(auto.lines, s)
            ELSE ~(IsBoolean(s) /\ st.cur[s].tri = no)
       ELSE AutoEntry(auto.lines, s)
Gone(lines) == {lines[i].sym : i \in DOMAIN lines} \ Syms
(* conf_write_autoconf(): the symbols calculated again, what conf_split_config()
   touches, and the lines of auto.conf. *)
AutoOf(t, auto) ==
    LET kept == SelectSeq(kc.order, LAMBDA s : s \in t.write /\ sym_get_string_value(t, s) # "n")
    IN  [st |-> t,
         touched |-> {s \in Syms : Touches(t, auto, s)} \cup {s \in Gone(auto.lines) : SymType[s] # "string"},
         lines |-> [i \in DOMAIN kept |-> Line(kept[i], sym_get_string_value(t, kept[i]))]]
Autoconf(st, auto) == AutoOf(CalcAll([sym_clear_all_valid(st) EXCEPT !.valid = {}]), auto)

-----------------------------------------------------------------------------
(* Answers for all symbols nobody has answered: y, m or n for all, the
   defaults, or at random; pick is what the random numbers make of each: a value
   [tri, val]. *)
NewValue(s, mode, pick) ==
    CASE mode = "yes" -> yes
      [] mode = "mod" -> mod
      [] mode = "no" -> IF s \in kc.allnoy THEN yes ELSE no
      [] mode = "random" -> IF SymType[s] = "bool" /\ pick[s].tri = mod THEN yes ELSE pick[s].tri
SetNew(st, mode, pick) ==
    LET new == {s \in Syms \ (st.has \cup st.valid) : IsBoolean(s)}
        now == IF mode = "default" THEN {} ELSE new
    IN  [st EXCEPT !.user = [s \in Syms |-> IF s \in now THEN [@[s] EXCEPT !.tri = NewValue(s, mode, pick)]
                                            ELSE @[s]],
                   !.has = @ \cup (IF mode = "random" THEN now \ kc.choices ELSE now)]
randomize_choice_values(st, c, pick) ==
    LET members == ToSet(kc.members[c])
        v == pick[c].val
    IN  IF st.cur[c].tri # yes THEN st
        ELSE [st EXCEPT !.user = [s \in Syms |-> IF s = c THEN [@[s] EXCEPT !.val = v]
                                                 ELSE IF s \in members
                                                 THEN [@[s] EXCEPT !.tri = IF s = v THEN yes ELSE no]
                                                 ELSE @[s]],
                        !.has = @ \cup members \cup {c}, !.valid = @ \ (members \cup {c})]
(* Answers [st, changed]. *)
NeedChoices(st, mode) ==
    LET needed == {s \in Syms : IsMember(s) \/ (s \in kc.choices /\ s \notin st.has)}
    IN  IF mode = "random" THEN st ELSE [st EXCEPT !.need = @ \cup needed]
SetChoiceValues(st, c, mode, pick) ==
    IF mode = "random" THEN [st |-> randomize_choice_values(st, c, pick), changed |-> st.cur[c].tri = yes]
    ELSE [st |-> set_all_choice_values(st, c), changed |-> TRUE]
conf_set_all_new_symbols(st, mode, pick) ==
    FoldLeft(LAMBDA x, c : IF c \in x.st.has \/ c \notin kc.choices THEN x
                           ELSE SetChoiceValues(sym_calc_value(x.st, c), c, mode, pick),
             [st |-> NeedChoices(sym_clear_all_valid(SetNew(st, mode, pick)), mode),
              changed |-> \E s \in Syms \ (st.has \cup st.valid) : IsBoolean(s)],
             kc.order)
====
