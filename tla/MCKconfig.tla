---- MODULE MCKconfig ----
(* Small Kconfig files for KconfigSession. *)
EXTENDS KconfigSession, TLC

MCTypes == <<"bool", "tristate", "int", "string", "unknown">>
MCNames == <<{"A", "B", "MODULES", "CH", "X", "V", "W"}, {"T", "S", "TC"}, {"N"}, {"P"},
             {"y", "m", "n", "9", "10", "16"}>>
MCSymType == [s \in UNION {MCNames[i] : i \in 1..5} |-> MCTypes[CHOOSE i \in 1..5 : s \in MCNames[i]]]
MCConst == {"y", "m", "n"}

(* An entry of a Kconfig file: its name, the entry it is in, its symbol, and its
   conditions; and a property of one. *)
E(m, in, s, d, v) == [m |-> m, in |-> in, s |-> s, d |-> d, v |-> v]
Config(s, in, d) == E(s, in, s, d, NoExpr)
P(at, type, e, c) == [at |-> at, prop |-> [type |-> type, menu |-> at, cond |-> c, expr |-> e]]
Prompted(at, c) == P(at, "PROMPT", NoExpr, c)
Default(at, e, c) == P(at, "DEFAULT", e, c)
Select(at, t, c) == P(at, "SELECT", Sym(t), c)
Between(at, lo, hi) == P(at, "RANGE", [t |-> "RANGE", a |-> lo, b |-> hi], NoExpr)

Kconfig(order, es, decl, choices) ==
    LET all == ToSet(es)
        names == {e.m : e \in all} \cup {Root}
        of(m) == CHOOSE e \in all : e.m = m
        kids(p) == SelectSeq([i \in DOMAIN es |-> es[i].m], LAMBDA m : of(m).in = p)
    IN  [order |-> order,
         sym |-> [m \in names |-> IF m = Root THEN NoSym ELSE of(m).s],
         kids |-> [m \in names |-> kids(m)],
         dep |-> [m \in names |-> IF m = Root THEN NoExpr ELSE of(m).d],
         visible |-> [m \in names |-> IF m = Root THEN NoExpr ELSE of(m).v],
         decl |-> <<P(Root, "MENU", NoExpr, NoExpr)>> \o decl,
         choices |-> choices, optional |-> ToSet(order) \ choices,
         auto |-> choices, allnoy |-> {}]

(* A tristate with modules, what it selects, a range in a menu that is only
   shown with it, and a choice one value of which depends on a symbol. *)
Board ==
    Kconfig(<<"W", "T", "N", "CH", "A", "S", "V", "MODULES">>,
      <<Config("MODULES", Root, NoExpr), Config("A", Root, NoExpr), Config("T", Root, Sym("A")),
        E("menu", Root, NoSym, NoExpr, Sym("T")), Config("N", "menu", NoExpr),
        E("choice", Root, "CH", NoExpr, NoExpr), Config("V", "choice", NoExpr), Config("W", "choice", Sym("A")),
        Config("S", Root, NoExpr)>>,
      <<Prompted("MODULES", NoExpr), Default("MODULES", Sym("y"), NoExpr), Prompted("A", NoExpr),
        Prompted("T", NoExpr), Default("T", Sym("m"), NoExpr), Select("T", "S", NoExpr),
        P("menu", "MENU", NoExpr, NoExpr), Prompted("N", NoExpr), Default("N", Sym("10"), NoExpr), Between("N", "9", "16"),
        Prompted("choice", NoExpr), Default("choice", Sym("W"), NoExpr), Prompted("V", NoExpr), Prompted("W", NoExpr)>>,
      {"CH"})
(* Its next version: the choice has one more value, T can only be implied, there
   is a text, and an if around what depends on A. *)
Next1 ==
    Kconfig(<<"X", "T", "P", "CH", "B", "A", "S", "V", "W", "MODULES">>,
      <<Config("MODULES", Root, NoExpr), Config("A", Root, NoExpr),
        E("if", Root, NoSym, Sym("A"), NoExpr), Config("B", "if", NoExpr), Config("P", "if", Sym("B")),
        E("choice", Root, "CH", NoExpr, NoExpr), Config("V", "choice", NoExpr), Config("W", "choice", Sym("A")),
        Config("X", "choice", Not(Sym("B"))),
        Config("T", Root, Two("OR", Sym("S"), Sym("V"))), Config("S", Root, NoExpr)>>,
      <<Prompted("MODULES", NoExpr), Prompted("A", NoExpr),
        Prompted("B", NoExpr), P("B", "IMPLY", Sym("T"), NoExpr), Prompted("P", NoExpr),
        Default("P", Sym("9"), Sym("V")), Default("P", Sym("16"), NoExpr),
        Prompted("choice", NoExpr), Default("choice", Sym("X"), NoExpr),
        Prompted("V", NoExpr), Prompted("W", NoExpr), Prompted("X", NoExpr), Prompted("S", NoExpr)>>,
      {"CH"})
(* A tristate choice with a boolean value, and a symbol that excludes the one
   before it. *)
Tri3 ==
    Kconfig(<<"A", "V", "S", "TC", "T", "X", "B", "MODULES">>,
      <<Config("MODULES", Root, NoExpr), Config("A", Root, NoExpr),
        Config("B", Root, Sym("A")), Config("X", Root, Not(Sym("B"))),
        E("choice", Root, "TC", Sym("A"), NoExpr), Config("V", "choice", NoExpr), Config("S", "choice", NoExpr),
        Config("T", "choice", NoExpr)>>,
      <<Prompted("MODULES", NoExpr), Default("MODULES", Sym("y"), NoExpr), Prompted("A", NoExpr),
        Prompted("B", NoExpr), Prompted("X", NoExpr),
        Prompted("choice", NoExpr), Prompted("V", NoExpr), Prompted("S", NoExpr), Prompted("T", NoExpr)>>,
      {"TC"})
(* Two loops, one of them through the values of a choice. *)
Loop(back) ==
    Kconfig(<<"A", "W", "CH", "B", "S", "V">>,
      <<Config("A", Root, Sym("B")), Config("B", Root, NoExpr), E("choice", Root, "CH", NoExpr, NoExpr),
        Config("V", "choice", Sym("S")), Config("W", "choice", NoExpr), Config("S", Root, NoExpr)>>,
      <<Prompted("A", NoExpr), Prompted("B", NoExpr), Prompted("choice", NoExpr), Prompted("V", NoExpr),
        Prompted("W", NoExpr)>> \o back, {"CH"})
MCKconfigs == [board |-> Board, newer |-> Next1, tri |-> Tri3,
               loop |-> Loop(<<Default("B", Sym("y"), Sym("A"))>>),
               round |-> Loop(<<Default("S", Sym("y"), Sym("W"))>>)]
L(s, v) == Line(s, v)
MCFiles == {Absent, Whole(<<L("A", "y"), L("T", "y"), L("N", "16"), L("V", "y")>>)}
MCModes == AllModes
\* A menu that is saved again after a failure writes an empty file.
MCMayFail == AllModes \ {"menuconfig"}
Habit(h) == [s \in DOMAIN MCSymType |-> h]
MCHabits == {Habit(""), Habit("y"), [Habit("n") EXCEPT !.CH = "V", !.TC = "S", !.N = "16", !.P = "10"]}
MCEdits == {L("A", "n"), L("T", "y"), L("T", "m"), L("S", "m"), L("N", "9"), L("P", "10"), L("W", "y"), L("MODULES", "n")}
MCPicks == {[s \in DOMAIN MCSymType |-> [tri |-> p[1], val |-> p[2]]] :
              p \in {<<no, "V">>, <<mod, "V">>, <<mod, "S">>, <<yes, "S">>, <<yes, "W">>}}
====
