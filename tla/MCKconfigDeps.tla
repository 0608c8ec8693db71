---- MODULE MCKconfigDeps ----
(* Two booleans, a tristate, the modules symbol, an int and a hex symbol, and
   the constants they are compared with. *)
EXTENDS KconfigPrint, TLC

MCSymType == [A |-> "bool", B |-> "bool", T |-> "tristate", MODULES |-> "bool",
              N |-> "int", H |-> "hex", y |-> "unknown", m |-> "unknown", n |-> "unknown"]
          @@ ("10" :> "unknown")
MCConst == {"y", "m", "n"}

World(a, b, t, mods, i, h) ==
    LET tri == [A |-> a, B |-> b, T |-> t, MODULES |-> mods, y |-> yes]
    IN  [tri |-> [s \in DOMAIN MCSymType |->
                    IF s \in DOMAIN tri THEN tri[s] ELSE IF s = "m" THEN mod ELSE no],
         txt |-> [s \in DOMAIN MCSymType |->
                    IF s = "N" THEN i ELSE IF s = "H" THEN h
                    ELSE IF s \in {"A", "B", "T", "MODULES"} THEN TriText(tri[s]) ELSE s]]
MCWorlds ==
    {World(a, b, t, yes, "9", "0x10") : a \in {no, yes}, b \in {no, yes}, t \in {no, mod, yes}}
    \cup {World(a, no, t, no, "-1", "9") : a \in {no, yes}, t \in {no, yes}}
    \cup {World(a, yes, t, yes, i, "9") : a \in {no, yes}, t \in {no, mod}, i \in {"-1", "16"}}

Leaves == {Sym("A"), Sym("T"), Sym("m"), Comp("EQ", "A", "n"), Comp("NE", "A", "m"),
           Comp("EQ", "T", "y"), Comp("EQ", "T", "m"), Comp("NE", "T", "m"), Comp("NE", "T", "n")}
Ordered == {Comp("LT", "N", "10"), Comp("GE", "H", "N"), Comp("LE", "T", "A")}
Pairs == {Two(t, l, r) : t \in Binary, l \in Leaves, r \in Leaves}
MCConditions == {Sym("A"), Two("OR", Sym("B"), Sym("T")), Not(Two("AND", Comp("LT", "N", "10"), Sym("m")))}
MCPropConds ==
    {NoExpr} \cup Leaves \cup Ordered \cup Pairs \cup {Not(e) : e \in Pairs \cup Leaves \cup Ordered}
    \cup {Two(t, Sym("B"), Not(e)) : t \in Binary, e \in Ordered \cup {Sym("N"), Comp("EQ", "A", "n"), Not(Sym("T"))}}
    \cup {Two(t, Two(u, Sym("A"), e), Two(u, f, Sym("B"))) :
             t \in Binary, u \in Binary, e \in {Sym("B"), Sym("T")},
             f \in {Sym("A"), Not(Sym("A")), Comp("NE", "T", "y")}}
====
