---- MODULE KconfigText ----
(* support/kconfig/confdata.c: the text of configuration files.

   A file is [lines, state]: state is "absent", "torn" (its writer was
   killed half way) or "whole", and a line is [sym, val]; the value "n" of a
   boolean or tristate is the line "# SYM is not set".  Headings and comments
   are left out: the reader skips them. *)
EXTENDS KconfigTypes, SequencesExt

VARIABLE kc    \* the Kconfig that was read

Syms == ToSet(kc.order)

Absent == [lines |-> <<>>, state |-> "absent"]
Whole(lines) == [lines |-> lines, state |-> "whole"]
Line(s, v) == [sym |-> s, val |-> v]

(* The lines of auto.conf as autoconf.h has them, y and m both a macro that is 1, and the
   tristates of them as tristate.conf has them. *)
Macro(l) == [macro |-> <<l.sym, IF IsBoolean(l.sym) /\ l.val = "m" THEN "_MODULE" ELSE "">>,
             val |-> CASE IsBoolean(l.sym) -> "1" [] SymType[l.sym] = "hex" -> HexPrefix(l.val)
                       [] OTHER -> l.val]
Macros(lines) == [i \in DOMAIN lines |-> Macro(lines[i])]
Tristates(lines) ==
    LET of == SelectSeq(lines, LAMBDA l : SymType[l.sym] = "tristate")
    IN  [i \in DOMAIN of |-> Line(of[i].sym, IF of[i].val = "y" THEN "Y" ELSE "M")]
====
