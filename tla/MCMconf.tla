------------------------------- MODULE MCMconf -------------------------------
(* A small instance of Mconf for TLC. *)
EXTENDS Mconf

Entry(id, tag, hot, needs, to) ==
    [id |-> id, tag |-> tag, hot |-> hot, needs |-> needs, to |-> to]

\* A menu longer than the screen, with a symbol that shows another item, a
\* choice, a text and a submenu; the submenu is empty until the symbol is on.
MCMenus ==
    [m \in {"main", "sub"} |->
        IF m = "main"
        THEN <<Entry(1, "t", "a", 0, "none"), Entry(2, ":", "b", 1, "none"),
               Entry(3, "t", "b", 0, "libc"), Entry(4, "s", "a", 0, "none"),
               Entry(5, "m", "b", 0, "sub")>>
        ELSE <<Entry(6, "s", "b", 1, "none")>>]

MCMembers == [c \in {"libc"} |->
    <<[id |-> 11, hot |-> "a"], [id |-> 12, hot |-> "b"], [id |-> 13, hot |-> "b"]>>]

MCFound == <<[line |-> 0, menu |-> "main", id |-> 5], [line |-> 5, menu |-> "sub", id |-> 6]>>
MCValues == {<<>>, <<"a", "b">>}
=============================================================================
