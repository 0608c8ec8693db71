------------------------------ MODULE Lxdialog ------------------------------
(***************************************************************************)
(* support/kconfig/lxdialog: the dialogs of menuconfig.  One dialog is     *)
(* open at a time and waits for a key.  It is a record; its field screen   *)
(* is what the terminal shows, drawn and scrolled by the calls the code    *)
(* makes, its other fields are the variables of the C function.            *)
(*                                                                         *)
(* A list shows items, counted from 0 as item_set() does.  A row of the    *)
(* screen is the item drawn on it and whether it is highlighted.           *)
(***************************************************************************)
EXTENDS Integers, Sequences, SequencesExt, FiniteSets

Least(a, b) == IF a < b THEN a ELSE b
Most(a, b) == IF a > b THEN a ELSE b
Repeat(Op(_), x, n) ==
    LET after[k \in 0..n] == IF k = 0 THEN x ELSE Op(after[k - 1]) IN after[n]

BlankRow == [item |-> -1, lit |-> FALSE]
Draw(d, row, lit) == [d EXCEPT !.screen[row] = [item |-> d.scroll + row, lit |-> lit]]
Scrl(d, n) ==
    [d EXCEPT !.screen = [r \in DOMAIN @ |-> IF r + n \in DOMAIN @ THEN @[r + n] ELSE BlankRow],
              !.scroll = @ + n]
Shift(d, n) == Draw(Scrl(d, n), IF n < 0 THEN 0 ELSE d.max - 1, FALSE)

\* The index of the item that an id has in the list, {} when it is not there.
At(d, id) == {k \in 0..Len(d.items) - 1 : d.items[k + 1].id = id}
Taken(d) == d.items[d.scroll + d.choice + 1]

\* Left, right and tab go round the buttons.
Turn(d, key, last) ==
    LET b == IF key = "left" THEN d.button - 1 ELSE d.button + 1
        button == IF b < 0 THEN last ELSE IF b > last THEN 0 ELSE b
    IN  [d EXCEPT !.button = button, !.litButton = button]

----------------------------------------------------------------------------
(* dialog_menu()                                                           *)

\* The saved scroll position is used if the wanted item is on that screen and
\* the screen is full.
ScrollBelieved(d, wanted, max) == d.s_scroll <= wanted      \* slip
ScrollFits(d, wanted, max) ==
    /\ d.s_scroll <= wanted /\ d.s_scroll + max > wanted
    /\ d.s_scroll >= 0 /\ d.s_scroll + max <= Len(d.items)

\* The part after do_resize: the highlighted item is found again, the scroll
\* position chosen, and the rows are drawn from first_item.
LayoutMenu(d) ==
    LET n == Len(d.items)
        max == Least(d.height, n)
        here == At(d, d.selected)
        wanted == IF here = {} THEN d.choice ELSE CHOOSE k \in here : TRUE
        kept == ScrollFits(d, wanted, max)
        far == ~kept /\ wanted >= max
        scroll == IF kept THEN d.s_scroll
                  ELSE IF ~far THEN 0
                  ELSE IF wanted >= n - max \div 2 THEN n - max
                  ELSE wanted - max \div 2
        first == IF kept \/ far THEN scroll ELSE d.first_item
        choice == wanted - scroll
    IN  [d EXCEPT
            !.max = max, !.scroll = scroll, !.first_item = first, !.choice = choice,
            !.screen = [r \in 0..max - 1 |-> [item |-> first + r, lit |-> r = choice]],
            !.litButton = 0]

dialog_menu(items, selected, s_scroll, height) ==
    LayoutMenu([kind |-> "menu", items |-> items, selected |-> selected, s_scroll |-> s_scroll,
                height |-> height, max |-> 0, scroll |-> 0, first_item |-> 0, choice |-> 0,
                button |-> 0, litButton |-> 0, screen |-> <<>>])

\* A letter leads to the next item on the screen that has it, round the screen.
HotRow(d, key) ==
    LET has == {r \in 0..d.max - 1 : d.items[d.scroll + r + 1].hot = key}
        after == {r \in has : r > d.choice}
        rows == IF after # {} THEN after ELSE has
    IN  CHOOSE r \in rows : \A other \in rows : r <= other
HasHot(d, key) == \E r \in 0..d.max - 1 : d.items[d.scroll + r + 1].hot = key

MenuUp(d) == IF d.choice < 2 /\ d.scroll > 0 THEN Shift(d, -1)
             ELSE [d EXCEPT !.choice = Most(@ - 1, 0)]
MenuDown(d) == IF d.choice > d.max - 3 /\ d.scroll + d.max < Len(d.items) THEN Shift(d, 1)
               ELSE [d EXCEPT !.choice = Least(@ + 1, d.max - 1)]
PageUp(d) == IF d.scroll > 0 THEN Shift(d, -1)
             ELSE [d EXCEPT !.choice = Most(@ - 1, 0)]
PageDown(d) == IF d.scroll + d.max < Len(d.items) THEN Shift(d, 1)
               ELSE [d EXCEPT !.choice = Least(@ + 1, d.max - 1)]

MenuMoves == {"up", "down", "pageup", "pagedown"}
MoveMenu(d, key) ==
    LET off == Draw(d, d.choice, FALSE)
        moved == CASE key = "up" -> MenuUp(off)
                   [] key = "down" -> MenuDown(off)
                   [] key = "pageup" -> Repeat(PageUp, off, d.max)
                   [] key = "pagedown" -> Repeat(PageDown, off, d.max)
                   [] OTHER -> [off EXCEPT !.choice = HotRow(d, key)]
    IN  Draw(moved, moved.choice, TRUE)

----------------------------------------------------------------------------
(* dialog_checklist(): scroll and choice live through a resize.            *)

LayoutList(d) ==
    LET max == Least(d.height, Len(d.items))
        past == Most(d.choice - d.height + 1, 0)
        scroll == IF past > 0 THEN past ELSE d.scroll
    IN  [d EXCEPT
            !.max = max, !.scroll = scroll, !.choice = @ - past,
            !.screen = [r \in 0..max - 1 |->
                          [item |-> scroll + r, lit |-> r = d.choice - past]],
            !.litButton = 0]

\* The item marked by the caller, else the one with the cross, else the first.
dialog_checklist(items, active, crossed, height) ==
    LET d == [kind |-> "list", items |-> items, height |-> height, max |-> 0, scroll |-> 0,
              choice |-> 0, button |-> 0, litButton |-> 0, screen |-> <<>>]
        start == IF At(d, active) # {} THEN At(d, active)
                 ELSE IF At(d, crossed) # {} THEN At(d, crossed) ELSE {0}
    IN  LayoutList([d EXCEPT !.choice = CHOOSE k \in start : TRUE])

ToRow(d, row) == IF row = d.choice THEN d
                 ELSE Draw(Draw([d EXCEPT !.choice = row], d.choice, FALSE), row, TRUE)

\* At an edge the window scrolls below a highlight that stays on its row.
ScrollList(d, n) ==
    LET off == IF d.height > 1 THEN Scrl(Draw(d, d.choice, FALSE), n)
               ELSE [d EXCEPT !.scroll = @ + n]
    IN  Draw(off, d.choice, TRUE)

MoveList(d, key) ==
    CASE key = "up" /\ d.choice > 0 -> ToRow(d, d.choice - 1)
      [] key = "up" /\ d.choice = 0 -> IF d.scroll = 0 THEN d ELSE ScrollList(d, -1)
      [] key = "down" /\ d.choice < d.max - 1 -> ToRow(d, d.choice + 1)
      [] key = "down" /\ d.choice = d.max - 1 ->
            IF d.scroll + d.choice >= Len(d.items) - 1 THEN d ELSE ScrollList(d, 1)
      [] OTHER -> ToRow(d, CHOOSE r \in 0..d.max - 1 :
                            /\ d.items[d.scroll + r + 1].hot = key
                            /\ \A q \in 0..r - 1 : d.items[d.scroll + q + 1].hot # key)
=============================================================================
