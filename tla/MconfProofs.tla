---------------------------- MODULE MconfProofs ----------------------------
(***************************************************************************)
(* The dialogs show what their keys act on: for any menus, choices, texts  *)
(* and results, on a screen of any size.  First the dialogs one by one,    *)
(* each of their loops by induction; then the session that opens them.     *)
(***************************************************************************)
EXTENDS Mconf, SequenceTheorems, FiniteSetTheorems, TLAPS

IsList(s) == s \in Seq(ToSet(s))

\* Every turn of a loop over a dialog leaves its other fields alone.
MenuFields == {"kind", "items", "selected", "s_scroll", "height", "max", "scroll", "first_item",
               "choice", "button", "litButton", "screen"}

\* The sequences whose members nobody knows have a length and no gaps.
LEMMA Lists ==
  /\ IsList(<<>>)
  /\ \A s : IsList(s) => /\ Len(s) \in Nat /\ DOMAIN s = 1..Len(s)
                         /\ (s = <<>> <=> Len(s) = 0)
  /\ \A S : \A s \in Seq(S) : IsList(s)
  <1>1. IsList(<<>>)
    BY DEF IsList
  <1>2. \A s : IsList(s) => /\ Len(s) \in Nat /\ DOMAIN s = 1..Len(s)
                            /\ (s = <<>> <=> Len(s) = 0)
    BY DEF IsList
  <1>3. ASSUME NEW S, NEW s \in Seq(S) PROVE IsList(s)
    BY DEF IsList, ToSet
  <1> QED BY <1>1, <1>2, <1>3

\* What a menu is, whatever its rows show.
MenuFits(d) ==
    /\ MenuFields \subseteq DOMAIN d /\ d.kind = "menu" /\ IsList(d.items)
    /\ d.height \in Nat \ {0} /\ d.max = Least(d.height, Len(d.items))
    /\ d.scroll \in 0..Len(d.items) - d.max /\ d.s_scroll \in Nat
    /\ d.choice \in 0..d.max - 1 \/ (d.items = <<>> /\ d.choice = 0)
    /\ DOMAIN d.screen = 0..d.max - 1 /\ d.button \in 0..4

RowsTrue(d) ==
    \A r \in 0..d.max - 1 : d.screen[r] = [item |-> d.scroll + r, lit |-> r = d.choice]
\* The highlight has been taken away, to be drawn elsewhere.
Dark(d) == \A r \in 0..d.max - 1 : d.screen[r] = [item |-> d.scroll + r, lit |-> FALSE]

Same(d, e) == /\ DOMAIN e = DOMAIN d /\ e.items = d.items /\ e.max = d.max
              /\ e.button = d.button /\ e.litButton = d.litButton

\* Wherever a menu is laid out, its highlight is on the screen; and the rows show the
\* items unless first_item is left over from an earlier layout, at another height.
LEMMA LayoutFits ==
  ASSUME NEW d, MenuFields \subseteq DOMAIN d, d.kind = "menu", IsList(d.items),
         d.height \in Nat \ {0}, d.s_scroll \in Nat, d.button \in 0..4,
         d.choice \in 0..Len(d.items) - 1 \/ (d.items = <<>> /\ d.choice = 0)
  PROVE  LET e == LayoutMenu(d)
         IN  /\ MenuFits(e) /\ DOMAIN e = DOMAIN d /\ e.button = d.button /\ e.litButton = 0
             /\ d.first_item = 0 => RowsTrue(e)
  <1> DEFINE n == Len(d.items)
             max == Least(d.height, n)
             here == At(d, d.selected)
             wanted == IF here = {} THEN d.choice ELSE CHOOSE k \in here : TRUE
             kept == ScrollFits(d, wanted, max)
             far == ~kept /\ wanted >= max
             scroll == IF kept THEN d.s_scroll
                       ELSE IF ~far THEN 0
                       ELSE IF wanted >= n - max \div 2 THEN n - max
                       ELSE wanted - max \div 2
             first == IF kept \/ far THEN scroll ELSE d.first_item
             choice == wanted - scroll
             screen == [r \in 0..max - 1 |-> [item |-> first + r, lit |-> r = choice]]
             e == LayoutMenu(d)
  <1>1. n \in Nat /\ (d.items = <<>> <=> n = 0)
    BY Lists
  <1>2. wanted \in 0..n - 1 \/ (n = 0 /\ wanted = 0)
    BY <1>1 DEF At
  <1>3. /\ max \in 0..n /\ (n > 0 => max > 0) /\ scroll \in 0..n - max
        /\ choice \in 0..max - 1 \/ (n = 0 /\ choice = 0)
    <2>1. max \in 0..n /\ (n > 0 => max > 0)
      BY <1>1 DEF Least
    <2>2. max \div 2 \in Nat /\ 2 * (max \div 2) <= max /\ max <= 2 * (max \div 2) + 1
      BY <2>1
    <2> HIDE DEF max, n, wanted
    <2>3. CASE kept
      BY <1>1, <1>2, <2>1, <2>3 DEF ScrollFits, n
    <2>4. CASE ~kept
      <3>1. CASE ~far
        BY <1>1, <1>2, <2>1, <2>4, <3>1
      <3>2. CASE far /\ wanted >= n - max \div 2
        <4>1. scroll = n - max /\ choice = wanted - (n - max)
          BY <2>4, <3>2
        <4> QED BY <4>1, <1>1, <1>2, <2>1, <2>2, <3>2
      <3>3. CASE far /\ ~(wanted >= n - max \div 2)
        <4>1. scroll = wanted - max \div 2 /\ choice = wanted - (wanted - max \div 2)
          BY <2>4, <3>3
        <4> QED BY <4>1, <1>1, <1>2, <2>1, <2>2, <3>3
      <3> QED BY <3>1, <3>2, <3>3
    <2> QED BY <2>3, <2>4
  <1>4. e = [d EXCEPT !.max = max, !.scroll = scroll, !.first_item = first, !.choice = choice,
                      !.screen = screen, !.litButton = 0]
    BY Zenon DEF LayoutMenu
  <1>5. d.first_item = 0 => first = scroll
    OBVIOUS
  <1> HIDE DEF max, wanted, kept, far, scroll, first, choice, e
  <1>6. /\ DOMAIN e = DOMAIN d /\ e.max = max /\ e.scroll = scroll /\ e.choice = choice
        /\ e.screen = screen /\ e.litButton = 0 /\ e.button = d.button /\ e.items = d.items
        /\ e.height = d.height /\ e.kind = d.kind /\ e.s_scroll = d.s_scroll
    BY <1>4 DEF MenuFields
  <1>7. d.first_item = 0 => RowsTrue(e)
    BY <1>3, <1>5, <1>6 DEF RowsTrue
  <1>8. MenuFits(e)
    BY <1>1, <1>3, <1>6 DEF MenuFits, max
  <1> QED BY <1>6, <1>7, <1>8 DEF e

\* Drawing the highlighted row takes the highlight away, or puts it there.
LEMMA DrawFits ==
  ASSUME NEW d, MenuFits(d), NEW row \in 0..d.max - 1, NEW lit \in BOOLEAN
  PROVE  LET e == Draw(d, row, lit)
         IN  /\ MenuFits(e) /\ Same(d, e) /\ e.scroll = d.scroll /\ e.choice = d.choice
             /\ RowsTrue(d) /\ row = d.choice /\ lit = FALSE => Dark(e)
             /\ Dark(d) /\ row = d.choice /\ lit = TRUE => RowsTrue(e)
  <1> DEFINE e == Draw(d, row, lit)
  <1>1. /\ MenuFields \subseteq DOMAIN d /\ DOMAIN d.screen = 0..d.max - 1
        /\ Len(d.items) \in Nat /\ d.max \in Nat /\ d.scroll \in Nat
    BY Lists DEF MenuFits, Least
  <1>2. e = [d EXCEPT !.screen = [d.screen EXCEPT ![row] = [item |-> d.scroll + row, lit |-> lit]]]
    BY DEF Draw
  <1>3. /\ DOMAIN e = DOMAIN d
        /\ \A f \in MenuFields \ {"screen"} : e[f] = d[f]
        /\ e.screen = [d.screen EXCEPT ![row] = [item |-> d.scroll + row, lit |-> lit]]
    BY <1>1, <1>2 DEF MenuFields
  <1> HIDE DEF e
  <1>4. MenuFits(e) /\ Same(d, e) /\ e.scroll = d.scroll /\ e.choice = d.choice
    BY <1>1, <1>3 DEF MenuFits, Same, MenuFields
  <1>5. ASSUME RowsTrue(d) /\ row = d.choice /\ lit = FALSE PROVE Dark(e)
    <2> SUFFICES ASSUME NEW r \in 0..d.max - 1
                 PROVE  e.screen[r] = [item |-> d.scroll + r, lit |-> FALSE]
      BY <1>4 DEF Dark, Same
    <2>1. CASE r = row
      BY <2>1, <1>1, <1>3, <1>5
    <2>2. CASE r # row
      BY <2>2, <1>1, <1>3, <1>5 DEF RowsTrue, Dark
    <2> QED BY <2>1, <2>2
  <1>6. ASSUME Dark(d) /\ row = d.choice /\ lit = TRUE PROVE RowsTrue(e)
    <2> SUFFICES ASSUME NEW r \in 0..d.max - 1
                 PROVE  e.screen[r] = [item |-> d.scroll + r, lit |-> r = d.choice]
      BY <1>4 DEF RowsTrue, Same
    <2>1. CASE r = row
      BY <2>1, <1>1, <1>3, <1>6
    <2>2. CASE r # row
      BY <2>2, <1>1, <1>3, <1>6 DEF RowsTrue, Dark
    <2> QED BY <2>1, <2>2
  <1> QED BY <1>4, <1>5, <1>6 DEF e

\* Scrolling by one and drawing the row that became free keeps the rows true.
LEMMA ShiftFits ==
  ASSUME NEW d, MenuFits(d), d.items # <<>>, NEW n \in {-1, 1},
         d.scroll + n \in 0..Len(d.items) - d.max
  PROVE  LET e == Shift(d, n)
         IN  /\ MenuFits(e) /\ Same(d, e) /\ e.choice = d.choice /\ e.scroll = d.scroll + n
             /\ Dark(d) => Dark(e)
  <1> DEFINE s == Scrl(d, n)
             row == IF n < 0 THEN 0 ELSE d.max - 1
             e == Shift(d, n)
  <1>1. /\ MenuFields \subseteq DOMAIN d /\ DOMAIN d.screen = 0..d.max - 1
        /\ Len(d.items) \in Nat /\ d.max \in Nat /\ d.scroll \in Nat /\ row \in 0..d.max - 1
    BY Lists DEF MenuFits, Least
  <1>2. /\ DOMAIN s = DOMAIN d
        /\ \A f \in MenuFields \ {"screen", "scroll"} : s[f] = d[f]
        /\ s.scroll = d.scroll + n
        /\ s.screen = [r \in 0..d.max - 1 |-> IF r + n \in 0..d.max - 1 THEN d.screen[r + n]
                                              ELSE BlankRow]
    BY <1>1 DEF Scrl, MenuFields
  <1>3. e = [s EXCEPT !.screen = [s.screen EXCEPT ![row] = [item |-> s.scroll + row, lit |-> FALSE]]]
    BY Zenon DEF Shift, Draw
  <1> HIDE DEF s, e
  <1>4. /\ DOMAIN e = DOMAIN d
        /\ \A f \in MenuFields \ {"screen", "scroll"} : e[f] = d[f]
        /\ e.scroll = d.scroll + n
        /\ e.screen = [s.screen EXCEPT ![row] = [item |-> d.scroll + n + row, lit |-> FALSE]]
    BY <1>1, <1>2, <1>3 DEF MenuFields
  <1>5. MenuFits(e) /\ Same(d, e) /\ e.choice = d.choice /\ e.scroll = d.scroll + n
    BY <1>1, <1>2, <1>4 DEF MenuFits, Same, MenuFields
  <1>6. ASSUME Dark(d) PROVE Dark(e)
    <2> SUFFICES ASSUME NEW r \in 0..d.max - 1
                 PROVE  e.screen[r] = [item |-> e.scroll + r, lit |-> FALSE]
      BY <1>5 DEF Dark, Same
    <2>1. CASE r = row
      BY <2>1, <1>1, <1>2, <1>4
    <2>2. CASE r # row
      <3>1. r + n \in 0..d.max - 1
        BY <2>2, <1>1
      <3>2. e.screen[r] = d.screen[r + n]
        BY <3>1, <2>2, <1>1, <1>2, <1>4
      <3>3. d.screen[r + n] = [item |-> d.scroll + (r + n), lit |-> FALSE]
        BY <1>6, <3>1 DEF Dark
      <3>4. d.scroll + (r + n) = e.scroll + r
        BY <1>1, <1>4
      <3> QED BY <3>2, <3>3, <3>4
    <2> QED BY <2>1, <2>2
  <1> QED BY <1>5, <1>6 DEF e

----------------------------------------------------------------------------
(* The keys of a menu. *)

\* The highlight may be on any row of the screen.
LEMMA ChoiceFits ==
  ASSUME NEW d, MenuFits(d), NEW c \in 0..d.max - 1
  PROVE  LET e == [d EXCEPT !.choice = c]
         IN  MenuFits(e) /\ Same(d, e) /\ e.choice = c /\ e.scroll = d.scroll /\ (Dark(d) => Dark(e))
  <1> DEFINE e == [d EXCEPT !.choice = c]
  <1>1. MenuFields \subseteq DOMAIN d
    BY DEF MenuFits
  <1>2. /\ DOMAIN e = DOMAIN d /\ e.choice = c
        /\ \A f \in MenuFields \ {"choice"} : e[f] = d[f]
    BY <1>1 DEF MenuFields
  <1> HIDE DEF e
  <1>3. MenuFits(e) /\ Same(d, e) /\ e.scroll = d.scroll
    BY <1>2 DEF MenuFits, Same, MenuFields
  <1>4. Dark(d) => Dark(e)
    BY <1>2 DEF Dark, MenuFields
  <1> QED BY <1>2, <1>3, <1>4 DEF e

\* One turn of a key: from a menu with items to one with the same items.
Goes(d, e) == MenuFits(e) /\ e.items # <<>> /\ Same(d, e) /\ (Dark(d) => Dark(e))

\* One turn of the loop of any key.
LEMMA TurnGoes ==
  ASSUME NEW d, MenuFits(d), d.items # <<>>
  PROVE  Goes(d, MenuUp(d)) /\ Goes(d, MenuDown(d)) /\ Goes(d, PageUp(d)) /\ Goes(d, PageDown(d))
  <1>1. /\ Len(d.items) \in Nat /\ d.max \in Nat \ {0} /\ d.scroll \in 0..Len(d.items) - d.max
        /\ d.choice \in 0..d.max - 1
    BY Lists DEF MenuFits, Least
  <1>2. ASSUME NEW c \in 0..d.max - 1 PROVE Goes(d, [d EXCEPT !.choice = c])
    BY ChoiceFits, Zenon DEF Goes, Same
  <1>3. Most(d.choice - 1, 0) \in 0..d.max - 1 /\ Least(d.choice + 1, d.max - 1) \in 0..d.max - 1
    BY <1>1 DEF Most, Least
  <1>4. d.scroll > 0 => Goes(d, Shift(d, -1))
    <2>1. d.scroll > 0 => d.scroll + -1 \in 0..Len(d.items) - d.max
      BY <1>1
    <2> QED BY <2>1, ShiftFits DEF Goes, Same
  <1>5. d.scroll + d.max < Len(d.items) => Goes(d, Shift(d, 1))
    <2>1. d.scroll + d.max < Len(d.items) => d.scroll + 1 \in 0..Len(d.items) - d.max
      BY <1>1
    <2> QED BY <2>1, ShiftFits DEF Goes, Same
  <1>6. Goes(d, MenuUp(d)) /\ Goes(d, PageUp(d))
    BY <1>2, <1>3, <1>4, Zenon DEF MenuUp, PageUp
  <1>7. Goes(d, MenuDown(d)) /\ Goes(d, PageDown(d))
    BY <1>2, <1>3, <1>5, Zenon DEF MenuDown, PageDown
  <1> QED BY <1>6, <1>7

\* The turns of a loop, one after the other.
Numbered(k) == k
UpTurn(x, k, after) == IF k = 0 THEN x ELSE PageUp(after[k - 1])
DownTurn(x, k, after) == IF k = 0 THEN x ELSE PageDown(after[k - 1])
Ups == INSTANCE Recursion WITH Body <- UpTurn, Rank <- Numbered
Downs == INSTANCE Recursion WITH Body <- DownTurn, Rank <- Numbered

\* All the turns of a page key.
LEMMA PagesGo ==
  ASSUME NEW d, MenuFits(d), d.items # <<>>, NEW n \in Nat
  PROVE  Goes(d, Repeat(PageUp, d, n)) /\ Goes(d, Repeat(PageDown, d, n))
  <1>1. Goes(d, d)
    BY DEF Goes, Same
  <1>2. ASSUME NEW y, Goes(d, y) PROVE Goes(d, PageUp(y)) /\ Goes(d, PageDown(y))
    <2>1. Goes(y, PageUp(y)) /\ Goes(y, PageDown(y))
      BY <1>2, TurnGoes DEF Goes
    <2> QED BY <1>2, <2>1 DEF Goes, Same
  <1>3. Goes(d, Repeat(PageUp, d, n))
    <2> DEFINE f == Ups!Fixed(d, 0..n)
               T == {k \in Nat : k <= n => Goes(d, f[k])}
    <2>1. Repeat(PageUp, d, n) = f[n]
      BY DEF Repeat, Ups!Fixed, UpTurn
    <2>2. \A k \in 0..n : f[k] = UpTurn(d, k, f)
      BY Ups!StepByStep DEF UpTurn, Numbered
    <2> HIDE DEF f
    <2>3. 0 \in T
      BY <1>1, <2>2 DEF UpTurn
    <2>4. ASSUME NEW k \in Nat, k \in T PROVE k + 1 \in T
      <3>1. k + 1 <= n => f[k + 1] = PageUp(f[k])
        BY <2>2 DEF UpTurn
      <3> QED BY <1>2, <2>4, <3>1
    <2> HIDE DEF T
    <2>5. n \in T
      BY <2>3, <2>4, Ups!SetInduction
    <2> QED BY <2>1, <2>5 DEF T
  <1>4. Goes(d, Repeat(PageDown, d, n))
    <2> DEFINE f == Downs!Fixed(d, 0..n)
               T == {k \in Nat : k <= n => Goes(d, f[k])}
    <2>1. Repeat(PageDown, d, n) = f[n]
      BY DEF Repeat, Downs!Fixed, DownTurn
    <2>2. \A k \in 0..n : f[k] = DownTurn(d, k, f)
      BY Downs!StepByStep DEF DownTurn, Numbered
    <2> HIDE DEF f
    <2>3. 0 \in T
      BY <1>1, <2>2 DEF DownTurn
    <2>4. ASSUME NEW k \in Nat, k \in T PROVE k + 1 \in T
      <3>1. k + 1 <= n => f[k + 1] = PageDown(f[k])
        BY <2>2 DEF DownTurn
      <3> QED BY <1>2, <2>4, <3>1
    <2> HIDE DEF T
    <2>5. n \in T
      BY <2>3, <2>4, Downs!SetInduction
    <2> QED BY <2>1, <2>5 DEF T
  <1> QED BY <1>3, <1>4

\* A letter leads to a row of the screen.
LEMMA HotOnScreen ==
  ASSUME NEW d, NEW key, d.max \in Nat, HasHot(d, key)
  PROVE  HotRow(d, key) \in 0..d.max - 1
  <1> DEFINE has == {r \in 0..d.max - 1 : d.items[d.scroll + r + 1].hot = key}
             after == {r \in has : r > d.choice}
             rows_ == IF after # {} THEN after ELSE has
  <1>1. rows_ # {} /\ rows_ \subseteq 0..d.max - 1 /\ rows_ \subseteq Nat
    BY DEF HasHot
  <1>2. \E r \in rows_ : \A other \in rows_ : r <= other
    BY <1>1, Ups!LeastNumber
  <1>3. HotRow(d, key) \in rows_
    BY <1>2, Zenon DEF HotRow
  <1> QED BY <1>1, <1>3

\* Any key moves the highlight of a menu to a row of the screen, and the rows
\* show the items if they did before.
LEMMA MoveFits ==
  ASSUME NEW d, MenuFits(d), d.items # <<>>, NEW key, key \in MenuMoves \/ HasHot(d, key)
  PROVE  LET e == MoveMenu(d, key)
         IN  MenuFits(e) /\ Same(d, e) /\ (RowsTrue(d) => RowsTrue(e))
  <1> DEFINE off == Draw(d, d.choice, FALSE)
             moved == CASE key = "up" -> MenuUp(off)
                        [] key = "down" -> MenuDown(off)
                        [] key = "pageup" -> Repeat(PageUp, off, d.max)
                        [] key = "pagedown" -> Repeat(PageDown, off, d.max)
                        [] OTHER -> [off EXCEPT !.choice = HotRow(d, key)]
             e == Draw(moved, moved.choice, TRUE)
  <1>1. d.max \in Nat \ {0} /\ d.choice \in 0..d.max - 1
    BY Lists DEF MenuFits, Least
  <1>2. MenuFits(off) /\ Same(d, off) /\ (RowsTrue(d) => Dark(off))
    BY <1>1, DrawFits
  <1>3. off.items # <<>> /\ off.max = d.max
    BY <1>2 DEF Same
  <1> HIDE DEF off
  <1>4. Goes(off, moved)
    <2>1. CASE key \in MenuMoves
      <3> DEFINE pages == {Repeat(PageUp, off, d.max), Repeat(PageDown, off, d.max)}
      <3>1. moved \in {MenuUp(off), MenuDown(off)} \union pages
        BY <2>1 DEF MenuMoves
      <3>2. Goes(off, MenuUp(off)) /\ Goes(off, MenuDown(off))
        BY <1>2, <1>3, TurnGoes
      <3>3. \A y \in pages : Goes(off, y)
        BY <1>1, <1>2, <1>3, PagesGo, Zenon
      <3> HIDE DEF moved
      <3> HIDE DEF pages
      <3> QED BY <3>1, <3>2, <3>3
    <2>2. CASE key \notin MenuMoves
      <3>1. HotRow(d, key) \in 0..off.max - 1
        BY <2>2, <1>1, <1>3, HotOnScreen
      <3>2. moved = [off EXCEPT !.choice = HotRow(d, key)]
        BY <2>2, Zenon DEF MenuMoves
      <3>3. \A c \in 0..off.max - 1 : Goes(off, [off EXCEPT !.choice = c])
        BY <1>2, <1>3, ChoiceFits, Zenon DEF Goes, Same
      <3> QED BY <3>1, <3>2, <3>3, Zenon
    <2> QED BY <2>1, <2>2
  <1> HIDE DEF moved
  <1>5. moved.choice \in 0..moved.max - 1
    BY <1>4, Lists DEF Goes, MenuFits, Least
  <1>6. MenuFits(e) /\ Same(moved, e) /\ (Dark(moved) => RowsTrue(e))
    BY <1>4, <1>5, DrawFits DEF Goes
  <1>7. e = MoveMenu(d, key)
    BY Zenon DEF MoveMenu, moved, off
  <1> HIDE DEF e
  <1>8. MenuFits(e) /\ Same(d, e) /\ (RowsTrue(d) => RowsTrue(e))
    BY <1>2, <1>4, <1>6 DEF Goes, Same
  <1> QED BY <1>7, <1>8

----------------------------------------------------------------------------
(* The list of a choice. *)

ListFields == {"kind", "items", "height", "max", "scroll", "choice", "button", "litButton",
               "screen"}

\* The fields that only f writes.
OnlyIn(d, e, f) == DOMAIN e = DOMAIN d /\ \A x \in DOMAIN d \ f : e[x] = d[x]

ListShape(d) ==
    /\ ListFields \subseteq DOMAIN d /\ d.kind = "list" /\ IsList(d.items) /\ d.items # <<>>
    /\ d.height \in Nat \ {0} /\ d.max = Least(d.height, Len(d.items))
    /\ d.scroll \in 0..Len(d.items) - d.max /\ d.choice \in 0..d.max - 1
    /\ DOMAIN d.screen = 0..d.max - 1 /\ d.button \in 0..1
ListFits(d) == ListShape(d) /\ RowsTrue(d)
Moving == {"screen", "scroll", "choice"}

\* A list is laid out with the item it begins with on the screen, before and after a
\* resize.
LEMMA ListLayout ==
  ASSUME NEW d, ListFields \subseteq DOMAIN d, d.kind = "list", IsList(d.items), d.items # <<>>,
         d.height \in Nat \ {0}, d.choice \in 0..Len(d.items) - 1, d.button \in 0..1,
         d.scroll \in 0..Len(d.items) - Least(d.height, Len(d.items))
  PROVE  LET e == LayoutList(d)
         IN  ListFits(e) /\ OnlyIn(d, e, Moving \union {"max", "litButton"}) /\ e.litButton = 0
  <1> DEFINE n == Len(d.items)
             max == Least(d.height, n)
             past == Most(d.choice - d.height + 1, 0)
             scroll == IF past > 0 THEN past ELSE d.scroll
             screen == [r \in 0..max - 1 |-> [item |-> scroll + r, lit |-> r = d.choice - past]]
             e == LayoutList(d)
  <1>1. n \in Nat \ {0}
    BY Lists
  <1>2. /\ max \in 1..n /\ scroll \in 0..n - max
        /\ d.choice - past \in 0..max - 1
    BY <1>1 DEF Least, Most
  <1>3. e = [d EXCEPT !.max = max, !.scroll = scroll, !.choice = d.choice - past,
                      !.screen = screen, !.litButton = 0]
    BY Zenon DEF LayoutList
  <1> HIDE DEF max, past, scroll, e
  <1>4. /\ OnlyIn(d, e, Moving \union {"max", "litButton"})
        /\ e.max = max /\ e.scroll = scroll /\ e.choice = d.choice - past
        /\ e.screen = screen /\ e.litButton = 0
    BY <1>3 DEF ListFields, OnlyIn, Moving
  <1>5. /\ ListFields \subseteq DOMAIN e
        /\ \A f \in {"kind", "items", "height", "button"} : e[f] = d[f]
    BY <1>4 DEF OnlyIn, ListFields, Moving
  <1>6. ListShape(e)
    BY <1>1, <1>2, <1>4, <1>5 DEF ListShape, max
  <1>7. RowsTrue(e)
    BY <1>2, <1>4 DEF RowsTrue
  <1> QED BY <1>4, <1>6, <1>7 DEF ListFits, e

\* What a list's shape says of its numbers.
LEMMA ListNumbers ==
  ASSUME NEW d, ListShape(d)
  PROVE  /\ Len(d.items) \in Nat \ {0} /\ d.max \in 1..Len(d.items) /\ d.height \in Nat \ {0}
         /\ d.scroll \in 0..Len(d.items) - d.max /\ d.choice \in 0..d.max - 1
         /\ d.height = 1 => d.max = 1
  <1>1. Len(d.items) \in Nat \ {0}
    BY Lists DEF ListShape
  <1>2. d.height \in Nat \ {0} /\ d.max = Least(d.height, Len(d.items))
    BY DEF ListShape
  <1>3. \A a, b \in Nat \ {0} : Least(a, b) \in 1..b /\ (a = 1 => Least(a, b) = 1)
    BY DEF Least
  <1>4. d.max \in 1..Len(d.items) /\ (d.height = 1 => d.max = 1)
    BY <1>1, <1>2, <1>3
  <1> QED BY <1>1, <1>2, <1>4 DEF ListShape

\* A list that was moved is in order if its rows are.
LEMMA ListMoved ==
  ASSUME NEW d, ListShape(d), NEW e, OnlyIn(d, e, Moving),
         e.scroll \in 0..Len(d.items) - d.max, e.choice \in 0..d.max - 1,
         DOMAIN e.screen = 0..d.max - 1,
         \A r \in 0..d.max - 1 : e.screen[r] = [item |-> e.scroll + r, lit |-> r = e.choice]
  PROVE  ListFits(e)
  <1>1. ListFields \subseteq DOMAIN e /\ \A f \in ListFields \ Moving : e[f] = d[f]
    BY DEF OnlyIn, ListShape
  <1>2. /\ e.kind = d.kind /\ e.items = d.items /\ e.height = d.height /\ e.max = d.max
        /\ e.button = d.button
    BY <1>1 DEF ListFields, Moving
  <1> QED BY <1>1, <1>2 DEF ListFits, ListShape, RowsTrue

\* The highlight goes to another row: the one it left is drawn again, too.
LEMMA ToRowFits ==
  ASSUME NEW d, ListFits(d), NEW row \in 0..d.max - 1
  PROVE  ListFits(ToRow(d, row)) /\ OnlyIn(d, ToRow(d, row), Moving)
  <1>1. CASE row = d.choice
    BY <1>1 DEF ToRow, OnlyIn
  <1>2. CASE row # d.choice
    <2> DEFINE off == [d.screen EXCEPT ![d.choice] = [item |-> d.scroll + d.choice, lit |-> FALSE]]
               screen == [off EXCEPT ![row] = [item |-> d.scroll + row, lit |-> TRUE]]
               e == ToRow(d, row)
    <2>1. ListFields \subseteq DOMAIN d /\ DOMAIN d.screen = 0..d.max - 1
      BY DEF ListFits, ListShape
    <2>2. /\ DOMAIN e = DOMAIN d /\ e.choice = row /\ e.screen = screen
          /\ \A f \in DOMAIN d \ {"choice", "screen"} : e[f] = d[f]
      BY <1>2, <2>1 DEF ToRow, Draw, ListFields
    <2> HIDE DEF e
    <2>3. OnlyIn(d, e, Moving) /\ e.scroll = d.scroll
      BY <2>1, <2>2 DEF OnlyIn, Moving, ListFields
    <2>4. ASSUME NEW r \in 0..d.max - 1
          PROVE  e.screen[r] = [item |-> e.scroll + r, lit |-> r = e.choice]
      <3>1. CASE r = row
        BY <1>2, <2>1, <2>2, <2>3, <3>1
      <3>2. CASE r = d.choice
        BY <1>2, <2>1, <2>2, <2>3, <3>2
      <3>3. CASE r # row /\ r # d.choice
        <4>1. e.screen[r] = d.screen[r]
          BY <2>1, <2>2, <3>3
        <4>2. d.screen[r] = [item |-> d.scroll + r, lit |-> FALSE]
          BY <3>3 DEF ListFits, RowsTrue
        <4> QED BY <2>2, <2>3, <3>3, <4>1, <4>2
      <3> QED BY <3>1, <3>2, <3>3
    <2>5. ListFits(e)
      BY <2>1, <2>2, <2>3, <2>4, ListNumbers, ListMoved DEF ListFits
    <2> QED BY <2>3, <2>5 DEF e
  <1> QED BY <1>1, <1>2

\* The window of a list is scrolled by one below a highlight that stays on its row.
LEMMA ScrollListFits ==
  ASSUME NEW d, ListFits(d), NEW n \in {-1, 1},
         n = -1 => d.choice = 0 /\ d.scroll > 0,
         n = 1 => d.choice = d.max - 1 /\ d.scroll + d.max < Len(d.items)
  PROVE  ListFits(ScrollList(d, n)) /\ OnlyIn(d, ScrollList(d, n), Moving)
  <1> DEFINE e == ScrollList(d, n)
             lit == [item |-> d.scroll + n + d.choice, lit |-> TRUE]
             dark == [d.screen EXCEPT ![d.choice] = [item |-> d.scroll + d.choice, lit |-> FALSE]]
             moved == [r \in 0..d.max - 1 |-> IF r + n \in 0..d.max - 1 THEN dark[r + n]
                                              ELSE BlankRow]
  <1>1. ListFields \subseteq DOMAIN d /\ DOMAIN d.screen = 0..d.max - 1
    BY DEF ListFits, ListShape
  <1>2. /\ DOMAIN e = DOMAIN d /\ e.scroll = d.scroll + n
        /\ \A f \in DOMAIN d \ {"scroll", "screen"} : e[f] = d[f]
        /\ e.screen = [(IF d.height > 1 THEN moved ELSE d.screen) EXCEPT ![d.choice] = lit]
    <2>1. CASE d.height > 1
      BY <1>1, <2>1 DEF ScrollList, Scrl, Draw, ListFields
    <2>2. CASE ~(d.height > 1)
      BY <1>1, <2>2 DEF ScrollList, Draw, ListFields
    <2> QED BY <2>1, <2>2
  <1> HIDE DEF e
  <1>3. OnlyIn(d, e, Moving) /\ e.choice = d.choice
    BY <1>1, <1>2 DEF OnlyIn, Moving, ListFields
  <1>4. ASSUME NEW r \in 0..d.max - 1
        PROVE  e.screen[r] = [item |-> e.scroll + r, lit |-> r = e.choice]
    <2>1. CASE r = d.choice
      BY <1>1, <1>2, <1>3, <2>1, ListNumbers DEF ListFits
    <2>2. CASE r # d.choice
      <3>1. d.height > 1 /\ r + n \in 0..d.max - 1
        BY <2>2, ListNumbers DEF ListFits
      <3>2. e.screen[r] = dark[r + n]
        BY <1>1, <1>2, <2>2, <3>1
      <3>3. dark[r + n] = [item |-> d.scroll + (r + n), lit |-> FALSE]
        BY <1>1, <3>1, ListNumbers DEF ListFits, RowsTrue
      <3>4. d.scroll + (r + n) = e.scroll + r
        BY <1>2, ListNumbers DEF ListFits
      <3> HIDE DEF dark
      <3> QED BY <1>3, <2>2, <3>2, <3>3, <3>4
    <2> QED BY <2>1, <2>2
  <1>5. e.scroll \in 0..Len(d.items) - d.max /\ DOMAIN e.screen = 0..d.max - 1
    BY <1>1, <1>2, ListNumbers DEF ListFits
  <1>6. ListFits(e)
    BY <1>3, <1>4, <1>5, ListNumbers, ListMoved DEF ListFits
  <1> QED BY <1>3, <1>6 DEF e

\* Any key of a list leaves the rows true.
LEMMA MoveListFits ==
  ASSUME NEW d, ListFits(d), NEW key,
         \/ key \in {"up", "down"}
         \/ \E r \in 0..d.max - 1 : d.items[d.scroll + r + 1].hot = key
  PROVE  ListFits(MoveList(d, key)) /\ OnlyIn(d, MoveList(d, key), Moving)
  <1> DEFINE Moved(e) == ListFits(e) /\ OnlyIn(d, e, Moving)
  <1>1. ListShape(d) /\ Moved(d)
    BY DEF ListFits, OnlyIn
  <1>2. \A row \in 0..d.max - 1 : Moved(ToRow(d, row))
    BY ToRowFits
  <1>3. d.choice = 0 /\ d.scroll # 0 => Moved(ScrollList(d, -1))
    BY <1>1, ListNumbers, ScrollListFits
  <1>4. d.choice = d.max - 1 /\ ~(d.scroll + d.choice >= Len(d.items) - 1)
        => Moved(ScrollList(d, 1))
    BY <1>1, ListNumbers, ScrollListFits
  <1> HIDE DEF Moved
  <1>5. CASE key = "up"
    <2>1. MoveList(d, key) = IF d.choice > 0 THEN ToRow(d, d.choice - 1)
                             ELSE IF d.scroll = 0 THEN d ELSE ScrollList(d, -1)
      BY <1>1, <1>5, ListNumbers DEF MoveList
    <2>2. d.choice > 0 => d.choice - 1 \in 0..d.max - 1
      BY <1>1, ListNumbers
    <2>3. d.choice > 0 \/ d.choice = 0
      BY <1>1, ListNumbers
    <2>4. Moved(MoveList(d, key))
      BY <1>1, <1>2, <1>3, <2>1, <2>2, <2>3
    <2> QED BY <2>4 DEF Moved
  <1>6. CASE key = "down"
    <2>1. MoveList(d, key) = IF d.choice < d.max - 1 THEN ToRow(d, d.choice + 1)
                             ELSE IF d.scroll + d.choice >= Len(d.items) - 1 THEN d
                             ELSE ScrollList(d, 1)
      <3>1. d.choice < d.max - 1 <=> d.choice # d.max - 1
        BY <1>1, ListNumbers
      <3> QED BY <1>6, <3>1 DEF MoveList
    <2>2. d.choice < d.max - 1 => d.choice + 1 \in 0..d.max - 1
      BY <1>1, ListNumbers
    <2>3. d.choice < d.max - 1 \/ d.choice = d.max - 1
      BY <1>1, ListNumbers
    <2>4. Moved(MoveList(d, key))
      BY <1>1, <1>2, <1>4, <2>1, <2>2, <2>3
    <2> QED BY <2>4 DEF Moved
  <1>7. CASE key \notin {"up", "down"}
    <2> DEFINE has == {r \in 0..d.max - 1 : d.items[d.scroll + r + 1].hot = key}
               First(r) == /\ d.items[d.scroll + r + 1].hot = key
                           /\ \A q \in 0..r - 1 : d.items[d.scroll + q + 1].hot # key
    <2>1. has # {} /\ has \subseteq Nat /\ d.max \in Nat
      BY <1>1, <1>7, ListNumbers
    <2>2. PICK least \in has : \A r \in has : least <= r
      BY <2>1, Ups!LeastNumber
    <2>3. ASSUME NEW q \in 0..least - 1 PROVE d.items[d.scroll + q + 1].hot # key
      <3>1. q \in 0..d.max - 1 /\ ~(least <= q)
        BY <2>1
      <3> QED BY <2>2, <3>1
    <2>4. \E r \in 0..d.max - 1 : First(r)
      BY <2>3
    <2>5. MoveList(d, key) = ToRow(d, CHOOSE r \in 0..d.max - 1 : First(r))
      BY <1>7 DEF MoveList
    <2>6. (CHOOSE r \in 0..d.max - 1 : First(r)) \in 0..d.max - 1
      BY <2>4, Zenon
    <2>7. Moved(MoveList(d, key))
      BY <1>2, <2>5, <2>6, Zenon
    <2> QED BY <2>7 DEF Moved
  <1> QED BY <1>5, <1>6, <1>7

----------------------------------------------------------------------------
(* The input box. *)

InputFields == {"kind", "instr", "pos", "show_x", "input_x", "field", "button", "litButton"}
Cells == 0..BoxWidth - 1
\* No prover knows a string that is in STRING.
Characters == STRING \union Sides \union Letters \union {"backspace"}
InputShape(d) ==
    /\ InputFields \subseteq DOMAIN d /\ d.kind = "input" /\ d.instr \in Seq(Characters)
    /\ d.pos \in 0..Len(d.instr) /\ d.show_x \in Nat /\ d.input_x \in Cells
    /\ d.show_x + d.input_x = d.pos /\ DOMAIN d.field = Cells /\ d.button \in -1..1
FieldShows(d) ==
    \A c \in Cells : d.field[c] = IF d.show_x + c < Len(d.instr) THEN d.instr[d.show_x + c + 1]
                                  ELSE Blank
InputFits(d) == InputShape(d) /\ FieldShows(d)
Typing == {"instr", "pos", "show_x", "input_x", "field"}

\* Printing the field makes it true, if what is beyond the end of the text and the
\* blank after it was blank.
LEMMA Printed ==
  ASSUME NEW d, InputShape(d),
         \A c \in Cells : d.show_x + c > Len(d.instr) => d.field[c] = Blank
  PROVE  InputFits(PrintField(d)) /\ OnlyIn(d, PrintField(d), {"field"})
  <1> DEFINE e == PrintField(d)
             field == [c \in Cells |-> IF d.show_x + c < Len(d.instr) THEN d.instr[d.show_x + c + 1]
                                       ELSE IF d.show_x + c = Len(d.instr) THEN Blank
                                       ELSE d.field[c]]
  <1>1. InputFields \subseteq DOMAIN d /\ DOMAIN d.field = Cells
    BY DEF InputShape
  <1>2. e = [d EXCEPT !.field = field]
    BY <1>1 DEF PrintField
  <1> HIDE DEF e
  <1>3. OnlyIn(d, e, {"field"}) /\ e.field = field
    BY <1>1, <1>2 DEF OnlyIn, InputFields
  <1>4. \A f \in InputFields \ {"field"} : e[f] = d[f]
    BY <1>1, <1>3 DEF OnlyIn
  <1>5. InputShape(e)
    BY <1>1, <1>3, <1>4 DEF InputShape, InputFields, OnlyIn
  <1>6. ASSUME NEW c \in Cells
        PROVE  field[c] = IF d.show_x + c < Len(d.instr) THEN d.instr[d.show_x + c + 1] ELSE Blank
    <2>1. d.show_x + c \in Int /\ Len(d.instr) \in Int
      BY DEF InputShape, Cells
    <2> QED BY <2>1
  <1>7. FieldShows(e)
    BY <1>3, <1>4, <1>6 DEF FieldShows, InputFields
  <1> QED BY <1>3, <1>5, <1>7 DEF InputFits, e

\* An input box is drawn with the end of its text on the field.
LEMMA InputLayout ==
  ASSUME NEW d, InputFields \subseteq DOMAIN d, d.kind = "input", d.instr \in Seq(Characters),
         d.button \in -1..1
  PROVE  LET e == LayoutInput(d)
         IN  InputFits(e) /\ OnlyIn(d, e, Typing \union {"litButton"}) /\ e.litButton = 0
  <1> DEFINE len == Len(d.instr)
             show == IF len >= BoxWidth THEN len - BoxWidth + 1 ELSE 0
             field == [c \in Cells |-> IF show + c < len THEN d.instr[show + c + 1] ELSE Blank]
             e == LayoutInput(d)
  <1>1. e = [d EXCEPT !.pos = len, !.show_x = show, !.input_x = len - show, !.field = field,
                      !.litButton = 0]
    BY Zenon DEF LayoutInput, Cells
  <1>2. len \in Nat /\ show \in Nat /\ len - show \in Cells /\ show + (len - show) = len
    BY SizesAssumption DEF Cells
  <1> HIDE DEF e, show
  <1>3. /\ OnlyIn(d, e, Typing \union {"litButton"})
        /\ e.pos = len /\ e.show_x = show /\ e.input_x = len - show /\ e.field = field
        /\ e.litButton = 0 /\ e.instr = d.instr /\ e.kind = d.kind /\ e.button = d.button
    BY <1>1 DEF InputFields, OnlyIn, Typing
  <1>4. InputShape(e)
    BY <1>2, <1>3 DEF InputShape, OnlyIn
  <1>5. FieldShows(e)
    BY <1>3 DEF FieldShows
  <1> QED BY <1>3, <1>4, <1>5 DEF InputFits, e

\* An edit ends with the field printed, of a text whose end was on it before.
LEMMA Edited ==
  ASSUME NEW d, InputFits(d), NEW instr \in Seq(Characters), NEW pos \in 0..Len(instr),
         NEW show_x \in Nat, NEW input_x \in Cells, show_x + input_x = pos,
         show_x - d.show_x <= 1,  d.show_x - show_x <= 1,
         Len(instr) - show_x >= Len(d.instr) - d.show_x - 1,
         NEW e, e = [d EXCEPT !.instr = instr, !.pos = pos, !.show_x = show_x, !.input_x = input_x]
  PROVE  InputFits(PrintField(e)) /\ OnlyIn(d, PrintField(e), Typing)
  <1>1. InputFields \subseteq DOMAIN d /\ DOMAIN d.field = Cells /\ d.show_x \in Nat
        /\ d.instr \in Seq(Characters)
    BY DEF InputFits, InputShape
  <1>2. /\ OnlyIn(d, e, Typing) /\ e.field = d.field
        /\ e.instr = instr /\ e.pos = pos /\ e.show_x = show_x /\ e.input_x = input_x
        /\ e.kind = d.kind /\ e.button = d.button
    BY <1>1 DEF OnlyIn, Typing, InputFields
  <1>3. InputShape(e)
    BY <1>1, <1>2 DEF InputFits, InputShape, OnlyIn
  <1>4. ASSUME NEW c \in Cells, e.show_x + c > Len(e.instr) PROVE e.field[c] = Blank
    <2>1. c \in Int /\ Len(instr) \in Int /\ Len(d.instr) \in Int
      BY <1>1, SizesAssumption DEF Cells
    <2>2. ~(d.show_x + c < Len(d.instr))
      BY <1>1, <1>2, <1>4, <2>1
    <2> QED BY <1>2, <2>2 DEF InputFits, FieldShows
  <1>5. InputFits(PrintField(e)) /\ OnlyIn(e, PrintField(e), {"field"})
    BY <1>3, <1>4, Printed
  <1> QED BY <1>2, <1>5 DEF OnlyIn, Typing

\* What an input box's shape says of its numbers.
LEMMA InputNumbers ==
  ASSUME NEW d, InputShape(d)
  PROVE  /\ InputFields \subseteq DOMAIN d /\ d.instr \in Seq(Characters) /\ Len(d.instr) \in Nat
         /\ d.pos \in 0..Len(d.instr) /\ d.show_x \in Nat /\ d.input_x \in 0..BoxWidth - 1
         /\ d.show_x + d.input_x = d.pos /\ BoxWidth \in Nat \ {0}
  BY SizesAssumption DEF InputShape, Cells

\* A part of a sequence is one, and has the length it should.
LEMMA Parts ==
  ASSUME NEW S, NEW s \in Seq(S), NEW m \in 1..Len(s) + 1, NEW n \in 0..Len(s), m <= n + 1
  PROVE  SubSeq(s, m, n) \in Seq(S) /\ Len(SubSeq(s, m, n)) = n - m + 1
  <1>1. \A i \in m..n : s[i] \in S
    BY ElementOfSeq
  <1> QED BY <1>1, SubSeqProperties

\* A sequence without one of its members.
LEMMA Removed ==
  ASSUME NEW S, NEW s \in Seq(S), NEW i \in 1..Len(s)
  PROVE  RemoveAt(s, i) \in Seq(S) /\ Len(RemoveAt(s, i)) = Len(s) - 1
  <1> DEFINE before == SubSeq(s, 1, i - 1)
             after == SubSeq(s, i + 1, Len(s))
  <1>1. before \in Seq(S) /\ Len(before) = i - 1
    BY Parts
  <1>2. after \in Seq(S) /\ Len(after) = Len(s) - i
    BY Parts
  <1> HIDE DEF before, after
  <1>3. before \o after \in Seq(S) /\ Len(before \o after) = Len(s) - 1
    BY <1>1, <1>2, ConcatProperties
  <1> QED BY <1>3 DEF RemoveAt, before, after

\* A sequence with a member more.
LEMMA Inserted ==
  ASSUME NEW S, NEW s \in Seq(S), NEW i \in 1..Len(s) + 1, NEW c \in S
  PROVE  InsertAt(s, i, c) \in Seq(S) /\ Len(InsertAt(s, i, c)) = Len(s) + 1
  <1> DEFINE before == SubSeq(s, 1, i - 1)
             after == SubSeq(s, i, Len(s))
  <1>1. before \in Seq(S) /\ Len(before) = i - 1
    BY Parts
  <1>2. after \in Seq(S) /\ Len(after) = Len(s) - i + 1
    BY Parts
  <1> HIDE DEF before, after
  <1>3. before \o <<c>> \in Seq(S) /\ Len(before \o <<c>>) = i
    <2>1. <<c>> \in Seq(S) /\ Len(<<c>>) = 1
      OBVIOUS
    <2> QED BY <1>1, <2>1, ConcatProperties
  <1>4. before \o <<c>> \o after \in Seq(S) /\ Len(before \o <<c>> \o after) = Len(s) + 1
    <2> DEFINE start == before \o <<c>>
    <2>1. start \in Seq(S) /\ Len(start) = i
      BY <1>3
    <2> HIDE DEF start
    <2>2. start \o after \in Seq(S) /\ Len(start \o after) = Len(s) + 1
      BY <1>2, <2>1, ConcatProperties
    <2> QED BY <2>2 DEF start
  <1> QED BY <1>4 DEF InsertAt, before, after

\* Any key that edits the text leaves the field true and the cursor where it types.
LEMMA EditFits ==
  ASSUME NEW d, InputFits(d), NEW key \in Characters
  PROVE  InputFits(EditInput(d, key)) /\ OnlyIn(d, EditInput(d, key), Typing)
  <1> DEFINE Done(e) == InputFits(e) /\ OnlyIn(d, e, Typing)
  <1>1. Done(d) /\ InputShape(d)
    BY DEF OnlyIn, InputFits
  <1>2. Done(Backspace(d))
    <2>1. CASE d.pos = 0
      BY <1>1, <2>1 DEF Backspace
    <2>2. CASE d.pos # 0
      <3> DEFINE instr == RemoveAt(d.instr, d.pos)
                 show_x == IF d.input_x = 0 THEN d.show_x - 1 ELSE d.show_x
                 input_x == IF d.input_x = 0 THEN 0 ELSE d.input_x - 1
                 e == [d EXCEPT !.instr = instr, !.pos = d.pos - 1, !.show_x = show_x,
                                !.input_x = input_x]
      <3>1. Backspace(d) = PrintField(e)
        BY <1>1, <2>2, InputNumbers DEF Backspace, InputFields
      <3>2. instr \in Seq(Characters) /\ Len(instr) = Len(d.instr) - 1
        <4>1. d.pos \in 1..Len(d.instr) /\ d.instr \in Seq(Characters)
          BY <1>1, <2>2, InputNumbers
        <4> QED BY <4>1, Removed
      <3> HIDE DEF instr
      <3>3. Len(instr) = Len(d.instr) - 1
        BY <3>2
      <3>4. /\ d.pos - 1 \in 0..Len(instr) /\ show_x \in Nat /\ input_x \in Cells
            /\ show_x + input_x = d.pos - 1 /\ show_x - d.show_x <= 1 /\ d.show_x - show_x <= 1
            /\ Len(instr) - show_x >= Len(d.instr) - d.show_x - 1
        <4>1. /\ Len(d.instr) \in Nat /\ d.pos \in 1..Len(d.instr) /\ d.show_x \in Nat
              /\ d.input_x \in 0..BoxWidth - 1 /\ d.show_x + d.input_x = d.pos
              /\ BoxWidth \in Nat \ {0}
          BY <1>1, <2>2, InputNumbers
        <4>2. d.pos - 1 \in 0..Len(instr)
          BY <3>3, <4>1
        <4>3. show_x \in Nat /\ input_x \in Cells
          BY <4>1, SizesAssumption DEF Cells
        <4>4. show_x + input_x = d.pos - 1
          BY <4>1
        <4>5. show_x - d.show_x <= 1 /\ d.show_x - show_x <= 1
          BY <4>1
        <4>6. Len(instr) - show_x >= Len(d.instr) - d.show_x - 1
          BY <3>3, <4>1
        <4> QED BY <4>2, <4>3, <4>4, <4>5, <4>6
      <3> HIDE DEF show_x, input_x, e
      <3>5. InputFits(PrintField(e)) /\ OnlyIn(d, PrintField(e), Typing)
        BY <3>2, <3>4, Edited DEF e
      <3> QED BY <3>1, <3>5
    <2> QED BY <2>1, <2>2
  <1>3. ASSUME NEW by \in {-1, 1}, d.pos + by \in 0..Len(d.instr), d.input_x + by \in Cells
        PROVE  Done([d EXCEPT !.pos = d.pos + by, !.input_x = d.input_x + by])
    <2> DEFINE e == [d EXCEPT !.pos = d.pos + by, !.input_x = d.input_x + by]
    <2>1. /\ DOMAIN e = DOMAIN d /\ e.pos = d.pos + by /\ e.input_x = d.input_x + by
          /\ \A f \in DOMAIN d \ {"pos", "input_x"} : e[f] = d[f]
      BY <1>1, InputNumbers DEF InputFields
    <2> HIDE DEF e
    <2>2. /\ e.kind = d.kind /\ e.instr = d.instr /\ e.show_x = d.show_x /\ e.field = d.field
          /\ e.button = d.button
      BY <1>1, <2>1, InputNumbers DEF InputFields
    <2>3. InputShape(e)
      BY <1>1, <1>3, <2>1, <2>2, InputNumbers DEF InputShape
    <2>4. FieldShows(e)
      BY <1>1, <2>2 DEF InputFits, FieldShows
    <2>5. OnlyIn(d, e, Typing)
      BY <2>1 DEF OnlyIn, Typing
    <2> QED BY <2>3, <2>4, <2>5 DEF InputFits, e
  <1>4. ASSUME NEW by \in {-1, 1}, d.pos + by \in 0..Len(d.instr), d.show_x + by \in Nat
        PROVE  Done(PrintField([d EXCEPT !.pos = d.pos + by, !.show_x = d.show_x + by]))
    <2> DEFINE e == [d EXCEPT !.pos = d.pos + by, !.show_x = d.show_x + by]
    <2>1. e = [d EXCEPT !.instr = d.instr, !.pos = d.pos + by, !.show_x = d.show_x + by,
                        !.input_x = d.input_x]
      BY <1>1, InputNumbers DEF InputFields
    <2>2. /\ d.instr \in Seq(Characters) /\ Len(d.instr) \in Nat /\ d.input_x \in Cells
          /\ d.pos \in Nat /\ d.show_x \in Nat /\ d.show_x + d.input_x = d.pos
      BY <1>1, InputNumbers DEF Cells
    <2>3. /\ (d.show_x + by) + d.input_x = d.pos + by
          /\ (d.show_x + by) - d.show_x <= 1 /\ d.show_x - (d.show_x + by) <= 1
          /\ Len(d.instr) - (d.show_x + by) >= Len(d.instr) - d.show_x - 1
      BY <2>2, SizesAssumption DEF Cells
    <2> HIDE DEF e
    <2>4. InputFits(PrintField(e)) /\ OnlyIn(d, PrintField(e), Typing)
      BY <1>4, <2>1, <2>2, <2>3, Edited
    <2> QED BY <2>4 DEF e
  <1>5. Done(CursorLeft(d))
    <2>1. CASE d.pos = 0
      BY <1>1, <2>1, InputNumbers DEF CursorLeft
    <2>2. /\ d.pos + -1 = d.pos - 1 /\ d.input_x + -1 = d.input_x - 1
          /\ d.show_x + -1 = d.show_x - 1
      BY <1>1, InputNumbers
    <2>3. CASE d.pos > 0 /\ d.input_x > 0
      <3>1. d.pos + -1 \in 0..Len(d.instr) /\ d.input_x + -1 \in Cells
        BY <1>1, <2>3, InputNumbers DEF Cells
      <3>2. CursorLeft(d) = [d EXCEPT !.pos = d.pos + -1, !.input_x = d.input_x + -1]
        <4>1. CursorLeft(d) = [d EXCEPT !.pos = d.pos - 1, !.input_x = d.input_x - 1]
          BY <1>1, <2>3, InputNumbers DEF CursorLeft
        <4> QED BY <4>1, <2>2
      <3> QED BY <1>3, <3>1, <3>2
    <2>4. CASE d.pos > 0 /\ ~(d.input_x > 0)
      <3>1. d.pos + -1 \in 0..Len(d.instr) /\ d.show_x + -1 \in Nat
        BY <1>1, <2>4, InputNumbers
      <3>2. CursorLeft(d) = PrintField([d EXCEPT !.pos = d.pos + -1, !.show_x = d.show_x + -1])
        <4>1. CursorLeft(d) = PrintField([d EXCEPT !.pos = d.pos - 1, !.show_x = d.show_x - 1])
          BY <1>1, <2>4, InputNumbers DEF CursorLeft
        <4> QED BY <4>1, <2>2
      <3> QED BY <1>4, <3>1, <3>2
    <2> QED BY <1>1, <2>1, <2>3, <2>4, InputNumbers
  <1>6. Done(CursorRight(d))
    <2>1. CASE d.pos >= Len(d.instr)
      BY <1>1, <2>1, InputNumbers DEF CursorRight
    <2>2. CASE d.pos < Len(d.instr) /\ d.input_x < BoxWidth - 1
      BY <1>1, <1>3, <2>2, InputNumbers DEF CursorRight, Cells
    <2>3. CASE d.pos < Len(d.instr) /\ ~(d.input_x < BoxWidth - 1)
      <3>1. d.pos + 1 \in 0..Len(d.instr) /\ d.show_x + 1 \in Nat
        BY <1>1, <2>3, InputNumbers
      <3>2. CursorRight(d) = PrintField([d EXCEPT !.pos = d.pos + 1, !.show_x = d.show_x + 1])
        BY <1>1, <2>3, InputNumbers DEF CursorRight
      <3> QED BY <1>4, <3>1, <3>2
    <2> QED BY <1>1, <2>1, <2>2, <2>3, InputNumbers
  <1>7. Done(Typed(d, key))
    <2>1. CASE Len(d.instr) >= MAX_LEN
      BY <1>1, <2>1 DEF Typed
    <2>2. CASE ~(Len(d.instr) >= MAX_LEN)
      <3> DEFINE full == d.input_x = BoxWidth - 1
                 instr == InsertAt(d.instr, d.pos + 1, key)
                 show_x == IF full THEN d.show_x + 1 ELSE d.show_x
                 input_x == IF full THEN d.input_x ELSE d.input_x + 1
                 e == [d EXCEPT !.instr = instr, !.pos = d.pos + 1, !.show_x = show_x,
                                !.input_x = input_x]
      <3>1. Typed(d, key) = PrintField(e)
        BY <1>1, <2>2, InputNumbers DEF Typed, InputFields
      <3>2. instr \in Seq(Characters) /\ Len(instr) = Len(d.instr) + 1
        <4>1. d.pos + 1 \in 1..Len(d.instr) + 1 /\ d.instr \in Seq(Characters)
          BY <1>1, InputNumbers
        <4> QED BY <4>1, Inserted
      <3> HIDE DEF instr
      <3>3. Len(instr) = Len(d.instr) + 1
        BY <3>2
      <3>4. /\ d.pos + 1 \in 0..Len(instr) /\ show_x \in Nat /\ input_x \in Cells
            /\ show_x + input_x = d.pos + 1 /\ show_x - d.show_x <= 1 /\ d.show_x - show_x <= 1
            /\ Len(instr) - show_x >= Len(d.instr) - d.show_x - 1
        <4>1. /\ Len(d.instr) \in Nat /\ d.pos \in 0..Len(d.instr) /\ d.show_x \in Nat
              /\ d.input_x \in 0..BoxWidth - 1 /\ d.show_x + d.input_x = d.pos
              /\ BoxWidth \in Nat \ {0}
          BY <1>1, InputNumbers
        <4>2. d.pos + 1 \in 0..Len(instr)
          BY <3>3, <4>1
        <4>3. show_x \in Nat /\ input_x \in Cells
          BY <4>1, SizesAssumption DEF Cells
        <4>4. show_x + input_x = d.pos + 1
          BY <4>1
        <4>5. show_x - d.show_x <= 1 /\ d.show_x - show_x <= 1
          BY <4>1
        <4>6. Len(instr) - show_x >= Len(d.instr) - d.show_x - 1
          BY <3>3, <4>1
        <4> QED BY <4>2, <4>3, <4>4, <4>5, <4>6
      <3> HIDE DEF show_x, input_x, e
      <3>5. InputFits(PrintField(e)) /\ OnlyIn(d, PrintField(e), Typing)
        BY <3>2, <3>4, Edited DEF e
      <3> QED BY <3>1, <3>5
    <2> QED BY <2>1, <2>2
  <1> QED BY <1>2, <1>5, <1>6, <1>7 DEF EditInput

----------------------------------------------------------------------------
(* The text box: what its loops over lines come to. *)

TextFields == {"kind", "n", "height", "page", "begin_reached", "end_reached", "page_length", "stop",
               "passed", "screen", "update", "results", "keys"}
TextShape(d) ==
    /\ TextFields \subseteq DOMAIN d /\ d.kind = "text"
    /\ d.n \in Nat /\ d.height \in Nat \ {0} /\ d.page \in 0..d.n /\ d.page_length \in Nat
    /\ d.end_reached \in BOOLEAN /\ d.stop \in BOOLEAN /\ d.passed \in BOOLEAN
    /\ d.update \in BOOLEAN /\ (~d.update => d.keys = {})
    /\ \A r \in DOMAIN d.results : d.results[r] \in Nat

Positions == {"page", "begin_reached", "end_reached", "stop"}
Printing == {"page", "end_reached", "screen", "page_length", "passed"}

\* A step that writes only what TextShape says little of.
LEMMA StillText ==
  ASSUME NEW d, TextShape(d), NEW e, OnlyIn(d, e, Positions \union Printing \union {"keys"}),
         e.page \in 0..d.n, e.page_length \in Nat, e.end_reached \in BOOLEAN,
         e.stop \in BOOLEAN, e.passed \in BOOLEAN, ~d.update => e.keys = {}
  PROVE  TextShape(e)
  <1>1. /\ e.kind = d.kind /\ e.n = d.n /\ e.height = d.height /\ e.update = d.update
        /\ e.results = d.results /\ TextFields \subseteq DOMAIN e
    BY DEF TextShape, OnlyIn, TextFields, Positions, Printing
  <1> QED BY <1>1 DEF TextShape

\* get_line() goes on by a line, and notes when there was none.
LEMMA GetLineText ==
  ASSUME NEW d, TextShape(d)
  PROVE  LET e == GetLine(d)
         IN  /\ TextShape(e) /\ OnlyIn(d, e, {"page", "end_reached"})
             /\ e.page = Least(d.page + 1, d.n) /\ (e.end_reached <=> d.page = d.n)
  <1> DEFINE e == GetLine(d)
  <1>1. TextFields \subseteq DOMAIN d /\ d.page \in 0..d.n /\ d.n \in Nat
    BY DEF TextShape
  <1>2. /\ OnlyIn(d, e, {"page", "end_reached"})
        /\ e.page = Least(d.page + 1, d.n) /\ (e.end_reached <=> d.page = d.n)
    <2>1. CASE d.page = d.n
      <3>1. e = [d EXCEPT !.end_reached = TRUE] /\ Least(d.page + 1, d.n) = d.page
        BY <1>1, <2>1 DEF GetLine, Least
      <3> QED BY <1>1, <2>1, <3>1 DEF OnlyIn, TextFields
    <2>2. CASE d.page # d.n
      <3>1. /\ e = [d EXCEPT !.end_reached = FALSE, !.page = d.page + 1]
            /\ Least(d.page + 1, d.n) = d.page + 1
        BY <1>1, <2>2 DEF GetLine, Least
      <3> QED BY <1>1, <2>2, <3>1 DEF OnlyIn, TextFields
    <2> QED BY <2>1, <2>2
  <1> HIDE DEF e
  <1>3. e.page \in 0..d.n
    BY <1>1, <1>2 DEF Least
  <1>4. /\ e.stop = d.stop /\ e.passed = d.passed /\ e.keys = d.keys
        /\ e.page_length = d.page_length
    BY <1>1, <1>2 DEF OnlyIn, TextFields
  <1>5. OnlyIn(d, e, Positions \union Printing \union {"keys"})
    BY <1>2 DEF OnlyIn, Positions
  <1>6. e.end_reached \in BOOLEAN
    BY <1>1 DEF e, GetLine, TextFields
  <1>7. /\ d.page_length \in Nat /\ d.stop \in BOOLEAN /\ d.passed \in BOOLEAN
        /\ ~d.update => d.keys = {}
    BY DEF TextShape
  <1>8. TextShape(e)
    BY <1>3, <1>4, <1>5, <1>6, <1>7, StillText
  <1> QED BY <1>2, <1>8 DEF e

\* Reading on n lines.
Ahead(x, k, y) ==
    /\ TextShape(y) /\ OnlyIn(x, y, {"page", "end_reached"})
    /\ y.page = Least(x.page + k, x.n)
    /\ k > 0 => (y.end_reached <=> x.page + k > x.n)
ForwardTurn(x, k, after) == IF k = 0 THEN x ELSE GetLine(after[k - 1])
Forward == INSTANCE Recursion WITH Body <- ForwardTurn, Rank <- Numbered

\* Reading on n lines, by induction.
LEMMA LinesAhead ==
  ASSUME NEW d, TextShape(d), NEW n \in Nat
  PROVE  Ahead(d, n, Repeat(GetLine, d, n))
  <1>1. d.page \in 0..d.n /\ d.n \in Nat
    BY DEF TextShape
  <1>2. Ahead(d, 0, d)
    BY <1>1 DEF Ahead, OnlyIn, Least
  <1>3. ASSUME NEW y, NEW k \in Nat, Ahead(d, k, y) PROVE Ahead(d, k + 1, GetLine(y))
    <2> DEFINE z == GetLine(y)
    <2>1. /\ TextShape(z) /\ OnlyIn(y, z, {"page", "end_reached"})
          /\ z.page = Least(y.page + 1, y.n) /\ (z.end_reached <=> y.page = y.n)
      BY <1>3, GetLineText DEF Ahead
    <2> HIDE DEF z
    <2>2. y.n = d.n /\ y.page = Least(d.page + k, d.n)
      BY <1>3 DEF Ahead, OnlyIn, TextShape, TextFields
    <2>3. z.page = Least(d.page + (k + 1), d.n)
      BY <1>1, <2>1, <2>2 DEF Least
    <2>4. y.page = y.n <=> d.page + (k + 1) > d.n
      BY <1>1, <2>2 DEF Least
    <2>5. OnlyIn(d, z, {"page", "end_reached"})
      BY <1>3, <2>1 DEF Ahead, OnlyIn
    <2> QED BY <2>1, <2>3, <2>4, <2>5 DEF Ahead, z
  <1>4. \A y : \A k \in Nat : Ahead(d, k, y) => Ahead(d, k + 1, GetLine(y))
    BY <1>3, Zenon
  <1>5. Ahead(d, n, Repeat(GetLine, d, n))
    <2> DEFINE f == Forward!Fixed(d, 0..n)
               T == {k \in Nat : k <= n => Ahead(d, k, f[k])}
    <2>1. Repeat(GetLine, d, n) = f[n]
      BY DEF Repeat, Forward!Fixed, ForwardTurn
    <2>2. \A k \in 0..n : f[k] = ForwardTurn(d, k, f)
      BY Forward!StepByStep DEF ForwardTurn, Numbered
    <2> HIDE DEF f
    <2>3. 0 \in T
      BY <1>2, <2>2 DEF ForwardTurn
    <2>4. ASSUME NEW k \in Nat, k \in T PROVE k + 1 \in T
      <3>1. k + 1 <= n => f[k + 1] = GetLine(f[k])
        BY <2>2 DEF ForwardTurn
      <3> QED BY <1>4, <2>4, <3>1
    <2> HIDE DEF T
    <2>5. n \in T
      BY <2>3, <2>4, Forward!SetInduction
    <2> QED BY <2>1, <2>5 DEF T
  <1> QED BY <1>5

\* Going back n lines: the end of the text, once met, is one of them.
Skipped(x) == IF x.page = x.n /\ x.end_reached THEN 1 ELSE 0
Behind(x, k, y) ==
    /\ TextShape(y) /\ OnlyIn(x, y, Positions)
    /\ y.page = Most(x.page - Most(k - Skipped(x), 0), 0)
    /\ y.stop => y.page = 0
    /\ IF k = 0 THEN y = x ELSE ~(y.page = y.n /\ y.end_reached)
BackwardTurn(x, k, after) == IF k = 0 THEN x ELSE BackOne(after[k - 1])
Backward == INSTANCE Recursion WITH Body <- BackwardTurn, Rank <- Numbered

\* One turn of back_lines().
LEMMA BackOneText ==
  ASSUME NEW d, TextShape(d)
  PROVE  LET e == BackOne(d)
         IN  /\ TextShape(e) /\ OnlyIn(d, e, Positions)
             /\ d.stop => e = d
             /\ ~d.stop /\ d.page = d.n /\ d.end_reached => e.page = d.page /\ e.end_reached = FALSE
                                                            /\ e.stop = FALSE
             /\ ~d.stop /\ ~(d.page = d.n /\ d.end_reached)
                => /\ e.page = Most(d.page - 1, 0) /\ e.end_reached = d.end_reached
                   /\ e.stop => e.page = 0
  <1> DEFINE e == BackOne(d)
  <1>1. TextFields \subseteq DOMAIN d /\ d.page \in 0..d.n /\ d.n \in Nat
    BY DEF TextShape
  <1>2. CASE d.stop
    BY <1>2 DEF BackOne, OnlyIn
  <1>3. CASE ~d.stop /\ d.page = d.n /\ d.end_reached
    <2>1. e = [d EXCEPT !.end_reached = FALSE]
      BY <1>3 DEF BackOne
    <2> HIDE DEF e
    <2>2. OnlyIn(d, e, {"end_reached"}) /\ e.end_reached = FALSE
      BY <1>1, <2>1 DEF OnlyIn, TextFields
    <2>3. /\ e.stop = d.stop /\ e.passed = d.passed /\ e.keys = d.keys /\ e.page = d.page
          /\ e.page_length = d.page_length
      BY <1>1, <2>2 DEF OnlyIn, TextFields
    <2>4. /\ OnlyIn(d, e, Positions) /\ OnlyIn(d, e, Positions \union Printing \union {"keys"})
      BY <2>2 DEF OnlyIn, Positions
    <2>5. TextShape(e)
      BY <2>2, <2>3, <2>4, StillText DEF TextShape
    <2> QED BY <1>3, <2>2, <2>3, <2>4, <2>5 DEF e, TextShape
  <1>4. CASE ~d.stop /\ ~(d.page = d.n /\ d.end_reached)
    <2>1. e = [d EXCEPT !.page = Most(d.page - 1, 0), !.begin_reached = d.page <= 1,
                        !.stop = d.page <= 1]
      BY <1>4 DEF BackOne
    <2> HIDE DEF e
    <2>2. /\ OnlyIn(d, e, {"page", "begin_reached", "stop"})
          /\ e.page = Most(d.page - 1, 0) /\ e.stop = (d.page <= 1)
      BY <1>1, <2>1 DEF OnlyIn, TextFields
    <2>3. /\ e.end_reached = d.end_reached /\ e.passed = d.passed /\ e.keys = d.keys
          /\ e.page_length = d.page_length
      BY <1>1, <2>2 DEF OnlyIn, TextFields
    <2>4. /\ OnlyIn(d, e, Positions) /\ OnlyIn(d, e, Positions \union Printing \union {"keys"})
      BY <2>2 DEF OnlyIn, Positions
    <2>5. e.page \in 0..d.n /\ (e.stop => e.page = 0) /\ e.stop \in BOOLEAN
      <3>1. Most(d.page - 1, 0) \in 0..d.n /\ (d.page <= 1 => Most(d.page - 1, 0) = 0)
        BY <1>1 DEF Most
      <3>2. e.page = Most(d.page - 1, 0) /\ (e.stop <=> d.page <= 1)
        BY <2>2
      <3>3. e.stop \in BOOLEAN
        BY <2>2
      <3> QED BY <3>1, <3>2, <3>3
    <2>6. TextShape(e)
      BY <2>2, <2>3, <2>4, <2>5, StillText DEF TextShape
    <2> QED BY <1>4, <2>2, <2>3, <2>4, <2>5, <2>6 DEF e
  <1> QED BY <1>2, <1>3, <1>4

\* back_lines() goes back n lines, one less if it starts behind the end of the text,
\* and never beyond its beginning: by induction.
LEMMA LinesBehind ==
  ASSUME NEW d, TextShape(d), NEW n \in Nat
  PROVE  LET e == BackLines(d, n)
         IN  /\ TextShape(e) /\ OnlyIn(d, e, Positions)
             /\ e.page = Most(d.page - Most(n - Skipped(d), 0), 0)
  <1> DEFINE x == [d EXCEPT !.begin_reached = FALSE, !.stop = FALSE]
  <1>1. TextFields \subseteq DOMAIN d /\ d.page \in 0..d.n /\ d.n \in Nat
    BY DEF TextShape
  <1>2. OnlyIn(d, x, {"begin_reached", "stop"}) /\ x.stop = FALSE
    BY <1>1 DEF OnlyIn, TextFields
  <1> HIDE DEF x
  <1>3. /\ x.page = d.page /\ x.n = d.n /\ x.end_reached = d.end_reached /\ x.passed = d.passed
        /\ x.keys = d.keys /\ x.page_length = d.page_length
    BY <1>1, <1>2 DEF OnlyIn, TextFields
  <1>4. OnlyIn(d, x, Positions) /\ OnlyIn(d, x, Positions \union Printing \union {"keys"})
    BY <1>2 DEF OnlyIn, Positions
  <1>5. TextShape(x)
    BY <1>2, <1>3, <1>4, StillText DEF TextShape
  <1>6. Skipped(x) \in {0, 1} /\ Skipped(x) = Skipped(d)
    BY <1>3 DEF Skipped
  <1>7. Behind(x, 0, x)
    BY <1>1, <1>2, <1>3, <1>5, <1>6 DEF Behind, OnlyIn, Most
  <1>8. ASSUME NEW y, NEW k \in Nat, Behind(x, k, y) PROVE Behind(x, k + 1, BackOne(y))
    <2> DEFINE z == BackOne(y)
    <2>1. /\ TextShape(z) /\ OnlyIn(y, z, Positions)
          /\ y.stop => z = y
          /\ ~y.stop /\ y.page = y.n /\ y.end_reached => z.page = y.page /\ z.end_reached = FALSE
                                                         /\ z.stop = FALSE
          /\ ~y.stop /\ ~(y.page = y.n /\ y.end_reached)
             => /\ z.page = Most(y.page - 1, 0) /\ z.end_reached = y.end_reached
                /\ z.stop => z.page = 0
      BY <1>8, BackOneText DEF Behind
    <2> HIDE DEF z
    <2>2. OnlyIn(x, z, Positions) /\ z.n = d.n /\ y.n = d.n
      BY <1>3, <1>5, <1>8, <2>1 DEF Behind, OnlyIn, TextShape, TextFields, Positions
    <2>3. y.page = Most(d.page - Most(k - Skipped(x), 0), 0) /\ (y.stop => y.page = 0)
      BY <1>3, <1>8 DEF Behind
    <2>4. /\ z.page = Most(d.page - Most((k + 1) - Skipped(x), 0), 0) /\ (z.stop => z.page = 0)
          /\ ~(z.page = z.n /\ z.end_reached)
      <3>1. CASE y.stop
        <4>1. k # 0 /\ ~(y.page = y.n /\ y.end_reached)
          BY <1>2, <1>8, <3>1 DEF Behind
        <4> QED BY <1>1, <1>6, <1>8, <2>1, <2>2, <2>3, <3>1, <4>1 DEF Most, Behind
      <3>2. CASE ~y.stop /\ y.page = y.n /\ y.end_reached
        <4>1. k = 0 /\ y = x
          BY <1>8, <3>2 DEF Behind
        <4>2. Skipped(x) = 1
          BY <3>2, <4>1 DEF Skipped
        <4> QED BY <1>1, <4>2, <2>1, <2>2, <2>3, <3>2, <4>1 DEF Most
      <3>3. CASE ~y.stop /\ ~(y.page = y.n /\ y.end_reached)
        <4>1. k = 0 => Skipped(x) = 0
          <5>1. k = 0 => y = x
            BY <1>8 DEF Behind
          <5> QED BY <3>3, <5>1 DEF Skipped
        <4>2. /\ z.page = Most(y.page - 1, 0) /\ z.end_reached = y.end_reached
              /\ z.stop => z.page = 0
          BY <2>1, <3>3
        <4>3. Most(y.page - 1, 0) = Most(d.page - Most((k + 1) - Skipped(x), 0), 0)
          BY <1>1, <1>6, <2>3, <4>1 DEF Most
        <4>4. y.page \in 0..d.n
          BY <1>8, <2>2 DEF Behind, TextShape
        <4>5. z.page = z.n => y.page = y.n
          BY <2>2, <4>2, <4>4, <1>1 DEF Most
        <4> QED BY <3>3, <4>2, <4>3, <4>5
      <3> QED BY <3>1, <3>2, <3>3
    <2>5. k + 1 # 0 /\ x.page = d.page
      BY <1>3
    <2>6. Behind(x, k + 1, z)
      <3>1. z.page = Most(x.page - Most((k + 1) - Skipped(x), 0), 0) /\ (z.stop => z.page = 0)
        BY <2>4, <2>5
      <3>2. IF k + 1 = 0 THEN z = x ELSE ~(z.page = z.n /\ z.end_reached)
        BY <2>4, <2>5
      <3>3. TextShape(z) /\ OnlyIn(x, z, Positions)
        BY <2>1, <2>2
      <3> QED BY <3>1, <3>2, <3>3, Zenon DEF Behind
    <2> QED BY <2>6 DEF z
  <1>9. \A y : \A k \in Nat : Behind(x, k, y) => Behind(x, k + 1, BackOne(y))
    BY <1>8, Zenon
  <1>10. Behind(x, n, Repeat(BackOne, x, n))
    <2> DEFINE f == Backward!Fixed(x, 0..n)
               T == {k \in Nat : k <= n => Behind(x, k, f[k])}
    <2>1. Repeat(BackOne, x, n) = f[n]
      BY DEF Repeat, Backward!Fixed, BackwardTurn
    <2>2. \A k \in 0..n : f[k] = BackwardTurn(x, k, f)
      BY Backward!StepByStep DEF BackwardTurn, Numbered
    <2> HIDE DEF f
    <2>3. 0 \in T
      BY <1>5, <1>7, <2>2 DEF BackwardTurn
    <2>4. ASSUME NEW k \in Nat, k \in T PROVE k + 1 \in T
      <3>1. k + 1 <= n => f[k + 1] = BackOne(f[k])
        BY <2>2 DEF BackwardTurn
      <3> QED BY <1>9, <2>4, <3>1
    <2> HIDE DEF T
    <2>5. n \in T
      BY <2>3, <2>4, Backward!SetInduction
    <2> QED BY <2>1, <2>5 DEF T
  <1>11. BackLines(d, n) = Repeat(BackOne, x, n)
    BY DEF BackLines, x
  <1> QED BY <1>3, <1>4, <1>6, <1>10, <1>11 DEF Behind, OnlyIn

\* What has been drawn after k lines, from x on.
Drawn(x, k, y) ==
    /\ TextShape(y) /\ OnlyIn(x, y, Printing)
    /\ y.page = Least(x.page + k, x.n)
    /\ k > 0 => (y.end_reached <=> x.page + k > x.n)
    /\ y.passed <=> x.page + k > x.n
    /\ y.page_length = Least(k, x.n - x.page + 1)
    /\ y.screen \in Seq(Nat) /\ Len(y.screen) = k
    /\ \A r \in 1..k : y.screen[r] = Least(x.page + r - 1, x.n)
LineTurn(x, k, after) == IF k = 0 THEN x ELSE PrintLine(after[k - 1])
Lines == INSTANCE Recursion WITH Body <- LineTurn, Rank <- Numbered

\* print_line() draws the line at page, and counts it unless the end was met before.
LEMMA PrintLineText ==
  ASSUME NEW d, TextShape(d), d.screen \in Seq(Nat)
  PROVE  LET e == PrintLine(d)
         IN  /\ TextShape(e) /\ OnlyIn(d, e, Printing)
             /\ e.page = Least(d.page + 1, d.n) /\ (e.end_reached <=> d.page = d.n)
             /\ e.screen = Append(d.screen, d.page)
             /\ e.page_length = IF d.passed THEN d.page_length ELSE d.page_length + 1
             /\ e.passed <=> d.passed \/ d.page = d.n
  <1> DEFINE read == GetLine(d)
             screen == Append(d.screen, d.page)
             length == IF d.passed THEN d.page_length ELSE d.page_length + 1
             e == PrintLine(d)
  <1>1. /\ TextShape(read) /\ OnlyIn(d, read, {"page", "end_reached"})
        /\ read.page = Least(d.page + 1, d.n) /\ (read.end_reached <=> d.page = d.n)
    BY GetLineText
  <1>2. TextFields \subseteq DOMAIN d
    BY DEF TextShape
  <1>3. DOMAIN read = DOMAIN d /\ \A f \in DOMAIN d \ {"page", "end_reached"} : read[f] = d[f]
    BY <1>1 DEF OnlyIn
  <1>4. /\ read.screen = d.screen /\ read.page_length = d.page_length /\ read.passed = d.passed
    BY <1>2, <1>3 DEF TextFields
  <1>5. e = [read EXCEPT !.screen = screen, !.page_length = length,
                         !.passed = d.passed \/ (d.page = d.n)]
    BY <1>1, <1>4, Zenon DEF PrintLine
  <1> HIDE DEF read, e, screen, length
  <1>6. /\ DOMAIN e = DOMAIN d /\ e.screen = screen /\ e.page_length = length
        /\ e.passed = (d.passed \/ (d.page = d.n))
        /\ \A f \in DOMAIN d \ {"screen", "page_length", "passed"} : e[f] = read[f]
    BY <1>2, <1>3, <1>5 DEF TextFields
  <1>7. OnlyIn(d, e, Printing) /\ OnlyIn(d, e, Positions \union Printing \union {"keys"})
    BY <1>3, <1>6 DEF OnlyIn, Printing
  <1>8. /\ e.page = read.page /\ e.end_reached = read.end_reached /\ e.stop = d.stop
        /\ e.keys = d.keys
    BY <1>2, <1>3, <1>6 DEF TextFields
  <1>9. length \in Nat /\ (d.passed \/ (d.page = d.n)) \in BOOLEAN /\ read.page \in 0..d.n
    <2>1. length \in Nat /\ (d.passed \/ (d.page = d.n)) \in BOOLEAN
      BY DEF TextShape, length
    <2>2. read.page \in 0..read.n /\ read.n = d.n
      BY <1>1, <1>2, <1>3 DEF TextShape, TextFields
    <2> QED BY <2>1, <2>2
  <1>10. TextShape(e)
    BY <1>1, <1>6, <1>7, <1>8, <1>9, StillText DEF TextShape
  <1> QED BY <1>1, <1>6, <1>7, <1>8, <1>10 DEF e, screen, length

\* A page is height lines from page on, by induction.
LEMMA LinesDrawn ==
  ASSUME NEW d, TextShape(d), d.screen = <<>>, d.page_length = 0, d.passed = FALSE, NEW n \in Nat
  PROVE  Drawn(d, n, Repeat(PrintLine, d, n))
  <1>1. d.page \in 0..d.n /\ d.n \in Nat
    BY DEF TextShape
  <1>2. Drawn(d, 0, d)
    <2>1. Least(d.page + 0, d.n) = d.page /\ Least(0, d.n - d.page + 1) = 0
      BY <1>1 DEF Least
    <2>2. ~(d.page + 0 > d.n) /\ d.screen \in Seq(Nat) /\ Len(d.screen) = 0
      BY <1>1
    <2> QED BY <2>1, <2>2 DEF Drawn, OnlyIn
  <1>3. ASSUME NEW y, NEW k \in Nat, Drawn(d, k, y) PROVE Drawn(d, k + 1, PrintLine(y))
    <2> DEFINE z == PrintLine(y)
    <2>1. /\ TextShape(z) /\ OnlyIn(y, z, Printing)
          /\ z.page = Least(y.page + 1, y.n) /\ (z.end_reached <=> y.page = y.n)
          /\ z.screen = Append(y.screen, y.page)
          /\ z.page_length = IF y.passed THEN y.page_length ELSE y.page_length + 1
          /\ z.passed <=> y.passed \/ y.page = y.n
      BY <1>3, PrintLineText DEF Drawn
    <2> HIDE DEF z
    <2>2. /\ y.n = d.n /\ y.page = Least(d.page + k, d.n)
          /\ y.passed <=> d.page + k > d.n
          /\ y.page_length = Least(k, d.n - d.page + 1)
      BY <1>3 DEF Drawn, OnlyIn, TextShape, TextFields, Printing
    <2>3. z.page = Least(d.page + (k + 1), d.n)
      <3>1. z.page = Least(Least(d.page + k, d.n) + 1, d.n)
        BY <2>1, <2>2
      <3> QED BY <1>1, <3>1 DEF Least
    <2>4. y.page = y.n <=> d.page + (k + 1) > d.n
      BY <1>1, <2>2 DEF Least
    <2>5. z.passed <=> d.page + (k + 1) > d.n
      BY <1>1, <2>1, <2>2, <2>4
    <2>6. z.page_length = Least(k + 1, d.n - d.page + 1)
      <3>1. CASE d.page + k > d.n
        BY <1>1, <2>1, <2>2, <3>1 DEF Least
      <3>2. CASE ~(d.page + k > d.n)
        BY <1>1, <2>1, <2>2, <3>2 DEF Least
      <3> QED BY <3>1, <3>2
    <2>7. /\ z.screen \in Seq(Nat) /\ Len(z.screen) = k + 1
          /\ \A r \in 1..k + 1 : z.screen[r] = Least(d.page + r - 1, d.n)
      <3>1. /\ y.screen \in Seq(Nat) /\ Len(y.screen) = k /\ y.page \in Nat
            /\ \A r \in 1..k : y.screen[r] = Least(d.page + r - 1, d.n)
        BY <1>3 DEF Drawn, TextShape
      <3>2. ASSUME NEW r \in 1..k + 1
            PROVE  z.screen[r] = IF r = k + 1 THEN y.page ELSE y.screen[r]
        BY <2>1, <3>1
      <3>3. y.page = Least(d.page + (k + 1) - 1, d.n)
        BY <1>1, <2>2
      <3> QED BY <2>1, <3>1, <3>2, <3>3
    <2>8. OnlyIn(d, z, Printing)
      BY <1>3, <2>1 DEF Drawn, OnlyIn
    <2>9. Drawn(d, k + 1, z)
      BY <2>1, <2>3, <2>4, <2>5, <2>6, <2>7, <2>8 DEF Drawn
    <2> QED BY <2>9 DEF z
  <1>4. \A y : \A k \in Nat : Drawn(d, k, y) => Drawn(d, k + 1, PrintLine(y))
    BY <1>3, Zenon
  <1>5. Drawn(d, n, Repeat(PrintLine, d, n))
    <2> DEFINE f == Lines!Fixed(d, 0..n)
               T == {k \in Nat : k <= n => Drawn(d, k, f[k])}
    <2>1. Repeat(PrintLine, d, n) = f[n]
      BY DEF Repeat, Lines!Fixed, LineTurn
    <2>2. \A k \in 0..n : f[k] = LineTurn(d, k, f)
      BY Lines!StepByStep DEF LineTurn, Numbered
    <2> HIDE DEF f
    <2>3. 0 \in T
      BY <1>2, <2>2 DEF LineTurn
    <2>4. ASSUME NEW k \in Nat, k \in T PROVE k + 1 \in T
      <3>1. k + 1 <= n => f[k + 1] = PrintLine(f[k])
        BY <2>2 DEF LineTurn
      <3> QED BY <1>4, <2>4, <3>1
    <2> HIDE DEF T
    <2>5. n \in T
      BY <2>3, <2>4, Lines!SetInduction
    <2> QED BY <2>1, <2>5 DEF T
  <1> QED BY <1>5

\* The results that get a key are on the page that is drawn next.
LEMMA UpdateTextKeys ==
  ASSUME NEW d, TextShape(d)
  PROVE  LET e == UpdateText(d)
         IN  /\ TextShape(e) /\ OnlyIn(d, e, Positions \union {"keys"})
             /\ \A r \in e.keys : /\ e.results[r] \in Nat /\ e.results[r] < e.n
                                  /\ e.page <= e.results[r] /\ e.results[r] < e.page + e.height
  <1> DEFINE ahead == Repeat(GetLine, d, d.height)
             back == BackLines(ahead, d.height)
             keys == {r \in DOMAIN d.results :
                        back.page <= d.results[r] /\ d.results[r] < ahead.page}
             e == UpdateText(d)
  <1>1. /\ TextFields \subseteq DOMAIN d
        /\ d.page \in 0..d.n /\ d.n \in Nat /\ d.height \in Nat \ {0}
        /\ \A r \in DOMAIN d.results : d.results[r] \in Nat
    BY DEF TextShape
  <1>2. CASE ~d.update
    <2>1. e = d /\ d.keys = {}
      BY <1>2 DEF UpdateText, TextShape
    <2> HIDE DEF e
    <2> QED BY <2>1 DEF OnlyIn, e
  <1>3. CASE d.update
    <2>1. /\ TextShape(ahead) /\ OnlyIn(d, ahead, {"page", "end_reached"})
          /\ ahead.page = Least(d.page + d.height, d.n)
          /\ ahead.end_reached <=> d.page + d.height > d.n
      <3>1. Ahead(d, d.height, ahead)
        BY <1>1, LinesAhead
      <3> HIDE DEF ahead
      <3> QED BY <1>1, <3>1 DEF Ahead
    <2> HIDE DEF ahead
    <2>2. /\ TextShape(back) /\ OnlyIn(ahead, back, Positions)
          /\ back.page = Most(ahead.page - Most(d.height - Skipped(ahead), 0), 0)
      BY <1>1, <2>1, LinesBehind
    <2>3. e = [back EXCEPT !.keys = keys]
      BY <1>3, Zenon DEF UpdateText, ahead
    <2> HIDE DEF back, keys, e
    <2>4. OnlyIn(d, back, Positions)
      BY <2>1, <2>2 DEF OnlyIn, Positions
    <2>5. /\ DOMAIN e = DOMAIN back /\ e.keys = keys
          /\ \A f \in DOMAIN back \ {"keys"} : e[f] = back[f]
      BY <1>1, <2>3, <2>4 DEF OnlyIn, TextFields
    <2>6. OnlyIn(d, e, Positions \union {"keys"}) /\ OnlyIn(back, e, {"keys"})
      BY <2>4, <2>5 DEF OnlyIn
    <2>7. /\ e.page = back.page /\ e.end_reached = back.end_reached /\ e.stop = back.stop
          /\ e.passed = back.passed /\ e.page_length = back.page_length /\ back.update = d.update
      BY <1>1, <2>4, <2>6 DEF OnlyIn, TextFields, Positions
    <2>8. OnlyIn(back, e, Positions \union Printing \union {"keys"})
      BY <2>6 DEF OnlyIn
    <2>9. TextShape(e)
      BY <1>3, <2>2, <2>7, <2>8, StillText DEF TextShape
    <2>10. e.n = d.n /\ e.height = d.height /\ e.results = d.results
      BY <1>1, <2>6 DEF OnlyIn, TextFields, Positions
    <2>11. Skipped(ahead) = IF d.page + d.height > d.n THEN 1 ELSE 0
      <3>1. ahead.n = d.n
        BY <1>1, <2>1 DEF OnlyIn, TextFields
      <3> QED BY <1>1, <2>1, <3>1 DEF Skipped, Least
    <2>12. ahead.page <= d.n /\ ahead.page <= back.page + d.height
      BY <1>1, <2>1, <2>2, <2>11 DEF Least, Most
    <2>13. ahead.page \in Nat /\ back.page \in Nat
      BY <2>1, <2>2 DEF TextShape
    <2>14. ASSUME NEW r \in keys
           PROVE  /\ d.results[r] \in Nat /\ d.results[r] < d.n
                  /\ back.page <= d.results[r] /\ d.results[r] < back.page + d.height
      BY <1>1, <2>12, <2>13 DEF keys
    <2> QED BY <2>5, <2>6, <2>7, <2>9, <2>10, <2>14 DEF e
  <1> QED BY <1>2, <1>3

PageTrue(d) ==
    /\ VScroll(d) = d.screen[1]
    /\ \A r \in 1..Len(d.screen) : d.screen[r] = Least(d.screen[1] + r - 1, d.n)
    /\ \A k \in d.keys : d.results[k] \in ToSet(d.screen)
TextFits(d) == TextShape(d) /\ PageTrue(d) /\ d.page_length # 0
Paging == Positions \union Printing \union {"keys"}

\* Whenever a page has been printed, page_length leads back to its first line.
LEMMA PrintPageFits ==
  ASSUME NEW d, TextShape(d)
  PROVE  TextFits(PrintPage(d)) /\ OnlyIn(d, PrintPage(d), Paging)
  <1> DEFINE u == UpdateText(d)
             x == [u EXCEPT !.page_length = 0, !.passed = FALSE, !.screen = <<>>]
             e == PrintPage(d)
  <1>1. /\ TextShape(u) /\ OnlyIn(d, u, Positions \union {"keys"})
        /\ \A r \in u.keys : /\ u.results[r] \in Nat /\ u.results[r] < u.n
                             /\ u.page <= u.results[r] /\ u.results[r] < u.page + u.height
    BY UpdateTextKeys
  <1> HIDE DEF u
  <1>2. TextFields \subseteq DOMAIN u /\ u.page \in 0..u.n /\ u.n \in Nat /\ u.height \in Nat \ {0}
    BY <1>1 DEF TextShape
  <1>3. OnlyIn(u, x, Printing) /\ x.page_length = 0 /\ x.passed = FALSE /\ x.screen = <<>>
        /\ x.page = u.page /\ x.end_reached = u.end_reached
    BY <1>2 DEF OnlyIn, TextFields, Printing
  <1> HIDE DEF x
  <1>4. /\ x.n = u.n /\ x.height = u.height /\ x.stop = u.stop /\ x.keys = u.keys
        /\ x.results = u.results
    BY <1>2, <1>3 DEF OnlyIn, TextFields, Printing
  <1>5. TextShape(x)
    <2>1. OnlyIn(u, x, Positions \union Printing \union {"keys"})
      BY <1>3 DEF OnlyIn
    <2>2. x.page \in 0..u.n /\ x.page_length \in Nat /\ x.passed \in BOOLEAN
      <3>1. x.page \in 0..u.n
        BY <1>2, <1>3
      <3>2. x.page_length \in Nat
        BY <1>3
      <3>3. x.passed \in BOOLEAN
        BY <1>3
      <3> QED BY <3>1, <3>2, <3>3
    <2>3. u.end_reached \in BOOLEAN /\ u.stop \in BOOLEAN /\ (~u.update => u.keys = {})
      BY <1>1 DEF TextShape
    <2>4. x.end_reached \in BOOLEAN /\ x.stop \in BOOLEAN /\ (~u.update => x.keys = {})
      BY <1>3, <1>4, <2>3
    <2> QED BY <1>1, <2>1, <2>2, <2>4, StillText
  <1>6. Drawn(x, x.height, Repeat(PrintLine, x, x.height))
    BY <1>2, <1>3, <1>4, <1>5, LinesDrawn
  <1>7. e = Repeat(PrintLine, x, x.height)
    <2>1. u.height = d.height
      BY <1>1, <1>2 DEF OnlyIn, TextShape, TextFields, Positions
    <2> QED BY <1>4, <2>1 DEF PrintPage, x, u
  <1> HIDE DEF e
  <1>8. /\ TextShape(e) /\ OnlyIn(x, e, Printing)
        /\ e.page = Least(u.page + u.height, u.n)
        /\ e.end_reached <=> u.page + u.height > u.n
        /\ e.page_length = Least(u.height, u.n - u.page + 1)
        /\ e.screen \in Seq(Nat) /\ Len(e.screen) = u.height
        /\ \A r \in 1..u.height : e.screen[r] = Least(u.page + r - 1, u.n)
    BY <1>2, <1>3, <1>4, <1>6, <1>7 DEF Drawn
  <1>9. OnlyIn(d, e, Paging)
    BY <1>1, <1>3, <1>8 DEF OnlyIn, Paging
  <1>10. e.n = u.n /\ e.keys = u.keys /\ e.results = u.results
    BY <1>4, <1>5, <1>8 DEF OnlyIn, TextShape, TextFields, Printing
  <1>11. e.screen[1] = u.page /\ e.page_length # 0 /\ e.page_length \in Nat
    <2>1. 1 \in 1..u.height /\ Least(u.page + 1 - 1, u.n) = u.page
      BY <1>2 DEF Least
    <2>2. e.screen[1] = u.page
      BY <1>8, <2>1
    <2>3. Least(u.height, u.n - u.page + 1) \in Nat \ {0}
      BY <1>2 DEF Least
    <2> QED BY <1>8, <2>2, <2>3
  <1>12. VScroll(e) = e.screen[1]
    <2>1. VScroll(e) = Most(e.page - Most(e.page_length - Skipped(e), 0), 0)
      BY <1>8, <1>11, LinesBehind DEF VScroll
    <2>2. CASE u.page + u.height > u.n
      <3>1. Skipped(e) = 1 /\ e.page = u.n /\ e.page_length = u.n - u.page + 1
        BY <1>2, <1>8, <1>10, <2>2 DEF Skipped, Least
      <3> QED BY <1>2, <1>11, <2>1, <3>1 DEF Most
    <2>3. CASE ~(u.page + u.height > u.n)
      <3>1. Skipped(e) = 0
        BY <1>8, <2>3 DEF Skipped
      <3>2. /\ Least(u.page + u.height, u.n) = u.page + u.height
            /\ Least(u.height, u.n - u.page + 1) = u.height
        BY <1>2, <2>3 DEF Least
      <3>3. e.page = u.page + u.height /\ e.page_length = u.height
        BY <1>8, <3>2
      <3> QED BY <1>2, <1>11, <2>1, <3>1, <3>3 DEF Most
    <2> QED BY <2>2, <2>3
  <1>13. ASSUME NEW k \in e.keys PROVE e.results[k] \in ToSet(e.screen)
    <2> DEFINE r == u.results[k] - u.page + 1
    <2>1. r \in 1..u.height /\ u.page + r - 1 = u.results[k] /\ u.results[k] < u.n
      BY <1>1, <1>2, <1>10
    <2> HIDE DEF r
    <2>2. e.screen[r] = u.results[k]
      BY <1>1, <1>2, <1>8, <1>10, <2>1 DEF Least
    <2> QED BY <1>8, <1>10, <2>1, <2>2 DEF ToSet
  <1>14. \A r \in 1..Len(e.screen) : e.screen[r] = Least(e.screen[1] + r - 1, e.n)
    BY <1>8, <1>10, <1>11
  <1> QED BY <1>8, <1>9, <1>11, <1>12, <1>13, <1>14 DEF TextFits, PageTrue, e

\* Any key of a text leads to a page.
LEMMA MoveTextFits ==
  ASSUME NEW d, TextFits(d), NEW key
  PROVE  TextFits(MoveText(d, key)) /\ OnlyIn(d, MoveText(d, key), Paging)
  <1> DEFINE Done(e) == TextFits(e) /\ OnlyIn(d, e, Paging)
  <1>1. /\ TextShape(d) /\ Done(d) /\ TextFields \subseteq DOMAIN d
        /\ d.page_length - 1 \in Nat /\ d.page_length + 1 \in Nat
        /\ d.page_length + d.height \in Nat /\ d.page_length \in Nat /\ d.height \in Nat
    BY DEF TextFits, OnlyIn, TextShape
  <1>2. ASSUME NEW x, TextShape(x), OnlyIn(d, x, Paging) PROVE Done(PrintPage(x))
    BY <1>2, PrintPageFits DEF OnlyIn
  <1>3. ASSUME NEW x, TextShape(x), OnlyIn(d, x, Paging), NEW n \in Nat
        PROVE  Done(PrintPage(BackLines(x, n)))
    <2>1. TextShape(BackLines(x, n)) /\ OnlyIn(x, BackLines(x, n), Positions)
      BY <1>3, LinesBehind
    <2>2. OnlyIn(d, BackLines(x, n), Paging)
      BY <1>3, <2>1 DEF OnlyIn, Paging
    <2> QED BY <1>2, <2>1, <2>2
  <1>4. ASSUME NEW x \in {[d EXCEPT !.begin_reached = TRUE, !.page = 0],
                          [d EXCEPT !.end_reached = TRUE, !.page = d.n],
                          [d EXCEPT !.begin_reached = FALSE], d}
        PROVE  TextShape(x) /\ OnlyIn(d, x, Paging)
    <2>1. OnlyIn(d, x, Positions)
      BY <1>1 DEF OnlyIn, Positions, TextFields
    <2>2. OnlyIn(d, x, Paging)
      BY <2>1 DEF OnlyIn, Paging
    <2>3. /\ x.passed = d.passed /\ x.keys = d.keys /\ x.page_length = d.page_length
          /\ x.stop = d.stop
      BY <1>1, <2>1 DEF OnlyIn, Positions, TextFields
    <2>4. x.page \in {0, d.n, d.page} /\ x.end_reached \in {TRUE, d.end_reached}
      BY <1>1 DEF TextFields
    <2>5. x.page \in 0..d.n /\ x.end_reached \in BOOLEAN
      <3>1. d.page \in 0..d.n /\ d.n \in Nat
        BY <1>1 DEF TextShape
      <3>2. d.end_reached \in BOOLEAN
        BY <1>1 DEF TextShape
      <3>3. x.page \in 0..d.n
        BY <2>4, <3>1
      <3>4. x.end_reached \in BOOLEAN
        BY <2>4, <3>2
      <3> QED BY <3>3, <3>4
    <2>6. /\ d.page_length \in Nat /\ d.stop \in BOOLEAN /\ d.passed \in BOOLEAN
          /\ ~d.update => d.keys = {}
      BY <1>1 DEF TextShape
    <2>7. TextShape(x)
      BY <1>1, <2>3, <2>5, <2>2, <2>6, StillText DEF Paging
    <2> QED BY <2>2, <2>7
  <1> HIDE DEF Done
  <1>5. TextShape(d) /\ OnlyIn(d, d, Paging)
    BY <1>4
  <1>6. /\ Done(PrintPage([d EXCEPT !.begin_reached = TRUE, !.page = 0]))
        /\ Done(PrintPage([d EXCEPT !.begin_reached = FALSE]))
    BY <1>2, <1>4
  <1>7. Done(PrintPage(BackLines([d EXCEPT !.end_reached = TRUE, !.page = d.n], d.height)))
    BY <1>1, <1>3, <1>4
  <1>8. \A n \in Nat : Done(PrintPage(BackLines(d, n)))
    BY <1>3, <1>5
  <1>9. Done(MoveText(d, key))
    BY <1>1, <1>6, <1>7, <1>8, Zenon DEF MoveText
  <1> QED BY <1>9 DEF Done

\* A text is opened on a page.
LEMMA TextboxFits ==
  ASSUME NEW n \in Nat, NEW height \in Nat \ {0}, NEW results, NEW vscroll \in Nat,
         \A r \in DOMAIN results : results[r] \in Nat
  PROVE  LET e == dialog_textbox(n, height, results, vscroll)
         IN  TextFits(e) /\ DOMAIN e = TextFields /\ (e.update <=> results # <<>>)
  <1> DEFINE d == [kind |-> "text", n |-> n, height |-> height, page |-> 0,
                   begin_reached |-> vscroll = 0, end_reached |-> FALSE, page_length |-> 0,
                   stop |-> FALSE, passed |-> FALSE, screen |-> <<>>, update |-> results # <<>>,
                   results |-> results, keys |-> {}]
             x == Repeat(GetLine, d, vscroll)
  <1>1. DOMAIN d = TextFields /\ TextShape(d) /\ (d.update <=> results # <<>>)
    <2>1. DOMAIN d = TextFields
      BY DEF TextFields
    <2>2. d.update <=> results # <<>>
      OBVIOUS
    <2>3. TextShape(d)
      BY <2>1 DEF TextShape
    <2> QED BY <2>1, <2>2, <2>3
  <1> HIDE DEF d
  <1>2. TextShape(x) /\ DOMAIN x = TextFields /\ x.update = d.update
    <2>1. TextShape(x) /\ OnlyIn(d, x, {"page", "end_reached"})
      BY <1>1, LinesAhead DEF Ahead
    <2> HIDE DEF x
    <2> QED BY <1>1, <2>1 DEF OnlyIn, TextFields
  <1> HIDE DEF x
  <1> DEFINE p == PrintPage(x)
  <1>3. TextFits(p) /\ OnlyIn(x, p, Paging)
    BY <1>2, PrintPageFits
  <1> HIDE DEF p
  <1>4. DOMAIN p = TextFields /\ p.update = x.update
    BY <1>2, <1>3 DEF OnlyIn, Paging, TextFields, Positions, Printing
  <1> QED BY <1>1, <1>2, <1>3, <1>4 DEF p, dialog_textbox, d, x

\* A resize draws a page.
LEMMA LayoutTextFits ==
  ASSUME NEW d, TextFits(d), NEW height \in Nat \ {0}
  PROVE  LET e == LayoutText(d, height)
         IN  TextFits(e) /\ OnlyIn(d, e, Paging \union {"height"})
  <1> DEFINE b == BackLines(d, d.height + 4)
             x == [b EXCEPT !.height = height]
  <1>1. TextShape(b) /\ OnlyIn(d, b, Positions)
    BY LinesBehind DEF TextFits, TextShape
  <1> HIDE DEF b
  <1>2. TextFields \subseteq DOMAIN b
    BY <1>1 DEF TextShape
  <1>3. OnlyIn(b, x, {"height"}) /\ x.height = height
    BY <1>2 DEF OnlyIn, TextFields
  <1> HIDE DEF x
  <1>4. TextShape(x)
    BY <1>1, <1>2, <1>3 DEF TextShape, OnlyIn, TextFields
  <1>5. TextFits(PrintPage(x)) /\ OnlyIn(x, PrintPage(x), Paging)
    BY <1>4, PrintPageFits
  <1>6. OnlyIn(d, PrintPage(x), Paging \union {"height"})
    BY <1>1, <1>3, <1>5 DEF OnlyIn, Paging
  <1> QED BY <1>5, <1>6 DEF LayoutText, b, x

----------------------------------------------------------------------------
(* The buttons, and what the function that opens a dialog has at hand. *)

\* The fields of the dialog are those of d, whatever else e has.
Extends(d, e) == DOMAIN d \subseteq DOMAIN e /\ \A f \in DOMAIN d : e[f] = d[f]

\* A dialog that is open has the fields it was drawn with.
LEMMA OpenedExtends ==
  ASSUME NEW d, NEW caller
  PROVE  /\ Extends(d, Opened(d, caller))
         /\ \A f \in DOMAIN caller \ DOMAIN d : /\ f \in DOMAIN Opened(d, caller)
                                                /\ Opened(d, caller)[f] = caller[f]
  BY DEF Opened, Extends

\* A menu stays in order whatever else changes.
LEMMA MenuStays ==
  ASSUME NEW d, MenuFits(d), NEW e, MenuFields \subseteq DOMAIN e,
         \A f \in MenuFields \ {"button", "litButton"} : e[f] = d[f], e.button \in 0..4
  PROVE  MenuFits(e) /\ (RowsTrue(d) => RowsTrue(e))
  <1>1. /\ e.kind = d.kind /\ e.items = d.items /\ e.height = d.height /\ e.max = d.max
        /\ e.scroll = d.scroll /\ e.s_scroll = d.s_scroll /\ e.choice = d.choice
        /\ e.screen = d.screen
    BY DEF MenuFields
  <1> QED BY <1>1 DEF MenuFits, RowsTrue

\* So does a list,
LEMMA ListStays ==
  ASSUME NEW d, ListFits(d), NEW e, ListFields \subseteq DOMAIN e,
         \A f \in ListFields \ {"button", "litButton"} : e[f] = d[f], e.button \in 0..1
  PROVE  ListFits(e)
  <1>1. /\ e.kind = d.kind /\ e.items = d.items /\ e.height = d.height /\ e.max = d.max
        /\ e.scroll = d.scroll /\ e.choice = d.choice /\ e.screen = d.screen
    BY DEF ListFields
  <1> QED BY <1>1 DEF ListFits, ListShape, RowsTrue

\* an input box,
LEMMA InputStays ==
  ASSUME NEW d, InputFits(d), NEW e, InputFields \subseteq DOMAIN e,
         \A f \in InputFields \ {"button", "litButton"} : e[f] = d[f], e.button \in -1..1
  PROVE  InputFits(e)
  <1>1. /\ e.kind = d.kind /\ e.instr = d.instr /\ e.pos = d.pos /\ e.show_x = d.show_x
        /\ e.input_x = d.input_x /\ e.field = d.field
    BY DEF InputFields
  <1> QED BY <1>1 DEF InputFits, InputShape, FieldShows

\* and a text.
LEMMA TextStays ==
  ASSUME NEW d, TextFits(d), NEW e, Extends(d, e)
  PROVE  TextFits(e)
  <1>1. TextShape(d) /\ TextFields \subseteq DOMAIN d
    BY DEF TextFits, TextShape
  <1>2. /\ e.kind = d.kind /\ e.n = d.n /\ e.height = d.height /\ e.page = d.page
        /\ e.begin_reached = d.begin_reached /\ e.end_reached = d.end_reached
        /\ e.page_length = d.page_length /\ e.stop = d.stop /\ e.passed = d.passed
        /\ e.screen = d.screen /\ e.update = d.update /\ e.results = d.results /\ e.keys = d.keys
        /\ TextFields \subseteq DOMAIN e
    BY <1>1 DEF Extends, TextFields
  <1>3. TextShape(e)
    BY <1>1, <1>2 DEF TextShape
  <1>4. VScroll(e) = VScroll(d)
    <2>1. d.page_length \in Nat /\ Skipped(e) = Skipped(d)
      BY <1>1, <1>2 DEF TextShape, Skipped
    <2>2. VScroll(d) = Most(d.page - Most(d.page_length - Skipped(d), 0), 0)
      BY <1>1, <2>1, LinesBehind DEF VScroll
    <2>3. VScroll(e) = Most(e.page - Most(e.page_length - Skipped(e), 0), 0)
      BY <1>2, <1>3, <2>1, LinesBehind DEF VScroll
    <2> QED BY <1>2, <2>1, <2>2, <2>3
  <1> QED BY <1>2, <1>3, <1>4 DEF TextFits, PageTrue

Buttons == {"button", "litButton"}
\* Tab and the arrows go round the buttons, and light the one they come to.
LEMMA TurnKeeps ==
  ASSUME NEW d, Buttons \subseteq DOMAIN d, NEW last \in Nat, NEW lowest \in {-1, 0},
         d.button \in lowest..last, NEW key
  PROVE  /\ lowest = 0 => LET e == Turn(d, key, last)
                          IN  OnlyIn(d, e, Buttons) /\ e.button \in 0..last /\ e.litButton = e.button
         /\ last = 1 => LET e == TurnInput(d, key)
                        IN  /\ OnlyIn(d, e, Buttons) /\ e.button \in -1..1
                            /\ e.litButton = Most(e.button, 0)
  <1>1. ASSUME lowest = 0
        PROVE  LET e == Turn(d, key, last)
               IN  OnlyIn(d, e, Buttons) /\ e.button \in 0..last /\ e.litButton = e.button
    <2> DEFINE b == IF key = "left" THEN d.button - 1 ELSE d.button + 1
               button == IF b < 0 THEN last ELSE IF b > last THEN 0 ELSE b
    <2>1. button \in 0..last
      BY <1>1
    <2>2. Turn(d, key, last) = [d EXCEPT !.button = button, !.litButton = button]
      BY Zenon DEF Turn
    <2> HIDE DEF button
    <2> QED BY <2>1, <2>2 DEF OnlyIn, Buttons
  <1>2. ASSUME last = 1
        PROVE  LET e == TurnInput(d, key)
               IN  /\ OnlyIn(d, e, Buttons) /\ e.button \in -1..1
                   /\ e.litButton = Most(e.button, 0)
    <2> DEFINE b == IF key \in {"up", "left"} THEN d.button - 1 ELSE d.button + 1
               button == IF b < -1 THEN 1 ELSE IF b > 1 THEN -1 ELSE b
    <2>1. button \in -1..1
      BY <1>2
    <2>2. TurnInput(d, key) = [d EXCEPT !.button = button, !.litButton = Most(button, 0)]
      BY Zenon DEF TurnInput
    <2> HIDE DEF button
    <2> QED BY <2>1, <2>2 DEF OnlyIn, Buttons
  <1> QED BY <1>1, <1>2

----------------------------------------------------------------------------
(* The items of a menu. *)

MenuItem == [id : Nat \ {0}, tag : STRING, hot : STRING, needs : Nat, to : STRING]

\* Every number below the size of a set of numbers is that of the ones before
\* one of them.
LEMMA Ranks ==
  ASSUME NEW S, IsFiniteSet(S), S \subseteq Nat
  PROVE  \A r \in 1..Cardinality(S) : \E k \in S : Cardinality({j \in S : j < k}) = r - 1
  <1> DEFINE Below(k) == {j \in S : j < k}
             T == {r \in Nat : r < Cardinality(S) => \E k \in S : Cardinality(Below(k)) = r}
  <1>1. \A k : IsFiniteSet(Below(k)) /\ Below(k) \subseteq S
    BY FS_Subset
  <1>2. Cardinality(S) \in Nat
    BY FS_CardinalityType
  <1>3. 0 \in T
    <2>1. ASSUME 0 < Cardinality(S) PROVE \E k \in S : Cardinality(Below(k)) = 0
      <3>1. S # {}
        BY <2>1, FS_EmptySet
      <3>2. PICK k \in S : \A j \in S : k <= j
        BY <3>1, Ups!LeastNumber
      <3>3. \A j \in S : ~(j < k)
        BY <3>2
      <3>4. Below(k) = {}
        BY <3>3
      <3> QED BY <3>4, FS_EmptySet
    <2> QED BY <2>1
  <1>4. ASSUME NEW r \in Nat, r \in T PROVE r + 1 \in T
    <2>1. ASSUME r + 1 < Cardinality(S) PROVE \E k \in S : Cardinality(Below(k)) = r + 1
      <3>1. PICK k \in S : Cardinality(Below(k)) = r
        BY <1>2, <1>4, <2>1
      <3> DEFINE upto == Below(k) \union {k}
                 later == {j \in S : j > k}
      <3>2. IsFiniteSet(upto) /\ Cardinality(upto) = r + 1
        <4>1. IsFiniteSet(Below(k))
          BY <1>1
        <4>2. k \notin Below(k)
          OBVIOUS
        <4> HIDE DEF Below
        <4> QED BY <3>1, <4>1, <4>2, FS_AddElement
      <3>3. later # {}
        <4>1. ASSUME later = {} PROVE FALSE
          <5>1. \A j \in S : j < k \/ j = k
            BY <4>1
          <5>2. S = upto
            BY <5>1
          <5> QED BY <2>1, <3>2, <5>2, <1>2
        <4> QED BY <4>1
      <3>4. PICK m \in later : \A j \in later : m <= j
        BY <3>3, Ups!LeastNumber
      <3>5. ASSUME NEW j \in S PROVE j < m <=> j < k \/ j = k
        <4>1. j \in later => m <= j
          BY <3>4
        <4>2. m > k
          BY <3>4
        <4> QED BY <4>1, <4>2
      <3>6. Below(m) = upto
        BY <3>5
      <3> QED BY <3>2, <3>4, <3>6
    <2> QED BY <2>1
  <1> HIDE DEF T
  <1>5. \A r \in Nat : r \in T
    BY <1>3, <1>4, Ups!SetInduction
  <1>6. ASSUME NEW r \in 1..Cardinality(S)
        PROVE  \E k \in S : Cardinality({j \in S : j < k}) = r - 1
    <2>1. r - 1 \in Nat /\ r - 1 < Cardinality(S)
      BY <1>2
    <2> QED BY <1>5, <2>1 DEF T
  <1> QED BY <1>6

\* build_conf() collects items of the menu.
LEMMA BuiltItems ==
  ASSUME NEW menu \in DOMAIN Menus, NEW yes, NEW all
  PROVE  build_conf(menu, yes, all) \in Seq(MenuItem)
  <1> DEFINE items == Menus[menu]
             seen == {k \in DOMAIN items : all \/ items[k].needs \in {NoItem} \union yes}
             nth(r) == CHOOSE k \in seen : Cardinality({j \in seen : j < k}) = r - 1
  <1>1. items \in Seq(MenuItem)
    BY ItemsAssumption DEF MenuItem
  <1>2. /\ DOMAIN items = 1..Len(items) /\ Len(items) \in Nat
        /\ \A k \in DOMAIN items : items[k] \in MenuItem
    BY <1>1
  <1>3. seen \subseteq 1..Len(items) /\ seen \subseteq Nat
    BY <1>2
  <1>4. IsFiniteSet(seen)
    <2>1. IsFiniteSet(1..Len(items))
      BY <1>2, FS_Interval
    <2> HIDE DEF seen
    <2> QED BY <1>3, <2>1, FS_Subset
  <1>5. build_conf(menu, yes, all) = [r \in 1..Cardinality(seen) |-> items[nth(r)]]
    BY Zenon DEF build_conf
  <1> HIDE DEF items, seen
  <1>6. ASSUME NEW r \in 1..Cardinality(seen) PROVE items[nth(r)] \in MenuItem
    <2>1. nth(r) \in seen
      BY <1>3, <1>4, Ranks
    <2> QED BY <1>2, <1>3, <2>1
  <1>7. Cardinality(seen) \in Nat
    BY <1>4, FS_CardinalityType
  <1> HIDE DEF nth
  <1> QED BY <1>5, <1>6, <1>7, SeqDef

----------------------------------------------------------------------------
(* What is open, and by whom. *)

ConfFrames == [call : {"conf"}, menu : DOMAIN Menus, active : Nat, s_scroll : Nat]
SearchFrames == [call : {"search"}, vscroll : Nat]
Frames == ConfFrames \union SearchFrames
Asked == {"string", "save", "load", "search"}

IsStack(s) == s \in Seq(Frames) /\ s # <<>> /\ s[1] \in ConfFrames

MenuOpen(d, s) ==
    /\ d.kind = "menu" /\ MenuFits(d) /\ d.items \in Seq(MenuItem)
    /\ IsStack(s) /\ s[Len(s)] \in ConfFrames
ListOpen(d, s) ==
    /\ d.kind = "list" /\ ListFits(d) /\ IsStack(s)
    /\ "of" \in DOMAIN d /\ d.of \in DOMAIN Members /\ d.items = Members[d.of]
InputOpen(d, s) ==
    /\ d.kind = "input" /\ InputFits(d) /\ IsStack(s)
    /\ "ask" \in DOMAIN d /\ d.ask \in Asked
TextOpen(d, s) ==
    /\ d.kind = "text" /\ TextFits(d) /\ IsStack(s)
    /\ "ask" \in DOMAIN d /\ d.ask \in Asked \union {"menu", "choice", "results"}
    /\ d.ask = "menu" => s[Len(s)] \in ConfFrames
    /\ d.ask = "choice" => "of" \in DOMAIN d /\ d.of \in DOMAIN Members /\ Members[d.of] # <<>>
    /\ IF d.ask = "results" THEN s[Len(s)] \in SearchFrames ELSE ~d.update
QuestionOpen(d, s) ==
    /\ d.kind = "yesno" /\ s = <<>>
    /\ Buttons \union {"kind"} \subseteq DOMAIN d /\ d.button \in 0..1
Opening(d, s) == \/ MenuOpen(d, s) \/ ListOpen(d, s) \/ InputOpen(d, s) \/ TextOpen(d, s)
                 \/ QuestionOpen(d, s) \/ d.kind = "none"

SessionInv == rows \in Nat \ {0} /\ Opening(dialog, stack)

\* What a resize may spoil.
Lit(d) == d.kind \in {"menu", "list", "input", "yesno"} => d.litButton = Most(d.button, 0)
Shown(d) == Lit(d) /\ (d.kind = "menu" => RowsTrue(d))

\* dialog_menu() opens a menu whose rows are true.
LEMMA AsksMenu ==
  ASSUME NEW f \in ConfFrames, NEW yes, NEW all, NEW r \in Nat \ {0}, NEW s, IsStack(s),
         s[Len(s)] \in ConfFrames
  PROVE  LET e == Opened(dialog_menu(build_conf(f.menu, yes, all), f.active, f.s_scroll, r),
                         [ask |-> "menu"])
         IN  MenuOpen(e, s) /\ Shown(e)
  <1> DEFINE items == build_conf(f.menu, yes, all)
             d == [kind |-> "menu", items |-> items, selected |-> f.active,
                   s_scroll |-> f.s_scroll, height |-> r, max |-> 0, scroll |-> 0,
                   first_item |-> 0, choice |-> 0, button |-> 0, litButton |-> 0,
                   screen |-> <<>>]
             m == LayoutMenu(d)
             e == Opened(m, [ask |-> "menu"])
  <1>1. items \in Seq(MenuItem)
    BY BuiltItems DEF ConfFrames
  <1>2. IsList(items) /\ Len(items) \in Nat /\ (items = <<>> <=> Len(items) = 0)
    BY <1>1, Lists
  <1>3. f.s_scroll \in Nat
    BY DEF ConfFrames
  <1> HIDE DEF items
  <1>4. DOMAIN d = MenuFields
    BY DEF MenuFields
  <1>5. /\ d.kind = "menu" /\ d.items = items /\ d.height = r /\ d.s_scroll = f.s_scroll
        /\ d.button = 0 /\ d.choice = 0 /\ d.first_item = 0
    OBVIOUS
  <1>6. d.choice \in 0..Len(d.items) - 1 \/ (d.items = <<>> /\ d.choice = 0)
    BY <1>2, <1>5
  <1> HIDE DEF d
  <1>7. MenuFits(m) /\ RowsTrue(m) /\ DOMAIN m = MenuFields /\ m.button = 0 /\ m.litButton = 0
    BY <1>2, <1>3, <1>4, <1>5, <1>6, LayoutFits
  <1>8. m.items = items
    BY <1>4, <1>5 DEF LayoutMenu, MenuFields
  <1> HIDE DEF m
  <1>9. MenuFields \subseteq DOMAIN e /\ \A x \in MenuFields : e[x] = m[x]
    BY <1>7, OpenedExtends DEF Extends
  <1> HIDE DEF e
  <1>10. /\ e.items = items /\ e.kind = "menu" /\ e.button = 0 /\ e.litButton = 0
    BY <1>7, <1>8, <1>9 DEF MenuFields, MenuFits
  <1>11. MenuFits(e) /\ RowsTrue(e)
    BY <1>7, <1>9, <1>10, MenuStays
  <1>12. MenuOpen(e, s) /\ Shown(e)
    BY <1>1, <1>10, <1>11 DEF MenuOpen, Shown, Lit, Most
  <1> QED BY <1>12 DEF e, m, d, items, dialog_menu

\* dialog_checklist() opens a list whose rows are true.
LEMMA AsksChoice ==
  ASSUME NEW c \in DOMAIN Members, Members[c] # <<>>, NEW active, NEW s, IsStack(s)
  PROVE  LET e == Opened(dialog_checklist(Members[c], active, active, ListHeight),
                         [ask |-> "choice", of |-> c])
         IN  ListOpen(e, s) /\ Shown(e)
  <1> DEFINE items == Members[c]
             d == [kind |-> "list", items |-> items, height |-> ListHeight, max |-> 0,
                   scroll |-> 0, choice |-> 0, button |-> 0, litButton |-> 0, screen |-> <<>>]
             start == IF At(d, active) # {} THEN At(d, active)
                      ELSE IF At(d, active) # {} THEN At(d, active) ELSE {0}
             k == CHOOSE i \in start : TRUE
             x == [d EXCEPT !.choice = k]
             m == LayoutList(x)
             e == Opened(m, [ask |-> "choice", of |-> c])
  <1>1. IsList(items) /\ Len(items) \in Nat \ {0}
    <2>1. IsList(items)
      BY ItemsAssumption, Lists
    <2> QED BY <2>1, Lists
  <1>2. DOMAIN d = ListFields /\ d.items = items
    BY DEF ListFields
  <1> HIDE DEF items
  <1>3. k \in 0..Len(items) - 1
    <2>1. start # {} /\ start \subseteq 0..Len(items) - 1
      BY <1>1, <1>2 DEF At
    <2> QED BY <2>1
  <1>4. /\ DOMAIN x = ListFields /\ x.kind = "list" /\ x.items = items /\ x.height = ListHeight
        /\ x.scroll = 0 /\ x.button = 0 /\ x.choice = k
    BY DEF ListFields
  <1> HIDE DEF k
  <1> HIDE DEF x
  <1>5. 0 \in 0..Len(items) - Least(ListHeight, Len(items)) /\ ListHeight \in Nat \ {0}
    BY <1>1, SizesAssumption DEF Least
  <1>6. ListFits(m) /\ OnlyIn(x, m, Moving \union {"max", "litButton"}) /\ m.litButton = 0
    <2>1. /\ ListFields \subseteq DOMAIN x /\ x.kind = "list" /\ IsList(x.items)
          /\ x.height \in Nat \ {0} /\ x.button \in 0..1
      BY <1>1, <1>4, <1>5
    <2>2. x.items # <<>>
      BY <1>1, <1>4, Lists
    <2>3. x.choice \in 0..Len(x.items) - 1
      BY <1>3, <1>4
    <2>4. x.scroll \in 0..Len(x.items) - Least(x.height, Len(x.items))
      BY <1>4, <1>5
    <2> QED BY <2>1, <2>2, <2>3, <2>4, ListLayout
  <1> HIDE DEF m
  <1>7. DOMAIN m = ListFields /\ m.items = items /\ m.button = 0 /\ m.kind = "list"
    BY <1>4, <1>6 DEF OnlyIn, ListFields, Moving
  <1>8. /\ ListFields \subseteq DOMAIN e /\ \A y \in ListFields : e[y] = m[y]
        /\ "of" \in DOMAIN e /\ e.of = c
    <2>1. "of" \in DOMAIN [ask |-> "choice", of |-> c] \ DOMAIN m
      BY <1>7 DEF ListFields
    <2> QED BY <1>7, <2>1, OpenedExtends DEF Extends
  <1> HIDE DEF e
  <1>9. e.items = items /\ e.kind = "list" /\ e.button = 0 /\ e.litButton = 0
    BY <1>6, <1>7, <1>8 DEF ListFields
  <1>10. ListFits(e)
    BY <1>6, <1>8, <1>9, ListStays
  <1>11. ListOpen(e, s) /\ Shown(e)
    BY <1>8, <1>9, <1>10 DEF ListOpen, Shown, Lit, Most, items
  <1>12. e = Opened(dialog_checklist(Members[c], active, active, ListHeight),
                    [ask |-> "choice", of |-> c])
    BY Zenon DEF e, m, x, k, d, items, dialog_checklist
  <1> QED BY <1>11, <1>12

\* dialog_inputbox() opens an input box whose field is true.
LEMMA AsksText ==
  ASSUME NEW ask \in Asked, NEW text \in Seq(Characters), NEW s, IsStack(s)
  PROVE  LET e == Opened(dialog_inputbox(text), [ask |-> ask])
         IN  InputOpen(e, s) /\ Shown(e)
  <1> DEFINE d == [kind |-> "input", instr |-> text, pos |-> 0, show_x |-> 0, input_x |-> 0,
                   field |-> <<>>, button |-> -1, litButton |-> 0]
             m == LayoutInput(d)
             e == Opened(m, [ask |-> ask])
  <1>1. DOMAIN d = InputFields /\ d.kind = "input" /\ d.instr = text /\ d.button = -1
    BY DEF InputFields
  <1> HIDE DEF d
  <1>2. InputFits(m) /\ OnlyIn(d, m, Typing \union {"litButton"}) /\ m.litButton = 0
    <2>1. /\ InputFields \subseteq DOMAIN d /\ d.kind = "input" /\ d.instr \in Seq(Characters)
          /\ d.button \in -1..1
      BY <1>1
    <2> QED BY <2>1, InputLayout
  <1> HIDE DEF m
  <1>3. DOMAIN m = InputFields /\ m.button = -1 /\ m.kind = "input"
    BY <1>1, <1>2 DEF OnlyIn, InputFields, Typing
  <1>4. /\ InputFields \subseteq DOMAIN e /\ \A y \in InputFields : e[y] = m[y]
        /\ "ask" \in DOMAIN e /\ e.ask = ask
    <2>1. "ask" \in DOMAIN [ask |-> ask] \ DOMAIN m
      BY <1>3 DEF InputFields
    <2> QED BY <1>3, <2>1, OpenedExtends DEF Extends
  <1> HIDE DEF e
  <1>5. e.kind = "input" /\ e.button = -1 /\ e.litButton = 0
    BY <1>2, <1>3, <1>4 DEF InputFields
  <1>6. InputFits(e)
    BY <1>2, <1>4, <1>5, InputStays
  <1>7. InputOpen(e, s) /\ Shown(e)
    BY <1>4, <1>5, <1>6 DEF InputOpen, Shown, Lit, Most
  <1> QED BY <1>7 DEF e, m, d, dialog_inputbox

\* dialog_textbox() opens a text that shows a page.
LEMMA ShowsText ==
  ASSUME NEW n \in Nat, NEW height \in Nat \ {0}, NEW results, NEW vscroll \in Nat,
         \A r \in DOMAIN results : results[r] \in Nat,
         NEW caller, DOMAIN caller \subseteq {"ask", "of", "active"}
  PROVE  LET e == Opened(dialog_textbox(n, height, results, vscroll), caller)
         IN  /\ e.kind = "text" /\ TextFits(e) /\ Shown(e) /\ (results = <<>> => ~e.update)
             /\ DOMAIN caller \subseteq DOMAIN e /\ \A f \in DOMAIN caller : e[f] = caller[f]
  <1> DEFINE d == dialog_textbox(n, height, results, vscroll)
             e == Opened(d, caller)
  <1>1. TextFits(d) /\ DOMAIN d = TextFields /\ (d.update <=> results # <<>>)
    BY TextboxFits
  <1> HIDE DEF d
  <1>2. Extends(d, e)
    BY OpenedExtends
  <1>3. \A f \in DOMAIN caller : f \in DOMAIN e /\ e[f] = caller[f]
    BY <1>1, OpenedExtends DEF TextFields
  <1> HIDE DEF e
  <1>4. TextFits(e)
    BY <1>1, <1>2, TextStays
  <1>5. e.kind = "text" /\ (e.update <=> results # <<>>)
    BY <1>1, <1>2, <1>4 DEF Extends, TextFields, TextFits, TextShape
  <1>6. Shown(e)
    BY <1>5 DEF Shown, Lit
  <1> QED BY <1>3, <1>4, <1>5, <1>6 DEF e, d

----------------------------------------------------------------------------
(* The calls that open a dialog, for the stack there is afterwards. *)

OpensFor(s) == Opening(dialog', s) /\ Shown(dialog')

\* conf() opens a menu for a frame of its own.
LEMMA ConfFits ==
  ASSUME SessionInv, NEW s, IsStack(s), s[Len(s)] \in ConfFrames, NEW f \in ConfFrames,
         NEW yes, NEW all, Conf(f, yes, all)
  PROVE  OpensFor(s)
  <1> DEFINE e == Opened(dialog_menu(build_conf(f.menu, yes, all), f.active, f.s_scroll, rows),
                         [ask |-> "menu"])
  <1>1. MenuOpen(e, s) /\ Shown(e)
    BY AsksMenu DEF SessionInv
  <1>2. dialog' = e
    BY DEF Conf, Asks
  <1> HIDE DEF e
  <1> QED BY <1>1, <1>2 DEF OpensFor, Opening

\* conf_choice() opens a list.
LEMMA ChoiceOpens ==
  ASSUME NEW s, IsStack(s), NEW c \in DOMAIN Members, Members[c] # <<>>, NEW active,
         Choice(c, active)
  PROVE  OpensFor(s)
  <1> DEFINE e == Opened(dialog_checklist(Members[c], active, active, ListHeight),
                         [ask |-> "choice", of |-> c])
  <1>1. ListOpen(e, s) /\ Shown(e)
    BY AsksChoice
  <1>2. dialog' = e
    BY DEF Choice
  <1> HIDE DEF e
  <1> QED BY <1>1, <1>2 DEF OpensFor, Opening

\* An input box with a given text.
LEMMA BoxOpens ==
  ASSUME NEW s, IsStack(s), NEW ask \in Asked, NEW text \in Seq(Characters),
         Asks(dialog_inputbox(text), ask)
  PROVE  OpensFor(s)
  <1> DEFINE e == Opened(dialog_inputbox(text), [ask |-> ask])
  <1>1. InputOpen(e, s) /\ Shown(e)
    BY AsksText
  <1>2. dialog' = e
    BY DEF Asks
  <1> HIDE DEF e
  <1> QED BY <1>1, <1>2 DEF OpensFor, Opening

\* An input box with what the symbol or file was before.
LEMMA ProposeFits ==
  ASSUME NEW s, IsStack(s), NEW ask \in Asked, Propose(ask)
  PROVE  OpensFor(s)
  <1>1. PICK text \in Values : Asks(dialog_inputbox(text), ask)
    BY DEF Propose
  <1>2. text \in Seq(Characters)
    <2>1. text \in Seq(STRING)
      BY ItemsAssumption
    <2>2. \A S, T : S \subseteq T => Seq(S) \subseteq Seq(T)
      OBVIOUS
    <2>3. STRING \subseteq Characters
      BY DEF Characters
    <2> QED BY <2>1, <2>2, <2>3, Zenon
  <1> QED BY <1>1, <1>2, BoxOpens

\* A help text.
LEMMA HelpFits ==
  ASSUME SessionInv, NEW s, IsStack(s), NEW ask \in Asked \union {"menu"}, Help(ask),
         ask = "menu" => s[Len(s)] \in ConfFrames
  PROVE  OpensFor(s)
  <1> DEFINE caller == [ask |-> ask]
             e == Opened(dialog_textbox(HelpLines, rows + TextMore, <<>>, 0), caller)
  <1>1. rows + TextMore \in Nat \ {0} /\ HelpLines \in Nat /\ \A r \in DOMAIN <<>> : <<>>[r] \in Nat
    BY SizesAssumption DEF SessionInv
  <1>2. /\ e.kind = "text" /\ TextFits(e) /\ Shown(e) /\ ~e.update
        /\ "ask" \in DOMAIN e /\ e.ask = ask
    <2>1. DOMAIN caller = {"ask"} /\ caller.ask = ask
      OBVIOUS
    <2> HIDE DEF caller
    <2> QED BY <1>1, <2>1, ShowsText
  <1>3. dialog' = e
    BY DEF Help, Text
  <1> HIDE DEF e
  <1>4. ask # "choice" /\ ask # "results"
    BY DEF Asked
  <1>5. TextOpen(e, s)
    BY <1>2, <1>4 DEF TextOpen
  <1> QED BY <1>2, <1>3, <1>5 DEF OpensFor, Opening

\* The results of a search.
LEMMA ResultsFit ==
  ASSUME SessionInv, NEW s, IsStack(s), s[Len(s)] \in SearchFrames, NEW f \in SearchFrames,
         Results(f)
  PROVE  OpensFor(s)
  <1> DEFINE caller == [ask |-> "results"]
             results == [r \in DOMAIN Found |-> Found[r].line]
             e == Opened(dialog_textbox(ResultLines, rows + TextMore, results, f.vscroll), caller)
  <1>1. \A r \in DOMAIN results : results[r] \in Nat
    <2> DEFINE Result == [line : Nat, menu : DOMAIN Menus, id : Nat \ {0}]
    <2>1. Found \in Seq(Result)
      BY ItemsAssumption
    <2>2. \A r \in DOMAIN Found : Found[r] \in Result
      <3> HIDE DEF Result
      <3> QED BY <2>1
    <2> QED BY <2>2
  <1>2. rows + TextMore \in Nat \ {0} /\ ResultLines \in Nat /\ f.vscroll \in Nat
    BY SizesAssumption DEF SessionInv, SearchFrames
  <1>3. dialog' = e
    BY DEF Results, Text
  <1> HIDE DEF results
  <1>4. /\ e.kind = "text" /\ TextFits(e) /\ Shown(e)
        /\ "ask" \in DOMAIN e /\ e.ask = "results"
    <2>1. DOMAIN caller = {"ask"} /\ caller.ask = "results"
      OBVIOUS
    <2> HIDE DEF caller
    <2> QED BY <1>1, <1>2, <2>1, ShowsText
  <1> HIDE DEF e
  <1>5. TextOpen(e, s)
    BY <1>4 DEF TextOpen
  <1> QED BY <1>3, <1>4, <1>5 DEF OpensFor, Opening

\* The innermost call, the calls without it, and those with one more.
LEMMA Frontmost ==
  ASSUME NEW s, IsStack(s)
  PROVE  /\ Len(s) \in Nat \ {0} /\ s \in Seq(Frames) /\ s[Len(s)] \in Frames
         /\ Last(s) = s[Len(s)]
         /\ \A f \in ConfFrames : f.call = "conf"
         /\ \A f \in SearchFrames : f.call = "search"
         /\ Len(s) > 1 => IsStack(Front(s))
         /\ \A f \in Frames : /\ IsStack(Append(s, f)) /\ Append(s, f)[Len(Append(s, f))] = f
  <1>1. Len(s) \in Nat \ {0} /\ s \in Seq(Frames) /\ s[Len(s)] \in Frames
    BY DEF IsStack
  <1>2. /\ \A f \in ConfFrames : f.call = "conf"
        /\ \A f \in SearchFrames : f.call = "search"
    BY DEF ConfFrames, SearchFrames
  <1>3. ASSUME Len(s) > 1 PROVE IsStack(Front(s))
    <2>1. Front(s) = [i \in 1..Len(s) - 1 |-> s[i]]
      BY <1>1, <1>3 DEF Front
    <2>2. Front(s) \in Seq(Frames)
      <3>1. \A i \in 1..Len(s) - 1 : s[i] \in Frames
        BY <1>1
      <3>2. Len(s) - 1 \in Nat
        BY <1>1
      <3> QED BY <2>1, <3>1, <3>2, SeqDef
    <2>3. Front(s)[1] = s[1] /\ Len(Front(s)) = Len(s) - 1
      BY <1>1, <1>3, <2>1
    <2> QED BY <1>3, <2>2, <2>3 DEF IsStack
  <1>4. ASSUME NEW f \in Frames
        PROVE  IsStack(Append(s, f)) /\ Append(s, f)[Len(Append(s, f))] = f
    <2>1. Append(s, f) \in Seq(Frames) /\ Len(Append(s, f)) = Len(s) + 1
      BY <1>1
    <2>2. Append(s, f)[1] = s[1] /\ Append(s, f)[Len(s) + 1] = f /\ Append(s, f) # <<>>
      BY <1>1
    <2> QED BY <2>1, <2>2 DEF IsStack
  <1> QED BY <1>1, <1>2, <1>3, <1>4 DEF Last

\* The innermost call goes on, whichever it is.
LEMMA ResumeFits ==
  ASSUME SessionInv, NEW s, IsStack(s), NEW yes, NEW all, Resume(s, yes, all)
  PROVE  stack' = s /\ OpensFor(s)
  <1>1. stack' = s /\ Last(s) = s[Len(s)] /\ s[Len(s)] \in Frames
    BY Frontmost DEF Resume
  <1>2. CASE s[Len(s)] \in ConfFrames
    <2>1. Conf(s[Len(s)], yes, all)
      BY <1>1, <1>2, Frontmost DEF Resume
    <2> QED BY <1>1, <1>2, <2>1, ConfFits
  <1>3. CASE s[Len(s)] \in SearchFrames
    <2>1. Results(s[Len(s)])
      BY <1>1, <1>3, Frontmost DEF Resume
    <2> QED BY <1>1, <1>3, <2>1, ResultsFit
  <1> QED BY <1>1, <1>2, <1>3 DEF Frames

----------------------------------------------------------------------------
(* A step from a menu. *)

StepFits == SessionInv' /\ (Shown(dialog) => Shown(dialog'))

\* What a step has to show.
LEMMA Reached ==
  ASSUME SessionInv, rows' = rows, OpensFor(stack')
  PROVE  StepFits
  BY DEF SessionInv, OpensFor, StepFits

\* The kind of the dialog says who opened it.
LEMMA WhatIsOpen ==
  ASSUME SessionInv
  PROVE  /\ InMenu => MenuOpen(dialog, stack)
         /\ InList => ListOpen(dialog, stack)
         /\ InInput => InputOpen(dialog, stack)
         /\ InText => TextOpen(dialog, stack)
         /\ InQuestion => QuestionOpen(dialog, stack)
  BY DEF SessionInv, Opening, InMenu, InList, InInput, InText, InQuestion,
         MenuOpen, ListOpen, InputOpen, TextOpen, QuestionOpen

\* conf() writes the item and the scroll position into its own frame.
LEMMA KeptFits ==
  ASSUME SessionInv, InMenu
  PROVE  /\ IsStack(Kept) /\ Kept[Len(Kept)] \in ConfFrames
         /\ Some => Item \in MenuItem
  <1> DEFINE n == Len(stack)
             active == IF Some THEN Item.id ELSE NoItem
             once == [stack[n] EXCEPT !.active = active]
             frame == [once EXCEPT !.s_scroll = dialog.scroll]
  <1>1. MenuOpen(dialog, stack)
    BY WhatIsOpen
  <1>2. stack \in Seq(Frames) /\ n \in Nat \ {0} /\ stack[n] \in ConfFrames /\ IsStack(stack)
    BY <1>1, Frontmost DEF MenuOpen
  <1>3. Some => Item \in MenuItem
    <2>1. Some => dialog.scroll + dialog.choice + 1 \in 1..Len(dialog.items)
      BY <1>1, Lists DEF MenuOpen, MenuFits, Some, Least
    <2> QED BY <1>1, <2>1 DEF MenuOpen, Item, Taken
  <1>4. active \in Nat /\ dialog.scroll \in Nat
    <2>1. active \in Nat
      BY <1>3 DEF MenuItem, NoItem
    <2>2. dialog.scroll \in Nat
      BY <1>1 DEF MenuOpen, MenuFits
    <2> QED BY <2>1, <2>2
  <1>5. frame \in ConfFrames
    <2> HIDE DEF active
    <2>1. once \in ConfFrames
      BY <1>2, <1>4 DEF ConfFrames
    <2> HIDE DEF once
    <2> QED BY <1>4, <2>1 DEF ConfFrames
  <1>6. Kept = [stack EXCEPT ![n] = frame]
    BY <1>2 DEF Kept
  <1> HIDE DEF frame
  <1>7. /\ Kept \in Seq(Frames) /\ Len(Kept) = n /\ Kept[n] = frame
        /\ \A i \in 1..n : i # n => Kept[i] = stack[i]
    BY <1>2, <1>5, <1>6 DEF Frames
  <1>8. IsStack(Kept)
    <2>1. Kept # <<>> /\ (Kept[1] = frame \/ Kept[1] = stack[1])
      BY <1>2, <1>7
    <2> QED BY <1>2, <1>5, <1>7, <2>1 DEF IsStack
  <1> QED BY <1>3, <1>5, <1>7, <1>8

\* The keys that move about in a menu.
LEMMA MenuKeyFits ==
  ASSUME SessionInv, NEW key, MenuKey(key) \/ MenuTurn(key)
  PROVE  StepFits
  <1>1. MenuOpen(dialog, stack) /\ stack' = stack /\ rows' = rows
    BY WhatIsOpen DEF MenuKey, MenuTurn
  <1>2. MenuFits(dialog) /\ dialog.items \in Seq(MenuItem) /\ MenuFields \subseteq DOMAIN dialog
    BY <1>1 DEF MenuOpen, MenuFits
  <1>3. CASE MenuKey(key)
    <2> DEFINE e == MoveMenu(dialog, key)
    <2>1. MenuFits(e) /\ Same(dialog, e) /\ (RowsTrue(dialog) => RowsTrue(e))
      BY <1>2, <1>3, MoveFits DEF MenuKey, Some
    <2>2. dialog' = e
      BY <1>3 DEF MenuKey
    <2> HIDE DEF e
    <2>3. e.kind = "menu" /\ dialog.kind = "menu"
      BY <1>2, <2>1 DEF MenuFits
    <2>4. MenuOpen(e, stack)
      BY <1>1, <1>2, <2>1, <2>3 DEF MenuOpen, Same
    <2>5. Shown(dialog) => Shown(e)
      BY <2>1, <2>3 DEF Shown, Lit, Same
    <2> QED BY <1>1, <2>2, <2>4, <2>5 DEF StepFits, SessionInv, Opening
  <1>4. CASE MenuTurn(key)
    <2> DEFINE e == Turn(dialog, key, 4)
    <2>1. OnlyIn(dialog, e, Buttons) /\ e.button \in 0..4 /\ e.litButton = e.button
      BY <1>2, TurnKeeps DEF MenuFits, MenuFields, Buttons
    <2>2. dialog' = e
      BY <1>4 DEF MenuTurn
    <2> HIDE DEF e
    <2>3. /\ MenuFields \subseteq DOMAIN e
          /\ \A f \in MenuFields \ {"button", "litButton"} : e[f] = dialog[f]
      BY <1>2, <2>1 DEF OnlyIn, Buttons
    <2>4. MenuFits(e) /\ (RowsTrue(dialog) => RowsTrue(e))
      BY <1>2, <2>1, <2>3, MenuStays
    <2>5. e.items = dialog.items /\ e.kind = "menu" /\ dialog.kind = "menu"
      BY <1>2, <2>3 DEF MenuFields, MenuFits
    <2>6. MenuOpen(e, stack)
      BY <1>1, <1>2, <2>4, <2>5 DEF MenuOpen
    <2>7. Shown(dialog) => Shown(e)
      <3>1. e.litButton = Most(e.button, 0)
        BY <2>1 DEF Most
      <3> QED BY <2>4, <2>5, <3>1 DEF Shown, Lit
    <2> QED BY <1>1, <2>2, <2>6, <2>7 DEF StepFits, SessionInv, Opening
  <1> QED BY <1>3, <1>4

\* The keys of a menu that open something.
LEMMA MenuOpens ==
  ASSUME SessionInv,
         \/ Descend \/ SelectChoice \/ SelectText \/ MenuHelp \/ SaveAs \/ LoadFrom \/ Search
         \/ SetYes \/ SetNo \/ Toggle \/ AllOptions
  PROVE  StepFits
  <1>1. InMenu /\ rows' = rows
    BY DEF Descend, SelectChoice, SelectText, MenuHelp, SaveAs, LoadFrom, Search, SetYes, SetNo,
           Toggle, SetItem, AllOptions, Pressed
  <1>2. IsStack(Kept) /\ Kept[Len(Kept)] \in ConfFrames /\ (Some => Item \in MenuItem)
    BY <1>1, KeptFits
  <1>3. CASE Descend
    <2> DEFINE f == Frame(Item.to, NoItem)
    <2>1. f \in ConfFrames
      BY <1>3 DEF Descend, Frame, ConfFrames, NoItem
    <2>2. stack' = Append(Kept, f) /\ Conf(f, on, showAll)
      BY <1>3 DEF Descend
    <2> HIDE DEF f
    <2>3. IsStack(Append(Kept, f)) /\ Append(Kept, f)[Len(Append(Kept, f))] = f
      BY <1>2, <2>1, Frontmost DEF Frames
    <2>4. OpensFor(Append(Kept, f))
      BY <2>1, <2>2, <2>3, ConfFits
    <2> QED BY <1>1, <2>2, <2>4, Reached
  <1>4. CASE SelectChoice
    <2>1. PICK x \in ToSet(Members[Item.to]) : Choice(Item.to, x.id)
      BY <1>4 DEF SelectChoice
    <2>2. Item.to \in DOMAIN Members /\ stack' = Kept
      BY <1>4 DEF SelectChoice
    <2>3. Members[Item.to] # <<>>
      BY <2>1 DEF ToSet
    <2>4. OpensFor(Kept)
      BY <1>2, <2>1, <2>2, <2>3, ChoiceOpens
    <2> QED BY <1>1, <2>2, <2>4, Reached
  <1>5. CASE SelectText \/ SaveAs \/ LoadFrom
    <2>1. PICK ask \in Asked : stack' = Kept /\ Propose(ask)
      BY <1>5 DEF SelectText, SaveAs, LoadFrom, Asked
    <2>2. OpensFor(Kept)
      BY <1>2, <2>1, ProposeFits
    <2> QED BY <1>1, <2>1, <2>2, Reached
  <1>6. CASE MenuHelp
    <2>1. stack' = Kept /\ OpensFor(Kept)
      BY <1>2, <1>6, HelpFits DEF MenuHelp
    <2> QED BY <1>1, <2>1, Reached
  <1>7. CASE Search
    <2>1. stack' = Kept /\ Asks(dialog_inputbox(<<>>), "search")
      BY <1>7 DEF Search
    <2>2. "search" \in Asked /\ <<>> \in Seq(Characters)
      BY DEF Asked
    <2>3. OpensFor(Kept)
      BY <1>2, <2>1, <2>2, BoxOpens
    <2> QED BY <1>1, <2>1, <2>3, Reached
  <1>8. CASE SetYes \/ SetNo \/ Toggle \/ AllOptions
    <2>1. \E yes, all : Resume(Kept, yes, all)
      BY <1>8, Zenon DEF SetYes, SetNo, Toggle, SetItem, AllOptions
    <2>2. stack' = Kept /\ OpensFor(Kept)
      BY <1>2, <2>1, ResumeFits
    <2> QED BY <1>1, <2>2, Reached
  <1> QED BY <1>3, <1>4, <1>5, <1>6, <1>7, <1>8

\* Leaving a menu.
LEMMA LeaveMenuFits ==
  ASSUME SessionInv, LeaveMenu
  PROVE  StepFits
  <1>1. MenuOpen(dialog, stack) /\ rows' = rows
    BY WhatIsOpen DEF LeaveMenu
  <1>2. CASE Len(stack) > 1
    <2>1. Resume(Front(stack), on, showAll) /\ IsStack(Front(stack))
      BY <1>1, <1>2, Frontmost DEF LeaveMenu, MenuOpen
    <2>2. stack' = Front(stack) /\ OpensFor(Front(stack))
      BY <2>1, ResumeFits
    <2> QED BY <1>1, <2>2, Reached
  <1>3. CASE ~(Len(stack) > 1)
    <2>1. stack' = <<>> /\ IF changed THEN Asks(dialog_yesno, "exit") ELSE dialog' = Nobody
      BY <1>3 DEF LeaveMenu
    <2>2. CASE changed
      <3> DEFINE e == Opened(dialog_yesno, [ask |-> "exit"])
      <3>1. dialog' = e
        BY <2>1, <2>2 DEF Asks
      <3>2. /\ e.kind = "yesno" /\ e.button = 0 /\ e.litButton = 0
            /\ Buttons \union {"kind"} \subseteq DOMAIN e
        BY DEF Opened, dialog_yesno, Buttons
      <3> HIDE DEF e
      <3>3. QuestionOpen(e, <<>>) /\ Shown(e)
        BY <3>2 DEF QuestionOpen, Shown, Lit, Most
      <3>4. OpensFor(stack')
        BY <2>1, <3>1, <3>3 DEF OpensFor, Opening
      <3> QED BY <1>1, <3>4, Reached
    <2>3. CASE ~changed
      <3>1. dialog'.kind = "none"
        BY <2>1, <2>3 DEF Nobody
      <3>2. OpensFor(stack')
        BY <3>1 DEF OpensFor, Opening, Shown, Lit
      <3> QED BY <1>1, <3>2, Reached
    <2> QED BY <2>2, <2>3
  <1> QED BY <1>2, <1>3

----------------------------------------------------------------------------
(* A step from a choice, an input box, a text or the question. *)

\* The keys of a choice.
LEMMA ListSteps ==
  ASSUME SessionInv, (\E key : ListKey(key) \/ ListTurn(key)) \/ TakeMember \/ MemberHelp \/ LeaveList
  PROVE  StepFits
  <1>1. InList /\ rows' = rows
    BY DEF ListKey, ListTurn, TakeMember, MemberHelp, LeaveList
  <1>2. ListOpen(dialog, stack)
    BY <1>1, WhatIsOpen
  <1>3. /\ ListFits(dialog) /\ ListFields \subseteq DOMAIN dialog /\ dialog.kind = "list"
        /\ dialog.button \in 0..1 /\ dialog.items # <<>>
    BY <1>2 DEF ListOpen, ListFits, ListShape
  <1>4. ASSUME NEW key, ListKey(key) PROVE StepFits
    <2> DEFINE e == MoveList(dialog, key)
    <2>1. ListFits(e) /\ OnlyIn(dialog, e, Moving)
      BY <1>3, <1>4, MoveListFits DEF ListKey
    <2>2. dialog' = e /\ stack' = stack
      BY <1>4 DEF ListKey
    <2> HIDE DEF e
    <2>3. /\ e.kind = "list" /\ e.items = dialog.items /\ e.button = dialog.button
          /\ e.litButton = dialog.litButton
      BY <1>3, <2>1 DEF OnlyIn, Moving, ListFields
    <2>4. ListOpen(e, stack)
      BY <1>2, <2>1, <2>3 DEF ListOpen, OnlyIn, Moving
    <2>5. Shown(dialog) => Shown(e)
      BY <1>3, <2>3 DEF Shown, Lit
    <2> QED BY <1>1, <2>2, <2>4, <2>5 DEF StepFits, SessionInv, Opening
  <1>5. ASSUME NEW key, ListTurn(key) PROVE StepFits
    <2> DEFINE e == Turn(dialog, key, 1)
    <2>1. OnlyIn(dialog, e, Buttons) /\ e.button \in 0..1 /\ e.litButton = e.button
      BY <1>3, TurnKeeps DEF ListFields, Buttons
    <2>2. dialog' = e /\ stack' = stack
      BY <1>5 DEF ListTurn
    <2> HIDE DEF e
    <2>3. /\ ListFields \subseteq DOMAIN e
          /\ \A f \in ListFields \ {"button", "litButton"} : e[f] = dialog[f]
      BY <1>3, <2>1 DEF OnlyIn, Buttons
    <2>4. ListFits(e)
      BY <1>3, <2>1, <2>3, ListStays
    <2>5. e.kind = "list" /\ e.items = dialog.items
      BY <1>3, <2>3 DEF ListFields
    <2>6. ListOpen(e, stack)
      BY <1>2, <2>1, <2>4, <2>5 DEF ListOpen, OnlyIn, Buttons
    <2>7. Shown(e)
      BY <2>1, <2>5 DEF Shown, Lit, Most
    <2> QED BY <1>1, <2>2, <2>6, <2>7 DEF StepFits, SessionInv, Opening
  <1>6. CASE TakeMember \/ LeaveList
    <2>1. Resume(stack, on, showAll)
      BY <1>6 DEF TakeMember, LeaveList
    <2>2. stack' = stack /\ OpensFor(stack)
      BY <1>2, <2>1, ResumeFits DEF ListOpen
    <2> QED BY <1>1, <2>2, Reached
  <1>7. CASE MemberHelp
    <2> DEFINE caller == [ask |-> "choice", of |-> dialog.of, active |-> Item.id]
               e == Opened(dialog_textbox(HelpLines, rows + TextMore, <<>>, 0), caller)
    <2>1. rows + TextMore \in Nat \ {0} /\ HelpLines \in Nat /\ \A r \in DOMAIN <<>> : <<>>[r] \in Nat
      BY SizesAssumption DEF SessionInv
    <2>2. /\ DOMAIN caller = {"ask", "of", "active"} /\ caller.ask = "choice"
          /\ caller.of = dialog.of
      OBVIOUS
    <2>3. dialog' = e /\ stack' = stack
      BY <1>7 DEF MemberHelp, Text
    <2> HIDE DEF caller
    <2>4. /\ e.kind = "text" /\ TextFits(e) /\ Shown(e) /\ ~e.update
          /\ "ask" \in DOMAIN e /\ e.ask = "choice" /\ "of" \in DOMAIN e /\ e.of = dialog.of
      BY <2>1, <2>2, ShowsText
    <2> HIDE DEF e
    <2>5. TextOpen(e, stack)
      BY <1>2, <1>3, <2>4 DEF TextOpen, ListOpen
    <2> QED BY <1>1, <2>3, <2>4, <2>5 DEF StepFits, SessionInv, Opening
  <1> QED BY <1>4, <1>5, <1>6, <1>7

\* The keys that edit a text or go round the buttons.
LEMMA InputKeyFits ==
  ASSUME SessionInv, (\E key \in Characters : InputKey(key)) \/ \E key : InputTurn(key)
  PROVE  StepFits
  <1>1. InInput /\ rows' = rows /\ stack' = stack
    BY DEF InputKey, InputTurn
  <1>2. InputOpen(dialog, stack)
    BY <1>1, WhatIsOpen
  <1>3. /\ InputFits(dialog) /\ InputFields \subseteq DOMAIN dialog /\ dialog.kind = "input"
        /\ dialog.button \in -1..1
    BY <1>2 DEF InputOpen, InputFits, InputShape
  <1>4. ASSUME NEW key \in Characters, InputKey(key) PROVE StepFits
    <2> DEFINE e == EditInput(dialog, key)
    <2>1. InputFits(e) /\ OnlyIn(dialog, e, Typing)
      BY <1>3, EditFits
    <2>2. dialog' = e
      BY <1>4 DEF InputKey
    <2> HIDE DEF e
    <2>3. e.kind = "input" /\ e.button = dialog.button /\ e.litButton = dialog.litButton
      BY <1>3, <2>1 DEF OnlyIn, Typing, InputFields
    <2>4. InputOpen(e, stack)
      BY <1>2, <2>1, <2>3 DEF InputOpen, OnlyIn, Typing
    <2>5. Shown(dialog) => Shown(e)
      BY <1>3, <2>3 DEF Shown, Lit
    <2> QED BY <1>1, <2>2, <2>4, <2>5 DEF StepFits, SessionInv, Opening
  <1>5. ASSUME NEW key, InputTurn(key) PROVE StepFits
    <2> DEFINE e == TurnInput(dialog, key)
    <2>1. OnlyIn(dialog, e, Buttons) /\ e.button \in -1..1 /\ e.litButton = Most(e.button, 0)
      <3>1. Buttons \subseteq DOMAIN dialog
        BY <1>3 DEF InputFields, Buttons
      <3> QED BY <1>3, <3>1, TurnKeeps
    <2>2. dialog' = e
      BY <1>5 DEF InputTurn
    <2> HIDE DEF e
    <2>3. /\ InputFields \subseteq DOMAIN e
          /\ \A f \in InputFields \ {"button", "litButton"} : e[f] = dialog[f]
      BY <1>3, <2>1 DEF OnlyIn, Buttons
    <2>4. InputFits(e) /\ e.kind = "input"
      BY <1>3, <2>1, <2>3, InputStays DEF InputFields
    <2>5. InputOpen(e, stack)
      BY <1>2, <2>1, <2>4 DEF InputOpen, OnlyIn, Buttons
    <2>6. Shown(e)
      BY <2>1, <2>4 DEF Shown, Lit
    <2> QED BY <1>1, <2>2, <2>5, <2>6 DEF StepFits, SessionInv, Opening
  <1> QED BY <1>4, <1>5

\* Entering or leaving a text.
LEMMA InputSteps ==
  ASSUME SessionInv,
         EnterValue \/ EnterSave \/ EnterLoad \/ EnterSearch \/ InputHelp \/ LeaveInput
  PROVE  StepFits
  <1>1. InInput /\ rows' = rows
    BY DEF EnterValue, EnterSave, EnterLoad, EnterSearch, InputHelp, LeaveInput, Ok
  <1>2. IsStack(stack) /\ dialog.ask \in Asked
    BY <1>1, WhatIsOpen DEF InputOpen
  <1>3. ASSUME NEW yes, Resume(stack, yes, showAll) PROVE StepFits
    <2>1. stack' = stack /\ OpensFor(stack)
      BY <1>2, <1>3, ResumeFits
    <2> QED BY <1>1, <2>1, Reached
  <1>4. ASSUME stack' = stack, NEW ask \in Asked, Help(ask) PROVE StepFits
    <2>1. OpensFor(stack)
      BY <1>2, <1>4, HelpFits DEF Asked
    <2> QED BY <1>1, <1>4, <2>1, Reached
  <1>5. CASE EnterValue \/ EnterSave \/ EnterLoad \/ InputHelp \/ LeaveInput
    <2>1. \/ \E yes : Resume(stack, yes, showAll)
          \/ stack' = stack /\ \E ask \in {"string", "save", "load", dialog.ask} : Help(ask)
      <3>1. CASE EnterValue \/ EnterSave \/ LeaveInput
        BY <3>1 DEF EnterValue, EnterSave, LeaveInput
      <3>2. CASE EnterLoad
        BY <3>2 DEF EnterLoad
      <3>3. CASE InputHelp
        BY <3>3 DEF InputHelp
      <3> QED BY <1>5, <3>1, <3>2, <3>3
    <2> QED BY <1>2, <1>3, <1>4, <2>1 DEF Asked
  <1>6. CASE EnterSearch
    <2> DEFINE frame == [call |-> "search", vscroll |-> 0]
    <2>1. stack' = Append(stack, frame) /\ Results(frame)
      BY <1>6 DEF EnterSearch
    <2>2. frame \in SearchFrames
      BY DEF SearchFrames
    <2> HIDE DEF frame
    <2>3. IsStack(Append(stack, frame)) /\ Append(stack, frame)[Len(Append(stack, frame))] = frame
      BY <1>2, <2>2, Frontmost DEF Frames
    <2>4. OpensFor(Append(stack, frame))
      BY <2>1, <2>2, <2>3, ResultsFit
    <2> QED BY <1>1, <2>1, <2>4, Reached
  <1> QED BY <1>5, <1>6

\* The keys of a text, and what is opened after it.
LEMMA TextSteps ==
  ASSUME SessionInv,
         \/ \E key : TextKey(key)
         \/ CloseHelp \/ CloseResults
         \/ \E r \in DOMAIN Found : Jump(r)
  PROVE  StepFits
  <1>1. InText /\ rows' = rows
    BY DEF TextKey, CloseHelp, CloseResults, Jump
  <1>2. TextOpen(dialog, stack) /\ IsStack(stack)
    BY <1>1, WhatIsOpen DEF TextOpen
  <1>3. /\ TextFits(dialog) /\ TextShape(dialog) /\ TextFields \subseteq DOMAIN dialog
        /\ dialog.kind = "text"
    BY <1>2 DEF TextOpen, TextFits, TextShape
  <1>4. ASSUME NEW key, TextKey(key) PROVE StepFits
    <2> DEFINE e == MoveText(dialog, key)
    <2>1. TextFits(e) /\ OnlyIn(dialog, e, Paging)
      BY <1>3, MoveTextFits
    <2>2. dialog' = e /\ stack' = stack
      BY <1>4 DEF TextKey
    <2> HIDE DEF e
    <2>3. /\ e.kind = "text" /\ e.update = dialog.update
          /\ DOMAIN e = DOMAIN dialog
          /\ \A f \in {"ask", "of"} : f \in DOMAIN dialog => e[f] = dialog[f]
      BY <1>3, <2>1 DEF OnlyIn, Paging, Positions, Printing, TextFields
    <2>4. TextOpen(e, stack)
      BY <1>2, <2>1, <2>3 DEF TextOpen
    <2>5. Shown(e)
      BY <2>3 DEF Shown, Lit
    <2> QED BY <1>1, <2>2, <2>4, <2>5 DEF StepFits, SessionInv, Opening
  <1>5. CASE CloseHelp
    <2>1. stack' = stack /\ dialog.ask \in Asked \union {"menu", "choice"}
      BY <1>2, <1>5 DEF CloseHelp, TextOpen
    <2>2. OpensFor(stack)
      <3>1. CASE dialog.ask = "menu"
        <4>1. Conf(Here, on, showAll) /\ Here \in ConfFrames
          BY <1>2, <1>5, <3>1 DEF CloseHelp, TextOpen, Here
        <4> QED BY <1>2, <4>1, ConfFits DEF Here
      <3>2. CASE dialog.ask = "choice"
        <4>1. /\ Choice(dialog.of, dialog.active)
              /\ dialog.of \in DOMAIN Members /\ Members[dialog.of] # <<>>
          BY <1>2, <1>5, <3>2 DEF CloseHelp, TextOpen
        <4> QED BY <1>2, <4>1, ChoiceOpens
      <3>3. CASE dialog.ask = "search"
        <4>1. Asks(dialog_inputbox(<<>>), "search")
          BY <1>5, <3>3 DEF CloseHelp
        <4>2. "search" \in Asked /\ <<>> \in Seq(Characters)
          BY DEF Asked
        <4> QED BY <1>2, <4>1, <4>2, BoxOpens
      <3>4. CASE dialog.ask \in {"string", "save", "load"}
        <4>1. Propose(dialog.ask)
          BY <1>5, <3>4 DEF CloseHelp
        <4>2. dialog.ask \in Asked
          BY <3>4 DEF Asked
        <4> QED BY <1>2, <4>1, <4>2, ProposeFits
      <3> QED BY <2>1, <3>1, <3>2, <3>3, <3>4 DEF Asked
    <2> QED BY <1>1, <2>1, <2>2, Reached
  <1>6. CASE CloseResults
    <2>1. stack[Len(stack)] \in SearchFrames /\ Resume(Front(stack), on, showAll)
      BY <1>2, <1>6 DEF CloseResults, TextOpen
    <2>2. Len(stack) > 1
      <3>1. stack[1] \in ConfFrames /\ Len(stack) \in Nat \ {0}
        BY <1>2, Frontmost DEF IsStack
      <3>2. stack[1].call = "conf" /\ stack[Len(stack)].call = "search"
        BY <1>2, <2>1, <3>1, Frontmost
      <3> QED BY <3>1, <3>2
    <2>3. stack' = Front(stack) /\ OpensFor(Front(stack))
      BY <1>2, <2>1, <2>2, Frontmost, ResumeFits
    <2> QED BY <1>1, <2>3, Reached
  <1>7. ASSUME NEW r \in DOMAIN Found, Jump(r) PROVE StepFits
    <2> DEFINE frame == Frame(Found[r].menu, Found[r].id)
               n == Len(stack)
               below == [stack[n] EXCEPT !.vscroll = VScroll(dialog)]
               s == [stack EXCEPT ![n] = below]
    <2>1. frame \in ConfFrames
      <3> DEFINE Result == [line : Nat, menu : DOMAIN Menus, id : Nat \ {0}]
      <3>1. Found \in Seq(Result)
        BY ItemsAssumption
      <3>2. Found[r] \in Result
        <4> HIDE DEF Result
        <4> QED BY <3>1
      <3> QED BY <3>2 DEF Frame, ConfFrames
    <2>2. stack[n] \in SearchFrames
      BY <1>2, <1>3, <1>7 DEF Jump, TextOpen, TextShape
    <2>3. VScroll(dialog) \in Nat
      <3>1. TextShape(BackLines(dialog, dialog.page_length))
        BY <1>3, LinesBehind DEF TextShape
      <3> QED BY <3>1 DEF VScroll, TextShape
    <2>4. below \in SearchFrames
      BY <2>2, <2>3 DEF SearchFrames
    <2>5. stack' = Append(s, frame) /\ Conf(frame, on, showAll)
      BY <1>2, <1>7, Frontmost DEF Jump, IsStack
    <2> HIDE DEF frame, below
    <2>6. stack \in Seq(Frames) /\ n \in Nat \ {0} /\ stack[1] \in ConfFrames
      BY <1>2, Frontmost DEF IsStack
    <2>7. n # 1
      <3>1. stack[n].call = "search" /\ stack[1].call = "conf"
        BY <1>2, <2>2, <2>6, Frontmost
      <3> QED BY <3>1
    <2>8. s \in Seq(Frames) /\ s[1] = stack[1] /\ s # <<>>
      BY <2>4, <2>6, <2>7 DEF Frames
    <2> HIDE DEF s
    <2>9. IsStack(s)
      BY <2>6, <2>8 DEF IsStack
    <2>10. IsStack(Append(s, frame)) /\ Append(s, frame)[Len(Append(s, frame))] = frame
      BY <2>1, <2>9, Frontmost DEF Frames
    <2>11. OpensFor(Append(s, frame))
      BY <2>1, <2>5, <2>10, ConfFits
    <2> QED BY <1>1, <2>5, <2>11, Reached
  <1> QED BY <1>4, <1>5, <1>6, <1>7

\* The question at the end.
LEMMA QuestionSteps ==
  ASSUME SessionInv, (\E key : QuestionTurn(key)) \/ AnswerExit \/ BackToMenus
  PROVE  StepFits
  <1>1. InQuestion /\ rows' = rows
    BY DEF QuestionTurn, AnswerExit, BackToMenus
  <1>2. QuestionOpen(dialog, stack)
    BY <1>1, WhatIsOpen
  <1>3. ASSUME NEW key, QuestionTurn(key) PROVE StepFits
    <2> DEFINE e == Turn(dialog, key, 1)
    <2>1. OnlyIn(dialog, e, Buttons) /\ e.button \in 0..1 /\ e.litButton = e.button
      BY <1>2, TurnKeeps DEF QuestionOpen
    <2>2. dialog' = e /\ stack' = stack
      BY <1>3 DEF QuestionTurn
    <2> HIDE DEF e
    <2>3. e.kind = dialog.kind
      BY <1>2, <2>1 DEF QuestionOpen, OnlyIn, Buttons
    <2>4. QuestionOpen(e, stack) /\ Shown(e)
      BY <1>2, <2>1, <2>3 DEF QuestionOpen, OnlyIn, Shown, Lit, Most
    <2> QED BY <1>1, <2>2, <2>4 DEF StepFits, SessionInv, Opening
  <1>4. CASE AnswerExit
    <2>1. dialog'.kind = "none"
      BY <1>4 DEF AnswerExit, Nobody
    <2> QED BY <1>1, <2>1 DEF StepFits, SessionInv, Opening, Shown, Lit
  <1>5. CASE BackToMenus
    <2> DEFINE s == <<Frame(RootMenu, NoItem)>>
    <2>1. IsStack(s)
      BY ItemsAssumption DEF IsStack, Frame, Frames, ConfFrames, NoItem
    <2>2. Resume(s, on, showAll)
      BY <1>5 DEF BackToMenus
    <2> HIDE DEF s
    <2>3. stack' = s /\ OpensFor(s)
      BY <2>1, <2>2, ResumeFits
    <2> QED BY <1>1, <2>3, Reached
  <1> QED BY <1>3, <1>4, <1>5

----------------------------------------------------------------------------
(* A terminal that changes its size. *)

\* A resize keeps the invariant; the rows of a menu are no part of it.
LEMMA ResizeFits ==
  ASSUME SessionInv, NEW h \in Heights, Resize(h)
  PROVE  SessionInv'
  <1>1. /\ rows' = h /\ h \in Nat \ {0} /\ stack' = stack /\ h + TextMore \in Nat \ {0}
        /\ dialog.kind # "none"
    BY SizesAssumption DEF Resize
  <1>2. /\ InMenu => ~InList /\ ~InInput /\ ~InText
        /\ InList => ~InMenu /\ ~InInput /\ ~InText
        /\ InInput => ~InMenu /\ ~InList /\ ~InText
        /\ InText => ~InMenu /\ ~InList /\ ~InInput
        /\ InQuestion => ~InMenu /\ ~InList /\ ~InInput /\ ~InText
    BY DEF InMenu, InList, InInput, InText, InQuestion
  <1>3. CASE InMenu
    <2> DEFINE d == [dialog EXCEPT !.height = h]
               e == LayoutMenu(d)
    <2>1. MenuOpen(dialog, stack) /\ MenuFits(dialog) /\ MenuFields \subseteq DOMAIN dialog
      BY <1>3, WhatIsOpen DEF MenuOpen, MenuFits
    <2>2. /\ DOMAIN d = DOMAIN dialog /\ d.height = h
          /\ d.kind = "menu" /\ d.items = dialog.items /\ d.s_scroll = dialog.s_scroll
          /\ d.button = dialog.button /\ d.choice = dialog.choice
      BY <2>1 DEF MenuFields, MenuFits
    <2>3. dialog' = e
      BY <1>3, <1>2, Zenon DEF Resize
    <2> HIDE DEF d
    <2>4. d.choice \in 0..Len(d.items) - 1 \/ (d.items = <<>> /\ d.choice = 0)
      BY <2>1, <2>2, Lists DEF MenuFits, Least
    <2>5. MenuFits(e)
      <3>1. /\ MenuFields \subseteq DOMAIN d /\ IsList(d.items) /\ d.s_scroll \in Nat
            /\ d.button \in 0..4
        BY <2>1, <2>2 DEF MenuFits
      <3> QED BY <1>1, <2>2, <2>4, <3>1, LayoutFits
    <2>6. e.items = dialog.items
      BY <2>1, <2>2 DEF LayoutMenu, MenuFields
    <2> HIDE DEF e
    <2>7. MenuOpen(e, stack)
      BY <2>1, <2>5, <2>6 DEF MenuOpen, MenuFits
    <2> QED BY <1>1, <2>3, <2>7 DEF SessionInv, Opening
  <1>4. CASE InList
    <2> DEFINE e == LayoutList(dialog)
    <2>1. ListOpen(dialog, stack) /\ ListShape(dialog) /\ ListFields \subseteq DOMAIN dialog
      BY <1>4, WhatIsOpen DEF ListOpen, ListFits, ListShape
    <2>2. ListFits(e) /\ OnlyIn(dialog, e, Moving \union {"max", "litButton"})
      <3>1. dialog.choice \in 0..Len(dialog.items) - 1
        BY <2>1, ListNumbers
      <3> QED BY <2>1, <3>1, ListLayout DEF ListShape
    <2>3. dialog' = e
      BY <1>4, <1>2, Zenon DEF Resize
    <2> HIDE DEF e
    <2>4. e.kind = "list" /\ e.items = dialog.items
      BY <2>1, <2>2 DEF OnlyIn, Moving, ListFields, ListShape
    <2>5. ListOpen(e, stack)
      BY <2>1, <2>2, <2>4 DEF ListOpen, OnlyIn, Moving
    <2> QED BY <1>1, <2>3, <2>5 DEF SessionInv, Opening
  <1>5. CASE InInput
    <2> DEFINE e == LayoutInput(dialog)
    <2>1. /\ InputOpen(dialog, stack) /\ InputFields \subseteq DOMAIN dialog
          /\ dialog.kind = "input" /\ dialog.instr \in Seq(Characters) /\ dialog.button \in -1..1
      BY <1>5, WhatIsOpen DEF InputOpen, InputFits, InputShape
    <2>2. InputFits(e) /\ OnlyIn(dialog, e, Typing \union {"litButton"})
      BY <2>1, InputLayout
    <2>3. dialog' = e
      BY <1>5, <1>2, Zenon DEF Resize
    <2> HIDE DEF e
    <2>4. e.kind = "input"
      BY <2>2 DEF InputFits, InputShape
    <2>5. InputOpen(e, stack)
      BY <2>1, <2>2, <2>4 DEF InputOpen, OnlyIn, Typing
    <2> QED BY <1>1, <2>3, <2>5 DEF SessionInv, Opening
  <1>6. CASE InText
    <2> DEFINE e == LayoutText(dialog, h + TextMore)
    <2>1. TextOpen(dialog, stack) /\ TextFields \subseteq DOMAIN dialog /\ TextFits(dialog)
      BY <1>6, WhatIsOpen DEF TextOpen, TextFits, TextShape
    <2>2. TextFits(e) /\ OnlyIn(dialog, e, Paging \union {"height"})
      BY <1>1, <2>1, LayoutTextFits
    <2>3. dialog' = e
      BY <1>6, <1>2, Zenon DEF Resize
    <2> HIDE DEF e
    <2>4. /\ e.kind = "text" /\ e.update = dialog.update
          /\ DOMAIN e = DOMAIN dialog
          /\ \A f \in {"ask", "of"} : f \in DOMAIN dialog => e[f] = dialog[f]
      BY <2>1, <2>2
         DEF OnlyIn, Paging, Positions, Printing, TextFields, TextFits, TextShape
    <2>5. TextOpen(e, stack)
      BY <2>1, <2>2, <2>4 DEF TextOpen
    <2> QED BY <1>1, <2>3, <2>5 DEF SessionInv, Opening
  <1>7. CASE InQuestion
    <2> DEFINE e == LayoutYesNo(dialog)
    <2>1. QuestionOpen(dialog, stack)
      BY <1>7, WhatIsOpen
    <2>2. dialog' = e
      BY <1>7 DEF Resize, InMenu, InList, InInput, InText, InQuestion
    <2>3. QuestionOpen(e, stack)
      BY <2>1 DEF QuestionOpen, LayoutYesNo, Buttons
    <2> QED BY <1>1, <2>2, <2>3 DEF SessionInv, Opening
  <1> QED BY <1>1, <1>3, <1>4, <1>5, <1>6, <1>7
          DEF SessionInv, Opening, InMenu, InList, InInput, InText, InQuestion,
              MenuOpen, ListOpen, InputOpen, TextOpen, QuestionOpen

----------------------------------------------------------------------------
(* The session. *)

\* The main menu, when the program starts.
LEMMA InitFits == Init => SessionInv /\ Shown(dialog)
  <1> SUFFICES ASSUME Init PROVE SessionInv /\ Shown(dialog)
    OBVIOUS
  <1> DEFINE f == Frame(RootMenu, NoItem)
             e == Opened(dialog_menu(build_conf(f.menu, {}, FALSE), f.active, f.s_scroll, rows),
                         [ask |-> "menu"])
  <1>1. rows \in Nat \ {0} /\ stack = <<f>>
    BY SizesAssumption DEF Init
  <1>2. f.menu = RootMenu /\ f.active = NoItem /\ f.s_scroll = 0 /\ f \in ConfFrames
    BY ItemsAssumption DEF Frame, ConfFrames, NoItem
  <1>3. dialog = e
    BY <1>2, Zenon DEF Init
  <1> HIDE DEF f
  <1>4. IsStack(<<f>>) /\ <<f>>[Len(<<f>>)] = f
    BY <1>2 DEF IsStack, Frames
  <1>5. MenuOpen(e, <<f>>) /\ Shown(e)
    BY <1>1, <1>2, <1>4, AsksMenu
  <1> QED BY <1>1, <1>3, <1>5 DEF SessionInv, Opening

\* Every step keeps the invariant, and what is shown true.
LEMMA NextFits == SessionInv /\ [Next]_vars => StepFits
  <1> SUFFICES ASSUME SessionInv, [Next]_vars PROVE StepFits
    OBVIOUS
  <1>1. CASE UNCHANGED vars
    BY <1>1 DEF vars, StepFits, SessionInv
  <1>2. CASE Next
    <2>1. \/ \E key : MenuKey(key) \/ MenuTurn(key)
          \/ LeaveMenu
          \/ \/ Descend \/ SelectChoice \/ SelectText \/ MenuHelp \/ SaveAs \/ LoadFrom \/ Search
             \/ SetYes \/ SetNo \/ Toggle \/ AllOptions
          \/ (\E key : ListKey(key) \/ ListTurn(key)) \/ TakeMember \/ MemberHelp \/ LeaveList
          \/ (\E key \in Characters : InputKey(key)) \/ \E key : InputTurn(key)
          \/ EnterValue \/ EnterSave \/ EnterLoad \/ EnterSearch \/ InputHelp \/ LeaveInput
          \/ (\E key : TextKey(key)) \/ CloseHelp \/ CloseResults \/ (\E r \in DOMAIN Found : Jump(r))
          \/ (\E key : QuestionTurn(key)) \/ AnswerExit \/ BackToMenus
      <3>1. Sides \union Letters \union {"backspace"} \subseteq Characters
        BY DEF Characters
      <3> QED BY <1>2, <3>1 DEF Next
    <2> QED BY <2>1, MenuKeyFits, LeaveMenuFits, MenuOpens, ListSteps, InputKeyFits, InputSteps,
               TextSteps, QuestionSteps
  <1> QED BY <1>1, <1>2

\* The invariant holds, resizes or not.
LEMMA SessionHolds == SpecResizing => []SessionInv
  <1>1. Init => SessionInv
    BY InitFits
  <1>2. SessionInv /\ [Next \/ \E h \in Heights : Resize(h)]_vars => SessionInv'
    BY NextFits, ResizeFits DEF StepFits
  <1> QED BY <1>1, <1>2, PTL DEF SpecResizing

\* Without resizes everything shown is true.
LEMMA SeenHolds == Spec => [](SessionInv /\ Shown(dialog))
  <1>1. Init => SessionInv /\ Shown(dialog)
    BY InitFits
  <1>2. SessionInv /\ Shown(dialog) /\ [Next]_vars => (SessionInv /\ Shown(dialog))'
    BY NextFits DEF StepFits
  <1> QED BY <1>1, <1>2, PTL DEF Spec

\* A terminal that keeps its size is one of those that may change it.
LEMMA SizeMayStay == Spec => SpecResizing
  <1>1. [Next]_vars => [Next \/ \E h \in Heights : Resize(h)]_vars
    OBVIOUS
  <1> QED BY <1>1, PTL DEF Spec, SpecResizing

\* The pointer into a text and the screen agree in every text box: for any texts and
\* screens, also when the terminal changes its size while they are shown.
THEOREM PagesAreTrue == Spec \/ SpecResizing => []ScreenIsPage
  <1>1. SessionInv => ScreenIsPage
    BY WhatIsOpen DEF ScreenIsPage, TextOpen, TextFits, PageTrue
  <1> QED BY <1>1, SessionHolds, SizeMayStay, PTL

\* The user sees what a key acts on, in any menus and choices and on any screen that
\* keeps its size.
THEOREM TakenIsSeen == Spec => []SeenIsTaken
  <1>1. ASSUME SessionInv, Shown(dialog) PROVE SeenIsTaken
    <2>1. InMenu \/ InList => ListIsTrue /\ MarkIsOnScreen
      <3>1. InMenu => RowsTrue(dialog) /\ (dialog.items # <<>> => dialog.choice \in 0..dialog.max - 1)
        BY <1>1, WhatIsOpen DEF MenuOpen, MenuFits, Shown, InMenu
      <3>2. InList => RowsTrue(dialog) /\ dialog.choice \in 0..dialog.max - 1
        BY <1>1, WhatIsOpen DEF ListOpen, ListFits, ListShape
      <3> QED BY <3>1, <3>2 DEF ListIsTrue, MarkIsOnScreen, RowsTrue
    <2>2. InInput => FieldIsTrue
      BY <1>1, WhatIsOpen DEF InputOpen, InputFits, InputShape, FieldShows, FieldIsTrue, Cells
    <2>3. InMenu \/ InList \/ InInput \/ InQuestion => ButtonIsLit
      BY <1>1 DEF Shown, Lit, ButtonIsLit, InMenu, InList, InInput, InQuestion
    <2> QED BY <2>1, <2>2, <2>3 DEF SeenIsTaken, RowIsTaken
  <1> QED BY <1>1, SeenHolds, PTL

\* What a resize leaves as it was.
OnlyRowsGoStale ==
    /\ InMenu => MarkIsOnScreen
    /\ InList => ListIsTrue /\ MarkIsOnScreen
    /\ InInput => FieldIsTrue

\* A resize leaves stale at most the rows of a menu and the lit button: the highlight
\* stays on the screen, and the lists of choices and the fields stay true.
THEOREM ResizeSparesTheRest == SpecResizing => []OnlyRowsGoStale
  <1>1. ASSUME SessionInv PROVE OnlyRowsGoStale
    <2>1. InMenu => MarkIsOnScreen
      BY <1>1, WhatIsOpen DEF MenuOpen, MenuFits, MarkIsOnScreen
    <2>2. InList => ListIsTrue /\ MarkIsOnScreen
      BY <1>1, WhatIsOpen
         DEF ListOpen, ListFits, ListShape, RowsTrue, ListIsTrue, MarkIsOnScreen
    <2>3. InInput => FieldIsTrue
      BY <1>1, WhatIsOpen DEF InputOpen, InputFits, InputShape, FieldShows, FieldIsTrue, Cells
    <2> QED BY <2>1, <2>2, <2>3 DEF OnlyRowsGoStale
  <1> QED BY <1>1, SessionHolds, PTL
=============================================================================
