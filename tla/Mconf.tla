-------------------------------- MODULE Mconf --------------------------------
(***************************************************************************)
(* support/kconfig/mconf.c: the user of menuconfig, from key to key.       *)
(* conf() shows a menu until it is left, and calls itself for a submenu;   *)
(* its variables active_menu and s_scroll are a frame of the stack.  What  *)
(* the symbols are worth is KconfigSym's matter: here a symbol is on or    *)
(* off, and shows the items that depend on it; a choice may have any of    *)
(* its members, and a string any text it accepts.                          *)
(***************************************************************************)
EXTENDS LxdialogText

CONSTANTS
    Menus,       \* menu -> its items: [id, tag, hot, needs, to]
    Members,     \* choice -> its members: [id, hot]
    RootMenu,
    Heights,     \* the heights the list of a menu may have
    TextMore,    \* by how much a text is higher than the list of a menu
    HelpLines, ResultLines,     \* the lines of a help text and of the results
    Found,       \* the results of a search: [line, menu, id]
    Values,      \* the texts a string symbol accepts, and the names of files
    ListHeight,  \* the height of a choice's list, CHECKLIST_HEIGTH_MIN
    MaxDepth     \* bound on the menus and searches open at once

\* What a terminal, a text and a menu are: a row at least for a list, a character
\* at least for a field, menus that lead to menus.
ASSUME SizesAssumption ==
    /\ Heights \subseteq Nat \ {0} /\ ListHeight \in Nat \ {0} /\ BoxWidth \in Nat \ {0}
    /\ TextMore \in Nat /\ HelpLines \in Nat /\ ResultLines \in Nat /\ MaxDepth \in Nat
ASSUME ItemsAssumption ==
    /\ RootMenu \in DOMAIN Menus
    /\ \A m \in DOMAIN Menus :
          Menus[m] \in Seq([id : Nat \ {0}, tag : STRING, hot : STRING, needs : Nat, to : STRING])
    /\ \A c \in DOMAIN Members : Members[c] \in Seq([id : Nat \ {0}, hot : STRING])
    /\ Found \in Seq([line : Nat, menu : DOMAIN Menus, id : Nat \ {0}])
    /\ Values \subseteq Seq(STRING)

VARIABLES
    on,          \* the symbols that are y
    changed,     \* conf_get_changed()
    showAll,     \* show_all_options
    stack,       \* the calls of conf() and search_conf(), innermost last
    rows,        \* the height of the terminal, as that of a menu's list
    dialog       \* the dialog that waits for a key, and who asked for it

vars == <<on, changed, showAll, stack, rows, dialog>>
Config == <<on, changed>>

NoItem == 0
Nobody == [kind |-> "none"]
Here == stack[Len(stack)]

\* A dialog together with what the function that opened it has at hand.
Opened(d, caller) ==
    [f \in DOMAIN d \union DOMAIN caller |-> IF f \in DOMAIN d THEN d[f] ELSE caller[f]]
Asks(d, ask) == dialog' = Opened(d, [ask |-> ask])

----------------------------------------------------------------------------
(* What is opened.                                                         *)

\* The items that can be seen, or all that have a prompt.
build_conf(menu, yes, all) ==
    LET seen == {k \in DOMAIN Menus[menu] : \/ all
                                           \/ Menus[menu][k].needs \in {NoItem} \union yes}
        nth(r) == CHOOSE k \in seen : Cardinality({j \in seen : j < k}) = r - 1
    IN  [r \in 1..Cardinality(seen) |-> Menus[menu][nth(r)]]

\* One turn of the loop of conf(): the items are collected anew.
Conf(frame, yes, all) ==
    Asks(dialog_menu(build_conf(frame.menu, yes, all), frame.active, frame.s_scroll, rows),
         "menu")
Frame(menu, active) == [call |-> "conf", menu |-> menu, active |-> active, s_scroll |-> 0]

Choice(choice, active) ==
    dialog' = Opened(dialog_checklist(Members[choice], active, active, ListHeight),
                     [ask |-> "choice", of |-> choice])
Text(n, results, vscroll, caller) ==
    dialog' = Opened(dialog_textbox(n, rows + TextMore, results, vscroll), caller)
Help(ask) == Text(HelpLines, <<>>, 0, [ask |-> ask])
Propose(ask) == \E text \in Values : Asks(dialog_inputbox(text), ask)
Results(frame) ==
    Text(ResultLines, [r \in DOMAIN Found |-> Found[r].line], frame.vscroll, [ask |-> "results"])

\* The innermost call goes on.
Resume(frames, yes, all) ==
    /\ stack' = frames
    /\ IF Last(frames).call = "conf" THEN Conf(Last(frames), yes, all) ELSE Results(Last(frames))

----------------------------------------------------------------------------
(* A menu.                                                                 *)

InMenu == dialog.kind = "menu"
Some == dialog.items # <<>>
Item == Taken(dialog)
\* conf() remembers the item, and dialog_menu() the scroll position.
Kept == [stack EXCEPT ![Len(stack)].active = IF Some THEN Item.id ELSE NoItem,
                      ![Len(stack)].s_scroll = dialog.scroll]
Pressed(button) == InMenu /\ dialog.button = button

MenuKey(key) ==
    /\ InMenu /\ Some
    /\ key \in MenuMoves \/ HasHot(dialog, key)
    /\ dialog' = MoveMenu(dialog, key)
    /\ UNCHANGED <<Config, showAll, stack, rows>>

MenuTurn(key) ==
    /\ InMenu /\ dialog' = Turn(dialog, key, 4)
    /\ UNCHANGED <<Config, showAll, stack, rows>>

\* Return on the Select button, by the tag of the item; the space bar, too,
\* opens a menu.
Descend ==
    /\ InMenu /\ Some /\ Len(stack) < MaxDepth
    /\ Item.tag = "m" \/ (Pressed(0) /\ Item.tag = "t")
    /\ Item.to \in DOMAIN Menus
    /\ stack' = Append(Kept, Frame(Item.to, NoItem))
    /\ Conf(Frame(Item.to, NoItem), on, showAll)
    /\ UNCHANGED <<Config, showAll, rows>>
SelectChoice ==
    /\ Pressed(0) /\ Some /\ Item.tag = "t" /\ Item.to \in DOMAIN Members
    /\ stack' = Kept /\ \E x \in ToSet(Members[Item.to]) : Choice(Item.to, x.id)
    /\ UNCHANGED <<Config, showAll, rows>>
SelectText ==
    /\ Pressed(0) /\ Some /\ Item.tag = "s"
    /\ stack' = Kept /\ Propose("string")
    /\ UNCHANGED <<Config, showAll, rows>>

\* Left with Exit or escape: the caller goes on, or the program asks.
LeaveMenu ==
    /\ InMenu
    /\ IF Len(stack) > 1 THEN Resume(Front(stack), on, showAll)
       ELSE /\ stack' = <<>>
            /\ IF changed THEN Asks(dialog_yesno, "exit") ELSE dialog' = Nobody
    /\ UNCHANGED <<Config, showAll, rows>>
MenuHelp ==
    /\ InMenu /\ stack' = Kept /\ Help("menu")
    /\ UNCHANGED <<Config, showAll, rows>>
SaveAs ==
    /\ Pressed(3) /\ stack' = Kept /\ Propose("save")
    /\ UNCHANGED <<Config, showAll, rows>>
LoadFrom ==
    /\ Pressed(4) /\ stack' = Kept /\ Propose("load")
    /\ UNCHANGED <<Config, showAll, rows>>

\* y, n and the space bar on a symbol; the list may get longer or shorter.
SetItem(yes) ==
    /\ InMenu /\ Some /\ Item.tag = "t" /\ Item.to = "none"
    /\ on' = yes /\ changed' = (changed \/ yes # on)
    /\ Resume(Kept, yes, showAll)
    /\ UNCHANGED <<showAll, rows>>
SetYes == SetItem(on \union {Item.id})
SetNo == SetItem(on \ {Item.id})
Toggle == SetItem(IF Item.id \in on THEN on \ {Item.id} ELSE on \union {Item.id})

Search ==
    /\ InMenu /\ Len(stack) + 1 < MaxDepth
    /\ stack' = Kept /\ Asks(dialog_inputbox(<<>>), "search")
    /\ UNCHANGED <<Config, showAll, rows>>
AllOptions ==
    /\ InMenu /\ showAll' = ~showAll
    /\ Resume(Kept, on, ~showAll)
    /\ UNCHANGED <<Config, rows>>

----------------------------------------------------------------------------
(* A choice: conf_choice() asks until a member is taken.                   *)

InList == dialog.kind = "list"
ListKey(key) ==
    /\ InList
    /\ \/ key \in {"up", "down"}
       \/ \E r \in 0..dialog.max - 1 : dialog.items[dialog.scroll + r + 1].hot = key
    /\ dialog' = MoveList(dialog, key)
    /\ UNCHANGED <<Config, showAll, stack, rows>>
ListTurn(key) ==
    /\ InList /\ dialog' = Turn(dialog, key, 1)
    /\ UNCHANGED <<Config, showAll, stack, rows>>
TakeMember ==
    /\ InList /\ dialog.button = 0
    /\ changed' \in {changed, TRUE}
    /\ Resume(stack, on, showAll)
    /\ UNCHANGED <<on, showAll, rows>>
\* The member that help was asked for is the highlighted one afterwards.
MemberHelp ==
    /\ InList
    /\ Text(HelpLines, <<>>, 0, [ask |-> "choice", of |-> dialog.of, active |-> Item.id])
    /\ UNCHANGED <<Config, showAll, stack, rows>>
LeaveList ==
    /\ InList /\ Resume(stack, on, showAll)
    /\ UNCHANGED <<Config, showAll, rows>>

----------------------------------------------------------------------------
(* An input box, for a symbol, a file name or a search.                    *)

InInput == dialog.kind = "input"
InputKey(key) ==
    /\ InInput /\ dialog.button = -1
    /\ dialog' = EditInput(dialog, key)
    /\ UNCHANGED <<Config, showAll, stack, rows>>
InputTurn(key) ==
    /\ InInput /\ (dialog.button = -1 => key \in {"up", "down"})
    /\ dialog' = TurnInput(dialog, key)
    /\ UNCHANGED <<Config, showAll, stack, rows>>
Ok == InInput /\ dialog.button \in {-1, 0}

EnterValue ==
    /\ Ok /\ dialog.ask = "string"
    /\ IF dialog.instr \in Values
       THEN changed' \in {changed, TRUE} /\ Resume(stack, on, showAll)
       ELSE UNCHANGED <<changed, stack>> /\ Help("string")
    /\ UNCHANGED <<on, showAll, rows>>
\* An empty name goes back to the menu; a file that cannot be used is told.
EnterSave ==
    /\ Ok /\ dialog.ask = "save"
    /\ \/ changed' = (changed /\ dialog.instr = <<>>) /\ Resume(stack, on, showAll)
       \/ UNCHANGED <<changed, stack>> /\ dialog.instr # <<>> /\ Help("save")
    /\ UNCHANGED <<on, showAll, rows>>
EnterLoad ==
    /\ Ok /\ dialog.ask = "load"
    /\ \/ \E yes \in {on, {}} :
            /\ on' = IF dialog.instr = <<>> THEN on ELSE yes
            /\ changed' = (changed \/ dialog.instr # <<>>)
            /\ Resume(stack, on', showAll)
       \/ UNCHANGED <<on, changed, stack>> /\ dialog.instr # <<>> /\ Help("load")
    /\ UNCHANGED <<showAll, rows>>
EnterSearch ==
    /\ Ok /\ dialog.ask = "search"
    /\ LET frame == [call |-> "search", vscroll |-> 0]
       IN  stack' = Append(stack, frame) /\ Results(frame)
    /\ UNCHANGED <<Config, showAll, rows>>
InputHelp ==
    /\ InInput /\ dialog.button = 1 /\ Help(dialog.ask)
    /\ UNCHANGED <<Config, showAll, stack, rows>>
LeaveInput ==
    /\ InInput /\ Resume(stack, on, showAll)
    /\ UNCHANGED <<Config, showAll, rows>>

----------------------------------------------------------------------------
(* A text: help, a message (as long as help here), or the results of a     *)
(* search.                                                                 *)

InText == dialog.kind = "text"
TextKey(key) ==
    /\ InText /\ dialog' = MoveText(dialog, key)
    /\ UNCHANGED <<Config, showAll, stack, rows>>
\* What was open before the text is opened again.
CloseHelp ==
    /\ InText /\ dialog.ask # "results" /\ UNCHANGED stack
    /\ CASE dialog.ask = "menu" -> Conf(Here, on, showAll)
         [] dialog.ask = "choice" -> Choice(dialog.of, dialog.active)
         [] dialog.ask = "search" -> Asks(dialog_inputbox(<<>>), "search")
         [] OTHER -> Propose(dialog.ask)
    /\ UNCHANGED <<Config, showAll, rows>>
CloseResults ==
    /\ InText /\ dialog.ask = "results" /\ Resume(Front(stack), on, showAll)
    /\ UNCHANGED <<Config, showAll, rows>>
\* A key of a result opens the menu it is in; leaving it leads back here.
Jump(r) ==
    /\ InText /\ r \in dialog.keys /\ Len(stack) < MaxDepth
    /\ LET frame == Frame(Found[r].menu, Found[r].id)
       IN  /\ stack' = Append([stack EXCEPT ![Len(stack)].vscroll = VScroll(dialog)], frame)
           /\ Conf(frame, on, showAll)
    /\ UNCHANGED <<Config, showAll, rows>>

----------------------------------------------------------------------------
(* The question at the end, and the terminal.                              *)

InQuestion == dialog.kind = "yesno"
QuestionTurn(key) ==
    /\ InQuestion /\ dialog' = Turn(dialog, key, 1)
    /\ UNCHANGED <<Config, showAll, stack, rows>>
AnswerExit ==
    /\ InQuestion /\ dialog' = Nobody
    /\ changed' = (changed /\ dialog.button = 1)
    /\ UNCHANGED <<on, showAll, stack, rows>>
BackToMenus ==
    /\ InQuestion /\ Resume(<<Frame(RootMenu, NoItem)>>, on, showAll)
    /\ UNCHANGED <<Config, showAll, rows>>

Resize(h) ==
    /\ dialog.kind # "none" /\ rows' = h
    /\ dialog' = CASE InMenu -> LayoutMenu([dialog EXCEPT !.height = h])
                   [] InList -> LayoutList(dialog)
                   [] InInput -> LayoutInput(dialog)
                   [] InText -> LayoutText(dialog, h + TextMore)
                   [] OTHER -> LayoutYesNo(dialog)
    /\ UNCHANGED <<Config, showAll, stack>>

Init ==
    /\ on = {} /\ changed = FALSE /\ showAll = FALSE
    /\ stack = <<Frame(RootMenu, NoItem)>>
    /\ rows \in Heights
    /\ dialog = Opened(dialog_menu(build_conf(RootMenu, {}, FALSE), NoItem, 0, rows),
                       [ask |-> "menu"])

Letters == {"a", "b"}
Sides == {"left", "right"}
Next ==
    \/ \E key \in MenuMoves \union Letters : MenuKey(key) \/ ListKey(key)
    \/ \E key \in Sides : MenuTurn(key) \/ ListTurn(key) \/ QuestionTurn(key)
    \/ Descend \/ SelectChoice \/ SelectText \/ LeaveMenu \/ MenuHelp \/ SaveAs \/ LoadFrom
    \/ SetYes \/ SetNo \/ Toggle \/ Search \/ AllOptions
    \/ TakeMember \/ MemberHelp \/ LeaveList
    \/ \E key \in Sides \union Letters \union {"backspace"} : InputKey(key)
    \/ \E key \in Sides \union {"up", "down"} : InputTurn(key)
    \/ EnterValue \/ EnterSave \/ EnterLoad \/ EnterSearch \/ InputHelp \/ LeaveInput
    \/ \E key \in TextKeys : TextKey(key)
    \/ CloseHelp \/ CloseResults
    \/ \E r \in DOMAIN Found : Jump(r)
    \/ AnswerExit \/ BackToMenus

\* A terminal that keeps its size, and one that does not.
Spec == Init /\ [][Next]_vars
SpecResizing == Init /\ [][Next \/ \E h \in Heights : Resize(h)]_vars

----------------------------------------------------------------------------
(* Properties.                                                             *)

ListIsTrue ==
    \A r \in 0..dialog.max - 1 :
        dialog.screen[r] = [item |-> dialog.scroll + r, lit |-> r = dialog.choice]
MarkIsOnScreen == dialog.items # <<>> => dialog.choice \in 0..dialog.max - 1
ButtonIsLit == dialog.litButton = Most(dialog.button, 0)
FieldIsTrue ==
    /\ dialog.input_x \in 0..BoxWidth - 1
    /\ dialog.show_x + dialog.input_x = dialog.pos
    /\ \A c \in 0..BoxWidth - 1 :
          dialog.field[c] = IF dialog.show_x + c < Len(dialog.instr)
                            THEN dialog.instr[dialog.show_x + c + 1] ELSE Blank

\* A list shows, on each row, the item that a key takes when the highlight is
\* there, and the highlight is on the screen: also after a menu changed its
\* size on the fly.
RowIsTaken == InMenu \/ InList => ListIsTrue /\ MarkIsOnScreen

\* What the user sees is what a key acts on: whatever was moved, scrolled,
\* toggled or opened before, the row that is lit shows the item that return,
\* help and the space bar take, the lit button is the one return presses, and
\* a character goes into the text where the cursor stands.
SeenIsTaken ==
    /\ RowIsTaken
    /\ InInput => FieldIsTrue
    /\ InMenu \/ InList \/ InInput \/ InQuestion => ButtonIsLit

\* The pointer into a text and what is shown of it agree: the lines on the
\* screen follow each other, and going back by page_length leads to the first
\* of them.  On this rest one line up or down, reading on after a page, and
\* coming back to the results after a jump; and a key that leads to a result
\* belongs to a result on the screen.
ScreenIsPage ==
    InText =>
        /\ VScroll(dialog) = dialog.screen[1]
        /\ \A r \in 1..Len(dialog.screen) :
              dialog.screen[r] = Least(dialog.screen[1] + r - 1, dialog.n)
        /\ \A k \in dialog.keys : dialog.results[k] \in ToSet(dialog.screen)
=============================================================================
