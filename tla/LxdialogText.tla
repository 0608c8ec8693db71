---------------------------- MODULE LxdialogText ----------------------------
(***************************************************************************)
(* The dialogs of lxdialog that show text: the input box, the question and *)
(* the text box.                                                           *)
(***************************************************************************)
EXTENDS Lxdialog

CONSTANTS
    BoxWidth,    \* the characters an input box shows
    MAX_LEN      \* bound on what is typed; the terminal's 2048 in dialog.h

----------------------------------------------------------------------------
(* dialog_inputbox().  button is -1 while the field has the cursor.  The   *)
(* field is drawn up to the end of the text and one blank; what is further *)
(* right stays.                                                            *)

Blank == " "
PrintField(d) ==
    LET shown(c) == d.show_x + c
    IN  [d EXCEPT !.field = [c \in DOMAIN @ |->
            IF shown(c) < Len(d.instr) THEN d.instr[shown(c) + 1]
            ELSE IF shown(c) = Len(d.instr) THEN Blank ELSE @[c]]]

LayoutInput(d) ==
    LET len == Len(d.instr)
        show == IF len >= BoxWidth THEN len - BoxWidth + 1 ELSE 0
    IN  [d EXCEPT !.pos = len, !.show_x = show, !.input_x = len - show,
                  !.field = [c \in 0..BoxWidth - 1 |->
                               IF show + c < len THEN d.instr[show + c + 1] ELSE Blank],
                  !.litButton = 0]

dialog_inputbox(init) ==
    LayoutInput([kind |-> "input", instr |-> init, pos |-> 0, show_x |-> 0, input_x |-> 0,
                 field |-> <<>>, button |-> -1, litButton |-> 0])

Backspace(d) ==
    IF d.pos = 0 THEN d
    ELSE PrintField([d EXCEPT
            !.instr = RemoveAt(@, d.pos), !.pos = @ - 1,
            !.show_x = IF d.input_x = 0 THEN @ - 1 ELSE @,
            !.input_x = IF @ = 0 THEN 0 ELSE @ - 1])

CursorLeft(d) ==
    CASE d.pos = 0 -> d
      [] d.pos > 0 /\ d.input_x > 0 -> [d EXCEPT !.pos = @ - 1, !.input_x = @ - 1]
      [] OTHER -> PrintField([d EXCEPT !.pos = @ - 1, !.show_x = @ - 1])

CursorRight(d) ==
    CASE d.pos >= Len(d.instr) -> d
      [] d.pos < Len(d.instr) /\ d.input_x < BoxWidth - 1 ->
            [d EXCEPT !.pos = @ + 1, !.input_x = @ + 1]
      [] OTHER -> PrintField([d EXCEPT !.pos = @ + 1, !.show_x = @ + 1])

Typed(d, char) ==
    IF Len(d.instr) >= MAX_LEN THEN d
    ELSE PrintField([d EXCEPT
            !.instr = InsertAt(@, d.pos + 1, char), !.pos = @ + 1,
            !.show_x = IF d.input_x = BoxWidth - 1 THEN @ + 1 ELSE @,
            !.input_x = IF @ = BoxWidth - 1 THEN @ ELSE @ + 1])

\* Field, Ok and Help go round; with the field the first button is lit.
TurnInput(d, key) ==
    LET b == IF key \in {"up", "left"} THEN d.button - 1 ELSE d.button + 1
        button == IF b < -1 THEN 1 ELSE IF b > 1 THEN -1 ELSE b
    IN  [d EXCEPT !.button = button, !.litButton = Most(button, 0)]

EditInput(d, key) ==
    CASE key = "backspace" -> Backspace(d)
      [] key = "left" -> CursorLeft(d)
      [] key = "right" -> CursorRight(d)
      [] OTHER -> Typed(d, key)

----------------------------------------------------------------------------
(* dialog_yesno()                                                          *)

LayoutYesNo(d) == [d EXCEPT !.litButton = 0]
dialog_yesno == [kind |-> "yesno", button |-> 0, litButton |-> 0]

----------------------------------------------------------------------------
(* dialog_textbox().  A text is lines 0..n-1, each with its '\n'; page is  *)
(* the line the pointer of that name is at, n its final '\0'.  The screen  *)
(* is the lines drawn on the rows, n for what is past the text.            *)

GetLine(d) == IF d.page = d.n THEN [d EXCEPT !.end_reached = TRUE]
              ELSE [d EXCEPT !.end_reached = FALSE, !.page = @ + 1]

BackOne(d) ==
    CASE d.stop -> d
      [] ~d.stop /\ d.page = d.n /\ d.end_reached -> [d EXCEPT !.end_reached = FALSE]
      [] OTHER -> [d EXCEPT !.page = Most(@ - 1, 0), !.begin_reached = d.page <= 1,
                            !.stop = d.page <= 1]
BackLines(d, n) ==
    Repeat(BackOne, [d EXCEPT !.begin_reached = FALSE, !.stop = FALSE], n)

PrintLineCountsAll(d) ==      \* slip: what is past the end counts
    LET read == GetLine(d)
    IN  [read EXCEPT !.screen = Append(@, d.page), !.page_length = @ + 1]

\* The line on which the end is met counts, those after it do not.
PrintLine(d) ==
    LET read == GetLine(d)
    IN  [read EXCEPT !.screen = Append(@, d.page),
                     !.page_length = IF d.passed THEN @ ELSE @ + 1,
                     !.passed = @ \/ read.end_reached]

\* For the results of a search the lines on the screen are found first, to
\* number the results on them: keys are those that lead somewhere.
UpdateText(d) ==
    IF ~d.update THEN d
    ELSE LET ahead == Repeat(GetLine, d, d.height)
             back == BackLines(ahead, d.height)
         IN  [back EXCEPT !.keys = {r \in DOMAIN d.results :
                                      back.page <= d.results[r] /\ d.results[r] < ahead.page}]
PrintPage(d) ==
    Repeat(PrintLine, [UpdateText(d) EXCEPT !.page_length = 0, !.passed = FALSE,
                                            !.screen = <<>>], d.height)

\* results: the line of each result that a key may lead to.
dialog_textbox(n, height, results, vscroll) ==
    PrintPage(Repeat(GetLine,
        [kind |-> "text", n |-> n, height |-> height, page |-> 0, begin_reached |-> vscroll = 0,
         end_reached |-> FALSE, page_length |-> 0, stop |-> FALSE, passed |-> FALSE,
         screen |-> <<>>, update |-> results # <<>>, results |-> results, keys |-> {}],
        vscroll))

TextKeys == {"home", "end", "up", "down", "pageup", "pagedown", "left"}
MoveText(d, key) ==
    CASE key = "home" ->
            IF d.begin_reached THEN d
            ELSE PrintPage([d EXCEPT !.begin_reached = TRUE, !.page = 0])
      [] key = "end" ->
            PrintPage(BackLines([d EXCEPT !.end_reached = TRUE, !.page = d.n], d.height))
      [] key = "up" ->
            IF d.begin_reached THEN d ELSE PrintPage(BackLines(d, d.page_length + 1))
      [] key = "pageup" ->
            IF d.begin_reached THEN d ELSE PrintPage(BackLines(d, d.page_length + d.height))
      [] key = "down" ->
            IF d.end_reached THEN d ELSE PrintPage(BackLines(d, d.page_length - 1))
      [] key = "pagedown" ->
            IF d.end_reached THEN d ELSE PrintPage([d EXCEPT !.begin_reached = FALSE])
      [] OTHER -> PrintPage(BackLines(d, d.page_length))      \* to the left or the right

\* A resize goes back by the old height of the whole dialog, borders included.
LayoutText(d, height) == PrintPage([BackLines(d, d.height + 4) EXCEPT !.height = height])

\* What _vscroll is given when the box closes.
VScroll(d) == BackLines(d, d.page_length).page
=============================================================================
