---- MODULE KconfigSession ----
(* The configuration programs of support/kconfig: one process after the other
   reads Kconfig and .config, sets symbols in one of the modes of conf.c or as
   the user of a menu does (mconf.c and the other front ends), and writes .config,
   a defconfig, or auto.conf and its companions (confdata.c).  It may be killed
   at any point, and between two runs Kconfig may change. *)
EXTENDS KconfigAsk, KconfigFiles

CONSTANTS Kconfigs,   \* name -> Kconfig, as the parser reads it
          Files,      \* the .config files there may be at first: sequences of lines
          Modes,      \* the programs that are run, of AllModes
          Habits,     \* what the user answers: functions from symbols to texts
          Edits,      \* what a user of a menu enters: pairs [sym, val]
          Picks,      \* what the random numbers come to: functions on the symbols
          MaxRuns, MaxEdits,   \* bounds on programs run and on edits
          MayFail     \* the programs in which the last rename() of conf_write() may fail

Setting == {"allno", "allyes", "allmod", "alldef", "random"}
Asks == {"oldaskconfig", "oldconfig", "syncconfig", "listnewconfig"}
AllModes == Setting \cup Asks \cup {"defconfig", "olddefconfig", "savedefconfig", "menuconfig"}
ASSUME SessionAssumption == /\ MaxRuns \in Nat /\ MaxEdits \in Nat
                            /\ Modes \subseteq AllModes /\ MayFail \subseteq AllModes

VARIABLES src,     \* the name of the Kconfig there is
          st,      \* the symbols in the running program
          mode,
          edit,    \* history: the last edit that was accepted
          turn,    \* history: flips with every round of questions
          runs, edits
vars == <<fileVars, src, st, mode, edit, turn, runs, edits>>
Memory == <<src, st, mode, edit, turn>>
Counts == <<runs, edits>>

NoEdit == Line(NoSym, "")
(* The number enum set_default_mode has for each mode that sets all symbols. *)
DefMode(m) == CASE m = "allno" -> "no" [] m = "allyes" -> "yes" [] m = "allmod" -> "mod"
                [] m = "random" -> "random" [] OTHER -> "default"
NoPick == [s \in Syms |-> Unset]

Init ==
    /\ src \in DOMAIN Kconfigs /\ kc = conf_parse(Kconfigs[src])
    /\ st = Fresh /\ mode = "none" /\ pc = "off"
    /\ \E f \in Files : /\ disk = [config |-> f, old |-> Absent, def |-> Absent,
                                   header |-> Absent, tristate |-> Absent, auto |-> Absent]
                        /\ last = f
    /\ lines = <<>> /\ todo = {} /\ touched = {}
    /\ edit = NoEdit /\ turn = FALSE /\ runs = 0 /\ edits = 0

(* The developer changes Kconfig. *)
Upgrade ==
    /\ pc = "off" /\ runs < MaxRuns
    /\ src' \in DOMAIN Kconfigs \ {src} /\ kc' = conf_parse(Kconfigs[src'])
    /\ st' = Fresh'
    /\ UNCHANGED <<mode, pc, Stored, edit, turn, Counts>>

(* main() of conf.c up to the point where symbols are set; mconf.c does the same
   and then shows the menu.  Without the file it needs the program gives up. *)
Start(m) ==
    /\ pc = "off" /\ runs < MaxRuns
    /\ m = "defconfig" => disk.def.state # "absent"
    /\ m = "syncconfig" => disk.config.state # "absent"
    /\ \E read \in {IF m \in Setting THEN Fresh
                     ELSE conf_read(Fresh, IF m = "defconfig" THEN disk.def ELSE disk.config)} :
           st' = IF m \in (Setting \cup {"defconfig"}) \ {"random"}
                 THEN conf_set_all_new_symbols(read, DefMode(m), NoPick).st ELSE read
    /\ mode' = m /\ runs' = runs + 1
    /\ pc' = CASE m \in Asks -> "asking" [] m = "random" -> "random" [] m = "menuconfig" -> "menu"
               [] m = "savedefconfig" -> "minimal" [] OTHER -> "write"
    /\ UNCHANGED <<kc, src, Stored, edit, edits, turn>>

(* randconfig: once more until nothing is new. *)
Randomize ==
    /\ pc = "random"
    /\ \E pick \in Picks :
         \E r \in {conf_set_all_new_symbols(st, "random", [s \in Syms |-> pick[s]])} :
             /\ \A c \in kc.choices : Contains(kc.members[c], pick[c].val)
             /\ st' = r.st /\ pc' = IF r.changed THEN "random" ELSE "write"
    /\ UNCHANGED <<kc, src, mode, Stored, edit, turn, Counts>>

(* One round of the loop of main() that asks: oldaskconfig asks everything first. *)
Round(ans) == LET a == Asking(st, mode, ans)
              IN  IF mode = "oldaskconfig" THEN conf(a, Root) ELSE check_conf(a, Root)
Ask ==
    /\ pc = "asking"
    /\ \E ans \in Habits : \E r \in {Round([s \in Syms |-> ans[s]])} :
             /\ st' = r.st
             /\ mode' = IF mode = "oldaskconfig" THEN "oldconfig" ELSE mode
             /\ pc' = CASE mode = "oldaskconfig" \/ r.cnt # 0 -> "asking"
                        [] mode = "listnewconfig" -> "exit"
                        [] mode = "syncconfig" -> IF r.st.unsaved THEN "write" ELSE "sync"
                        [] OTHER -> "write"
    /\ turn' = ~turn
    /\ UNCHANGED <<kc, src, Stored, edit, Counts>>

(* The user of a menu: it is drawn, and one symbol that can be seen is set. *)
ShowAll(t) == FoldLeft(LAMBDA x, m : menu_is_visible(x, m).st, t, Preorder(kc, Root))
Set(e) ==
    /\ pc = "menu" /\ edits < MaxEdits /\ e.sym \in Syms
    /\ \E drawn \in {ShowAll(st)} :
         /\ drawn.vis[e.sym] # no
         /\ \E r \in {IF IsBoolean(e.sym) THEN sym_set_tristate_value(drawn, e.sym, TriOfText(e.val))
                     ELSE sym_set_string_value(drawn, e.sym, e.val)} :
              /\ st' = r.st
              /\ edit' = IF r.ok THEN e ELSE edit
    /\ edits' = edits + 1
    /\ UNCHANGED <<kc, src, mode, pc, Stored, runs, turn>>
(* The space bar. *)
ToggleIt(s) ==
    /\ pc = "menu" /\ edits < MaxEdits /\ s \in Syms /\ IsBoolean(s)
    /\ \E drawn \in {ShowAll(st)} :
         drawn.vis[s] # no /\ st' = sym_toggle_tristate_value(drawn, s)
    /\ edits' = edits + 1 /\ edit' = NoEdit
    /\ UNCHANGED <<kc, src, mode, pc, Stored, runs, turn>>
Save == /\ pc = "menu" /\ pc' = "write"
        /\ UNCHANGED <<kc, Stored, Memory, Counts>>
Quit == /\ pc = "menu" /\ pc' = "exit"
        /\ UNCHANGED <<kc, Stored, Memory, Counts>>

-----------------------------------------------------------------------------
(* What the program has in memory while KconfigFiles' steps change the files. *)
WriteTmp ==
    /\ CloseTmp
    /\ \E c \in {ConfigLines(st)} : st' = c.st /\ lines' = c.lines
    /\ UNCHANGED <<src, mode, edit, turn, Counts>>
Saving ==
    /\ Replace
    /\ st' = [st EXCEPT !.unsaved = FALSE]
    /\ UNCHANGED <<src, mode, edit, turn, Counts>>
ReplaceFails ==
    /\ mode \in MayFail /\ pc' = IF mode = "menuconfig" THEN "menu" ELSE "exit"
    /\ FailReplace
    /\ UNCHANGED <<Memory, Counts>>
Saved ==
    /\ pc = "saved"
    /\ pc' = CASE mode = "menuconfig" -> "menu" [] mode = "syncconfig" -> "sync" [] OTHER -> "exit"
    /\ UNCHANGED <<kc, Stored, Memory, Counts>>
WriteMinimal ==
    /\ pc = "minimal2"
    /\ \E d \in {conf_write_defconfig(st)} :
         st' = d.st /\ disk' = [disk EXCEPT !.def = Whole(d.lines)]
    /\ pc' = "minimal3"
    /\ UNCHANGED <<kc, lines, todo, touched, last, src, mode, edit, turn, Counts>>
MinimalDone == /\ pc = "minimal3" /\ pc' = "exit"
               /\ UNCHANGED <<kc, Stored, Memory, Counts>>

(* conf_write_autoconf() up to where it begins to touch files. *)
Sync ==
    /\ pc = "sync" /\ pc' = "touch"
    /\ \E a \in {Autoconf(st, disk.auto)} : st' = a.st /\ todo' = a.touched /\ lines' = a.lines
    /\ UNCHANGED <<kc, disk, touched, last, src, mode, edit, turn, Counts>>

Ends == Stop /\ st' = Fresh /\ mode' = "none" /\ edit' = NoEdit /\ turn' = FALSE
        /\ UNCHANGED <<src, Counts>>
Exit == pc = "exit" /\ Ends
Kill == pc # "exit" /\ Ends

(* The steps that change files and nothing in the program. *)
OnDisk == /\ \/ KeepOld \/ OpenMinimal
             \/ Touch \/ RenameHeader \/ RenameTristate \/ RenameAuto
          /\ UNCHANGED <<Memory, Counts>>

Step ==
    \/ \E m \in Modes : Start(m)
    \/ Randomize \/ Ask
    \/ \E e \in Edits : Set(e)
    \/ \E s \in Syms : ToggleIt(s)
    \/ Save \/ Quit
    \/ WriteTmp \/ Saving \/ ReplaceFails \/ Saved \/ WriteMinimal \/ MinimalDone
    \/ Sync \/ OnDisk
    \/ Exit
Next == Step \/ Upgrade \/ Kill
Spec == Init /\ [][Next]_vars /\ WF_turn(pc = "asking" /\ turn' = ~turn)

-----------------------------------------------------------------------------
Running == {"menu", "asking", "write", "saved", "minimal", "sync"}
(* With a loop of dependencies the values depend on the order of calculation.
   A tristate choice loses its answer as soon as one of its values has none, and
   a minimal configuration leaves out a value of it that is not its default:
   Buildroot has boolean choices only. *)
Loops == CheckAll.x.said
BoolChoices == \A c \in kc.choices : SymType[c] = "bool"
Plain == BoolChoices /\ ~Loops
Now == CalcAll(st)          \* every symbol calculated, starting from what is cached
Anew == CalcAll([st EXCEPT !.valid = {}])   \* and from nothing

(* What the values of the symbols promise, whatever the path that led to them:
   a boolean or tristate is only on as far as its dependencies or a select say,
   never less than a select asks for, never m without modules, and of a choice
   that is y and can be seen exactly one value is y.  And no cached value is
   stale: it is the one that calculating everything again gives. *)
LegalValues(t) ==
    /\ BoolChoices => \A s \in st.valid : st.cur[s] = t.cur[s]
    /\ \A s \in Syms : (IsBoolean(s) /\ s \notin kc.choices /\ ~IsMember(s)) =>
         /\ Tri(t, s) >= t.rev[s]
         /\ Tri(t, s) # no => (t.rev[s] # no \/ Worth(t, kc.dir[s]) # no)
         /\ Tri(t, s) = mod => Tri(t, ModulesSym) # no
    /\ \A c \in kc.choices :
         LET on == {v \in ToSet(kc.members[c]) : Tri(t, v) = yes}
         IN  /\ (Tri(t, c) = yes /\ t.vis[c] # no) => Cardinality(on) = 1
             /\ Tri(t, c) = no => on = {}
ValuesAreRight == pc \in Running => LegalValues(Anew) \/ Loops

(* An answer that was accepted is the value of the symbol. *)
AnswersCount ==
    (edit.sym # NoSym /\ pc = "menu") => sym_get_string_value(Now, edit.sym) = edit.val \/ Loops

(* A symbol whose prompt can be seen can be reached: every menu around it, the
   submenus menu_finalize() made included, is shown. *)
Shows(t) == {m \in DOMAIN kc.sym : menu_is_visible(t, m).yes}
EntriesCanBeReached ==
    pc \in Running =>
    \/ \E shown \in {Shows(Now)} :
           \A m \in shown : kc.sym[m] # NoSym => ToSet(Above(kc, m)) \subseteq shown
    \/ Loops

(* Every symbol of a saved .config has, when the file is read, the value it had,
   and nothing is left to save. *)
Values(t) == [s \in Syms \ kc.choices |-> sym_get_string_value(t, s)]
SavedReadsBack ==
    (pc = "saved" /\ Plain) => \E t \in {conf_read(Fresh, disk.config)} :
                                 Values(CalcAll(t)) = Values(Now) /\ ~t.unsaved

(* So has every symbol of a minimal configuration. *)
DefconfigReadsBack ==
    (pc = "minimal3" /\ Plain) =>
        Values(CalcAll(conf_set_all_new_symbols(conf_read(Fresh, disk.def), "default", NoPick).st)) = Values(Now)

(* Whatever is read, asked and calculated, the files change in the order, and with
   the contents, that KconfigFiles says: what conf_split_config() touches names all
   that auto.conf will say otherwise. *)
FollowsFiles == FilesSpec

(* A loop of dependencies between symbols, a choice and its values taken as one,
   is reported, and only then.  Every Kconfig is there when nothing has run. *)
Node(s) == IF IsMember(s) THEN ChoiceOf(s) ELSE s
Needs == {<<Node(p[1]), Node(p[2])>> :
             p \in {q \in Syms \X Syms : Contains(CheckedExprs(q[1]), q[2])
                                         /\ (Node(q[1]) # Node(q[2]) \/ q[1] = q[2])}}
LoopsReported ==
    runs = 0 => LET x == CheckAll.x
                    needs == Needs
                    loop(S) == S # {} /\ \A a \in S : \E b \in S : <<a, b>> \in needs
                IN  ~x.lost /\ (x.said <=> \E S \in SUBSET {Node(s) : s \in Syms} : loop(S))

(* The questions of oldconfig and syncconfig come to an end. *)
AskingEnds == pc = "asking" ~> pc # "asking"
====
