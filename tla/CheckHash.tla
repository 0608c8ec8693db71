------------------------------ MODULE CheckHash ------------------------------
(***************************************************************************)
(* support/download/check-hash, which dl-wrapper asks whether a file is    *)
(* what the .hash files of a package say it is.                            *)
(*                                                                         *)
(* The contents of a file are opaque: complete ones, and Torn, which       *)
(* stands for a file that was cut short and has nobody's hash.             *)
(***************************************************************************)
EXTENDS Naturals, Sequences

CONSTANTS Complete, Torn, NoFile

ASSUME ContentsAssumption ==
  Torn \notin Complete /\ NoFile \notin Complete \cup {Torn}

Contents == Complete \cup {Torn}

(***************************************************************************)
(* What a build knows of one file: whether any of its hash files exists,   *)
(* the lines of them that name the file, in order, and whether the file is *)
(* in BR_NO_CHECK_HASH_FOR.                                                *)
(***************************************************************************)
Lines == [known: BOOLEAN, sum: Complete]
Passes(l, c) == l.known /\ l.sum = c

\* The loop over the lines exits at the first one that does not pass.
FirstFailing(h, c) ==
  CHOOSE i \in DOMAIN h.lines :
    ~Passes(h.lines[i], c) /\ \A j \in 1 .. i - 1 : Passes(h.lines[j], c)

\* Slip: one hash that matches is enough.
VerdictAny(h, c) ==
  CASE ~h.file -> 0
    [] h.file /\ h.lines = <<>> -> IF h.exempt THEN 0 ELSE 3
    [] OTHER -> IF \E i \in DOMAIN h.lines : Passes(h.lines[i], c) THEN 0 ELSE 2

\* The exit code.
Verdict(h, c) ==
  CASE ~h.file -> 0
    [] h.file /\ h.lines = <<>> -> IF h.exempt THEN 0 ELSE 3
    [] OTHER -> IF \A i \in DOMAIN h.lines : Passes(h.lines[i], c) THEN 0
                ELSE IF h.lines[FirstFailing(h, c)].known THEN 2 ELSE 4
=============================================================================
