----------------------------- MODULE MCDlWrapper -----------------------------
(* Small instances of DlWrapper for TLC. *)
EXTENDS DlWrapper

CONSTANTS good, bad  \* the two members of Complete

Hashed(ls) == [file |-> TRUE, lines |-> ls, exempt |-> FALSE]
Sum(c) == [known |-> TRUE, sum |-> c]
Unknown == [known |-> FALSE, sum |-> bad]

\* No hash file; no line, exempt or not; one or two hashes; one of an unknown kind.
MCHashFiles ==
  {[file |-> FALSE, lines |-> <<>>, exempt |-> FALSE],
   [file |-> TRUE, lines |-> <<>>, exempt |-> TRUE],
   Hashed(<<>>), Hashed(<<Sum(good)>>), Hashed(<<Sum(good), Sum(good)>>),
   Hashed(<<Sum(good), Unknown>>), Hashed(<<Sum(bad)>>)}
=============================================================================
