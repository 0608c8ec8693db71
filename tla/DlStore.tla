------------------------------- MODULE DlStore -------------------------------
(***************************************************************************)
(* What dl-wrapper promises of one file of the download directory: whoever *)
(* looks at its name finds a complete file or none; a build is told of     *)
(* success only when the file there is one its hashes accept; a file is    *)
(* taken away only by a build whose hashes it contradicts; and a build     *)
(* fails only when there is no file its hashes accept.                     *)
(***************************************************************************)
EXTENDS CheckHash

CONSTANTS Builds

VARIABLES
  hashes,  \* the hash files of each build
  out,     \* what is under the name
  result   \* what the last run of each build was told

storeVars == <<hashes, out, result>>

Init ==
  /\ out = NoFile
  /\ result = [b \in Builds |-> "none"]

Accepts(b) == out # NoFile /\ Verdict(hashes[b], out) = 0

Serve(b) ==
  /\ result[b] = "none" /\ Accepts(b)
  /\ result' = [result EXCEPT ![b] = "ok"]
  /\ UNCHANGED <<hashes, out>>

\* A file without any hash in the hash files is delivered, though nobody is served it.
Deliver(b, c) ==
  /\ result[b] = "none" /\ out = NoFile
  /\ Verdict(hashes[b], c) \in {0, 3}
  /\ out' = c
  /\ UNCHANGED <<hashes, result>>

Discard(b) ==
  /\ result[b] = "none" /\ out # NoFile /\ Verdict(hashes[b], out) = 2
  /\ out' = NoFile
  /\ UNCHANGED <<hashes, result>>

GiveUp(b) ==
  /\ result[b] = "none" /\ ~Accepts(b)
  /\ result' = [result EXCEPT ![b] = "failed"]
  /\ UNCHANGED <<hashes, out>>

Again(b) ==
  /\ result[b] # "none"
  /\ result' = [result EXCEPT ![b] = "none"]
  /\ UNCHANGED <<hashes, out>>

Next ==
  \E b \in Builds :
    \/ Serve(b) \/ Discard(b) \/ GiveUp(b) \/ Again(b)
    \/ \E c \in Complete : Deliver(b, c)

Spec == Init /\ [][Next]_storeVars
=============================================================================
