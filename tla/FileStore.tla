----------------------------- MODULE FileStore ------------------------------
(***************************************************************************)
(* What a data room promises about its files, with no word of handlers,    *)
(* counters or failures: the versions of a file are numbered without gaps, *)
(* never change and never go away; each keeps a content of its own; the    *)
(* current version is one of them; and a removed file stays removed.       *)
(***************************************************************************)
EXTENDS Integers, Sequences

CONSTANT Contents

VARIABLES
  versions,  \* the versions: [file, number, blob]
  current,   \* for each file in turn, the number of its current version
  removed    \* the files removed

vars == <<versions, current, removed>>

Files == DOMAIN current
Numbers(f) == {v.number : v \in {w \in versions : w.file = f}}
Fresh(blob) == \A v \in versions : v.blob # blob

Init ==
  /\ versions = {}
  /\ current = <<>>
  /\ removed = {}

Upload(blob) ==
  /\ Fresh(blob)
  /\ versions' = versions \cup
       {[file |-> Len(current) + 1, number |-> 1, blob |-> blob]}
  /\ current' = Append(current, 1)
  /\ UNCHANGED removed

\* The next version follows one that has no successor yet.
AddVersion(f, last, blob) ==
  /\ Fresh(blob)
  /\ last + 1 \notin Numbers(f)
  /\ versions' = versions \cup {[file |-> f, number |-> last + 1, blob |-> blob]}
  /\ UNCHANGED <<current, removed>>

MakeCurrent(f, number) ==
  /\ current' = [current EXCEPT ![f] = number]
  /\ UNCHANGED <<versions, removed>>

Remove(f) ==
  /\ removed' = removed \cup {f}
  /\ UNCHANGED <<versions, current>>

Next ==
  \/ \E blob \in Contents : Upload(blob)
  \/ \E f \in Files :
       \/ \E last \in Numbers(f), blob \in Contents : AddVersion(f, last, blob)
       \/ \E number \in Numbers(f) : MakeCurrent(f, number)
       \/ Remove(f)

Spec == Init /\ [][Next]_vars
=============================================================================
