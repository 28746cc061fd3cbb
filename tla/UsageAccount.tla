---------------------------- MODULE UsageAccount ----------------------------
(***************************************************************************)
(* What the usage log promises, whatever buffers lie between a request and *)
(* the table: records are taken in or lost when they come, wait in order,  *)
(* and leave from the front, some at a time, for the table or for good.    *)
(***************************************************************************)
EXTENDS Naturals, Sequences

VARIABLES
  issued,    \* records there have been
  pending,   \* those that wait
  written,   \* those in the table
  lost       \* those that are neither

accountVars == <<issued, pending, written, lost>>

Init == issued = 0 /\ pending = <<>> /\ written = <<>> /\ lost = {}

TakeIn ==
  /\ issued' = issued + 1
  /\ pending' = Append(pending, issued')
  /\ UNCHANGED <<written, lost>>

Refuse ==
  /\ issued' = issued + 1
  /\ lost' = lost \cup {issued'}
  /\ UNCHANGED <<pending, written>>

Leaves(n) == pending' = SubSeq(pending, n + 1, Len(pending))

Write(n) ==
  /\ Leaves(n)
  /\ written' = written \o SubSeq(pending, 1, n)
  /\ UNCHANGED <<issued, lost>>

Lose(n) ==
  /\ Leaves(n)
  /\ lost' = lost \cup {pending[i] : i \in 1..n}
  /\ UNCHANGED <<issued, written>>

Next ==
  \/ TakeIn \/ Refuse
  \/ \E n \in 1..Len(pending) : Write(n) \/ Lose(n)

Spec == Init /\ [][Next]_accountVars
=============================================================================
