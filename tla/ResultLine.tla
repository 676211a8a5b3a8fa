----------------------------- MODULE ResultLine -----------------------------
(***************************************************************************)
(* What a git queue promises those who submit to it, with everything about *)
(* processes, coroutines and the main loop left out: results come one at a *)
(* time in the order of the submissions, and superseding forgets every     *)
(* submission made so far, the one under way included.                     *)
(***************************************************************************)
EXTENDS Sequences

CONSTANT Jobs

VARIABLES
  line,       \* the jobs whose result is still owed, in order
  delivered   \* the jobs whose on_done has run, in order

lineVars == <<line, delivered>>

LineInit == line = <<>> /\ delivered = <<>>

Owe(l, j) == Append(l, j)

SubmitOne == \E j \in Jobs : line' = Owe(line, j) /\ UNCHANGED delivered

Forget == line' = <<>> /\ UNCHANGED delivered

\* The job in front is answered; its on_done may submit or supersede in turn.
Deliver ==
  /\ line # <<>>
  /\ delivered' = Append(delivered, Head(line))
  /\ \/ line' = Tail(line)
     \/ \E j \in Jobs : line' = Owe(Tail(line), j)
     \/ line' = <<>>

LineNext == SubmitOne \/ Forget \/ Deliver

LineSpec == LineInit /\ [][LineNext]_lineVars

=============================================================================
