---------------------------- MODULE GitQueueOps ----------------------------
(***************************************************************************)
(* The pending list of a git queue (lua/differ/git/exec.lua): an element   *)
(* carries the generation it was submitted under, and one of an older      *)
(* generation has been superseded.                                         *)
(***************************************************************************)
EXTENDS Integers, Sequences

\* drain's loop (exec.lua:135-138): the places in p of the jobs that may start.
Startable(p, g) == {i \in DOMAIN p : p[i].generation = g}

\* drain's loop stops at the first of them.
IsNext(i, p, g) ==
  /\ i \in Startable(p, g)
  /\ \A k \in Startable(p, g) : i <= k

\* The jobs drain takes off the list without starting them.
Skipped(p, g) ==
  {i \in DOMAIN p : \A k \in Startable(p, g) : i < k}

\* The list drain leaves once it has taken element i.
After(p, i) == SubSeq(p, i + 1, Len(p))

=============================================================================
