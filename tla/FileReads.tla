----------------------------- MODULE FileReads -----------------------------
(***************************************************************************)
(* What get_file_versions promises: a request is answered once, with the   *)
(* bytes of its two paths at the commits it pinned, or at those the pull   *)
(* request had at one moment after it was asked; or with an error.  There  *)
(* is no cache here.                                                       *)
(***************************************************************************)
EXTENDS Integers

CONSTANTS Request, Refs, Ask, None, Failed, Content(_, _)

VARIABLES
  pr,      \* the pull request's base and head commit
  asked,   \* what each request asked for, None before it is made
  refs,    \* the commits it reads at, None until they are known
  result   \* its answer

Answer(r) == [base |-> Content(refs[r].base, asked[r].basePath),
              head |-> Content(refs[r].head, asked[r].path)]

Init ==
  /\ pr \in Refs
  /\ asked = [r \in Request |-> None]
  /\ refs = [r \in Request |-> None]
  /\ result = [r \in Request |-> None]

Push == pr' \in Refs /\ UNCHANGED <<asked, refs, result>>

Make(r) ==
  /\ asked[r] = None
  /\ \E a \in Ask :
       /\ asked' = [asked EXCEPT ![r] = a]
       /\ refs' = IF a.base = None \/ a.head = None THEN refs
                  ELSE [refs EXCEPT ![r] = [base |-> a.base, head |-> a.head]]
  /\ UNCHANGED <<pr, result>>

Resolve(r) ==
  /\ asked[r] # None /\ refs[r] = None
  /\ refs' = [refs EXCEPT ![r] = pr]
  /\ UNCHANGED <<pr, asked, result>>

Serve(r) ==
  /\ asked[r] # None /\ result[r] = None
  /\ \/ refs[r] # None /\ result' = [result EXCEPT ![r] = Answer(r)]
     \/ result' = [result EXCEPT ![r] = Failed]
  /\ UNCHANGED <<pr, asked, refs>>

Next == Push \/ \E r \in Request : Make(r) \/ Resolve(r) \/ Serve(r)

vars == <<pr, asked, refs, result>>

Spec == Init /\ [][Next]_vars
=============================================================================
