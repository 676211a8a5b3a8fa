----------------------------- MODULE BlobCache -----------------------------
(***************************************************************************)
(* get_file_versions and the blob cache behind it: cache.go, the reads of  *)
(* files.go with the send of rest.go under them, and the cache_clear       *)
(* handler.  Every request runs in a goroutine of its own and reads its    *)
(* base blob in another; the cache has one mutex, so each of its methods   *)
(* is one step.  A body is abstracted to its length and the path and       *)
(* commit it is from.                                                      *)
(***************************************************************************)
EXTENDS Integers, Sequences, FiniteSets, FiniteSetsExt

CONSTANTS
  Request,      \* the get_file_versions calls
  Path, Sha,
  Refs,         \* the base and head commits the pull request goes through
  Ask,          \* what a call may ask for: see AskType
  None, Failed,
  Body,         \* the length of a path's bytes at a commit, None where it is absent
  MaxResponse,  \* the longest body that is read, 32 MB in the code
  KeyLen,       \* what a key is charged
  Limit         \* the cap of the cache, 64 MB in the code

Key == Sha \X Path
Side == {"base", "head"}

\* A FileBlob: the first len bytes of what its key names, or Missing.
Blob == [of : Key, len : Nat \cup {None}]

\* The params of a call.  An empty previous_path has become the path already;
\* base and head are the pinned commits, None where the client sent none.
AskType == [path : Path, basePath : Path, base : Sha \cup {None}, head : Sha \cup {None}]

ASSUME CacheAssumption ==
  /\ None \notin Nat \cup Sha \cup {Failed}
  /\ Failed \notin [base : Blob, head : Blob]
  /\ None \notin AskType /\ None \notin [base : Sha, head : Sha]
  /\ Ask \subseteq AskType
  /\ Refs \subseteq [base : Sha, head : Sha]
  /\ Body \in [Key -> Nat \cup {None}]
  /\ MaxResponse \in Nat /\ KeyLen \in Nat
  /\ Limit \in Nat /\ Limit >= KeyLen + MaxResponse

Entry == [key : Key, blob : Blob, size : Nat]

VARIABLES
  pr,        \* the pull request's base and head commit, which pushes move
  tokenErr,  \* whether the client was built without a token
  asked, refs, result,  \* the requests: what they ask, at which commits, the answer
  side,      \* the goroutine reading each blob: where it is, and the blob it has
  lru,       \* the list of entries, most recently used first; its keys are the map's
  bytes      \* what the entries are charged

cache == <<lru, bytes>>
vars == <<pr, tokenErr, asked, refs, result, side, cache>>

-----------------------------------------------------------------------------
Idle == [at |-> "none", blob |-> None]

Init ==
  /\ pr \in Refs
  /\ tokenErr \in BOOLEAN
  /\ asked = [r \in Request |-> None]
  /\ refs = [r \in Request |-> None]
  /\ result = [r \in Request |-> None]
  /\ side = [r \in Request |-> [s \in Side |-> Idle]]
  /\ lru = <<>>
  /\ bytes = 0

\* What GitHub has for a key as rawBlob keeps it: no more than MaxResponse
\* bytes of it, and Missing where the path is absent.
Content(sha, path) ==
  [of |-> <<sha, path>>,
   len |-> IF Body[<<sha, path>>] = None THEN None
           ELSE IF Body[<<sha, path>>] > MaxResponse THEN MaxResponse
           ELSE Body[<<sha, path>>]]

BlobKey(r, s) ==
  IF s = "base" THEN <<refs[r].base, asked[r].basePath>>
                ELSE <<refs[r].head, asked[r].path>>

BlobSize(b) == KeyLen + (IF b.len = None THEN 0 ELSE b.len)

-----------------------------------------------------------------------------
(* The cache.                                                              *)

Has(list, k) == \E i \in 1..Len(list) : list[i].key = k
Position(list, k) == CHOOSE i \in 1..Len(list) : list[i].key = k
Held(list, k) == list[Position(list, k)]

Without(list, i) == [j \in 1..(Len(list) - 1) |-> IF j < i THEN list[j] ELSE list[j + 1]]
Others(list, k) == IF Has(list, k) THEN Without(list, Position(list, k)) ELSE list

PushFront(e, list) == [j \in 1..(Len(list) + 1) |-> IF j = 1 THEN e ELSE list[j - 1]]

\* list.MoveToFront of the entry of a key that is held.
MoveToFront(list, k) == PushFront(Held(list, k), Others(list, k))

\* What the first n entries of a list are charged together, for each n.
Charges(list) ==
  LET sum[n \in 0..Len(list)] == IF n = 0 THEN 0 ELSE sum[n - 1] + list[n].size
  IN  sum

\* The charge of the entries behind the first n.
Behind(list, n) == Charges(list)[Len(list)] - Charges(list)[n]

\* How many entries evict removes from the back before the count n is under
\* the cap, or nothing is left.
Dropped(list, n) ==
  Min({Len(list)} \cup {d \in 0..Len(list) : n - Behind(list, Len(list) - d) <= Limit})

Evict(list, n) ==
  LET kept == Len(list) - Dropped(list, n)
  IN  /\ lru' = [j \in 1..kept |-> list[j]]
      /\ bytes' = n - Behind(list, kept)

PushAlways(k, b) ==
  Evict(PushFront([key |-> k, blob |-> b, size |-> BlobSize(b)], lru), bytes + BlobSize(b))

ChargeAgain(k, b) ==
  LET e == [key |-> k, blob |-> b, size |-> BlobSize(b)]
  IN  Evict(PushFront(e, Others(lru, k)), bytes + e.size)

\* putBlob: an entry that is there is replaced and its charge corrected.
PutBlob(k, b) ==
  LET e == [key |-> k, blob |-> b, size |-> BlobSize(b)]
  IN  Evict(PushFront(e, Others(lru, k)),
            bytes + e.size - (IF Has(lru, k) THEN Held(lru, k).size ELSE 0))

\* clearAll, behind cache_clear.
ClearAll ==
  /\ lru' = <<>>
  /\ bytes' = 0
  /\ UNCHANGED <<pr, tokenErr, asked, refs, result, side>>

-----------------------------------------------------------------------------
(* A request.                                                              *)

Reads == [s \in Side |-> [at |-> "lookup", blob |-> None]]

\* getFileVersions and the first half of GetFileVersions: pinned commits
\* start both reads, and one that is missing has both resolved.
GetFileVersions(r) ==
  /\ asked[r] = None
  /\ \E a \in Ask :
       /\ asked' = [asked EXCEPT ![r] = a]
       /\ IF a.base = None \/ a.head = None
          THEN UNCHANGED <<refs, side>>
          ELSE /\ refs' = [refs EXCEPT ![r] = [base |-> a.base, head |-> a.head]]
               /\ side' = [side EXCEPT ![r] = Reads]
  /\ UNCHANGED <<pr, tokenErr, result, cache>>

Waiting(r) == asked[r] # None /\ refs[r] = None /\ result[r] = None

\* prRefs: both commits come from one answer.
PrRefs(r) ==
  /\ Waiting(r) /\ ~tokenErr
  /\ refs' = [refs EXCEPT ![r] = pr]
  /\ side' = [side EXCEPT ![r] = Reads]
  /\ UNCHANGED <<pr, tokenErr, asked, result, cache>>

\* The token, the network or a status: any error of getJSON ends the call.
PrRefsFail(r) ==
  /\ Waiting(r)
  /\ result' = [result EXCEPT ![r] = Failed]
  /\ UNCHANGED <<pr, tokenErr, asked, refs, side, cache>>

To(r, s, at, blob) == side' = [side EXCEPT ![r][s] = [at |-> at, blob |-> blob]]

\* rawBlob up to the cache's answer.
RawBlob(r, s) ==
  /\ side[r][s].at = "lookup"
  /\ IF tokenErr
     THEN To(r, s, "failed", None) /\ UNCHANGED lru
     ELSE IF Has(lru, BlobKey(r, s))
     THEN /\ To(r, s, "done", Held(lru, BlobKey(r, s)).blob)
          /\ lru' = MoveToFront(lru, BlobKey(r, s))
     ELSE To(r, s, "send", None) /\ UNCHANGED lru
  /\ UNCHANGED <<pr, tokenErr, asked, refs, result, bytes>>

FailedIsMissing(r, s) ==
  /\ side[r][s].at = "send"
  /\ \/ To(r, s, "put", Content(BlobKey(r, s)[1], BlobKey(r, s)[2]))
     \/ To(r, s, "put", [of |-> BlobKey(r, s), len |-> None])
  /\ UNCHANGED <<pr, tokenErr, asked, refs, result, cache>>

\* send: a 200 or a 404 is a blob to keep, everything else an error.
Send(r, s) ==
  /\ side[r][s].at = "send"
  /\ \/ To(r, s, "put", Content(BlobKey(r, s)[1], BlobKey(r, s)[2]))
     \/ To(r, s, "failed", None)
  /\ UNCHANGED <<pr, tokenErr, asked, refs, result, cache>>

\* rawBlob from the answer on.
Keep(r, s) ==
  /\ side[r][s].at = "put"
  /\ PutBlob(BlobKey(r, s), side[r][s].blob)
  /\ To(r, s, "done", side[r][s].blob)
  /\ UNCHANGED <<pr, tokenErr, asked, refs, result>>

\* The second half of GetFileVersions: the head's read has returned and the
\* channel has the base's; an error of either is the answer.
Join(r) ==
  /\ result[r] = None
  /\ \A s \in Side : side[r][s].at \in {"done", "failed"}
  /\ result' = [result EXCEPT ![r] =
       IF \E s \in Side : side[r][s].at = "failed" THEN Failed
       ELSE [base |-> side[r]["base"].blob, head |-> side[r]["head"].blob]]
  /\ UNCHANGED <<pr, tokenErr, asked, refs, side, cache>>

\* Somebody pushes, or the base branch moves.
Push ==
  /\ pr' \in Refs
  /\ pr' # pr
  /\ UNCHANGED <<tokenErr, asked, refs, result, side, cache>>

-----------------------------------------------------------------------------
Step(r) ==
  \/ PrRefs(r) \/ PrRefsFail(r)
  \/ \E s \in Side : RawBlob(r, s) \/ Send(r, s) \/ Keep(r, s)
  \/ Join(r)

Next ==
  \/ ClearAll
  \/ Push
  \/ \E r \in Request : GetFileVersions(r) \/ Step(r)

Spec == Init /\ [][Next]_vars

-----------------------------------------------------------------------------
At == {"none", "lookup", "send", "put", "done", "failed"}

TypeOK ==
  /\ pr \in Refs
  /\ tokenErr \in BOOLEAN
  /\ asked \in [Request -> Ask \cup {None}]
  /\ refs \in [Request -> [base : Sha, head : Sha] \cup {None}]
  /\ result \in [Request -> [base : Blob, head : Blob] \cup {Failed, None}]
  /\ side \in [Request -> [Side -> [at : At, blob : Blob \cup {None}]]]
  /\ lru \in Seq(Entry)
  /\ bytes \in Int

\* The map and the list agree although two goroutines may fetch one key at
\* once: no key has two entries, so eviction by the list empties the map.
OneEntryPerKey ==
  \A i, j \in DOMAIN lru : lru[i].key = lru[j].key => i = j

\* The byte count is what the list holds, whatever is replaced, evicted or
\* cleared while fills are in flight, and stays within the cap.  (And every
\* variable has its type.)
Charged ==
  /\ TypeOK
  /\ bytes = Behind(lru, 0)
  /\ bytes <= Limit

\* The cache cannot be noticed: every request is answered as if each blob
\* had been read from GitHub, at its own commits.
Promise == INSTANCE FileReads
ReadsThrough == Promise!Spec

=============================================================================
