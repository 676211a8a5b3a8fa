---------------------------- MODULE GitHubCalls ----------------------------
(***************************************************************************)
(* What a call of GitHub comes to: the token of auth.go, the error mapping *)
(* of errors.go, send, getJSON and graphql, and where a walk goes on.      *)
(***************************************************************************)
EXTENDS Integers, Sequences

CONSTANTS Nil

\* An HTTP exchange: whether it came about, its status, whether its body could
\* be read to the end, whether what was read of it decodes, its rate-limit
\* headers (Nil where absent or not a number, and any number where they are one;
\* reset in seconds from now), whether the message in its body is that of a
\* secondary limit, and the type of its first GraphQL error, if any.
Response == [sent : BOOLEAN, status : Nat, read : BOOLEAN, decodes : BOOLEAN,
             retryAfter : Int \cup {Nil}, exhausted : BOOLEAN, reset : Int \cup {Nil},
             secondary : BOOLEAN, error : STRING]

EnvType == [token : BOOLEAN, gh : {"missing", "silent", "loggedOut", "empty", "token"}]

-----------------------------------------------------------------------------
(* auth.go.                                                                *)

\* ResolveToken: an environment variable, or what gh auth token answers.
ResolveToken(env) ==
  IF env.token \/ env.gh = "token" THEN Nil
  ELSE IF env.gh = "missing" THEN "gh_missing" ELSE "auth"

-----------------------------------------------------------------------------
(* errors.go.                                                              *)

\* rateLimited: the hint in seconds, if the headers say it is a limit.
RateLimited(p) ==
  IF p.retryAfter # Nil THEN <<p.retryAfter>>
  ELSE IF ~p.exhausted THEN <<>>
  ELSE <<IF p.reset # Nil /\ p.reset > 0 THEN p.reset ELSE 0>>

Fault(code, hint) == [code |-> code, hint |-> hint]

\* secondaryLimit of githubMessage: a body that was cut has no message.
SecondaryLimit(p) == p.secondary /\ p.decodes

Limited(hints) == Fault("rate_limited", IF hints = <<>> THEN 0 ELSE hints[1])

MapHTTP(p) ==
  CASE p.status \in 200..299 -> Fault("ok", 0)
    [] p.status = 401 -> Fault("auth", 0)
    [] p.status = 403 -> IF RateLimited(p) # <<>> \/ SecondaryLimit(p)
                         THEN Limited(RateLimited(p))
                         ELSE Fault("auth", 0)
    [] p.status = 429 -> Limited(RateLimited(p))
    [] p.status = 404 -> Fault("not_found", 0)
    [] p.status = 409 -> Fault("conflict", 0)
    [] p.status = 422 -> Fault("bad_request", 0)
    [] OTHER          -> Fault("internal", 0)

MapGraphQL(p) ==
  CASE p.error = "" -> Fault("ok", 0)
    [] p.error = "NOT_FOUND" -> Fault("not_found", 0)
    [] p.error \in {"FORBIDDEN", "INSUFFICIENT_SCOPES"} -> Fault("auth", 0)
    [] p.error = "RATE_LIMITED" -> Fault("rate_limited", 0)
    [] p.error = "UNPROCESSABLE" -> Fault("bad_request", 0)
    [] OTHER -> Fault("internal", 0)

ReadOutranksStatus(p) ==
  IF ~p.sent \/ ~p.read THEN Fault("network", 0) ELSE MapHTTP(p)

\* send: the status outranks a body that could not be read.
Send(p) ==
  IF ~p.sent THEN Fault("network", 0)
  ELSE IF MapHTTP(p).code # "ok" THEN MapHTTP(p)
  ELSE IF ~p.read THEN Fault("network", 0) ELSE Fault("ok", 0)

\* getJSON and a page of getPaged.
GetJSON(p) ==
  IF Send(p).code # "ok" THEN Send(p)
  ELSE IF ~p.decodes THEN Fault("internal", 0) ELSE Fault("ok", 0)

\* graphql: errors are looked for in a 200 too.
Graphql(p) ==
  IF Send(p).code # "ok" THEN Send(p)
  ELSE IF ~p.decodes THEN Fault("internal", 0) ELSE MapGraphQL(p)

-----------------------------------------------------------------------------
(* Paging.  A cursor is a position in the list, 0 the empty one, which the *)
(* queries leave out, and Nil says that the walk is over.                 *)

StopsAtLastPage(prev, info) == IF info.more THEN info.end ELSE Nil

\* nextCursor: a null cursor or one that has not moved would read page one
\* again, so they stop the walk as its last page does.
NextCursor(prev, info) ==
  IF ~info.more \/ info.end \in {0, prev} THEN Nil ELSE info.end
=============================================================================
