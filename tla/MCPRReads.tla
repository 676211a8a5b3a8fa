----------------------------- MODULE MCPRReads -----------------------------
(* Pages of two, walks of two pages: lists of up to four are read whole.   *)
EXTENDS PRReads, TLC

MCEnv == {[token |-> TRUE, gh |-> "missing"], [token |-> FALSE, gh |-> "missing"],
          [token |-> FALSE, gh |-> "silent"], [token |-> FALSE, gh |-> "token"]}
MCFiles == <<<<"a", "b", "c">>, <<"b", "c", "d", "a">>, <<"a", "b", "c", "d", "e">>>>
MCViewed == ("a" :> "VIEWED") @@ ("b" :> "UNVIEWED") @@ ("c" :> "VIEWED") @@ ("d" :> "DISMISSED") @@ ("e" :> "VIEWED")
MCReviews == <<[id |-> 1, state |-> "APPROVED", body |-> TRUE, submitted |-> TRUE],
               [id |-> 2, state |-> "PENDING", body |-> TRUE, submitted |-> FALSE],
               [id |-> 3, state |-> "COMMENTED", body |-> FALSE, submitted |-> TRUE],
               [id |-> 4, state |-> "COMMENTED", body |-> TRUE, submitted |-> TRUE]>>
MCDraft == <<3, Nil>>
MCContexts == <<[type |-> "CheckRun", status |-> "COMPLETED", conclusion |-> "SUCCESS", state |-> ""],
                [type |-> "StatusContext", status |-> "", conclusion |-> "", state |-> "PENDING"]>>

T(id, line, comments) == [id |-> id, line |-> line, outdated |-> line = Nil, comments |-> comments]
MCThreads0 == <<T(1, 4, <<"SUBMITTED">>), T(2, Nil, <<"SUBMITTED", "PENDING">>), T(3, 1, <<"PENDING">>)>>
MCMoreThreads == {T(4, 2, <<"SUBMITTED">>), T(5, 2, <<>>)}

MCComments0 == <<1, 2, 3>>

Pull(n, user, reviewers) == [number |-> n, user |-> user, reviewers |-> reviewers]
MCPulls0 == <<Pull(1, "me", {}), Pull(2, "you", {"me"}), Pull(3, "you", {"them"})>>

Fine == [sent |-> TRUE, status |-> 200, read |-> TRUE, decodes |-> TRUE, retryAfter |-> Nil,
         exhausted |-> FALSE, reset |-> Nil, secondary |-> FALSE, error |-> ""]
MCTrouble == {[Fine EXCEPT !.sent = FALSE], [Fine EXCEPT !.read = FALSE], [Fine EXCEPT !.decodes = FALSE],
              [Fine EXCEPT !.error = "RATE_LIMITED"], [Fine EXCEPT !.error = "FORBIDDEN"],
              [Fine EXCEPT !.status = 401], [Fine EXCEPT !.status = 403],
              [Fine EXCEPT !.status = 403, !.exhausted = TRUE, !.reset = -3],
              [Fine EXCEPT !.status = 403, !.exhausted = TRUE, !.reset = 9],
              [Fine EXCEPT !.status = 403, !.secondary = TRUE],
              [Fine EXCEPT !.status = 403, !.secondary = TRUE, !.read = FALSE, !.decodes = FALSE],
              [Fine EXCEPT !.status = 429, !.retryAfter = 5], [Fine EXCEPT !.status = 403, !.retryAfter = -1],
              [Fine EXCEPT !.status = 404, !.read = FALSE], [Fine EXCEPT !.status = 502]}
=============================================================================
