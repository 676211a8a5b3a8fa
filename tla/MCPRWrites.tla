----------------------------- MODULE MCPRWrites -----------------------------
(* Two requests at once, over every method.                                *)
EXTENDS PRWrites, TLC

Symmetry == Permutations(Request)

Line == [side |-> "RIGHT", line |-> 2, startSide |-> "", startLine |-> 0]
Plain == [method |-> "post_comment", pr |-> TRUE, text |-> TRUE, reply |-> FALSE,
          anchor |-> Line, expected |-> None, review |-> None, arg |-> "",
          on |-> TRUE, delete |-> FALSE]

Lacking == {[Plain EXCEPT !.pr = FALSE], [Plain EXCEPT !.text = FALSE],
            [Plain EXCEPT !.method = "submit_review", !.arg = "COMMENT"],
            [Plain EXCEPT !.method = "merge_pr", !.arg = "fast-forward"],
            [Plain EXCEPT !.anchor.startLine = 2, !.anchor.startSide = "LEFT"],
            [Plain EXCEPT !.anchor.startSide = "LEFT"]}

Comments == {[Plain EXCEPT !.expected = "h1"],
             [Plain EXCEPT !.expected = "h1", !.review = 1],
             [Plain EXCEPT !.reply = TRUE, !.review = 1],
             [Plain EXCEPT !.anchor.startLine = 1],
             [Plain EXCEPT !.method = "post_issue_comment"],
             [Plain EXCEPT !.method = "delete_comment"],
             [Plain EXCEPT !.method = "resolve_thread", !.on = FALSE],
             [Plain EXCEPT !.method = "resolve_thread"]}

Reviews == {[Plain EXCEPT !.method = "start_review"],
            [Plain EXCEPT !.method = "submit_review", !.review = 1, !.arg = "APPROVE", !.expected = "h1"],
            [Plain EXCEPT !.method = "discard_review", !.review = 1]}

States == {[Plain EXCEPT !.method = "set_file_viewed"],
           [Plain EXCEPT !.method = "merge_pr", !.arg = "squash", !.delete = TRUE],
           [Plain EXCEPT !.method = "set_pr_state", !.arg = "ready"],
           [Plain EXCEPT !.method = "set_pr_state", !.arg = "draft"],
           [Plain EXCEPT !.method = "set_pr_state", !.arg = "closed"],
           [Plain EXCEPT !.method = "set_pr_state", !.arg = "open"]}

MCAsk == Lacking \cup Comments \cup Reviews \cup States

Open == [head |-> "h1", review |-> None, reviews |-> 0, resolved |-> FALSE, comment |-> TRUE,
         viewed |-> FALSE, state |-> "OPEN", isDraft |-> FALSE, mergeable |-> "MERGEABLE",
         status |-> "CLEAN", headRef |-> TRUE]

MCStarts == {Open, [Open EXCEPT !.review = 1, !.reviews = 1],
             [Open EXCEPT !.isDraft = TRUE], [Open EXCEPT !.status = "BLOCKED"],
             [Open EXCEPT !.head = "h2", !.state = "CLOSED"]}
=============================================================================
