--------------------------- MODULE SidecarServer ---------------------------
(***************************************************************************)
(* The stdio engine of internal/server: a reader that takes frames from    *)
(* stdin, a goroutine for each request, a channel of bounded capacity and  *)
(* one goroutine that writes it to stdout.  A goroutine's steps between    *)
(* two operations on what is shared are one action.                        *)
(***************************************************************************)
EXTENDS Integers, Sequences, FiniteSets

CONSTANTS
  N,        \* bound: frames the client sends
  Cap       \* the capacity of the outbound channel, 64 in the code

ASSUME ServerAssumption == N \in Nat /\ Cap \in Nat \ {0}

Frame == 1..N

\* What a frame is: a hello with our protocol or a newer one, a call of a
\* known or an unknown method, no JSON, more than maxLine bytes, or blank.
Kind == {"hello", "mismatch", "call", "unknown", "invalid", "oversized", "blank"}

Reply == [of : Frame, id : 0..N, is : {"hello", "result", "error"}]

VARIABLES
  kind,      \* the frames, in the order they are read
  pos,       \* the frames read so far
  reader,    \* Run's loop: "read", "emit", "wait", "close", "returned"
  held,      \* the reply the reader is sending, if any
  helloOK,
  worker,    \* the goroutine of each request
  result,    \* what its handler returned
  inflight,  \* the WaitGroup's count
  outbound, closed,  \* the channel
  writer,    \* the goroutine that owns stdout: "range", "encode", "done"
  encoding,  \* the reply it took
  stdout,    \* what the client was sent
  broken     \* the client's end of stdout is gone

channel == <<outbound, closed>>
vars == <<kind, pos, reader, held, helloOK, worker, result, inflight, channel,
          writer, encoding, stdout, broken>>

-----------------------------------------------------------------------------
Init ==
  /\ kind \in [Frame -> Kind]
  /\ pos = 0
  /\ reader = "read"
  /\ held = {}
  /\ helloOK = FALSE
  /\ worker = [f \in Frame |-> "none"]
  /\ result = [f \in Frame |-> {}]
  /\ inflight = 0
  /\ outbound = <<>>
  /\ closed = FALSE
  /\ writer = "range"
  /\ encoding = {}
  /\ stdout = <<>>
  /\ broken = FALSE

\* The id of the reply to a frame: one that was not parsed has none.
Id(f) == IF kind[f] \in {"invalid", "oversized"} THEN 0 ELSE f

ReplyTo(f, is) == [of |-> f, id |-> Id(f), is |-> is]

-----------------------------------------------------------------------------
(* The reader.                                                             *)

\* The reader's own reply is sent before it reads on.
Emitting(r) == held' = {r} /\ reader' = "emit"

GateLeftOpen(f) ==
  /\ kind[f] \in {"hello", "mismatch"}
  /\ helloOK' = TRUE
  /\ Emitting(ReplyTo(f, IF kind[f] = "hello" THEN "hello" ELSE "error"))
  /\ UNCHANGED <<worker, inflight>>

\* hello, which runs in the reader so that the gate has no race.
Hello(f) ==
  /\ kind[f] \in {"hello", "mismatch"}
  /\ helloOK' = (helloOK \/ kind[f] = "hello")
  /\ Emitting(ReplyTo(f, IF kind[f] = "hello" THEN "hello" ELSE "error"))
  /\ UNCHANGED <<worker, inflight>>

\* inflight.Go: counted before the goroutine runs.
Spawn(f) ==
  /\ worker' = [worker EXCEPT ![f] = "running"]
  /\ inflight' = inflight + 1
  /\ UNCHANGED <<reader, held, helloOK>>

\* dispatch: every other method waits for an accepted hello.
Dispatch(f) ==
  \/ Hello(f)
  \/ /\ kind[f] \in {"call", "unknown"}
     /\ helloOK
     /\ Spawn(f)
  \/ /\ kind[f] \in {"call", "unknown"}
     /\ ~helloOK
     /\ Emitting(ReplyTo(f, "error"))
     /\ UNCHANGED <<helloOK, worker, inflight>>

\* readFrame and what the loop does with the frame.
ReadFrame ==
  /\ reader = "read"
  /\ pos < N
  /\ pos' = pos + 1
  /\ \/ Dispatch(pos + 1)
     \/ /\ kind[pos + 1] \in {"invalid", "oversized"}
        /\ Emitting(ReplyTo(pos + 1, "error"))
        /\ UNCHANGED <<helloOK, worker, inflight>>
     \/ /\ kind[pos + 1] = "blank"
        /\ UNCHANGED <<reader, held, helloOK, worker, inflight>>
  /\ UNCHANGED <<kind, result, channel, writer, encoding, stdout, broken>>

\* emit: a send on the channel, which blocks while it is full.
Send(r) == Len(outbound) < Cap /\ outbound' = Append(outbound, r)

EmitReader ==
  /\ reader = "emit"
  /\ \E r \in held : Send(r)
  /\ held' = {}
  /\ reader' = "read"
  /\ UNCHANGED <<kind, pos, helloOK, worker, result, inflight, closed, writer,
                 encoding, stdout, broken>>

\* stdin is closed, or fails; the client may do so at any time.
Eof ==
  /\ reader = "read"
  /\ reader' = "wait"
  /\ UNCHANGED <<kind, pos, held, helloOK, worker, result, inflight, channel,
                 writer, encoding, stdout, broken>>

\* inflight.Wait returns.
AllDone == inflight = 0

CloseOutbound ==
  /\ reader = "wait"
  /\ AllDone
  /\ closed' = TRUE
  /\ reader' = "close"
  /\ UNCHANGED <<kind, pos, held, helloOK, worker, result, inflight, outbound,
                 writer, encoding, stdout, broken>>

\* writerDone.Wait returns, and Run with it: the process exits.
Return ==
  /\ reader = "close"
  /\ writer = "done"
  /\ reader' = "returned"
  /\ UNCHANGED <<kind, pos, held, helloOK, worker, result, inflight, channel,
                 writer, encoding, stdout, broken>>

-----------------------------------------------------------------------------
(* The goroutine of a request.                                             *)

PanicLost(f) ==
  /\ worker[f] = "running"
  /\ \/ /\ worker' = [worker EXCEPT ![f] = "emit"]
        /\ result' = [result EXCEPT ![f] = {ReplyTo(f, "result")}]
        /\ UNCHANGED inflight
     \/ /\ worker' = [worker EXCEPT ![f] = "done"]
        /\ inflight' = inflight - 1
        /\ UNCHANGED result
  /\ UNCHANGED <<kind, pos, reader, held, helloOK, channel, writer, encoding,
                 stdout, broken>>

\* run: the handler's result, its error, or the error a panic is turned into;
\* a method that is not registered is an error.
RunHandler(f) ==
  /\ worker[f] = "running"
  /\ worker' = [worker EXCEPT ![f] = "emit"]
  /\ \E is \in {"result", "error"} :
       /\ kind[f] = "unknown" => is = "error"
       /\ result' = [result EXCEPT ![f] = {ReplyTo(f, is)}]
  /\ UNCHANGED <<kind, pos, reader, held, helloOK, inflight, channel, writer,
                 encoding, stdout, broken>>

EmitWorker(f) ==
  /\ worker[f] = "emit"
  /\ \E r \in result[f] : Send(r)
  /\ worker' = [worker EXCEPT ![f] = "done"]
  /\ inflight' = inflight - 1
  /\ UNCHANGED <<kind, pos, reader, held, helloOK, result, closed, writer,
                 encoding, stdout, broken>>

-----------------------------------------------------------------------------
(* The writer.                                                             *)

\* The writer's range over the channel: the next reply, or the end of it.
Receive ==
  /\ writer = "range"
  /\ \/ /\ outbound # <<>>
        /\ encoding' = {Head(outbound)}
        /\ outbound' = Tail(outbound)
        /\ writer' = "encode"
     \/ /\ outbound = <<>> /\ closed
        /\ writer' = "done"
        /\ UNCHANGED <<outbound, encoding>>
  /\ UNCHANGED <<kind, pos, reader, held, helloOK, worker, result, inflight,
                 closed, stdout, broken>>

\* enc.Encode: on the wire, or logged when the client is gone.
Encode ==
  /\ writer = "encode"
  /\ \E r \in encoding : stdout' = IF broken THEN stdout ELSE Append(stdout, r)
  /\ encoding' = {}
  /\ writer' = "range"
  /\ UNCHANGED <<kind, pos, reader, held, helloOK, worker, result, inflight,
                 channel, broken>>

\* The client closes its end.
Break ==
  /\ ~broken
  /\ broken' = TRUE
  /\ UNCHANGED <<kind, pos, reader, held, helloOK, worker, result, inflight,
                 channel, writer, encoding, stdout>>

-----------------------------------------------------------------------------
Next ==
  \/ ReadFrame \/ EmitReader \/ Eof \/ CloseOutbound \/ Return
  \/ \E f \in Frame : RunHandler(f) \/ EmitWorker(f)
  \/ Receive \/ Encode \/ Break

\* Goroutines are scheduled, GitHub calls end (the HTTP client has a timeout)
\* and the client reads what it is sent; it need not send or close anything.
Fairness ==
  /\ WF_vars(EmitReader) /\ WF_vars(CloseOutbound) /\ WF_vars(Return)
  /\ \A f \in Frame : WF_vars(RunHandler(f)) /\ WF_vars(EmitWorker(f))
  /\ WF_vars(Receive) /\ WF_vars(Encode)

Spec == Init /\ [][Next]_vars
FairSpec == Spec /\ Fairness

-----------------------------------------------------------------------------
\* Every variable has its type: the frames, the goroutines and the channel.
TypeOK ==
  /\ kind \in [Frame -> Kind]
  /\ pos \in 0..N
  /\ reader \in {"read", "emit", "wait", "close", "returned"}
  /\ held \in SUBSET Reply
  /\ helloOK \in BOOLEAN
  /\ worker \in [Frame -> {"none", "running", "emit", "done"}]
  /\ result \in [Frame -> SUBSET Reply]
  /\ inflight \in Nat
  /\ outbound \in Seq(Reply) /\ Len(outbound) <= Cap
  /\ closed \in BOOLEAN
  /\ writer \in {"range", "encode", "done"}
  /\ encoding \in SUBSET Reply
  /\ stdout \in Seq(Reply)
  /\ broken \in BOOLEAN

Asked == {f \in Frame : f <= pos /\ kind[f] # "blank"}

\* The engine implements Replies: in every order of goroutines, and with the
\* channel full, each frame read is answered at most once under its own id, and
\* the acceptance of hello is on the wire before any result.
Promise == INSTANCE Replies WITH
  id <- [f \in Frame |-> IF kind[f] \in {"invalid", "oversized"} THEN 0 ELSE f],
  asked <- Asked, replies <- stdout
AnswersFrames == Promise!Spec

\* "blocks until the input is drained and every in-flight handler has
\* completed" (server.go:43): when Run returns, every frame that was read has
\* its reply on stdout, unless the client closed it.
DrainedAtExit ==
  reader = "returned" =>
    broken \/ \A f \in Asked : \E i \in DOMAIN stdout : stdout[i].of = f

\* No goroutine is left that could still send when the channel is closed: a
\* send on a closed channel would panic outside any recover.
NoSendOnClosed ==
  closed => held = {} /\ \A f \in Frame : worker[f] \in {"none", "done"}

\* Every frame read is answered although the channel is bounded, also when the
\* client never closes stdin.
FramesAnswered ==
  \A f \in Frame :
    f \in Asked ~> (broken \/ \E i \in DOMAIN stdout : stdout[i].of = f)

=============================================================================
