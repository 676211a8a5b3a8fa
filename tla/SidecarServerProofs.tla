------------------------ MODULE SidecarServerProofs ------------------------
(***************************************************************************)
(* Proofs about SidecarServer, for any number of frames and any capacity   *)
(* of the channel: where a reply is between its frame and stdout.  Then    *)
(* about GitRefresh, for any number of changes, edits, keys and refreshes: *)
(* where a change is between the repository and the screen.                *)
(***************************************************************************)
EXTENDS SidecarServer, GitRefresh, FiniteSetTheorems, SequenceTheorems, TLAPS

\* The goroutines that have not sent their reply.
Active == {f \in Frame : worker[f] \in {"running", "emit"}}

At(s, f) == \E i \in DOMAIN s : s[i].of = f
In(S, f) == \E r \in S : r.of = f

\* Each goroutine holds the one reply its state calls for.
Shape ==
  /\ reader = "emit" => \E r \in Reply : held = {r}
  /\ reader # "emit" => held = {}
  /\ writer = "encode" => \E r \in Reply : encoding = {r}
  /\ writer # "encode" => encoding = {}
  /\ \A f \in Frame : worker[f] = "emit" =>
       \E r \in Reply : result[f] = {r} /\ r.of = f /\ r.id = Id(f)
  /\ \A f \in Frame : f > pos => worker[f] = "none"
  /\ \A f \in Frame : worker[f] # "none" => kind[f] # "blank"

\* The WaitGroup counts the goroutines that will still send, and the channel is
\* closed when there are none.
Counted ==
  /\ inflight = Cardinality(Active)
  /\ closed <=> reader \in {"close", "returned"}
  /\ closed => Active = {}
  /\ writer = "done" => closed /\ outbound = <<>>
  /\ reader = "returned" => writer = "done"

\* A reply on its way is for a frame that was read, under that frame's id.
For(r) == r.id = Id(r.of) /\ r.of <= pos /\ kind[r.of] # "blank"
Sound ==
  /\ \A r \in held \cup encoding : For(r)
  /\ \A i \in DOMAIN outbound : For(outbound[i])
  /\ \A i \in DOMAIN stdout : stdout[i].of <= pos

\* The reply to a frame is in one place at a time.
Once ==
  /\ \A i, j \in DOMAIN outbound : outbound[i].of = outbound[j].of => i = j
  /\ \A f \in Frame :
       /\ In(held, f) => /\ f \notin Active /\ ~At(outbound, f)
                         /\ ~In(encoding, f) /\ ~At(stdout, f)
       /\ f \in Active => ~At(outbound, f) /\ ~In(encoding, f) /\ ~At(stdout, f)
       /\ At(outbound, f) => ~In(encoding, f) /\ ~At(stdout, f)
       /\ In(encoding, f) => ~At(stdout, f)

\* ... and until stdout breaks, it is somewhere.
Located ==
  ~broken => \A f \in Asked : \/ In(held, f) \/ f \in Active
                              \/ At(outbound, f) \/ In(encoding, f)
                              \/ At(stdout, f)

\* The accepted hello is ahead of every result.
HelloIn(s) == \E i \in DOMAIN s : s[i].is = "hello"
HelloSent == HelloIn(stdout) \/ \E r \in encoding : r.is = "hello"
HelloAhead == HelloSent \/ HelloIn(outbound)

HelloFirst ==
  ~broken =>
    /\ helloOK => HelloAhead \/ \E r \in held : r.is = "hello"
    /\ Active # {} => HelloAhead
    /\ \A r \in held : r.is # "result"
    /\ \A i \in DOMAIN outbound : outbound[i].is = "result" =>
         HelloSent \/ \E j \in 1..(i - 1) : outbound[j].is = "hello"
    /\ \A r \in encoding : r.is = "result" => HelloIn(stdout)

ServerInv ==
  TypeOK /\ Shape /\ Counted /\ Sound /\ Once /\ Located /\ HelloFirst

-----------------------------------------------------------------------------
(* A frame that is read is answered by the reader, handed to a goroutine,  *)
(* or blank.                                                               *)

Answers(f) ==
  /\ kind[f] # "blank"
  /\ reader' = "emit"
  /\ \E is \in {"hello", "error"} :
       /\ held' = {ReplyTo(f, is)}
       /\ helloOK' => helloOK \/ is = "hello"
  /\ helloOK' \in BOOLEAN
  /\ UNCHANGED <<worker, inflight>>

Spawns(f) ==
  /\ kind[f] # "blank"
  /\ helloOK
  /\ Spawn(f)

Skips(f) ==
  kind[f] = "blank" /\ UNCHANGED <<reader, held, helloOK, worker, inflight>>

LEMMA FrameType == \A f \in Frame : f \in Nat /\ f >= 1
BY ServerAssumption DEF Frame

LEMMA ReplyToType ==
  ASSUME TypeOK, NEW f \in Frame, NEW is \in {"hello", "result", "error"}
  PROVE  ReplyTo(f, is) \in Reply
<1>1. Id(f) \in 0..N
  BY ServerAssumption DEF Id, Frame
<1> QED
  BY <1>1 DEF ReplyTo, Reply

LEMMA AnswersHeld ==
  ASSUME TypeOK, NEW f \in Frame, Answers(f)
  PROVE  \E r \in Reply : /\ held' = {r} /\ r.of = f /\ r.id = Id(f)
                          /\ r.is # "result"
                          /\ helloOK' => helloOK \/ r.is = "hello"
<1>1. PICK is \in {"hello", "error"} :
        held' = {ReplyTo(f, is)} /\ (helloOK' => helloOK \/ is = "hello")
  BY DEF Answers
<1>2. ReplyTo(f, is) \in Reply
  BY ReplyToType
<1>3. /\ ReplyTo(f, is).of = f /\ ReplyTo(f, is).id = Id(f)
      /\ ReplyTo(f, is).is = is
  BY DEF ReplyTo
<1> QED
  BY <1>1, <1>2, <1>3

LEMMA ReadFrameCases ==
  ASSUME TypeOK, ReadFrame
  PROVE  /\ reader = "read"
         /\ pos + 1 \in Frame
         /\ pos' = pos + 1
         /\ UNCHANGED <<kind, result, channel, writer, encoding, stdout, broken>>
         /\ Answers(pos + 1) \/ Spawns(pos + 1) \/ Skips(pos + 1)
<1> DEFINE f == pos + 1
<1>1. /\ reader = "read" /\ pos' = pos + 1 /\ f \in Frame
      /\ UNCHANGED <<kind, result, channel, writer, encoding, stdout, broken>>
  BY ServerAssumption DEF ReadFrame, TypeOK, Frame
<1>2. CASE Hello(f)
  <2>1. \E is \in {"hello", "error"} : held' = {ReplyTo(f, is)} /\ (helloOK' => helloOK \/ is = "hello")
    BY <1>2 DEF Hello, Emitting
  <2> QED
    BY <1>1, <1>2, <2>1 DEF Hello, Emitting, Answers, TypeOK
<1>3. CASE kind[f] \in {"call", "unknown"} /\ helloOK /\ Spawn(f)
  BY <1>1, <1>3 DEF Spawns
<1>4. CASE /\ kind[f] \in {"call", "unknown", "invalid", "oversized"}
           /\ Emitting(ReplyTo(f, "error"))
           /\ UNCHANGED <<helloOK, worker, inflight>>
  BY <1>1, <1>4 DEF Emitting, Answers, TypeOK
<1>5. CASE kind[f] = "blank" /\ UNCHANGED <<reader, held, helloOK, worker, inflight>>
  BY <1>1, <1>5 DEF Skips
<1> QED
  BY <1>1, <1>2, <1>3, <1>4, <1>5 DEF ReadFrame, Dispatch

-----------------------------------------------------------------------------
(* The goroutines and their count.                                         *)

LEMMA ActiveFinite == IsFiniteSet(Active) /\ IsFiniteSet(Active')
<1>1. IsFiniteSet(Frame)
  BY ServerAssumption, FS_Interval DEF Frame
<1>2. IsFiniteSet(Active)
  BY <1>1, FS_Subset DEF Active
<1>3. IsFiniteSet(Active')
  BY <1>1, FS_Subset DEF Active
<1> QED
  BY <1>2, <1>3

LEMMA ActiveSame ==
  ASSUME UNCHANGED worker
  PROVE  Active' = Active
BY DEF Active

LEMMA ActiveSpawn ==
  ASSUME TypeOK, Shape, ReadFrame, Spawns(pos + 1)
  PROVE  /\ pos + 1 \notin Active
         /\ Active' = Active \cup {pos + 1}
         /\ Cardinality(Active') = Cardinality(Active) + 1
<1> DEFINE f == pos + 1
<1>0. f \in Frame
  BY ReadFrameCases
<1>1. f \notin Active
  BY <1>0 DEF Shape, Active, TypeOK
<1>2. Active' = Active \cup {f}
  BY <1>0 DEF Spawns, Spawn, Active, TypeOK
<1> QED
  BY <1>1, <1>2, ActiveFinite, FS_AddElement

LEMMA ActiveRun ==
  ASSUME TypeOK, NEW f \in Frame, RunHandler(f)
  PROVE  Active' = Active
BY DEF RunHandler, Active, TypeOK

LEMMA ActiveEmit ==
  ASSUME TypeOK, NEW f \in Frame, EmitWorker(f)
  PROVE  /\ f \in Active
         /\ Active' = Active \ {f}
         /\ Cardinality(Active') = Cardinality(Active) - 1
<1>1. f \in Active
  BY DEF EmitWorker, Active
<1>2. Active' = Active \ {f}
  BY DEF EmitWorker, Active, TypeOK
<1> QED
  BY <1>1, <1>2, ActiveFinite, FS_RemoveElement

LEMMA CountedStep ==
  ASSUME TypeOK, Shape, Counted, [Next]_vars
  PROVE  Counted'
<1> USE DEF Counted
<1>1. CASE ReadFrame
  <2>1. /\ reader = "read"
        /\ UNCHANGED <<channel, writer>>
        /\ Answers(pos + 1) \/ Spawns(pos + 1) \/ Skips(pos + 1)
    BY <1>1, ReadFrameCases
  <2>2. CASE Answers(pos + 1)
    BY <2>1, <2>2, ActiveSame DEF Answers, channel
  <2>3. CASE Spawns(pos + 1)
    BY <1>1, <2>1, <2>3, ActiveSpawn DEF Spawns, Spawn, channel
  <2>4. CASE Skips(pos + 1)
    BY <2>1, <2>4, ActiveSame DEF Skips, channel
  <2> QED
    BY <2>1, <2>2, <2>3, <2>4
<1>2. CASE EmitReader
  BY <1>2, ActiveSame DEF EmitReader, Send
<1>3. CASE Eof
  BY <1>3, ActiveSame DEF Eof, channel
<1>4. CASE CloseOutbound
  <2>1. Active = {}
    BY <1>4, ActiveFinite, FS_EmptySet DEF CloseOutbound, AllDone
  <2> QED
    BY <1>4, <2>1, ActiveSame DEF CloseOutbound
<1>5. CASE Return
  BY <1>5, ActiveSame DEF Return, channel
<1>6. ASSUME NEW f \in Frame, RunHandler(f) PROVE Counted'
  BY <1>6, ActiveRun DEF RunHandler, channel
<1>7. ASSUME NEW f \in Frame, EmitWorker(f) PROVE Counted'
  <2>1. ~closed
    BY <1>7, ActiveEmit
  <2> QED
    BY <1>7, <2>1, ActiveEmit DEF EmitWorker
<1>8. CASE Receive
  BY <1>8, ActiveSame DEF Receive
<1>9. CASE Encode
  BY <1>9, ActiveSame DEF Encode, channel
<1>10. CASE Break
  BY <1>10, ActiveSame DEF Break, channel
<1>11. CASE UNCHANGED vars
  BY <1>11, ActiveSame DEF vars, channel
<1> QED
  BY <1>1, <1>2, <1>3, <1>4, <1>5, <1>6, <1>7, <1>8, <1>9, <1>10, <1>11 DEF Next

-----------------------------------------------------------------------------
(* Types.                                                                  *)

LEMMA TypeInit == Init => TypeOK
<1> SUFFICES ASSUME Init PROVE TypeOK
  OBVIOUS
<1>1. outbound \in Seq(Reply) /\ stdout \in Seq(Reply)
  BY DEF Init
<1>2. Len(outbound) <= Cap
  BY ServerAssumption DEF Init
<1>3. worker \in [Frame -> {"none", "running", "emit", "done"}]
  BY DEF Init
<1>4. result \in [Frame -> SUBSET Reply]
  BY DEF Init
<1>5. pos \in 0..N /\ inflight \in Nat
  BY ServerAssumption DEF Init
<1>6. held \in SUBSET Reply /\ encoding \in SUBSET Reply
  BY DEF Init
<1> QED
  BY <1>1, <1>2, <1>3, <1>4, <1>5, <1>6 DEF Init, TypeOK

LEMMA SendType ==
  ASSUME TypeOK, NEW r \in Reply, Send(r)
  PROVE  outbound' \in Seq(Reply) /\ Len(outbound') <= Cap
BY ServerAssumption DEF TypeOK, Send

LEMMA TypeStep ==
  ASSUME TypeOK, Shape, Counted, [Next]_vars
  PROVE  TypeOK'
<1>0. inflight' \in Nat
  BY ActiveFinite, CountedStep, FS_CardinalityType DEF Counted
<1>1. CASE ReadFrame
  <2> DEFINE f == pos + 1
  <2>0. /\ f \in Frame /\ pos' = f
        /\ UNCHANGED <<kind, result, channel, writer, encoding, stdout, broken>>
        /\ Answers(f) \/ Spawns(f) \/ Skips(f)
    BY <1>1, ReadFrameCases
  <2>1. pos' \in 0..N
    BY <2>0, ServerAssumption DEF Frame
  <2>2. CASE Answers(f)
    <3>1. held' \in SUBSET Reply
      BY <2>0, <2>2, ReplyToType DEF Answers
    <3> QED
      BY <2>0, <2>1, <2>2, <3>1 DEF Answers, TypeOK, channel
  <2>3. CASE Spawns(f)
    BY <1>0, <2>0, <2>1, <2>3 DEF Spawns, Spawn, TypeOK, channel
  <2>4. CASE Skips(f)
    BY <2>0, <2>1, <2>4 DEF Skips, TypeOK, channel
  <2> QED
    BY <2>0, <2>2, <2>3, <2>4
<1>2. CASE EmitReader
  <2>1. PICK r \in Reply : Send(r)
    BY <1>2 DEF EmitReader, TypeOK
  <2> QED
    BY <1>2, <2>1, SendType DEF EmitReader, TypeOK
<1>3. CASE Eof
  BY <1>3 DEF Eof, channel, TypeOK
<1>4. CASE CloseOutbound
  BY <1>4 DEF CloseOutbound, TypeOK
<1>5. CASE Return
  BY <1>5 DEF Return, channel, TypeOK
<1>6. ASSUME NEW f \in Frame, RunHandler(f) PROVE TypeOK'
  <2>1. PICK is \in {"result", "error"} :
          result' = [result EXCEPT ![f] = {ReplyTo(f, is)}]
    BY <1>6 DEF RunHandler
  <2>2. result' \in [Frame -> SUBSET Reply]
    BY <2>1, ReplyToType DEF TypeOK
  <2> QED
    BY <1>6, <2>2 DEF RunHandler, channel, TypeOK
<1>7. ASSUME NEW f \in Frame, EmitWorker(f) PROVE TypeOK'
  <2>1. PICK r \in Reply : Send(r)
    BY <1>7 DEF EmitWorker, TypeOK
  <2> QED
    BY <1>0, <1>7, <2>1, SendType DEF EmitWorker, TypeOK
<1>8. CASE Receive
  <2>1. CASE outbound # <<>>
    <3>1. Head(outbound) \in Reply /\ Tail(outbound) \in Seq(Reply)
          /\ Len(Tail(outbound)) = Len(outbound) - 1 /\ Len(outbound) \in Nat
      BY <2>1 DEF TypeOK
    <3>2. Len(Tail(outbound)) <= Cap
      BY <3>1, ServerAssumption DEF TypeOK
    <3> QED
      BY <1>8, <2>1, <3>1, <3>2 DEF Receive, TypeOK
  <2>2. CASE outbound = <<>>
    BY <1>8, <2>2 DEF Receive, TypeOK
  <2> QED
    BY <2>1, <2>2
<1>9. CASE Encode
  <2>1. PICK r \in Reply : stdout' = IF broken THEN stdout ELSE Append(stdout, r)
    BY <1>9 DEF Encode, TypeOK
  <2>2. stdout' \in Seq(Reply)
    BY <2>1 DEF TypeOK
  <2> QED
    BY <1>9, <2>2 DEF Encode, channel, TypeOK
<1>10. CASE Break
  BY <1>10 DEF Break, channel, TypeOK
<1>11. CASE UNCHANGED vars
  BY <1>11 DEF vars, channel, TypeOK
<1> QED
  BY <1>1, <1>2, <1>3, <1>4, <1>5, <1>6, <1>7, <1>8, <1>9, <1>10, <1>11 DEF Next

-----------------------------------------------------------------------------
(* The replies the goroutines hold.                                        *)

LEMMA ShapeStep ==
  ASSUME TypeOK, Shape, [Next]_vars
  PROVE  Shape'
<1>1. CASE ReadFrame
  <2> DEFINE f == pos + 1
  <2>0. /\ reader = "read" /\ f \in Frame /\ pos' = f
        /\ UNCHANGED <<kind, result, channel, writer, encoding, stdout, broken>>
        /\ Answers(f) \/ Spawns(f) \/ Skips(f)
    BY <1>1, ReadFrameCases
  <2>1. \A g \in Frame : Id(g)' = Id(g)
    BY <2>0 DEF Id
  <2>2. \A g \in Frame : g > f => g > pos
    BY <2>0, FrameType DEF TypeOK
  <2>3. CASE Answers(f)
    <3>1. \E r \in Reply : held' = {r}
      BY <2>0, <2>3, ReplyToType DEF Answers
    <3> QED
      BY <2>0, <2>1, <2>2, <2>3, <3>1 DEF Answers, Shape
  <2>4. CASE Spawns(f)
    <3>1. ~(f > f)
      BY <2>0, FrameType
    <3>2. /\ \A g \in Frame : g # f => worker'[g] = worker[g]
          /\ worker'[f] = "running"
      BY <2>0, <2>4 DEF Spawns, Spawn, TypeOK
    <3> QED
      BY <2>0, <2>1, <2>2, <2>4, <3>1, <3>2 DEF Spawns, Spawn, Shape
  <2>5. CASE Skips(f)
    BY <2>0, <2>1, <2>2, <2>5 DEF Skips, Shape
  <2> QED
    BY <2>0, <2>3, <2>4, <2>5
<1>2. CASE EmitReader
  BY <1>2 DEF EmitReader, Shape, Id
<1>3. CASE Eof
  BY <1>3 DEF Eof, Shape, Id
<1>4. CASE CloseOutbound
  BY <1>4 DEF CloseOutbound, Shape, Id
<1>5. CASE Return
  BY <1>5 DEF Return, Shape, Id
<1>6. ASSUME NEW f \in Frame, RunHandler(f) PROVE Shape'
  <2>1. PICK is \in {"result", "error"} :
          result' = [result EXCEPT ![f] = {ReplyTo(f, is)}]
    BY <1>6 DEF RunHandler
  <2>2. /\ result'[f] = {ReplyTo(f, is)}
        /\ \A g \in Frame : g # f => result'[g] = result[g] /\ worker'[g] = worker[g]
        /\ worker[f] = "running" /\ worker'[f] = "emit"
    BY <1>6, <2>1 DEF RunHandler, TypeOK
  <2>3. /\ ReplyTo(f, is) \in Reply /\ ReplyTo(f, is).of = f
        /\ ReplyTo(f, is).id = Id(f)
    BY ReplyToType DEF ReplyTo
  <2>4. UNCHANGED <<kind, pos, reader, held, writer, encoding>>
    BY <1>6 DEF RunHandler
  <2>5. \A g \in Frame : Id(g)' = Id(g)
    BY <2>4 DEF Id
  <2> QED
    BY <2>2, <2>3, <2>4, <2>5 DEF Shape
<1>7. ASSUME NEW f \in Frame, EmitWorker(f) PROVE Shape'
  <2>1. /\ UNCHANGED <<kind, pos, reader, held, writer, encoding, result>>
        /\ worker[f] = "emit" /\ worker'[f] = "done"
        /\ \A g \in Frame : g # f => worker'[g] = worker[g]
    BY <1>7 DEF EmitWorker, TypeOK
  <2>2. \A g \in Frame : Id(g)' = Id(g)
    BY <2>1 DEF Id
  <2> QED
    BY <2>1, <2>2 DEF Shape
<1>8. CASE Receive
  <2>1. outbound # <<>> => Head(outbound) \in Reply
    BY DEF TypeOK
  <2> QED
    BY <1>8, <2>1 DEF Receive, Shape, Id
<1>9. CASE Encode
  BY <1>9 DEF Encode, Shape, Id
<1>10. CASE Break
  BY <1>10 DEF Break, Shape, Id
<1>11. CASE UNCHANGED vars
  BY <1>11 DEF vars, Shape, Id
<1> QED
  BY <1>1, <1>2, <1>3, <1>4, <1>5, <1>6, <1>7, <1>8, <1>9, <1>10, <1>11 DEF Next

-----------------------------------------------------------------------------
(* The channel and stdout.                                                 *)

LEMMA SendAt ==
  ASSUME TypeOK, NEW r \in Reply, Send(r)
  PROVE  /\ DOMAIN outbound = 1..Len(outbound)
         /\ DOMAIN outbound' = 1..(Len(outbound) + 1)
         /\ Len(outbound) \in Nat
         /\ \A i \in DOMAIN outbound : outbound'[i] = outbound[i]
         /\ outbound'[Len(outbound) + 1] = r
         /\ \A f : At(outbound', f) <=> At(outbound, f) \/ f = r.of
<1>1. /\ DOMAIN outbound = 1..Len(outbound)
      /\ DOMAIN outbound' = 1..(Len(outbound) + 1)
      /\ Len(outbound) \in Nat
      /\ \A i \in DOMAIN outbound : outbound'[i] = outbound[i]
      /\ outbound'[Len(outbound) + 1] = r
  BY DEF TypeOK, Send
<1>2. \A f : At(outbound', f) => At(outbound, f) \/ f = r.of
  BY <1>1 DEF At
<1>3. \A f : At(outbound, f) \/ f = r.of => At(outbound', f)
  BY <1>1 DEF At
<1> QED
  BY <1>1, <1>2, <1>3

LEMMA ReceiveAt ==
  ASSUME TypeOK, outbound # <<>>, outbound' = Tail(outbound)
  PROVE  /\ DOMAIN outbound = 1..Len(outbound)
         /\ DOMAIN outbound' = 1..(Len(outbound) - 1)
         /\ Len(outbound) \in Nat \ {0}
         /\ Head(outbound) = outbound[1]
         /\ \A i \in DOMAIN outbound' : outbound'[i] = outbound[i + 1]
         /\ \A f : At(outbound, f) <=> At(outbound', f) \/ f = Head(outbound).of
<1>1. /\ DOMAIN outbound = 1..Len(outbound)
      /\ DOMAIN outbound' = 1..(Len(outbound) - 1)
      /\ Len(outbound) \in Nat \ {0}
      /\ Head(outbound) = outbound[1]
      /\ \A i \in DOMAIN outbound' : outbound'[i] = outbound[i + 1]
  BY DEF TypeOK
<1>2. \A f : At(outbound, f) => At(outbound', f) \/ f = Head(outbound).of
  <2> SUFFICES ASSUME NEW i \in DOMAIN outbound, i # 1
               PROVE  \E j \in DOMAIN outbound' : outbound'[j] = outbound[i]
    BY <1>1 DEF At
  <2>1. i - 1 \in DOMAIN outbound' /\ (i - 1) + 1 = i
    BY <1>1
  <2> QED
    BY <1>1, <2>1
<1>3. \A f : At(outbound', f) \/ f = Head(outbound).of => At(outbound, f)
  BY <1>1 DEF At
<1> QED
  BY <1>1, <1>2, <1>3

LEMMA EncodeAt ==
  ASSUME TypeOK, NEW r \in Reply, stdout' = Append(stdout, r)
  PROVE  /\ DOMAIN stdout = 1..Len(stdout)
         /\ DOMAIN stdout' = 1..(Len(stdout) + 1)
         /\ Len(stdout) \in Nat
         /\ \A i \in DOMAIN stdout : stdout'[i] = stdout[i]
         /\ stdout'[Len(stdout) + 1] = r
         /\ \A f : At(stdout', f) <=> At(stdout, f) \/ f = r.of
<1>1. /\ DOMAIN stdout = 1..Len(stdout)
      /\ DOMAIN stdout' = 1..(Len(stdout) + 1)
      /\ Len(stdout) \in Nat
      /\ \A i \in DOMAIN stdout : stdout'[i] = stdout[i]
      /\ stdout'[Len(stdout) + 1] = r
  BY DEF TypeOK
<1>2. \A f : At(stdout', f) => At(stdout, f) \/ f = r.of
  BY <1>1 DEF At
<1>3. \A f : At(stdout, f) \/ f = r.of => At(stdout', f)
  BY <1>1 DEF At
<1> QED
  BY <1>1, <1>2, <1>3

-----------------------------------------------------------------------------
(* Each reply is for a frame that was read.                                *)

LEMMA SoundStep ==
  ASSUME TypeOK, Shape, Sound, [Next]_vars
  PROVE  Sound'
<1>0. /\ \A i \in DOMAIN outbound : outbound[i] \in Reply
      /\ \A i \in DOMAIN stdout : stdout[i] \in Reply
      /\ held \subseteq Reply /\ encoding \subseteq Reply
      /\ \A r \in Reply : r.of \in Nat
      /\ pos \in Nat
  <2>1. \A i \in DOMAIN outbound : outbound[i] \in Reply
    BY DEF TypeOK
  <2>2. \A i \in DOMAIN stdout : stdout[i] \in Reply
    BY DEF TypeOK
  <2>3. \A r \in Reply : r.of \in Nat
    BY FrameType DEF Reply
  <2> QED
    BY <2>1, <2>2, <2>3 DEF TypeOK
<1>1. CASE ReadFrame
  <2> DEFINE f == pos + 1
  <2>0. /\ reader = "read" /\ f \in Frame /\ pos' = f
        /\ UNCHANGED <<kind, outbound, encoding, stdout>>
        /\ Answers(f) \/ Spawns(f) \/ Skips(f)
    BY <1>1, ReadFrameCases DEF channel
  <2>1. \A r \in Reply : For(r) => For(r)'
    BY <1>0, <2>0 DEF For, Id
  <2>2. \A r \in held' : For(r)'
    <3>1. CASE Answers(f)
      <4>1. PICK r : held' = {r} /\ r.of = f /\ r.id = Id(f)
        BY <2>0, <3>1, AnswersHeld
      <4>2. f <= f
        BY <2>0, FrameType
      <4>3. For(r)'
        BY <2>0, <3>1, <4>1, <4>2 DEF For, Id, Answers
      <4> QED
        BY <4>1, <4>3
    <3>2. CASE held' = held
      BY <1>0, <2>1, <3>2 DEF Sound
    <3> QED
      BY <2>0, <3>1, <3>2 DEF Spawns, Spawn, Skips
  <2>3. \A i \in DOMAIN stdout : stdout[i].of <= pos'
    BY <1>0, <2>0 DEF Sound
  <2> QED
    BY <1>0, <2>0, <2>1, <2>2, <2>3 DEF Sound
<1>2. CASE EmitReader
  <2>1. PICK r \in held : Send(r)
    BY <1>2 DEF EmitReader
  <2>2. r \in Reply /\ For(r)
    BY <1>0, <2>1 DEF Sound
  <2>3. \A i \in DOMAIN outbound' : For(outbound'[i])
    BY <2>1, <2>2, SendAt DEF Sound
  <2> QED
    BY <1>2, <2>3 DEF EmitReader, Sound, For, Id
<1>3. CASE Eof
  BY <1>3 DEF Eof, channel, Sound, For, Id
<1>4. CASE CloseOutbound
  BY <1>4 DEF CloseOutbound, Sound, For, Id
<1>5. CASE Return
  BY <1>5 DEF Return, channel, Sound, For, Id
<1>6. ASSUME NEW f \in Frame, RunHandler(f) PROVE Sound'
  BY <1>6 DEF RunHandler, channel, Sound, For, Id
<1>7. ASSUME NEW f \in Frame, EmitWorker(f) PROVE Sound'
  <2>1. PICK r \in Reply : Send(r) /\ r.of = f /\ r.id = Id(f)
    BY <1>7 DEF EmitWorker, Shape
  <2>2. For(r)
    BY <1>0, <1>7, <2>1, FrameType DEF For, EmitWorker, Shape
  <2>3. \A i \in DOMAIN outbound' : For(outbound'[i])
    BY <2>1, <2>2, SendAt DEF Sound
  <2> QED
    BY <1>7, <2>3 DEF EmitWorker, Sound, For, Id
<1>8. CASE Receive
  <2>1. CASE outbound # <<>>
    <3>1. outbound' = Tail(outbound) /\ encoding' = {Head(outbound)}
      BY <1>8, <2>1 DEF Receive
    <3>2. /\ \A i \in DOMAIN outbound' : For(outbound'[i])
          /\ For(Head(outbound))
      BY <2>1, <3>1, ReceiveAt DEF Sound
    <3> QED
      BY <1>8, <3>1, <3>2 DEF Receive, Sound, For, Id
  <2>2. CASE outbound = <<>>
    BY <1>8, <2>2 DEF Receive, Sound, For, Id
  <2> QED
    BY <2>1, <2>2
<1>9. CASE Encode
  <2>1. PICK r \in encoding : stdout' = IF broken THEN stdout ELSE Append(stdout, r)
    BY <1>9 DEF Encode
  <2>2. r \in Reply /\ r.of <= pos
    BY <1>0, <2>1 DEF Sound, For
  <2>3. \A i \in DOMAIN stdout' : stdout'[i].of <= pos
    <3>1. CASE broken
      BY <2>1, <3>1 DEF Sound
    <3>2. CASE ~broken
      <4>1. stdout' = Append(stdout, r)
        BY <2>1, <3>2
      <4> QED
        BY <2>2, <4>1, EncodeAt DEF Sound
    <3> QED
      BY <3>1, <3>2
  <2> QED
    BY <1>9, <2>3 DEF Encode, channel, Sound, For, Id
<1>10. CASE Break
  BY <1>10 DEF Break, channel, Sound, For, Id
<1>11. CASE UNCHANGED vars
  BY <1>11 DEF vars, channel, Sound, For, Id
<1> QED
  BY <1>1, <1>2, <1>3, <1>4, <1>5, <1>6, <1>7, <1>8, <1>9, <1>10, <1>11 DEF Next

-----------------------------------------------------------------------------
(* A reply is in one place at a time.                                      *)

LEMMA OnceStep ==
  ASSUME TypeOK, Shape, Sound, Once, [Next]_vars
  PROVE  Once'
<1>1. CASE ReadFrame
  <2> DEFINE f == pos + 1
  <2>0. /\ reader = "read" /\ f \in Frame /\ f > pos
        /\ UNCHANGED <<outbound, encoding, stdout>>
        /\ Answers(f) \/ Spawns(f) \/ Skips(f)
    BY <1>1, ReadFrameCases DEF channel, TypeOK
  <2>1. f \notin Active
    BY <2>0 DEF Shape, Active
  <2>2. ~At(outbound, f) /\ ~In(encoding, f) /\ ~At(stdout, f)
    <3>1. ~(f <= pos)
      BY <2>0 DEF TypeOK
    <3> QED
      BY <3>1 DEF Sound, For, At, In
  <2>3. held = {}
    BY <2>0 DEF Shape
  <2>4. CASE Answers(f)
    <3>1. \A g \in Frame : In(held', g) => g = f
      BY <2>0, <2>4, AnswersHeld DEF In
    <3> QED
      BY <2>0, <2>1, <2>2, <2>4, <3>1, ActiveSame DEF Answers, Once
  <2>5. CASE Spawns(f)
    <3>1. Active' = Active \cup {f}
      BY <1>1, <2>5, ActiveSpawn
    <3>2. \A g \in Frame : ~In(held', g)
      BY <2>3, <2>5 DEF Spawns, Spawn, In
    <3> QED
      BY <2>0, <2>2, <3>1, <3>2 DEF Once
  <2>6. CASE Skips(f)
    BY <2>0, <2>6, ActiveSame DEF Skips, Once
  <2> QED
    BY <2>0, <2>4, <2>5, <2>6
<1>2. CASE EmitReader
  <2>1. PICK r \in Reply : held = {r}
    BY <1>2 DEF EmitReader, Shape
  <2>2. Send(r) /\ held' = {} /\ UNCHANGED <<worker, encoding, stdout>>
    BY <1>2, <2>1 DEF EmitReader
  <2>3. /\ r.of \in Frame /\ In(held, r.of)
        /\ \A g \in Frame : ~In(held', g)
    BY <2>1, <2>2 DEF In, Reply
  <2>4. ~At(outbound, r.of)
    BY <2>3 DEF Once
  <2>5. \A i, j \in DOMAIN outbound' : outbound'[i].of = outbound'[j].of => i = j
    BY <2>2, <2>4, SendAt DEF Once, At
  <2>6. \A g \in Frame : At(outbound', g) <=> At(outbound, g) \/ g = r.of
    BY <2>2, SendAt
  <2> QED
    BY <2>2, <2>3, <2>5, <2>6, ActiveSame DEF Once
<1>3. CASE Eof
  BY <1>3, ActiveSame DEF Eof, channel, Once
<1>4. CASE CloseOutbound
  BY <1>4, ActiveSame DEF CloseOutbound, Once
<1>5. CASE Return
  BY <1>5, ActiveSame DEF Return, channel, Once
<1>6. ASSUME NEW f \in Frame, RunHandler(f) PROVE Once'
  BY <1>6, ActiveRun DEF RunHandler, channel, Once
<1>7. ASSUME NEW f \in Frame, EmitWorker(f) PROVE Once'
  <2>1. PICK r \in Reply : Send(r) /\ r.of = f
    BY <1>7 DEF EmitWorker, Shape
  <2>2. UNCHANGED <<held, encoding, stdout>>
    BY <1>7 DEF EmitWorker
  <2>3. f \in Active /\ Active' = Active \ {f}
    BY <1>7, ActiveEmit
  <2>4. ~At(outbound, f)
    BY <2>3 DEF Once
  <2>5. \A i, j \in DOMAIN outbound' : outbound'[i].of = outbound'[j].of => i = j
    BY <2>1, <2>4, SendAt DEF Once, At
  <2>6. \A g \in Frame : At(outbound', g) <=> At(outbound, g) \/ g = f
    BY <2>1, SendAt
  <2> QED
    BY <2>2, <2>3, <2>5, <2>6 DEF Once
<1>8. CASE Receive
  <2>1. CASE outbound # <<>>
    <3> DEFINE r == Head(outbound)
    <3>1. /\ outbound' = Tail(outbound) /\ encoding' = {r} /\ encoding = {}
          /\ UNCHANGED <<held, worker, stdout>>
      BY <1>8, <2>1 DEF Receive, Shape
    <3>2. \A g \in Frame : At(outbound, g) <=> At(outbound', g) \/ g = r.of
      BY <2>1, <3>1, ReceiveAt
    <3>3. ~At(outbound', r.of)
      <4> SUFFICES ASSUME NEW i \in DOMAIN outbound', outbound'[i].of = r.of
                   PROVE  FALSE
        BY DEF At
      <4>1. /\ i + 1 \in DOMAIN outbound /\ 1 \in DOMAIN outbound /\ i + 1 # 1
            /\ outbound[i + 1].of = outbound[1].of
        BY <2>1, <3>1, ReceiveAt
      <4> QED
        BY <4>1 DEF Once
    <3>4. \A i, j \in DOMAIN outbound' : outbound'[i].of = outbound'[j].of => i = j
      <4> SUFFICES ASSUME NEW i \in DOMAIN outbound', NEW j \in DOMAIN outbound',
                          outbound'[i].of = outbound'[j].of
                   PROVE  i = j
        OBVIOUS
      <4>1. /\ i + 1 \in DOMAIN outbound /\ j + 1 \in DOMAIN outbound
            /\ outbound[i + 1].of = outbound[j + 1].of /\ i \in Nat /\ j \in Nat
        BY <2>1, <3>1, ReceiveAt
      <4>2. i + 1 = j + 1
        BY <4>1 DEF Once
      <4> QED
        BY <4>1, <4>2
    <3>5. \A g \in Frame : In(encoding', g) <=> g = r.of
      BY <3>1 DEF In
    <3> QED
      BY <3>1, <3>2, <3>3, <3>4, <3>5, ActiveSame DEF Once
  <2>2. CASE outbound = <<>>
    BY <1>8, <2>2, ActiveSame DEF Receive, Once
  <2> QED
    BY <2>1, <2>2
<1>9. CASE Encode
  <2>1. PICK r \in Reply : encoding = {r}
    BY <1>9 DEF Encode, Shape
  <2>2. /\ stdout' = IF broken THEN stdout ELSE Append(stdout, r)
        /\ encoding' = {} /\ UNCHANGED <<held, worker, outbound>>
    BY <1>9, <2>1 DEF Encode, channel
  <2>3. /\ r.of \in Frame /\ In(encoding, r.of)
        /\ \A g \in Frame : ~In(encoding', g)
    BY <2>1, <2>2 DEF In, Reply
  <2>4. \A g \in Frame : At(stdout', g) => At(stdout, g) \/ g = r.of
    <3>1. CASE broken
      BY <2>2, <3>1
    <3>2. CASE ~broken
      <4>1. stdout' = Append(stdout, r)
        BY <2>2, <3>2
      <4> QED
        BY <4>1, EncodeAt
    <3> QED
      BY <3>1, <3>2
  <2> QED
    BY <2>2, <2>3, <2>4, ActiveSame DEF Once
<1>10. CASE Break
  BY <1>10, ActiveSame DEF Break, channel, Once
<1>11. CASE UNCHANGED vars
  BY <1>11, ActiveSame DEF vars, channel, Once
<1> QED
  BY <1>1, <1>2, <1>3, <1>4, <1>5, <1>6, <1>7, <1>8, <1>9, <1>10, <1>11 DEF Next

-----------------------------------------------------------------------------
(* A reply is somewhere until stdout breaks.                               *)

LEMMA LocatedStep ==
  ASSUME TypeOK, Shape, Located, [Next]_vars
  PROVE  Located'
<1> SUFFICES ASSUME ~broken', NEW g \in Asked'
             PROVE  \/ In(held', g) \/ g \in Active' \/ At(outbound', g)
                    \/ In(encoding', g) \/ At(stdout', g)
  BY DEF Located
<1>0. g \in Frame
  BY DEF Asked
<1>1. CASE ReadFrame
  <2> DEFINE f == pos + 1
  <2>0. /\ reader = "read" /\ f \in Frame /\ pos' = f
        /\ UNCHANGED <<kind, outbound, encoding, stdout, broken>>
        /\ Answers(f) \/ Spawns(f) \/ Skips(f)
    BY <1>1, ReadFrameCases DEF channel
  <2>1. held = {}
    BY <2>0 DEF Shape
  <2>2. g # f => g \in Asked
    BY <1>0, <2>0, FrameType DEF Asked, TypeOK
  <2>3. g # f => \/ g \in Active \/ At(outbound, g) \/ In(encoding, g) \/ At(stdout, g)
    BY <2>0, <2>1, <2>2 DEF Located, In
  <2>4. CASE Answers(f)
    <3>1. In(held', f)
      BY <2>0, <2>4, AnswersHeld DEF In
    <3> QED
      BY <2>0, <2>3, <2>4, <3>1, ActiveSame DEF Answers
  <2>5. CASE Spawns(f)
    <3>1. Active' = Active \cup {f}
      BY <1>1, <2>5, ActiveSpawn
    <3> QED
      BY <2>0, <2>3, <3>1
  <2>6. CASE Skips(f)
    <3>1. g # f
      BY <2>0, <2>6 DEF Skips, Asked
    <3> QED
      BY <2>0, <2>3, <2>6, <3>1, ActiveSame DEF Skips
  <2> QED
    BY <2>0, <2>4, <2>5, <2>6
<1>2. CASE EmitReader
  <2>1. PICK r \in Reply : held = {r}
    BY <1>2 DEF EmitReader, Shape
  <2>2. /\ Send(r) /\ UNCHANGED <<kind, pos, worker, encoding, stdout, broken>>
    BY <1>2, <2>1 DEF EmitReader
  <2>3. At(outbound', g) <=> At(outbound, g) \/ g = r.of
    BY <2>2, SendAt
  <2>4. In(held, g) => g = r.of
    BY <2>1 DEF In
  <2>5. g \in Asked
    BY <2>2 DEF Asked
  <2> QED
    BY <2>2, <2>3, <2>4, <2>5, ActiveSame DEF Located
<1>3. CASE Eof
  BY <1>3, ActiveSame DEF Eof, channel, Located, Asked
<1>4. CASE CloseOutbound
  BY <1>4, ActiveSame DEF CloseOutbound, Located, Asked
<1>5. CASE Return
  BY <1>5, ActiveSame DEF Return, channel, Located, Asked
<1>6. ASSUME NEW f \in Frame, RunHandler(f)
      PROVE  \/ In(held', g) \/ g \in Active' \/ At(outbound', g)
             \/ In(encoding', g) \/ At(stdout', g)
  BY <1>6, ActiveRun DEF RunHandler, channel, Located, Asked
<1>7. ASSUME NEW f \in Frame, EmitWorker(f)
      PROVE  \/ In(held', g) \/ g \in Active' \/ At(outbound', g)
             \/ In(encoding', g) \/ At(stdout', g)
  <2>1. PICK r \in Reply : Send(r) /\ r.of = f
    BY <1>7 DEF EmitWorker, Shape
  <2>2. UNCHANGED <<kind, pos, held, encoding, stdout, broken>>
    BY <1>7 DEF EmitWorker
  <2>3. Active' = Active \ {f}
    BY <1>7, ActiveEmit
  <2>4. At(outbound', g) <=> At(outbound, g) \/ g = f
    BY <2>1, SendAt
  <2>5. g \in Asked
    BY <2>2 DEF Asked
  <2> QED
    BY <2>2, <2>3, <2>4, <2>5 DEF Located
<1>8. CASE Receive
  <2>0. g \in Asked /\ UNCHANGED <<held, worker, stdout, broken>>
    BY <1>8 DEF Asked, Receive
  <2>1. CASE outbound # <<>>
    <3>1. /\ outbound' = Tail(outbound) /\ encoding' = {Head(outbound)}
          /\ encoding = {}
      BY <1>8, <2>1 DEF Receive, Shape
    <3>2. At(outbound, g) <=> At(outbound', g) \/ g = Head(outbound).of
      BY <2>1, <3>1, ReceiveAt
    <3>3. In(encoding', g) <=> g = Head(outbound).of
      BY <3>1 DEF In
    <3>4. ~In(encoding, g)
      BY <3>1 DEF In
    <3> QED
      BY <2>0, <3>2, <3>3, <3>4, ActiveSame DEF Located
  <2>2. CASE outbound = <<>>
    BY <1>8, <2>0, <2>2, ActiveSame DEF Receive, Located
  <2> QED
    BY <2>1, <2>2
<1>9. CASE Encode
  <2>1. PICK r \in Reply : encoding = {r}
    BY <1>9 DEF Encode, Shape
  <2>2. /\ stdout' = Append(stdout, r)
        /\ UNCHANGED <<kind, pos, held, worker, outbound, broken>>
    BY <1>9, <2>1 DEF Encode, channel
  <2>3. At(stdout', g) <=> At(stdout, g) \/ g = r.of
    BY <2>2, EncodeAt
  <2>4. In(encoding, g) => g = r.of
    BY <2>1 DEF In
  <2>5. g \in Asked
    BY <2>2 DEF Asked
  <2> QED
    BY <2>2, <2>3, <2>4, <2>5, ActiveSame DEF Located
<1>10. CASE Break
  BY <1>10 DEF Break
<1>11. CASE UNCHANGED vars
  BY <1>11, ActiveSame DEF vars, channel, Located, Asked
<1> QED
  BY <1>1, <1>2, <1>3, <1>4, <1>5, <1>6, <1>7, <1>8, <1>9, <1>10, <1>11 DEF Next

-----------------------------------------------------------------------------
(* Hello is ahead of every result.                                         *)

LEMMA HelloSame ==
  ASSUME UNCHANGED <<outbound, encoding, stdout>>
  PROVE  /\ HelloSent' <=> HelloSent
         /\ HelloAhead' <=> HelloAhead
BY DEF HelloSent, HelloAhead, HelloIn

LEMMA SendHello ==
  ASSUME TypeOK, HelloFirst, ~broken, NEW r \in Reply, Send(r),
         UNCHANGED <<encoding, stdout>>, r.is = "result" => HelloAhead
  PROVE  /\ HelloAhead' <=> HelloAhead \/ r.is = "hello"
         /\ \A i \in DOMAIN outbound' : outbound'[i].is = "result" =>
              HelloSent' \/ \E j \in 1..(i - 1) : outbound'[j].is = "hello"
<1>1. HelloSent' <=> HelloSent
  BY DEF HelloSent, HelloIn
<1>2. HelloIn(outbound') <=> HelloIn(outbound) \/ r.is = "hello"
  BY SendAt DEF HelloIn
<1>3. ASSUME NEW i \in DOMAIN outbound', outbound'[i].is = "result"
      PROVE  HelloSent' \/ \E j \in 1..(i - 1) : outbound'[j].is = "hello"
  <2>1. CASE i \in DOMAIN outbound
    <3>1. \A j \in 1..(i - 1) : j \in DOMAIN outbound
      BY <2>1, SendAt
    <3>2. HelloSent \/ \E j \in 1..(i - 1) : outbound[j].is = "hello"
      BY <1>3, <2>1, SendAt DEF HelloFirst
    <3> QED
      BY <1>1, <3>1, <3>2, SendAt
  <2>2. CASE i = Len(outbound) + 1
    <3>1. HelloSent \/ HelloIn(outbound)
      BY <1>3, <2>2, SendAt DEF HelloAhead
    <3>2. \A j \in DOMAIN outbound : j \in 1..(i - 1) /\ outbound'[j] = outbound[j]
      BY <2>2, SendAt
    <3> QED
      BY <1>1, <3>1, <3>2 DEF HelloIn
  <2> QED
    BY <2>1, <2>2, SendAt
<1> QED
  BY <1>1, <1>2, <1>3 DEF HelloAhead

LEMMA HelloStep ==
  ASSUME TypeOK, Shape, HelloFirst, [Next]_vars
  PROVE  HelloFirst'
<1> SUFFICES ASSUME ~broken' PROVE HelloFirst'
  BY DEF HelloFirst
<1>1. CASE ReadFrame
  <2> DEFINE f == pos + 1
  <2>0. /\ reader = "read" /\ f \in Frame
        /\ UNCHANGED <<outbound, encoding, stdout, broken>>
        /\ Answers(f) \/ Spawns(f) \/ Skips(f)
    BY <1>1, ReadFrameCases DEF channel
  <2>1. held = {} /\ ~broken /\ (helloOK => HelloAhead)
    BY <2>0 DEF Shape, HelloFirst
  <2>2. CASE Answers(f)
    <3>1. PICK r \in Reply : /\ held' = {r} /\ r.is # "result"
                             /\ helloOK' => helloOK \/ r.is = "hello"
      BY <2>0, <2>2, AnswersHeld
    <3>2. Active' = Active
      BY <2>2, ActiveSame DEF Answers
    <3>3. (HelloSent' <=> HelloSent) /\ (HelloAhead' <=> HelloAhead)
      BY <2>0, HelloSame
    <3>4. helloOK' => HelloAhead' \/ \E q \in held' : q.is = "hello"
      BY <2>1, <3>1, <3>3
    <3>5. \A q \in held' : q.is # "result"
      BY <3>1
    <3> QED
      BY <2>0, <2>1, <3>2, <3>3, <3>4, <3>5 DEF HelloFirst, HelloIn
  <2>3. CASE Spawns(f)
    <3>1. helloOK /\ UNCHANGED <<held, helloOK>>
      BY <2>3 DEF Spawns, Spawn
    <3> QED
      BY <2>0, <2>1, <3>1, HelloSame DEF HelloFirst, HelloIn
  <2>4. CASE Skips(f)
    <3>1. Active' = Active /\ UNCHANGED <<held, helloOK>>
      BY <2>4, ActiveSame DEF Skips
    <3> QED
      BY <2>0, <2>1, <3>1, HelloSame DEF HelloFirst, HelloIn
  <2> QED
    BY <2>0, <2>2, <2>3, <2>4
<1>2. CASE EmitReader
  <2>1. PICK r \in Reply : held = {r}
    BY <1>2 DEF EmitReader, Shape
  <2>2. /\ Send(r) /\ held' = {}
        /\ UNCHANGED <<helloOK, worker, encoding, stdout, broken>>
    BY <1>2, <2>1 DEF EmitReader
  <2>3. r.is # "result"
    BY <2>1, <2>2 DEF HelloFirst
  <2>4. /\ HelloAhead' <=> HelloAhead \/ r.is = "hello"
        /\ \A i \in DOMAIN outbound' : outbound'[i].is = "result" =>
             HelloSent' \/ \E j \in 1..(i - 1) : outbound'[j].is = "hello"
    BY <2>2, <2>3, SendHello
  <2>5. Active' = Active
    BY <2>2, ActiveSame
  <2> QED
    BY <2>1, <2>2, <2>4, <2>5 DEF HelloFirst, HelloIn
<1>3. CASE Eof
  BY <1>3, ActiveSame, HelloSame DEF Eof, channel, HelloFirst, HelloIn
<1>4. CASE CloseOutbound
  BY <1>4, ActiveSame, HelloSame DEF CloseOutbound, HelloFirst, HelloIn
<1>5. CASE Return
  BY <1>5, ActiveSame, HelloSame DEF Return, channel, HelloFirst, HelloIn
<1>6. ASSUME NEW f \in Frame, RunHandler(f) PROVE HelloFirst'
  BY <1>6, ActiveRun, HelloSame DEF RunHandler, channel, HelloFirst, HelloIn
<1>7. ASSUME NEW f \in Frame, EmitWorker(f) PROVE HelloFirst'
  <2>1. PICK r \in Reply : Send(r)
    BY <1>7 DEF EmitWorker, TypeOK
  <2>2. UNCHANGED <<helloOK, held, encoding, stdout, broken>>
    BY <1>7 DEF EmitWorker
  <2>3. HelloAhead
    BY <1>7, <2>2, ActiveEmit DEF HelloFirst
  <2>4. /\ HelloAhead'
        /\ \A i \in DOMAIN outbound' : outbound'[i].is = "result" =>
             HelloSent' \/ \E j \in 1..(i - 1) : outbound'[j].is = "hello"
    BY <2>1, <2>2, <2>3, SendHello
  <2> QED
    BY <2>2, <2>4 DEF HelloFirst, HelloIn
<1>8. CASE Receive
  <2>0. UNCHANGED <<helloOK, held, worker, stdout, broken>> /\ ~broken
    BY <1>8 DEF Receive
  <2>1. CASE outbound # <<>>
    <3> DEFINE h == Head(outbound)
    <3>1. outbound' = Tail(outbound) /\ encoding' = {h} /\ encoding = {}
      BY <1>8, <2>1 DEF Receive, Shape
    <3>2. HelloSent <=> HelloIn(stdout)
      BY <3>1 DEF HelloSent
    <3>3. HelloSent' <=> HelloIn(stdout) \/ h.is = "hello"
      BY <2>0, <3>1 DEF HelloSent, HelloIn
    <3>4. HelloIn(outbound) => HelloIn(outbound') \/ h.is = "hello"
      <4> SUFFICES ASSUME NEW i \in DOMAIN outbound, outbound[i].is = "hello", i # 1
                   PROVE  \E j \in DOMAIN outbound' : outbound'[j].is = "hello"
        BY <2>1, <3>1, ReceiveAt DEF HelloIn
      <4>1. i - 1 \in DOMAIN outbound' /\ (i - 1) + 1 = i
        BY <2>1, <3>1, ReceiveAt
      <4> QED
        BY <2>1, <3>1, <4>1, ReceiveAt
    <3>5. HelloAhead => HelloAhead'
      BY <3>2, <3>3, <3>4 DEF HelloAhead
    <3>6. h.is = "result" => HelloIn(stdout)
      <4>1. 1 \in DOMAIN outbound /\ h = outbound[1] /\ ~ \E j \in 1..(1 - 1) : TRUE
        BY <2>1, <3>1, ReceiveAt
      <4>2. outbound[1].is = "result" =>
              HelloSent \/ \E j \in 1..(1 - 1) : outbound[j].is = "hello"
        BY <2>0, <4>1 DEF HelloFirst
      <4> QED
        BY <3>2, <4>1, <4>2
    <3>7. ASSUME NEW i \in DOMAIN outbound', outbound'[i].is = "result"
          PROVE  HelloSent' \/ \E j \in 1..(i - 1) : outbound'[j].is = "hello"
      <4>1. /\ i + 1 \in DOMAIN outbound /\ i \in Nat /\ i \in DOMAIN outbound
            /\ outbound[i + 1].is = "result"
        BY <2>1, <3>1, <3>7, ReceiveAt
      <4>2. HelloSent \/ \E j \in 1..((i + 1) - 1) : outbound[j].is = "hello"
        BY <2>0, <4>1 DEF HelloFirst
      <4>3. ASSUME NEW j \in 1..((i + 1) - 1), outbound[j].is = "hello", j # 1
            PROVE  \E k \in 1..(i - 1) : outbound'[k].is = "hello"
        <5>1. j - 1 \in 1..(i - 1) /\ j - 1 \in DOMAIN outbound' /\ (j - 1) + 1 = j
          BY <2>1, <3>1, <4>1, <4>3, ReceiveAt
        <5> QED
          BY <2>1, <3>1, <4>3, <5>1, ReceiveAt
      <4>4. h = outbound[1]
        BY <2>1, <3>1, ReceiveAt
      <4> QED
        BY <3>2, <3>3, <4>2, <4>3, <4>4
    <3>8. Active' = Active
      BY <2>0, ActiveSame
    <3>9. \A r \in encoding' : r.is = "result" => HelloIn(stdout')
      BY <2>0, <3>1, <3>6
    <3> QED
      BY <2>0, <3>5, <3>7, <3>8, <3>9 DEF HelloFirst
  <2>2. CASE outbound = <<>>
    <3>1. UNCHANGED <<outbound, encoding>>
      BY <1>8, <2>2 DEF Receive
    <3> QED
      BY <2>0, <3>1, ActiveSame, HelloSame DEF HelloFirst, HelloIn
  <2> QED
    BY <2>1, <2>2
<1>9. CASE Encode
  <2>1. PICK r \in Reply : encoding = {r}
    BY <1>9 DEF Encode, Shape
  <2>2. /\ stdout' = Append(stdout, r) /\ encoding' = {} /\ ~broken
        /\ UNCHANGED <<helloOK, held, worker, outbound, broken>>
    BY <1>9, <2>1 DEF Encode, channel
  <2>3. HelloIn(stdout') <=> HelloIn(stdout) \/ r.is = "hello"
    BY <2>2, EncodeAt DEF HelloIn
  <2>4. HelloSent' <=> HelloSent
    BY <2>1, <2>2, <2>3 DEF HelloSent
  <2>5. HelloAhead' <=> HelloAhead
    BY <2>2, <2>4 DEF HelloAhead, HelloIn
  <2>6. Active' = Active
    BY <2>2, ActiveSame
  <2> QED
    BY <2>2, <2>4, <2>5, <2>6 DEF HelloFirst
<1>10. CASE Break
  BY <1>10 DEF Break
<1>11. CASE UNCHANGED vars
  BY <1>11, ActiveSame, HelloSame DEF vars, channel, HelloFirst, HelloIn
<1> QED
  BY <1>1, <1>2, <1>3, <1>4, <1>5, <1>6, <1>7, <1>8, <1>9, <1>10, <1>11 DEF Next

-----------------------------------------------------------------------------
(* The invariant and what follows from it.                                 *)

LEMMA InitInv == Init => ServerInv
<1> SUFFICES ASSUME Init PROVE ServerInv
  OBVIOUS
<1>1. TypeOK
  BY TypeInit
<1>2. Active = {}
  BY DEF Init, Active
<1>3. DOMAIN outbound = {} /\ DOMAIN stdout = {}
  BY DEF Init
<1>4. Shape
  BY DEF Init, Shape
<1>5. Counted
  BY <1>2, FS_EmptySet DEF Init, Counted
<1>6. Sound
  BY <1>3 DEF Init, Sound
<1>7. Once
  BY <1>2, <1>3 DEF Init, Once, In, At
<1>8. Asked = {}
  BY FrameType DEF Init, Asked
<1>9. Located
  BY <1>8 DEF Located
<1>10. HelloFirst
  BY <1>2, <1>3 DEF Init, HelloFirst
<1> QED
  BY <1>1, <1>4, <1>5, <1>6, <1>7, <1>9, <1>10 DEF ServerInv

\* Where every reply is, in every reachable state: the inductive invariant.
THEOREM ServerInvariant == Spec => []ServerInv
<1>1. Init => ServerInv
  BY InitInv
<1>2. ServerInv /\ [Next]_vars => ServerInv'
  BY TypeStep, ShapeStep, CountedStep, SoundStep, OnceStep, LocatedStep, HelloStep
     DEF ServerInv
<1> QED
  BY <1>1, <1>2, PTL DEF Spec

\* The engine's state is well typed for any frames and any capacity; the
\* channel in particular never holds more than it can (server.go:Run).
THEOREM ServerTyped == Spec => []TypeOK
<1>1. ServerInv => TypeOK
  BY DEF ServerInv
<1> QED
  BY <1>1, ServerInvariant, PTL

\* No goroutine can send on the outbound channel once Run has closed it, for
\* any number of requests in flight at EOF (server.go:86).
THEOREM NoLateSend == Spec => []NoSendOnClosed
<1>1. ServerInv => NoSendOnClosed
  <2> SUFFICES ASSUME ServerInv, closed PROVE NoSendOnClosed
    BY DEF NoSendOnClosed
  <2>1. held = {}
    BY DEF ServerInv, Counted, Shape
  <2>2. \A f \in Frame : worker[f] \notin {"running", "emit"}
    BY DEF ServerInv, Counted, Active
  <2> QED
    BY <2>1, <2>2 DEF ServerInv, TypeOK, NoSendOnClosed
<1> QED
  BY <1>1, ServerInvariant, PTL

\* Run returns only when every frame it read has its reply on stdout, unless
\* the client closed stdout (server.go:86-88).
THEOREM ExitsDrained == Spec => []DrainedAtExit
<1>1. ServerInv => DrainedAtExit
  <2> SUFFICES ASSUME ServerInv, reader = "returned", ~broken, NEW f \in Asked
               PROVE  At(stdout, f)
    BY DEF DrainedAtExit, At
  <2>1. writer = "done" /\ closed /\ outbound = <<>> /\ Active = {}
    BY DEF ServerInv, Counted
  <2>2. held = {} /\ encoding = {}
    BY <2>1 DEF ServerInv, Shape
  <2>3. ~At(outbound, f) /\ ~In(held, f) /\ ~In(encoding, f)
    BY <2>1, <2>2 DEF At, In
  <2> QED
    BY <2>1, <2>3 DEF ServerInv, Located
<1> QED
  BY <1>1, ServerInvariant, PTL

-----------------------------------------------------------------------------
(* The engine implements Replies.                                          *)

Ids == [f \in Frame |-> IF kind[f] \in {"invalid", "oversized"} THEN 0 ELSE f]

LEMMA ReadIsAsk ==
  ASSUME TypeOK, ReadFrame
  PROVE  [Promise!Next]_<<Ids, Asked, stdout>>
<1> DEFINE f == pos + 1
<1>0. /\ f \in Frame /\ pos' = f /\ UNCHANGED <<kind, stdout>>
  BY ReadFrameCases
<1>1. Ids' = Ids
  BY <1>0 DEF Ids
<1>2. f \notin Asked
  BY <1>0 DEF Asked, TypeOK
<1>3. \A g \in Frame : g <= f <=> g <= pos \/ g = f
  BY <1>0, FrameType DEF TypeOK
<1>4. CASE kind[f] = "blank"
  <2>1. Asked' = Asked
    BY <1>0, <1>3, <1>4 DEF Asked
  <2> QED
    BY <1>0, <1>1, <2>1
<1>5. CASE kind[f] # "blank"
  <2>1. Asked' = Asked \cup {f}
    BY <1>0, <1>3, <1>5 DEF Asked
  <2>2. Promise!Ask(f)
    BY <1>0, <1>1, <1>2, <2>1 DEF Promise!Ask, Ids
  <2> QED
    BY <1>0, <2>2 DEF Promise!Next
<1> QED
  BY <1>4, <1>5

LEMMA EncodeIsReply ==
  ASSUME ServerInv, Encode
  PROVE  [Promise!Next]_<<Ids, Asked, stdout>>
<1>0. Ids' = Ids /\ Asked' = Asked
  BY DEF Encode, Ids, Asked
<1>1. PICK r \in Reply : encoding = {r}
  BY DEF Encode, ServerInv, Shape
<1>2. CASE broken
  BY <1>0, <1>1, <1>2 DEF Encode
<1>3. CASE ~broken
  <2>1. stdout' = Append(stdout, r)
    BY <1>1, <1>3 DEF Encode
  <2>2. r.of \in Frame /\ r.is \in {"hello", "result", "error"}
    BY DEF Reply
  <2>3. For(r)
    BY <1>1 DEF ServerInv, Sound
  <2>4. r.of \in Asked
    BY <2>2, <2>3 DEF For, Asked
  <2>5. Ids[r.of] = r.id
    BY <2>2, <2>3 DEF For, Ids, Id
  <2>6. r = [of |-> r.of, id |-> Ids[r.of], is |-> r.is]
    BY <2>5 DEF Reply
  <2>7. ~At(stdout, r.of)
    <3>1. In(encoding, r.of)
      BY <1>1 DEF In
    <3> QED
      BY <2>2, <3>1 DEF ServerInv, Once
  <2>8. r.is = "result" => HelloIn(stdout)
    BY <1>1, <1>3 DEF ServerInv, HelloFirst
  <2>9. Promise!Reply(r.of, r.is)
    BY <1>0, <2>1, <2>4, <2>6, <2>7, <2>8
       DEF Promise!Reply, Promise!Answered, Promise!HelloAccepted, At, HelloIn, Ids
  <2> QED
    BY <2>2, <2>9 DEF Promise!Next
<1> QED
  BY <1>2, <1>3

\* The engine implements Replies, for any frames and any capacity: each frame
\* is answered at most once under its own id, and no result is on the wire
\* ahead of the accepted hello (dispatch.go:22-42).
THEOREM ImplementsReplies == Spec => AnswersFrames
<1>1. Init => Promise!Init
  <2> SUFFICES ASSUME Init PROVE Promise!Init
    OBVIOUS
  <2>1. Asked = {}
    BY FrameType DEF Init, Asked
  <2>2. Ids \in [Frame -> Nat]
    BY FrameType DEF Ids
  <2> QED
    BY <2>1, <2>2 DEF Init, Promise!Init, Ids
<1>2. ServerInv /\ [Next]_vars => [Promise!Next]_<<Ids, Asked, stdout>>
  <2> SUFFICES ASSUME ServerInv, [Next]_vars, ~ReadFrame, ~Encode
               PROVE  UNCHANGED <<Ids, Asked, stdout>>
    BY ReadIsAsk, EncodeIsReply DEF ServerInv
  <2>1. UNCHANGED <<kind, pos, stdout>>
    BY DEF Next, vars, EmitReader, Eof, CloseOutbound, Return, RunHandler,
       EmitWorker, Receive, Break
  <2> QED
    BY <2>1 DEF Ids, Asked
<1> QED
  BY <1>1, <1>2, ServerInvariant, PTL DEF Spec, AnswersFrames, Promise!Spec, Ids

-----------------------------------------------------------------------------
(* GitRefresh.                                                             *)

\* A function scheduled, an event or a timer on its way, or the latest call
\* waiting in the queue and not superseded.
QueuedLatest ==
  \E i \in DOMAIN pending :
    pending[i].generation = generation /\ pending[i].call = calls
Coming == fs \/ timer \/ scheduled > 0 \/ QueuedLatest

\* The refresh under way has read git's status, and will land what it read.
HasRead == cur.at \in {"read", "listing"} \/ cur.found
Current == cur.generation = generation
Reading == Current /\ HasRead

\* The signature of the session is older than what it was told of.
Behind ==
  \/ screen.sig.status < heard.status
  \/ screen.entry /\ screen.sig.file < heard.file

\* The queue is busy with a refresh, or empty.
QueueInv ==
  /\ ~busy => pending = <<>> /\ cur = Idle
  /\ cur.found => cur.at = "done"
  /\ cur.generation <= generation

\* The list and what a refresh has read are states the repository was in, and
\* what would land is not older than the list.
AgeInv ==
  /\ screen.list <= repo.status
  /\ cur.status <= repo.status
  /\ heard.status <= repo.status /\ heard.file <= repo.file
  /\ Reading => screen.list <= cur.status

\* A session that is behind has something coming or under way, and what was read
\* before the session was last told is followed by another refresh.
CoverInv ==
  screen.alive =>
    /\ Behind => Coming \/ (Current /\ cur.at = "asked") \/ Reading
    /\ Reading /\ cur.status < heard.status => Coming

RefreshInv == RefreshTypeOK /\ QueueInv /\ AgeInv /\ CoverInv

-----------------------------------------------------------------------------
(* The session's functions.                                                *)

Repo == [status : 0..MaxChanges, file : 0..MaxEdits]
Under == [at : {"none", "asked", "read", "listing", "done"}, call : Nat,
          generation : Nat, status : 0..MaxChanges, found : BOOLEAN]

\* Session t lists version `list` and holds the signature of status `status` and of
\* the file as it is in repository r.
Made(t, list, status, r) ==
  /\ t \in Screen /\ t.list = list /\ t.sig.status = status
  /\ t.entry => t.sig.file = r.file

LEMMA RefreshBounds ==
  0..MaxChanges \subseteq Nat /\ 0..MaxEdits \subseteq Nat /\ 0 \in 0..MaxChanges /\ 0 \in 0..MaxEdits
BY RefreshAssumption

LEMMA RepoParts ==
  /\ \A r \in Repo : r.status \in 0..MaxChanges /\ r.file \in 0..MaxEdits
                   /\ r.status \in Nat /\ r.file \in Nat
  /\ \A n \in 0..MaxChanges : \A f \in 0..MaxEdits : [status |-> n, file |-> f] \in Repo
BY RefreshBounds DEF Repo

LEMMA RelistMakes ==
  ASSUME NEW s \in Screen, NEW status \in Nat, NEW r \in Repo, NEW t \in Relist(s, status, r)
  PROVE  Made(t, status, status, r)
<1>1. r.file \in Nat
  BY RefreshBounds DEF Repo
<1> DEFINE l == [s EXCEPT !.list = status]
           m == [l EXCEPT !.sig = [status |-> status, file |-> IF l.entry THEN r.file ELSE 0]]
<1>2. l \in Screen /\ l.list = status
  BY DEF Screen
<1>3. Made(m, status, status, r)
  BY <1>1, <1>2 DEF Screen, Made
<1>4. t \in {m, [m EXCEPT !.alive = FALSE, !.open = FALSE],
             [m EXCEPT !.entry = FALSE, !.open = FALSE, !.kept = TRUE]}
  BY DEF Relist, RecordState, GitSignature, OnEmpty, Closed
<1> HIDE DEF m
<1> QED
  BY <1>3, <1>4 DEF Screen, Made

LEMMA PanelRefreshMakes ==
  ASSUME NEW s \in Screen, NEW r \in Repo, NEW out \in PanelRefresh(s, r)
  PROVE  out.bump = 1 /\ Made(out.s, r.status, r.status, r)
<1>1. r.status \in Nat
  BY RefreshBounds DEF Repo
<1>2. PICK t \in Relist(s, r.status, r) : out = Out(t, 1)
  BY DEF PanelRefresh
<1> QED
  BY <1>1, <1>2, RelistMakes DEF Out

LEMMA ShowMakes ==
  ASSUME NEW s \in Screen, NEW status \in Nat, NEW r \in Repo
  PROVE  Made(ShowEntry(s, status, r), s.list, status, r)
<1>1. r.file \in Nat
  BY RefreshBounds DEF Repo
<1> QED
  BY <1>1 DEF ShowEntry, Screen, Made

LEMMA SelectMakes ==
  ASSUME NEW s \in Screen, NEW r \in Repo, NEW out \in OnSelect(s, r)
  PROVE  \/ out.bump = 0 /\ Made(out.s, s.list, r.status, r)
         \/ out.bump = 1 /\ Made(out.s, r.status, r.status, r)
<1>1. r.status \in Nat
  BY RefreshBounds DEF Repo
<1>2. out = Out(ShowEntry(s, r.status, r), 0) \/ out \in PanelRefresh(s, r)
  BY DEF OnSelect
<1> QED
  BY <1>1, <1>2, ShowMakes, PanelRefreshMakes DEF Out

\* What a refresh that listed `status` leaves when it lands, on a session that
\* lists it already: a list taken anew has superseded the queue.
LandsAs(out, status, r) ==
  \/ out.bump = 0 /\ (Made(out.s, status, status, r) \/ Made(out.s, status, r.status, r))
  \/ out.bump = 1 /\ Made(out.s, r.status, r.status, r)

LEMMA RetargetMakes ==
  ASSUME NEW s \in Screen, NEW status \in Nat, NEW r \in Repo, s.list = status,
         NEW out \in RetargetView(s, status, r)
  PROVE  LandsAs(out, status, r)
<1>1. out = Out(ShowEntry(s, status, r), 0) \/ out \in OnSelect(s, r)
  BY DEF RetargetView
<1> QED
  BY <1>1, ShowMakes, SelectMakes DEF Out, LandsAs

LEMMA LandMakes ==
  ASSUME NEW s \in Screen, NEW status \in Nat, NEW r \in Repo,
         NEW out \in LandExternal(s, status, r)
  PROVE  LandsAs(out, status, r)
<1>1. PICK t \in Relist(s, status, r) :
        \/ out = Out(t, 0)
        \/ out \in RetargetView(t, status, r)
        \/ out = Out(RecordState(t, r.status, r), 0)
        \/ out \in OnSelect(t, r)
  BY DEF LandExternal
<1>2. Made(t, status, status, r)
  BY RelistMakes
<1>3. t \in Screen /\ t.list = status
  BY <1>2 DEF Made
<1>4. CASE out = Out(t, 0)
  BY <1>2, <1>4 DEF Out, LandsAs
<1>5. CASE out \in RetargetView(t, status, r)
  BY <1>3, <1>5, RetargetMakes
<1>6. CASE out = Out(RecordState(t, r.status, r), 0)
  <2>1. r.status \in Nat /\ r.file \in Nat
    BY RefreshBounds DEF Repo
  <2>2. Made(RecordState(t, r.status, r), status, r.status, r)
    BY <1>3, <2>1 DEF RecordState, GitSignature, Made, Screen
  <2> QED
    BY <1>6, <2>2 DEF Out, LandsAs
<1>7. CASE out \in OnSelect(t, r)
  BY <1>3, <1>7, SelectMakes DEF LandsAs
<1> QED
  BY <1>1, <1>4, <1>5, <1>6, <1>7

-----------------------------------------------------------------------------
(* The queue.                                                              *)

\* Among p is the latest of n calls, submitted under generation g.
Holds(p, n, g) == \E i \in DOMAIN p : p[i].generation = g /\ p[i].call = n

LEMMA BeginUnder ==
  ASSUME NEW e \in Refresh, NEW n \in Nat
  PROVE  /\ Begin(e, n) \in Under /\ Begin(e, n).found = FALSE
         /\ Begin(e, n).at \in {"asked", "done"} /\ Begin(e, n).status = 0
         /\ Begin(e, n).generation = e.generation
         /\ e.call = n => Begin(e, n).at = "asked"
BY RefreshBounds DEF Begin, Refresh, Under

LEMMA AfterRest ==
  ASSUME NEW p \in Seq(Refresh), NEW i \in DOMAIN p
  PROVE  /\ After(p, i) \in Seq(Refresh)
         /\ \A k \in DOMAIN p : k > i =>
              k - i \in DOMAIN After(p, i) /\ After(p, i)[k - i] = p[k]
<1> DEFINE n == Len(p)
           q == After(p, i)
<1>1. n \in Nat /\ i \in 1..n /\ DOMAIN p = 1..n /\ \A k \in (i + 1)..n : p[k] \in Refresh
  OBVIOUS
<1>2. /\ q \in Seq(Refresh) /\ Len(q) = IF i + 1 <= n THEN n - (i + 1) + 1 ELSE 0
      /\ \A k \in 1..Len(q) : q[k] = p[i + 1 + k - 1]
  BY <1>1, SubSeqProperties DEF After
<1>3. DOMAIN q = 1..Len(q)
  BY <1>2
<1> HIDE DEF n, q
<1>4. ASSUME NEW k \in 1..n, k > i
      PROVE  k - i \in DOMAIN q /\ q[k - i] = p[k]
  <2>1. k - i \in 1..Len(q) /\ i + 1 + (k - i) - 1 = k
    BY <1>1, <1>2, <1>4
  <2> QED
    BY <1>2, <1>3, <2>1
<1> QED
  BY <1>1, <1>2, <1>4 DEF q

\* drain starts a task that reads nothing yet, and the latest call is that task's or
\* waits behind it.
LEMMA DrainRests ==
  ASSUME NEW p \in Seq(Refresh), NEW n \in Nat, NEW g \in Nat, Drain(p, n, g)
  PROVE  /\ busy' \in BOOLEAN /\ pending' \in Seq(Refresh) /\ cur' \in Under
         /\ ~busy' => pending' = <<>> /\ cur' = Idle
         /\ cur'.found = FALSE /\ cur'.at \in {"none", "asked", "done"} /\ cur'.status = 0
         /\ cur'.generation <= g
         /\ Holds(p, n, g)
              => (cur'.at = "asked" /\ cur'.generation = g) \/ Holds(pending', n, g)
<1>1. CASE Startable(p, g) = {} /\ busy' = FALSE /\ pending' = <<>> /\ cur' = Idle
  <2>1. ~Holds(p, n, g)
    BY <1>1 DEF Holds, Startable
  <2>2. Idle \in Under /\ Idle.found = FALSE /\ Idle.at = "none" /\ Idle.status = 0
        /\ Idle.generation <= g
    BY RefreshBounds DEF Idle, Under
  <2>3. <<>> \in Seq(Refresh)
    OBVIOUS
  <2> QED
    BY <1>1, <2>1, <2>2, <2>3, Zenon
<1>2. ASSUME NEW i \in DOMAIN p, IsNext(i, p, g), busy' = TRUE, pending' = After(p, i),
             cur' = Begin(p[i], n)
      PROVE  /\ busy' \in BOOLEAN /\ pending' \in Seq(Refresh) /\ cur' \in Under
             /\ cur'.found = FALSE /\ cur'.at \in {"asked", "done"} /\ cur'.status = 0
             /\ cur'.generation = g
             /\ Holds(p, n, g)
                  => (cur'.at = "asked" /\ cur'.generation = g) \/ Holds(pending', n, g)
  <2>1. p[i] \in Refresh /\ i \in Nat
    OBVIOUS
  <2>2. p[i].generation = g /\ \A k \in DOMAIN p : p[k].generation = g => i <= k
    BY <1>2 DEF IsNext, Startable
  <2>3. /\ cur' \in Under /\ cur'.found = FALSE /\ cur'.at \in {"asked", "done"}
        /\ cur'.status = 0 /\ cur'.generation = p[i].generation
        /\ p[i].call = n => cur'.at = "asked"
    BY <1>2, <2>1, BeginUnder
  <2>4. pending' \in Seq(Refresh)
    BY <1>2, AfterRest
  <2>5. ASSUME Holds(p, n, g), cur'.at # "asked"
        PROVE  Holds(pending', n, g)
    <3>1. PICK k \in DOMAIN p : p[k].generation = g /\ p[k].call = n
      BY <2>5 DEF Holds
    <3>2. k > i
      <4>1. i <= k /\ i # k
        BY <2>2, <2>3, <2>5, <3>1
      <4>2. i \in Nat /\ k \in Nat
        OBVIOUS
      <4> QED
        BY <4>1, <4>2
    <3>3. k - i \in DOMAIN pending' /\ pending'[k - i] = p[k]
      BY <1>2, <3>2, AfterRest
    <3> QED
      BY <3>1, <3>3 DEF Holds
  <2> QED
    BY <1>2, <2>2, <2>3, <2>4, <2>5
<1>3. CASE \E i \in DOMAIN p : IsNext(i, p, g) /\ busy' = TRUE /\ pending' = After(p, i)
                                 /\ cur' = Begin(p[i], n)
  <2>1. g <= g
    OBVIOUS
  <2> QED
    BY <1>2, <1>3, <2>1
<1> QED
  BY <1>1, <1>3 DEF Drain

-----------------------------------------------------------------------------
(* The steps.                                                              *)

\* What ListNeverOlder says of a step.
Forward == screen'.list >= screen.list /\ (~screen.alive => screen' = screen)

LEMMA RefreshTypes ==
  ASSUME RefreshInv
  PROVE  /\ repo \in Repo /\ repo.status \in 0..MaxChanges /\ repo.file \in 0..MaxEdits
         /\ repo.status \in Nat /\ repo.file \in Nat
         /\ screen \in Screen /\ screen.list \in Nat
         /\ cur \in Under /\ cur.status \in 0..MaxChanges /\ cur.status \in Nat
         /\ cur.generation \in Nat /\ generation \in Nat /\ calls \in Nat /\ scheduled \in Nat
         /\ pending \in Seq(Refresh) /\ busy \in BOOLEAN
         /\ heard \in Repo /\ heard.status \in Nat /\ heard.file \in Nat
         /\ heard.status <= repo.status /\ heard.file <= repo.file
         /\ screen.sig.status \in Nat /\ screen.sig.file \in Nat
BY RefreshBounds DEF AgeInv, RefreshInv, RefreshTypeOK, Repo, Screen, Under

LEMMA QueuedHolds ==
  QueuedLatest <=> Holds(pending, calls, generation)
BY DEF QueuedLatest, Holds

\* The repository changes, and the watcher reports it or not.
LEMMA ChangeStep ==
  ASSUME RefreshInv, Change \/ Edit
  PROVE  RefreshInv' /\ Forward
<1>0. /\ UNCHANGED <<screen, timer, scheduled, calls, generation, busy, pending, cur, acts>>
      /\ asked' = FALSE
  BY DEF Change, Edit, queue
<1>1. /\ repo' \in Repo /\ repo.status <= repo'.status /\ repo.file <= repo'.file
      /\ repo'.status \in Nat /\ repo'.file \in Nat
  <2>1. CASE Change
    <3>1. repo.status < MaxChanges /\ repo' = [repo EXCEPT !.status = @ + 1]
      BY <2>1 DEF Change
    <3>2. repo.status + 1 \in 0..MaxChanges /\ repo.status <= repo.status + 1
      <4>1. repo.status \in Nat /\ MaxChanges \in Nat
        BY RefreshTypes, RefreshAssumption
      <4> QED
        BY <3>1, <4>1
    <3>3. repo' \in Repo /\ repo'.status = repo.status + 1 /\ repo'.file = repo.file
      BY <3>1, <3>2, RefreshTypes DEF Repo
    <3> QED
      BY <3>2, <3>3, RepoParts, RefreshTypes
  <2>2. CASE Edit
    <3>1. PICK n \in {repo.status, repo.status + 1} :
            n <= MaxChanges /\ repo' = [status |-> n, file |-> repo.file + 1]
                            /\ repo.file < MaxEdits
      BY <2>2 DEF Edit
    <3>2. n \in 0..MaxChanges /\ repo.status <= n
      <4>1. repo.status \in Nat /\ MaxChanges \in Nat
        BY RefreshTypes, RefreshAssumption
      <4>2. n \in Nat /\ repo.status <= n
        BY <3>1, <4>1
      <4> QED
        BY <3>1, <4>1, <4>2
    <3>3. repo.file + 1 \in 0..MaxEdits /\ repo.file <= repo.file + 1
      <4>1. repo.file \in Nat /\ MaxEdits \in Nat
        BY RefreshTypes, RefreshAssumption
      <4> QED
        BY <3>1, <4>1
    <3>4. repo'.status = n /\ repo'.file = repo.file + 1 /\ repo' \in Repo
      BY <3>1, <3>2, <3>3, RepoParts
    <3> QED
      BY <3>2, <3>3, <3>4, RepoParts
  <2> QED
    BY <2>1, <2>2
<1>2. /\ fs' \in BOOLEAN /\ (fs => fs')
      /\ heard' = heard \/ (fs' /\ heard' = repo')
  <2>1. PICK told \in BOOLEAN : Notices(told)
    BY DEF Change, Edit, RefreshInv, RefreshTypeOK, Screen
  <2> QED
    BY <1>0, <2>1 DEF Notices, RefreshInv, RefreshTypeOK
<1>3. heard' \in Repo /\ heard'.status <= repo'.status /\ heard'.file <= repo'.file
  <2>1. /\ repo'.status \in Nat /\ repo'.file \in Nat
        /\ repo.status <= repo'.status /\ repo.file <= repo'.file
    BY <1>1, RefreshBounds DEF Repo
  <2>2. CASE heard' = heard
    <3>1. /\ heard \in Repo /\ heard.status \in Nat /\ heard.file \in Nat
          /\ repo.status \in Nat /\ repo.file \in Nat
          /\ heard.status <= repo.status /\ heard.file <= repo.file
      BY RefreshTypes
    <3>2. heard.status <= repo'.status /\ heard.file <= repo'.file
      BY <2>1, <3>1
    <3> QED
      BY <2>2, <3>1, <3>2
  <2>3. CASE heard' = repo'
    <3>1. repo'.status <= repo'.status /\ repo'.file <= repo'.file
      BY <2>1
    <3> QED
      BY <1>1, <2>3, <3>1
  <2> QED
    BY <1>2, <2>2, <2>3
<1>4. RefreshTypeOK'
  BY <1>0, <1>1, <1>2, <1>3 DEF RefreshInv, RefreshTypeOK, Repo
<1>5. QueueInv'
  BY <1>0 DEF RefreshInv, QueueInv
<1>6. AgeInv'
  BY <1>0, <1>1, <1>3, RefreshTypes DEF RefreshInv, AgeInv, Reading, HasRead, Current
<1>7. CoverInv'
  <2>1. Coming => Coming'
    BY <1>0, <1>2 DEF Coming, QueuedLatest
  <2>2. CASE fs'
    BY <2>2 DEF CoverInv, Coming
  <2>3. CASE heard' = heard
    <3>1. (Reading <=> Reading') /\ (Current <=> Current') /\ (Behind <=> Behind')
      BY <1>0, <2>3 DEF Reading, HasRead, Current, Behind
    <3> QED
      BY <1>0, <2>1, <2>3, <3>1 DEF RefreshInv, CoverInv
  <2> QED
    BY <1>2, <2>2, <2>3
<1>8. Forward
  BY <1>0, RefreshTypes DEF Forward
<1> QED
  BY <1>4, <1>5, <1>6, <1>7, <1>8 DEF RefreshInv

\* An event becomes a timer, and a timer a scheduled call.
LEMMA WatchStep ==
  ASSUME RefreshInv, OnFsEvent \/ Debounce \/ FocusGained
  PROVE  RefreshInv' /\ Forward
<1>0. /\ UNCHANGED <<repo, screen, calls, generation, busy, pending, cur, asked>>
      /\ heard' = heard \/ (heard' = repo /\ scheduled' > 0)
  <2>1. scheduled \in Nat
    BY DEF RefreshInv, RefreshTypeOK
  <2> QED
    BY <2>1 DEF OnFsEvent, Debounce, FocusGained, queue
<1>1. /\ fs' \in BOOLEAN /\ timer' \in BOOLEAN /\ scheduled' \in Nat /\ acts' \in 0..MaxActs
      /\ screen.alive /\ (fs \/ timer \/ scheduled > 0) => fs' \/ timer' \/ scheduled' > 0
  <2>1. /\ fs \in BOOLEAN /\ timer \in BOOLEAN /\ scheduled \in Nat /\ acts \in 0..MaxActs
        /\ screen.alive \in BOOLEAN
    BY DEF RefreshInv, RefreshTypeOK, Screen
  <2>2. CASE OnFsEvent
    BY <2>1, <2>2 DEF OnFsEvent
  <2>3. CASE Debounce
    <3>1. fs' = fs /\ acts' = acts /\ timer' = FALSE
          /\ scheduled' = IF screen.alive THEN scheduled + 1 ELSE scheduled
      BY <2>3 DEF Debounce
    <3>2. scheduled' \in Nat /\ (screen.alive => scheduled' > 0)
      BY <2>1, <3>1
    <3> QED
      BY <2>1, <3>1, <3>2
  <2>4. CASE FocusGained
    BY <2>1, <2>4, RefreshAssumption DEF FocusGained, Key
  <2> QED
    BY <2>2, <2>3, <2>4
<1>2. RefreshTypeOK'
  BY <1>0, <1>1 DEF RefreshInv, RefreshTypeOK
<1>3. QueueInv' /\ AgeInv'
  BY <1>0, RefreshTypes DEF RefreshInv, QueueInv, AgeInv, Reading, HasRead, Current
<1>4. CoverInv'
  <2>1. screen.alive /\ Coming => Coming'
    BY <1>0, <1>1 DEF Coming, QueuedLatest
  <2>2. CASE heard' = heard
    BY <1>0, <2>1, <2>2 DEF RefreshInv, CoverInv, Behind, Reading, HasRead, Current
  <2>3. CASE scheduled' > 0
    BY <2>3 DEF CoverInv, Coming
  <2> QED
    BY <1>0, <2>2, <2>3
<1>5. Forward
  BY <1>0, RefreshTypes DEF Forward
<1> QED
  BY <1>2, <1>3, <1>4, <1>5 DEF RefreshInv

\* refresh_external submits the latest call, which starts at once or waits.
LEMMA SubmitStep ==
  ASSUME RefreshInv, RunScheduled \/ RefreshKey
  PROVE  RefreshInv' /\ Forward
<1> DEFINE e == [call |-> calls + 1, generation |-> generation]
           p == Append(pending, e)
<1>0. /\ UNCHANGED <<repo, screen, fs, timer, generation>>
      /\ RefreshExternal
      /\ RefreshKey => screen.alive /\ acts' = acts + 1 /\ acts < MaxActs /\ asked' = TRUE
                       /\ scheduled' = scheduled
                       /\ heard' = repo
      /\ ~RefreshKey => acts' = acts /\ asked' = asked /\ scheduled > 0
                        /\ scheduled' = scheduled - 1 /\ heard' = heard
  BY DEF RunScheduled, RefreshKey, Key
<1>a. heard' \in Repo /\ heard'.status <= repo.status /\ heard'.file <= repo.file
  BY <1>0, RefreshTypes
<1>1. acts' \in 0..MaxActs /\ asked' \in BOOLEAN /\ scheduled' \in Nat
  <2>1. acts \in 0..MaxActs /\ asked \in BOOLEAN /\ scheduled \in Nat
    BY DEF RefreshInv, RefreshTypeOK
  <2>2. CASE RefreshKey
    BY <1>0, <2>1, <2>2, RefreshAssumption
  <2>3. CASE ~RefreshKey
    BY <1>0, <2>1, <2>3
  <2> QED
    BY <2>2, <2>3
<1>2. Forward
  BY <1>0, RefreshTypes DEF Forward
<1>3. e \in Refresh /\ calls + 1 \in Nat /\ e.generation = generation /\ e.call = calls + 1
  BY RefreshTypes DEF Refresh
<1>4. p \in Seq(Refresh) /\ Holds(p, calls + 1, generation)
  <2>1. p \in Seq(Refresh) /\ Len(p) = Len(pending) + 1 /\ Len(p) \in DOMAIN p /\ p[Len(p)] = e
    BY <1>3, RefreshTypes
  <2> QED
    BY <1>3, <2>1 DEF Holds
<1> HIDE DEF p
<1>5. CASE ~screen.alive
  <2>1. UNCHANGED <<calls, busy, pending, cur>>
    BY <1>0, <1>5 DEF RefreshExternal
  <2>2. RefreshTypeOK'
    BY <1>0, <1>a, <1>1, <2>1 DEF RefreshInv, RefreshTypeOK, Repo
  <2>3. QueueInv' /\ AgeInv' /\ CoverInv'
    BY <1>0, <1>a, <1>5, <2>1 DEF RefreshInv, QueueInv, AgeInv, CoverInv, Reading, HasRead, Current
  <2> QED
    BY <1>2, <2>2, <2>3 DEF RefreshInv
<1>6. CASE screen.alive /\ busy
  <2>1. calls' = calls + 1 /\ pending' = p /\ UNCHANGED <<busy, cur>>
    BY <1>0, <1>6 DEF RefreshExternal, p
  <2>2. RefreshTypeOK'
    BY <1>0, <1>a, <1>1, <1>3, <1>4, <2>1 DEF RefreshInv, RefreshTypeOK, Repo
  <2>3. QueueInv' /\ AgeInv'
    BY <1>0, <1>a, <1>6, <2>1 DEF RefreshInv, QueueInv, AgeInv, Reading, HasRead, Current
  <2>4. Coming'
    BY <1>0, <1>4, <2>1 DEF Coming, QueuedLatest, Holds
  <2> QED
    BY <1>2, <2>2, <2>3, <2>4 DEF RefreshInv, CoverInv
<1>7. CASE screen.alive /\ ~busy
  <2>1. calls' = calls + 1 /\ Drain(p, calls + 1, generation)
    BY <1>0, <1>7 DEF RefreshExternal, p
  <2>2. /\ busy' \in BOOLEAN /\ pending' \in Seq(Refresh) /\ cur' \in Under
        /\ ~busy' => pending' = <<>> /\ cur' = Idle
        /\ cur'.found = FALSE /\ cur'.at \in {"none", "asked", "done"} /\ cur'.status = 0
        /\ cur'.generation <= generation
        /\ (cur'.at = "asked" /\ cur'.generation = generation)
             \/ Holds(pending', calls + 1, generation)
    BY <1>3, <1>4, <2>1, RefreshTypes, DrainRests
  <2>3. RefreshTypeOK'
    BY <1>0, <1>a, <1>1, <1>3, <2>1, <2>2 DEF RefreshInv, RefreshTypeOK, Under, Repo
  <2>4. ~HasRead'
    BY <2>2 DEF HasRead
  <2>5. QueueInv' /\ AgeInv'
    BY <1>0, <1>a, <2>2, <2>4, RefreshTypes DEF RefreshInv, QueueInv, AgeInv, Reading
  <2>6. CoverInv'
    BY <1>0, <2>1, <2>2, <2>4 DEF CoverInv, Coming, QueuedLatest, Holds, Reading, Current
  <2> QED
    BY <1>2, <2>3, <2>5, <2>6 DEF RefreshInv
<1> QED
  BY <1>5, <1>6, <1>7, RefreshTypes

\* The task reads git's status, compares it and lists.
LEMMA ReadStep ==
  ASSUME RefreshInv, ReadStatus \/ CompareSignature \/ ListSections
  PROVE  RefreshInv' /\ Forward
<1>0. /\ UNCHANGED <<repo, screen, fs, timer, scheduled, calls, acts, asked, heard>>
      /\ UNCHANGED <<generation, busy, pending>>
  BY DEF ReadStatus, CompareSignature, ListSections, queue
<1>1. Forward
  BY <1>0, RefreshTypes DEF Forward
<1>2. busy
  BY DEF ReadStatus, CompareSignature, ListSections, RefreshInv, QueueInv, Idle
<1>3. Coming <=> Coming'
  BY <1>0 DEF Coming, QueuedLatest
<1>4. CASE ReadStatus
  <2>1. cur' = [cur EXCEPT !.at = "read", !.status = repo.status] /\ cur.at = "asked"
    BY <1>4 DEF ReadStatus
  <2>2. /\ cur' \in Under /\ cur'.at = "read" /\ cur'.status = repo.status
        /\ cur'.generation = cur.generation /\ cur'.found = cur.found
    BY <2>1, RefreshTypes DEF Under
  <2>3. RefreshTypeOK'
    BY <1>0, <2>2 DEF RefreshInv, RefreshTypeOK, Under
  <2>4. ~cur'.found
    BY <2>1, <2>2 DEF RefreshInv, QueueInv
  <2>5. QueueInv'
    BY <1>0, <1>2, <2>2, <2>4 DEF RefreshInv, QueueInv
  <2>6. AgeInv'
    BY <1>0, <2>2, RefreshTypes DEF RefreshInv, AgeInv
  <2>7. CoverInv'
    <3>1. HasRead' /\ (Current <=> Current')
      BY <1>0, <2>2 DEF HasRead, Current
    <3>2. ~HasRead
      BY <2>1, <2>2, <2>4 DEF HasRead
    <3> QED
      BY <1>0, <1>3, <2>1, <2>2, <3>1, <3>2, RefreshTypes
      DEF RefreshInv, CoverInv, Reading, Behind
  <2> QED
    BY <1>1, <2>3, <2>5, <2>6, <2>7 DEF RefreshInv
<1>5. CASE CompareSignature
  <2>1. /\ cur.at = "read"
        /\ cur' = [cur EXCEPT !.at =
             IF GitSignature(screen, cur.status, repo) = screen.sig THEN "done" ELSE "listing"]
    BY <1>5 DEF CompareSignature
  <2>2. /\ cur' \in Under /\ cur'.at \in {"done", "listing"} /\ cur'.status = cur.status
        /\ cur'.generation = cur.generation /\ cur'.found = cur.found
        /\ cur'.at = "done" => GitSignature(screen, cur.status, repo) = screen.sig
    BY <2>1, RefreshTypes DEF Under
  <2>3. RefreshTypeOK'
    BY <1>0, <2>2 DEF RefreshInv, RefreshTypeOK, Under
  <2>4. ~cur'.found
    BY <2>1, <2>2 DEF RefreshInv, QueueInv
  <2>5. QueueInv'
    BY <1>0, <1>2, <2>2, <2>4 DEF RefreshInv, QueueInv
  <2>6. HasRead /\ (HasRead' <=> cur'.at = "listing") /\ (Current <=> Current')
    BY <1>0, <2>1, <2>2, <2>4 DEF HasRead, Current
  <2>7. AgeInv'
    BY <1>0, <2>2, <2>6 DEF RefreshInv, AgeInv, Reading
  <2>8. CoverInv'
    <3>1. ASSUME screen.alive, cur'.at = "done", Behind, Current
          PROVE  Coming
      <4>1. /\ screen.sig.status = cur.status
            /\ screen.entry => screen.sig.file = repo.file
        BY <2>2, <3>1 DEF GitSignature
      <4>2. cur.status < heard.status
        BY <3>1, <4>1, RefreshTypes DEF Behind
      <4> QED
        BY <2>6, <3>1, <4>2 DEF RefreshInv, CoverInv, Reading
    <3>2. Behind <=> Behind'
      BY <1>0 DEF Behind
    <3> QED
      BY <1>0, <1>3, <2>1, <2>2, <2>6, <3>1, <3>2 DEF RefreshInv, CoverInv, Reading
  <2> QED
    BY <1>1, <2>3, <2>5, <2>7, <2>8 DEF RefreshInv
<1>6. CASE ListSections
  <2>1. cur' = [cur EXCEPT !.at = "done", !.found = TRUE] /\ cur.at = "listing"
    BY <1>6 DEF ListSections
  <2>2. /\ cur' \in Under /\ cur'.at = "done" /\ cur'.status = cur.status
        /\ cur'.generation = cur.generation /\ cur'.found
    BY <2>1, RefreshTypes DEF Under
  <2>3. RefreshTypeOK'
    BY <1>0, <2>2 DEF RefreshInv, RefreshTypeOK, Under
  <2>4. QueueInv'
    BY <1>0, <1>2, <2>2 DEF RefreshInv, QueueInv
  <2>5. HasRead /\ HasRead' /\ (Current <=> Current')
    BY <1>0, <2>1, <2>2 DEF HasRead, Current
  <2>6. AgeInv'
    BY <1>0, <2>2, <2>5 DEF RefreshInv, AgeInv, Reading
  <2>7. CoverInv'
    BY <1>0, <1>3, <2>1, <2>2, <2>5 DEF RefreshInv, CoverInv, Reading, Behind
  <2> QED
    BY <1>1, <2>3, <2>4, <2>6, <2>7 DEF RefreshInv
<1> QED
  BY <1>4, <1>5, <1>6

\* The end of a task: what it found lands unless a newer listing superseded it, and
\* drain starts the next.
LEMMA OnDoneStep ==
  ASSUME RefreshInv, OnDone
  PROVE  RefreshInv' /\ Forward
<1>0. UNCHANGED <<repo, fs, timer, scheduled, calls, acts, asked, heard>> /\ cur.at = "done"
  BY DEF OnDone
<1>1. /\ generation' \in Nat /\ screen' \in Screen
      /\ Drain(pending, calls, generation')
      /\ Forward /\ screen'.list <= repo.status
      /\ screen'.alive /\ Behind' => generation' = generation
                                     /\ screen.alive /\ (Behind \/ (Reading /\ cur.status < heard.status))
  <2>1. CASE ~Lands
    <3>1. Drain(pending, calls, generation) /\ UNCHANGED <<screen, generation>>
      BY <2>1 DEF OnDone
    <3> QED
      BY <1>0, <3>1, RefreshTypes DEF Forward, Behind, RefreshInv, AgeInv
  <2>2. CASE Lands
    <3>1. PICK out \in LandExternal(screen, cur.status, repo) :
            /\ screen' = out.s /\ generation' = generation + out.bump
            /\ Drain(pending, calls, generation + out.bump)
      BY <2>2 DEF OnDone, Apply
    <3>2. LandsAs(out, cur.status, repo)
      BY RefreshTypes, LandMakes
    <3>3. Reading /\ screen.alive /\ screen.list <= cur.status /\ cur.status <= repo.status
      BY <2>2 DEF Lands, Reading, HasRead, Current, RefreshInv, AgeInv
    <3>4. /\ screen' \in Screen /\ out.bump \in {0, 1}
          /\ screen'.list \in {cur.status, repo.status}
          /\ screen'.entry => screen'.sig.file = repo.file
          /\ screen'.sig.status \in {cur.status, repo.status}
          /\ out.bump = 1 => screen'.sig.status = repo.status
      BY <3>1, <3>2 DEF LandsAs, Made
    <3>5. generation' \in Nat /\ (out.bump = 0 => generation' = generation)
      BY <3>1, <3>4, RefreshTypes
    <3>6. Forward /\ screen'.list <= repo.status
      BY <3>3, <3>4, RefreshTypes DEF Forward
    <3>7. Behind' => out.bump = 0 /\ cur.status < heard.status
      BY <1>0, <3>3, <3>4, RefreshTypes DEF Behind
    <3> QED
      BY <3>1, <3>3, <3>4, <3>5, <3>6, <3>7
  <2> QED
    BY <2>1, <2>2
<1>2. /\ busy' \in BOOLEAN /\ pending' \in Seq(Refresh) /\ cur' \in Under
      /\ ~busy' => pending' = <<>> /\ cur' = Idle
      /\ cur'.found = FALSE /\ cur'.at \in {"none", "asked", "done"} /\ cur'.status = 0
      /\ cur'.generation <= generation'
      /\ Holds(pending, calls, generation')
           => (cur'.at = "asked" /\ cur'.generation = generation')
                \/ Holds(pending', calls, generation')
  BY <1>1, RefreshTypes, DrainRests
<1>3. RefreshTypeOK'
  BY <1>0, <1>1, <1>2 DEF RefreshInv, RefreshTypeOK, Under
<1>4. ~HasRead'
  BY <1>2 DEF HasRead
<1>5. QueueInv' /\ AgeInv'
  BY <1>0, <1>1, <1>2, <1>4, RefreshTypes DEF RefreshInv, QueueInv, AgeInv, Reading
<1>6. CoverInv'
  <2>1. ASSUME screen'.alive, Behind'
        PROVE  Coming' \/ (Current' /\ cur'.at = "asked")
    <3>1. /\ generation' = generation
          /\ screen.alive /\ (Behind \/ (Reading /\ cur.status < heard.status))
      BY <1>1, <2>1
    <3>2. Reading => cur.found /\ Current
      BY <1>0 DEF Reading, HasRead
    <3>3. Coming \/ (Behind /\ Reading /\ cur.status >= heard.status)
      BY <1>0, <3>1, RefreshTypes DEF RefreshInv, CoverInv
    <3>4. Coming
      <4>1. CASE Behind /\ Reading /\ cur.status >= heard.status
        <5>1. Lands
          BY <3>1, <3>2, <4>1 DEF Lands, Current
        <5>2. PICK out \in LandExternal(screen, cur.status, repo) : screen' = out.s
          BY <5>1 DEF OnDone, Apply
        <5>3. LandsAs(out, cur.status, repo)
          BY <5>2, RefreshTypes, LandMakes
        <5>4. ~Behind'
          BY <1>0, <4>1, <5>2, <5>3, RefreshTypes DEF Behind, LandsAs, Made
        <5> QED
          BY <2>1, <5>4
      <4> QED
        BY <3>3, <4>1
    <3>5. fs \/ timer \/ scheduled > 0 \/ Holds(pending, calls, generation')
      BY <3>1, <3>4 DEF Coming, QueuedLatest, Holds
    <3> QED
      BY <1>0, <1>2, <3>5 DEF Coming, QueuedLatest, Holds, Current
  <2> QED
    BY <1>4, <2>1 DEF CoverInv, Reading
<1> QED
  BY <1>1, <1>3, <1>5, <1>6 DEF RefreshInv

\* A key of the session that draws the list or the diff anew: with the list it
\* supersedes the refresh under way.
LEMMA DrawnAnew ==
  ASSUME RefreshInv, repo' \in Repo, repo.status <= repo'.status, acts' \in 0..MaxActs,
         fs' \in BOOLEAN, fs => fs',
         UNCHANGED <<timer, scheduled, calls, busy, pending, cur, asked>>,
         repo.file <= repo'.file, heard' \in {heard, repo'}, screen.alive,
         NEW bump \in Nat, bump = 0 => heard' = heard,
         generation' = generation + bump,
         \/ bump = 0 /\ repo' = repo /\ Made(screen', screen.list, repo'.status, repo')
         \/ bump > 0 /\ Made(screen', repo'.status, repo'.status, repo')
  PROVE  RefreshInv' /\ Forward
<1>0. /\ heard' \in Repo /\ heard'.status <= repo'.status /\ heard'.file <= repo'.file
      /\ heard'.status \in Nat /\ heard'.file \in Nat
      /\ repo'.status \in Nat /\ repo'.file \in Nat
  <2>1. repo'.status \in Nat /\ repo'.file \in Nat
    BY RepoParts
  <2>2. CASE heard' = heard
    <3>1. /\ heard \in Repo /\ heard.status \in Nat /\ heard.file \in Nat
          /\ heard.status <= repo.status /\ heard.file <= repo.file
          /\ repo.status \in Nat /\ repo.file \in Nat
      BY RefreshTypes
    <3>2. heard.status <= repo'.status /\ heard.file <= repo'.file
      BY <2>1, <3>1
    <3> QED
      BY <2>1, <2>2, <3>1, <3>2
  <2>3. CASE heard' = repo'
    BY <2>1, <2>3
  <2> QED
    BY <2>2, <2>3
<1>1. /\ screen' \in Screen /\ generation' \in Nat /\ repo'.status \in Nat
      /\ screen'.sig.status = repo'.status
      /\ screen'.entry => screen'.sig.file = repo'.file
  <2>1. generation \in Nat
    BY RefreshTypes
  <2>2. generation' \in Nat
    BY <2>1
  <2>3. repo'.status \in Nat
    BY RefreshBounds DEF Repo
  <2> QED
    BY <2>2, <2>3, Zenon DEF Made
<1>2. RefreshTypeOK'
  BY <1>0, <1>1, SMTT(30) DEF RefreshInv, RefreshTypeOK, Repo
<1>3. QueueInv'
  BY <1>1, RefreshTypes DEF RefreshInv, QueueInv
<1>4. ~Behind'
  BY <1>0, <1>1 DEF Behind
<1>5. CASE bump = 0
  <2>1. /\ generation' = generation /\ repo' = repo /\ screen'.list = screen.list
    BY <1>5, RefreshTypes DEF Made
  <2>2. AgeInv' /\ Forward
    BY <1>0, <2>1, RefreshTypes DEF RefreshInv, AgeInv, Reading, HasRead, Current, Forward
  <2>3. Coming => Coming'
    BY <2>1 DEF Coming, QueuedLatest
  <2>4. CoverInv'
    BY <1>4, <2>1, <2>3 DEF RefreshInv, CoverInv, Reading, HasRead, Current
  <2> QED
    BY <1>2, <1>3, <2>2, <2>4 DEF RefreshInv
<1>6. CASE bump > 0
  <2>1. ~Current'
    BY <1>6, RefreshTypes DEF Current, RefreshInv, QueueInv
  <2>2. screen'.list = repo'.status
    BY <1>6 DEF Made
  <2>3. AgeInv' /\ Forward
    <3>1. cur.status <= repo'.status /\ screen'.list >= screen.list
      <4>1. /\ cur.status <= repo.status /\ screen.list <= repo.status
            /\ cur.status \in Nat /\ screen.list \in Nat /\ repo.status \in Nat
        BY RefreshTypes DEF RefreshInv, AgeInv
      <4> QED
        BY <1>0, <2>2, <4>1
    <3>2. screen'.list <= repo'.status
      BY <1>0, <2>2
    <3> QED
      BY <1>0, <2>1, <3>1, <3>2 DEF AgeInv, Reading, Forward
  <2>4. CoverInv'
    BY <1>4, <2>1 DEF CoverInv, Reading
  <2> QED
    BY <1>2, <1>3, <2>3, <2>4 DEF RefreshInv
<1> QED
  BY <1>5, <1>6

LEMMA SelectStep ==
  ASSUME RefreshInv, Select
  PROVE  RefreshInv' /\ Forward
<1>1. PICK out \in OnSelect(screen, repo) : screen' = out.s /\ generation' = generation + out.bump
  BY DEF Select, Apply
<1>2. /\ UNCHANGED <<repo, fs, timer, scheduled, calls, busy, pending, cur, asked, heard>>
      /\ screen.alive /\ acts' = acts + 1 /\ acts < MaxActs
  BY DEF Select, Key
<1>3. fs' \in BOOLEAN /\ (fs => fs') /\ acts' \in 0..MaxActs
  BY <1>2, RefreshAssumption DEF RefreshInv, RefreshTypeOK
<1>4. \/ out.bump = 0 /\ Made(out.s, screen.list, repo.status, repo)
      \/ out.bump = 1 /\ Made(out.s, repo.status, repo.status, repo)
  BY RefreshTypes, SelectMakes
<1>5. repo' \in Repo /\ repo.status <= repo'.status /\ repo.file <= repo'.file
  BY <1>2, RefreshTypes
<1> DEFINE b == out.bump
<1>6. b \in Nat /\ generation' = generation + b
  BY <1>1, <1>4
<1>7. \/ b = 0 /\ repo' = repo /\ Made(screen', screen.list, repo'.status, repo')
      \/ b > 0 /\ Made(screen', repo'.status, repo'.status, repo')
  BY <1>1, <1>2, <1>4
<1> HIDE DEF b
<1> QED
  BY <1>2, <1>3, <1>5, <1>6, <1>7, DrawnAnew

\* The session's own write of the index, and the list taken after it.
LEMMA StageStep ==
  ASSUME RefreshInv, Stage
  PROVE  RefreshInv' /\ Forward
<1>1. /\ UNCHANGED <<timer, scheduled, calls, busy, pending, cur, asked>>
      /\ screen.alive /\ acts' = acts + 1 /\ acts < MaxActs
      /\ repo.status < MaxChanges /\ repo' = [repo EXCEPT !.status = @ + 1]
      /\ fs' \in {fs, fs \/ screen'.alive} /\ heard' = repo'
  <2>1. \E told \in BOOLEAN : fs' = (fs \/ (told /\ screen'.alive))
    BY DEF Stage
  <2>2. fs' \in {fs, fs \/ screen'.alive}
    BY <2>1, Zenon DEF RefreshInv, RefreshTypeOK
  <2> QED
    BY <2>2 DEF Stage, Key
<1>2. repo' \in Repo /\ repo.status <= repo'.status /\ repo'.status \in Nat
      /\ repo.file <= repo'.file
  <2>1. repo.status + 1 \in 0..MaxChanges /\ repo.status <= repo.status + 1
    <3>1. repo.status \in Nat /\ MaxChanges \in Nat
      BY RefreshTypes, RefreshAssumption
    <3> QED
      BY <1>1, <3>1
  <2>2. repo' \in Repo /\ repo'.status = repo.status + 1 /\ repo'.file = repo.file
    BY <1>1, <2>1, RefreshTypes DEF Repo
  <2> QED
    BY <2>1, <2>2, RepoParts, RefreshTypes
<1>3. acts' \in 0..MaxActs
  BY <1>1, RefreshAssumption DEF RefreshInv, RefreshTypeOK
<1>4. fs' \in BOOLEAN /\ (fs => fs')
  BY <1>1 DEF RefreshInv, RefreshTypeOK, Screen
<1>5. PICK out \in PanelRefresh(screen, repo') :
        \/ screen' = out.s /\ generation' = generation + out.bump
        \/ \E more \in RetargetView(out.s, repo'.status, repo') :
             screen' = more.s /\ generation' = generation + (1 + more.bump)
  <2>1. PICK out \in PanelRefresh(screen, repo') : \E on_staged \in BOOLEAN :
         IF on_staged /\ out.s.alive
         THEN LET outs == RetargetView(out.s, repo'.status, repo')
              IN IF outs = {} THEN Apply(out)
                 ELSE \E more \in outs : Apply(Out(more.s, 1 + more.bump))
         ELSE Apply(out)
    BY DEF Stage
  <2> QED
    BY <2>1 DEF Apply, Out
<1>6. out.bump = 1 /\ Made(out.s, repo'.status, repo'.status, repo')
  BY <1>2, <1>5, RefreshTypes, PanelRefreshMakes
<1>7. \E b \in Nat : /\ generation' = generation + b /\ b > 0
                     /\ Made(screen', repo'.status, repo'.status, repo')
  <2>1. CASE screen' = out.s /\ generation' = generation + out.bump
    BY <1>6, <2>1
  <2>2. ASSUME NEW more \in RetargetView(out.s, repo'.status, repo'),
               screen' = more.s, generation' = generation + (1 + more.bump)
        PROVE  \E b \in Nat : /\ generation' = generation + b /\ b > 0
                              /\ Made(screen', repo'.status, repo'.status, repo')
    <3>1. out.s \in Screen /\ out.s.list = repo'.status
      BY <1>6 DEF Made
    <3>2. LandsAs(more, repo'.status, repo')
      BY <1>2, <2>2, <3>1, RetargetMakes
    <3>3. more.bump \in {0, 1} /\ Made(more.s, repo'.status, repo'.status, repo')
      BY <3>2 DEF LandsAs
    <3>4. 1 + more.bump \in Nat /\ 1 + more.bump > 0
      BY <3>3
    <3> QED
      BY <2>2, <3>3, <3>4
  <2> QED
    BY <1>5, <2>1, <2>2
<1>8. PICK b \in Nat : /\ generation' = generation + b /\ b > 0
                       /\ Made(screen', repo'.status, repo'.status, repo')
  BY <1>7
<1> QED
  BY <1>1, <1>2, <1>3, <1>4, <1>8, DrawnAnew

\* The diff window, or the session, is closed.
LEMMA CloseStep ==
  ASSUME RefreshInv, CloseView \/ Close
  PROVE  RefreshInv' /\ Forward
<1>1. /\ UNCHANGED <<repo, scheduled, calls, generation, busy, pending, cur, asked, heard>>
      /\ screen.alive /\ acts' = acts + 1 /\ acts < MaxActs
      /\ CloseView => screen' = [screen EXCEPT !.open = FALSE] /\ UNCHANGED <<fs, timer>>
      /\ ~CloseView => /\ screen' = [screen EXCEPT !.alive = FALSE, !.open = FALSE]
                       /\ fs' = FALSE /\ timer' = FALSE
  BY DEF CloseView, Close, Closed, Key, queue
<1>2. /\ screen' \in Screen /\ screen'.list = screen.list /\ screen'.sig = screen.sig
      /\ screen'.entry = screen.entry /\ (CloseView \/ ~screen'.alive)
  BY <1>1, RefreshTypes DEF Screen
<1>3. fs' \in BOOLEAN /\ timer' \in BOOLEAN /\ acts' \in 0..MaxActs
  <2>1. fs \in BOOLEAN /\ timer \in BOOLEAN /\ acts \in 0..MaxActs
    BY DEF RefreshInv, RefreshTypeOK
  <2>2. acts' \in 0..MaxActs
    BY <1>1, <2>1, RefreshAssumption
  <2> QED
    BY <1>1, <2>1, <2>2, Zenon
<1>4. RefreshTypeOK'
  BY <1>1, <1>2, <1>3 DEF RefreshInv, RefreshTypeOK
<1>5. QueueInv' /\ AgeInv' /\ Forward
  BY <1>1, <1>2, RefreshTypes
  DEF RefreshInv, QueueInv, AgeInv, Reading, HasRead, Current, Forward
<1>6. CoverInv'
  <2>1. CloseView => (Coming <=> Coming')
    BY <1>1 DEF Coming, QueuedLatest
  <2> QED
    BY <1>1, <1>2, <2>1 DEF RefreshInv, CoverInv, Behind, Reading, HasRead, Current
<1> QED
  BY <1>4, <1>5, <1>6 DEF RefreshInv

LEMMA RefreshStarts ==
  ASSUME RefreshInit
  PROVE  RefreshInv
<1>1. repo.status = 0 /\ repo.file = 0 /\ repo \in Repo
  BY RefreshBounds DEF RefreshInit, Repo
<1>2. /\ screen \in Screen /\ screen.list = 0 /\ screen.sig.status = 0 /\ screen.sig.file = 0
  <2>1. PICK b \in BOOLEAN :
          screen = [alive |-> TRUE, list |-> 0, entry |-> b, open |-> b, kept |-> FALSE,
                    diff |-> 0, sig |-> [status |-> 0, file |-> 0]]
    BY DEF RefreshInit
  <2> QED
    BY <2>1 DEF Screen
<1>3. /\ Idle \in Under /\ Idle.status = 0 /\ ~Idle.found /\ Idle.at = "none"
      /\ Idle.generation = 0
  BY RefreshBounds DEF Idle, Under
<1>4. RefreshTypeOK
  <2>1. <<>> \in Seq(Refresh) /\ 0 \in 0..MaxActs
    BY RefreshAssumption
  <2> QED
    BY <1>1, <1>2, <1>3, <2>1 DEF RefreshInit, RefreshTypeOK, Repo, Under
<1> QED
  BY <1>1, <1>2, <1>3, <1>4
  DEF RefreshInit, RefreshInv, QueueInv, AgeInv, CoverInv, Reading, HasRead, Behind

LEMMA RefreshStep ==
  ASSUME RefreshInv, [RefreshNext]_refreshVars
  PROVE  RefreshInv' /\ Forward
<1>1. CASE UNCHANGED refreshVars
  <2>1. UNCHANGED <<repo, screen, fs, timer, scheduled, calls, cur, acts, asked, heard>>
        /\ UNCHANGED <<generation, busy, pending>>
    BY <1>1 DEF refreshVars, queue
  <2>2. RefreshInv'
    BY <2>1 DEF RefreshInv, RefreshTypeOK, QueueInv, AgeInv, CoverInv, Coming, QueuedLatest,
      Reading, HasRead, Current, Behind
  <2> QED
    BY <2>1, <2>2, RefreshTypes DEF Forward
<1> QED
  BY <1>1, ChangeStep, WatchStep, SubmitStep, ReadStep, OnDoneStep, SelectStep, StageStep,
     CloseStep DEF RefreshNext, User

\* No change the session is told of is missed, for any number of changes told and
\* untold, edits, keys and refreshes skipped or superseded: a session with nothing on
\* its way holds a signature no older than the repository and the file on screen were
\* when it was last told (refresh_external, record_state).
THEOREM NoneMissed ==
  RefreshSpec => []NothingMissed
<1>1. RefreshInit => RefreshInv
  BY RefreshStarts
<1>2. RefreshInv /\ [RefreshNext]_refreshVars => RefreshInv'
  BY RefreshStep
<1>3. RefreshInv => NothingMissed
  <2> SUFFICES ASSUME RefreshInv, screen.alive, Quiet
               PROVE  ~Behind
    BY RefreshTypes DEF RefreshInv, NothingMissed, UpToHeard, Behind
  <2>1. pending = <<>> /\ cur = Idle
    BY DEF Quiet, RefreshInv, QueueInv
  <2>2. ~Coming
    BY <2>1 DEF Quiet, Coming, QueuedLatest
  <2>3. cur.at = "none" /\ ~cur.found
    BY <2>1 DEF Idle
  <2> QED
    BY <2>2, <2>3 DEF RefreshInv, CoverInv, Reading, HasRead
<1> QED
  BY <1>1, <1>2, <1>3, PTL DEF RefreshSpec

\* The list on screen never goes back to an earlier state of the repository, whatever
\* lands late, and a session that was closed is drawn no more (land_external,
\* supersede).
THEOREM NeverOlder ==
  RefreshSpec => ListNeverOlder
<1>1. RefreshInit => RefreshInv
  BY RefreshStarts
<1>2. RefreshInv /\ [RefreshNext]_refreshVars => RefreshInv'
  BY RefreshStep
<1>3. RefreshInv /\ [RefreshNext]_refreshVars
        => [/\ screen'.list >= screen.list
            /\ ~screen.alive => screen' = screen]_refreshVars
  BY RefreshStep DEF Forward
<1> QED
  BY <1>1, <1>2, <1>3, PTL DEF RefreshSpec, ListNeverOlder
=============================================================================
