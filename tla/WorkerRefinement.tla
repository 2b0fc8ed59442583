----------------------------- MODULE WorkerRefinement -----------------------------
(*****************************************************************************)
(* Each worker implements SerialSession: for any number of tabs that share   *)
(* the database, and whatever fails, what one page sees of its worker is a   *)
(* queue of calls that are served in order, each taking effect once or not   *)
(* at all.  A step of a worker is a step of its SerialSession or a stutter   *)
(* of it; a step of another worker is a stutter.                             *)
(*****************************************************************************)
EXTENDS WorkerProofs

\* What SerialSession knows of a call.
QueuedCall == [op : Op, who : Someone]

\* The calls of SerialSession, under the refinement mapping.
Queue(t) == [i \in Calls(t) |-> [op |-> job[t][i].op, who |-> job[t][i].who]]

\* Call c, being first, has changed the session and is not answered yet.
Took(c) ==
  \/ c.op \in {"login", "complete", "logout"} /\ c.pc # "posted"
  \/ c.op = "restore" /\ c.pc = "put_public"

\* A step that concerns only tab t.
Others(t) ==
  \A u \in Tab : u # t => /\ job'[u] = job[u] /\ mem'[u] = mem[u]
                          /\ reply'[u] = reply[u] /\ page'[u] = page[u]

\* The tail of a sequence as a function.
LEMMA TailShifts ==
  ASSUME NEW S, NEW s \in Seq(S), s # <<>>
  PROVE  Tail(s) = [i \in 1 .. (Len(s) - 1) |-> s[i + 1]]
<1> DEFINE r == [i \in 1 .. (Len(s) - 1) |-> s[i + 1]]
<1>1. Len(s) \in Nat /\ Len(s) # 0 /\ \A i \in 1 .. Len(s) : s[i] \in S
  BY EmptySeq
<1>2. r \in [1 .. (Len(s) - 1) -> S] /\ Len(s) - 1 \in Nat
  BY <1>1
<1>3. r \in Seq(S) /\ Len(r) = Len(s) - 1
  BY <1>2, IsASeq, LenProperties
<1>4. /\ Tail(s) \in Seq(S) /\ Len(Tail(s)) = Len(s) - 1
      /\ \A i \in 1 .. Len(Tail(s)) : Tail(s)[i] = s[i + 1]
  BY HeadTailProperties
<1>5. \A i \in 1 .. Len(Tail(s)) : Tail(s)[i] = r[i]
  BY <1>4
<1>6. QED
  BY <1>3, <1>4, <1>5, SeqEqual

\* A call that moves on concerns its own tab only,
LEMMA MovedOthers ==
  ASSUME Inv, NEW t \in Tab, NEW c, Moved(t, c), UNCHANGED mem \/ \E m : mem' = [mem EXCEPT ![t] = m]
  PROVE  Others(t)
  BY DEF Inv, TypeOK, Moved, Others

\* and so does one that ends.
LEMMA EndedOthers ==
  ASSUME Inv, NEW t \in Tab, NEW a, Ended(t, a), UNCHANGED mem \/ \E m : mem' = [mem EXCEPT ![t] = m]
  PROVE  Others(t)
  BY DEF Inv, TypeOK, Ended, Others

\* The mapped queue is a sequence of calls, as long as the worker's.
LEMMA QueueTyped ==
  ASSUME Inv, NEW t \in Tab
  PROVE  /\ Queue(t) \in Seq(QueuedCall)
         /\ Len(Queue(t)) = Len(job[t]) /\ Len(job[t]) \in Nat
         /\ \A i \in Calls(t) : Queue(t)[i] = [op |-> job[t][i].op, who |-> job[t][i].who]
<1>1. Len(job[t]) \in Nat /\ \A i \in Calls(t) : job[t][i] \in ServedCall
  BY Queued DEF Inv
<1>2. Queue(t) \in [1 .. Len(job[t]) -> QueuedCall]
  BY <1>1 DEF Queue, Calls, ServedCall, QueuedCall
<1>3. Queue(t) \in Seq(QueuedCall)
  BY <1>1, <1>2, IsASeq
<1>4. Len(Queue(t)) = Len(job[t])
  BY <1>1, <1>2, <1>3
<1>5. QED
  BY <1>1, <1>3, <1>4 DEF Queue

\* It depends on which calls there are and not on how far they are.
LEMMA SameQueue ==
  ASSUME Inv, NEW t \in Tab, Calls(t)' = Calls(t),
         \A i \in Calls(t) : job'[t][i].op = job[t][i].op /\ job'[t][i].who = job[t][i].who
  PROVE  Queue(t)' = Queue(t)
  BY DEF Queue

\* An answer takes the first call off the mapped queue.
LEMMA TailQueue ==
  ASSUME Inv, NEW t \in Tab, NEW a, job[t] # <<>>, Ended(t, a)
  PROVE  Queue(t)' = Tail(Queue(t)) /\ Queue(t) # <<>>
<1>1. /\ Len(Queue(t)) = Len(job[t]) /\ Len(job[t]) \in Nat
      /\ \A i \in Calls(t) : Queue(t)[i] = [op |-> job[t][i].op, who |-> job[t][i].who]
  BY QueueTyped
<1>2. Calls(t)' = 1 .. (Len(job[t]) - 1)
      /\ \A i \in Calls(t)' : i + 1 \in Calls(t) /\ job'[t][i] = job[t][i + 1]
  BY EndedQueue DEF Inv
<1>3. Queue(t)' = [i \in 1 .. (Len(job[t]) - 1) |-> Queue(t)[i + 1]]
  BY <1>1, <1>2 DEF Queue
<1>4. Len(job[t]) # 0
  BY EmptySeq, Queued DEF Inv
<1>5. Tail(Queue(t)) = [i \in 1 .. (Len(job[t]) - 1) |-> Queue(t)[i + 1]]
  <2>1. Queue(t) \in Seq(QueuedCall) /\ Queue(t) # <<>>
    BY <1>1, <1>4, QueueTyped, EmptySeq
  <2>2. QED
    BY <1>1, <2>1, TailShifts
<1>6. QED
  BY <1>1, <1>3, <1>4, <1>5, EmptySeq

\* Posting adds to the end of it.
LEMMA AppendQueue ==
  ASSUME Inv, NEW t \in Tab, NEW c \in ServedCall, job' = [job EXCEPT ![t] = Append(@, c)]
  PROVE  Queue(t)' = Append(Queue(t), [op |-> c.op, who |-> c.who])
<1> DEFINE q == Queue(t)
           d == [op |-> c.op, who |-> c.who]
           n == Len(job[t])
<1>1. /\ q \in Seq(QueuedCall) /\ Len(q) = n /\ n \in Nat
      /\ \A i \in Calls(t) : q[i] = [op |-> job[t][i].op, who |-> job[t][i].who]
  BY QueueTyped
<1>2. d \in QueuedCall
  BY DEF ServedCall, QueuedCall
<1>3. /\ Append(q, d) \in Seq(QueuedCall) /\ Len(Append(q, d)) = n + 1
      /\ \A i \in 1 .. n : Append(q, d)[i] = q[i]
      /\ Append(q, d)[n + 1] = d
  BY <1>1, <1>2, AppendProperties
<1>4. /\ Calls(t)' = 1 .. (n + 1)
      /\ \A i \in Calls(t) : job'[t][i] = job[t][i]
      /\ job'[t][n + 1] = c
  BY PostedQueue DEF Inv
<1>5. Queue(t)' = [i \in 1 .. (n + 1) |-> Append(q, d)[i]]
  <2>1. \A i \in 1 .. (n + 1) : [op |-> job'[t][i].op, who |-> job'[t][i].who] = Append(q, d)[i]
    <3> SUFFICES ASSUME NEW i \in 1 .. (n + 1)
                 PROVE  [op |-> job'[t][i].op, who |-> job'[t][i].who] = Append(q, d)[i]
      OBVIOUS
    <3>1. CASE i = n + 1
      BY <1>3, <1>4, <3>1
    <3>2. CASE i # n + 1
      BY <1>1, <1>3, <1>4, <3>2 DEF Calls
    <3>3. QED
      BY <3>1, <3>2
  <2>2. QED
    BY <1>4, <2>1 DEF Queue
<1>6. QED
  BY <1>1, <1>3, <1>5, LenProperties

\* Whether the first call took effect can be read off that call,
LEMMA ServedFirst ==
  ASSUME Inv, NEW t \in Tab, job[t] # <<>>
  PROVE  Served(t) <=> Took(First(t))
  BY DEF Served, Took, First

\* also after it has moved on.
LEMMA ServedMoved ==
  ASSUME Inv, NEW t \in Tab, NEW c \in ServedCall, job[t] # <<>>, Moved(t, c)
  PROVE  Served(t)' <=> Took(c)
<1>1. job'[t][1] = c /\ job' \in [Tab -> Seq(ServedCall)] /\ Calls(t)' = Calls(t)
  BY MovedQueue DEF Inv
<1>2. 1 \in Calls(t)'
  BY <1>1, Queued DEF Inv
<1>3. job'[t] # <<>>
  BY <1>1, <1>2, EmptySeq DEF Calls
<1>4. QED
  BY <1>1, <1>3 DEF Served, Took

\* The next call has taken no effect yet: it has not begun.
LEMMA ServedEnded ==
  ASSUME Inv, NEW t \in Tab, NEW a, job[t] # <<>>, Ended(t, a)
  PROVE  ~ Served(t)'
<1>1. \A i \in Calls(t)' : job'[t][i].pc = "posted"
  BY EndedQueue DEF Inv, OneAtATime
<1>2. job' \in [Tab -> Seq(ServedCall)]
  BY EndedQueue DEF Inv
<1>3. job'[t] # <<>> => 1 \in Calls(t)'
  BY <1>2, EmptySeq, LenProperties DEF Calls
<1>4. QED
  BY <1>1, <1>3 DEF Served

\* What is to be shown of every step.
Promised(t) == Serial(t)!Next \/ UNCHANGED Serial(t)!vars

\* A step that changes nothing SerialSession can see is a stutter.
LEMMA SerialVars ==
  ASSUME NEW t \in Tab,
         Queue(t)' = Queue(t), Served(t)' = Served(t), reply'[t] = reply[t],
         mem'[t].signer = mem[t].signer, mem'[t].pend = mem[t].pend
  PROVE  Promised(t)
  BY DEF Promised, Serial!vars, Queue

\* A step of another tab is one.
LEMMA OthersPromised ==
  ASSUME Inv, NEW t \in Tab, Others(t), NEW u \in Tab, u # t
  PROVE  Promised(u)
<1>1. job'[u] = job[u] /\ mem'[u] = mem[u] /\ reply'[u] = reply[u]
  BY DEF Others
<1>2. Calls(u)' = Calls(u)
  BY <1>1 DEF Calls
<1>3. Queue(u)' = Queue(u)
  BY <1>1, <1>2 DEF Queue
<1>4. Served(u)' = Served(u)
  BY <1>1 DEF Served
<1>5. QED
  BY <1>1, <1>3, <1>4, SerialVars

\* A step that leaves the first call where it was, as far as the page can tell.
LEMMA MovedStutters ==
  ASSUME Inv, NEW t \in Tab, NEW c \in ServedCall, job[t] # <<>>, Moved(t, c),
         c.op = First(t).op, c.who = First(t).who, Took(c) <=> Took(First(t)),
         mem'[t].signer = mem[t].signer, mem'[t].pend = mem[t].pend
  PROVE  Promised(t)
<1>1. Queue(t)' = Queue(t)
  BY MovedQueue, Queued, SameQueue DEF Inv, Calls, First
<1>2. Served(t)' = Served(t)
  BY ServedFirst, ServedMoved DEF Served
<1>3. reply'[t] = reply[t]
  BY DEF Moved
<1>4. QED
  BY <1>1, <1>2, <1>3, SerialVars

\* The mapped queue begins with the call being served.
LEMMA HeadOfQueue ==
  ASSUME Inv, NEW t \in Tab, job[t] # <<>>
  PROVE  Queue(t) # <<>> /\ Head(Queue(t)) = [op |-> First(t).op, who |-> First(t).who]
<1>1. /\ Queue(t) \in Seq(QueuedCall) /\ Len(Queue(t)) = Len(job[t]) /\ 1 \in Calls(t)
      /\ Queue(t)[1] = [op |-> First(t).op, who |-> First(t).who]
  BY QueueTyped, Queued DEF First, Inv
<1>2. QED
  BY <1>1, EmptySeq DEF Calls

\* The step in which the first call changes the session is TakeEffect.
LEMMA MovedTakes ==
  ASSUME Inv, NEW t \in Tab, NEW c \in ServedCall, job[t] # <<>>, Moved(t, c),
         c.op = First(t).op, c.who = First(t).who, Took(c), ~ Took(First(t)),
         Serial(t)!Effect([op |-> First(t).op, who |-> First(t).who])
  PROVE  Promised(t)
<1>1. Queue(t)' = Queue(t)
  BY MovedQueue, Queued, SameQueue DEF Inv, Calls, First
<1>2. ~ Served(t) /\ Served(t)'
  BY ServedFirst, ServedMoved
<1>3. reply'[t] = reply[t]
  BY DEF Moved
<1>4. Served(t)' = TRUE
  BY <1>2 DEF Served
<1>5. Serial(t)!TakeEffect
  BY <1>1, <1>2, <1>3, <1>4, HeadOfQueue DEF Serial!TakeEffect, Queue
<1>6. QED
  BY <1>5 DEF Promised, Serial!Next

\* The end of a call is Answer, with the effect it has or had.
LEMMA EndedAnswers ==
  ASSUME Inv, NEW t \in Tab, NEW a, job[t] # <<>>, Ended(t, a),
         LET d == [op |-> First(t).op, who |-> First(t).who]
         IN  \/ ~ Took(First(t)) /\ Serial(t)!Effect(d) /\ Serial(t)!Answered(d, TRUE)
             \/ /\ mem'[t].signer = mem[t].signer /\ mem'[t].pend = mem[t].pend
                /\ Serial(t)!Answered(d, Took(First(t)))
  PROVE  Promised(t)
<1>1. Queue(t)' = Tail(Queue(t)) /\ Queue(t) # <<>>
      /\ Head(Queue(t)) = [op |-> First(t).op, who |-> First(t).who]
  BY TailQueue, HeadOfQueue
<1>2. Served(t)' = FALSE
  BY ServedEnded DEF Served
<1>3. Served(t) = Took(First(t))
  BY ServedFirst DEF Served, Took
<1>4. Serial(t)!Answer
  BY <1>1, <1>2, <1>3 DEF Serial!Answer, Queue
<1>5. QED
  BY <1>4 DEF Promised, Serial!Next

\* A call that is refused changes nothing and is answered with none.
LEMMA AnsweredNone ==
  ASSUME Inv, NEW t \in Tab, job[t] # <<>>, ~ Took(First(t)), Ended(t, None), 
         First(t).op \in Op \ {"sign", "logout"},
         mem'[t].signer = mem[t].signer, mem'[t].pend = mem[t].pend
  PROVE  Promised(t)
<1>1. reply'[t] = None
  BY DEF Ended, Inv, TypeOK
<1>2. Serial(t)!Answered([op |-> First(t).op, who |-> First(t).who], Took(First(t)))
  BY <1>1 DEF Serial!Answered, Op, Exclusive
<1>3. QED
  BY <1>2, EndedAnswers

\* What storage operations fail or write, the session stays.
LEMMA SameStorage ==
  ASSUME UNCHANGED storage \/ Fails \/ UNCHANGED <<mem, count, signedOut>>
         \/ UNCHANGED <<mem, signedOut>>
  PROVE  UNCHANGED mem
  BY DEF storage, Fails

\* A move that leaves the session alone keeps the promise.
LEMMA ToPromised ==
  ASSUME Inv, NEW t \in Tab, job[t] # <<>>, First(t) \in ServedCall, UNCHANGED mem,
         NEW a \in Stages(First(t).op), To(t, 1, a),
         Took(First(t)) <=> Took([First(t) EXCEPT !.pc = a])
  PROVE  Promised(t) /\ Others(t)
<1> DEFINE c == [First(t) EXCEPT !.pc = a]
<1>1. Moved(t, c) /\ c \in ServedCall
  BY ToMoves, StageIsTyped DEF Inv
<1>2. c.op = First(t).op /\ c.who = First(t).who
  BY DEF ServedCall
<1>3. QED
  BY <1>1, <1>2, MovedStutters, MovedOthers

\* Going on with a device key does,
LEMMA HasKeyPromised ==
  ASSUME Inv, NEW t \in Tab, job[t] # <<>>, First(t) \in ServedCall, InHand(First(t)),
         UNCHANGED mem, NEW k \in Nat, HasKey(t, 1, k),
         First(t).pc \in {"get_key", "add_key", "raced_key"}
  PROVE  Promised(t) /\ Others(t)
<1> DEFINE c == [First(t) EXCEPT !.key = k,
                   !.pc = IF First(t).op = "restore" THEN "decrypt" ELSE "put_record"]
<1>1. c.pc \in Stages(First(t).op)
  BY DEF InHand, Stages, ServedCall
<1>2. c \in ServedCall
  BY <1>1 DEF ServedCall
<1>3. c.op = First(t).op /\ c.who = First(t).who
  BY DEF ServedCall
<1>4. Took(c) <=> Took(First(t))
  BY DEF Took, ServedCall
<1>5. Moved(t, c)
  BY HasKeyMoves DEF Inv
<1>6. QED
  BY <1>2, <1>3, <1>4, <1>5, MovedStutters, MovedOthers

\* and without one: a restore that finds no key has not taken effect, and says so.
LEMMA NoKeyPromised ==
  ASSUME Inv, NEW t \in Tab, job[t] # <<>>, First(t) \in ServedCall, InHand(First(t)),
         UNCHANGED mem, NoKey(t, 1), First(t).pc \in {"get_key", "raced_key"}
  PROVE  Promised(t) /\ Others(t)
<1>1. CASE Restoring(t, 1)
  <2>1. Ended(t, None)
    BY <1>1, FinishEnds DEF NoKey, Inv
  <2>2. First(t).op = "restore" /\ ~ Took(First(t))
    BY <1>1 DEF Restoring, First, Took
  <2>3. QED
    BY <2>1, <2>2, AnsweredNone, EndedOthers DEF Op, Exclusive
<1>2. CASE ~ Restoring(t, 1)
  <2>1. First(t).op # "restore" /\ "put_public" \in Stages(First(t).op)
    BY <1>2 DEF InHand, Stages, Restoring, First
  <2>2. Took(First(t)) <=> Took([First(t) EXCEPT !.pc = "put_public"])
    BY <2>1 DEF Took, ServedCall
  <2>3. QED
    BY <1>2, <2>1, <2>2, ToPromised DEF NoKey
<1>3. QED
  BY <1>1, <1>2

\* The three steps that look for the device key keep the promise.
LEMMA KeyPromised ==
  ASSUME Inv, NEW t \in Tab, NEW i \in Calls(t),
         GetKey(t, i) \/ AddKey(t, i) \/ RacedKey(t, i)
  PROVE  Promised(t) /\ Others(t)
<1>1. i = 1 /\ job[t] # <<>> /\ First(t).pc \in {"get_key", "add_key", "raced_key"}
      /\ First(t) \in ServedCall /\ InHand(First(t))
  BY FirstServed DEF GetKey, AddKey, RacedKey, Inv
<1>2. UNCHANGED mem
  BY SameStorage DEF GetKey, AddKey, RacedKey
<1>3. ASSUME NEW a \in {"add_key", "raced_key"}, To(t, 1, a)
      PROVE  Promised(t) /\ Others(t)
  <2>1. a \in Stages(First(t).op)
    BY <1>1, <1>3 DEF InHand, Stages
  <2>2. Took(First(t)) <=> Took([First(t) EXCEPT !.pc = a])
    BY <1>1, <1>3 DEF Took, ServedCall
  <2>3. QED
    BY <1>1, <1>2, <1>3, <2>1, <2>2, ToPromised
<1>4. CASE GetKey(t, i)
  <2>1. CASE disk.key # None /\ HasKey(t, i, disk.key)
    <3>1. disk.key \in Nat
      BY <2>1 DEF Inv, TypeOK, Database
    <3>2. QED
      BY <1>1, <1>2, <2>1, <3>1, HasKeyPromised
  <2>2. QED
    BY <1>1, <1>2, <1>3, <1>4, <2>1, NoKeyPromised, FirstServed DEF GetKey, Inv
<1>5. CASE AddKey(t, i)
  <2>1. CASE HasKey(t, i, New) /\ Made
    <3>1. New \in Nat
      BY <2>1, MadeKeeps
    <3>2. QED
      BY <1>1, <1>2, <2>1, <3>1, HasKeyPromised
  <2>2. QED
    BY <1>1, <1>3, <1>5, <2>1 DEF AddKey
<1>6. CASE RacedKey(t, i)
  <2>1. CASE disk.key # None /\ HasKey(t, i, disk.key)
    <3>1. disk.key \in Nat
      BY <2>1 DEF Inv, TypeOK, Database
    <3>2. QED
      BY <1>1, <1>2, <2>1, <3>1, HasKeyPromised
  <2>2. QED
    BY <1>1, <1>2, <1>6, <2>1, NoKeyPromised, FirstServed DEF RacedKey, Inv
<1>7. QED
  BY <1>4, <1>5, <1>6

\* Saving keeps it: the login that is saved has taken effect, and its answer is the
\* identity unlocked.
LEMMA SavePromised ==
  ASSUME Inv, NEW t \in Tab, NEW i \in Calls(t), PutRecord(t, i) \/ PutPublic(t, i)
  PROVE  Promised(t) /\ Others(t)
<1>1. i = 1 /\ job[t] # <<>> /\ First(t).pc \in {"put_record", "put_public"}
      /\ First(t) \in ServedCall /\ InHand(First(t))
  BY FirstServed DEF PutRecord, PutPublic, Inv
<1>2. UNCHANGED mem
  BY SameStorage DEF PutRecord, PutPublic
<1>3. CASE PutRecord(t, i)
  <2>1. First(t).pc = "put_record" /\ "put_public" \in Stages(First(t).op)
        /\ First(t).op # "restore"
    BY <1>1, <1>3, FirstServed DEF PutRecord, InHand, Stages, Inv
  <2>2. Took(First(t)) <=> Took([First(t) EXCEPT !.pc = "put_public"])
    BY <1>1, <2>1 DEF Took, ServedCall
  <2>3. QED
    BY <1>1, <1>2, <1>3, <2>1, <2>2, ToPromised DEF PutRecord
<1>4. CASE PutPublic(t, i)
  <2>1. First(t).pc = "put_public"
        /\ First(t).op \in {"login", "complete", "change", "restore"}
    BY <1>1, <1>4, FirstServed DEF PutPublic, InHand, Stages, Inv
  <2>2. Ended(t, Answer(t, 1))
    BY <1>1, <1>4, FinishEnds DEF PutPublic, Inv
  <2>3. reply'[t] = Answer(t, 1)
    BY <2>2 DEF Ended, Inv, TypeOK
  <2>4. Serial(t)!Answered([op |-> First(t).op, who |-> First(t).who], Took(First(t)))
    BY <1>2, <2>1, <2>3 DEF Serial!Answered, Took, Answer, First
  <2>5. QED
    BY <1>1, <1>2, <2>2, <2>4, EndedAnswers, EndedOthers
<1>5. QED
  BY <1>3, <1>4

\* Loading keeps it: the restore has not taken effect.
LEMMA LoadPromised ==
  ASSUME Inv, NEW t \in Tab, NEW i \in Calls(t), GetRecord(t, i) \/ DropRecord(t, i)
  PROVE  Promised(t) /\ Others(t)
<1>1. i = 1 /\ job[t] # <<>> /\ First(t).pc \in {"get_record", "drop_record"}
      /\ First(t) \in ServedCall /\ InHand(First(t))
  BY FirstServed DEF GetRecord, DropRecord, Inv
<1>2. UNCHANGED mem
  BY SameStorage DEF GetRecord, DropRecord, storage
<1>3. First(t).op = "restore" /\ ~ Took(First(t))
  BY <1>1 DEF InHand, Stages, Took
<1>4. CASE Finish(t, 1, None)
  BY <1>1, <1>2, <1>3, <1>4, FinishEnds, AnsweredNone, EndedOthers DEF Op, Exclusive, Inv
<1>5. CASE /\ disk.record # None
           /\ job' = [job EXCEPT ![t][i] =
                [@ EXCEPT !.record = disk.record,
                          !.pc = IF disk.record.key = None THEN "drop_record" ELSE "get_key"]]
           /\ UNCHANGED <<storage, reply, page>>
  <2> DEFINE c == [First(t) EXCEPT !.record = disk.record,
                     !.pc = IF disk.record.key = None THEN "drop_record" ELSE "get_key"]
  <2>1. c.pc \in Stages(First(t).op) /\ c.op = First(t).op /\ c.who = First(t).who
    BY <1>1, <1>3 DEF Stages, ServedCall
  <2>2. disk.record \in StoredRecord
    BY <1>5 DEF Inv, TypeOK, Database
  <2>3. c \in ServedCall
    BY <1>1, <2>1, <2>2 DEF ServedCall
  <2>4. ~ Took(c)
    BY <1>1, <1>3 DEF Took, ServedCall
  <2>5. Moved(t, c)
    BY <1>1, <1>5 DEF Moved, First
  <2>6. QED
    BY <1>1, <1>2, <1>3, <2>1, <2>3, <2>4, <2>5, MovedStutters, MovedOthers
<1>6. QED
  BY <1>1, <1>4, <1>5 DEF GetRecord, DropRecord

\* Decrypting is where a restore takes effect, or comes to nothing.
LEMMA DecryptPromised ==
  ASSUME Inv, NEW t \in Tab, NEW i \in Calls(t), Decrypt(t, i)
  PROVE  Promised(t) /\ Others(t)
<1>1. i = 1 /\ job[t] # <<>> /\ First(t).pc = "decrypt" /\ First(t) \in ServedCall
      /\ InHand(First(t))
  BY FirstServed DEF Decrypt, Inv
<1>2. First(t).op = "restore" /\ ~ Took(First(t))
  BY <1>1 DEF InHand, Stages, Took
<1>3. CASE Readable(job[t][i].record, job[t][i].key)
  <2> DEFINE c == [First(t) EXCEPT !.pc = "put_public"]
  <2>1. Moved(t, c)
    BY <1>1, <1>3, ToMoves DEF Decrypt, Inv
  <2>2. c \in ServedCall
    BY <1>1, <1>2, StageIsTyped DEF Stages
  <2>3. c.op = First(t).op /\ c.who = First(t).who /\ Took(c)
    BY <1>1, <1>2 DEF ServedCall, Took
  <2>4. mem' = [mem EXCEPT ![t] =
             [signer |-> First(t).record.who, pend |-> FALSE, cap |-> First(t).record.cap]]
    BY <1>1, <1>3 DEF Decrypt, First
  <2>5. mem'[t].signer = First(t).record.who /\ mem'[t].pend = FALSE
    BY <2>4 DEF Inv, TypeOK
  <2>6. First(t).record.who \in Ident
    BY <1>1 DEF InHand, ServedCall, StoredRecord
  <2>7. Serial(t)!Effect([op |-> First(t).op, who |-> First(t).who])
    BY <1>2, <2>5, <2>6 DEF Serial!Effect
  <2>8. QED
    BY <1>1, <1>2, <2>1, <2>2, <2>3, <2>4, <2>7, MovedTakes, MovedOthers
<1>4. CASE ~ Readable(job[t][i].record, job[t][i].key)
  BY <1>1, <1>2, <1>4, FinishEnds, AnsweredNone, EndedOthers DEF Decrypt, Op, Exclusive, Inv
<1>5. QED
  BY <1>3, <1>4

\* Clearing the database keeps it: the logout has taken effect.
LEMMA ClearPromised ==
  ASSUME Inv, NEW t \in Tab, NEW i \in Calls(t),
         DelRecord(t, i) \/ DelKey(t, i) \/ DelPublic(t, i)
  PROVE  Promised(t) /\ Others(t)
<1>1. i = 1 /\ job[t] # <<>> /\ First(t).pc \in {"del_record", "del_key", "del_public"}
      /\ First(t) \in ServedCall /\ InHand(First(t))
  BY FirstServed DEF DelRecord, DelKey, DelPublic, Inv
<1>2. UNCHANGED mem
  BY SameStorage DEF DelRecord, DelKey, DelPublic
<1>3. First(t).op = "logout" /\ Took(First(t))
  BY <1>1 DEF InHand, Stages, Took
<1>4. ASSUME NEW a \in {"del_key", "del_public"}, To(t, 1, a)
      PROVE  Promised(t) /\ Others(t)
  <2>1. a \in Stages(First(t).op)
    BY <1>3 DEF Stages
  <2>2. Took([First(t) EXCEPT !.pc = a])
    BY <1>1, <1>3 DEF Took, ServedCall
  <2>3. QED
    BY <1>1, <1>2, <1>3, <1>4, <2>1, <2>2, ToPromised
<1>5. CASE Finish(t, 1, None)
  <2>1. Ended(t, None)
    BY <1>1, <1>5, FinishEnds DEF Inv
  <2>2. reply'[t] = None
    BY <2>1 DEF Ended, Inv, TypeOK
  <2>3. Serial(t)!Answered([op |-> First(t).op, who |-> First(t).who], Took(First(t)))
    BY <1>3, <2>2 DEF Serial!Answered
  <2>4. QED
    BY <1>1, <1>2, <2>1, <2>3, EndedAnswers, EndedOthers
<1>6. QED
  BY <1>1, <1>4, <1>5 DEF DelRecord, DelKey, DelPublic

\* A refusal is an answer without an effect.
LEMMA RefusePromised ==
  ASSUME Inv, NEW t \in Tab, job[t] # <<>>, First(t).pc = "posted", Refuse(t, 1),
         First(t).op \in {"login", "recover", "complete", "change"}
  PROVE  Promised(t) /\ Others(t)
<1>1. UNCHANGED mem
  BY DEF Refuse, storage
<1>2. Ended(t, None)
  BY FinishEnds DEF Refuse, Inv
<1>3. ~ Took(First(t)) /\ First(t).op \in Op \ {"sign", "logout"}
  BY DEF Took, Op, Exclusive
<1>4. QED
  BY <1>1, <1>2, <1>3, AnsweredNone, EndedOthers

\* Setting a session and beginning to save it is where a sign-in takes effect; a rotation
\* has none that the page sees.
LEMMA PersistPromised ==
  ASSUME Inv, NEW t \in Tab, job[t] # <<>>, First(t) \in ServedCall, Persist(t, 1),
         First(t).pc = "posted", First(t).op \in {"login", "complete", "change"},
         NEW m \in Session, mem' = [mem EXCEPT ![t] = m],
         \/ First(t).op = "login" /\ m.signer = First(t).who /\ ~ m.pend
         \/ First(t).op = "complete" /\ m.signer = mem[t].signer /\ mem[t].pend /\ ~ m.pend
         \/ First(t).op = "change" /\ m.signer = mem[t].signer /\ m.pend = mem[t].pend,
         m.signer # None
  PROVE  Promised(t) /\ Others(t)
<1> DEFINE rec == Record(m.signer, m.cap, None)
           c   == [First(t) EXCEPT !.pc = "get_key", !.record = rec]
<1>1. mem'[t] = m
  BY DEF Inv, TypeOK
<1>2. rec \in StoredRecord
  BY DEF StoredRecord, Record, Session, Someone
<1>3. "get_key" \in Stages(First(t).op)
  BY DEF Stages
<1>4. c \in ServedCall /\ c.op = First(t).op /\ c.who = First(t).who
  BY <1>2, <1>3 DEF ServedCall
<1>5. Moved(t, c)
  BY <1>1, PersistMoves DEF Inv
<1>6. Others(t)
  BY <1>5, MovedOthers
<1>7. CASE First(t).op = "change"
  <2>1. ~ Took(First(t)) /\ ~ Took(c)
    BY <1>4, <1>7 DEF Took
  <2>2. QED
    BY <1>1, <1>4, <1>5, <1>6, <1>7, <2>1, MovedStutters
<1>8. CASE First(t).op # "change"
  <2>1. ~ Took(First(t)) /\ Took(c)
    BY <1>4, <1>8 DEF Took, ServedCall
  <2>2. mem'[t].pend = FALSE
    BY <1>1, <1>8 DEF Session
  <2>3. Serial(t)!Effect([op |-> First(t).op, who |-> First(t).who])
    BY <1>1, <1>8, <2>2 DEF Serial!Effect
  <2>4. QED
    BY <1>4, <1>5, <1>6, <2>1, <2>3, MovedTakes
<1>9. QED
  BY <1>7, <1>8

\* One lemma per handler, to the end of the section: registering and signing in,
LEMMA LoginPromised ==
  ASSUME Inv, NEW t \in Tab, NEW i \in Calls(t), Login(t, i)
  PROVE  Promised(t) /\ Others(t)
<1>1. i = 1 /\ job[t] # <<>> /\ First(t).pc = "posted" /\ First(t).op = "login"
      /\ First(t) \in ServedCall /\ InHand(First(t))
  BY FirstBegins DEF Login, Inv
<1>2. CASE /\ mem' = [mem EXCEPT ![t] = [signer |-> job[t][i].who, pend |-> FALSE, cap |-> New]]
           /\ Persist(t, i)
  <2>1. New \in Nat
    BY <1>2, MadeKeeps DEF Persist
  <2>2. First(t).who \in Ident
    BY <1>1 DEF InHand, ServedCall, Someone
  <2>3. [signer |-> First(t).who, pend |-> FALSE, cap |-> New] \in Session
    BY <2>1, <2>2 DEF Session, Someone
  <2>4. QED
    BY <1>1, <1>2, <2>2, <2>3, SessionAssumption, PersistPromised DEF First
<1>3. QED
  BY <1>1, <1>2, RefusePromised DEF Login

\* recovering, which is answered at once,
LEMMA RecoverPromised ==
  ASSUME Inv, NEW t \in Tab, NEW i \in Calls(t), Recover(t, i)
  PROVE  Promised(t) /\ Others(t)
<1>1. i = 1 /\ job[t] # <<>> /\ First(t).pc = "posted" /\ First(t).op = "recover"
      /\ First(t) \in ServedCall /\ InHand(First(t))
  BY FirstBegins DEF Recover, Inv
<1>2. CASE /\ mem' = [mem EXCEPT ![t] = [signer |-> job[t][i].who, pend |-> TRUE, cap |-> None]]
           /\ Finish(t, i, job[t][i].who)
  <2>1. Ended(t, First(t).who)
    BY <1>1, <1>2, FinishEnds DEF First, Inv
  <2>2. mem'[t].signer = First(t).who /\ mem'[t].pend = TRUE
    BY <1>1, <1>2 DEF Inv, TypeOK, First
  <2>3. reply'[t] = First(t).who
    BY <2>1 DEF Ended, Inv, TypeOK
  <2>4. /\ ~ Took(First(t))
        /\ Serial(t)!Effect([op |-> First(t).op, who |-> First(t).who])
        /\ Serial(t)!Answered([op |-> First(t).op, who |-> First(t).who], TRUE)
    BY <1>1, <2>2, <2>3 DEF Took, Serial!Effect, Serial!Answered
  <2>5. QED
    BY <1>1, <1>2, <2>1, <2>4, EndedAnswers, EndedOthers
<1>3. QED
  BY <1>1, <1>2, RefusePromised DEF Recover

\* completing a recovery,
LEMMA CompletePromised ==
  ASSUME Inv, NEW t \in Tab, NEW i \in Calls(t), CompleteRecovery(t, i)
  PROVE  Promised(t) /\ Others(t)
<1>1. i = 1 /\ job[t] # <<>> /\ First(t).pc = "posted" /\ First(t).op = "complete"
      /\ First(t) \in ServedCall /\ InHand(First(t))
  BY FirstBegins DEF CompleteRecovery, Inv
<1>2. CASE /\ mem[t].pend
           /\ mem' = [mem EXCEPT ![t] = [@ EXCEPT !.pend = FALSE, !.cap = New]]
           /\ Persist(t, i)
  <2> DEFINE m == [mem[t] EXCEPT !.pend = FALSE, !.cap = New]
  <2>1. New \in Nat
    BY <1>2, MadeKeeps DEF Persist
  <2>2. mem' = [mem EXCEPT ![t] = m]
    BY <1>2
  <2>3. m \in Session /\ m.signer = mem[t].signer /\ ~ m.pend /\ m.signer # None
    BY <1>2, <2>1 DEF Inv, TypeOK, Session, PendingIsUnlocked
  <2>4. QED
    BY <1>1, <1>2, <2>2, <2>3, PersistPromised
<1>3. QED
  BY <1>1, <1>2, RefusePromised DEF CompleteRecovery

\* changing the password,
LEMMA ChangePromised ==
  ASSUME Inv, NEW t \in Tab, NEW i \in Calls(t), ChangePassword(t, i)
  PROVE  Promised(t) /\ Others(t)
<1>1. i = 1 /\ job[t] # <<>> /\ First(t).pc = "posted" /\ First(t).op = "change"
      /\ First(t) \in ServedCall /\ InHand(First(t))
  BY FirstBegins DEF ChangePassword, Inv
<1> DEFINE m == [signer |-> mem[t].signer, pend |-> mem[t].pend, cap |-> New]
<1>2. mem' = [mem EXCEPT ![t].cap = New] => mem' = [mem EXCEPT ![t] = m]
  BY DEF Inv, TypeOK, Session
<1>3. New \in Nat => m \in Session
  BY DEF Inv, TypeOK, Session
<1>4. CASE mem[t].signer # None /\ mem' = [mem EXCEPT ![t].cap = New] /\ Persist(t, i)
  <2>1. m \in Session
    BY <1>3, <1>4, MadeKeeps DEF Persist
  <2>2. QED
    BY <1>1, <1>2, <1>4, <2>1, PersistPromised
<1>5. CASE mem' = [mem EXCEPT ![t].cap = New] /\ Finish(t, i, job[t][i].who)
  <2>1. Ended(t, First(t).who)
    BY <1>1, <1>5, FinishEnds DEF First, Inv
  <2>2. reply'[t] = First(t).who
    BY <2>1 DEF Ended, Inv, TypeOK
  <2>3. mem'[t].signer = mem[t].signer /\ mem'[t].pend = mem[t].pend
    BY <1>2, <1>5 DEF Inv, TypeOK
  <2>4. Serial(t)!Answered([op |-> First(t).op, who |-> First(t).who], Took(First(t)))
    BY <1>1, <2>2 DEF Serial!Answered
  <2>5. QED
    BY <1>1, <1>2, <1>5, <2>1, <2>3, <2>4, EndedAnswers, EndedOthers
<1>6. QED
  BY <1>1, <1>4, <1>5, RefusePromised DEF ChangePassword

\* signing, which tells which identity is unlocked,
LEMMA SignPromised ==
  ASSUME Inv, NEW t \in Tab, NEW i \in Calls(t), Sign(t, i)
  PROVE  Promised(t) /\ Others(t)
<1>1. i = 1 /\ job[t] # <<>> /\ First(t).pc = "posted" /\ First(t).op = "sign"
      /\ First(t) \in ServedCall /\ InHand(First(t))
  BY FirstBegins DEF Sign, Inv
<1>2. UNCHANGED mem
  BY DEF Sign, storage
<1>3. Ended(t, mem[t].signer)
  BY <1>1, FinishEnds DEF Sign, Inv
<1>4. reply'[t] = mem[t].signer
  BY <1>3 DEF Ended, Inv, TypeOK
<1>5. Serial(t)!Answered([op |-> First(t).op, who |-> First(t).who], Took(First(t)))
  BY <1>1, <1>4 DEF Serial!Answered
<1>6. QED
  BY <1>1, <1>2, <1>3, <1>5, EndedAnswers, EndedOthers

\* restoring,
LEMMA RestorePromised ==
  ASSUME Inv, NEW t \in Tab, NEW i \in Calls(t), RestoreSession(t, i)
  PROVE  Promised(t) /\ Others(t)
<1>1. i = 1 /\ job[t] # <<>> /\ First(t).pc = "posted" /\ First(t).op = "restore"
      /\ First(t) \in ServedCall /\ InHand(First(t))
  BY FirstBegins DEF RestoreSession, Inv
<1>2. "get_record" \in Stages(First(t).op)
  BY <1>1 DEF Stages
<1>3. ~ Took(First(t)) /\ ~ Took([First(t) EXCEPT !.pc = "get_record"])
  BY <1>1 DEF Took, ServedCall
<1>4. UNCHANGED mem
  BY DEF RestoreSession, storage
<1>5. QED
  BY <1>1, <1>2, <1>3, <1>4, ToPromised DEF RestoreSession

\* and logging out, which takes effect before the database is cleared.
LEMMA LogoutPromised ==
  ASSUME Inv, NEW t \in Tab, NEW i \in Calls(t), Logout(t, i)
  PROVE  Promised(t) /\ Others(t)
<1>1. i = 1 /\ job[t] # <<>> /\ First(t).pc = "posted" /\ First(t).op = "logout"
      /\ First(t) \in ServedCall /\ InHand(First(t))
  BY FirstBegins DEF Logout, Inv
<1> DEFINE c == [First(t) EXCEPT !.pc = "del_record"]
<1>2. c \in ServedCall /\ c.op = First(t).op /\ c.who = First(t).who
  BY <1>1, StageIsTyped DEF Stages, ServedCall
<1>3. Moved(t, c)
  BY <1>1, ToMoves DEF Logout, Inv
<1>4. ~ Took(First(t)) /\ Took(c)
  BY <1>1 DEF Took, ServedCall
<1>5. mem'[t].signer = None /\ mem'[t].pend = FALSE
  BY DEF Logout, Locked, Inv, TypeOK
<1>6. Serial(t)!Effect([op |-> First(t).op, who |-> First(t).who])
  BY <1>1, <1>5 DEF Serial!Effect
<1>7. Others(t)
  BY <1>3, MovedOthers DEF Logout
<1>8. QED
  BY <1>1, <1>2, <1>3, <1>4, <1>6, <1>7, MovedTakes

\* A call that a page posts is a Post of its SerialSession.
LEMMA PostPromised ==
  ASSUME Inv, NEW t \in Tab, NEW op \in Op, NEW i \in Someone, Post(t, op, i)
  PROVE  Promised(t) /\ Others(t)
<1> DEFINE c == NewCall(op, i)
<1>1. c \in ServedCall /\ c.op = op /\ c.who = i /\ c.pc = "posted"
  BY NewCallIsTyped, OfferedIsNamed DEF Post, NewCall
<1>2. job' = [job EXCEPT ![t] = Append(@, c)]
  BY DEF Post
<1>3. Queue(t)' = Append(Queue(t), [op |-> op, who |-> i])
  BY <1>1, <1>2, AppendQueue
<1>4. Served(t)' = Served(t)
  <2>1. /\ job'[t] \in Seq(ServedCall) /\ Calls(t)' = 1 .. (Len(job[t]) + 1) 
        /\ \A j \in Calls(t) : job'[t][j] = job[t][j]
        /\ job'[t][Len(job[t]) + 1] = c
    BY <1>1, <1>2, PostedQueue DEF Inv
  <2>2. Len(job[t]) \in Nat /\ (job[t] # <<>> <=> 1 \in Calls(t))
    BY Queued DEF Inv
  <2>3. job'[t] # <<>>
    BY <2>1, <2>2, EmptySeq DEF Calls
  <2>4. CASE job[t] # <<>>
    BY <2>1, <2>2, <2>3, <2>4 DEF Served
  <2>5. CASE job[t] = <<>>
    <3>1. job'[t][1] = c
      BY <2>1, <2>5
    <3>2. ~ Served(t) /\ ~ Served(t)'
      BY <1>1, <2>5, <3>1 DEF Served
    <3>3. QED
      BY <3>2 DEF Served
  <2>6. QED
    BY <2>4, <2>5
<1>5. Serial(t)!Post([op |-> op, who |-> i])
  BY <1>3, <1>4 DEF Post, Serial!Post, Queue
<1>6. Promised(t)
  BY <1>5 DEF Promised, Serial!Next, Op, Exclusive, Someone
<1>7. Others(t)
  BY DEF Post, Others, Inv, TypeOK
<1>8. QED
  BY <1>6, <1>7

\* A timeout is a stutter: the worker carries on (workerClient.ts).
LEMMA ImpatientPromised ==
  ASSUME Inv, NEW t \in Tab, NEW gone, Impatient(t, gone)
  PROVE  Promised(t) /\ Others(t)
<1>1. /\ Calls(t)' = Calls(t) /\ job' \in [Tab -> Seq(ServedCall)]
      /\ \A u \in Tab : u # t => job'[u] = job[u]
      /\ \A i \in Calls(t) :
           job'[t][i] = IF i \in gone THEN [job[t][i] EXCEPT !.awaited = FALSE] ELSE job[t][i]
  BY GivenUp
<1>2. \A i \in Calls(t) : /\ job'[t][i].op = job[t][i].op /\ job'[t][i].who = job[t][i].who
                          /\ job'[t][i].pc = job[t][i].pc
  BY <1>1, Queued DEF Inv, ServedCall
<1>3. Queue(t)' = Queue(t)
  BY <1>1, <1>2, SameQueue
<1>4. Served(t)' = Served(t)
  <2>1. job'[t] # <<>> <=> job[t] # <<>>
    BY <1>1, EmptySeq, Queued DEF Calls, Inv
  <2>2. QED
    BY <1>2, <2>1, Queued DEF Served, Inv
<1>5. QED
  BY <1>1, <1>3, <1>4, SerialVars DEF Impatient, Others

\* So is a storage operation that hangs: what was promised is an order, not an end.
LEMMA HangPromised ==
  ASSUME Inv, NEW t \in Tab, NEW i \in Calls(t), Hang(t, i)
  PROVE  Promised(t) /\ Others(t)
<1>1. UNCHANGED <<disk, mem, job, reply, page>>
  BY HangEffect
<1>2. Calls(t)' = Calls(t)
  BY <1>1 DEF Calls
<1>3. Queue(t)' = Queue(t) /\ Served(t)' = Served(t)
  BY <1>1, <1>2 DEF Queue, Served
<1>4. QED
  BY <1>1, <1>3, SerialVars DEF Others

\* A reload is Gone.
LEMMA ReloadPromised ==
  ASSUME Inv, NEW t \in Tab, Reload(t)
  PROVE  Promised(t) /\ Others(t)
<1>1. job'[t] = <<>> /\ reply'[t] = None /\ mem'[t] = Locked
  BY DEF Reload, Inv, TypeOK
<1>2. Calls(t)' = {}
  BY <1>1 DEF Calls
<1>3. Queue(t)' = <<>>
  BY <1>2 DEF Queue
<1>4. Served(t)' = FALSE
  BY <1>1 DEF Served
<1>5. Serial(t)!Gone
  BY <1>1, <1>3, <1>4 DEF Serial!Gone, Locked, Queue
<1>6. QED
  BY <1>5 DEF Promised, Serial!Next, Reload, Others, Inv, TypeOK

\* Whatever the worker does keeps the promise.
LEMMA ServePromised ==
  ASSUME Inv, NEW t \in Tab, NEW i \in Calls(t), Handler(t, i) \/ StorageStep(t, i)
  PROVE  Promised(t) /\ Others(t)
<1>1. CASE Handler(t, i)
  BY <1>1, LoginPromised, RecoverPromised, CompletePromised, ChangePromised, SignPromised,
     RestorePromised, LogoutPromised DEF Handler
<1>2. CASE StorageStep(t, i)
  BY <1>2, KeyPromised, SavePromised, LoadPromised, DecryptPromised, ClearPromised
     DEF StorageStep
<1>3. QED
  BY <1>1, <1>2

\* Every step is a step or a stutter of every tab's SerialSession.
LEMMA StepPromised ==
  ASSUME Inv, [Next]_vars
  PROVE  \A t \in Tab : Promised(t)
<1>1. CASE UNCHANGED vars
  <2>1. \A t \in Tab : Calls(t)' = Calls(t)
    BY <1>1 DEF vars, Calls
  <2>2. \A t \in Tab : Queue(t)' = Queue(t) /\ Served(t)' = Served(t)
    BY <1>1, <2>1 DEF vars, Queue, Served
  <2>3. QED
    BY <1>1, <2>2, SerialVars DEF vars, storage
<1>2. ASSUME NEW t \in Tab, Promised(t) /\ Others(t)
      PROVE  \A u \in Tab : Promised(u)
  BY <1>2, OthersPromised
<1>3. ASSUME NEW t \in Tab, NEW op \in Op, NEW i \in Ident \cup {None}, Post(t, op, i)
      PROVE  \A u \in Tab : Promised(u)
  BY <1>2, <1>3, PostPromised DEF Someone
<1>4. ASSUME NEW t \in Tab, (\E i \in Calls(t) : TimeOut(t, i)) \/ WorkerError(t)
      PROVE  \A u \in Tab : Promised(u)
  BY <1>2, <1>4, ImpatientPromised DEF TimeOut, WorkerError
<1>5. ASSUME NEW t \in Tab, Reload(t)
      PROVE  \A u \in Tab : Promised(u)
  BY <1>2, <1>5, ReloadPromised
<1>6. ASSUME NEW t \in Tab, NEW i \in Calls(t), Handler(t, i) \/ StorageStep(t, i)
      PROVE  \A u \in Tab : Promised(u)
  BY <1>2, <1>6, ServePromised
<1>7. ASSUME NEW t \in Tab, NEW i \in Calls(t), Hang(t, i)
      PROVE  \A u \in Tab : Promised(u)
  BY <1>2, <1>7, HangPromised
<1>8. QED
  BY <1>1, <1>3, <1>4, <1>5, <1>6, <1>7 DEF Next, Serve

\* The initial states map to initial states.
LEMMA InitPromised == Init => \A t \in Tab : Serial(t)!Init
<1> SUFFICES ASSUME Init, NEW t \in Tab PROVE Serial(t)!Init
  OBVIOUS
<1>1. job[t] = <<>> /\ reply[t] = None /\ mem[t] = Locked /\ Calls(t) = {}
  BY DEF Init, Calls
<1>2. Queue(t) = <<>> /\ Served(t) = FALSE
  BY <1>1 DEF Queue, Served
<1>3. QED
  BY <1>1, <1>2 DEF Serial!Init, Queue, Locked

\* The property the run checks: at every step, each worker serves its calls in the order
\* the page made them, one at a time, and answers say what happened (serialQueue.ts:2-4).
THEOREM EachWorkerIsSerial == Spec => ServesInOrder
<1>1. Inv /\ [Next]_vars => [\A t \in Tab : UNCHANGED Serial(t)!vars \/ Serial(t)!Next]_vars
  BY StepPromised DEF Promised
<1>2. QED
  BY <1>1, InitPromised, InvHolds, PTL DEF Spec, ServesInOrder

\* The refinement as it is meant: what each tab sees of its worker is a behaviour of
\* SerialSession, whatever the other tabs do to the database they share.
THEOREM WorkerImplementsSerialSession ==
  ASSUME NEW t \in Tab
  PROVE  Spec => Serial(t)!Spec
<1>1. Init => Serial(t)!Init
  BY InitPromised
<1>2. Inv /\ [Next]_vars => [Serial(t)!Next]_(Serial(t)!vars)
  BY StepPromised DEF Promised
<1>3. QED
  BY <1>1, <1>2, InvHolds, PTL DEF Spec, Serial!Spec
=============================================================================
