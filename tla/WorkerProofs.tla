----------------------------- MODULE WorkerProofs -----------------------------
(*****************************************************************************)
(* The invariant of the worker's session, for any tabs, identities, calls    *)
(* and faults.  A call that runs has in its hands what its next storage      *)
(* operation needs, which depends on the await it is at; and only the first  *)
(* call of a queue has begun (serialQueue.ts).  Both are needed to see that  *)
(* what is written to the database, the session and the page is well         *)
(* formed.                                                                   *)
(*****************************************************************************)
EXTENDS WorkerSession, SequenceTheorems, TLAPS

\* What call c has in its hands at its await: a sign-in is about somebody, a save has the
\* record it saves (cryptoWorker.ts, persistCurrentSession), and what encrypts or
\* decrypts a record has a device key.
InHand(c) ==
  /\ c.pc \in Stages(c.op)
  /\ c.op \notin {"sign", "logout", "restore"} => c.who # None
  /\ c.pc \in {"get_key", "add_key", "raced_key", "put_record", "decrypt"} => c.record # None
  /\ c.pc \in {"put_record", "decrypt"} => c.key # None

\* Of the calls of a worker only the first has begun: that is the queue of
\* serialQueue.ts.
OneAtATime ==
  \A t \in Tab : \A i \in Calls(t) :
    InHand(job[t][i]) /\ (i > 1 => job[t][i].pc = "posted")

\* A recovery that is not completed keeps its identity unlocked.
PendingIsUnlocked == \A t \in Tab : mem[t].pend => mem[t].signer # None

\* The inductive invariant, on which the refinement and the other safety proofs build.
Inv == TypeOK /\ OneAtATime /\ PendingIsUnlocked

\* The call that a worker is serving.
First(t) == job[t][1]

\* A step of the first call of t to its next await, where it is c.
Moved(t, c) ==
  /\ job' = [job EXCEPT ![t] = [job[t] EXCEPT ![1] = c]]
  /\ UNCHANGED <<reply, page>>

\* A step in which the first call of t ends and is answered.
Ended(t, answer) ==
  /\ job' = [job EXCEPT ![t] = Tail(job[t])]
  /\ reply' = [reply EXCEPT ![t] = answer]
  /\ page' = [page EXCEPT ![t] =
       IF First(t).awaited THEN Told(page[t], First(t), answer) ELSE page[t]]

\* Dropping the first of a sequence leaves its tail.
LEMMA FirstRemoved ==
  ASSUME NEW S, NEW s \in Seq(S), s # <<>>
  PROVE  RemoveAt(s, 1) = Tail(s)
<1>1. Len(s) \in Nat /\ 1 - 1 = 0 /\ 1 + 1 = 2
  OBVIOUS
<1>2. SubSeq(s, 1, 0) = <<>>
  BY SubSeqEmpty
<1>3. SubSeq(s, 2, Len(s)) = Tail(s)
  BY TailIsSubSeq
<1>4. Tail(s) \in Seq(S)
  BY HeadTailProperties
<1>5. <<>> \o Tail(s) = Tail(s)
  BY <1>4, ConcatEmptySeq
<1>6. RemoveAt(s, 1) = SubSeq(s, 1, 1 - 1) \o SubSeq(s, 1 + 1, Len(s))
  BY DEF RemoveAt
<1>7. QED
  BY <1>1, <1>2, <1>3, <1>5, <1>6

\* The calls of a worker are typed.
LEMMA Queued ==
  ASSUME TypeOK, NEW t \in Tab
  PROVE  /\ job[t] \in Seq(ServedCall)
         /\ Len(job[t]) \in Nat
         /\ job[t] # <<>> <=> 1 \in Calls(t)
         /\ \A i \in Calls(t) : job[t][i] \in ServedCall /\ i \in Nat /\ job[t] # <<>>
  BY DEF TypeOK, Calls

\* What a step to the next await does to the queues: one call of one tab changes.
LEMMA MovedQueue ==
  ASSUME TypeOK, NEW t \in Tab, NEW c \in ServedCall, job[t] # <<>>, Moved(t, c)
  PROVE  /\ job' \in [Tab -> Seq(ServedCall)]
         /\ \A u \in Tab : u # t => job'[u] = job[u]
         /\ \A u \in Tab : Calls(u)' = Calls(u)
         /\ job'[t][1] = c
         /\ \A i \in Calls(t) : i > 1 => job'[t][i] = job[t][i]
  BY Queued DEF TypeOK, Calls, Moved

\* What the end of a call does to the queues: the others move up.
LEMMA EndedQueue ==
  ASSUME TypeOK, NEW t \in Tab, NEW a, job[t] # <<>>, Ended(t, a)
  PROVE  /\ job' \in [Tab -> Seq(ServedCall)]
         /\ \A u \in Tab : u # t => job'[u] = job[u] /\ Calls(u)' = Calls(u)
         /\ Calls(t)' = 1 .. (Len(job[t]) - 1)
         /\ \A i \in Calls(t)' : i + 1 \in Calls(t) /\ i + 1 > 1 /\ job'[t][i] = job[t][i + 1]
<1>1. job[t] \in Seq(ServedCall)
  BY DEF TypeOK
<1>2. Tail(job[t]) \in Seq(ServedCall) /\ Len(Tail(job[t])) = Len(job[t]) - 1
  BY <1>1
<1>3. \A i \in 1 .. (Len(job[t]) - 1) : Tail(job[t])[i] = job[t][i + 1]
  BY <1>1
<1>4. job' \in [Tab -> Seq(ServedCall)] /\ job'[t] = Tail(job[t])
  BY <1>2 DEF TypeOK, Ended
<1>5. \A u \in Tab : u # t => job'[u] = job[u]
  BY DEF TypeOK, Ended
<1>6. QED
  BY <1>1, <1>2, <1>3, <1>4, <1>5 DEF Calls

\* An answer that is an identity or none leaves the page typed.
LEMMA ToldIsTyped ==
  ASSUME NEW p \in Page,
         NEW c, NEW a \in Someone
  PROVE  Told(p, c, a) \in Page
  BY DEF Told, Fresh, Page, Someone

\* Moving on leaves the later calls of the queue where they were: not begun.
LEMMA MovedShape ==
  ASSUME TypeOK, OneAtATime, NEW t \in Tab, NEW c \in ServedCall, job[t] # <<>>,
         InHand(c), Moved(t, c)
  PROVE  OneAtATime'
<1> SUFFICES ASSUME NEW u \in Tab, NEW i \in Calls(u)'
             PROVE  InHand(job'[u][i]) /\ (i > 1 => job'[u][i].pc = "posted")
  BY DEF OneAtATime, InHand
<1>1. i \in Calls(u) /\ i \in Nat /\ i >= 1
  BY MovedQueue DEF Calls
<1>2. CASE u = t /\ i = 1
  BY <1>2, MovedQueue
<1>3. CASE ~ (u = t /\ i = 1)
  <2>1. job'[u][i] = job[u][i]
    BY <1>1, <1>3, MovedQueue
  <2>2. QED
    BY <1>1, <2>1 DEF OneAtATime
<1>4. QED
  BY <1>2, <1>3

\* When the first call ends, the next one has not begun yet.
LEMMA EndedShape ==
  ASSUME TypeOK, OneAtATime, NEW t \in Tab, NEW a, job[t] # <<>>, Ended(t, a)
  PROVE  OneAtATime'
<1> SUFFICES ASSUME NEW u \in Tab, NEW i \in Calls(u)'
             PROVE  InHand(job'[u][i]) /\ (i > 1 => job'[u][i].pc = "posted")
  BY DEF OneAtATime, InHand
<1>1. CASE u = t
  BY <1>1, EndedQueue DEF OneAtATime
<1>2. CASE u # t
  BY <1>2, EndedQueue DEF OneAtATime
<1>3. QED
  BY <1>1, <1>2

\* Whatever call is at an await behind 'posted' is the first of its queue.
LEMMA FirstServed ==
  ASSUME TypeOK, OneAtATime, NEW t \in Tab, NEW i \in Calls(t), NEW a, At(t, i, a), a # "posted"
  PROVE  i = 1 /\ job[t] # <<>> /\ First(t).pc = a /\ First(t) \in ServedCall /\ InHand(First(t))
  BY Queued DEF OneAtATime, At, First, Calls

\* The call a handler begins with is the first of its queue.
LEMMA FirstBegins ==
  ASSUME TypeOK, OneAtATime, NEW t \in Tab, NEW i \in Calls(t), NEW op, Begins(t, i, op)
  PROVE  /\ i = 1 /\ job[t] # <<>> /\ First(t).pc = "posted" /\ First(t).op = op
         /\ First(t) \in ServedCall /\ InHand(First(t))
  BY Queued DEF OneAtATime, At, First, Calls, Begins, Turn

\* The step To of the model is a move of the first call.
LEMMA ToMoves ==
  ASSUME TypeOK, NEW t \in Tab, job[t] # <<>>, NEW a, To(t, 1, a)
  PROVE  Moved(t, [First(t) EXCEPT !.pc = a])
  BY Queued DEF TypeOK, To, Moved, First

\* With a device key the first call moves on, to decrypting or to writing.
LEMMA HasKeyMoves ==
  ASSUME TypeOK, NEW t \in Tab, job[t] # <<>>, NEW k, HasKey(t, 1, k)
  PROVE  Moved(t, [First(t) EXCEPT !.key = k,
                     !.pc = IF First(t).op = "restore" THEN "decrypt" ELSE "put_record"])
  BY Queued DEF TypeOK, HasKey, Moved, First, Restoring

\* Saving moves the first call on, with the session as it is now in its hands.
LEMMA PersistMoves ==
  ASSUME TypeOK, NEW t \in Tab, job[t] # <<>>, Persist(t, 1)
  PROVE  Moved(t, [First(t) EXCEPT !.pc = "get_key",
                     !.record = Record(mem'[t].signer, mem'[t].cap, None)])
  BY Queued DEF TypeOK, Persist, Moved, First

\* The step Finish of the model is an end of the first call.
LEMMA FinishEnds ==
  ASSUME TypeOK, NEW t \in Tab, job[t] # <<>>, NEW a, Finish(t, 1, a)
  PROVE  Ended(t, a)
<1>1. RemoveAt(job[t], 1) = Tail(job[t])
  BY FirstRemoved DEF TypeOK
<1>2. QED
  BY <1>1 DEF TypeOK, Finish, Ended, First

\* The part of the invariant about the database, the sessions and the counters.
StorageTyped ==
  /\ disk \in Database
  /\ mem \in [Tab -> Session]
  /\ count \in Tally
  /\ signedOut \in BOOLEAN
  /\ PendingIsUnlocked

\* It is a part of the invariant.
LEMMA StorageIsTyped == Inv => StorageTyped
  BY DEF Inv, TypeOK, StorageTyped

\* A step that touches no storage keeps it.
LEMMA StorageStays ==
  ASSUME Inv, UNCHANGED storage
  PROVE  StorageTyped'
  BY DEF Inv, TypeOK, StorageTyped, storage, PendingIsUnlocked

\* A storage operation that fails keeps it.
LEMMA FailsKeeps ==
  ASSUME Inv, Fails
  PROVE  StorageTyped'
<1>1. count.failures + 1 \in Nat
  BY DEF Inv, TypeOK, Tally
<1>2. [count EXCEPT !.failures = count.failures + 1] \in Tally
  BY <1>1 DEF Inv, TypeOK, Tally
<1>3. QED
  BY <1>2 DEF Inv, TypeOK, StorageTyped, Fails, PendingIsUnlocked

\* A new capsule or device key has a number.
LEMMA MadeKeeps ==
  ASSUME Inv, Made
  PROVE  count' \in Tally /\ New \in Nat
<1>1. count.made + 1 \in Nat
  BY DEF Inv, TypeOK, Tally
<1>2. [count EXCEPT !.made = count.made + 1] \in Tally
  BY <1>1 DEF Inv, TypeOK, Tally
<1>3. QED
  BY <1>1, <1>2 DEF Made, New

\* A move keeps the invariant when the storage stays typed and the call has in its hands
\* what its new await needs.
LEMMA MovedKeeps ==
  ASSUME Inv, StorageTyped', NEW t \in Tab, NEW c \in ServedCall, job[t] # <<>>, InHand(c),
         Moved(t, c)
  PROVE  Inv'
<1>1. job' \in [Tab -> Seq(ServedCall)]
  BY MovedQueue DEF Inv
<1>2. reply' = reply /\ page' = page
  BY DEF Moved
<1>3. OneAtATime'
  BY MovedShape DEF Inv
<1>4. QED
  BY <1>1, <1>2, <1>3 DEF Inv, TypeOK, StorageTyped

\* So does an end that answers with an identity or none.
LEMMA EndedKeeps ==
  ASSUME Inv, StorageTyped', NEW t \in Tab, NEW a \in Someone, job[t] # <<>>,
         Ended(t, a)
  PROVE  Inv'
<1>1. job' \in [Tab -> Seq(ServedCall)]
  BY EndedQueue DEF Inv
<1>2. reply' \in [Tab -> Someone]
  BY DEF Ended, Inv, TypeOK
<1>3. page' \in [Tab -> Page]
  BY ToldIsTyped DEF Ended, Inv, TypeOK
<1>4. OneAtATime'
  BY EndedShape DEF Inv
<1>5. QED
  BY <1>1, <1>2, <1>3, <1>4 DEF Inv, TypeOK, StorageTyped

\* A call may be at any await of its own kind.
LEMMA StageIsTyped ==
  ASSUME NEW c \in ServedCall, NEW a \in Stages(c.op)
  PROVE  [c EXCEPT !.pc = a] \in ServedCall
  BY DEF ServedCall

\* Going on without a device key keeps the invariant.
LEMMA NoKeyKeeps ==
  ASSUME Inv, StorageTyped', NEW t \in Tab, job[t] # <<>>, NoKey(t, 1),
         First(t).pc \in {"get_key", "raced_key"}, First(t) \in ServedCall, InHand(First(t))
  PROVE  Inv'
<1>1. CASE Restoring(t, 1)
  BY <1>1, FinishEnds, EndedKeeps DEF NoKey, Inv, Someone
<1>2. CASE ~ Restoring(t, 1)
  <2>1. "put_public" \in Stages(First(t).op)
    BY <1>2 DEF InHand, Stages, Restoring, First
  <2>2. Moved(t, [First(t) EXCEPT !.pc = "put_public"])
    BY <1>2, ToMoves DEF NoKey, Inv
  <2>3. [First(t) EXCEPT !.pc = "put_public"] \in ServedCall
    BY <2>1, StageIsTyped
  <2>4. InHand([First(t) EXCEPT !.pc = "put_public"])
    BY <2>1 DEF InHand, ServedCall
  <2>5. QED
    BY <2>2, <2>3, <2>4, MovedKeeps
<1>3. QED
  BY <1>1, <1>2

\* Going on with one does too.
LEMMA HasKeyKeeps ==
  ASSUME Inv, StorageTyped', NEW t \in Tab, job[t] # <<>>, NEW k \in Nat, HasKey(t, 1, k),
         First(t).pc \in {"get_key", "add_key", "raced_key"}, First(t) \in ServedCall,
         InHand(First(t))
  PROVE  Inv'
<1> DEFINE c == [First(t) EXCEPT !.key = k,
                   !.pc = IF First(t).op = "restore" THEN "decrypt" ELSE "put_record"]
<1>1. c.pc \in Stages(First(t).op)
  BY DEF InHand, Stages, ServedCall
<1>2. c \in ServedCall
  BY <1>1 DEF ServedCall
<1>3. InHand(c)
  BY <1>1, SessionAssumption DEF InHand, ServedCall
<1>4. Moved(t, c)
  BY HasKeyMoves DEF Inv
<1>5. QED
  BY <1>2, <1>3, <1>4, MovedKeeps

\* Reading the device key keeps the invariant.
LEMMA GetKeyStep ==
  ASSUME Inv, NEW t \in Tab, NEW i \in Calls(t), GetKey(t, i)
  PROVE  Inv'
<1>1. i = 1 /\ job[t] # <<>> /\ First(t).pc = "get_key" /\ First(t) \in ServedCall
      /\ InHand(First(t))
  BY FirstServed DEF GetKey, Inv
<1>2. CASE disk.key # None /\ HasKey(t, i, disk.key) /\ UNCHANGED storage
  <2>1. disk.key \in Nat
    BY <1>2 DEF Inv, TypeOK, Database
  <2>2. QED
    BY <1>1, <1>2, <2>1, HasKeyKeeps, StorageStays
<1>3. CASE To(t, i, "add_key") /\ UNCHANGED storage
  <2>1. "add_key" \in Stages(First(t).op)
    BY <1>1 DEF InHand, Stages
  <2>2. InHand([First(t) EXCEPT !.pc = "add_key"])
    BY <1>1, <2>1 DEF InHand, ServedCall
  <2>3. QED
    BY <1>1, <1>3, <2>1, <2>2, ToMoves, StageIsTyped, MovedKeeps, StorageStays DEF Inv
<1>4. CASE NoKey(t, i) /\ Fails
  BY <1>1, <1>4, NoKeyKeeps, FailsKeeps
<1>5. QED
  BY <1>2, <1>3, <1>4 DEF GetKey

\* A step that moves a call on, and nothing else of it, keeps the invariant.
LEMMA Advances ==
  ASSUME Inv, StorageTyped', NEW t \in Tab, job[t] # <<>>, NEW a \in Stages(First(t).op),
         To(t, 1, a), First(t) \in ServedCall, InHand(First(t)),
         a \in {"get_key", "add_key", "raced_key", "put_record", "decrypt"}
           => First(t).record # None,
         a \in {"put_record", "decrypt"} => First(t).key # None
  PROVE  Inv'
<1>1. InHand([First(t) EXCEPT !.pc = a])
  BY DEF InHand, ServedCall
<1>2. QED
  BY <1>1, ToMoves, StageIsTyped, MovedKeeps DEF Inv

\* An answer keeps the invariant.
LEMMA Finishes ==
  ASSUME Inv, StorageTyped', NEW t \in Tab, job[t] # <<>>, NEW a \in Someone, Finish(t, 1, a)
  PROVE  Inv'
  BY FinishEnds, EndedKeeps DEF Inv

\* Writing a well-formed database keeps the storage typed.
LEMMA DiskKeeps ==
  ASSUME Inv, disk' \in Database, UNCHANGED <<mem, count, signedOut>>
  PROVE  StorageTyped'
  BY DEF Inv, TypeOK, StorageTyped, PendingIsUnlocked

\* Creating the device key keeps the invariant.
LEMMA AddKeyStep ==
  ASSUME Inv, NEW t \in Tab, NEW i \in Calls(t), AddKey(t, i)
  PROVE  Inv'
<1>1. i = 1 /\ job[t] # <<>> /\ First(t).pc = "add_key" /\ First(t) \in ServedCall
      /\ InHand(First(t))
  BY FirstServed DEF AddKey, Inv
<1>2. CASE /\ disk' = [disk EXCEPT !.key = New]
           /\ HasKey(t, i, New)
           /\ Made
           /\ UNCHANGED <<mem, signedOut>>
  <2>1. New \in Nat /\ count' \in Tally
    BY <1>2, MadeKeeps
  <2>2. disk' \in Database
    BY <1>2, <2>1 DEF Inv, TypeOK, Database
  <2>3. StorageTyped'
    BY <1>2, <2>1, <2>2 DEF Inv, TypeOK, StorageTyped, PendingIsUnlocked
  <2>4. QED
    BY <1>1, <1>2, <2>1, <2>3, HasKeyKeeps
<1>3. ASSUME To(t, i, "raced_key"), StorageTyped'
      PROVE  Inv'
  <2>1. "raced_key" \in Stages(First(t).op)
    BY <1>1 DEF InHand, Stages
  <2>2. QED
    BY <1>1, <1>3, <2>1, Advances DEF InHand
<1>4. QED
  BY <1>2, <1>3, StorageStays, FailsKeeps DEF AddKey

\* Taking the key another page created keeps the invariant.
LEMMA RacedKeyStep ==
  ASSUME Inv, NEW t \in Tab, NEW i \in Calls(t), RacedKey(t, i)
  PROVE  Inv'
<1>1. i = 1 /\ job[t] # <<>> /\ First(t).pc = "raced_key" /\ First(t) \in ServedCall
      /\ InHand(First(t))
  BY FirstServed DEF RacedKey, Inv
<1>2. CASE disk.key # None /\ HasKey(t, i, disk.key) /\ UNCHANGED storage
  <2>1. disk.key \in Nat
    BY <1>2 DEF Inv, TypeOK, Database
  <2>2. QED
    BY <1>1, <1>2, <2>1, HasKeyKeeps, StorageStays
<1>3. ASSUME NoKey(t, i), StorageTyped'
      PROVE  Inv'
  BY <1>1, <1>3, NoKeyKeeps
<1>4. QED
  BY <1>2, <1>3, StorageStays, FailsKeeps DEF RacedKey

\* Writing the record keeps the invariant: the call has a record and a key.
LEMMA PutRecordStep ==
  ASSUME Inv, NEW t \in Tab, NEW i \in Calls(t), PutRecord(t, i)
  PROVE  Inv'
<1>1. i = 1 /\ job[t] # <<>> /\ First(t).pc = "put_record" /\ First(t) \in ServedCall
      /\ InHand(First(t))
  BY FirstServed DEF PutRecord, Inv
<1>2. "put_public" \in Stages(First(t).op)
  BY <1>1 DEF InHand, Stages
<1>3. StorageTyped'
  <2>1. CASE /\ disk' = [disk EXCEPT !.record = [job[t][i].record EXCEPT !.key = job[t][i].key]]
             /\ UNCHANGED <<mem, count, signedOut>>
    <3>1. First(t).record \in StoredRecord /\ First(t).key \in Nat
      BY <1>1 DEF InHand, ServedCall
    <3>2. [First(t).record EXCEPT !.key = First(t).key] \in StoredRecord
      BY <3>1 DEF StoredRecord
    <3>3. disk' \in Database
      BY <1>1, <2>1, <3>2 DEF Inv, TypeOK, Database, First
    <3>4. QED
      BY <2>1, <3>3, DiskKeeps
  <2>2. QED
    BY <2>1, FailsKeeps DEF PutRecord
<1>4. QED
  BY <1>1, <1>2, <1>3, Advances DEF PutRecord

\* A save is answered with an identity or none.
LEMMA AnswerIsSomeone ==
  ASSUME Inv, NEW t \in Tab, First(t) \in ServedCall
  PROVE  Answer(t, 1) \in Someone
  BY DEF Inv, TypeOK, Answer, ServedCall, Session, First

\* Writing the public identity keeps the invariant.
LEMMA PutPublicStep ==
  ASSUME Inv, NEW t \in Tab, NEW i \in Calls(t), PutPublic(t, i)
  PROVE  Inv'
<1>1. i = 1 /\ job[t] # <<>> /\ First(t).pc = "put_public" /\ First(t) \in ServedCall
      /\ InHand(First(t))
  BY FirstServed DEF PutPublic, Inv
<1>2. StorageTyped'
  <2>1. CASE /\ disk' = IF mem[t].signer = None THEN disk
                         ELSE [disk EXCEPT !.public = mem[t].signer]
             /\ UNCHANGED <<mem, count, signedOut>>
    <3>1. mem[t].signer \in Someone
      BY DEF Inv, TypeOK, Session
    <3>2. disk' \in Database
      BY <2>1, <3>1 DEF Inv, TypeOK, Database
    <3>3. QED
      BY <2>1, <3>2, DiskKeeps
  <2>2. QED
    BY <2>1, FailsKeeps DEF PutPublic
<1>3. QED
  BY <1>1, <1>2, AnswerIsSomeone, Finishes DEF PutPublic

\* Reading the record keeps the invariant.
LEMMA GetRecordStep ==
  ASSUME Inv, NEW t \in Tab, NEW i \in Calls(t), GetRecord(t, i)
  PROVE  Inv'
<1>1. i = 1 /\ job[t] # <<>> /\ First(t).pc = "get_record" /\ First(t) \in ServedCall
      /\ InHand(First(t))
  BY FirstServed DEF GetRecord, Inv
<1>2. CASE /\ disk.record # None
           /\ job' = [job EXCEPT ![t][i] =
                [@ EXCEPT !.record = disk.record,
                          !.pc = IF disk.record.key = None THEN "drop_record" ELSE "get_key"]]
           /\ UNCHANGED <<storage, reply, page>>
  <2> DEFINE c == [First(t) EXCEPT !.record = disk.record,
                     !.pc = IF disk.record.key = None THEN "drop_record" ELSE "get_key"]
  <2>1. c.pc \in Stages(First(t).op)
    BY <1>1 DEF InHand, Stages, ServedCall
  <2>2. disk.record \in StoredRecord
    BY <1>2 DEF Inv, TypeOK, Database
  <2>3. c \in ServedCall
    BY <1>1, <2>1, <2>2 DEF ServedCall
  <2>4. InHand(c)
    BY <1>1, <1>2, <2>1, <2>2 DEF InHand, ServedCall
  <2>5. Moved(t, c)
    BY <1>1, <1>2 DEF Moved, First
  <2>6. QED
    BY <1>1, <1>2, <2>3, <2>4, <2>5, MovedKeeps, StorageStays
<1>3. ASSUME Finish(t, i, None), StorageTyped'
      PROVE  Inv'
  BY <1>1, <1>3, Finishes DEF Someone
<1>4. QED
  BY <1>2, <1>3, StorageStays, FailsKeeps DEF GetRecord

\* Removing a plaintext record keeps the invariant.
LEMMA DropRecordStep ==
  ASSUME Inv, NEW t \in Tab, NEW i \in Calls(t), DropRecord(t, i)
  PROVE  Inv'
<1>1. i = 1 /\ job[t] # <<>> /\ First(t).pc = "drop_record" /\ First(t) \in ServedCall
      /\ InHand(First(t))
  BY FirstServed DEF DropRecord, Inv
<1>2. [disk EXCEPT !.record = None] \in Database
  BY DEF Inv, TypeOK, Database
<1>3. StorageTyped'
  BY <1>2, DiskKeeps, FailsKeeps DEF DropRecord
<1>4. QED
  BY <1>1, <1>3, Finishes DEF DropRecord, Someone

\* A new session that is well formed keeps the storage typed.
LEMMA MemKeeps ==
  ASSUME Inv, NEW t \in Tab, NEW m \in Session, m.pend => m.signer # None,
         mem' = [mem EXCEPT ![t] = m], disk' \in Database, count' \in Tally,
         signedOut' \in BOOLEAN
  PROVE  StorageTyped'
<1>1. mem' \in [Tab -> Session]
  BY DEF Inv, TypeOK
<1>2. PendingIsUnlocked'
  BY DEF Inv, TypeOK, PendingIsUnlocked
<1>3. QED
  BY <1>1, <1>2 DEF StorageTyped

\* Adopting a restored session keeps the invariant: the record names an identity.
LEMMA DecryptStep ==
  ASSUME Inv, NEW t \in Tab, NEW i \in Calls(t), Decrypt(t, i)
  PROVE  Inv'
<1>1. i = 1 /\ job[t] # <<>> /\ First(t).pc = "decrypt" /\ First(t) \in ServedCall
      /\ InHand(First(t))
  BY FirstServed DEF Decrypt, Inv
<1>2. CASE Readable(job[t][i].record, job[t][i].key)
  <2> DEFINE m == [signer |-> job[t][i].record.who, pend |-> FALSE, cap |-> job[t][i].record.cap]
  <2>1. First(t).record \in StoredRecord
    BY <1>1 DEF InHand, ServedCall
  <2>2. m \in Session
    BY <1>1, <2>1 DEF Session, Someone, StoredRecord, First
  <2>3. StorageTyped'
    BY <1>2, <2>2, MemKeeps DEF Decrypt, Inv, TypeOK
  <2>4. "put_public" \in Stages(First(t).op)
    BY <1>1 DEF InHand, Stages
  <2>5. QED
    BY <1>1, <1>2, <2>3, <2>4, Advances DEF Decrypt
<1>3. CASE ~ Readable(job[t][i].record, job[t][i].key)
  <2>1. UNCHANGED storage
    BY <1>3 DEF Decrypt, storage
  <2>2. QED
    BY <1>1, <1>3, <2>1, StorageStays, Finishes DEF Decrypt, Someone
<1>4. QED
  BY <1>2, <1>3

\* The deletes of a logout keep the invariant: the record,
LEMMA DelRecordStep ==
  ASSUME Inv, NEW t \in Tab, NEW i \in Calls(t), DelRecord(t, i)
  PROVE  Inv'
<1>1. i = 1 /\ job[t] # <<>> /\ First(t).pc = "del_record" /\ First(t) \in ServedCall
      /\ InHand(First(t))
  BY FirstServed DEF DelRecord, Inv
<1>2. {"del_key", "del_public"} \subseteq Stages(First(t).op)
  BY <1>1 DEF InHand, Stages
<1>3. [disk EXCEPT !.record = None] \in Database
  BY DEF Inv, TypeOK, Database
<1>4. StorageTyped'
  BY <1>3, DiskKeeps, FailsKeeps DEF DelRecord
<1>5. QED
  BY <1>1, <1>2, <1>4, Advances DEF DelRecord

\* the device key,
LEMMA DelKeyStep ==
  ASSUME Inv, NEW t \in Tab, NEW i \in Calls(t), DelKey(t, i)
  PROVE  Inv'
<1>1. i = 1 /\ job[t] # <<>> /\ First(t).pc = "del_key" /\ First(t) \in ServedCall
      /\ InHand(First(t))
  BY FirstServed DEF DelKey, Inv
<1>2. {"del_public"} \subseteq Stages(First(t).op)
  BY <1>1 DEF InHand, Stages
<1>3. [disk EXCEPT !.key = None] \in Database
  BY DEF Inv, TypeOK, Database
<1>4. StorageTyped'
  BY <1>3, DiskKeeps, FailsKeeps DEF DelKey
<1>5. QED
  BY <1>1, <1>2, <1>4, Advances DEF DelKey

\* and the public identity.
LEMMA DelPublicStep ==
  ASSUME Inv, NEW t \in Tab, NEW i \in Calls(t), DelPublic(t, i)
  PROVE  Inv'
<1>1. i = 1 /\ job[t] # <<>> /\ First(t).pc = "del_public" /\ First(t) \in ServedCall
      /\ InHand(First(t))
  BY FirstServed DEF DelPublic, Inv
<1>2. [disk EXCEPT !.public = None] \in Database
  BY DEF Inv, TypeOK, Database, Someone
<1>3. StorageTyped'
  BY <1>2, DiskKeeps, FailsKeeps DEF DelPublic
<1>4. QED
  BY <1>1, <1>3, Finishes DEF DelPublic, Someone

\* A call that is refused keeps the invariant.
LEMMA RefuseKeeps ==
  ASSUME Inv, NEW t \in Tab, job[t] # <<>>, Refuse(t, 1)
  PROVE  Inv'
  BY StorageStays, Finishes DEF Refuse, Someone

\* Setting a session and saving it keeps the invariant.
LEMMA PersistKeeps ==
  ASSUME Inv, NEW t \in Tab, NEW m \in Session, m.signer # None,
         mem' = [mem EXCEPT ![t] = m], job[t] # <<>>, First(t).op \in {"login", "complete", "change"},
         First(t) \in ServedCall, InHand(First(t)), Persist(t, 1)
  PROVE  Inv'
<1>1. count' \in Tally
  BY MadeKeeps DEF Persist
<1>2. StorageTyped'
  BY <1>1, MemKeeps DEF Persist, Inv, TypeOK
<1> DEFINE rec == Record(m.signer, m.cap, None)
           c   == [First(t) EXCEPT !.pc = "get_key", !.record = rec]
<1>3. mem'[t] = m
  BY DEF Inv, TypeOK
<1>4. rec \in StoredRecord
  BY DEF StoredRecord, Record, Session, Someone
<1>5. "get_key" \in Stages(First(t).op)
  BY DEF Stages
<1>6. c \in ServedCall /\ InHand(c)
  BY <1>4, <1>5, SessionAssumption DEF ServedCall, InHand
<1>7. Moved(t, c)
  BY <1>3, PersistMoves DEF Inv
<1>8. QED
  BY <1>2, <1>6, <1>7, MovedKeeps

\* A sign-in keeps the invariant.
LEMMA LoginStep ==
  ASSUME Inv, NEW t \in Tab, NEW i \in Calls(t), Login(t, i)
  PROVE  Inv'
<1>1. i = 1 /\ job[t] # <<>> /\ First(t).pc = "posted" /\ First(t).op = "login"
      /\ First(t) \in ServedCall /\ InHand(First(t))
  BY FirstBegins DEF Login, Inv
<1>2. CASE Refuse(t, i)
  BY <1>1, <1>2, RefuseKeeps
<1>3. CASE /\ mem' = [mem EXCEPT ![t] = [signer |-> job[t][i].who, pend |-> FALSE, cap |-> New]]
           /\ Persist(t, i)
  <2>1. New \in Nat
    BY <1>3, MadeKeeps DEF Persist
  <2>2. First(t).who \in Ident
    BY <1>1 DEF InHand, ServedCall, Someone
  <2>3. [signer |-> First(t).who, pend |-> FALSE, cap |-> New] \in Session
    BY <2>1, <2>2 DEF Session, Someone
  <2>4. QED
    BY <1>1, <1>3, <2>2, <2>3, SessionAssumption, PersistKeeps DEF First
<1>4. QED
  BY <1>2, <1>3 DEF Login

\* A recovery keeps the invariant: it is pending with its identity unlocked.
LEMMA RecoverStep ==
  ASSUME Inv, NEW t \in Tab, NEW i \in Calls(t), Recover(t, i)
  PROVE  Inv'
<1>1. i = 1 /\ job[t] # <<>> /\ First(t).pc = "posted" /\ First(t).op = "recover"
      /\ First(t) \in ServedCall /\ InHand(First(t))
  BY FirstBegins DEF Recover, Inv
<1>2. CASE Refuse(t, i)
  BY <1>1, <1>2, RefuseKeeps
<1>3. CASE /\ mem' = [mem EXCEPT ![t] = [signer |-> job[t][i].who, pend |-> TRUE, cap |-> None]]
           /\ Finish(t, i, job[t][i].who)
           /\ UNCHANGED <<disk, count, signedOut>>
  <2>1. First(t).who \in Ident
    BY <1>1 DEF InHand, ServedCall, Someone
  <2>2. [signer |-> First(t).who, pend |-> TRUE, cap |-> None] \in Session
    BY <2>1 DEF Session, Someone
  <2>3. StorageTyped'
    BY <1>1, <1>3, <2>1, <2>2, SessionAssumption, MemKeeps DEF First, Inv, TypeOK
  <2>4. QED
    BY <1>1, <1>3, <2>1, <2>3, Finishes DEF First, Someone
<1>4. QED
  BY <1>2, <1>3 DEF Recover

\* Completing a recovery keeps the invariant.
LEMMA CompleteRecoveryStep ==
  ASSUME Inv, NEW t \in Tab, NEW i \in Calls(t), CompleteRecovery(t, i)
  PROVE  Inv'
<1>1. i = 1 /\ job[t] # <<>> /\ First(t).pc = "posted" /\ First(t).op = "complete"
      /\ First(t) \in ServedCall /\ InHand(First(t))
  BY FirstBegins DEF CompleteRecovery, Inv
<1>2. CASE Refuse(t, i)
  BY <1>1, <1>2, RefuseKeeps
<1>3. CASE /\ mem[t].pend
           /\ mem' = [mem EXCEPT ![t] = [@ EXCEPT !.pend = FALSE, !.cap = New]]
           /\ Persist(t, i)
  <2> DEFINE m == [mem[t] EXCEPT !.pend = FALSE, !.cap = New]
  <2>1. New \in Nat
    BY <1>3, MadeKeeps DEF Persist
  <2>2. mem' = [mem EXCEPT ![t] = m]
    BY <1>3
  <2>3. m \in Session /\ m.signer # None
    BY <1>3, <2>1 DEF Inv, TypeOK, Session, PendingIsUnlocked
  <2>4. QED
    BY <1>1, <1>3, <2>2, <2>3, PersistKeeps
<1>4. QED
  BY <1>2, <1>3 DEF CompleteRecovery

\* A rotation keeps the invariant.
LEMMA ChangePasswordStep ==
  ASSUME Inv, NEW t \in Tab, NEW i \in Calls(t), ChangePassword(t, i)
  PROVE  Inv'
<1>1. i = 1 /\ job[t] # <<>> /\ First(t).pc = "posted" /\ First(t).op = "change"
      /\ First(t) \in ServedCall /\ InHand(First(t))
  BY FirstBegins DEF ChangePassword, Inv
<1>2. CASE Refuse(t, i)
  BY <1>1, <1>2, RefuseKeeps
<1> DEFINE m == [signer |-> mem[t].signer, pend |-> mem[t].pend, cap |-> New]
<1>3. mem' = [mem EXCEPT ![t].cap = New] => mem' = [mem EXCEPT ![t] = m]
  BY DEF Inv, TypeOK, Session
<1>4. New \in Nat => m \in Session /\ (m.pend => m.signer # None)
  BY DEF Inv, TypeOK, Session, PendingIsUnlocked
<1>5. CASE mem[t].signer # None /\ mem' = [mem EXCEPT ![t].cap = New] /\ Persist(t, i)
  <2>1. New \in Nat /\ count' \in Tally
    BY <1>5, MadeKeeps DEF Persist
  <2>2. m \in Session /\ (m.pend => m.signer # None)
    BY <1>4, <2>1
  <2>3. QED
    BY <1>1, <1>3, <1>5, <2>1, <2>2, PersistKeeps
<1>6. CASE /\ mem' = [mem EXCEPT ![t].cap = New]
           /\ Finish(t, i, job[t][i].who) /\ Made /\ UNCHANGED <<disk, signedOut>>
  <2>1. New \in Nat /\ count' \in Tally
    BY <1>6, MadeKeeps
  <2>2. m \in Session /\ (m.pend => m.signer # None)
    BY <1>4, <2>1
  <2>3. StorageTyped'
    BY <1>3, <1>6, <2>1, <2>2, MemKeeps DEF Inv, TypeOK
  <2>4. First(t).who \in Someone
    BY <1>1 DEF ServedCall
  <2>5. QED
    BY <1>1, <1>6, <2>3, <2>4, Finishes DEF First
<1>7. QED
  BY <1>2, <1>5, <1>6 DEF ChangePassword

\* Signing keeps the invariant.
LEMMA SignStep ==
  ASSUME Inv, NEW t \in Tab, NEW i \in Calls(t), Sign(t, i)
  PROVE  Inv'
<1>1. i = 1 /\ job[t] # <<>> /\ First(t).pc = "posted" /\ First(t).op = "sign"
      /\ First(t) \in ServedCall /\ InHand(First(t))
  BY FirstBegins DEF Sign, Inv
<1>2. mem[t].signer \in Someone
  BY DEF Inv, TypeOK, Session
<1>3. QED
  BY <1>1, <1>2, StorageStays, Finishes DEF Sign

\* The begin of a restore keeps the invariant.
LEMMA RestoreSessionStep ==
  ASSUME Inv, NEW t \in Tab, NEW i \in Calls(t), RestoreSession(t, i)
  PROVE  Inv'
<1>1. i = 1 /\ job[t] # <<>> /\ First(t).pc = "posted" /\ First(t).op = "restore"
      /\ First(t) \in ServedCall /\ InHand(First(t))
  BY FirstBegins DEF RestoreSession, Inv
<1>2. "get_record" \in Stages(First(t).op)
  BY <1>1 DEF Stages
<1>3. QED
  BY <1>1, <1>2, StorageStays, Advances DEF RestoreSession

\* The begin of a logout keeps the invariant.
LEMMA LogoutStep ==
  ASSUME Inv, NEW t \in Tab, NEW i \in Calls(t), Logout(t, i)
  PROVE  Inv'
<1>1. i = 1 /\ job[t] # <<>> /\ First(t).pc = "posted" /\ First(t).op = "logout"
      /\ First(t) \in ServedCall /\ InHand(First(t))
  BY FirstBegins DEF Logout, Inv
<1>2. "del_record" \in Stages(First(t).op)
  BY <1>1 DEF Stages
<1>3. Locked \in Session /\ ~ Locked.pend
  BY DEF Locked, Session, Someone
<1>4. StorageTyped'
  BY <1>3, MemKeeps DEF Logout, Inv, TypeOK
<1>5. QED
  BY <1>1, <1>2, <1>4, Advances DEF Logout

\* What posting a call does to the queues: it is added behind the others.
LEMMA PostedQueue ==
  ASSUME TypeOK, NEW t \in Tab, NEW c \in ServedCall, job' = [job EXCEPT ![t] = Append(@, c)]
  PROVE  /\ job' \in [Tab -> Seq(ServedCall)]
         /\ \A u \in Tab : u # t => job'[u] = job[u] /\ Calls(u)' = Calls(u)
         /\ Calls(t)' = 1 .. (Len(job[t]) + 1)
         /\ \A i \in Calls(t) : i \in Calls(t)' /\ job'[t][i] = job[t][i]
         /\ job'[t][Len(job[t]) + 1] = c
         /\ \A i \in Calls(t)' : i \in Calls(t) \/ i = Len(job[t]) + 1
<1>1. job[t] \in Seq(ServedCall)
  BY DEF TypeOK
<1>2. job'[t] = Append(job[t], c) /\ job' \in [Tab -> Seq(ServedCall)]
  BY <1>1 DEF TypeOK
<1>3. \A u \in Tab : u # t => job'[u] = job[u]
  BY DEF TypeOK
<1>4. Len(job'[t]) = Len(job[t]) + 1 /\ Len(job[t]) \in Nat
  BY <1>1, <1>2
<1>5. \A i \in 1 .. Len(job[t]) : job'[t][i] = job[t][i]
  BY <1>1, <1>2
<1>6. job'[t][Len(job[t]) + 1] = c
  BY <1>1, <1>2
<1>7. QED
  BY <1>2, <1>3, <1>4, <1>5, <1>6 DEF Calls

\* A call that is posted is typed and has in its hands what it needs.
LEMMA NewCallIsTyped ==
  ASSUME NEW op \in Op, NEW i \in Someone, op \notin {"sign", "logout", "restore"} => i # None
  PROVE  NewCall(op, i) \in ServedCall /\ InHand(NewCall(op, i))
  BY DEF NewCall, ServedCall, InHand, Stages

\* A page that is signed in, or recovering, knows as whom: what it offers names somebody.
LEMMA OfferedIsNamed ==
  ASSUME Inv, NEW t \in Tab, NEW op, NEW i, <<op, i>> \in Offered(t),
         op \notin {"sign", "logout", "restore"}
  PROVE  i # None
  BY SessionAssumption DEF Offered

\* Posting a call keeps the invariant.
LEMMA PostStep ==
  ASSUME Inv, NEW t \in Tab, NEW op \in Op, NEW i \in Someone, Post(t, op, i)
  PROVE  Inv'
<1> DEFINE c == NewCall(op, i)
<1>1. c \in ServedCall /\ InHand(c)
  BY NewCallIsTyped, OfferedIsNamed DEF Post
<1>2. job' = [job EXCEPT ![t] = Append(@, c)]
  BY DEF Post
<1>3. OneAtATime'
  <2> SUFFICES ASSUME NEW u \in Tab, NEW j \in Calls(u)'
               PROVE  InHand(job'[u][j]) /\ (j > 1 => job'[u][j].pc = "posted")
    BY DEF OneAtATime, InHand
  <2>1. CASE u = t /\ j \notin Calls(t)
    <3>1. job'[u][j] = c
      BY <1>1, <1>2, <2>1, PostedQueue DEF Inv
    <3>2. QED
      BY <1>1, <3>1 DEF NewCall
  <2>2. CASE ~ (u = t /\ j \notin Calls(t))
    <3>1. job'[u][j] = job[u][j] /\ j \in Calls(u)
      BY <1>1, <1>2, <2>2, PostedQueue DEF Inv
    <3>2. QED
      BY <3>1 DEF Inv, OneAtATime
  <2>3. QED
    BY <2>1, <2>2
<1>4. job' \in [Tab -> Seq(ServedCall)]
  BY <1>1, <1>2, PostedQueue DEF Inv
<1>5. page' \in [Tab -> Page]
  BY DEF Post, Inv, TypeOK, Page, Someone
<1>6. count.calls + 1 \in Nat /\ count.logout \in BOOLEAN /\ count.used \cup {t} \in SUBSET Tab
  BY DEF Inv, TypeOK, Tally
<1>7. count' \in Tally
  BY <1>6 DEF Post, Inv, TypeOK, Tally
<1>8. QED
  BY <1>3, <1>4, <1>5, <1>7 DEF Post, Inv, TypeOK, PendingIsUnlocked

\* Calls that are given up stay in the queue; only nobody waits for them any more.
LEMMA GivenUp ==
  ASSUME Inv, NEW t \in Tab, NEW gone, Impatient(t, gone)
  PROVE  /\ job' \in [Tab -> Seq(ServedCall)]
         /\ \A u \in Tab : Calls(u)' = Calls(u)
         /\ \A u \in Tab : u # t => job'[u] = job[u]
         /\ \A i \in Calls(t) :
              job'[t][i] = IF i \in gone THEN [job[t][i] EXCEPT !.awaited = FALSE] ELSE job[t][i]
<1> DEFINE q == [i \in Calls(t) |->
                  IF i \in gone THEN [job[t][i] EXCEPT !.awaited = FALSE] ELSE job[t][i]]
<1>1. job' = [job EXCEPT ![t] = q]
  BY DEF Impatient
<1>2. Len(job[t]) \in Nat /\ \A i \in Calls(t) : job[t][i] \in ServedCall
  BY Queued DEF Inv
<1>3. \A c \in ServedCall : [c EXCEPT !.awaited = FALSE] \in ServedCall
  BY DEF ServedCall
<1>4. q \in [1 .. Len(job[t]) -> ServedCall]
  BY <1>2, <1>3 DEF Calls
<1>5. q \in Seq(ServedCall)
  BY <1>2, <1>4, IsASeq
<1>6. Len(q) = Len(job[t])
  BY <1>2, <1>4, <1>5
<1>7. job'[t] = q /\ \A u \in Tab : u # t => job'[u] = job[u]
  BY <1>1 DEF Inv, TypeOK
<1>8. job' \in [Tab -> Seq(ServedCall)]
  BY <1>1, <1>5 DEF Inv, TypeOK
<1>9. QED
  BY <1>6, <1>7, <1>8 DEF Calls

\* A timeout and an error of the worker keep the invariant.
LEMMA ImpatientStep ==
  ASSUME Inv, NEW t \in Tab, NEW gone, Impatient(t, gone)
  PROVE  Inv'
<1>1. OneAtATime'
  <2> SUFFICES ASSUME NEW u \in Tab, NEW j \in Calls(u)'
               PROVE  InHand(job'[u][j]) /\ (j > 1 => job'[u][j].pc = "posted")
    BY DEF OneAtATime, InHand
  <2>1. j \in Calls(u) /\ job[u][j] \in ServedCall
    BY GivenUp, Queued DEF Inv
  <2>2. job'[u][j] \in {job[u][j], [job[u][j] EXCEPT !.awaited = FALSE]}
    BY <2>1, GivenUp
  <2>3. InHand(job[u][j]) /\ (j > 1 => job[u][j].pc = "posted")
    BY <2>1 DEF Inv, OneAtATime
  <2>4. InHand([job[u][j] EXCEPT !.awaited = FALSE])
        /\ [job[u][j] EXCEPT !.awaited = FALSE].pc = job[u][j].pc
    BY <2>1, <2>3 DEF InHand, ServedCall
  <2>5. QED
    BY <2>2, <2>3, <2>4
<1>3. count' \in Tally
  BY DEF Impatient, Inv, TypeOK, Tally
<1>4. job' \in [Tab -> Seq(ServedCall)]
  BY GivenUp
<1>5. QED
  BY <1>1, <1>3, <1>4 DEF Impatient, Inv, TypeOK, PendingIsUnlocked

\* What a storage operation that hangs changes: it counts as a failure, and nothing else
\* that a property looks at moves.
LEMMA HangEffect ==
  ASSUME Inv, NEW t \in Tab, NEW i \in Calls(t), Hang(t, i)
  PROVE  /\ UNCHANGED <<disk, mem, job, reply, page, signedOut>>
         /\ count' \in Tally
         /\ count'.failures # 0
         /\ count'.gaveUp = count.gaveUp /\ count'.logout = count.logout
         /\ count'.used = count.used
<1>1. count.failures \in Nat /\ count.hung \cup {t} \in SUBSET Tab
  BY DEF Inv, TypeOK, Tally
<1>2. count' = [count EXCEPT !.failures = count.failures + 1, !.hung = count.hung \cup {t}]
  BY DEF Hang
<1>3. count.failures + 1 \in Nat /\ count.failures + 1 # 0
  BY <1>1
<1>4. QED
  BY <1>1, <1>2, <1>3 DEF Hang, Inv, TypeOK, Tally

\* It keeps the invariant.
LEMMA HangStep ==
  ASSUME Inv, NEW t \in Tab, NEW i \in Calls(t), Hang(t, i)
  PROVE  Inv'
  BY HangEffect DEF Inv, TypeOK, OneAtATime, PendingIsUnlocked, InHand, Calls

\* A reload keeps the invariant.
LEMMA ReloadStep ==
  ASSUME Inv, NEW t \in Tab, Reload(t)
  PROVE  Inv'
<1>1. Locked \in Session /\ Fresh \in Page /\ <<>> \in Seq(ServedCall) /\ ~ Locked.pend
  BY DEF Locked, Fresh, Session, Page, Someone
<1>2. job' \in [Tab -> Seq(ServedCall)] /\ job'[t] = <<>> /\ Calls(t)' = {}
      /\ \A u \in Tab : u # t => job'[u] = job[u] /\ Calls(u)' = Calls(u)
  BY <1>1 DEF Inv, TypeOK, Reload, Calls
<1>3. OneAtATime'
  <2> SUFFICES ASSUME NEW u \in Tab, NEW j \in Calls(u)'
               PROVE  InHand(job'[u][j]) /\ (j > 1 => job'[u][j].pc = "posted")
    BY DEF OneAtATime, InHand
  <2>1. job'[u] = job[u] /\ j \in Calls(u)
    BY <1>2
  <2>2. QED
    BY <2>1 DEF Inv, OneAtATime
<1>4. mem' \in [Tab -> Session] /\ PendingIsUnlocked'
  BY <1>1 DEF Inv, TypeOK, Reload, PendingIsUnlocked
<1>5. reply' \in [Tab -> Someone] /\ page' \in [Tab -> Page]
  BY <1>1 DEF Inv, TypeOK, Reload, Someone
<1>6. count.crashes + 1 \in Nat
  BY DEF Inv, TypeOK, Tally
<1>7. count' \in Tally
  <2>1. count.hung \ {t} \in SUBSET Tab
    BY DEF Inv, TypeOK, Tally
  <2>2. QED
    BY <1>6, <2>1 DEF Reload, Inv, TypeOK, Tally
<1>8. disk' \in Database /\ signedOut' \in BOOLEAN
  BY DEF Inv, TypeOK, Reload
<1>9. QED
  BY <1>2, <1>3, <1>4, <1>5, <1>7, <1>8 DEF Inv, TypeOK

\* It holds at first, whatever an earlier visit has left.
LEMMA InitInv == Init => Inv
<1> SUFFICES ASSUME Init PROVE Inv
  OBVIOUS
<1>1. ASSUME NEW i \in Earlier, disk \in Left(i)
      PROVE  disk \in Database
  <2>1. i \in Ident
    BY <1>1, SessionAssumption
  <2>2. Record(i, 0, 0) \in StoredRecord /\ [Record(i, 0, 0) EXCEPT !.key = None] \in StoredRecord
    BY <2>1 DEF Record, StoredRecord
  <2>3. QED
    BY <1>1, <2>1, <2>2 DEF Left, Database, Someone
<1>2. disk \in Database
  BY <1>1 DEF Init, Empty, Database, Someone
<1>3. Locked \in Session /\ Fresh \in Page /\ <<>> \in Seq(ServedCall) /\ ~ Locked.pend
  BY DEF Locked, Fresh, Session, Page, Someone
<1>4. mem \in [Tab -> Session] /\ PendingIsUnlocked /\ page \in [Tab -> Page]
      /\ reply \in [Tab -> Someone] /\ job \in [Tab -> Seq(ServedCall)]
  BY <1>3 DEF Init, PendingIsUnlocked, Someone
<1>5. \A t \in Tab : Calls(t) = {}
  BY DEF Init, Calls
<1>6. count \in Tally /\ signedOut \in BOOLEAN
  BY DEF Init, Counts, Tally
<1>7. QED
  BY <1>2, <1>4, <1>5, <1>6 DEF Inv, TypeOK, OneAtATime

\* A stutter keeps it.
LEMMA StutterInv == Inv /\ UNCHANGED vars => Inv'
  BY DEF Inv, TypeOK, OneAtATime, PendingIsUnlocked, InHand, Calls, vars, storage

\* Every step keeps it: one case per handler, storage transaction and event of the page.
LEMMA StepInv == Inv /\ [Next]_vars => Inv'
<1> SUFFICES ASSUME Inv, [Next]_vars PROVE Inv'
  OBVIOUS
<1>1. CASE UNCHANGED vars
  BY <1>1, StutterInv
<1>2. ASSUME NEW t \in Tab, NEW op \in Op, NEW i \in Ident \cup {None}, Post(t, op, i)
      PROVE  Inv'
  BY <1>2, PostStep DEF Someone
<1>3. ASSUME NEW t \in Tab, (\E i \in Calls(t) : TimeOut(t, i)) \/ WorkerError(t)
      PROVE  Inv'
  BY <1>3, ImpatientStep DEF TimeOut, WorkerError
<1>4. ASSUME NEW t \in Tab, Reload(t)
      PROVE  Inv'
  BY <1>4, ReloadStep
<1>5. ASSUME NEW t \in Tab, NEW i \in Calls(t), Handler(t, i)
      PROVE  Inv'
  BY <1>5, LoginStep, RecoverStep, CompleteRecoveryStep, ChangePasswordStep, SignStep,
     RestoreSessionStep, LogoutStep DEF Handler
<1>6. ASSUME NEW t \in Tab, NEW i \in Calls(t), StorageStep(t, i)
      PROVE  Inv'
  BY <1>6, GetKeyStep, AddKeyStep, RacedKeyStep, PutRecordStep, PutPublicStep, GetRecordStep,
     DropRecordStep, DecryptStep, DelRecordStep, DelKeyStep, DelPublicStep DEF StorageStep
<1>7. ASSUME NEW t \in Tab, NEW i \in Calls(t), Hang(t, i)
      PROVE  Inv'
  BY <1>7, HangStep
<1>8. QED
  BY <1>1, <1>2, <1>3, <1>4, <1>5, <1>6, <1>7 DEF Next, Serve

\* Only the first call of a worker's queue has begun, whatever pages post, give up or
\* reload, and each call has in its hands what its next await needs (serialQueue.ts,
\* cryptoWorker.ts).
THEOREM InvHolds == Spec => []Inv
<1>1. QED
  BY InitInv, StepInv, PTL DEF Spec

\* The type invariant that the run checks: database, sessions, queues and pages stay well
\* formed, so that no record is ever written without an identity or a session unlocked as
\* nobody's.
THEOREM TypeCorrect == Spec => []TypeOK
<1>1. Inv => TypeOK
  BY DEF Inv
<1>2. QED
  BY <1>1, InvHolds, PTL
=============================================================================
