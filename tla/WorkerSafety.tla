----------------------------- MODULE WorkerSafety -----------------------------
(*****************************************************************************)
(* What pages and the database agree on, for any tabs, identities, calls     *)
(* and faults: no record is orphaned, a logout is final, the page shows who  *)
(* is unlocked, and a reload brings back what is unlocked.  Each is proved   *)
(* of the calls that are under way, not of the finished ones its property    *)
(* is about.                                                                 *)
(*****************************************************************************)
EXTENDS WorkerRefinement

-----------------------------------------------------------------------------
(* The calls under way, in all tabs.                                         *)

\* The calls that are not answered, of all tabs.
Outstanding == {c \in ServedCall : \E t \in Tab : \E i \in Calls(t) : c = job[t][i]}

\* The call being served is one,
LEMMA FirstIsOutstanding ==
  ASSUME Inv, NEW t \in Tab, job[t] # <<>>
  PROVE  First(t) \in Outstanding
  BY Queued DEF Outstanding, First, Inv

\* and so is any call of a queue.
LEMMA OutstandingCalls ==
  ASSUME Inv, NEW t \in Tab, NEW i \in Calls(t)
  PROVE  job[t][i] \in Outstanding
  BY Queued DEF Outstanding, Inv

\* What the steps of the model do to them: one of them changes,
LEMMA MovedOutstanding ==
  ASSUME Inv, NEW t \in Tab, NEW c \in ServedCall, job[t] # <<>>, Moved(t, c)
  PROVE  /\ Outstanding' \subseteq Outstanding \cup {c}
         /\ Outstanding \ {First(t)} \subseteq Outstanding'
         /\ c \in Outstanding'
<1>1. /\ \A u \in Tab : u # t => job'[u] = job[u]
      /\ \A u \in Tab : Calls(u)' = Calls(u)
      /\ job'[t][1] = c
      /\ \A i \in Calls(t) : i > 1 => job'[t][i] = job[t][i]
  BY MovedQueue DEF Inv
<1>2. 1 \in Calls(t) /\ \A u \in Tab : \A i \in Calls(u) : i = 1 \/ i > 1
  BY Queued DEF Calls, Inv
<1>3. ASSUME NEW u \in Tab, NEW i \in Calls(u)
      PROVE  job'[u][i] = job[u][i] \/ (u = t /\ i = 1)
  BY <1>1, <1>2
<1>4. ServedCall' = ServedCall
  BY DEF ServedCall
<1>5. Outstanding' \subseteq Outstanding \cup {c}
  BY <1>1, <1>3, <1>4 DEF Outstanding
<1>6. Outstanding \ {First(t)} \subseteq Outstanding'
  BY <1>1, <1>3, <1>4 DEF Outstanding, First
<1>7. c \in Outstanding'
  BY <1>1, <1>2, <1>4 DEF Outstanding
<1>8. QED
  BY <1>5, <1>6, <1>7

\* one of them ends,
LEMMA EndedOutstanding ==
  ASSUME Inv, NEW t \in Tab, NEW a, job[t] # <<>>, Ended(t, a)
  PROVE  /\ Outstanding' \subseteq Outstanding
         /\ Outstanding \ {First(t)} \subseteq Outstanding'
<1>1. /\ \A u \in Tab : u # t => job'[u] = job[u] /\ Calls(u)' = Calls(u)
      /\ Calls(t)' = 1 .. (Len(job[t]) - 1)
      /\ \A i \in Calls(t)' : i + 1 \in Calls(t) /\ job'[t][i] = job[t][i + 1]
  BY EndedQueue DEF Inv
<1>2. ServedCall' = ServedCall
  BY DEF ServedCall
<1>3. Outstanding' \subseteq Outstanding
  BY <1>1, <1>2 DEF Outstanding
<1>4. ASSUME NEW i \in Calls(t), i # 1
      PROVE  \E j \in Calls(t)' : job'[t][j] = job[t][i]
  <2>1. Len(job[t]) \in Nat /\ i \in 1 .. Len(job[t])
    BY Queued DEF Inv, Calls
  <2>2. i - 1 \in Calls(t)' /\ (i - 1) + 1 = i
    BY <1>1, <1>4, <2>1
  <2>3. QED
    BY <1>1, <2>2
<1>5. Outstanding \ {First(t)} \subseteq Outstanding'
  <2> SUFFICES ASSUME NEW c \in Outstanding, c # First(t)
               PROVE  c \in Outstanding'
    OBVIOUS
  <2>1. PICK u \in Tab : \E i \in Calls(u) : c = job[u][i]
    BY DEF Outstanding
  <2>2. PICK i \in Calls(u) : c = job[u][i]
    BY <2>1
  <2>3. \E j \in Calls(u)' : job'[u][j] = c
    BY <1>1, <1>4, <2>2 DEF First
  <2>4. QED
    BY <1>2, <2>3 DEF Outstanding
<1>6. QED
  BY <1>3, <1>5

\* one is added,
LEMMA PostedOutstanding ==
  ASSUME Inv, NEW t \in Tab, NEW op \in Op, NEW i \in Someone, Post(t, op, i)
  PROVE  /\ Outstanding' \subseteq Outstanding \cup {NewCall(op, i)}
         /\ Outstanding \subseteq Outstanding'
<1> DEFINE c == NewCall(op, i)
<1>1. c \in ServedCall
  BY NewCallIsTyped, OfferedIsNamed DEF Post
<1>2. job' = [job EXCEPT ![t] = Append(@, c)]
  BY DEF Post
<1>3. /\ \A u \in Tab : u # t => job'[u] = job[u] /\ Calls(u)' = Calls(u)
      /\ \A j \in Calls(t) : j \in Calls(t)' /\ job'[t][j] = job[t][j]
      /\ job'[t][Len(job[t]) + 1] = c
      /\ \A j \in Calls(t)' : j \in Calls(t) \/ j = Len(job[t]) + 1
  BY <1>1, <1>2, PostedQueue DEF Inv
<1>4. ServedCall' = ServedCall
  BY DEF ServedCall
<1>5. \A u \in Tab : \A j \in Calls(u)' :
        job'[u][j] = c \/ (j \in Calls(u) /\ job'[u][j] = job[u][j])
  BY <1>3
<1>6. \A u \in Tab : \A j \in Calls(u) : j \in Calls(u)' /\ job'[u][j] = job[u][j]
  BY <1>3
<1>7. QED
  BY <1>4, <1>5, <1>6 DEF Outstanding

\* some are not waited for any more,
LEMMA GivenUpOutstanding ==
  ASSUME Inv, NEW t \in Tab, NEW gone, Impatient(t, gone)
  PROVE  /\ \A c \in Outstanding' : \E d \in Outstanding :
              c = d \/ c = [d EXCEPT !.awaited = FALSE]
         /\ \A d \in Outstanding : \E c \in Outstanding' :
              c = d \/ c = [d EXCEPT !.awaited = FALSE]
<1>1. /\ job' \in [Tab -> Seq(ServedCall)]
      /\ \A u \in Tab : Calls(u)' = Calls(u)
      /\ \A u \in Tab : u # t => job'[u] = job[u]
      /\ \A i \in Calls(t) :
           job'[t][i] = IF i \in gone THEN [job[t][i] EXCEPT !.awaited = FALSE] ELSE job[t][i]
  BY GivenUp
<1>2. ServedCall' = ServedCall
  BY DEF ServedCall
<1>3. \A u \in Tab : \A i \in Calls(u) :
        job'[u][i] = job[u][i] \/ job'[u][i] = [job[u][i] EXCEPT !.awaited = FALSE]
  BY <1>1
<1>4. \A u \in Tab : \A i \in Calls(u) : job[u][i] \in ServedCall
  BY Queued DEF Inv
<1>5. ASSUME NEW u \in Tab, NEW i \in Calls(u)
      PROVE  job'[u][i] \in ServedCall
  <2>1. \A d \in ServedCall : [d EXCEPT !.awaited = FALSE] \in ServedCall
    BY DEF ServedCall
  <2>2. QED
    BY <1>3, <1>4, <2>1
<1>6. ASSUME NEW c \in Outstanding'
      PROVE  \E d \in Outstanding : c = d \/ c = [d EXCEPT !.awaited = FALSE]
  <2>1. PICK u \in Tab : \E i \in Calls(u) : c = job'[u][i]
    BY <1>1, <1>6 DEF Outstanding
  <2>2. PICK i \in Calls(u) : c = job'[u][i]
    BY <2>1
  <2>3. job[u][i] \in Outstanding
    BY <1>4 DEF Outstanding
  <2>4. QED
    BY <1>3, <2>2, <2>3
<1>7. ASSUME NEW d \in Outstanding
      PROVE  \E c \in Outstanding' : c = d \/ c = [d EXCEPT !.awaited = FALSE]
  <2>1. PICK u \in Tab : \E i \in Calls(u) : d = job[u][i]
    BY <1>7 DEF Outstanding
  <2>2. PICK i \in Calls(u) : d = job[u][i]
    BY <2>1
  <2>3. job'[u][i] \in Outstanding'
    BY <1>1, <1>2, <1>5 DEF Outstanding
  <2>4. QED
    BY <1>3, <2>2, <2>3
<1>8. QED
  BY <1>6, <1>7

\* or those of a tab are gone.
LEMMA ReloadedOutstanding ==
  ASSUME Inv, NEW t \in Tab, Reload(t)
  PROVE  Outstanding' \subseteq Outstanding
<1>1. job'[t] = <<>> /\ \A u \in Tab : u # t => job'[u] = job[u]
  BY DEF Reload, Inv, TypeOK
<1>2. ServedCall' = ServedCall
  BY DEF ServedCall
<1>3. Calls(t)' = {} /\ \A u \in Tab : u # t => Calls(u)' = Calls(u)
  BY <1>1 DEF Calls
<1>4. QED
  BY <1>1, <1>2, <1>3 DEF Outstanding

\* What a step moves on to is typed, because the state it leads to is.
LEMMA MovedIsTyped ==
  ASSUME Inv, Inv', NEW t \in Tab, NEW c, job[t] # <<>>, Moved(t, c)
  PROVE  c \in ServedCall /\ InHand(c)
<1>1. job[t] \in Seq(ServedCall) /\ job'[t] \in Seq(ServedCall)
  BY DEF Inv, TypeOK
<1>2. job'[t] = [job[t] EXCEPT ![1] = c]
  BY DEF Moved, Inv, TypeOK
<1>3. 1 \in DOMAIN job[t] /\ DOMAIN job[t] = 1 .. Len(job[t])
  BY <1>1, EmptySeq, LenProperties
<1>4. job'[t][1] = c /\ DOMAIN job'[t] = DOMAIN job[t]
  BY <1>2, <1>3
<1>5. 1 \in Calls(t)'
  BY <1>1, <1>3, <1>4, LenProperties DEF Calls
<1>6. job'[t][1] \in ServedCall
  BY <1>1, <1>5 DEF Calls
<1>7. InHand(job'[t][1])
  BY <1>5 DEF Inv, OneAtATime
<1>8. QED
  BY <1>4, <1>6, <1>7

-----------------------------------------------------------------------------
(* No record is orphaned.                                                    *)

\* Unless somebody logs out, who is about to write a record has encrypted it with the key
\* that is in the database: add() never replaces one (indexedDbStore.ts:87-88).
KeyKept ==
  ~ count.logout => \A c \in Outstanding :
    c.op # "logout" /\ (c.pc = "put_record" => c.key = disk.key)

\* The inductive invariant of the section.
KeyInv == Inv /\ KeyKept /\ RecordReadable

\* One call moves on or ends, and no record is left without its key.
LEMMA KeyMoved ==
  ASSUME KeyInv, Inv', NEW t \in Tab, NEW c \in ServedCall, job[t] # <<>>, Moved(t, c),
         count'.logout = count.logout, disk'.key = disk.key,
         ~ count.logout => /\ c.op # "logout"
                           /\ c.pc = "put_record" => c.key = disk.key
                           /\ disk'.record # None => disk'.record.key \in {disk.key, None}
  PROVE  KeyInv'
<1>1. Outstanding' \subseteq Outstanding \cup {c}
  BY MovedOutstanding DEF KeyInv
<1>2. KeyKept'
  BY <1>1 DEF KeyKept, KeyInv
<1>3. RecordReadable'
  BY DEF RecordReadable
<1>4. QED
  BY <1>2, <1>3 DEF KeyInv

\* One call ends, and no record is left without its key.
LEMMA KeyEnded ==
  ASSUME KeyInv, Inv', NEW t \in Tab, NEW a, job[t] # <<>>, Ended(t, a),
         count'.logout = count.logout, disk'.key = disk.key,
         disk'.record \in {disk.record, None}
  PROVE  KeyInv'
<1>1. Outstanding' \subseteq Outstanding
  BY EndedOutstanding DEF KeyInv
<1>2. KeyKept'
  BY <1>1 DEF KeyKept, KeyInv
<1>3. RecordReadable'
  BY DEF RecordReadable, KeyInv
<1>4. QED
  BY <1>2, <1>3 DEF KeyInv

\* What is known of the call being served.
LEMMA FirstNoLogout ==
  ASSUME KeyInv, NEW t \in Tab, job[t] # <<>>, ~ count.logout
  PROVE  First(t).op # "logout" /\ (First(t).pc = "put_record" => First(t).key = disk.key)
  BY FirstIsOutstanding DEF KeyInv, KeyKept

\* A call moves on to anything but writing its record,
LEMMA KeyTo ==
  ASSUME KeyInv, Inv', NEW t \in Tab, NEW a, job[t] # <<>>, To(t, 1, a), a # "put_record",
         First(t) \in ServedCall, count'.logout = count.logout, disk'.key = disk.key,
         ~ count.logout /\ disk'.record # None => disk'.record.key \in {disk.key, None}
  PROVE  KeyInv'
<1> DEFINE c == [First(t) EXCEPT !.pc = a]
<1>1. Moved(t, c)
  BY ToMoves DEF Inv, KeyInv
<1>2. c \in ServedCall
  BY <1>1, MovedIsTyped DEF KeyInv
<1>3. c.op = First(t).op /\ c.pc = a
  BY DEF ServedCall
<1>4. QED
  BY <1>1, <1>2, <1>3, FirstNoLogout, KeyMoved

\* begins to save,
LEMMA KeyPersist ==
  ASSUME KeyInv, Inv', NEW t \in Tab, job[t] # <<>>, Persist(t, 1), First(t) \in ServedCall
  PROVE  KeyInv'
<1> DEFINE c == [First(t) EXCEPT !.pc = "get_key",
                   !.record = Record(mem'[t].signer, mem'[t].cap, None)]
<1>1. Moved(t, c)
  BY PersistMoves DEF Inv, KeyInv
<1>2. c \in ServedCall
  BY <1>1, MovedIsTyped DEF KeyInv
<1>3. c.pc = "get_key" /\ c.op = First(t).op
  BY DEF ServedCall
<1>4. count'.logout = count.logout /\ disk' = disk
  BY DEF Persist, Made, KeyInv, Inv, TypeOK, Tally
<1>5. QED
  BY <1>1, <1>2, <1>3, <1>4, FirstNoLogout, KeyMoved DEF KeyInv, RecordReadable

\* or is answered.
LEMMA KeyFinish ==
  ASSUME KeyInv, Inv', NEW t \in Tab, NEW a, job[t] # <<>>, Finish(t, 1, a),
         count'.logout = count.logout, disk'.key = disk.key,
         disk'.record \in {disk.record, None}
  PROVE  KeyInv'
  BY FinishEnds, KeyEnded DEF KeyInv, Inv

\* No transaction counts as a logout, or as the use of another tab.
LEMMA SameCounts ==
  ASSUME Inv, UNCHANGED storage \/ Fails \/ Made \/ UNCHANGED count
  PROVE  count'.logout = count.logout /\ count'.used = count.used
  BY DEF storage, Fails, Made, Inv, TypeOK, Tally

\* A handler begins with the first call of its queue,
LEMMA HandlerFirst ==
  ASSUME Inv, NEW t \in Tab, NEW i \in Calls(t), Handler(t, i)
  PROVE  i = 1 /\ job[t] # <<>> /\ First(t) \in ServedCall /\ InHand(First(t))
         /\ First(t).pc = "posted" /\ Begins(t, i, First(t).op)
<1>1. \E op : Begins(t, i, op)
  BY DEF Handler, Login, Recover, CompleteRecovery, ChangePassword, Sign, RestoreSession, Logout
<1>2. QED
  BY <1>1, FirstBegins DEF Inv

\* and a transaction is one of a call that has begun.
LEMMA StorageFirst ==
  ASSUME Inv, NEW t \in Tab, NEW i \in Calls(t), StorageStep(t, i)
  PROVE  i = 1 /\ job[t] # <<>> /\ First(t) \in ServedCall /\ InHand(First(t))
         /\ First(t).pc # "posted"
<1>1. PICK a : At(t, i, a) /\ a # "posted"
  <2>1. \/ At(t, i, "get_key") \/ At(t, i, "add_key") \/ At(t, i, "raced_key")
        \/ At(t, i, "put_record") \/ At(t, i, "put_public") \/ At(t, i, "get_record")
        \/ At(t, i, "drop_record") \/ At(t, i, "decrypt") \/ At(t, i, "del_record")
        \/ At(t, i, "del_key") \/ At(t, i, "del_public")
    BY DEF StorageStep, GetKey, AddKey, RacedKey, PutRecord, PutPublic, GetRecord, DropRecord,
       Decrypt, DelRecord, DelKey, DelPublic
  <2>2. QED
    BY <2>1
<1>2. QED
  BY <1>1, FirstServed DEF Inv

\* No handler orphans a record,
LEMMA HandlerKey ==
  ASSUME KeyInv, Inv', NEW t \in Tab, NEW i \in Calls(t), Handler(t, i)
  PROVE  KeyInv'
<1>1. i = 1 /\ job[t] # <<>> /\ First(t) \in ServedCall
  BY HandlerFirst DEF KeyInv
<1>2. ~ count.logout /\ disk.record # None => disk.record.key \in {disk.key, None}
  BY DEF KeyInv, RecordReadable
<1>3. CASE Refuse(t, i)
  BY <1>1, <1>3, KeyFinish DEF Refuse, storage
<1>4. CASE Persist(t, i)
  BY <1>1, <1>4, KeyPersist
<1>5. CASE Recover(t, i)
  BY <1>1, <1>3, <1>5, KeyFinish DEF Recover
<1>6. CASE ChangePassword(t, i)
  <2>1. CASE Finish(t, 1, job[t][1].who) /\ Made /\ UNCHANGED <<disk, signedOut>>
    BY <1>1, <2>1, SameCounts, KeyFinish DEF KeyInv
  <2>2. QED
    BY <1>1, <1>3, <1>4, <1>6, <2>1 DEF ChangePassword
<1>7. CASE Sign(t, i)
  BY <1>1, <1>7, KeyFinish DEF Sign, storage
<1>8. CASE RestoreSession(t, i)
  BY <1>1, <1>2, <1>8, KeyTo DEF RestoreSession, storage
<1>9. CASE Logout(t, i)
  BY <1>1, <1>2, <1>9, KeyTo DEF Logout
<1>10. QED
  BY <1>3, <1>4, <1>5, <1>6, <1>7, <1>8, <1>9 DEF Handler, Login, CompleteRecovery

\* nor does a step that takes or creates a device key,
LEMMA HasKeyKey ==
  ASSUME KeyInv, Inv', NEW t \in Tab, NEW k, job[t] # <<>>, HasKey(t, 1, k),
         First(t) \in ServedCall, count'.logout = count.logout, disk'.record = disk.record,
         k # None, disk'.key = k, disk.key \in {None, k}
  PROVE  KeyInv'
<1> DEFINE c == [First(t) EXCEPT !.key = k,
                   !.pc = IF First(t).op = "restore" THEN "decrypt" ELSE "put_record"]
<1>1. Moved(t, c)
  BY HasKeyMoves DEF Inv, KeyInv
<1>2. c \in ServedCall
  BY <1>1, MovedIsTyped DEF KeyInv
<1>3. c.op = First(t).op /\ c.key = k
  BY DEF ServedCall
<1>4. \A d \in Outstanding : d.pc = "put_record" => d.key # None
  BY DEF Outstanding, KeyInv, Inv, OneAtATime, InHand
<1>5. Outstanding' \subseteq Outstanding \cup {c}
  BY <1>1, <1>2, MovedOutstanding DEF KeyInv
<1>6. KeyKept'
  BY <1>3, <1>4, <1>5, FirstNoLogout DEF KeyInv, KeyKept
<1>7. RecordReadable'
  BY DEF KeyInv, RecordReadable
<1>8. QED
  BY <1>6, <1>7 DEF KeyInv

\* nor any transaction,
LEMMA StorageKey ==
  ASSUME KeyInv, Inv', NEW t \in Tab, NEW i \in Calls(t), StorageStep(t, i)
  PROVE  KeyInv'
<1>1. i = 1 /\ job[t] # <<>> /\ First(t) \in ServedCall /\ InHand(First(t))
  BY StorageFirst DEF KeyInv
<1>2. ~ count.logout /\ disk.record # None => disk.record.key \in {disk.key, None}
  BY DEF KeyInv, RecordReadable
<1>3. ASSUME UNCHANGED storage \/ Fails
      PROVE  disk' = disk /\ count'.logout = count.logout
  BY <1>3, SameCounts DEF storage, Fails, KeyInv
<1>4. ASSUME NEW a, a # "put_record", To(t, 1, a), UNCHANGED storage \/ Fails
      PROVE  KeyInv'
  BY <1>1, <1>2, <1>3, <1>4, KeyTo
<1>5. ASSUME NEW a, Finish(t, 1, a), UNCHANGED storage \/ Fails
      PROVE  KeyInv'
  BY <1>1, <1>3, <1>5, KeyFinish
<1>6. ASSUME NoKey(t, 1), UNCHANGED storage \/ Fails
      PROVE  KeyInv'
  BY <1>4, <1>5, <1>6 DEF NoKey
<1>7. ASSUME HasKey(t, 1, disk.key), disk.key # None, UNCHANGED storage
      PROVE  KeyInv'
  BY <1>1, <1>3, <1>7, HasKeyKey
<1>8. CASE GetKey(t, i)
  BY <1>1, <1>4, <1>6, <1>7, <1>8 DEF GetKey
<1>9. CASE AddKey(t, i)
  <2>1. CASE /\ disk.key = None
             /\ disk' = [disk EXCEPT !.key = New]
             /\ HasKey(t, i, New)
             /\ Made
    <3>1. New # None /\ count'.logout = count.logout
      BY <2>1, MadeKeeps, SameCounts, SessionAssumption DEF KeyInv
    <3>2. disk'.key = New /\ disk'.record = disk.record
      BY <2>1 DEF KeyInv, Inv, TypeOK, Database
    <3>3. QED
      BY <1>1, <2>1, <3>1, <3>2, HasKeyKey
  <2>2. QED
    BY <1>1, <1>4, <1>9, <2>1 DEF AddKey
<1>10. CASE RacedKey(t, i)
  BY <1>1, <1>6, <1>7, <1>10 DEF RacedKey
<1>11. CASE PutRecord(t, i)
  <2>1. CASE /\ disk' = [disk EXCEPT !.record = [job[t][i].record EXCEPT !.key = job[t][i].key]]
             /\ UNCHANGED <<mem, count, signedOut>>
    <3>1. First(t).pc = "put_record" /\ First(t).record \in StoredRecord
      BY <1>1, <1>11 DEF PutRecord, At, First, InHand, ServedCall
    <3>2. disk'.key = disk.key /\ disk'.record.key = First(t).key
      BY <1>1, <2>1, <3>1 DEF KeyInv, Inv, TypeOK, Database, First, StoredRecord
    <3>3. QED
      BY <1>1, <1>11, <2>1, <3>1, <3>2, FirstNoLogout, KeyTo DEF PutRecord
  <2>2. QED
    BY <1>1, <1>4, <1>11, <2>1 DEF PutRecord
<1>12. CASE PutPublic(t, i)
  <2>1. disk'.key = disk.key /\ disk'.record = disk.record /\ count'.logout = count.logout
    BY <1>3, <1>12 DEF PutPublic, KeyInv, Inv, TypeOK, Database
  <2>2. QED
    BY <1>1, <1>12, <2>1, KeyFinish DEF PutPublic
<1>13. CASE GetRecord(t, i)
  <2>1. CASE /\ disk.record # None
             /\ job' = [job EXCEPT ![t][i] =
                  [@ EXCEPT !.record = disk.record,
                            !.pc = IF disk.record.key = None THEN "drop_record" ELSE "get_key"]]
             /\ UNCHANGED <<storage, reply, page>>
    <3> DEFINE c == [First(t) EXCEPT !.record = disk.record,
                       !.pc = IF disk.record.key = None THEN "drop_record" ELSE "get_key"]
    <3>1. Moved(t, c)
      BY <1>1, <2>1 DEF Moved, First
    <3>2. c \in ServedCall /\ c.op = First(t).op /\ c.pc # "put_record"
      BY <1>1, <3>1, MovedIsTyped DEF KeyInv, ServedCall
    <3>3. QED
      BY <1>1, <1>2, <1>3, <2>1, <3>1, <3>2, FirstNoLogout, KeyMoved
  <2>2. QED
    BY <1>1, <1>5, <1>13, <2>1 DEF GetRecord
<1>14. CASE DropRecord(t, i)
  <2>1. disk'.key = disk.key /\ disk'.record \in {disk.record, None}
        /\ count'.logout = count.logout
    BY <1>3, <1>14 DEF DropRecord, KeyInv, Inv, TypeOK, Database
  <2>2. QED
    BY <1>1, <1>14, <2>1, KeyFinish DEF DropRecord
<1>15. CASE Decrypt(t, i)
  BY <1>1, <1>2, <1>15, KeyTo, KeyFinish DEF Decrypt
<1>16. ASSUME First(t).op = "logout", NEW c \in ServedCall, Moved(t, c), c.op = "logout",
              count'.logout = count.logout
       PROVE  KeyInv'
  <2>1. count.logout
    BY <1>1, <1>16, FirstNoLogout
  <2>2. QED
    BY <1>16, <2>1 DEF KeyInv, KeyKept, RecordReadable
<1>17. ASSUME First(t).op = "logout", NEW a, To(t, 1, a), count'.logout = count.logout
       PROVE  KeyInv'
  <2> DEFINE c == [First(t) EXCEPT !.pc = a]
  <2>1. Moved(t, c)
    BY <1>1, <1>17, ToMoves DEF Inv, KeyInv
  <2>2. c \in ServedCall /\ c.op = "logout"
    BY <1>1, <1>17, <2>1, MovedIsTyped DEF KeyInv, ServedCall
  <2>3. QED
    BY <1>16, <1>17, <2>1, <2>2
<1>18. CASE DelRecord(t, i) \/ DelKey(t, i)
  <2>1. First(t).op = "logout"
    BY <1>1, <1>18 DEF DelRecord, DelKey, At, First, InHand, Stages
  <2>2. count'.logout = count.logout
    BY <1>3, <1>18 DEF DelRecord, DelKey
  <2>3. QED
    BY <1>1, <1>17, <1>18, <2>1, <2>2 DEF DelRecord, DelKey
<1>19. CASE DelPublic(t, i)
  <2>1. disk'.key = disk.key /\ disk'.record = disk.record /\ count'.logout = count.logout
    BY <1>3, <1>19 DEF DelPublic, KeyInv, Inv, TypeOK, Database
  <2>2. QED
    BY <1>1, <1>19, <2>1, KeyFinish DEF DelPublic
<1>20. QED
  BY <1>8, <1>9, <1>10, <1>11, <1>12, <1>13, <1>14, <1>15, <1>18, <1>19 DEF StorageStep

\* nor anything a page does.
LEMMA PageKey ==
  ASSUME KeyInv, Inv', NEW t \in Tab,
         \/ \E op \in Op, i \in Someone : Post(t, op, i)
         \/ \E gone : Impatient(t, gone)
         \/ Reload(t)
  PROVE  KeyInv'
<1>1. UNCHANGED disk
  BY DEF Post, Impatient, Reload
<1>2. CASE \E op \in Op, i \in Someone : Post(t, op, i)
  <2>1. PICK op \in Op, i \in Someone : Post(t, op, i)
    BY <1>2
  <2>2. ~ count'.logout => ~ count.logout /\ op # "logout"
    BY <2>1 DEF Post, KeyInv, Inv, TypeOK, Tally
  <2>3. Outstanding' \subseteq Outstanding \cup {NewCall(op, i)}
    BY <2>1, PostedOutstanding DEF KeyInv
  <2>4. QED
    BY <1>1, <2>2, <2>3 DEF KeyInv, KeyKept, RecordReadable, NewCall
<1>3. CASE \E gone : Impatient(t, gone)
  <2>1. PICK gone : Impatient(t, gone)
    BY <1>3
  <2>2. count'.logout = count.logout
    BY <2>1 DEF Impatient, KeyInv, Inv, TypeOK, Tally
  <2>3. \A c \in Outstanding' : \E d \in Outstanding :
          c.op = d.op /\ c.pc = d.pc /\ c.key = d.key
    BY <2>1, GivenUpOutstanding DEF KeyInv, Outstanding, ServedCall
  <2>4. QED
    BY <1>1, <2>2, <2>3 DEF KeyInv, KeyKept, RecordReadable
<1>4. CASE Reload(t)
  <2>1. count'.logout = count.logout
    BY <1>4 DEF Reload, KeyInv, Inv, TypeOK, Tally
  <2>2. Outstanding' \subseteq Outstanding
    BY <1>4, ReloadedOutstanding DEF KeyInv
  <2>3. QED
    BY <1>1, <2>1, <2>2 DEF KeyInv, KeyKept, RecordReadable
<1>5. QED
  BY <1>2, <1>3, <1>4

\* nor storage that hangs.
LEMMA HangKey ==
  ASSUME KeyInv, Inv', NEW t \in Tab, NEW i \in Calls(t), Hang(t, i)
  PROVE  KeyInv'
<1>1. UNCHANGED <<disk, job>> /\ count'.logout = count.logout
  BY HangEffect DEF KeyInv
<1>2. Outstanding' = Outstanding
  BY <1>1 DEF Outstanding, Calls, ServedCall
<1>3. QED
  BY <1>1, <1>2 DEF KeyInv, KeyKept, RecordReadable

\* An earlier visit has left no record without its key.
LEMMA InitKey == Init => KeyInv
<1> SUFFICES ASSUME Init PROVE KeyInv
  OBVIOUS
<1>1. Inv
  BY InitInv
<1>2. \A t \in Tab : Calls(t) = {}
  BY DEF Init, Calls
<1>3. Outstanding = {}
  BY <1>2 DEF Outstanding
<1>4. ASSUME NEW i \in Earlier, disk \in Left(i)
      PROVE  disk.record.key \in {disk.key, None}
  BY <1>4 DEF Left, Record
<1>5. disk.record # None => disk.record.key \in {disk.key, None}
  BY <1>4 DEF Init, Empty
<1>6. QED
  BY <1>1, <1>3, <1>5 DEF KeyInv, KeyKept, RecordReadable

\* Every step keeps the section's invariant.
LEMMA StepKey == KeyInv /\ [Next]_vars => KeyInv'
<1> SUFFICES ASSUME KeyInv, [Next]_vars PROVE KeyInv'
  OBVIOUS
<1>1. Inv'
  BY StepInv DEF KeyInv
<1>2. CASE UNCHANGED vars
  <2>1. Outstanding' = Outstanding
    BY <1>2 DEF Outstanding, Calls, vars, ServedCall
  <2>2. QED
    BY <1>1, <1>2, <2>1 DEF KeyInv, KeyKept, RecordReadable, vars, storage
<1>3. QED
  BY <1>1, <1>2, PageKey, HandlerKey, StorageKey, HangKey
  DEF Next, Serve, TimeOut, WorkerError, Someone

\* Tabs that save at once agree on the device key: until somebody logs out, the record in
\* the database is one that the key next to it decrypts (or a plaintext one of an earlier
\* version), whatever fails or dies in between (indexedDbStore.ts:87-88).
THEOREM NoRecordIsOrphaned == Spec => []RecordReadable
<1>1. KeyInv => RecordReadable
  BY DEF KeyInv
<1>2. QED
  BY <1>1, InitKey, StepKey, PTL DEF Spec

-----------------------------------------------------------------------------
(* A logout is final.                                                        *)

\* The awaits of a logout.
Clearing == {"del_record", "del_key", "del_public"}

\* After a logout that had the database to itself, and while storage works: nobody is
\* about to write but a restore that finds nothing, and what is still there is about to
\* be deleted.
Silent ==
  signedOut /\ count.failures = 0 =>
    /\ \A c \in Outstanding : Saves(c) =>
         c.op = "restore" /\ c.pc \in {"posted", "get_record"} /\ disk.record = None
    /\ disk.record # None => \E c \in Outstanding : c.pc = "del_record"
    /\ disk.public # None => \E c \in Outstanding : c.pc \in Clearing

\* The inductive invariant of the section.
OutInv == Inv /\ Silent

\* A logout is clearing the database.
LEMMA LeavingIsOutstanding ==
  ASSUME Inv
  PROVE  Leaving <=> \E c \in Outstanding : c.pc \in Clearing
<1>1. ASSUME NEW t \in Tab, NEW i \in Calls(t)
      PROVE  job[t][i] \in Outstanding
  BY OutstandingCalls
<1>2. QED
  BY <1>1 DEF Leaving, Outstanding, Clearing

\* A call that moves on keeps the database silent: it writes no record, and a logout goes
\* on clearing.
LEMMA OutMoved ==
  ASSUME OutInv, Inv', NEW t \in Tab, NEW c, job[t] # <<>>, Moved(t, c),
         signedOut, count.failures = 0,
         Saves(c) => c.op = "restore" /\ c.pc = "get_record" /\ disk.record = None,
         \/ disk'.record = None
         \/ disk'.record = disk.record /\ First(t).pc # "del_record",
         disk'.public = disk.public,
         First(t).pc \in Clearing => c.pc \in Clearing
  PROVE  OutInv'
<1>1. c \in ServedCall
  BY MovedIsTyped DEF OutInv
<1>2. /\ Outstanding' \subseteq Outstanding \cup {c}
      /\ Outstanding \ {First(t)} \subseteq Outstanding'
      /\ c \in Outstanding'
  BY <1>1, MovedOutstanding DEF OutInv
<1>3. \A d \in Outstanding' : Saves(d) =>
        d.op = "restore" /\ d.pc \in {"posted", "get_record"} /\ disk'.record = None
  BY <1>2 DEF OutInv, Silent, Saves
<1>4. disk'.record # None => \E d \in Outstanding' : d.pc = "del_record"
  BY <1>2 DEF OutInv, Silent
<1>5. disk'.public # None => \E d \in Outstanding' : d.pc \in Clearing
  BY <1>2 DEF OutInv, Silent
<1>6. QED
  BY <1>3, <1>4, <1>5 DEF OutInv, Silent, Saves

\* So does a call that ends, if what it leaves is deleted.
LEMMA OutEnded ==
  ASSUME OutInv, Inv', NEW t \in Tab, NEW a, job[t] # <<>>, Finish(t, 1, a),
         signedOut, count.failures = 0, First(t).pc # "del_record",
         disk'.record = disk.record,
         disk'.public = None \/ (disk'.public = disk.public /\ First(t).pc \notin Clearing)
  PROVE  OutInv'
<1>1. /\ Outstanding' \subseteq Outstanding
      /\ Outstanding \ {First(t)} \subseteq Outstanding'
  BY FinishEnds, EndedOutstanding DEF OutInv, Inv
<1>2. QED
  BY <1>1 DEF OutInv, Silent, Saves

\* What is known of the call being served, if it is one that may write.
LEMMA SilentFirst ==
  ASSUME OutInv, NEW t \in Tab, job[t] # <<>>, signedOut, count.failures = 0, Saves(First(t))
  PROVE  /\ First(t).op = "restore" /\ First(t).pc \in {"posted", "get_record"}
         /\ disk.record = None
  BY FirstIsOutstanding DEF OutInv, Silent

\* The begin of a logout: who may still write is what SaverLeft asks.
LEMMA LogoutOut ==
  ASSUME OutInv, Inv', NEW t \in Tab, NEW i \in Calls(t), Logout(t, i)
  PROVE  OutInv'
<1>1. i = 1 /\ job[t] # <<>> /\ First(t).pc = "posted" /\ First(t).op = "logout"
      /\ First(t) \in ServedCall
  BY FirstBegins DEF Logout, OutInv, Inv
<1> DEFINE c == [First(t) EXCEPT !.pc = "del_record"]
<1>2. Moved(t, c)
  BY <1>1, ToMoves DEF Logout, OutInv, Inv
<1>3. c \in ServedCall /\ c.op = "logout" /\ c.pc = "del_record"
  BY <1>1, <1>2, MovedIsTyped DEF OutInv, ServedCall
<1>4. ~ Saves(c)
  BY <1>3 DEF Saves
<1>5. CASE signedOut /\ count.failures = 0
  BY <1>1, <1>2, <1>3, <1>4, <1>5, OutMoved DEF Logout, Clearing
<1>6. CASE ~ SaverLeft(t, i)
  <2>1. /\ Outstanding' \subseteq Outstanding \cup {c} /\ c \in Outstanding'
    BY <1>1, <1>2, <1>3, MovedOutstanding DEF OutInv
  <2>2. ASSUME NEW d \in Outstanding', d # c
        PROVE  ~ Saves(d)
    <3>1. PICK u \in Tab : \E j \in Calls(u)' : d = job'[u][j]
      BY DEF Outstanding
    <3>2. PICK j \in Calls(u)' : d = job'[u][j]
      BY <3>1
    <3>3. j \in Calls(u) /\ (j = 1 \/ j > 1)
      BY <1>1, <1>2, <1>3, MovedQueue, Queued DEF OutInv, Inv, Calls
    <3>4. (u # t \/ j > 1) /\ job'[u][j] = job[u][j]
      BY <1>1, <1>2, <1>3, <2>2, <3>2, <3>3, MovedQueue DEF OutInv, Inv
    <3>5. QED
      BY <1>1, <1>6, <3>2, <3>3, <3>4 DEF SaverLeft
  <2>3. QED
    BY <1>3, <1>4, <2>1, <2>2 DEF OutInv, Silent, Clearing, Saves
<1>7. CASE ~ signedOut' \/ count'.failures # 0
  BY <1>7 DEF OutInv, Silent
<1>8. QED
  BY <1>5, <1>6, <1>7 DEF Logout

\* Everything but the begin of a logout leaves signedOut alone or lowers it.
LEMMA OutFails ==
  ASSUME Inv', Inv, Fails
  PROVE  OutInv'
<1>1. count'.failures # 0
  BY DEF Fails, Inv, TypeOK, Tally
<1>2. QED
  BY <1>1 DEF OutInv, Silent

\* No handler breaks the silence,
LEMMA HandlerOut ==
  ASSUME OutInv, Inv', NEW t \in Tab, NEW i \in Calls(t), Handler(t, i)
  PROVE  OutInv'
<1>1. i = 1 /\ job[t] # <<>> /\ First(t) \in ServedCall /\ First(t).pc = "posted"
      /\ First(t).pc \notin Clearing
  BY HandlerFirst DEF OutInv, Clearing
<1>2. CASE Logout(t, i)
  BY <1>2, LogoutOut
<1>3. CASE ~ Logout(t, i)
  <2>1. signedOut' = signedOut /\ UNCHANGED disk /\ count'.failures = count.failures
    BY <1>3 DEF Handler, Login, Recover, CompleteRecovery, ChangePassword, Sign, RestoreSession,
       Refuse, Persist, Made, storage, OutInv, Inv, TypeOK, Tally
  <2>2. CASE ~ (signedOut /\ count.failures = 0)
    BY <2>1, <2>2 DEF OutInv, Silent
  <2>3. CASE signedOut /\ count.failures = 0
    <3>1. ~ Login(t, i) /\ ~ CompleteRecovery(t, i) /\ ~ ChangePassword(t, i)
      BY <1>1, <2>3, SilentFirst DEF Login, CompleteRecovery, ChangePassword, Begins, First, Saves
    <3>2. CASE Recover(t, i)
      BY <1>1, <2>1, <2>3, <3>2, OutEnded DEF Recover, Refuse
    <3>3. CASE Sign(t, i)
      BY <1>1, <2>1, <2>3, <3>3, OutEnded DEF Sign
    <3>4. CASE RestoreSession(t, i)
      <4> DEFINE c == [First(t) EXCEPT !.pc = "get_record"]
      <4>1. Moved(t, c)
        BY <1>1, <3>4, ToMoves DEF RestoreSession, OutInv, Inv
      <4>2. First(t).op = "restore" /\ c.op = "restore" /\ c.pc = "get_record"
        BY <1>1, <3>4 DEF RestoreSession, Begins, First, ServedCall
      <4>3. disk.record = None
        BY <1>1, <2>3, <4>2, SilentFirst DEF Saves
      <4>4. QED
        BY <1>1, <2>1, <2>3, <4>1, <4>2, <4>3, OutMoved
    <3>5. QED
      BY <1>3, <3>1, <3>2, <3>3, <3>4 DEF Handler
  <2>4. QED
    BY <2>2, <2>3
<1>4. QED
  BY <1>2, <1>3

\* nor does a transaction,
LEMMA StorageOut ==
  ASSUME OutInv, Inv', NEW t \in Tab, NEW i \in Calls(t), StorageStep(t, i)
  PROVE  OutInv'
<1>1. i = 1 /\ job[t] # <<>> /\ First(t) \in ServedCall /\ InHand(First(t))
      /\ First(t).pc # "posted"
  BY StorageFirst DEF OutInv
<1>2. CASE Fails
  BY <1>2, OutFails DEF OutInv
<1>3. CASE ~ Fails
  <2>1. signedOut' = signedOut /\ count'.failures = count.failures
    BY <1>3 DEF StorageStep, GetKey, AddKey, RacedKey, PutRecord, PutPublic, GetRecord, DropRecord,
       Decrypt, DelRecord, DelKey, DelPublic, Made, storage, OutInv, Inv, TypeOK, Tally
  <2>2. CASE ~ (signedOut /\ count.failures = 0)
    BY <2>1, <2>2 DEF OutInv, Silent
  <2>3. CASE signedOut /\ count.failures = 0 /\ Saves(First(t))
    <3>1. First(t).op = "restore" /\ First(t).pc = "get_record" /\ disk.record = None
      BY <1>1, <2>3, SilentFirst
    <3>2. GetRecord(t, i)
      BY <1>1, <3>1 DEF StorageStep, GetKey, AddKey, RacedKey, PutRecord, PutPublic, DropRecord,
         Decrypt, DelRecord, DelKey, DelPublic, At, First
    <3>3. Finish(t, 1, None) /\ UNCHANGED disk
      BY <1>1, <1>3, <3>1, <3>2 DEF GetRecord, storage
    <3>4. QED
      BY <1>1, <2>3, <3>1, <3>3, OutEnded DEF Clearing
  <2>4. CASE signedOut /\ count.failures = 0 /\ ~ Saves(First(t))
    <3>1. First(t).op = "logout" /\ First(t).pc \in Clearing
      BY <1>1, <2>4 DEF InHand, Stages, Saves, Clearing, ServedCall, Op, Exclusive
    <3>2. ASSUME NEW a \in Clearing, To(t, 1, a), disk'.public = disk.public,
                 \/ disk'.record = None
                 \/ disk'.record = disk.record /\ First(t).pc # "del_record"
          PROVE  OutInv'
      <4> DEFINE c == [First(t) EXCEPT !.pc = a]
      <4>1. Moved(t, c)
        BY <1>1, <3>2, ToMoves DEF OutInv, Inv
      <4>2. c.pc = a /\ ~ Saves(c)
        BY <1>1, <3>1 DEF Saves, ServedCall
      <4>3. QED
        BY <1>1, <2>4, <3>2, <4>1, <4>2, OutMoved
    <3>3. CASE DelRecord(t, i)
      BY <1>1, <1>3, <3>2, <3>3 DEF DelRecord, Clearing, OutInv, Inv, TypeOK, Database
    <3>4. CASE DelKey(t, i)
      <4>1. First(t).pc = "del_key"
        BY <1>1, <3>4 DEF DelKey, At, First
      <4>2. disk'.public = disk.public /\ disk'.record = disk.record
        BY <1>3, <3>4 DEF DelKey, OutInv, Inv, TypeOK, Database
      <4>3. QED
        BY <1>1, <3>2, <3>4, <4>1, <4>2 DEF DelKey, Clearing
    <3>5. CASE DelPublic(t, i)
      <4>1. First(t).pc = "del_public"
        BY <1>1, <3>5 DEF DelPublic, At, First
      <4>2. disk'.public = None /\ disk'.record = disk.record
        BY <1>3, <3>5 DEF DelPublic, OutInv, Inv, TypeOK, Database
      <4>3. QED
        BY <1>1, <2>4, <3>5, <4>1, <4>2, OutEnded DEF DelPublic
    <3>6. QED
      BY <1>1, <3>1, <3>3, <3>4, <3>5 DEF StorageStep, GetKey, AddKey, RacedKey, PutRecord,
         PutPublic, GetRecord, DropRecord, Decrypt, At, First, Clearing
  <2>5. QED
    BY <2>2, <2>3, <2>4
<1>4. QED
  BY <1>2, <1>3

\* nor anything a page does: a sign-in ends it.
LEMMA PageOut ==
  ASSUME OutInv, Inv', NEW t \in Tab,
         \/ \E op \in Op, i \in Someone : Post(t, op, i)
         \/ \E gone : Impatient(t, gone)
         \/ Reload(t)
  PROVE  OutInv'
<1>1. UNCHANGED disk
  BY DEF Post, Impatient, Reload
<1>2. signedOut' => signedOut
  BY DEF Post, Impatient, Reload
<1>3. count'.failures = count.failures
  BY DEF Post, Impatient, Reload, OutInv, Inv, TypeOK, Tally
<1>4. CASE \E op \in Op, i \in Someone : Post(t, op, i)
  <2>1. PICK op \in Op, i \in Someone : Post(t, op, i)
    BY <1>4
  <2>2. Outstanding' \subseteq Outstanding \cup {NewCall(op, i)} /\ Outstanding \subseteq Outstanding'
    BY <2>1, PostedOutstanding DEF OutInv
  <2>3. signedOut' => /\ op \notin {"login", "complete", "change"}
                      /\ op = "restore" => ~ Leaving
    BY <2>1 DEF Post
  <2>4. signedOut' /\ count.failures = 0 /\ op = "restore" => disk.record = None
    BY <1>2, <2>3, LeavingIsOutstanding DEF OutInv, Silent, Clearing
  <2>5. QED
    BY <1>1, <1>2, <1>3, <2>2, <2>3, <2>4 DEF OutInv, Silent, NewCall, Saves
<1>5. CASE \E gone : Impatient(t, gone)
  <2>1. PICK gone : Impatient(t, gone)
    BY <1>5
  <2>2. \A c \in Outstanding' : \E d \in Outstanding : c.op = d.op /\ c.pc = d.pc
    BY <2>1, GivenUpOutstanding DEF OutInv, Outstanding, ServedCall
  <2>3. \A d \in Outstanding : \E c \in Outstanding' : c.op = d.op /\ c.pc = d.pc
    BY <2>1, GivenUpOutstanding DEF OutInv, Outstanding, ServedCall
  <2>4. QED
    BY <1>1, <1>2, <1>3, <2>2, <2>3 DEF OutInv, Silent, Saves
<1>6. CASE Reload(t)
  <2>1. Outstanding' \subseteq Outstanding
    BY <1>6, ReloadedOutstanding DEF OutInv
  <2>2. signedOut' => ~ Leaving
    BY <1>6 DEF Reload
  <2>3. signedOut' /\ count.failures = 0 => disk.record = None /\ disk.public = None
    BY <1>2, <2>2, LeavingIsOutstanding DEF OutInv, Silent, Clearing
  <2>4. QED
    BY <1>1, <1>2, <1>3, <2>1, <2>3 DEF OutInv, Silent, Saves
<1>7. QED
  BY <1>4, <1>5, <1>6

\* Storage that hangs is storage that fails.
LEMMA HangOut ==
  ASSUME OutInv, Inv', NEW t \in Tab, NEW i \in Calls(t), Hang(t, i)
  PROVE  OutInv'
  BY HangEffect DEF OutInv, Silent

\* At first nobody has logged out.
LEMMA InitOut == Init => OutInv
  BY InitInv DEF Init, OutInv, Silent

\* Every step keeps the section's invariant.
LEMMA StepOut == OutInv /\ [Next]_vars => OutInv'
<1> SUFFICES ASSUME OutInv, [Next]_vars PROVE OutInv'
  OBVIOUS
<1>1. Inv'
  BY StepInv DEF OutInv
<1>2. CASE UNCHANGED vars
  <2>1. Outstanding' = Outstanding
    BY <1>2 DEF Outstanding, Calls, vars, ServedCall
  <2>2. QED
    BY <1>1, <1>2, <2>1 DEF OutInv, Silent, Saves, vars, storage
<1>3. QED
  BY <1>1, <1>2, PageOut, HandlerOut, StorageOut, HangOut
  DEF Next, Serve, TimeOut, WorkerError, Someone

\* After a logout nothing of the session is left in the database and no restore brings it
\* back, in any tab, until somebody signs in again (serialQueue.ts:2-4, cryptoWorker.ts,
\* the logout handler).
THEOREM LogoutIsFinal == Spec => []LoggedOutStaysOut
<1>1. OutInv => LoggedOutStaysOut
  BY LeavingIsOutstanding DEF OutInv, Silent, LoggedOutStaysOut, Clearing
<1>2. QED
  BY <1>1, InitOut, StepOut, PTL DEF Spec

-----------------------------------------------------------------------------
(* The page shows who is unlocked.                                           *)

\* What a call that has changed the session and is not answered yet leaves.
Outcome(t, c) ==
  /\ c.op \in {"login", "complete", "restore"} => mem[t].signer # None /\ ~ mem[t].pend
  /\ c.op = "complete" => page[t].recovered = mem[t].signer
  /\ c.op = "logout" => mem[t].signer = None /\ ~ mem[t].pend

\* What page and worker of tab t agree on while calls are under way: a form waits for one
\* answer at a time, and the page shows who was unlocked before the call that is being
\* served, which Outcome says what it will be told.
Agrees(t) ==
  /\ \A i \in Calls(t) : job[t][i].awaited
  /\ \A i, j \in Calls(t) :
       job[t][i].op \in Exclusive /\ job[t][j].op \in Exclusive => i = j
  /\ \A i \in Calls(t) : job[t][i].op \in Exclusive \ {"change"} => page[t].shown = None
  /\ \A i \in Calls(t) :
       job[t][i].op = "complete" /\ mem[t].pend => page[t].recovered # None
  /\ mem[t].pend => page[t].recovered \in {None, mem[t].signer}
  /\ ~ Served(t) => page[t].shown = IF mem[t].pend THEN None ELSE mem[t].signer
  /\ Served(t) => Outcome(t, First(t))

\* They agree as long as no call timed out.
Agreement == ~ count.gaveUp => \A t \in Tab : Agrees(t)

\* The inductive invariant of the section.
AgreeInv == Inv /\ Agreement

\* A step of another tab leaves a tab in agreement.
LEMMA AgreesOthers ==
  ASSUME Inv, NEW t \in Tab, Others(t), NEW u \in Tab, u # t, Agrees(u)
  PROVE  Agrees(u)'
<1>1. job'[u] = job[u] /\ mem'[u] = mem[u] /\ page'[u] = page[u]
  BY DEF Others
<1>2. Calls(u)' = Calls(u) /\ Served(u)' = Served(u) /\ First(u)' = First(u)
  BY <1>1 DEF Calls, Served, First
<1>3. Outcome(u, First(u))' <=> Outcome(u, First(u))
  BY <1>1, <1>2 DEF Outcome
<1>4. QED
  BY <1>1, <1>2, <1>3 DEF Agrees

\* The first call moves on: it has changed the session or it has not.
LEMMA AgreesMoved ==
  ASSUME Inv, Inv', NEW t \in Tab, NEW c, job[t] # <<>>, Moved(t, c), Agrees(t),
         c.op = First(t).op, c.awaited = First(t).awaited,
         mem'[t].pend => mem[t].pend /\ mem'[t].signer = mem[t].signer,
         \/ /\ ~ Took(c) /\ ~ Took(First(t))
            /\ mem'[t].signer = mem[t].signer /\ mem'[t].pend = mem[t].pend
         \/ /\ Took(c)
            /\ c.op \in {"login", "complete", "restore"} => mem'[t].signer # None /\ ~ mem'[t].pend
            /\ c.op = "complete" => page[t].recovered = mem'[t].signer
            /\ c.op = "logout" => mem'[t].signer = None /\ ~ mem'[t].pend
  PROVE  Agrees(t)'
<1>1. c \in ServedCall
  BY MovedIsTyped
<1>2. /\ Calls(t)' = Calls(t) /\ 1 \in Calls(t)
      /\ job'[t][1] = c
      /\ \A i \in Calls(t) : i = 1 \/ job'[t][i] = job[t][i]
  BY <1>1, MovedQueue, Queued DEF Inv, Calls
<1>3. \A i \in Calls(t) : job'[t][i].op = job[t][i].op /\ job'[t][i].awaited = job[t][i].awaited
  BY <1>2 DEF First
<1>4. page' = page
  BY DEF Moved
<1>5. (Served(t) <=> Took(First(t))) /\ (Served(t)' <=> Took(c)) /\ First(t)' = c
  BY <1>1, <1>2, ServedFirst, ServedMoved DEF First
<1>6. Took(c) => Outcome(t, First(t))'
  BY <1>4, <1>5 DEF Outcome, Took
<1>7. ~ Took(c) => page'[t].shown = IF mem'[t].pend THEN None ELSE mem'[t].signer
  BY <1>4, <1>5 DEF Agrees
<1>8. mem'[t].pend => page'[t].recovered \in {None, mem'[t].signer}
  BY <1>4 DEF Agrees
<1>9. QED
  BY <1>2, <1>3, <1>4, <1>5, <1>6, <1>7, <1>8 DEF Agrees

\* The first call ends, and the page is told.
LEMMA AgreesEnded ==
  ASSUME Inv, Inv', NEW t \in Tab, NEW a, job[t] # <<>>, Ended(t, a), Agrees(t),
         \/ First(t).op \in Exclusive
         \/ page'[t] = page[t] /\ mem'[t] = mem[t]
         \/ page'[t].shown = None /\ ~ mem'[t].pend,
         mem'[t].pend => page'[t].recovered \in {None, mem'[t].signer},
         page'[t].shown = IF mem'[t].pend THEN None ELSE mem'[t].signer
  PROVE  Agrees(t)'
<1>1. \A i \in Calls(t)' : i + 1 \in Calls(t) /\ i + 1 # 1 /\ job'[t][i] = job[t][i + 1] /\ i \in Nat
  BY EndedQueue DEF Inv, Calls
<1>2. 1 \in Calls(t) /\ ~ Served(t)'
  BY Queued, ServedEnded DEF Inv
<1>3. First(t).op \in Exclusive => \A i \in Calls(t)' : job'[t][i].op \notin Exclusive
  BY <1>1, <1>2 DEF Agrees, First
<1>4. \A i \in Calls(t)' : job'[t][i].awaited
  BY <1>1 DEF Agrees
<1>5. \A i, j \in Calls(t)' :
        job'[t][i].op \in Exclusive /\ job'[t][j].op \in Exclusive => i = j
  <2> SUFFICES ASSUME NEW i \in Calls(t)', NEW j \in Calls(t)',
                      job'[t][i].op \in Exclusive, job'[t][j].op \in Exclusive
               PROVE  i = j
    OBVIOUS
  <2>1. i + 1 = j + 1
    BY <1>1 DEF Agrees
  <2>2. QED
    BY <1>1, <2>1
<1>6. \A i \in Calls(t)' : job'[t][i].op \in Exclusive \ {"change"} => page'[t].shown = None
  BY <1>1, <1>3 DEF Agrees
<1>7. \A i \in Calls(t)' : job'[t][i].op = "complete" /\ mem'[t].pend => page'[t].recovered # None
  BY <1>1, <1>3 DEF Agrees, Exclusive
<1>8. QED
  BY <1>2, <1>4, <1>5, <1>6, <1>7 DEF Agrees

\* Every answer is heard, since nothing timed out.
LEMMA ToldPage ==
  ASSUME Inv, NEW t \in Tab, NEW a, job[t] # <<>>, Ended(t, a), Agrees(t)
  PROVE  page'[t] = Told(page[t], First(t), a)
<1>1. First(t).awaited
  BY Queued DEF Agrees, Inv, First
<1>2. QED
  BY <1>1 DEF Ended, Inv, TypeOK

\* A call that comes to nothing leaves the page as it was.
LEMMA AgreesNone ==
  ASSUME Inv, Inv', NEW t \in Tab, job[t] # <<>>, Finish(t, 1, None), Agrees(t),
         First(t).op \in Exclusive, ~ Took(First(t)), mem'[t] = mem[t]
  PROVE  Agrees(t)'
<1>1. Ended(t, None)
  BY FinishEnds DEF Inv
<1>2. page'[t] = Told(page[t], First(t), None)
  BY <1>1, ToldPage
<1>3. page[t] \in Page /\ First(t).op # "logout"
  BY DEF Inv, TypeOK, Exclusive
<1>4. page'[t].shown = page[t].shown /\ page'[t].recovered \in {page[t].recovered, None}
  BY <1>2, <1>3 DEF Told, Page
<1>5. page[t].shown = IF mem[t].pend THEN None ELSE mem[t].signer
  BY ServedFirst DEF Agrees
<1>6. mem[t].pend => page[t].recovered \in {None, mem[t].signer}
  BY DEF Agrees
<1>7. QED
  BY <1>1, <1>4, <1>5, <1>6, AgreesEnded

\* A step to the next await that changes no session keeps the agreement,
LEMMA AgreesTo ==
  ASSUME Inv, Inv', NEW t \in Tab, NEW a, job[t] # <<>>, To(t, 1, a), Agrees(t),
         First(t) \in ServedCall, mem'[t] = mem[t],
         Took([First(t) EXCEPT !.pc = a]) <=> Took(First(t))
  PROVE  Agrees(t)'
<1> DEFINE c == [First(t) EXCEPT !.pc = a]
<1>1. Moved(t, c)
  BY ToMoves DEF Inv
<1>2. c.op = First(t).op /\ c.awaited = First(t).awaited
  BY DEF ServedCall
<1>3. Took(First(t)) => Outcome(t, First(t))
  BY ServedFirst DEF Agrees
<1>4. QED
  BY <1>1, <1>2, <1>3, AgreesMoved DEF Outcome

\* and so does one that sets the session and begins to save it.
LEMMA AgreesPersist ==
  ASSUME Inv, Inv', NEW t \in Tab, job[t] # <<>>, Persist(t, 1), Agrees(t),
         First(t) \in ServedCall, First(t).pc = "posted",
         \/ /\ First(t).op = "change"
            /\ mem'[t].signer = mem[t].signer /\ mem'[t].pend = mem[t].pend
         \/ First(t).op = "login" /\ mem'[t].signer # None /\ ~ mem'[t].pend
         \/ /\ First(t).op = "complete" /\ mem[t].pend /\ mem[t].signer # None
            /\ mem'[t].signer = mem[t].signer /\ ~ mem'[t].pend
  PROVE  Agrees(t)'
<1> DEFINE c == [First(t) EXCEPT !.pc = "get_key",
                   !.record = Record(mem'[t].signer, mem'[t].cap, None)]
<1>1. Moved(t, c)
  BY PersistMoves DEF Inv
<1>2. c.op = First(t).op /\ c.awaited = First(t).awaited /\ c.pc = "get_key"
  BY DEF ServedCall
<1>3. First(t).op = "complete" => page[t].recovered = mem[t].signer
  BY Queued DEF Agrees, First, Inv
<1>4. CASE First(t).op = "change"
  <2>1. ~ Took(c) /\ ~ Took(First(t))
    BY <1>2, <1>4 DEF Took
  <2>2. QED
    BY <1>1, <1>2, <1>4, <2>1, AgreesMoved
<1>5. CASE First(t).op \in {"login", "complete"}
  <2>1. Took(c)
    BY <1>2, <1>5 DEF Took
  <2>2. QED
    BY <1>1, <1>2, <1>3, <1>5, <2>1, AgreesMoved
<1>6. QED
  BY <1>4, <1>5

\* Every handler keeps the agreement,
LEMMA AgreesHandled ==
  ASSUME Inv, Inv', NEW t \in Tab, NEW i \in Calls(t), Handler(t, i), Agrees(t)
  PROVE  Agrees(t)'
<1>1. i = 1 /\ job[t] # <<>> /\ First(t) \in ServedCall /\ InHand(First(t))
      /\ First(t).pc = "posted" /\ Begins(t, i, First(t).op)
  BY HandlerFirst
<1>2. mem \in [Tab -> Session] /\ mem' \in [Tab -> Session]
  BY DEF Inv, TypeOK
<1>3. /\ ~ Took(First(t)) => page[t].shown = IF mem[t].pend THEN None ELSE mem[t].signer
      /\ First(t).op \in Exclusive \ {"change"} => page[t].shown = None
      /\ mem[t].pend => page[t].recovered \in {None, mem[t].signer}
  BY <1>1, ServedFirst, Queued DEF Agrees, First, Inv
<1>4. CASE Refuse(t, i) /\ First(t).op \in {"login", "recover", "complete", "change"}
  BY <1>1, <1>4, AgreesNone DEF Refuse, storage, Took, Exclusive
<1>5. CASE Login(t, i)
  <2>1. First(t).op = "login"
    BY <1>1, <1>5 DEF Login, Begins, First
  <2>2. CASE /\ mem' = [mem EXCEPT ![t] = [signer |-> job[t][i].who, pend |-> FALSE, cap |-> New]]
             /\ Persist(t, i)
    <3>1. mem'[t].signer # None /\ ~ mem'[t].pend
      BY <1>1, <1>2, <2>1, <2>2 DEF InHand, First
    <3>2. QED
      BY <1>1, <2>1, <2>2, <3>1, AgreesPersist
  <2>3. QED
    BY <1>4, <1>5, <2>1, <2>2 DEF Login
<1>6. CASE Recover(t, i)
  <2>1. First(t).op = "recover"
    BY <1>1, <1>6 DEF Recover, Begins, First
  <2>2. CASE /\ mem' = [mem EXCEPT ![t] = [signer |-> job[t][i].who, pend |-> TRUE, cap |-> None]]
             /\ Finish(t, i, job[t][i].who)
    <3>1. Ended(t, First(t).who)
      BY <1>1, <2>2, FinishEnds DEF Inv, First
    <3>2. page'[t] = [page[t] EXCEPT !.recovered = First(t).who]
      BY <1>1, <2>1, <3>1, ToldPage DEF Told
    <3>3. page[t] \in Page
      BY DEF Inv, TypeOK
    <3>4. page'[t].shown = None /\ page'[t].recovered = First(t).who
      BY <1>3, <2>1, <3>2, <3>3 DEF Page, Exclusive
    <3>5. mem'[t].signer = First(t).who /\ mem'[t].pend
      BY <1>1, <1>2, <2>2 DEF First
    <3>6. QED
      BY <1>1, <2>1, <3>1, <3>4, <3>5, AgreesEnded DEF Exclusive
  <2>3. QED
    BY <1>4, <1>6, <2>1, <2>2 DEF Recover
<1>7. CASE CompleteRecovery(t, i)
  <2>1. First(t).op = "complete"
    BY <1>1, <1>7 DEF CompleteRecovery, Begins, First
  <2>2. CASE /\ mem[t].pend
             /\ mem' = [mem EXCEPT ![t] = [@ EXCEPT !.pend = FALSE, !.cap = New]]
             /\ Persist(t, i)
    <3>1. mem'[t] = [mem[t] EXCEPT !.pend = FALSE, !.cap = New]
      BY <1>2, <2>2
    <3>2. mem'[t].signer = mem[t].signer /\ ~ mem'[t].pend
      BY <1>2, <3>1 DEF Session
    <3>3. mem[t].signer # None
      BY <2>2 DEF Inv, PendingIsUnlocked
    <3>4. QED
      BY <1>1, <2>1, <2>2, <3>2, <3>3, AgreesPersist
  <2>3. QED
    BY <1>4, <1>7, <2>1, <2>2 DEF CompleteRecovery
<1>8. CASE ChangePassword(t, i)
  <2>1. First(t).op = "change"
    BY <1>1, <1>8 DEF ChangePassword, Begins, First
  <2>2. ASSUME mem' = [mem EXCEPT ![t].cap = New]
        PROVE  mem'[t].signer = mem[t].signer /\ mem'[t].pend = mem[t].pend
    BY <1>2, <2>2 DEF Session
  <2>3. CASE mem' = [mem EXCEPT ![t].cap = New] /\ Persist(t, i)
    BY <1>1, <2>1, <2>2, <2>3, AgreesPersist
  <2>4. CASE mem' = [mem EXCEPT ![t].cap = New] /\ Finish(t, i, job[t][i].who)
    <3>1. Ended(t, First(t).who)
      BY <1>1, <2>4, FinishEnds DEF Inv, First
    <3>2. page'[t] = page[t]
      BY <1>1, <2>1, <3>1, ToldPage DEF Told
    <3>3. page[t].shown = IF mem[t].pend THEN None ELSE mem[t].signer
      BY <1>3, <2>1 DEF Took
    <3>4. QED
      BY <1>1, <1>3, <2>1, <2>2, <2>4, <3>1, <3>2, <3>3, AgreesEnded DEF Exclusive
  <2>5. QED
    BY <1>4, <1>8, <2>1, <2>3, <2>4 DEF ChangePassword
<1>9. CASE Sign(t, i)
  <2>1. First(t).op = "sign" /\ mem' = mem
    BY <1>1, <1>9 DEF Sign, Begins, First, storage
  <2>2. Ended(t, mem[t].signer)
    BY <1>1, <1>9, FinishEnds DEF Inv, Sign
  <2>3. page'[t] = page[t]
    BY <1>1, <2>1, <2>2, ToldPage DEF Told
  <2>4. page[t].shown = IF mem[t].pend THEN None ELSE mem[t].signer
    BY <1>3, <2>1 DEF Took
  <2>5. QED
    BY <1>1, <1>3, <2>1, <2>2, <2>3, <2>4, AgreesEnded
<1>10. CASE RestoreSession(t, i)
  <2>1. First(t).op = "restore" /\ mem' = mem
    BY <1>1, <1>10 DEF RestoreSession, Begins, First, storage
  <2>2. ~ Took(First(t)) /\ ~ Took([First(t) EXCEPT !.pc = "get_record"])
    BY <1>1, <2>1 DEF Took, ServedCall
  <2>3. QED
    BY <1>1, <1>10, <2>1, <2>2, AgreesTo DEF RestoreSession
<1>11. CASE Logout(t, i)
  <2> DEFINE c == [First(t) EXCEPT !.pc = "del_record"]
  <2>1. First(t).op = "logout"
    BY <1>1, <1>11 DEF Logout, Begins, First
  <2>2. Moved(t, c)
    BY <1>1, <1>11, ToMoves DEF Logout, Inv
  <2>3. c.op = "logout" /\ c.awaited = First(t).awaited /\ Took(c)
    BY <1>1, <2>1 DEF ServedCall, Took
  <2>4. mem'[t].signer = None /\ ~ mem'[t].pend
    BY <1>2, <1>11 DEF Logout, Locked
  <2>5. QED
    BY <1>1, <2>1, <2>2, <2>3, <2>4, AgreesMoved
<1>12. QED
  BY <1>5, <1>6, <1>7, <1>8, <1>9, <1>10, <1>11 DEF Handler

\* every transaction does,
LEMMA AgreesStored ==
  ASSUME Inv, Inv', NEW t \in Tab, NEW i \in Calls(t), StorageStep(t, i), Agrees(t)
  PROVE  Agrees(t)'
<1>1. i = 1 /\ job[t] # <<>> /\ First(t) \in ServedCall /\ InHand(First(t))
      /\ First(t).pc # "posted"
  BY StorageFirst
<1>2. mem \in [Tab -> Session] /\ page[t] \in Page
  BY DEF Inv, TypeOK
<1>3. /\ First(t).op \in Exclusive \cup {"logout"}
      /\ First(t).op \in {"login", "complete", "logout"} => Took(First(t))
      /\ First(t).op \in {"change", "recover"} => ~ Took(First(t))
      /\ First(t).op = "restore" => (Took(First(t)) <=> First(t).pc = "put_public")
  BY <1>1 DEF InHand, Stages, Took, Exclusive, ServedCall, Op
<1>4. /\ ~ Took(First(t)) => page[t].shown = IF mem[t].pend THEN None ELSE mem[t].signer
      /\ Took(First(t)) => Outcome(t, First(t))
      /\ First(t).op \in Exclusive \ {"change"} => page[t].shown = None
      /\ mem[t].pend => page[t].recovered \in {None, mem[t].signer}
  BY <1>1, ServedFirst, Queued DEF Agrees, First, Inv
<1>5. ASSUME NEW a, To(t, 1, a), mem' = mem, a # "posted",
             First(t).op = "restore" => a # "put_public" /\ First(t).pc # "put_public"
      PROVE  Agrees(t)'
  <2>1. Took([First(t) EXCEPT !.pc = a]) <=> Took(First(t))
    BY <1>1, <1>3, <1>5 DEF Took, ServedCall
  <2>2. QED
    BY <1>1, <1>5, <2>1, AgreesTo
<1>6. ASSUME First(t).op = "restore", First(t).pc # "put_public", Finish(t, 1, None), mem' = mem
      PROVE  Agrees(t)'
  BY <1>1, <1>3, <1>6, AgreesNone DEF Exclusive
<1>7. ASSUME NoKey(t, 1), mem' = mem, First(t).pc \in {"get_key", "raced_key"}
      PROVE  Agrees(t)'
  BY <1>1, <1>5, <1>6, <1>7 DEF NoKey, Restoring, First
<1>8. ASSUME NEW k, HasKey(t, 1, k), mem' = mem, First(t).pc # "put_public"
      PROVE  Agrees(t)'
  <2> DEFINE c == [First(t) EXCEPT !.key = k,
                     !.pc = IF First(t).op = "restore" THEN "decrypt" ELSE "put_record"]
  <2>1. Moved(t, c)
    BY <1>1, <1>8, HasKeyMoves DEF Inv
  <2>2. c.op = First(t).op /\ c.awaited = First(t).awaited
        /\ c.pc \notin {"posted", "put_public"}
    BY <1>1 DEF ServedCall
  <2>3. Took(c) <=> Took(First(t))
    BY <1>1, <1>8, <2>2 DEF Took
  <2>4. QED
    BY <1>1, <1>4, <1>8, <2>1, <2>2, <2>3, AgreesMoved DEF Outcome
<1>9. CASE GetKey(t, i)
  <2>1. mem' = mem /\ First(t).pc = "get_key"
    BY <1>1, <1>9, SameStorage DEF GetKey, At, First
  <2>2. QED
    BY <1>1, <1>5, <1>7, <1>8, <1>9, <2>1 DEF GetKey
<1>10. CASE AddKey(t, i)
  <2>1. mem' = mem /\ First(t).pc = "add_key"
    BY <1>1, <1>10, SameStorage DEF AddKey, At, First
  <2>2. QED
    BY <1>1, <1>5, <1>8, <1>10, <2>1 DEF AddKey
<1>11. CASE RacedKey(t, i)
  <2>1. mem' = mem /\ First(t).pc = "raced_key"
    BY <1>1, <1>11, SameStorage DEF RacedKey, At, First
  <2>2. QED
    BY <1>1, <1>7, <1>8, <1>11, <2>1 DEF RacedKey
<1>12. CASE PutRecord(t, i)
  <2>1. mem' = mem /\ First(t).pc = "put_record" /\ First(t).op # "restore"
    BY <1>1, <1>12, SameStorage DEF PutRecord, At, First, InHand, Stages
  <2>2. QED
    BY <1>1, <1>5, <1>12, <2>1 DEF PutRecord
<1>13. CASE PutPublic(t, i)
  <2>1. mem' = mem /\ First(t).pc = "put_public"
        /\ First(t).op \in {"login", "complete", "change", "restore"}
    BY <1>1, <1>13, SameStorage DEF PutPublic, At, First, InHand, Stages
  <2>2. Ended(t, Answer(t, 1))
    BY <1>1, <1>13, FinishEnds DEF PutPublic, Inv
  <2>3. page'[t] = Told(page[t], First(t), Answer(t, 1))
    BY <1>1, <2>2, ToldPage
  <2>4. CASE First(t).op = "change"
    <3>1. page'[t] = page[t]
      BY <2>3, <2>4 DEF Told
    <3>2. QED
      BY <1>1, <1>3, <1>4, <2>1, <2>2, <2>4, <3>1, AgreesEnded
  <2>5. CASE First(t).op # "change"
    <3>1. Answer(t, 1) = mem[t].signer /\ mem[t].signer # None /\ ~ mem[t].pend
      BY <1>3, <1>4, <2>1, <2>5 DEF Answer, First, Outcome
    <3>2. page'[t].shown = mem[t].signer
      BY <1>2, <1>3, <1>4, <2>1, <2>3, <2>5, <3>1 DEF Told, Page, Outcome
    <3>3. QED
      BY <1>1, <2>1, <2>2, <3>1, <3>2, AgreesEnded DEF Exclusive
  <2>6. QED
    BY <2>4, <2>5
<1>14. CASE GetRecord(t, i)
  <2>1. mem' = mem /\ First(t).pc = "get_record" /\ First(t).op = "restore"
    BY <1>1, <1>14, SameStorage DEF GetRecord, At, First, InHand, Stages, storage
  <2>2. CASE job' = [job EXCEPT ![t][i] =
                [@ EXCEPT !.record = disk.record,
                          !.pc = IF disk.record.key = None THEN "drop_record" ELSE "get_key"]]
             /\ UNCHANGED <<storage, reply, page>>
    <3> DEFINE c == [First(t) EXCEPT !.record = disk.record,
                       !.pc = IF disk.record.key = None THEN "drop_record" ELSE "get_key"]
    <3>1. Moved(t, c)
      BY <1>1, <2>2 DEF Moved, First
    <3>2. c.op = First(t).op /\ c.awaited = First(t).awaited /\ ~ Took(c) /\ ~ Took(First(t))
      BY <1>1, <2>1 DEF ServedCall, Took
    <3>3. QED
      BY <1>1, <2>1, <3>1, <3>2, AgreesMoved
  <2>3. QED
    BY <1>1, <1>6, <1>14, <2>1, <2>2 DEF GetRecord
<1>15. CASE DropRecord(t, i)
  <2>1. mem' = mem /\ First(t).pc = "drop_record" /\ First(t).op = "restore"
    BY <1>1, <1>15, SameStorage DEF DropRecord, At, First, InHand, Stages
  <2>2. QED
    BY <1>1, <1>6, <1>15, <2>1 DEF DropRecord
<1>16. CASE Decrypt(t, i)
  <2>1. First(t).pc = "decrypt" /\ First(t).op = "restore"
    BY <1>1, <1>16 DEF Decrypt, At, First, InHand, Stages
  <2>2. CASE Readable(job[t][i].record, job[t][i].key)
    <3> DEFINE c == [First(t) EXCEPT !.pc = "put_public"]
    <3>1. Moved(t, c)
      BY <1>1, <1>16, <2>2, ToMoves DEF Decrypt, Inv
    <3>2. c.op = First(t).op /\ c.awaited = First(t).awaited /\ Took(c)
      BY <1>1, <2>1 DEF ServedCall, Took
    <3>3. First(t).record.who \in Ident
      BY <1>1, <2>1 DEF InHand, ServedCall, StoredRecord
    <3>4. mem'[t].signer = First(t).record.who /\ ~ mem'[t].pend
      BY <1>1, <1>2, <1>16, <2>2 DEF Decrypt, First
    <3>5. QED
      BY <1>1, <2>1, <3>1, <3>2, <3>3, <3>4, SessionAssumption, AgreesMoved
  <2>3. CASE ~ Readable(job[t][i].record, job[t][i].key)
    BY <1>1, <1>6, <1>16, <2>1, <2>3 DEF Decrypt
  <2>4. QED
    BY <2>2, <2>3
<1>17. CASE DelRecord(t, i) \/ DelKey(t, i)
  <2>1. mem' = mem /\ First(t).op = "logout"
    BY <1>1, <1>17, SameStorage DEF DelRecord, DelKey, At, First, InHand, Stages
  <2>2. QED
    BY <1>1, <1>5, <1>17, <2>1 DEF DelRecord, DelKey
<1>18. CASE DelPublic(t, i)
  <2>1. mem' = mem /\ First(t).op = "logout"
    BY <1>1, <1>18, SameStorage DEF DelPublic, At, First, InHand, Stages
  <2>2. Ended(t, None)
    BY <1>1, <1>18, FinishEnds DEF DelPublic, Inv
  <2>3. page'[t] = Fresh
    BY <1>1, <2>1, <2>2, ToldPage DEF Told
  <2>4. mem[t].signer = None /\ ~ mem[t].pend
    BY <1>3, <1>4, <2>1 DEF Outcome
  <2>5. page'[t].shown = None
    BY <2>3 DEF Fresh
  <2>6. QED
    BY <1>1, <2>1, <2>2, <2>4, <2>5, AgreesEnded
<1>19. QED
  BY <1>9, <1>10, <1>11, <1>12, <1>13, <1>14, <1>15, <1>16, <1>17, <1>18 DEF StorageStep

\* and every call that a page makes: it offers only what its screen allows.
LEMMA AgreesPosted ==
  ASSUME Inv, Inv', NEW t \in Tab, NEW op \in Op, NEW i \in Someone, Post(t, op, i), Agrees(t)
  PROVE  Agrees(t)'
<1> DEFINE c == NewCall(op, i)
           n == Len(job[t]) + 1
<1>1. c \in ServedCall /\ c.op = op /\ c.pc = "posted" /\ c.awaited
  BY NewCallIsTyped, OfferedIsNamed DEF Post, NewCall
<1>2. job' = [job EXCEPT ![t] = Append(@, c)]
  BY DEF Post
<1>3. /\ \A j \in Calls(t) : j \in Calls(t)' /\ job'[t][j] = job[t][j]
      /\ job'[t][n] = c
      /\ \A j \in Calls(t)' : j \in Calls(t) \/ j = n
  BY <1>1, <1>2, PostedQueue DEF Inv
<1>4. mem' = mem /\ page'[t].shown = page[t].shown
      /\ page'[t].recovered = IF op \in {"login", "recover", "restore"} THEN None
                             ELSE page[t].recovered
  BY DEF Post, Inv, TypeOK, Page
<1>5. op \in Exclusive => \A j \in Calls(t) : job[t][j].op \notin Exclusive
  BY DEF Post, Offered, Free, Agrees, Exclusive
<1>6. op \in Exclusive \ {"change"} => page[t].shown = None
  BY SessionAssumption DEF Post, Offered, Exclusive
<1>7. op = "complete" => page[t].recovered # None
  BY DEF Post, Offered
<1>8. \A j \in Calls(t)' : job'[t][j].awaited
  BY <1>1, <1>3 DEF Agrees
<1>9. \A j, k \in Calls(t)' :
        job'[t][j].op \in Exclusive /\ job'[t][k].op \in Exclusive => j = k
  BY <1>1, <1>3, <1>5 DEF Agrees
<1>10. \A j \in Calls(t)' : job'[t][j].op \in Exclusive \ {"change"} => page'[t].shown = None
  BY <1>1, <1>3, <1>4, <1>6 DEF Agrees
<1>11. ASSUME NEW j \in Calls(t)', job'[t][j].op = "complete", mem'[t].pend
       PROVE  page'[t].recovered # None
  <2>1. CASE j \in Calls(t)
    BY <1>3, <1>4, <1>5, <1>11, <2>1 DEF Agrees, Exclusive
  <2>2. CASE j = n
    BY <1>1, <1>3, <1>4, <1>7, <1>11, <2>2
  <2>3. QED
    BY <1>3, <2>1, <2>2
<1>12. mem'[t].pend => page'[t].recovered \in {None, mem'[t].signer}
  BY <1>4 DEF Agrees
<1>13. CASE job[t] = <<>>
  <2>1. n = 1 /\ ~ Served(t)
    BY <1>13 DEF Served
  <2>2. ~ Served(t)'
    BY <1>1, <1>3, <2>1 DEF Served
  <2>3. QED
    BY <1>4, <1>8, <1>9, <1>10, <1>11, <1>12, <2>1, <2>2 DEF Agrees
<1>14. CASE job[t] # <<>>
  <2>1. 1 \in Calls(t)
    BY <1>14, Queued DEF Inv
  <2>2. job'[t][1] = job[t][1] /\ job'[t] # <<>>
    <3>1. job'[t][1] = job[t][1] /\ 1 \in Calls(t)'
      BY <1>3, <2>1
    <3>2. job'[t] # <<>>
      BY <3>1, EmptySeq DEF Calls, Inv, TypeOK
    <3>3. QED
      BY <3>1, <3>2
  <2>3. (Served(t)' <=> Served(t)) /\ First(t)' = First(t)
    BY <1>14, <2>2 DEF Served, First
  <2>4. Served(t) => Outcome(t, First(t))'
    <3>1. First(t).op = "complete" => page'[t].recovered = page[t].recovered
      BY <1>4, <1>5, <2>1 DEF First, Exclusive
    <3>2. QED
      BY <1>4, <2>3, <3>1 DEF Outcome, Agrees
  <2>5. QED
    BY <1>4, <1>8, <1>9, <1>10, <1>11, <1>12, <2>3, <2>4 DEF Agrees
<1>15. QED
  BY <1>13, <1>14

\* A fresh page and a fresh worker agree.
LEMMA AgreesFresh ==
  ASSUME NEW t \in Tab, job[t] = <<>>, mem[t] = Locked, page[t] = Fresh
  PROVE  Agrees(t)
<1>1. Calls(t) = {} /\ ~ Served(t)
  BY DEF Calls, Served
<1>2. QED
  BY <1>1 DEF Agrees, Locked, Fresh

\* At first every page is fresh.
LEMMA InitAgree == Init => AgreeInv
  BY InitInv, AgreesFresh DEF Init, AgreeInv, Agreement

\* Every step keeps the section's invariant.
LEMMA StepAgree == AgreeInv /\ [Next]_vars => AgreeInv'
<1> SUFFICES ASSUME AgreeInv, [Next]_vars PROVE AgreeInv'
  OBVIOUS
<1>1. Inv /\ Inv'
  BY StepInv DEF AgreeInv
<1>2. CASE UNCHANGED vars
  <2>1. \A t \in Tab : Agrees(t)' <=> Agrees(t)
    BY <1>2 DEF Agrees, Outcome, Calls, Served, First, vars, storage
  <2>2. QED
    BY <1>1, <1>2, <2>1 DEF AgreeInv, Agreement, vars, storage
<1>3. ASSUME NEW t \in Tab, Others(t), ~ count.gaveUp => Agrees(t)',
             ~ count'.gaveUp => ~ count.gaveUp
      PROVE  AgreeInv'
  BY <1>1, <1>3, AgreesOthers DEF AgreeInv, Agreement
<1>4. ASSUME NEW t \in Tab, NEW op \in Op, NEW i \in Someone, Post(t, op, i)
      PROVE  AgreeInv'
  <2>1. count'.gaveUp = count.gaveUp
    BY <1>1, <1>4 DEF Post, Inv, TypeOK, Tally
  <2>2. QED
    BY <1>1, <1>3, <1>4, <2>1, PostPromised, AgreesPosted DEF AgreeInv, Agreement
<1>5. ASSUME NEW t \in Tab, NEW gone, Impatient(t, gone)
      PROVE  AgreeInv'
  <2>1. count'.gaveUp
    BY <1>1, <1>5 DEF Impatient, Inv, TypeOK, Tally
  <2>2. QED
    BY <1>1, <2>1 DEF AgreeInv, Agreement
<1>6. ASSUME NEW t \in Tab, Reload(t)
      PROVE  AgreeInv'
  <2>1. count'.gaveUp = count.gaveUp
    BY <1>1, <1>6 DEF Reload, Inv, TypeOK, Tally
  <2>2. job'[t] = <<>> /\ mem'[t] = Locked /\ page'[t] = Fresh
    BY <1>1, <1>6 DEF Reload, Inv, TypeOK
  <2>3. Agrees(t)'
    <3>1. Calls(t)' = {} /\ ~ Served(t)'
      BY <2>2 DEF Calls, Served
    <3>2. QED
      BY <2>2, <3>1 DEF Agrees, Locked, Fresh
  <2>4. QED
    BY <1>1, <1>3, <1>6, <2>1, <2>3, ReloadPromised
<1>7. ASSUME NEW t \in Tab, NEW i \in Calls(t), Handler(t, i) \/ StorageStep(t, i)
      PROVE  AgreeInv'
  <2>1. count'.gaveUp = count.gaveUp
    BY <1>1, <1>7 DEF Handler, Login, Recover, CompleteRecovery, ChangePassword, Sign,
       RestoreSession, Logout, Refuse, Persist, StorageStep, GetKey, AddKey, RacedKey, PutRecord,
       PutPublic, GetRecord, DropRecord, Decrypt, DelRecord, DelKey, DelPublic, Made, Fails,
       storage, Inv, TypeOK, Tally
  <2>2. QED
    BY <1>1, <1>3, <1>7, <2>1, ServePromised, AgreesHandled, AgreesStored
    DEF AgreeInv, Agreement
<1>8. ASSUME NEW t \in Tab, NEW i \in Calls(t), Hang(t, i)
      PROVE  AgreeInv'
  <2>1. UNCHANGED <<mem, job, page>> /\ count'.gaveUp = count.gaveUp
    BY <1>1, <1>8, HangEffect
  <2>2. \A u \in Tab : Agrees(u)' <=> Agrees(u)
    BY <2>1 DEF Agrees, Outcome, Calls, Served, First
  <2>3. QED
    BY <1>1, <2>1, <2>2 DEF AgreeInv, Agreement
<1>9. QED
  BY <1>2, <1>4, <1>5, <1>6, <1>7, <1>8 DEF Next, Serve, TimeOut, WorkerError, Someone

\* Once the calls of a page have been answered, and none timed out, the page shows the
\* identity that its worker has unlocked, in whatever order the calls were made and
\* whatever failed (serialQueue.ts:2-4).
THEOREM PageAndWorkerAgree == Spec => []PageAgrees
<1>1. AgreeInv => PageAgrees
  BY DEF AgreeInv, Agreement, Agrees, PageAgrees, Quiet, Served
<1>2. QED
  BY <1>1, InitAgree, StepAgree, PTL DEF Spec

-----------------------------------------------------------------------------
(* A reload brings back what is unlocked.                                    *)

\* The record in the database is the session that is unlocked, with its newest capsules,
\* readable with the key next to it.
Saved(t) ==
  disk.key # None /\ disk.record = Record(mem[t].signer, mem[t].cap, disk.key)

\* So is the public identity.
Stored(t) == Saved(t) /\ disk.public = mem[t].signer

\* What call c of a tab that is alone has in its hands.
Held(t, c) ==
  /\ c.pc # "raced_key"
  /\ c.pc = "add_key" => disk.key = None
  /\ c.pc \in {"decrypt", "put_record"} => c.key = disk.key
  /\ c.op = "restore" /\ c.pc \in {"drop_record", "get_key", "add_key", "decrypt"}
       => c.record = disk.record
  /\ c.pc = "drop_record" => c.record.key = None
  /\ c.op # "restore" /\ c.pc \in {"get_key", "add_key", "put_record"}
       => c.record = Record(mem[t].signer, mem[t].cap, None)
  /\ c.pc = "put_public" => Saved(t)
  /\ c.pc \in Clearing => mem[t].signer = None

\* Call c has set the session and is saving it.
Writing(c) ==
  \/ c.op \in {"login", "complete", "change"} /\ c.pc # "posted"
  \/ c.pc = "put_public"

\* A session that has capsules to save: not a recovery that is not completed.
Unlocked(t) == mem[t].signer # None /\ mem[t].cap # None

\* Of a tab that is alone: what its call has in hand is what the database holds, and
\* unless that call is saving, the unlocked session is stored.
Consistent(t) ==
  /\ job[t] # <<>> => Held(t, First(t))
  /\ (job[t] # <<>> => ~ Writing(First(t))) /\ Unlocked(t) => Stored(t)

\* No other tab has used the database, and no storage operation failed.
Alone(t) == count.used = {t} /\ count.failures = 0

\* A tab with a call or a session has used the database.
Kept ==
  /\ \A t \in Tab : job[t] # <<>> \/ mem[t].signer # None => t \in count.used
  /\ \A t \in Tab : Alone(t) => Consistent(t)

\* The inductive invariant of the section.
SavedInv == Inv /\ Kept

\* A call that moves on, with the right things in its hands, keeps the tab consistent,
LEMMA KeptMoved ==
  ASSUME Inv, Inv', NEW t \in Tab, NEW c, job[t] # <<>>, Moved(t, c), Held(t, c)',
         ~ Writing(c) /\ Unlocked(t)' => Stored(t)'
  PROVE  Consistent(t)'
<1>1. c \in ServedCall
  BY MovedIsTyped
<1>2. job'[t] # <<>> /\ First(t)' = c
  <2>1. job'[t][1] = c /\ job' \in [Tab -> Seq(ServedCall)] /\ Calls(t)' = Calls(t)
    BY <1>1, MovedQueue DEF Inv
  <2>2. 1 \in Calls(t)'
    BY <2>1, Queued DEF Inv
  <2>3. QED
    BY <2>1, <2>2, EmptySeq DEF Calls, First
<1>3. QED
  BY <1>2 DEF Consistent, Held, Saved, Stored, Unlocked

\* as does one that ends with the session stored,
LEMMA KeptEnded ==
  ASSUME Inv, Inv', NEW t \in Tab, NEW a, job[t] # <<>>, Finish(t, 1, a),
         Unlocked(t)' => Stored(t)'
  PROVE  Consistent(t)'
<1>1. Ended(t, a)
  BY FinishEnds DEF Inv
<1>2. \A i \in Calls(t)' : job'[t][i].pc = "posted"
  BY <1>1, EndedQueue DEF Inv, OneAtATime
<1>3. job'[t] # <<>> => First(t)'.pc = "posted"
  <2>1. job'[t] \in Seq(ServedCall)
    BY DEF Inv, TypeOK
  <2>2. QED
    BY <1>2, <2>1, EmptySeq, LenProperties DEF Calls, First
<1>4. QED
  BY <1>3 DEF Consistent, Held, Writing, Clearing

\* one that goes to its next await,
LEMMA KeptTo ==
  ASSUME Inv, Inv', NEW t \in Tab, NEW a, job[t] # <<>>, To(t, 1, a), First(t) \in ServedCall,
         NEW c, c = [First(t) EXCEPT !.pc = a], Held(t, c)',
         ~ Writing(c) /\ Unlocked(t)' => Stored(t)'
  PROVE  Consistent(t)'
<1>1. Moved(t, c)
  BY ToMoves DEF Inv
<1>2. QED
  BY <1>1, KeptMoved

\* and one that begins to save.
LEMMA KeptPersist ==
  ASSUME Inv, Inv', NEW t \in Tab, job[t] # <<>>, Persist(t, 1), First(t) \in ServedCall,
         First(t).op \in {"login", "complete", "change"}
  PROVE  Consistent(t)'
<1> PICK c : c = [First(t) EXCEPT !.pc = "get_key",
                   !.record = Record(mem'[t].signer, mem'[t].cap, None)]
  OBVIOUS
<1>1. Moved(t, c)
  BY PersistMoves DEF Inv
<1>2. c.op = First(t).op /\ c.pc = "get_key" /\ c.record = Record(mem'[t].signer, mem'[t].cap, None)
  BY DEF ServedCall
<1>3. Held(t, c)'
  BY <1>2 DEF Held, Clearing, Record
<1>4. Writing(c)
  BY <1>2 DEF Writing
<1>5. QED
  BY <1>1, <1>3, <1>4, KeptMoved

\* Every handler keeps it,
LEMMA KeptHandled ==
  ASSUME Inv, Inv', NEW t \in Tab, NEW i \in Calls(t), Handler(t, i), Consistent(t)
  PROVE  Consistent(t)'
<1>1. i = 1 /\ job[t] # <<>> /\ First(t) \in ServedCall /\ First(t).pc = "posted"
      /\ Begins(t, i, First(t).op)
  BY HandlerFirst
<1>2. mem \in [Tab -> Session]
  BY DEF Inv, TypeOK
<1>3. ~ Writing(First(t)) /\ (Unlocked(t) => Stored(t))
  BY <1>1 DEF Consistent, Writing
<1>4. UNCHANGED <<disk, mem>> => (Unlocked(t)' => Stored(t)')
  BY <1>3 DEF Unlocked, Stored, Saved
<1>5. CASE Refuse(t, i)
  BY <1>1, <1>4, <1>5, KeptEnded DEF Refuse, storage
<1>6. CASE Persist(t, i) /\ First(t).op \in {"login", "complete", "change"}
  BY <1>1, <1>6, KeptPersist
<1>7. CASE Login(t, i) \/ CompleteRecovery(t, i)
  BY <1>1, <1>5, <1>6, <1>7 DEF Login, CompleteRecovery, Begins, First
<1>8. CASE Recover(t, i)
  <2>1. CASE /\ mem' = [mem EXCEPT ![t] = [signer |-> job[t][i].who, pend |-> TRUE, cap |-> None]]
             /\ Finish(t, i, job[t][i].who)
    <3>1. ~ Unlocked(t)'
      BY <1>2, <2>1 DEF Unlocked
    <3>2. QED
      BY <1>1, <2>1, <3>1, KeptEnded
  <2>2. QED
    BY <1>5, <1>8, <2>1 DEF Recover
<1>9. CASE ChangePassword(t, i)
  <2>1. First(t).op = "change"
    BY <1>1, <1>9 DEF ChangePassword, Begins, First
  <2>2. CASE /\ mem' = [mem EXCEPT ![t].cap = New] /\ mem[t].signer = None
             /\ Finish(t, i, job[t][i].who)
    <3>1. ~ Unlocked(t)'
      BY <1>2, <2>2 DEF Unlocked, Session
    <3>2. QED
      BY <1>1, <2>2, <3>1, KeptEnded
  <2>3. QED
    BY <1>5, <1>6, <1>9, <2>1, <2>2 DEF ChangePassword
<1>10. CASE Sign(t, i)
  BY <1>1, <1>4, <1>10, KeptEnded DEF Sign, storage
<1>11. CASE RestoreSession(t, i)
  <2> PICK c : c = [First(t) EXCEPT !.pc = "get_record"]
    OBVIOUS
  <2>1. c.op = "restore" /\ c.pc = "get_record"
    BY <1>1, <1>11 DEF RestoreSession, Begins, First, ServedCall
  <2>2. Held(t, c)'
    BY <2>1 DEF Held, Clearing
  <2>3. QED
    BY <1>1, <1>4, <1>11, <2>2, KeptTo DEF RestoreSession, storage
<1>12. CASE Logout(t, i)
  <2> PICK c : c = [First(t) EXCEPT !.pc = "del_record"]
    OBVIOUS
  <2>1. c.op = "logout" /\ c.pc = "del_record"
    BY <1>1, <1>12 DEF Logout, Begins, First, ServedCall
  <2>2. mem'[t].signer = None
    BY <1>2, <1>12 DEF Logout, Locked
  <2>3. Held(t, c)' /\ ~ Unlocked(t)'
    BY <2>1, <2>2 DEF Held, Clearing, Unlocked
  <2>4. QED
    BY <1>1, <1>12, <2>3, KeptTo DEF Logout
<1>13. QED
  BY <1>7, <1>8, <1>9, <1>10, <1>11, <1>12 DEF Handler

\* and every transaction that does not fail.
LEMMA KeptStored ==
  ASSUME Inv, Inv', NEW t \in Tab, NEW i \in Calls(t), StorageStep(t, i), ~ Fails, Consistent(t)
  PROVE  Consistent(t)'
<1>1. i = 1 /\ job[t] # <<>> /\ First(t) \in ServedCall /\ InHand(First(t))
      /\ First(t).pc # "posted"
  BY StorageFirst
<1>2. Held(t, First(t)) /\ (~ Writing(First(t)) /\ Unlocked(t) => Stored(t))
  BY <1>1 DEF Consistent
<1>3. mem \in [Tab -> Session] /\ disk \in Database
  BY DEF Inv, TypeOK
<1>4. First(t).op # "restore" /\ First(t).pc \in {"get_key", "add_key", "put_record", "put_public"}
        => Writing(First(t))
  BY <1>1 DEF Writing, InHand, Stages
<1>5. ASSUME NEW k, HasKey(t, 1, k), mem' = mem, disk'.key = k, disk'.record = disk.record,
             disk' = disk \/ disk.key = None, First(t).pc \in {"get_key", "add_key"}
      PROVE  Consistent(t)'
  <2> PICK c : c = [First(t) EXCEPT !.key = k,
                     !.pc = IF First(t).op = "restore" THEN "decrypt" ELSE "put_record"]
    OBVIOUS
  <2>1. Moved(t, c)
    BY <1>1, <1>5, HasKeyMoves DEF Inv
  <2>2. /\ c.op = First(t).op /\ c.key = k /\ c.record = First(t).record
        /\ c.pc = IF First(t).op = "restore" THEN "decrypt" ELSE "put_record"
    BY <1>1 DEF ServedCall
  <2>3. Held(t, c)'
    BY <1>2, <1>5, <2>2 DEF Held, Clearing
  <2>4. ASSUME ~ Writing(c), Unlocked(t)'
        PROVE  Stored(t)'
    <3>1. First(t).op = "restore" /\ ~ Writing(First(t))
      BY <1>1, <1>4, <1>5, <2>2, <2>4 DEF Writing, InHand, Stages
    <3>2. Stored(t)
      BY <1>2, <1>5, <2>4, <3>1 DEF Unlocked
    <3>3. QED
      BY <1>5, <3>2 DEF Stored, Saved
  <2>5. QED
    BY <1>1, <2>1, <2>3, <2>4, KeptMoved
<1>6. CASE GetKey(t, i)
  <2>1. First(t).pc = "get_key" /\ UNCHANGED storage
    BY <1>1, <1>6 DEF GetKey, At, First
  <2>2. CASE disk.key # None /\ HasKey(t, i, disk.key)
    BY <1>1, <1>5, <2>1, <2>2 DEF storage
  <2>3. CASE disk.key = None /\ To(t, i, "add_key")
    <3> PICK c : c = [First(t) EXCEPT !.pc = "add_key"]
      OBVIOUS
    <3>1. c.op = First(t).op /\ c.record = First(t).record /\ c.pc = "add_key"
      BY <1>1 DEF ServedCall
    <3>2. Held(t, c)'
      BY <1>2, <2>1, <2>3, <3>1 DEF Held, Clearing, storage
    <3>3. ~ Writing(c) => ~ Writing(First(t))
      BY <2>1, <3>1 DEF Writing
    <3>4. ~ Writing(c) /\ Unlocked(t)' => Stored(t)'
      BY <1>2, <2>1, <3>3 DEF Unlocked, Stored, Saved, storage
    <3>5. QED
      BY <1>1, <2>3, <3>2, <3>4, KeptTo
  <2>4. QED
    BY <1>6, <2>2, <2>3 DEF GetKey
<1>7. CASE AddKey(t, i)
  <2>1. First(t).pc = "add_key"
    BY <1>1, <1>7 DEF AddKey, At, First
  <2>2. disk.key = None
    BY <1>2, <2>1 DEF Held
  <2>3. disk' = [disk EXCEPT !.key = New] /\ HasKey(t, i, New) /\ UNCHANGED mem
    BY <1>7, <2>2 DEF AddKey
  <2>4. disk'.key = New /\ disk'.record = disk.record
    BY <1>3, <2>3 DEF Database
  <2>5. QED
    BY <1>1, <1>5, <2>1, <2>2, <2>3, <2>4
<1>8. CASE RacedKey(t, i)
  BY <1>1, <1>2, <1>8 DEF RacedKey, At, First, Held
<1>9. CASE PutRecord(t, i)
  <2>1. First(t).pc = "put_record" /\ First(t).op # "restore"
    BY <1>1, <1>9 DEF PutRecord, At, First, InHand, Stages
  <2>2. First(t).record = Record(mem[t].signer, mem[t].cap, None) /\ First(t).key = disk.key
        /\ First(t).key # None
    BY <1>1, <1>2, <2>1 DEF Held, InHand
  <2>3. disk' = [disk EXCEPT !.record = [First(t).record EXCEPT !.key = First(t).key]]
        /\ UNCHANGED mem /\ To(t, 1, "put_public")
    BY <1>1, <1>9 DEF PutRecord, First
  <2>4. Saved(t)'
    BY <1>3, <2>2, <2>3 DEF Saved, Record, Database
  <2> PICK c : c = [First(t) EXCEPT !.pc = "put_public"]
    OBVIOUS
  <2>5. c.pc = "put_public"
    BY <1>1 DEF ServedCall
  <2>6. Held(t, c)' /\ Writing(c)
    BY <2>4, <2>5 DEF Held, Clearing, Writing
  <2>7. QED
    BY <1>1, <2>3, <2>6, KeptTo
<1>10. CASE PutPublic(t, i)
  <2>1. First(t).pc = "put_public"
    BY <1>1, <1>10 DEF PutPublic, At, First
  <2>2. Saved(t)
    BY <1>2, <2>1 DEF Held
  <2>3. Finish(t, 1, Answer(t, 1)) /\ mem' = mem
        /\ disk' = IF mem[t].signer = None THEN disk ELSE [disk EXCEPT !.public = mem[t].signer]
    BY <1>1, <1>10 DEF PutPublic
  <2>4. Unlocked(t)' => Stored(t)'
    BY <1>3, <2>2, <2>3 DEF Unlocked, Stored, Saved, Database
  <2>5. QED
    BY <1>1, <2>3, <2>4, KeptEnded
<1>11. ASSUME mem' = mem, disk' = disk, ~ Writing(First(t))
       PROVE  Unlocked(t)' => Stored(t)'
  BY <1>2, <1>11 DEF Unlocked, Stored, Saved
<1>12. CASE GetRecord(t, i)
  <2>1. First(t).pc = "get_record" /\ First(t).op = "restore" /\ ~ Writing(First(t))
        /\ UNCHANGED storage
    BY <1>1, <1>12 DEF GetRecord, At, First, InHand, Stages, Writing, storage
  <2>2. CASE /\ disk.record # None
             /\ job' = [job EXCEPT ![t][i] =
                  [@ EXCEPT !.record = disk.record,
                            !.pc = IF disk.record.key = None THEN "drop_record" ELSE "get_key"]]
             /\ UNCHANGED <<storage, reply, page>>
    <3> PICK c : c = [First(t) EXCEPT !.record = disk.record,
                       !.pc = IF disk.record.key = None THEN "drop_record" ELSE "get_key"]
      OBVIOUS
    <3>1. Moved(t, c)
      BY <1>1, <2>2 DEF Moved, First
    <3>2. c.op = "restore" /\ c.record = disk.record
          /\ c.pc = IF disk.record.key = None THEN "drop_record" ELSE "get_key"
      BY <1>1, <2>1 DEF ServedCall
    <3>3. Held(t, c)' /\ ~ Writing(c)
      BY <2>1, <3>2 DEF Held, Clearing, Writing, storage
    <3>4. QED
      BY <1>1, <1>11, <2>1, <3>1, <3>3, KeptMoved DEF storage
  <2>3. QED
    BY <1>1, <1>11, <1>12, <2>1, <2>2, KeptEnded DEF GetRecord, storage
<1>13. CASE DropRecord(t, i)
  <2>1. First(t).pc = "drop_record" /\ First(t).op = "restore" /\ ~ Writing(First(t))
    BY <1>1, <1>13 DEF DropRecord, At, First, InHand, Stages, Writing
  <2>2. mem' = mem /\ Finish(t, 1, None)
    BY <1>1, <1>13 DEF DropRecord
  <2>3. disk.record.key = None
    BY <1>2, <2>1 DEF Held
  <2>4. ~ Unlocked(t)
    BY <1>2, <2>1, <2>3 DEF Stored, Saved, Record
  <2>5. QED
    BY <1>1, <2>2, <2>4, KeptEnded DEF Unlocked
<1>14. CASE Decrypt(t, i)
  <2>1. First(t).pc = "decrypt" /\ First(t).op = "restore" /\ ~ Writing(First(t))
    BY <1>1, <1>14 DEF Decrypt, At, First, InHand, Stages, Writing
  <2>2. First(t).record = disk.record /\ First(t).key = disk.key /\ disk.key # None
        /\ First(t).record \in StoredRecord
    BY <1>1, <1>2, <2>1 DEF Held, InHand, ServedCall
  <2>3. CASE Readable(job[t][i].record, job[t][i].key)
    <3>1. disk.record.key = disk.key
      BY <1>1, <2>2, <2>3 DEF Readable, First
    <3>2. mem' = [mem EXCEPT ![t] =
               [signer |-> disk.record.who, pend |-> FALSE, cap |-> disk.record.cap]]
          /\ disk' = disk /\ To(t, 1, "put_public")
      BY <1>1, <1>14, <2>2, <2>3 DEF Decrypt, First
    <3>3. mem'[t].signer = disk.record.who /\ mem'[t].cap = disk.record.cap
      BY <1>3, <3>2
    <3>4. disk.record = Record(disk.record.who, disk.record.cap, disk.key)
      BY <2>2, <3>1 DEF StoredRecord, Record
    <3>5. Saved(t)'
      BY <2>2, <3>2, <3>3, <3>4 DEF Saved
    <3> PICK c : c = [First(t) EXCEPT !.pc = "put_public"]
      OBVIOUS
    <3>6. c.pc = "put_public"
      BY <1>1 DEF ServedCall
    <3>7. Held(t, c)' /\ Writing(c)
      BY <3>5, <3>6 DEF Held, Clearing, Writing
    <3>8. QED
      BY <1>1, <3>2, <3>7, KeptTo
  <2>4. CASE ~ Readable(job[t][i].record, job[t][i].key)
    BY <1>1, <1>11, <1>14, <2>1, <2>4, KeptEnded DEF Decrypt
  <2>5. QED
    BY <2>3, <2>4
<1>15. CASE DelRecord(t, i) \/ DelKey(t, i) \/ DelPublic(t, i)
  <2>1. First(t).pc \in Clearing /\ First(t).op = "logout"
    BY <1>1, <1>15 DEF DelRecord, DelKey, DelPublic, At, First, Clearing, InHand, Stages
  <2>2. mem[t].signer = None /\ mem' = mem
    BY <1>2, <1>15, <2>1 DEF Held, DelRecord, DelKey, DelPublic, Fails
  <2>3. ~ Unlocked(t)'
    BY <2>2 DEF Unlocked
  <2>4. ASSUME NEW a \in Clearing, To(t, 1, a)
        PROVE  Consistent(t)'
    <3> PICK c : c = [First(t) EXCEPT !.pc = a]
      OBVIOUS
    <3>1. c.op = "logout" /\ c.pc = a
      BY <1>1, <2>1 DEF ServedCall
    <3>2. Held(t, c)'
      BY <2>2, <2>4, <3>1 DEF Held, Clearing
    <3>3. QED
      BY <1>1, <2>3, <2>4, <3>2, KeptTo
  <2>5. QED
    BY <1>1, <1>15, <2>3, <2>4, KeptEnded DEF DelRecord, DelKey, DelPublic, Clearing
<1>16. QED
  BY <1>6, <1>7, <1>8, <1>9, <1>10, <1>12, <1>13, <1>14, <1>15 DEF StorageStep

\* A step that a call of tab t takes: no other tab is alone, before or after.
LEMMA SavedServed ==
  ASSUME SavedInv, Inv', NEW t \in Tab, job[t] # <<>>, Others(t),
         count'.used = count.used,
         Alone(t)' => Alone(t) /\ Consistent(t)'
  PROVE  SavedInv'
<1>1. t \in count.used
  BY DEF SavedInv, Kept
<1>2. \A u \in Tab : Alone(u)' => u = t
  BY <1>1 DEF Alone
<1>3. \A u \in Tab : job'[u] # <<>> \/ mem'[u].signer # None => u \in count'.used
  BY <1>1 DEF Others, SavedInv, Kept
<1>4. QED
  BY <1>2, <1>3 DEF SavedInv, Kept

\* Whatever the worker does keeps the section's invariant.
LEMMA ServeSaved ==
  ASSUME SavedInv, Inv', NEW t \in Tab, NEW i \in Calls(t), Handler(t, i) \/ StorageStep(t, i)
  PROVE  SavedInv'
<1>1. Inv
  BY DEF SavedInv
<1>2. job[t] # <<>> /\ Others(t)
  BY <1>1, Queued, ServePromised DEF Inv
<1>3. CASE Fails
  <2>1. count'.failures # 0 /\ count'.used = count.used
    BY <1>1, <1>3 DEF Fails, Inv, TypeOK, Tally
  <2>2. ~ Alone(t)'
    BY <2>1 DEF Alone
  <2>3. QED
    BY <1>2, <2>1, <2>2, SavedServed
<1>4. CASE ~ Fails
  <2>1. count'.used = count.used /\ count'.failures = count.failures
    BY <1>1, <1>4 DEF Handler, Login, Recover, CompleteRecovery, ChangePassword, Sign,
       RestoreSession, Logout, Refuse, Persist, StorageStep, GetKey, AddKey, RacedKey, PutRecord,
       PutPublic, GetRecord, DropRecord, Decrypt, DelRecord, DelKey, DelPublic, Made,
       storage, Inv, TypeOK, Tally
  <2>2. Alone(t)' => Alone(t)
    BY <2>1 DEF Alone
  <2>3. Alone(t) => Consistent(t)'
    BY <1>1, <1>4, KeptHandled, KeptStored DEF SavedInv, Kept
  <2>4. QED
    BY <1>2, <2>1, <2>2, <2>3, SavedServed
<1>5. QED
  BY <1>3, <1>4

\* A call that is only not waited for any more holds what it held.
LEMMA StillConsistent ==
  ASSUME NEW t \in Tab, UNCHANGED <<disk, mem>>, job[t] # <<>>, job'[t] # <<>>, Consistent(t),
         First(t)'.op = First(t).op, First(t)'.pc = First(t).pc,
         First(t)'.record = First(t).record, First(t)'.key = First(t).key
  PROVE  Consistent(t)'
<1>1. Held(t, First(t)) /\ (~ Writing(First(t)) /\ Unlocked(t) => Stored(t))
  BY DEF Consistent
<1>2. /\ Saved(t)' <=> Saved(t)
      /\ Stored(t)' <=> Stored(t)
      /\ Unlocked(t)' <=> Unlocked(t)
  BY DEF Saved, Stored, Unlocked
<1>3. Writing(First(t))' <=> Writing(First(t))
  BY DEF Writing
<1>4. Held(t, First(t))'
  <2>1. disk' = disk /\ mem' = mem
    OBVIOUS
  <2>2. Held(t, First(t))
    BY <1>1
  <2>3. PICK c, d : c = First(t) /\ d = First(t)'
    OBVIOUS
  <2>4. c.op = d.op /\ c.pc = d.pc /\ c.record = d.record /\ c.key = d.key
    BY <2>3
  <2>5. Held(t, d)'
    BY <1>2, <2>1, <2>2, <2>3, <2>4 DEF Held
  <2>6. QED
    BY <2>3, <2>5 DEF Held
<1>5. ASSUME ~ Writing(First(t))', Unlocked(t)'
      PROVE  Stored(t)'
  BY <1>1, <1>2, <1>3, <1>5
<1>6. (~ Writing(First(t)) /\ Unlocked(t) => Stored(t))'
  BY <1>5
<1>7. QED
  BY <1>4, <1>6 DEF Consistent

\* A call that is posted by the tab itself has nothing in its hands; one of another tab
\* ends the solitude.
LEMMA PostSaved ==
  ASSUME SavedInv, Inv', NEW t \in Tab, NEW op \in Op, NEW i \in Someone, Post(t, op, i)
  PROVE  SavedInv'
<1>1. Inv
  BY DEF SavedInv
<1>2. count'.used = count.used \cup {t} /\ count'.failures = count.failures
      /\ UNCHANGED <<disk, mem>>
  BY <1>1 DEF Post, Inv, TypeOK, Tally
<1>3. Others(t)
  BY <1>1, PostPromised
<1>4. \A u \in Tab : job'[u] # <<>> \/ mem'[u].signer # None => u \in count'.used
  BY <1>2, <1>3 DEF Others, SavedInv, Kept
<1>5. \A u \in Tab : Alone(u)' => u = t /\ (t \in count.used => Alone(t)) /\ count.failures = 0
  BY <1>2 DEF Alone
<1> DEFINE c == NewCall(op, i)
           n == Len(job[t]) + 1
<1>6. c \in ServedCall /\ c.op = op /\ c.pc = "posted"
  BY NewCallIsTyped, OfferedIsNamed, <1>1 DEF Post, NewCall
<1>7. /\ \A j \in Calls(t) : j \in Calls(t)' /\ job'[t][j] = job[t][j]
      /\ job'[t][n] = c
  BY <1>1, <1>6, PostedQueue DEF Post, Inv
<1>8. CASE job[t] = <<>>
  <2>1. n = 1 /\ First(t)'.pc = "posted"
    BY <1>6, <1>7, <1>8 DEF First
  <2>2. Unlocked(t)' /\ Alone(t)' => Stored(t)'
    <3>1. Unlocked(t) /\ Alone(t) => Stored(t)
      BY <1>8 DEF SavedInv, Kept, Consistent
    <3>2. Unlocked(t) => t \in count.used
      BY DEF Unlocked, SavedInv, Kept
    <3>3. QED
      BY <1>2, <1>5, <3>1, <3>2 DEF Unlocked, Stored, Saved
  <2>3. Alone(t)' => Consistent(t)'
    BY <2>1, <2>2 DEF Consistent, Held, Writing, Clearing
  <2>4. QED
    BY <1>4, <1>5, <2>3 DEF SavedInv, Kept
<1>9. CASE job[t] # <<>>
  <2>1. First(t)' = First(t) /\ t \in count.used /\ 1 \in Calls(t)'
    BY <1>1, <1>7, <1>9, Queued DEF First, Inv, SavedInv, Kept
  <2> job'[t] # <<>>
    BY <2>1 DEF Calls
  <2>2. Alone(t)' => Consistent(t)
    BY <1>5, <2>1 DEF SavedInv, Kept
  <2>3. Consistent(t) => Consistent(t)'
    BY <1>2, <1>9, <2>1, StillConsistent
  <2>4. QED
    BY <1>4, <1>5, <2>2, <2>3 DEF SavedInv, Kept
<1>10. QED
  BY <1>8, <1>9

\* A timeout changes nothing that is held,
LEMMA ImpatientSaved ==
  ASSUME SavedInv, Inv', NEW t \in Tab, NEW gone, Impatient(t, gone)
  PROVE  SavedInv'
<1>1. Inv
  BY DEF SavedInv
<1>2. job[t] # <<>> /\ 1 \in Calls(t)
  BY <1>1, Queued DEF Impatient, Inv
<1>3. Others(t)
  BY <1>1, ImpatientPromised
<1>4. count'.used = count.used /\ count'.failures = count.failures /\ UNCHANGED <<disk, mem>>
  BY <1>1 DEF Impatient, Inv, TypeOK, Tally
<1>5. First(t)' = First(t) \/ First(t)' = [First(t) EXCEPT !.awaited = FALSE]
  BY <1>1, <1>2, GivenUp DEF First
<1>6. /\ First(t)'.op = First(t).op /\ First(t)'.pc = First(t).pc
      /\ First(t)'.record = First(t).record /\ First(t)'.key = First(t).key
  BY <1>1, <1>2, <1>5, Queued DEF First, Inv, ServedCall
<1>7. Consistent(t) => Consistent(t)'
  <2>1. job'[t] # <<>>
    BY <1>1, <1>2, GivenUp DEF Calls
  <2>2. QED
    BY <1>2, <1>4, <1>6, <2>1, StillConsistent
<1>8. Alone(t)' => Alone(t)
  BY <1>4 DEF Alone
<1>9. QED
  BY <1>2, <1>3, <1>4, <1>7, <1>8, SavedServed DEF SavedInv, Kept

\* and a reload locks the session.
LEMMA ReloadSaved ==
  ASSUME SavedInv, Inv', NEW t \in Tab, Reload(t)
  PROVE  SavedInv'
<1>1. Inv
  BY DEF SavedInv
<1>2. count'.used = count.used /\ count'.failures = count.failures /\ disk' = disk
  BY <1>1 DEF Reload, Inv, TypeOK, Tally
<1>3. job'[t] = <<>> /\ mem'[t] = Locked /\ Others(t)
  BY <1>1, ReloadPromised DEF Reload, Inv, TypeOK
<1>4. \A u \in Tab : job'[u] # <<>> \/ mem'[u].signer # None => u \in count'.used
  BY <1>2, <1>3 DEF Others, SavedInv, Kept, Locked
<1>5. \A u \in Tab : Alone(u)' => Alone(u)
  BY <1>2 DEF Alone
<1>6. Consistent(t)'
  BY <1>3 DEF Consistent, Unlocked, Locked
<1>7. ASSUME NEW u \in Tab, u # t, Consistent(u)
      PROVE  Consistent(u)'
  <2>1. job'[u] = job[u] /\ mem'[u] = mem[u]
    BY <1>3, <1>7 DEF Others
  <2>2. QED
    BY <1>2, <1>7, <2>1 DEF Consistent, Held, Saved, Stored, Unlocked, First
<1>8. QED
  BY <1>4, <1>5, <1>6, <1>7 DEF SavedInv, Kept

\* Nobody whose storage hangs has working storage.
LEMMA HangSaved ==
  ASSUME SavedInv, Inv', NEW t \in Tab, NEW i \in Calls(t), Hang(t, i)
  PROVE  SavedInv'
<1>1. UNCHANGED <<mem, job>> /\ count'.used = count.used /\ count'.failures # 0
  BY HangEffect DEF SavedInv
<1>2. \A u \in Tab : ~ Alone(u)'
  BY <1>1 DEF Alone
<1>3. QED
  BY <1>1, <1>2 DEF SavedInv, Kept

\* At first nothing is unlocked.
LEMMA InitSaved == Init => SavedInv
  BY InitInv DEF Init, SavedInv, Kept, Locked, Consistent, Unlocked

\* Every step keeps the section's invariant.
LEMMA StepSaved == SavedInv /\ [Next]_vars => SavedInv'
<1> SUFFICES ASSUME SavedInv, [Next]_vars PROVE SavedInv'
  OBVIOUS
<1>1. Inv'
  BY StepInv DEF SavedInv
<1>2. CASE UNCHANGED vars
  <2>1. \A t \in Tab : (Consistent(t)' <=> Consistent(t)) /\ (Alone(t)' <=> Alone(t))
    BY <1>2 DEF Consistent, Held, Saved, Stored, Unlocked, First, Alone, vars, storage
  <2>2. QED
    BY <1>1, <1>2, <2>1 DEF SavedInv, Kept, vars, storage
<1>3. QED
  BY <1>1, <1>2, PostSaved, ImpatientSaved, ReloadSaved, ServeSaved, HangSaved
  DEF Next, Serve, TimeOut, WorkerError, Someone

\* In a tab that has the database to itself and whose storage works, the session that is
\* unlocked is, with its newest capsules, the one a reload brings back and a read-only
\* page shows, once its calls have been answered (cryptoWorker.ts:142-146, 569-571).
THEOREM ReloadBringsBackWhatIsUnlocked == Spec => []UnlockedIsSaved
<1>1. SavedInv => UnlockedIsSaved
  BY DEF SavedInv, Kept, Alone, Consistent, Unlocked, Stored, Saved, UnlockedIsSaved, Quiet
<1>2. QED
  BY <1>1, InitSaved, StepSaved, PTL DEF Spec
=============================================================================
