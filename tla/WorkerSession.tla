---------------------------- MODULE WorkerSession ----------------------------
(***************************************************************************)
(* The crypto worker's session calls, as the pages of one origin see them: the *)
(* page's proxy (a promise and a timer for every call), the worker's serial     *)
(* queue, the handlers of the calls that unlock, change or lock the session,    *)
(* and the cached session they share (SessionCache).                         *)
(*                                                                         *)
(* What a sign-in does on the relays is Account's subject: here a call finds    *)
(* its account or is refused.                                               *)
(***************************************************************************)
EXTENDS SessionCache

Init ==
  /\ disk \in {Empty} \cup UNION {Left(i) : i \in Earlier}
  /\ mem = [t \in Tab |-> Locked]
  /\ job = [t \in Tab |-> <<>>]
  /\ reply = [t \in Tab |-> None]
  /\ page = [t \in Tab |-> Fresh]
  /\ count = Counts
  /\ signedOut = FALSE

-----------------------------------------------------------------------------
(* The worker's queue and handlers.                                          *)

\* Mutant: no queue, every message is handled as it arrives.
TurnOfAny(t, i) == TRUE

\* A call begins when the earlier ones have ended.
Turn(t, i) == i = 1

Begins(t, i, op) == At(t, i, "posted") /\ job[t][i].op = op /\ Turn(t, i)

\* Mutant: an error is not answered, and the queue waits for it.
RefuseUnheard(t, i) ==
  /\ To(t, i, "refused")
  /\ UNCHANGED storage

Refuse(t, i) ==
  /\ Finish(t, i, None)
  /\ UNCHANGED storage

\* The session is set, and then saved as it is now.
Persist(t, i) ==
  /\ job' = [job EXCEPT ![t][i] =
       [@ EXCEPT !.pc = "get_key", !.record = Record(mem'[t].signer, mem'[t].cap, None)]]
  /\ Made
  /\ UNCHANGED <<disk, reply, page, signedOut>>

\* Mutant: the session is cleared before it is known that the login succeeds.
LoginClearsFirst(t, i) ==
  /\ Begins(t, i, "login")
  /\ \/ /\ Finish(t, i, None)
        /\ mem' = [mem EXCEPT ![t] = Locked]
        /\ UNCHANGED <<disk, count, signedOut>>
     \/ /\ mem' = [mem EXCEPT ![t] =
             [signer |-> job[t][i].who, pend |-> FALSE, cap |-> New]]
        /\ Persist(t, i)

\* register and login.
Login(t, i) ==
  /\ Begins(t, i, "login")
  /\ \/ Refuse(t, i)
     \/ /\ mem' = [mem EXCEPT ![t] =
             [signer |-> job[t][i].who, pend |-> FALSE, cap |-> New]]
        /\ Persist(t, i)

\* The recovered identity is unlocked at once, but not saved.
Recover(t, i) ==
  /\ Begins(t, i, "recover")
  /\ \/ Refuse(t, i)
     \/ /\ mem' = [mem EXCEPT ![t] =
             [signer |-> job[t][i].who, pend |-> TRUE, cap |-> None]]
        /\ Finish(t, i, job[t][i].who)
        /\ UNCHANGED <<disk, count, signedOut>>

CompleteRecovery(t, i) ==
  /\ Begins(t, i, "complete")
  /\ \/ Refuse(t, i)
     \/ /\ mem[t].pend
        /\ mem' = [mem EXCEPT ![t] = [@ EXCEPT !.pend = FALSE, !.cap = New]]
        /\ Persist(t, i)

\* Mutant: what is saved is not checked.
ChangeUnchecked(t, i) ==
  /\ Begins(t, i, "change")
  /\ \/ Refuse(t, i)
     \/ /\ mem' = [mem EXCEPT ![t].cap = New]
        /\ Persist(t, i)

\* Without an unlocked key there is nothing to save.
ChangePassword(t, i) ==
  /\ Begins(t, i, "change")
  /\ \/ Refuse(t, i)
     \/ /\ mem' = [mem EXCEPT ![t].cap = New]
        /\ IF mem[t].signer # None
             THEN Persist(t, i)
             ELSE Finish(t, i, job[t][i].who) /\ Made /\ UNCHANGED <<disk, signedOut>>

\* Whatever needs the key: answered by the identity that is unlocked, or refused.
Sign(t, i) ==
  /\ Begins(t, i, "sign")
  /\ Finish(t, i, mem[t].signer)
  /\ UNCHANGED storage

RestoreSession(t, i) ==
  /\ Begins(t, i, "restore")
  /\ To(t, i, "get_record")
  /\ UNCHANGED storage

\* Mutant: the page is signed out, the worker keeps the session.
LogoutOfPage(t, i) ==
  /\ Begins(t, i, "logout")
  /\ To(t, i, "del_record")
  /\ UNCHANGED storage

\* A call that may yet write the database when call i of t begins: one of
\* another tab, or one posted to this worker after it.
Saves(c) == c.op \in {"login", "complete", "change", "restore"}
SaverLeft(t, i) ==
  \E u \in Tab : \E j \in Calls(u) : (u # t \/ j > i) /\ Saves(job[u][j])

\* The keys are wiped at once, the storage cleared afterwards.
Logout(t, i) ==
  /\ Begins(t, i, "logout")
  /\ mem' = [mem EXCEPT ![t] = Locked]
  /\ To(t, i, "del_record")
  /\ signedOut' = (signedOut \/ ~ SaverLeft(t, i))
  /\ UNCHANGED <<disk, count>>

Handler(t, i) ==
  \/ Login(t, i) \/ Recover(t, i) \/ CompleteRecovery(t, i) \/ ChangePassword(t, i)
  \/ Sign(t, i) \/ RestoreSession(t, i) \/ Logout(t, i)

Op == Exclusive \cup {"sign", "logout"}

Serve(t) == \E i \in Calls(t) : Handler(t, i) \/ StorageStep(t, i)

Next ==
  \E t \in Tab :
    \/ \E op \in Op, i \in Ident \cup {None} : Post(t, op, i)
    \/ \E i \in Calls(t) : TimeOut(t, i)
    \/ WorkerError(t)
    \/ Reload(t)
    \/ \E i \in Calls(t) : Hang(t, i)
    \/ Serve(t)

(***************************************************************************)
(* Every call has a timer, and timers fire.  An await of a handler that does   *)
(* not hang ends: the key derivation is finite, and a relay that says nothing  *)
(* runs into a deadline (RelayConnection).                                   *)
(***************************************************************************)
Fairness ==
  \A t \in Tab :
    /\ WF_vars(Serve(t))
    /\ WF_vars(\E i \in Calls(t) : TimeOut(t, i))

Spec == Init /\ [][Next]_vars /\ Fairness

-----------------------------------------------------------------------------
\* The awaits of the calls.
Stages(op) ==
  {"posted"}
  \cup (IF op \in {"login", "complete", "change"}
          THEN {"get_key", "add_key", "raced_key", "put_record", "put_public"}
        ELSE IF op = "restore"
          THEN {"get_record", "drop_record", "get_key", "add_key", "raced_key", "decrypt",
                "put_public"}
        ELSE IF op = "logout" THEN {"del_record", "del_key", "del_public"}
        ELSE {})

Database     == [record : StoredRecord \cup {None}, key : Nat \cup {None}, public : Someone]
Session      == [signer : Someone, pend : BOOLEAN, cap : Nat \cup {None}]
Page         == [shown : Someone, recovered : Someone]
Tally        == [calls : Nat, failures : Nat, crashes : Nat, gaveUp : BOOLEAN, made : Nat,
                 logout : BOOLEAN, used : SUBSET Tab, hung : SUBSET Tab]
ServedCall   == [op : Op, who : Someone, pc : UNION {Stages(op) : op \in Op},
                 awaited : BOOLEAN, record : StoredRecord \cup {None}, key : Nat \cup {None}]

TypeOK ==
  /\ disk \in Database
  /\ mem \in [Tab -> Session]
  /\ job \in [Tab -> Seq(ServedCall)]
  /\ reply \in [Tab -> Someone]
  /\ page \in [Tab -> Page]
  /\ count \in Tally
  /\ signedOut \in BOOLEAN

\* Nothing is under way in a tab.
Quiet(t) == job[t] = <<>>

\* Page and worker agree on who is signed in once the calls of a page have been
\* answered, whatever the order in which they were made (serialQueue.ts:2-4).  A
\* recovery that is not completed is unlocked in the worker only.
PageAgrees ==
  \A t \in Tab :
    Quiet(t) /\ ~ count.gaveUp =>
      page[t].shown = IF mem[t].pend THEN None ELSE mem[t].signer

\* The session that is unlocked is the one a reload brings back, with its newest
\* capsules (cryptoWorker.ts:142-146, 569-571), and the one a read-only page
\* shows, when no other tab has used the database and the storage works.
UnlockedIsSaved ==
  \A t \in Tab :
    /\ Quiet(t) /\ count.used = {t} /\ count.failures = 0
    /\ mem[t].signer # None /\ mem[t].cap # None
    => /\ disk.key # None
       /\ disk.record = Record(mem[t].signer, mem[t].cap, disk.key)
       /\ disk.public = mem[t].signer

\* After a logout nothing of the session is left, and no restore brings it back,
\* in any tab, until somebody signs in again (serialQueue.ts:2-4).  A call that
\* another tab makes while the logout runs, or that is posted after it, may.
LoggedOutStaysOut ==
  signedOut /\ ~ Leaving /\ count.failures = 0 => disk.record = None /\ disk.public = None

\* Two tabs that save at once agree on the device key (indexedDbStore.ts:87-88):
\* the record one leaves is not orphaned by the key of the other.  Only a logout
\* removes a key.
RecordReadable ==
  disk.record # None /\ ~ count.logout =>
    disk.record.key \in {disk.key, None}

\* The first call has changed the session and is not answered yet.
Served(t) ==
  /\ job[t] # <<>>
  /\ \/ job[t][1].op \in {"login", "complete", "logout"} /\ job[t][1].pc # "posted"
     \/ job[t][1].op = "restore" /\ job[t][1].pc = "put_public"

Serial(t) == INSTANCE SerialSession WITH
  calls  <- [i \in Calls(t) |-> [op |-> job[t][i].op, who |-> job[t][i].who]],
  served <- Served(t),
  reply  <- reply[t],
  who    <- mem[t].signer,
  pend   <- mem[t].pend

\* Each worker implements SerialSession: calls are served in order and one at a
\* time, each takes effect once, and its answer tells whether it did.  This is
\* \A t \in Tab : Serial(t)!Spec, in a form TLC takes.
ServesInOrder ==
  /\ \A t \in Tab : Serial(t)!Init
  /\ [][\A t \in Tab : UNCHANGED Serial(t)!vars \/ Serial(t)!Next]_vars

\* Every call a page waits for ends, be it by its timer; and one that fails, is
\* refused or given up holds up no other, whatever else fails: unless its storage
\* hangs, a worker serves what it was asked to the end (serialQueue.ts:9-16).  Pages
\* make MaxCalls calls at most, so that in the end all is settled for good.
Settled(t) ==
  /\ \A i \in Calls(t) : ~ job[t][i].awaited
  /\ Quiet(t) \/ t \in count.hung
EveryCallEnds == <>[](\A t \in Tab : Settled(t))

\* "a full disk or a browser blocking IndexedDB (some private-browsing modes)
\* shouldn't break the login/register/rotate call that triggered this"
\* (sessionCache.ts:103-105): a call that saves the session it has unlocked is
\* answered, and so are those behind it.
SavingBreaksNoCall ==
  \A t \in Tab : (\E i \in Calls(t) : At(t, i, "put_record")) ~> Quiet(t)
=============================================================================
