---------------------------- MODULE WorkerClient ----------------------------
(***************************************************************************)
(* A page and its crypto worker.  Every call a page makes is a promise with a  *)
(* timer on the page and a message in the worker's queue.  The answer settles  *)
(* the promise if it is still there; when the timer was first, or the worker   *)
(* reported an error, the answer is dropped, but the call is served all the    *)
(* same.                                                                    *)
(*                                                                         *)
(* An answer is received in the step that sends it: what a page does between   *)
(* the two, it may as well have done before.                                *)
(***************************************************************************)
EXTENDS Naturals, Sequences, SequencesExt

CONSTANTS
  Tab, Ident, None,
  Earlier,       \* the identities an earlier visit may have left a session of
  MaxCalls,      \* calls made, in all tabs
  MaxFaults      \* storage operations that fail or hang, and tabs that die

Someone      == Ident \cup {None}
StoredRecord == [who : Ident, cap : Nat \cup {None}, key : Nat \cup {None}]

ASSUME SessionAssumption ==
  /\ Earlier \subseteq Ident
  /\ None \notin Ident \cup Nat \cup StoredRecord

VARIABLES
  disk,     \* the origin's database: [record, key, public]
  mem,      \* mem[t] = [signer, pend, cap]: the session unlocked in t's worker
  job,      \* job[t]: the calls t's worker has not answered, in order of arrival
  reply,    \* reply[t]: its last answer
  page,     \* page[t] = [shown, recovered]: the identity the page has signed in,
            \* and the one it is recovering
  count,    \* what happened so far, the capsules and device keys made, and the
            \* tabs whose worker awaits a storage operation that will not settle
  signedOut \* a logout had the database to itself, and nobody signed in since

storage == <<disk, mem, count, signedOut>>
vars    == <<storage, job, reply, page>>

Fresh  == [shown |-> None, recovered |-> None]
Locked == [signer |-> None, pend |-> FALSE, cap |-> None]
Counts == [calls |-> 0, failures |-> 0, crashes |-> 0, gaveUp |-> FALSE,
           made |-> 0, logout |-> FALSE, used |-> {}, hung |-> {}]

MayFault == count.failures + count.crashes < MaxFaults

\* pc names the await the call is at, awaited that its promise is still there.
NewCall(op, i) ==
  [op |-> op, who |-> i, pc |-> "posted", awaited |-> TRUE, record |-> None, key |-> None]

Calls(t)    == 1..Len(job[t])
At(t, i, a) == i \in Calls(t) /\ job[t][i].pc = a
To(t, i, a) == job' = [job EXCEPT ![t][i].pc = a] /\ UNCHANGED <<reply, page>>

-----------------------------------------------------------------------------
\* A sign-in form, a rotation and the restore of a fresh page wait for their
\* answer before anything of the kind is offered again.
Exclusive == {"login", "recover", "complete", "change", "restore"}
Free(t)   == \A i \in Calls(t) : job[t][i].op \in Exclusive => ~ job[t][i].awaited

\* The calls a page can make, with the identity each is about.
Offered(t) ==
  {<<"sign", None>>, <<"logout", None>>}
  \cup (IF ~ Free(t) THEN {}
        ELSE IF page[t].shown # None THEN {<<"change", page[t].shown>>}
        ELSE ({"login", "recover"} \X Ident) \cup {<<"restore", None>>}
             \cup {c \in {<<"complete", page[t].recovered>>} : c[2] # None})

\* A logout is clearing the database.
Leaving == \E t \in Tab : \E i \in Calls(t) :
             job[t][i].pc \in {"del_record", "del_key", "del_public"}

\* A new sign-in abandons a recovery that was not completed.
Post(t, op, i) ==
  /\ count.calls < MaxCalls
  /\ <<op, i>> \in Offered(t)
  /\ job' = [job EXCEPT ![t] = Append(@, NewCall(op, i))]
  /\ page' = [page EXCEPT ![t].recovered =
       IF op \in {"login", "recover", "restore"} THEN None ELSE @]
  /\ count' = [count EXCEPT !.calls = @ + 1, !.used = @ \cup {t},
                            !.logout = @ \/ op = "logout"]
  /\ signedOut' = (/\ signedOut
                   /\ op \notin {"login", "complete", "change"}
                   /\ op = "restore" => ~ Leaving)
  /\ UNCHANGED <<disk, mem, reply>>

\* What the page shows after an answer.
Told(p, c, answer) ==
  IF c.op = "logout" THEN Fresh
  ELSE IF c.op = "recover" THEN [p EXCEPT !.recovered = answer]
  ELSE IF c.op \in {"login", "restore"} /\ answer # None THEN [p EXCEPT !.shown = answer]
  ELSE IF c.op = "complete" /\ answer # None THEN [shown |-> p.recovered, recovered |-> None]
  ELSE p

\* The worker answers; nobody hears an answer that is not awaited any more.
Finish(t, i, answer) ==
  /\ job' = [job EXCEPT ![t] = RemoveAt(@, i)]
  /\ reply' = [reply EXCEPT ![t] = answer]
  /\ page' = [page EXCEPT ![t] =
       IF job[t][i].awaited THEN Told(@, job[t][i], answer) ELSE @]

Impatient(t, gone) ==
  /\ \E i \in Calls(t) : job[t][i].awaited /\ i \in gone
  /\ job' = [job EXCEPT ![t] = [i \in Calls(t) |->
       IF i \in gone THEN [@[i] EXCEPT !.awaited = FALSE] ELSE @[i]]]
  /\ count' = [count EXCEPT !.gaveUp = TRUE]
  /\ UNCHANGED <<disk, mem, reply, page, signedOut>>

\* The timer of a call fires and the page gives it up; the worker carries on.
TimeOut(t, i) == Impatient(t, {i})

\* An error outside a handler rejects every call; the worker carries on.
WorkerError(t) == Impatient(t, Calls(t))

\* The tab is reloaded or dies, or the element is removed: its worker goes too.
Reload(t) ==
  /\ MayFault
  /\ mem[t] # Locked \/ job[t] # <<>>
  /\ mem' = [mem EXCEPT ![t] = Locked]
  /\ job' = [job EXCEPT ![t] = <<>>]
  /\ reply' = [reply EXCEPT ![t] = None]
  /\ page' = [page EXCEPT ![t] = Fresh]
  /\ count' = [count EXCEPT !.crashes = @ + 1, !.hung = @ \ {t}]
  /\ signedOut' = (signedOut /\ ~ Leaving)
  /\ UNCHANGED disk
=============================================================================
