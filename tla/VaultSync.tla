------------------------------ MODULE VaultSync ------------------------------
(***************************************************************************)
(* Connection records on the vault relays: packages/core/src/vault/sync.ts,  *)
(* recordHighWaterMark.ts and session.ts, driven by the vault actions of the  *)
(* widget's worker (cryptoWorker.ts).  Every connection is an addressable    *)
(* event of its own.  An edit reads the connections first, replaces the       *)
(* event it read and verifies the replacement; a device remembers per         *)
(* connection the newest event it accepted, and withholds anything older.     *)
(***************************************************************************)
EXTENDS RelayNet

CONSTANTS
  Client,     \* workers: one per open tab
  Store,      \* key-value stores: one per browser profile
  StoreOf,    \* StoreOf[c]: the store of client c
  Writer,     \* the clients that edit; the others only list
  Conn,       \* connection ids, also the addresses of their records
  Saved,      \* the connections that exist initially
  Clock,      \* readings of a client's clock, in any order
  MaxEdits,   \* bound: how many records may be published
  NoEvent     \* no event, no mark

Record == [kind : {"record", "tombstone"}, addr : Conn, at : Nat, id : Int,
           link : (Conn \X Int) \cup {NoLink}]

ASSUME VaultAssumption ==
  /\ StoreOf \in [Client -> Store]
  /\ Writer \subseteq Client
  /\ Saved \subseteq Conn
  /\ IsFiniteSet(Saved)
  /\ Clock \subseteq Nat
  /\ MaxEdits \in Nat
  /\ NoEvent \notin Record

VARIABLES
  mark,       \* mark[s][k]: store s's protected mark of connection k
  legacy,     \* legacy[s][k]: its plaintext mark of an earlier version
  job,        \* job[c]: the worker action c is running
  confirmed,  \* history: records whose publishAndVerify succeeded
  shown       \* history: shown[s][k]: what the last complete listing on store s to
              \* have connection k showed of it

vars == <<sent, held, mark, legacy, job, confirmed, shown>>

-----------------------------------------------------------------------------
(* A worker action.  fetched: events still to be compared with their marks;  *)
(* found: those accepted; cur: the event being accepted or recorded; read:   *)
(* the legacy mark under migration; pub: the record published; known, a      *)
(* history: the edits verified before a read that can miss none of them.     *)

PC == {"idle", "check", "migrate_set", "migrate_delete", "raise_get", "raise_set", "verify"}
OpName == {"none", "list", "save", "bind", "delete"}

Job == [op : OpName, pc : PC, conn : Conn \cup {NoEvent}, quorum : BOOLEAN,
        fetched : SUBSET Record, found : SUBSET Record,
        cur : Record \cup {NoEvent}, read : Record \cup {NoEvent},
        pub : Record \cup {NoEvent}, known : SUBSET Record]

IdleJob == [op |-> "none", pc |-> "idle", conn |-> NoEvent, quorum |-> FALSE,
            fetched |-> {}, found |-> {}, cur |-> NoEvent, read |-> NoEvent, pub |-> NoEvent,
            known |-> {}]

Idle(c) == job[c].pc = "idle"

Mark(c, k)   == mark[StoreOf[c]][k]
Legacy(c, k) == legacy[StoreOf[c]][k]

\* Client c's store records e as the mark of its connection.
Persist(c, e) == mark' = [mark EXCEPT ![StoreOf[c]][e.addr] = e]

\* Publish X and wait for the verdict.
Publish(c, op, X) ==
  /\ sent' = sent \cup {X}
  /\ job' = [job EXCEPT ![c] = [IdleJob EXCEPT !.op = op, !.pc = "verify",
                                               !.conn = X.addr, !.pub = X,
                                               !.known = job[c].known]]

-----------------------------------------------------------------------------
(* fetchConnectionRecordEvents.                                              *)

\* So many relays answered that at least one of them has any event that was verified.
Overlaps(Q) == Cardinality(Q) + MinReadbacks > Cardinality(Relay)

\* Mutant: the replicas of a connection are not compared.
Everything(Q) == UNION {held[r] : r \in Q}

\* Per connection, the winner among everything the relays in Q hold.
Newest(Q) ==
  LET S == UNION {held[r] : r \in Q}
  IN  {e \in S : \A f \in At(S, e.addr) : f = e \/ Wins(e, f)}

\* What an action has in hand when the relays in Q have answered.  Whether they are a
\* quorum counts only once the marks have been dealt with.
Reading(op, k, Q) ==
  [IdleJob EXCEPT !.op = op, !.pc = "check", !.conn = k, !.quorum = IsQuorum(Q),
                  !.fetched = Newest(Q), !.known = IF Overlaps(Q) THEN confirmed ELSE {}]

\* Begin an action that lists first; k is the connection it wants to edit.
Fetch(c, op, k) ==
  /\ Idle(c)
  /\ op = "list" \/ c \in Writer
  /\ \E Q \in SUBSET Relay : job' = [job EXCEPT ![c] = Reading(op, k, Q)]
  /\ UNCHANGED <<sent, held, mark, legacy, confirmed, shown>>

\* Mutant: a stale replica is accepted.
NeverStale(e, m) == FALSE

\* e loses to the newest record the store has accepted.
Stale(e, m) == m # NoEvent /\ Wins(m, e)

\* e has been compared with mark m: withhold it, or accept it and raise the mark.
Judged(j, e, m) ==
  IF Stale(e, m)
    THEN [j EXCEPT !.pc = "check", !.fetched = @ \ {e}, !.cur = NoEvent, !.read = NoEvent]
    ELSE [j EXCEPT !.pc = "raise_get", !.fetched = @ \ {e}, !.found = @ \cup {e},
                   !.cur = e, !.read = NoEvent]

\* getRecordHighWaterMark finds the protected mark, or no mark at all; its two reads
\* are one step here.
Check(c) ==
  /\ job[c].pc = "check"
  /\ \E e \in job[c].fetched :
       /\ Mark(c, e.addr) # NoEvent \/ Legacy(c, e.addr) = NoEvent
       /\ job' = [job EXCEPT ![c] = Judged(@, e, Mark(c, e.addr))]
  /\ UNCHANGED <<sent, held, mark, legacy, confirmed, shown>>

\* It finds only a legacy mark, which it writes in the protected form and deletes.
CheckLegacy(c) ==
  /\ job[c].pc = "check"
  /\ \E e \in job[c].fetched :
       /\ Mark(c, e.addr) = NoEvent
       /\ Legacy(c, e.addr) # NoEvent
       /\ job' = [job EXCEPT ![c].pc = "migrate_set", ![c].cur = e,
                             ![c].read = Legacy(c, e.addr)]
  /\ UNCHANGED <<sent, held, mark, legacy, confirmed, shown>>

MigrateSet(c) ==
  /\ job[c].pc = "migrate_set"
  /\ Persist(c, job[c].read)
  /\ job' = [job EXCEPT ![c].pc = "migrate_delete"]
  /\ UNCHANGED <<sent, held, legacy, confirmed, shown>>

MigrateDelete(c) ==
  /\ job[c].pc = "migrate_delete"
  /\ legacy' = [legacy EXCEPT ![StoreOf[c]][job[c].cur.addr] = NoEvent]
  /\ job' = [job EXCEPT ![c] = Judged(@, job[c].cur, job[c].read)]
  /\ UNCHANGED <<sent, held, mark, confirmed, shown>>

-----------------------------------------------------------------------------
(* raiseRecordHighWaterMark, for an accepted event or a verified edit.       *)

\* The mark has been dealt with: on to the next event, or done.
Raised(j) == IF j.pub = NoEvent THEN [j EXCEPT !.pc = "check", !.cur = NoEvent] ELSE IdleJob

\* Does e replace mark m?  (A legacy mark has been migrated by the time e is judged.)
Raises(e, m) == m = NoEvent \/ Wins(e, m)

RaiseGet(c) ==
  /\ job[c].pc = "raise_get"
  /\ job' = [job EXCEPT ![c] = IF Raises(@.cur, Mark(c, @.cur.addr))
                                 THEN [@ EXCEPT !.pc = "raise_set"]
                                 ELSE Raised(@)]
  /\ UNCHANGED <<sent, held, mark, legacy, confirmed, shown>>

RaiseSet(c) ==
  /\ job[c].pc = "raise_set"
  /\ Persist(c, job[c].cur)
  /\ job' = [job EXCEPT ![c] = Raised(@)]
  /\ UNCHANGED <<sent, held, legacy, confirmed, shown>>

-----------------------------------------------------------------------------
(* What the worker does with the connections it found.                       *)

Listed(c) == job[c].pc = "check" /\ job[c].fetched = {}

\* The live record of the connection c wants to edit.
Current(c) == {e \in job[c].found : e.addr = job[c].conn /\ e.kind = "record"}

\* A complete listing is handed out, one event per connection; one without a quorum is
\* thrown away.
Show(c) ==
  shown' = IF job[c].quorum
             THEN [shown EXCEPT ![StoreOf[c]] = [k \in Conn |->
                    IF At(job[c].found, k) = {} THEN @[k]
                                                ELSE CHOOSE e \in At(job[c].found, k) : TRUE]]
             ELSE shown

\* vaultList; or an edit of a connection that is not there, or not reliably so.
Finish(c) ==
  /\ Listed(c)
  /\ \/ job[c].op = "list"
     \/ ~ job[c].quorum
     \/ Current(c) = {}
  /\ Show(c)
  /\ job' = [job EXCEPT ![c] = IdleJob]
  /\ UNCHANGED <<sent, held, mark, legacy, confirmed>>

\* The replacement of e at time t: a changed record, or the tombstone.
Replacement(op, e, t, i) ==
  [kind |-> IF op = "delete" THEN "tombstone" ELSE "record",
   addr |-> e.addr, at |-> NextCreatedAt(e.at, t), id |-> i,
   link |-> IF op = "delete" THEN EventId(e) ELSE NoLink]

\* vaultSetBinding, vaultDelete.
Edit(c, t) ==
  /\ Listed(c)
  /\ job[c].op \in {"bind", "delete"}
  /\ job[c].quorum
  /\ Cardinality(sent) < MaxEdits
  /\ \E e \in Current(c) : \E i \in FreshIds(e.addr, NextCreatedAt(e.at, t)) :
       Publish(c, job[c].op, Replacement(job[c].op, e, t, i))
  /\ Show(c)
  /\ UNCHANGED <<held, mark, legacy, confirmed>>

\* vaultSaveNwc: a new connection id, nothing to read.
Save(c, k, t) ==
  /\ Idle(c)
  /\ c \in Writer
  /\ At(sent, k) = {}
  /\ Cardinality(sent) < MaxEdits
  /\ Publish(c, "save", [kind |-> "record", addr |-> k, at |-> t, id |-> 0, link |-> NoLink])
  /\ UNCHANGED <<held, mark, legacy, confirmed, shown>>

\* publishConnectionRecord succeeded: the mark follows the edit.
Confirm(c) ==
  /\ job[c].pc = "verify"
  /\ CanVerify(job[c].pub)
  /\ confirmed' = confirmed \cup {job[c].pub}
  /\ job' = [job EXCEPT ![c].pc = "raise_get", ![c].cur = job[c].pub]
  /\ UNCHANGED <<sent, held, mark, legacy, shown>>

\* It did not: the error leaves the edit wherever it went.
GiveUp(c) ==
  /\ job[c].pc = "verify"
  /\ job' = [job EXCEPT ![c] = IdleJob]
  /\ UNCHANGED <<sent, held, mark, legacy, confirmed, shown>>

\* The tab is closed in the middle of an action.
Crash(c) ==
  /\ ~ Idle(c)
  /\ job' = [job EXCEPT ![c] = IdleJob]
  /\ UNCHANGED <<sent, held, mark, legacy, confirmed, shown>>

-----------------------------------------------------------------------------
InitialRecord(k) == [kind |-> "record", addr |-> k, at |-> 0, id |-> 0, link |-> NoLink]

Init ==
  /\ sent = {InitialRecord(k) : k \in Saved}
  /\ held \in [Relay -> SUBSET sent]
  /\ \A e \in sent : Cardinality(HasReplica(e)) >= MinReadbacks
  /\ mark = [s \in Store |-> [k \in Conn |-> NoEvent]]
  /\ legacy \in [Store -> [Conn -> sent \cup {NoEvent}]]
  /\ \A s \in Store, k \in Conn : legacy[s][k] # NoEvent => legacy[s][k].addr = k
  /\ job = [c \in Client |-> IdleJob]
  /\ confirmed = sent
  /\ shown = [s \in Store |-> [k \in Conn |-> NoEvent]]

\* The deletion request goes out once the tombstone is verified.
Network == \/ \E r \in Relay, e \in sent : Deliver(r, e)
           \/ \E r \in Nip09Relay, t \in confirmed : Purge(r, t)

Step(c) == \/ Fetch(c, "list", NoEvent)
           \/ \E op \in {"bind", "delete"}, k \in Conn : Fetch(c, op, k)
           \/ Check(c)
           \/ CheckLegacy(c)
           \/ MigrateSet(c)
           \/ MigrateDelete(c)
           \/ RaiseGet(c)
           \/ RaiseSet(c)
           \/ Finish(c)
           \/ \E t \in Clock : Edit(c, t)
           \/ \E k \in Conn, t \in Clock : Save(c, k, t)
           \/ Confirm(c)
           \/ GiveUp(c)
           \/ Crash(c)

Next == \/ Network /\ UNCHANGED <<mark, legacy, job, confirmed, shown>>
        \/ \E c \in Client : Step(c)

Spec == Init /\ [][Next]_vars

-----------------------------------------------------------------------------
\* Every variable has its type; a relay stores one event per address, a mark is of
\* its own connection.
TypeOK ==
  /\ sent \subseteq Record
  /\ IsFiniteSet(sent)
  /\ held \in [Relay -> SUBSET sent]
  /\ \A r \in Relay : \A e, f \in held[r] : e.addr = f.addr => e = f
  /\ {mark, legacy, shown} \subseteq [Store -> [Conn -> sent \cup {NoEvent}]]
  /\ \A s \in Store, k \in Conn :
       /\ mark[s][k] # NoEvent => mark[s][k].addr = k
       /\ legacy[s][k] # NoEvent => legacy[s][k].addr = k
       /\ shown[s][k] # NoEvent => shown[s][k].addr = k
  /\ job \in [Client -> Job]
  /\ confirmed \subseteq sent

-----------------------------------------------------------------------------
(* What the vault promises.                                                  *)

\* A device never lists a record that loses to one it has listed before: not after
\* a crash, from a stale quorum, or across the migration of its marks (sync.ts, "a
\* relay serving something older is reported, never silently accepted").
ShowsNothingOlder ==
  \A s \in Store, k \in Conn :
    shown[s][k] # NoEvent => shown'[s][k] # NoEvent /\ ~ Wins(shown[s][k], shown'[s][k])

NeverShownStale == [][ShowsNothingOlder]_vars

\* "Keeps the NIP-01-canonical maximum: newest timestamp, then lowest id."
\* (recordHighWaterMark.ts:162): no store ever replaces a protected mark by one that
\* loses to it.  Two tabs that raise it at once do: each reads it, then writes.
MarkKeepsMaximum ==
  [][\A s \in Store, k \in Conn : mark[s][k] # NoEvent => ~ Wins(mark[s][k], mark'[s][k])]_vars

\* However many devices edit at once and whatever their clocks say, a worker never
\* publishes an edit that loses to one verified before the read it builds on, if more
\* relays answered that read than can be without the verified edit (record.ts, "or a
\* same-second edit will silently lose").
EditsFollowTheirRead ==
  \A c \in Client : job[c].pub # NoEvent =>
    \A f \in At(job[c].known, job[c].pub.addr) : Wins(job[c].pub, f)

\* A complete read misses no verified edit, one verified before a crash included: it
\* returns that edit or one that replaced it (session.ts, listConnections trusts a
\* listing from a quorum).
MissesNothing ==
  \A c \in Client :
    (Idle(c) /\ job'[c].pc = "check" /\ job'[c].quorum) =>
      \A e \in confirmed : \E f \in job'[c].fetched :
        f.addr = e.addr /\ (f = e \/ Wins(f, e))

QuorumReadsEveryEdit == [][MissesNothing]_vars

\* However many relays are configured, whatever failed and whoever edits: a read that more
\* relays answer than can be without a verified event misses no verified edit.
WideReadsMissNothing ==
  \A Q \in SUBSET Relay : Overlaps(Q) =>
    \A e \in confirmed : \E f \in Newest(Q) : f.addr = e.addr /\ (f = e \/ Wins(f, e))

\* The last verified edit of a connection is on enough relays, or has been replaced
\* there, even where relays act on deletion requests (cryptoWorker.ts, "the
\* tombstone is the durable part").
LastEditDurable ==
  \A e \in confirmed :
    (\A f \in At(confirmed, e.addr) : ~ Wins(f, e)) => Durable(e)
=============================================================================
