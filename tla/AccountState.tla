---------------------------- MODULE AccountState ----------------------------
(***************************************************************************)
(* What the account flows of packages/core/src/account share: the events     *)
(* they build, the client's progress through a flow, and the generation      *)
(* high-water mark each device keeps.  One module per flow extends this one; *)
(* Account.tla composes them.                                                *)
(***************************************************************************)
EXTENDS RelayNet

CONSTANTS
  Client,      \* concurrent users of the library: tabs, devices
  Store,       \* key-value stores (one per browser profile)
  StoreOf,     \* StoreOf[c]: the store client c reads and writes
  Password,    \* locator addresses: one per (login name, password) pair
  Account,     \* accounts; also the address of an account's recovery capsule
  Clock,       \* readings of a client's clock
  Skewed,      \* may clocks disagree, and run backwards?
  Registered,  \* accounts that exist initially: [acct, addr, root] records
  Ops,         \* the operations a run allows
  MaxWrites,   \* bound: how many writing operations may be started
  NoEvent      \* no event

Address == Password \cup Account
Kind    == {"credential", "recovery", "tombstone"}
Root    == {"none", "minted", "derived"}   \* vault root: absent, random, derived from the phrase

Event == [kind : Kind, addr : Address, at : Nat, id : Int, acct : Account,
          gen : Nat, link : (Address \X Int) \cup {NoLink}, root : Root]

ASSUME AccountAssumption ==
  /\ StoreOf \in [Client -> Store]
  /\ Password \cap Account = {}
  /\ Clock \subseteq Nat
  /\ Registered \subseteq [acct : Account, addr : Password, root : {"none", "minted"}]
  /\ \A x, y \in Registered : x.acct = y.acct \/ x.addr = y.addr => x = y
  /\ IsFiniteSet(Registered)
  /\ MaxWrites \in Nat
  /\ NoEvent \notin Event

VARIABLES
  hwm,         \* hwm[s][a]: highest generation store s has recorded for a, or -1
  job,         \* job[c]: the flow client c is running
  recovered,   \* recovered[c]: recovery event of the identity c holds in memory
  confirmed,   \* history: events whose publishAndVerify succeeded
  writes       \* how many writing operations were started

vars == <<sent, held, hwm, job, recovered, confirmed, writes>>

-----------------------------------------------------------------------------
(* The events.  A link names another event: the recovery event a credential  *)
(* embeds, the recovery event this one replaces, the event a tombstone kills.*)

Credential(p, t, i, a, g, link, root) ==
  [kind |-> "credential", addr |-> p, at |-> t, id |-> i, acct |-> a,
   gen |-> g, link |-> link, root |-> root]

Recovery(a, t, i, g, link, root) ==
  [kind |-> "recovery", addr |-> a, at |-> t, id |-> i, acct |-> a,
   gen |-> g, link |-> link, root |-> root]

Tombstone(e, t, i) ==
  [kind |-> "tombstone", addr |-> e.addr, at |-> t, id |-> i, acct |-> e.acct,
   gen |-> e.gen, link |-> EventId(e), root |-> "none"]

Credentials == {e \in sent : e.kind = "credential"}
Recoveries  == {e \in sent : e.kind = "recovery"}
Tombstones  == {e \in sent : e.kind = "tombstone"}

-----------------------------------------------------------------------------
(* A client's flow.  base: the capsule the flow builds on; pub: the event it *)
(* publishes or logs in with; mark: the high-water mark it has read.         *)

PC == {"idle", "verify_recovery", "verify_credential", "check_new",
       "read_recovery", "raise_get", "raise_set", "reset"}
OpName == {"none", "register", "login", "change", "complete", "enable"}

Job == [op : OpName, pc : PC, addr : Address \cup {NoEvent}, now : Nat,
        base : Event \cup {NoEvent}, pub : Event \cup {NoEvent}, mark : Int]

Flow(op, pc, p, t, base, pub) ==
  [op |-> op, pc |-> pc, addr |-> p, now |-> t, base |-> base, pub |-> pub, mark |-> -1]

IdleJob == Flow("none", "idle", NoEvent, 0, NoEvent, NoEvent)

Idle(c) == job[c].pc = "idle"

\* Begin a flow that writes, at time t.  Clocks that agree have moved past every
\* timestamp in use by the time a user starts the next flow.
StartWrite(op, t) == /\ op \in Ops
                     /\ Skewed \/ \A e \in sent : e.at < t
                     /\ writes < MaxWrites
                     /\ writes' = writes + 1

Mark(c, a) == hwm[StoreOf[c]][a]

-----------------------------------------------------------------------------
(* raiseHighWaterMark: read the mark, then write the larger of the two.  The *)
(* two store accesses are separate awaits.                                   *)

\* Mutant: the last observation stays.
MergedMarkIsObserved(seen, observed) == observed

MergedMark(seen, observed) == IF seen > observed THEN seen ELSE observed

RaiseGet(c) ==
  /\ job[c].pc = "raise_get"
  /\ job' = [job EXCEPT ![c].pc = "raise_set", ![c].mark = Mark(c, job[c].pub.acct)]
  /\ UNCHANGED <<sent, held, hwm, recovered, confirmed, writes>>

RaiseSet(c) ==
  /\ job[c].pc = "raise_set"
  /\ hwm' = [hwm EXCEPT ![StoreOf[c]][job[c].pub.acct] =
                           MergedMark(job[c].mark, job[c].pub.gen)]
  /\ job' = [job EXCEPT ![c] = IdleJob]
  /\ UNCHANGED <<sent, held, recovered, confirmed, writes>>

-----------------------------------------------------------------------------
\* Mutant: waiting for a verdict has no timeout.
GiveUpUnlessWaiting(c) ==
  /\ job[c].pc \in {"check_new", "read_recovery"}
  /\ job' = [job EXCEPT ![c] = IdleJob]
  /\ UNCHANGED <<sent, held, hwm, recovered, confirmed, writes>>

\* A flow that throws before its last write: nothing it has sent is undone.
GiveUp(c) ==
  /\ job[c].pc \in {"check_new", "read_recovery", "verify_recovery", "verify_credential"}
  /\ job' = [job EXCEPT ![c] = IdleJob]
  /\ UNCHANGED <<sent, held, hwm, recovered, confirmed, writes>>

\* The tab or the device goes away; its store stays.
Crash(c) ==
  /\ "crash" \in Ops
  /\ ~ Idle(c) \/ recovered[c] # NoEvent
  /\ job' = [job EXCEPT ![c] = IdleJob]
  /\ recovered' = [recovered EXCEPT ![c] = NoEvent]
  /\ UNCHANGED <<sent, held, hwm, confirmed, writes>>
=============================================================================
