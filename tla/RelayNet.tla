------------------------------ MODULE RelayNet ------------------------------
(***************************************************************************)
(* The relays BitLogin stores its capsules on, as the client sees them.     *)
(*                                                                         *)
(* A capsule is an addressable Nostr event: a relay keeps one event per      *)
(* address, the one that wins the NIP-01 replacement order.  The client      *)
(* broadcasts to every relay without knowing which ones will take the event  *)
(* (RelayPool.publishAll), and reads from whichever relays answer in time    *)
(* (RelayPool.queryQuorum).  The network is `sent', the events that were     *)
(* ever broadcast: any of them may reach any relay, at any later time, more  *)
(* than once, or never.  A relay that refuses or drops an event is one it    *)
(* never reaches; a rebroadcast (repairReplicas) is a second delivery.       *)
(***************************************************************************)
EXTENDS Integers, FiniteSets

CONSTANTS
  Relay,         \* the configured vault relays
  Nip09Relay,    \* the relays that act on NIP-09 deletion requests
  MinAcks,       \* publishAndVerify's acknowledgement floor
  MinReadbacks   \* publishAndVerify's readback floor

ASSUME RelayAssumption ==
  /\ IsFiniteSet(Relay)
  /\ Nip09Relay \subseteq Relay
  /\ MinAcks \in Nat
  /\ MinReadbacks \in Nat \ {0}

VARIABLES
  sent,    \* every event broadcast so far
  held     \* held[r]: the events relay r currently stores, one per address

netVars == <<sent, held>>

NoLink == <<>>

\* The identity of an event.  A real id is a hash; here it is a number that is
\* unique at the event's address (see FreshIds).
EventId(e) == <<e.addr, e.id>>

\* Mutant: a replacement is stamped with the clock alone.
NextCreatedAtIsNow(prev, now) == now

\* NIP-01 replacement: the newer timestamp wins, and on a tie the lower id.
Wins(e, f) == \/ e.at > f.at
              \/ e.at = f.at /\ e.id < f.id

\* The timestamp of a replacement: never at or below the one it replaces.
NextCreatedAt(prev, now) == IF now > prev THEN now ELSE prev + 1

At(S, a) == {e \in S : e.addr = a}

(***************************************************************************)
(* A hash falls anywhere in the id order.  Ids are compared only between     *)
(* events of one address with one timestamp, so a new event takes a number   *)
(* above every earlier one at its address or, when its timestamp ties with   *)
(* one of them, possibly below.                                             *)
(***************************************************************************)
FreshIds(a, t) ==
  LET n == Cardinality(At(sent, a))
  IN  IF \E e \in At(sent, a) : e.at = t THEN {n, -n} ELSE {n}

-----------------------------------------------------------------------------
(* Reading.                                                                  *)

\* Mutant: any answer counts.
AnyAnswer(Q) == Q # {}

\* At least half of the configured relays answered.
IsQuorum(Q) == 2 * Cardinality(Q) >= Cardinality(Relay)

\* What the relays in Q return for address a.
Answers(Q, a) == UNION {At(held[r], a) : r \in Q}

\* The candidates that can be `best': the newest of those that decrypt.  A
\* tombstone's empty content never does.  Ties are broken by the order in which
\* the answers came, hence a set.
Best(C) == {e \in C : /\ e.kind # "tombstone"
                      /\ \A f \in C : f.kind # "tombstone" => f.at <= e.at}

-----------------------------------------------------------------------------
(* Publishing.                                                               *)

\* Mutants: both events stay; one replica is taken for enough.
ReplaceNothing(S, e) == S \cup {e}
VerifiedByOne(e) == \E r \in Relay : e \in held[r]

\* What a relay stores after it is offered e: the winner at e's address.
Replace(S, e) == IF \A f \in At(S, e.addr) : Wins(e, f)
                 THEN (S \ At(S, e.addr)) \cup {e}
                 ELSE S

\* The relays that can have said OK to e (they do so even when the event they
\* already store wins), and those a readback can find e on.
CanAck(e)     == {r \in Relay : \E f \in At(held[r], e.addr) : ~ Wins(e, f)}
HasReplica(e) == {r \in Relay : e \in held[r]}

(***************************************************************************)
(* publishAndVerify may report success for e.  Every OK and every readback   *)
(* can also be lost, so it may always report failure.                        *)
(***************************************************************************)
CanVerify(e) == /\ Cardinality(CanAck(e)) >= MinAcks
                /\ Cardinality(HasReplica(e)) >= MinReadbacks

\* Relay r receives e and stores it if it wins.
Deliver(r, e) ==
  /\ Replace(held[r], e) # held[r]
  /\ held' = [held EXCEPT ![r] = Replace(@, e)]
  /\ UNCHANGED sent

\* Relay r acts on the deletion request that goes out with tombstone t.
Purge(r, t) ==
  /\ t.kind = "tombstone"
  /\ \E e \in held[r] : EventId(e) = t.link
  /\ held' = [held EXCEPT ![r] = {e \in @ : EventId(e) # t.link}]
  /\ UNCHANGED sent

RelayStep ==
  \/ \E r \in Relay, e \in sent : Deliver(r, e)
  \/ \E r \in Nip09Relay, t \in sent : Purge(r, t)

-----------------------------------------------------------------------------
(* At least MinReadbacks relays hold e or something that replaced it.        *)

Reached(e) == {r \in Relay : \E f \in At(held[r], e.addr) : f = e \/ Wins(f, e)}

Durable(e) == Cardinality(Reached(e)) >= MinReadbacks
=============================================================================
