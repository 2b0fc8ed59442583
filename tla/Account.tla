------------------------------- MODULE Account -------------------------------
(***************************************************************************)
(* The life of BitLogin accounts: every flow of packages/core/src/account,   *)
(* run by clients that share the relays and, when they are tabs of one       *)
(* browser, a store.                                                         *)
(***************************************************************************)
EXTENDS PhraseFlows

\* The capsules of the accounts that exist initially.
InitialRecovery(x) == Recovery(x.acct, 0, 0, 0, NoLink, x.root)
InitialCredential(x) ==
  Credential(x.addr, 0, 0, x.acct, 0, EventId(InitialRecovery(x)), x.root)
InitialEvents == UNION {{InitialRecovery(x), InitialCredential(x)} : x \in Registered}

Init ==
  /\ sent = InitialEvents
  /\ held \in [Relay -> SUBSET InitialEvents]
  /\ \A e \in InitialEvents : Cardinality(HasReplica(e)) >= MinReadbacks
  /\ hwm = [s \in Store |-> [a \in Account |-> -1]]
  /\ job = [c \in Client |-> IdleJob]
  /\ recovered = [c \in Client |-> NoEvent]
  /\ confirmed = InitialEvents
  /\ writes = 0

\* The steps of a flow under way, and of starting one.
Step(c) == \/ Register(c)
           \/ Login(c)
           \/ ChangePassword(c)
           \/ RecoverAccount(c)
           \/ EnableVault(c)
           \/ RaiseGet(c)
           \/ RaiseSet(c)
           \/ GiveUp(c)

Next == \/ RelayStep /\ UNCHANGED <<hwm, job, recovered, confirmed, writes>>
        \/ \E c \in Client : Step(c)
        \/ \E c \in Client : Crash(c)

Spec == Init /\ [][Next]_vars

-----------------------------------------------------------------------------
(* The state.                                                                *)

\* Every variable has its type; a relay stores one event per address (the key
\* of its map, mockRelay.ts store).
TypeOK ==
  /\ sent \subseteq Event
  /\ IsFiniteSet(sent)
  /\ held \in [Relay -> SUBSET sent]
  /\ \A r \in Relay : \A e, f \in held[r] : e.addr = f.addr => e = f
  /\ hwm \in [Store -> [Account -> Int]]
  /\ job \in [Client -> Job]
  /\ recovered \in [Client -> Recoveries \cup {NoEvent}]
  /\ confirmed \subseteq sent
  /\ writes \in Nat

-----------------------------------------------------------------------------
(* Safety.                                                                   *)

\* registerAccount, completeRecovery and enableConnectionVault publish the
\* recovery capsule first (create.ts, "recovery must be durable before a
\* credential capsule that the caller can use is allowed to exist"): whatever
\* credential was ever broadcast, the recovery capsule it embeds, or a newer
\* one, is on at least MinReadbacks relays.
RecoveryBeforeCredential ==
  \A C \in Credentials : \E R \in Recoveries :
    /\ EventId(R) = C.link
    /\ R.acct = C.acct
    /\ Durable(R)

\* changePassword destroys the old capsule only once the new one is durable
\* (changePassword.ts, "ORDERING IS A SAFETY PROPERTY"): behind every tombstone
\* stands a later generation of the same account that reached MinReadbacks
\* relays and is still there, replaced there, or itself rotated away.
SuccessorDurable ==
  \A t \in Tombstones : \E C \in Credentials :
    /\ C.acct = t.acct
    /\ C.gen > t.gen
    /\ \/ Durable(C)
       \/ \E u \in Tombstones : u.addr = C.addr

\* Relay r has a capsule of account a at p, and no tombstone on its way can
\* replace it.
Opens(r, p, a) ==
  \E e \in At(held[r], p) : /\ e.kind = "credential"
                            /\ e.acct = a
                            /\ \A t \in Tombstones : t.addr = p => ~ Wins(t, e)

Works(p, a) == Cardinality({r \in Relay : Opens(r, p, a)}) >= MinReadbacks

\* No interleaving of flows, failures and late deliveries leaves an account
\* that was once usable without any password that opens it.
NeverLockedOut ==
  \A a \in Account : PhraseKnown(a) => \E p \in Password : Works(p, a)

\* A locator never gets two owners: no flow publishes an account's capsule,
\* verified, over another account's verified capsule (create.ts, "its mere
\* presence means an account already exists here").
AddressHasOneOwner ==
  \A e, f \in confirmed :
    e.kind = "credential" /\ f.kind = "credential" /\ e.addr = f.addr => e.acct = f.acct

\* Two vault roots of one account would strand the records encrypted under the
\* first (enableVault.ts, "Minting twice is the one unforgivable outcome").
OneVaultRoot ==
  \A e, f \in sent :
    e.acct = f.acct /\ e.root # "none" /\ f.root # "none" => e.root = f.root

\* Recovery events verified as authoritative form a chain: no two of one
\* generation (recover.ts, "creating a same-generation sibling").
NoRecoverySiblings ==
  \A e, f \in confirmed :
    e.kind = "recovery" /\ f.kind = "recovery" /\ e.acct = f.acct /\ e.gen = f.gen => e = f

\* A retired password stays retired: no capsule that was ever broadcast for it can
\* displace its tombstone on a relay (changePassword.ts, mandatory tombstone).
RetiredStaysRetired ==
  \A t \in Tombstones, e \in Credentials : e.addr = t.addr => Wins(t, e)

\* Relay r has a capsule for p that store s would not refuse as rolled back.
AcceptedFrom(r, p, s, a) ==
  \E e \in At(held[r], p) : e.kind = "credential" /\ e.acct = a /\ e.gen >= hwm[s][a]

\* Some password opens the account on every device without overriding the
\* rollback alarm (changePassword.ts, on failure: "Your existing password still
\* works; nothing was changed").
OwnerNotRefused ==
  \A s \in Store, a \in Account : PhraseKnown(a) =>
    \E p \in Password : Cardinality({r \in Relay : AcceptedFrom(r, p, s, a)}) >= MinReadbacks

\* A recovery whose credential write failed can be retried (recover.ts, "Please
\* retry"): what it left at the new locator is recognised as its own.
RecoveryRetryable ==
  \A c \in Client : Idle(c) /\ recovered[c] # NoEvent =>
    \A e \in Credentials \ confirmed :
      e.acct = recovered[c].acct /\ e.gen = 0 /\ Best(Answers(Relay, e.addr)) = {e} =>
        Resumes(e, recovered[c])

-----------------------------------------------------------------------------
(* What a step may never do.                                                 *)

\* The rollback mark only falls when the phrase resets it (highWaterMark.ts,
\* "keeping the maximum ever seen").
MarkOnlyRises ==
  [][\A s \in Store, a \in Account :
       \/ hwm'[s][a] >= hwm[s][a]
       \/ \E c \in Client : job[c].pc = "reset" /\ job'[c].pc = "idle"]_vars

-----------------------------------------------------------------------------
(* Liveness.                                                                 *)

\* The next step of a flow under way.
Continue(c) == \/ RegisterRecoveryOk(c)
               \/ RegisterCredentialOk(c)
               \/ \E p \in Password : CheckNew(c, p)
               \/ ConfirmChange(c)
               \/ CompleteRecoveryOk(c)
               \/ CompleteCredentialOk(c)
               \/ ReadRecovery(c)
               \/ EnableRecoveryOk(c)
               \/ EnableCredentialOk(c)
               \/ RaiseGet(c)
               \/ RaiseSet(c)
               \/ Reset(c)
               \/ GiveUp(c)

\* Every await in a flow is bounded by a timeout (relay.ts), and the store and
\* the CPU answer: its next step is weakly fair.  Nothing is assumed of the
\* relays, nor of a user starting a flow.
FairSpec == Spec /\ \A c \in Client : WF_vars(Continue(c))

\* A flow that has begun ends, whatever the relays do (pool.ts, "waits for a
\* quorum of responses (or all timeouts)").
EveryFlowEnds == \A c \in Client : ~ Idle(c) ~> Idle(c)
=============================================================================
