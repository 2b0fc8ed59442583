---------------------------- MODULE AccountProofs ----------------------------
(***************************************************************************)
(* What holds of the account flows for any relays, clients, passwords and    *)
(* accounts.  Inv is inductive by itself; the other properties are proved on *)
(* top of it, one at a time, each with the strengthening it needs.  One holds *)
(* under a hypothesis, stated with it: that a step writes to passwords of    *)
(* its own account (OwnPasswords).                                           *)
(***************************************************************************)
EXTENDS Account, FiniteSetTheorems, TLAPS

\* Recovery capsules, and only they, live at an account's recovery address; a
\* tombstone names an event of its own address and carries no roots.
SoundEvent(e) ==
  /\ e.kind = "recovery" <=> e.addr \in Account
  /\ e.kind = "recovery" => e.acct = e.addr
  /\ e.kind = "tombstone" => e.link # NoLink /\ e.link[1] = e.addr /\ e.root = "none"

\* What a flow under way has in hand.
SoundJob(j) ==
  /\ j.pc = "check_new" => j.op = "change" /\ j.base \in Credentials
  /\ j.pc = "read_recovery" =>
       j.op = "enable" /\ j.addr \in Password /\ j.base \in Credentials
  /\ j.pc = "verify_recovery" => j.addr \in Password /\ j.pub \in Recoveries
  /\ j.pc \in {"verify_credential", "raise_get", "raise_set", "reset"} => j.pub \in Credentials
  /\ j.op = "change" /\ j.pc = "verify_credential" =>
       j.base \in Credentials /\ j.base.acct = j.pub.acct /\ j.base.gen < j.pub.gen
  /\ j.op = "enable" /\ j.pc = "verify_recovery" =>
       j.base \in Credentials /\ j.base.acct = j.pub.acct
  /\ j.op = "complete" /\ j.pc = "verify_recovery" => j.base \in Credentials \cup {NoEvent}

Inv == /\ TypeOK
       /\ \A e \in sent : SoundEvent(e)
       /\ \A c \in Client : SoundJob(job[c])

-----------------------------------------------------------------------------
(* The operators the flows are built from.                                    *)

\* The ids a hash may stand for are integers.
LEMMA FreshIdsAreInts ==
  ASSUME TypeOK, NEW a, NEW t
  PROVE  FreshIds(a, t) \subseteq Int
<1>1. IsFiniteSet(At(sent, a))
  BY FS_Subset DEF TypeOK, At
<1>2. Cardinality(At(sent, a)) \in Nat
  BY <1>1, FS_CardinalityType
<1> QED
  BY <1>2 DEF FreshIds

\* A replacement is stamped after what it replaces (timestamp.ts).
LEMMA NextCreatedAtIsLater ==
  ASSUME NEW prev \in Nat, NEW now \in Nat
  PROVE  /\ NextCreatedAt(prev, now) \in Nat
         /\ NextCreatedAt(prev, now) > prev
BY DEF NextCreatedAt

\* The NIP-01 replacement order is transitive.
LEMMA WinsIsTransitive ==
  ASSUME NEW e \in Event, NEW f \in Event, NEW g \in Event, Wins(e, f), Wins(f, g)
  PROVE  Wins(e, g)
BY DEF Wins, Event

\* A query for an address returns events of that address only.
LEMMA AnswersAreSent ==
  ASSUME TypeOK, NEW Q \in SUBSET Relay, NEW a
  PROVE  Answers(Q, a) \subseteq {e \in sent : e.addr = a}
BY DEF TypeOK, Answers, At

\* A read with a password selects a credential at that password.
LEMMA PasswordReadsAreCredentials ==
  ASSUME Inv, NEW p \in Password
  PROVE  PasswordReads(p) \subseteq Credentials
<1> SUFFICES ASSUME NEW Q \in SUBSET Relay, NEW e \in Best(Answers(Q, p))
             PROVE  e \in Credentials
  BY DEF PasswordReads
<1>1. e \in sent /\ e.addr = p /\ e.kind # "tombstone"
  BY AnswersAreSent DEF Inv, Best
<1>2. e \in Event
  BY <1>1 DEF Inv, TypeOK
<1>3. e.kind # "recovery"
  BY <1>1, AccountAssumption DEF Inv, SoundEvent
<1> QED
  BY <1>1, <1>2, <1>3 DEF Credentials, Event, Kind

\* A read of a recovery address selects a recovery capsule of that account,
\* even with an export thrown in.
LEMMA MergedReadsAreRecoveries ==
  ASSUME Inv, NEW a \in Account, NEW O \in SUBSET {e \in Recoveries : e.acct = a},
         NEW Q \in SUBSET Relay, NEW e \in Best(Answers(Q, a) \cup O)
  PROVE  e \in Recoveries /\ e.addr = a /\ e.acct = a
<1>1. CASE e \in Answers(Q, a)
  BY <1>1, AnswersAreSent DEF Inv, SoundEvent, Recoveries
<1>2. CASE e \in O
  BY <1>2 DEF Inv, SoundEvent, Recoveries
<1> QED
  BY <1>1, <1>2 DEF Best

\* The same without an export.
LEMMA RecoveryReadsAreSound ==
  ASSUME Inv, NEW a \in Account
  PROVE  RecoveryReads(a) \subseteq {e \in Recoveries : e.acct = a}
<1> SUFFICES ASSUME NEW Q \in SUBSET Relay, NEW e \in Best(Answers(Q, a) \cup {})
             PROVE  e \in Recoveries /\ e.acct = a
  BY DEF RecoveryReads
<1> DEFINE O == {}
<1>1. O \in SUBSET {f \in Recoveries : f.acct = a} /\ e \in Best(Answers(Q, a) \cup O)
  OBVIOUS
<1> HIDE DEF O
<1> QED
  BY <1>1, MergedReadsAreRecoveries

\* What a recovery may resume is a credential of its own account.
LEMMA ClaimableAreCredentials ==
  ASSUME Inv, NEW p \in Password, NEW R
  PROVE  Claimable(p, R) \subseteq Credentials \cup {NoEvent}
<1> SUFFICES ASSUME NEW Q \in SUBSET Relay, IsQuorum(Q), NEW e \in Best(Answers(Q, p))
             PROVE  e \in Credentials
  BY DEF Claimable
<1> QED
  BY PasswordReadsAreCredentials DEF PasswordReads

\* A refreshed recovery event.
LEMMA RefreshedIsSound ==
  ASSUME Inv, NEW f \in Recoveries, NEW t \in Nat, NEW root \in Root,
         NEW R \in Refreshed(f, t, root)
  PROVE  /\ R \in Event /\ SoundEvent(R) /\ R.kind = "recovery"
         /\ R.acct = f.acct /\ R.root = root /\ R.link = EventId(f)
<1>1. f \in Event /\ f.addr \in Account /\ f.acct = f.addr
  BY DEF Inv, TypeOK, SoundEvent, Recoveries
<1>2. PICK i \in FreshIds(f.addr, NextCreatedAt(f.at, t)) :
        R = Recovery(f.addr, NextCreatedAt(f.at, t), i, f.gen + 1, EventId(f), root)
  BY DEF Refreshed
<1>3. i \in Int
  BY FreshIdsAreInts DEF Inv
<1>4. NextCreatedAt(f.at, t) \in Nat
  BY <1>1, NextCreatedAtIsLater DEF Event
<1>5. EventId(f) \in Address \X Int /\ f.gen + 1 \in Nat
  BY <1>1 DEF Event, EventId
<1> QED
  BY <1>1, <1>2, <1>3, <1>4, <1>5 DEF Recovery, Event, Kind, Address, SoundEvent

-----------------------------------------------------------------------------
(* What a step does to the network, and what it leaves of the rest.           *)

\* A recovery capsule of an account nobody else uses, with the root of a capsule
\* of its account, or with the derived root when such a capsule has none.
NewRecovery(X) ==
  /\ X.kind = "recovery"
  /\ \/ \A e \in sent : e.acct # X.acct
     \/ \E f \in sent :
          /\ f.kind # "tombstone"
          /\ f.acct = X.acct
          /\ X.root = f.root \/ (f.root = "none" /\ X.root = "derived")

\* A credential that embeds a verified recovery capsule, or carries over what
\* an earlier one embeds.
NewCredential(X) ==
  /\ X.kind = "credential"
  /\ \/ \E R \in Recoveries :
          /\ X.link = EventId(R)
          /\ X.acct = R.acct
          /\ X.root = R.root
          /\ CanVerify(R)
     \/ \E C \in Credentials :
          /\ X.link = C.link
          /\ X.acct = C.acct
          /\ X.root = C.root

\* A tombstone sent when a later generation is verified.
NewTombstone(X) ==
  /\ X.kind = "tombstone"
  /\ \E C \in Credentials : C.acct = X.acct /\ X.gen < C.gen /\ CanVerify(C)

Sends(X) == /\ X \in Event
            /\ SoundEvent(X)
            /\ NewRecovery(X) \/ NewCredential(X) \/ NewTombstone(X)
            /\ sent' = sent \cup {X}

\* A client's step sends at most one event.
ClientEffect == /\ held' = held
                /\ sent' = sent \/ \E X : Sends(X)

\* It stays within the types, and only its own flow moves.
LocalStep(c) ==
  /\ job' = [job EXCEPT ![c] = job'[c]]
  /\ job'[c] \in Job
  /\ SoundJob(job[c])'
  /\ hwm' \in [Store -> [Account -> Int]]
  /\ recovered' \in [Client -> Recoveries' \cup {NoEvent}]
  /\ confirmed' \subseteq sent'
  /\ writes' \in Nat

\* Nothing that was broadcast is forgotten.
LEMMA SentOnlyGrows ==
  ASSUME ClientEffect
  PROVE  /\ sent \subseteq sent'
         /\ Recoveries \subseteq Recoveries'
         /\ Credentials \subseteq Credentials'
         /\ Tombstones \subseteq Tombstones'
BY DEF ClientEffect, Sends, Recoveries, Credentials, Tombstones

\* A step of one client that sends at most one sound event keeps Inv.
LEMMA ClientStepKeepsInv ==
  ASSUME Inv, NEW c \in Client, ClientEffect, LocalStep(c)
  PROVE  Inv'
<1>1. sent' \subseteq Event /\ IsFiniteSet(sent') /\ \A e \in sent' : SoundEvent(e)
  <2>1. CASE sent' = sent
    BY <2>1 DEF Inv, TypeOK
  <2>2. CASE \E X : Sends(X)
    BY <2>2, FS_AddElement DEF Inv, TypeOK, Sends
  <2> QED
    BY <2>1, <2>2 DEF ClientEffect
<1>2. /\ held' \in [Relay -> SUBSET sent']
      /\ \A r \in Relay : \A e, f \in held'[r] : e.addr = f.addr => e = f
  BY SentOnlyGrows DEF ClientEffect, Inv, TypeOK
<1>3. job' \in [Client -> Job]
  BY DEF LocalStep, Inv, TypeOK
<1>4. \A d \in Client : SoundJob(job[d])'
  <2> SUFFICES ASSUME NEW d \in Client, d # c
               PROVE  SoundJob(job[d])'
    BY DEF LocalStep
  <2>1. job'[d] = job[d] /\ SoundJob(job[d])
    BY DEF LocalStep, Inv, TypeOK
  <2> QED
    BY <2>1, SentOnlyGrows DEF SoundJob
<1>5. \A e \in sent' : SoundEvent(e)'
  BY <1>1 DEF SoundEvent
<1> QED
  BY <1>1, <1>2, <1>3, <1>4, <1>5 DEF Inv, TypeOK, LocalStep

-----------------------------------------------------------------------------
(* The relays.                                                                *)

\* A relay offered an event still has one event per address, and none that lost.
LEMMA ReplaceKeepsOne ==
  ASSUME NEW S \in SUBSET Event, NEW e \in Event,
         \A f, g \in S : f.addr = g.addr => f = g
  PROVE  /\ Replace(S, e) \subseteq S \cup {e}
         /\ \A f, g \in Replace(S, e) : f.addr = g.addr => f = g
         /\ \A f \in S : \E g \in Replace(S, e) : g.addr = f.addr /\ (g = f \/ Wins(g, f))
BY DEF Replace, At

\* Deliveries and deletions keep Inv.
LEMMA RelayStepKeepsInv ==
  ASSUME Inv, RelayStep, UNCHANGED <<hwm, job, recovered, confirmed, writes>>
  PROVE  Inv'
<1>1. sent' = sent
  BY DEF RelayStep, Deliver, Purge
<1>2. /\ held' \in [Relay -> SUBSET sent]
      /\ \A r \in Relay : \A e, f \in held'[r] : e.addr = f.addr => e = f
  <2>1. CASE \E r \in Relay, e \in sent : Deliver(r, e)
    <3> PICK r \in Relay, e \in sent : Deliver(r, e)
      BY <2>1
    <3>1. held[r] \in SUBSET Event /\ e \in Event
      BY DEF Inv, TypeOK
    <3>2. /\ Replace(held[r], e) \subseteq sent
          /\ \A f, g \in Replace(held[r], e) : f.addr = g.addr => f = g
      BY <3>1, ReplaceKeepsOne DEF Inv, TypeOK
    <3> QED
      BY <3>2 DEF Deliver, Inv, TypeOK
  <2>2. CASE \E r \in Nip09Relay, t \in sent : Purge(r, t)
    BY <2>2, RelayAssumption DEF Purge, Inv, TypeOK
  <2> QED
    BY <2>1, <2>2 DEF RelayStep
<1> QED
  BY <1>1, <1>2 DEF Inv, TypeOK, SoundEvent, SoundJob, Recoveries, Credentials

-----------------------------------------------------------------------------
(* The clients' steps: what each sends, and that its flow stays sound.        *)

\* What the state says of one client, unpacked.
LEMMA FlowIsTyped ==
  ASSUME Inv, NEW c \in Client
  PROVE  /\ job[c] \in Job
         /\ job[c].now \in Nat
         /\ SoundJob(job[c])
         /\ StoreOf[c] \in Store
         /\ Credentials \subseteq Event
         /\ Recoveries \subseteq Event
         /\ Credentials \subseteq sent
         /\ Recoveries \subseteq sent
BY AccountAssumption DEF Inv, TypeOK, Job, Credentials, Recoveries

\* A client without a flow.
LEMMA IdleJobIsSound == IdleJob \in Job /\ SoundJob(IdleJob) /\ SoundJob(IdleJob)'
BY DEF IdleJob, Flow, Job, PC, OpName, SoundJob

\* Writing a mark.
LEMMA MarkIsTyped ==
  ASSUME NEW S, NEW A, NEW h \in [S -> [A -> Int]], NEW s, NEW a, NEW v \in Int
  PROVE  [h EXCEPT ![s][a] = v] \in [S -> [A -> Int]]
<1>1. [h EXCEPT ![s][a] = v] = [x \in S |-> IF x = s THEN [h[s] EXCEPT ![a] = v] ELSE h[x]]
  OBVIOUS
<1>2. ASSUME s \in S
      PROVE  [h[s] EXCEPT ![a] = v] \in [A -> Int]
  BY <1>2
<1> QED
  BY <1>1, <1>2

\* A credential built from parts that have their types.
LEMMA CredentialIsSound ==
  ASSUME NEW p \in Password, NEW t \in Nat, NEW i \in Int, NEW a \in Account, NEW g \in Nat,
         NEW link \in (Address \X Int) \cup {NoLink}, NEW root \in Root,
         NEW C, C = Credential(p, t, i, a, g, link, root)
  PROVE  /\ C \in Event /\ SoundEvent(C) /\ C.kind = "credential"
         /\ C.acct = a /\ C.gen = g /\ C.link = link /\ C.root = root
BY AccountAssumption DEF Credential, Event, Kind, Address, SoundEvent

\* One lemma per step of a flow.
LEMMA BeginRegisterStep ==
  ASSUME Inv, NEW c \in Client, NEW p \in Password, NEW a \in Account, NEW t \in Clock,
         BeginRegister(c, p, a, t)
  PROVE  ClientEffect /\ LocalStep(c)
<1>0. PICK i \in FreshIds(a, t) : \E R \in {Recovery(a, t, i, 0, NoLink, "minted")} :
        /\ sent' = sent \cup {R}
        /\ job' = [job EXCEPT ![c] = Flow("register", "verify_recovery", p, t, NoEvent, R)]
  BY DEF BeginRegister
<1>1. PICK R \in {Recovery(a, t, i, 0, NoLink, "minted")} :
        /\ sent' = sent \cup {R}
        /\ job' = [job EXCEPT ![c] = Flow("register", "verify_recovery", p, t, NoEvent, R)]
  BY <1>0
<1>2. R \in Event /\ SoundEvent(R) /\ R.kind = "recovery" /\ R.acct = a
  <2>1. i \in Int /\ t \in Nat
    BY FreshIdsAreInts, AccountAssumption DEF Inv
  <2> QED
    BY <1>1, <2>1 DEF Recovery, Event, Kind, Address, Root, SoundEvent
<1>3. ClientEffect
  BY <1>1, <1>2 DEF ClientEffect, Sends, NewRecovery, BeginRegister
<1>4. /\ job'[c] \in Job
      /\ job'[c].op = "register" /\ job'[c].pc = "verify_recovery"
      /\ job'[c].addr = p /\ job'[c].pub = R
  BY <1>1, <1>2, AccountAssumption DEF Flow, Job, PC, OpName, Address, Inv, TypeOK
<1>5. SoundJob(job[c])'
  BY <1>1, <1>2, <1>4 DEF SoundJob, Recoveries
<1> QED
  BY <1>1, <1>3, <1>4, <1>5, SentOnlyGrows
     DEF LocalStep, Inv, TypeOK, BeginRegister, StartWrite

\* The first credential embeds the recovery capsule just verified.
LEMMA RegisterRecoveryOkStep ==
  ASSUME Inv, NEW c \in Client, RegisterRecoveryOk(c)
  PROVE  ClientEffect /\ LocalStep(c)
<1> DEFINE j == job[c]
<1>0. PICK i \in FreshIds(j.addr, j.now) : \E C \in {Credential(j.addr, j.now, i, j.pub.acct, 0, EventId(j.pub), j.pub.root)} :
        /\ sent' = sent \cup {C}
        /\ job' = [job EXCEPT ![c].pc = "verify_credential", ![c].pub = C]
  BY DEF RegisterRecoveryOk
<1>1. PICK C \in {Credential(j.addr, j.now, i, j.pub.acct, 0, EventId(j.pub), j.pub.root)} :
        /\ sent' = sent \cup {C}
        /\ job' = [job EXCEPT ![c].pc = "verify_credential", ![c].pub = C]
  BY <1>0
<1>2. /\ j \in Job /\ j.op = "register" /\ j.addr \in Password
      /\ j.pub \in Recoveries /\ j.pub \in Event /\ j.pub \in sent
  BY FlowIsTyped DEF SoundJob, RegisterRecoveryOk
<1>3. C \in Event /\ SoundEvent(C) /\ C.kind = "credential"
      /\ C.acct = j.pub.acct /\ C.link = EventId(j.pub) /\ C.root = j.pub.root
  <2>1. /\ i \in Int /\ j.now \in Nat /\ j.pub.acct \in Account
        /\ EventId(j.pub) \in (Address \X Int) \cup {NoLink} /\ j.pub.root \in Root
    BY <1>2, FreshIdsAreInts DEF Inv, Job, Event, EventId
  <2> QED
    BY <1>1, <1>2, <2>1, AccountAssumption DEF Credential, Event, Kind, Address, SoundEvent
<1>4. ClientEffect
  BY <1>1, <1>2, <1>3 DEF ClientEffect, Sends, NewCredential, RegisterRecoveryOk
<1>5. /\ job'[c] \in Job
      /\ job'[c].op = "register" /\ job'[c].pc = "verify_credential" /\ job'[c].pub = C
  BY <1>1, <1>2, <1>3 DEF Job, PC, Inv, TypeOK
<1>6. SoundJob(job[c])'
  BY <1>1, <1>3, <1>5 DEF SoundJob, Credentials
<1> QED
  BY <1>1, <1>2, <1>4, <1>5, <1>6, SentOnlyGrows
     DEF LocalStep, Inv, TypeOK, RegisterRecoveryOk

\* The end of a registration sends nothing.
LEMMA RegisterCredentialOkStep ==
  ASSUME Inv, NEW c \in Client, RegisterCredentialOk(c)
  PROVE  ClientEffect /\ LocalStep(c)
<1>1. job[c].pub \in sent
  BY FlowIsTyped DEF SoundJob, RegisterCredentialOk
<1> QED
  BY <1>1, IdleJobIsSound, SentOnlyGrows
     DEF RegisterCredentialOk, ClientEffect, LocalStep, Inv, TypeOK, Recoveries

\* A login sends nothing.
LEMMA BeginLoginStep ==
  ASSUME Inv, NEW c \in Client, NEW p \in Password, NEW ack, BeginLogin(c, p, ack)
  PROVE  ClientEffect /\ LocalStep(c)
<1>1. PICK e \in PasswordReads(p) :
        job' = [job EXCEPT ![c] = Flow("login", "raise_get", p, 0, NoEvent, e)]
  BY DEF BeginLogin
<1>2. e \in Credentials /\ e \in Event
  BY PasswordReadsAreCredentials, FlowIsTyped
<1>3. /\ job'[c] \in Job
      /\ job'[c].op = "login" /\ job'[c].pc = "raise_get" /\ job'[c].pub = e
  BY <1>1, <1>2 DEF Flow, Job, PC, OpName, Address, Inv, TypeOK
<1>4. SoundJob(job[c])'
  BY <1>2, <1>3 DEF SoundJob, Credentials, BeginLogin
<1> QED
  BY <1>1, <1>3, <1>4 DEF BeginLogin, ClientEffect, LocalStep, Inv, TypeOK, Recoveries

\* Reading the old capsule sends nothing.
LEMMA BeginChangeStep ==
  ASSUME Inv, NEW c \in Client, NEW p \in Password, NEW t \in Clock, NEW ack,
         BeginChange(c, p, t, ack)
  PROVE  ClientEffect /\ LocalStep(c)
<1>1. PICK e \in PasswordReads(p) :
        job' = [job EXCEPT ![c] = Flow("change", "check_new", NoEvent, t, e, NoEvent)]
  BY DEF BeginChange
<1>2. e \in Credentials /\ e \in Event
  BY PasswordReadsAreCredentials, FlowIsTyped
<1>3. /\ job'[c] \in Job
      /\ job'[c].op = "change" /\ job'[c].pc = "check_new" /\ job'[c].base = e
  BY <1>1, <1>2, AccountAssumption DEF Flow, Job, PC, OpName, Inv, TypeOK
<1>4. SoundJob(job[c])'
  BY <1>2, <1>3 DEF SoundJob, Credentials, BeginChange
<1> QED
  BY <1>1, <1>3, <1>4
     DEF BeginChange, StartWrite, ClientEffect, LocalStep, Inv, TypeOK, Recoveries

\* The next generation carries over what the old capsule embeds.
LEMMA CheckNewStep ==
  ASSUME Inv, NEW c \in Client, NEW p \in Password, CheckNew(c, p)
  PROVE  ClientEffect /\ LocalStep(c)
<1> DEFINE j == job[c]
<1>0. PICK i \in FreshIds(p, j.now) : \E C \in {Credential(p, j.now, i, j.base.acct, j.base.gen + 1, j.base.link, j.base.root)} :
        /\ sent' = sent \cup {C}
        /\ job' = [job EXCEPT ![c].pc = "verify_credential", ![c].addr = p, ![c].pub = C]
  BY DEF CheckNew
<1>1. PICK C \in {Credential(p, j.now, i, j.base.acct, j.base.gen + 1, j.base.link, j.base.root)} :
        /\ sent' = sent \cup {C}
        /\ job' = [job EXCEPT ![c].pc = "verify_credential", ![c].addr = p, ![c].pub = C]
  BY <1>0
<1>2. j \in Job /\ j.op = "change" /\ j.base \in Credentials /\ j.base \in Event
  BY FlowIsTyped DEF SoundJob, CheckNew
<1>3. /\ C \in Event /\ SoundEvent(C) /\ C.kind = "credential" /\ C.acct = j.base.acct
      /\ C.gen = j.base.gen + 1 /\ C.link = j.base.link /\ C.root = j.base.root
  <2>1. /\ i \in Int /\ j.now \in Nat /\ j.base.acct \in Account /\ j.base.gen + 1 \in Nat
        /\ j.base.link \in (Address \X Int) \cup {NoLink} /\ j.base.root \in Root
    BY <1>2, FreshIdsAreInts DEF Inv, Job, Event
  <2> QED
    BY <1>1, <2>1, CredentialIsSound
<1>4. ClientEffect
  BY <1>1, <1>2, <1>3 DEF ClientEffect, Sends, NewCredential, CheckNew
<1>5. /\ job'[c] \in Job /\ job'[c].op = "change" /\ job'[c].pc = "verify_credential"
      /\ job'[c].pub = C /\ job'[c].base = j.base
  BY <1>1, <1>2, <1>3 DEF Job, PC, Address, Inv, TypeOK
<1>6. C.gen > j.base.gen
  BY <1>2, <1>3 DEF Event
<1>7. SoundJob(job[c])'
  BY <1>1, <1>2, <1>3, <1>5, <1>6 DEF SoundJob, Credentials
<1> QED
  BY <1>1, <1>4, <1>5, <1>7, SentOnlyGrows DEF LocalStep, Inv, TypeOK, CheckNew

\* A tombstone follows a verified later generation.
LEMMA ConfirmChangeStep ==
  ASSUME Inv, NEW c \in Client, ConfirmChange(c)
  PROVE  ClientEffect /\ LocalStep(c)
<1> DEFINE j  == job[c]
           at == NextCreatedAt(j.base.at, j.now)
<1>0. PICK i \in FreshIds(j.base.addr, at) : \E T \in {Tombstone(j.base, at, i)} :
        sent' = sent \cup {T}
  BY DEF ConfirmChange
<1>1. PICK T \in {Tombstone(j.base, at, i)} :
        sent' = sent \cup {T}
  BY <1>0
<1>2. /\ j \in Job /\ j.base \in Credentials /\ j.base \in Event
      /\ j.pub \in Credentials /\ j.pub \in sent
      /\ j.base.acct = j.pub.acct /\ j.base.gen < j.pub.gen
      /\ SoundEvent(j.base)
  BY FlowIsTyped DEF SoundJob, ConfirmChange, Inv
<1>3. /\ T \in Event /\ SoundEvent(T) /\ T.kind = "tombstone"
      /\ T.acct = j.base.acct /\ T.gen = j.base.gen
  <2>1. i \in Int /\ at \in Nat /\ EventId(j.base) \in Address \X Int
    BY <1>2, FreshIdsAreInts, NextCreatedAtIsLater DEF Inv, Job, Event, EventId
  <2>2. j.base.kind = "credential" /\ j.base.addr \notin Account
    BY <1>2 DEF Credentials, SoundEvent
  <2> QED
    BY <1>1, <1>2, <2>1, <2>2
       DEF Tombstone, Event, Kind, Root, SoundEvent, EventId, NoLink
<1>4. ClientEffect
  BY <1>1, <1>2, <1>3 DEF ClientEffect, Sends, NewTombstone, ConfirmChange, MayRetire
<1>5. /\ job'[c] \in Job /\ job'[c].op = "change" /\ job'[c].pc = "raise_get"
      /\ job'[c].pub = j.pub
  BY <1>2 DEF ConfirmChange, Job, PC, Inv, TypeOK
<1>6. SoundJob(job[c])'
  BY <1>1, <1>2, <1>5 DEF SoundJob, Credentials
<1> QED
  BY <1>1, <1>2, <1>4, <1>5, <1>6, SentOnlyGrows DEF LocalStep, Inv, TypeOK, ConfirmChange

\* A recovery takes in a recovery capsule that was broadcast.
LEMMA RecoverStep ==
  ASSUME Inv, NEW c \in Client, NEW a \in Account, Recover(c, a)
  PROVE  ClientEffect /\ LocalStep(c)
<1>1. PICK e \in RecoveryReads(a) \cup
                   (IF "export" \in Ops THEN UNION {ExportReads(a, O) : O \in Exports(a)} ELSE {}) :
        recovered' = [recovered EXCEPT ![c] = e]
  BY DEF Recover
<1>2. e \in Recoveries
  <2>1. CASE e \in RecoveryReads(a)
    BY <2>1, RecoveryReadsAreSound
  <2>2. CASE e \in UNION {ExportReads(a, O) : O \in Exports(a)}
    <3>1. PICK O \in Exports(a), Q \in SUBSET Relay : e \in Best(Answers(Q, a) \cup O)
      BY <2>2 DEF ExportReads
    <3>2. O \in SUBSET {f \in Recoveries : f.acct = a}
      BY DEF Exports
    <3> QED
      BY <3>1, <3>2, MergedReadsAreRecoveries
  <2> QED
    BY <1>1, <2>1, <2>2
<1>3. job' = [job EXCEPT ![c] = job'[c]] /\ job'[c] \in Job /\ SoundJob(job[c])'
  BY FlowIsTyped DEF Recover, Inv, TypeOK, SoundJob, Credentials, Recoveries
<1> QED
  BY <1>1, <1>2, <1>3 DEF Recover, ClientEffect, LocalStep, Inv, TypeOK, Recoveries

\* The refreshed recovery capsule keeps account and roots.
LEMMA BeginCompleteStep ==
  ASSUME Inv, NEW c \in Client, NEW p \in Password, NEW t \in Clock, BeginComplete(c, p, t)
  PROVE  ClientEffect /\ LocalStep(c)
<1> DEFINE rec == recovered[c]
<1>1. PICK b \in Claimable(p, rec), R \in Refreshed(rec, t, rec.root) :
        /\ sent' = sent \cup {R}
        /\ job' = [job EXCEPT ![c] = Flow("complete", "verify_recovery", p, t, b, R)]
  BY DEF BeginComplete
<1>2. rec \in Recoveries /\ rec \in Event /\ rec \in sent /\ t \in Nat
  BY AccountAssumption, FlowIsTyped DEF BeginComplete, Inv, TypeOK
<1>3. /\ R \in Event /\ SoundEvent(R) /\ R.kind = "recovery"
      /\ R.acct = rec.acct /\ R.root = rec.root
  BY <1>2, RefreshedIsSound DEF Event
<1>4. b \in Credentials \cup {NoEvent}
  BY ClaimableAreCredentials
<1>5. ClientEffect
  BY <1>1, <1>2, <1>3 DEF ClientEffect, Sends, NewRecovery, BeginComplete, Recoveries
<1>6. /\ job'[c] \in Job
      /\ job'[c].op = "complete" /\ job'[c].pc = "verify_recovery"
      /\ job'[c].addr = p /\ job'[c].base = b /\ job'[c].pub = R
  BY <1>1, <1>2, <1>3, <1>4, FlowIsTyped DEF Flow, Job, PC, OpName, Address, Inv, TypeOK
<1>7. SoundJob(job[c])'
  BY <1>1, <1>3, <1>4, <1>6, SentOnlyGrows, <1>5 DEF SoundJob, Recoveries
<1> QED
  BY <1>1, <1>5, <1>6, <1>7, SentOnlyGrows DEF LocalStep, Inv, TypeOK, BeginComplete, StartWrite

\* The new credential embeds the refreshed recovery capsule.
LEMMA CompleteRecoveryOkStep ==
  ASSUME Inv, NEW c \in Client, CompleteRecoveryOk(c)
  PROVE  ClientEffect /\ LocalStep(c)
<1> DEFINE j  == job[c]
           at == IF j.base = NoEvent THEN j.now ELSE NextCreatedAt(j.base.at, j.now)
<1>0. PICK i \in FreshIds(j.addr, at) : \E C \in {Credential(j.addr, at, i, j.pub.acct, 0, EventId(j.pub), j.pub.root)} :
        /\ sent' = sent \cup {C}
        /\ job' = [job EXCEPT ![c].pc = "verify_credential", ![c].pub = C]
  BY DEF CompleteRecoveryOk
<1>1. PICK C \in {Credential(j.addr, at, i, j.pub.acct, 0, EventId(j.pub), j.pub.root)} :
        /\ sent' = sent \cup {C}
        /\ job' = [job EXCEPT ![c].pc = "verify_credential", ![c].pub = C]
  BY <1>0
<1>2. /\ j \in Job /\ j.op = "complete" /\ j.addr \in Password /\ j.now \in Nat
      /\ j.pub \in Recoveries /\ j.pub \in Event /\ j.pub \in sent
      /\ j.base \in Credentials \cup {NoEvent} /\ j.base \in Event \cup {NoEvent}
  BY FlowIsTyped DEF SoundJob, CompleteRecoveryOk
<1>3. /\ C \in Event /\ SoundEvent(C) /\ C.kind = "credential"
      /\ C.acct = j.pub.acct /\ C.link = EventId(j.pub) /\ C.root = j.pub.root
  <2>1. at \in Nat
    BY <1>2, NextCreatedAtIsLater DEF Event
  <2>2. /\ i \in Int /\ j.pub.acct \in Account
        /\ EventId(j.pub) \in (Address \X Int) \cup {NoLink} /\ j.pub.root \in Root
    BY <1>2, FreshIdsAreInts DEF Inv, Event, EventId
  <2> HIDE DEF at
  <2> QED
    BY <1>1, <1>2, <2>1, <2>2, AccountAssumption
       DEF Credential, Event, Kind, Address, SoundEvent
<1>4. ClientEffect
  BY <1>1, <1>2, <1>3 DEF ClientEffect, Sends, NewCredential, CompleteRecoveryOk
<1>5. /\ job'[c] \in Job
      /\ job'[c].op = "complete" /\ job'[c].pc = "verify_credential" /\ job'[c].pub = C
  BY <1>1, <1>2, <1>3 DEF Job, PC, Inv, TypeOK
<1>6. SoundJob(job[c])'
  BY <1>1, <1>3, <1>5 DEF SoundJob, Credentials
<1> QED
  BY <1>1, <1>2, <1>4, <1>5, <1>6, SentOnlyGrows
     DEF LocalStep, Inv, TypeOK, CompleteRecoveryOk, Advance

\* The end of a recovery sends nothing.
LEMMA CompleteCredentialOkStep ==
  ASSUME Inv, NEW c \in Client, CompleteCredentialOk(c)
  PROVE  ClientEffect /\ LocalStep(c)
<1>1. job[c] \in Job /\ job[c].pub \in sent /\ job[c].pub \in Credentials
  BY FlowIsTyped DEF SoundJob, CompleteCredentialOk
<1>2. /\ job'[c] \in Job
      /\ job'[c].op = "complete" /\ job'[c].pc = "reset" /\ job'[c].pub = job[c].pub
  BY <1>1 DEF CompleteCredentialOk, Job, PC, Inv, TypeOK
<1>3. SoundJob(job[c])'
  BY <1>1, <1>2 DEF SoundJob, Credentials, CompleteCredentialOk
<1> QED
  BY <1>1, <1>2, <1>3
     DEF CompleteCredentialOk, ClientEffect, LocalStep, Inv, TypeOK, Recoveries

\* Resetting the mark sends nothing.
LEMMA ResetStep ==
  ASSUME Inv, NEW c \in Client, Reset(c)
  PROVE  ClientEffect /\ LocalStep(c)
<1>1. hwm' \in [Store -> [Account -> Int]]
  BY MarkIsTyped, 0 \in Int DEF Reset, ResetMark, Inv, TypeOK
<1> QED
  BY <1>1, IdleJobIsSound DEF Reset, ClientEffect, LocalStep, Inv, TypeOK, Recoveries

\* Reading the credential sends nothing.
LEMMA BeginEnableStep ==
  ASSUME Inv, NEW c \in Client, NEW p \in Password, NEW t \in Clock, BeginEnable(c, p, t)
  PROVE  ClientEffect /\ LocalStep(c)
<1>1. PICK e \in PasswordReads(p) :
        job' = [job EXCEPT ![c] = Flow("enable", "read_recovery", p, t, e, NoEvent)]
  BY DEF BeginEnable
<1>2. e \in Credentials /\ e \in Event
  BY PasswordReadsAreCredentials, FlowIsTyped
<1>3. /\ job'[c] \in Job /\ job'[c].op = "enable" /\ job'[c].pc = "read_recovery"
      /\ job'[c].addr = p /\ job'[c].base = e
  BY <1>1, <1>2, AccountAssumption DEF Flow, Job, PC, OpName, Address, Inv, TypeOK
<1>4. SoundJob(job[c])'
  BY <1>2, <1>3 DEF SoundJob, Credentials, BeginEnable
<1> QED
  BY <1>1, <1>3, <1>4
     DEF BeginEnable, StartWrite, ClientEffect, LocalStep, Inv, TypeOK, Recoveries

\* The roots enableConnectionVault writes are those of a capsule it read, or
\* derived ones when it read none.
LEMMA VaultRootIsSound ==
  ASSUME NEW f \in Event
  PROVE  /\ VaultRoot(f) \in Root
         /\ \/ VaultRoot(f) = f.root
            \/ f.root = "none" /\ VaultRoot(f) = "derived"
BY DEF VaultRoot, Event, Root

\* The refreshed recovery capsule takes the root of a capsule of its account.
LEMMA ReadRecoveryStep ==
  ASSUME Inv, NEW c \in Client, ReadRecovery(c)
  PROVE  ClientEffect /\ LocalStep(c)
<1> DEFINE j == job[c]
<1>a. PICK f \in RecoveryReads(j.base.acct) :
        \E R \in Refreshed(f, j.now, VaultRoot(f)) :
          /\ sent' = sent \cup {R}
          /\ job' = [job EXCEPT ![c].pc = "verify_recovery", ![c].pub = R]
  BY DEF ReadRecovery
<1>1. PICK R \in Refreshed(f, j.now, VaultRoot(f)) :
        /\ sent' = sent \cup {R}
        /\ job' = [job EXCEPT ![c].pc = "verify_recovery", ![c].pub = R]
  BY <1>a
<1>2. /\ j \in Job /\ j.now \in Nat /\ j.op = "enable" /\ j.addr \in Password
      /\ j.base \in Credentials /\ j.base \in sent /\ j.base \in Event
      /\ j.base.acct \in Account
  BY FlowIsTyped DEF SoundJob, ReadRecovery, Event
<1>3. f \in Recoveries /\ f \in Event /\ f \in sent /\ f.acct = j.base.acct
  BY <1>2, RecoveryReadsAreSound, FlowIsTyped
<1>4. VaultRoot(f) \in Root
  BY <1>2, <1>3, VaultRootIsSound
<1>5. /\ R \in Event /\ SoundEvent(R) /\ R.kind = "recovery"
      /\ R.acct = j.base.acct /\ R.root = VaultRoot(f)
  BY <1>2, <1>3, <1>4, RefreshedIsSound
<1>6. NewRecovery(R)
  BY <1>2, <1>3, <1>5, VaultRootIsSound DEF NewRecovery, Credentials, Recoveries
<1>7. ClientEffect
  BY <1>1, <1>5, <1>6 DEF ClientEffect, Sends, ReadRecovery
<1>8. /\ job'[c] \in Job /\ job'[c].op = "enable" /\ job'[c].pc = "verify_recovery"
      /\ job'[c].addr = j.addr /\ job'[c].base = j.base /\ job'[c].pub = R
  BY <1>1, <1>2, <1>5 DEF Job, PC, Inv, TypeOK
<1>9. SoundJob(job[c])'
  BY <1>1, <1>2, <1>5, <1>8 DEF SoundJob, Recoveries, Credentials
<1> QED
  BY <1>1, <1>7, <1>8, <1>9, SentOnlyGrows DEF LocalStep, Inv, TypeOK, ReadRecovery

\* The refreshed credential embeds the recovery capsule that carries the roots.
LEMMA EnableRecoveryOkStep ==
  ASSUME Inv, NEW c \in Client, EnableRecoveryOk(c)
  PROVE  ClientEffect /\ LocalStep(c)
<1> DEFINE j  == job[c]
           at == NextCreatedAt(j.base.at, j.now)
<1>0. PICK i \in FreshIds(j.addr, at) : \E C \in {Credential(j.addr, at, i, j.base.acct, j.base.gen + 1, EventId(j.pub), j.pub.root)} :
        /\ sent' = sent \cup {C}
        /\ job' = [job EXCEPT ![c].pc = "verify_credential", ![c].pub = C]
  BY DEF EnableRecoveryOk
<1>1. PICK C \in {Credential(j.addr, at, i, j.base.acct, j.base.gen + 1, EventId(j.pub), j.pub.root)} :
        /\ sent' = sent \cup {C}
        /\ job' = [job EXCEPT ![c].pc = "verify_credential", ![c].pub = C]
  BY <1>0
<1>2. /\ j \in Job /\ j.op = "enable" /\ j.addr \in Password /\ j.now \in Nat
      /\ j.pub \in Recoveries /\ j.pub \in Event /\ j.pub \in sent
      /\ j.base \in Event /\ j.base.acct = j.pub.acct
  BY FlowIsTyped DEF SoundJob, EnableRecoveryOk
<1>3. /\ C \in Event /\ SoundEvent(C) /\ C.kind = "credential"
      /\ C.acct = j.pub.acct /\ C.link = EventId(j.pub) /\ C.root = j.pub.root
  <2>1. at \in Nat
    BY <1>2, NextCreatedAtIsLater DEF Event
  <2>2. /\ i \in Int /\ j.pub.acct \in Account /\ j.base.gen + 1 \in Nat
        /\ EventId(j.pub) \in (Address \X Int) \cup {NoLink} /\ j.pub.root \in Root
    BY <1>2, FreshIdsAreInts DEF Inv, Event, EventId
  <2> HIDE DEF at
  <2> QED
    BY <1>1, <1>2, <2>1, <2>2, AccountAssumption
       DEF Credential, Event, Kind, Address, SoundEvent
<1>4. ClientEffect
  BY <1>1, <1>2, <1>3 DEF ClientEffect, Sends, NewCredential, EnableRecoveryOk
<1>5. /\ job'[c] \in Job
      /\ job'[c].op = "enable" /\ job'[c].pc = "verify_credential" /\ job'[c].pub = C
  BY <1>1, <1>2, <1>3 DEF Job, PC, Inv, TypeOK
<1>6. SoundJob(job[c])'
  BY <1>1, <1>3, <1>5 DEF SoundJob, Credentials
<1> QED
  BY <1>1, <1>2, <1>4, <1>5, <1>6, SentOnlyGrows DEF LocalStep, Inv, TypeOK, EnableRecoveryOk

\* The end of enabling the vault sends nothing.
LEMMA EnableCredentialOkStep ==
  ASSUME Inv, NEW c \in Client, EnableCredentialOk(c)
  PROVE  ClientEffect /\ LocalStep(c)
<1>1. job[c].pub \in sent
  BY FlowIsTyped DEF SoundJob, EnableCredentialOk
<1> QED
  BY <1>1, IdleJobIsSound DEF EnableCredentialOk, ClientEffect, LocalStep, Inv, TypeOK, Recoveries

\* Reading the mark.
LEMMA RaiseGetStep ==
  ASSUME Inv, NEW c \in Client, RaiseGet(c)
  PROVE  ClientEffect /\ LocalStep(c)
<1> DEFINE j == job[c]
<1>1. j \in Job /\ j.pub \in Credentials /\ j.pub.acct \in Account
  BY FlowIsTyped DEF SoundJob, RaiseGet, Event
<1>2. Mark(c, j.pub.acct) \in Int
  BY <1>1, FlowIsTyped DEF Mark, Inv, TypeOK
<1>3. /\ job' = [job EXCEPT ![c] = job'[c]] /\ job'[c] \in Job
      /\ job'[c].pc = "raise_set" /\ job'[c].pub = j.pub
  BY <1>1, <1>2 DEF RaiseGet, Job, PC, Inv, TypeOK
<1>4. SoundJob(job[c])'
  BY <1>1, <1>3 DEF SoundJob, Credentials, RaiseGet
<1> QED
  BY <1>3, <1>4 DEF RaiseGet, ClientEffect, LocalStep, Inv, TypeOK, Recoveries

\* Writing the mark.
LEMMA RaiseSetStep ==
  ASSUME Inv, NEW c \in Client, RaiseSet(c)
  PROVE  ClientEffect /\ LocalStep(c)
<1>1. job[c] \in Job /\ job[c].pub \in Event
  BY FlowIsTyped DEF SoundJob, RaiseSet
<1>2. MergedMark(job[c].mark, job[c].pub.gen) \in Int
  BY <1>1 DEF MergedMark, Job, Event
<1>3. hwm' \in [Store -> [Account -> Int]]
  BY <1>2, MarkIsTyped DEF RaiseSet, Inv, TypeOK
<1> QED
  BY <1>3, IdleJobIsSound DEF RaiseSet, ClientEffect, LocalStep, Inv, TypeOK, Recoveries

\* A failure undoes nothing.
LEMMA GiveUpStep ==
  ASSUME Inv, NEW c \in Client, GiveUp(c)
  PROVE  ClientEffect /\ LocalStep(c)
BY IdleJobIsSound DEF GiveUp, ClientEffect, LocalStep, Inv, TypeOK, Recoveries

\* A crash undoes nothing.
LEMMA CrashStep ==
  ASSUME Inv, NEW c \in Client, Crash(c)
  PROVE  ClientEffect /\ LocalStep(c)
BY IdleJobIsSound DEF Crash, ClientEffect, LocalStep, Inv, TypeOK, Recoveries

-----------------------------------------------------------------------------
(* The whole system.                                                          *)

\* A client sends at most one sound event in a step.
LEMMA ClientSteps ==
  ASSUME Inv, NEW c \in Client, Step(c) \/ Crash(c)
  PROVE  ClientEffect /\ LocalStep(c)
<1>1. CASE Register(c)
  BY <1>1, BeginRegisterStep, RegisterRecoveryOkStep, RegisterCredentialOkStep DEF Register
<1>2. CASE Login(c)
  BY <1>2, BeginLoginStep DEF Login
<1>3. CASE ChangePassword(c)
  BY <1>3, BeginChangeStep, CheckNewStep, ConfirmChangeStep DEF ChangePassword
<1>4. CASE RecoverAccount(c)
  BY <1>4, RecoverStep, BeginCompleteStep, CompleteRecoveryOkStep, CompleteCredentialOkStep,
     ResetStep DEF RecoverAccount
<1>5. CASE EnableVault(c)
  BY <1>5, BeginEnableStep, ReadRecoveryStep, EnableRecoveryOkStep, EnableCredentialOkStep
     DEF EnableVault
<1>6. CASE RaiseGet(c) \/ RaiseSet(c) \/ GiveUp(c) \/ Crash(c)
  BY <1>6, RaiseGetStep, RaiseSetStep, GiveUpStep, CrashStep
<1> QED
  BY <1>1, <1>2, <1>3, <1>4, <1>5, <1>6 DEF Step

\* Every step is a relay's or a client's.
LEMMA EveryStep ==
  ASSUME Inv, Next
  PROVE  \/ RelayStep /\ UNCHANGED <<hwm, job, recovered, confirmed, writes>>
         \/ \E c \in Client : ClientEffect /\ LocalStep(c)
BY ClientSteps DEF Next

\* The capsules of the accounts that exist initially.
LEMMA InitialEventsAreSound ==
  /\ IsFiniteSet(InitialEvents)
  /\ \A e \in InitialEvents : e \in Event /\ SoundEvent(e)
  /\ \A e, f \in InitialEvents : e.addr = f.addr => e = f
<1>1. IsFiniteSet(InitialEvents)
  <2> DEFINE f == [x \in Registered |-> InitialRecovery(x)]
             g == [x \in Registered |-> InitialCredential(x)]
             R == {f[x] : x \in Registered}
             C == {g[x] : x \in Registered}
  <2>1. f \in Surjection(Registered, R) /\ g \in Surjection(Registered, C)
    BY DEF Surjection
  <2> HIDE DEF f, g
  <2>2. IsFiniteSet(R) /\ IsFiniteSet(C)
    BY <2>1, FS_Surjection, AccountAssumption
  <2>3. InitialEvents = R \cup C
    BY DEF InitialEvents, f, g
  <2> QED
    BY <2>2, <2>3, FS_Union
<1>2. ASSUME NEW x \in Registered
      PROVE  /\ InitialRecovery(x) \in Event /\ SoundEvent(InitialRecovery(x))
             /\ InitialCredential(x) \in Event /\ SoundEvent(InitialCredential(x))
             /\ InitialRecovery(x).addr = x.acct /\ InitialCredential(x).addr = x.addr
             /\ x.acct \in Account /\ x.addr \in Password
  <2>1. x.acct \in Account /\ x.addr \in Password /\ x.root \in Root
    BY AccountAssumption DEF Root
  <2> QED
    BY <2>1, AccountAssumption
       DEF InitialRecovery, InitialCredential, Recovery, Credential, EventId, Event, Kind,
           Address, SoundEvent
<1>3. \A e \in InitialEvents : \E x \in Registered :
        e = InitialRecovery(x) \/ e = InitialCredential(x)
  BY DEF InitialEvents
<1>4. ASSUME NEW e \in InitialEvents, NEW f \in InitialEvents, e.addr = f.addr
      PROVE  e = f
  BY <1>2, <1>3, <1>4, AccountAssumption
<1> QED
  BY <1>1, <1>2, <1>3, <1>4

\* Inv holds initially.
LEMMA InitIsSound == Init => Inv
<1> SUFFICES ASSUME Init
             PROVE  Inv
  OBVIOUS
<1>1. /\ sent \subseteq Event /\ IsFiniteSet(sent) /\ \A e \in sent : SoundEvent(e)
      /\ \A r \in Relay : \A e, f \in held[r] : e.addr = f.addr => e = f
  BY InitialEventsAreSound DEF Init
<1> QED
  BY <1>1, IdleJobIsSound DEF Init, Inv, TypeOK

\* Every step keeps Inv.
LEMMA InvIsInductive == Inv /\ [Next]_vars => Inv'
<1> SUFFICES ASSUME Inv, [Next]_vars
             PROVE  Inv'
  OBVIOUS
<1>1. CASE Next
  BY <1>1, EveryStep, ClientStepKeepsInv, RelayStepKeepsInv
<1>2. CASE UNCHANGED vars
  BY <1>2 DEF vars, Inv, TypeOK, SoundEvent, SoundJob, Recoveries, Credentials
<1> QED
  BY <1>1, <1>2

\* What a step adds to the network is what a client sent in it.
LEMMA NewEventsAreSent ==
  ASSUME Inv, [Next]_vars
  PROVE  sent \subseteq sent' /\ \A X \in sent' \ sent : Sends(X)
<1>1. CASE Next
  BY <1>1, EveryStep DEF ClientEffect, Sends, RelayStep, Deliver, Purge
<1> QED
  BY <1>1 DEF vars

\* The strengthened type invariant.
THEOREM InvHolds == Spec => []Inv
BY InitIsSound, InvIsInductive, PTL DEF Spec

\* Every variable keeps its type, and a relay never stores two events of one
\* address, whatever it is offered in whatever order.
THEOREM TypesHold == Spec => []TypeOK
<1>1. Inv => TypeOK
  BY DEF Inv
<1> QED
  BY <1>1, InvHolds, PTL

-----------------------------------------------------------------------------
(* Relays never go back.                                                      *)

\* Whatever a relay holds at an address stays until an event that wins the NIP-01
\* order replaces it, or the deletion request sent with a tombstone names it.
KeepsWinner ==
  \A r \in Relay : \A e \in held[r] :
    \/ \E f \in held'[r] : f.addr = e.addr /\ (f = e \/ Wins(f, e))
    \/ \E t \in Tombstones : t.link = EventId(e)

\* A delivery or a deletion sets no relay back.
LEMMA RelayStepKeepsWinner ==
  ASSUME Inv, RelayStep
  PROVE  KeepsWinner
<1> SUFFICES ASSUME NEW r \in Relay, NEW e \in held[r]
             PROVE  \/ \E f \in held'[r] : f.addr = e.addr /\ (f = e \/ Wins(f, e))
                    \/ \E t \in Tombstones : t.link = EventId(e)
  BY DEF KeepsWinner
<1>1. CASE \E s \in Relay, x \in sent : Deliver(s, x)
  <2> PICK s \in Relay, x \in sent : Deliver(s, x)
    BY <1>1
  <2>1. held[r] \in SUBSET Event /\ x \in Event
        /\ \A f, g \in held[r] : f.addr = g.addr => f = g
    BY DEF Inv, TypeOK
  <2>2. held'[r] = IF r = s THEN Replace(held[r], x) ELSE held[r]
    BY DEF Deliver, Inv, TypeOK
  <2> QED
    BY <2>1, <2>2, ReplaceKeepsOne
<1>2. CASE \E s \in Nip09Relay, t \in sent : Purge(s, t)
  BY <1>2 DEF Purge, Inv, TypeOK, Tombstones
<1> QED
  BY <1>1, <1>2 DEF RelayStep

-----------------------------------------------------------------------------
(* One vault root per account.                                                *)

\* Stronger than OneVaultRoot: a random root is on every capsule of the account,
\* or on none, so whoever finds a capsule without one may derive it.
RootsAgree ==
  \A e, f \in sent :
    /\ e.acct = f.acct
    /\ e.kind # "tombstone" /\ f.kind # "tombstone"
    /\ e.root = "minted"
    => f.root = "minted"

\* An existing account has one root.
LEMMA RootsAgreeInitially == Init => RootsAgree
<1> SUFFICES ASSUME Init, NEW e \in sent, NEW f \in sent, e.acct = f.acct, e.root = "minted"
             PROVE  f.root = "minted"
  BY DEF RootsAgree
<1>1. ASSUME NEW g \in sent
      PROVE  \E x \in Registered : g.acct = x.acct /\ g.root = x.root
  <2>1. PICK x \in Registered : g = InitialRecovery(x) \/ g = InitialCredential(x)
    BY DEF Init, InitialEvents
  <2> QED
    BY <2>1 DEF InitialRecovery, InitialCredential, Recovery, Credential
<1> QED
  BY <1>1, AccountAssumption

\* A new capsule takes its root from one of its account.
LEMMA RootsAgreeIsInductive == Inv /\ RootsAgree /\ [Next]_vars => RootsAgree'
<1> SUFFICES ASSUME Inv, RootsAgree, [Next]_vars
             PROVE  RootsAgree'
  OBVIOUS
<1>1. ASSUME NEW X \in sent' \ sent, X.kind # "tombstone",
             NEW f \in sent, f.acct = X.acct, f.kind # "tombstone"
      PROVE  X.root = "minted" <=> f.root = "minted"
  <2>1. Sends(X)
    BY NewEventsAreSent
  <2>2. CASE NewRecovery(X)
    BY <1>1, <2>2 DEF NewRecovery, RootsAgree
  <2>3. CASE NewCredential(X)
    <3>1. PICK g \in sent : g.kind # "tombstone" /\ g.acct = X.acct /\ g.root = X.root
      BY <2>3 DEF NewCredential, Recoveries, Credentials
    <3> QED
      BY <1>1, <3>1 DEF RootsAgree
  <2> QED
    BY <1>1, <2>1, <2>2, <2>3 DEF Sends, NewTombstone
<1>2. \A X, Y \in sent' \ sent : X = Y
  BY EveryStep DEF ClientEffect, Sends, RelayStep, Deliver, Purge, vars
<1> QED
  BY <1>1, <1>2 DEF RootsAgree

\* No sequence of registrations, rotations, recoveries and vault enablings, by any
\* number of devices, failing anywhere, gives an account two vault roots.
THEOREM OneRootHolds == Spec => []OneVaultRoot
<1>1. Inv /\ RootsAgree => OneVaultRoot
  <2> SUFFICES ASSUME Inv, RootsAgree, NEW e \in sent, NEW f \in sent, e.acct = f.acct,
                      e.root # "none", f.root # "none"
               PROVE  e.root = f.root
    BY DEF OneVaultRoot
  <2>1. e.kind # "tombstone" /\ f.kind # "tombstone" /\ e.root \in Root /\ f.root \in Root
    BY DEF Inv, TypeOK, SoundEvent, Event
  <2> QED
    BY <2>1 DEF RootsAgree, Root
<1> QED
  BY <1>1, InvHolds, RootsAgreeInitially, RootsAgreeIsInductive, PTL DEF Spec

-----------------------------------------------------------------------------
(* What is durable stays durable.                                             *)

\* Until a deletion request for its address goes out, an event that reached a relay
\* stays there, or gives way to one that wins over it.
LEMMA ReachedStays ==
  ASSUME Inv, [Next]_vars, NEW e \in sent, NEW r \in Reached(e),
         \A t \in Tombstones : t.addr # e.addr
  PROVE  r \in Reached(e)'
<1>1. PICK f \in held[r] : f.addr = e.addr /\ (f = e \/ Wins(f, e))
  BY DEF Reached, At
<1>2. f \in Event /\ e \in Event /\ r \in Relay
  BY DEF Reached, Inv, TypeOK
<1>3. KeepsWinner
  <2>1. CASE RelayStep
    BY <2>1, RelayStepKeepsWinner
  <2>2. CASE held' = held
    BY <2>2 DEF KeepsWinner, Inv, TypeOK
  <2> QED
    BY <2>1, <2>2, EveryStep DEF ClientEffect, vars
<1>4. \A t \in Tombstones : t.link # EventId(f)
  BY <1>1 DEF Inv, SoundEvent, Tombstones, EventId
<1>5. PICK g \in held'[r] : g.addr = f.addr /\ (g = f \/ Wins(g, f))
  BY <1>2, <1>3, <1>4 DEF KeepsWinner
<1>6. g \in Event
  BY <1>2, InvIsInductive DEF Inv, TypeOK
<1>7. g.addr = e.addr /\ (g = e \/ Wins(g, e))
  BY <1>1, <1>2, <1>5, <1>6, WinsIsTransitive
<1> QED
  BY <1>2, <1>5, <1>7 DEF Reached, At

\* Durability outlives every step that deletes nothing at the address.
LEMMA DurableStays ==
  ASSUME Inv, [Next]_vars, NEW e \in sent, Durable(e),
         \A t \in Tombstones : t.addr # e.addr
  PROVE  Durable(e)'
<1>1. Reached(e) \subseteq Reached(e)'
  BY ReachedStays
<1>2. IsFiniteSet(Reached(e)')
  BY RelayAssumption, FS_Subset DEF Reached
<1>3. /\ Cardinality(Reached(e)) <= Cardinality(Reached(e)')
      /\ Cardinality(Reached(e)) \in Nat /\ Cardinality(Reached(e)') \in Nat
  BY <1>1, <1>2, FS_Subset, FS_CardinalityType
<1> QED
  BY <1>3, RelayAssumption DEF Durable

\* What publishAndVerify verified is durable.
LEMMA ReplicatedIsDurable ==
  ASSUME NEW e, Cardinality(HasReplica(e)) >= MinReadbacks
  PROVE  Durable(e)
<1>1. HasReplica(e) \subseteq Reached(e)
  BY DEF HasReplica, Reached, At
<1>2. IsFiniteSet(Reached(e)) /\ IsFiniteSet(HasReplica(e))
  BY RelayAssumption, FS_Subset DEF Reached, HasReplica
<1>3. /\ Cardinality(HasReplica(e)) <= Cardinality(Reached(e))
      /\ Cardinality(HasReplica(e)) \in Nat /\ Cardinality(Reached(e)) \in Nat
  BY <1>1, <1>2, FS_Subset, FS_CardinalityType
<1> QED
  BY <1>3, RelayAssumption DEF Durable

-----------------------------------------------------------------------------
(* The recovery capsule comes first.                                          *)

Embeds(C, R) == EventId(R) = C.link /\ R.acct = C.acct /\ Durable(R)

\* A credential keeps its recovery capsule.
LEMMA EmbeddedStays ==
  ASSUME Inv, [Next]_vars, NEW C, NEW R \in Recoveries, Embeds(C, R)
  PROVE  R \in Recoveries' /\ Embeds(C, R)'
<1>1. \A t \in Tombstones : t.addr # R.addr
  BY DEF Inv, SoundEvent, Tombstones, Recoveries
<1>2. Durable(R)'
  BY <1>1, DurableStays DEF Embeds, Recoveries
<1> QED
  BY <1>2, NewEventsAreSent DEF Embeds, EventId, Recoveries

\* The existing accounts were registered in that order.
LEMMA RecoveryFirstInitially == Init => RecoveryBeforeCredential
<1> SUFFICES ASSUME Init, NEW C \in Credentials
             PROVE  \E R \in Recoveries : EventId(R) = C.link /\ R.acct = C.acct /\ Durable(R)
  BY DEF RecoveryBeforeCredential
<1>1. PICK x \in Registered : C = InitialCredential(x) /\ InitialRecovery(x) \in sent
  BY DEF Init, InitialEvents, Credentials, InitialRecovery, Recovery
<1> DEFINE R == InitialRecovery(x)
<1>2. R \in Recoveries /\ EventId(R) = C.link /\ R.acct = C.acct
  BY <1>1 DEF Recoveries, InitialRecovery, InitialCredential, Recovery, Credential
<1>3. Durable(R)
  BY <1>1, ReplicatedIsDurable DEF Init
<1> QED
  BY <1>2, <1>3

\* Every step keeps the recovery capsules behind the credentials.
LEMMA RecoveryFirstIsInductive ==
  Inv /\ RecoveryBeforeCredential /\ [Next]_vars => RecoveryBeforeCredential'
<1> SUFFICES ASSUME Inv, RecoveryBeforeCredential, [Next]_vars, NEW C \in Credentials'
             PROVE  \E R \in Recoveries' : Embeds(C, R)'
  BY DEF RecoveryBeforeCredential, Embeds, EventId
<1>1. CASE C \in Credentials
  <2>1. PICK R \in Recoveries : Embeds(C, R)
    BY <1>1 DEF RecoveryBeforeCredential, Embeds
  <2> QED
    BY <2>1, EmbeddedStays
<1>2. CASE C \notin Credentials
  <2>1. Sends(C) /\ C.kind = "credential"
    BY <1>2, NewEventsAreSent DEF Credentials
  <2>2. NewCredential(C)
    BY <2>1 DEF Sends, NewRecovery, NewTombstone
  <2>3. PICK R \in Recoveries : Embeds(C, R)
    <3>1. CASE \E R \in Recoveries : C.link = EventId(R) /\ C.acct = R.acct /\ CanVerify(R)
      BY <3>1, ReplicatedIsDurable DEF CanVerify, Embeds, Recoveries
    <3>2. CASE \E B \in Credentials : C.link = B.link /\ C.acct = B.acct
      BY <3>2 DEF RecoveryBeforeCredential, Embeds
    <3> QED
      BY <2>2, <3>1, <3>2 DEF NewCredential
  <2> QED
    BY <2>3, EmbeddedStays
<1> QED
  BY <1>1, <1>2

\* A credential capsule never exists, on a relay or on its way, before the recovery
\* capsule it embeds is durable; rotations carry an embedded capsule that still is.
THEOREM RecoveryIsFirst == Spec => []RecoveryBeforeCredential
BY InvHolds, RecoveryFirstInitially, RecoveryFirstIsInductive, PTL DEF Spec

-----------------------------------------------------------------------------
(* A password is only retired behind a durable successor.                     *)

Succeeds(C, t) ==
  /\ C.acct = t.acct
  /\ C.gen > t.gen
  /\ Durable(C) \/ \E u \in Tombstones : u.addr = C.addr

\* A tombstone keeps its successor.
LEMMA SuccessorStays ==
  ASSUME Inv, [Next]_vars, NEW t, NEW C \in Credentials, Succeeds(C, t)
  PROVE  C \in Credentials' /\ Succeeds(C, t)'
<1>1. sent \subseteq sent'
  BY NewEventsAreSent
<1>2. (\E u \in Tombstones : u.addr = C.addr) => (\E u \in Tombstones' : u.addr = C.addr)
  BY <1>1 DEF Tombstones
<1>3. (\A u \in Tombstones : u.addr # C.addr) => Durable(C)'
  BY DurableStays DEF Succeeds, Credentials
<1> QED
  BY <1>1, <1>2, <1>3 DEF Succeeds, Credentials

\* Every step keeps the successors behind the tombstones.
LEMMA SuccessorIsInductive ==
  Inv /\ SuccessorDurable /\ [Next]_vars => SuccessorDurable'
<1> SUFFICES ASSUME Inv, SuccessorDurable, [Next]_vars, NEW t \in Tombstones'
             PROVE  \E C \in Credentials' : Succeeds(C, t)'
  BY DEF SuccessorDurable, Succeeds
<1>1. CASE t \in Tombstones
  <2>1. PICK C \in Credentials : Succeeds(C, t)
    BY <1>1 DEF SuccessorDurable, Succeeds
  <2> QED
    BY <2>1, SuccessorStays
<1>2. CASE t \notin Tombstones
  <2>1. Sends(t) /\ t.kind = "tombstone"
    BY <1>2, NewEventsAreSent DEF Tombstones
  <2>2. PICK C \in Credentials : C.acct = t.acct /\ t.gen < C.gen /\ CanVerify(C)
    BY <2>1 DEF Sends, NewRecovery, NewCredential, NewTombstone
  <2>3. C.gen > t.gen
    BY <2>1, <2>2, FlowIsTyped DEF Sends, Event
  <2>4. Succeeds(C, t)
    BY <2>2, <2>3, ReplicatedIsDurable DEF CanVerify, Succeeds, Credentials
  <2> QED
    BY <2>2, <2>4, SuccessorStays
<1> QED
  BY <1>1, <1>2

\* changePassword never destroys an account's capsule before a later one of the same
\* account reached enough relays to survive, whatever is lost, late or interrupted.
THEOREM SuccessorHolds == Spec => []SuccessorDurable
<1>1. Init => SuccessorDurable
  <2> SUFFICES ASSUME Init, NEW t \in Tombstones
               PROVE  FALSE
    BY DEF SuccessorDurable
  <2>1. PICK x \in Registered : t = InitialRecovery(x) \/ t = InitialCredential(x)
    BY DEF Init, InitialEvents, Tombstones
  <2> QED
    BY <2>1 DEF Tombstones, InitialRecovery, InitialCredential, Recovery, Credential
<1> QED
  BY <1>1, InvHolds, SuccessorIsInductive, PTL DEF Spec

-----------------------------------------------------------------------------
(* Which steps retire a password, and which rotate one.                       *)

\* What a step of the account flows may be.
LEMMA StepIs ==
  ASSUME NEW c \in Client, Step(c) \/ Crash(c)
  PROVE  \/ ConfirmChange(c)
         \/ \E p \in Password : CheckNew(c, p)
         \/ \E p \in Password, a \in Account, t \in Clock : BeginRegister(c, p, a, t)
         \/ RegisterRecoveryOk(c) \/ CompleteRecoveryOk(c) \/ EnableRecoveryOk(c)
         \/ ReadRecovery(c)
         \/ \E p \in Password, t \in Clock : BeginComplete(c, p, t)
         \/ RegisterCredentialOk(c) \/ CompleteCredentialOk(c) \/ EnableCredentialOk(c)
         \/ sent' = sent /\ confirmed' = confirmed
BY DEF Step, Register, Login, ChangePassword, RecoverAccount, EnableVault, BeginLogin, BeginChange,
       Recover, Reset, BeginEnable, RaiseGet, RaiseSet, GiveUp, Crash

\* A tombstone is the one of a rotation whose new capsule is verified, and is stamped
\* after the capsule it retires.
LEMMA OnlyRotationsRetire ==
  ASSUME Inv, [Next]_vars, NEW X \in sent' \ sent, X.kind = "tombstone"
  PROVE  \E c \in Client :
           /\ ConfirmChange(c)
           /\ X.addr = job[c].base.addr
           /\ X.acct = job[c].base.acct
           /\ X.at > job[c].base.at
<1>1. PICK c \in Client : Step(c) \/ Crash(c)
  BY DEF Next, RelayStep, Deliver, Purge, vars
<1>2. CASE ConfirmChange(c)
  <2> DEFINE j  == job[c]
             at == NextCreatedAt(j.base.at, j.now)
  <2>1. PICK i \in FreshIds(j.base.addr, at) : sent' = sent \cup {Tombstone(j.base, at, i)}
    BY <1>2 DEF ConfirmChange
  <2>2. X = Tombstone(j.base, at, i)
    BY <2>1
  <2>3. X.addr = j.base.addr /\ X.acct = j.base.acct /\ X.at = at
    BY <2>2 DEF Tombstone
  <2>4. j.base \in Event /\ j.now \in Nat
    BY <1>2, FlowIsTyped DEF SoundJob, ConfirmChange
  <2>5. at > j.base.at
    BY <2>4, NextCreatedAtIsLater DEF Event
  <2> QED
    BY <1>2, <2>3, <2>5
<1>3. CASE \E p \in Password : CheckNew(c, p)
  BY <1>3 DEF CheckNew, Credential
<1>4. CASE \E p \in Password, a \in Account, t \in Clock : BeginRegister(c, p, a, t)
  BY <1>4 DEF BeginRegister, Recovery
<1>5. CASE RegisterRecoveryOk(c)
  BY <1>5 DEF RegisterRecoveryOk, Credential
<1>6. CASE CompleteRecoveryOk(c)
  BY <1>6 DEF CompleteRecoveryOk, Credential
<1>7. CASE EnableRecoveryOk(c)
  BY <1>7 DEF EnableRecoveryOk, Credential
<1>8. CASE ReadRecovery(c)
  BY <1>8 DEF ReadRecovery, Refreshed, Recovery
<1>9. CASE \E p \in Password, t \in Clock : BeginComplete(c, p, t)
  BY <1>9 DEF BeginComplete, Refreshed, Recovery
<1>10. CASE sent' = sent
  BY <1>10
<1> QED
  BY <1>1, <1>2, <1>3, <1>4, <1>5, <1>6, <1>7, <1>8, <1>9, <1>10, StepIs
     DEF RegisterCredentialOk, CompleteCredentialOk, EnableCredentialOk

\* A step of one client leaves the flows of the others.
LEMMA OthersStay ==
  ASSUME Inv, [Next]_vars, NEW d \in Client, job'[d] # job[d]
  PROVE  Step(d) \/ Crash(d)
<1>1. ASSUME NEW c \in Client, Step(c) \/ Crash(c)
      PROVE  c = d
  <2>1. LocalStep(c)
    BY <1>1, ClientSteps
  <2> QED
    BY <2>1 DEF LocalStep, Inv, TypeOK
<1> QED
  BY <1>1 DEF Next, vars

\* A rotation publishes its new capsule in one kind of step only.
LEMMA OnlyCheckNewRotates ==
  ASSUME Inv, [Next]_vars, NEW d \in Client, job'[d].op = "change",
         job'[d].pc = "verify_credential"
  PROVE  job'[d] = job[d] \/ \E p \in Password : CheckNew(d, p)
<1> SUFFICES ASSUME job'[d] # job[d], \A p \in Password : ~ CheckNew(d, p)
             PROVE  FALSE
  OBVIOUS
<1>1. Step(d) \/ Crash(d)
  BY OthersStay
<1>2. job \in [Client -> Job] /\ SoundJob(job[d])
  BY FlowIsTyped DEF Inv, TypeOK
<1>3. CASE \/ RegisterCredentialOk(d) \/ EnableCredentialOk(d) \/ RaiseSet(d) \/ Reset(d)
           \/ GiveUp(d) \/ Crash(d)
  <2>1. job' = [job EXCEPT ![d] = IdleJob]
    BY <1>3 DEF RegisterCredentialOk, EnableCredentialOk, RaiseSet, Reset, GiveUp, Crash
  <2> QED
    BY <1>2, <2>1 DEF IdleJob, Flow
<1>4. CASE RegisterRecoveryOk(d) \/ CompleteRecoveryOk(d) \/ EnableRecoveryOk(d) \/ ReadRecovery(d)
  <2>1. job[d].op # "change"
    BY <1>2, <1>4 DEF RegisterRecoveryOk, CompleteRecoveryOk, EnableRecoveryOk, ReadRecovery, SoundJob
  <2>2. PICK pc, C : job' = [job EXCEPT ![d].pc = pc, ![d].pub = C]
    BY <1>4 DEF RegisterRecoveryOk, CompleteRecoveryOk, EnableRecoveryOk, ReadRecovery, PC
  <2>3. job'[d].op = job[d].op
    BY <1>2, <2>2 DEF Job
  <2> QED
    BY <2>1, <2>3
<1>5. CASE CompleteCredentialOk(d) \/ ConfirmChange(d) \/ RaiseGet(d)
  <2>1. job'[d].pc \in {"reset", "raise_get", "raise_set"}
    BY <1>2, <1>5 DEF CompleteCredentialOk, ConfirmChange, RaiseGet, Job
  <2> QED
    BY <2>1
<1>6. CASE \/ \E p \in Password, a \in Account, t \in Clock : BeginRegister(d, p, a, t)
           \/ \E p \in Password, t \in Clock : BeginComplete(d, p, t)
  <2>1. PICK op, p, t, b, X : /\ op # "change"
                                        /\ job' = [job EXCEPT ![d] = Flow(op, "verify_recovery", p, t, b, X)]
    BY <1>6 DEF BeginRegister, BeginComplete, OpName
  <2> QED
    BY <1>2, <2>1 DEF Flow
<1>7. CASE \/ \E p \in Password, ack \in Acknowledge : BeginLogin(d, p, ack)
           \/ \E p \in Password, t \in Clock, ack \in Acknowledge : BeginChange(d, p, t, ack)
           \/ \E p \in Password, t \in Clock : BeginEnable(d, p, t)
  <2>1. PICK op, pc, p, t, b, X : /\ pc # "verify_credential"
                                  /\ job' = [job EXCEPT ![d] = Flow(op, pc, p, t, b, X)]
    BY <1>7 DEF BeginLogin, BeginChange, BeginEnable
  <2> QED
    BY <1>2, <2>1 DEF Flow
<1>8. CASE \E a \in Account : Recover(d, a)
  BY <1>8 DEF Recover
<1> QED
  BY <1>1, <1>3, <1>4, <1>5, <1>6, <1>7, <1>8
     DEF Step, Register, Login, ChangePassword, RecoverAccount, EnableVault

\* A step broadcasts at most one event.
LEMMA OneNewEvent ==
  ASSUME Inv, [Next]_vars
  PROVE  \A X, Y \in sent' \ sent : X = Y
BY EveryStep DEF ClientEffect, Sends, RelayStep, Deliver, Purge, vars

\* Only what publishAndVerify verified is confirmed.
LEMMA OnlyVerifiedIsConfirmed ==
  ASSUME Inv, [Next]_vars, NEW X \in confirmed' \ confirmed
  PROVE  X \in sent /\ CanVerify(X)
<1>1. PICK c \in Client : Step(c) \/ Crash(c)
  BY DEF Next, vars
<1>2. SoundJob(job[c])
  BY FlowIsTyped
<1>3. CASE ConfirmChange(c)
  BY <1>2, <1>3 DEF ConfirmChange, MayRetire, SoundJob, Credentials
<1>4. CASE RegisterRecoveryOk(c) \/ CompleteRecoveryOk(c) \/ EnableRecoveryOk(c)
  BY <1>2, <1>4 DEF RegisterRecoveryOk, CompleteRecoveryOk, EnableRecoveryOk, SoundJob, Recoveries
<1>5. CASE RegisterCredentialOk(c) \/ CompleteCredentialOk(c) \/ EnableCredentialOk(c)
  BY <1>2, <1>5 DEF RegisterCredentialOk, CompleteCredentialOk, EnableCredentialOk, SoundJob,
                    Credentials
<1>6. CASE confirmed' = confirmed
  BY <1>6
<1> QED
  BY <1>1, <1>3, <1>4, <1>5, <1>6, StepIs DEF CheckNew, BeginRegister, ReadRecovery, BeginComplete

-----------------------------------------------------------------------------
(* Nobody is locked out.                                                      *)

\* Nobody else uses a password, and a rotation goes to one that was never used: passwords
\* are generated.  Enabling the vault, and a recovery resumed, publish in place.
OwnPasswords ==
  /\ \A X \in sent' \ sent : X.kind = "credential" => \A e \in At(sent, X.addr) : e.acct = X.acct
  /\ \A c \in Client, p \in Password : CheckNew(c, p) => At(sent, p) = {}

\* All that was ever sent to an address is of one account.
OneOwner == \A e, f \in sent : e.addr = f.addr => e.acct = f.acct

\* Every verified credential stays in reach, or has been retired.
ConfirmedKept ==
  \A C \in confirmed : C.kind = "credential" =>
    Durable(C) \/ \E t \in Tombstones : t.addr = C.addr

\* C's password opens the account.
Live(C) == Durable(C) /\ \A t \in Tombstones : t.addr # C.addr

\* Passwords can be ranked so that rotations lead upwards: above every retired one there is
\* one of the account that opens it.
Ranks(rank) ==
  /\ \A c \in Client : job[c].op = "change" /\ job[c].pc = "verify_credential" =>
       rank[job[c].base.addr] < rank[job[c].pub.addr]
  /\ \A t \in Tombstones : \E C \in Credentials :
       C.acct = t.acct /\ rank[t.addr] < rank[C.addr] /\ Live(C)

Chained == \E rank \in [Address -> Nat] : Ranks(rank)

Unlocked == OneOwner /\ ConfirmedKept /\ Chained

\* Initially nothing is retired.
LEMMA NothingIsRetiredInitially == Init => Tombstones = {}
<1> SUFFICES ASSUME Init, NEW t \in Tombstones
             PROVE  FALSE
  OBVIOUS
<1>1. PICK x \in Registered : t = InitialRecovery(x) \/ t = InitialCredential(x)
  BY DEF Init, InitialEvents, Tombstones
<1> QED
  BY <1>1 DEF Tombstones, InitialRecovery, InitialCredential, Recovery, Credential

\* What exists initially was verified.
LEMMA UnlockedInitially == Init => Unlocked
<1> SUFFICES ASSUME Init
             PROVE  Unlocked
  OBVIOUS
<1>1. OneOwner
  BY InitialEventsAreSound DEF Init, OneOwner
<1>2. ConfirmedKept
  BY ReplicatedIsDurable DEF Init, ConfirmedKept
<1>3. Tombstones = {}
  BY NothingIsRetiredInitially
<1>4. Ranks([x \in Address |-> 0])
  BY <1>3 DEF Ranks, Init, IdleJob, Flow
<1> QED
  BY <1>1, <1>2, <1>4 DEF Unlocked, Chained

\* One owner per address.
LEMMA OneOwnerIsInductive ==
  ASSUME Inv, OneOwner, [Next]_vars, OwnPasswords \/ UNCHANGED vars
  PROVE  OneOwner'
<1>1. ASSUME NEW X \in sent' \ sent, NEW e \in sent, e.addr = X.addr
      PROVE  e.acct = X.acct
  <2>1. Sends(X)
    BY NewEventsAreSent
  <2>2. CASE X.kind = "recovery"
    <3>1. X.addr \in Account /\ X.acct = X.addr
      BY <2>1, <2>2 DEF Sends, SoundEvent
    <3>2. e.acct = e.addr
      BY <1>1, <3>1 DEF Inv, SoundEvent
    <3> QED
      BY <1>1, <3>1, <3>2
  <2>3. CASE X.kind = "credential"
    BY <1>1, <2>3 DEF OwnPasswords, At, vars
  <2>4. CASE X.kind = "tombstone"
    <3>1. PICK c \in Client : /\ ConfirmChange(c) /\ X.addr = job[c].base.addr
                              /\ X.acct = job[c].base.acct
      BY <2>4, OnlyRotationsRetire
    <3>2. job[c].base \in sent
      BY <3>1, FlowIsTyped DEF SoundJob, ConfirmChange, Credentials
    <3> QED
      BY <1>1, <3>1, <3>2 DEF OneOwner
  <2> QED
    BY <2>1, <2>2, <2>3, <2>4 DEF Sends, NewRecovery, NewCredential, NewTombstone
<1> QED
  BY <1>1, OneNewEvent DEF OneOwner

\* What is verified is kept.
LEMMA ConfirmedKeptIsInductive ==
  ASSUME Inv, ConfirmedKept, [Next]_vars
  PROVE  ConfirmedKept'
<1> SUFFICES ASSUME NEW C \in confirmed', C.kind = "credential", \A t \in Tombstones' : t.addr # C.addr
             PROVE  Durable(C)'
  BY DEF ConfirmedKept
<1>1. \A t \in Tombstones : t.addr # C.addr
  BY NewEventsAreSent DEF Tombstones
<1>2. C \in sent /\ Durable(C)
  <2>1. CASE C \in confirmed
    BY <1>1, <2>1 DEF ConfirmedKept, Inv, TypeOK
  <2>2. CASE C \notin confirmed
    BY <2>2, OnlyVerifiedIsConfirmed, ReplicatedIsDurable DEF CanVerify
  <2> QED
    BY <2>1, <2>2
<1> QED
  BY <1>1, <1>2, DurableStays

\* A password opens the account until it is retired.
LEMMA LiveStays ==
  ASSUME Inv, [Next]_vars, NEW C \in Credentials, Live(C), \A t \in Tombstones' : t.addr # C.addr
  PROVE  C \in Credentials' /\ Live(C)'
BY DurableStays, NewEventsAreSent DEF Live, Credentials

\* A new password is ranked above the one it takes over from.
LEMMA RotationKeepsChain ==
  ASSUME Inv, Chained, [Next]_vars, NEW c \in Client, NEW p \in Password, CheckNew(c, p),
         At(sent, p) = {}
  PROVE  Chained'
<1>1. PICK rank \in [Address -> Nat] : Ranks(rank)
  BY DEF Chained
<1>b. PICK b : b = job[c].base.addr
  OBVIOUS
<1>n. PICK n : n = [rank EXCEPT ![p] = rank[b] + 1]
  OBVIOUS
<1>2. job[c].base \in sent /\ b \in Address /\ p \in Address
  BY <1>b, FlowIsTyped DEF SoundJob, CheckNew, Event, Address
<1>3. n \in [Address -> Nat]
  BY <1>n, <1>2
<1>4. ASSUME NEW e \in sent
      PROVE  n[e.addr] = rank[e.addr] /\ e.addr # p
  BY <1>n, <1>4 DEF At, Inv, TypeOK, Event
<1>5. n[p] = rank[b] + 1 /\ n[b] = rank[b] /\ rank[b] \in Nat
  BY <1>b, <1>n, <1>2, <1>4
<1>6. PICK X : X.kind = "credential" /\ X.addr = p /\ sent' = sent \cup {X}
               /\ job' = [job EXCEPT ![c].pc = "verify_credential", ![c].addr = p, ![c].pub = X]
  BY DEF CheckNew, Credential
<1>7. job[c] \in Job /\ job'[c].base.addr = b /\ job'[c].pub.addr = p
  BY <1>b, <1>6, FlowIsTyped DEF Inv, TypeOK, Job
<1>8. ASSUME NEW d \in Client, job'[d].op = "change", job'[d].pc = "verify_credential"
      PROVE  n[job'[d].base.addr] < n[job'[d].pub.addr]
  <2>1. CASE d = c
    BY <1>5, <1>7, <2>1
  <2>2. CASE d # c
    <3>1. job'[d] = job[d]
      BY <1>6, <2>2 DEF Inv, TypeOK
    <3>2. job[d].base \in sent /\ job[d].pub \in sent
      BY <1>8, <3>1, FlowIsTyped DEF SoundJob, Credentials
    <3> QED
      BY <1>1, <1>4, <1>8, <3>1, <3>2 DEF Ranks
  <2> QED
    BY <2>1, <2>2
<1>9. Tombstones' = Tombstones
  BY <1>6 DEF Tombstones
<1>10. ASSUME NEW t \in Tombstones'
       PROVE  \E C \in Credentials' : C.acct = t.acct /\ n[t.addr] < n[C.addr] /\ Live(C)'
  <2>1. PICK C \in Credentials : C.acct = t.acct /\ rank[t.addr] < rank[C.addr] /\ Live(C)
    BY <1>1, <1>9 DEF Ranks
  <2>2. C \in Credentials' /\ Live(C)'
    BY <1>9, <2>1, LiveStays DEF Live
  <2>3. t \in sent /\ C \in sent
    BY <1>9 DEF Tombstones, Credentials
  <2> QED
    BY <1>4, <2>1, <2>2, <2>3
<1>11. Ranks(n)'
  BY <1>8, <1>10 DEF Ranks
<1> QED
  BY <1>3, <1>11 DEF Chained

\* Retiring a password leaves one above it.
LEMMA RetiringKeepsChain ==
  ASSUME Inv, OneOwner, [Next]_vars, NEW rank \in [Address -> Nat], Ranks(rank),
         NEW X \in sent' \ sent, X.kind = "tombstone", NEW t \in Tombstones'
  PROVE  \E C \in Credentials' : C.acct = t.acct /\ rank[t.addr] < rank[C.addr] /\ Live(C)'
<1>1. PICK c \in Client : /\ ConfirmChange(c)
                          /\ X.addr = job[c].base.addr
                          /\ X.acct = job[c].base.acct
  BY OnlyRotationsRetire
<1>2. PICK B, P : B = job[c].base /\ P = job[c].pub
  OBVIOUS
<1>3. /\ B \in Credentials /\ B \in sent /\ P \in Credentials /\ P \in sent
      /\ B.acct = P.acct /\ rank[B.addr] < rank[P.addr] /\ CanVerify(P)
      /\ X.addr = B.addr /\ X.acct = B.acct
  BY <1>1, <1>2, FlowIsTyped DEF SoundJob, ConfirmChange, MayRetire, Ranks
<1>4. Tombstones' = Tombstones \cup {X}
  BY NewEventsAreSent, OneNewEvent DEF Tombstones
<1>5. \A e \in sent : rank[e.addr] \in Nat
  BY DEF Inv, TypeOK, Event
<1>6. PICK W \in Credentials : W.acct = B.acct /\ rank[B.addr] < rank[W.addr] /\ Live(W)
  <2>1. CASE \A u \in Tombstones : u.addr # P.addr
    BY <1>3, <2>1, ReplicatedIsDurable DEF Live, CanVerify
  <2>2. CASE \E u \in Tombstones : u.addr = P.addr
    <3>1. PICK u \in Tombstones : u.addr = P.addr
      BY <2>2
    <3>2. PICK W \in Credentials : W.acct = u.acct /\ rank[u.addr] < rank[W.addr] /\ Live(W)
      BY <1>1 DEF Ranks
    <3>3. u \in sent /\ W \in sent
      BY DEF Tombstones, Credentials
    <3>4. u.acct = P.acct
      BY <1>3, <3>1, <3>3 DEF OneOwner
    <3>5. rank[B.addr] < rank[W.addr]
      BY <1>3, <1>5, <3>1, <3>2, <3>3
    <3> QED
      BY <1>3, <3>2, <3>4, <3>5
  <2> QED
    BY <2>1, <2>2
<1>7. W \in sent /\ W.addr # B.addr
  BY <1>3, <1>5, <1>6 DEF Credentials
<1>8. W \in Credentials' /\ Live(W)'
  BY <1>3, <1>4, <1>6, <1>7, LiveStays DEF Live
<1>9. CASE t = X
  BY <1>3, <1>6, <1>8, <1>9
<1>10. CASE t \in Tombstones
  <2>1. PICK C \in Credentials : C.acct = t.acct /\ rank[t.addr] < rank[C.addr] /\ Live(C)
    BY <1>10 DEF Ranks
  <2>2. CASE C.addr = B.addr
    <3>1. C \in sent /\ t \in sent
      BY <1>10 DEF Credentials, Tombstones
    <3>2. C.acct = B.acct
      BY <1>3, <2>2, <3>1 DEF OneOwner
    <3>3. rank[t.addr] < rank[W.addr]
      BY <1>3, <1>5, <1>6, <1>7, <2>1, <2>2, <3>1
    <3> QED
      BY <1>6, <1>8, <2>1, <3>2, <3>3
  <2>3. CASE C.addr # B.addr
    BY <1>3, <1>4, <2>1, <2>3, LiveStays DEF Live
  <2> QED
    BY <2>2, <2>3
<1> QED
  BY <1>4, <1>9, <1>10

\* Every step keeps a password above every retired one.
LEMMA ChainIsInductive ==
  ASSUME Inv, OneOwner, Chained, [Next]_vars, OwnPasswords \/ UNCHANGED vars
  PROVE  Chained'
<1>1. CASE \E c \in Client, p \in Password : CheckNew(c, p) /\ At(sent, p) = {}
  BY <1>1, RotationKeepsChain
<1>2. CASE \A c \in Client, p \in Password : ~ (CheckNew(c, p) /\ At(sent, p) = {})
  <2>1. PICK rank \in [Address -> Nat] : Ranks(rank)
    BY DEF Chained
  <2>2. ASSUME NEW d \in Client, job'[d].op = "change", job'[d].pc = "verify_credential"
        PROVE  rank[job'[d].base.addr] < rank[job'[d].pub.addr]
    <3>1. job'[d] = job[d]
      BY <1>2, <2>2, OnlyCheckNewRotates DEF OwnPasswords, vars
    <3> QED
      BY <2>1, <2>2, <3>1 DEF Ranks
  <2>3. ASSUME NEW t \in Tombstones'
        PROVE  \E C \in Credentials' : C.acct = t.acct /\ rank[t.addr] < rank[C.addr] /\ Live(C)'
    <3>1. CASE \E X \in sent' \ sent : X.kind = "tombstone"
      BY <2>1, <3>1, RetiringKeepsChain
    <3>2. CASE \A X \in sent' \ sent : X.kind # "tombstone"
      <4>1. Tombstones' = Tombstones
        BY <3>2, NewEventsAreSent DEF Tombstones
      <4>2. PICK C \in Credentials : C.acct = t.acct /\ rank[t.addr] < rank[C.addr] /\ Live(C)
        BY <2>1, <4>1 DEF Ranks
      <4>3. C \in Credentials' /\ Live(C)'
        BY <4>1, <4>2, LiveStays DEF Live
      <4> QED
        BY <4>2, <4>3
    <3> QED
      BY <3>1, <3>2
  <2>4. Ranks(rank)'
    BY <2>2, <2>3 DEF Ranks
  <2> QED
    BY <2>4 DEF Chained
<1> QED
  BY <1>1, <1>2

\* A relay that an event of a password in use is in reach on opens the account.
LEMMA LiveWorks ==
  ASSUME Inv, OneOwner, NEW C \in Credentials, Live(C)
  PROVE  C.addr \in Password /\ Works(C.addr, C.acct)
<1>1. C \in sent /\ C \in Event /\ C.kind = "credential" /\ C.addr \in Password
  BY DEF Credentials, Inv, TypeOK, Event, Address, SoundEvent
<1> DEFINE R == {r \in Relay : Opens(r, C.addr, C.acct)}
<1>2. Reached(C) \subseteq R
  <2> SUFFICES ASSUME NEW r \in Reached(C)
               PROVE  Opens(r, C.addr, C.acct) /\ r \in Relay
    OBVIOUS
  <2>1. PICK f \in At(held[r], C.addr) : TRUE
    BY DEF Reached
  <2>2. r \in Relay /\ f \in sent /\ f.addr = C.addr /\ f \in Event
    BY <2>1 DEF Reached, At, Inv, TypeOK
  <2>3. f.kind # "tombstone"
    BY <2>2 DEF Live, Tombstones
  <2>4. f.kind # "recovery"
    BY <1>1, <2>2, AccountAssumption DEF Inv, SoundEvent
  <2>5. f.kind = "credential"
    BY <2>2, <2>3, <2>4 DEF Event, Kind
  <2>6. f.acct = C.acct
    BY <1>1, <2>2 DEF OneOwner
  <2> QED
    BY <2>1, <2>2, <2>5, <2>6 DEF Opens, Live
<1>3. IsFiniteSet(R) /\ IsFiniteSet(Reached(C))
  BY RelayAssumption, FS_Subset DEF Reached
<1>4. /\ Cardinality(Reached(C)) <= Cardinality(R)
      /\ Cardinality(R) \in Nat /\ Cardinality(Reached(C)) \in Nat
  BY <1>2, <1>3, FS_Subset, FS_CardinalityType
<1> QED
  BY <1>1, <1>4, RelayAssumption DEF Works, Live, Durable

\* Who has a password has one that works.
LEMMA UnlockedIsNotLockedOut == Inv /\ Unlocked => NeverLockedOut
<1> SUFFICES ASSUME Inv, Unlocked, NEW a \in Account, PhraseKnown(a)
             PROVE  \E p \in Password : Works(p, a)
  BY DEF NeverLockedOut
<1>1. PICK e \in confirmed : e.kind = "credential" /\ e.acct = a
  BY DEF PhraseKnown
<1>2. e \in sent /\ e \in Credentials
  BY <1>1 DEF Inv, TypeOK, Credentials
<1>3. \E C \in Credentials : C.acct = a /\ Live(C)
  <2>1. CASE \A t \in Tombstones : t.addr # e.addr
    BY <1>1, <1>2, <2>1 DEF Unlocked, ConfirmedKept, Live
  <2>2. CASE \E t \in Tombstones : t.addr = e.addr
    <3>1. PICK t \in Tombstones : t.addr = e.addr
      BY <2>2
    <3>2. t.acct = a
      BY <1>1, <1>2, <3>1 DEF Unlocked, OneOwner, Tombstones
    <3> QED
      BY <3>2 DEF Unlocked, Chained, Ranks
  <2> QED
    BY <2>1, <2>2
<1> QED
  BY <1>3, LiveWorks DEF Unlocked

\* Where passwords are generated, so that nobody takes another's and nobody rotates onto a
\* used one, no interleaving of flows, failures, crashes, deletions and late deliveries
\* leaves an account that was once usable without a password that opens it.
THEOREM NobodyIsLockedOut == Spec /\ [][OwnPasswords]_vars => []NeverLockedOut
<1>1. Inv /\ Unlocked /\ [Next]_vars /\ [OwnPasswords]_vars => Unlocked'
  <2> SUFFICES ASSUME Inv, Unlocked, [Next]_vars, OwnPasswords \/ UNCHANGED vars
               PROVE  Unlocked'
    OBVIOUS
  <2> QED
    BY OneOwnerIsInductive, ConfirmedKeptIsInductive, ChainIsInductive DEF Unlocked
<1> QED
  BY <1>1, InvHolds, UnlockedInitially, UnlockedIsNotLockedOut, PTL DEF Spec
=============================================================================
