----------------------------- MODULE PhraseFlows ----------------------------
(***************************************************************************)
(* The flows that need the recovery phrase: recoverWithPhrase and            *)
(* completeRecoveryWithNewCredentials (account/recover.ts), and              *)
(* enableConnectionVault (account/enableVault.ts).                           *)
(***************************************************************************)
EXTENDS PasswordFlows

\* registerAccount hands out the phrase only after the credential is verified.
PhraseKnown(a) == \E e \in confirmed : e.kind = "credential" /\ e.acct = a

\* The capsules a quorum read of the recovery address may select, and those
\* selected with recovery export O, which also stands in for a missing quorum.
RecoveryReads(a) == UNION {Best(Answers(Q, a)) : Q \in {R \in SUBSET Relay : IsQuorum(R)}}

ExportReads(a, O) == UNION {Best(Answers(Q, a) \cup O) : Q \in SUBSET Relay}

\* An export holds the recovery event of some session: one that was embedded
\* in a credential.
Exports(a) == {{e} : e \in {f \in Recoveries : /\ f.acct = a
                                               /\ \E C \in Credentials : C.link = EventId(f)}}

Recover(c, a) ==
  /\ Idle(c)
  /\ "recover" \in Ops
  /\ PhraseKnown(a)
  /\ \E e \in RecoveryReads(a) \cup
                 (IF "export" \in Ops THEN UNION {ExportReads(a, O) : O \in Exports(a)} ELSE {}) :
       recovered' = [recovered EXCEPT ![c] = e]
  /\ UNCHANGED <<sent, held, hwm, job, confirmed, writes>>

-----------------------------------------------------------------------------
(* completeRecoveryWithNewCredentials                                        *)

\* The capsule found at the new locator is this recovery's own partial write:
\* same account, generation 0, embedding the current recovery event.
Resumes(e, rec) == e.acct = rec.acct /\ e.gen = 0 /\ e.link = EventId(rec)

\* What a collision read at p may find that lets the flow go on: nothing
\* (NoEvent), or a partial write of its own.
Claimable(p, rec) ==
  LET reads == {Answers(Q, p) : Q \in {R \in SUBSET Relay : IsQuorum(R)}}
  IN  {NoEvent : C \in {D \in reads : D = {}}}
        \cup {e \in UNION {Best(C) : C \in reads} : Resumes(e, rec)}

\* The refreshed recovery events that may replace rec.
Refreshed(rec, t, root) ==
  LET at == NextCreatedAt(rec.at, t)
  IN  {Recovery(rec.addr, at, i, rec.gen + 1, EventId(rec), root) : i \in FreshIds(rec.addr, at)}

\* The collision guard comes before the recovery chain is touched.
BeginComplete(c, p, t) ==
  /\ Idle(c)
  /\ recovered[c] # NoEvent
  /\ StartWrite("complete", t)
  /\ \E b \in Claimable(p, recovered[c]), R \in Refreshed(recovered[c], t, recovered[c].root) :
       /\ sent' = sent \cup {R}
       /\ job' = [job EXCEPT ![c] = Flow("complete", "verify_recovery", p, t, b, R)]
  /\ UNCHANGED <<held, hwm, recovered, confirmed>>

\* Mutant: the identity held in memory stays on the replaced recovery event.
AdvanceNothing(c, R) == recovered

\* A retry must chain from the recovery event that is now authoritative.
Advance(c, R) == [recovered EXCEPT ![c] = R]

\* The refreshed capsule is verified: publish the credential, over a partial
\* one if there is one.
CompleteRecoveryOk(c) ==
  LET j  == job[c]
      at == IF j.base = NoEvent THEN j.now ELSE NextCreatedAt(j.base.at, j.now)
  IN
  /\ j.op = "complete" /\ j.pc = "verify_recovery"
  /\ CanVerify(j.pub)
  /\ \E i \in FreshIds(j.addr, at) :
       LET C == Credential(j.addr, at, i, j.pub.acct, 0, EventId(j.pub), j.pub.root)
       IN  /\ sent' = sent \cup {C}
           /\ job' = [job EXCEPT ![c].pc = "verify_credential", ![c].pub = C]
  /\ recovered' = Advance(c, j.pub)
  /\ confirmed' = confirmed \cup {j.pub}
  /\ UNCHANGED <<held, hwm, writes>>

CompleteCredentialOk(c) ==
  /\ job[c].op = "complete" /\ job[c].pc = "verify_credential"
  /\ CanVerify(job[c].pub)
  /\ confirmed' = confirmed \cup {job[c].pub}
  /\ job' = [job EXCEPT ![c].pc = "reset"]
  /\ UNCHANGED <<sent, held, hwm, recovered, writes>>

\* resetHighWaterMark: the account restarts at generation 0.
ResetMark(c) == [hwm EXCEPT ![StoreOf[c]][job[c].pub.acct] = 0]

Reset(c) ==
  /\ job[c].pc = "reset"
  /\ hwm' = ResetMark(c)
  /\ job' = [job EXCEPT ![c] = IdleJob]
  /\ recovered' = [recovered EXCEPT ![c] = NoEvent]
  /\ UNCHANGED <<sent, held, confirmed, writes>>

-----------------------------------------------------------------------------
(* enableConnectionVault                                                     *)

\* Read the credential with the password.
BeginEnable(c, p, t) ==
  /\ Idle(c)
  /\ StartWrite("enable", t)
  /\ \E e \in PasswordReads(p) :
       /\ PhraseKnown(e.acct)
       /\ job' = [job EXCEPT ![c] = Flow("enable", "read_recovery", p, t, e, NoEvent)]
  /\ UNCHANGED <<sent, held, hwm, recovered, confirmed>>

\* Mutant: a retry that finds the roots in the recovery capsule alone draws new ones.
VaultRootRedrawn(f) == IF f.root # "none" THEN "minted" ELSE "derived"

\* Reuse the roots the recovery capsule already carries; a legacy account's are
\* derived from its phrase, so every attempt derives the same ones.
VaultRoot(f) == IF f.root # "none" THEN f.root ELSE "derived"

\* Read the recovery capsule and refresh it first.  A credential that has a root
\* needs nothing when the recovery capsule read has it too; when it has none (a
\* stale copy) the code throws, for want of the sudo key only it carries.
ReadRecovery(c) ==
  LET j == job[c] IN
  /\ j.pc = "read_recovery"
  /\ j.base.root = "none"
  /\ \E f \in RecoveryReads(j.base.acct) : \E R \in Refreshed(f, j.now, VaultRoot(f)) :
       /\ sent' = sent \cup {R}
       /\ job' = [job EXCEPT ![c].pc = "verify_recovery", ![c].pub = R]
  /\ UNCHANGED <<held, hwm, recovered, confirmed, writes>>

\* The recovery capsule carries the roots: now the credential, in place.
EnableRecoveryOk(c) ==
  LET j  == job[c]
      at == NextCreatedAt(j.base.at, j.now)
  IN
  /\ j.op = "enable" /\ j.pc = "verify_recovery"
  /\ CanVerify(j.pub)
  /\ \E i \in FreshIds(j.addr, at) :
       LET C == Credential(j.addr, at, i, j.base.acct, j.base.gen + 1, EventId(j.pub), j.pub.root)
       IN  /\ sent' = sent \cup {C}
           /\ job' = [job EXCEPT ![c].pc = "verify_credential", ![c].pub = C]
  /\ confirmed' = confirmed \cup {j.pub}
  /\ UNCHANGED <<held, hwm, recovered, writes>>

EnableCredentialOk(c) ==
  /\ job[c].op = "enable" /\ job[c].pc = "verify_credential"
  /\ CanVerify(job[c].pub)
  /\ confirmed' = confirmed \cup {job[c].pub}
  /\ job' = [job EXCEPT ![c] = IdleJob]
  /\ UNCHANGED <<sent, held, hwm, recovered, writes>>

-----------------------------------------------------------------------------
RecoverAccount(c) ==
  \/ \E a \in Account : Recover(c, a)
  \/ \E p \in Password, t \in Clock : BeginComplete(c, p, t)
  \/ CompleteRecoveryOk(c)
  \/ CompleteCredentialOk(c)
  \/ Reset(c)

EnableVault(c) ==
  \/ \E p \in Password, t \in Clock : BeginEnable(c, p, t)
  \/ ReadRecovery(c)
  \/ EnableRecoveryOk(c)
  \/ EnableCredentialOk(c)
=============================================================================
