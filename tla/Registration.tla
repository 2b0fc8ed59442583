---------------------------- MODULE Registration ----------------------------
(***************************************************************************)
(* registerAccount (account/create.ts): refuse an occupied locator, publish  *)
(* the recovery capsule, and only when that is verified publish the          *)
(* credential capsule that embeds it.                                        *)
(***************************************************************************)
EXTENDS AccountState

\* Mutant: an unanswered collision read passes for an empty one.
FreeWithoutQuorum(p) == \E Q \in SUBSET Relay : Answers(Q, p) = {}

\* The collision guard shared by every flow that claims a locator: a quorum
\* answered and none of the answers is an event at p.
LooksFree(p) == \E Q \in SUBSET Relay : IsQuorum(Q) /\ Answers(Q, p) = {}

\* A fresh phrase and account id; the recovery capsule goes first.
BeginRegister(c, p, a, t) ==
  /\ Idle(c)
  /\ StartWrite("register", t)
  /\ \A e \in sent : e.acct # a
  /\ LooksFree(p)
  /\ \E i \in FreshIds(a, t) :
       LET R == Recovery(a, t, i, 0, NoLink, "minted")
       IN  /\ sent' = sent \cup {R}
           /\ job' = [job EXCEPT ![c] = Flow("register", "verify_recovery", p, t, NoEvent, R)]
  /\ UNCHANGED <<held, hwm, recovered, confirmed>>

\* Mutant: publish the credential without waiting for the recovery verdict.
RegisterRecoveryUnverified(c) ==
  LET j == job[c] IN
  /\ j.op = "register" /\ j.pc = "verify_recovery"
  /\ \E i \in FreshIds(j.addr, j.now) :
       LET C == Credential(j.addr, j.now, i, j.pub.acct, 0, EventId(j.pub), j.pub.root)
       IN  /\ sent' = sent \cup {C}
           /\ job' = [job EXCEPT ![c].pc = "verify_credential", ![c].pub = C]
  /\ UNCHANGED <<held, hwm, recovered, confirmed, writes>>

\* The recovery capsule is verified: build and publish the credential.
RegisterRecoveryOk(c) ==
  LET j == job[c] IN
  /\ j.op = "register" /\ j.pc = "verify_recovery"
  /\ CanVerify(j.pub)
  /\ \E i \in FreshIds(j.addr, j.now) :
       LET C == Credential(j.addr, j.now, i, j.pub.acct, 0, EventId(j.pub), j.pub.root)
       IN  /\ sent' = sent \cup {C}
           /\ job' = [job EXCEPT ![c].pc = "verify_credential", ![c].pub = C]
  /\ confirmed' = confirmed \cup {j.pub}
  /\ UNCHANGED <<held, hwm, recovered, writes>>

\* The credential is verified too: registration returns the phrase.
RegisterCredentialOk(c) ==
  /\ job[c].op = "register" /\ job[c].pc = "verify_credential"
  /\ CanVerify(job[c].pub)
  /\ confirmed' = confirmed \cup {job[c].pub}
  /\ job' = [job EXCEPT ![c] = IdleJob]
  /\ UNCHANGED <<sent, held, hwm, recovered, writes>>

Register(c) ==
  \/ \E p \in Password, a \in Account, t \in Clock : BeginRegister(c, p, a, t)
  \/ RegisterRecoveryOk(c)
  \/ RegisterCredentialOk(c)
=============================================================================
