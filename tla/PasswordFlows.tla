---------------------------- MODULE PasswordFlows ---------------------------
(***************************************************************************)
(* loginWithPassword (account/login.ts) and changePassword                   *)
(* (account/changePassword.ts).                                              *)
(***************************************************************************)
EXTENDS Registration

CONSTANTS
  Acknowledge,  \* the values of acknowledgeRollback a run allows
  Reuse         \* may a caller rotate onto the old password, or onto one it
                \* rotated away?  The library lets it; the widget generates
                \* every new password

\* Rollback check: a capsule older than the store's mark is refused unless the
\* user acknowledged it.
NotRolledBack(c, e, ack) == e.gen >= Mark(c, e.acct) \/ ack

\* The capsules a password read at p may select.
PasswordReads(p) == UNION {Best(Answers(Q, p)) : Q \in {R \in SUBSET Relay : IsQuorum(R)}}

-----------------------------------------------------------------------------
BeginLogin(c, p, ack) ==
  /\ Idle(c)
  /\ "login" \in Ops
  /\ \E e \in PasswordReads(p) :
       /\ NotRolledBack(c, e, ack)
       /\ job' = [job EXCEPT ![c] = Flow("login", "raise_get", p, 0, NoEvent, e)]
  /\ UNCHANGED <<sent, held, hwm, recovered, confirmed, writes>>

-----------------------------------------------------------------------------
\* Read the capsule of the old password.
BeginChange(c, p, t, ack) ==
  /\ Idle(c)
  /\ StartWrite("change", t)
  /\ \E e \in PasswordReads(p) :
       /\ NotRolledBack(c, e, ack)
       /\ job' = [job EXCEPT ![c] = Flow("change", "check_new", NoEvent, t, e, NoEvent)]
  /\ UNCHANGED <<sent, held, hwm, recovered, confirmed>>

\* Nothing may be at the new locator; publish the next generation there.
CheckNew(c, p) ==
  LET j == job[c] IN
  /\ j.pc = "check_new"
  /\ Reuse \/ (p # j.base.addr /\ \A t \in Tombstones : t.addr # p)
  /\ LooksFree(p)
  /\ \E i \in FreshIds(p, j.now) :
       LET C == Credential(p, j.now, i, j.base.acct, j.base.gen + 1, j.base.link, j.base.root)
       IN  /\ sent' = sent \cup {C}
           /\ job' = [job EXCEPT ![c].pc = "verify_credential", ![c].addr = p, ![c].pub = C]
  /\ UNCHANGED <<held, hwm, recovered, confirmed, writes>>

\* Mutant: the tombstone goes out before the new capsule is known to be durable.
CanVerifyAlways(e) == TRUE

\* May the old capsule be destroyed?  Only when the new one is verified.
MayRetire(e) == CanVerify(e)

\* The new capsule is verified: tombstone the old one and request its deletion.
ConfirmChange(c) ==
  LET j == job[c] IN
  /\ j.op = "change" /\ j.pc = "verify_credential"
  /\ MayRetire(j.pub)
  /\ LET at == NextCreatedAt(j.base.at, j.now)
     IN  \E i \in FreshIds(j.base.addr, at) :
           sent' = sent \cup {Tombstone(j.base, at, i)}
  /\ confirmed' = confirmed \cup {j.pub}
  /\ job' = [job EXCEPT ![c].pc = "raise_get"]
  /\ UNCHANGED <<held, hwm, recovered, writes>>

Login(c) == \E p \in Password, ack \in Acknowledge : BeginLogin(c, p, ack)

ChangePassword(c) ==
  \/ \E p \in Password, t \in Clock, ack \in Acknowledge : BeginChange(c, p, t, ack)
  \/ \E p \in Password : CheckNew(c, p)
  \/ ConfirmChange(c)
=============================================================================
