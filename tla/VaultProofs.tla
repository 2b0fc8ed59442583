----------------------------- MODULE VaultProofs -----------------------------
(***************************************************************************)
(* What holds of the connection records for any relays, clients and          *)
(* connections: the types; where every store serves one worker, that no      *)
(* listing goes back behind an earlier one; that the last verified edit of a  *)
(* connection stays in reach; that a read answered by enough relays misses   *)
(* none; and that no worker publishes an edit behind the ones it has read.   *)
(***************************************************************************)
EXTENDS VaultSync, FiniteSetTheorems, WellFoundedInduction, TLAPS

\* What a worker action has in hand was broadcast, and is there when it is needed.
SoundJob(c) ==
  /\ job[c].fetched \subseteq sent
  /\ job[c].found \subseteq sent
  /\ job[c].cur \in sent \cup {NoEvent}
  /\ job[c].read \in sent \cup {NoEvent}
  /\ job[c].pub \in sent \cup {NoEvent}
  /\ job[c].known \subseteq sent
  /\ job[c].pc \in {"migrate_set", "migrate_delete", "raise_get", "raise_set"} =>
       job[c].cur # NoEvent
  /\ job[c].pc \in {"migrate_set", "migrate_delete"} =>
       job[c].read # NoEvent /\ job[c].read.addr = job[c].cur.addr
  /\ job[c].pc = "verify" => job[c].pub # NoEvent

Inv == TypeOK /\ \A c \in Client : SoundJob(c)

\* A store of marks, each of its own connection and of a record that exists.
Marks(S) == {m \in [Store -> [Conn -> S \cup {NoEvent}]] :
               \A s \in Store, k \in Conn : m[s][k] # NoEvent => m[s][k].addr = k}

-----------------------------------------------------------------------------
(* The operators.                                                             *)

\* The replacement order is total and transitive on the records of a connection.
LEMMA WinsIsAnOrder ==
  ASSUME NEW e \in Record, NEW f \in Record, NEW g \in Record
  PROVE  /\ Wins(e, f) => ~ Wins(f, e)
         /\ ~ Wins(e, f) /\ ~ Wins(f, g) => ~ Wins(e, g)
BY DEF Wins, Record

\* The ids a hash may stand for are integers.
LEMMA FreshIdsAreInts ==
  ASSUME TypeOK, NEW a, NEW t
  PROVE  FreshIds(a, t) \subseteq Int
<1>1. IsFiniteSet(At(sent, a))
  BY FS_Subset DEF TypeOK, At
<1>2. Cardinality(At(sent, a)) \in Nat
  BY <1>1, FS_CardinalityType
<1> QED
  BY <1>2 DEF FreshIds

\* A worker without an action.
LEMMA IdleJobIsSound ==
  /\ IdleJob \in Job
  /\ IdleJob.found = {} /\ IdleJob.fetched = {} /\ IdleJob.pc = "idle"
  /\ IdleJob.cur = NoEvent /\ IdleJob.read = NoEvent /\ IdleJob.pub = NoEvent
  /\ IdleJob.known = {}
BY DEF IdleJob, Job, PC, OpName

\* Writing a mark.
LEMMA MarkIsTyped ==
  ASSUME NEW S, NEW m \in Marks(S), NEW s \in Store, NEW k \in Conn,
         NEW v \in S \cup {NoEvent}, v # NoEvent => v.addr = k
  PROVE  /\ [m EXCEPT ![s][k] = v] \in Marks(S)
         /\ [m EXCEPT ![s][k] = v][s][k] = v
         /\ \A t \in Store, l \in Conn : t # s \/ l # k => [m EXCEPT ![s][k] = v][t][l] = m[t][l]
<1> DEFINE n == [m EXCEPT ![s][k] = v]
<1>1. n = [t \in Store |-> IF t = s THEN [m[s] EXCEPT ![k] = v] ELSE m[t]]
  BY DEF Marks
<1>2. m[s] \in [Conn -> S \cup {NoEvent}]
  BY DEF Marks
<1>3. [m[s] EXCEPT ![k] = v] \in [Conn -> S \cup {NoEvent}]
  BY <1>2
<1>4. n \in [Store -> [Conn -> S \cup {NoEvent}]]
  BY <1>1, <1>3 DEF Marks
<1>5. n[s][k] = v
  BY <1>1, <1>2
<1>6. ASSUME NEW t \in Store, NEW l \in Conn, t # s \/ l # k
      PROVE  n[t][l] = m[t][l]
  BY <1>1, <1>2, <1>6
<1>7. n \in Marks(S)
  BY <1>4, <1>5, <1>6 DEF Marks
<1> QED
  BY <1>5, <1>6, <1>7

\* What the invariant says of one client, unpacked.
LEMMA JobIsTyped ==
  ASSUME Inv, NEW c \in Client
  PROVE  /\ job[c] \in Job
         /\ SoundJob(c)
         /\ StoreOf[c] \in Store
         /\ sent \subseteq Record
         /\ mark \in Marks(sent)
         /\ legacy \in Marks(sent)
         /\ shown \in Marks(sent)
BY VaultAssumption DEF Inv, TypeOK, Marks

-----------------------------------------------------------------------------
(* What a step of client c may do.                                            *)

LocalStep(c) ==
  /\ held' = held
  /\ sent' = sent \/ \E X \in Record : sent' = sent \cup {X}
  /\ job' = [job EXCEPT ![c] = job'[c]]
  /\ job'[c] \in Job
  /\ SoundJob(c)'
  /\ mark' \in Marks(sent')
  /\ legacy' \in Marks(sent')
  /\ confirmed' \subseteq sent'
  /\ shown' \in Marks(sent')

\* Such a step keeps the invariant.
LEMMA LocalStepKeepsInv ==
  ASSUME Inv, NEW c \in Client, LocalStep(c)
  PROVE  Inv'
<1>1. sent \subseteq sent' /\ sent' \subseteq Record /\ IsFiniteSet(sent')
  <2>1. sent \subseteq Record /\ IsFiniteSet(sent)
    BY DEF Inv, TypeOK
  <2>2. CASE \E X \in Record : sent' = sent \cup {X}
    BY <2>1, <2>2, FS_AddElement
  <2> QED
    BY <2>1, <2>2 DEF LocalStep
<1>2. /\ held' \in [Relay -> SUBSET sent']
      /\ \A r \in Relay : \A e, f \in held'[r] : e.addr = f.addr => e = f
  BY <1>1 DEF LocalStep, Inv, TypeOK
<1>3. job' \in [Client -> Job]
  BY DEF LocalStep, Inv, TypeOK
<1>4. ASSUME NEW d \in Client, d # c
      PROVE  SoundJob(d)'
  <2>1. job'[d] = job[d] /\ SoundJob(d)
    BY <1>4 DEF LocalStep, Inv, TypeOK
  <2> QED
    BY <1>1, <2>1 DEF SoundJob
<1> QED
  BY <1>1, <1>2, <1>3, <1>4 DEF Inv, TypeOK, LocalStep, Marks

\* A step that leaves sent, held, marks, confirmed and shown alone.
LEMMA JobStep ==
  ASSUME Inv, NEW c \in Client, NEW j \in Job, job' = [job EXCEPT ![c] = j], SoundJob(c)',
         UNCHANGED <<sent, held, mark, legacy, confirmed, shown>>
  PROVE  LocalStep(c)
<1>1. job'[c] = j
  BY DEF Inv, TypeOK
<1> QED
  BY <1>1, JobIsTyped DEF LocalStep, Inv, TypeOK

-----------------------------------------------------------------------------
(* The clients' steps.                                                        *)

\* A read only returns records that exist.
LEMMA FetchStep ==
  ASSUME Inv, NEW c \in Client, NEW op \in OpName, NEW k \in Conn \cup {NoEvent}, Fetch(c, op, k)
  PROVE  LocalStep(c)
<1>1. PICK Q \in SUBSET Relay : job' = [job EXCEPT ![c] = Reading(op, k, Q)]
  BY DEF Fetch
<1> DEFINE j == Reading(op, k, Q)
<1>2. Newest(Q) \subseteq sent /\ confirmed \subseteq sent
  BY DEF Newest, Inv, TypeOK
<1>3. IsQuorum(Q) \in BOOLEAN
  BY DEF IsQuorum
<1>4. /\ j \in Job /\ j.fetched = Newest(Q) /\ j.found = {} /\ j.known \subseteq confirmed
      /\ j.pc = "check" /\ j.cur = NoEvent /\ j.read = NoEvent /\ j.pub = NoEvent
  BY <1>2, <1>3, IdleJobIsSound, JobIsTyped DEF Reading, Job, PC
<1> HIDE DEF j
<1>5. job'[c] = j
  BY <1>1 DEF Inv, TypeOK, j
<1>6. sent' = sent
  BY DEF Fetch
<1>7. SoundJob(c)'
  BY <1>2, <1>4, <1>5, <1>6 DEF SoundJob
<1> QED
  BY <1>1, <1>4, <1>7, JobStep DEF Fetch, j

\* Judging an event leaves a sound action.
LEMMA JudgedIsTyped ==
  ASSUME NEW j \in Job, NEW e \in Record, NEW m
  PROVE  /\ Judged(j, e, m) \in Job
         /\ Judged(j, e, m).fetched \subseteq j.fetched
         /\ Judged(j, e, m).found \subseteq j.found \cup {e}
         /\ Judged(j, e, m).cur \in {e, NoEvent}
         /\ Judged(j, e, m).read = NoEvent
         /\ Judged(j, e, m).pub = j.pub
         /\ Judged(j, e, m).known = j.known
         /\ Judged(j, e, m).pc \in {"check", "raise_get"}
         /\ Judged(j, e, m).pc = "raise_get" => Judged(j, e, m).cur = e
BY DEF Judged, Job, PC

\* Comparing an event with its mark.
LEMMA CheckStep ==
  ASSUME Inv, NEW c \in Client, Check(c)
  PROVE  LocalStep(c)
<1>1. PICK e \in job[c].fetched :
        job' = [job EXCEPT ![c] = Judged(@, e, Mark(c, e.addr))]
  BY DEF Check
<1>2. job[c] \in Job /\ SoundJob(c) /\ e \in sent /\ e \in Record
  BY JobIsTyped DEF SoundJob
<1> DEFINE j == Judged(job[c], e, Mark(c, e.addr))
<1>3. job' = [job EXCEPT ![c] = j] /\ job'[c] = j
  BY <1>1 DEF Inv, TypeOK
<1> HIDE DEF j
<1>4. /\ j \in Job /\ j.fetched \subseteq sent /\ j.found \subseteq sent
      /\ j.cur \in {e, NoEvent} /\ j.read = NoEvent /\ j.pub = job[c].pub
      /\ j.known = job[c].known
      /\ j.pc \in {"check", "raise_get"}
      /\ j.pc = "raise_get" => j.cur = e
  BY <1>2, JudgedIsTyped DEF SoundJob, j
<1>5. SoundJob(c)'
  BY <1>2, <1>3, <1>4, VaultAssumption DEF SoundJob, Check
<1> QED
  BY <1>3, <1>4, <1>5, JobStep DEF Check

\* Starting a migration.
LEMMA CheckLegacyStep ==
  ASSUME Inv, NEW c \in Client, CheckLegacy(c)
  PROVE  LocalStep(c)
<1>1. PICK e \in job[c].fetched :
        /\ Legacy(c, e.addr) # NoEvent
        /\ job' = [job EXCEPT ![c].pc = "migrate_set", ![c].cur = e, ![c].read = Legacy(c, e.addr)]
  BY DEF CheckLegacy
<1>2. job[c] \in Job /\ SoundJob(c) /\ e \in sent /\ e \in Record /\ StoreOf[c] \in Store
  BY JobIsTyped DEF SoundJob
<1>3. e.addr \in Conn
  BY <1>2 DEF Record
<1>4. Legacy(c, e.addr) \in sent /\ Legacy(c, e.addr).addr = e.addr /\ Legacy(c, e.addr) \in Record
  BY <1>1, <1>2, <1>3 DEF Legacy, Inv, TypeOK
<1> DEFINE j == [job[c] EXCEPT !.pc = "migrate_set", !.cur = e, !.read = Legacy(c, e.addr)]
<1>5. job' = [job EXCEPT ![c] = j] /\ job'[c] = j
  BY <1>1, <1>2 DEF Inv, TypeOK
<1>6. j \in Job
  BY <1>2, <1>4 DEF Job, PC
<1>7. SoundJob(c)'
  <2>1. /\ j.fetched = job[c].fetched /\ j.found = job[c].found /\ j.pub = job[c].pub
        /\ j.known = job[c].known
        /\ j.cur = e /\ j.read = Legacy(c, e.addr) /\ j.pc = "migrate_set"
    BY <1>2 DEF Job
  <2> QED
    BY <1>1, <1>2, <1>4, <1>5, <2>1, VaultAssumption DEF SoundJob, CheckLegacy
<1> QED
  BY <1>5, <1>6, <1>7, JobStep DEF CheckLegacy

\* Storing the migrated mark.
LEMMA MigrateSetStep ==
  ASSUME Inv, NEW c \in Client, MigrateSet(c)
  PROVE  LocalStep(c)
<1>1. /\ job[c] \in Job /\ SoundJob(c) /\ StoreOf[c] \in Store
      /\ job[c].read \in sent /\ job[c].read.addr \in Conn
  BY JobIsTyped DEF SoundJob, MigrateSet, Record
<1>2. mark' \in Marks(sent)
  BY <1>1, MarkIsTyped, JobIsTyped DEF MigrateSet, Persist
<1> DEFINE j == [job[c] EXCEPT !.pc = "migrate_delete"]
<1>3. job' = [job EXCEPT ![c] = j] /\ job'[c] = j /\ j \in Job
  BY <1>1 DEF MigrateSet, Inv, TypeOK, Job, PC
<1>4. SoundJob(c)'
  BY <1>1, <1>3 DEF SoundJob, MigrateSet, Job
<1> QED
  BY <1>2, <1>3, <1>4, JobIsTyped DEF LocalStep, MigrateSet, Inv, TypeOK

\* Deleting the legacy mark.
LEMMA MigrateDeleteStep ==
  ASSUME Inv, NEW c \in Client, MigrateDelete(c)
  PROVE  LocalStep(c)
<1>1. /\ job[c] \in Job /\ SoundJob(c) /\ StoreOf[c] \in Store
      /\ job[c].cur \in sent /\ job[c].cur \in Record /\ job[c].cur.addr \in Conn
  BY JobIsTyped DEF SoundJob, MigrateDelete, Record
<1>2. legacy' \in Marks(sent)
  BY <1>1, MarkIsTyped, JobIsTyped DEF MigrateDelete
<1> DEFINE j == Judged(job[c], job[c].cur, job[c].read)
<1>3. job' = [job EXCEPT ![c] = j] /\ job'[c] = j
  BY DEF MigrateDelete, Inv, TypeOK
<1> HIDE DEF j
<1>4. /\ j \in Job /\ j.fetched \subseteq sent /\ j.found \subseteq sent
      /\ j.cur \in {job[c].cur, NoEvent} /\ j.read = NoEvent /\ j.pub = job[c].pub
      /\ j.known = job[c].known
      /\ j.pc \in {"check", "raise_get"}
      /\ j.pc = "raise_get" => j.cur = job[c].cur
  BY <1>1, JudgedIsTyped DEF SoundJob, j
<1>5. SoundJob(c)'
  BY <1>1, <1>3, <1>4, VaultAssumption DEF SoundJob, MigrateDelete
<1> QED
  BY <1>2, <1>3, <1>4, <1>5, JobIsTyped DEF LocalStep, MigrateDelete, Inv, TypeOK

\* An action that is done, or moves on to its next event.
LEMMA RaisedIsTyped ==
  ASSUME NEW j \in Job
  PROVE  /\ Raised(j) \in Job
         /\ Raised(j).pc \in {"check", "idle"}
         /\ Raised(j).fetched \in {j.fetched, {}}
         /\ Raised(j).found \in {j.found, {}}
         /\ Raised(j).cur = NoEvent
         /\ Raised(j).read \in {j.read, NoEvent}
         /\ Raised(j).pub = NoEvent
         /\ Raised(j).known \in {j.known, {}}
BY IdleJobIsSound DEF Raised, Job, PC

\* The same, for a client of the model.
LEMMA RaisedIsSound ==
  ASSUME Inv, NEW c \in Client, sent' = sent, job'[c] = Raised(job[c])
  PROVE  SoundJob(c)'
<1>1. job[c] \in Job /\ SoundJob(c)
  BY JobIsTyped
<1> DEFINE j == Raised(job[c])
<1>2. /\ j.pc \in {"check", "idle"} /\ j.fetched \in {job[c].fetched, {}}
      /\ j.found \in {job[c].found, {}} /\ j.cur = NoEvent
      /\ j.read \in {job[c].read, NoEvent} /\ j.pub = NoEvent /\ j.known \in {job[c].known, {}}
  BY <1>1, RaisedIsTyped
<1>3. job'[c] = j
  OBVIOUS
<1> HIDE DEF j
<1> QED
  BY <1>1, <1>2, <1>3 DEF SoundJob

\* Reading the mark that is to be raised.
LEMMA RaiseGetStep ==
  ASSUME Inv, NEW c \in Client, RaiseGet(c)
  PROVE  LocalStep(c)
<1>1. job[c] \in Job /\ SoundJob(c)
  BY JobIsTyped
<1> DEFINE j == IF Raises(job[c].cur, Mark(c, job[c].cur.addr))
                  THEN [job[c] EXCEPT !.pc = "raise_set"]
                  ELSE Raised(job[c])
<1>2. job' = [job EXCEPT ![c] = j] /\ job'[c] = j
  BY DEF RaiseGet, Inv, TypeOK
<1>3. sent' = sent
  BY DEF RaiseGet
<1>4. CASE Raises(job[c].cur, Mark(c, job[c].cur.addr))
  <2>1. j \in Job
    BY <1>1, <1>4 DEF Job, PC
  <2>2. SoundJob(c)'
    BY <1>1, <1>2, <1>3, <1>4 DEF SoundJob, RaiseGet, Job
  <2> QED
    BY <1>2, <2>1, <2>2, JobStep DEF RaiseGet
<1>5. CASE ~ Raises(job[c].cur, Mark(c, job[c].cur.addr))
  <2>1. j \in Job
    BY <1>1, <1>5, RaisedIsTyped
  <2>2. SoundJob(c)'
    BY <1>2, <1>3, <1>5, RaisedIsSound
  <2> QED
    BY <1>2, <2>1, <2>2, JobStep DEF RaiseGet
<1> QED
  BY <1>4, <1>5

\* Raising it.
LEMMA RaiseSetStep ==
  ASSUME Inv, NEW c \in Client, RaiseSet(c)
  PROVE  LocalStep(c)
<1>1. /\ job[c] \in Job /\ SoundJob(c) /\ StoreOf[c] \in Store
      /\ job[c].cur \in sent /\ job[c].cur.addr \in Conn
  BY JobIsTyped DEF SoundJob, RaiseSet, Record
<1>2. mark' \in Marks(sent)
  BY <1>1, MarkIsTyped, JobIsTyped DEF RaiseSet, Persist
<1>3. /\ job' = [job EXCEPT ![c] = Raised(job[c])] /\ job'[c] = Raised(job[c])
      /\ Raised(job[c]) \in Job
  BY <1>1, RaisedIsTyped DEF RaiseSet, Inv, TypeOK
<1>4. SoundJob(c)'
  BY <1>3, RaisedIsSound DEF RaiseSet
<1> QED
  BY <1>2, <1>3, <1>4, JobIsTyped DEF LocalStep, RaiseSet, Inv, TypeOK

\* Handing out a listing.
LEMMA ShowIsTyped ==
  ASSUME Inv, NEW c \in Client, Show(c)
  PROVE  /\ shown' \in Marks(sent)
         /\ \A s \in Store : s # StoreOf[c] => shown'[s] = shown[s]
         /\ \A k \in Conn : \/ shown'[StoreOf[c]][k] = shown[StoreOf[c]][k]
                           \/ shown'[StoreOf[c]][k] \in At(job[c].found, k)
<1>1. StoreOf[c] \in Store /\ shown \in Marks(sent) /\ job[c].found \subseteq sent
  BY JobIsTyped DEF SoundJob
<1>2. CASE ~ job[c].quorum
  BY <1>1, <1>2 DEF Show
<1>3. CASE job[c].quorum
  <2> DEFINE F(k) == At(job[c].found, k)
             row == [k \in Conn |-> IF F(k) = {} THEN shown[StoreOf[c]][k]
                                               ELSE CHOOSE e \in F(k) : TRUE]
  <2>1. shown' = [shown EXCEPT ![StoreOf[c]] = row]
    BY <1>3 DEF Show
  <2>2. ASSUME NEW k \in Conn
        PROVE  row[k] = shown[StoreOf[c]][k] \/ row[k] \in F(k)
    OBVIOUS
  <2>3. \A k \in Conn : F(k) \subseteq sent /\ \A e \in F(k) : e.addr = k
    BY <1>1 DEF At
  <2>4. DOMAIN row = Conn /\ row = [k \in Conn |-> row[k]]
    OBVIOUS
  <2> HIDE DEF F, row
  <2>5. /\ row \in [Conn -> sent \cup {NoEvent}]
        /\ \A k \in Conn : row[k] # NoEvent => row[k].addr = k
    BY <1>1, <2>2, <2>3, <2>4 DEF Marks
  <2>6. /\ shown'[StoreOf[c]] = row
        /\ \A s \in Store : s # StoreOf[c] => shown'[s] = shown[s]
        /\ shown' \in [Store -> [Conn -> sent \cup {NoEvent}]]
    BY <1>1, <2>1, <2>5 DEF Marks
  <2> QED
    BY <1>1, <2>2, <2>5, <2>6 DEF Marks, F
<1> QED
  BY <1>2, <1>3

\* A worker without an action is sound.
LEMMA IdleIsSound ==
  ASSUME NEW c, job'[c] = IdleJob
  PROVE  SoundJob(c)'
BY IdleJobIsSound DEF SoundJob

\* The end of a listing.
LEMMA FinishStep ==
  ASSUME Inv, NEW c \in Client, Finish(c)
  PROVE  LocalStep(c)
<1>1. job'[c] = IdleJob /\ IdleJob \in Job
  BY IdleJobIsSound DEF Finish, Inv, TypeOK
<1> QED
  BY <1>1, IdleIsSound, ShowIsTyped, JobIsTyped DEF LocalStep, Finish, Inv, TypeOK

\* What a job looks like that publishes record X.
LEMMA PublishIsSound ==
  ASSUME Inv, NEW c \in Client, NEW op \in OpName, NEW X \in Record, Publish(c, op, X)
  PROVE  /\ \E Y \in Record : sent' = sent \cup {Y}
         /\ sent \subseteq sent'
         /\ job' = [job EXCEPT ![c] = job'[c]]
         /\ job'[c] \in Job
         /\ SoundJob(c)'
<1> DEFINE j == [IdleJob EXCEPT !.op = op, !.pc = "verify", !.conn = X.addr, !.pub = X,
                                !.known = job[c].known]
<1>0. job[c].known \subseteq sent /\ job[c].known \subseteq Record
  BY JobIsTyped DEF SoundJob
<1>1. sent' = sent \cup {X} /\ job' = [job EXCEPT ![c] = j]
  BY DEF Publish
<1>2. j \in Job /\ j.found = {} /\ j.fetched = {} /\ j.cur = NoEvent /\ j.read = NoEvent
      /\ j.pub = X /\ j.pc = "verify" /\ j.known = job[c].known
  <2>1. /\ j.found = {} /\ j.fetched = {} /\ j.cur = NoEvent /\ j.read = NoEvent
        /\ j.pub = X /\ j.pc = "verify" /\ j.known = job[c].known
    BY DEF IdleJob
  <2>2. X.addr \in Conn
    BY DEF Record
  <2>3. j \in Job
    BY <1>0, <2>2, IdleJobIsSound DEF Job, PC
  <2> QED
    BY <2>1, <2>3
<1> HIDE DEF j
<1>3. job'[c] = j
  BY <1>1 DEF Inv, TypeOK
<1>4. SoundJob(c)'
  BY <1>0, <1>1, <1>2, <1>3, VaultAssumption DEF SoundJob
<1> QED
  BY <1>1, <1>2, <1>3, <1>4

\* Marks of records that exist stay such when records are added.
LEMMA MarksGrow ==
  ASSUME NEW S, NEW T, S \subseteq T
  PROVE  Marks(S) \subseteq Marks(T)
BY DEF Marks

\* Replacing a record that was read.
LEMMA EditStep ==
  ASSUME Inv, NEW c \in Client, NEW t \in Clock, Edit(c, t)
  PROVE  LocalStep(c)
<1>0. PICK e \in Current(c) : \E i \in FreshIds(e.addr, NextCreatedAt(e.at, t)) :
        Publish(c, job[c].op, Replacement(job[c].op, e, t, i))
  BY DEF Edit
<1>1. PICK i \in FreshIds(e.addr, NextCreatedAt(e.at, t)) :
        Publish(c, job[c].op, Replacement(job[c].op, e, t, i))
  BY <1>0
<1> DEFINE X == Replacement(job[c].op, e, t, i)
<1>2. e \in Record /\ i \in Int /\ t \in Nat /\ job[c].op \in OpName
  BY JobIsTyped, FreshIdsAreInts, VaultAssumption DEF Current, SoundJob, Inv, Job
<1>3. NextCreatedAt(e.at, t) \in Nat
  BY <1>2 DEF NextCreatedAt, Record
<1>4. EventId(e) \in Conn \X Int /\ e.addr \in Conn
  BY <1>2 DEF EventId, Record
<1>5. X \in Record
  BY <1>2, <1>3, <1>4 DEF Replacement, Record
<1>6. shown' \in Marks(sent)
  BY ShowIsTyped DEF Edit
<1>7. /\ \E Y \in Record : sent' = sent \cup {Y}
      /\ sent \subseteq sent' /\ job' = [job EXCEPT ![c] = job'[c]]
      /\ job'[c] \in Job /\ SoundJob(c)'
  BY <1>1, <1>2, <1>5, PublishIsSound
<1>8. mark' \in Marks(sent') /\ legacy' \in Marks(sent') /\ shown' \in Marks(sent')
  BY <1>6, <1>7, JobIsTyped, MarksGrow DEF Edit
<1> QED
  BY <1>7, <1>8 DEF LocalStep, Edit, Inv, TypeOK

\* Saving a new connection.
LEMMA SaveStep ==
  ASSUME Inv, NEW c \in Client, NEW k \in Conn, NEW t \in Clock, Save(c, k, t)
  PROVE  LocalStep(c)
<1> DEFINE X == [kind |-> "record", addr |-> k, at |-> t, id |-> 0, link |-> NoLink]
<1>1. X \in Record /\ "save" \in OpName
  BY VaultAssumption DEF Record, OpName
<1>2. /\ \E Y \in Record : sent' = sent \cup {Y}
      /\ sent \subseteq sent' /\ job' = [job EXCEPT ![c] = job'[c]]
      /\ job'[c] \in Job /\ SoundJob(c)'
  BY <1>1, PublishIsSound DEF Save
<1>3. mark' \in Marks(sent') /\ legacy' \in Marks(sent') /\ shown' \in Marks(sent')
  BY <1>2, JobIsTyped, MarksGrow DEF Save
<1> QED
  BY <1>2, <1>3 DEF LocalStep, Save, Inv, TypeOK

\* The verdict on a publish.
LEMMA ConfirmStep ==
  ASSUME Inv, NEW c \in Client, Confirm(c)
  PROVE  LocalStep(c)
<1>1. job[c] \in Job /\ SoundJob(c) /\ job[c].pub \in sent
  BY JobIsTyped DEF SoundJob, Confirm
<1> DEFINE j == [job[c] EXCEPT !.pc = "raise_get", !.cur = job[c].pub]
<1>2. job' = [job EXCEPT ![c] = j] /\ job'[c] = j
  BY DEF Confirm, Inv, TypeOK
<1>3. j \in Job
  BY <1>1 DEF Job, PC
<1>4. SoundJob(c)'
  BY <1>1, <1>2, VaultAssumption DEF SoundJob, Confirm, Job, Inv, TypeOK
<1>5. confirmed' \subseteq sent'
  BY <1>1 DEF Confirm, Inv, TypeOK
<1> QED
  BY <1>2, <1>3, <1>4, <1>5, JobIsTyped DEF LocalStep, Confirm, Inv, TypeOK

\* An action given up or cut short.
LEMMA EndStep ==
  ASSUME Inv, NEW c \in Client, GiveUp(c) \/ Crash(c)
  PROVE  LocalStep(c)
<1>1. job' = [job EXCEPT ![c] = IdleJob] /\ job'[c] = IdleJob
  BY DEF GiveUp, Crash, Inv, TypeOK
<1> QED
  BY <1>1, IdleIsSound, IdleJobIsSound, JobStep DEF GiveUp, Crash

\* Whatever a worker does is such a step.
LEMMA EveryStep ==
  ASSUME Inv, NEW c \in Client, Step(c)
  PROVE  LocalStep(c)
<1>1. CASE Fetch(c, "list", NoEvent) \/ \E op \in {"bind", "delete"}, k \in Conn : Fetch(c, op, k)
  BY <1>1, FetchStep DEF OpName
<1>2. CASE Check(c) \/ CheckLegacy(c) \/ MigrateSet(c) \/ MigrateDelete(c)
  BY <1>2, CheckStep, CheckLegacyStep, MigrateSetStep, MigrateDeleteStep
<1>3. CASE RaiseGet(c) \/ RaiseSet(c) \/ Confirm(c) \/ GiveUp(c) \/ Crash(c)
  BY <1>3, RaiseGetStep, RaiseSetStep, ConfirmStep, EndStep
<1>4. CASE \/ Finish(c)
           \/ \E t \in Clock : Edit(c, t)
           \/ \E k \in Conn, t \in Clock : Save(c, k, t)
  BY <1>4, FinishStep, EditStep, SaveStep
<1> QED
  BY <1>1, <1>2, <1>3, <1>4 DEF Step

-----------------------------------------------------------------------------
(* The relays, and the initial states.                                        *)

\* Deliveries and deletions keep one event per connection on a relay.
LEMMA NetworkKeepsInv ==
  ASSUME Inv, Network, UNCHANGED <<mark, legacy, job, confirmed, shown>>
  PROVE  Inv'
<1>1. sent' = sent
  BY DEF Network, Deliver, Purge
<1>2. /\ held' \in [Relay -> SUBSET sent]
      /\ \A r \in Relay : \A e, f \in held'[r] : e.addr = f.addr => e = f
  <2>1. CASE \E r \in Relay, e \in sent : Deliver(r, e)
    <3> PICK r \in Relay, e \in sent : Deliver(r, e)
      BY <2>1
    <3>1. /\ Replace(held[r], e) \subseteq sent
          /\ \A f, g \in Replace(held[r], e) : f.addr = g.addr => f = g
      BY DEF Inv, TypeOK, Replace, At
    <3> QED
      BY <3>1 DEF Deliver, Inv, TypeOK
  <2>2. CASE \E r \in Nip09Relay, t \in confirmed : Purge(r, t)
    BY <2>2, RelayAssumption DEF Purge, Inv, TypeOK
  <2> QED
    BY <2>1, <2>2 DEF Network
<1> QED
  BY <1>1, <1>2 DEF Inv, TypeOK, SoundJob

\* The initial connections have been saved before.
LEMMA InitIsSound == Init => Inv
<1> SUFFICES ASSUME Init
             PROVE  Inv
  OBVIOUS
<1>1. sent \subseteq Record /\ \A e, f \in sent : e.addr = f.addr => e = f
  BY VaultAssumption DEF Init, InitialRecord, Record
<1>2. IsFiniteSet(sent)
  <2> DEFINE f == [k \in Saved |-> InitialRecord(k)]
             R == {f[k] : k \in Saved}
  <2>1. sent = R
    BY DEF Init
  <2>2. f \in Surjection(Saved, R)
    BY DEF Surjection
  <2> HIDE DEF f
  <2> QED
    BY <2>1, <2>2, FS_Surjection, VaultAssumption
<1>3. /\ held \in [Relay -> SUBSET sent]
      /\ \A r \in Relay : \A e, f \in held[r] : e.addr = f.addr => e = f
  BY <1>1 DEF Init
<1>4. /\ {mark, legacy, shown} \subseteq [Store -> [Conn -> sent \cup {NoEvent}]]
      /\ \A s \in Store, k \in Conn :
           /\ mark[s][k] # NoEvent => mark[s][k].addr = k
           /\ legacy[s][k] # NoEvent => legacy[s][k].addr = k
           /\ shown[s][k] # NoEvent => shown[s][k].addr = k
  BY DEF Init
<1>5. job \in [Client -> Job] /\ \A c \in Client : SoundJob(c)
  BY IdleJobIsSound DEF Init, SoundJob
<1>6. confirmed \subseteq sent
  BY DEF Init
<1> QED
  BY <1>1, <1>2, <1>3, <1>4, <1>5, <1>6 DEF Inv, TypeOK

\* Every step keeps the invariant.
LEMMA InvIsInductive == Inv /\ [Next]_vars => Inv'
<1> SUFFICES ASSUME Inv, [Next]_vars
             PROVE  Inv'
  OBVIOUS
<1>1. CASE Network /\ UNCHANGED <<mark, legacy, job, confirmed, shown>>
  BY <1>1, NetworkKeepsInv
<1>2. ASSUME NEW c \in Client, Step(c)
      PROVE  Inv'
  BY <1>2, EveryStep, LocalStepKeepsInv
<1>3. CASE UNCHANGED vars
  BY <1>3 DEF vars, Inv, TypeOK, SoundJob
<1> QED
  BY <1>1, <1>2, <1>3 DEF Next

\* Whatever a worker action has in hand was broadcast, and is there when needed.
THEOREM InvHolds == Spec => []Inv
BY InitIsSound, InvIsInductive, PTL DEF Spec

\* A relay keeps one event per connection, a mark is of its own connection, and
\* nothing is listed or confirmed that was not broadcast.
THEOREM TypesHold == Spec => []TypeOK
<1>1. Inv => TypeOK
  BY DEF Inv
<1> QED
  BY <1>1, InvHolds, PTL

-----------------------------------------------------------------------------
(* No listing goes back behind an earlier one.                                *)

\* Every open tab has a store to itself.
OneTab == \A c, d \in Client : StoreOf[c] = StoreOf[d] => c = d

\* Store s's mark of e's connection is e, or beats it.
Covered(s, e) == mark[s][e.addr] # NoEvent /\ ~ Wins(e, mark[s][e.addr])

\* The marks have caught up with what was listed.
ShownIsCovered ==
  \A s \in Store, k \in Conn : shown[s][k] # NoEvent => Covered(s, shown[s][k])

\* What client c's store showed last of e's connection.
ShownBefore(c, e) == shown[StoreOf[c]][e.addr]

\* An event is accepted when it beats its mark, and everything listed before is behind
\* that mark.  Until it is raised, the mark stays where it was read.
Tracked(c) ==
  /\ \A e \in job[c].found :
       \/ Covered(StoreOf[c], e)
       \/ job[c].pc \in {"raise_get", "raise_set"} /\ e = job[c].cur
  /\ \A e \in job[c].found : ShownBefore(c, e) # NoEvent => ~ Wins(ShownBefore(c, e), e)
  /\ job[c].pc = "raise_set" => Raises(job[c].cur, Mark(c, job[c].cur.addr))
  /\ job[c].pc = "migrate_set" => Mark(c, job[c].cur.addr) = NoEvent
  /\ job[c].pc = "migrate_delete" => Mark(c, job[c].cur.addr) = job[c].read

Ordered == ShownIsCovered /\ \A c \in Client : Tracked(c)

\* A mark that is absent or beaten may be overwritten: what it covered stays covered.
LEMMA CoverStays ==
  ASSUME Inv, NEW c \in Client, NEW X \in sent, Raises(X, Mark(c, X.addr)), Persist(c, X),
         NEW s \in Store, NEW e \in sent, Covered(s, e)
  PROVE  Covered(s, e)'
<1>1. /\ StoreOf[c] \in Store /\ X \in Record /\ X.addr \in Conn
      /\ e \in Record /\ e.addr \in Conn /\ mark \in Marks(sent)
  BY JobIsTyped DEF Record
<1>2. /\ mark' = [mark EXCEPT ![StoreOf[c]][X.addr] = X]
      /\ mark'[StoreOf[c]][X.addr] = X
      /\ \A t \in Store, l \in Conn :
           t # StoreOf[c] \/ l # X.addr => mark'[t][l] = mark[t][l]
  BY <1>1, MarkIsTyped DEF Persist
<1>3. CASE s = StoreOf[c] /\ e.addr = X.addr
  <2>1. mark[s][e.addr] \in Record /\ Wins(X, mark[s][e.addr]) /\ ~ Wins(e, mark[s][e.addr])
    BY <1>1, <1>3, JobIsTyped DEF Covered, Raises, Mark, Marks
  <2>2. ~ Wins(e, X)
    BY <1>1, <2>1, WinsIsAnOrder
  <2> QED
    BY <1>1, <1>2, <1>3, <2>2, VaultAssumption DEF Covered
<1>4. CASE ~ (s = StoreOf[c] /\ e.addr = X.addr)
  BY <1>1, <1>2, <1>4 DEF Covered
<1> QED
  BY <1>3, <1>4

\* The tabs on other stores do not notice.
LEMMA OtherTabsStay ==
  ASSUME OneTab, Inv, Ordered, NEW c \in Client, LocalStep(c),
         \A s \in Store : s # StoreOf[c] => mark'[s] = mark[s] /\ shown'[s] = shown[s],
         NEW d \in Client, d # c
  PROVE  Tracked(d)'
<1>1. job'[d] = job[d]
  BY DEF LocalStep, Inv, TypeOK
<1>2. StoreOf[d] \in Store /\ StoreOf[d] # StoreOf[c]
  BY JobIsTyped DEF OneTab
<1>3. mark'[StoreOf[d]] = mark[StoreOf[d]] /\ shown'[StoreOf[d]] = shown[StoreOf[d]]
  BY <1>2
<1>4. Tracked(d)
  BY DEF Ordered
<1> QED
  BY <1>1, <1>3, <1>4 DEF Tracked, Covered, Mark, ShownBefore

\* An action that has accepted nothing yet, or nothing any more.
LEMMA EmptyIsTracked ==
  ASSUME NEW c, job'[c].found = {}, job'[c].pc \in {"idle", "check", "verify"}
  PROVE  Tracked(c)'
BY DEF Tracked

\* A step that leaves the marks and the listings alone.
LEMMA QuietStep ==
  ASSUME OneTab, Inv, Ordered, NEW c \in Client, LocalStep(c), UNCHANGED <<mark, shown>>,
         Tracked(c)'
  PROVE  Ordered'
<1>1. ShownIsCovered'
  BY DEF Ordered, ShownIsCovered, Covered
<1>2. ASSUME NEW d \in Client, d # c
      PROVE  Tracked(d)'
  BY <1>2, OtherTabsStay
<1> QED
  BY <1>1, <1>2 DEF Ordered

\* Judging an event against the mark the store has.
LEMMA JudgedIsTracked ==
  ASSUME Inv, Ordered, NEW c \in Client, NEW e \in sent, UNCHANGED <<mark, shown>>,
         job[c].pc \in {"check", "migrate_delete"},
         job'[c] = Judged(job[c], e, Mark(c, e.addr))
  PROVE  Tracked(c)'
<1>1. /\ job[c] \in Job /\ SoundJob(c) /\ Tracked(c) /\ StoreOf[c] \in Store
      /\ e \in Record /\ e.addr \in Conn
      /\ \A f \in job[c].found : Covered(StoreOf[c], f)
      /\ mark' = mark /\ shown' = shown
  BY JobIsTyped DEF Ordered, Tracked, Record
<1>2. CASE Stale(e, Mark(c, e.addr))
  <2>1. job'[c].found = job[c].found /\ job'[c].pc = "check"
    BY <1>1, <1>2 DEF Judged, Job
  <2> QED
    BY <1>1, <2>1 DEF Tracked, Covered, ShownBefore
<1>3. CASE ~ Stale(e, Mark(c, e.addr))
  <2>1. job'[c].found = job[c].found \cup {e} /\ job'[c].pc = "raise_get" /\ job'[c].cur = e
    BY <1>1, <1>3 DEF Judged, Job
  <2>2. ASSUME ShownBefore(c, e) # NoEvent
        PROVE  ~ Wins(ShownBefore(c, e), e)
    <3> DEFINE f == ShownBefore(c, e)
    <3>1. f \in Record /\ f.addr = e.addr
      BY <1>1, <2>2, JobIsTyped DEF Marks, ShownBefore
    <3>2. Covered(StoreOf[c], f)
      BY <1>1, <2>2 DEF Ordered, ShownIsCovered, ShownBefore
    <3>3. Mark(c, e.addr) \in Record
      BY <1>1, <3>1, <3>2, JobIsTyped DEF Covered, Mark, Marks
    <3>4. ~ Wins(f, Mark(c, e.addr)) /\ ~ Wins(Mark(c, e.addr), e)
      BY <1>3, <3>1, <3>2 DEF Covered, Mark, Stale
    <3> QED
      BY <1>1, <3>1, <3>3, <3>4, WinsIsAnOrder
  <2>3. \A g \in job'[c].found :
          ShownBefore(c, g)' # NoEvent => ~ Wins(ShownBefore(c, g)', g)
    BY <1>1, <2>1, <2>2 DEF Tracked, ShownBefore
  <2>4. \A g \in job'[c].found : Covered(StoreOf[c], g)' \/ g = job'[c].cur
    BY <1>1, <2>1 DEF Covered
  <2> QED
    BY <2>1, <2>3, <2>4 DEF Tracked
<1> QED
  BY <1>2, <1>3

\* Comparing with the protected mark keeps the order.
LEMMA CheckKeepsOrder ==
  ASSUME OneTab, Inv, Ordered, NEW c \in Client, Check(c)
  PROVE  Ordered'
<1>1. PICK e \in job[c].fetched :
        job' = [job EXCEPT ![c] = Judged(@, e, Mark(c, e.addr))]
  BY DEF Check
<1>2. e \in sent /\ job'[c] = Judged(job[c], e, Mark(c, e.addr))
  BY <1>1, JobIsTyped DEF SoundJob, Inv, TypeOK
<1>3. Tracked(c)'
  BY <1>2, JudgedIsTracked DEF Check
<1> QED
  BY <1>3, CheckStep, QuietStep DEF Check

\* So does finding a legacy mark only.
LEMMA CheckLegacyKeepsOrder ==
  ASSUME OneTab, Inv, Ordered, NEW c \in Client, CheckLegacy(c)
  PROVE  Ordered'
<1>1. PICK e \in job[c].fetched :
        /\ Mark(c, e.addr) = NoEvent
        /\ job' = [job EXCEPT ![c].pc = "migrate_set", ![c].cur = e, ![c].read = Legacy(c, e.addr)]
  BY DEF CheckLegacy
<1>2. job[c] \in Job /\ Tracked(c)
  BY JobIsTyped DEF Ordered
<1>3. job'[c].found = job[c].found /\ job'[c].pc = "migrate_set" /\ job'[c].cur = e
  BY <1>1, <1>2 DEF Inv, TypeOK, Job
<1>4. Tracked(c)'
  BY <1>1, <1>2, <1>3 DEF Tracked, CheckLegacy, Covered, Mark, ShownBefore
<1> QED
  BY <1>4, CheckLegacyStep, QuietStep DEF CheckLegacy

\* A mark that rises keeps the order.
LEMMA PersistKeepsOrder ==
  ASSUME OneTab, Inv, Ordered, NEW c \in Client, LocalStep(c), NEW X \in sent,
         Raises(X, Mark(c, X.addr)), Persist(c, X), shown' = shown, Tracked(c)'
  PROVE  Ordered'
<1>1. /\ StoreOf[c] \in Store /\ mark \in Marks(sent)
      /\ \A s \in Store, k \in Conn : shown[s][k] # NoEvent => shown[s][k] \in sent
  BY JobIsTyped DEF Marks
<1>2. \A s \in Store : s # StoreOf[c] => mark'[s] = mark[s]
  BY <1>1 DEF Persist, Marks
<1>3. ShownIsCovered'
  BY <1>1, CoverStays DEF Ordered, ShownIsCovered
<1>4. ASSUME NEW d \in Client, d # c
      PROVE  Tracked(d)'
  BY <1>2, <1>4, OtherTabsStay
<1> QED
  BY <1>3, <1>4 DEF Ordered

\* A migrated mark covers nothing yet: there was none.
LEMMA MigrateSetKeepsOrder ==
  ASSUME OneTab, Inv, Ordered, NEW c \in Client, MigrateSet(c)
  PROVE  Ordered'
<1> DEFINE X == job[c].read
<1>1. /\ job[c] \in Job /\ SoundJob(c) /\ Tracked(c) /\ StoreOf[c] \in Store
      /\ X \in sent /\ X.addr = job[c].cur.addr /\ X.addr \in Conn
      /\ mark \in Marks(sent)
  BY JobIsTyped DEF Ordered, SoundJob, MigrateSet, Record
<1>2. Raises(X, Mark(c, X.addr)) /\ Persist(c, X)
  BY <1>1 DEF Tracked, MigrateSet, Raises
<1>3. mark'[StoreOf[c]][X.addr] = X
  BY <1>1, <1>2, MarkIsTyped DEF Persist
<1>4. job'[c] = [job[c] EXCEPT !.pc = "migrate_delete"]
  BY DEF MigrateSet, Inv, TypeOK
<1>5. /\ job'[c].found = job[c].found /\ job'[c].pc = "migrate_delete"
      /\ job'[c].cur = job[c].cur /\ job'[c].read = X
  BY <1>1, <1>4 DEF Job
<1>6. \A e \in job[c].found : Covered(StoreOf[c], e)'
  BY <1>1, <1>2, CoverStays DEF Tracked, SoundJob, MigrateSet
<1>7. Tracked(c)'
  BY <1>1, <1>3, <1>5, <1>6 DEF Tracked, MigrateSet, Mark, ShownBefore
<1> QED
  BY <1>1, <1>2, <1>7, MigrateSetStep, PersistKeepsOrder DEF MigrateSet

\* The migrated mark is the one the event is judged by.
LEMMA MigrateDeleteKeepsOrder ==
  ASSUME OneTab, Inv, Ordered, NEW c \in Client, MigrateDelete(c)
  PROVE  Ordered'
<1>1. job[c].cur \in sent /\ job[c].read = Mark(c, job[c].cur.addr)
  BY JobIsTyped DEF Ordered, Tracked, SoundJob, MigrateDelete
<1>2. job'[c] = Judged(job[c], job[c].cur, Mark(c, job[c].cur.addr))
  BY <1>1 DEF MigrateDelete, Inv, TypeOK
<1>3. Tracked(c)'
  BY <1>1, <1>2, JudgedIsTracked DEF MigrateDelete
<1> QED
  BY <1>3, MigrateDeleteStep, QuietStep DEF MigrateDelete

\* A mark that is not raised covers the event already.
LEMMA RaiseGetKeepsOrder ==
  ASSUME OneTab, Inv, Ordered, NEW c \in Client, RaiseGet(c)
  PROVE  Ordered'
<1>1. job[c] \in Job /\ SoundJob(c) /\ Tracked(c)
  BY JobIsTyped DEF Ordered
<1>2. CASE Raises(job[c].cur, Mark(c, job[c].cur.addr))
  <2>1. job'[c] = [job[c] EXCEPT !.pc = "raise_set"]
    BY <1>2 DEF RaiseGet, Inv, TypeOK
  <2>2. job'[c].found = job[c].found /\ job'[c].pc = "raise_set" /\ job'[c].cur = job[c].cur
    BY <1>1, <2>1 DEF Job
  <2> QED
    <3>1. Tracked(c)'
      BY <1>1, <1>2, <2>2 DEF Tracked, RaiseGet, Covered, Mark, ShownBefore
    <3> QED
      BY <3>1, RaiseGetStep, QuietStep DEF RaiseGet
<1>3. CASE ~ Raises(job[c].cur, Mark(c, job[c].cur.addr))
  <2>1. job'[c] = Raised(job[c])
    BY <1>3 DEF RaiseGet, Inv, TypeOK
  <2>2. job'[c].found \in {job[c].found, {}} /\ job'[c].pc \in {"check", "idle"}
    BY <1>1, <2>1, RaisedIsTyped
  <2>3. \A e \in job[c].found : Covered(StoreOf[c], e)
    BY <1>1, <1>3 DEF Tracked, Raises, Mark, Covered
  <2>4. Tracked(c)'
    BY <1>1, <2>2, <2>3 DEF Tracked, RaiseGet, Covered, ShownBefore
  <2> QED
    BY <2>4, RaiseGetStep, QuietStep DEF RaiseGet
<1> QED
  BY <1>2, <1>3

\* A raised mark covers the event, and whatever the old one covered.
LEMMA RaiseSetKeepsOrder ==
  ASSUME OneTab, Inv, Ordered, NEW c \in Client, RaiseSet(c)
  PROVE  Ordered'
<1>0. PICK X \in sent : X = job[c].cur
  BY JobIsTyped DEF SoundJob, RaiseSet
<1>1. /\ job[c] \in Job /\ SoundJob(c) /\ Tracked(c) /\ StoreOf[c] \in Store
      /\ X \in Record /\ X.addr \in Conn /\ mark \in Marks(sent)
  BY JobIsTyped DEF Ordered, Record
<1>2. Raises(X, Mark(c, X.addr)) /\ Persist(c, X)
  BY <1>0, <1>1 DEF Tracked, RaiseSet
<1>3. mark'[StoreOf[c]][X.addr] = X
  BY <1>1, <1>2, MarkIsTyped DEF Persist
<1>4. Covered(StoreOf[c], X)'
  <2>1. ~ Wins(X, X) /\ X # NoEvent
    BY <1>1, WinsIsAnOrder, VaultAssumption
  <2> QED
    BY <1>3, <2>1 DEF Covered
<1>5. ASSUME NEW e \in job[c].found
      PROVE  Covered(StoreOf[c], e)'
  <2>1. e \in sent /\ (Covered(StoreOf[c], e) \/ e = X)
    BY <1>0, <1>1 DEF Tracked, SoundJob
  <2>2. Covered(StoreOf[c], e) => Covered(StoreOf[c], e)'
    BY <1>1, <1>2, <2>1, CoverStays
  <2> QED
    BY <1>4, <2>1, <2>2
<1>6. job'[c] = Raised(job[c])
  BY DEF RaiseSet, Inv, TypeOK
<1>7. job'[c].found \in {job[c].found, {}} /\ job'[c].pc \in {"check", "idle"}
  BY <1>1, <1>6, RaisedIsTyped
<1>8. Tracked(c)'
  BY <1>1, <1>5, <1>7 DEF Tracked, RaiseSet, ShownBefore
<1> QED
  BY <1>1, <1>2, <1>8, RaiseSetStep, PersistKeepsOrder DEF RaiseSet

\* A verified edit has its mark raised next.
LEMMA ConfirmKeepsOrder ==
  ASSUME OneTab, Inv, Ordered, NEW c \in Client, Confirm(c)
  PROVE  Ordered'
<1>1. job[c] \in Job /\ Tracked(c)
  BY JobIsTyped DEF Ordered
<1>2. job'[c].found = job[c].found /\ job'[c].pc = "raise_get"
  BY <1>1 DEF Confirm, Inv, TypeOK, Job
<1>3. Tracked(c)'
  BY <1>1, <1>2 DEF Tracked, Confirm, Covered, ShownBefore
<1> QED
  BY <1>3, ConfirmStep, QuietStep DEF Confirm

\* What is handed out was found, and everything found is covered by then.
LEMMA ShowKeepsOrder ==
  ASSUME OneTab, Inv, Ordered, NEW c \in Client, LocalStep(c), Listed(c), Show(c),
         mark' = mark, Tracked(c)'
  PROVE  Ordered'
<1>1. \A e \in job[c].found : Covered(StoreOf[c], e) /\ e.addr \in Conn
  BY JobIsTyped DEF Ordered, Tracked, Listed, SoundJob, Record
<1>2. /\ \A s \in Store : s # StoreOf[c] => shown'[s] = shown[s]
      /\ \A k \in Conn : \/ shown'[StoreOf[c]][k] = shown[StoreOf[c]][k]
                        \/ shown'[StoreOf[c]][k] \in job[c].found
  BY ShowIsTyped DEF At
<1>4. ShownIsCovered'
  BY <1>1, <1>2 DEF Ordered, ShownIsCovered, Covered
<1>5. ASSUME NEW d \in Client, d # c
      PROVE  Tracked(d)'
  BY <1>2, <1>5, OtherTabsStay
<1> QED
  BY <1>4, <1>5 DEF Ordered

\* Every worker step keeps the order.
LEMMA StepKeepsOrder ==
  ASSUME OneTab, Inv, Ordered, NEW c \in Client, Step(c)
  PROVE  Ordered'
<1>1. LocalStep(c)
  BY EveryStep
<1>2. ASSUME NEW op, NEW k, Fetch(c, op, k)
      PROVE  Ordered'
  <2>1. job'[c].found = {} /\ job'[c].pc = "check"
    BY <1>2 DEF Fetch, Reading, IdleJob, Inv, TypeOK
  <2> QED
    BY <1>1, <1>2, <2>1, EmptyIsTracked, QuietStep DEF Fetch
<1>3. ASSUME NEW k \in Conn, NEW t \in Clock, Save(c, k, t)
      PROVE  Ordered'
  <2>1. job'[c].found = {} /\ job'[c].pc = "verify"
    BY <1>3 DEF Save, Publish, IdleJob, Inv, TypeOK
  <2> QED
    BY <1>1, <1>3, <2>1, EmptyIsTracked, QuietStep DEF Save
<1>4. ASSUME NEW t \in Clock, Edit(c, t)
      PROVE  Ordered'
  <2>1. job'[c].found = {} /\ job'[c].pc = "verify"
    BY <1>4 DEF Edit, Publish, IdleJob, Inv, TypeOK
  <2> QED
    BY <1>1, <1>4, <2>1, EmptyIsTracked, ShowKeepsOrder DEF Edit
<1>5. CASE Finish(c)
  <2>1. job'[c].found = {} /\ job'[c].pc = "idle"
    BY <1>5 DEF Finish, IdleJob, Inv, TypeOK
  <2> QED
    BY <1>1, <1>5, <2>1, EmptyIsTracked, ShowKeepsOrder DEF Finish
<1>6. CASE GiveUp(c) \/ Crash(c)
  <2>1. job'[c].found = {} /\ job'[c].pc = "idle"
    BY <1>6 DEF GiveUp, Crash, IdleJob, Inv, TypeOK
  <2> QED
    BY <1>1, <1>6, <2>1, EmptyIsTracked, QuietStep DEF GiveUp, Crash
<1>7. CASE Check(c) \/ CheckLegacy(c) \/ MigrateSet(c) \/ MigrateDelete(c)
  BY <1>7, CheckKeepsOrder, CheckLegacyKeepsOrder, MigrateSetKeepsOrder, MigrateDeleteKeepsOrder
<1>8. CASE RaiseGet(c) \/ RaiseSet(c) \/ Confirm(c)
  BY <1>8, RaiseGetKeepsOrder, RaiseSetKeepsOrder, ConfirmKeepsOrder
<1> QED
  BY <1>2, <1>3, <1>4, <1>5, <1>6, <1>7, <1>8 DEF Step

\* Steps of the relays do not concern it.
LEMMA OrderIsInductive == OneTab => (Inv /\ Ordered /\ [Next]_vars => Ordered')
<1> SUFFICES ASSUME OneTab, Inv, Ordered, [Next]_vars
             PROVE  Ordered'
  OBVIOUS
<1>1. CASE UNCHANGED <<mark, job, shown>>
  BY <1>1 DEF Ordered, ShownIsCovered, Tracked, Covered, Mark, ShownBefore
<1>2. ASSUME NEW c \in Client, Step(c)
      PROVE  Ordered'
  BY <1>2, StepKeepsOrder
<1> QED
  BY <1>1, <1>2 DEF Next, vars

\* Only a listing shows anything, and what it found does not lose to what was shown.
LEMMA ShowsInOrder == Inv /\ Ordered /\ [Next]_vars => [ShowsNothingOlder]_vars
<1> SUFFICES ASSUME Inv, Ordered, Next
             PROVE  ShowsNothingOlder
  OBVIOUS
<1>1. CASE shown' = shown
  <2> SUFFICES ASSUME NEW s \in Store, NEW k \in Conn, shown[s][k] # NoEvent
               PROVE  ~ Wins(shown[s][k], shown[s][k])
    BY <1>1 DEF ShowsNothingOlder
  <2>1. shown[s][k] \in Record
    BY DEF Inv, TypeOK
  <2> QED
    BY <2>1, WinsIsAnOrder
<1>2. ASSUME NEW c \in Client, Show(c)
      PROVE  ShowsNothingOlder
  <2> SUFFICES ASSUME NEW s \in Store, NEW k \in Conn, shown[s][k] # NoEvent
               PROVE  shown'[s][k] # NoEvent /\ ~ Wins(shown[s][k], shown'[s][k])
    BY DEF ShowsNothingOlder
  <2>1. shown[s][k] \in Record
    BY DEF Inv, TypeOK
  <2>2. CASE shown'[s][k] = shown[s][k]
    BY <2>1, <2>2, WinsIsAnOrder
  <2>3. CASE s = StoreOf[c] /\ shown'[s][k] \in At(job[c].found, k)
    <3>1. Tracked(c) /\ SoundJob(c) /\ sent \subseteq Record
      BY JobIsTyped DEF Ordered
    <3>2. shown'[s][k] # NoEvent /\ shown'[s][k] \in job[c].found /\ shown'[s][k].addr = k
      BY <2>3, <3>1, VaultAssumption DEF At, SoundJob
    <3> QED
      BY <2>3, <3>1, <3>2 DEF Tracked, ShownBefore
  <2> QED
    BY <1>2, <2>2, <2>3, ShowIsTyped
<1>3. shown' = shown \/ \E c \in Client : Show(c)
  BY DEF Next, Step, Fetch, Check, CheckLegacy, MigrateSet, MigrateDelete, RaiseGet, RaiseSet,
         Finish, Edit, Save, Confirm, GiveUp, Crash
<1> QED
  BY <1>1, <1>2, <1>3

\* Where every store serves one tab, no listing on it ever goes back behind an earlier
\* one: not after a crash, from stale relays, or across the migration of its marks.
THEOREM NothingStale == OneTab => (Spec => NeverShownStale)
<1> SUFFICES ASSUME OneTab
             PROVE  Spec => NeverShownStale
  OBVIOUS
<1>1. Init => Ordered
  <2> SUFFICES ASSUME Init
               PROVE  Ordered
    OBVIOUS
  <2>1. \A s \in Store, k \in Conn : shown[s][k] = NoEvent
    BY DEF Init
  <2>2. \A c \in Client : job[c].found = {} /\ job[c].pc = "idle"
    BY DEF Init, IdleJob
  <2> QED
    BY <2>1, <2>2 DEF Ordered, ShownIsCovered, Tracked
<1>2. Inv /\ Ordered /\ [Next]_vars => Ordered'
  BY OrderIsInductive
<1> QED
  BY <1>1, <1>2, InvHolds, ShowsInOrder, PTL DEF Spec, NeverShownStale

-----------------------------------------------------------------------------
(* The order of the events of one connection.                                 *)

\* The naturals are well founded.
LEMMA NatOrder == \E R : IsWellFoundedOn(R, Nat) /\ \A x, y \in Nat : y < x => <<y, x>> \in R
<1> DEFINE R == OpToRel(<, Nat)
<1>1. IsWellFoundedOn(R, Nat)
  BY NatLessThanWellFounded, Zenon
<1>2. \A x, y \in Nat : y < x => <<y, x>> \in R
  BY Zenon DEF OpToRel
<1> QED
  BY <1>1, <1>2, Zenon

\* A set of naturals has a least element.
LEMMA LeastNat ==
  ASSUME NEW T \in SUBSET Nat, T # {}
  PROVE  \E x \in T : \A y \in T : x <= y
<1>1. PICK R : IsWellFoundedOn(R, Nat) /\ \A x, y \in Nat : y < x => <<y, x>> \in R
  BY NatOrder
<1>2. PICK x \in T : \A y \in T : ~ (<<y, x>> \in R)
  BY <1>1, WFMin
<1>3. ASSUME NEW y \in T PROVE x <= y
  <2>1. x \in Nat /\ y \in Nat
    OBVIOUS
  <2>2. ~ (y < x)
    BY <1>1, <1>2, <2>1
  <2> QED
    BY <2>1, <2>2
<1> QED
  BY <1>3

\* Wins is transitive.
LEMMA WinsIsTransitive ==
  ASSUME NEW e \in Record, NEW f \in Record, NEW g \in Record, Wins(e, f), Wins(f, g)
  PROVE  Wins(e, g)
BY DEF Wins, Record

\* Among finitely many events there is one that none wins over.
LEMMA LastOfFinite ==
  ASSUME NEW S \in SUBSET Record, IsFiniteSet(S), S # {}
  PROVE  \E e \in S : \A f \in S : ~ Wins(f, e)
<1> DEFINE Above(e) == {f \in S : Wins(f, e)}
           T == {Cardinality(Above(e)) : e \in S}
<1>1. ASSUME NEW e \in S
      PROVE  IsFiniteSet(Above(e)) /\ Cardinality(Above(e)) \in Nat
  BY FS_Subset, FS_CardinalityType
<1>2. T \in SUBSET Nat /\ T # {}
  BY <1>1
<1>3. PICK n \in T : \A m \in T : n <= m
  <2> HIDE DEF T
  <2> QED
    BY <1>2, LeastNat
<1>4. PICK e \in S : n = Cardinality(Above(e))
  BY <1>3
<1>5. ASSUME NEW f \in S, Wins(f, e)
      PROVE  FALSE
  <2>1. Above(f) \subseteq Above(e)
    BY <1>5, WinsIsTransitive
  <2>2. f \in Above(e) /\ f \notin Above(f)
    BY <1>5, WinsIsAnOrder
  <2>3. /\ Cardinality(Above(f)) <= Cardinality(Above(e))
        /\ Cardinality(Above(f)) = Cardinality(Above(e)) => Above(f) = Above(e)
    BY <1>1, <2>1, FS_Subset
  <2>4. n <= Cardinality(Above(f)) /\ n \in Nat /\ Cardinality(Above(f)) \in Nat
    BY <1>1, <1>2, <1>3
  <2> QED
    BY <1>4, <2>2, <2>3, <2>4
<1> QED
  BY <1>5

-----------------------------------------------------------------------------
(* Ids are unique at a connection, and a tombstone wins over what it retires.   *)

\* How many events were ever published of connection k.
Published(k) == Cardinality(At(sent, k))

\* An id is drawn from numbers that no earlier event of its connection has.
IdsBounded == \A e \in sent : - Published(e.addr) < e.id /\ e.id < Published(e.addr)

\* So two events of a connection differ in their ids.
IdsUnique == \A e, f \in sent : e.addr = f.addr /\ e.id = f.id => e = f

\* A tombstone retires an earlier event of its connection, and wins over it.
Retires(t, e) == t.addr = e.addr /\ t.link = EventId(e) /\ Wins(t, e)

Linked == \A t \in sent : t.kind = "tombstone" => \E e \in sent : Retires(t, e)

History == IdsBounded /\ IdsUnique /\ Linked

\* What a client adds to the network: nothing, or one event with a new id.
Adds(X) ==
  /\ sent' = sent \cup {X}
  /\ X \in Record
  /\ X.id \in {Published(X.addr), - Published(X.addr)}
  /\ X.kind = "tombstone" => \E e \in sent : Retires(X, e)

\* No two events of a connection tie.
LEMMA WinsIsTotal ==
  ASSUME Inv, History, NEW e \in sent, NEW f \in sent, e.addr = f.addr, e # f
  PROVE  Wins(e, f) \/ Wins(f, e)
<1>1. e.id # f.id /\ e \in Record /\ f \in Record
  BY DEF History, IdsUnique, Inv, TypeOK
<1> QED
  BY <1>1 DEF Wins, Record

\* The number of events of a connection is a number.
LEMMA PublishedIsNat ==
  ASSUME Inv, NEW k
  PROVE  IsFiniteSet(At(sent, k)) /\ Published(k) \in Nat
BY FS_Subset, FS_CardinalityType DEF Published, At, Inv, TypeOK

\* A publish takes a fresh id, and a tombstone is stamped after what it replaces.
LEMMA StepAdds ==
  ASSUME Inv, NEW c \in Client, Step(c)
  PROVE  sent' = sent \/ \E X : Adds(X)
<1>1. ASSUME NEW k \in Conn, NEW t \in Clock, Save(c, k, t)
      PROVE  \E X : Adds(X)
  <2> DEFINE X == [kind |-> "record", addr |-> k, at |-> t, id |-> 0, link |-> NoLink]
  <2>1. sent' = sent \cup {X} /\ At(sent, k) = {}
    BY <1>1 DEF Save, Publish
  <2>2. X \in Record
    BY VaultAssumption DEF Record
  <2>3. Published(k) = 0
    BY <2>1, FS_EmptySet DEF Published
  <2>4. Adds(X)
    BY <2>1, <2>2, <2>3 DEF Adds
  <2> QED
    BY <2>4
<1>2. ASSUME NEW t \in Clock, Edit(c, t)
      PROVE  \E X : Adds(X)
  <2>0. PICK e \in Current(c) : \E i \in FreshIds(e.addr, NextCreatedAt(e.at, t)) :
          Publish(c, job[c].op, Replacement(job[c].op, e, t, i))
    BY <1>2 DEF Edit
  <2>1. PICK i \in FreshIds(e.addr, NextCreatedAt(e.at, t)) :
          Publish(c, job[c].op, Replacement(job[c].op, e, t, i))
    BY <2>0
  <2> DEFINE X == Replacement(job[c].op, e, t, i)
  <2>2. e \in sent /\ e \in Record /\ i \in Int /\ t \in Nat
    BY JobIsTyped, FreshIdsAreInts, VaultAssumption DEF Current, SoundJob, Inv
  <2>3. NextCreatedAt(e.at, t) \in Nat /\ NextCreatedAt(e.at, t) > e.at
    BY <2>2 DEF NextCreatedAt, Record
  <2>4. EventId(e) \in Conn \X Int /\ e.addr \in Conn
    BY <2>2 DEF EventId, Record
  <2>5. X \in Record
    BY <2>2, <2>3, <2>4 DEF Replacement, Record
  <2>6. X.addr = e.addr /\ X.id = i /\ X.at = NextCreatedAt(e.at, t)
    BY DEF Replacement
  <2>7. X.kind = "tombstone" => X.link = EventId(e)
    BY DEF Replacement
  <2>8. Wins(X, e)
    BY <2>3, <2>6 DEF Wins
  <2>9. sent' = sent \cup {X}
    BY <2>1 DEF Publish
  <2>10. i \in {Published(e.addr), - Published(e.addr)}
    BY DEF FreshIds, Published
  <2>11. Adds(X)
    <3> HIDE DEF X
    <3> QED
      BY <2>2, <2>5, <2>6, <2>7, <2>8, <2>9, <2>10 DEF Adds, Retires
  <2> QED
    BY <2>11
<1>3. CASE ~ (\/ \E t \in Clock : Edit(c, t)
              \/ \E k \in Conn, t \in Clock : Save(c, k, t))
  <2>1. sent' = sent
    BY <1>3 DEF Step, Fetch, Check, CheckLegacy, MigrateSet, MigrateDelete, RaiseGet, RaiseSet,
                Finish, Confirm, GiveUp, Crash
  <2> QED
    BY <2>1
<1> QED
  BY <1>1, <1>2, <1>3

\* An added event is the only one with its id, and counts.
LEMMA AddsKeepsHistory ==
  ASSUME Inv, History, NEW X, Adds(X)
  PROVE  History'
<1> DEFINE n == Published(X.addr)
<1>1. n \in Nat /\ IsFiniteSet(At(sent, X.addr))
  BY PublishedIsNat
<1>2. ASSUME NEW e \in sent, e.addr = X.addr
      PROVE  e.id # X.id /\ e.id \in Int
  <2>1. - n < e.id /\ e.id < n /\ e.id \in Int
    BY <1>2 DEF History, IdsBounded, Inv, TypeOK, Record
  <2> QED
    BY <1>1, <2>1 DEF Adds
<1>3. X \notin sent
  BY <1>2
<1>4. At(sent, X.addr)' = At(sent, X.addr) \cup {X} /\ X \notin At(sent, X.addr)
  BY <1>3 DEF At, Adds
<1>5. Published(X.addr)' = n + 1
  BY <1>1, <1>4, FS_AddElement DEF Published
<1>6. ASSUME NEW k, k # X.addr
      PROVE  Published(k)' = Published(k)
  <2>1. At(sent, k)' = At(sent, k)
    BY <1>6 DEF At, Adds
  <2> QED
    BY <2>1 DEF Published
<1>7. IdsBounded'
  <2> SUFFICES ASSUME NEW e \in sent'
               PROVE  - Published(e.addr)' < e.id /\ e.id < Published(e.addr)'
    BY DEF IdsBounded
  <2>1. CASE e = X
    BY <1>1, <1>5, <2>1 DEF Adds
  <2>2. CASE e \in sent /\ e.addr = X.addr
    <3>1. - n < e.id /\ e.id < n /\ e.id \in Int
      BY <2>2 DEF History, IdsBounded, Inv, TypeOK, Record
    <3>2. Published(e.addr)' = n + 1
      BY <1>5, <2>2
    <3> QED
      BY <1>1, <3>1, <3>2
  <2>3. CASE e \in sent /\ e.addr # X.addr
    BY <1>6, <2>3 DEF History, IdsBounded
  <2> QED
    BY <2>1, <2>2, <2>3 DEF Adds
<1>8. IdsUnique'
  BY <1>2 DEF History, IdsUnique, Adds
<1>9. Linked'
  BY DEF History, Linked, Adds, Retires, EventId, Wins
<1> QED
  BY <1>7, <1>8, <1>9 DEF History

\* Each connection that exists initially has one event.
LEMMA InitHistory == Init => History
<1> SUFFICES ASSUME Init
             PROVE  History
  OBVIOUS
<1>1. ASSUME NEW e \in sent
      PROVE  e.id = 0 /\ e.kind = "record" /\ At(sent, e.addr) = {e}
  BY <1>1 DEF Init, InitialRecord, At
<1>2. ASSUME NEW e \in sent
      PROVE  Published(e.addr) = 1
  <2>1. Cardinality({e}) = 1
    BY FS_Singleton
  <2> QED
    BY <1>1, <2>1 DEF Published
<1> QED
  <2>1. IdsBounded
    BY <1>1, <1>2 DEF IdsBounded
  <2>2. IdsUnique
    BY <1>1 DEF IdsUnique, At
  <2>3. Linked
    BY <1>1 DEF Linked
  <2> QED
    BY <2>1, <2>2, <2>3 DEF History

\* Every step keeps the history in order.
LEMMA HistoryIsInductive == Inv /\ History /\ [Next]_vars => History'
<1> SUFFICES ASSUME Inv, History, [Next]_vars
             PROVE  History'
  OBVIOUS
<1>1. CASE sent' = sent
  BY <1>1 DEF History, IdsBounded, IdsUnique, Linked, Published
<1>2. sent' = sent \/ \E X : Adds(X)
  BY StepAdds DEF Next, Network, Deliver, Purge, vars
<1> QED
  BY <1>1, <1>2, AddsKeepsHistory

-----------------------------------------------------------------------------
(* The last verified edit stays on enough relays.                              *)

\* t is a verified edit of e's connection, e itself or one that wins over it.
Covers(t, e) == t.addr = e.addr /\ (t = e \/ Wins(t, e))

\* For every verified edit there is one that covers it and is on enough relays.
Latest == \A e \in confirmed : \E t \in confirmed : Covers(t, e) /\ Durable(t)

\* Covering is transitive.
LEMMA CoversIsTransitive ==
  ASSUME NEW e \in Record, NEW f \in Record, NEW g \in Record, Covers(e, f), Covers(f, g)
  PROVE  Covers(e, g)
BY WinsIsTransitive DEF Covers

\* Sets of relays have a size, which grows with the set.
LEMMA MoreRelays ==
  ASSUME NEW S \in SUBSET Relay, NEW T \in SUBSET Relay, S \subseteq T
  PROVE  /\ Cardinality(S) \in Nat /\ Cardinality(T) \in Nat
         /\ Cardinality(S) <= Cardinality(T)
BY FS_Subset, FS_CardinalityType, RelayAssumption

\* What is reached stays on as many relays, or more.
LEMMA DurableIfReached ==
  ASSUME NEW t, Durable(t), Reached(t) \subseteq Reached(t)'
  PROVE  Durable(t)'
<1>1. Reached(t) \in SUBSET Relay /\ Reached(t)' \in SUBSET Relay
  BY DEF Reached
<1>2. /\ Cardinality(Reached(t)) \in Nat /\ Cardinality(Reached(t)') \in Nat
      /\ Cardinality(Reached(t)) <= Cardinality(Reached(t)')
  BY <1>1, MoreRelays
<1>3. MinReadbacks \in Nat
  BY RelayAssumption
<1> QED
  BY <1>2, <1>3 DEF Durable

\* A verified event is on enough relays.
LEMMA VerifiedIsDurable ==
  ASSUME NEW e, Cardinality(HasReplica(e)) >= MinReadbacks
  PROVE  Durable(e)
<1>1. HasReplica(e) \in SUBSET Relay /\ Reached(e) \in SUBSET Relay
  BY DEF HasReplica, Reached
<1>2. HasReplica(e) \subseteq Reached(e)
  BY DEF HasReplica, Reached, At
<1>3. /\ Cardinality(HasReplica(e)) \in Nat /\ Cardinality(Reached(e)) \in Nat
      /\ Cardinality(HasReplica(e)) <= Cardinality(Reached(e))
  BY <1>1, <1>2, MoreRelays
<1> QED
  BY <1>3, RelayAssumption DEF Durable

\* A relay replaces an event only by one that wins over it.
LEMMA DeliverKeepsReached ==
  ASSUME Inv, NEW r \in Relay, NEW X \in sent, Deliver(r, X), NEW t \in sent
  PROVE  Reached(t) \subseteq Reached(t)'
<1> SUFFICES ASSUME NEW q \in Reached(t)
             PROVE  q \in Reached(t)'
  OBVIOUS
<1>1. PICK f \in At(held[q], t.addr) : f = t \/ Wins(f, t)
  BY DEF Reached
<1>2. /\ q \in Relay /\ f \in held[q] /\ f.addr = t.addr
      /\ f \in Record /\ t \in Record /\ X \in Record
  BY <1>1 DEF Reached, At, Inv, TypeOK
<1>3. CASE q # r \/ f \in Replace(held[r], X)
  <2>1. f \in held'[q]
    BY <1>2, <1>3 DEF Deliver, Inv, TypeOK
  <2> QED
    BY <1>1, <1>2, <2>1 DEF Reached, At
<1>4. CASE q = r /\ f \notin Replace(held[r], X)
  <2>1. f.addr = X.addr /\ Wins(X, f)
    BY <1>2, <1>4 DEF Replace, At
  <2>2. X \in held'[q]
    BY <1>2, <1>4 DEF Deliver, Replace, Inv, TypeOK
  <2>3. Wins(X, t)
    BY <1>1, <1>2, <2>1, WinsIsTransitive
  <2> QED
    BY <1>2, <2>1, <2>2, <2>3 DEF Reached, At
<1> QED
  BY <1>3, <1>4

\* A deletion request removes one event, which the tombstone wins over.
LEMMA PurgeRemoves ==
  ASSUME Inv, History, NEW r \in Relay, NEW t0 \in confirmed, Purge(r, t0)
  PROVE  \E x \in sent : /\ Retires(t0, x)
                         /\ \A q \in Relay : \A f \in held[q] : f # x => f \in held'[q]
<1>1. t0 \in sent /\ t0.kind = "tombstone"
  BY DEF Purge, Inv, TypeOK
<1>2. PICK x \in sent : Retires(t0, x)
  BY <1>1 DEF History, Linked
<1>3. ASSUME NEW q \in Relay, NEW f \in held[q], f # x
      PROVE  f \in held'[q]
  <2>1. f \in sent /\ f \in Record /\ x \in Record
    BY DEF Inv, TypeOK
  <2>2. EventId(f) # t0.link
    BY <1>2, <1>3, <2>1 DEF Retires, EventId, History, IdsUnique
  <2> QED
    BY <2>1, <2>2 DEF Purge, Inv, TypeOK
<1> QED
  BY <1>2, <1>3

\* What does not lose to the removed event is reached as before.
LEMMA PurgeKeepsReached ==
  ASSUME Inv, NEW x \in sent, NEW t \in sent, ~ Covers(x, t),
         \A q \in Relay : \A f \in held[q] : f # x => f \in held'[q]
  PROVE  Reached(t) \subseteq Reached(t)'
<1> SUFFICES ASSUME NEW q \in Reached(t)
             PROVE  q \in Reached(t)'
  OBVIOUS
<1>1. PICK f \in At(held[q], t.addr) : f = t \/ Wins(f, t)
  BY DEF Reached
<1>2. q \in Relay /\ f \in held[q] /\ f.addr = t.addr /\ f # x
  BY <1>1 DEF Reached, At, Covers
<1>3. f \in held'[q]
  BY <1>2
<1> QED
  BY <1>1, <1>2, <1>3 DEF Reached, At

\* A deletion may take away what covers an edit; then what covers the tombstone does.
LEMMA PurgeKeepsLatest ==
  ASSUME Inv, History, Latest, NEW r \in Relay, NEW t0 \in confirmed, Purge(r, t0),
         confirmed' = confirmed
  PROVE  Latest'
<1>0. confirmed \subseteq sent /\ sent \subseteq Record
  BY DEF Inv, TypeOK
<1>1. PICK x \in sent : /\ Retires(t0, x)
                        /\ \A q \in Relay : \A f \in held[q] : f # x => f \in held'[q]
  BY PurgeRemoves
<1>2. ASSUME NEW t \in confirmed, Durable(t), ~ Covers(x, t)
      PROVE  Durable(t)'
  BY <1>0, <1>1, <1>2, PurgeKeepsReached, DurableIfReached
<1>3. PICK w \in confirmed : Covers(w, t0) /\ Durable(w)
  BY DEF Latest
<1>4. Covers(t0, x) /\ t0 \in Record /\ x \in Record /\ w \in Record
  BY <1>0, <1>1 DEF Retires, Covers
<1>5. ~ Covers(x, w)
  <2>1. Wins(w, x)
    BY <1>1, <1>3, <1>4, WinsIsTransitive DEF Retires, Covers
  <2> QED
    BY <1>4, <2>1, WinsIsAnOrder DEF Covers
<1>6. ASSUME NEW e \in confirmed
      PROVE  \E t \in confirmed : Covers(t, e) /\ Durable(t)'
  <2>1. PICK t \in confirmed : Covers(t, e) /\ Durable(t)
    BY DEF Latest
  <2>2. CASE ~ Covers(x, t)
    BY <1>2, <2>1, <2>2
  <2>3. CASE Covers(x, t)
    <3>1. e \in Record /\ t \in Record
      BY <1>0
    <3>2. Covers(t0, e)
      BY <1>4, <2>1, <2>3, <3>1, CoversIsTransitive
    <3>3. Covers(w, e)
      BY <1>3, <1>4, <3>1, <3>2, CoversIsTransitive
    <3> QED
      BY <1>2, <1>3, <1>5, <3>3
  <2> QED
    BY <2>2, <2>3
<1> QED
  BY <1>6 DEF Latest, Covers, Wins

\* Only a verified edit joins the verified ones.
LEMMA StepConfirms ==
  ASSUME Inv, NEW c \in Client, Step(c)
  PROVE  /\ held' = held
         /\ \/ confirmed' = confirmed
            \/ Confirm(c) /\ CanVerify(job[c].pub) /\ confirmed' = confirmed \cup {job[c].pub}
<1>1. held' = held
  BY EveryStep DEF LocalStep
<1>2. CASE Confirm(c)
  BY <1>1, <1>2 DEF Confirm
<1>3. CASE ~ Confirm(c)
  BY <1>1, <1>3 DEF Step, Fetch, Check, CheckLegacy, MigrateSet, MigrateDelete, RaiseGet,
         RaiseSet, Finish, Edit, Save, GiveUp, Crash
<1> QED
  BY <1>2, <1>3

\* Every step keeps the last verified edits in reach.
LEMMA LatestIsInductive == Inv /\ History /\ Latest /\ [Next]_vars => Latest'
<1> SUFFICES ASSUME Inv, History, Latest, [Next]_vars
             PROVE  Latest'
  OBVIOUS
<1>0. confirmed \subseteq sent
  BY DEF Inv, TypeOK
<1>1. ASSUME NEW r \in Relay, NEW X \in sent, Deliver(r, X), confirmed' = confirmed
      PROVE  Latest'
  <2>1. ASSUME NEW t \in confirmed, Durable(t)
        PROVE  Durable(t)'
    BY <1>0, <1>1, <2>1, DeliverKeepsReached, DurableIfReached
  <2> QED
    BY <1>1, <2>1 DEF Latest, Covers, Wins
<1>2. ASSUME NEW r \in Relay, NEW t0 \in confirmed, Purge(r, t0), confirmed' = confirmed
      PROVE  Latest'
  BY <1>2, PurgeKeepsLatest
<1>3. ASSUME NEW c \in Client, Step(c)
      PROVE  Latest'
  <2>1. held' = held
    BY <1>3, StepConfirms
  <2>2. ASSUME NEW t, Durable(t)
        PROVE  Durable(t)'
    <3>1. Reached(t)' = Reached(t)
      BY <2>1 DEF Reached
    <3> QED
      BY <2>2, <3>1 DEF Durable
  <2>3. CASE confirmed' = confirmed
    BY <2>2, <2>3 DEF Latest, Covers, Wins
  <2>4. CASE CanVerify(job[c].pub) /\ confirmed' = confirmed \cup {job[c].pub}
    <3>1. PICK X : X = job[c].pub
      OBVIOUS
    <3>2. CanVerify(X) /\ confirmed' = confirmed \cup {X}
      BY <2>4, <3>1
    <3>3. Durable(X)'
      BY <2>2, <3>2, VerifiedIsDurable DEF CanVerify
    <3> QED
      BY <2>2, <3>2, <3>3 DEF Latest, Covers, Wins
  <2> QED
    BY <1>3, <2>3, <2>4, StepConfirms
<1>4. CASE UNCHANGED vars
  BY <1>4 DEF vars, Latest, Covers, Wins, Durable, Reached
<1> QED
  BY <1>1, <1>2, <1>3, <1>4, RelayAssumption DEF Next, Network

\* The initial connections were verified before.
LEMMA InitLatest == Init => Latest
<1> SUFFICES ASSUME Init
             PROVE  Latest
  OBVIOUS
<1>1. ASSUME NEW e \in sent
      PROVE  Durable(e)
  BY VerifiedIsDurable DEF Init
<1> QED
  BY <1>1 DEF Init, Latest, Covers

\* Ids are unique and tombstones win over what they retire; the last verified edit of a
\* connection is in reach.
LEMMA LatestHolds == Spec => [](Inv /\ History /\ Latest)
<1>1. Init => History /\ Latest
  BY InitHistory, InitLatest
<1>2. Inv /\ History /\ Latest /\ [Next]_vars => History' /\ Latest'
  BY HistoryIsInductive, LatestIsInductive
<1> QED
  BY <1>1, <1>2, InvHolds, PTL DEF Spec

\* The last verified edit of a connection is on enough relays, or has been replaced there,
\* whatever relays lose to deletion requests and whatever clocks, crashes and failed edits
\* did (cryptoWorker.ts, "the tombstone is the durable part").
THEOREM LastEditIsDurable == Spec => []LastEditDurable
<1>1. Latest => LastEditDurable
  BY DEF Latest, LastEditDurable, Covers, At
<1> QED
  BY <1>1, LatestHolds, PTL

-----------------------------------------------------------------------------
(* What a read returns.                                                       *)

\* A read that Overlaps has one of the relays that an event in reach is on.
LEMMA WideReadOverlaps ==
  ASSUME NEW Q \in SUBSET Relay, Overlaps(Q),
         NEW S \in SUBSET Relay, Cardinality(S) >= MinReadbacks
  PROVE  Q \cap S # {}
<1> SUFFICES ASSUME Q \cap S = {}
             PROVE  FALSE
  OBVIOUS
<1>1. IsFiniteSet(Relay) /\ IsFiniteSet(Q) /\ IsFiniteSet(S)
  BY FS_Subset, RelayAssumption
<1>2. /\ Cardinality(Q) \in Nat /\ Cardinality(S) \in Nat
      /\ Cardinality(Relay) \in Nat /\ MinReadbacks \in Nat
  BY <1>1, FS_CardinalityType, RelayAssumption
<1>3. Cardinality(Q \cup S) = Cardinality(Q) + Cardinality(S)
  <2>1. Cardinality(Q \cup S) = Cardinality(Q) + Cardinality(S) - Cardinality(Q \cap S)
    BY <1>1, FS_Union
  <2>2. Cardinality(Q \cap S) = 0
    BY FS_EmptySet
  <2> QED
    BY <1>2, <2>1, <2>2
<1>4. Cardinality(Q \cup S) <= Cardinality(Relay)
  <2>1. Q \cup S \subseteq Relay
    OBVIOUS
  <2> QED
    BY <1>1, <2>1, FS_Subset
<1> QED
  BY <1>2, <1>3, <1>4 DEF Overlaps

\* Per connection that some relay has an event of, a read returns one: the one that wins.
LEMMA NewestOfEach ==
  ASSUME Inv, History, NEW Q \in SUBSET Relay, NEW r \in Q, NEW g \in held[r]
  PROVE  \E f \in Newest(Q) : Covers(f, g)
<1> DEFINE S == UNION {held[q] : q \in Q}
           A == At(S, g.addr)
<1>1. S \subseteq sent /\ g \in S /\ A \in SUBSET S /\ g \in A
  BY DEF Inv, TypeOK, At
<1>2. A \in SUBSET Record /\ IsFiniteSet(A) /\ A # {}
  BY <1>1, FS_Subset DEF Inv, TypeOK
<1>3. PICK f \in A : \A h \in A : ~ Wins(h, f)
  <2> HIDE DEF A
  <2> QED
    BY <1>2, LastOfFinite
<1>4. f \in sent /\ f \in S /\ f.addr = g.addr
  BY <1>1 DEF At
<1>5. ASSUME NEW h \in A
      PROVE  f = h \/ Wins(f, h)
  <2>1. h \in sent /\ h.addr = f.addr
    BY <1>1, <1>4 DEF At
  <2> QED
    BY <1>3, <1>4, <2>1, WinsIsTotal
<1>6. f \in Newest(Q)
  BY <1>4, <1>5 DEF Newest, At
<1> QED
  BY <1>1, <1>4, <1>5, <1>6 DEF Covers

\* A read returns one event per connection.
LEMMA NewestIsOne ==
  ASSUME Inv, NEW Q \in SUBSET Relay, NEW e \in Newest(Q), NEW f \in Newest(Q), e.addr = f.addr
  PROVE  e = f
<1>1. e \in Record /\ f \in Record
  BY DEF Newest, Inv, TypeOK
<1> QED
  BY <1>1, WinsIsAnOrder DEF Newest, At

\* The answers to such a read cover every verified edit.
LEMMA WideReadCovers ==
  ASSUME Inv, History, Latest, NEW Q \in SUBSET Relay, Overlaps(Q), NEW e \in confirmed
  PROVE  \E f \in Newest(Q) : Covers(f, e)
<1>1. PICK t \in confirmed : Covers(t, e) /\ Durable(t)
  BY DEF Latest
<1>2. Reached(t) \in SUBSET Relay /\ Cardinality(Reached(t)) >= MinReadbacks
  BY <1>1 DEF Reached, Durable
<1>3. PICK r \in Q : r \in Reached(t)
  BY <1>2, WideReadOverlaps
<1>4. PICK g \in held[r] : Covers(g, t)
  BY <1>3 DEF Reached, At, Covers
<1>5. PICK f \in Newest(Q) : Covers(f, g)
  BY NewestOfEach
<1>6. e \in Record /\ t \in Record /\ g \in Record /\ f \in Record
  BY DEF Newest, Inv, TypeOK
<1> QED
  BY <1>1, <1>4, <1>5, <1>6, CoversIsTransitive

\* Of any number of relays, all but MinReadbacks - 1 answering is enough: such a read
\* returns every verified edit or one that replaced it, whoever made it, one verified
\* before a crash included.  A quorum is that many where 2 * MinReadbacks exceeds the
\* number of relays (pool.ts:55).
THEOREM WideReadsAreComplete == Spec => []WideReadsMissNothing
<1>1. Inv /\ History /\ Latest => WideReadsMissNothing
  BY WideReadCovers DEF WideReadsMissNothing, Covers
<1> QED
  BY <1>1, LatestHolds, PTL

-----------------------------------------------------------------------------
(* What an edit builds on.                                                    *)

\* What client c has in hand is abreast of every edit it is known that its read cannot
\* have missed; what it publishes is ahead of them.  Other clients change neither.
Ahead(c) ==
  /\ job[c].pc \in {"migrate_set", "migrate_delete"} => job[c].cur \in job[c].fetched
  /\ \A e \in job[c].fetched \cup job[c].found : \A g \in At(job[c].known, e.addr) : Covers(e, g)
  /\ job[c].pub # NoEvent => \A g \in At(job[c].known, job[c].pub.addr) : Wins(job[c].pub, g)

\* A step of a client that keeps no more than it has in hand, and publishes nothing.
LEMMA HoldingNoMore ==
  ASSUME NEW c \in Client, Ahead(c),
         job'[c].pc \in {"migrate_set", "migrate_delete"} => job'[c].cur \in job'[c].fetched,
         job'[c].known \subseteq job[c].known, job'[c].pub = job[c].pub,
         job'[c].fetched \cup job'[c].found \subseteq job[c].fetched \cup job[c].found
  PROVE  Ahead(c)'
BY DEF Ahead, At, Covers, Wins

\* A worker without an action has nothing in hand.
LEMMA IdleIsAhead ==
  ASSUME NEW c \in Client, job'[c] = IdleJob
  PROVE  Ahead(c)'
BY DEF Ahead, IdleJob

\* A read has whatever it is known not to have missed.
LEMMA FetchIsAhead ==
  ASSUME Inv, History, Latest, NEW c \in Client,
         NEW op \in OpName, NEW k \in Conn \cup {NoEvent}, Fetch(c, op, k)
  PROVE  Ahead(c)'
<1>1. PICK Q \in SUBSET Relay : job' = [job EXCEPT ![c] = Reading(op, k, Q)]
  BY DEF Fetch
<1>2. /\ job'[c].pc = "check" /\ job'[c].pub = NoEvent
      /\ job'[c].fetched = Newest(Q) /\ job'[c].found = {}
      /\ job'[c].known = IF Overlaps(Q) THEN confirmed ELSE {}
  BY <1>1 DEF Reading, IdleJob, Inv, TypeOK
<1>3. ASSUME Overlaps(Q), NEW e \in Newest(Q), NEW g \in confirmed, g.addr = e.addr
      PROVE  Covers(e, g)
  <2>1. PICK f \in Newest(Q) : Covers(f, g)
    BY <1>3, WideReadCovers
  <2>2. f = e
    BY <1>3, <2>1, NewestIsOne DEF Covers
  <2> QED
    BY <2>1, <2>2
<1> QED
  BY <1>2, <1>3 DEF Ahead, At, Covers, Wins

\* Judging moves an event from one hand to the other, or drops it.
LEMMA JudgedHoldsNoMore ==
  ASSUME NEW j \in Job, NEW e \in j.fetched, NEW m
  PROVE  /\ Judged(j, e, m).pub = j.pub
         /\ Judged(j, e, m).known = j.known
         /\ Judged(j, e, m).pc \in {"check", "raise_get"}
         /\ Judged(j, e, m).fetched \cup Judged(j, e, m).found \subseteq j.fetched \cup j.found
BY DEF Judged, Job

\* What a publish leaves of a worker's action.
LEMMA PublishedJob ==
  ASSUME Inv, NEW c \in Client, NEW op, NEW X, Publish(c, op, X)
  PROVE  /\ job'[c].pc = "verify" /\ job'[c].pub = X /\ job'[c].known = job[c].known
         /\ job'[c].fetched = {} /\ job'[c].found = {}
BY DEF Publish, IdleJob, Inv, TypeOK

\* The replacement of what a read returned wins over all the read cannot have missed.
LEMMA EditIsAhead ==
  ASSUME Inv, NEW c \in Client, Ahead(c), NEW t \in Clock, Edit(c, t)
  PROVE  Ahead(c)'
<1>0. PICK e \in Current(c) : \E i \in FreshIds(e.addr, NextCreatedAt(e.at, t)) :
        Publish(c, job[c].op, Replacement(job[c].op, e, t, i))
  BY DEF Edit
<1>1. PICK i \in FreshIds(e.addr, NextCreatedAt(e.at, t)) :
        Publish(c, job[c].op, Replacement(job[c].op, e, t, i))
  BY <1>0
<1>2. PICK X : X = Replacement(job[c].op, e, t, i)
  OBVIOUS
<1>3. e \in job[c].found /\ e \in Record /\ t \in Nat
  BY JobIsTyped, VaultAssumption DEF Current, SoundJob
<1>4. X.addr = e.addr /\ X.at \in Nat /\ X.at > e.at
  BY <1>2, <1>3 DEF Replacement, NextCreatedAt, Record
<1>5. ASSUME NEW g \in At(job[c].known, e.addr)
      PROVE  Wins(X, g)
  <2>1. Covers(e, g) /\ g \in Record
    BY <1>3, JobIsTyped DEF Ahead, At, SoundJob
  <2>2. e.at \in Nat /\ g.at \in Nat /\ e.at >= g.at
    BY <1>3, <2>1 DEF Record, Covers, Wins
  <2> QED
    BY <1>4, <2>2 DEF Wins
<1>6. /\ job'[c].pc = "verify" /\ job'[c].pub = X /\ job'[c].known = job[c].known
      /\ job'[c].fetched = {} /\ job'[c].found = {}
  BY <1>1, <1>2, PublishedJob
<1> QED
  BY <1>4, <1>5, <1>6 DEF Ahead, At, Wins

\* A new connection has no verified edits.
LEMMA SaveIsAhead ==
  ASSUME Inv, NEW c \in Client, NEW k \in Conn, NEW t \in Clock, Save(c, k, t)
  PROVE  Ahead(c)'
<1>1. PICK X : /\ X = [kind |-> "record", addr |-> k, at |-> t, id |-> 0, link |-> NoLink]
              /\ Publish(c, "save", X)
  BY DEF Save
<1>2. /\ job'[c].pc = "verify" /\ job'[c].pub = X /\ job'[c].known = job[c].known
      /\ job'[c].fetched = {} /\ job'[c].found = {}
  BY <1>1, PublishedJob
<1>3. X.addr = k /\ At(job[c].known, k) = {}
  BY <1>1, JobIsTyped DEF Save, At, SoundJob
<1> QED
  BY <1>2, <1>3 DEF Ahead, At

\* The steps between a listing and what follows from it.
LEMMA ListingIsAhead ==
  ASSUME Inv, NEW c \in Client, Ahead(c),
         \/ Check(c) \/ CheckLegacy(c) \/ MigrateSet(c) \/ MigrateDelete(c)
         \/ RaiseGet(c) \/ RaiseSet(c)
  PROVE  Ahead(c)'
<1>0. job[c] \in Job /\ SoundJob(c)
  BY JobIsTyped
<1>1. CASE Check(c)
  <2>1. PICK e \in job[c].fetched :
          job' = [job EXCEPT ![c] = Judged(@, e, Mark(c, e.addr))]
    BY <1>1 DEF Check
  <2>2. job'[c] = Judged(job[c], e, Mark(c, e.addr))
    BY <2>1 DEF Inv, TypeOK
  <2> QED
    BY <1>0, <2>2, JudgedHoldsNoMore, HoldingNoMore
<1>2. CASE CheckLegacy(c)
  <2>1. PICK e \in job[c].fetched :
          job' = [job EXCEPT ![c].pc = "migrate_set", ![c].cur = e, ![c].read = Legacy(c, e.addr)]
    BY <1>2 DEF CheckLegacy
  <2>2. /\ job'[c].pub = job[c].pub /\ job'[c].known = job[c].known
        /\ job'[c].pc = "migrate_set" /\ job'[c].cur = e
        /\ job'[c].fetched = job[c].fetched /\ job'[c].found = job[c].found
    BY <1>0, <2>1 DEF Inv, TypeOK, Job
  <2> QED
    BY <2>2, HoldingNoMore
<1>3. CASE MigrateSet(c)
  <2>1. job' = [job EXCEPT ![c].pc = "migrate_delete"]
    BY <1>3 DEF MigrateSet
  <2>2. /\ job'[c].pub = job[c].pub /\ job'[c].known = job[c].known
        /\ job'[c].pc = "migrate_delete" /\ job'[c].cur = job[c].cur
        /\ job'[c].fetched = job[c].fetched /\ job'[c].found = job[c].found
    BY <1>0, <2>1 DEF Inv, TypeOK, Job
  <2>3. job[c].cur \in job[c].fetched
    BY <1>3 DEF Ahead, MigrateSet
  <2> QED
    BY <2>2, <2>3, HoldingNoMore
<1>4. CASE MigrateDelete(c)
  <2>1. job'[c] = Judged(job[c], job[c].cur, job[c].read)
    BY <1>4 DEF MigrateDelete, Inv, TypeOK
  <2>2. job[c].cur \in job[c].fetched
    BY <1>4 DEF Ahead, MigrateDelete
  <2> QED
    BY <1>0, <2>1, <2>2, JudgedHoldsNoMore, HoldingNoMore
<1>5. CASE job'[c] = Raised(job[c])
  <2>1. CASE job[c].pub = NoEvent
    <3>1. /\ job'[c].pub = job[c].pub /\ job'[c].known = job[c].known /\ job'[c].pc = "check"
          /\ job'[c].fetched = job[c].fetched /\ job'[c].found = job[c].found
      BY <1>0, <1>5, <2>1 DEF Raised, Job
    <3> QED
      BY <3>1, HoldingNoMore
  <2>2. CASE job[c].pub # NoEvent
    BY <1>5, <2>2, IdleIsAhead DEF Raised
  <2> QED
    BY <2>1, <2>2
<1>6. CASE job'[c] = [job[c] EXCEPT !.pc = "raise_set"]
  <2>1. /\ job'[c].pub = job[c].pub /\ job'[c].known = job[c].known /\ job'[c].pc = "raise_set"
        /\ job'[c].fetched = job[c].fetched /\ job'[c].found = job[c].found
    BY <1>0, <1>6 DEF Job
  <2> QED
    BY <2>1, HoldingNoMore
<1>7. RaiseGet(c) => job'[c] \in {Raised(job[c]), [job[c] EXCEPT !.pc = "raise_set"]}
  BY DEF RaiseGet, Inv, TypeOK
<1>8. RaiseSet(c) => job'[c] = Raised(job[c])
  BY DEF RaiseSet, Inv, TypeOK
<1> QED
  BY <1>1, <1>2, <1>3, <1>4, <1>5, <1>6, <1>7, <1>8

\* Every step of a worker keeps it ahead.
LEMMA StepIsAhead ==
  ASSUME Inv, History, Latest, NEW c \in Client, Ahead(c), Step(c)
  PROVE  Ahead(c)'
<1>1. CASE Fetch(c, "list", NoEvent) \/ \E op \in {"bind", "delete"}, k \in Conn : Fetch(c, op, k)
  BY <1>1, FetchIsAhead DEF OpName
<1>2. CASE \/ \E t \in Clock : Edit(c, t)
           \/ \E k \in Conn, t \in Clock : Save(c, k, t)
  BY <1>2, EditIsAhead, SaveIsAhead
<1>3. CASE \/ Check(c) \/ CheckLegacy(c) \/ MigrateSet(c) \/ MigrateDelete(c)
           \/ RaiseGet(c) \/ RaiseSet(c)
  BY <1>3, ListingIsAhead
<1>4. CASE Finish(c) \/ GiveUp(c) \/ Crash(c)
  <2>1. job'[c] = IdleJob
    BY <1>4 DEF Finish, GiveUp, Crash, Inv, TypeOK
  <2> QED
    BY <2>1, IdleIsAhead
<1>5. CASE Confirm(c)
  <2>1. /\ job'[c].pub = job[c].pub /\ job'[c].known = job[c].known /\ job'[c].pc = "raise_get"
        /\ job'[c].fetched = job[c].fetched /\ job'[c].found = job[c].found
    BY <1>5, JobIsTyped DEF Confirm, Inv, TypeOK, Job
  <2> QED
    BY <2>1, HoldingNoMore
<1> QED
  BY <1>1, <1>2, <1>3, <1>4, <1>5 DEF Step

\* So does every step of another worker, and of the network.
LEMMA AheadIsInductive ==
  Inv /\ History /\ Latest /\ (\A c \in Client : Ahead(c)) /\ [Next]_vars
    => (\A c \in Client : Ahead(c))'
<1> SUFFICES ASSUME Inv, History, Latest, \A c \in Client : Ahead(c), [Next]_vars,
                    NEW d \in Client
             PROVE  Ahead(d)'
  OBVIOUS
<1>1. CASE job'[d] = job[d]
  BY <1>1 DEF Ahead, At, Covers, Wins
<1>2. ASSUME NEW c \in Client, Step(c)
      PROVE  d = c \/ job'[d] = job[d]
  BY <1>2, EveryStep DEF LocalStep, Inv, TypeOK
<1> QED
  BY <1>1, <1>2, StepIsAhead DEF Next, vars

\* However many workers edit a connection at once, and whatever their clocks say, what one
\* of them publishes wins over every edit verified before the read it builds on, if the
\* read was answered by more relays than can be without it (record.ts, "or a same-second
\* edit will silently lose").  Nothing is assumed of the number of relays or of writers.
THEOREM EditsFollow == Spec => []EditsFollowTheirRead
<1>1. Init => \A c \in Client : Ahead(c)
  BY DEF Init, Ahead, IdleJob
<1>2. (\A c \in Client : Ahead(c)) => EditsFollowTheirRead
  BY DEF Ahead, EditsFollowTheirRead
<1> QED
  BY <1>1, <1>2, AheadIsInductive, LatestHolds, PTL DEF Spec
=============================================================================
