---------------------------- MODULE SessionCache ----------------------------
(***************************************************************************)
(* The session an origin keeps in IndexedDB so that a reload need not ask for  *)
(* the password: an encrypted record, the device key it is encrypted with,     *)
(* and a cleartext copy of the public identity.  Every page of the origin      *)
(* runs a worker of its own over the same database.                          *)
(*                                                                         *)
(* Each await of a handler is a place where another worker may run, the tab    *)
(* may die or the storage may fail, or hang.  A step below is one database      *)
(* transaction.  pc names the await a call is at; a call ends in Finish.       *)
(***************************************************************************)
EXTENDS WorkerClient

Empty == [record |-> None, key |-> None, public |-> None]

\* A record that is encrypted with no key is the plaintext of version 1.
Record(i, cap, key) == [who |-> i, cap |-> cap, key |-> key]

\* What an earlier visit left of a session: all of it, one saved before there
\* was a public record, or one in the plaintext format before that.
Left(i) ==
  LET record == Record(i, 0, 0)
  IN  {[record |-> record, key |-> 0, public |-> i],
       [record |-> record, key |-> 0, public |-> None],
       [record |-> [record EXCEPT !.key = None], key |-> None, public |-> None]}

\* The next device key or capsule that is made.
New  == count.made + 1
Made == count' = [count EXCEPT !.made = New]

\* A storage operation fails.
Fails ==
  /\ MayFault
  /\ count' = [count EXCEPT !.failures = @ + 1]
  /\ UNCHANGED <<disk, mem, signedOut>>

\* Only complete and error are listened for.  A write whose transaction is aborted
\* when it commits, for want of space, never settles; nor does what opens the
\* database while a page with an older version keeps it open, be it the first
\* read of a restore, of a save or a logout's first deletion.
Unsettling == {"add_key", "put_record", "put_public", "drop_record", "del_record", "del_key",
               "del_public", "get_record", "get_key"}

\* Nothing is stored, and the call waits for ever: as long as its worker lives.
Hang(t, i) ==
  /\ MayFault
  /\ t \notin count.hung
  /\ job[t][i].pc \in Unsettling
  /\ count' = [count EXCEPT !.failures = @ + 1, !.hung = @ \cup {t}]
  /\ UNCHANGED <<disk, mem, signedOut, job, reply, page>>

-----------------------------------------------------------------------------
(* The device key: read it, create it, or take the one another page created    *)
(* in between.                                                             *)

Restoring(t, i) == job[t][i].op = "restore"

HasKey(t, i, key) ==
  /\ job' = [job EXCEPT ![t][i] =
       [@ EXCEPT !.key = key, !.pc = IF Restoring(t, i) THEN "decrypt" ELSE "put_record"]]
  /\ UNCHANGED <<reply, page>>

\* Without a key a restore finds no session, and a save leaves the record out.
NoKey(t, i) ==
  IF Restoring(t, i)
    THEN Finish(t, i, None)
    ELSE To(t, i, "put_public")

GetKey(t, i) ==
  /\ At(t, i, "get_key")
  /\ \/ /\ disk.key # None
        /\ HasKey(t, i, disk.key)
        /\ UNCHANGED storage
     \/ /\ disk.key = None
        /\ To(t, i, "add_key")
        /\ UNCHANGED storage
     \/ NoKey(t, i) /\ Fails

\* Mutant: put() instead of add().
PutKey(t, i) ==
  /\ At(t, i, "add_key")
  /\ disk' = [disk EXCEPT !.key = New]
  /\ HasKey(t, i, New)
  /\ Made
  /\ UNCHANGED <<mem, signedOut>>

\* add(), rather than put(): the first page to create the key wins.
AddKey(t, i) ==
  /\ At(t, i, "add_key")
  /\ \/ /\ disk.key = None
        /\ disk' = [disk EXCEPT !.key = New]
        /\ HasKey(t, i, New)
        /\ Made
        /\ UNCHANGED <<mem, signedOut>>
     \/ /\ disk.key # None
        /\ To(t, i, "raced_key")
        /\ UNCHANGED storage
     \/ To(t, i, "raced_key") /\ Fails

RacedKey(t, i) ==
  /\ At(t, i, "raced_key")
  /\ \/ /\ disk.key # None
        /\ HasKey(t, i, disk.key)
        /\ UNCHANGED storage
     \/ /\ disk.key = None
        /\ NoKey(t, i)
        /\ UNCHANGED storage
     \/ NoKey(t, i) /\ Fails

-----------------------------------------------------------------------------
(* Saving: the record, then the public identity.  A failure is ignored.        *)

PutRecord(t, i) ==
  /\ At(t, i, "put_record")
  /\ To(t, i, "put_public")
  /\ \/ /\ disk' = [disk EXCEPT !.record = [job[t][i].record EXCEPT !.key = job[t][i].key]]
        /\ UNCHANGED <<mem, count, signedOut>>
     \/ Fails

Answer(t, i) == IF job[t][i].op = "change" THEN job[t][i].who ELSE mem[t].signer

PutPublic(t, i) ==
  /\ At(t, i, "put_public")
  /\ Finish(t, i, Answer(t, i))
  /\ \/ /\ disk' = IF mem[t].signer = None THEN disk
                   ELSE [disk EXCEPT !.public = mem[t].signer]
        /\ UNCHANGED <<mem, count, signedOut>>
     \/ Fails

-----------------------------------------------------------------------------
(* Loading.                                                                *)

GetRecord(t, i) ==
  /\ At(t, i, "get_record")
  /\ \/ /\ disk.record = None
        /\ Finish(t, i, None)
        /\ UNCHANGED storage
     \/ /\ disk.record # None
        /\ job' = [job EXCEPT ![t][i] =
             [@ EXCEPT !.record = disk.record,
                       !.pc = IF disk.record.key = None THEN "drop_record" ELSE "get_key"]]
        /\ UNCHANGED <<storage, reply, page>>
     \/ Finish(t, i, None) /\ Fails

\* A plaintext record is removed, never used.
DropRecord(t, i) ==
  /\ At(t, i, "drop_record")
  /\ Finish(t, i, None)
  /\ \/ /\ disk' = [disk EXCEPT !.record = None]
        /\ UNCHANGED <<mem, count, signedOut>>
     \/ Fails

\* A record that another key encrypted is no session, and no error.
Readable(record, key) == record.key = key

\* Mutant: a restored session is used without writing the public identity.
DecryptOnly(t, i) ==
  /\ At(t, i, "decrypt")
  /\ IF Readable(job[t][i].record, job[t][i].key)
       THEN /\ mem' = [mem EXCEPT ![t] =
                 [signer |-> job[t][i].record.who, pend |-> FALSE, cap |-> job[t][i].record.cap]]
            /\ Finish(t, i, job[t][i].record.who)
       ELSE Finish(t, i, None) /\ UNCHANGED mem
  /\ UNCHANGED <<disk, count, signedOut>>

\* The restored session is adopted; the public identity is written again, which
\* heals a missing one.
Decrypt(t, i) ==
  /\ At(t, i, "decrypt")
  /\ IF Readable(job[t][i].record, job[t][i].key)
       THEN /\ mem' = [mem EXCEPT ![t] =
                 [signer |-> job[t][i].record.who, pend |-> FALSE, cap |-> job[t][i].record.cap]]
            /\ To(t, i, "put_public")
       ELSE Finish(t, i, None) /\ UNCHANGED mem
  /\ UNCHANGED <<disk, count, signedOut>>

-----------------------------------------------------------------------------
(* Clearing: the record, its key, the public identity.                        *)

DelRecord(t, i) ==
  /\ At(t, i, "del_record")
  /\ \/ /\ disk' = [disk EXCEPT !.record = None]
        /\ To(t, i, "del_key")
        /\ UNCHANGED <<mem, count, signedOut>>
     \/ To(t, i, "del_public") /\ Fails

DelKey(t, i) ==
  /\ At(t, i, "del_key")
  /\ To(t, i, "del_public")
  /\ \/ disk' = [disk EXCEPT !.key = None] /\ UNCHANGED <<mem, count, signedOut>>
     \/ Fails

DelPublic(t, i) ==
  /\ At(t, i, "del_public")
  /\ Finish(t, i, None)
  /\ \/ disk' = [disk EXCEPT !.public = None] /\ UNCHANGED <<mem, count, signedOut>>
     \/ Fails

StorageStep(t, i) ==
  /\ t \notin count.hung
  /\ \/ GetKey(t, i) \/ AddKey(t, i) \/ RacedKey(t, i)
     \/ PutRecord(t, i) \/ PutPublic(t, i)
     \/ GetRecord(t, i) \/ DropRecord(t, i) \/ Decrypt(t, i)
     \/ DelRecord(t, i) \/ DelKey(t, i) \/ DelPublic(t, i)
=============================================================================
