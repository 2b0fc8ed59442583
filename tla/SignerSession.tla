---------------------------- MODULE SignerSession ----------------------------
(***************************************************************************)
(* Signing in with a remote signer (NIP-46): the page's two legs (a QR code   *)
(* to scan, a bunker address to paste), the worker's signer actions, which     *)
(* run outside its queue and interleave at every await, and the ephemeral      *)
(* keys of the clients.                                                      *)
(*                                                                         *)
(* Page and worker exchange messages over two ordered channels.  An action is  *)
(* one task of either.  A leg names an attempt of the user's, the ephemeral    *)
(* key it generates, and the identity its signer reports: every leg reaches a  *)
(* signer of its own.  The signer may answer, refuse or stay silent until the  *)
(* deadline.                                                                *)
(***************************************************************************)
EXTENDS Naturals, Sequences

CONSTANTS
  Scan,      \* the QR legs the user may start
  Paste,     \* the bunker addresses the user may paste
  Request,   \* the signatures the page may ask for
  None

Leg == Scan \cup Paste

ASSUME LegAssumption ==
  /\ Scan \cap Paste = {}
  /\ None \notin Leg

VARIABLES
  \* the page
  screen,    \* "welcome", "connect", "confirm" or "dashboard"
  code,      \* a QR code is shown (bunkerConnectUri)
  busy,      \* the paste form is waiting
  preview,   \* pendingBunker: the leg whose identity is shown for confirmation
  session,   \* altSigner: the leg whose identity is signed in
  flow,      \* flow[l]: how far the page is with a leg
  \* the worker
  stage,     \* stage[l]: how far the worker is with a leg
  key,       \* the ephemeral key of each leg
  using,     \* using[l]: the leg whose key l uses
  slot,      \* nostrconnectPending: the leg whose key is offered in the QR code
  nip46,     \* the leg whose client is adopted
  request,   \* how far each signature request is
  shown,     \* shown[q]: the identity the page showed when it asked
  via,       \* via[q]: the leg whose client the request was sent with
  \* the channels
  toWorker,
  toPage

page     == <<screen, code, busy, preview, session, flow>>
clients  == <<stage, key, using, slot, nip46>>
requests == <<request, shown, via>>
vars     == <<page, clients, requests, toWorker, toPage>>

Asked == {"start", "await", "connect", "disconnect"} \X (Leg \cup {None})
         \cup {"sign"} \X Request
Reply == {"code", "connected", "failed"} \X Leg

TypeOK ==
  /\ screen \in {"welcome", "connect", "confirm", "dashboard"}
  /\ code \in BOOLEAN
  /\ busy \in BOOLEAN
  /\ preview \in Leg \cup {None}
  /\ session \in Leg \cup {None}
  /\ flow \in [Leg -> {"idle", "starting", "awaiting", "done"}]
  /\ stage \in [Leg -> {"idle", "minted", "listening", "asking", "adopted", "closed"}]
  /\ key \in [Leg -> {"none", "kept", "wiped"}]
  /\ using \in [Leg -> Leg \cup {None}]
  /\ slot \in Leg \cup {None}
  /\ nip46 \in Leg \cup {None}
  /\ \A l \in Leg : stage[l] \in {"listening", "asking", "adopted"} => using[l] # None
  /\ request \in [Request -> {"idle", "posted", "pending", "sent", "answered", "rejected",
                             "signed", "refused"}]
  /\ shown \in [Request -> Leg \cup {None}]
  /\ via \in [Request -> Leg \cup {None}]
  /\ toWorker \in Seq(Asked)
  /\ toPage \in Seq(Reply)

Init ==
  /\ screen = "welcome"
  /\ code = FALSE
  /\ busy = FALSE
  /\ preview = None
  /\ session = None
  /\ flow = [l \in Leg |-> "idle"]
  /\ stage = [l \in Leg |-> "idle"]
  /\ key = [l \in Leg |-> "none"]
  /\ using = [l \in Leg |-> None]
  /\ slot = None
  /\ nip46 = None
  /\ request = [q \in Request |-> "idle"]
  /\ shown = [q \in Request |-> None]
  /\ via = [q \in Request |-> None]
  /\ toWorker = <<>>
  /\ toPage = <<>>

-----------------------------------------------------------------------------
(* The page: what the user does.                                             *)

Post(m) == toWorker' = Append(toWorker, m)

\* "Remote signer", or "Generate a new code" under an error message.
GotoBunker(l) ==
  /\ flow[l] = "idle"
  /\ screen = "welcome" \/ (screen = "connect" /\ ~ code /\ ~ busy)
  /\ screen' = "connect"
  /\ code' = FALSE
  /\ preview' = None
  /\ flow' = [flow EXCEPT ![l] = "starting"]
  /\ Post(<<"start", l>>)
  /\ UNCHANGED <<busy, session, clients, requests, toPage>>

SubmitBunker(l) ==
  /\ flow[l] = "idle"
  /\ screen = "connect"
  /\ ~ busy
  /\ busy' = TRUE
  /\ flow' = [flow EXCEPT ![l] = "awaiting"]
  /\ Post(<<"connect", l>>)
  /\ UNCHANGED <<screen, code, preview, session, clients, requests, toPage>>

\* Backing out of an unfinished connect abandons it, where the page knows of one.
GotoWelcome ==
  /\ screen \in {"connect", "confirm"}
  /\ IF session = None /\ (code \/ preview # None)
     THEN Post(<<"disconnect", None>>)
     ELSE UNCHANGED toWorker
  /\ screen' = "welcome"
  /\ code' = FALSE
  /\ preview' = None
  /\ UNCHANGED <<busy, session, flow, clients, requests, toPage>>

Confirm ==
  /\ screen = "confirm"
  /\ preview # None
  /\ session' = preview
  /\ preview' = None
  /\ screen' = "dashboard"
  /\ UNCHANGED <<code, busy, flow, clients, requests, toWorker, toPage>>

Logout ==
  /\ session # None
  /\ session' = None
  /\ screen' = "welcome"
  /\ Post(<<"disconnect", None>>)
  /\ UNCHANGED <<code, busy, preview, flow, clients, requests, toPage>>

SignEvent(q) ==
  /\ session # None
  /\ request[q] = "idle"
  /\ request' = [request EXCEPT ![q] = "posted"]
  /\ shown' = [shown EXCEPT ![q] = session]
  /\ Post(<<"sign", q>>)
  /\ UNCHANGED <<page, clients, via, toPage>>

-----------------------------------------------------------------------------
(* The page: what the worker's replies do.                                   *)

Receive(kind, l) ==
  /\ toPage # <<>>
  /\ Head(toPage) = <<kind, l>>
  /\ toPage' = Tail(toPage)

AdoptPreview(l) ==
  /\ preview' = l
  /\ code' = FALSE
  /\ screen' = "confirm"

\* The code is there: show it and wait, unless the user has left.
ReceiveCode(l) ==
  /\ Receive("code", l)
  /\ IF screen = "connect"
     THEN /\ code' = TRUE
          /\ flow' = [flow EXCEPT ![l] = "awaiting"]
          /\ Post(<<"await", l>>)
     ELSE /\ flow' = [flow EXCEPT ![l] = "done"]
          /\ UNCHANGED <<code, toWorker>>
  /\ UNCHANGED <<screen, busy, preview, session, clients, requests>>

\* The QR leg yields where the user is elsewhere or the other leg has won.
ScanConnected(l) ==
  /\ Receive("connected", l)
  /\ flow' = [flow EXCEPT ![l] = "done"]
  /\ IF screen = "connect" /\ preview = None
     THEN AdoptPreview(l)
     ELSE UNCHANGED <<screen, code, preview>>
  /\ UNCHANGED <<busy, session, clients, requests, toWorker>>

\* The paste leg does not look.
PasteConnected(l) ==
  /\ Receive("connected", l)
  /\ flow' = [flow EXCEPT ![l] = "done"]
  /\ busy' = FALSE
  /\ AdoptPreview(l)
  /\ UNCHANGED <<session, clients, requests, toWorker>>

ScanFailed(l) ==
  /\ Receive("failed", l)
  /\ flow' = [flow EXCEPT ![l] = "done"]
  /\ IF screen = "connect" /\ preview = None /\ session = None
     THEN code' = FALSE /\ busy' = FALSE
     ELSE UNCHANGED <<code, busy>>
  /\ UNCHANGED <<screen, preview, session, clients, requests, toWorker>>

PasteFailed(l) ==
  /\ Receive("failed", l)
  /\ flow' = [flow EXCEPT ![l] = "done"]
  /\ busy' = FALSE
  /\ UNCHANGED <<screen, code, preview, session, clients, requests, toWorker>>

-----------------------------------------------------------------------------
(* The worker: keys, clients and the pending slot.                           *)
(* Mutants: nothing is wiped when an attempt is discarded; a replaced client  *)
(* is dropped without being closed; a closed client forgets its requests      *)
(* without rejecting them.                                                   *)

DiscardNothing == key
RetireNone == {}
RejectNone(L) == request

Answer(kind, l) == toPage' = Append(toPage, <<kind, l>>)

\* What discarding the pending attempt leaves of the keys.
DiscardPending == IF slot = None THEN key ELSE [key EXCEPT ![slot] = "wiped"]

\* The client retired when another is adopted or the page disconnects.
Retired == IF nip46 = None THEN {} ELSE {nip46}

\* The keys once the clients of the legs in L were closed.
Closed(L) == [k \in Leg |-> IF \E l \in L : using[l] = k THEN "wiped" ELSE key[k]]

\* The requests in the client's map.  The caller of a "pending" one is still
\* waiting for the relays to take it, that of a "sent" one for the answer alone.
Unanswered == {"pending", "sent"}

\* What a rejection makes of a request: its caller hears of it once the relays
\* are done.
Rejection(q) == IF request[q] = "pending" THEN "rejected" ELSE "refused"

\* close() rejects what the clients it closes were asked and have no answer to.
Rejected(L) == [q \in Request |-> IF request[q] \in Unanswered /\ via[q] \in L
                                  THEN Rejection(q) ELSE request[q]]

-----------------------------------------------------------------------------
(* The worker: the actions of the page.                                      *)

Take(m) ==
  /\ toWorker # <<>>
  /\ Head(toWorker) = m
  /\ toWorker' = Tail(toWorker)

\* nip46NostrconnectStart: a fresh attempt supersedes the one before.
NostrconnectStart(l) ==
  /\ Take(<<"start", l>>)
  /\ key' = [DiscardPending EXCEPT ![l] = "kept"]
  /\ slot' = l
  /\ stage' = [stage EXCEPT ![l] = "minted"]
  /\ Answer("code", l)
  /\ UNCHANGED <<page, using, nip46, requests>>

\* Mutant: listens whether an attempt is pending or not.
AwaitUnchecked(l) ==
  /\ Take(<<"await", l>>)
  /\ stage' = [stage EXCEPT ![l] = "listening"]
  /\ using' = [using EXCEPT ![l] = slot]
  /\ UNCHANGED <<page, key, slot, nip46, requests, toPage>>

\* nip46NostrconnectAwait: listens for the attempt that is pending now.
NostrconnectAwait(l) ==
  /\ Take(<<"await", l>>)
  /\ IF slot = None
     THEN /\ stage' = [stage EXCEPT ![l] = "closed"]
          /\ Answer("failed", l)
          /\ UNCHANGED using
     ELSE /\ stage' = [stage EXCEPT ![l] = "listening"]
          /\ using' = [using EXCEPT ![l] = slot]
          /\ UNCHANGED toPage
  /\ UNCHANGED <<page, key, slot, nip46, requests>>

\* nip46Connect
Connect(l) ==
  /\ Take(<<"connect", l>>)
  /\ key' = [key EXCEPT ![l] = "kept"]
  /\ using' = [using EXCEPT ![l] = l]
  /\ stage' = [stage EXCEPT ![l] = "asking"]
  /\ UNCHANGED <<page, slot, nip46, requests, toPage>>

\* nip46Disconnect
Disconnect ==
  /\ Take(<<"disconnect", None>>)
  /\ nip46' = None
  /\ slot' = None
  /\ key' = [k \in Leg |-> IF k = slot THEN "wiped" ELSE Closed(Retired)[k]]
  /\ stage' = [l \in Leg |-> IF l \in Retired THEN "closed" ELSE stage[l]]
  /\ request' = Rejected(Retired)
  /\ UNCHANGED <<page, using, shown, via, toPage>>

\* nip46SignEvent, with whatever client is adopted.
NipSignEvent(q) ==
  /\ Take(<<"sign", q>>)
  /\ request' = [request EXCEPT ![q] = IF nip46 = None THEN "refused" ELSE "pending"]
  /\ via' = [via EXCEPT ![q] = nip46]
  /\ UNCHANGED <<page, clients, shown, toPage>>

-----------------------------------------------------------------------------
(* The worker: what the signers do.                                          *)

\* Mutants: the slot is discarded, key and all; a listen that was superseded is
\* never settled.
EchoedAndDiscarded(l) ==
  /\ stage[l] = "listening"
  /\ slot = using[l]
  /\ slot' = None
  /\ key' = DiscardPending
  /\ stage' = [stage EXCEPT ![l] = "asking"]
  /\ UNCHANGED <<page, using, nip46, requests, toWorker, toPage>>

ListenFailedIfPending(l) ==
  /\ stage[l] = "listening"
  /\ slot = using[l]
  /\ stage' = [stage EXCEPT ![l] = "closed"]
  /\ slot' = None
  /\ key' = DiscardPending
  /\ Answer("failed", l)
  /\ UNCHANGED <<page, using, nip46, requests, toWorker>>

\* The secret is echoed to a listener whose attempt is still pending; its key
\* passes to the client.
Echoed(l) ==
  /\ stage[l] = "listening"
  /\ slot = using[l]
  /\ slot' = None
  /\ stage' = [stage EXCEPT ![l] = "asking"]
  /\ UNCHANGED <<page, key, using, nip46, requests, toWorker, toPage>>

\* The listen times out, cannot reach a relay, was aborted or superseded.
ListenFailed(l) ==
  /\ stage[l] = "listening"
  /\ stage' = [stage EXCEPT ![l] = "closed"]
  /\ IF slot = using[l]
     THEN slot' = None /\ key' = DiscardPending
     ELSE UNCHANGED <<slot, key>>
  /\ Answer("failed", l)
  /\ UNCHANGED <<page, using, nip46, requests, toWorker>>

\* The signer reported its identity: the client is adopted, and the one before
\* retired.  The paste leg also discards a QR attempt that is still pending.
Adopt(l) ==
  /\ stage[l] = "asking"
  /\ nip46' = l
  /\ stage' = [k \in Leg |-> IF k = l THEN "adopted"
                             ELSE IF k \in Retired THEN "closed" ELSE stage[k]]
  /\ key' = [k \in Leg |-> IF l \in Paste /\ k = slot THEN "wiped" ELSE Closed(Retired)[k]]
  /\ slot' = IF l \in Paste THEN None ELSE slot
  /\ request' = Rejected(Retired)
  /\ Answer("connected", l)
  /\ UNCHANGED <<page, using, shown, via, toWorker>>

\* The signer refuses, answers nonsense or stays silent.
ConnectFailed(l) ==
  /\ stage[l] = "asking"
  /\ stage' = [stage EXCEPT ![l] = "closed"]
  /\ key' = Closed({l})
  /\ Answer("failed", l)
  /\ UNCHANGED <<page, using, slot, nip46, requests, toWorker>>

\* The signer's answer takes a request out of the map.  A caller that still
\* waits for the relays does not have it yet.
Answered(q) ==
  /\ request[q] \in Unanswered
  /\ request' = [request EXCEPT ![q] = IF @ = "pending" THEN "answered" ELSE "signed"]
  /\ UNCHANGED <<page, clients, shown, via, toWorker, toPage>>

\* So does a refusal, a malformed answer or the timer.
Refused(q) ==
  /\ request[q] \in Unanswered
  /\ request' = [request EXCEPT ![q] = Rejection(q)]
  /\ UNCHANGED <<page, clients, shown, via, toWorker, toPage>>

\* Every relay has settled the request.  If none took it, or what came back is
\* not what was to be signed, the caller is refused; else it gets the answer,
\* or waits for it.
Published(q, ok) ==
  /\ request[q] \in {"pending", "answered", "rejected"}
  /\ request' = [request EXCEPT ![q] = IF ~ ok \/ @ = "rejected" THEN "refused"
                                       ELSE IF @ = "answered" THEN "signed" ELSE "sent"]
  /\ UNCHANGED <<page, clients, shown, via, toWorker, toPage>>

-----------------------------------------------------------------------------
UserStep ==
  \/ \E l \in Scan : GotoBunker(l)
  \/ \E l \in Paste : SubmitBunker(l)
  \/ GotoWelcome
  \/ Confirm
  \/ Logout
  \/ \E q \in Request : SignEvent(q)

ReceiveStep ==
  \/ \E l \in Scan : ReceiveCode(l) \/ ScanConnected(l) \/ ScanFailed(l)
  \/ \E l \in Paste : PasteConnected(l) \/ PasteFailed(l)

ServeStep ==
  \/ \E l \in Scan : NostrconnectStart(l) \/ NostrconnectAwait(l)
  \/ \E l \in Paste : Connect(l)
  \/ Disconnect
  \/ \E q \in Request : NipSignEvent(q)

Deadline(l) == ListenFailed(l) \/ ConnectFailed(l)

SignerStep ==
  \/ \E l \in Scan : Echoed(l)
  \/ \E l \in Leg : Adopt(l) \/ Deadline(l)
  \/ \E q \in Request : Answered(q) \/ Refused(q) \/ \E ok \in BOOLEAN : Published(q, ok)

Next == UserStep \/ ReceiveStep \/ ServeStep \/ SignerStep

(***************************************************************************)
(* Both event loops take their messages; every wait for a signer, and every   *)
(* publish, has a deadline.  Users and signers need do nothing.              *)
(***************************************************************************)
Fairness ==
  /\ WF_vars(ReceiveStep)
  /\ WF_vars(ServeStep)
  /\ \A l \in Leg : WF_vars(Deadline(l))
  /\ \A q \in Request : WF_vars(Refused(q)) /\ WF_vars(\E ok \in BOOLEAN : Published(q, ok))

Spec == Init /\ [][Next]_vars /\ Fairness

-----------------------------------------------------------------------------
\* The legs whose open client has the key of leg k.
Clients(k) == {l \in Leg : stage[l] \in {"asking", "adopted"} /\ using[l] = k}

\* No ephemeral key is merely dereferenced (cryptoWorker.ts:281-284), however
\* attempts are superseded, discarded, timed out or retired: a key that is not
\* wiped is held by the pending slot or by an open client, which can wipe it.
NoOrphanKey == \A k \in Leg : key[k] = "kept" => slot = k \/ Clients(k) # {}

\* Nobody wipes a key under a client: a key belongs to one owner at a time, and
\* passes from the pending slot to the client unharmed.
OwnKeyIntact ==
  \A k \in Leg :
    /\ slot = k => key[k] = "kept" /\ Clients(k) = {}
    /\ \A l \in Clients(k) : key[k] = "kept" /\ Clients(k) = {l}

\* The client the worker signs with is the only one that is open and connected.
OneClient == \A l \in Leg : stage[l] = "adopted" <=> nip46 = l

\* Once a client is closed by a logout or replaced, no late answer is taken for
\* what it was asked (nip46.ts:427-431), however long its signer's owner thinks.
OnlyTheCurrentIsAnswered ==
  [][\A q \in Request :
       request[q] \in Unanswered /\ request'[q] \in {"answered", "signed"} =>
         via[q] = nip46 /\ nip46 # None]_vars

\* "nothing can resolve after logout begins" (cryptoWorker.ts:294-295): the client
\* whose answer the page receives is the one adopted then.
OnlyTheCurrentSigns ==
  [][\A q \in Request :
       request[q] # "signed" /\ request'[q] = "signed" =>
         via[q] = nip46 /\ nip46 # None]_vars

\* Every leg the user starts ends at the page, and so does every request.
EveryLegEnds ==
  /\ \A l \in Leg : flow[l] # "idle" ~> flow[l] = "done"
  /\ \A q \in Request : request[q] # "idle" ~> request[q] \in {"signed", "refused"}

\* What the page asks to have signed is signed by the identity it shows, as
\* "whichever leg completes first wins" (element.ts:1340) promises.
SignedAsShown == \A q \in Request : request[q] = "signed" => via[q] = shown[q]
=============================================================================
